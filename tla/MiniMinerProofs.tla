--------------------------- MODULE MiniMinerProofs ---------------------------
(***************************************************************************)
(* Proofs about the driver, the line and the miner together, for every set *)
(* of work units, every size of unit, packets and buffer, and any number   *)
(* of restarts and exits, unless a theorem says otherwise.                 *)
(***************************************************************************)
EXTENDS MiniMiner, TLAPS

-----------------------------------------------------------------------------
(* Bytes *)

\* What the assumption on the sizes and bounds says of each.
LEMMA Sizes ==
  /\ WorkBytes \in Nat /\ WorkBytes > 0 /\ Packet \in Nat /\ Packet > 0
  /\ InPacket \in Nat /\ InPacket > 0 /\ RxSize \in Nat /\ MaxDrain \in Nat /\ MaxDrain > 0
  /\ MaxOut \in Nat /\ MaxIn \in Nat /\ MaxRestarts \in Nat /\ MaxExits \in Nat
BY SizesAssumption

\* The command characters and the nonce_valid flag are bytes.
LEMMA OneByte ==
  /\ \A c \in {"W", "R", "A", "S", "I"} : Char(c) \in Byte
  /\ Num(0) \in Byte /\ Num(1) \in Byte
BY DEF Byte

\* A unit goes over the line as WorkBytes bytes, the i-th being its own i-th.
LEMMA WorkUnitBytes ==
  ASSUME NEW w \in Work
  PROVE  /\ WorkUnit(w) \in Seq(Byte) /\ Len(WorkUnit(w)) = WorkBytes
         /\ \A i \in 1..WorkBytes : WorkUnit(w)[i] = <<"work", w, i>>
<1>1. \A i \in 1..WorkBytes : <<"work", w, i>> \in Byte
  BY DEF Byte
<1> QED BY <1>1, Sizes DEF WorkUnit

\* A nonce is four bytes on the line.
LEMMA NonceBytesType ==
  ASSUME NEW n \in Units
  PROVE  NonceBytes(n) \in Seq(Byte) /\ Len(NonceBytes(n)) = 4
<1>1. n # NoWork => \A i \in 1..4 : <<"nonce", n, i>> \in Byte
  BY DEF Byte, Units
<1> DEFINE four == 4
<1>2. NonceBytes(n) \in [1..four -> Byte]
  BY <1>1, OneByte DEF NonceBytes
<1>3. four \in Nat
  OBVIOUS
<1> HIDE DEF four
<1>4. NonceBytes(n) \in Seq(Byte) /\ Len(NonceBytes(n)) = four
  BY <1>2, <1>3
<1> QED BY <1>4 DEF four

\* The States of the miner.
States == [state : {"W", "R"}, nonce_valid : BOOLEAN, nonce : Units]

\* A State reply is seven bytes, whatever the command and the state.
LEMMA StateReplyType ==
  ASSUME NEW cmd \in {"W", "R", "A", "S"}, NEW s \in States
  PROVE  StateReply(cmd, s) \in Seq(Byte) /\ Len(StateReply(cmd, s)) = 7
<1> DEFINE head == <<Char(cmd), Char(s.state), Num(IF s.nonce_valid THEN 1 ELSE 0)>>
<1>1. Char(cmd) \in Byte /\ Char(s.state) \in Byte
  BY OneByte DEF States
<1>2. Num(IF s.nonce_valid THEN 1 ELSE 0) \in Byte
  BY OneByte
<1> DEFINE three == 3
           four == 4
           nb == NonceBytes(s.nonce)
<1>3. head \in Seq(Byte) /\ Len(head) = three
  BY <1>1, <1>2
<1>4. nb \in Seq(Byte) /\ Len(nb) = four
  BY NonceBytesType DEF States
<1>5. three \in Nat /\ four \in Nat /\ three + four = 7
  OBVIOUS
<1> HIDE DEF head, nb, three, four
<1>6. head \o nb \in Seq(Byte) /\ Len(head \o nb) = three + four
  BY <1>3, <1>4, <1>5
<1> QED BY <1>5, <1>6 DEF StateReply, head, nb

\* The reply to "I" is fourteen bytes.
LEMMA IdReplyType == IdReply \in Seq(Byte) /\ Len(IdReply) = 14
<1> DEFINE id == [i \in 1..12 |-> <<"id", NoWork, i>>]
<1>1. \A i \in 1..12 : <<"id", NoWork, i>> \in Byte
  BY DEF Byte
<1> DEFINE head == <<Char("I"), Num(1)>>
           two == 2
           twelve == 12
<1>2. id \in [1..twelve -> Byte] /\ two \in Nat /\ twelve \in Nat /\ two + twelve = 14
  BY <1>1
<1>3. head \in Seq(Byte) /\ Len(head) = two
  BY OneByte
<1> HIDE DEF id, head, two, twelve
<1>4. id \in Seq(Byte) /\ Len(id) = twelve
  BY <1>2
<1>5. head \o id \in Seq(Byte) /\ Len(head \o id) = two + twelve
  BY <1>2, <1>3, <1>4
<1> QED BY <1>2, <1>5 DEF IdReply, id, head

\* What is left after a read of n bytes is the rest, in order.
LEMMA DropType ==
  ASSUME NEW s \in Seq(Byte), NEW n \in Nat, n <= Len(s)
  PROVE  /\ Drop(s, n) \in Seq(Byte) /\ Len(Drop(s, n)) = Len(s) - n
         /\ \A k \in 1..(Len(s) - n) : Drop(s, n)[k] = s[n + k]
BY DEF Drop

\* Cutting a write into packets gives sequences of bytes.
LEMMA PacketsType ==
  ASSUME NEW s \in Seq(Byte)
  PROVE  Packets(s) \in Seq(Seq(Byte))
<1> DEFINE n == (Len(s) + Packet - 1) \div Packet
           from(p) == (p - 1) * Packet + 1
           to(p) == IF p * Packet < Len(s) THEN p * Packet ELSE Len(s)
<1>1. n \in Nat
  BY Sizes
<1>2. ASSUME NEW p \in 1..n PROVE SubSeq(s, from(p), to(p)) \in Seq(Byte)
  <2>1. from(p) \in Nat /\ from(p) >= 1 /\ to(p) \in Nat /\ to(p) <= Len(s)
    <3>1. p \in Nat /\ p - 1 \in Nat /\ Len(s) \in Nat
      BY <1>1
    <3>2. (p - 1) * Packet \in Nat /\ p * Packet \in Nat
      BY <3>1, Sizes
    <3> QED BY <3>1, <3>2
  <2> HIDE DEF from, to
  <2> QED BY <2>1
<1>3. Packets(s) = [p \in 1..n |-> SubSeq(s, from(p), to(p))]
  BY DEF Packets
<1> HIDE DEF n, from, to
<1> QED BY <1>1, <1>2, <1>3

-----------------------------------------------------------------------------
(* Type correctness *)

\* The initial states are well typed.
LEMMA TypeInit == Init => TypeOK
<1> SUFFICES ASSUME Init PROVE TypeOK
  OBVIOUS
<1> USE DEF Init, HostInit, MinerInit, Miner!Init
<1>1. ident \in Seq(Byte)
  BY IdReplyType
<1>2. NoWork \in Units /\ last = <<NoWork, NonceBytes(NoWork)>>
  BY DEF Units
<1>3. last \in (Work \cup {NoWork}) \X Seq(Byte)
  BY <1>2, NonceBytesType
<1>4. restarts \in 0..MaxRestarts /\ exits \in 0..MaxExits /\ drained \in 0..MaxDrain
  BY Sizes
<1>5. state \in States /\ worktask \in Units
  BY <1>2 DEF States
<1>6. outq \in Seq(Seq(Byte)) /\ ttyin \in Seq(Byte) /\ buffer_ \in Seq(Byte) /\ tx \in Seq(Byte)
  OBVIOUS
<1>7. /\ hpc \in {"closed", "probe", "found", "idle", "scan"} /\ work \in Work \cup {NoWork}
      /\ work_restart \in BOOLEAN /\ work_timer \in BOOLEAN
  BY Zenon
<1> QED BY <1>1, <1>3, <1>4, <1>5, <1>6, <1>7 DEF TypeOK, States

\* What a command changes has its type, whatever the bytes of buffer_.
LEMMA TypeProcess ==
  ASSUME TypeOK, serialProcess(buffer_), buffer_ # <<>>
  PROVE  /\ buffer_' \in Seq(Byte) /\ tx' \in Seq(Byte)
         /\ worktask' \in Units /\ work_timer' \in BOOLEAN /\ state' \in States
<1>0. /\ buffer_ \in Seq(Byte) /\ tx \in Seq(Byte) /\ worktask \in Units
      /\ work_timer \in BOOLEAN /\ state \in States
  BY DEF TypeOK, States
<1>1. Tail(buffer_) \in Seq(Byte)
  BY <1>0
<1>2. \A cmd \in {"W", "R", "A", "S"}, s \in States : tx \o StateReply(cmd, s) \in Seq(Byte)
  <2>1. SUFFICES ASSUME NEW cmd \in {"W", "R", "A", "S"}, NEW s \in States
                 PROVE  tx \o StateReply(cmd, s) \in Seq(Byte)
    OBVIOUS
  <2>2. StateReply(cmd, s) \in Seq(Byte)
    BY StateReplyType
  <2> QED BY <1>0, <2>2
<1>3. CASE HandleWork(buffer_)
  <2>1. CASE Len(buffer_) > WorkBytes
    <3> DEFINE w == Decode(SubSeq(buffer_, 2, WorkBytes + 1))
    <3>1. w \in Units
      BY DEF Decode, Units
    <3> HIDE DEF w
    <3>2. /\ Miner!Start(w) /\ buffer_' = Drop(buffer_, WorkBytes + 1) /\ work_timer' = TRUE
          /\ tx' = tx \o StateReply("W", state')
      BY <1>3, <2>1 DEF HandleWork, w
    <3>3. worktask' = w /\ state' \in States
      BY <3>2 DEF Miner!Start, States, Units
    <3>4. Drop(buffer_, WorkBytes + 1) \in Seq(Byte)
      <4>1. WorkBytes + 1 \in Nat /\ WorkBytes + 1 <= Len(buffer_)
        BY <1>0, <2>1, Sizes
      <4> QED BY <1>0, <4>1, DropType
    <3> QED BY <1>2, <3>1, <3>2, <3>3, <3>4
  <2>2. CASE ~(Len(buffer_) > WorkBytes)
    BY <1>0, <1>3, <2>2 DEF HandleWork, minerVars
  <2> QED BY <2>1, <2>2
<1>4. CASE HandleStop(buffer_)
  <2>1. PICK cmd \in {"R", "A"} \cap CommandsOf(Head(buffer_)) :
               /\ Miner!Abort /\ buffer_' = Tail(buffer_)
               /\ tx' = tx \o StateReply(cmd, state') /\ UNCHANGED work_timer
    BY <1>4 DEF HandleStop
  <2>2. state' \in States /\ worktask' = worktask
    BY <1>0, <2>1, Zenon DEF Miner!Abort, States
  <2> QED BY <1>0, <1>1, <1>2, <2>1, <2>2
<1>5. CASE HandleStatus(buffer_)
  BY <1>0, <1>1, <1>2, <1>5 DEF HandleStatus, minerVars
<1>6. CASE HandleIdent(buffer_)
  <2>1. tx \o IdReply \in Seq(Byte)
    BY <1>0, IdReplyType
  <2> QED BY <1>0, <1>1, <1>6, <2>1 DEF HandleIdent, minerVars
<1>7. CASE HandleOther(buffer_)
  BY <1>0, <1>1, <1>7 DEF HandleOther, minerVars
<1> QED BY <1>3, <1>4, <1>5, <1>6, <1>7 DEF serialProcess

\* No packet is empty, so a command is processed only with a byte to look at.
HasByte ==
  (\A i \in 1..Len(outq) : outq[i] # <<>>) /\ (drained > 0 => buffer_ # <<>>)

\* No packet of a write is empty.
LEMMA PacketsNonempty ==
  ASSUME NEW s \in Seq(Byte), NEW i \in 1..Len(Packets(s))
  PROVE  Packets(s)[i] # <<>>
<1> DEFINE n == (Len(s) + Packet - 1) \div Packet
           from == (i - 1) * Packet + 1
           to == IF i * Packet < Len(s) THEN i * Packet ELSE Len(s)
<1>1. n \in Nat /\ Len(s) \in Nat
  BY Sizes
<1>2. Packets(s) = [p \in 1..n |-> SubSeq(s, (p - 1) * Packet + 1,
                      IF p * Packet < Len(s) THEN p * Packet ELSE Len(s))]
  BY DEF Packets
<1>3. Len(Packets(s)) = n /\ i \in 1..n
  <2> HIDE DEF n
  <2> QED BY <1>1, <1>2
<1>4. Packets(s)[i] = SubSeq(s, from, to)
  BY <1>2, <1>3, Zenon
<1>5. n * Packet <= Len(s) + Packet - 1
  BY <1>1, Sizes
<1>6. (i - 1) * Packet \in Nat /\ i * Packet = (i - 1) * Packet + Packet
      /\ i * Packet <= n * Packet
  BY <1>1, <1>3, Sizes
<1>7. from \in Nat /\ to \in Nat /\ from >= 1 /\ from <= to /\ to <= Len(s)
  <2> HIDE DEF n
  <2> DEFINE a == (i - 1) * Packet
             b == i * Packet
             c == n * Packet
  <2>1. a \in Nat /\ b = a + Packet /\ b <= c /\ c <= Len(s) + Packet - 1
        /\ from = a + 1 /\ to = IF b < Len(s) THEN b ELSE Len(s)
    BY <1>5, <1>6
  <2>2. c \in Nat
    BY <1>1, Sizes
  <2> HIDE DEF a, b, c, from, to
  <2> QED BY <1>1, <2>1, <2>2, Sizes
<1> HIDE DEF from, to, n
<1>8. Len(SubSeq(s, from, to)) = (to - from) + 1
  BY <1>7
<1>9. Len(SubSeq(s, from, to)) # 0
  BY <1>7, <1>8
<1>10. Len(<<>>) = 0
  OBVIOUS
<1> QED BY <1>4, <1>9, <1>10, Zenon

TypeInv == TypeOK /\ HasByte

\* A work command is a sequence of bytes.
LEMMA CommandBytes ==
  ASSUME NEW w \in Work
  PROVE  <<Char("W")>> \o WorkUnit(w) \in Seq(Byte)
<1>1. <<Char("W")>> \in Seq(Byte)
  BY OneByte
<1> QED BY <1>1, WorkUnitBytes

\* The miner's steps.
LEMMA TypeMiner ==
  ASSUME TypeInv, Drain \/ Process \/ ReportFound \/ WorkExpired
  PROVE  TypeInv'
<1>0. /\ outq \in Seq(Seq(Byte)) /\ drained \in 0..MaxDrain /\ drained \in Nat
      /\ buffer_ \in Seq(Byte) /\ tx \in Seq(Byte)
      /\ worktask \in Units /\ work_timer \in BOOLEAN /\ state \in States
  BY Sizes DEF TypeInv, TypeOK, States
<1>1. CASE Drain
  <2>1. /\ outq # <<>> /\ drained < MaxDrain /\ drained' = drained + 1
        /\ buffer_' = buffer_ \o Head(outq) /\ outq' = Tail(outq)
        /\ UNCHANGED <<hostVars, tx, minerVars, bounds>>
    BY <1>1 DEF Drain
  <2>2. /\ Head(outq) \in Seq(Byte) /\ Tail(outq) \in Seq(Seq(Byte)) /\ Head(outq) = outq[1]
        /\ 1 \in 1..Len(outq)
    BY <1>0, <2>1
  <2>3. Head(outq) # <<>>
    BY <2>2 DEF TypeInv, HasByte
  <2>4. buffer_' \in Seq(Byte) /\ buffer_' # <<>>
    BY <1>0, <2>1, <2>2, <2>3
  <2>5. \A i \in 1..Len(Tail(outq)) : i + 1 \in 1..Len(outq) /\ Tail(outq)[i] = outq[i + 1]
    BY <1>0, <2>1
  <2>6. drained' \in 0..MaxDrain
    BY <1>0, <2>1, Sizes
  <2>7. HasByte'
    BY <2>1, <2>4, <2>5 DEF TypeInv, HasByte
  <2>8. TypeOK'
    BY <2>1, <2>2, <2>4, <2>6 DEF TypeInv, TypeOK, hostVars, minerVars, bounds
  <2> QED BY <2>7, <2>8 DEF TypeInv
<1>2. CASE Process
  <2>1. buffer_ # <<>> /\ serialProcess(buffer_) /\ drained' = 0
        /\ UNCHANGED <<hostVars, outq, bounds>>
    BY <1>2 DEF Process, TypeInv, HasByte
  <2>2. /\ buffer_' \in Seq(Byte) /\ tx' \in Seq(Byte)
        /\ worktask' \in Units /\ work_timer' \in BOOLEAN /\ state' \in States
    BY <2>1, TypeProcess DEF TypeInv
  <2>3. HasByte'
    BY <2>1 DEF TypeInv, HasByte
  <2>4. drained' \in 0..MaxDrain
    BY <2>1, Sizes
  <2>5. TypeOK'
    BY <2>1, <2>2, <2>4 DEF TypeInv, TypeOK, States, hostVars, bounds
  <2> QED BY <2>3, <2>5 DEF TypeInv
<1>3. ASSUME state' \in States, worktask' = worktask, work_timer' = FALSE,
             tx' = tx \o StateReply("S", state'),
             UNCHANGED <<hostVars, outq, drained, buffer_, bounds>>
      PROVE  TypeInv'
  <2>1. StateReply("S", state') \in Seq(Byte)
    BY <1>3, StateReplyType
  <2>2. tx' \in Seq(Byte)
    BY <1>0, <1>3, <2>1
  <2>3. HasByte'
    BY <1>3 DEF TypeInv, HasByte
  <2>4. TypeOK'
    BY <1>3, <2>2, Zenon DEF TypeInv, TypeOK, States, hostVars, bounds
  <2> QED BY <2>3, <2>4 DEF TypeInv
<1>4. CASE ReportFound
  <2>1. state' \in States /\ worktask' = worktask
    BY <1>0, <1>4 DEF ReportFound, Miner!Found, Solves, States
  <2> QED BY <1>3, <1>4, <2>1, Zenon DEF ReportFound
<1>5. CASE WorkExpired
  <2>1. state' \in States
    BY <1>5 DEF WorkExpired, States, Units
  <2> QED BY <1>3, <1>5, <2>1, Zenon DEF WorkExpired
<1> QED BY <1>1, <1>2, <1>4, <1>5

\* Fetching and discarding replies.
LEMMA LineBytes ==
  ASSUME TypeOK
  PROVE  /\ \A n \in 0..Len(tx) : Drop(tx, n) \in Seq(Byte)
         /\ HostIn => ttyin' \in Seq(Byte) /\ tx' \in Seq(Byte)
         /\ Open => ttyin' \in Seq(Byte) /\ tx' \in Seq(Byte)
<1>1. ttyin \in Seq(Byte) /\ tx \in Seq(Byte) /\ Len(tx) \in Nat
  BY DEF TypeOK
<1>2. \A n \in 0..Len(tx) : Drop(tx, n) \in Seq(Byte)
  BY <1>1, DropType
<1>3. ASSUME HostIn PROVE ttyin' \in Seq(Byte) /\ tx' \in Seq(Byte)
  <2> DEFINE n == IF Len(tx) < InPacket THEN Len(tx) ELSE InPacket
  <2>1. n \in 0..Len(tx)
    BY <1>1, Sizes
  <2>2. ttyin' = ttyin \o SubSeq(tx, 1, n) /\ tx' = Drop(tx, n)
    BY <1>3 DEF HostIn
  <2> HIDE DEF n
  <2>3. SubSeq(tx, 1, n) \in Seq(Byte)
    BY <1>1, <2>1
  <2> QED BY <1>1, <1>2, <2>1, <2>2, <2>3
<1>4. ASSUME Open PROVE ttyin' \in Seq(Byte) /\ tx' \in Seq(Byte)
  BY <1>2, <1>4 DEF Open
<1> QED BY <1>2, <1>3, <1>4

\* The driver's steps.
LEMMA TypeHost ==
  ASSUME TypeInv, Driver \/ Restart \/ HostExit \/ HostIn
  PROVE  TypeInv'
<1>0. /\ hpc \in {"closed", "probe", "found", "idle", "scan"}
      /\ work \in Work \cup {NoWork} /\ work_restart \in BOOLEAN
      /\ ident \in Seq(Byte) /\ last \in (Work \cup {NoWork}) \X Seq(Byte)
      /\ outq \in Seq(Seq(Byte)) /\ ttyin \in Seq(Byte) /\ Len(ttyin) \in Nat /\ tx \in Seq(Byte)
      /\ restarts \in 0..MaxRestarts /\ exits \in 0..MaxExits
  BY DEF TypeInv, TypeOK
<1> USE DEF hostVars, minerVars, bounds
<1>1. CASE Probe
  <2>1. <<Char("I")>> \in Seq(Byte)
    BY OneByte
  <2>2. outq' = Packets(<<Char("I")>>)
    BY <1>1 DEF Probe
  <2>3. outq' \in Seq(Seq(Byte)) /\ \A i \in 1..Len(outq') : outq'[i] # <<>>
    BY <2>1, <2>2, PacketsType, PacketsNonempty, Zenon
  <2>4. ttyin' \in Seq(Byte) /\ tx' \in Seq(Byte)
    BY <1>1, LineBytes DEF Probe, TypeInv
  <2> QED BY <1>1, <2>3, <2>4, Zenon DEF Probe, TypeInv, TypeOK, HasByte
<1>2. CASE ProbeOk
  <2>1. ident' = SubSeq(ttyin, 1, Len(IdReply)) /\ Len(ttyin) >= Len(IdReply)
    BY <1>2 DEF ProbeOk
  <2>2. Len(IdReply) \in Nat
    BY IdReplyType
  <2>3. ident' \in Seq(Byte)
    BY <1>0, <2>1, <2>2
  <2> QED BY <1>2, <2>3 DEF ProbeOk, TypeInv, TypeOK, HasByte
<1>3. CASE ProbeFails
  BY <1>3 DEF ProbeFails, TypeInv, TypeOK, HasByte
<1>4. CASE ThreadInit
  <2>1. ttyin' \in Seq(Byte) /\ tx' \in Seq(Byte)
    BY <1>4, LineBytes DEF ThreadInit, TypeInv
  <2> QED BY <1>4, <2>1 DEF ThreadInit, TypeInv, TypeOK, HasByte
<1>5. ASSUME NEW w \in Work, Scan(w) PROVE TypeInv'
  <2> DEFINE p == Packets(<<Char("W")>> \o WorkUnit(w))
  <2>1. p \in Seq(Seq(Byte)) /\ \A i \in 1..Len(p) : p[i] # <<>>
    BY CommandBytes, PacketsType, PacketsNonempty, Zenon
  <2>2. outq' = outq \o p
    BY <1>5 DEF Scan
  <2> HIDE DEF p
  <2>3. /\ outq' \in Seq(Seq(Byte))
        /\ \A i \in 1..Len(outq') :
              \/ i \in 1..Len(outq) /\ outq'[i] = outq[i]
              \/ i - Len(outq) \in 1..Len(p) /\ outq'[i] = p[i - Len(outq)]
    BY <1>0, <2>1, <2>2
  <2>4. \A i \in 1..Len(outq') : outq'[i] # <<>>
    BY <2>1, <2>3, Zenon DEF TypeInv, HasByte
  <2> QED BY <1>5, <2>3, <2>4, Zenon DEF Scan, TypeInv, TypeOK, HasByte
<1>6. CASE ScanBreak
  BY <1>6 DEF ScanBreak, TypeInv, TypeOK, HasByte
<1>7. CASE ScanRead
  <2> DEFINE four == 4
             seven == 7
  <2>1. four \in Nat /\ seven \in Nat /\ four > 0 /\ four < seven
    OBVIOUS
  <2>a. Len(ttyin) >= seven /\ ttyin' = Drop(ttyin, seven)
    BY <1>7 DEF ScanRead
  <2> HIDE DEF four, seven
  <2>b. ttyin' \in Seq(Byte)
    BY <1>0, <2>1, <2>a, DropType
  <2>c. SubSeq(ttyin, four, seven) \in Seq(Byte)
    BY <1>0, <2>1, <2>a
  <2>2. ttyin' \in Seq(Byte) /\ SubSeq(ttyin, 4, 7) \in Seq(Byte)
    BY <2>b, <2>c DEF four, seven
  <2>3. ASSUME hpc = "scan" PROVE work \in Work \cup {NoWork}
    BY <1>0
  <2>4. <<work, SubSeq(ttyin, 4, 7)>> \in (Work \cup {NoWork}) \X Seq(Byte)
    BY <1>0, <2>2, Zenon
  <2>5. last' \in (Work \cup {NoWork}) \X Seq(Byte) /\ hpc' \in {"idle", "scan"}
    BY <1>0, <1>7, <2>4 DEF ScanRead
  <2> QED BY <1>7, <2>2, <2>5 DEF ScanRead, TypeInv, TypeOK, HasByte
<1>8. CASE ScanReadShort
  <2>1. hpc' \in {"idle", "scan"} /\ ttyin' \in Seq(Byte)
    BY <1>8 DEF ScanReadShort
  <2>2. UNCHANGED <<work, work_restart, ident, last, outq, drained, buffer_, tx, minerVars, bounds>>
    BY <1>8 DEF ScanReadShort
  <2> QED BY <2>1, <2>2, Zenon DEF TypeInv, TypeOK, HasByte
<1>9. CASE Restart
  <2>1. restarts' \in 0..MaxRestarts
    BY <1>0, <1>9, Sizes DEF Restart
  <2> QED BY <1>9, <2>1 DEF Restart, TypeInv, TypeOK, HasByte
<1>10. CASE HostExit
  <2>1. exits' \in 0..MaxExits
    BY <1>0, <1>10, Sizes DEF HostExit
  <2> QED BY <1>10, <2>1 DEF HostExit, TypeInv, TypeOK, HasByte
<1>11. CASE HostIn
  <2>1. ttyin' \in Seq(Byte) /\ tx' \in Seq(Byte)
    BY <1>11, LineBytes DEF TypeInv
  <2> QED BY <1>11, <2>1 DEF HostIn, TypeInv, TypeOK, HasByte
<1> QED BY <1>1, <1>2, <1>3, <1>4, <1>5, <1>6, <1>7, <1>8, <1>9, <1>10, <1>11 DEF Driver

\* Every step keeps the types.
LEMMA TypeNext == TypeInv /\ [Next]_vars => TypeInv'
<1> SUFFICES ASSUME TypeInv, [Next]_vars PROVE TypeInv'
  OBVIOUS
<1>1. CASE UNCHANGED vars
  BY <1>1 DEF vars, hostVars, minerVars, bounds, TypeInv, TypeOK, HasByte
<1> QED BY <1>1, TypeMiner, TypeHost DEF Next

\* The type invariant, with the fact that there is a byte at all.
LEMMA TypeInvariant == Spec => []TypeInv
<1>1. Init => TypeInv
  <2>1. Init => HasByte
    BY DEF Init, HostInit, MinerInit, HasByte
  <2> QED BY <2>1, TypeInit DEF TypeInv
<1> QED BY <1>1, TypeNext, PTL DEF Spec

\* Every variable of driver, line and miner has its type, also when a parser out of
\* step takes bytes of a work unit for commands.
THEOREM MinerTypes == Spec => []TypeOK
<1>1. TypeInv => TypeOK
  BY DEF TypeInv
<1> QED BY <1>1, TypeInvariant, PTL

-----------------------------------------------------------------------------
(* In step: as long as no scan is broken off and no host program ends, driver and *)
(* miner take turns, and at every point of a turn the line holds just what that   *)
(* point has put on it.                                                           *)

Cmd(w) == <<Char("W")>> \o WorkUnit(w)
CmdLen == WorkBytes + 1
Parts == (CmdLen + Packet - 1) \div Packet

\* Bytes of a command in its first c packets, and these bytes.
Upto(c) == IF c * Packet < CmdLen THEN c * Packet ELSE CmdLen
Part(w, c) == SubSeq(Cmd(w), 1, Upto(c))

Started == [state |-> "W", nonce_valid |-> FALSE, nonce |-> NoWork]
Stopped == [state |-> "R", nonce_valid |-> FALSE, nonce |-> NoWork]
Solved(w) == [state |-> "R", nonce_valid |-> TRUE, nonce |-> w]

OutEmpty == outq = <<>> /\ drained = 0 /\ buffer_ = <<>>
InEmpty == ttyin = <<>> /\ tx = <<>>
AtRest == state.state = "R" /\ ~work_timer

\* mmo_detect_custom waits for the identity: the 'I' is on its way, or in buffer_, or
\* its answer is on its way.
Probing ==
  /\ AtRest
  /\ \/ outq = <<<<Char("I")>>>> /\ drained = 0 /\ buffer_ = <<>> /\ InEmpty
     \/ outq = <<>> /\ drained = 1 /\ buffer_ = <<Char("I")>> /\ InEmpty
     \/ OutEmpty /\ ttyin \o tx = IdReply

\* mmo_scanhash waits.  Of the command's packets the first c are in buffer_ ...
Sending ==
  /\ AtRest /\ InEmpty
  /\ \E c \in 0..Parts :
       /\ buffer_ = Part(work, c) /\ outq = SubSeq(Packets(Cmd(work)), c + 1, Parts)
       /\ (c = 0 => drained = 0) /\ (c = Parts => drained > 0)

\* ... or the unit is in work and its start is announced or read ...
Working ==
  /\ OutEmpty /\ worktask = work /\ state = Started /\ work_timer
  /\ ttyin \o tx \in {<<>>, StateReply("W", Started)}

\* ... or it is done and the answer is behind the announcement, if that is not read.
Ended ==
  /\ OutEmpty /\ AtRest /\ state \in {Stopped, Solved(work)}
  /\ ttyin \o tx \in {StateReply("S", state), StateReply("W", Started) \o StateReply("S", state)}

InStep ==
  /\ work_restart = FALSE /\ SubmitMatches /\ ident = IdReply
  /\ hpc \in {"closed", "found", "idle"} => OutEmpty /\ InEmpty /\ AtRest
  /\ hpc = "probe" => Probing
  /\ hpc = "scan" => work \in Work /\ (Sending \/ Working \/ Ended)

SyncInv == Undisturbed => InStep

\* A work command is "W" followed by the unit it carries.
LEMMA CmdFacts ==
  ASSUME NEW w \in Work
  PROVE  /\ Cmd(w) \in Seq(Byte) /\ Len(Cmd(w)) = CmdLen
         /\ CmdLen \in Nat /\ CmdLen = WorkBytes + 1 /\ CmdLen > 1
         /\ Cmd(w)[1] = Char("W")
         /\ SubSeq(Cmd(w), 2, CmdLen) = WorkUnit(w)
<1> DEFINE h == <<Char("W")>>
           u == WorkUnit(w)
           one == 1
<1>0. one = 1 /\ h[1] = Char("W")
  OBVIOUS
<1>1. h \in Seq(Byte) /\ Len(h) = one /\ one \in Nat
  BY OneByte
<1>2. u \in Seq(Byte) /\ Len(u) = WorkBytes
  BY WorkUnitBytes
<1>3. CmdLen \in Nat /\ CmdLen = one + WorkBytes /\ CmdLen > one
  BY Sizes DEF CmdLen
<1> HIDE DEF h, u, one
<1>4. h \o u \in Seq(Byte) /\ Len(h \o u) = CmdLen
  BY <1>1, <1>2, <1>3, Sizes
<1>5. /\ \A i \in 1..one : (h \o u)[i] = h[i]
      /\ \A i \in 1..WorkBytes : (h \o u)[one + i] = u[i]
  BY <1>1, <1>2, Sizes
<1>6. SubSeq(h \o u, one + 1, CmdLen) = u
  <2> DEFINE t == SubSeq(h \o u, one + 1, CmdLen)
  <2>1. t \in Seq(Byte) /\ Len(t) = WorkBytes
    BY <1>1, <1>3, <1>4, Sizes
  <2>2. \A i \in 1..WorkBytes : t[i] = (h \o u)[one + i]
    BY <1>1, <1>3, <1>4, Sizes
  <2> HIDE DEF t
  <2>3. \A i \in 1..WorkBytes : t[i] = u[i]
    BY <1>5, <2>2, Zenon
  <2>4. t = u
    BY <1>2, <2>1, <2>3, Sizes
  <2> QED BY <2>4, Zenon DEF t
<1>7. Cmd(w) = h \o u
  BY DEF Cmd, h, u
<1>8. CmdLen = WorkBytes + 1 /\ CmdLen > 1 /\ one + 1 = 2 /\ 1 \in 1..one
  BY <1>0, <1>3, Sizes
<1>9. Cmd(w)[1] = Char("W")
  BY <1>0, <1>5, <1>7, <1>8, Zenon
<1>10. SubSeq(Cmd(w), 2, CmdLen) = WorkUnit(w)
  BY <1>6, <1>7, <1>8, Zenon DEF u
<1> QED BY <1>3, <1>4, <1>7, <1>8, <1>9, <1>10, SMTT(30)

\* The packets of a work command are full but for the last, and cover it.
LEMMA PartsFacts ==
  /\ Parts \in Nat /\ Parts > 0 /\ CmdLen \in Nat /\ CmdLen > 1
  /\ Upto(0) = 0 /\ Upto(Parts) = CmdLen
  /\ \A c \in 0..Parts : /\ Upto(c) \in Nat /\ Upto(c) <= CmdLen
                         /\ c < Parts => Upto(c) = c * Packet /\ Upto(c) < CmdLen
                         /\ c > 0 => Upto(c) > 0
<1>1. CmdLen \in Nat /\ CmdLen > 1
  BY Sizes DEF CmdLen
<1>2. Parts \in Nat /\ Parts * Packet <= CmdLen + Packet - 1 /\ CmdLen <= Parts * Packet
  <2> HIDE DEF CmdLen
  <2>1. Parts = (CmdLen + Packet - 1) \div Packet
    BY DEF Parts
  <2> QED BY <1>1, <2>1, Sizes
<1> HIDE DEF Parts, CmdLen
<1>3. Parts > 0
  BY <1>1, <1>2, Sizes
<1>4. 0 * Packet = 0
  BY Sizes
<1>5. \A c \in 0..Parts :
        /\ c * Packet \in Nat /\ (c > 0 => c * Packet > 0)
        /\ c < Parts => c * Packet <= Parts * Packet - Packet
  <2> SUFFICES ASSUME NEW c \in 0..Parts
               PROVE  /\ c * Packet \in Nat /\ (c > 0 => c * Packet > 0)
                      /\ c < Parts => c * Packet <= Parts * Packet - Packet
    OBVIOUS
  <2>1. c \in Nat /\ c * Packet \in Nat
    BY <1>2, Sizes
  <2>2. ASSUME c > 0 PROVE c * Packet > 0
    BY <2>1, <2>2, Sizes
  <2>3. ASSUME c < Parts PROVE c * Packet <= Parts * Packet - Packet
    <3> DEFINE d == Parts - c - 1
    <3>1. d \in Nat /\ Parts = c + 1 + d
      BY <1>2, <2>1, <2>3
    <3> HIDE DEF d
    <3>2. Parts * Packet = c * Packet + Packet + d * Packet
      BY <2>1, <3>1, Sizes
    <3>3. d * Packet \in Nat
      BY <3>1, Sizes
    <3> QED BY <2>1, <3>2, <3>3, Sizes
  <2>4. (c > 0 => c * Packet > 0) /\ (c < Parts => c * Packet <= Parts * Packet - Packet)
    BY <2>2, <2>3, Zenon
  <2> QED BY <2>1, <2>4, Zenon
<1>6. ASSUME NEW c \in 0..Parts
      PROVE  /\ Upto(c) \in Nat /\ Upto(c) <= CmdLen
             /\ c < Parts => Upto(c) = c * Packet /\ Upto(c) < CmdLen
             /\ c > 0 => Upto(c) > 0
  <2> DEFINE m == c * Packet
             n == Parts * Packet
  <2>1. m \in Nat /\ (c > 0 => m > 0) /\ (c < Parts => m <= n - Packet)
    BY <1>5
  <2>2. n <= CmdLen + Packet - 1 /\ CmdLen <= n
    BY <1>2
  <2>3. n \in Nat
    BY <1>2, Sizes
  <2>4. Upto(c) = IF m < CmdLen THEN m ELSE CmdLen
    BY DEF Upto
  <2> HIDE DEF m, n
  <2>5. Upto(c) \in Nat /\ Upto(c) <= CmdLen /\ (c > 0 => Upto(c) > 0)
    BY <1>1, <2>1, <2>4
  <2>6. c < Parts => Upto(c) = m /\ Upto(c) < CmdLen
    BY <1>1, <2>1, <2>2, <2>3, <2>4, Sizes
  <2> QED BY <2>5, <2>6 DEF m
<1>7. Upto(0) = 0 /\ Upto(Parts) = CmdLen
  <2>1. Upto(0) = 0
    BY <1>1, <1>4 DEF Upto
  <2> DEFINE n == Parts * Packet
  <2>2. n \in Nat /\ CmdLen <= n /\ Upto(Parts) = IF n < CmdLen THEN n ELSE CmdLen
    BY <1>2, Sizes DEF Upto
  <2> HIDE DEF n
  <2>3. Upto(Parts) = CmdLen
    BY <1>1, <2>2
  <2> QED BY <2>1, <2>3
<1> QED BY <1>1, <1>2, <1>3, <1>6, <1>7

\* Two adjoining pieces of a sequence.
LEMMA Adjoin ==
  ASSUME NEW s \in Seq(Byte), NEW a \in Nat, NEW b \in Nat, a <= b, b <= Len(s)
  PROVE  SubSeq(s, 1, a) \o SubSeq(s, a + 1, b) = SubSeq(s, 1, b)
<1> DEFINE x == SubSeq(s, 1, a)
           y == SubSeq(s, a + 1, b)
           z == SubSeq(s, 1, b)
<1>1. x \in Seq(Byte) /\ Len(x) = a /\ \A i \in 1..a : x[i] = s[i]
  OBVIOUS
<1>2. y \in Seq(Byte) /\ Len(y) = b - a /\ \A i \in 1..(b - a) : y[i] = s[a + i]
  OBVIOUS
<1>3. z \in Seq(Byte) /\ Len(z) = b /\ \A i \in 1..b : z[i] = s[i]
  OBVIOUS
<1> HIDE DEF x, y, z
<1>4. /\ x \o y \in Seq(Byte) /\ Len(x \o y) = b
      /\ \A i \in 1..a : (x \o y)[i] = x[i]
      /\ \A i \in (a + 1)..b : (x \o y)[i] = y[i - a]
  <2> DEFINE d == b - a
  <2>1. d \in Nat /\ a + d = b /\ Len(y) = d
    BY <1>2
  <2> HIDE DEF d
  <2>0. x \in Seq(Byte) /\ y \in Seq(Byte) /\ Len(x) = a
    BY <1>1, <1>2
  <2>2. x \o y \in Seq(Byte) /\ Len(x \o y) = a + d
    BY <2>0, <2>1
  <2>3. \A i \in 1..a : (x \o y)[i] = x[i]
    BY <2>0, <2>1
  <2>4. \A i \in 1..d : (x \o y)[a + i] = y[i]
    BY <2>0, <2>1
  <2>5. ASSUME NEW i \in (a + 1)..b PROVE (x \o y)[i] = y[i - a]
    <3>1. i - a \in 1..d /\ a + (i - a) = i
      BY <2>1
    <3> QED BY <2>4, <3>1, Zenon
  <2> QED BY <2>1, <2>2, <2>3, <2>5
<1>5. ASSUME NEW i \in 1..b PROVE (x \o y)[i] = z[i]
  <2>1. CASE i <= a
    <3>1. i \in 1..a
      BY <2>1
    <3> QED BY <1>1, <1>3, <1>4, <3>1, SMTT(30)
  <2>2. CASE ~(i <= a)
    <3>1. i \in (a + 1)..b /\ i - a \in 1..(b - a) /\ a + (i - a) = i
      BY <2>2
    <3>2. (x \o y)[i] = s[a + (i - a)]
      BY <1>2, <1>4, <3>1, SMTT(30)
    <3> QED BY <1>3, <3>1, <3>2
  <2> QED BY <2>1, <2>2, Zenon
<1>6. x \o y = z
  BY <1>3, <1>4, <1>5
<1> QED BY <1>6 DEF x, y, z

\* The packets of a command, and the next of them behind the first c.
LEMMA CmdPackets ==
  ASSUME NEW w \in Work
  PROVE  /\ Packets(Cmd(w)) \in Seq(Seq(Byte)) /\ Len(Packets(Cmd(w))) = Parts
         /\ \A c \in 0..Parts :
              c < Parts => Packets(Cmd(w))[c + 1] = SubSeq(Cmd(w), Upto(c) + 1, Upto(c + 1))
<1>1. Cmd(w) \in Seq(Byte) /\ Len(Cmd(w)) = CmdLen
  BY CmdFacts
<1>2. Packets(Cmd(w)) \in Seq(Seq(Byte))
  BY <1>1, PacketsType
<1>3. Packets(Cmd(w)) = [p \in 1..Parts |->
                           SubSeq(Cmd(w), (p - 1) * Packet + 1,
                             IF p * Packet < CmdLen THEN p * Packet ELSE CmdLen)]
  BY <1>1 DEF Packets, Parts
<1>4. Len(Packets(Cmd(w))) = Parts
  <2> HIDE DEF Parts
  <2> QED BY <1>3, PartsFacts
<1>5. ASSUME NEW c \in 0..Parts, c < Parts
      PROVE  Packets(Cmd(w))[c + 1] = SubSeq(Cmd(w), Upto(c) + 1, Upto(c + 1))
  <2>1. c + 1 \in 1..Parts /\ (c + 1) - 1 = c
    BY <1>5, PartsFacts
  <2>2. Upto(c) = c * Packet
    BY <1>5, PartsFacts
  <2>3. Packets(Cmd(w))[c + 1] = SubSeq(Cmd(w), ((c + 1) - 1) * Packet + 1,
                             IF (c + 1) * Packet < CmdLen THEN (c + 1) * Packet ELSE CmdLen)
    BY <1>3, <2>1, Zenon
  <2> QED BY <2>1, <2>2, <2>3, Zenon DEF Upto
<1> QED BY <1>2, <1>4, <1>5

\* Adding packet c + 1 to the first c packets gives the first c + 1.
LEMMA PartFacts ==
  ASSUME NEW w \in Work, NEW c \in 0..Parts
  PROVE  /\ Part(w, c) \in Seq(Byte) /\ Len(Part(w, c)) = Upto(c)
         /\ c > 0 => Part(w, c) # <<>> /\ Head(Part(w, c)) = Char("W")
         /\ c < Parts => Part(w, c) \o Packets(Cmd(w))[c + 1] = Part(w, c + 1)
<1>1. /\ Cmd(w) \in Seq(Byte) /\ Len(Cmd(w)) = CmdLen /\ CmdLen \in Nat /\ c \in Nat
      /\ Cmd(w)[1] = Char("W")
  BY CmdFacts, PartsFacts
<1>2. Upto(c) \in Nat /\ Upto(c) <= CmdLen /\ (c > 0 => Upto(c) > 0)
  BY PartsFacts
<1>3. Part(w, c) \in Seq(Byte) /\ Len(Part(w, c)) = Upto(c)
  BY <1>1, <1>2 DEF Part
<1>4. ASSUME c > 0 PROVE Part(w, c) # <<>> /\ Head(Part(w, c)) = Char("W")
  BY <1>1, <1>2, <1>4 DEF Part
<1>5. ASSUME c < Parts PROVE Part(w, c) \o Packets(Cmd(w))[c + 1] = Part(w, c + 1)
  <2>1. c + 1 \in 0..Parts /\ Packets(Cmd(w))[c + 1] = SubSeq(Cmd(w), Upto(c) + 1, Upto(c + 1))
    <3>1. c + 1 \in 0..Parts
      BY <1>5, PartsFacts
    <3> QED BY <1>5, <3>1, CmdPackets, Zenon
  <2>2. Upto(c + 1) \in Nat /\ Upto(c + 1) <= CmdLen
    BY <2>1, PartsFacts
  <2>3. Upto(c) <= Upto(c + 1)
    <3>1. c * Packet \in Nat /\ (c + 1) * Packet = c * Packet + Packet
      BY <1>1, Sizes
    <3> QED BY <1>1, <3>1, Sizes DEF Upto
  <2> QED BY <1>1, <1>2, <2>1, <2>2, <2>3, Adjoin, ZenonT(30) DEF Part
<1> QED BY <1>3, <1>4, <1>5

\* The firmware reads back the unit the driver wrote.
LEMMA DecodeUnit == \A w \in Work : Decode(WorkUnit(w)) = w
<1> SUFFICES ASSUME NEW w \in Work PROVE Decode(WorkUnit(w)) = w
  BY Zenon
<1>1. ASSUME NEW v \in Work, WorkUnit(w) = WorkUnit(v) PROVE v = w
  <2>1. 1 \in 1..WorkBytes
    BY Sizes
  <2>2. WorkUnit(w)[1] = <<"work", w, 1>> /\ WorkUnit(v)[1] = <<"work", v, 1>>
    BY <2>1, WorkUnitBytes
  <2> QED BY <1>1, <2>2
<1>2. (CHOOSE v \in Work : WorkUnit(w) = WorkUnit(v)) = w
  BY <1>1
<1> QED BY <1>2 DEF Decode

\* The states the in-step part names are States of the miner.
LEMMA StateTypes ==
  /\ Started \in States /\ Stopped \in States /\ \A w \in Units : Solved(w) \in States
BY DEF Started, Stopped, Solved, States, Units

\* s is a, of length m, followed by b, of length n.
Joined(S, s, a, m, b, n) ==
  /\ s \in Seq(S) /\ Len(s) = m + n
  /\ \A i \in 1..m : s[i] = a[i]
  /\ \A i \in 1..n : s[m + i] = b[i]

\* Concatenation, position by position.
LEMMA ConcatFacts ==
  ASSUME NEW S, NEW a \in Seq(S), NEW b \in Seq(S), NEW m \in Nat, NEW n \in Nat,
         Len(a) = m, Len(b) = n
  PROVE  Joined(S, a \o b, a, m, b, n)
<1>1. a \o b \in Seq(S) /\ Len(a \o b) = m + n
  OBVIOUS
<1>2. \A i \in 1..m : (a \o b)[i] = a[i]
  OBVIOUS
<1>3. \A i \in 1..n : (a \o b)[m + i] = b[i]
  OBVIOUS
<1> QED BY <1>1, <1>2, <1>3 DEF Joined

\* The last n elements of a sequence of length m + n.
LEMMA PieceFacts ==
  ASSUME NEW s \in Seq(Byte), NEW m \in Nat, NEW n \in Nat, Len(s) = m + n
  PROVE  LET t == SubSeq(s, m + 1, m + n)
         IN  t \in Seq(Byte) /\ Len(t) = n /\ \A i \in 1..n : t[i] = s[m + i]
<1> DEFINE t == SubSeq(s, m + 1, m + n)
<1>1. t \in Seq(Byte) /\ Len(t) = n
  OBVIOUS
<1>2. \A i \in 1..n : t[i] = s[m + i]
  OBVIOUS
<1> QED BY <1>1, <1>2

\* What the driver looks at in a State.
LEMMA ReplyBytes ==
  ASSUME NEW cmd \in {"W", "R", "A", "S"}, NEW s \in States
  PROVE  /\ StateReply(cmd, s)[2] = Char(s.state)
         /\ StateReply(cmd, s)[3] = Num(IF s.nonce_valid THEN 1 ELSE 0)
         /\ SubSeq(StateReply(cmd, s), 4, 7) = NonceBytes(s.nonce)
<1> DEFINE head == <<Char(cmd), Char(s.state), Num(IF s.nonce_valid THEN 1 ELSE 0)>>
           nb == NonceBytes(s.nonce)
           three == 3
           four == 4
           r == StateReply(cmd, s)
<1>1. Char(cmd) \in Byte /\ Char(s.state) \in Byte
  BY OneByte DEF States
<1>2. Num(IF s.nonce_valid THEN 1 ELSE 0) \in Byte
  BY OneByte
<1>3. /\ head \in Seq(Byte) /\ Len(head) = three
      /\ head[2] = Char(s.state) /\ head[3] = Num(IF s.nonce_valid THEN 1 ELSE 0)
  BY <1>1, <1>2
<1>4. nb \in Seq(Byte) /\ Len(nb) = four
  BY NonceBytesType DEF States
<1>5. three \in Nat /\ four \in Nat
  OBVIOUS
<1>6. three + four = 7 /\ three + 1 = 4 /\ 2 \in 1..three /\ 3 \in 1..three
  OBVIOUS
<1>7. r = head \o nb
  BY DEF StateReply
<1> HIDE DEF head, nb, three, four, r
<1>a. head \in Seq(Byte) /\ Len(head) = three
  BY <1>3
<1>8. /\ r \in Seq(Byte) /\ Len(r) = three + four
      /\ \A i \in 1..three : r[i] = head[i]
      /\ \A i \in 1..four : r[three + i] = nb[i]
  <2>1. Joined(Byte, r, head, three, nb, four)
    BY <1>a, <1>4, <1>5, <1>7, ConcatFacts, Zenon
  <2> QED BY <2>1 DEF Joined
<1>9. SubSeq(r, three + 1, three + four) = nb
  <2> DEFINE t == SubSeq(r, three + 1, three + four)
  <2>0. r \in Seq(Byte) /\ Len(r) = three + four
    BY <1>8
  <2>1. t \in Seq(Byte) /\ Len(t) = four /\ \A i \in 1..four : t[i] = r[three + i]
    <3>1. three + four \in Nat /\ three + 1 \in Nat /\ three + 1 >= 1
          /\ (three + four) - (three + 1) + 1 = four
      BY <1>5
    <3> QED BY <1>5, <2>0, <3>1, PieceFacts
  <2> HIDE DEF t
  <2>2. \A i \in 1..four : t[i] = nb[i]
    BY <1>8, <2>1
  <2>3. t = nb
    BY <1>4, <2>1, <2>2
  <2> QED BY <2>3 DEF t
<1>10. r[2] = head[2] /\ r[3] = head[3]
  BY <1>6, <1>8
<1>11. r[2] = Char(s.state) /\ r[3] = Num(IF s.nonce_valid THEN 1 ELSE 0)
  BY <1>3, <1>10
<1>12. SubSeq(r, 4, 7) = NonceBytes(s.nonce)
  BY <1>6, <1>9, Zenon DEF nb
<1> QED BY <1>11, <1>12 DEF r

\* Reading n bytes of the line, of which a have arrived and b have not, when the first
\* n of them are x and y are the others.
Readable(a, b, x, y, n) ==
  /\ a \in Seq(Byte) /\ b \in Seq(Byte) /\ x \in Seq(Byte) /\ y \in Seq(Byte) /\ n \in Nat
  /\ Len(x) = n /\ Len(a) >= n /\ a \o b = x \o y

\* A read that finds a whole reply takes it and leaves what follows it.
LEMMA ReadSplit ==
  ASSUME NEW a, NEW b, NEW x, NEW y, NEW n, Readable(a, b, x, y, n)
  PROVE  SubSeq(a, 1, n) = x /\ Drop(a, n) \o b = y
<1>0. /\ a \in Seq(Byte) /\ b \in Seq(Byte) /\ x \in Seq(Byte) /\ y \in Seq(Byte) /\ n \in Nat
      /\ Len(x) = n /\ Len(a) >= n /\ a \o b = x \o y
  BY DEF Readable
<1> USE <1>0
<1> DEFINE la == Len(a)
           lb == Len(b)
           ly == Len(y)
           d == la - n
<1>1. la \in Nat /\ lb \in Nat /\ ly \in Nat /\ d \in Nat /\ la = n + d
  OBVIOUS
<1>2. Len(a) = la /\ Len(b) = lb /\ Len(y) = ly
  OBVIOUS
<1> HIDE DEF la, lb, ly, d
<1>3. /\ Len(a \o b) = la + lb
      /\ \A i \in 1..la : (a \o b)[i] = a[i]
      /\ \A i \in 1..lb : (a \o b)[la + i] = b[i]
  <2>1. Joined(Byte, a \o b, a, la, b, lb)
    BY <1>1, <1>2, ConcatFacts, Zenon
  <2> QED BY <2>1, Zenon DEF Joined
<1>4. /\ Len(x \o y) = n + ly
      /\ \A i \in 1..n : (x \o y)[i] = x[i]
      /\ \A i \in 1..ly : (x \o y)[n + i] = y[i]
  <2>1. Joined(Byte, x \o y, x, n, y, ly)
    BY <1>1, <1>2, ConcatFacts, Zenon
  <2> QED BY <2>1, Zenon DEF Joined
<1>5. ly = d + lb
  BY <1>1, <1>3, <1>4
<1>6. \A i \in 1..n : i \in 1..la
  BY <1>1
<1>7. SubSeq(a, 1, n) = x
  <2> DEFINE t == SubSeq(a, 1, n)
  <2>1. t \in Seq(Byte) /\ Len(t) = n /\ \A i \in 1..n : t[i] = a[i]
    BY <1>1, <1>2
  <2> HIDE DEF t
  <2>2. \A i \in 1..n : t[i] = x[i]
    BY <1>3, <1>4, <1>6, <2>1
  <2>3. t = x
    BY <2>1, <2>2
  <2> QED BY <2>3 DEF t
<1>8. Drop(a, n) \o b = y
  <2> DEFINE t == Drop(a, n)
             z == t \o b
  <2>1. t \in Seq(Byte) /\ Len(t) = d /\ \A i \in 1..d : t[i] = a[n + i]
    <3>1. n <= Len(a) /\ Len(a) - n = d
      BY <1>1, <1>2
    <3>2. /\ Drop(a, n) \in Seq(Byte) /\ Len(Drop(a, n)) = Len(a) - n
          /\ \A k \in 1..(Len(a) - n) : Drop(a, n)[k] = a[n + k]
      BY <3>1, DropType
    <3> QED BY <3>1, <3>2
  <2> HIDE DEF t
  <2>2. /\ z \in Seq(Byte) /\ Len(z) = d + lb
        /\ \A i \in 1..d : z[i] = t[i]
        /\ \A i \in 1..lb : z[d + i] = b[i]
    <3>1. Joined(Byte, z, t, d, b, lb)
      BY <1>1, <1>2, <2>1, ConcatFacts, Zenon
    <3> QED BY <3>1, Zenon DEF Joined
  <2> HIDE DEF z
  <2>3. ASSUME NEW i \in 1..ly PROVE z[i] = y[i]
    <3>1. y[i] = (a \o b)[n + i]
      BY <1>4, Zenon
    <3>2. CASE i <= d
      <4>1. i \in 1..d /\ n + i \in 1..la
        BY <1>1, <3>2
      <4> QED BY <1>3, <2>1, <2>2, <3>1, <4>1, Zenon
    <3>3. CASE ~(i <= d)
      <4>1. i - d \in 1..lb /\ d + (i - d) = i /\ la + (i - d) = n + i
        BY <1>1, <1>5, <3>3
      <4>2. z[d + (i - d)] = b[i - d] /\ (a \o b)[la + (i - d)] = b[i - d]
        BY <1>3, <2>2, <4>1, Zenon
      <4> QED BY <3>1, <4>1, <4>2, Zenon
    <3> QED BY <3>2, <3>3
  <2>4. z = y
    BY <1>1, <1>2, <1>5, <2>2, <2>3
  <2> QED BY <2>4 DEF z, t
<1> QED BY <1>7, <1>8

\* Concatenation is associative.
LEMMA ConcatAssoc ==
  ASSUME NEW a \in Seq(Byte), NEW b \in Seq(Byte), NEW c \in Seq(Byte)
  PROVE  (a \o b) \o c = a \o (b \o c)
<1> DEFINE la == Len(a)
           lb == Len(b)
           lc == Len(c)
           p == a \o b
           q == b \o c
           l == p \o c
           r == a \o q
<1>1. la \in Nat /\ lb \in Nat /\ lc \in Nat /\ la + lb \in Nat /\ lb + lc \in Nat
  OBVIOUS
<1>2. Len(a) = la /\ Len(b) = lb /\ Len(c) = lc
  OBVIOUS
<1> HIDE DEF la, lb, lc
<1>3. Joined(Byte, p, a, la, b, lb) /\ Joined(Byte, q, b, lb, c, lc)
  BY <1>1, <1>2, ConcatFacts, Zenon
<1>4. p \in Seq(Byte) /\ Len(p) = la + lb /\ q \in Seq(Byte) /\ Len(q) = lb + lc
  BY <1>3 DEF Joined
<1> HIDE DEF p, q
<1>5. Joined(Byte, l, p, la + lb, c, lc) /\ Joined(Byte, r, a, la, q, lb + lc)
  BY <1>1, <1>2, <1>4, ConcatFacts, Zenon
<1> HIDE DEF l, r
<1>6. l \in Seq(Byte) /\ Len(l) = la + lb + lc /\ r \in Seq(Byte) /\ Len(r) = la + lb + lc
  BY <1>1, <1>5 DEF Joined
<1>7. ASSUME NEW i \in 1..(la + lb + lc) PROVE l[i] = r[i]
  <2>1. CASE i <= la
    <3>1. i \in 1..la /\ i \in 1..(la + lb)
      BY <1>1, <2>1
    <3> QED BY <1>3, <1>5, <3>1 DEF Joined
  <2>2. CASE i > la /\ i <= la + lb
    <3> DEFINE j == i - la
    <3>1. /\ j \in 1..lb /\ j \in 1..(lb + lc) /\ la + j = i /\ i \in 1..(la + lb)
      BY <1>1, <2>2
    <3> HIDE DEF j
    <3>2. l[i] = p[i] /\ p[la + j] = b[j] /\ r[la + j] = q[j] /\ q[j] = b[j]
      BY <1>3, <1>5, <3>1 DEF Joined
    <3> QED BY <3>1, <3>2
  <2>3. CASE i > la + lb
    <3> DEFINE j == i - (la + lb)
    <3>1. j \in 1..lc /\ (la + lb) + j = i /\ lb + j \in 1..(lb + lc) /\ la + (lb + j) = i
      BY <1>1, <2>3
    <3> HIDE DEF j
    <3>2. l[(la + lb) + j] = c[j] /\ r[la + (lb + j)] = q[lb + j] /\ q[lb + j] = c[j]
      BY <1>3, <1>5, <3>1 DEF Joined
    <3> QED BY <3>1, <3>2
  <2> QED BY <1>1, <2>1, <2>2, <2>3
<1>8. l = r
  BY <1>1, <1>6, <1>7
<1> QED BY <1>8 DEF l, r, p, q

\* A packet that the host fetches moves from tx to ttyin.
LEMMA LineKept ==
  ASSUME TypeOK, HostIn
  PROVE  ttyin' \o tx' = ttyin \o tx
<1> DEFINE n == IF Len(tx) < InPacket THEN Len(tx) ELSE InPacket
           x == SubSeq(tx, 1, n)
           y == Drop(tx, n)
<1>1. ttyin \in Seq(Byte) /\ tx \in Seq(Byte) /\ Len(tx) \in Nat
  BY DEF TypeOK
<1>2. n \in Nat /\ n <= Len(tx)
  BY <1>1, Sizes
<1>3. ttyin' = ttyin \o x /\ tx' = y
  BY DEF HostIn
<1> HIDE DEF n
<1>4. x \in Seq(Byte) /\ y \in Seq(Byte)
  <2>1. x \in Seq(Byte)
    BY <1>1, <1>2
  <2>2. y \in Seq(Byte)
    BY <1>1, <1>2, DropType
  <2> QED BY <2>1, <2>2
<1>5. x \o y = SubSeq(tx, 1, Len(tx))
  <2>1. SubSeq(tx, 1, n) \o SubSeq(tx, n + 1, Len(tx)) = SubSeq(tx, 1, Len(tx))
    <3>1. Len(tx) <= Len(tx)
      BY <1>1
    <3> QED BY <1>1, <1>2, <3>1, Adjoin, Zenon
  <2> QED BY <2>1, Zenon DEF Drop
<1>6. SubSeq(tx, 1, Len(tx)) = tx
  BY <1>1
<1> HIDE DEF x, y
<1>7. (ttyin \o x) \o y = ttyin \o (x \o y)
  BY <1>1, <1>4, ConcatAssoc
<1> QED BY <1>3, <1>5, <1>6, <1>7, Zenon

\* Nothing is on the way to the host when both of its ends are empty.
LEMMA LineEmpty ==
  ASSUME TypeOK
  PROVE  /\ ttyin \o tx = <<>> <=> InEmpty
         /\ tx = <<>> => ttyin \o tx = ttyin
         /\ Len(ttyin \o tx) = Len(ttyin) + Len(tx) /\ Len(ttyin) \in Nat /\ Len(tx) \in Nat
         /\ InEmpty /\ Open => InEmpty'
<1>1. ttyin \in Seq(Byte) /\ tx \in Seq(Byte)
  BY DEF TypeOK
<1>2. Len(ttyin \o tx) = Len(ttyin) + Len(tx) /\ Len(ttyin) \in Nat /\ Len(tx) \in Nat
  BY <1>1
<1>3. tx = <<>> => ttyin \o tx = ttyin
  BY <1>1
<1>4. ASSUME ttyin \o tx = <<>> PROVE InEmpty
  <2>1. Len(ttyin \o tx) = 0
    BY <1>4
  <2>2. Len(ttyin) = 0 /\ Len(tx) = 0
    BY <1>2, <2>1
  <2> QED BY <1>1, <2>2 DEF InEmpty
<1>5. ASSUME InEmpty PROVE ttyin \o tx = <<>>
  BY <1>3, <1>5 DEF InEmpty
<1>6. ASSUME InEmpty, Open PROVE InEmpty'
  <2>1. PICK n \in 0..Len(tx) : tx' = Drop(tx, n)
    BY <1>6 DEF Open
  <2>2. Len(tx) = 0 /\ n = 0
    BY <1>6, <2>1 DEF InEmpty
  <2>3. Drop(tx, n) = <<>>
    BY <1>6, <2>2 DEF Drop, InEmpty
  <2> QED BY <1>6, <2>1, <2>3 DEF Open, InEmpty
<1> QED BY <1>2, <1>3, <1>4, <1>5, <1>6

\* Driver and miner outside a scan.
LEMMA SyncProbe ==
  ASSUME TypeOK, InStep, Probe \/ ProbeOk \/ ProbeFails \/ ThreadInit
  PROVE  InStep'
<1>1. CASE Probe
  <2>1. /\ hpc = "closed" /\ hpc' = "probe" /\ Open /\ outq' = Packets(<<Char("I")>>)
        /\ UNCHANGED <<work, work_restart, ident, last, drained, buffer_, minerVars, bounds>>
    BY <1>1 DEF Probe
  <2>2. OutEmpty /\ InEmpty /\ AtRest
    BY <2>1 DEF InStep
  <2>3. InEmpty'
    BY <2>1, <2>2, LineEmpty
  <2>4. Packets(<<Char("I")>>) = <<<<Char("I")>>>>
    <3> DEFINE s == <<Char("I")>>
    <3>1. Len(s) = 1 /\ SubSeq(s, 1, 1) = s
      <4> DEFINE one == 1
      <4>1. s \in Seq(Byte) /\ Len(s) = one /\ one \in Nat
        BY OneByte
      <4> HIDE DEF s, one
      <4>2. SubSeq(s, 1, one) = s
        BY <4>1
      <4> QED BY <4>1, <4>2 DEF one
    <3>2. (1 + Packet - 1) \div Packet = 1 /\ ~(1 * Packet < 1) /\ (1 - 1) * Packet + 1 = 1
      BY Sizes
    <3>3. Packets(s) = [p \in 1..1 |-> SubSeq(s, (p - 1) * Packet + 1,
                          IF p * Packet < 1 THEN p * Packet ELSE 1)]
      BY <3>1, <3>2 DEF Packets
    <3> HIDE DEF s
    <3>4. \A p \in 1..1 : SubSeq(s, (p - 1) * Packet + 1,
                          IF p * Packet < 1 THEN p * Packet ELSE 1) = s
      <4> SUFFICES ASSUME NEW p \in 1..1
                   PROVE  SubSeq(s, (p - 1) * Packet + 1,
                            IF p * Packet < 1 THEN p * Packet ELSE 1) = s
        OBVIOUS
      <4>1. p = 1
        OBVIOUS
      <4> QED BY <3>1, <3>2, <4>1
    <3>5. Packets(s) = [p \in 1..1 |-> s]
      BY <3>3, <3>4
    <3>6. [p \in 1..1 |-> s] = <<s>>
      <4> DEFINE f == [p \in 1..1 |-> s]
                 g == <<s>>
      <4>1. f \in Seq({s}) /\ Len(f) = 1 /\ f[1] = s
        OBVIOUS
      <4>2. g \in Seq({s}) /\ Len(g) = 1 /\ g[1] = s
        OBVIOUS
      <4> HIDE DEF f, g
      <4>3. f = g
        BY <4>1, <4>2
      <4> QED BY <4>3 DEF f, g
    <3> QED BY <3>5, <3>6 DEF s
  <2>5. Probing'
    BY <2>1, <2>2, <2>3, <2>4 DEF Probing, OutEmpty, AtRest, minerVars
  <2> QED BY <2>1, <2>5 DEF InStep, SubmitMatches
<1>2. CASE ProbeOk
  <2>1. /\ hpc = "probe" /\ hpc' = "found" /\ Len(ttyin) >= Len(IdReply)
        /\ ident' = SubSeq(ttyin, 1, Len(IdReply)) /\ ttyin' = <<>>
        /\ UNCHANGED <<work, work_restart, last, outq, drained, buffer_, tx, minerVars, bounds>>
    BY <1>2 DEF ProbeOk
  <2>2. Probing
    BY <2>1 DEF InStep
  <2>3. ttyin \in Seq(Byte) /\ tx \in Seq(Byte) /\ IdReply \in Seq(Byte) /\ Len(IdReply) \in Nat
    BY IdReplyType DEF TypeOK
  <2>4. Len(ttyin) > 0
    BY <2>1, <2>3, IdReplyType
  <2>5. ttyin # <<>>
    BY <2>4
  <2>6. OutEmpty /\ AtRest /\ ttyin \o tx = IdReply
    BY <2>2, <2>5 DEF Probing, InEmpty
  <2>7. Len(tx) = 0
    <3>1. Len(IdReply) = Len(ttyin) + Len(tx) /\ Len(ttyin) \in Nat /\ Len(tx) \in Nat
      BY <2>6, LineEmpty
    <3> QED BY <2>1, <2>3, <3>1
  <2>8. tx = <<>>
    BY <2>3, <2>7
  <2>9. ttyin = IdReply
    BY <2>6, <2>8, LineEmpty
  <2>10. ident' = IdReply
    BY <2>1, <2>3, <2>9
  <2>11. OutEmpty' /\ InEmpty' /\ AtRest'
    BY <2>1, <2>6, <2>8 DEF OutEmpty, InEmpty, AtRest, minerVars
  <2> QED BY <2>1, <2>10, <2>11 DEF InStep, SubmitMatches
<1>3. CASE ProbeFails
  <2>1. hpc = "probe" /\ Len(ttyin) < Len(IdReply) /\ outq = <<>> /\ drained = 0 /\ tx = <<>>
    BY <1>3 DEF ProbeFails, ReadTimesOut
  <2>2. ttyin \o tx = IdReply
    BY <2>1 DEF InStep, Probing
  <2>3. ttyin = IdReply
    BY <2>1, <2>2, LineEmpty
  <2>4. Len(IdReply) \in Nat
    BY IdReplyType
  <2> QED BY <2>1, <2>3, <2>4
<1>4. CASE ThreadInit
  <2>1. /\ hpc = "found" /\ hpc' = "idle" /\ Open
        /\ UNCHANGED <<work, work_restart, ident, last, outq, drained, buffer_, minerVars, bounds>>
    BY <1>4 DEF ThreadInit
  <2>2. OutEmpty /\ InEmpty /\ AtRest
    BY <2>1 DEF InStep
  <2>3. InEmpty'
    BY <2>1, <2>2, LineEmpty
  <2>4. OutEmpty' /\ AtRest'
    BY <2>1, <2>2 DEF OutEmpty, AtRest, minerVars
  <2> QED BY <2>1, <2>3, <2>4 DEF InStep, SubmitMatches
<1> QED BY <1>1, <1>2, <1>3, <1>4

\* A scan begins.
LEMMA SyncScan ==
  ASSUME TypeOK, InStep, NEW w \in Work, Scan(w)
  PROVE  InStep'
<1>1. /\ hpc = "idle" /\ hpc' = "scan" /\ work' = w /\ work_restart' = FALSE
      /\ outq' = outq \o Packets(<<Char("W")>> \o WorkUnit(w))
      /\ UNCHANGED <<ident, last, ttyin, drained, buffer_, tx, minerVars, bounds>>
  BY DEF Scan
<1>2. OutEmpty /\ InEmpty /\ AtRest
  BY <1>1 DEF InStep
<1> DEFINE p == Packets(Cmd(w))
<1>3. p \in Seq(Seq(Byte)) /\ Len(p) = Parts
  BY CmdPackets
<1>4. outq' = <<>> \o p
  BY <1>1, <1>2 DEF OutEmpty, Cmd
<1> HIDE DEF p
<1>5. outq' = p /\ SubSeq(p, 0 + 1, Parts) = p
  BY <1>3, <1>4
<1>6. 0 \in 0..Parts /\ Parts # 0 /\ Part(w, 0) = <<>>
  <2>1. SubSeq(Cmd(w), 1, 0) = <<>>
    BY CmdFacts
  <2> QED BY <2>1, PartsFacts DEF Part
<1>7. Sending'
  <2>1. (AtRest /\ InEmpty)'
    BY <1>1, <1>2 DEF AtRest, InEmpty, minerVars
  <2>2. drained' = 0 /\ buffer_' = Part(work', 0) /\ outq' = SubSeq(Packets(Cmd(work')), 0 + 1, Parts)
    BY <1>1, <1>2, <1>5, <1>6, Zenon DEF OutEmpty, p
  <2> QED BY <1>6, <2>1, <2>2, Zenon DEF Sending
<1> QED BY <1>1, <1>7 DEF InStep, SubmitMatches

\* The reads of a scan.  A State that is read is the announcement or the answer.
LEMMA SyncRead ==
  ASSUME TypeOK, InStep, ScanBreak \/ ScanRead \/ ScanReadShort
  PROVE  InStep'
<1>0. /\ hpc = "scan" /\ work_restart = FALSE /\ work \in Work /\ (Sending \/ Working \/ Ended)
      /\ SubmitMatches /\ ident = IdReply
  BY DEF InStep, ScanBreak, ScanRead, ScanReadShort
<1>1. work \in Units /\ state \in States
  BY <1>0 DEF Units, TypeOK, States
<1>2. /\ StateReply("W", Started) \in Seq(Byte) /\ Len(StateReply("W", Started)) = 7
      /\ StateReply("S", state) \in Seq(Byte) /\ Len(StateReply("S", state)) = 7
  BY <1>1, StateTypes, StateReplyType
<1> DEFINE w == StateReply("W", Started)
           a == StateReply("S", state)
           line == ttyin \o tx
<1>3. line \in {<<>>, w} \/ line \in {a, w \o a}
  BY <1>0, LineEmpty, Zenon DEF Sending, Working, Ended
<1>4. ttyin \in Seq(Byte) /\ tx \in Seq(Byte) /\ Len(ttyin) \in Nat /\ Len(tx) \in Nat
      /\ Len(line) = Len(ttyin) + Len(tx)
  BY LineEmpty DEF TypeOK
<1>5. CASE ScanBreak
  BY <1>0, <1>5 DEF ScanBreak
<1>6. CASE ScanReadShort
  <2>1. ttyin # <<>> /\ Len(ttyin) < 7 /\ tx = <<>>
    BY <1>6 DEF ScanReadShort, ReadTimesOut
  <2>2. ttyin \in {w, a, w \o a}
    BY <1>3, <2>1, LineEmpty, Zenon
  <2>3. Len(w \o a) = 14
    <3> DEFINE seven == 7
    <3>1. seven \in Nat /\ Len(w) = seven /\ Len(a) = seven /\ seven + seven = 14
      BY <1>2
    <3> HIDE DEF seven, w, a
    <3>2. Len(w \o a) = seven + seven
      BY <1>2, <3>1 DEF w, a
    <3> QED BY <3>1, <3>2
  <2> HIDE DEF w, a
  <2> QED BY <1>2, <2>1, <2>2, <2>3 DEF w, a
<1>7. CASE ScanRead
  <2> DEFINE seven == 7
             e == <<>>
  <2>0. e \in Seq(Byte) /\ seven \in Nat /\ Len(w) = seven /\ Len(a) = seven /\ Len(ttyin) >= seven
        /\ w \in Seq(Byte) /\ a \in Seq(Byte)
    BY <1>2, <1>7 DEF ScanRead
  <2>1. /\ ttyin' = Drop(ttyin, seven)
        /\ UNCHANGED <<work, work_restart, ident, outq, drained, buffer_, tx, minerVars, bounds>>
    BY <1>7 DEF ScanRead
  <2>2. PICK valid \in MayBe(ttyin[3], Num(1)), reset \in MayBe(ttyin[2], Char("R")) :
               /\ last' = IF valid THEN <<work, SubSeq(ttyin, 4, 7)>> ELSE last
               /\ hpc' = IF valid \/ reset \/ work_restart THEN "idle" ELSE "scan"
    BY <1>7 DEF ScanRead
  <2>3. ASSUME NEW x \in {w, a}, SubSeq(ttyin, 1, seven) = x
        PROVE  ttyin[2] = x[2] /\ ttyin[3] = x[3] /\ SubSeq(ttyin, 4, 7) = SubSeq(x, 4, 7)
    <3> DEFINE two == 2
               three == 3
               four == 4
    <3>1. two \in 1..seven /\ three \in 1..seven /\ four \in 1..seven
      OBVIOUS
    <3> HIDE DEF seven, two, three, four
    <3>2. \A i \in 1..seven : x[i] = ttyin[i]
      BY <1>4, <2>0, <2>3
    <3>3. SubSeq(SubSeq(ttyin, 1, seven), four, seven) = SubSeq(ttyin, four, seven)
      <4> DEFINE s == SubSeq(ttyin, 1, seven)
                 d == seven - four + 1
                 l == SubSeq(s, four, seven)
                 r == SubSeq(ttyin, four, seven)
      <4>1. s \in Seq(Byte) /\ Len(s) = seven /\ \A i \in 1..seven : s[i] = ttyin[i]
        BY <1>4, <2>0
      <4>2. d \in Nat /\ four \in Nat /\ four >= 1 /\ seven = d + four - 1
        BY <2>0, <3>1
      <4> HIDE DEF s, d
      <4>3. l \in Seq(Byte) /\ Len(l) = d /\ \A i \in 1..d : l[i] = s[four + i - 1]
        BY <2>0, <3>1, <4>1, <4>2
      <4>4. r \in Seq(Byte) /\ Len(r) = d /\ \A i \in 1..d : r[i] = ttyin[four + i - 1]
        BY <1>4, <2>0, <3>1, <4>2
      <4> HIDE DEF l, r
      <4>5. \A i \in 1..d : four + i - 1 \in 1..seven
        BY <4>2
      <4>a. \A i \in 1..d : l[i] = r[i]
        BY <4>1, <4>3, <4>4, <4>5, Zenon
      <4>6. l = r
        BY <4>2, <4>3, <4>4, <4>a
      <4> QED BY <4>6, Zenon DEF l, r, s
    <3>4. SubSeq(ttyin, four, seven) = SubSeq(x, four, seven)
      BY <2>3, <3>3, Zenon
    <3> QED BY <3>1, <3>2, <3>4, Zenon DEF two, three, four, seven
  <2> HIDE DEF w, a, seven, e
  <2>4. Len(line) # 0
    BY <1>4, <2>0, <1>2 DEF seven
  <2>5. line # <<>>
    BY <2>4
  \* The announcement: neither a nonce nor the end.
  <2>6. ASSUME SubSeq(ttyin, 1, seven) = w PROVE last' = last /\ hpc' = "scan"
    <3>1. ttyin[2] = w[2] /\ ttyin[3] = w[3]
      BY <2>3, <2>6, Zenon
    <3>2. w[2] = Char("W") /\ w[3] = Num(0)
      BY StateTypes, ReplyBytes DEF w, Started
    <3>3. Char("W") # Char("R") /\ Num(0) # Num(1)
      BY DEF Char, Num
    <3>4. MayBe(Char("W"), Char("R")) = {FALSE} /\ MayBe(Num(0), Num(1)) = {FALSE}
      <4>1. Char("W")[1] = "char" /\ Num(0)[1] = "num"
        BY DEF Char, Num
      <4> QED BY <3>3, <4>1, Zenon DEF MayBe
    <3>5. valid = FALSE /\ reset = FALSE
      BY <3>1, <3>2, <3>4, Zenon
    <3> QED BY <1>0, <2>2, <3>5
  \* The answer: its nonce, if it has one, and the end.
  <2>7. ASSUME SubSeq(ttyin, 1, seven) = a, state \in {Stopped, Solved(work)}
        PROVE  last' \in {last, <<work, NonceBytes(work)>>} /\ hpc' = "idle"
    <3>1. ttyin[2] = a[2] /\ ttyin[3] = a[3] /\ SubSeq(ttyin, 4, 7) = SubSeq(a, 4, 7)
      BY <2>3, <2>7
    <3>2. /\ a[2] = Char(state.state) /\ a[3] = Num(IF state.nonce_valid THEN 1 ELSE 0)
          /\ SubSeq(a, 4, 7) = NonceBytes(state.nonce)
      BY <1>1, ReplyBytes DEF a
    <3>3. MayBe(Char("R"), Char("R")) = {TRUE} /\ MayBe(Num(0), Num(1)) = {FALSE}
      <4>1. Char("R")[1] = "char" /\ Num(0)[1] = "num" /\ Num(0) # Num(1)
        BY DEF Char, Num
      <4> QED BY <4>1, Zenon DEF MayBe
    <3>4. state.state = "R"
      BY <2>7 DEF Stopped, Solved
    <3>5. reset = TRUE
      BY <3>1, <3>2, <3>3, <3>4, Zenon
    <3>6. CASE state = Stopped
      <4>1. a[3] = Num(0)
        BY <3>2, <3>6 DEF Stopped
      <4>2. valid = FALSE
        BY <3>1, <3>3, <4>1, Zenon
      <4> QED BY <2>2, <3>5, <4>2
    <3>7. CASE state = Solved(work)
      <4>1. state.nonce = work
        BY <3>7 DEF Solved
      <4>2. last' \in {last, <<work, NonceBytes(work)>>}
        BY <2>2, <3>1, <3>2, <4>1, Zenon
      <4> QED BY <2>2, <3>5, <4>2
    <3> QED BY <2>7, <3>6, <3>7
  <2>8. CASE Sending
    BY <2>5, <2>8, LineEmpty DEF Sending
  <2>9. CASE Working
    <3>1. line = w
      BY <2>5, <2>9 DEF Working, w
    <3>2. w \o e = w
      BY <2>0 DEF e
    <3>3. SubSeq(ttyin, 1, seven) = w /\ Drop(ttyin, seven) \o tx = e
      <4>1. Readable(ttyin, tx, w, e, seven)
        BY <1>4, <2>0, <3>1, <3>2 DEF Readable
      <4> QED BY <4>1, ReadSplit, Zenon
    <3>4. ttyin' \o tx' = <<>>
      BY <2>1, <3>3 DEF e
    <3>5. Working'
      BY <2>1, <2>9, <3>4 DEF Working, OutEmpty, minerVars
    <3> QED BY <1>0, <2>1, <2>6, <3>3, <3>5 DEF InStep, SubmitMatches
  <2>10. CASE Ended
    <3>1. CASE line = w \o a
      <4>1. SubSeq(ttyin, 1, seven) = w /\ Drop(ttyin, seven) \o tx = a
        <5>1. Readable(ttyin, tx, w, a, seven)
          BY <1>4, <2>0, <3>1 DEF Readable
        <5> QED BY <5>1, ReadSplit, Zenon
      <4>2. ttyin' \o tx' = StateReply("S", state')
        BY <2>1, <4>1 DEF a, minerVars
      <4>3. Ended'
        BY <2>1, <2>10, <4>2, Zenon DEF Ended, OutEmpty, AtRest, minerVars, Solved, Stopped
      <4> QED BY <1>0, <2>1, <2>6, <4>1, <4>3 DEF InStep, SubmitMatches
    <3>2. CASE line = a
      <4>1. a \o e = a
        BY <2>0 DEF e
      <4>2. SubSeq(ttyin, 1, seven) = a /\ Drop(ttyin, seven) \o tx = e
        <5>1. Readable(ttyin, tx, a, e, seven)
          BY <1>4, <2>0, <3>2, <4>1 DEF Readable
        <5> QED BY <5>1, ReadSplit, Zenon
      <4>3. Len(tx) = 0 /\ Len(ttyin) = 7
        <5>1. Len(ttyin \o tx) = seven
          BY <2>0, <3>2
        <5>2. Len(ttyin) + Len(tx) = seven
          BY <1>4, <5>1
        <5>3. Len(ttyin) >= seven /\ seven \in Nat
          BY <2>0
        <5>4. Len(tx) = 0 /\ Len(ttyin) = seven
          BY <1>4, <5>2, <5>3
        <5> QED BY <5>4 DEF seven
      <4>4. tx = <<>> /\ Drop(ttyin, seven) = <<>>
        <5>1. tx = <<>>
          BY <1>4, <4>3
        <5>2. SubSeq(ttyin, 7 + 1, 7) = <<>>
          BY <1>4
        <5> QED BY <4>3, <5>1, <5>2 DEF Drop, seven
      <4>5. OutEmpty' /\ InEmpty' /\ AtRest'
        BY <2>1, <2>10, <4>4 DEF Ended, OutEmpty, InEmpty, AtRest, minerVars
      <4>6. state \in {Stopped, Solved(work)}
        BY <2>10 DEF Ended
      <4>7. last' \in {last, <<work, NonceBytes(work)>>} /\ hpc' = "idle"
        BY <2>7, <4>2, <4>6
      <4>8. SubmitMatches'
        BY <1>0, <4>7 DEF SubmitMatches
      <4> QED BY <1>0, <2>1, <4>5, <4>7, <4>8 DEF InStep
    <3> QED BY <2>10, <3>1, <3>2, Zenon DEF Ended, w, a
  <2> QED BY <1>0, <2>8, <2>9, <2>10
<1> QED BY <1>5, <1>6, <1>7

\* The line and the firmware's loop carry the bytes on.
LEMMA SyncLine ==
  ASSUME TypeOK, InStep, HostIn \/ Drain
  PROVE  InStep'
<1>1. CASE HostIn
  <2>1. /\ hpc \in {"probe", "idle", "scan"} /\ tx # <<>>
        /\ UNCHANGED <<hpc, work, work_restart, ident, last, outq, drained, buffer_, minerVars,
                       bounds>>
    BY <1>1 DEF HostIn, IsOpen
  <2>2. ttyin' \o tx' = ttyin \o tx /\ ~InEmpty
    BY <1>1, <2>1, LineKept DEF InEmpty
  <2>3. CASE hpc = "probe"
    <3>1. OutEmpty /\ AtRest /\ ttyin \o tx = IdReply
      BY <2>2, <2>3 DEF InStep, Probing
    <3>2. Probing'
      BY <2>1, <2>2, <3>1 DEF Probing, OutEmpty, AtRest, minerVars
    <3> QED BY <2>1, <2>3, <3>2 DEF InStep, SubmitMatches
  <2>4. CASE hpc = "idle"
    BY <2>2, <2>4 DEF InStep
  <2>5. CASE hpc = "scan"
    <3>1. work \in Work /\ (Working \/ Ended)
      BY <2>2, <2>5 DEF InStep, Sending
    <3>2. Working => Working'
      BY <2>1, <2>2 DEF Working, OutEmpty, minerVars
    <3>3. Ended => Ended'
      BY <2>1, <2>2, Zenon DEF Ended, OutEmpty, AtRest, minerVars, Solved, Stopped
    <3> QED BY <2>1, <2>5, <3>1, <3>2, <3>3 DEF InStep, SubmitMatches
  <2> QED BY <2>1, <2>3, <2>4, <2>5
<1>2. CASE Drain
  <2>1. /\ outq # <<>> /\ drained' = drained + 1 /\ drained \in Nat
        /\ buffer_' = buffer_ \o Head(outq) /\ outq' = Tail(outq)
        /\ UNCHANGED <<hpc, work, work_restart, ident, last, ttyin, tx, minerVars, bounds>>
    BY <1>2, Sizes DEF Drain, hostVars, TypeOK
  <2>2. hpc \in {"probe", "scan"}
    BY <2>1 DEF TypeOK, InStep, OutEmpty
  <2>3. CASE hpc = "probe"
    <3>1. /\ AtRest /\ InEmpty /\ outq = <<<<Char("I")>>>> /\ drained = 0 /\ buffer_ = <<>>
      BY <2>1, <2>3 DEF InStep, Probing, OutEmpty
    <3>2. outq' = <<>> /\ buffer_' = <<Char("I")>> /\ drained' = 1
      BY <2>1, <3>1
    <3>3. Probing'
      BY <2>1, <3>1, <3>2 DEF Probing, AtRest, InEmpty, minerVars
    <3> QED BY <2>1, <2>3, <3>3 DEF InStep, SubmitMatches
  <2>4. CASE hpc = "scan"
    <3>1. work \in Work /\ Sending
      BY <2>1, <2>4 DEF InStep, Working, Ended, OutEmpty
    <3> DEFINE p == Packets(Cmd(work))
    <3>2. PICK c \in 0..Parts : buffer_ = Part(work, c) /\ outq = SubSeq(p, c + 1, Parts)
      BY <3>1, Zenon DEF Sending
    <3>3. p \in Seq(Seq(Byte)) /\ Len(p) = Parts /\ Parts \in Nat
      BY <3>1, CmdPackets, PartsFacts
    <3> HIDE DEF p
    <3>5. c < Parts
      BY <2>1, <3>2, <3>3
    <3>6. Head(outq) = p[c + 1] /\ Tail(outq) = SubSeq(p, (c + 1) + 1, Parts)
      BY <3>2, <3>3, <3>5
    <3>7. buffer_' = Part(work, c + 1) /\ c + 1 \in 0..Parts /\ c + 1 # 0
      <4>1. Part(work, c) \o p[c + 1] = Part(work, c + 1)
        BY <3>1, <3>5, PartFacts DEF p
      <4> QED BY <2>1, <3>2, <3>3, <3>5, <3>6, <4>1
    <3>8. drained' > 0
      BY <2>1
    <3>9. (AtRest /\ InEmpty)'
      BY <2>1, <3>1 DEF Sending, AtRest, InEmpty, minerVars
    <3>10. Sending'
      BY <2>1, <3>6, <3>7, <3>8, <3>9, Zenon DEF Sending, p
    <3> QED BY <2>1, <2>4, <3>1, <3>10 DEF InStep, SubmitMatches
  <2> QED BY <2>2, <2>3, <2>4
<1> QED BY <1>1, <1>2

\* A byte of the driver stands for its command and no other.
LEMMA CommandIs ==
  ASSUME NEW c, NEW buf, serialProcess(buf), Head(buf) = Char(c)
  PROVE  /\ c = "I" => HandleIdent(buf)
         /\ c = "W" => HandleWork(buf)
<1>1. CommandsOf(Head(buf)) = {c}
  BY DEF CommandsOf, Char
<1> QED BY <1>1, Zenon DEF serialProcess, HandleWork, HandleStop, HandleStatus, HandleIdent, HandleOther

\* A command is processed: it is the 'I', or the 'W' with its unit complete or not.
LEMMA SyncProcess ==
  ASSUME TypeOK, InStep, Process
  PROVE  InStep'
<1>1. /\ drained > 0 /\ drained' = 0 /\ serialProcess(buffer_)
      /\ UNCHANGED <<hpc, work, work_restart, ident, last, ttyin, outq, bounds>>
  BY DEF Process, hostVars
<1>2. hpc \in {"probe", "scan"}
  BY <1>1 DEF TypeOK, InStep, OutEmpty
<1>3. CASE hpc = "probe"
  <2>1. AtRest /\ InEmpty /\ outq = <<>> /\ buffer_ = <<Char("I")>>
    BY <1>1, <1>3 DEF InStep, Probing, OutEmpty
  <2>2. Head(buffer_) = Char("I") /\ Tail(buffer_) = <<>>
    BY <2>1
  <2>3. HandleIdent(buffer_)
    BY <1>1, <2>2, CommandIs
  <2>4. buffer_' = <<>> /\ tx' = tx \o IdReply /\ UNCHANGED minerVars
    BY <2>2, <2>3 DEF HandleIdent
  <2>5. tx' = IdReply /\ ttyin' \o tx' = IdReply
    BY <1>1, <2>1, <2>4, IdReplyType DEF InEmpty
  <2>6. Probing'
    BY <1>1, <2>1, <2>4, <2>5 DEF Probing, OutEmpty, AtRest, minerVars
  <2> QED BY <1>1, <1>3, <2>6 DEF InStep, SubmitMatches
<1>4. CASE hpc = "scan"
  <2>1. work \in Work /\ Sending
    BY <1>1, <1>4 DEF InStep, Working, Ended, OutEmpty
  <2>2. PICK c \in 0..Parts :
               /\ buffer_ = Part(work, c) /\ outq = SubSeq(Packets(Cmd(work)), c + 1, Parts)
               /\ (c = 0 => drained = 0) /\ (c = Parts => drained > 0)
    BY <2>1, Zenon DEF Sending
  <2>3. c > 0 /\ Parts \in Nat /\ c \in Nat
    BY <1>1, <2>2, PartsFacts
  <2>4. Head(buffer_) = Char("W") /\ Len(buffer_) = Upto(c)
    BY <2>1, <2>2, <2>3, PartFacts
  <2>5. HandleWork(buffer_)
    BY <1>1, <2>4, CommandIs
  <2>6. CASE c < Parts
    <3>1. Upto(c) \in Nat /\ Upto(c) < WorkBytes + 1
      BY <2>6, PartsFacts DEF CmdLen
    <3>2. ~(Len(buffer_) > WorkBytes)
      BY <2>4, <3>1, Sizes
    <3>3. buffer_' = buffer_ /\ UNCHANGED <<minerVars, tx>>
      BY <2>5, <3>2 DEF HandleWork
    <3>4. (AtRest /\ InEmpty)'
      BY <1>1, <2>1, <3>3 DEF Sending, AtRest, InEmpty, minerVars
    <3>5. c # 0 /\ c # Parts
      BY <2>3, <2>6
    <3>6. Sending'
      BY <1>1, <2>2, <3>3, <3>4, <3>5, Zenon DEF Sending
    <3> QED BY <1>1, <1>4, <2>1, <3>6 DEF InStep, SubmitMatches
  <2>7. CASE c = Parts
    <3>1. Upto(c) = CmdLen /\ CmdLen = WorkBytes + 1 /\ Len(buffer_) > WorkBytes
      BY <2>4, <2>7, PartsFacts, Sizes DEF CmdLen
    <3>2. buffer_ = Cmd(work)
      <4>1. SubSeq(Cmd(work), 1, CmdLen) = Cmd(work)
        BY <2>1, CmdFacts
      <4> QED BY <2>2, <3>1, <4>1 DEF Part
    <3>3. /\ Miner!Start(Decode(SubSeq(buffer_, 2, WorkBytes + 1)))
          /\ buffer_' = Drop(buffer_, WorkBytes + 1) /\ work_timer' = TRUE
          /\ tx' = tx \o StateReply("W", state')
      BY <2>5, <3>1 DEF HandleWork
    <3>4. Decode(SubSeq(buffer_, 2, WorkBytes + 1)) = work
      BY <2>1, <3>1, <3>2, CmdFacts, DecodeUnit, Zenon
    <3>5. worktask' = work /\ state' = Started
      BY <3>3, <3>4 DEF Miner!Start, Started
    <3>6. buffer_' = <<>>
      <4>1. Cmd(work) \in Seq(Byte) /\ Len(Cmd(work)) = CmdLen /\ CmdLen \in Nat
        BY <2>1, CmdFacts
      <4>2. SubSeq(Cmd(work), CmdLen + 1, CmdLen) = <<>>
        BY <4>1
      <4> QED BY <3>1, <3>2, <3>3, <4>1, <4>2 DEF Drop
    <3>7. outq' = <<>>
      <4>1. Packets(Cmd(work)) \in Seq(Seq(Byte))
        BY <2>1, CmdPackets
      <4> QED BY <1>1, <2>2, <2>3, <2>7, <4>1
    <3>8. ttyin' \o tx' = StateReply("W", Started)
      <4>1. StateReply("W", Started) \in Seq(Byte)
        BY StateTypes, StateReplyType
      <4>2. ttyin' = <<>> /\ tx' = <<>> \o StateReply("W", Started)
        BY <1>1, <2>1, <3>3, <3>5 DEF Sending, InEmpty
      <4> QED BY <4>1, <4>2
    <3>9. Working'
      BY <1>1, <3>3, <3>5, <3>6, <3>7, <3>8 DEF Working, OutEmpty
    <3> QED BY <1>1, <1>4, <2>1, <3>9 DEF InStep, SubmitMatches
  <2> QED BY <2>3, <2>6, <2>7
<1> QED BY <1>2, <1>3, <1>4

\* The unit is solved or its time is over: the answer goes behind the announcement.
LEMMA SyncService ==
  ASSUME TypeOK, InStep, ReportFound \/ WorkExpired
  PROVE  InStep'
<1>1. /\ ~AtRest /\ UNCHANGED <<hostVars, outq, drained, buffer_, bounds>>
      /\ tx' = tx \o StateReply("S", state') /\ work_timer' = FALSE
  BY Zenon DEF ReportFound, WorkExpired, AtRest, Miner!Found
<1>2. hpc = "scan" /\ work \in Work /\ Working
  BY <1>1, Zenon DEF TypeOK, InStep, Probing, Sending, Ended
<1>3. state' \in {Stopped, Solved(work)}
  BY <1>2, Zenon DEF ReportFound, WorkExpired, Miner!Found, Solves, Working, Stopped, Solved
<1>4. AtRest' /\ state' \in {Stopped, Solved(work')}
  BY <1>1, <1>3 DEF AtRest, Stopped, Solved, hostVars
<1> DEFINE w == StateReply("W", Started)
           a == StateReply("S", state')
<1>5. w \in Seq(Byte) /\ a \in Seq(Byte) /\ ttyin \in Seq(Byte) /\ tx \in Seq(Byte)
  <2>1. state' \in States
    <3>1. work \in Units
      BY <1>2 DEF Units
    <3> QED BY <1>3, <3>1, StateTypes
  <2> QED BY <2>1, StateTypes, StateReplyType DEF TypeOK
<1>6. ttyin \o tx \in {<<>>, w}
  BY <1>2 DEF Working
<1> HIDE DEF w, a
<1>7. ttyin' \o tx' = (ttyin \o tx) \o a
  <2>1. (ttyin \o tx) \o a = ttyin \o (tx \o a)
    BY <1>5, ConcatAssoc
  <2> QED BY <1>1, <2>1 DEF a, hostVars
<1>8. ttyin' \o tx' \in {a, w \o a}
  <2>1. <<>> \o a = a
    BY <1>5
  <2> QED BY <1>6, <1>7, <2>1, Zenon
<1>9. Ended'
  BY <1>1, <1>2, <1>4, <1>8, Zenon DEF Ended, Working, OutEmpty, w, a
<1> QED BY <1>1, <1>2, <1>9 DEF InStep, SubmitMatches, hostVars

\* Every step keeps the driver and the miner in step.
LEMMA SyncNext == TypeInv /\ SyncInv /\ [Next]_vars => SyncInv'
<1> SUFFICES ASSUME TypeInv, SyncInv, [Next]_vars, Undisturbed' PROVE InStep'
  BY DEF SyncInv
<1>0. TypeOK /\ restarts \in Nat /\ exits \in Nat
  BY Sizes DEF TypeInv, TypeOK
<1>1. ~Restart /\ ~HostExit
  BY <1>0 DEF Restart, HostExit, Undisturbed
<1>2. CASE UNCHANGED bounds
  <2>1. InStep
    BY <1>2, SMTT(30) DEF SyncInv, Undisturbed, bounds
  <2>2. CASE UNCHANGED vars
    BY <2>1, <2>2, Zenon DEF vars, hostVars, minerVars, InStep, SubmitMatches, Probing,
         Sending, Working, Ended, OutEmpty, InEmpty, AtRest, Solved
  <2> QED BY <1>0, <1>1, <2>1, <2>2, SyncProbe, SyncScan, SyncRead, SyncLine, SyncProcess,
            SyncService DEF Next, Driver
<1>3. UNCHANGED bounds
  <2>1. CASE UNCHANGED vars
    BY <2>1 DEF vars
  <2>2. CASE Driver
    BY <2>2, Zenon DEF Driver, Probe, ProbeOk, ProbeFails, ThreadInit, Scan, ScanBreak, ScanRead,
         ScanReadShort
  <2>3. CASE HostIn \/ Drain \/ Process \/ ReportFound \/ WorkExpired
    BY <2>3, Zenon DEF HostIn, Drain, Process, ReportFound, WorkExpired
  <2> QED BY <1>1, <2>1, <2>2, <2>3 DEF Next
<1> QED BY <1>2, <1>3

\* SyncInv holds in every state of every behaviour.
LEMMA SyncInvariant == Spec => []SyncInv
<1>1. Init => SyncInv
  BY DEF Init, HostInit, MinerInit, Miner!Init, SyncInv, InStep, SubmitMatches, OutEmpty, InEmpty,
       AtRest
<1> QED BY <1>1, SyncNext, TypeInvariant, PTL DEF Spec

\* As long as every scan runs to its end, no reply is left for the next scan to read:
\* between two scans the line is empty and the miner at rest, however the packets are cut.
THEOREM ScansStayInSync == Spec => []InSync
<1>1. TypeInv /\ SyncInv => InSync
  BY LineEmpty DEF TypeInv, SyncInv, InStep, InSync, OutEmpty, AtRest
<1> QED BY <1>1, TypeInvariant, SyncInvariant, PTL

\* As long as every scan runs to its end, a nonce is submitted for the unit it solves,
\* although the driver compares nothing.
THEOREM NoncesAreSubmittedForTheirUnit == Spec => []SubmitMatchesUndisturbed
<1>1. SyncInv => SubmitMatchesUndisturbed
  BY DEF SyncInv, InStep, SubmitMatchesUndisturbed
<1> QED BY <1>1, SyncInvariant, PTL

\* The driver probes before the first scan, so no restart can have come before.
ProbedFirst ==
  exits = 0 => DetectGenuine /\ (hpc \in {"closed", "probe", "found"} => restarts = 0)

\* Every step of one host program keeps ProbedFirst, given the line is in step until then.
LEMMA ProbedFirstNext ==
  ASSUME TypeOK, SyncInv', ProbedFirst, [Next]_vars
  PROVE  ProbedFirst'
<1> SUFFICES ASSUME exits' = 0
             PROVE  /\ ident' = IdReply
                    /\ hpc' \in {"closed", "probe", "found"} => restarts' = 0
  BY DEF ProbedFirst, DetectGenuine
<1>1. restarts' = 0 => ident' = IdReply
  BY DEF SyncInv, Undisturbed, InStep
<1>2. CASE Driver
  <2>1. exits = 0 /\ restarts' = restarts
    BY <1>2, Zenon DEF Driver, Probe, ProbeOk, ProbeFails, ThreadInit, Scan, ScanBreak, ScanRead,
         ScanReadShort, bounds
  <2>2. ident = IdReply /\ (hpc \in {"closed", "probe", "found"} => restarts = 0)
    BY <2>1 DEF ProbedFirst, DetectGenuine
  <2>3. CASE Probe \/ ProbeOk \/ ProbeFails \/ ThreadInit
    <3>1. hpc \in {"closed", "probe", "found"}
      BY <2>3 DEF Probe, ProbeOk, ProbeFails, ThreadInit
    <3> QED BY <1>1, <2>1, <2>2, <3>1
  <2>4. CASE (\E w \in Work : Scan(w)) \/ ScanBreak \/ ScanRead \/ ScanReadShort
    <3>1. ident' = ident /\ hpc' \in {"scan", "idle"}
      BY <2>4, Zenon DEF Scan, ScanBreak, ScanRead, ScanReadShort
    <3> QED BY <2>2, <3>1
  <2> QED BY <1>2, <2>3, <2>4 DEF Driver
<1>3. CASE Restart
  BY <1>3 DEF Restart, ProbedFirst, DetectGenuine
<1>4. CASE HostExit
  BY <1>4 DEF HostExit, TypeOK
<1>5. CASE HostIn \/ Drain \/ Process \/ ReportFound \/ WorkExpired \/ UNCHANGED vars
  <2>1. ident' = ident /\ hpc' = hpc /\ exits' = exits /\ restarts' = restarts
    BY <1>5, Zenon DEF HostIn, Drain, Process, ReportFound, WorkExpired, vars, hostVars, bounds
  <2> QED BY <2>1 DEF ProbedFirst, DetectGenuine
<1> QED BY <1>2, <1>3, <1>4, <1>5 DEF Next

\* As long as no host program has ended, what the driver takes for the identity is the
\* identity, whatever scans have been broken off since.
THEOREM FirstProbeIsGenuine == Spec => [](exits = 0 => DetectGenuine)
<1>1. Init => ProbedFirst
  BY DEF Init, HostInit, ProbedFirst, DetectGenuine
<1>2. TypeInv => TypeOK
  BY DEF TypeInv
<1>3. ProbedFirst => (exits = 0 => DetectGenuine)
  BY DEF ProbedFirst
<1> QED BY <1>1, <1>2, <1>3, ProbedFirstNext, TypeInvariant, SyncInvariant, PTL DEF Spec

-----------------------------------------------------------------------------
(* Scans may be broken off, but the host program does not end: commands follow each *)
(* other on the line without a gap, so the parser stays at the start of a command.   *)

\* The packets of q are parts of units as unit and part say: they make whole commands,
\* one after the other, except that the first c packets of the first command, the one
\* with unit w, are gone.
Continues(q, unit, part, w, c) ==
  /\ \A i \in 1..Len(q) : q[i] = Packets(Cmd(unit[i]))[part[i]]
  /\ Len(q) = 0 => c = 0
  /\ Len(q) > 0 => part[1] = c + 1 /\ (c > 0 => unit[1] = w) /\ part[Len(q)] = Parts
  /\ \A i \in 1..(Len(q) - 1) :
       \/ part[i] = Parts /\ part[i + 1] = 1
       \/ part[i + 1] = part[i] + 1 /\ unit[i + 1] = unit[i]

Queue(q, w, c) ==
  \E unit \in [1..Len(q) -> Work], part \in [1..Len(q) -> 1..Parts] :
    Continues(q, unit, part, w, c)

\* What buffer_ holds of a command that is not complete, behind at most one complete
\* command.  That one has come with the packets of this call of appUsbDataReceived.
Partial(w, c) ==
  \/ buffer_ = Part(w, c)
  \/ c < drained /\ \E v \in Work : buffer_ = Cmd(v) \o Part(w, c)

Parsing ==
  \E w \in Work \cup {NoWork}, c \in 0..(Parts - 1) :
    (c > 0 => w \in Work) /\ Partial(w, c) /\ Queue(outq, w, c)

UnitsInv ==
  exits = 0 => IF hpc \in {"closed", "probe", "found"} THEN InStep ELSE Parsing /\ FramesAligned

\* Before the first packet nothing has arrived.
LEMMA PartEmpty == ASSUME NEW w PROVE Part(w, 0) = <<>>
<1> DEFINE S == {Char("W")} \cup {<<"work", w, i>> : i \in 1..WorkBytes}
           h == <<Char("W")>>
           u == WorkUnit(w)
<1>1. h \in Seq(S)
  OBVIOUS
<1>2. u \in Seq(S)
  BY Sizes DEF WorkUnit
<1> HIDE DEF S, h, u
<1>3. h \o u \in Seq(S)
  BY <1>1, <1>2
<1>4. Cmd(w) \in Seq(S)
  BY <1>3 DEF Cmd, h, u
<1>5. SubSeq(Cmd(w), 1, 0) = <<>>
  BY <1>4
<1> QED BY <1>5, PartsFacts DEF Part

\* The first c packets of a command are Upto(c) bytes.
LEMMA PartBytes ==
  ASSUME NEW w, NEW c \in 0..Parts, c > 0 => w \in Work
  PROVE  Part(w, c) \in Seq(Byte) /\ Len(Part(w, c)) = Upto(c)
<1>1. CASE c = 0
  <2>1. Part(w, c) = <<>> /\ Upto(c) = 0
    BY <1>1, PartEmpty, PartsFacts
  <2> QED BY <2>1
<1>2. CASE c > 0
  BY <1>2, PartFacts
<1> QED BY <1>1, <1>2, PartsFacts

\* The first packet of the queue is taken.
LEMMA QueueTail ==
  ASSUME NEW q \in Seq(Seq(Byte)), q # <<>>, NEW w, NEW c \in 0..(Parts - 1),
         NEW unit \in [1..Len(q) -> Work], NEW part \in [1..Len(q) -> 1..Parts],
         Continues(q, unit, part, w, c)
  PROVE  Queue(Tail(q), unit[1], IF c + 1 = Parts THEN 0 ELSE c + 1)
<1> DEFINE n == Len(q)
           m == n - 1
           t == Tail(q)
           unit2 == [i \in 1..m |-> unit[i + 1]]
           part2 == [i \in 1..m |-> part[i + 1]]
           d == IF c + 1 = Parts THEN 0 ELSE c + 1
<1>1. n \in Nat /\ m \in Nat /\ n = m + 1 /\ Len(q) = n /\ 1 \in 1..n
  OBVIOUS
<1>2. t \in Seq(Seq(Byte)) /\ Len(t) = m /\ \A i \in 1..m : t[i] = q[i + 1]
  OBVIOUS
<1>3. /\ \A i \in 1..n : q[i] = Packets(Cmd(unit[i]))[part[i]]
      /\ part[1] = c + 1 /\ part[n] = Parts
      /\ \A i \in 1..m : \/ part[i] = Parts /\ part[i + 1] = 1
                         \/ part[i + 1] = part[i] + 1 /\ unit[i + 1] = unit[i]
  BY <1>1 DEF Continues
<1>4. unit \in [1..n -> Work] /\ part \in [1..n -> 1..Parts] /\ Parts \in Nat
  BY PartsFacts
<1> HIDE DEF n, m, t
<1>5. \A i \in 1..m : i + 1 \in 1..n
  BY <1>1
<1>6. unit2 \in [1..m -> Work] /\ part2 \in [1..m -> 1..Parts]
  BY <1>4, <1>5, Zenon
<1>7. \A i \in 1..m : t[i] = Packets(Cmd(unit2[i]))[part2[i]]
  BY <1>2, <1>3, <1>5, Zenon
<1>8. ASSUME NEW i \in 1..(m - 1)
      PROVE  \/ part2[i] = Parts /\ part2[i + 1] = 1
             \/ part2[i + 1] = part2[i] + 1 /\ unit2[i + 1] = unit2[i]
  <2>1. i \in 1..m /\ i + 1 \in 1..m
    BY <1>1
  <2> QED BY <1>3, <2>1, Zenon
<1>9. m = 0 => d = 0
  BY <1>1, <1>3
<1>10. ASSUME m > 0 PROVE part2[1] = d + 1 /\ (d > 0 => unit2[1] = unit[1]) /\ part2[m] = Parts
  <2>1. 1 \in 1..m /\ m \in 1..m /\ 1 + 1 \in 1..n
    BY <1>1, <1>10
  <2>2. part2[1] = part[1 + 1] /\ unit2[1] = unit[1 + 1] /\ part2[m] = part[n]
    BY <1>1, <2>1
  <2>3. part[1 + 1] \in 1..Parts
    BY <1>4, <2>1, Zenon
  <2>4. CASE part[1] = Parts /\ part[1 + 1] = 1
    BY <1>3, <2>2, <2>4
  <2>5. CASE part[1 + 1] = part[1] + 1 /\ unit[1 + 1] = unit[1]
    <3>1. c + 1 # Parts
      BY <1>3, <1>4, <2>3, <2>5, SMTT(30)
    <3> QED BY <1>3, <2>2, <2>5, <3>1, Zenon
  <2> QED BY <1>3, <2>1, <2>4, <2>5, Zenon
<1> HIDE DEF unit2, part2, d
<1>11. Continues(t, unit2, part2, unit[1], d)
  BY <1>1, <1>2, <1>7, <1>8, <1>9, <1>10, Zenon DEF Continues
<1>12. Queue(t, unit[1], d)
  BY <1>2, <1>6, <1>11, Zenon DEF Queue
<1> QED BY <1>12 DEF t, d

\* A command is written behind the queue.
LEMMA QueueAppend ==
  ASSUME NEW q \in Seq(Seq(Byte)), NEW w, NEW c \in 0..(Parts - 1), Queue(q, w, c), NEW v \in Work
  PROVE  Queue(q \o Packets(Cmd(v)), w, c)
<1> DEFINE n == Len(q)
           p == Packets(Cmd(v))
           s == q \o p
<1>1. PICK unit \in [1..n -> Work], part \in [1..n -> 1..Parts] : Continues(q, unit, part, w, c)
  BY DEF Queue
<1>2. p \in Seq(Seq(Byte)) /\ Len(p) = Parts /\ Parts \in Nat /\ Parts > 0
  BY CmdPackets, PartsFacts
<1>3. n \in Nat /\ Len(q) = n
  OBVIOUS
<1> DEFINE k == n + Parts
           unit2 == [i \in 1..k |-> IF i <= n THEN unit[i] ELSE v]
           part2 == [i \in 1..k |-> IF i <= n THEN part[i] ELSE i - n]
<1>4. k \in Nat /\ k = n + Parts /\ k > 0
  BY <1>2, <1>3
<1> HIDE DEF n, p
<1>5. /\ s \in Seq(Seq(Byte)) /\ Len(s) = k
      /\ \A i \in 1..n : s[i] = q[i]
      /\ \A i \in 1..Parts : s[n + i] = p[i]
  <2>1. Joined(Seq(Byte), s, q, n, p, Parts)
    BY <1>2, <1>3, ConcatFacts, ZenonT(30)
  <2> QED BY <2>1, Zenon DEF Joined
<1>6. /\ \A i \in 1..n : q[i] = Packets(Cmd(unit[i]))[part[i]]
      /\ n = 0 => c = 0
      /\ n > 0 => part[1] = c + 1 /\ (c > 0 => unit[1] = w) /\ part[n] = Parts
      /\ \A i \in 1..(n - 1) :
           \/ part[i] = Parts /\ part[i + 1] = 1
           \/ part[i + 1] = part[i] + 1 /\ unit[i + 1] = unit[i]
  BY <1>1, <1>3, Zenon DEF Continues
<1> HIDE DEF k, s
<1>7. unit2 \in [1..k -> Work] /\ part2 \in [1..k -> 1..Parts]
  BY <1>1, <1>2, <1>3, <1>4
<1>8. /\ \A i \in 1..n : i \in 1..k /\ unit2[i] = unit[i] /\ part2[i] = part[i]
      /\ \A i \in 1..Parts : n + i \in 1..k /\ unit2[n + i] = v /\ part2[n + i] = i
  BY <1>2, <1>3, <1>4, SMTT(30)
<1> HIDE DEF unit2, part2
<1>9. ASSUME NEW i \in 1..k PROVE s[i] = Packets(Cmd(unit2[i]))[part2[i]]
  <2>1. CASE i <= n
    <3>1. i \in 1..n
      BY <1>3, <2>1, SMTT(30)
    <3> QED BY <1>5, <1>6, <1>8, <3>1, Zenon
  <2>2. CASE ~(i <= n)
    <3>1. i - n \in 1..Parts /\ n + (i - n) = i
      BY <1>2, <1>3, <1>4, <2>2
    <3>2. s[n + (i - n)] = p[i - n] /\ unit2[n + (i - n)] = v /\ part2[n + (i - n)] = i - n
      BY <1>5, <1>8, <3>1, Zenon
    <3> QED BY <3>1, <3>2, Zenon DEF p
  <2> QED BY <2>1, <2>2, Zenon
<1>10. part2[1] = c + 1 /\ (c > 0 => unit2[1] = w) /\ part2[k] = Parts
  <2>1. part2[k] = Parts
    BY <1>2, <1>4, <1>8
  <2>2. CASE n = 0
    <3>1. part2[n + 1] = 1 /\ n + 1 = 1 /\ c = 0
      BY <1>2, <1>6, <1>8, <2>2
    <3> QED BY <2>1, <3>1
  <2>3. CASE n > 0
    <3>1. 1 \in 1..n
      BY <1>3, <2>3
    <3> QED BY <1>6, <1>8, <2>1, <2>3, <3>1, Zenon
  <2> QED BY <1>3, <2>2, <2>3
<1>11. ASSUME NEW i \in 1..(k - 1)
       PROVE  \/ part2[i] = Parts /\ part2[i + 1] = 1
              \/ part2[i + 1] = part2[i] + 1 /\ unit2[i + 1] = unit2[i]
  <2>1. CASE i < n
    <3>1. i \in 1..(n - 1) /\ i \in 1..n /\ i + 1 \in 1..n
      BY <1>3, <2>1
    <3> QED BY <1>6, <1>8, <3>1, Zenon
  <2>2. CASE i = n
    <3>1. n \in 1..n /\ 1 \in 1..Parts /\ n > 0
      BY <1>2, <1>3, <2>2, SMTT(30)
    <3>2. part2[n] = Parts /\ part2[n + 1] = 1
      BY <1>6, <1>8, <3>1, Zenon
    <3> QED BY <2>2, <3>2, Zenon
  <2>3. CASE i > n
    <3> DEFINE j == i - n
    <3>1. j \in 1..Parts /\ j + 1 \in 1..Parts /\ n + j = i /\ n + (j + 1) = i + 1
      BY <1>2, <1>3, <1>4, <2>3
    <3> HIDE DEF j
    <3>2. /\ unit2[n + j] = v /\ part2[n + j] = j
          /\ unit2[n + (j + 1)] = v /\ part2[n + (j + 1)] = j + 1
      BY <1>8, <3>1, Zenon
    <3> QED BY <3>1, <3>2
  <2> QED BY <1>3, <1>4, <2>1, <2>2, <2>3, SMTT(30)
<1>12. Continues(s, unit2, part2, w, c)
  BY <1>4, <1>5, <1>9, <1>10, <1>11 DEF Continues
<1>13. Queue(s, w, c)
  BY <1>5, <1>7, <1>12, Zenon DEF Queue
<1> QED BY <1>13 DEF s, p

\* The bytes that a packet of the queue adds to buffer_.
LEMMA PartGrows ==
  ASSUME NEW w, NEW c \in 0..(Parts - 1), c > 0 => w \in Work, NEW u \in Work, c > 0 => u = w
  PROVE  /\ Part(w, c) = Part(u, c)
         /\ Part(w, c) \o Packets(Cmd(u))[c + 1] = Part(u, c + 1)
<1>1. Part(w, c) = Part(u, c)
  <2>1. CASE c = 0
    BY <2>1, PartEmpty
  <2>2. CASE c > 0
    BY <2>2
  <2> QED BY PartsFacts, <2>1, <2>2
<1>2. c \in 0..Parts /\ c < Parts
  BY PartsFacts
<1> QED BY <1>1, <1>2, PartFacts

\* A packet is drained.  That a call drains no more packets than a command has keeps
\* a second complete command out of buffer_.
LEMMA UnitsDrain ==
  ASSUME TypeInv, Parsing, Drain, MaxDrain <= Parts
  PROVE  Parsing'
<1>1. /\ outq # <<>> /\ drained < MaxDrain /\ drained' = drained + 1 /\ drained \in Nat
      /\ buffer_' = buffer_ \o Head(outq) /\ outq' = Tail(outq) /\ outq \in Seq(Seq(Byte))
  BY Sizes DEF Drain, TypeInv, TypeOK
<1>2. PICK w \in Work \cup {NoWork}, c \in 0..(Parts - 1) :
             (c > 0 => w \in Work) /\ Partial(w, c) /\ Queue(outq, w, c)
  BY DEF Parsing
<1>3. PICK unit \in [1..Len(outq) -> Work], part \in [1..Len(outq) -> 1..Parts] :
             Continues(outq, unit, part, w, c)
  BY <1>2 DEF Queue
<1> DEFINE u == unit[1]
           d == IF c + 1 = Parts THEN 0 ELSE c + 1
           pkt == Packets(Cmd(u))[c + 1]
<1>4. Queue(outq', u, d)
  BY <1>1, <1>3, QueueTail, Zenon
<1>5. 1 \in 1..Len(outq) /\ Len(outq) > 0 /\ Head(outq) = outq[1] /\ Head(outq) \in Seq(Byte)
  BY <1>1
<1>6. u \in Work /\ Head(outq) = pkt /\ (c > 0 => u = w)
  <2>1. part[1] = c + 1 /\ (c > 0 => unit[1] = w) /\ outq[1] = Packets(Cmd(unit[1]))[part[1]]
    BY <1>3, <1>5, Zenon DEF Continues
  <2> QED BY <1>5, <2>1, Zenon
<1>7. Parts \in Nat /\ Parts > 0 /\ c \in Nat /\ c + 1 \in 0..Parts /\ d \in 0..(Parts - 1) /\ c \in 0..Parts
  BY PartsFacts
<1> HIDE DEF u, d
<1>8. Part(w, c) = Part(u, c) /\ Part(w, c) \o pkt = Part(u, c + 1)
  BY <1>2, <1>6, PartGrows, Zenon
<1>9. pkt \in Seq(Byte)
  BY <1>5, <1>6
<1> HIDE DEF pkt
<1>10. Part(u, c + 1) = IF c + 1 = Parts THEN Cmd(u) ELSE Part(u, d)
  <2>1. CASE c + 1 = Parts
    <3>1. SubSeq(Cmd(u), 1, CmdLen) = Cmd(u)
      BY <1>6, CmdFacts
    <3> QED BY <2>1, <3>1, PartsFacts DEF Part
  <2>2. CASE c + 1 # Parts
    BY <2>2 DEF d
  <2> QED BY <2>1, <2>2
<1>11. Partial(u, d)'
  <2>1. CASE buffer_ = Part(w, c)
    <3>1. buffer_' = Part(u, c + 1)
      BY <1>1, <1>6, <1>8, <2>1, Zenon
    <3>2. CASE c + 1 = Parts
      <4>1. d = 0 /\ d < drained'
        BY <1>1, <3>2 DEF d
      <4>2. Cmd(u) \o <<>> = Cmd(u)
        BY <1>6, CmdFacts
      <4>3. buffer_' = Cmd(u) \o Part(u, d)
        BY <1>10, <3>1, <3>2, <4>1, <4>2, PartEmpty, Zenon
      <4> QED BY <1>6, <4>1, <4>3, Zenon DEF Partial
    <3>3. CASE c + 1 # Parts
      BY <1>10, <3>1, <3>3, Zenon DEF Partial
    <3> QED BY <3>2, <3>3
  <2>2. ASSUME c < drained, NEW v \in Work, buffer_ = Cmd(v) \o Part(w, c) PROVE Partial(u, d)'
    <3>1. c + 1 # Parts /\ c + 1 < drained' /\ d = c + 1
      BY <1>1, <1>7, <2>2, Sizes DEF d
    <3>2. Cmd(v) \in Seq(Byte) /\ Part(w, c) \in Seq(Byte)
      BY <1>6, <1>7, <1>8, CmdFacts, PartFacts, Zenon
    <3>3. (Cmd(v) \o Part(w, c)) \o pkt = Cmd(v) \o (Part(w, c) \o pkt)
      BY <1>9, <3>2, ConcatAssoc, Zenon
    <3>4. buffer_' = Cmd(v) \o Part(u, d)
      BY <1>1, <1>6, <1>8, <2>2, <3>1, <3>3, Zenon
    <3> QED BY <3>1, <3>4, Zenon DEF Partial
  <2> QED BY <1>2, <2>1, <2>2, Zenon DEF Partial
<1> QED BY <1>4, <1>6, <1>7, <1>11, Zenon DEF Parsing

\* A State is seven bytes, in tx and on the way.
LEMMA FrameAdded ==
  ASSUME TypeOK, FramesAligned, NEW cmd \in {"W", "S"}, state' \in States,
         tx' = tx \o StateReply(cmd, state'), ttyin' = ttyin
  PROVE  FramesAligned'
<1> DEFINE a == StateReply(cmd, state')
           seven == 7
<1>1. a \in Seq(Byte) /\ Len(a) = seven /\ tx \in Seq(Byte) /\ seven \in Nat
  BY StateReplyType DEF TypeOK
<1>2. Len(tx) \in Nat /\ Len(ttyin) \in Nat
  BY LineEmpty
<1> HIDE DEF a, seven
<1>3. Len(tx \o a) = Len(tx) + seven
  <2>1. Joined(Byte, tx \o a, tx, Len(tx), a, seven)
    BY <1>1, <1>2, ConcatFacts, Zenon
  <2> QED BY <2>1 DEF Joined
<1>4. Len(tx') = Len(tx) + 7
  BY <1>3 DEF a, seven
<1>5. (Len(ttyin) + Len(tx)) % 7 = 0 => (Len(ttyin) + (Len(tx) + 7)) % 7 = 0
  BY <1>2
<1> QED BY <1>4, <1>5 DEF FramesAligned

\* A command is processed: nothing happens until it is complete, and then it goes.
LEMMA UnitsProcess ==
  ASSUME TypeInv, TypeInv', Parsing, FramesAligned, Process
  PROVE  Parsing' /\ FramesAligned'
<1>1. /\ drained > 0 /\ drained' = 0 /\ serialProcess(buffer_) /\ buffer_ # <<>>
      /\ outq' = outq /\ ttyin' = ttyin
  BY Zenon DEF Process, TypeInv, HasByte, hostVars
<1>2. PICK w \in Work \cup {NoWork}, c \in 0..(Parts - 1) :
             (c > 0 => w \in Work) /\ Partial(w, c) /\ Queue(outq, w, c)
  BY Zenon DEF Parsing
<1>3. Parts \in Nat /\ c \in Nat /\ c \in 0..Parts /\ c < Parts
  BY PartsFacts
<1>4. SUFFICES buffer_' = Part(w, c) /\ FramesAligned'
  BY <1>1, <1>2, Zenon DEF Parsing, Partial
<1>5. CASE buffer_ = Part(w, c)
  <2>1. c > 0 /\ w \in Work
    <3>1. c # 0
      BY <1>1, <1>5, PartEmpty
    <3> QED BY <1>2, <1>3, <3>1
  <2>2. Head(buffer_) = Char("W") /\ Len(buffer_) = Upto(c)
    BY <1>3, <1>5, <2>1, PartFacts, Zenon
  <2>3. Upto(c) \in Nat /\ Upto(c) < WorkBytes + 1
    BY <1>3, PartsFacts, Zenon DEF CmdLen
  <2>4. ~(Len(buffer_) > WorkBytes)
    BY <2>2, <2>3, Sizes
  <2>5. HandleWork(buffer_)
    BY <1>1, <2>2, CommandIs
  <2>6. buffer_' = buffer_ /\ tx' = tx
    BY <2>4, <2>5 DEF HandleWork
  <2> QED BY <1>1, <1>5, <2>6 DEF FramesAligned
<1>6. ASSUME NEW v \in Work, buffer_ = Cmd(v) \o Part(w, c)
      PROVE  buffer_' = Part(w, c) /\ FramesAligned'
  <2> DEFINE x == Cmd(v)
             y == Part(w, c)
             ly == Len(y)
  <2>1. x \in Seq(Byte) /\ Len(x) = CmdLen /\ CmdLen \in Nat /\ CmdLen = WorkBytes + 1
        /\ CmdLen > 1 /\ x[1] = Char("W")
    BY CmdFacts, Zenon
  <2>2. y \in Seq(Byte)
    BY <1>2, <1>3, PartBytes, Zenon
  <2>3. ly \in Nat /\ Len(y) = ly
    BY <2>2
  <2> HIDE DEF x, y, ly
  <2>4. Joined(Byte, x \o y, x, CmdLen, y, ly)
    BY <2>1, <2>2, <2>3, ConcatFacts, ZenonT(30)
  <2>5. buffer_ = x \o y /\ buffer_ \in Seq(Byte) /\ Len(buffer_) = CmdLen + ly
        /\ buffer_[1] = Char("W")
    <3>1. 1 \in 1..CmdLen
      BY <2>1
    <3> QED BY <1>6, <2>1, <2>4, <3>1, Zenon DEF Joined, x, y
  <2>6. Head(buffer_) = Char("W") /\ Len(buffer_) > WorkBytes
    BY <1>1, <2>1, <2>3, <2>5, Sizes
  <2>7. HandleWork(buffer_)
    BY <1>1, <2>6, CommandIs, Zenon
  <2>8. buffer_' = Drop(buffer_, CmdLen) /\ tx' = tx \o StateReply("W", state')
    BY <2>1, <2>6, <2>7, Zenon DEF HandleWork
  <2>9. Drop(buffer_, CmdLen) = y
    <3> DEFINE e == <<>>
    <3>0. e \in Seq(Byte) /\ buffer_ \o e = buffer_
      BY <2>5
    <3>1. e \in Seq(Byte) /\ buffer_ \o e = x \o y /\ Len(buffer_) >= CmdLen
      <4>1. Len(buffer_) >= CmdLen
        BY <2>1, <2>3, <2>5
      <4> QED BY <2>5, <3>0, <4>1
    <3> HIDE DEF e
    <3>2. Readable(buffer_, e, x, y, CmdLen)
      BY <2>1, <2>2, <2>5, <3>1, Zenon DEF Readable
    <3>3. Drop(buffer_, CmdLen) \o e = y
      BY <3>2, ReadSplit, Zenon
    <3>4. Drop(buffer_, CmdLen) \in Seq(Byte)
      BY <2>1, <2>5, <3>1, DropType, Zenon
    <3> QED BY <3>3, <3>4 DEF e
  <2>10. FramesAligned'
    <3>1. state' \in States
      BY Zenon DEF TypeInv, TypeOK, States
    <3> QED BY <1>1, <2>8, <3>1, FrameAdded DEF TypeInv
  <2> QED BY <2>8, <2>9, <2>10 DEF y
<1> QED BY <1>2, <1>5, <1>6 DEF Partial

\* The other steps while the line is in use.
LEMMA UnitsOther ==
  ASSUME TypeInv, TypeInv', Parsing, FramesAligned, hpc \in {"idle", "scan"},
         (\E w \in Work : Scan(w)) \/ ScanBreak \/ ScanRead \/ ScanReadShort \/ Restart
           \/ HostIn \/ ReportFound \/ WorkExpired \/ UNCHANGED vars
  PROVE  hpc' \in {"idle", "scan"} /\ Parsing' /\ FramesAligned'
<1>0. /\ TypeOK /\ TypeOK' /\ ttyin \in Seq(Byte) /\ Len(ttyin) \in Nat /\ Len(tx) \in Nat
      /\ outq \in Seq(Seq(Byte))
  BY LineEmpty, Zenon DEF TypeInv, TypeOK
<1>1. ASSUME buffer_' = buffer_, outq' = outq, drained' = drained PROVE Parsing'
  BY <1>1, Zenon DEF Parsing, Partial
<1>2. ASSUME ttyin' = ttyin, tx' = tx PROVE FramesAligned'
  BY <1>2 DEF FramesAligned
<1>3. ASSUME NEW v \in Work, Scan(v) PROVE hpc' \in {"idle", "scan"} /\ Parsing' /\ FramesAligned'
  <2>1. /\ hpc' = "scan" /\ outq' = outq \o Packets(Cmd(v))
        /\ buffer_' = buffer_ /\ drained' = drained /\ ttyin' = ttyin /\ tx' = tx
    BY <1>3, Zenon DEF Scan, Cmd
  <2>2. PICK w \in Work \cup {NoWork}, c \in 0..(Parts - 1) :
               (c > 0 => w \in Work) /\ Partial(w, c) /\ Queue(outq, w, c)
    BY Zenon DEF Parsing
  <2>3. Queue(outq', w, c)
    BY <1>0, <2>1, <2>2, QueueAppend, Zenon
  <2>4. Partial(w, c)'
    BY <2>1, <2>2, Zenon DEF Partial
  <2>5. Parsing'
    BY <2>2, <2>3, <2>4, Zenon DEF Parsing
  <2> QED BY <1>2, <2>1, <2>5, Zenon
<1>4. CASE ScanBreak \/ Restart \/ UNCHANGED vars
  <2>1. /\ hpc' \in {"idle", "scan"} /\ buffer_' = buffer_ /\ outq' = outq /\ drained' = drained
        /\ ttyin' = ttyin /\ tx' = tx
    BY <1>4, Zenon DEF ScanBreak, Restart, vars, hostVars
  <2> QED BY <1>1, <1>2, <2>1
<1>5. CASE ScanRead
  <2> DEFINE seven == 7
  <2>1. /\ hpc' \in {"idle", "scan"} /\ buffer_' = buffer_ /\ outq' = outq /\ drained' = drained
        /\ Len(ttyin) >= seven /\ ttyin' = Drop(ttyin, seven) /\ tx' = tx /\ seven \in Nat
    BY <1>5, Zenon DEF ScanRead
  <2> HIDE DEF seven
  <2>2. Len(ttyin') = Len(ttyin) - seven
    BY <1>0, <2>1, DropType, Zenon
  <2>3. Len(ttyin) >= 7 /\ Len(ttyin') = Len(ttyin) - 7
    BY <2>1, <2>2 DEF seven
  <2> DEFINE a == Len(ttyin)
             b == Len(tx)
  <2>4. (a + b) % 7 = 0 => ((a - 7) + b) % 7 = 0
    <3>1. a \in Nat /\ b \in Nat
      BY <1>0
    <3> HIDE DEF a, b
    <3> QED BY <3>1
  <2>5. FramesAligned'
    BY <2>1, <2>3, <2>4 DEF FramesAligned
  <2> QED BY <1>1, <2>1, <2>5, Zenon
<1>6. CASE ScanReadShort
  <2>1. ttyin # <<>> /\ Len(ttyin) < 7 /\ tx = <<>>
    BY <1>6, Zenon DEF ScanReadShort, ReadTimesOut
  <2>2. Len(ttyin) # 0 /\ Len(tx) = 0
    BY <1>0, <2>1
  <2> DEFINE a == Len(ttyin)
             b == Len(tx)
  <2>3. (a + b) % 7 # 0
    <3>1. a \in Nat /\ b = 0 /\ a # 0 /\ a < 7
      BY <1>0, <2>1, <2>2
    <3> HIDE DEF a, b
    <3> QED BY <3>1
  <2> QED BY <2>3 DEF FramesAligned
<1>7. CASE HostIn
  <2>1. hpc' = hpc /\ buffer_' = buffer_ /\ outq' = outq /\ drained' = drained
    BY <1>7, Zenon DEF HostIn
  <2>2. ttyin' \o tx' = ttyin \o tx
    BY <1>0, <1>7, LineKept
  <2>3. Len(ttyin \o tx) = Len(ttyin) + Len(tx) /\ Len(ttyin' \o tx') = Len(ttyin') + Len(tx')
    <3>1. ttyin \in Seq(Byte) /\ tx \in Seq(Byte) /\ ttyin' \in Seq(Byte) /\ tx' \in Seq(Byte)
      BY <1>0, Zenon DEF TypeOK
    <3> QED BY <3>1
  <2>4. FramesAligned'
    BY <2>2, <2>3, Zenon DEF FramesAligned
  <2> QED BY <1>1, <2>1, <2>4
<1>8. CASE ReportFound \/ WorkExpired
  <2>1. /\ hpc' = hpc /\ buffer_' = buffer_ /\ outq' = outq /\ drained' = drained
        /\ ttyin' = ttyin /\ tx' = tx \o StateReply("S", state')
    BY <1>8, Zenon DEF ReportFound, WorkExpired, hostVars
  <2>2. state' \in States
    BY <1>0, Zenon DEF TypeOK, States
  <2>3. FramesAligned'
    BY <1>0, <2>1, <2>2, FrameAdded
  <2> QED BY <1>1, <2>1, <2>3
<1> QED BY <1>3, <1>4, <1>5, <1>6, <1>7, <1>8, Zenon

\* Every step keeps UnitsInv while no driver process has exited.
LEMMA UnitsNext ==
  ASSUME TypeInv, TypeInv', UnitsInv, [Next]_vars, MaxDrain <= Parts
  PROVE  UnitsInv'
<1> SUFFICES ASSUME exits' = 0
             PROVE  IF hpc' \in {"closed", "probe", "found"} THEN InStep'
                      ELSE Parsing' /\ FramesAligned'
  BY DEF UnitsInv
<1>0. TypeOK /\ exits \in Nat
  BY Sizes DEF TypeInv, TypeOK
<1>1. ~HostExit
  BY <1>0 DEF HostExit
<1>2. exits = 0
  <2>1. CASE Driver
    BY <2>1, Zenon DEF Driver, Probe, ProbeOk, ProbeFails, ThreadInit, Scan, ScanBreak, ScanRead,
         ScanReadShort, bounds
  <2>2. CASE ~Driver
    BY <1>1, <2>2, Zenon DEF Next, Restart, HostIn, Drain, Process, ReportFound, WorkExpired, vars, bounds
  <2> QED BY <2>1, <2>2, SMTT(30)
<1>3. CASE hpc \in {"closed", "probe", "found"}
  <2>1. InStep
    BY <1>2, <1>3 DEF UnitsInv
  <2>2. InStep'
    <3>1. CASE UNCHANGED vars
      BY <2>1, <3>1, Zenon DEF vars, hostVars, minerVars, InStep, SubmitMatches, Probing,
           Sending, Working, Ended, OutEmpty, InEmpty, AtRest, Solved
    <3>2. ~Restart
      BY <1>3 DEF Restart
    <3> QED BY <1>0, <1>1, <2>1, <3>1, <3>2, SyncProbe, SyncScan, SyncRead, SyncLine, SyncProcess,
              SyncService, Zenon DEF Next, Driver
  <2>3. hpc' # "scan"
    <3>1. CASE Driver
      BY <1>3, <3>1, Zenon DEF Driver, Probe, ProbeOk, ProbeFails, ThreadInit, Scan,
           ScanBreak, ScanRead, ScanReadShort
    <3>2. CASE ~Driver
      BY <1>1, <1>3, <3>2, Zenon DEF Next, Restart, HostIn, Drain, Process, ReportFound, WorkExpired,
           vars, hostVars
    <3> QED BY <3>1, <3>2
  <2>4. ASSUME hpc' = "idle" PROVE Parsing' /\ FramesAligned'
    <3>1. OutEmpty' /\ InEmpty'
      BY <2>2, <2>4, Zenon DEF InStep
    <3>2. FramesAligned'
      BY <3>1 DEF InEmpty, FramesAligned
    <3>3. 0 \in 0..(Parts - 1)
      BY PartsFacts
    <3> DEFINE unit == [i \in 1..0 |-> NoWork]
    <3>4. Len(outq') = 0 /\ unit \in [1..0 -> Work] /\ unit \in [1..0 -> 1..Parts]
      BY <3>1 DEF OutEmpty
    <3> HIDE DEF unit
    <3>5. Continues(outq', unit, unit, NoWork, 0)
      BY <3>4 DEF Continues
    <3>6. Queue(outq', NoWork, 0)
      BY <3>4, <3>5, Zenon DEF Queue
    <3>7. Partial(NoWork, 0)'
      BY <3>1, PartEmpty DEF OutEmpty, Partial
    <3> QED BY <3>2, <3>3, <3>6, <3>7 DEF Parsing
  <2>5. hpc' \in {"closed", "probe", "found", "idle", "scan"}
    BY Zenon DEF TypeInv, TypeOK
  <2> QED BY <2>2, <2>3, <2>4, <2>5
<1>4. CASE hpc \in {"idle", "scan"}
  <2>1. Parsing /\ FramesAligned
    BY <1>2, <1>4 DEF UnitsInv
  <2>2. ~Probe /\ ~ProbeOk /\ ~ProbeFails /\ ~ThreadInit
    BY <1>4, Zenon DEF Probe, ProbeOk, ProbeFails, ThreadInit
  <2>3. CASE Drain
    <3>1. hpc' = hpc /\ ttyin' = ttyin /\ tx' = tx
      BY <2>3, Zenon DEF Drain, hostVars
    <3> QED BY <1>4, <2>1, <2>3, <3>1, UnitsDrain DEF FramesAligned
  <2>4. CASE Process
    <3>1. hpc' = hpc
      BY <2>4 DEF Process, hostVars
    <3> QED BY <1>4, <2>1, <2>4, <3>1, UnitsProcess
  <2>5. CASE ~Drain /\ ~Process
    <3>1. hpc' \in {"idle", "scan"} /\ Parsing' /\ FramesAligned'
      BY <1>1, <1>4, <2>1, <2>2, <2>5, UnitsOther, Zenon DEF Next, Driver
    <3> QED BY <3>1
  <2> QED BY <2>3, <2>4, <2>5, Zenon
<1> QED BY <1>0, <1>3, <1>4, Zenon DEF TypeOK

\* No call of appUsbDataReceived drains more packets than one command has.
OneCommand == MaxDrain <= Parts

\* UnitsInv holds in every state, until a host program ends.
LEMMA UnitsInvariant == OneCommand => (Spec => []UnitsInv)
<1> SUFFICES ASSUME OneCommand PROVE Spec => []UnitsInv
  OBVIOUS
<1>1. Init => UnitsInv
  BY DEF Init, HostInit, MinerInit, Miner!Init, UnitsInv, InStep, SubmitMatches, OutEmpty, InEmpty,
       AtRest
<1>2. TypeInv /\ TypeInv' /\ UnitsInv /\ [Next]_vars => UnitsInv'
  BY UnitsNext DEF OneCommand
<1> QED BY <1>1, <1>2, TypeInvariant, PTL DEF Spec

\* The two kinds of states, for the theorems.
LEMMA UnitsCases ==
  ASSUME TypeInv, UnitsInv, exits = 0
  PROVE  (OutEmpty /\ InEmpty) \/ Probing \/ (Parsing /\ FramesAligned)
<1>1. hpc \in {"closed", "probe", "found", "idle", "scan"}
  BY Zenon DEF TypeInv, TypeOK
<1> QED BY <1>1 DEF UnitsInv, InStep

\* As long as no host program has ended, serialProcess always finds a command at the
\* head of buffer_, never a byte of a unit, also when scans are broken off and their commands are not.
THEOREM ParserStaysAligned == OneCommand => (Spec => [](exits = 0 => RxAligned))
<1> SUFFICES ASSUME OneCommand PROVE Spec => [](exits = 0 => RxAligned)
  OBVIOUS
<1>1. ASSUME TypeInv, UnitsInv, exits = 0 PROVE RxAligned
  <2>1. Char("I")[1] = "char" /\ Char("W")[1] = "char"
    BY DEF Char
  <2>2. CASE OutEmpty \/ Probing
    BY <2>1, <2>2 DEF OutEmpty, Probing, RxAligned
  <2>3. CASE Parsing
    <3>1. PICK w \in Work \cup {NoWork}, c \in 0..(Parts - 1) :
                 (c > 0 => w \in Work) /\ Partial(w, c)
      BY <2>3 DEF Parsing
    <3>2. Parts \in Nat /\ c \in 0..Parts /\ c \in Nat
      BY PartsFacts
    <3>3. CASE buffer_ = Part(w, c)
      <4>1. CASE c = 0
        BY <3>3, <4>1, PartEmpty DEF RxAligned
      <4>2. CASE c > 0
        BY <2>1, <3>1, <3>2, <3>3, <4>2, PartFacts, Zenon DEF RxAligned
      <4> QED BY <3>2, <4>1, <4>2
    <3>4. ASSUME NEW v \in Work, buffer_ = Cmd(v) \o Part(w, c) PROVE RxAligned
      <4>1. Cmd(v) \in Seq(Byte) /\ Len(Cmd(v)) = CmdLen /\ CmdLen \in Nat /\ 1 \in 1..CmdLen
            /\ Cmd(v)[1] = Char("W")
        BY CmdFacts
      <4>2. Part(w, c) \in Seq(Byte)
        BY <3>1, <3>2, PartBytes
      <4>3. (Cmd(v) \o Part(w, c))[1] = Cmd(v)[1]
        <5>1. Len(Part(w, c)) \in Nat
          BY <4>2
        <5>2. Joined(Byte, Cmd(v) \o Part(w, c), Cmd(v), CmdLen, Part(w, c), Len(Part(w, c)))
          BY <4>1, <4>2, <5>1, ConcatFacts, Zenon
        <5> QED BY <4>1, <5>2, Zenon DEF Joined
      <4>4. Head(buffer_) = buffer_[1]
        BY DEF TypeInv, TypeOK
      <4> QED BY <2>1, <3>4, <4>1, <4>3, <4>4, Zenon DEF RxAligned
    <3> QED BY <3>1, <3>3, <3>4 DEF Partial
  <2> QED BY <1>1, <2>2, <2>3, UnitsCases
<1> QED BY <1>1, TypeInvariant, UnitsInvariant, PTL

\* As long as no host program has ended, one command processed per call is enough:
\* when all packets have come and been looked at, no byte waits in buffer_.
THEOREM NothingWaitsInBuffer == OneCommand => (Spec => [](exits = 0 => AllProcessed))
<1> SUFFICES ASSUME OneCommand PROVE Spec => [](exits = 0 => AllProcessed)
  OBVIOUS
<1>1. ASSUME TypeInv, UnitsInv, exits = 0 PROVE AllProcessed
  <2>1. CASE OutEmpty \/ Probing
    BY <2>1 DEF OutEmpty, Probing, AllProcessed
  <2>2. CASE Parsing
    <3> SUFFICES ASSUME outq = <<>>, drained = 0 PROVE buffer_ = <<>>
      BY DEF AllProcessed
    <3>1. PICK w \in Work \cup {NoWork}, c \in 0..(Parts - 1) : Partial(w, c) /\ Queue(outq, w, c)
      BY <2>2 DEF Parsing
    <3>2. c = 0
      <4>1. Len(outq) = 0
        OBVIOUS
      <4> QED BY <3>1, <4>1, Zenon DEF Queue, Continues
    <3>3. buffer_ = Part(w, c)
      BY <3>1, <3>2 DEF Partial
    <3> QED BY <3>2, <3>3, PartEmpty
  <2> QED BY <1>1, <2>1, <2>2, UnitsCases
<1> QED BY <1>1, TypeInvariant, UnitsInvariant, PTL

\* As long as no host program has ended, every read of seven bytes starts at the start
\* of a reply, whatever replies of broken scans are still on the line.
THEOREM RepliesStayAligned == OneCommand => (Spec => [](exits = 0 => FramesAligned))
<1> SUFFICES ASSUME OneCommand PROVE Spec => [](exits = 0 => FramesAligned)
  OBVIOUS
<1>1. ASSUME TypeInv, UnitsInv, exits = 0 PROVE FramesAligned
  <2>0. TypeOK
    BY <1>1 DEF TypeInv
  <2>1. CASE InEmpty
    BY <2>1 DEF InEmpty, FramesAligned
  <2>2. CASE ttyin \o tx = IdReply
    <3>1. Len(ttyin) + Len(tx) = 14
      BY <2>0, <2>2, LineEmpty, IdReplyType
    <3> QED BY <3>1 DEF FramesAligned
  <2> QED BY <1>1, <2>1, <2>2, UnitsCases DEF Probing
<1> QED BY <1>1, TypeInvariant, UnitsInvariant, PTL

\* As long as no host program has ended, the unchecked RingBuffer_Insert of
\* appUsbDataReceived has room if buffer_ is as large as a command and the packets of one call but the first.
THEOREM BufferNeverOverruns ==
  OneCommand /\ CmdLen + (MaxDrain - 1) * Packet <= RxSize => (Spec => [](exits = 0 => RxFits))
<1> SUFFICES ASSUME OneCommand, CmdLen + (MaxDrain - 1) * Packet <= RxSize
             PROVE  Spec => [](exits = 0 => RxFits)
  OBVIOUS
<1> DEFINE extra == (MaxDrain - 1) * Packet
<1>0. extra \in Nat /\ CmdLen \in Nat /\ CmdLen > 1 /\ CmdLen + extra <= RxSize /\ CmdLen <= RxSize
  <2>1. MaxDrain - 1 \in Nat
    BY Sizes
  <2>2. extra \in Nat
    BY <2>1, Sizes
  <2> HIDE DEF extra
  <2>3. CmdLen + extra <= RxSize
    BY DEF extra
  <2> QED BY <2>2, <2>3, PartsFacts, Sizes
<1> HIDE DEF extra
<1>1. ASSUME TypeInv, UnitsInv, exits = 0 PROVE RxFits
  <2>1. CASE OutEmpty \/ Probing
    <3>1. buffer_ = <<>> \/ buffer_ = <<Char("I")>>
      BY <2>1 DEF OutEmpty, Probing
    <3>2. Len(buffer_) \in {0, 1}
      BY <3>1
    <3> QED BY <1>0, <3>2, Sizes DEF RxFits
  <2>2. CASE Parsing
    <3>1. PICK w \in Work \cup {NoWork}, c \in 0..(Parts - 1) :
                 (c > 0 => w \in Work) /\ Partial(w, c)
      BY <2>2 DEF Parsing
    <3> DEFINE y == Part(w, c)
    <3>2. /\ Parts \in Nat /\ c \in 0..Parts /\ c \in Nat /\ Upto(c) = c * Packet
          /\ Upto(c) \in Nat /\ Upto(c) <= CmdLen
      BY PartsFacts
    <3>3. y \in Seq(Byte) /\ Len(y) = Upto(c)
      BY <3>1, <3>2, PartBytes, Zenon
    <3>4. CASE buffer_ = y
      BY <1>0, <3>2, <3>3, <3>4, Sizes DEF RxFits
    <3>5. ASSUME c < drained, NEW v \in Work, buffer_ = Cmd(v) \o Part(w, c) PROVE RxFits
      <4>1. c <= MaxDrain - 1
        BY <1>1, <3>2, <3>5, Sizes DEF TypeInv, TypeOK
      <4>2. c * Packet <= (MaxDrain - 1) * Packet
        BY <3>2, <4>1, Sizes
      <4>3. Cmd(v) \in Seq(Byte) /\ Len(Cmd(v)) = CmdLen
        BY CmdFacts
      <4> HIDE DEF y
      <4>4. Len(buffer_) = CmdLen + Upto(c)
        <5>1. Joined(Byte, Cmd(v) \o y, Cmd(v), CmdLen, y, Upto(c))
          BY <1>0, <3>2, <3>3, <4>3, ConcatFacts, Zenon
        <5> QED BY <3>5, <5>1, Zenon DEF Joined, y
      <4> QED BY <1>0, <3>2, <4>2, <4>4, Sizes DEF RxFits, extra
    <3> QED BY <3>1, <3>4, <3>5, Zenon DEF Partial
  <2> QED BY <1>1, <2>1, <2>2, UnitsCases
<1> QED BY <1>1, TypeInvariant, UnitsInvariant, PTL

-----------------------------------------------------------------------------
(* What a driver that breaks off scans can be made to submit *)

\* The States that a miner shows whose units all come from the host whole.
HostStates == {Started, Stopped} \cup {Solved(w) : w \in Work}
Replies == {StateReply(cmd, s) : cmd \in {"W", "S"}, s \in HostStates}

\* s consists of such replies.
WholeReplies(s) ==
  \A k \in Nat : 7 * k + 7 <= Len(s) =>
    \E reply \in Replies : \A j \in 1..7 : s[7 * k + j] = reply[j]

MinerHas ==
  /\ worktask \in Work \cup {NoWork} /\ state \in HostStates
  /\ state.state = "W" => worktask \in Work

\* The four bytes that are submitted are the nonce of a unit of the host.
SubmitsNonce == \E w \in Work \cup {NoWork} : last[2] = NonceBytes(w)

ReplyInv ==
  exits = 0 => /\ MinerHas /\ SubmitsNonce
               /\ hpc \in {"idle", "scan"} => WholeReplies(ttyin \o tx)

\* What the driver finds in such a reply.
LEMMA ReplyRead ==
  ASSUME NEW reply \in Replies
  PROVE  /\ reply \in Seq(Byte) /\ Len(reply) = 7
         /\ MayBe(reply[3], Num(1)) = {reply[3] = Num(1)}
         /\ reply[3] = Num(1) => \E w \in Work : SubSeq(reply, 4, 7) = NonceBytes(w)
<1>1. PICK cmd \in {"W", "S"}, s \in HostStates : reply = StateReply(cmd, s)
  BY DEF Replies
<1>2. s \in States /\ cmd \in {"W", "R", "A", "S"}
  BY <1>1, StateTypes DEF HostStates, Units
<1>3. reply \in Seq(Byte) /\ Len(reply) = 7
  BY <1>1, <1>2, StateReplyType, Zenon
<1>4. /\ reply[3] = Num(IF s.nonce_valid THEN 1 ELSE 0)
      /\ SubSeq(reply, 4, 7) = NonceBytes(s.nonce)
  BY <1>1, <1>2, ReplyBytes, Zenon
<1>5. s.nonce_valid => \E w \in Work : s = Solved(w)
  BY <1>1 DEF HostStates, Started, Stopped
<1>6. reply[3] = Num(1) => s.nonce_valid
  BY <1>4 DEF Num
<1>7. \A w \in Work : Solved(w).nonce = w
  BY DEF Solved
<1>8. MayBe(reply[3], Num(1)) = {reply[3] = Num(1)}
  BY <1>4 DEF MayBe, Num
<1>9. reply[3] = Num(1) => \E w \in Work : SubSeq(reply, 4, 7) = NonceBytes(w)
  BY <1>4, <1>5, <1>6, <1>7, Zenon
<1> QED BY <1>3, <1>8, <1>9

\* A reply goes behind the others.
LEMMA WholeAdded ==
  ASSUME NEW s \in Seq(Byte), Len(s) % 7 = 0, WholeReplies(s), NEW reply \in Replies
  PROVE  WholeReplies(s \o reply)
<1> DEFINE n == Len(s)
           seven == 7
           t == s \o reply
<1>1. n \in Nat /\ seven \in Nat /\ reply \in Seq(Byte) /\ Len(reply) = seven /\ Len(s) = n
  BY ReplyRead
<1>2. Joined(Byte, t, s, n, reply, seven)
  <2> HIDE DEF n, seven
  <2> QED BY <1>1, ConcatFacts, Zenon
<1>3. /\ Len(t) = n + 7 /\ \A i \in 1..n : t[i] = s[i]
      /\ \A i \in 1..7 : t[n + i] = reply[i]
  BY <1>2 DEF Joined
<1> HIDE DEF t
<1>4. ASSUME NEW k \in Nat, 7 * k + 7 <= Len(t)
      PROVE  \E v \in Replies : \A j \in 1..7 : t[7 * k + j] = v[j]
  <2>1. CASE 7 * k + 7 <= n
    <3>1. PICK v \in Replies : \A j \in 1..7 : s[7 * k + j] = v[j]
      BY <2>1 DEF WholeReplies
    <3>2. \A j \in 1..7 : 7 * k + j \in 1..n
      BY <1>1, <2>1
    <3>3. \A j \in 1..7 : t[7 * k + j] = v[j]
      BY <1>3, <3>1, <3>2, Zenon
    <3> QED BY <3>3
  <2>2. CASE ~(7 * k + 7 <= n)
    <3> HIDE DEF n
    <3>0. n % 7 = 0
      BY DEF n
    <3>1. PICK q \in Nat : n = 7 * q
      BY <1>1, <3>0
    <3>2. 7 * k + 7 <= n + 7
      BY <1>3, <1>4
    <3>3. k = q
      BY <1>1, <2>2, <3>1, <3>2
    <3> QED BY <1>3, <3>1, <3>3
  <2> QED BY <2>1, <2>2
<1> QED BY <1>4, Zenon DEF WholeReplies, t

\* A read of seven bytes takes the first reply.
LEMMA WholeRead ==
  ASSUME NEW a \in Seq(Byte), NEW b \in Seq(Byte), Len(a) >= 7, WholeReplies(a \o b)
  PROVE  /\ \E reply \in Replies : a[3] = reply[3] /\ SubSeq(a, 4, 7) = SubSeq(reply, 4, 7)
         /\ WholeReplies(Drop(a, 7) \o b)
<1> DEFINE m == Len(a)
           n == Len(b)
           s == a \o b
           d == Drop(a, 7)
           t == d \o b
<1>1. m \in Nat /\ n \in Nat /\ Len(a) = m /\ Len(b) = n /\ m >= 7 /\ m - 7 \in Nat
  OBVIOUS
<1>2. d \in Seq(Byte) /\ Len(d) = m - 7 /\ \A k \in 1..(m - 7) : d[k] = a[7 + k]
  <2> DEFINE seven == 7
  <2>1. seven \in Nat /\ seven <= Len(a)
    BY <1>1
  <2> HIDE DEF seven
  <2>2. /\ Drop(a, seven) \in Seq(Byte) /\ Len(Drop(a, seven)) = Len(a) - seven
        /\ \A k \in 1..(Len(a) - seven) : Drop(a, seven)[k] = a[seven + k]
    BY <2>1, DropType
  <2> QED BY <1>1, <2>2 DEF seven
<1> HIDE DEF m, n, d
<1>3. Joined(Byte, s, a, m, b, n)
  BY <1>1, ConcatFacts, Zenon
<1>4. Joined(Byte, t, d, m - 7, b, n)
  BY <1>1, <1>2, ConcatFacts, Zenon
<1> HIDE DEF s, t
<1>5. /\ Len(s) = m + n /\ \A i \in 1..m : s[i] = a[i]
      /\ Len(t) = (m - 7) + n
  BY <1>3, <1>4 DEF Joined
<1>6. \A i \in 1..((m - 7) + n) : t[i] = s[7 + i]
  <2> TAKE i \in 1..((m - 7) + n)
  <2>1. CASE i <= m - 7
    <3>1. i \in 1..(m - 7) /\ 7 + i \in 1..m
      BY <1>1, <2>1
    <3> QED BY <1>2, <1>3, <1>4, <3>1, SMTT(30) DEF Joined
  <2>2. CASE i > m - 7
    <3> DEFINE j == i - (m - 7)
    <3>1. j \in 1..n /\ (m - 7) + j = i /\ m + j = 7 + i
      BY <1>1, <2>2
    <3> HIDE DEF j
    <3>2. t[(m - 7) + j] = b[j] /\ s[m + j] = b[j]
      BY <1>3, <1>4, <3>1 DEF Joined
    <3> QED BY <3>1, <3>2
  <2> QED BY <1>1, <2>1, <2>2
<1>7. ASSUME NEW k \in Nat, 7 * k + 7 <= Len(t)
      PROVE  \E v \in Replies : \A j \in 1..7 : t[7 * k + j] = v[j]
  <2>1. k + 1 \in Nat /\ 7 * (k + 1) + 7 <= Len(s) /\ 7 * (k + 1) = 7 + 7 * k
    BY <1>1, <1>5, <1>7
  <2>2. PICK v \in Replies : \A j \in 1..7 : s[7 * (k + 1) + j] = v[j]
    BY <2>1, Zenon DEF WholeReplies, s
  <2>3. ASSUME NEW j \in 1..7 PROVE t[7 * k + j] = v[j]
    <3>1. 7 * k + j \in 1..((m - 7) + n) /\ 7 + (7 * k + j) = 7 * (k + 1) + j
      BY <1>1, <1>5, <1>7
    <3> QED BY <1>6, <2>2, <3>1, Zenon
  <2> QED BY <2>3
<1>8. WholeReplies(t)
  BY <1>7 DEF WholeReplies
<1>9. PICK v \in Replies : \A j \in 1..7 : s[7 * 0 + j] = v[j]
  <2>1. 7 * 0 + 7 <= Len(s) /\ 0 \in Nat
    BY <1>1, <1>5
  <2> QED BY <2>1 DEF WholeReplies, s
<1>10. \A j \in 1..7 : a[j] = v[j]
  <2> TAKE j \in 1..7
  <2>1. 7 * 0 + j = j /\ j \in 1..m
    BY <1>1
  <2> QED BY <1>5, <1>9, <2>1
<1>11. SubSeq(a, 4, 7) = SubSeq(v, 4, 7)
  <2>1. v \in Seq(Byte) /\ Len(v) = 7
    BY ReplyRead
  <2> QED BY <1>1, <1>10, <2>1
<1> QED BY <1>8, <1>10, <1>11 DEF t, d

\* The unit that the parser has read is one of the host's, and its states are.
LEMMA MinerProcess ==
  ASSUME TypeInv, Parsing, MinerHas, Process
  PROVE  /\ MinerHas'
         /\ tx' = tx \/ \E reply \in Replies : tx' = tx \o reply
<1>1. serialProcess(buffer_) /\ buffer_ # <<>>
  BY Zenon DEF Process, TypeInv, HasByte
<1>2. PICK w \in Work \cup {NoWork}, c \in 0..(Parts - 1) :
             (c > 0 => w \in Work) /\ Partial(w, c) /\ Queue(outq, w, c)
  BY Zenon DEF Parsing
<1>3. Parts \in Nat /\ c \in Nat /\ c \in 0..Parts /\ c < Parts
  BY PartsFacts
<1>4. CASE buffer_ = Part(w, c)
  <2>1. c > 0 /\ w \in Work
    <3>1. c # 0
      BY <1>1, <1>4, PartEmpty
    <3> QED BY <1>2, <1>3, <3>1
  <2>2. Head(buffer_) = Char("W") /\ Len(buffer_) = Upto(c)
    BY <1>3, <1>4, <2>1, PartFacts, Zenon
  <2>3. Upto(c) \in Nat /\ Upto(c) < WorkBytes + 1
    BY <1>3, PartsFacts, Zenon DEF CmdLen
  <2>4. ~(Len(buffer_) > WorkBytes)
    BY <2>2, <2>3, Sizes
  <2>5. HandleWork(buffer_)
    BY <1>1, <2>2, CommandIs
  <2> QED BY <2>4, <2>5, Zenon DEF HandleWork, MinerHas, minerVars
<1>5. ASSUME NEW v \in Work, buffer_ = Cmd(v) \o Part(w, c)
      PROVE  /\ MinerHas'
             /\ \E reply \in Replies : tx' = tx \o reply
  <2> DEFINE x == Cmd(v)
             y == Part(w, c)
             ly == Len(y)
             u == WorkUnit(v)
  <2>1. x \in Seq(Byte) /\ Len(x) = CmdLen /\ CmdLen \in Nat /\ CmdLen = WorkBytes + 1
        /\ CmdLen > 1 /\ x[1] = Char("W") /\ SubSeq(x, 2, CmdLen) = u
    BY CmdFacts, Zenon
  <2>2. y \in Seq(Byte)
    BY <1>2, <1>3, PartBytes, Zenon
  <2>3. ly \in Nat /\ Len(y) = ly
    BY <2>2
  <2> HIDE DEF x, y, ly, u
  <2>4. Joined(Byte, x \o y, x, CmdLen, y, ly)
    BY <2>1, <2>2, <2>3, ConcatFacts, ZenonT(30)
  <2>5. /\ buffer_ \in Seq(Byte) /\ Len(buffer_) = CmdLen + ly /\ buffer_[1] = Char("W")
        /\ \A i \in 1..CmdLen : buffer_[i] = x[i]
    <3>1. 1 \in 1..CmdLen
      BY <2>1
    <3> QED BY <1>5, <2>1, <2>4, <3>1, Zenon DEF Joined, x, y
  <2>6. Head(buffer_) = Char("W") /\ Len(buffer_) > WorkBytes
    BY <1>1, <2>1, <2>3, <2>5, Sizes
  <2>7. HandleWork(buffer_)
    BY <1>1, <2>6, CommandIs, Zenon
  <2>8. SubSeq(buffer_, 2, CmdLen) = u
    <3>1. SubSeq(buffer_, 2, CmdLen) = SubSeq(x, 2, CmdLen)
      BY <2>1, <2>3, <2>5
    <3> QED BY <2>1, <3>1
  <2>9. Decode(SubSeq(buffer_, 2, WorkBytes + 1)) = v
    BY <2>1, <2>8, DecodeUnit, Zenon DEF u
  <2>10. worktask' = v /\ state' = Started /\ tx' = tx \o StateReply("W", state')
    BY <2>6, <2>7, <2>9, Zenon DEF HandleWork, Miner!Start, Started
  <2>11. Started \in HostStates /\ StateReply("W", Started) \in Replies
    BY DEF HostStates, Replies
  <2> QED BY <2>10, <2>11, Zenon DEF MinerHas
<1> QED BY <1>2, <1>4, <1>5 DEF Partial

\* No host program ends in a step after which none has ended.
LEMMA NoneEnded ==
  ASSUME TypeInv, [Next]_vars, exits' = 0
  PROVE  exits = 0 /\ ~HostExit
<1>1. exits \in Nat
  BY Sizes DEF TypeInv, TypeOK
<1>2. ~HostExit
  BY <1>1 DEF HostExit
<1>3. CASE Driver
  BY <1>2, <1>3, Zenon DEF Driver, Probe, ProbeOk, ProbeFails, ThreadInit, Scan, ScanBreak, ScanRead,
       ScanReadShort, bounds
<1>4. CASE ~Driver
  BY <1>2, <1>4, Zenon DEF Next, Restart, HostIn, Drain, Process, ReportFound, WorkExpired, vars,
       bounds
<1> QED BY <1>2, <1>3, <1>4

\* The miner adds a reply to the line.
LEMMA ReplyAdded ==
  ASSUME TypeOK, FramesAligned, WholeReplies(ttyin \o tx), NEW reply \in Replies,
         tx' = tx \o reply, ttyin' = ttyin
  PROVE  WholeReplies(ttyin' \o tx')
<1>1. ttyin \in Seq(Byte) /\ tx \in Seq(Byte) /\ reply \in Seq(Byte)
  BY ReplyRead, Zenon DEF TypeOK
<1>2. (ttyin \o tx) \o reply = ttyin \o (tx \o reply)
  BY ONLY <1>1, ConcatAssoc, Zenon
<1>3. ttyin \o tx \in Seq(Byte) /\ Len(ttyin \o tx) % 7 = 0
  BY <1>1, LineEmpty DEF FramesAligned
<1>4. WholeReplies((ttyin \o tx) \o reply)
  BY <1>3, WholeAdded, Zenon
<1> QED BY <1>2, <1>4, Zenon

\* Before the first scan the miner is only asked for its identity.
LEMMA ReplyFirst ==
  ASSUME TypeInv, InStep, hpc \in {"closed", "probe", "found"}, [Next]_vars, ~HostExit,
         MinerHas, SubmitsNonce
  PROVE  MinerHas' /\ SubmitsNonce' /\ (hpc' \in {"idle", "scan"} => WholeReplies(ttyin' \o tx'))
<1>1. AtRest /\ (drained > 0 => buffer_ = <<Char("I")>>) /\ (hpc = "found" => InEmpty)
  BY DEF InStep, Probing, OutEmpty
<1>2. ~ReportFound /\ ~WorkExpired
  BY <1>1, Zenon DEF AtRest, ReportFound, WorkExpired, Miner!Found
<1>3. CASE Process
  <2>1. serialProcess(buffer_) /\ Head(buffer_) = Char("I") /\ hpc' = hpc /\ last' = last
    BY <1>1, <1>3 DEF Process, hostVars
  <2>2. HandleIdent(buffer_)
    BY <2>1, CommandIs
  <2> QED BY <2>1, <2>2, Zenon DEF HandleIdent, minerVars, MinerHas, SubmitsNonce
<1>4. CASE ~Process
  <2>1. UNCHANGED <<worktask, state, last>> /\ (hpc' \in {"idle", "scan"} => ThreadInit)
    <3>1. CASE Driver
      BY <3>1, Zenon DEF Driver, Probe, ProbeOk, ProbeFails, ThreadInit, Scan, ScanBreak, ScanRead,
           ScanReadShort, minerVars
    <3>2. CASE ~Driver
      BY <1>2, <1>4, <3>2, Zenon DEF Next, Restart, HostIn, Drain, vars, hostVars, minerVars
    <3> QED BY <3>1, <3>2
  <2>2. ASSUME ThreadInit PROVE WholeReplies(ttyin' \o tx')
    <3>1. hpc = "found" /\ Open
      BY <2>2 DEF ThreadInit
    <3>2. InEmpty'
      BY <1>1, <3>1, LineEmpty DEF TypeInv
    <3>3. Len(ttyin' \o tx') = 0
      BY <3>2 DEF InEmpty
    <3> QED BY <3>3 DEF WholeReplies
  <2> QED BY <2>1, <2>2, Zenon DEF MinerHas, SubmitsNonce
<1> QED BY <1>3, <1>4

\* The driver reads.
LEMMA ReplyScanned ==
  ASSUME TypeOK, FramesAligned, SubmitsNonce, WholeReplies(ttyin \o tx), ScanRead \/ ScanReadShort
  PROVE  SubmitsNonce' /\ WholeReplies(ttyin' \o tx')
<1>0. ttyin \in Seq(Byte) /\ tx \in Seq(Byte) /\ Len(ttyin) \in Nat
  BY LineEmpty, Zenon DEF TypeOK
<1>1. CASE ScanRead
  <2>1. PICK valid \in MayBe(ttyin[3], Num(1)) :
          last' = IF valid THEN <<work, SubSeq(ttyin, 4, 7)>> ELSE last
    BY <1>1, Zenon DEF ScanRead
  <2>2. Len(ttyin) >= 7 /\ ttyin' = Drop(ttyin, 7) /\ tx' = tx
    BY <1>1, Zenon DEF ScanRead
  <2>3. /\ \E reply \in Replies : /\ ttyin[3] = reply[3]
                                  /\ SubSeq(ttyin, 4, 7) = SubSeq(reply, 4, 7)
        /\ WholeReplies(Drop(ttyin, 7) \o tx)
    BY <1>0, <2>2, WholeRead, Zenon
  <2>4. PICK reply \in Replies :
          ttyin[3] = reply[3] /\ SubSeq(ttyin, 4, 7) = SubSeq(reply, 4, 7)
    BY <2>3
  <2>5. valid = (ttyin[3] = Num(1))
    BY <2>1, <2>4, ReplyRead, Zenon
  <2>6. ASSUME valid PROVE \E w \in Work : SubSeq(ttyin, 4, 7) = NonceBytes(w)
    BY <2>4, <2>5, <2>6, ReplyRead, Zenon
  <2>7. SubmitsNonce'
    <3>1. CASE valid
      <4>1. last'[2] = SubSeq(ttyin, 4, 7)
        BY <2>1, <3>1
      <4> QED BY <2>6, <3>1, <4>1 DEF SubmitsNonce
    <3>2. CASE ~valid
      BY <2>1, <3>2 DEF SubmitsNonce
    <3> QED BY <3>1, <3>2
  <2> QED BY <2>2, <2>3, <2>7, Zenon
<1>2. CASE ScanReadShort
  <2>1. ttyin # <<>> /\ Len(ttyin) < 7 /\ tx = <<>>
    BY <1>2, Zenon DEF ScanReadShort, ReadTimesOut
  <2>2. Len(ttyin) # 0 /\ Len(tx) = 0
    BY <1>0, <2>1
  <2>3. (Len(ttyin) + Len(tx)) % 7 # 0
    BY <1>0, <2>1, <2>2
  <2> QED BY <2>3 DEF FramesAligned
<1> QED BY <1>1, <1>2

\* While the line is in use.
LEMMA ReplyLater ==
  ASSUME TypeInv, Parsing, FramesAligned, hpc \in {"idle", "scan"}, [Next]_vars, ~HostExit,
         MinerHas, SubmitsNonce, WholeReplies(ttyin \o tx)
  PROVE  MinerHas' /\ SubmitsNonce' /\ WholeReplies(ttyin' \o tx')
<1>0. TypeOK
  BY DEF TypeInv
<1>1. CASE Process
  <2>1. ttyin' = ttyin /\ last' = last
    BY <1>1, Zenon DEF Process, hostVars
  <2>2. MinerHas' /\ (tx' = tx \/ \E reply \in Replies : tx' = tx \o reply)
    BY <1>1, MinerProcess
  <2>3. WholeReplies(ttyin' \o tx')
    BY <1>0, <2>1, <2>2, ReplyAdded, Zenon
  <2> QED BY <2>1, <2>2, <2>3 DEF SubmitsNonce
<1>2. CASE ReportFound \/ WorkExpired
  <2>1. /\ ttyin' = ttyin /\ last' = last /\ worktask' = worktask
        /\ tx' = tx \o StateReply("S", state')
    BY <1>2, Zenon DEF ReportFound, WorkExpired, hostVars, Miner!Found
  <2>2. state' \in HostStates /\ state'.state = "R"
    <3>1. CASE ReportFound
      <4>1. state.state = "W" /\ state' = Solved(worktask)
        BY <3>1 DEF ReportFound, Solves, Solved, Miner!Found
      <4> QED BY <4>1, Zenon DEF MinerHas, HostStates, Solved
    <3>2. CASE WorkExpired
      BY <3>2 DEF WorkExpired, HostStates, Stopped
    <3> QED BY <1>2, <3>1, <3>2
  <2>3. StateReply("S", state') \in Replies
    BY <2>2 DEF Replies
  <2>4. WholeReplies(ttyin' \o tx')
    BY <1>0, <2>1, <2>3, ReplyAdded, Zenon
  <2>5. MinerHas'
    BY <2>1, <2>2 DEF MinerHas
  <2> QED BY <2>1, <2>4, <2>5 DEF SubmitsNonce
<1>3. CASE ScanRead \/ ScanReadShort
  <2>1. worktask' = worktask /\ state' = state
    BY <1>3, Zenon DEF ScanRead, ScanReadShort, minerVars
  <2> QED BY <1>0, <1>3, <2>1, ReplyScanned, Zenon DEF MinerHas
<1>4. CASE HostIn
  <2>1. worktask' = worktask /\ state' = state /\ last' = last
    BY <1>4, Zenon DEF HostIn, minerVars
  <2> QED BY <1>0, <1>4, <2>1, LineKept, Zenon DEF MinerHas, SubmitsNonce
<1>5. CASE ~(Process \/ ReportFound \/ WorkExpired \/ ScanRead \/ ScanReadShort \/ HostIn)
  <2>1. worktask' = worktask /\ state' = state /\ last' = last /\ ttyin' = ttyin /\ tx' = tx
    <3>1. CASE Driver
      BY <1>5, <3>1, Zenon DEF Driver, Probe, ProbeOk, ProbeFails, ThreadInit, Scan, ScanBreak, minerVars
    <3>2. CASE ~Driver
      BY <1>5, <3>2, Zenon DEF Next, Restart, Drain, vars, hostVars, minerVars
    <3> QED BY <3>1, <3>2
  <2> QED BY <2>1, Zenon DEF MinerHas, SubmitsNonce
<1> QED BY <1>1, <1>2, <1>3, <1>4, <1>5, Zenon

\* However many scans of mmo_scanhash work_restart breaks off, as long as no host
\* program ends: the four bytes it submits are the whole nonce of a unit of the host,
\* if perhaps not of the unit they are submitted for.  Answers that are left on the
\* line delay the ones after them and tear none, and the miner never works on a unit
\* put together from two commands.
THEOREM SubmissionsAreNonces ==
  OneCommand => (Spec => [](exits = 0 => SubmitsNonce /\ worktask # Garbled))
<1> SUFFICES ASSUME OneCommand PROVE Spec => [](exits = 0 => SubmitsNonce /\ worktask # Garbled)
  OBVIOUS
<1>1. Init => ReplyInv
  <2> SUFFICES ASSUME Init PROVE ReplyInv
    OBVIOUS
  <2>1. /\ hpc = "closed" /\ last[2] = NonceBytes(NoWork) /\ worktask = NoWork
        /\ state = Stopped
    BY DEF Init, HostInit, MinerInit, Miner!Init, Stopped
  <2>2. MinerHas
    BY <2>1 DEF MinerHas, HostStates, Stopped
  <2> QED BY <2>1, <2>2 DEF ReplyInv, SubmitsNonce
<1>2. ASSUME TypeInv, UnitsInv, ReplyInv, [Next]_vars PROVE ReplyInv'
  <2> SUFFICES ASSUME exits' = 0
               PROVE  /\ MinerHas' /\ SubmitsNonce'
                      /\ hpc' \in {"idle", "scan"} => WholeReplies(ttyin' \o tx')
    BY DEF ReplyInv
  <2>1. exits = 0 /\ ~HostExit
    BY <1>2, NoneEnded
  <2>2. hpc \in {"closed", "probe", "found", "idle", "scan"}
    BY <1>2, Zenon DEF TypeInv, TypeOK
  <2>3. CASE hpc \in {"closed", "probe", "found"}
    BY <1>2, <2>1, <2>3, ReplyFirst, Zenon DEF UnitsInv, ReplyInv
  <2>4. CASE hpc \in {"idle", "scan"}
    <3>1. hpc \notin {"closed", "probe", "found"}
      BY <2>4
    <3> QED BY <1>2, <2>1, <2>4, <3>1, ReplyLater, Zenon DEF UnitsInv, ReplyInv
  <2> QED BY <2>2, <2>3, <2>4
<1>3. ReplyInv => (exits = 0 => SubmitsNonce /\ worktask # Garbled)
  BY WorkAssumption DEF ReplyInv, MinerHas
<1> QED BY <1>1, <1>2, <1>3, TypeInvariant, UnitsInvariant, PTL DEF Spec
=============================================================================
