------------------------------ MODULE MiniMiner ------------------------------
(***************************************************************************)
(* The whole system at the level of bytes: the bfgminer driver             *)
(* (driver-miniminer1.c), the serial line over USB, and the firmware as    *)
(* the driver sees it: the command buffer and its parser (application.c),  *)
(* the reply buffer (main.c) and the miner behind them, as MinerDevice     *)
(* describes it and Firmware implements it.                                *)
(*                                                                         *)
(* A byte is a triple: <<"char", c, 0>> and <<"num", NoWork, n>> have one  *)
(* value, <<"id", NoWork, i>> is a letter or digit of the identity,        *)
(* <<"work", w, i>> a byte of a work unit and <<"nonce", w, i>> a byte of  *)
(* a nonce that solves w; the last two may have any value.                 *)
(***************************************************************************)
EXTENDS Naturals, Sequences

CONSTANTS
  Work,          \* the work units of the host
  NoWork,        \* no work unit, no nonce
  Garbled,       \* a work unit put together from bytes of different commands
  WorkBytes,     \* bytes of a work unit (44: 32 midstate, 12 data)
  Packet,        \* size of the OUT endpoint (16)
  InPacket,      \* size of the IN endpoint (16)
  RxSize,        \* size of app->buffer_ (128)
  MaxOut,        \* bound: packets waiting for the firmware when a scan starts
  MaxIn,         \* bound: reply bytes waiting for the driver when a scan starts
  MaxDrain,      \* bound: packets one call of appUsbDataReceived drains
  MaxRestarts,   \* bound: work restarts
  MaxExits       \* bound: times the host program ends

ASSUME WorkAssumption == NoWork \notin Work /\ Garbled \notin Work \cup {NoWork}
ASSUME SizesAssumption ==
  /\ {WorkBytes, Packet, InPacket, RxSize, MaxDrain} \subseteq Nat \ {0}
  /\ {MaxOut, MaxIn, MaxRestarts, MaxExits} \subseteq Nat

VARIABLES
  hpc,          \* driver: "closed", "probe", "found", "idle", "scan"
  work,         \* the work unit of mmo_scanhash
  work_restart, \* thr->work_restart
  ident,        \* what mmo_detect_custom took for the identity
  last,         \* the last submission: <<work unit, four bytes>>
  outq,         \* packets written by the host and not yet received
  drained,      \* packets this call of appUsbDataReceived has drained
  ttyin,        \* bytes received by the host and not yet read
  buffer_,      \* app->buffer_
  tx,           \* USARTtoUSB_Buffer and the IN endpoint behind it
  worktask,     \* app->worktask
  state,        \* app->state
  work_timer,   \* app->work_timer.active
  restarts, exits

hostVars == <<hpc, work, work_restart, ident, last, ttyin>>
minerVars == <<worktask, state, work_timer>>
bounds == <<restarts, exits>>
vars == <<hostVars, outq, drained, buffer_, tx, minerVars, bounds>>

Solves(w) == {w}
Miner == INSTANCE MinerDevice WITH Golden <- Solves, NoNonce <- NoWork

-----------------------------------------------------------------------------
(* Bytes and frames *)

Char(c) == <<"char", c, 0>>
Num(n) == <<"num", NoWork, n>>

\* Whether a byte has a given one-byte value: unknown for work and nonce bytes.
MayBe(b, v) == IF b[1] \in {"work", "nonce"} THEN BOOLEAN ELSE {b = v}

Drop(s, n) == SubSeq(s, n + 1, Len(s))

WorkUnit(w) == [i \in 1..WorkBytes |-> <<"work", w, i>>]

\* The packets of one write of the host.
Packets(s) ==
  [p \in 1..((Len(s) + Packet - 1) \div Packet) |->
     SubSeq(s, (p - 1) * Packet + 1,
            IF p * Packet < Len(s) THEN p * Packet ELSE Len(s))]

NonceBytes(n) == [i \in 1..4 |-> IF n = NoWork THEN Num(0) ELSE <<"nonce", n, i>>]

\* sendCmdReply with the State, packed in seven bytes, and with the Identity.
StateReply(cmd, s) ==
  <<Char(cmd), Char(s.state), Num(IF s.nonce_valid THEN 1 ELSE 0)>>
    \o NonceBytes(s.nonce)
IdReply == <<Char("I"), Num(1)>> \o [i \in 1..12 |-> <<"id", NoWork, i>>]

-----------------------------------------------------------------------------
(* The firmware *)

MinerInit ==
  /\ drained = 0 /\ buffer_ = <<>> /\ tx = <<>> /\ work_timer = FALSE
  /\ Miner!Init

\* The commands a byte at the head of buffer_ can stand for ("-": none).
CommandsOf(b) ==
  IF b[1] = "char" THEN {b[2]} ELSE {"L", "R", "I", "A", "S", "W", "-"}

\* The work unit read from the bytes behind a 'W'.
Decode(bytes) ==
  IF \E w \in Work : bytes = WorkUnit(w)
    THEN CHOOSE w \in Work : bytes = WorkUnit(w) ELSE Garbled

\* Faulty variants: a wrong comparison with the count, a byte left behind, no
\* work timer.
HandleWork_After(buf, count, used, timed) ==
  /\ "W" \in CommandsOf(Head(buf))
  /\ IF Len(buf) > count
       THEN /\ Miner!Start(Decode(SubSeq(buf, 2, WorkBytes + 1)))
            /\ buffer_' = Drop(buf, used)
            /\ work_timer' = timed
            /\ tx' = tx \o StateReply("W", state')
       ELSE buffer_' = buf /\ UNCHANGED <<minerVars, tx>>
HandleWork_WholeBuffer(buf) == HandleWork_After(buf, RxSize, WorkBytes + 1, TRUE)
HandleWork_OneMore(buf) == HandleWork_After(buf, WorkBytes + 1, WorkBytes + 1, TRUE)
HandleWork_LeavesByte(buf) == HandleWork_After(buf, WorkBytes, WorkBytes, TRUE)
HandleWork_NoTimer(buf) == HandleWork_After(buf, WorkBytes, WorkBytes + 1, FALSE)

\* Faulty variant: the bytes behind the 'W' of an incomplete unit are dropped.
HandleWork_Forgets(buf) ==
  /\ "W" \in CommandsOf(Head(buf))
  /\ IF Len(buf) > WorkBytes
       THEN /\ Miner!Start(Decode(SubSeq(buf, 2, WorkBytes + 1)))
            /\ buffer_' = Drop(buf, WorkBytes + 1)
            /\ work_timer' = TRUE
            /\ tx' = tx \o StateReply("W", state')
       ELSE buffer_' = <<Head(buf)>> /\ UNCHANGED <<minerVars, tx>>

\* Faulty variant: the nonce of the last unit stays valid.
HandleWork_KeepsNonce(buf) ==
  /\ "W" \in CommandsOf(Head(buf))
  /\ IF Len(buf) > WorkBytes
       THEN /\ worktask' = Decode(SubSeq(buf, 2, WorkBytes + 1))
            /\ state' = [state EXCEPT !.state = "W"]
            /\ buffer_' = Drop(buf, WorkBytes + 1)
            /\ work_timer' = TRUE
            /\ tx' = tx \o StateReply("W", state')
       ELSE buffer_' = buf /\ UNCHANGED <<minerVars, tx>>

\* case 'W': nothing happens, and nothing is removed, until the unit is complete.
HandleWork(buf) ==
  /\ "W" \in CommandsOf(Head(buf))
  /\ IF Len(buf) > WorkBytes
       THEN /\ Miner!Start(Decode(SubSeq(buf, 2, WorkBytes + 1)))
            /\ buffer_' = Drop(buf, WorkBytes + 1)
            /\ work_timer' = TRUE
            /\ tx' = tx \o StateReply("W", state')
       ELSE buffer_' = buf /\ UNCHANGED <<minerVars, tx>>

\* cases 'R' and 'A'.
HandleStop(buf) ==
  \E cmd \in {"R", "A"} \cap CommandsOf(Head(buf)) :
    /\ Miner!Abort
    /\ buffer_' = Tail(buf)
    /\ tx' = tx \o StateReply(cmd, state')
    /\ UNCHANGED work_timer

HandleStatus(buf) ==
  /\ "S" \in CommandsOf(Head(buf))
  /\ buffer_' = Tail(buf)
  /\ tx' = tx \o StateReply("S", state)
  /\ UNCHANGED minerVars

HandleIdent(buf) ==
  /\ "I" \in CommandsOf(Head(buf))
  /\ buffer_' = Tail(buf)
  /\ tx' = tx \o IdReply
  /\ UNCHANGED minerVars

\* Faulty variant: an unknown byte is answered.
HandleOther_Echoes(buf) ==
  /\ {"L", "-"} \cap CommandsOf(Head(buf)) # {}
  /\ buffer_' = Tail(buf) /\ tx' = tx \o <<Char("-")>>
  /\ UNCHANGED minerVars

\* case 'L' and default.
HandleOther(buf) ==
  /\ {"L", "-"} \cap CommandsOf(Head(buf)) # {}
  /\ buffer_' = Tail(buf)
  /\ UNCHANGED <<minerVars, tx>>

serialProcess(buf) ==
  \/ HandleWork(buf) \/ HandleStop(buf) \/ HandleStatus(buf)
  \/ HandleIdent(buf) \/ HandleOther(buf)

\* appUsbDataReceived, its loop: the endpoint is drained, a packet at a time.  The
\* endpoint has one bank: a further packet is drained in the same call only if an
\* interrupt delays the loop while that packet arrives.
Drain ==
  /\ outq # <<>> /\ drained < MaxDrain
  /\ drained' = drained + 1
  /\ buffer_' = buffer_ \o Head(outq) /\ outq' = Tail(outq)
  /\ UNCHANGED <<hostVars, tx, minerVars, bounds>>

\* Then one command is processed.
Process ==
  /\ drained > 0 /\ drained' = 0
  /\ serialProcess(buffer_)
  /\ UNCHANGED <<hostVars, outq, bounds>>

\* Faulty variant: the reply is sent before the nonce is stored.
ReportFound_BeforeNonce ==
  /\ drained = 0 /\ \E n \in Solves(worktask) : Miner!Found(n)
  /\ work_timer' = FALSE
  /\ tx' = tx \o StateReply("S", [state EXCEPT !.state = "R"])
  /\ UNCHANGED <<hostVars, outq, drained, buffer_, bounds>>

\* The two branches of appService.
ReportFound ==
  /\ drained = 0 /\ \E n \in Solves(worktask) : Miner!Found(n)
  /\ work_timer' = FALSE
  /\ tx' = tx \o StateReply("S", state')
  /\ UNCHANGED <<hostVars, outq, drained, buffer_, bounds>>

WorkExpired ==
  /\ drained = 0 /\ work_timer /\ work_timer' = FALSE
  /\ state' = [state |-> "R", nonce_valid |-> FALSE, nonce |-> NoWork]
  /\ tx' = tx \o StateReply("S", state')
  /\ UNCHANGED <<hostVars, outq, drained, buffer_, worktask, bounds>>
-----------------------------------------------------------------------------
(* The serial line (external) *)

IsOpen == hpc \in {"probe", "idle", "scan"}

\* The host fetches the next packet of replies.
HostIn ==
  /\ IsOpen /\ tx # <<>>
  /\ LET n == IF Len(tx) < InPacket THEN Len(tx) ELSE InPacket
     IN  ttyin' = ttyin \o SubSeq(tx, 1, n) /\ tx' = Drop(tx, n)
  /\ UNCHANGED <<hpc, work, work_restart, ident, last, outq, drained, buffer_, minerVars,
                 bounds>>

\* serial_open discards what it finds.  Replies the miner still holds may arrive
\* before that, to be discarded, or after it.
Open ==
  /\ ttyin' = <<>>
  /\ \E n \in {m \in 0..Len(tx) : m % InPacket = 0 \/ m = Len(tx)} :
       tx' = Drop(tx, n)

\* serial_read gives up after a tenth of a second without a byte.  The line and
\* the firmware are faster than that, so it does only when no byte is on its way.
ReadTimesOut == outq = <<>> /\ drained = 0 /\ tx = <<>>

-----------------------------------------------------------------------------
(* The driver *)

HostInit ==
  /\ hpc = "closed" /\ work = NoWork /\ work_restart = FALSE
  /\ ident = IdReply /\ last = <<NoWork, NonceBytes(NoWork)>>
  /\ outq = <<>> /\ ttyin = <<>>
  /\ restarts = 0 /\ exits = 0

\* mmo_detect_custom: open, write "I" ...
Probe ==
  /\ hpc = "closed" /\ hpc' = "probe"
  /\ Open /\ outq' = Packets(<<Char("I")>>)
  /\ UNCHANGED <<work, work_restart, ident, last, drained, buffer_, minerVars, bounds>>

\* ... read, close, and fourteen bytes are a MiniMiner ...
ProbeOk ==
  /\ hpc = "probe" /\ Len(ttyin) >= Len(IdReply)
  /\ hpc' = "found" /\ ident' = SubSeq(ttyin, 1, Len(IdReply)) /\ ttyin' = <<>>
  /\ UNCHANGED <<work, work_restart, last, outq, drained, buffer_, tx, minerVars, bounds>>

\* ... fewer are none.
ProbeFails ==
  /\ hpc = "probe" /\ Len(ttyin) < Len(IdReply) /\ ReadTimesOut
  /\ hpc' = "closed" /\ ttyin' = <<>>
  /\ UNCHANGED <<work, work_restart, ident, last, outq, drained, buffer_, tx, minerVars, bounds>>

\* mmo_init opens the line again.
ThreadInit ==
  /\ hpc = "found" /\ hpc' = "idle"
  /\ Open
  /\ UNCHANGED <<work, work_restart, ident, last, outq, drained, buffer_, minerVars, bounds>>

\* mmo_scanhash, up to its loop.  bfgminer clears work_restart before the call.
Scan(w) ==
  /\ hpc = "idle" /\ Len(outq) <= MaxOut /\ Len(ttyin) + Len(tx) <= MaxIn
  /\ hpc' = "scan" /\ work' = w /\ work_restart' = FALSE
  /\ outq' = outq \o Packets(<<Char("W")>> \o WorkUnit(w))
  /\ UNCHANGED <<ident, last, ttyin, drained, buffer_, tx, minerVars, bounds>>

\* Another thread of bfgminer wants the scan to end.
Restart ==
  /\ hpc = "scan" /\ ~work_restart /\ restarts < MaxRestarts
  /\ work_restart' = TRUE /\ restarts' = restarts + 1
  /\ UNCHANGED <<hpc, work, ident, last, ttyin, outq, drained, buffer_, tx, minerVars, exits>>

\* The loop condition and restart_wait.
ScanBreak ==
  /\ hpc = "scan" /\ work_restart /\ hpc' = "idle"
  /\ UNCHANGED <<work, work_restart, ident, last, ttyin, outq, drained, buffer_, tx, minerVars,
                 bounds>>

\* Faulty variants: the command byte is not counted, any State ends the scan.
ScanRead_NoCommand ==
  /\ hpc = "scan" /\ Len(ttyin) >= 7
  /\ ttyin' = Drop(ttyin, 6)
  /\ \E valid \in MayBe(ttyin[3], Num(1)), reset \in MayBe(ttyin[2], Char("R")) :
       /\ last' = IF valid THEN <<work, SubSeq(ttyin, 4, 7)>> ELSE last
       /\ hpc' = IF valid \/ reset \/ work_restart THEN "idle" ELSE "scan"
  /\ UNCHANGED <<work, work_restart, ident, outq, drained, buffer_, tx, minerVars, bounds>>
ScanRead_AnyState ==
  /\ hpc = "scan" /\ Len(ttyin) >= 7
  /\ ttyin' = Drop(ttyin, 7) /\ hpc' = "idle"
  /\ \E valid \in MayBe(ttyin[3], Num(1)) :
       last' = IF valid THEN <<work, SubSeq(ttyin, 4, 7)>> ELSE last
  /\ UNCHANGED <<work, work_restart, ident, outq, drained, buffer_, tx, minerVars, bounds>>

\* A read of seven bytes: a nonce is submitted and ends the scan, a State that is
\* not WORKING ends it, any other goes on unless the restart came during the read.
ScanRead ==
  /\ hpc = "scan" /\ Len(ttyin) >= 7
  /\ ttyin' = Drop(ttyin, 7)
  /\ \E valid \in MayBe(ttyin[3], Num(1)), reset \in MayBe(ttyin[2], Char("R")) :
       /\ last' = IF valid THEN <<work, SubSeq(ttyin, 4, 7)>> ELSE last
       /\ hpc' = IF valid \/ reset \/ work_restart THEN "idle" ELSE "scan"
  /\ UNCHANGED <<work, work_restart, ident, outq, drained, buffer_, tx, minerVars, bounds>>

\* A shorter read is ignored, its bytes are gone.
ScanReadShort ==
  /\ hpc = "scan" /\ ttyin # <<>> /\ Len(ttyin) < 7 /\ ReadTimesOut
  /\ ttyin' = <<>>
  /\ hpc' = IF work_restart THEN "idle" ELSE "scan"
  /\ UNCHANGED <<work, work_restart, ident, last, outq, drained, buffer_, tx, minerVars, bounds>>

\* mmo_shutdown, or the end of the program at any other point: what is not sent is
\* lost, the miner goes on.
HostExit ==
  /\ IsOpen /\ exits < MaxExits /\ exits' = exits + 1
  /\ hpc' = "closed" /\ outq' = <<>> /\ ttyin' = <<>>
  /\ UNCHANGED <<work, work_restart, ident, last, drained, buffer_, tx, minerVars, restarts>>

-----------------------------------------------------------------------------
Init == HostInit /\ MinerInit

Driver ==
  \/ Probe \/ ProbeOk \/ ProbeFails \/ ThreadInit
  \/ \E w \in Work : Scan(w)
  \/ ScanBreak \/ ScanRead \/ ScanReadShort

Next ==
  \/ Driver \/ Restart \/ HostExit
  \/ HostIn \/ Drain \/ Process \/ ReportFound \/ WorkExpired

Spec == Init /\ [][Next]_vars

\* The driver's thread and the firmware's main loop run, the line carries what it
\* is given, and the work timer expires.  Restarts, exits and nonces need not come.
Fairness ==
  /\ WF_vars(Driver) /\ WF_vars(HostIn) /\ WF_vars(Drain) /\ WF_vars(Process)
  /\ WF_vars(WorkExpired)

FairSpec == Spec /\ Fairness

-----------------------------------------------------------------------------
(* Properties *)

Units == Work \cup {NoWork, Garbled}
Byte ==
  {Char(c) : c \in {"W", "R", "A", "S", "I"}} \cup {Num(0), Num(1)}
    \cup {<<"id", NoWork, i>> : i \in 1..12}
    \cup {<<"nonce", w, i>> : w \in Work \cup {Garbled}, i \in 1..4}
    \cup {<<"work", w, i>> : w \in Work, i \in 1..WorkBytes}

\* Every variable has its type.
TypeOK ==
  /\ hpc \in {"closed", "probe", "found", "idle", "scan"}
  /\ work \in Work \cup {NoWork} /\ work_restart \in BOOLEAN
  /\ ident \in Seq(Byte) /\ last \in (Work \cup {NoWork}) \X Seq(Byte)
  /\ outq \in Seq(Seq(Byte)) /\ drained \in 0..MaxDrain /\ ttyin \in Seq(Byte)
  /\ buffer_ \in Seq(Byte) /\ tx \in Seq(Byte)
  /\ worktask \in Units /\ work_timer \in BOOLEAN
  /\ state \in [state : {"W", "R"}, nonce_valid : BOOLEAN, nonce : Units]
  /\ restarts \in 0..MaxRestarts /\ exits \in 0..MaxExits

\* A nonce is submitted for the work unit it solves, although mmo_scanhash does
\* not look at what the State it reads belongs to and the check of the nonce is
\* commented out (driver-miniminer1.c:195).
SubmitMatches == last = <<last[1], NonceBytes(last[1])>>

\* No scan has been broken off and no host program has ended.
Undisturbed == restarts = 0 /\ exits = 0

\* As long as every scan runs to its end, a nonce is submitted for its own unit.
SubmitMatchesUndisturbed == Undisturbed => SubmitMatches

\* As long as every scan runs to its end, the line is empty and the miner at rest
\* between two of them: a scan leaves no reply behind for the next one to read.
InSync ==
  Undisturbed /\ hpc = "idle" => ttyin \o tx = <<>> /\ outq = <<>> /\ state.state = "R"

\* The unchecked RingBuffer_Insert of appUsbDataReceived never overruns buffer_.
RxFits == Len(buffer_) <= RxSize

\* One call of serialProcess per reception is enough: no command waits in buffer_
\* for bytes that nobody will send.
AllProcessed == outq = <<>> /\ drained = 0 => buffer_ = <<>>

\* The parser is at a command whenever it looks at buffer_, never inside a unit.
RxAligned == buffer_ # <<>> => Head(buffer_)[1] = "char"

\* The reads of seven bytes stay at the start of a reply.
FramesAligned == (Len(ttyin) + Len(tx)) % 7 = 0

\* "We have a real MiniMiner ONE!" (driver-miniminer1.c:88): what the driver takes
\* for the identity is the identity.
DetectGenuine == ident = IdReply

\* A scan comes to an end: the miner answers, by the work timer if by nothing else.
ScanReturns == hpc = "scan" ~> hpc # "scan"

\* A nonce found for the unit being scanned is submitted for it, unless a scan is
\* broken off meanwhile.
ResultDelivered ==
  \A w \in Work :
    Undisturbed /\ hpc = "scan" /\ work = w /\ worktask = w /\ state.nonce_valid
      ~> last = <<w, NonceBytes(w)>> \/ ~Undisturbed

\* Whatever bytes an ended host program has left in buffer_, a host that keeps
\* probing gets through to the miner.
Recovers == hpc = "closed" ~> hpc = "idle"
=============================================================================
