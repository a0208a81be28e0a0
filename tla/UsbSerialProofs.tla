--------------------------- MODULE UsbSerialProofs ---------------------------
(***************************************************************************)
(* Proofs about UsbSerial, for a bank of any size and any number of reply  *)
(* bytes, resets, suspensions and configurations.                          *)
(***************************************************************************)
EXTENDS UsbSerial, FiniteSetTheorems, TLAPS

-----------------------------------------------------------------------------
(* The inductive invariant: types *)

\* SendByte has begun and has not ended.
InFlight == mpc \in {"allowed", "clear", "wait", "write"}

UsbTypes ==
  /\ InFlight \/ mpc \in {"turn", "send", "service", "flush", "flushfull", "flushwait",
                          "flushpart", "zlp"}
  /\ quota \in Nat /\ tx \in Seq(Nat) /\ produced \in Nat /\ sel \in {"IN", "CONTROL"}
  /\ state \in {"Unattached", "Powered", "Default", "Addressed", "Configured"}
  /\ cfgnum \in {0, 1} /\ ctl \in {"none", "config", "line"}
  /\ baud \in BOOLEAN /\ suspie \in BOOLEAN /\ wakee \in BOOLEAN /\ orphan \in BOOLEAN
  /\ enabled \in BOOLEAN /\ cpu \in BOOLEAN /\ addr \in BOOLEAN /\ frozen \in BOOLEAN
  /\ bank \in Seq(Nat) /\ Len(bank) <= BankSize /\ got \in Seq(Nat)
  /\ bus \in {"active", "idle"}
  /\ resets \in Nat /\ suspends \in Nat /\ configs \in Nat

\* A byte that SendByte is sending is in the buffer.
QuotaInBuffer == quota <= Len(tx) /\ (InFlight => quota > 0)

-----------------------------------------------------------------------------
(* The inductive invariant: order *)

Ascending(s) == \A i, j \in 1..Len(s) : i < j => s[i] < s[j]
Below(s, t) == \A x \in Elements(s), y \in Elements(t) : x < y

\* Each of the three places is in order, and what is further on is older.
PlacesInOrder ==
  /\ Ascending(got) /\ Ascending(bank) /\ Ascending(tx)
  /\ Below(got, bank) /\ Below(got, tx) /\ Below(bank, tx)
  /\ \A x \in Elements(got) \cup Elements(bank) \cup Elements(tx) : x <= produced

-----------------------------------------------------------------------------
(* The inductive invariant: losses *)

Lost == produced - (Len(got) + Len(bank) + Len(tx))

\* Nothing has come in between since SendByte selected the endpoint, so its byte will
\* get into the bank.
Safe ==
  /\ sel = "IN" /\ ~frozen
  /\ mpc = "wait" => (enabled /\ cpu => Len(bank) < BankSize)
  /\ mpc = "write" => Room

\* What the interrupts have already done may still cost ...
InDanger == IF InFlight /\ ~Safe THEN 1 ELSE 0
\* ... the bank, when SetConfiguration is about to allocate the endpoint again, ...
Reallocated == IF ctl = "config" THEN Len(bank) ELSE 0
\* ... and a byte, when the bus has become idle and the suspension follows.
Suspending == IF bus = "idle" /\ suspie THEN 1 ELSE 0

Allowance == (BankSize + 1) * (resets + configs - 2) + suspends

\* What has been lost, and what may still be.
Cost == Lost + InDanger + Reallocated + Suspending

\* Before the first configuration nothing is sent; afterwards every loss is paid for.
Unconfigured ==
  Lost = 0 /\ bank = <<>> /\ ~InFlight /\ ~baud /\ cfgnum = 0 /\ ctl = "none"

LossesPaid ==
  /\ configs = 0 => Unconfigured
  /\ configs > 0 => resets > 0 /\ Cost <= Allowance
  /\ addr => resets > 0

\* While the clock is stopped SendByte is not begun: a suspension ends "Configured",
\* and SetConfiguration, which may restore it, clears the line encoding.
FrozenUnusable ==
  frozen => /\ wakee /\ (state = "Unattached" \/ ~baud)
            /\ ctl = "line" => state = "Unattached"

UsbInv ==
  UsbTypes /\ QuotaInBuffer /\ PlacesInOrder /\ LossesPaid /\ FrozenUnusable

-----------------------------------------------------------------------------
(* Lemmas about sequences of bytes *)

LEMMA ByteValues ==
  ASSUME NEW s \in Seq(Nat)
  PROVE  Elements(s) \subseteq Nat
<1>1. \A i \in 1..Len(s) : s[i] \in Nat
  OBVIOUS
<1> QED BY <1>1 DEF Elements

LEMMA AppendByte ==
  ASSUME NEW s \in Seq(Nat), NEW x \in Nat
  PROVE  /\ Append(s, x) \in Seq(Nat) /\ Len(Append(s, x)) = Len(s) + 1
         /\ Elements(Append(s, x)) = Elements(s) \cup {x}
         /\ Ascending(s) /\ (\A y \in Elements(s) : y < x) => Ascending(Append(s, x))
<1>1. /\ Append(s, x) \in Seq(Nat) /\ Len(Append(s, x)) = Len(s) + 1 /\ Len(s) \in Nat
      /\ \A i \in 1..Len(s) : Append(s, x)[i] = s[i]
      /\ Append(s, x)[Len(s) + 1] = x
  OBVIOUS
<1> DEFINE t == Append(s, x)
<1> HIDE DEF t
<1>2. /\ Len(t) = Len(s) + 1 /\ Len(s) \in Nat /\ t[Len(s) + 1] = x
      /\ \A i \in 1..Len(s) : t[i] = s[i]
  BY <1>1 DEF t
<1>3. Elements(t) = Elements(s) \cup {x}
  <2>1. ASSUME NEW i \in 1..Len(t) PROVE t[i] \in Elements(s) \cup {x}
    <3>1. i \in 1..Len(s) \/ i = Len(s) + 1
      BY <1>2
    <3> QED BY <1>2, <3>1 DEF Elements
  <2>2. ASSUME NEW i \in 1..Len(s) PROVE s[i] \in Elements(t)
    <3>1. i \in 1..Len(t) /\ t[i] = s[i]
      BY <1>2
    <3> QED BY <3>1 DEF Elements
  <2>3. x \in Elements(t)
    <3>1. Len(s) + 1 \in 1..Len(t)
      BY <1>2
    <3> QED BY <1>2, <3>1 DEF Elements
  <2> QED BY <2>1, <2>2, <2>3, Zenon DEF Elements
<1>4. ASSUME Ascending(s), \A y \in Elements(s) : y < x PROVE Ascending(t)
  <2> SUFFICES ASSUME NEW i \in 1..Len(t), NEW j \in 1..Len(t), i < j
               PROVE  t[i] < t[j]
    BY DEF Ascending
  <2>1. i \in 1..Len(s) /\ t[i] = s[i] /\ s[i] \in Elements(s)
    BY <1>2 DEF Elements
  <2>2. CASE j = Len(s) + 1
    BY <1>2, <1>4, <2>1, <2>2
  <2>3. CASE j # Len(s) + 1
    <3>1. j \in 1..Len(s) /\ t[j] = s[j]
      BY <1>2, <2>3
    <3> QED BY <1>4, <2>1, <3>1 DEF Ascending
  <2> QED BY <2>2, <2>3
<1> QED BY <1>1, <1>3, <1>4 DEF t

LEMMA TakeByte ==
  ASSUME NEW s \in Seq(Nat), Len(s) > 0
  PROVE  /\ Head(s) \in Nat /\ Tail(s) \in Seq(Nat) /\ Len(Tail(s)) = Len(s) - 1
         /\ Elements(s) = {Head(s)} \cup Elements(Tail(s))
         /\ Ascending(s) =>
              Ascending(Tail(s)) /\ \A y \in Elements(Tail(s)) : Head(s) < y
<1>1. s # <<>>
  OBVIOUS
<1>2. /\ Head(s) \in Nat /\ Tail(s) \in Seq(Nat) /\ Len(Tail(s)) = Len(s) - 1
      /\ Head(s) = s[1] /\ Len(s) \in Nat /\ 1 \in 1..Len(s)
      /\ \A i \in 1..Len(Tail(s)) : i + 1 \in 1..Len(s) /\ Tail(s)[i] = s[i + 1]
  BY <1>1
<1> DEFINE t == Tail(s)
<1>3. /\ Len(t) = Len(s) - 1 /\ Head(s) = s[1] /\ Len(s) \in Nat /\ 1 \in 1..Len(s)
      /\ \A i \in 1..Len(t) : i + 1 \in 1..Len(s) /\ t[i] = s[i + 1]
  BY <1>2
<1> HIDE DEF t
<1>4. Elements(s) = {Head(s)} \cup Elements(t)
  <2>1. ASSUME NEW i \in 1..Len(s) PROVE s[i] \in {Head(s)} \cup Elements(t)
    <3>1. CASE i = 1
      BY <1>3, <3>1
    <3>2. CASE i # 1
      <4>1. i - 1 \in 1..Len(t) /\ t[i - 1] = s[i]
        BY <1>3, <3>2
      <4> QED BY <4>1 DEF Elements
    <3> QED BY <3>1, <3>2
  <2>2. ASSUME NEW i \in 1..Len(t) PROVE t[i] \in Elements(s)
    BY <1>3 DEF Elements
  <2>3. Head(s) \in Elements(s)
    BY <1>3 DEF Elements
  <2> QED BY <2>1, <2>2, <2>3, SMTT(30) DEF Elements
<1>5. ASSUME Ascending(s) PROVE Ascending(t) /\ \A y \in Elements(t) : Head(s) < y
  <2>1. ASSUME NEW i \in 1..Len(t), NEW j \in 1..Len(t), i < j PROVE t[i] < t[j]
    <3>1. i + 1 \in 1..Len(s) /\ j + 1 \in 1..Len(s) /\ i + 1 < j + 1
      BY <1>3, <2>1
    <3> QED BY <1>3, <1>5, <3>1, Zenon DEF Ascending
  <2>2. ASSUME NEW i \in 1..Len(t) PROVE Head(s) < t[i]
    <3>1. i + 1 \in 1..Len(s) /\ 1 < i + 1
      BY <1>3
    <3> QED BY <1>3, <1>5, <3>1 DEF Ascending
  <2> QED BY <2>1, <2>2 DEF Ascending, Elements
<1> QED BY <1>2, <1>4, <1>5 DEF t

LEMMA JoinBytes ==
  ASSUME NEW s \in Seq(Nat), NEW t \in Seq(Nat)
  PROVE  /\ s \o t \in Seq(Nat) /\ Len(s \o t) = Len(s) + Len(t)
         /\ Elements(s \o t) = Elements(s) \cup Elements(t)
         /\ Ascending(s) /\ Ascending(t) /\ Below(s, t) => Ascending(s \o t)
<1>1. /\ s \o t \in Seq(Nat) /\ Len(s \o t) = Len(s) + Len(t)
      /\ Len(s) \in Nat /\ Len(t) \in Nat
      /\ \A i \in 1..Len(s) : (s \o t)[i] = s[i]
      /\ \A i \in 1..Len(t) : (s \o t)[Len(s) + i] = t[i]
  OBVIOUS
<1> DEFINE u == s \o t
<1>2. /\ Len(u) = Len(s) + Len(t) /\ Len(s) \in Nat /\ Len(t) \in Nat
      /\ \A i \in 1..Len(s) : u[i] = s[i]
      /\ \A i \in 1..Len(t) : u[Len(s) + i] = t[i]
  BY <1>1
<1> HIDE DEF u
<1>3. ASSUME NEW i \in 1..Len(u)
      PROVE  \/ i \in 1..Len(s) /\ u[i] = s[i]
             \/ i - Len(s) \in 1..Len(t) /\ u[i] = t[i - Len(s)] /\ i \notin 1..Len(s)
  <2>1. CASE i \in 1..Len(s)
    BY <1>2, <2>1
  <2>2. CASE i \notin 1..Len(s)
    <3>1. i - Len(s) \in 1..Len(t) /\ Len(s) + (i - Len(s)) = i
      BY <1>2, <2>2
    <3> QED BY <1>2, <2>2, <3>1
  <2> QED BY <2>1, <2>2
<1>4. Elements(u) = Elements(s) \cup Elements(t)
  <2>1. ASSUME NEW i \in 1..Len(u) PROVE u[i] \in Elements(s) \cup Elements(t)
    BY <1>3, Zenon DEF Elements
  <2>2. ASSUME NEW i \in 1..Len(s) PROVE s[i] \in Elements(u)
    <3>1. i \in 1..Len(u) /\ u[i] = s[i]
      BY <1>2
    <3> QED BY <3>1 DEF Elements
  <2>3. ASSUME NEW i \in 1..Len(t) PROVE t[i] \in Elements(u)
    <3>1. Len(s) + i \in 1..Len(u) /\ u[Len(s) + i] = t[i]
      BY <1>2
    <3> QED BY <3>1 DEF Elements
  <2> QED BY <2>1, <2>2, <2>3, Zenon DEF Elements
<1>5. ASSUME Ascending(s), Ascending(t), Below(s, t) PROVE Ascending(u)
  <2> SUFFICES ASSUME NEW i \in 1..Len(u), NEW j \in 1..Len(u), i < j
               PROVE  u[i] < u[j]
    BY DEF Ascending
  <2>1. CASE i \in 1..Len(s) /\ j \in 1..Len(s)
    BY <1>2, <1>5, <2>1 DEF Ascending
  <2>2. CASE i \in 1..Len(s) /\ j \notin 1..Len(s)
    <3>1. /\ u[i] = s[i] /\ s[i] \in Elements(s)
          /\ u[j] = t[j - Len(s)] /\ t[j - Len(s)] \in Elements(t)
      BY <1>3, <2>2, SMTT(30) DEF Elements
    <3> QED BY <1>5, <3>1 DEF Below
  <2>3. CASE i \notin 1..Len(s) /\ j \notin 1..Len(s)
    <3>1. /\ i - Len(s) \in 1..Len(t) /\ u[i] = t[i - Len(s)]
          /\ j - Len(s) \in 1..Len(t) /\ u[j] = t[j - Len(s)]
      BY <1>3, <2>3
    <3>2. i - Len(s) < j - Len(s)
      BY <1>2
    <3> QED BY <1>5, <3>1, <3>2, Zenon DEF Ascending
  <2>4. CASE i \notin 1..Len(s) /\ j \in 1..Len(s)
    BY <1>2, <2>4
  <2> QED BY <2>1, <2>2, <2>3, <2>4
<1> QED BY <1>1, <1>4, <1>5 DEF u

\* The bytes of a sequence in order are as many as it is long.
LEMMA CountBytes ==
  ASSUME NEW s \in Seq(Nat), Ascending(s)
  PROVE  Cardinality(Elements(s)) = Len(s)
<1>1. Len(s) \in Nat /\ \A i \in 1..Len(s) : s[i] \in Nat
  OBVIOUS
<1>2. [i \in 1..Len(s) |-> s[i]] \in Bijection(1..Len(s), Elements(s))
  <2> DEFINE f == [i \in 1..Len(s) |-> s[i]]
  <2>1. f \in [1..Len(s) -> Elements(s)]
    BY DEF Elements
  <2>2. \A i, j \in 1..Len(s) : f[i] = f[j] => i = j
    BY <1>1 DEF Ascending
  <2>3. \A y \in Elements(s) : \E i \in 1..Len(s) : f[i] = y
    BY DEF Elements
  <2> QED BY <2>1, <2>2, <2>3, SMTT(30) DEF Bijection, Injection, Surjection, IsInjective
<1>3. IsFiniteSet(1..Len(s)) /\ Cardinality(1..Len(s)) = Len(s)
  BY <1>1, FS_Interval, SMTT(30)
<1> QED BY <1>2, <1>3, FS_Bijection DEF ExistsBijection

-----------------------------------------------------------------------------
(* The invariant holds initially *)

LEMMA UsbInit == Init => UsbInv
<1> SUFFICES ASSUME Init PROVE UsbInv
  OBVIOUS
<1>1. /\ <<>> \in Seq(Nat) /\ Len(<<>>) = 0 /\ Elements(<<>>) = {} /\ Ascending(<<>>)
  BY DEF Elements, Ascending
<1>2. UsbTypes /\ QuotaInBuffer
  <2>1. 0 <= BankSize
    BY BoundsAssumption
  <2>2. Len(bank) = 0 /\ Len(tx) = 0 /\ ~InFlight
    BY <1>1 DEF Init, InFlight
  <2>3. QuotaInBuffer
    BY <2>2 DEF Init, QuotaInBuffer
  <2>4. Len(bank) <= BankSize
    BY <2>1, <2>2
  <2> QED BY <1>1, <2>3, <2>4, ZenonT(30) DEF Init, UsbTypes
<1>3. PlacesInOrder
  BY <1>1 DEF Init, PlacesInOrder, Below
<1>4. LossesPaid /\ FrozenUnusable
  <2>1. Lost = 0 /\ ~InFlight
    <3>1. produced = 0 /\ Len(got) = 0 /\ Len(bank) = 0 /\ Len(tx) = 0 /\ ~InFlight
      BY <1>1 DEF Init, InFlight
    <3>2. 0 - (0 + 0 + 0) = 0
      OBVIOUS
    <3> QED BY <3>1, <3>2 DEF Lost
  <2> QED BY <2>1 DEF Init, LossesPaid, Unconfigured, FrozenUnusable
<1> QED BY <1>2, <1>3, <1>4 DEF UsbInv

-----------------------------------------------------------------------------
(* What a step does to the bytes *)

\* A reply byte is produced.
Produces ==
  /\ produced' = produced + 1 /\ tx' = Append(tx, produced + 1)
  /\ UNCHANGED <<got, bank>>

\* SendByte takes a byte from the buffer and writes it, or loses it.
Takes ==
  /\ Len(tx) > 0 /\ tx' = Tail(tx)
  /\ \/ bank' = Append(bank, Head(tx)) /\ Len(bank) < BankSize
     \/ bank' = bank
  /\ UNCHANGED <<got, produced>>

\* The endpoint is disabled or allocated again.
Drops == bank' = <<>> /\ UNCHANGED <<got, tx, produced>>

\* The host fetches the bank.
Fetches == got' = got \o bank /\ bank' = <<>> /\ UNCHANGED <<tx, produced>>

\* The main loop runs while no control request is handled, and changes neither what the
\* interrupts have set nor the bus.
LEMMA MainSteps ==
  ASSUME Main
  PROVE  /\ ctl = "none" /\ UNCHANGED <<state, cfgnum, baud, suspie, wakee, ctl, orphan>>
         /\ UNCHANGED <<enabled, addr, frozen, bus, resets, suspends, configs>>
<1> USE DEF mainVars, coreVars, epVars, busVars, bounds, MainRuns
<1>1. CASE Turn \/ Send \/ Allowed
  BY <1>1 DEF Turn, Send, Allowed
<1>2. CASE HandOver
  BY <1>2 DEF HandOver
<1>3. CASE SendWaits \/ Write
  BY <1>3 DEF SendWaits, Write
<1>4. CASE Service \/ Flush \/ FlushWaits
  BY <1>4 DEF Service, Flush, FlushWaits
<1> QED BY <1>1, <1>2, <1>3, <1>4 DEF Main

LEMMA ByteSteps ==
  ASSUME UsbTypes, QuotaInBuffer, [Next]_vars
  PROVE  \/ UNCHANGED <<got, bank, tx, produced>>
         \/ Produces /\ Service
         \/ Takes /\ Write
         \/ Drops /\ (BusReset \/ ConfigurationChanged)
         \/ Fetches /\ HostIn
<1> USE DEF mainVars, coreVars, epVars, busVars, bounds
<1>1. CASE Turn \/ Send \/ Allowed \/ HandOver \/ SendWaits \/ Flush \/ FlushWaits
  BY <1>1 DEF Turn, Send, Allowed, HandOver, SendWaits, Flush, FlushWaits
<1>2. CASE Write
  <2>1. Len(tx) > 0
    BY <1>2 DEF Write, QuotaInBuffer, InFlight, UsbTypes
  <2> QED BY <1>2, <2>1 DEF Write, Takes, Room
<1>3. CASE Service
  BY <1>3 DEF Service, Produces
<1>4. CASE Suspend \/ WakeUp \/ SetAddress \/ LineEncoding \/ LineEncodingDone \/ OrphanEnds
  BY <1>4 DEF Suspend, WakeUp, SetAddress, LineEncoding, LineEncodingDone, OrphanEnds
<1>5. ASSUME NEW c \in {0, 1}, SetConfiguration(c)
      PROVE  UNCHANGED <<got, bank, tx, produced>>
  BY <1>5 DEF SetConfiguration
<1>6. CASE ConfigurationChanged
  BY <1>6 DEF ConfigurationChanged, Drops
<1>7. CASE BusReset
  BY <1>7 DEF BusReset, Reset, Drops
<1>8. CASE BusIdle \/ BusResume \/ UNCHANGED vars
  BY <1>8 DEF BusIdle, BusResume, vars
<1>9. CASE HostIn
  BY <1>9 DEF HostIn, Fetches
<1> QED
  BY <1>1, <1>2, <1>3, <1>4, <1>5, <1>6, <1>7, <1>8, <1>9 DEF Next, Main, ControlRequest

\* The bytes keep their types, and their order.
LEMMA BytesNext ==
  ASSUME UsbTypes, QuotaInBuffer, PlacesInOrder, [Next]_vars
  PROVE  /\ tx' \in Seq(Nat) /\ produced' \in Nat /\ got' \in Seq(Nat)
         /\ bank' \in Seq(Nat) /\ Len(bank') <= BankSize
         /\ PlacesInOrder'
<1>0. /\ tx \in Seq(Nat) /\ produced \in Nat /\ got \in Seq(Nat)
      /\ bank \in Seq(Nat) /\ Len(bank) <= BankSize /\ BankSize \in Nat
      /\ Elements(tx) \subseteq Nat /\ Elements(bank) \subseteq Nat
      /\ Elements(got) \subseteq Nat
  BY BoundsAssumption, ByteValues DEF UsbTypes
<1>e. <<>> \in Seq(Nat) /\ Len(<<>>) = 0 /\ Elements(<<>>) = {} /\ Ascending(<<>>)
  BY DEF Elements, Ascending
<1>1. CASE UNCHANGED <<got, bank, tx, produced>>
  BY <1>0, <1>1 DEF PlacesInOrder
<1>2. CASE Produces
  <2>1. /\ tx' \in Seq(Nat) /\ Elements(tx') = Elements(tx) \cup {produced + 1}
        /\ (\A y \in Elements(tx) : y < produced + 1) => Ascending(tx')
    BY <1>0, <1>2, AppendByte DEF Produces, PlacesInOrder
  <2>2. \A y \in Elements(got) \cup Elements(bank) \cup Elements(tx) : y < produced + 1
    BY <1>0 DEF PlacesInOrder
  <2>3. produced' = produced + 1 /\ got' = got /\ bank' = bank
    BY <1>2 DEF Produces
  <2>4. Below(got', tx') /\ Below(bank', tx')
    BY <1>0, <2>1, <2>2, <2>3 DEF PlacesInOrder, Below
  <2>5. \A x \in Elements(got') \cup Elements(bank') \cup Elements(tx') : x <= produced'
    BY <1>0, <2>1, <2>2, <2>3
  <2> QED BY <1>0, <2>1, <2>2, <2>3, <2>4, <2>5 DEF PlacesInOrder
<1>3. CASE Takes
  <2>1. /\ Head(tx) \in Nat /\ tx' \in Seq(Nat)
        /\ Elements(tx) = {Head(tx)} \cup Elements(tx')
        /\ Ascending(tx') /\ \A y \in Elements(tx') : Head(tx) < y
    BY <1>0, <1>3, TakeByte DEF Takes, PlacesInOrder
  <2>2. \A y \in Elements(got) \cup Elements(bank) : y < Head(tx)
    BY <2>1 DEF PlacesInOrder, Below
  <2>3. got' = got /\ produced' = produced
    BY <1>3 DEF Takes
  <2>4. CASE bank' = Append(bank, Head(tx)) /\ Len(bank) < BankSize
    <3>1. /\ bank' \in Seq(Nat) /\ Len(bank') = Len(bank) + 1 /\ Ascending(bank')
          /\ Elements(bank') = Elements(bank) \cup {Head(tx)}
      BY <1>0, <2>1, <2>2, <2>4, AppendByte DEF PlacesInOrder
    <3>2. Len(bank') <= BankSize
      BY <1>0, <2>4, <3>1
    <3>3. Below(got', bank') /\ Below(got', tx') /\ Below(bank', tx')
      BY <2>1, <2>2, <2>3, <3>1 DEF PlacesInOrder, Below
    <3>4. \A x \in Elements(got') \cup Elements(bank') \cup Elements(tx') : x <= produced'
      BY <2>1, <2>3, <3>1 DEF PlacesInOrder
    <3> QED BY <1>0, <2>1, <2>3, <3>1, <3>2, <3>3, <3>4 DEF PlacesInOrder
  <2>5. CASE bank' = bank
    <3>1. Below(got', tx') /\ Below(bank', tx')
      BY <2>1, <2>3, <2>5 DEF PlacesInOrder, Below
    <3>2. \A x \in Elements(got') \cup Elements(bank') \cup Elements(tx') : x <= produced'
      BY <2>1, <2>3, <2>5 DEF PlacesInOrder
    <3> QED BY <1>0, <2>1, <2>3, <2>5, <3>1, <3>2 DEF PlacesInOrder
  <2> QED BY <1>3, <2>4, <2>5 DEF Takes
<1>4. CASE Drops
  BY <1>0, <1>e, <1>4 DEF Drops, PlacesInOrder, Below
<1>5. CASE Fetches
  <2>1. /\ got' \in Seq(Nat) /\ Elements(got') = Elements(got) \cup Elements(bank)
        /\ Ascending(got')
    BY <1>0, <1>5, JoinBytes DEF Fetches, PlacesInOrder
  <2>2. Elements(bank') = {} /\ tx' = tx /\ produced' = produced
    BY <1>e, <1>5 DEF Fetches
  <2>3. Below(got', bank') /\ Below(got', tx') /\ Below(bank', tx')
    BY <2>1, <2>2 DEF PlacesInOrder, Below
  <2>4. \A x \in Elements(got') \cup Elements(bank') \cup Elements(tx') : x <= produced'
    BY <2>1, <2>2 DEF PlacesInOrder
  <2> QED BY <1>0, <1>e, <1>5, <2>1, <2>2, <2>3, <2>4 DEF Fetches, PlacesInOrder
<1> QED BY <1>1, <1>2, <1>3, <1>4, <1>5, ByteSteps

-----------------------------------------------------------------------------
(* Types *)

\* The types of what the bytes are not, and the bytes SendByte is sending.
LEMMA TypesNext ==
  ASSUME UsbTypes, QuotaInBuffer, PlacesInOrder, [Next]_vars
  PROVE  UsbTypes' /\ QuotaInBuffer'
<1> USE DEF mainVars, coreVars, epVars, busVars, bounds
<1>0. /\ tx' \in Seq(Nat) /\ produced' \in Nat /\ got' \in Seq(Nat)
      /\ bank' \in Seq(Nat) /\ Len(bank') <= BankSize
  BY BytesNext
<1>1. /\ quota \in Nat /\ Len(tx) \in Nat /\ quota <= Len(tx) /\ (InFlight => quota > 0)
  BY DEF UsbTypes, QuotaInBuffer
<1>2. CASE Turn
  BY <1>0, <1>1, <1>2 DEF Turn, UsbTypes, QuotaInBuffer, InFlight
<1>3. CASE Send
  BY <1>0, <1>1, <1>3 DEF Send, UsbTypes, QuotaInBuffer, InFlight
<1>4. CASE Allowed
  BY <1>0, <1>1, <1>4 DEF Allowed, UsbTypes, QuotaInBuffer, InFlight
<1>5. CASE HandOver
  <2>1. cpu' \in BOOLEAN
    BY <1>5, Zenon DEF HandOver, ClearIN, UsbTypes
  <2>2. InFlight' \/ mpc' \in {"turn", "flushwait"}
    BY <1>5 DEF HandOver, InFlight
  <2>3. InFlight' => InFlight
    BY <1>5 DEF HandOver, InFlight
  <2> QED BY <1>0, <1>1, <1>5, <2>1, <2>2, <2>3 DEF HandOver, UsbTypes, QuotaInBuffer
<1>6. CASE SendWaits
  <2>1. InFlight /\ mpc' \in {"write", "service"}
    BY <1>6 DEF SendWaits, WaitUntilReady, InFlight
  <2> QED BY <1>0, <1>1, <1>6, <2>1 DEF SendWaits, UsbTypes, QuotaInBuffer, InFlight
<1>7. CASE Write
  <2>1. /\ quota > 0 /\ quota' = quota - 1 /\ tx' = Tail(tx) /\ mpc' = "send"
    BY <1>1, <1>7 DEF Write, InFlight
  <2>2. quota' \in Nat /\ Len(tx) > 0
    BY <1>1, <2>1
  <2>3. Len(tx') = Len(tx) - 1
    BY <2>1, <2>2, TakeByte DEF UsbTypes
  <2>4. quota' <= Len(tx')
    BY <1>1, <2>1, <2>3
  <2> QED BY <1>0, <1>7, <2>1, <2>2, <2>4 DEF Write, UsbTypes, QuotaInBuffer, InFlight
<1>8. CASE Service
  <2>1. Len(tx') \in Nat /\ Len(tx') >= Len(tx)
    BY <1>0, <1>1, <1>8, AppendByte DEF Service, UsbTypes
  <2>2. quota' = quota /\ mpc' \in {"flush", "turn"} /\ sel' \in {"IN", "CONTROL"}
    BY <1>8 DEF Service, UsbTypes
  <2>3. QuotaInBuffer'
    BY <1>1, <2>1, <2>2 DEF QuotaInBuffer, InFlight
  <2> QED BY <1>0, <1>8, <2>2, <2>3 DEF Service, UsbTypes
<1>9. CASE Flush
  <2>1. mpc' \in {"turn", "flushpart", "flushfull"}
    BY <1>9 DEF Flush
  <2> QED BY <1>0, <1>1, <1>9, <2>1 DEF Flush, UsbTypes, QuotaInBuffer, InFlight
<1>10. CASE FlushWaits
  <2>1. mpc' \in {"turn", "zlp"}
    BY <1>10 DEF FlushWaits, WaitUntilReady
  <2> QED BY <1>0, <1>1, <1>10, <2>1 DEF FlushWaits, UsbTypes, QuotaInBuffer, InFlight
<1>11. UNCHANGED <<mpc, quota, tx>> => (InFlight' <=> InFlight) /\ QuotaInBuffer'
  BY <1>1 DEF QuotaInBuffer, InFlight
<1>12. CASE Suspend
  <2>1. UNCHANGED <<mpc, quota, tx>>
    BY <1>12 DEF Suspend
  <2>3. (InFlight' <=> InFlight) /\ QuotaInBuffer'
    BY <1>11, <2>1
  <2> QED BY <1>0, <1>12, <2>1, <2>3, ZenonT(30) DEF Suspend, UsbTypes
<1>13. CASE WakeUp
  <2>1. UNCHANGED <<mpc, quota, tx>>
    BY <1>13 DEF WakeUp
  <2>3. (InFlight' <=> InFlight) /\ QuotaInBuffer'
    BY <1>11, <2>1
  <2> QED BY <1>0, <1>13, <2>1, <2>3, ZenonT(30) DEF WakeUp, UsbTypes
<1>14. CASE SetAddress
  <2>1. UNCHANGED <<mpc, quota, tx>>
    BY <1>14 DEF SetAddress
  <2>3. (InFlight' <=> InFlight) /\ QuotaInBuffer'
    BY <1>11, <2>1
  <2> QED BY <1>0, <1>14, <2>1, <2>3 DEF SetAddress, UsbTypes
<1>15. ASSUME NEW c \in {0, 1}, SetConfiguration(c) PROVE UsbTypes' /\ QuotaInBuffer'
  <2>1. UNCHANGED <<mpc, quota, tx>>
    BY <1>15 DEF SetConfiguration
  <2>3. (InFlight' <=> InFlight) /\ QuotaInBuffer'
    BY <1>11, <2>1
  <2> QED BY <1>0, <1>15, <2>1, <2>3 DEF SetConfiguration, UsbTypes
<1>16. CASE ConfigurationChanged
  <2>1. UNCHANGED <<mpc, quota, tx>>
    BY <1>16 DEF ConfigurationChanged
  <2>2. enabled' \in BOOLEAN /\ cpu' \in BOOLEAN
    BY <1>16, Zenon DEF ConfigurationChanged, UsbTypes
  <2>3. (InFlight' <=> InFlight) /\ QuotaInBuffer'
    BY <1>11, <2>1
  <2> QED BY <1>0, <1>16, <2>1, <2>2, <2>3, ZenonT(30) DEF ConfigurationChanged, UsbTypes
<1>17. CASE LineEncoding
  <2>1. UNCHANGED <<mpc, quota, tx>>
    BY <1>17 DEF LineEncoding
  <2>3. (InFlight' <=> InFlight) /\ QuotaInBuffer'
    BY <1>11, <2>1
  <2> QED BY <1>0, <1>17, <2>1, <2>3 DEF LineEncoding, UsbTypes
<1>18. CASE LineEncodingDone
  <2>1. UNCHANGED <<mpc, quota, tx>>
    BY <1>18 DEF LineEncodingDone
  <2>3. (InFlight' <=> InFlight) /\ QuotaInBuffer'
    BY <1>11, <2>1
  <2>4. /\ baud' \in BOOLEAN /\ suspie' \in BOOLEAN /\ wakee' \in BOOLEAN
        /\ orphan' \in BOOLEAN /\ enabled' \in BOOLEAN /\ cpu' \in BOOLEAN
        /\ addr' \in BOOLEAN /\ frozen' \in BOOLEAN
    BY <1>18, Zenon DEF LineEncodingDone, UsbTypes
  <2>5. /\ sel' = sel /\ state' = state /\ cfgnum' = cfgnum /\ bus' = bus
        /\ ctl' = "none" /\ UNCHANGED bounds
    BY <1>18 DEF LineEncodingDone
  <2> QED BY <1>0, <2>1, <2>3, <2>4, <2>5 DEF UsbTypes
<1>19. CASE OrphanEnds
  <2>1. UNCHANGED <<mpc, quota, tx>>
    BY <1>19 DEF OrphanEnds
  <2>3. (InFlight' <=> InFlight) /\ QuotaInBuffer'
    BY <1>11, <2>1
  <2>4. /\ baud' \in BOOLEAN /\ suspie' \in BOOLEAN /\ wakee' \in BOOLEAN
        /\ orphan' \in BOOLEAN /\ enabled' \in BOOLEAN /\ cpu' \in BOOLEAN
        /\ addr' \in BOOLEAN /\ frozen' \in BOOLEAN
    BY <1>19, Zenon DEF OrphanEnds, UsbTypes
  <2>5. /\ sel' = sel /\ state' = state /\ cfgnum' = cfgnum /\ bus' = bus
        /\ ctl' = "none" /\ UNCHANGED bounds
    BY <1>19 DEF OrphanEnds
  <2> QED BY <1>0, <2>1, <2>3, <2>4, <2>5 DEF UsbTypes
<1>20. CASE BusReset
  <2>1. UNCHANGED <<mpc, quota, tx>>
    BY <1>20 DEF BusReset, Reset
  <2>2. ctl' \in {"none", "config", "line"} /\ orphan' \in BOOLEAN
        /\ sel' \in {"IN", "CONTROL"}
    BY <1>20, Zenon DEF BusReset, Reset, UsbTypes
  <2>3. (InFlight' <=> InFlight) /\ QuotaInBuffer'
    BY <1>11, <2>1
  <2>4. /\ baud' \in BOOLEAN /\ suspie' \in BOOLEAN /\ wakee' \in BOOLEAN
        /\ orphan' \in BOOLEAN /\ enabled' \in BOOLEAN /\ cpu' \in BOOLEAN
        /\ addr' \in BOOLEAN /\ frozen' \in BOOLEAN
    BY <1>20, Zenon DEF BusReset, Reset, UsbTypes
  <2>5. resets' \in Nat /\ suspends' \in Nat /\ configs' \in Nat
    BY <1>20 DEF BusReset, Reset, UsbTypes
  <2>6. /\ state' \in {"Unattached", "Powered", "Default", "Addressed", "Configured"}
        /\ cfgnum' \in {0, 1} /\ bus' \in {"active", "idle"}
    BY <1>20 DEF BusReset, Reset
  <2> QED BY <1>0, <2>1, <2>2, <2>3, <2>4, <2>5, <2>6 DEF UsbTypes
<1>21. CASE BusIdle
  <2>1. UNCHANGED <<mpc, quota, tx>>
    BY <1>21 DEF BusIdle
  <2>3. (InFlight' <=> InFlight) /\ QuotaInBuffer'
    BY <1>11, <2>1
  <2> QED BY <1>0, <1>21, <2>1, <2>3 DEF BusIdle, UsbTypes
<1>22. CASE BusResume
  <2>1. UNCHANGED <<mpc, quota, tx>>
    BY <1>22 DEF BusResume
  <2>3. (InFlight' <=> InFlight) /\ QuotaInBuffer'
    BY <1>11, <2>1
  <2> QED BY <1>0, <1>22, <2>1, <2>3 DEF BusResume, UsbTypes
<1>23. CASE HostIn
  <2>1. UNCHANGED <<mpc, quota, tx>>
    BY <1>23 DEF HostIn
  <2>3. (InFlight' <=> InFlight) /\ QuotaInBuffer'
    BY <1>11, <2>1
  <2> QED BY <1>0, <1>23, <2>1, <2>3 DEF HostIn, UsbTypes
<1>24. CASE UNCHANGED vars
  <2>1. UNCHANGED <<mpc, quota, tx>>
    BY <1>24 DEF vars
  <2>3. (InFlight' <=> InFlight) /\ QuotaInBuffer'
    BY <1>11, <2>1
  <2> QED BY <1>0, <1>24, <2>1, <2>3 DEF vars, UsbTypes
<1> QED
  BY <1>2, <1>3, <1>4, <1>5, <1>6, <1>7, <1>8, <1>9, <1>10, <1>12, <1>13, <1>14, <1>15,
     <1>16, <1>17, <1>18, <1>19, <1>20, <1>21, <1>22, <1>23, <1>24, SMTT(30)
  DEF Next, Main, ControlRequest

-----------------------------------------------------------------------------
(* A suspended device does not begin to send *)

LEMMA FrozenNext ==
  ASSUME UsbTypes, FrozenUnusable, [Next]_vars
  PROVE  FrozenUnusable'
<1> USE DEF mainVars, coreVars, epVars, busVars, bounds, FrozenUnusable
<1>1. CASE Main
  <2>1. UNCHANGED <<frozen, wakee, state, baud, ctl>>
    BY <1>1, MainSteps
  <2> QED BY <2>1
<1>2. CASE Suspend \/ WakeUp
  BY <1>2 DEF Suspend, WakeUp
<1>3. CASE SetAddress \/ LineEncoding \/ \E c \in {0, 1} : SetConfiguration(c)
  <2>1. ~frozen /\ UNCHANGED frozen
    BY <1>3 DEF SetAddress, LineEncoding, SetConfiguration, Request, UsbTypes
  <2> QED BY <2>1
<1>4. CASE ConfigurationChanged
  BY <1>4 DEF ConfigurationChanged
<1>5. CASE LineEncodingDone
  BY <1>5 DEF LineEncodingDone
<1>6. CASE BusReset
  BY <1>6, SMTT(30) DEF BusReset, Reset
<1>7. CASE OrphanEnds \/ BusIdle \/ BusResume \/ HostIn \/ UNCHANGED vars
  <2>1. UNCHANGED <<frozen, wakee, state, baud, ctl>>
    BY <1>7 DEF OrphanEnds, BusIdle, BusResume, HostIn, vars
  <2> QED BY <2>1
<1> QED
  BY <1>1, <1>2, <1>3, <1>4, <1>5, <1>6, <1>7 DEF Next, ControlRequest

-----------------------------------------------------------------------------
(* Losses *)

\* Only Write, a reset and a configuration lose bytes.
LEMMA LostSteps ==
  ASSUME UsbTypes, QuotaInBuffer, PlacesInOrder, [Next]_vars
  PROVE  /\ Lost \in Int /\ Lost' \in Int
         /\ \/ Lost' = Lost
            \/ Write /\ bank' = bank /\ Lost' = Lost + 1
            \/ Drops /\ (BusReset \/ ConfigurationChanged) /\ Lost' = Lost + Len(bank)
<1>0. /\ tx \in Seq(Nat) /\ produced \in Nat /\ got \in Seq(Nat) /\ bank \in Seq(Nat)
      /\ tx' \in Seq(Nat) /\ produced' \in Nat /\ got' \in Seq(Nat) /\ bank' \in Seq(Nat)
  BY BytesNext DEF UsbTypes
<1>1. Len(tx) \in Nat /\ Len(got) \in Nat /\ Len(bank) \in Nat
  BY <1>0
<1>2. Len(tx') \in Nat /\ Len(got') \in Nat /\ Len(bank') \in Nat
  BY <1>0
<1>3. Lost \in Int /\ Lost' \in Int
  BY <1>0, <1>1, <1>2 DEF Lost
<1>4. CASE UNCHANGED <<got, bank, tx, produced>>
  BY <1>3, <1>4 DEF Lost
<1>5. CASE Produces
  <2>1. Len(tx') = Len(tx) + 1 /\ produced' = produced + 1 /\ got' = got /\ bank' = bank
    BY <1>0, <1>5, AppendByte DEF Produces
  <2>2. Lost' = Lost
    BY <1>0, <1>1, <2>1 DEF Lost
  <2> QED BY <1>3, <2>2
<1>6. CASE Takes /\ Write
  <2>1. /\ Head(tx) \in Nat /\ Len(tx') = Len(tx) - 1 /\ produced' = produced /\ got' = got
    BY <1>0, <1>6, TakeByte DEF Takes
  <2>2. CASE bank' = Append(bank, Head(tx))
    <3>1. Len(bank') = Len(bank) + 1
      BY <1>0, <2>1, <2>2, AppendByte
    <3>2. Lost' = Lost
      BY <1>0, <1>1, <2>1, <3>1 DEF Lost
    <3> QED BY <1>3, <3>2
  <2>3. CASE bank' = bank
    <3>1. Lost' = Lost + 1
      BY <1>0, <1>1, <2>1, <2>3 DEF Lost
    <3> QED BY <1>3, <1>6, <2>3, <3>1
  <2> QED BY <1>6, <2>2, <2>3 DEF Takes
<1>7. CASE Drops /\ (BusReset \/ ConfigurationChanged)
  <2>1. Len(bank') = 0 /\ UNCHANGED <<got, tx, produced>>
    BY <1>7 DEF Drops
  <2>2. Lost' = Lost + Len(bank)
    BY <1>0, <1>1, <2>1 DEF Lost
  <2> QED BY <1>3, <1>7, <2>2
<1>8. CASE Fetches
  <2>1. Len(got') = Len(got) + Len(bank) /\ Len(bank') = 0 /\ UNCHANGED <<tx, produced>>
    BY <1>0, <1>8, JoinBytes DEF Fetches
  <2>2. Lost' = Lost
    BY <1>0, <1>1, <2>1 DEF Lost
  <2> QED BY <1>3, <2>2
<1> QED BY <1>4, <1>5, <1>6, <1>7, <1>8, ByteSteps, SMTT(30)

\* A byte that SendByte has begun to send comes into danger only by a suspension or a
\* reset.
LEMMA DangerSteps ==
  ASSUME UsbTypes, FrozenUnusable, [Next]_vars, InFlight', ~Safe'
  PROVE  (InFlight /\ ~Safe) \/ Suspend \/ BusReset
<1> USE DEF mainVars, coreVars, epVars, busVars, bounds
<1>b. BankSize \in Nat /\ 0 < BankSize
  BY BoundsAssumption, SMTT(30)
<1>1. CASE Turn \/ Service \/ Flush \/ FlushWaits \/ Write
  BY <1>1 DEF Turn, Service, Flush, FlushWaits, WaitUntilReady, Write, InFlight
<1>2. CASE Send
  <2>1. sel' = "IN" /\ mpc' = "allowed" /\ Usable /\ UNCHANGED frozen
    BY <1>2 DEF Send, InFlight
  <2>2. ~frozen
    BY <2>1 DEF Usable, FrozenUnusable
  <2> QED BY <2>1, <2>2 DEF Safe
<1>3. CASE Allowed
  <2>1. InFlight /\ UNCHANGED <<sel, frozen, enabled, cpu, bank>>
    BY <1>3 DEF Allowed, InFlight
  <2>2. ASSUME Safe PROVE Safe'
    <3>1. sel = "IN" /\ ~frozen /\ mpc' \in {"write", "clear"} /\ (mpc' = "write" => Room)
      BY <1>3, <2>2 DEF Allowed, Safe, IsReadWriteAllowed
    <3> QED BY <2>1, <3>1 DEF Safe, Room
  <2> QED BY <2>1, <2>2
<1>4. CASE HandOver
  <2>1. mpc = "clear" /\ mpc' = "wait" /\ UNCHANGED <<sel, frozen, enabled, bank>>
    BY <1>4 DEF HandOver, InFlight
  <2>2. ASSUME Safe PROVE Safe'
    <3>1. sel = "IN" /\ ~frozen
      BY <2>2 DEF Safe
    <3>2. enabled' => ~cpu'
      BY <1>4, <2>1, <3>1 DEF HandOver, ClearIN, Effective
    <3> QED BY <2>1, <3>1, <3>2 DEF Safe
  <2> QED BY <2>1, <2>2 DEF InFlight
<1>5. CASE SendWaits
  <2>1. mpc = "wait" /\ mpc' = "write" /\ UNCHANGED <<sel, frozen, enabled, cpu, bank>>
    BY <1>5 DEF SendWaits, WaitUntilReady, InFlight
  <2>2. ASSUME Safe PROVE Safe'
    <3>1. sel = "IN" /\ ~frozen /\ (enabled /\ cpu => Len(bank) < BankSize)
      BY <2>1, <2>2 DEF Safe
    <3>2. enabled /\ cpu
      BY <1>5, <2>1, <3>1, Zenon DEF SendWaits, WaitUntilReady, IsReady
    <3> QED BY <2>1, <3>1, <3>2 DEF Safe, Room
  <2> QED BY <2>1, <2>2 DEF InFlight
<1>6. CASE WakeUp
  <2>1. UNCHANGED <<mpc, sel, enabled, cpu, bank>> /\ ~frozen'
    BY <1>6 DEF WakeUp
  <2> QED BY <2>1 DEF InFlight, Safe, Room
<1>7. CASE ConfigurationChanged
  <2>1. UNCHANGED <<mpc, sel, frozen>>
    BY <1>7 DEF ConfigurationChanged
  <2>2. CASE UNCHANGED epVars
    BY <2>1, <2>2 DEF InFlight, Safe, Room
  <2>3. CASE enabled' = TRUE /\ bank' = <<>> /\ cpu' = TRUE
    BY <1>b, <2>1, <2>3 DEF InFlight, Safe, Room
  <2> QED BY <1>7, <2>2, <2>3, Zenon DEF ConfigurationChanged
<1>8. CASE HostIn
  BY <1>b, <1>8 DEF HostIn, InFlight, Safe, Room
<1>9. CASE \/ SetAddress \/ LineEncoding \/ (\E c \in {0, 1} : SetConfiguration(c))
           \/ LineEncodingDone \/ OrphanEnds \/ BusIdle \/ BusResume \/ UNCHANGED vars
  <2>1. UNCHANGED <<mpc, sel, frozen, enabled, cpu, bank>>
    <3>1. CASE SetAddress \/ LineEncoding \/ (\E c \in {0, 1} : SetConfiguration(c))
      BY <3>1 DEF SetAddress, LineEncoding, SetConfiguration
    <3>2. CASE LineEncodingDone \/ OrphanEnds \/ BusIdle
      BY <3>2 DEF LineEncodingDone, OrphanEnds, BusIdle
    <3>3. CASE BusResume \/ UNCHANGED vars
      BY <3>3 DEF BusResume, vars
    <3> QED BY <1>9, <3>1, <3>2, <3>3
  <2> QED BY <2>1, SMTT(30) DEF InFlight, Safe, Room
<1> QED
  BY <1>1, <1>2, <1>3, <1>4, <1>5, <1>6, <1>7, <1>8, <1>9 DEF Next, Main, ControlRequest

\* A byte that is not in danger gets into the bank.
LEMMA SafeWrite ==
  ASSUME UsbTypes, QuotaInBuffer, Write, Safe
  PROVE  bank' # bank
<1>1. mpc = "write" /\ ~frozen /\ Room
  BY DEF Write, Safe
<1>2. bank' = Append(bank, Head(tx))
  BY <1>1 DEF Write, Effective
<1>3. Len(tx) > 0 /\ tx \in Seq(Nat) /\ bank \in Seq(Nat)
  BY <1>1 DEF UsbTypes, QuotaInBuffer, InFlight
<1>4. Len(bank') = Len(bank) + 1 /\ Len(bank) \in Nat
  BY <1>2, <1>3, TakeByte, AppendByte
<1> QED BY <1>4

LEMMA UnconfiguredNext ==
  ASSUME UsbTypes, QuotaInBuffer, PlacesInOrder, [Next]_vars, Unconfigured, configs = 0,
         configs' = 0
  PROVE  Unconfigured'
<1> USE DEF mainVars, coreVars, epVars, busVars, bounds
<1>1. Lost' = 0
  <2>1. Len(bank) = 0 /\ Lost = 0 /\ ~Write
    BY DEF Unconfigured, Write, InFlight
  <2>2. Lost' = Lost \/ Lost' = Lost + 0
    BY <2>1, LostSteps
  <2> QED BY <2>1, <2>2
<1>2. bank' = <<>>
  <2>1. ~Write /\ bank = <<>>
    BY DEF Unconfigured, Write, InFlight
  <2> QED BY <2>1, ByteSteps DEF Produces, Drops, Fetches
<1>3. ~InFlight' /\ ~baud' /\ cfgnum' = 0 /\ ctl' = "none"
  <2>1. CASE Main
    <3>1. ~baud' /\ cfgnum' = 0 /\ ctl' = "none"
      BY <2>1, MainSteps DEF Unconfigured
    <3>2. ~(Allowed \/ SendWaits \/ Write)
      BY DEF Allowed, SendWaits, Write, Unconfigured, InFlight
    <3>3. Turn \/ Send \/ HandOver => ~InFlight'
      BY DEF Turn, Send, HandOver, Usable, Unconfigured, InFlight
    <3>4. Service \/ Flush \/ FlushWaits => ~InFlight'
      BY DEF Service, Flush, FlushWaits, WaitUntilReady, InFlight
    <3> QED BY <2>1, <3>1, <3>2, <3>3, <3>4 DEF Main
  <2>2. CASE Suspend \/ WakeUp \/ SetAddress \/ OrphanEnds \/ BusIdle \/ BusResume \/ HostIn
    <3>1. UNCHANGED <<mpc, baud, cfgnum, ctl>>
      <4>1. CASE Suspend \/ WakeUp \/ SetAddress
        BY <4>1 DEF Suspend, WakeUp, SetAddress
      <4>2. CASE OrphanEnds \/ BusIdle \/ BusResume \/ HostIn
        BY <4>2 DEF OrphanEnds, BusIdle, BusResume, HostIn
      <4> QED BY <2>2, <4>1, <4>2
    <3> QED BY <3>1, SMTT(30) DEF Unconfigured, InFlight
  <2>3. CASE BusReset
    BY <2>3 DEF BusReset, Reset, Unconfigured, InFlight
  <2>4. ASSUME NEW c \in {0, 1}, SetConfiguration(c) PROVE FALSE
    BY <2>4 DEF SetConfiguration
  <2>5. ~(ConfigurationChanged \/ LineEncoding \/ LineEncodingDone)
    BY DEF ConfigurationChanged, LineEncoding, LineEncodingDone, Unconfigured
  <2>6. CASE UNCHANGED vars
    BY <2>6 DEF vars, Unconfigured, InFlight
  <2> QED BY <2>1, <2>2, <2>3, <2>4, <2>5, <2>6 DEF Next, ControlRequest
<1> QED BY <1>1, <1>2, <1>3 DEF Unconfigured

\* One more reset or configuration allows for a bank and a byte more.
LEMMA AllowanceSteps ==
  ASSUME UsbTypes
  PROVE  /\ Allowance \in Int
         /\ UNCHANGED bounds => Allowance' = Allowance
         /\ resets' = resets + 1 /\ UNCHANGED <<configs, suspends>>
              => Allowance' = Allowance + BankSize + 1
         /\ configs' = configs + 1 /\ UNCHANGED <<resets, suspends>>
              => Allowance' = Allowance + BankSize + 1
         /\ suspends' = suspends + 1 /\ UNCHANGED <<resets, configs>>
              => Allowance' = Allowance + 1
         /\ resets > 0 /\ configs > 0 => Allowance >= 0
<1>0. /\ BankSize \in Nat /\ resets \in Nat /\ configs \in Nat /\ suspends \in Nat
  BY BoundsAssumption DEF UsbTypes
<1> DEFINE P(n) == (BankSize + 1) * n
<1>1. \A n \in Int : P(n) \in Int /\ P(n + 1) = P(n) + BankSize + 1
  BY <1>0
<1>2. \A n \in Nat : P(n) >= 0
  BY <1>0
<1>3. Allowance = P(resets + configs - 2) + suspends
  BY DEF Allowance
<1>4. Allowance' = P(resets' + configs' - 2) + suspends'
  BY DEF Allowance
<1> HIDE DEF P
<1>5. /\ resets + configs - 2 \in Int
      /\ (resets + 1) + configs - 2 = (resets + configs - 2) + 1
      /\ resets + (configs + 1) - 2 = (resets + configs - 2) + 1
      /\ resets > 0 /\ configs > 0 => resets + configs - 2 \in Nat
  BY <1>0
<1>6. P(resets + configs - 2) \in Int
      /\ P((resets + configs - 2) + 1) = P(resets + configs - 2) + BankSize + 1
  BY <1>1, <1>5
<1>7. Allowance \in Int
  BY <1>0, <1>3, <1>6
<1>8. UNCHANGED bounds => Allowance' = Allowance
  BY <1>3, <1>4 DEF bounds
<1>9. resets' = resets + 1 /\ UNCHANGED <<configs, suspends>>
        => Allowance' = Allowance + BankSize + 1
  BY <1>0, <1>3, <1>4, <1>5, <1>6
<1>10. configs' = configs + 1 /\ UNCHANGED <<resets, suspends>>
        => Allowance' = Allowance + BankSize + 1
  BY <1>0, <1>3, <1>4, <1>5, <1>6
<1>11. suspends' = suspends + 1 /\ UNCHANGED <<resets, configs>>
        => Allowance' = Allowance + 1
  BY <1>0, <1>3, <1>4, <1>6
<1>12. resets > 0 /\ configs > 0 => Allowance >= 0
  <2>1. resets > 0 /\ configs > 0 => P(resets + configs - 2) >= 0
    BY <1>2, <1>5
  <2> QED BY <1>0, <1>3, <1>6, <2>1
<1> QED BY <1>7, <1>8, <1>9, <1>10, <1>11, <1>12, SMTT(30)

\* What a step adds to the cost is what it adds to the allowance, or less.
LEMMA CostNext ==
  ASSUME UsbTypes, QuotaInBuffer, PlacesInOrder, FrozenUnusable, LossesPaid, [Next]_vars,
         configs > 0
  PROVE  /\ configs' > 0 /\ resets' > 0 /\ Cost' <= Allowance'
<1> USE DEF mainVars, coreVars, epVars, busVars, bounds
<1>0. /\ configs \in Nat /\ resets \in Nat /\ resets > 0 /\ Cost <= Allowance
      /\ Allowance \in Int /\ BankSize \in Nat
  BY BoundsAssumption, AllowanceSteps DEF UsbTypes, LossesPaid
<1>1. /\ Lost \in Int /\ Lost' \in Int /\ InDanger \in 0..1 /\ InDanger' \in 0..1
      /\ Suspending \in 0..1 /\ Suspending' \in 0..1
  BY LostSteps DEF InDanger, Suspending
<1>2. /\ Len(bank) \in 0..BankSize /\ Len(bank') \in Nat
      /\ Reallocated \in 0..BankSize /\ Reallocated' \in Nat
  <2>1. Len(bank) \in 0..BankSize
    BY <1>0 DEF UsbTypes
  <2>2. bank' \in Seq(Nat)
    BY BytesNext
  <2>3. Len(bank') \in Nat
    BY <2>2
  <2> QED BY <1>0, <2>1, <2>3 DEF Reallocated
<1>3. InDanger' <= InDanger \/ Suspend \/ BusReset
  BY <1>1, DangerSteps DEF InDanger
<1> DEFINE l == Lost
<1> DEFINE d == InDanger
<1> DEFINE r == Reallocated
<1> DEFINE s == Suspending
<1> DEFINE a == Allowance
<1> DEFINE l2 == Lost'
<1> DEFINE d2 == InDanger'
<1> DEFINE r2 == Reallocated'
<1> DEFINE s2 == Suspending'
<1> DEFINE a2 == Allowance'
<1>4. /\ l \in Int /\ d \in 0..1 /\ r \in 0..BankSize /\ s \in 0..1 /\ a \in Int
      /\ l2 \in Int /\ d2 \in 0..1 /\ r2 \in Nat /\ s2 \in 0..1
      /\ Cost = l + d + r + s /\ Cost' = l2 + d2 + r2 + s2 /\ l + d + r + s <= a
  BY <1>0, <1>1, <1>2 DEF Cost
<1>5. d2 <= d \/ Suspend \/ BusReset
  BY <1>3
<1> HIDE DEF l, d, r, s, a, l2, d2, r2, s2, a2
<1>6. CASE UNCHANGED bounds
  <2>0. a2 = a /\ configs' > 0 /\ resets' > 0
    BY <1>0, <1>6, AllowanceSteps DEF a, a2
  <2> SUFFICES l2 + d2 + r2 + s2 <= l + d + r + s
    <3>1. l2 + d2 + r2 + s2 <= a2
      BY <1>4, <2>0
    <3> QED BY <1>4, <2>0, <3>1 DEF a2
  <2>1. CASE Main
    <3>1. s2 = s /\ r = 0 /\ r2 = 0
      BY <2>1, MainSteps, SMTT(30) DEF Suspending, Reallocated, s, s2, r, r2
    <3>2. ~(Suspend \/ BusReset \/ ConfigurationChanged)
      BY <2>1, <1>0, MainSteps DEF Suspend, BusReset, ConfigurationChanged
    <3>3. l2 + d2 <= l + d
      <4>1. CASE l2 = l
        BY <1>4, <1>5, <3>2, <4>1
      <4>2. CASE Write /\ bank' = bank /\ l2 = l + 1
        <5>1. d = 1 /\ d2 = 0
          BY <4>2, SafeWrite DEF InDanger, InFlight, Write, d, d2
        <5> QED BY <1>4, <4>2, <5>1, SMTT(30)
      <4> QED BY <3>2, <4>1, <4>2, LostSteps DEF l, l2
    <3> QED BY <1>4, <3>1, <3>3
  <2>2. CASE Suspend
    <3>1. l2 = l
      <4>1. UNCHANGED <<got, bank, tx, produced>>
        BY <2>2 DEF Suspend
      <4> QED BY <4>1 DEF Lost, l, l2
    <3>2. r2 = r /\ s = 1 /\ s2 = 0
      BY <2>2 DEF Suspend, Reallocated, Suspending, r, r2, s, s2
    <3> QED BY <1>4, <3>1, <3>2
  <2>3. CASE ConfigurationChanged
    <3>1. r = Len(bank) /\ r2 = 0 /\ s2 = s
      BY <2>3, SMTT(30) DEF ConfigurationChanged, Reallocated, Suspending, r, r2, s, s2
    <3>2. ~(Suspend \/ BusReset \/ Write)
      BY <2>3 DEF ConfigurationChanged, Suspend, BusReset, Reset, Write, MainRuns
    <3>3. l2 = l \/ l2 = l + r
      BY <3>1, <3>2, LostSteps DEF l, l2
    <3> QED BY <1>4, <1>5, <3>1, <3>2, <3>3
  <2>4. CASE HostIn
    <3>1. ~(Suspend \/ BusReset \/ Write \/ ConfigurationChanged)
      BY <2>4, Zenon DEF HostIn, ConfigurationChanged, Suspend, BusReset, Reset, Write
    <3>2. l2 = l
      BY <3>1, LostSteps DEF l, l2
    <3>3. s2 = s /\ r2 = 0
      BY <2>4 DEF HostIn, Suspending, Reallocated, s, s2, r2
    <3> QED BY <1>4, <1>5, <3>1, <3>2, <3>3, SMTT(30)
  <2>5. CASE WakeUp \/ SetAddress \/ LineEncoding \/ LineEncodingDone \/ OrphanEnds
             \/ BusResume \/ UNCHANGED vars
    <3>1. UNCHANGED <<got, bank, tx, produced>>
      <4>1. CASE WakeUp \/ SetAddress \/ LineEncoding
        BY <4>1 DEF WakeUp, SetAddress, LineEncoding
      <4>2. CASE LineEncodingDone \/ OrphanEnds
        BY <4>2 DEF LineEncodingDone, OrphanEnds
      <4>3. CASE BusResume \/ UNCHANGED vars
        BY <4>3 DEF BusResume, vars
      <4> QED BY <2>5, <4>1, <4>2, <4>3
    <3>2. l2 = l
      BY <3>1 DEF Lost, l, l2
    <3>3. r2 = r
      <4>1. ctl' = "config" <=> ctl = "config"
        <5>1. CASE WakeUp \/ SetAddress \/ LineEncoding
          BY <5>1 DEF WakeUp, SetAddress, LineEncoding, Request
        <5>2. CASE LineEncodingDone \/ OrphanEnds
          BY <5>2 DEF LineEncodingDone, OrphanEnds, Request
        <5>3. CASE BusResume \/ UNCHANGED vars
          BY <5>3 DEF BusResume, vars
        <5> QED BY <2>5, <5>1, <5>2, <5>3
      <4> QED BY <3>1, <4>1, SMTT(30) DEF Reallocated, r, r2
    <3>4. \/ bus = "active" /\ bus' = "active"
          \/ ~suspie /\ ~suspie'
          \/ UNCHANGED <<bus, suspie>>
      <4>1. CASE WakeUp \/ SetAddress \/ LineEncoding
        BY <4>1 DEF WakeUp, SetAddress, LineEncoding
      <4>2. CASE LineEncodingDone \/ OrphanEnds
        BY <4>2 DEF LineEncodingDone, OrphanEnds
      <4>3. CASE BusResume \/ UNCHANGED vars
        BY <4>3 DEF BusResume, vars
      <4> QED BY <2>5, <4>1, <4>2, <4>3
    <3>5. s2 = s
      BY <3>4 DEF Suspending, s, s2
    <3>6. ~(Suspend \/ BusReset)
      <4>1. ~BusReset
        BY <1>0, <1>6 DEF BusReset
      <4>2. ~Suspend
        BY <3>4 DEF Suspend
      <4> QED BY <4>1, <4>2
    <3> QED BY <1>4, <1>5, <3>2, <3>3, <3>5, <3>6
  <2>6. ~BusIdle /\ ~BusReset /\ ~\E c \in {0, 1} : SetConfiguration(c)
    <3>1. configs' = configs /\ resets' = resets /\ suspends' = suspends /\ suspends \in Nat
      BY <1>6 DEF UsbTypes
    <3>2. ~BusIdle
      BY <3>1 DEF BusIdle
    <3>3. ~BusReset
      BY <1>0, <3>1 DEF BusReset
    <3>4. ~\E c \in {0, 1} : SetConfiguration(c)
      BY <1>0, <3>1 DEF SetConfiguration
    <3> QED BY <3>2, <3>3, <3>4
  <2> QED BY <2>1, <2>2, <2>3, <2>4, <2>5, <2>6 DEF Next, ControlRequest
<1>7. CASE \E c \in {0, 1} : SetConfiguration(c)
  <2>1. /\ configs' = configs + 1 /\ UNCHANGED <<resets, suspends>>
        /\ UNCHANGED <<got, bank, tx, produced, mpc, sel, frozen, enabled, cpu, bus, suspie>>
    BY <1>7 DEF SetConfiguration
  <2>2. a2 = a + BankSize + 1
    BY <2>1, AllowanceSteps DEF a, a2
  <2>3. l2 = l /\ d2 = d /\ s2 = s
    BY <2>1 DEF Lost, InDanger, InFlight, Safe, Room, Suspending, l, l2, d, d2, s, s2
  <2>4. r2 <= BankSize
    BY <1>0, <1>2, <2>1 DEF Reallocated, r2
  <2>5. l2 + d2 + r2 + s2 <= a2
    BY <1>0, <1>4, <2>2, <2>3, <2>4, SMTT(30)
  <2> QED BY <1>0, <1>4, <2>1, <2>5 DEF a2
<1>8. CASE BusReset
  <2>1. resets' = resets + 1 /\ UNCHANGED <<configs, suspends>>
    BY <1>8 DEF BusReset
  <2>2. a2 = a + BankSize + 1
    BY <2>1, AllowanceSteps, SMTT(30) DEF a, a2
  <2>3. r2 = 0 /\ s2 = 0 /\ ~Write
    BY <1>8, Zenon DEF BusReset, Reset, Reallocated, Suspending, Write, r2, s2
  <2>4. l2 = l \/ l2 = l + Len(bank)
    BY <2>3, LostSteps DEF l, l2
  <2>5. l2 + d2 + r2 + s2 <= a2
    BY <1>0, <1>2, <1>4, <2>2, <2>3, <2>4
  <2> QED BY <1>0, <1>4, <2>1, <2>5 DEF a2
<1>9. CASE BusIdle
  <2>1. /\ suspends' = suspends + 1 /\ UNCHANGED <<resets, configs>>
        /\ UNCHANGED <<got, bank, tx, produced, mpc, sel, frozen, enabled, cpu, ctl>>
    BY <1>9 DEF BusIdle
  <2>2. a2 = a + 1
    BY <2>1, AllowanceSteps DEF a, a2
  <2>3. l2 = l /\ d2 = d /\ r2 = r
    BY <2>1 DEF Lost, InDanger, InFlight, Safe, Room, Reallocated, l, l2, d, d2, r, r2
  <2>4. s = 0
    BY <1>9 DEF BusIdle, Suspending, s
  <2>5. l2 + d2 + r2 + s2 <= a2
    BY <1>0, <1>4, <2>2, <2>3, <2>4, SMTT(30)
  <2> QED BY <1>0, <1>4, <2>1, <2>5 DEF a2
<1>10. UNCHANGED bounds \/ (\E c \in {0, 1} : SetConfiguration(c)) \/ BusReset \/ BusIdle
  <2>1. CASE Main
    BY <2>1, MainSteps DEF bounds
  <2>2. CASE Suspend \/ WakeUp \/ SetAddress \/ ConfigurationChanged
    BY <2>2 DEF Suspend, WakeUp, SetAddress, ConfigurationChanged
  <2>3. CASE LineEncoding \/ LineEncodingDone \/ OrphanEnds
    BY <2>3 DEF LineEncoding, LineEncodingDone, OrphanEnds
  <2>4. CASE BusResume \/ HostIn \/ UNCHANGED vars
    BY <2>4 DEF BusResume, HostIn, vars
  <2> QED BY <2>1, <2>2, <2>3, <2>4 DEF Next, ControlRequest
<1> QED BY <1>6, <1>7, <1>8, <1>9, <1>10, SMTT(30)

LEMMA LossNext ==
  ASSUME UsbTypes, QuotaInBuffer, PlacesInOrder, FrozenUnusable, LossesPaid, [Next]_vars
  PROVE  LossesPaid'
<1> USE DEF mainVars, coreVars, epVars, busVars, bounds
<1>0. configs \in Nat /\ resets \in Nat /\ configs' \in Nat /\ resets' \in Nat
  BY TypesNext DEF UsbTypes
<1>1. CASE configs > 0
  <2>1. configs' > 0 /\ resets' > 0 /\ Cost' <= Allowance'
    BY <1>1, CostNext
  <2> QED BY <1>0, <2>1 DEF LossesPaid
<1>2. CASE configs = 0
  <2>0. Unconfigured
    BY <1>2 DEF LossesPaid
  <2>1. CASE \E c \in {0, 1} : SetConfiguration(c)
    <3>1. /\ configs' = 1 /\ resets' = resets /\ resets > 0 /\ ctl' = "config"
          /\ bus = "active"
          /\ UNCHANGED <<got, bank, tx, produced, mpc, sel, frozen, enabled, cpu, bus, suspie>>
      BY <1>2, <2>1 DEF SetConfiguration, Request, LossesPaid
    <3>2. Lost' = 0 /\ InDanger' = 0 /\ Suspending' = 0 /\ Reallocated' = 0
      <4>1. Lost' = Lost /\ Lost = 0 /\ bank' = <<>>
        BY <2>0, <3>1 DEF Unconfigured, Lost
      <4>2. ~InFlight' /\ bus' # "idle"
        BY <2>0, <3>1 DEF Unconfigured, InFlight
      <4>3. Len(bank') = 0
        BY <4>1
      <4> QED BY <4>1, <4>2, <4>3 DEF InDanger, Suspending, Reallocated
    <3>3. Cost' = 0 + 0 + 0 + 0
      BY <3>2 DEF Cost
    <3>4. Allowance' >= 0
      <4>1. \A m \in Nat, n \in Nat : (BankSize + 1) * m + n >= 0
        BY BoundsAssumption, SMTT(30)
      <4>2. suspends' \in Nat
        BY TypesNext DEF UsbTypes
      <4>3. resets' + configs' - 2 \in Nat
        BY <1>0, <3>1
      <4> QED BY <4>1, <4>2, <4>3 DEF Allowance
    <3>5. Cost' <= Allowance'
      BY <3>3, <3>4
    <3> QED BY <1>0, <3>1, <3>5 DEF LossesPaid
  <2>2. CASE ~\E c \in {0, 1} : SetConfiguration(c)
    <3>1. configs' = configs
      BY <2>2, MainSteps, Zenon
      DEF Next, Suspend, WakeUp, ControlRequest, SetAddress, ConfigurationChanged,
          LineEncoding, LineEncodingDone, OrphanEnds, BusReset, BusIdle, BusResume, HostIn, vars
    <3>2. Unconfigured'
      BY <1>2, <2>0, <3>1, UnconfiguredNext, SMTT(30)
    <3>3. addr' => resets' > 0
      <4>1. CASE BusReset
        BY <4>1 DEF BusReset, Reset
      <4>2. CASE SetAddress
        BY <4>2 DEF SetAddress
      <4>3. CASE UNCHANGED <<addr, resets>>
        BY <4>3 DEF LossesPaid
      <4> QED
        BY <2>2, <4>1, <4>2, <4>3, MainSteps, Zenon
        DEF Next, Suspend, WakeUp, ControlRequest, ConfigurationChanged,
            LineEncoding, LineEncodingDone, OrphanEnds, BusIdle, BusResume, HostIn, vars
    <3> QED BY <1>0, <1>2, <3>1, <3>2, <3>3, SMTT(30) DEF LossesPaid
  <2> QED BY <2>1, <2>2
<1> QED BY <1>0, <1>1, <1>2, SMTT(30)

-----------------------------------------------------------------------------
(* The invariant, and the theorems *)

LEMMA UsbNext == UsbInv /\ [Next]_vars => UsbInv'
BY BytesNext, TypesNext, FrozenNext, LossNext DEF UsbInv

LEMMA UsbInvariant == Spec => []UsbInv
BY UsbInit, UsbNext, PTL DEF Spec

\* The bytes at the host, in the bank and in the buffer, one after the other.
LEMMA AllBytes ==
  ASSUME UsbInv
  PROVE  /\ got \o bank \o tx \in Seq(Nat) /\ Ascending(got \o bank \o tx)
         /\ Len(got \o bank \o tx) = Len(got) + Len(bank) + Len(tx)
<1>0. tx \in Seq(Nat) /\ got \in Seq(Nat) /\ bank \in Seq(Nat) /\ PlacesInOrder
  BY DEF UsbInv, UsbTypes
<1>1. /\ got \o bank \in Seq(Nat) /\ Len(got \o bank) = Len(got) + Len(bank)
      /\ Elements(got \o bank) = Elements(got) \cup Elements(bank)
      /\ Ascending(got \o bank)
  BY <1>0, JoinBytes DEF PlacesInOrder
<1> DEFINE u == got \o bank
<1>2. /\ u \in Seq(Nat) /\ Ascending(u) /\ Below(u, tx) /\ Ascending(tx)
      /\ Len(u) = Len(got) + Len(bank)
  BY <1>0, <1>1 DEF PlacesInOrder, Below
<1> HIDE DEF u
<1>3. u \o tx \in Seq(Nat) /\ Ascending(u \o tx) /\ Len(u \o tx) = Len(u) + Len(tx)
  BY <1>0, <1>2, JoinBytes
<1> QED BY <1>2, <1>3 DEF u

\* Through every reset, suspension and configuration the host gets every byte at most
\* once and in the order in which appService has written them, for a bank of any size
\* (StreamInOrder): SendByte's write to the bank and the removal from the buffer go
\* together.
THEOREM StreamStaysInOrder == Spec => []StreamInOrder
<1>1. UsbInv => StreamInOrder
  BY AllBytes, SMTT(30) DEF StreamInOrder, Ascending
<1> QED BY <1>1, UsbInvariant, PTL

\* The bytes lost are paid for by resets and configurations after the first, at most a
\* bank and one byte each, and by suspensions, at most one byte each (LossBounded):
\* time-outs, a host that does not read and a device that is not configured cost nothing.
THEOREM LossesAreBounded == Spec => []LossBounded
<1>1. UsbInv => LossBounded
  <2> SUFFICES ASSUME UsbInv PROVE LossBounded
    OBVIOUS
  <2>1. produced - Cardinality(Elements(got \o bank \o tx)) = Lost
    BY AllBytes, CountBytes, Zenon DEF Lost
  <2>2. /\ configs \in Nat /\ UsbTypes /\ LossesPaid /\ BankSize \in Nat
    BY BoundsAssumption DEF UsbInv, UsbTypes
  <2>3. CASE configs = 0
    BY <2>1, <2>2, <2>3 DEF LossesPaid, Unconfigured, LossBounded
  <2>4. CASE configs # 0
    <3>1. Cost <= Allowance /\ Allowance \in Int
      BY <2>2, <2>4, AllowanceSteps DEF LossesPaid
    <3>2. Lost \in Int
      <4>1. Len(got) \in Nat /\ Len(bank) \in Nat /\ Len(tx) \in Nat /\ produced \in Nat
        BY <2>2 DEF UsbTypes
      <4> QED BY <4>1 DEF Lost
    <3>3. InDanger \in 0..1 /\ Suspending \in 0..1
      BY DEF InDanger, Suspending
    <3>4. Reallocated \in Nat
      BY <2>2 DEF Reallocated, UsbTypes
    <3>5. Lost <= Allowance
      <4> DEFINE l == Lost
      <4> DEFINE d == InDanger
      <4> DEFINE r == Reallocated
      <4> DEFINE s == Suspending
      <4> DEFINE a == Allowance
      <4>1. l \in Int /\ d \in 0..1 /\ r \in Nat /\ s \in 0..1 /\ a \in Int /\ l + d + r + s <= a
        BY <3>1, <3>2, <3>3, <3>4 DEF Cost
      <4> HIDE DEF l, d, r, s, a
      <4>2. l <= a
        BY <4>1
      <4> QED BY <4>2 DEF l, a
    <3> QED BY <2>1, <2>4, <3>5 DEF LossBounded, Allowance
  <2> QED BY <2>3, <2>4
<1> QED BY <1>1, UsbInvariant, PTL
=============================================================================
