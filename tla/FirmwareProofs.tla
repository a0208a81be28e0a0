--------------------------- MODULE FirmwareProofs ---------------------------
(***************************************************************************)
(* Proofs about Firmware, for every set of work units, every set of        *)
(* commands, every report length and any number of nonces per work unit.   *)
(***************************************************************************)
EXTENDS Firmware, TLAPS

-----------------------------------------------------------------------------
(* The handlers, written out *)

LEMMA HandleWorkIs ==
  HandleWork = <<"clear", "low", "high", "clear", "pushWork", "timerSet", "reply">>
<1> DEFINE s == HandleWork
<1>1. s \in Seq(Op) /\ Len(s) = 7
  BY DEF HandleWork, asicReset, asicResetSpi, Op
<1>2. /\ s[1] = "clear" /\ s[2] = "low" /\ s[3] = "high" /\ s[4] = "clear"
      /\ s[5] = "pushWork" /\ s[6] = "timerSet" /\ s[7] = "reply"
  BY DEF HandleWork, asicReset, asicResetSpi
<1> HIDE DEF s
<1>3. s = <<"clear", "low", "high", "clear", "pushWork", "timerSet", "reply">>
  BY <1>1, <1>2
<1> QED BY <1>3 DEF s

LEMMA HandleResetIs ==
  HandleReset = <<"clear", "low", "high", "clear", "giveUp", "reply">>
<1> DEFINE s == HandleReset
<1>1. s \in Seq(Op) /\ Len(s) = 6
  BY DEF HandleReset, asicReset, asicResetSpi, Op
<1>2. /\ s[1] = "clear" /\ s[2] = "low" /\ s[3] = "high" /\ s[4] = "clear"
      /\ s[5] = "giveUp" /\ s[6] = "reply"
  BY DEF HandleReset, asicReset, asicResetSpi
<1> HIDE DEF s
<1>3. s = <<"clear", "low", "high", "clear", "giveUp", "reply">>
  BY <1>1, <1>2
<1> QED BY <1>3 DEF s

LEMMA HandleStopIs == HandleStop = <<"giveUp", "clear", "low", "reply">>
<1> DEFINE s == HandleStop
<1>1. s \in Seq(Op) /\ Len(s) = 4
  BY DEF HandleStop, asicStop, Op
<1>2. s[1] = "giveUp" /\ s[2] = "clear" /\ s[3] = "low" /\ s[4] = "reply"
  BY DEF HandleStop, asicStop
<1> HIDE DEF s
<1>3. s = <<"giveUp", "clear", "low", "reply">>
  BY <1>1, <1>2
<1> QED BY <1>3 DEF s

LEMMA ServiceReportIs ==
  ServiceReport = <<"getNonce", "timerStop", "clear", "low", "clear", "rearm",
                    "publish", "reply">>
<1> DEFINE s == ServiceReport
<1>1. s \in Seq(Op) /\ Len(s) = 8
  BY DEF ServiceReport, asicStop, asicResetSpi, Op
<1>2. /\ s[1] = "getNonce" /\ s[2] = "timerStop" /\ s[3] = "clear" /\ s[4] = "low"
      /\ s[5] = "clear" /\ s[6] = "rearm" /\ s[7] = "publish" /\ s[8] = "reply"
  BY DEF ServiceReport, asicStop, asicResetSpi
<1> HIDE DEF s
<1>3. s = <<"getNonce", "timerStop", "clear", "low", "clear", "rearm",
            "publish", "reply">>
  BY <1>1, <1>2
<1> QED BY <1>3 DEF s

LEMMA ServiceTimeoutIs ==
  ServiceTimeout = <<"clear", "low", "clear", "expire", "reply">>
<1> DEFINE s == ServiceTimeout
<1>1. s \in Seq(Op) /\ Len(s) = 5
  BY DEF ServiceTimeout, asicStop, asicResetSpi, Op
<1>2. /\ s[1] = "clear" /\ s[2] = "low" /\ s[3] = "clear" /\ s[4] = "expire"
      /\ s[5] = "reply"
  BY DEF ServiceTimeout, asicStop, asicResetSpi
<1> HIDE DEF s
<1>3. s = <<"clear", "low", "clear", "expire", "reply">>
  BY <1>1, <1>2
<1> QED BY <1>3 DEF s

-----------------------------------------------------------------------------
(* The order of operations within a handler *)

\* A handler that executes the first operation executes the second one later.
Leads(s, first, second) ==
  \A i \in DOMAIN s :
    s[i] = first => \E j \in DOMAIN s : i < j /\ s[j] = second

\* The interrupt is enabled at most once, after the report was taken and whenever
\* it was taken; a handler that stops the timer goes on to publish the nonce.
Shape(s) ==
  /\ \A i, j \in DOMAIN s :
       s[i] = "rearm" /\ s[j] \in {"rearm", "getNonce"} => j <= i
  /\ Leads(s, "timerStop", "publish") /\ Leads(s, "getNonce", "rearm")

LEMMA LeadsOfTail ==
  ASSUME NEW s \in Seq(Op), s # <<>>, NEW a, NEW b, Leads(s, a, b)
  PROVE  /\ Leads(Tail(s), a, b)
         /\ Head(s) = a => b \in Range(Tail(s))
<1>1. /\ Head(s) = s[1] /\ DOMAIN s = 1..Len(s) /\ Len(s) \in Nat /\ Len(s) > 0
      /\ DOMAIN Tail(s) = 1..(Len(s) - 1)
      /\ \A i \in DOMAIN Tail(s) : i + 1 \in DOMAIN s /\ Tail(s)[i] = s[i + 1]
  OBVIOUS
<1>2. ASSUME NEW i \in DOMAIN Tail(s), Tail(s)[i] = a
      PROVE  \E j \in DOMAIN Tail(s) : i < j /\ Tail(s)[j] = b
  <2>1. PICK k \in DOMAIN s : i + 1 < k /\ s[k] = b
    BY <1>1, <1>2 DEF Leads
  <2>2. k - 1 \in DOMAIN Tail(s) /\ i < k - 1 /\ Tail(s)[k - 1] = b
    BY <1>1, <2>1
  <2> QED BY <2>2
<1>3. ASSUME Head(s) = a PROVE b \in Range(Tail(s))
  <2>1. PICK j \in DOMAIN s : 1 < j /\ s[j] = b
    BY <1>1, <1>3 DEF Leads
  <2>2. j - 1 \in DOMAIN Tail(s) /\ Tail(s)[j - 1] = b
    BY <1>1, <2>1
  <2> QED BY <2>2 DEF Range
<1> QED BY <1>2, <1>3 DEF Leads

\* Executing an operation keeps the shape of what remains.
LEMMA ShapeOfTail ==
  ASSUME NEW s \in Seq(Op), s # <<>>, Shape(s)
  PROVE  Shape(Tail(s))
<1>1. /\ Tail(s) \in Seq(Op) /\ DOMAIN s = 1..Len(s)
      /\ DOMAIN Tail(s) = 1..(Len(s) - 1) /\ Len(s) \in Nat
      /\ \A i \in DOMAIN Tail(s) : i + 1 \in DOMAIN s /\ Tail(s)[i] = s[i + 1]
  OBVIOUS
<1>2. Leads(Tail(s), "timerStop", "publish") /\ Leads(Tail(s), "getNonce", "rearm")
  BY LeadsOfTail DEF Shape
<1>3. ASSUME NEW i \in DOMAIN Tail(s), NEW j \in DOMAIN Tail(s),
             Tail(s)[i] = "rearm", Tail(s)[j] \in {"rearm", "getNonce"}
      PROVE  j <= i
  BY <1>1, <1>3 DEF Shape
<1> QED BY <1>2, <1>3 DEF Shape

\* What remains, and what has been executed.
LEMMA OpsOfTail ==
  ASSUME NEW s \in Seq(Op), s # <<>>
  PROVE  /\ Tail(s) \in Seq(Op) /\ Head(s) \in Op
         /\ Range(s) = {Head(s)} \cup Range(Tail(s))
<1>1. /\ Tail(s) \in Seq(Op) /\ Head(s) \in Op /\ Head(s) = s[1]
      /\ DOMAIN s = 1..Len(s) /\ DOMAIN Tail(s) = 1..(Len(s) - 1)
      /\ Len(s) \in Nat /\ Len(s) > 0
      /\ \A i \in DOMAIN Tail(s) : Tail(s)[i] = s[i + 1]
  OBVIOUS
<1>2. ASSUME NEW i \in DOMAIN s PROVE s[i] \in {Head(s)} \cup Range(Tail(s))
  <2>1. CASE i = 1
    BY <1>1, <2>1
  <2>2. CASE i # 1
    <3>1. i - 1 \in DOMAIN Tail(s) /\ Tail(s)[i - 1] = s[i]
      BY <1>1, <2>2
    <3> QED BY <3>1 DEF Range
  <2> QED BY <2>1, <2>2
<1>3. ASSUME NEW i \in DOMAIN Tail(s) PROVE Tail(s)[i] \in Range(s)
  <2>1. i + 1 \in DOMAIN s /\ Tail(s)[i] = s[i + 1]
    BY <1>1
  <2> QED BY <2>1 DEF Range
<1>4. Head(s) \in Range(s)
  BY <1>1 DEF Range
<1> QED BY <1>1, <1>2, <1>3, <1>4 DEF Range

\* Once the interrupt is about to be enabled, the report has been taken and no
\* second enabling follows.
LEMMA RearmIsLast ==
  ASSUME NEW s \in Seq(Op), s # <<>>, Shape(s), Head(s) = "rearm"
  PROVE  "rearm" \notin Range(Tail(s)) /\ "getNonce" \notin Range(s)
<1>1. /\ Head(s) = s[1] /\ DOMAIN s = 1..Len(s) /\ Len(s) \in Nat /\ Len(s) > 0
      /\ DOMAIN Tail(s) = 1..(Len(s) - 1)
      /\ \A i \in DOMAIN Tail(s) : i + 1 \in DOMAIN s /\ Tail(s)[i] = s[i + 1]
  OBVIOUS
<1>2. \A j \in DOMAIN s : s[j] \in {"rearm", "getNonce"} => j = 1
  BY <1>1 DEF Shape
<1> QED BY <1>1, <1>2 DEF Range

\* The handlers a poll of the main loop can start.
LEMMA Handlers ==
  /\ \A s \in {HandleWork, HandleReset, HandleStop, ServiceReport, ServiceTimeout,
               <<"reply">>, <<>>} : s \in Seq(Op) /\ Shape(s)
  /\ \A s \in {HandleWork, HandleReset, HandleStop, ServiceTimeout, <<"reply">>, <<>>} :
       "rearm" \notin Range(s)
  /\ {"low", "timerSet"} \subseteq Range(HandleWork)
  /\ "getNonce" \in Range(ServiceReport)
  /\ "expire" \in Range(ServiceTimeout)
<1>1. HandleWork \in Seq(Op) /\ Shape(HandleWork)
  BY HandleWorkIs DEF Op, Shape, Leads
<1>2. HandleReset \in Seq(Op) /\ Shape(HandleReset)
  BY HandleResetIs DEF Op, Shape, Leads
<1>3. HandleStop \in Seq(Op) /\ Shape(HandleStop)
  BY HandleStopIs DEF Op, Shape, Leads
<1>4. ServiceReport \in Seq(Op) /\ Shape(ServiceReport)
  <2>1. ServiceReport \in Seq(Op)
    BY ServiceReportIs DEF Op
  <2>2. /\ DOMAIN ServiceReport = 1..8
        /\ \A i \in 1..8 : /\ ServiceReport[i] = "rearm" => i = 6
                           /\ ServiceReport[i] = "getNonce" => i = 1
                           /\ ServiceReport[i] = "timerStop" => i = 2
        /\ ServiceReport[7] = "publish" /\ ServiceReport[6] = "rearm"
    BY ServiceReportIs
  <2> HIDE DEF ServiceReport
  <2> QED BY <2>1, <2>2 DEF Shape, Leads
<1>5. ServiceTimeout \in Seq(Op) /\ Shape(ServiceTimeout)
  BY ServiceTimeoutIs DEF Op, Shape, Leads
<1>6. /\ <<"reply">> \in Seq(Op) /\ Shape(<<"reply">>)
      /\ <<>> \in Seq(Op) /\ Shape(<<>>)
  BY DEF Op, Shape, Leads
<1>7. /\ "rearm" \notin Range(HandleWork) /\ {"low", "timerSet"} \subseteq Range(HandleWork)
  <2>1. /\ DOMAIN HandleWork = 1..7
        /\ \A i \in 1..7 : HandleWork[i] # "rearm"
        /\ HandleWork[2] = "low" /\ HandleWork[6] = "timerSet"
    BY HandleWorkIs
  <2> QED BY <2>1 DEF Range
<1>8. "rearm" \notin Range(HandleReset)
  BY HandleResetIs DEF Range
<1>9. "rearm" \notin Range(HandleStop)
  BY HandleStopIs DEF Range
<1>10. "getNonce" \in Range(ServiceReport)
  <2>1. 1 \in DOMAIN ServiceReport /\ ServiceReport[1] = "getNonce"
    BY ServiceReportIs
  <2> QED BY <2>1 DEF Range
<1>11. "rearm" \notin Range(ServiceTimeout) /\ "expire" \in Range(ServiceTimeout)
  <2>1. /\ DOMAIN ServiceTimeout = 1..5
        /\ \A i \in 1..5 : ServiceTimeout[i] # "rearm"
        /\ ServiceTimeout[4] = "expire"
    BY ServiceTimeoutIs
  <2> QED BY <2>1 DEF Range
<1>12. "rearm" \notin Range(<<"reply">>) /\ "rearm" \notin Range(<<>>)
  BY DEF Range
<1> QED BY <1>1, <1>2, <1>3, <1>4, <1>5, <1>6, <1>7, <1>8, <1>9, <1>10, <1>11, <1>12

-----------------------------------------------------------------------------
(* Types *)

LEMMA ReversedType ==
  ASSUME NEW S, NEW s \in Seq(S)
  PROVE  nonce_reversed(s) \in Seq(S)
<1>1. \A i \in 1..Len(s) : (Len(s) - i) + 1 \in 1..Len(s)
  OBVIOUS
<1>2. \A i \in 1..Len(s) : s[(Len(s) - i) + 1] \in S
  BY <1>1
<1> QED BY <1>2 DEF nonce_reversed

LEMMA NonceType ==
  ASSUME NEW w \in Work, NEW k \in 1..MaxNonces
  PROVE  Nonce(w, k) \in Seq(Byte)
<1>1. \A i \in 1..ReportBytes : <<w, k, i>> \in Byte
  BY DEF Byte
<1> QED BY <1>1, BytesAssumption DEF Nonce

LEMMA Empty == <<>> \in Seq(Byte) /\ <<>> \in Seq(Op) /\ Len(<<>>) = 0
OBVIOUS

LEMMA TypeInit == Init => TypeOK
<1> SUFFICES ASSUME Init PROVE TypeOK
  OBVIOUS
<1>1. [state |-> "R", nonce_valid |-> FALSE, nonce |-> <<>>] \in StateRec
  BY Empty DEF StateRec
<1>2. found \in 0..MaxNonces /\ reports \in 0..2
  BY NoncesAssumption DEF Init
<1>3. spi \in Seq(Byte) /\ Len(spi) <= 1
  BY Empty DEF Init
<1> QED BY <1>1, <1>2, <1>3, Empty, Zenon DEF Init, TypeOK

\* No step of the program, the interrupt or the chip leaves the types.
LEMMA TypeNext == TypeOK /\ [Next]_vars => TypeOK'
<1> SUFFICES ASSUME TypeOK, [Next]_vars PROVE TypeOK'
  OBVIOUS
<1> USE DEF TypeOK, mainVars, spiVars, asicVars, outVars
<1>1. CASE NoCommand
  BY <1>1 DEF NoCommand
<1>2. ASSUME NEW w \in Work, RecvWork(w) PROVE TypeOK'
  BY <1>2, Handlers DEF RecvWork, StateRec
<1>3. CASE RecvReset
  BY <1>3, Handlers DEF RecvReset
<1>4. CASE RecvStop
  BY <1>4, Handlers DEF RecvStop
<1>5. CASE RecvStatus
  BY <1>5, Handlers DEF RecvStatus
<1>6. CASE PollReport
  BY <1>6, Handlers DEF PollReport
<1>7. CASE PollTimer
  BY <1>7, Handlers DEF PollTimer
<1>8. ASSUME NEW op \in Op, Executes(op) PROVE todo' \in Seq(Op)
  BY <1>8, OpsOfTail DEF Executes
<1>9. CASE Clear
  <2>1. todo' \in Seq(Op)
    BY <1>8, <1>9 DEF Clear, Op
  <2> QED BY <1>9, <2>1, ZenonT(30) DEF Clear, Executes
<1>10. CASE Low
  <2>1. shift # <<>> => <<Head(shift)>> \in Seq(Byte) /\ Len(<<Head(shift)>>) = 1
    OBVIOUS
  <2>2. spi' \in Seq(Byte) /\ Len(spi') <= 1
    <3>1. CASE UNCHANGED spi
      BY <3>1
    <3>2. CASE shift # <<>> /\ spi' = <<Head(shift)>>
      BY <2>1, <3>2
    <3> QED BY <1>10, <3>1, <3>2 DEF Low
  <2>3. found' \in 0..MaxNonces
    BY <1>10, NoncesAssumption DEF Low
  <2>4. todo' \in Seq(Op)
    BY <1>8, <1>10 DEF Low, Op
  <2> QED BY <1>10, <2>2, <2>3, <2>4, Empty DEF Low, Executes
<1>11. CASE High
  <2>1. todo' \in Seq(Op)
    BY <1>8, <1>11 DEF High, Op
  <2> QED BY <1>11, <2>1, ZenonT(30) DEF High, Executes
<1>12. CASE PushWork
  <2>1. todo' \in Seq(Op)
    BY <1>8, <1>12 DEF PushWork, Op
  <2> QED BY <1>12, <2>1 DEF PushWork, Executes
<1>13. CASE TimerSet
  <2>1. todo' \in Seq(Op)
    BY <1>8, <1>13 DEF TimerSet, Op
  <2> QED BY <1>13, <2>1 DEF TimerSet, Executes
<1>14. CASE TimerStop
  <2>1. todo' \in Seq(Op)
    BY <1>8, <1>14 DEF TimerStop, Op
  <2> QED BY <1>14, <2>1 DEF TimerStop, Executes
<1>15. CASE GetNonce
  <2>1. todo' \in Seq(Op)
    BY <1>8, <1>15 DEF GetNonce, Op
  <2> QED BY <1>15, <2>1, ZenonT(30) DEF GetNonce, Executes
<1>16. CASE Rearm
  <2>1. todo' \in Seq(Op)
    BY <1>8, <1>16 DEF Rearm, Op
  <2> QED BY <1>16, <2>1 DEF Rearm, Executes
<1>17. CASE Publish
  <2>1. nonce_reversed(nonce) \in Seq(Byte)
    BY ReversedType
  <2> QED BY <1>8, <1>17, <2>1 DEF Publish, Executes, Op, StateRec, More
<1>18. CASE Expire
  BY <1>8, <1>18 DEF Expire, Executes, Op, StateRec, More
<1>19. CASE SendCmdReply
  <2>1. todo' \in Seq(Op)
    BY <1>8, <1>19 DEF SendCmdReply, Op
  <2> QED BY <1>19, <2>1 DEF SendCmdReply, Executes
<1>27. CASE GiveUp
  <2>1. [state EXCEPT !.state = "R"] \in StateRec
    BY Zenon DEF StateRec
  <2> QED BY <1>8, <1>27, <2>1 DEF GiveUp, Executes, Op
<1>20. CASE IsrEnter
  <2>1. spi' \in Seq(Byte) /\ Len(spi') <= 1
    BY <1>20, Empty DEF IsrEnter
  <2> QED BY <1>20, <2>1, Zenon DEF IsrEnter
<1>21. CASE IsrByte
  <2>1. spi' \in Seq(Byte) /\ Len(spi') <= 1
    BY <1>21, Empty DEF IsrByte
  <2>2. report_ \o spi \in Seq(Byte)
    OBVIOUS
  <2> QED BY <1>21, <2>1, <2>2, ZenonT(30) DEF IsrByte
<1>22. CASE IsrTimeout
  BY <1>22 DEF IsrTimeout
<1>23. CASE AsicFind
  <2>1. job \in Work /\ found + 1 \in 1..MaxNonces
    BY <1>23, NoncesAssumption DEF AsicFind
  <2> QED BY <1>23, <2>1, NonceType DEF AsicFind
<1>24. CASE AsicShift
  BY <1>24 DEF AsicShift
<1>25. CASE TimerDue
  BY <1>25 DEF TimerDue
<1>26. CASE UNCHANGED vars
  BY <1>26 DEF vars
<1> QED
  BY <1>1, <1>2, <1>3, <1>4, <1>5, <1>6, <1>7, <1>9, <1>10, <1>11, <1>12, <1>13,
     <1>14, <1>15, <1>16, <1>17, <1>18, <1>19, <1>20, <1>21, <1>22, <1>23, <1>24,
     <1>25, <1>26, <1>27, ZenonT(30)
  DEF Next, MainLoop, SerialProcess, Operation, Interrupt

\* Type correctness of the firmware.
THEOREM FirmwareTypes == Spec => []TypeOK
BY TypeInit, TypeNext, PTL DEF Spec

-----------------------------------------------------------------------------
(* Safety *)

\* Reading a report, the interrupt is disabled.
IsrDisarms == isr = "reading" => ~spie

\* Between asicGetNonce and SPCR |= SPIE no new report can have appeared.
ReportTaken ==
  "rearm" \in Range(todo) /\ "getNonce" \notin Range(todo) => ~report_valid_

\* The inductive invariant: the properties, what remains of a handler, and the
\* two facts that connect the interrupt with the handler of its report.
FirmwareInv ==
  /\ TypeOK /\ Shape(todo)
  /\ IsrDisarms /\ ReportTaken /\ ReportStable
  /\ WorkHasDeadline /\ AsicWorksOnTask

LEMMA InvInit == Init => FirmwareInv
<1> SUFFICES ASSUME Init PROVE FirmwareInv
  OBVIOUS
<1>1. todo = <<>> /\ Range(todo) = {} /\ Shape(todo)
  BY Handlers DEF Init, Range
<1> QED
  BY <1>1, TypeInit DEF Init, FirmwareInv, IsrDisarms, ReportTaken, ReportStable,
     WorkHasDeadline, AsicWorksOnTask

\* Polls of the main loop: a handler is started.
LEMMA InvPolls ==
  ASSUME FirmwareInv, TypeOK', SerialProcess \/ PollReport \/ PollTimer
  PROVE  FirmwareInv'
<1> USE DEF FirmwareInv, mainVars, spiVars, asicVars, outVars, Polls, MainRuns
<1>0. todo = <<>> => Range(todo) = {}
  BY DEF Range
<1>1. CASE NoCommand
  BY <1>1 DEF NoCommand, IsrDisarms, ReportTaken, ReportStable, WorkHasDeadline,
              AsicWorksOnTask
<1>2. ASSUME NEW w \in Work, RecvWork(w) PROVE FirmwareInv'
  BY <1>0, <1>2, Handlers DEF RecvWork, IsrDisarms, ReportTaken, ReportStable,
     WorkHasDeadline, AsicWorksOnTask
<1>3. CASE RecvReset
  BY <1>0, <1>3, Handlers DEF RecvReset, IsrDisarms, ReportTaken, ReportStable,
     WorkHasDeadline, AsicWorksOnTask
<1>4. CASE RecvStop
  BY <1>0, <1>4, Handlers DEF RecvStop, IsrDisarms, ReportTaken, ReportStable,
     WorkHasDeadline, AsicWorksOnTask
<1>5. CASE RecvStatus
  BY <1>0, <1>5, Handlers DEF RecvStatus, IsrDisarms, ReportTaken, ReportStable,
     WorkHasDeadline, AsicWorksOnTask
<1>6. CASE PollReport
  BY <1>0, <1>6, Handlers DEF PollReport, IsrDisarms, ReportTaken, ReportStable,
     WorkHasDeadline, AsicWorksOnTask
<1>7. CASE PollTimer
  BY <1>0, <1>7, Handlers, SMTT(30) DEF PollTimer, IsrDisarms, ReportTaken, ReportStable,
     WorkHasDeadline, AsicWorksOnTask
<1> QED BY <1>1, <1>2, <1>3, <1>4, <1>5, <1>6, <1>7 DEF SerialProcess

\* One operation of the running handler.
LEMMA InvOperation ==
  ASSUME FirmwareInv, TypeOK', Operation
  PROVE  FirmwareInv'
<1> USE DEF FirmwareInv, spiVars, asicVars, outVars
<1>0. PICK op \in Op : Executes(op)
  BY DEF Operation, Clear, Low, High, PushWork, TimerSet, TimerStop, GetNonce,
     Rearm, Publish, Expire, GiveUp, SendCmdReply, Op
<1>1. /\ isr = "idle" /\ todo # <<>> /\ todo \in Seq(Op) /\ todo' = Tail(todo)
      /\ Head(todo) = op /\ worktask' = worktask
  BY <1>0 DEF Executes, MainRuns, TypeOK
<1>2. Range(todo) = {op} \cup Range(todo') /\ Shape(todo')
  BY <1>1, OpsOfTail, ShapeOfTail
<1>3. op = "rearm" => "rearm" \notin Range(todo') /\ "getNonce" \notin Range(todo)
  BY <1>1, RearmIsLast
<1>4. op = "timerStop" => "publish" \in Range(todo')
  BY <1>1, LeadsOfTail DEF Shape
<1> USE DEF IsrDisarms, ReportTaken, ReportStable, WorkHasDeadline, AsicWorksOnTask,
            Executes
<1>5. CASE Clear
  BY <1>1, <1>2, <1>5 DEF Clear
<1>6. CASE Low
  BY <1>1, <1>2, <1>6 DEF Low
<1>7. CASE High
  BY <1>1, <1>2, <1>7 DEF High
<1>8. CASE PushWork
  BY <1>1, <1>2, <1>8 DEF PushWork
<1>9. CASE TimerSet
  BY <1>1, <1>2, <1>9 DEF TimerSet
<1>10. CASE TimerStop
  BY <1>1, <1>2, <1>4, <1>10 DEF TimerStop
<1>11. CASE GetNonce
  BY <1>1, <1>2, <1>11 DEF GetNonce
<1>12. CASE Rearm
  BY <1>1, <1>2, <1>3, <1>12 DEF Rearm
<1>13. CASE Publish
  BY <1>1, <1>2, <1>13 DEF Publish
<1>14. CASE Expire
  BY <1>1, <1>2, <1>14 DEF Expire
<1>15. CASE GiveUp
  BY <1>1, <1>2, <1>15 DEF GiveUp, TypeOK, StateRec
<1>16. CASE SendCmdReply
  BY <1>1, <1>2, <1>16, SMTT(30) DEF SendCmdReply
<1> HIDE DEF FirmwareInv, spiVars, asicVars, outVars, IsrDisarms, ReportTaken, ReportStable,
             WorkHasDeadline, AsicWorksOnTask, Executes
<1> QED BY <1>5, <1>6, <1>7, <1>8, <1>9, <1>10, <1>11, <1>12, <1>13, <1>14, <1>15,
           <1>16
        DEF Operation

\* The interrupt, the chip and the clock.
LEMMA InvOthers ==
  ASSUME FirmwareInv, TypeOK',
         Interrupt \/ AsicFind \/ AsicShift \/ TimerDue \/ UNCHANGED vars
  PROVE  FirmwareInv'
<1> USE DEF FirmwareInv, mainVars, spiVars, asicVars, outVars, IsrDisarms, ReportTaken,
            ReportStable, WorkHasDeadline, AsicWorksOnTask
<1>1. CASE IsrEnter
  BY <1>1 DEF IsrEnter
<1>2. CASE IsrByte
  BY <1>2 DEF IsrByte
<1>3. CASE IsrTimeout
  BY <1>3 DEF IsrTimeout
<1>4. CASE AsicFind
  BY <1>4 DEF AsicFind
<1>5. CASE AsicShift
  BY <1>5 DEF AsicShift
<1>6. CASE TimerDue
  BY <1>6 DEF TimerDue
<1>7. CASE UNCHANGED vars
  BY <1>7 DEF vars
<1> QED BY <1>1, <1>2, <1>3, <1>4, <1>5, <1>6, <1>7 DEF Interrupt

LEMMA InvNext == FirmwareInv /\ [Next]_vars => FirmwareInv'
<1> SUFFICES ASSUME FirmwareInv, [Next]_vars PROVE FirmwareInv'
  OBVIOUS
<1>1. TypeOK'
  BY TypeNext DEF FirmwareInv
<1> QED BY <1>1, InvPolls, InvOperation, InvOthers DEF Next, MainLoop

LEMMA FirmwareInvariant == Spec => []FirmwareInv
BY InvInit, InvNext, PTL DEF Spec

\* A valid report, and one appService is taking, is never overwritten by the
\* interrupt: report_ needs no lock (avalon.c:24-49, application.c:159-171).
THEOREM ReportIsStable == Spec => []ReportStable
<1>1. FirmwareInv => ReportStable
  BY DEF FirmwareInv
<1> QED BY <1>1, FirmwareInvariant, PTL

\* Work in progress is always bounded by the work timer (application.c:123-130).
THEOREM WorkIsBounded == Spec => []WorkHasDeadline
<1>1. FirmwareInv => WorkHasDeadline
  BY DEF FirmwareInv
<1> QED BY <1>1, FirmwareInvariant, PTL

\* The chip hashes app->worktask or nothing (application.c:104-134).
THEOREM ChipWorksOnTask == Spec => []AsicWorksOnTask
<1>1. FirmwareInv => AsicWorksOnTask
  BY DEF FirmwareInv
<1> QED BY <1>1, FirmwareInvariant, PTL

-----------------------------------------------------------------------------
(* The report interrupt, once lost *)

\* The operations of the main loop that follow from Executes.
LEMMA OperationSteps ==
  ASSUME TypeOK, Shape(todo), Operation
  PROVE  /\ todo \in Seq(Op) /\ todo # <<>> /\ todo' = Tail(todo)
         /\ Range(todo) = {Head(todo)} \cup Range(todo')
         /\ Head(todo) = "getNonce" => "rearm" \in Range(todo')
         /\ isr' = isr
         /\ IF Head(todo) = "rearm" THEN spie' = TRUE ELSE spie' = spie
         /\ IF Head(todo) \in {"clear", "getNonce"}
              THEN report_valid_' = FALSE ELSE report_valid_' = report_valid_
<1>1. todo \in Seq(Op) /\ todo # <<>> /\ todo' = Tail(todo)
  BY SMTT(30) DEF TypeOK, Operation, Clear, Low, High, PushWork, TimerSet, TimerStop, GetNonce,
     Rearm, Publish, Expire, GiveUp, SendCmdReply, Executes
<1>2. Range(todo) = {Head(todo)} \cup Range(todo')
  BY <1>1, OpsOfTail
<1>3. /\ isr' = isr
      /\ IF Head(todo) = "rearm" THEN spie' = TRUE ELSE spie' = spie
      /\ IF Head(todo) \in {"clear", "getNonce"}
           THEN report_valid_' = FALSE ELSE report_valid_' = report_valid_
  BY DEF Operation, Clear, Low, High, PushWork, TimerSet, TimerStop, GetNonce,
     Rearm, Publish, Expire, GiveUp, SendCmdReply, Executes, spiVars
<1>4. Head(todo) = "getNonce" => "rearm" \in Range(todo')
  BY <1>1, LeadsOfTail DEF Shape
<1> QED BY <1>1, <1>2, <1>3, <1>4

LEMMA DeafStep == FirmwareInv /\ [Next]_vars /\ Deaf => Deaf'
<1> SUFFICES ASSUME FirmwareInv, [Next]_vars, Deaf PROVE Deaf'
  OBVIOUS
<1> USE DEF Deaf, mainVars, spiVars, asicVars, outVars
<1>1. CASE SerialProcess
  <2>1. spie' = spie /\ report_valid_' = report_valid_ /\ isr' = isr
    BY <1>1 DEF SerialProcess, NoCommand, RecvWork, RecvReset, RecvStop, RecvStatus
  <2>2. \/ todo' = todo
        \/ todo' \in {HandleWork, HandleReset, HandleStop, <<"reply">>}
    BY <1>1 DEF SerialProcess, NoCommand, RecvWork, RecvReset, RecvStop, RecvStatus
  <2>3. "rearm" \notin Range(todo')
    BY <2>2, Handlers, SMTT(30)
  <2> QED BY <2>1, <2>3
<1>2. CASE PollReport
  BY <1>2, Handlers DEF PollReport
<1>3. CASE PollTimer
  BY <1>3, Handlers DEF PollTimer
<1>4. CASE Operation
  BY <1>4, OperationSteps, Zenon DEF FirmwareInv, TypeOK
<1>5. CASE Interrupt
  BY <1>5 DEF Interrupt, IsrEnter, IsrByte, IsrTimeout
<1>6. CASE AsicFind \/ AsicShift \/ TimerDue
  BY <1>6 DEF AsicFind, AsicShift, TimerDue
<1>7. CASE UNCHANGED vars
  BY <1>7 DEF vars
<1> QED BY <1>1, <1>2, <1>3, <1>4, <1>5, <1>6, <1>7 DEF Next, MainLoop

\* No command, timeout or interrupt enables a lost interrupt again: SPCR |= SPIE
\* is reached through a valid report only (application.c:159, 171).
THEOREM LostForGood == Spec => DeafIsPermanent
<1>1. FirmwareInv /\ [Next]_vars => [Deaf => Deaf']_vars
  BY DeafStep
<1> QED BY <1>1, FirmwareInvariant, PTL DEF Spec, DeafIsPermanent

LEMMA DiscardStep ==
  FirmwareInv /\ [Next]_vars /\ ~Deaf /\ Deaf'
    => report_valid_ /\ Head(todo) = "clear"
<1> SUFFICES ASSUME FirmwareInv, [Next]_vars, ~Deaf, Deaf'
             PROVE  report_valid_ /\ Head(todo) = "clear"
  OBVIOUS
<1> USE DEF Deaf, mainVars, spiVars, asicVars, outVars
<1>0. todo = <<>> => Range(todo) = {}
  BY DEF Range
<1> DEFINE Starts == todo = <<>> /\ spie' = spie /\ report_valid_' = report_valid_ /\ isr' = isr
<1>1. CASE SerialProcess
  <2>1. Starts
    BY <1>1 DEF SerialProcess, NoCommand, RecvWork, RecvReset, RecvStop, RecvStatus, Polls
  <2> QED BY <1>0, <2>1
<1>2. CASE PollReport
  <2>1. Starts
    BY <1>2 DEF PollReport, Polls
  <2> QED BY <1>0, <2>1
<1>3. CASE PollTimer
  <2>1. Starts
    BY <1>3 DEF PollTimer, Polls
  <2> QED BY <1>0, <2>1
<1>4. CASE Operation
  BY <1>4, OperationSteps, Zenon DEF FirmwareInv, TypeOK
<1>5. CASE Interrupt
  BY <1>5 DEF Interrupt, IsrEnter, IsrByte, IsrTimeout
<1>6. CASE AsicFind \/ AsicShift \/ TimerDue
  BY <1>6 DEF AsicFind, AsicShift, TimerDue
<1>7. CASE UNCHANGED vars
  BY <1>7 DEF vars
<1> QED BY <1>1, <1>2, <1>3, <1>4, <1>5, <1>6, <1>7 DEF Next, MainLoop

\* The only way to lose the interrupt is to discard a waiting report: a command
\* or the timeout is handled after SPI_STC_vect has run and before appService
\* looks at report_valid_ (avalon.c:26, 90-91, 102-103, 111-112).
THEOREM LostByDiscard == Spec => DeafOnlyByDiscard
<1>1. FirmwareInv /\ [Next]_vars
        => [~Deaf /\ Deaf' => report_valid_ /\ Head(todo) = "clear"]_vars
  BY DiscardStep
<1> QED BY <1>1, FirmwareInvariant, PTL DEF Spec, DeafOnlyByDiscard
=============================================================================
