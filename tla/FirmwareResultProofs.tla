------------------------ MODULE FirmwareResultProofs ------------------------
(***************************************************************************)
(* Proofs about the results the firmware gives its host, for a host that   *)
(* sends 'W', 'R' and 'S' and a chip that reports at most one nonce per    *)
(* work unit.  Both conditions are needed: with a second nonce, or after   *)
(* an 'A', which does not reset the SPI, the fragment of a report may be   *)
(* published.  For every set of work units and every report length.        *)
(***************************************************************************)
EXTENDS FirmwareProofs

\* The two conditions.
DriverHost == MaxNonces = 1 /\ "A" \notin Commands

-----------------------------------------------------------------------------
(* The order of operations within a handler *)

\* After op only operations of S are executed.
After(s, op, S) == \A i, j \in DOMAIN s : i < j /\ s[i] = op => s[j] \in S

\* Whoever resets the chip discards a report afterwards, whoever takes a report
\* publishes it, and nothing but the reply follows the end of a work unit.
Order(s) ==
  /\ Leads(s, "low", "clear") /\ Leads(s, "getNonce", "publish")
  /\ Leads(s, "rearm", "publish") /\ Leads(s, "getNonce", "timerStop")
  /\ After(s, "pushWork", {"timerSet", "reply"}) /\ After(s, "giveUp", {"reply"})
  /\ After(s, "publish", {"reply"}) /\ After(s, "expire", {"reply"})
  /\ After(s, "rearm", {"publish", "reply"})
  /\ "publish" \in Range(s) =>
       Range(s) \cap {"timerSet", "expire", "giveUp", "pushWork"} = {}
  /\ "expire" \in Range(s) => "timerSet" \notin Range(s)

-----------------------------------------------------------------------------
(* The inductive invariant *)

\* The chip works, or is about to, only while the State says WORKING; only a chip
\* with a work unit has found a nonce.
InWork ==
  /\ job # NoWork \/ "pushWork" \in Range(todo) => state.state = "W"
  /\ found # 0 => job # NoWork

\* Behind its asicReset or asicStop, a handler finds the chip without work.
ChipStopped ==
  /\ "low" \notin Range(todo)
  /\ Range(todo) \cap {"clear", "pushWork", "giveUp", "publish", "expire"} # {}
  => job = NoWork /\ shift = <<>> /\ found = 0

\* Unless a handler is about to discard it, what is on its way from the chip to
\* appService is one whole report for the work unit of the chip, or nothing.
WholeReport ==
  "clear" \notin Range(todo) =>
    /\ isr = "reading" => found = 1 /\ report_ \o (spi \o shift) = Nonce(job, 1)
    /\ report_valid_ =>
         found = 1 /\ report_ = Nonce(job, 1) /\ spi = <<>> /\ shift = <<>>
    /\ spie /\ isr = "idle" =>
         spi \o shift = IF found = 1 THEN Nonce(job, 1) ELSE <<>>

\* While appService takes a report, the unit is still in work, no further byte
\* can arrive, and the report is in report_ or, once taken, in nonce.
TakesReport ==
  "publish" \in Range(todo) =>
    /\ state.state = "W" /\ isr = "idle" /\ spi = <<>> /\ shift = <<>>
    /\ job = NoWork \/ found = 1
    /\ IF "getNonce" \in Range(todo) THEN report_ = Nonce(worktask, 1)
                                     ELSE nonce = Nonce(worktask, 1)
    /\ "timerStop" \notin Range(todo) => timer = "off"

\* The State holds the nonce of its work unit, or none.
ResultOfTask ==
  state.nonce = IF state.nonce_valid THEN nonce_reversed(Nonce(worktask, 1)) ELSE <<>>

\* A unit in work, and one whose timer runs or has just run off, has no result yet.
NoResultYet ==
  state.state = "W" \/ timer # "off" \/ Range(todo) \cap {"timerSet", "expire"} # {}
  => ~state.nonce_valid /\ reports = 0

\* The timeout branch has stopped the timer.
TimerRanOff == "expire" \in Range(todo) => timer = "off"

ResultInv ==
  /\ FirmwareInv /\ Order(todo) /\ InWork /\ ChipStopped /\ WholeReport
  /\ TakesReport /\ ResultOfTask /\ NoResultYet /\ TimerRanOff
  /\ AtMostOneReport

-----------------------------------------------------------------------------
(* Lemmas about the handlers *)

LEMMA AfterOfTail ==
  ASSUME NEW s \in Seq(Op), s # <<>>, NEW a, NEW S, After(s, a, S)
  PROVE  /\ After(Tail(s), a, S)
         /\ Head(s) = a => Range(Tail(s)) \subseteq S
<1>1. /\ Head(s) = s[1] /\ DOMAIN s = 1..Len(s) /\ Len(s) \in Nat /\ Len(s) > 0
      /\ DOMAIN Tail(s) = 1..(Len(s) - 1)
      /\ \A i \in DOMAIN Tail(s) : i + 1 \in DOMAIN s /\ Tail(s)[i] = s[i + 1]
  OBVIOUS
<1>2. After(Tail(s), a, S)
  <2> SUFFICES ASSUME NEW i \in DOMAIN Tail(s), NEW j \in DOMAIN Tail(s),
                      i < j, Tail(s)[i] = a
               PROVE  Tail(s)[j] \in S
    BY DEF After
  <2> QED BY <1>1 DEF After
<1>3. ASSUME Head(s) = a, NEW j \in DOMAIN Tail(s) PROVE Tail(s)[j] \in S
  BY <1>1, <1>3 DEF After
<1> QED BY <1>2, <1>3 DEF Range

LEMMA OrderOfTail ==
  ASSUME NEW s \in Seq(Op), s # <<>>, Order(s)
  PROVE  Order(Tail(s))
<1>1. Range(Tail(s)) \subseteq Range(s)
  BY OpsOfTail
<1>2. /\ Leads(Tail(s), "low", "clear") /\ Leads(Tail(s), "getNonce", "publish")
      /\ Leads(Tail(s), "rearm", "publish") /\ Leads(Tail(s), "getNonce", "timerStop")
  BY LeadsOfTail DEF Order
<1>3. /\ After(Tail(s), "pushWork", {"timerSet", "reply"})
      /\ After(Tail(s), "giveUp", {"reply"}) /\ After(Tail(s), "publish", {"reply"})
      /\ After(Tail(s), "expire", {"reply"})
      /\ After(Tail(s), "rearm", {"publish", "reply"})
  BY AfterOfTail DEF Order
<1> QED BY <1>1, <1>2, <1>3 DEF Order

\* The operations of each handler.
LEMMA OpsOfHandlers ==
  /\ Range(HandleWork) = {"clear", "low", "high", "pushWork", "timerSet", "reply"}
  /\ Range(HandleReset) = {"clear", "low", "high", "giveUp", "reply"}
  /\ Range(ServiceReport) = {"getNonce", "timerStop", "clear", "low", "rearm",
                             "publish", "reply"}
  /\ Range(ServiceTimeout) = {"clear", "low", "expire", "reply"}
  /\ Range(<<"reply">>) = {"reply"} /\ Range(<<>>) = {}
<1>1. Range(HandleWork) = {"clear", "low", "high", "pushWork", "timerSet", "reply"}
  BY HandleWorkIs DEF Range
<1>2. Range(HandleReset) = {"clear", "low", "high", "giveUp", "reply"}
  BY HandleResetIs DEF Range
<1>3. Range(ServiceReport) = {"getNonce", "timerStop", "clear", "low", "rearm",
                              "publish", "reply"}
  BY ServiceReportIs DEF Range
<1>4. Range(ServiceTimeout) = {"clear", "low", "expire", "reply"}
  BY ServiceTimeoutIs DEF Range
<1>5. Range(<<"reply">>) = {"reply"} /\ Range(<<>>) = {}
  BY DEF Range
<1> QED BY <1>1, <1>2, <1>3, <1>4, <1>5

LEMMA OrderOfHandlers ==
  \A s \in {HandleWork, HandleReset, ServiceReport, ServiceTimeout, <<"reply">>, <<>>} :
    Order(s)
<1>1. Order(HandleWork)
  <2>1. /\ Leads(HandleWork, "low", "clear") /\ Leads(HandleWork, "getNonce", "publish")
        /\ Leads(HandleWork, "rearm", "publish")
        /\ Leads(HandleWork, "getNonce", "timerStop")
    BY HandleWorkIs DEF Leads
  <2>2. /\ After(HandleWork, "pushWork", {"timerSet", "reply"})
        /\ After(HandleWork, "giveUp", {"reply"})
        /\ After(HandleWork, "publish", {"reply"})
        /\ After(HandleWork, "expire", {"reply"})
        /\ After(HandleWork, "rearm", {"publish", "reply"})
    BY HandleWorkIs DEF After
  <2> QED BY <2>1, <2>2, OpsOfHandlers DEF Order
<1>2. Order(HandleReset)
  <2>1. /\ Leads(HandleReset, "low", "clear")
        /\ Leads(HandleReset, "getNonce", "publish")
        /\ Leads(HandleReset, "rearm", "publish")
        /\ Leads(HandleReset, "getNonce", "timerStop")
    BY HandleResetIs DEF Leads
  <2>2. /\ After(HandleReset, "pushWork", {"timerSet", "reply"})
        /\ After(HandleReset, "giveUp", {"reply"})
        /\ After(HandleReset, "publish", {"reply"})
        /\ After(HandleReset, "expire", {"reply"})
        /\ After(HandleReset, "rearm", {"publish", "reply"})
    BY HandleResetIs DEF After
  <2> QED BY <2>1, <2>2, OpsOfHandlers DEF Order
<1>3. Order(ServiceReport)
  <2>0. /\ DOMAIN ServiceReport = 1..8
        /\ \A i \in 1..8 : /\ ServiceReport[i] = "getNonce" => i = 1
                           /\ ServiceReport[i] = "low" => i = 4
                           /\ ServiceReport[i] = "rearm" => i = 6
                           /\ ServiceReport[i] = "publish" => i = 7
        /\ ServiceReport[2] = "timerStop" /\ ServiceReport[5] = "clear"
        /\ ServiceReport[7] = "publish" /\ ServiceReport[8] = "reply"
    BY ServiceReportIs
  <2>1. /\ Leads(ServiceReport, "low", "clear")
        /\ Leads(ServiceReport, "getNonce", "publish")
        /\ Leads(ServiceReport, "rearm", "publish")
        /\ Leads(ServiceReport, "getNonce", "timerStop")
    BY <2>0 DEF Leads
  <2>2. \A i \in 1..8 : ServiceReport[i] \notin {"pushWork", "giveUp", "expire"}
    BY ServiceReportIs
  <2>3. /\ After(ServiceReport, "publish", {"reply"})
        /\ After(ServiceReport, "rearm", {"publish", "reply"})
    BY <2>0 DEF After
  <2>4. /\ After(ServiceReport, "pushWork", {"timerSet", "reply"})
        /\ After(ServiceReport, "giveUp", {"reply"})
        /\ After(ServiceReport, "expire", {"reply"})
    BY <2>0, <2>2 DEF After
  <2> QED BY <2>1, <2>3, <2>4, OpsOfHandlers DEF Order
<1>4. Order(ServiceTimeout)
  <2>1. /\ Leads(ServiceTimeout, "low", "clear")
        /\ Leads(ServiceTimeout, "getNonce", "publish")
        /\ Leads(ServiceTimeout, "rearm", "publish")
        /\ Leads(ServiceTimeout, "getNonce", "timerStop")
    BY ServiceTimeoutIs DEF Leads
  <2>2. /\ After(ServiceTimeout, "pushWork", {"timerSet", "reply"})
        /\ After(ServiceTimeout, "giveUp", {"reply"})
        /\ After(ServiceTimeout, "publish", {"reply"})
        /\ After(ServiceTimeout, "expire", {"reply"})
        /\ After(ServiceTimeout, "rearm", {"publish", "reply"})
    BY ServiceTimeoutIs DEF After
  <2> QED BY <2>1, <2>2, OpsOfHandlers DEF Order
<1>5. Order(<<"reply">>) /\ Order(<<>>)
  BY OpsOfHandlers DEF Order, Leads, After
<1> QED BY <1>1, <1>2, <1>3, <1>4, <1>5

-----------------------------------------------------------------------------
(* Lemmas about the bytes of a report *)

LEMMA EmptyBytes ==
  ASSUME NEW S, NEW s \in Seq(S)
  PROVE  /\ <<>> \in Seq(S) /\ <<>> \o s = s /\ s \o <<>> = s
         /\ s # <<>> => Len(s) > 0
<1>1. <<>> \in Seq(S) /\ Len(<<>>) = 0
  OBVIOUS
<1>2. <<>> \o s \in Seq(S) /\ Len(<<>> \o s) = Len(s) /\ s \o <<>> \in Seq(S)
      /\ Len(s \o <<>>) = Len(s)
  BY <1>1
<1>3. \A i \in 1..Len(s) : (<<>> \o s)[i] = s[i] /\ (s \o <<>>)[i] = s[i]
  BY <1>1
<1> QED BY <1>1, <1>2, <1>3

\* A byte that moves from the chip to the register stays in its place.
LEMMA ShiftOut ==
  ASSUME NEW S, NEW s \in Seq(S), s # <<>>
  PROVE  <<Head(s)>> \o Tail(s) = <<>> \o s
<1>1. <<>> \o s = s
  BY EmptyBytes
<1>2. <<Head(s)>> \in Seq(S) /\ Tail(s) \in Seq(S)
  BY EmptyBytes
<1>3. <<Head(s)>> \o Tail(s) \in Seq(S) /\ Len(<<Head(s)>> \o Tail(s)) = Len(s)
  BY <1>2
<1>4. \A i \in 1..Len(s) : (<<Head(s)>> \o Tail(s))[i] = s[i]
  BY <1>2
<1>5. <<Head(s)>> \o Tail(s) = s
  BY <1>3, <1>4
<1> QED BY <1>1, <1>5

\* So does one that moves from the register to the memory.
LEMMA ReadIn ==
  ASSUME NEW S, NEW a \in Seq(S), NEW b \in Seq(S), NEW c \in Seq(S)
  PROVE  (a \o b) \o (<<>> \o c) = a \o (b \o c)
<1>1. <<>> \o c = c
  BY EmptyBytes
<1>2. a \o b \in Seq(S) /\ b \o c \in Seq(S) /\ Len(a \o b) = Len(a) + Len(b)
      /\ Len(b \o c) = Len(b) + Len(c)
  OBVIOUS
<1>3. /\ (a \o b) \o c \in Seq(S) /\ a \o (b \o c) \in Seq(S)
      /\ Len((a \o b) \o c) = Len(a) + Len(b) + Len(c)
      /\ Len(a \o (b \o c)) = Len(a) + Len(b) + Len(c)
  BY <1>2
<1>4. ASSUME NEW i \in 1..(Len(a) + Len(b) + Len(c))
      PROVE  ((a \o b) \o c)[i] = (a \o (b \o c))[i]
  <2>1. CASE i <= Len(a)
    BY <1>2, <2>1
  <2>2. CASE i > Len(a) /\ i <= Len(a) + Len(b)
    BY <1>2, <2>2
  <2>3. CASE i > Len(a) + Len(b)
    BY <1>2, <2>3
  <2> QED BY <2>1, <2>2, <2>3
<1>5. (a \o b) \o c = a \o (b \o c)
  BY <1>3, <1>4, SMTT(30)
<1> QED BY <1>1, <1>5

LEMMA NotEmpty ==
  ASSUME NEW S, NEW a \in Seq(S), NEW b \in Seq(S), a \o b = <<>>
  PROVE  a = <<>>
<1>1. Len(a \o b) = Len(a) + Len(b)
  OBVIOUS
<1>2. Len(a \o b) = 0
  OBVIOUS
<1> QED BY <1>1, <1>2

\* A report is complete when it has ReportBytes bytes.
LEMMA Complete ==
  ASSUME NEW S, NEW a \in Seq(S), NEW b \in Seq(S), NEW c \in Seq(S), Len(b) = 1,
         Len(a \o (b \o c)) = Len(a) + 1
  PROVE  a \o b = a \o (b \o c) /\ c = <<>>
<1>1. b \o c \in Seq(S) /\ Len(b \o c) = Len(b) + Len(c)
  OBVIOUS
<1>2. Len(a \o (b \o c)) = Len(a) + Len(b \o c)
  BY <1>1
<1>3. Len(c) = 0
  BY <1>1, <1>2
<1>4. c = <<>>
  BY <1>3
<1>5. b \o c = b
  BY <1>4, EmptyBytes
<1> QED BY <1>4, <1>5

LEMMA NonceLength ==
  ASSUME NEW w \in Work, DriverHost
  PROVE  Nonce(w, 1) \in Seq(Byte) /\ Len(Nonce(w, 1)) = ReportBytes /\ Nonce(w, 1) # <<>>
<1>1. Nonce(w, 1) \in Seq(Byte)
  BY NonceType DEF DriverHost
<1>2. Len(Nonce(w, 1)) = ReportBytes
  BY BytesAssumption DEF Nonce
<1> QED BY <1>1, <1>2, BytesAssumption

-----------------------------------------------------------------------------
(* The invariant is inductive *)

LEMMA ResultInit == Init => ResultInv
<1> SUFFICES ASSUME Init PROVE ResultInv
  OBVIOUS
<1>1. FirmwareInv
  BY InvInit
<1>2. Range(todo) = {} /\ Order(todo)
  BY OpsOfHandlers, OrderOfHandlers DEF Init
<1>3. spi \o shift = <<>>
  BY EmptyBytes DEF Init
<1>4. InWork /\ ChipStopped /\ WholeReport /\ TakesReport
  BY <1>2, <1>3 DEF Init, InWork, ChipStopped, WholeReport, TakesReport
<1>5. ResultOfTask /\ NoResultYet /\ TimerRanOff /\ AtMostOneReport
  BY <1>2 DEF Init, ResultOfTask, NoResultYet, TimerRanOff, AtMostOneReport
<1> QED BY <1>1, <1>2, <1>4, <1>5 DEF ResultInv

\* Polls of the main loop: a handler is started.
LEMMA ResultPolls ==
  ASSUME DriverHost, ResultInv, FirmwareInv', SerialProcess \/ PollReport \/ PollTimer
  PROVE  ResultInv'
<1> USE DEF mainVars, spiVars, asicVars, outVars, Polls
<1>0. Range(todo) = {} /\ Order(todo)
  BY OpsOfHandlers DEF ResultInv, SerialProcess, PollReport, PollTimer, NoCommand,
     RecvWork, RecvReset, RecvStop, RecvStatus
<1>1. CASE NoCommand
  BY <1>1 DEF NoCommand, ResultInv, InWork, ChipStopped, WholeReport, TakesReport,
     ResultOfTask, NoResultYet, TimerRanOff, AtMostOneReport
<1>2. ASSUME NEW w \in Work, RecvWork(w) PROVE ResultInv'
  <2>1. Order(todo') /\ "clear" \in Range(todo') /\ "low" \in Range(todo')
        /\ "publish" \notin Range(todo') /\ "expire" \notin Range(todo')
    BY <1>2, OpsOfHandlers, OrderOfHandlers DEF RecvWork
  <2>8. InWork' /\ ChipStopped' /\ WholeReport' /\ TakesReport'
    BY <1>2, <2>1
    DEF RecvWork, ResultInv, InWork, ChipStopped, WholeReport, TakesReport
  <2>9. ResultOfTask' /\ NoResultYet' /\ TimerRanOff' /\ AtMostOneReport'
    BY <1>2, <2>1
    DEF RecvWork, ResultInv, ResultOfTask, NoResultYet, TimerRanOff, AtMostOneReport
  <2> QED BY <2>8, <2>9, <2>1 DEF ResultInv
<1>3. CASE RecvReset
  <2>1. Order(todo') /\ "clear" \in Range(todo') /\ "low" \in Range(todo')
        /\ Range(todo') \cap {"publish", "timerSet", "expire", "pushWork"} = {}
    BY <1>3, OpsOfHandlers, OrderOfHandlers DEF RecvReset
  <2>8. InWork' /\ ChipStopped' /\ WholeReport' /\ TakesReport'
    BY <1>3, <2>1
    DEF RecvReset, ResultInv, InWork, ChipStopped, WholeReport, TakesReport
  <2>9. ResultOfTask' /\ NoResultYet' /\ TimerRanOff' /\ AtMostOneReport'
    BY <1>3, <2>1
    DEF RecvReset, ResultInv, ResultOfTask, NoResultYet, TimerRanOff, AtMostOneReport
  <2> QED BY <2>8, <2>9, <2>1 DEF ResultInv
<1>4. CASE RecvStop
  BY <1>4 DEF RecvStop, DriverHost
<1>5. CASE RecvStatus
  <2>1. Order(todo') /\ Range(todo') = {"reply"}
    BY <1>5, OpsOfHandlers, OrderOfHandlers DEF RecvStatus
  <2>8. InWork' /\ ChipStopped' /\ WholeReport' /\ TakesReport'
    BY <1>0, <1>5, <2>1
    DEF RecvStatus, ResultInv, InWork, ChipStopped, WholeReport, TakesReport
  <2>9. ResultOfTask' /\ NoResultYet' /\ TimerRanOff' /\ AtMostOneReport'
    BY <1>0, <1>5, <2>1
    DEF RecvStatus, ResultInv, ResultOfTask, NoResultYet, TimerRanOff, AtMostOneReport
  <2> QED BY <2>8, <2>9, <2>1 DEF ResultInv
<1>6. CASE PollReport
  <2>1. CASE report_valid_
    <3>1. /\ Order(todo') /\ Range(todo') \cap {"timerSet", "expire", "pushWork"} = {}
          /\ {"getNonce", "timerStop", "clear", "low", "publish"} \subseteq Range(todo')
      BY <1>6, <2>1, OpsOfHandlers, OrderOfHandlers DEF PollReport
    <3>2. /\ isr = "idle" /\ found = 1 /\ report_ = Nonce(job, 1) /\ spi = <<>>
          /\ shift = <<>> /\ job = worktask /\ state.state = "W"
      BY <1>0, <2>1 DEF ResultInv, FirmwareInv, ReportStable, WholeReport, InWork,
         AsicWorksOnTask
    <3>8. InWork' /\ ChipStopped' /\ WholeReport' /\ TakesReport'
      BY <1>6, <3>1, <3>2
      DEF PollReport, ResultInv, InWork, ChipStopped, WholeReport, TakesReport
    <3>9. ResultOfTask' /\ NoResultYet' /\ TimerRanOff' /\ AtMostOneReport'
      BY <1>6, <3>1, <3>2
      DEF PollReport, ResultInv, ResultOfTask, NoResultYet, TimerRanOff, AtMostOneReport
    <3> QED BY <3>8, <3>9, <3>1 DEF ResultInv
  <2>2. CASE ~report_valid_
    <3>1. Order(todo') /\ Range(todo') = {}
      BY <1>6, <2>2, OpsOfHandlers, OrderOfHandlers DEF PollReport
    <3>8. InWork' /\ ChipStopped' /\ WholeReport' /\ TakesReport'
      BY <1>0, <1>6, <2>2, <3>1
      DEF PollReport, ResultInv, InWork, ChipStopped, WholeReport, TakesReport
    <3>9. ResultOfTask' /\ NoResultYet' /\ TimerRanOff' /\ AtMostOneReport'
      BY <1>0, <1>6, <2>2, <3>1
      DEF PollReport, ResultInv, ResultOfTask, NoResultYet, TimerRanOff, AtMostOneReport
    <3> QED BY <3>8, <3>9, <3>1 DEF ResultInv
  <2> QED BY <2>1, <2>2
<1>7. CASE PollTimer
  <2>1. CASE timer = "due"
    <3>1. /\ Order(todo') /\ Range(todo') \cap {"publish", "pushWork"} = {}
          /\ {"clear", "low"} \subseteq Range(todo')
      BY <1>7, <2>1, OpsOfHandlers, OrderOfHandlers DEF PollTimer
    <3>8. InWork' /\ ChipStopped' /\ WholeReport' /\ TakesReport'
      BY <1>7, <2>1, <3>1
      DEF PollTimer, ResultInv, InWork, ChipStopped, WholeReport, TakesReport
    <3>9. ResultOfTask' /\ NoResultYet' /\ TimerRanOff' /\ AtMostOneReport'
      BY <1>7, <2>1, <3>1
      DEF PollTimer, ResultInv, ResultOfTask, NoResultYet, TimerRanOff, AtMostOneReport
    <3> QED BY <3>8, <3>9, <3>1 DEF ResultInv
  <2>2. CASE timer # "due"
    <3>1. Order(todo') /\ Range(todo') = {}
      BY <1>7, <2>2, OpsOfHandlers, OrderOfHandlers DEF PollTimer
    <3>8. InWork' /\ ChipStopped' /\ WholeReport' /\ TakesReport'
      BY <1>0, <1>7, <2>2, <3>1
      DEF PollTimer, ResultInv, InWork, ChipStopped, WholeReport, TakesReport
    <3>9. ResultOfTask' /\ NoResultYet' /\ TimerRanOff' /\ AtMostOneReport'
      BY <1>0, <1>7, <2>2, <3>1
      DEF PollTimer, ResultInv, ResultOfTask, NoResultYet, TimerRanOff, AtMostOneReport
    <3> QED BY <3>8, <3>9, <3>1 DEF ResultInv
  <2> QED BY <2>1, <2>2
<1> QED BY <1>1, <1>2, <1>3, <1>4, <1>5, <1>6, <1>7 DEF SerialProcess

\* What an operation finds: the main loop runs, and op is the first of todo.
LEMMA ResultExecutes ==
  ASSUME ResultInv, NEW op \in Op, Executes(op)
  PROVE  /\ isr = "idle" /\ (spie => spi = <<>>) /\ worktask' = worktask
         /\ Range(todo) = {op} \cup Range(todo') /\ Order(todo')
         /\ op = "low" => "clear" \in Range(todo')
         /\ op = "getNonce" => {"publish", "timerStop"} \subseteq Range(todo')
         /\ op = "rearm" => /\ "publish" \in Range(todo')
                            /\ Range(todo') \subseteq {"publish", "reply"}
         /\ op = "pushWork" => Range(todo') \subseteq {"timerSet", "reply"}
         /\ op \in {"giveUp", "publish", "expire"} => Range(todo') \subseteq {"reply"}
<1>1. /\ isr = "idle" /\ (spie => spi = <<>>) /\ worktask' = worktask
      /\ todo \in Seq(Op) /\ todo # <<>> /\ todo' = Tail(todo) /\ Head(todo) = op
      /\ Order(todo)
  BY DEF ResultInv, FirmwareInv, TypeOK, Executes, MainRuns
<1>2. Range(todo) = {op} \cup Range(todo') /\ Order(todo')
  BY <1>1, OpsOfTail, OrderOfTail
<1>3. /\ op = "low" => "clear" \in Range(todo')
      /\ op = "getNonce" => {"publish", "timerStop"} \subseteq Range(todo')
      /\ op = "rearm" => "publish" \in Range(todo')
  BY <1>1, LeadsOfTail DEF Order
<1>4. /\ op = "rearm" => Range(todo') \subseteq {"publish", "reply"}
      /\ op = "pushWork" => Range(todo') \subseteq {"timerSet", "reply"}
      /\ op = "giveUp" => Range(todo') \subseteq {"reply"}
      /\ op = "publish" => Range(todo') \subseteq {"reply"}
      /\ op = "expire" => Range(todo') \subseteq {"reply"}
  BY <1>1, AfterOfTail DEF Order
<1> QED BY <1>1, <1>2, <1>3, <1>4

\* One operation of the running handler.
LEMMA ResultOperation ==
  ASSUME DriverHost, ResultInv, FirmwareInv', Operation
  PROVE  ResultInv'
<1> USE DEF spiVars, asicVars, outVars
<1>0. /\ spi \in Seq(Byte) /\ shift \in Seq(Byte) /\ state \in StateRec
      /\ reports \in 0..2
  BY DEF ResultInv, FirmwareInv, TypeOK
<1>1. ASSUME Clear PROVE ResultInv'
  <2>1. Executes("clear")
    BY <1>1 DEF Clear
  <2>2. /\ isr = "idle" /\ (spie => spi = <<>>) /\ worktask' = worktask
        /\ Range(todo) = {"clear"} \cup Range(todo') /\ Order(todo')
    BY <2>1, ResultExecutes DEF Op
  <2>3. "low" \in Range(todo') => "clear" \in Range(todo')
    BY <2>2 DEF Order, Leads, Range
  <2>4. ASSUME "clear" \notin Range(todo') PROVE spie => spi \o shift = <<>> /\ found = 0
    <3>1. "low" \notin Range(todo) /\ shift = <<>> /\ found = 0
      BY <2>2, <2>3, <2>4 DEF ResultInv, ChipStopped
    <3> QED BY <2>2, <3>1, EmptyBytes
  <2>5. WholeReport'
    BY <1>1, <2>2, <2>4 DEF Clear, WholeReport
  <2> QED
    BY <1>1, <2>2, <2>5 DEF Clear, ResultInv, InWork, ChipStopped, TakesReport,
       ResultOfTask, NoResultYet, TimerRanOff, AtMostOneReport
<1>2. ASSUME Low PROVE ResultInv'
  <2>1. Executes("low")
    BY <1>2 DEF Low
  <2>2. /\ isr = "idle" /\ worktask' = worktask /\ "clear" \in Range(todo')
        /\ Range(todo) = {"low"} \cup Range(todo') /\ Order(todo')
    BY <2>1, ResultExecutes DEF Op
  <2>8. InWork' /\ ChipStopped' /\ WholeReport' /\ TakesReport'
    BY <1>2, <2>2
    DEF Low, ResultInv, InWork, ChipStopped, WholeReport, TakesReport
  <2>9. ResultOfTask' /\ NoResultYet'
    BY <1>2, <2>2 DEF Low, ResultInv, ResultOfTask, NoResultYet
  <2>10. TimerRanOff' /\ AtMostOneReport'
    BY <1>2, <2>2 DEF Low, ResultInv, TimerRanOff, AtMostOneReport
  <2> QED BY <2>2, <2>8, <2>9, <2>10 DEF ResultInv
<1>3. ASSUME High PROVE ResultInv'
  <2>1. Executes("high")
    BY <1>3 DEF High
  <2>2. /\ worktask' = worktask
        /\ Range(todo) = {"high"} \cup Range(todo') /\ Order(todo')
    BY <2>1, ResultExecutes DEF Op
  <2>7. InWork' /\ ChipStopped'
    BY <1>3, <2>2 DEF High, ResultInv, InWork, ChipStopped
  <2>8. WholeReport' /\ TakesReport'
    BY <1>3, <2>2 DEF High, ResultInv, WholeReport, TakesReport
  <2>9. ResultOfTask' /\ NoResultYet'
    BY <1>3, <2>2, Zenon DEF High, ResultInv, ResultOfTask, NoResultYet
  <2>10. TimerRanOff' /\ AtMostOneReport'
    BY <1>3, <2>2 DEF High, ResultInv, TimerRanOff, AtMostOneReport
  <2> QED BY <2>2, <2>7, <2>8, <2>9, <2>10 DEF ResultInv
<1>4. ASSUME PushWork PROVE ResultInv'
  <2>1. Executes("pushWork")
    BY <1>4 DEF PushWork
  <2>2. /\ worktask' = worktask /\ Range(todo') \subseteq {"timerSet", "reply"}
        /\ Range(todo) = {"pushWork"} \cup Range(todo') /\ Order(todo')
    BY <2>1, ResultExecutes DEF Op
  <2>3. job = NoWork /\ found = 0 /\ shift = <<>>
    BY <2>2 DEF ResultInv, ChipStopped
  <2>7. InWork' /\ ChipStopped'
    BY <1>4, <2>2, <2>3 DEF PushWork, ResultInv, InWork, ChipStopped
  <2>8. WholeReport' /\ TakesReport'
    BY <1>4, <2>2, <2>3 DEF PushWork, ResultInv, WholeReport, TakesReport
  <2>9. ResultOfTask' /\ NoResultYet'
    BY <1>4, <2>2, <2>3, Zenon DEF PushWork, ResultInv, ResultOfTask, NoResultYet
  <2>10. TimerRanOff' /\ AtMostOneReport'
    BY <1>4, <2>2, <2>3 DEF PushWork, ResultInv, TimerRanOff, AtMostOneReport
  <2> QED BY <2>2, <2>7, <2>8, <2>9, <2>10 DEF ResultInv
<1>5. ASSUME TimerSet PROVE ResultInv'
  <2>1. Executes("timerSet")
    BY <1>5 DEF TimerSet
  <2>2. /\ worktask' = worktask
        /\ Range(todo) = {"timerSet"} \cup Range(todo') /\ Order(todo')
    BY <2>1, ResultExecutes DEF Op
  <2>3. "publish" \notin Range(todo') /\ "expire" \notin Range(todo')
    BY <2>2, SMTT(30) DEF ResultInv, Order
  <2>7. InWork' /\ ChipStopped'
    BY <1>5, <2>2, <2>3 DEF TimerSet, ResultInv, InWork, ChipStopped
  <2>8. WholeReport' /\ TakesReport'
    BY <1>5, <2>2, <2>3 DEF TimerSet, ResultInv, WholeReport, TakesReport
  <2>9. ResultOfTask' /\ NoResultYet'
    BY <1>5, <2>2, <2>3, Zenon DEF TimerSet, ResultInv, ResultOfTask, NoResultYet
  <2>10. TimerRanOff' /\ AtMostOneReport'
    BY <1>5, <2>2, <2>3 DEF TimerSet, ResultInv, TimerRanOff, AtMostOneReport
  <2> QED BY <2>2, <2>7, <2>8, <2>9, <2>10 DEF ResultInv
<1>6. ASSUME TimerStop PROVE ResultInv'
  <2>1. Executes("timerStop")
    BY <1>6 DEF TimerStop
  <2>2. /\ worktask' = worktask
        /\ Range(todo) = {"timerStop"} \cup Range(todo') /\ Order(todo')
    BY <2>1, ResultExecutes DEF Op
  <2>7. InWork' /\ ChipStopped'
    BY <1>6, <2>2 DEF TimerStop, ResultInv, InWork, ChipStopped
  <2>8. WholeReport' /\ TakesReport'
    BY <1>6, <2>2 DEF TimerStop, ResultInv, WholeReport, TakesReport
  <2>9. ResultOfTask' /\ NoResultYet'
    BY <1>6, <2>2, Zenon DEF TimerStop, ResultInv, ResultOfTask, NoResultYet
  <2>10. TimerRanOff' /\ AtMostOneReport'
    BY <1>6, <2>2 DEF TimerStop, ResultInv, TimerRanOff, AtMostOneReport
  <2> QED BY <2>2, <2>7, <2>8, <2>9, <2>10 DEF ResultInv
<1>7. ASSUME GetNonce PROVE ResultInv'
  <2>1. Executes("getNonce")
    BY <1>7 DEF GetNonce
  <2>2. /\ worktask' = worktask /\ {"publish", "timerStop"} \subseteq Range(todo')
        /\ Range(todo) = {"getNonce"} \cup Range(todo') /\ Order(todo')
    BY <2>1, ResultExecutes DEF Op
  <2>7. InWork' /\ ChipStopped'
    BY <1>7, <2>2 DEF GetNonce, ResultInv, InWork, ChipStopped
  <2>8. WholeReport' /\ TakesReport'
    BY <1>7, <2>2 DEF GetNonce, ResultInv, WholeReport, TakesReport
  <2>9. ResultOfTask' /\ NoResultYet'
    BY <1>7, <2>2, Zenon DEF GetNonce, ResultInv, ResultOfTask, NoResultYet
  <2>10. TimerRanOff' /\ AtMostOneReport'
    BY <1>7, <2>2 DEF GetNonce, ResultInv, TimerRanOff, AtMostOneReport
  <2> QED BY <2>2, <2>7, <2>8, <2>9, <2>10 DEF ResultInv
<1>8. ASSUME Rearm PROVE ResultInv'
  <2>1. Executes("rearm")
    BY <1>8 DEF Rearm
  <2>2. /\ worktask' = worktask /\ "publish" \in Range(todo')
        /\ Range(todo') \subseteq {"publish", "reply"}
        /\ Range(todo) = {"rearm"} \cup Range(todo') /\ Order(todo')
    BY <2>1, ResultExecutes DEF Op
  <2>3. isr = "idle" /\ found = 0 /\ spi = <<>> /\ shift = <<>>
    BY <2>2 DEF ResultInv, ChipStopped, TakesReport
  <2>4. spi \o shift = <<>>
    BY <2>3, EmptyBytes
  <2>7. InWork' /\ ChipStopped'
    BY <1>8, <2>2, <2>3, <2>4 DEF Rearm, ResultInv, InWork, ChipStopped
  <2>8. WholeReport' /\ TakesReport'
    BY <1>8, <2>2, <2>3, <2>4 DEF Rearm, ResultInv, WholeReport, TakesReport
  <2>9. ResultOfTask' /\ NoResultYet'
    BY <1>8, <2>2, <2>3, <2>4, Zenon DEF Rearm, ResultInv, ResultOfTask, NoResultYet
  <2>10. TimerRanOff' /\ AtMostOneReport'
    BY <1>8, <2>2, <2>3, <2>4 DEF Rearm, ResultInv, TimerRanOff, AtMostOneReport
  <2> QED BY <2>2, <2>7, <2>8, <2>9, <2>10 DEF ResultInv
<1>9. ASSUME Publish PROVE ResultInv'
  <2>1. Executes("publish")
    BY <1>9 DEF Publish
  <2>2. /\ worktask' = worktask /\ Range(todo') \subseteq {"reply"}
        /\ Range(todo) = {"publish"} \cup Range(todo') /\ Order(todo')
    BY <2>1, ResultExecutes DEF Op
  <2>3. /\ job = NoWork /\ nonce = Nonce(worktask, 1) /\ timer = "off"
        /\ state.state = "W" /\ reports = 0
    BY <2>2 DEF ResultInv, ChipStopped, TakesReport, NoResultYet
  <2>4. /\ state'.state = "R" /\ state'.nonce_valid = TRUE
        /\ state'.nonce = nonce_reversed(nonce) /\ reports' = 1
    BY <1>9, <2>3, SMTT(30) DEF Publish, More
  <2>8. InWork' /\ ChipStopped' /\ WholeReport' /\ TakesReport'
    BY <1>9, <2>2, <2>3, <2>4, Zenon
    DEF Publish, ResultInv, InWork, ChipStopped, WholeReport, TakesReport
  <2>5. timer' = timer /\ Range(todo') \cap {"timerSet", "expire"} = {}
    BY <1>9, <2>2 DEF Publish
  <2>6. NoResultYet' /\ TimerRanOff' /\ AtMostOneReport'
    BY <2>3, <2>4, <2>5 DEF NoResultYet, TimerRanOff, AtMostOneReport
  <2>7. ResultOfTask'
    BY <2>2, <2>3, <2>4 DEF ResultOfTask
  <2> QED BY <2>2, <2>6, <2>7, <2>8 DEF ResultInv
<1>10. ASSUME Expire PROVE ResultInv'
  <2>1. Executes("expire")
    BY <1>10 DEF Expire
  <2>2. /\ worktask' = worktask /\ Range(todo') \subseteq {"reply"}
        /\ Range(todo) = {"expire"} \cup Range(todo') /\ Order(todo')
    BY <2>1, ResultExecutes DEF Op
  <2>3. job = NoWork /\ reports = 0 /\ timer = "off"
    BY <2>2 DEF ResultInv, ChipStopped, NoResultYet, TimerRanOff
  <2>4. /\ state'.state = "R" /\ state'.nonce_valid = FALSE
        /\ state'.nonce = <<>> /\ reports' = 1
    BY <1>10, <2>3, SMTT(30) DEF Expire, More
  <2>8. InWork' /\ ChipStopped' /\ WholeReport' /\ TakesReport'
    BY <1>10, <2>2, <2>3, <2>4, Zenon
    DEF Expire, ResultInv, InWork, ChipStopped, WholeReport, TakesReport
  <2>5. timer' = timer /\ Range(todo') \cap {"timerSet", "expire"} = {}
    BY <1>10, <2>2 DEF Expire
  <2>6. NoResultYet' /\ TimerRanOff' /\ AtMostOneReport'
    BY <2>3, <2>4, <2>5 DEF NoResultYet, TimerRanOff, AtMostOneReport
  <2>7. ResultOfTask'
    BY <2>2, <2>3, <2>4 DEF ResultOfTask
  <2> QED BY <2>2, <2>6, <2>7, <2>8 DEF ResultInv
<1>11. ASSUME GiveUp PROVE ResultInv'
  <2>1. Executes("giveUp")
    BY <1>11 DEF GiveUp
  <2>2. /\ worktask' = worktask /\ Range(todo') \subseteq {"reply"}
        /\ Range(todo) = {"giveUp"} \cup Range(todo') /\ Order(todo')
    BY <2>1, ResultExecutes DEF Op
  <2>3. job = NoWork
    BY <2>2 DEF ResultInv, ChipStopped
  <2>4. /\ state'.state = "R" /\ state'.nonce_valid = state.nonce_valid
        /\ state'.nonce = state.nonce
    BY <1>0, <1>11 DEF GiveUp, StateRec
  <2>8. InWork' /\ ChipStopped' /\ WholeReport' /\ TakesReport'
    BY <1>11, <2>2, <2>3, <2>4
    DEF GiveUp, ResultInv, InWork, ChipStopped, WholeReport, TakesReport
  <2>9. ResultOfTask' /\ NoResultYet'
    BY <1>11, <2>2, <2>3, <2>4 DEF GiveUp, ResultInv, ResultOfTask, NoResultYet
  <2>10. TimerRanOff' /\ AtMostOneReport'
    BY <1>11, <2>2, <2>3, <2>4 DEF GiveUp, ResultInv, TimerRanOff, AtMostOneReport
  <2> QED BY <2>2, <2>8, <2>9, <2>10 DEF ResultInv
<1>12. ASSUME SendCmdReply PROVE ResultInv'
  <2>1. Executes("reply")
    BY <1>12 DEF SendCmdReply
  <2>2. /\ worktask' = worktask
        /\ Range(todo) = {"reply"} \cup Range(todo') /\ Order(todo')
    BY <2>1, ResultExecutes, SMTT(30) DEF Op
  <2>7. InWork' /\ ChipStopped'
    BY <1>12, <2>2 DEF SendCmdReply, ResultInv, InWork, ChipStopped
  <2>8. WholeReport' /\ TakesReport'
    BY <1>12, <2>2, Zenon DEF SendCmdReply, ResultInv, WholeReport, TakesReport
  <2>9. ResultOfTask' /\ NoResultYet'
    BY <1>12, <2>2, Zenon DEF SendCmdReply, ResultInv, ResultOfTask, NoResultYet
  <2>10. TimerRanOff' /\ AtMostOneReport'
    BY <1>12, <2>2 DEF SendCmdReply, ResultInv, TimerRanOff, AtMostOneReport
  <2> QED BY <2>2, <2>7, <2>8, <2>9, <2>10 DEF ResultInv
<1> QED
  BY <1>1, <1>2, <1>3, <1>4, <1>5, <1>6, <1>7, <1>8, <1>9, <1>10, <1>11, <1>12
  DEF Operation

\* The interrupt, the chip and the clock.
LEMMA ResultOthers ==
  ASSUME DriverHost, ResultInv, FirmwareInv',
         Interrupt \/ AsicFind \/ AsicShift \/ TimerDue \/ UNCHANGED vars
  PROVE  ResultInv'
<1> USE DEF mainVars, spiVars, asicVars, outVars
<1>0. /\ spi \in Seq(Byte) /\ Len(spi) <= 1 /\ shift \in Seq(Byte)
      /\ report_ \in Seq(Byte) /\ found \in 0..1 /\ job \in Work \cup {NoWork}
      /\ spie \in BOOLEAN /\ isr \in {"idle", "reading"}
  BY SMTT(30) DEF ResultInv, FirmwareInv, TypeOK, DriverHost
<1>1. ASSUME IsrEnter PROVE ResultInv'
  <2>1. ASSUME "clear" \notin Range(todo)
        PROVE  found = 1 /\ report_' \o (spi' \o shift) = Nonce(job, 1)
    <3>1. isr = "idle" /\ spie /\ spi # <<>> /\ report_' = spi /\ spi' = <<>>
      BY <1>1 DEF IsrEnter
    <3>2. spi \o shift = IF found = 1 THEN Nonce(job, 1) ELSE <<>>
      BY <2>1, <3>1 DEF ResultInv, WholeReport
    <3>3. spi \o shift # <<>>
      BY <1>0, <3>1, NotEmpty
    <3>4. <<>> \o shift = shift
      BY <1>0, EmptyBytes
    <3> QED BY <3>1, <3>2, <3>3, <3>4
  <2>2. /\ isr' = "reading" /\ spie' = FALSE /\ report_valid_' = report_valid_
        /\ ~report_valid_ /\ spi # <<>>
    BY <1>1 DEF IsrEnter, ResultInv, FirmwareInv, ReportStable
  <2>3. WholeReport'
    BY <1>1, <2>1, <2>2 DEF IsrEnter, WholeReport
  <2>4. TakesReport'
    BY <1>1, <2>2, Zenon DEF IsrEnter, ResultInv, TakesReport
  <2> QED
    BY <1>1, <2>3, <2>4, Zenon DEF IsrEnter, ResultInv, InWork, ChipStopped, ResultOfTask,
       NoResultYet, TimerRanOff, AtMostOneReport
<1>2. ASSUME IsrByte PROVE ResultInv'
  <2>0. /\ isr = "reading" /\ spi # <<>> /\ report_' = report_ \o spi /\ spi' = <<>>
        /\ shift' = shift /\ job' = job /\ found' = found
        /\ Range(todo)' = Range(todo) /\ spie' = spie /\ ~spie /\ ~report_valid_
    BY <1>2 DEF IsrByte, ResultInv, FirmwareInv, IsrDisarms, ReportStable
  <2>1. ASSUME "clear" \notin Range(todo)
        PROVE  /\ found = 1 /\ report_' \o (spi' \o shift) = Nonce(job, 1)
               /\ report_valid_' => report_' = Nonce(job, 1) /\ shift = <<>>
    <3>1. found = 1 /\ report_ \o (spi \o shift) = Nonce(job, 1)
      BY <2>0, <2>1 DEF ResultInv, WholeReport
    <3>2. report_' \o (spi' \o shift) = Nonce(job, 1)
      <4>1. (report_ \o spi) \o (<<>> \o shift) = report_ \o (spi \o shift)
        BY ONLY <1>0, ReadIn, SMTT(30)
      <4> QED BY ONLY <2>0, <3>1, <4>1
    <3>3. ASSUME report_valid_' PROVE report_' = Nonce(job, 1) /\ shift = <<>>
      <4>1. Len(report_) + 1 = ReportBytes
        BY <1>2, <2>0, <3>3, Zenon DEF IsrByte
      <4>2. job \in Work
        BY <1>0, <3>1 DEF ResultInv, InWork
      <4>3. Nonce(job, 1) \in Seq(Byte) /\ Len(Nonce(job, 1)) = Len(report_) + 1
        BY <4>1, <4>2, NonceLength
      <4>4. Len(spi) = 1
        <5>1. spi \in Seq(Byte) /\ Len(spi) <= 1 /\ spi # <<>>
          BY ONLY <1>0, <2>0
        <5>2. Len(spi) \in Nat /\ Len(spi) # 0
          BY ONLY <5>1
        <5>3. \A n \in Nat : n <= 1 /\ n # 0 => n = 1
          OBVIOUS
        <5> QED BY ONLY <5>1, <5>2, <5>3, Zenon
      <4>5. Len(report_ \o (spi \o shift)) = Len(report_) + 1
        BY ONLY <3>1, <4>3
      <4>6. report_ \o spi = report_ \o (spi \o shift) /\ shift = <<>>
        BY ONLY <1>0, <4>4, <4>5, Complete
      <4> QED BY ONLY <2>0, <3>1, <4>6
    <3> QED BY <3>1, <3>2, <3>3
  <2>2. WholeReport'
    BY <2>0, <2>1 DEF WholeReport
  <2>3. TakesReport'
    BY <1>2, <2>0, SMTT(30) DEF IsrByte, ResultInv, TakesReport
  <2> QED
    BY <1>2, <2>2, <2>3, Zenon DEF IsrByte, ResultInv, InWork, ChipStopped, ResultOfTask,
       NoResultYet, TimerRanOff, AtMostOneReport
<1>3. ASSUME IsrTimeout PROVE ResultInv'
  <2>0. /\ isr = "reading" /\ spi = <<>> /\ shift = <<>> /\ isr' = "idle"
        /\ spie' = spie /\ ~spie
    BY <1>3 DEF IsrTimeout, ResultInv, FirmwareInv, IsrDisarms
  <2>1. report_ \o (spi \o shift) = report_
    BY <1>0, <2>0, EmptyBytes
  <2>2. WholeReport'
    BY <1>3, <2>0, <2>1 DEF IsrTimeout, ResultInv, WholeReport
  <2> QED
    BY <1>3, <2>0, <2>2, Zenon DEF IsrTimeout, ResultInv, InWork, ChipStopped, TakesReport,
       ResultOfTask, NoResultYet, TimerRanOff, AtMostOneReport
<1>4. ASSUME AsicFind PROVE ResultInv'
  <2>0. /\ job # NoWork /\ shift = <<>> /\ found = 0 /\ found' = 1 /\ job' = job
        /\ shift' = Nonce(job, 1)
    BY <1>0, <1>4 DEF AsicFind, DriverHost
  <2>1. job \in Work /\ Nonce(job, 1) \in Seq(Byte)
    BY <1>0, <2>0, NonceLength
  <2>2. ASSUME "clear" \notin Range(todo), spie, isr = "idle"
        PROVE  spi \o shift' = Nonce(job, 1)
    <3>1. spi \o shift = <<>>
      BY <2>0, <2>2 DEF ResultInv, WholeReport
    <3>2. spi = <<>>
      BY <1>0, <3>1, NotEmpty
    <3> QED BY <2>0, <2>1, <3>2, EmptyBytes
  <2>4. Range(todo)' = Range(todo) /\ Order(todo)'
    BY <1>4 DEF AsicFind, ResultInv
  <2>3. WholeReport'
    <3>1. /\ isr' = isr /\ spi' = spi /\ report_' = report_ /\ spie' = spie
          /\ report_valid_' = report_valid_
      BY <1>4 DEF AsicFind
    <3>2. "clear" \notin Range(todo) => isr # "reading" /\ ~report_valid_
      BY <2>0 DEF ResultInv, WholeReport
    <3> QED BY <2>0, <2>2, <2>4, <3>1, <3>2 DEF WholeReport
  <2>5. "publish" \notin Range(todo)
    BY <2>0 DEF ResultInv, TakesReport
  <2>6. ChipStopped' /\ TakesReport'
    BY <2>0, <2>4, <2>5, SMTT(30) DEF ResultInv, ChipStopped, TakesReport
  <2>7. InWork' /\ ResultOfTask' /\ NoResultYet' /\ TimerRanOff' /\ AtMostOneReport'
    BY <1>4, <2>0, Zenon DEF AsicFind, ResultInv, InWork, ResultOfTask, NoResultYet,
       TimerRanOff, AtMostOneReport
  <2> QED BY <2>3, <2>4, <2>6, <2>7 DEF ResultInv
<1>5. ASSUME AsicShift PROVE ResultInv'
  <2>0. /\ shift # <<>> /\ (spi = <<>> \/ (~spie /\ isr = "idle"))
        /\ spi' = <<Head(shift)>> /\ shift' = Tail(shift)
    BY <1>5 DEF AsicShift
  <2>1. spi' \o shift' = <<>> \o shift
    BY <1>0, <2>0, ShiftOut, SMTT(30)
  <2>2. WholeReport'
    BY <1>5, <2>0, <2>1, ZenonT(30) DEF AsicShift, ResultInv, WholeReport
  <2>3. ChipStopped' /\ TakesReport'
    BY <1>5, <2>0, Zenon DEF AsicShift, ResultInv, ChipStopped, TakesReport
  <2>4. Order(todo)' /\ InWork' /\ ResultOfTask'
    BY <1>5, Zenon DEF AsicShift, ResultInv, InWork, ResultOfTask
  <2>5. NoResultYet' /\ TimerRanOff' /\ AtMostOneReport'
    BY <1>5 DEF AsicShift, ResultInv, NoResultYet, TimerRanOff, AtMostOneReport
  <2> QED BY <2>2, <2>3, <2>4, <2>5 DEF ResultInv
<1>6. ASSUME TimerDue PROVE ResultInv'
  <2>1. Order(todo)' /\ InWork' /\ ChipStopped'
    BY <1>6 DEF TimerDue, ResultInv, InWork, ChipStopped
  <2>2. WholeReport' /\ TakesReport'
    BY <1>6, Zenon DEF TimerDue, ResultInv, WholeReport, TakesReport
  <2>3. ResultOfTask' /\ NoResultYet'
    BY <1>6, Zenon DEF TimerDue, ResultInv, ResultOfTask, NoResultYet
  <2>4. TimerRanOff' /\ AtMostOneReport'
    BY <1>6 DEF TimerDue, ResultInv, TimerRanOff, AtMostOneReport
  <2> QED BY <2>1, <2>2, <2>3, <2>4 DEF ResultInv
<1>7. ASSUME UNCHANGED vars PROVE ResultInv'
  <2>1. Order(todo)' /\ InWork' /\ ChipStopped'
    BY <1>7, Zenon DEF vars, ResultInv, InWork, ChipStopped
  <2>2. WholeReport' /\ TakesReport'
    BY <1>7, Zenon DEF vars, ResultInv, WholeReport, TakesReport
  <2>3. ResultOfTask' /\ NoResultYet'
    BY <1>7, Zenon DEF vars, ResultInv, ResultOfTask, NoResultYet
  <2>4. TimerRanOff' /\ AtMostOneReport'
    BY <1>7 DEF vars, ResultInv, TimerRanOff, AtMostOneReport
  <2> QED BY <2>1, <2>2, <2>3, <2>4 DEF ResultInv
<1> QED BY <1>1, <1>2, <1>3, <1>4, <1>5, <1>6, <1>7 DEF Interrupt

LEMMA ResultNext == DriverHost /\ ResultInv /\ [Next]_vars => ResultInv'
<1> SUFFICES ASSUME DriverHost, ResultInv, [Next]_vars PROVE ResultInv'
  OBVIOUS
<1>1. FirmwareInv'
  BY InvNext DEF ResultInv
<1> QED BY <1>1, ResultPolls, ResultOperation, ResultOthers DEF Next, MainLoop

LEMMA ResultInvariant == DriverHost => (Spec => []ResultInv)
<1> SUFFICES ASSUME DriverHost PROVE Spec => []ResultInv
  OBVIOUS
<1>1. ResultInv /\ [Next]_vars => ResultInv'
  BY ResultNext
<1> QED BY <1>1, ResultInit, PTL DEF Spec

-----------------------------------------------------------------------------
(* What the host gets *)

\* A nonce the State declares valid is a whole report of the chip for the work unit
\* of the State: neither a stale nor a truncated report is ever published
\* (avalon.c:24-49, application.c:159-171).
THEOREM NoncesAreGenuine == DriverHost => (Spec => []NonceGenuine)
<1> SUFFICES ASSUME DriverHost PROVE Spec => []NonceGenuine
  OBVIOUS
<1>1. ResultInv => NonceGenuine
  <2> SUFFICES ASSUME ResultInv, state.nonce_valid
               PROVE  \E k \in 1..MaxNonces : state.nonce = nonce_reversed(Nonce(worktask, k))
    BY SMTT(30) DEF NonceGenuine
  <2>1. 1 \in 1..MaxNonces /\ state.nonce = nonce_reversed(Nonce(worktask, 1))
    BY DEF DriverHost, ResultInv, ResultOfTask
  <2> QED BY <2>1
<1> QED BY <1>1, ResultInvariant, PTL

\* The host gets at most one unsolicited result per work unit: a nonce and a timeout
\* of the same unit exclude each other (application.c:159-190).
THEOREM OneReportPerUnit == DriverHost => (Spec => []AtMostOneReport)
<1> SUFFICES ASSUME DriverHost PROVE Spec => []AtMostOneReport
  OBVIOUS
<1>1. ResultInv => AtMostOneReport
  BY DEF ResultInv
<1> QED BY <1>1, ResultInvariant, PTL

\* A step of the firmware is a step of the device, or leaves what it shows alone.
LEMMA DeviceStep ==
  ASSUME DriverHost, ResultInv, [Next]_vars
  PROVE  [Device!Next]_Device!dvars
<1> USE DEF mainVars, spiVars, asicVars, outVars
<1>1. ASSUME NEW w \in Work, RecvWork(w) PROVE Device!Next
  BY <1>1 DEF RecvWork, Device!Next, Device!Start
<1>2. ASSUME Publish PROVE Device!Next
  <2>1. Executes("publish")
    BY <1>2 DEF Publish
  <2>2. /\ worktask' = worktask /\ Range(todo') \subseteq {"reply"}
        /\ Range(todo) = {"publish"} \cup Range(todo')
    BY <2>1, ResultExecutes DEF Op
  <2>3. state.state = "W" /\ nonce = Nonce(worktask, 1)
    BY <2>2 DEF ResultInv, TakesReport
  <2>4. nonce_reversed(nonce) \in GoldenNonces(worktask)
    BY <2>3 DEF GoldenNonces, DriverHost
  <2>5. Device!Found(nonce_reversed(nonce))
    BY <1>2, <2>2, <2>3 DEF Publish, Device!Found
  <2> QED BY <2>4, <2>5 DEF Device!Next
<1>3. ASSUME Expire PROVE Device!Next \/ UNCHANGED <<worktask, state>>
  <2>1. Executes("expire")
    BY <1>3 DEF Expire
  <2>2. worktask' = worktask /\ Range(todo) = {"expire"} \cup Range(todo')
    BY <2>1, ResultExecutes DEF Op
  <2>3. CASE state.state = "W"
    BY <1>3, <2>2, <2>3 DEF Expire, Device!Exhausted, Device!Next
  <2>4. CASE state.state # "W"
    <3>1. state.nonce_valid = FALSE /\ state.nonce = <<>> /\ state.state = "R"
      BY <2>2, <2>4, Zenon DEF ResultInv, NoResultYet, ResultOfTask, FirmwareInv, TypeOK, StateRec
    <3>2. state = [state |-> "R", nonce_valid |-> FALSE, nonce |-> <<>>]
      BY <3>1 DEF ResultInv, FirmwareInv, TypeOK, StateRec
    <3> QED BY <1>3, <2>2, <3>2 DEF Expire
  <2> QED BY <2>3, <2>4
<1>4. ASSUME GiveUp PROVE Device!Next
  BY <1>4 DEF GiveUp, Executes, Device!Abort, Device!Next
<1>5. ASSUME \/ Clear \/ Low \/ High \/ PushWork \/ TimerSet \/ TimerStop
             \/ GetNonce \/ Rearm \/ SendCmdReply
      PROVE  UNCHANGED <<worktask, state>>
  <2>1. CASE Clear \/ Low \/ High \/ PushWork \/ TimerSet
    BY <2>1, Zenon DEF Clear, Low, High, PushWork, TimerSet, Executes
  <2>2. CASE TimerStop \/ GetNonce \/ Rearm \/ SendCmdReply
    BY <2>2, Zenon DEF TimerStop, GetNonce, Rearm, SendCmdReply, Executes
  <2> QED BY <1>5, <2>1, <2>2
<1>6. ASSUME \/ NoCommand \/ RecvReset \/ RecvStop \/ RecvStatus
             \/ PollReport \/ PollTimer
      PROVE  UNCHANGED <<worktask, state>>
  BY <1>6, Zenon DEF NoCommand, RecvReset, RecvStop, RecvStatus, PollReport, PollTimer
<1>7. ASSUME Interrupt \/ AsicFind \/ AsicShift \/ TimerDue \/ UNCHANGED vars
      PROVE  UNCHANGED <<worktask, state>>
  <2>1. CASE Interrupt
    BY <2>1 DEF Interrupt, IsrEnter, IsrByte, IsrTimeout
  <2>2. CASE AsicFind \/ AsicShift \/ TimerDue \/ UNCHANGED vars
    BY <2>2 DEF AsicFind, AsicShift, TimerDue, vars
  <2> QED BY <1>7, <2>1, <2>2
<1> QED
  BY <1>1, <1>2, <1>3, <1>4, <1>5, <1>6, <1>7
  DEF Next, MainLoop, SerialProcess, Operation, Device!dvars

\* The firmware implements what the miner promises its host (MinerDevice): a result
\* comes only from a unit in work, once, with a nonce of that unit or none.
THEOREM FirmwareImplementsDevice == DriverHost => (Spec => ImplementsDevice)
<1> SUFFICES ASSUME DriverHost PROVE Spec => ImplementsDevice
  OBVIOUS
<1>1. Init => Device!Init
  BY DEF Init, Device!Init
<1>2. ResultInv /\ [Next]_vars => [Device!Next]_Device!dvars
  BY DeviceStep
<1> QED BY <1>1, <1>2, ResultInvariant, PTL DEF Spec, ImplementsDevice, Device!Spec
=============================================================================
