------------------------------ MODULE Firmware ------------------------------
(***************************************************************************)
(* The AvalonBTC firmware around the ASIC: the main loop (main.c), the     *)
(* command handlers and the service routine (application.c), the report    *)
(* interrupt and the ASIC control lines (avalon.c).                        *)
(*                                                                         *)
(* Two threads of control share the report_ variables and the SPI control  *)
(* register: the main loop and the SPI interrupt, which may preempt it     *)
(* between any two accesses.  A handler is therefore the sequence of its   *)
(* accesses to shared state (an "operation" each), kept in todo; one       *)
(* action executes one operation, and the interrupt may run before each of *)
(* them.  app->state and app->worktask belong to the main loop alone, so   *)
(* their assignments are grouped: those of a 'W' come before its first     *)
(* operation, those of appService after SPCR |= SPIE, before the reply.    *)
(*                                                                         *)
(* Bytes are symbolic: <<w, k, i>> is byte i of the k-th nonce the ASIC    *)
(* finds for work unit w.  The bytes on the USB side are in MiniMiner, the *)
(* arithmetic of the work timer is in Timer.                               *)
(***************************************************************************)
EXTENDS Naturals, Sequences, Functions

CONSTANTS
  Work,         \* the work units a 'W' command can carry
  Commands,     \* the commands the host sends, of those that matter here
  ReportBytes,  \* bytes in a report of the ASIC (4: avalon.c:31)
  MaxNonces,    \* bound: nonces the ASIC reports for one work unit
  NoWork        \* the ASIC, or app->worktask, holds no work unit

ASSUME CommandsAssumption == Commands \subseteq {"W", "R", "A", "S"}
ASSUME BytesAssumption == ReportBytes \in Nat /\ ReportBytes >= 2
ASSUME NoncesAssumption == MaxNonces \in Nat
ASSUME NoWorkAssumption == NoWork \notin Work

VARIABLES
  pc,            \* what the main loop polls next: "usb", "report", "timer"
  todo,          \* operations the running handler has still to execute
  cmd,           \* the command byte of the reply the handler will queue
  worktask,      \* app->worktask
  state,         \* app->state
  nonce,         \* the local of appService between its two uses
  timer,         \* app->work_timer: "off", "running" or "due"
  spie,          \* SPCR.SPIE, the interrupt enable bit
  isr,           \* SPI_STC_vect: "idle" or "reading"
  report_,       \* the bytes shifted into report_ (report_count_ = its length)
  report_valid_,
  reset,         \* RESET_PIN is low: the ASIC is held in reset
  spi,           \* <<>>: SPIF clear; <<b>>: SPIF set and SPDR = b
  job,           \* external: the work unit the ASIC is hashing
  found,         \* external: nonces it has found for that work unit
  shift,         \* external: bytes of a report it has still to send
  reply,         \* the last State record given to sendCmdReply
  reports        \* history: unsolicited 'S' replies since the last 'W' (2: more)

mainVars == <<pc, todo, cmd, worktask, state, nonce>>
spiVars  == <<spie, isr, report_, report_valid_>>
asicVars == <<reset, job, found, shift>>
outVars  == <<reply, reports>>
vars     == <<mainVars, timer, spiVars, spi, asicVars, outVars>>

Byte == Work \X (1..MaxNonces) \X (1..ReportBytes)
StateRec == [state : {"W", "R"}, nonce_valid : BOOLEAN, nonce : Seq(Byte)]

\* The bytes of the k-th nonce of work unit w, in the order the ASIC sends them.
Nonce(w, k) == [i \in 1..ReportBytes |-> <<w, k, i>>]

-----------------------------------------------------------------------------
\* The operations of the avalon.c functions, in program order.
asicReset    == <<"clear", "low", "high">>
asicResetSpi == <<"clear">>
asicStop     == <<"clear", "low">>

\* Faulty variants: no work timer, no reset of the chip, no asicResetSpi.
HandleWork_NoTimer == asicReset \o asicResetSpi \o <<"pushWork", "reply">>
HandleWork_NoReset == asicResetSpi \o <<"pushWork", "timerSet", "reply">>
HandleWork_NoResetSpi == asicReset \o <<"pushWork", "timerSet", "reply">>

\* The operations of the command handlers of serialProcess ...
HandleWork  == asicReset \o asicResetSpi \o <<"pushWork", "timerSet", "reply">>
HandleReset == asicReset \o asicResetSpi \o <<"giveUp", "reply">>
HandleStop  == <<"giveUp">> \o asicStop \o <<"reply">>

\* Faulty variants: the timer runs on, the interrupt stays disabled, the report
\* that came in during asicStop is kept.
ServiceReport_NoTimerStop ==
  <<"getNonce">> \o asicStop \o asicResetSpi \o <<"rearm", "publish", "reply">>
ServiceReport_NoRearm ==
  <<"getNonce", "timerStop">> \o asicStop \o asicResetSpi \o <<"publish", "reply">>
ServiceTimeout_NoResetSpi == asicStop \o <<"expire", "reply">>

\* ... and of the two branches of appService.
ServiceReport ==
  <<"getNonce", "timerStop">> \o asicStop \o asicResetSpi
    \o <<"rearm", "publish", "reply">>
ServiceTimeout == asicStop \o asicResetSpi \o <<"expire", "reply">>

Op == {"clear", "low", "high", "pushWork", "timerSet", "reply", "getNonce",
       "timerStop", "rearm", "publish", "expire", "giveUp"}

-----------------------------------------------------------------------------
\* appInit: asicInit enables the interrupt, asicStop holds the ASIC in reset.
Init ==
  /\ pc = "usb" /\ todo = <<>> /\ cmd = "S"
  /\ worktask = NoWork /\ nonce = <<>>
  /\ state = [state |-> "R", nonce_valid |-> FALSE, nonce |-> <<>>]
  /\ timer = "off"
  /\ spie = TRUE /\ isr = "idle" /\ report_ = <<>> /\ report_valid_ = FALSE
  /\ reset = TRUE /\ spi = <<>>
  /\ job = NoWork /\ found = 0 /\ shift = <<>>
  /\ reply = state /\ reports = 0

\* An enabled interrupt that is pending runs before the next instruction of main.
MainRuns == isr = "idle" /\ ~(spie /\ spi # <<>>)

Polls(p) == MainRuns /\ todo = <<>> /\ pc = p

\* No command, an incomplete one, or one that leaves ASIC and State alone.
NoCommand ==
  /\ Polls("usb")
  /\ pc' = "report"
  /\ UNCHANGED <<todo, cmd, worktask, state, nonce, timer, spiVars, spi,
                 asicVars, outVars>>

\* case 'W' of serialProcess, up to its call of asicReset.
RecvWork(w) ==
  /\ Polls("usb") /\ "W" \in Commands
  /\ pc' = "report" /\ cmd' = "W" /\ todo' = HandleWork
  /\ worktask' = w
  /\ state' = [state |-> "W", nonce_valid |-> FALSE, nonce |-> <<>>]
  /\ reports' = 0
  /\ UNCHANGED <<nonce, timer, spiVars, spi, asicVars, reply>>

\* case 'R': neither the work timer nor the nonce of the State is touched.
RecvReset ==
  /\ Polls("usb") /\ "R" \in Commands
  /\ pc' = "report" /\ cmd' = "R" /\ todo' = HandleReset
  /\ UNCHANGED <<worktask, state, nonce, timer, spiVars, spi, asicVars, outVars>>

\* case 'A': only asicStop, no asicResetSpi.
RecvStop ==
  /\ Polls("usb") /\ "A" \in Commands
  /\ pc' = "report" /\ cmd' = "A" /\ todo' = HandleStop
  /\ UNCHANGED <<worktask, state, nonce, timer, spiVars, spi, asicVars, outVars>>

\* case 'S': the State is queued as it is.
RecvStatus ==
  /\ Polls("usb") /\ "S" \in Commands
  /\ pc' = "report" /\ cmd' = "S" /\ todo' = <<"reply">>
  /\ UNCHANGED <<worktask, state, nonce, timer, spiVars, spi, asicVars, outVars>>

\* The two conditions of appService.
PollReport ==
  /\ Polls("report")
  /\ pc' = "timer" /\ cmd' = "S"
  /\ todo' = IF report_valid_ THEN ServiceReport ELSE <<>>
  /\ UNCHANGED <<worktask, state, nonce, timer, spiVars, spi, asicVars, outVars>>

PollTimer ==
  /\ Polls("timer")
  /\ pc' = "usb" /\ cmd' = "S"
  /\ todo' = IF timer = "due" THEN ServiceTimeout ELSE <<>>
  /\ timer' = IF timer = "due" THEN "off" ELSE timer
  /\ UNCHANGED <<worktask, state, nonce, spiVars, spi, asicVars, outVars>>

-----------------------------------------------------------------------------
\* Executing one operation of the running handler.
Executes(op) ==
  /\ MainRuns /\ todo # <<>> /\ Head(todo) = op
  /\ todo' = Tail(todo)
  /\ UNCHANGED <<pc, cmd, worktask>>

\* report_count_ = 0; report_valid_ = 0.  SPIE is not touched.
Clear ==
  /\ Executes("clear")
  /\ report_valid_' = FALSE
  /\ UNCHANGED <<state, nonce, timer, spie, isr, report_, spi, asicVars, outVars>>

\* RESET_PIN goes low: the ASIC drops its work and the rest of its report.
\* The byte on the wire may complete in the same instant.
Low ==
  /\ Executes("low")
  /\ reset' = TRUE /\ job' = NoWork /\ found' = 0 /\ shift' = <<>>
  /\ \/ UNCHANGED spi
     \/ shift # <<>> /\ spi' = <<Head(shift)>>
  /\ UNCHANGED <<state, nonce, timer, spiVars, outVars>>

\* Faulty variant: releasing the chip enables the interrupt as well.
High_Enables ==
  /\ Executes("high")
  /\ reset' = FALSE /\ spie' = TRUE
  /\ UNCHANGED <<state, nonce, timer, isr, report_, report_valid_, spi, job, found,
                 shift, outVars>>

High ==
  /\ Executes("high")
  /\ reset' = FALSE
  /\ UNCHANGED <<state, nonce, timer, spiVars, spi, job, found, shift, outVars>>

\* The twenty words are sent; the ASIC starts unless it is held in reset.
PushWork ==
  /\ Executes("pushWork")
  /\ job' = IF reset THEN job ELSE worktask
  /\ UNCHANGED <<state, nonce, timer, spiVars, spi, reset, found, shift, outVars>>

TimerSet ==
  /\ Executes("timerSet")
  /\ timer' = "running"
  /\ UNCHANGED <<state, nonce, spiVars, spi, asicVars, outVars>>

TimerStop ==
  /\ Executes("timerStop")
  /\ timer' = "off"
  /\ UNCHANGED <<state, nonce, spiVars, spi, asicVars, outVars>>

GetNonce ==
  /\ Executes("getNonce")
  /\ report_valid_' = FALSE /\ nonce' = report_
  /\ UNCHANGED <<state, timer, spie, isr, report_, spi, asicVars, outVars>>

\* SPCR |= SPIE: the only place that enables the interrupt again.
Rearm ==
  /\ Executes("rearm")
  /\ spie' = TRUE
  /\ UNCHANGED <<state, nonce, timer, isr, report_, report_valid_, spi, asicVars,
                 outVars>>

More(n) == IF n < 2 THEN n + 1 ELSE n

\* The shifts and masks of appService: the bytes of the report in reverse order.
nonce_reversed(n) == [i \in 1..Len(n) |-> n[(Len(n) - i) + 1]]

\* The byte-reversed nonce becomes the result; the constant 0xC0 that
\* appService also subtracts is the same for every report and is left out.
Publish ==
  /\ Executes("publish")
  /\ state' = [state |-> "R", nonce_valid |-> TRUE, nonce |-> nonce_reversed(nonce)]
  /\ reports' = More(reports)
  /\ UNCHANGED <<nonce, timer, spiVars, spi, asicVars, reply>>

\* Faulty variant: the command letter is stored for the state.
Expire_WrongState ==
  /\ Executes("expire")
  /\ state' = [state |-> "S", nonce_valid |-> FALSE, nonce |-> <<>>]
  /\ reports' = More(reports)
  /\ UNCHANGED <<nonce, timer, spiVars, spi, asicVars, reply>>

Expire ==
  /\ Executes("expire")
  /\ state' = [state |-> "R", nonce_valid |-> FALSE, nonce |-> <<>>]
  /\ reports' = More(reports)
  /\ UNCHANGED <<nonce, timer, spiVars, spi, asicVars, reply>>

\* 'R' and 'A' give the work up; nonce and nonce_valid keep their values.
GiveUp ==
  /\ Executes("giveUp")
  /\ state' = [state EXCEPT !.state = "R"]
  /\ UNCHANGED <<nonce, timer, spiVars, spi, asicVars, outVars>>

SendCmdReply ==
  /\ Executes("reply")
  /\ reply' = state
  /\ UNCHANGED <<state, nonce, timer, spiVars, spi, asicVars, reports>>

-----------------------------------------------------------------------------
\* Faulty variant: the interrupt stays enabled.
IsrEnter_StaysEnabled ==
  /\ isr = "idle" /\ spie /\ spi # <<>>
  /\ report_' = spi /\ spi' = <<>> /\ isr' = "reading"
  /\ UNCHANGED <<mainVars, timer, spie, report_valid_, asicVars, outVars>>

\* SPI_STC_vect: entry (the hardware clears SPIF), one more byte, timeout.
IsrEnter ==
  /\ isr = "idle" /\ spie /\ spi # <<>>
  /\ spie' = FALSE /\ report_' = spi /\ spi' = <<>> /\ isr' = "reading"
  /\ UNCHANGED <<mainVars, timer, report_valid_, asicVars, outVars>>

IsrByte ==
  /\ isr = "reading" /\ spi # <<>>
  /\ report_' = report_ \o spi /\ spi' = <<>>
  /\ IF Len(report_) + 1 = ReportBytes
       THEN isr' = "idle" /\ report_valid_' = TRUE
       ELSE UNCHANGED <<isr, report_valid_>>
  /\ UNCHANGED <<mainVars, timer, spie, asicVars, outVars>>

\* 1000 polls without a byte: longer than the ASIC pauses between two bytes,
\* so it happens only when no byte is on its way.  The report counts as valid.
IsrTimeout ==
  /\ isr = "reading" /\ spi = <<>> /\ shift = <<>>
  /\ isr' = "idle" /\ report_valid_' = TRUE
  /\ UNCHANGED <<mainVars, timer, spie, report_, spi, asicVars, outVars>>

\* External: the ASIC finds a nonce, and shifts the bytes of its report out.
\* A byte takes longer than the interrupt latency and than one turn of the
\* polling loop, so a byte that somebody waits for is read before the next one
\* completes; with the interrupt disabled it is overwritten.
AsicFind ==
  /\ job # NoWork /\ shift = <<>> /\ found < MaxNonces
  /\ found' = found + 1 /\ shift' = Nonce(job, found + 1)
  /\ UNCHANGED <<mainVars, timer, spiVars, spi, reset, job, outVars>>

AsicShift ==
  /\ shift # <<>>
  /\ spi = <<>> \/ (~spie /\ isr = "idle")
  /\ spi' = <<Head(shift)>> /\ shift' = Tail(shift)
  /\ UNCHANGED <<mainVars, timer, spiVars, reset, job, found, outVars>>

\* 16 s have passed since timerSet.
TimerDue ==
  /\ timer = "running" /\ timer' = "due"
  /\ UNCHANGED <<mainVars, spiVars, spi, asicVars, outVars>>

-----------------------------------------------------------------------------
SerialProcess ==
  \/ NoCommand \/ RecvReset \/ RecvStop \/ RecvStatus
  \/ \E w \in Work : RecvWork(w)

Operation ==
  \/ Clear \/ Low \/ High \/ PushWork \/ TimerSet \/ TimerStop
  \/ GetNonce \/ Rearm \/ Publish \/ Expire \/ GiveUp \/ SendCmdReply

MainLoop  == SerialProcess \/ PollReport \/ PollTimer \/ Operation
Interrupt == IsrEnter \/ IsrByte \/ IsrTimeout
Next      == MainLoop \/ Interrupt \/ AsicFind \/ AsicShift \/ TimerDue

Spec == Init /\ [][Next]_vars

\* The processor runs, interrupts are served, a report that has begun is sent
\* to its end and time passes.  Nothing says that the host sends a command or
\* that the ASIC finds a nonce.
Fairness ==
  /\ WF_vars(MainLoop) /\ WF_vars(Interrupt)
  /\ WF_vars(AsicShift) /\ WF_vars(TimerDue)

FairSpec == Spec /\ Fairness
-----------------------------------------------------------------------------
(* Properties *)

\* Every variable has its type.
TypeOK ==
  /\ pc \in {"usb", "report", "timer"} /\ todo \in Seq(Op)
  /\ cmd \in {"W", "R", "A", "S"}
  /\ worktask \in Work \cup {NoWork} /\ state \in StateRec /\ nonce \in Seq(Byte)
  /\ timer \in {"off", "running", "due"}
  /\ spie \in BOOLEAN /\ isr \in {"idle", "reading"}
  /\ report_ \in Seq(Byte) /\ report_valid_ \in BOOLEAN
  /\ reset \in BOOLEAN /\ spi \in Seq(Byte) /\ Len(spi) <= 1
  /\ job \in Work \cup {NoWork} /\ found \in 0..MaxNonces /\ shift \in Seq(Byte)
  /\ reply \in StateRec /\ reports \in 0..2

\* A report that appService will take, or has begun to take, cannot change under
\* its hands: the interrupt that would overwrite report_ is disabled from the
\* moment the report is valid until SPCR |= SPIE.
ReportStable ==
  report_valid_ \/ "rearm" \in Range(todo) => ~spie /\ isr = "idle"

\* The work unit the ASIC hashes is bounded by the work timer: whenever the State
\* says WORKING, the timer runs, or the running handler is about to set it or to
\* leave the WORKING state.
WorkHasDeadline ==
  state.state = "W" =>
    timer # "off" \/ Range(todo) \cap {"timerSet", "publish", "expire"} # {}

\* While the firmware hashes, the chip hashes what the firmware believes it does:
\* no handler leaves the ASIC running an older work unit than app->worktask.
AsicWorksOnTask ==
  job # NoWork => job = worktask \/ "low" \in Range(todo)

\* A nonce the State declares valid is a whole report of the ASIC, and a report
\* for the work unit the State is about: stale and truncated reports are dropped.
NonceGenuine ==
  state.nonce_valid =>
    \E k \in 1..MaxNonces : state.nonce = nonce_reversed(Nonce(worktask, k))

\* The host gets at most one unsolicited result per work unit.
AtMostOneReport == reports <= 1

\* No report can reach appService any more: the interrupt is disabled, it has left
\* no report behind and no handler is on its way to enable it.
Deaf ==
  /\ ~spie /\ ~report_valid_ /\ isr = "idle"
  /\ "rearm" \notin Range(todo)

\* The receiver goes deaf in exactly one way: a handler other than the report
\* branch of appService clears report_valid_ while a report is waiting.
DeafOnlyByDiscard ==
  [][~Deaf /\ Deaf' => report_valid_ /\ Head(todo) = "clear"]_vars

\* Nothing the program does brings a deaf receiver back: neither a new work unit,
\* nor 'R', nor the timeout of the work.
DeafIsPermanent == [][Deaf => Deaf']_vars

\* A work unit the firmware has accepted ends, with a nonce or by the timeout,
\* unless the host keeps sending new ones for ever.
WorkEnds ==
  []<><<\E w \in Work : RecvWork(w)>>_vars \/ (state.state = "W" ~> state.state = "R")

\* The firmware implements what the miner promises its host.
GoldenNonces(w) == {nonce_reversed(Nonce(w, k)) : k \in 1..MaxNonces}
Device == INSTANCE MinerDevice WITH Golden <- GoldenNonces, NoNonce <- <<>>
ImplementsDevice == Device!Spec
=============================================================================
