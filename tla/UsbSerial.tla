------------------------------ MODULE UsbSerial ------------------------------
(***************************************************************************)
(* How replies leave the miner: the main loop (main.c), LUFA's CDC class   *)
(* (CDCClassDevice.c) and its USB core (USBInterrupt_AVR8.c,               *)
(* DeviceStandardReq.c, Endpoint_AVR8.c) on an ATmega32U2.                 *)
(*                                                                         *)
(* The main loop is preempted by two interrupts.  USB_GEN_vect follows the *)
(* bus: suspend, wake-up, reset.  USB_COM_vect handles a control request,  *)
(* with interrupts enabled, so that USB_GEN_vect may come in the middle of *)
(* one.  The main loop selects an endpoint once and then uses it;          *)
(* USB_COM_vect restores the selection, USB_GEN_vect does not.             *)
(*                                                                         *)
(* Reply bytes are numbered in the order in which appService writes them.  *)
(***************************************************************************)
EXTENDS Naturals, Sequences, FiniteSets

CONSTANTS
  BankSize,      \* bytes of the one bank of the data IN endpoint (16)
  MaxBytes,      \* bound: reply bytes
  MaxResets,     \* bound: bus resets after the first one
  MaxSuspends,   \* bound: times the host lets the bus idle
  MaxConfigs     \* bound: configurations the host sets

ASSUME BoundsAssumption ==
  /\ BankSize \in Nat \ {0}
  /\ {MaxBytes, MaxResets, MaxSuspends, MaxConfigs} \subseteq Nat

VARIABLES
  mpc,           \* where the main loop is
  quota,         \* BufferCount: bytes left to send in this turn
  tx,            \* USARTtoUSB_Buffer
  produced,      \* bytes written to it so far
  sel,           \* the selected endpoint: "IN" or "CONTROL"
  state,         \* USB_DeviceState
  cfgnum,        \* USB_Device_ConfigurationNumber
  baud,          \* whether State.LineEncoding.BaudRateBPS is set
  suspie, wakee, \* SUSPI and WAKEUPI enabled
  ctl,           \* control request in USB_COM_vect: "none", "config" or "line"
  orphan,        \* whether below it a USB_COM_vect still waits for the data of a
                 \* line encoding that a reset has cut off
  enabled,       \* hardware: the data IN endpoint is enabled
  bank,          \* hardware: its bytes
  cpu,           \* hardware: whether the firmware owns the bank, or the host
  addr,          \* hardware: UDADDR.ADDEN
  frozen,        \* hardware: the clock of the USB controller is stopped
  bus,           \* "active" or "idle"
  got,           \* bytes the host has fetched
  resets, suspends, configs

mainVars == <<mpc, quota, tx, produced, sel>>
coreVars == <<state, cfgnum, baud, suspie, wakee, ctl, orphan>>
epVars == <<enabled, bank, cpu>>
busVars == <<addr, frozen, bus>>
bounds == <<resets, suspends, configs>>
vars == <<mainVars, coreVars, epVars, busVars, got, bounds>>

\* USB_Init_Device, before the first reset; ConfigureEndpoint has left the control
\* endpoint selected.
Init ==
  /\ mpc = "turn" /\ quota = 0 /\ tx = <<>> /\ produced = 0 /\ sel = "CONTROL"
  /\ state = "Unattached" /\ cfgnum = 0 /\ baud = FALSE
  /\ suspie = TRUE /\ wakee = FALSE /\ ctl = "none" /\ orphan = FALSE
  /\ enabled = FALSE /\ bank = <<>> /\ cpu = TRUE
  /\ addr = FALSE /\ frozen = FALSE /\ bus = "active"
  /\ got = <<>> /\ resets = 0 /\ suspends = 0 /\ configs = 0

-----------------------------------------------------------------------------
(* The endpoint registers (external): of the control endpoint, selected when a  *)
(* reset has come in between, any answer is possible.                           *)

Room == sel = "IN" /\ enabled /\ cpu /\ Len(bank) < BankSize

IsReadWriteAllowed == IF sel = "IN" THEN {Room} ELSE BOOLEAN

\* RXOUTI of the control endpoint, TXINI of the other.
IsReady == IF sel = "IN" THEN {enabled /\ cpu} ELSE BOOLEAN

\* An access while the clock is stopped may have no effect.
Effective == IF frozen THEN BOOLEAN ELSE {TRUE}

\* Endpoint_ClearIN gives the bank to the host.
ClearIN ==
  \E effect \in Effective :
    cpu' = IF sel = "IN" /\ enabled /\ effect THEN FALSE ELSE cpu

-----------------------------------------------------------------------------
(* The main loop *)

\* No USB_COM_vect is running; USB_GEN_vect is a single step.
MainRuns == ctl = "none" /\ ~orphan

\* What SendByte, Flush and USBTask ask first.
Usable == state = "Configured" /\ baud

\* The top of the loop: what is in the buffer now is to be sent.
Turn ==
  /\ MainRuns /\ mpc = "turn"
  /\ quota' = Len(tx) /\ mpc' = "send"
  /\ UNCHANGED <<tx, produced, sel, coreVars, epVars, busVars, got, bounds>>

\* SendByte, first part; the loop ends with the last byte or the first error.
Send ==
  /\ MainRuns /\ mpc = "send"
  /\ IF quota > 0 /\ Usable
       THEN mpc' = "allowed" /\ sel' = "IN"
       ELSE mpc' = "service" /\ UNCHANGED sel
  /\ UNCHANGED <<quota, tx, produced, coreVars, epVars, busVars, got, bounds>>

\* ... is there room in the bank? ...
Allowed ==
  /\ MainRuns /\ mpc = "allowed"
  /\ \E ok \in IsReadWriteAllowed : mpc' = IF ok THEN "write" ELSE "clear"
  /\ UNCHANGED <<quota, tx, produced, sel, coreVars, epVars, busVars, got, bounds>>

\* ... if not, it is handed over and waited for.  Flush has three such places.
HandOver ==
  /\ MainRuns
  /\ \/ mpc = "clear" /\ mpc' = "wait"
     \/ mpc = "flushfull" /\ mpc' = "flushwait"
     \/ mpc \in {"flushpart", "zlp"} /\ mpc' = "turn"
  /\ ClearIN
  /\ UNCHANGED <<quota, tx, produced, sel, coreVars, enabled, bank, busVars, got, bounds>>

\* Faulty variant: the wait has no time-out.
WaitUntilReady_NoTimeout(onReady, onError) ==
  \E ready \in IsReady :
    \/ ready /\ mpc' = onReady
    \/ ~ready /\ state \in {"Unattached", "Suspended"} /\ mpc' = onError

\* Endpoint_WaitUntilReady: frames, and with them the time-out, come only while
\* the bus is active.
WaitUntilReady(onReady, onError) ==
  \E ready \in IsReady :
    \/ ready /\ mpc' = onReady
    \/ /\ ~ready /\ (state \in {"Unattached", "Suspended"} \/ bus = "active")
       /\ mpc' = onError

\* Faulty variant: the byte is removed although SendByte reports an error.
SendWaits_Drops ==
  /\ MainRuns /\ mpc = "wait"
  /\ WaitUntilReady("write", "service")
  /\ tx' = IF mpc' = "service" THEN Tail(tx) ELSE tx
  /\ UNCHANGED <<quota, produced, sel, coreVars, epVars, busVars, got, bounds>>

SendWaits ==
  /\ MainRuns /\ mpc = "wait"
  /\ WaitUntilReady("write", "service")
  /\ UNCHANGED <<quota, tx, produced, sel, coreVars, epVars, busVars, got, bounds>>

\* Faulty variant: the byte is written and stays in the buffer.
Write_NoRemove ==
  /\ MainRuns /\ mpc = "write" /\ mpc' = "send"
  /\ \E effect \in Effective :
       bank' = IF Room /\ effect THEN Append(bank, Head(tx)) ELSE bank
  /\ quota' = quota - 1
  /\ UNCHANGED <<tx, produced, sel, coreVars, enabled, cpu, busVars, got, bounds>>

\* ... and the byte is written to whatever is selected now, and removed.
Write ==
  /\ MainRuns /\ mpc = "write" /\ mpc' = "send"
  /\ \E effect \in Effective :
       bank' = IF Room /\ effect THEN Append(bank, Head(tx)) ELSE bank
  /\ tx' = Tail(tx) /\ quota' = quota - 1
  /\ UNCHANGED <<produced, sel, coreVars, enabled, cpu, busVars, got, bounds>>

\* appService, which may reply, and the first part of CDC_Device_USBTask.
Service ==
  /\ MainRuns /\ mpc = "service"
  /\ \/ UNCHANGED <<tx, produced>>
     \/ /\ produced < MaxBytes /\ produced' = produced + 1
        /\ tx' = Append(tx, produced')
  /\ IF Usable THEN mpc' = "flush" /\ sel' = "IN" ELSE mpc' = "turn" /\ UNCHANGED sel
  /\ UNCHANGED <<quota, coreVars, epVars, busVars, got, bounds>>

\* Faulty variant: only a full bank is sent.
Flush_OnlyFull ==
  /\ MainRuns /\ mpc = "flush"
  /\ mpc' = IF sel = "IN" /\ Len(bank) < BankSize THEN "turn" ELSE "flushfull"
  /\ UNCHANGED <<quota, tx, produced, sel, coreVars, epVars, busVars, got, bounds>>

\* CDC_Device_Flush: what is in the bank is handed over ...
Flush ==
  /\ MainRuns /\ mpc = "flush"
  /\ \/ (sel = "IN" => bank = <<>>) /\ mpc' = "turn"
     \/ /\ sel = "IN" => bank # <<>>
        /\ \E ok \in IsReadWriteAllowed : mpc' = IF ok THEN "flushpart" ELSE "flushfull"
  /\ UNCHANGED <<quota, tx, produced, sel, coreVars, epVars, busVars, got, bounds>>

\* ... and a full bank is followed by an empty packet.
FlushWaits ==
  /\ MainRuns /\ mpc = "flushwait"
  /\ WaitUntilReady("zlp", "turn")
  /\ UNCHANGED <<quota, tx, produced, sel, coreVars, epVars, busVars, got, bounds>>

Main ==
  \/ Turn \/ Send \/ Allowed \/ HandOver \/ SendWaits \/ Write
  \/ Service \/ Flush \/ FlushWaits

-----------------------------------------------------------------------------
(* USB_GEN_vect *)

\* SUSPI: for this controller a suspended device counts as unattached.
Suspend ==
  /\ bus = "idle" /\ suspie
  /\ suspie' = FALSE /\ wakee' = TRUE /\ frozen' = TRUE
  /\ state' = "Unattached"
  /\ UNCHANGED <<mainVars, cfgnum, baud, ctl, orphan, epVars, addr, bus, got, bounds>>

\* WAKEUPI: "Configured" also for a device that has only its address.
WakeUp ==
  /\ bus = "active" /\ wakee
  /\ wakee' = FALSE /\ suspie' = TRUE /\ frozen' = FALSE
  /\ state' = IF cfgnum # 0 \/ addr THEN "Configured" ELSE "Powered"
  /\ UNCHANGED <<mainVars, cfgnum, baud, ctl, orphan, epVars, addr, bus, got, bounds>>

\* EORSTI, with what the reset does to the hardware: every endpoint but the control
\* endpoint is disabled, the address is gone.  The control endpoint is selected,
\* unless a control request is being handled that restores the selection.  RXSTPI is
\* enabled, so the next request interrupts one that waits for its data.
Reset ==
  /\ state' = "Default" /\ cfgnum' = 0
  /\ suspie' = FALSE /\ wakee' = TRUE /\ frozen' = FALSE
  /\ IF ctl = "line" THEN ctl' = "none" /\ orphan' = TRUE ELSE UNCHANGED <<ctl, orphan>>
  /\ sel' = IF MainRuns THEN "CONTROL" ELSE sel
  /\ addr' = FALSE /\ enabled' = FALSE /\ bank' = <<>> /\ cpu' = TRUE
  /\ bus' = "active"
  /\ UNCHANGED <<mpc, quota, tx, produced, baud, got>>

-----------------------------------------------------------------------------
(* USB_COM_vect: control requests of a host that enumerates the device, selects  *)
(* the configuration or none, and sets the line encoding.                        *)

\* A request arrives; the wake-up interrupt after a reset is long over by then.
Request == ctl = "none" /\ bus = "active" /\ ~wakee

\* USB_Device_SetAddress runs with interrupts disabled.
SetAddress ==
  /\ Request /\ ~addr /\ resets > 0
  /\ addr' = TRUE /\ state' = "Addressed"
  /\ UNCHANGED <<mainVars, cfgnum, baud, suspie, wakee, ctl, orphan, epVars, frozen, bus, got,
                 bounds>>

\* USB_Device_SetConfiguration up to the status stage ...
SetConfiguration(c) ==
  /\ Request /\ addr /\ configs < MaxConfigs /\ configs' = configs + 1
  /\ cfgnum' = c /\ ctl' = "config"
  /\ UNCHANGED <<mainVars, state, baud, suspie, wakee, orphan, epVars, busVars, got, resets,
                 suspends>>

\* ... and after it, with CDC_Device_ConfigureEndpoints: the endpoint is allocated
\* again and the line encoding is cleared.  ClearStatusStage ends with the host's
\* answer, a reset or a suspension; the state the suspension has set is overwritten.
ConfigurationChanged ==
  /\ ctl = "config" /\ ctl' = "none"
  /\ state' = IF cfgnum # 0 \/ addr THEN "Configured" ELSE "Powered"
  /\ baud' = FALSE
  /\ \E effect \in Effective :
       IF effect THEN enabled' = TRUE /\ bank' = <<>> /\ cpu' = TRUE ELSE UNCHANGED epVars
  /\ UNCHANGED <<mainVars, cfgnum, suspie, wakee, orphan, busVars, got, bounds>>

\* CDC_REQ_SetLineEncoding: the request, with a rate other than zero ...
LineEncoding ==
  /\ Request /\ cfgnum # 0 /\ ~baud
  /\ ctl' = "line"
  /\ UNCHANGED <<mainVars, state, cfgnum, baud, suspie, wakee, orphan, epVars, busVars, got,
                 bounds>>

\* ... and its data, for which it waits as long as the device is attached.
LineEncodingDone ==
  /\ ctl = "line" /\ ctl' = "none"
  /\ baud' = TRUE \/ (state = "Unattached" /\ UNCHANGED baud)
  /\ UNCHANGED <<mainVars, state, cfgnum, suspie, wakee, orphan, epVars, busVars, got, bounds>>

\* A request whose data a reset has cut off waits on.
OrphanEnds ==
  /\ ctl = "none" /\ orphan /\ state = "Unattached" /\ orphan' = FALSE
  /\ UNCHANGED <<mainVars, state, cfgnum, baud, suspie, wakee, ctl, epVars, busVars, got,
                 bounds>>

ControlRequest ==
  \/ SetAddress \/ (\E c \in {0, 1} : SetConfiguration(c)) \/ ConfigurationChanged
  \/ LineEncoding \/ LineEncodingDone \/ OrphanEnds

-----------------------------------------------------------------------------
(* The host and the bus (external) *)

BusReset == resets <= MaxResets /\ resets' = resets + 1 /\ Reset /\ UNCHANGED <<suspends, configs>>

\* The bus counts as idle after 3 ms; a wake-up interrupt has been served by then.
BusIdle ==
  /\ suspends < MaxSuspends /\ suspends' = suspends + 1
  /\ bus = "active" /\ ~wakee /\ bus' = "idle"
  /\ UNCHANGED <<mainVars, coreVars, epVars, addr, frozen, got, resets, configs>>

\* Resuming takes the host 20 ms, in which a control request has seen that the
\* device is unattached, if it is.
BusResume ==
  /\ bus = "idle" /\ ~suspie /\ ctl = "none" /\ (orphan => state # "Unattached")
  /\ bus' = "active"
  /\ UNCHANGED <<mainVars, coreVars, epVars, addr, frozen, got, bounds>>

\* The host fetches the bank.
HostIn ==
  /\ bus = "active" /\ ~frozen /\ enabled /\ ~cpu
  /\ got' = got \o bank /\ bank' = <<>> /\ cpu' = TRUE
  /\ UNCHANGED <<mainVars, coreVars, enabled, busVars, bounds>>

Next ==
  \/ Main \/ Suspend \/ WakeUp \/ ControlRequest
  \/ BusReset \/ BusIdle \/ BusResume \/ HostIn

Spec == Init /\ [][Next]_vars

\* The main loop runs, interrupts are served, and the host completes a control
\* request it does not abandon by a reset or a suspension.  It need not fetch anything.
Fairness ==
  /\ WF_vars(Main) /\ WF_vars(Suspend) /\ WF_vars(WakeUp)
  /\ WF_vars(ConfigurationChanged) /\ WF_vars(LineEncodingDone) /\ WF_vars(OrphanEnds)

FairSpec == Spec /\ Fairness

-----------------------------------------------------------------------------
(* Properties *)

Elements(s) == {s[i] : i \in 1..Len(s)}

\* Whatever resets, suspensions and new configurations come between, the host gets
\* every byte at most once and in the order of the replies: SendByte and the removal
\* from the buffer are not torn apart by them.
StreamInOrder ==
  LET all == got \o bank \o tx
  IN  \A i, j \in 1..Len(all) : i < j => all[i] < all[j]

\* Nothing is lost by a host that does not read, by a time-out of SendByte or by a
\* device that is not configured: the replies stay in the buffer.  A reset or a
\* configuration after the first costs at most the bank and the byte that SendByte
\* was about to write; a suspension at most that byte.
LossBounded ==
  produced - Cardinality(Elements(got \o bank \o tx))
    <= IF configs = 0 THEN 0 ELSE (BankSize + 1) * (resets + configs - 2) + suspends

\* The main loop comes round to appService again and again, so that reports and the
\* work timer are looked at, whether the host reads, resets the bus or suspends it:
\* the waits of SendByte, Flush and the control requests end.  There are two
\* exceptions.  A reset between SetLineEncoding and its data leaves the interrupt
\* waiting, below those that handle the next requests, until the bus is suspended
\* (CDCClassDevice.c:72).  A suspension during SetConfiguration, which then overwrites
\* the state it has set (DeviceStandardReq.c:198-201), leaves SendByte or Flush
\* waiting for frames until the bus is resumed.
MainLoopTurns ==
  []<>(mpc = "service" \/ (state # "Unattached" /\ (orphan \/ bus = "idle")))

\* The host fetches the bank while the firmware waits for that.
HostInTime == mpc \in {"wait", "flushwait"} /\ HostIn

\* Once the host has configured the device and leaves the bus alone, the buffer and
\* the bank become empty and no reply stays in the device, if the host fetches what
\* there is and does not let SendByte time out for ever.
Delivered ==
  /\ WF_vars(HostIn) /\ SF_vars(HostInTime)
  /\ <>[](Usable /\ enabled /\ bus = "active" /\ ~orphan)
  => <>[](tx = <<>> /\ bank = <<>>)
=============================================================================
