------------------------------- MODULE FpgaProg -------------------------------
(***************************************************************************)
(* The programmer firmware XilinxFpgaProg: the parser of its frames and    *)
(* the commands (serial.c, XilinxProtocol.c), the bytes of the FPGA's      *)
(* serial line on their way to the host and the interrupt that receives    *)
(* them (application.c), and the turn of the main loop (XilinxFpgaProg.c). *)
(*                                                                         *)
(* A frame is a command, a size and that many bytes.  Bytes are numbers,   *)
(* so that a parser out of step takes data for commands and sizes.  The    *)
(* ring buffers are queues, as RingBuffer shows them to be.                *)
(***************************************************************************)
EXTENDS Integers, Sequences

CONSTANTS
  Frames,      \* the frames the host sends
  BufSize,     \* bytes of buffer_ (128)
  RxSize,      \* bytes of serial_rx_buffer (64)
  Window,      \* bound: frames the host sends ahead of their answers
  MaxFrames,   \* bound: frames
  MaxUsart     \* bound: bytes on the serial line

SERIAL_START_CONFIG == 1
SERIAL_DOWNLOAD_DATA == 2
SERIAL_SPI_DATA == 3
SERIAL_SPI_SELECT == 4
SERIAL_USART_DATA == 5
SERIAL_USE_USART == 6
SERIAL_USE_SPI == 7
SERIAL_FPGA_RESET == 8
SERIAL_FPGA_START == 9
SERIAL_END_COMMANDS == 10
SERIAL_ACK == 128
SERIAL_NAK == 129

Byte == 0..255

\* What the protocol asks of the host: the size fits the command and the buffer.
\* 0 is the one command below SERIAL_END_COMMANDS that is not known.
WellFormed(f) ==
  /\ f \in Seq(Byte) /\ Len(f) >= 2 /\ Len(f) = f[2] + 2 /\ Len(f) <= BufSize
  /\ f[1] < SERIAL_END_COMMANDS
  /\ f[1] = SERIAL_SPI_SELECT => f[2] = 1
  /\ f[1] \in {SERIAL_START_CONFIG, SERIAL_USE_USART, SERIAL_USE_SPI, SERIAL_FPGA_RESET,
               SERIAL_FPGA_START} => f[2] = 0

ASSUME FramesAssumption == \A f \in Frames : WellFormed(f)
\* The sizes of the buffers and of a frame are kept in a uint8_t.
ASSUME SizesAssumption == BufSize \in 1..255

VARIABLES
  line,        \* bytes from the host that have not been received
  sent,        \* history: the frames the host has sent
  buffer_, frame_size_,
  spi,         \* whether the SPI is enabled
  executed,    \* history: the frames serialProcess has taken from buffer_
  answers,     \* history: its answers
  rx,          \* serial_rx_buffer
  usart,       \* history: the bytes that came over the serial line
  mpc,         \* where the main loop is; "hung" when it waits for the SPI for ever
  quota,       \* BufferCount
  count,       \* count - i in appService
  out,         \* USARTtoUSB_Buffer
  got          \* the bytes the host has got

hostVars == <<line, sent>>
parserVars == <<buffer_, frame_size_, spi, executed, answers>>
serialVars == <<rx, usart>>
vars == <<hostVars, parserVars, serialVars, mpc, quota, count, out, got>>

\* serialInit, xilinxInit (which enables the SPI) and appInit.
Init ==
  /\ line = <<>> /\ sent = <<>>
  /\ buffer_ = <<>> /\ frame_size_ = 0 /\ spi = TRUE /\ executed = <<>> /\ answers = <<>>
  /\ rx = <<>> /\ usart = <<>>
  /\ mpc = "usb" /\ quota = 0 /\ count = 0 /\ out = <<>> /\ got = <<>>

-----------------------------------------------------------------------------
(* Frames from the host *)

\* Whether the port is in SPI mode after the frames in s: every USE_USART among them is
\* followed by a USE_SPI.
SpiAfter(s) ==
  \A i \in 1..Len(s) :
    s[i][1] = SERIAL_USE_USART => \E j \in (i + 1)..Len(s) : s[j][1] = SERIAL_USE_SPI

\* The host sends data for the SPI only while it has the port in that mode.  It may
\* send frames without waiting for answers, and bytes that are no command after a pause.
HostSends(f) ==
  /\ Len(sent) < MaxFrames /\ Len(sent) - Len(answers) < Window
  /\ f[1] \in {SERIAL_DOWNLOAD_DATA, SERIAL_SPI_DATA} => SpiAfter(sent)
  /\ sent' = Append(sent, f)
  /\ \E fill \in {<<>>, <<SERIAL_END_COMMANDS>>} :
       (fill = <<>> \/ line = <<>>) /\ line' = line \o fill \o f
  /\ UNCHANGED <<parserVars, serialVars, mpc, quota, count, out, got>>

\* Faulty variant: the data of an unknown command stays in the buffer.
Removes_NotUnknown(cmd, size) ==
  IF cmd \in {SERIAL_DOWNLOAD_DATA, SERIAL_SPI_DATA, SERIAL_USART_DATA}
    THEN size ELSE IF cmd = SERIAL_SPI_SELECT THEN 1 ELSE 0

\* How many bytes after command and size the command removes.
Removes(cmd, size) ==
  CASE cmd \in {SERIAL_START_CONFIG, SERIAL_USE_SPI, SERIAL_USE_USART, SERIAL_FPGA_RESET,
                SERIAL_FPGA_START} -> 0
    [] cmd = SERIAL_SPI_SELECT -> 1
    [] OTHER -> size

\* What it returns: INIT_B may be late (START_CONFIG) or low (DOWNLOAD_DATA).
Results(cmd) ==
  CASE cmd \in {SERIAL_START_CONFIG, SERIAL_DOWNLOAD_DATA} -> {SERIAL_ACK, SERIAL_NAK}
    [] cmd = 0 -> {SERIAL_NAK}
    [] OTHER -> {SERIAL_ACK}

\* SPI_SendByte waits for SPIF, which a disabled SPI never sets.
Hangs(cmd, size) == cmd \in {SERIAL_DOWNLOAD_DATA, SERIAL_SPI_DATA} /\ size > 0 /\ ~spi

\* Faulty variant: USE_SPI leaves the SPI as it is.
SpiMode_NoInit(cmd) == spi /\ cmd # SERIAL_USE_USART

SpiMode(cmd) == (spi \/ cmd = SERIAL_USE_SPI) /\ cmd # SERIAL_USE_USART

\* serialProcess, and the answer appUsbDataReceived gives for it.
serialProcess(buffer) ==
  LET cmd == buffer[1]
      n == Removes(cmd, buffer[2])
  IN  /\ buffer_' = SubSeq(buffer, 3 + n, Len(buffer))
      /\ executed' = Append(executed, SubSeq(buffer, 1, 2 + n))
      /\ IF Hangs(cmd, buffer[2])
           THEN mpc' = "hung" /\ UNCHANGED <<spi, answers, out>>
           ELSE /\ spi' = SpiMode(cmd) /\ UNCHANGED mpc
                /\ \E answer \in Results(cmd) :
                     answers' = Append(answers, answer) /\ out' = out \o <<answer, 0>>

\* frame_size_ is a uint8_t.
FrameSize(byte) == (byte + 2) % 256

\* serialAddByte for one byte received, and serialProcess when a frame is complete.
Receive ==
  /\ mpc = "usb" /\ line # <<>>
  /\ line' = Tail(line)
  /\ LET byte == Head(line)
         size == Len(buffer_)
         frame == IF size = 1 THEN FrameSize(byte) ELSE frame_size_
     IN  \/ /\ size = 0 /\ byte >= SERIAL_END_COMMANDS
            /\ UNCHANGED <<parserVars, mpc, out>>
         \/ /\ size = 0 => byte < SERIAL_END_COMMANDS
            /\ size + 1 # frame
            /\ buffer_' = Append(buffer_, byte) /\ frame_size_' = frame
            /\ UNCHANGED <<spi, executed, answers, mpc, out>>
         \/ /\ size = 0 => byte < SERIAL_END_COMMANDS
            /\ size + 1 = frame
            /\ frame_size_' = 0 /\ serialProcess(Append(buffer_, byte))
  /\ UNCHANGED <<sent, serialVars, quota, count, got>>

-----------------------------------------------------------------------------
(* The turn of the main loop, and bytes from the serial line *)

\* The packet is used up: what is in the buffer now is to be sent.
ReceiveEnds ==
  /\ mpc = "usb" /\ mpc' = "send" /\ quota' = Len(out)
  /\ UNCHANGED <<hostVars, parserVars, serialVars, count, out, got>>

SendByte ==
  /\ mpc = "send" /\ quota > 0
  /\ got' = Append(got, Head(out)) /\ out' = Tail(out) /\ quota' = quota - 1
  /\ UNCHANGED <<hostVars, parserVars, serialVars, mpc, count>>

\* The last byte, or an error of CDC_Device_SendByte.
SendEnds ==
  /\ mpc = "send" /\ mpc' = "service"
  /\ UNCHANGED <<hostVars, parserVars, serialVars, quota, count, out, got>>

\* appService while the timer runs, or with nothing received.
ServiceIdle ==
  /\ mpc = "service" /\ mpc' = "usb"
  /\ UNCHANGED <<hostVars, parserVars, serialVars, quota, count, out, got>>

\* Faulty variant: only a full buffer is forwarded.
ServiceExpired_OnlyFull ==
  /\ mpc = "service" /\ Len(rx) = RxSize /\ mpc' = "move"
  /\ count' = Len(rx) /\ out' = out \o <<SERIAL_USART_DATA, count'>>
  /\ UNCHANGED <<hostVars, parserVars, serialVars, quota, got>>

\* appService with serial_timeout expired.  A poll may find it so early: the
\* interrupt writes the start of the timer that timerExpired is just reading.
ServiceExpired ==
  /\ mpc = "service" /\ rx # <<>> /\ mpc' = "move"
  /\ count' = Len(rx) /\ out' = out \o <<SERIAL_USART_DATA, count'>>
  /\ UNCHANGED <<hostVars, parserVars, serialVars, quota, got>>

\* Faulty variant: bytes that arrive meanwhile are moved too.
Move_UntilEmpty ==
  /\ mpc = "move"
  /\ IF rx = <<>> THEN mpc' = "usb" /\ UNCHANGED <<rx, out, count>>
       ELSE /\ out' = Append(out, Head(rx)) /\ rx' = Tail(rx)
            /\ count' = IF count > 0 THEN count - 1 ELSE 0
            /\ UNCHANGED mpc
  /\ UNCHANGED <<hostVars, parserVars, usart, quota, got>>

\* Its loop, and the timerRestart at its end.
Move ==
  /\ mpc = "move"
  /\ IF count = 0 THEN mpc' = "usb" /\ UNCHANGED <<rx, out, count>>
       ELSE /\ out' = Append(out, Head(rx)) /\ rx' = Tail(rx) /\ count' = count - 1
            /\ UNCHANGED mpc
  /\ UNCHANGED <<hostVars, parserVars, usart, quota, got>>

\* USART1_RX_vect.  The FPGA sends no more than the buffer holds before the bytes
\* are forwarded: neither the interrupt nor RingBuffer_Insert looks.
Usart1Rx ==
  /\ Len(usart) < MaxUsart /\ Len(rx) < RxSize
  /\ LET data == SERIAL_SPI_SELECT + Len(usart)
     IN  rx' = Append(rx, data) /\ usart' = Append(usart, data)
  /\ UNCHANGED <<hostVars, parserVars, mpc, quota, count, out, got>>

MainLoop ==
  Receive \/ ReceiveEnds \/ SendByte \/ SendEnds \/ ServiceIdle \/ ServiceExpired \/ Move

Next == MainLoop \/ Usart1Rx \/ \E f \in Frames : HostSends(f)

Spec == Init /\ [][Next]_vars

\* The main loop runs; what has come is received before the packet ends, the host
\* fetches what it is sent, and the timer expires when the line is quiet.
Fairness ==
  WF_vars(MainLoop) /\ SF_vars(Receive) /\ SF_vars(SendByte) /\ SF_vars(ServiceExpired)

FairSpec == Spec /\ Fairness

-----------------------------------------------------------------------------
(* Properties *)

\* The parser stays in step: what serialProcess takes out of buffer_ are the frames
\* of the host, whole and in order, however they are cut into packets, whatever their
\* data looks like and whichever of them is unknown.  Nor is the buffer overrun.
FramesParsed ==
  /\ Len(executed) <= Len(sent) /\ executed = SubSeq(sent, 1, Len(executed))
  /\ Len(buffer_) < BufSize

\* A host that keeps to the modes of the port never makes SPI_SendByte wait for ever,
\* also when it sends the switch and the data without waiting for answers.
NeverHung == mpc # "hung"

\* What a host reads out of the stream s from place i on, frame by frame: the answers,
\* and the bytes of the serial line.  from has what it reads from the later places on.
DecodedAt(s, from, i) ==
  IF i >= Len(s) THEN [answers |-> <<>>, serial |-> <<>>]
    ELSE LET next == i + 2 + s[i + 1]
             rest == from[IF next > Len(s) THEN Len(s) + 1 ELSE next]
         IN  IF s[i] = SERIAL_USART_DATA
               THEN [answers |-> rest.answers,
                     serial |-> SubSeq(s, i + 2, next - 1) \o rest.serial]
               ELSE [answers |-> <<s[i]>> \o rest.answers, serial |-> rest.serial]

DecodedFrom(s) ==
  LET from[i \in 1..(Len(s) + 1)] == DecodedAt(s, from, i) IN from

Decoded(s) == DecodedFrom(s)[1]

\* The stream to the host, with the rest of a frame that is being moved, decodes into
\* the answers, one for every frame and in their order, and the bytes of the serial
\* line, none lost, repeated or cut off, although bytes arrive while appService moves
\* them and answers come between.
StreamDecodes ==
  LET stream == Decoded(got \o out \o SubSeq(rx, 1, count))
  IN  /\ stream.answers = answers
      /\ stream.serial \o SubSeq(rx, count + 1, Len(rx)) = usart

\* Every frame is answered and every byte of the serial line is forwarded.
Forwarded ==
  <>[](Len(answers) = Len(sent) /\ line = <<>> /\ rx = <<>> /\ out = <<>>)
=============================================================================
