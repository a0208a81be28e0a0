---------------------------- MODULE FpgaProgProofs ----------------------------
(***************************************************************************)
(* Proofs about the frame parser of FpgaProg, and about the stream of      *)
(* answers and forwarded bytes, for every set of well-formed frames, every *)
(* size of the buffers a uint8_t can count, and any number of frames sent  *)
(* ahead.                                                                  *)
(***************************************************************************)
EXTENDS FpgaProg, TLAPS, WellFoundedInduction, SequenceTheorems

-----------------------------------------------------------------------------
(* The inductive invariant *)

\* The bytes s are the frames fs, one behind the other: frame i ends at end[i].
LaidOut(s, fs, end) ==
  /\ end[0] = 0 /\ end[Len(fs)] = Len(s)
  /\ \A i, j \in 0..Len(fs) : i <= j => end[i] <= end[j]
  /\ \A i \in 1..Len(fs) : /\ end[i] = end[i - 1] + Len(fs[i])
                           /\ \A k \in 1..Len(fs[i]) : s[end[i - 1] + k] = fs[i][k]
Laid(s, fs) == \E end \in [0..Len(fs) -> Nat] : LaidOut(s, fs, end)

\* The frames sent and not yet processed.
Pending == SubSeq(sent, Len(executed) + 1, Len(sent))

\* A byte that is no command is at the head of the line.
Filled == buffer_ = <<>> /\ line # <<>> /\ Head(line) = SERIAL_END_COMMANDS

\* The bytes of the pending frames: the parser has the first of them.
Stream == IF Filled THEN Tail(line) ELSE buffer_ \o line

ParserTypes ==
  /\ line \in Seq(Byte) /\ buffer_ \in Seq(Byte) /\ spi \in BOOLEAN
  /\ sent \in Seq(Frames) /\ executed \in Seq(Frames)

\* What has been processed is what was sent first, whole frames are not left in the
\* buffer, and frame_size_ is set as soon as the size has come.
InStep ==
  /\ Len(executed) <= Len(sent)
  /\ \A i \in 1..Len(executed) : executed[i] = sent[i]
  /\ Laid(Stream, Pending)
  /\ Len(Pending) > 0 => Len(buffer_) < Len(Pending[1])
  /\ frame_size_ = IF Len(buffer_) < 2 THEN 0 ELSE Len(Pending[1])

\* The port is in the mode the frames have set, and the host keeps to the modes.
ModesKept ==
  /\ spi <=> SpiAfter(executed)
  /\ \A i \in 1..Len(sent) :
       sent[i][1] \in {SERIAL_DOWNLOAD_DATA, SERIAL_SPI_DATA} => SpiAfter(SubSeq(sent, 1, i - 1))

ParserInv == ParserTypes /\ InStep /\ ModesKept /\ NeverHung

-----------------------------------------------------------------------------
(* Sequences of bytes *)

LEMMA Joined ==
  ASSUME NEW s \in Seq(Byte), NEW t \in Seq(Byte)
  PROVE  /\ s \o t \in Seq(Byte) /\ Len(s \o t) = Len(s) + Len(t)
         /\ Len(s) \in Nat /\ Len(t) \in Nat
         /\ \A k \in 1..Len(s) : (s \o t)[k] = s[k]
         /\ \A k \in 1..Len(t) : (s \o t)[Len(s) + k] = t[k]
OBVIOUS

LEMMA Cut ==
  ASSUME NEW s \in Seq(Byte), NEW n \in Nat, n <= Len(s)
  PROVE  LET t == SubSeq(s, n + 1, Len(s))
         IN  /\ t \in Seq(Byte) /\ Len(t) = Len(s) - n
             /\ \A k \in 1..(Len(s) - n) : t[k] = s[n + k]
OBVIOUS

\* Two sequences of the same length and the same bytes.
LEMMA SameBytes ==
  ASSUME NEW s \in Seq(Byte), NEW t \in Seq(Byte), Len(s) = Len(t),
         \A k \in 1..Len(s) : s[k] = t[k]
  PROVE  s = t
OBVIOUS

-----------------------------------------------------------------------------
(* Frames *)

LEMMA FrameShape ==
  ASSUME NEW f \in Frames
  PROVE  /\ f \in Seq(Byte) /\ Len(f) \in 2..255 /\ Len(f) <= BufSize
         /\ Len(f) \in Nat /\ Len(f) > 1 /\ f # <<>>
         /\ f[1] \in Byte /\ f[2] \in Byte /\ Len(f) = f[2] + 2
         /\ f[1] < SERIAL_END_COMMANDS /\ f[1] # SERIAL_END_COMMANDS
<1>1. WellFormed(f)
  BY FramesAssumption
<1>2. f \in Seq(Byte) /\ Len(f) \in Nat /\ Len(f) >= 2 /\ Len(f) = f[2] + 2
      /\ Len(f) <= BufSize /\ f[1] < 10
  BY <1>1 DEF WellFormed, SERIAL_END_COMMANDS
<1>3. 1 \in 1..Len(f) /\ 2 \in 1..Len(f)
  BY <1>2
<1>4. f[1] \in Byte /\ f[2] \in Byte
  <2>1. \A k \in 1..Len(f) : f[k] \in Byte
    BY <1>2
  <2> QED BY <1>3, <2>1
<1>5. Len(f) \in 2..255
  <2>1. \A n \in Nat : n >= 2 /\ n <= BufSize => n \in 2..255
    BY SizesAssumption
  <2> QED BY <1>2, <2>1, Zenon
<1>6. f[1] # 10
  BY <1>2, <1>4 DEF Byte
<1>7. Len(f) > 1 /\ f # <<>>
  <2>1. \A n \in Nat : n >= 2 => n > 1 /\ n # 0
    OBVIOUS
  <2>2. Len(f) > 1 /\ Len(f) # 0
    BY <1>2, <2>1
  <2> QED BY <1>2, <2>2
<1> QED BY <1>2, <1>4, <1>5, <1>6, <1>7 DEF SERIAL_END_COMMANDS

\* A command removes exactly the data of its frame.
LEMMA FrameRemoved ==
  ASSUME NEW f \in Frames
  PROVE  Removes(f[1], f[2]) = f[2]
<1>1. WellFormed(f)
  BY FramesAssumption
<1>2. CASE f[1] \in {SERIAL_START_CONFIG, SERIAL_USE_SPI, SERIAL_USE_USART,
                     SERIAL_FPGA_RESET, SERIAL_FPGA_START}
  BY <1>1, <1>2 DEF WellFormed, Removes
<1>3. CASE f[1] = SERIAL_SPI_SELECT
  <2>1. f[2] = 1
    BY <1>1, <1>3 DEF WellFormed
  <2> QED
    BY <1>3, <2>1 DEF Removes, SERIAL_START_CONFIG, SERIAL_USE_SPI, SERIAL_USE_USART,
                      SERIAL_FPGA_RESET, SERIAL_FPGA_START, SERIAL_SPI_SELECT
<1>4. CASE /\ f[1] \notin {SERIAL_START_CONFIG, SERIAL_USE_SPI, SERIAL_USE_USART,
                          SERIAL_FPGA_RESET, SERIAL_FPGA_START}
           /\ f[1] # SERIAL_SPI_SELECT
  BY <1>4 DEF Removes
<1> QED BY <1>2, <1>3, <1>4

-----------------------------------------------------------------------------
(* Frames one behind the other *)

LEMMA LaidNone == Laid(<<>>, <<>>)
<1> DEFINE end == [i \in 0..0 |-> 0]
<1>1. Len(<<>>) = 0 /\ end \in [0..0 -> Nat] /\ end[0] = 0
  OBVIOUS
<1>2. LaidOut(<<>>, <<>>, end)
  BY <1>1 DEF LaidOut
<1> QED BY <1>1, <1>2 DEF Laid

\* A frame is sent.
LEMMA LaidMore ==
  ASSUME NEW s \in Seq(Byte), NEW fs \in Seq(Frames), NEW f \in Frames, Laid(s, fs)
  PROVE  Laid(s \o f, Append(fs, f))
<1>1. PICK end \in [0..Len(fs) -> Nat] : LaidOut(s, fs, end)
  BY DEF Laid
<1>2. f \in Seq(Byte) /\ Len(f) \in Nat
  BY FrameShape, Zenon
<1> DEFINE t == s \o f
           gs == Append(fs, f)
           n == Len(fs)
           new == [i \in 0..(n + 1) |-> IF i = n + 1 THEN Len(s) + Len(f) ELSE end[i]]
<1>3. /\ n \in Nat /\ Len(gs) = n + 1 /\ gs[n + 1] = f
      /\ \A i \in 1..n : gs[i] = fs[i]
  OBVIOUS
<1>4. /\ Len(s) \in Nat /\ Len(t) = Len(s) + Len(f)
      /\ \A k \in 1..Len(s) : t[k] = s[k]
      /\ \A k \in 1..Len(f) : t[Len(s) + k] = f[k]
  BY <1>2, Joined
<1>5. /\ end[0] = 0 /\ end[n] = Len(s) /\ \A i \in 0..n : end[i] \in 0..Len(s)
      /\ \A i, j \in 0..n : i <= j => end[i] <= end[j]
      /\ \A i \in 1..n : /\ end[i] = end[i - 1] + Len(fs[i])
                         /\ \A k \in 1..Len(fs[i]) : s[end[i - 1] + k] = fs[i][k]
  BY <1>1, <1>4 DEF LaidOut
<1>6. /\ new \in [0..(n + 1) -> Nat] /\ new[n + 1] = Len(s) + Len(f)
      /\ \A i \in 0..n : new[i] = end[i]
  BY <1>2, <1>3, <1>4
<1> HIDE DEF t, gs, new, n
<1>7. /\ new[0] = 0 /\ new[n + 1] = Len(t)
      /\ \A i, j \in 0..(n + 1) : i <= j => new[i] <= new[j]
  <2>1. new[0] = 0 /\ new[n + 1] = Len(t)
    BY <1>3, <1>4, <1>5, <1>6
  <2>2. ASSUME NEW i \in 0..(n + 1), NEW j \in 0..(n + 1), i <= j PROVE new[i] <= new[j]
    <3>1. CASE j = n + 1
      <4>1. i \in 0..n \/ i = n + 1
        BY <1>3
      <4>2. i \in 0..n => new[i] <= Len(s) /\ new[i] \in Nat
        BY <1>4, <1>5, <1>6
      <4> QED BY <1>2, <1>4, <1>6, <3>1, <4>1, <4>2
    <3>2. CASE j # n + 1
      <4>1. i \in 0..n /\ j \in 0..n
        BY <1>3, <2>2, <3>2
      <4> QED BY <1>5, <1>6, <2>2, <4>1
    <3> QED BY <3>1, <3>2
  <2> QED BY <2>1, <2>2
<1>8. ASSUME NEW i \in 1..n
      PROVE  /\ new[i] = new[i - 1] + Len(gs[i])
             /\ \A k \in 1..Len(gs[i]) : t[new[i - 1] + k] = gs[i][k]
  <2>0. i \in 0..n /\ i - 1 \in 0..n
    BY <1>3
  <2>1. gs[i] = fs[i] /\ new[i] = end[i] /\ new[i - 1] = end[i - 1] /\ i - 1 \in 0..n
    BY <1>3, <1>6, <2>0
  <2>2. end[i] = end[i - 1] + Len(fs[i]) /\ end[i] \in 0..Len(s) /\ end[i - 1] \in 0..Len(s)
    BY <1>3, <1>5, <2>1
  <2>3. ASSUME NEW k \in 1..Len(fs[i]) PROVE t[end[i - 1] + k] = fs[i][k]
    <3>1. Len(fs[i]) \in Nat
      <4>1. fs[i] \in Frames
        BY DEF n
      <4> QED BY <4>1, FrameShape, Zenon
    <3>2. end[i - 1] + k \in 1..Len(s)
      <4> DEFINE a == end[i - 1]
                 b == end[i]
                 l == Len(fs[i])
                 z == Len(s)
      <4>1. a \in 0..z /\ b \in 0..z /\ l \in Nat /\ z \in Nat /\ b = a + l /\ k \in 1..l
        BY <1>4, <2>2, <3>1
      <4> HIDE DEF a, b, l, z
      <4>2. a + k \in 1..z
        BY <4>1
      <4> QED BY <4>2 DEF a, z
    <3> QED BY <1>4, <1>5, <3>2, Zenon
  <2> QED BY <2>1, <2>2, <2>3, SMTT(30)
<1>9. /\ new[n + 1] = new[n] + Len(gs[n + 1])
      /\ \A k \in 1..Len(gs[n + 1]) : t[new[n] + k] = gs[n + 1][k]
  <2>1. n \in 0..n
    BY <1>3
  <2>2. new[n] = Len(s)
    BY <1>5, <1>6, <2>1
  <2> QED BY <1>3, <1>4, <1>6, <2>2
<1>10. LaidOut(t, gs, new)
  <2>1. ASSUME NEW i \in 1..Len(gs)
        PROVE  /\ new[i] = new[i - 1] + Len(gs[i])
               /\ \A k \in 1..Len(gs[i]) : t[new[i - 1] + k] = gs[i][k]
    <3>1. i \in 1..n \/ i = n + 1
      BY <1>3
    <3>2. i = n + 1 => i - 1 = n
      BY <1>3
    <3> QED BY <1>8, <1>9, <3>1, <3>2
  <2>2. /\ new[0] = 0 /\ new[Len(gs)] = Len(t)
        /\ \A i, j \in 0..Len(gs) : i <= j => new[i] <= new[j]
    BY <1>3, <1>7
  <2> QED BY <2>1, <2>2 DEF LaidOut
<1>11. new \in [0..Len(gs) -> Nat]
  BY <1>3, <1>6
<1> QED BY <1>10, <1>11 DEF Laid, t, gs

\* The first frame is at the beginning, and behind it are the others.
LEMMA LaidFirst ==
  ASSUME NEW s \in Seq(Byte), NEW fs \in Seq(Frames), Laid(s, fs), Len(fs) > 0
  PROVE  /\ fs[1] \in Frames /\ Len(fs[1]) <= Len(s)
         /\ \A k \in 1..Len(fs[1]) : s[k] = fs[1][k]
         /\ Laid(SubSeq(s, Len(fs[1]) + 1, Len(s)), Tail(fs))
<1>1. PICK end \in [0..Len(fs) -> Nat] : LaidOut(s, fs, end)
  BY DEF Laid
<1> DEFINE n == Len(fs)
           m == Len(fs[1])
           t == SubSeq(s, m + 1, Len(s))
           gs == Tail(fs)
           new == [i \in 0..(n - 1) |-> end[i + 1] - m]
<1>2. n \in Nat /\ n >= 1 /\ 1 \in 1..n /\ fs # <<>>
  OBVIOUS
<1>3. /\ gs \in Seq(Frames) /\ Len(gs) = n - 1
      /\ \A i \in 1..(n - 1) : gs[i] = fs[i + 1]
  BY <1>2
<1>4. \A i \in 1..n : fs[i] \in Frames
  OBVIOUS
<1>5. \A i \in 1..n : Len(fs[i]) \in Nat
  BY <1>4, FrameShape, Zenon
<1>6. /\ end[0] = 0 /\ end[n] = Len(s)
      /\ \A i \in 0..n : end[i] \in Nat
      /\ \A i, j \in 0..n : i <= j => end[i] <= end[j]
      /\ \A i \in 1..n : /\ end[i] = end[i - 1] + Len(fs[i])
                         /\ \A k \in 1..Len(fs[i]) : s[end[i - 1] + k] = fs[i][k]
  BY <1>1, <1>2 DEF LaidOut
<1>7. m \in Nat /\ end[1] = m /\ m <= Len(s) /\ Len(s) \in Nat
  BY <1>2, <1>5, <1>6
<1>8. \A k \in 1..m : s[k] = fs[1][k]
  BY <1>2, <1>6, <1>7
<1>9. /\ Len(t) = Len(s) - m
      /\ \A k \in 1..(Len(s) - m) : t[k] = s[m + k]
  BY <1>7, Cut
<1>10. /\ new \in [0..(n - 1) -> Nat]
       /\ \A i \in 0..(n - 1) : new[i] = end[i + 1] - m /\ i + 1 \in 0..n /\ end[i + 1] \in Nat
  <2>1. ASSUME NEW i \in 0..(n - 1)
        PROVE  i + 1 \in 0..n /\ end[i + 1] \in Nat /\ end[i + 1] - m \in Nat
    <3>1. i + 1 \in 0..n /\ 1 \in 0..n /\ 1 <= i + 1
      BY <1>2
    <3>2. end[1] <= end[i + 1] /\ end[i + 1] \in Nat
      BY <1>6, <3>1
    <3> QED BY <1>7, <3>1, <3>2
  <2> QED BY <2>1
<1> HIDE DEF t, gs, new, m, n
<1>11. /\ new[0] = 0 /\ new[n - 1] = Len(t)
       /\ \A i, j \in 0..(n - 1) : i <= j => new[i] <= new[j]
  <2>1. 0 \in 0..(n - 1) /\ n - 1 \in 0..(n - 1) /\ 0 + 1 = 1 /\ (n - 1) + 1 = n
    BY <1>2
  <2>2. new[0] = end[1] - m /\ new[n - 1] = end[n] - m
    BY <1>10, <2>1
  <2>3. new[0] = 0 /\ new[n - 1] = Len(t)
    BY <1>6, <1>7, <1>9, <2>2
  <2>4. ASSUME NEW i \in 0..(n - 1), NEW j \in 0..(n - 1), i <= j PROVE new[i] <= new[j]
    <3>1. i + 1 \in 0..n /\ j + 1 \in 0..n /\ i + 1 <= j + 1
      BY <1>2, <2>4
    <3>2. end[i + 1] <= end[j + 1]
      BY <1>6, <3>1
    <3> QED BY <1>7, <1>10, <3>2
  <2> QED BY <2>3, <2>4
<1>12. ASSUME NEW i \in 1..(n - 1)
       PROVE  /\ new[i] = new[i - 1] + Len(gs[i])
              /\ \A k \in 1..Len(gs[i]) : t[new[i - 1] + k] = gs[i][k]
  <2>1. /\ i \in 0..(n - 1) /\ i - 1 \in 0..(n - 1) /\ i + 1 \in 1..n /\ (i - 1) + 1 = i
        /\ (i + 1) - 1 = i /\ i \in 0..n /\ i + 1 \in 0..n
    BY <1>2
  <2>2. gs[i] = fs[i + 1] /\ Len(fs[i + 1]) \in Nat
    BY <1>3, <1>5, <2>1
  <2>3. end[i + 1] = end[i] + Len(fs[i + 1])
        /\ \A k \in 1..Len(fs[i + 1]) : s[end[i] + k] = fs[i + 1][k]
    BY <1>6, <2>1
  <2>4. new[i] = end[i + 1] - m /\ new[i - 1] = end[i] - m
    BY <1>10, <2>1
  <2>5. end[i] \in Nat /\ end[i + 1] \in Nat /\ m <= end[i] /\ end[i + 1] <= Len(s)
    <3>1. 1 \in 0..n /\ n \in 0..n /\ 1 <= i /\ i + 1 <= n
      BY <1>2
    <3> QED BY <1>6, <1>7, <2>1, <3>1
  <2>6. ASSUME NEW k \in 1..Len(fs[i + 1]) PROVE t[new[i - 1] + k] = fs[i + 1][k]
    <3>1. (end[i] - m) + k \in 1..(Len(s) - m) /\ m + ((end[i] - m) + k) = end[i] + k
      <4>1. k \in Nat /\ k >= 1 /\ end[i] + k <= end[i + 1]
        BY <2>2, <2>3, <2>5
      <4> DEFINE a == end[i]
                 c == end[i + 1]
                 z == Len(s)
      <4>2. /\ a \in Nat /\ c \in Nat /\ z \in Nat /\ m \in Nat
            /\ m <= a /\ a + k <= c /\ c <= z
        BY <1>7, <2>5, <4>1
      <4> HIDE DEF a, c, z
      <4>3. (a - m) + k \in 1..(z - m) /\ m + ((a - m) + k) = a + k
        BY <4>1, <4>2
      <4> QED BY <4>3 DEF a, z
    <3>2. t[(end[i] - m) + k] = s[end[i] + k]
      BY <1>9, <3>1
    <3> QED BY <2>3, <2>4, <3>2
  <2>7. new[i] = new[i - 1] + Len(fs[i + 1])
    BY <1>7, <2>2, <2>3, <2>4, <2>5, SMTT(30)
  <2> QED BY <2>2, <2>6, <2>7
<1>13. LaidOut(t, gs, new) /\ new \in [0..Len(gs) -> Nat]
  BY <1>3, <1>10, <1>11, <1>12 DEF LaidOut
<1>14. Laid(t, gs)
  BY <1>13 DEF Laid
<1> QED BY <1>4, <1>2, <1>7, <1>8, <1>14 DEF t, gs, m

\* There are bytes only where there is a frame.
LEMMA LaidBytes ==
  ASSUME NEW s \in Seq(Byte), NEW fs \in Seq(Frames), Laid(s, fs)
  PROVE  /\ Len(fs) = 0 => s = <<>>
         /\ s = <<>> => Len(fs) = 0
         /\ s # <<>> => s[1] \in Byte /\ s[1] < SERIAL_END_COMMANDS /\ s[1] # SERIAL_END_COMMANDS
<1>1. PICK end \in [0..Len(fs) -> Nat] : LaidOut(s, fs, end)
  BY DEF Laid
<1>2. Len(fs) = 0 => s = <<>>
  <2>1. Len(fs) = 0 => Len(s) = 0
    BY <1>1 DEF LaidOut
  <2> QED BY <2>1
<1>3. ASSUME Len(fs) # 0
      PROVE  /\ s # <<>> /\ s[1] \in Byte /\ s[1] < SERIAL_END_COMMANDS
             /\ s[1] # SERIAL_END_COMMANDS
  <2>1. Len(fs) > 0
    BY <1>3
  <2>2. fs[1] \in Frames /\ Len(fs[1]) <= Len(s) /\ \A k \in 1..Len(fs[1]) : s[k] = fs[1][k]
    BY <2>1, LaidFirst
  <2>3. Len(fs[1]) \in Nat /\ Len(fs[1]) > 1
    BY <2>2, FrameShape, Zenon
  <2>4. 1 \in 1..Len(fs[1]) /\ s # <<>>
    BY <2>2, <2>3
  <2>5. /\ fs[1][1] \in Byte /\ fs[1][1] < SERIAL_END_COMMANDS
        /\ fs[1][1] # SERIAL_END_COMMANDS
    BY <2>2, FrameShape, Zenon
  <2>6. s[1] = fs[1][1]
    BY <2>2, <2>4, Zenon
  <2> QED BY <2>4, <2>5, <2>6, Zenon
<1> QED BY <1>2, <1>3

-----------------------------------------------------------------------------
(* The mode of the port *)

\* The last frame decides, unless it is of another kind.
LEMMA SpiAfterAppend ==
  ASSUME NEW s \in Seq(Frames), NEW f \in Frames
  PROVE  SpiAfter(Append(s, f)) <=> /\ SpiAfter(s) \/ f[1] = SERIAL_USE_SPI
                                    /\ f[1] # SERIAL_USE_USART
<1> DEFINE n == Len(s)
           t == Append(s, f)
<1>1. n \in Nat /\ Len(t) = n + 1 /\ t[n + 1] = f /\ \A i \in 1..n : t[i] = s[i]
  OBVIOUS
<1>2. SpiAfter(t) <=> \A i \in 1..(n + 1) : t[i][1] = SERIAL_USE_USART
                        => \E j \in (i + 1)..(n + 1) : t[j][1] = SERIAL_USE_SPI
  BY <1>1 DEF SpiAfter
<1>3. SpiAfter(s) <=> \A i \in 1..n : s[i][1] = SERIAL_USE_USART
                        => \E j \in (i + 1)..n : s[j][1] = SERIAL_USE_SPI
  BY DEF SpiAfter
<1>4. SERIAL_USE_SPI # SERIAL_USE_USART
  BY DEF SERIAL_USE_SPI, SERIAL_USE_USART
<1> HIDE DEF n, t
<1>5. ASSUME SpiAfter(t) PROVE f[1] # SERIAL_USE_USART
  <2>1. n + 1 \in 1..(n + 1) /\ \A j \in ((n + 1) + 1)..(n + 1) : FALSE
    BY <1>1
  <2> QED BY <1>1, <1>2, <1>5, <2>1
<1>6. ASSUME SpiAfter(t), f[1] # SERIAL_USE_SPI PROVE SpiAfter(s)
  <2>1. ASSUME NEW i \in 1..n, s[i][1] = SERIAL_USE_USART
        PROVE  \E j \in (i + 1)..n : s[j][1] = SERIAL_USE_SPI
    <3>1. i \in 1..(n + 1) /\ t[i] = s[i]
      BY <1>1
    <3>2. PICK j \in (i + 1)..(n + 1) : t[j][1] = SERIAL_USE_SPI
      BY <1>2, <1>6, <2>1, <3>1
    <3>3. j # n + 1
      BY <1>1, <1>6, <3>2
    <3>4. j \in (i + 1)..n /\ j \in 1..n
      BY <1>1, <3>3
    <3> QED BY <1>1, <3>2, <3>4
  <2> QED BY <1>3, <2>1
<1>7. ASSUME SpiAfter(s) \/ f[1] = SERIAL_USE_SPI, f[1] # SERIAL_USE_USART
      PROVE  SpiAfter(t)
  <2>1. ASSUME NEW i \in 1..(n + 1), t[i][1] = SERIAL_USE_USART
        PROVE  \E j \in (i + 1)..(n + 1) : t[j][1] = SERIAL_USE_SPI
    <3>1. i # n + 1
      BY <1>1, <1>7, <2>1
    <3>2. i \in 1..n /\ n + 1 \in (i + 1)..(n + 1)
      BY <1>1, <3>1
    <3>3. CASE f[1] = SERIAL_USE_SPI
      BY <1>1, <3>2, <3>3
    <3>4. CASE SpiAfter(s)
      <4>1. PICK j \in (i + 1)..n : s[j][1] = SERIAL_USE_SPI
        BY <1>1, <1>3, <2>1, <3>2, <3>4
      <4>2. j \in (i + 1)..(n + 1) /\ j \in 1..n
        BY <1>1
      <4> QED BY <1>1, <4>1, <4>2
    <3> QED BY <1>7, <3>3, <3>4
  <2> QED BY <1>2, <2>1
<1> QED BY <1>5, <1>6, <1>7 DEF t

\* The frames sent first stay the first.
LEMMA FirstFrames ==
  ASSUME NEW s \in Seq(Frames), NEW f \in Frames, NEW i \in 0..Len(s)
  PROVE  SubSeq(Append(s, f), 1, i) = SubSeq(s, 1, i)
OBVIOUS

LEMMA AllFrames ==
  ASSUME NEW s \in Seq(Frames), NEW t \in Seq(Frames), Len(t) <= Len(s),
         \A i \in 1..Len(t) : t[i] = s[i]
  PROVE  SubSeq(s, 1, Len(t)) = t
OBVIOUS

-----------------------------------------------------------------------------
(* What the invariant says of the bytes and frames under way *)

LEMMA Rest ==
  ASSUME NEW s \in Seq(Frames), NEW n \in Nat, n <= Len(s)
  PROVE  /\ SubSeq(s, n + 1, Len(s)) \in Seq(Frames)
         /\ Len(SubSeq(s, n + 1, Len(s))) = Len(s) - n
         /\ \A i \in 1..(Len(s) - n) : SubSeq(s, n + 1, Len(s))[i] = s[n + i]
OBVIOUS

LEMMA RestMore ==
  ASSUME NEW s \in Seq(Frames), NEW n \in Nat, n <= Len(s), NEW f \in Frames
  PROVE  SubSeq(Append(s, f), n + 1, Len(s) + 1) = Append(SubSeq(s, n + 1, Len(s)), f)
<1> DEFINE t == Append(s, f)
           m == Len(s) - n
           r == SubSeq(s, n + 1, Len(s))
           x == SubSeq(t, n + 1, Len(t))
           y == Append(r, f)
<1>1. /\ m \in Nat /\ Len(s) = n + m /\ r \in Seq(Frames) /\ Len(r) = m
      /\ \A i \in 1..m : r[i] = s[n + i]
  BY Rest
<1>2. /\ t \in Seq(Frames) /\ Len(t) = Len(s) + 1 /\ t[Len(s) + 1] = f
      /\ \A i \in 1..Len(s) : t[i] = s[i]
  OBVIOUS
<1> HIDE DEF t, m, r
<1>3. /\ x \in Seq(Frames) /\ Len(x) = m + 1
      /\ \A i \in 1..(m + 1) : x[i] = t[n + i]
  <2>1. n <= Len(t) /\ Len(t) - n = m + 1
    BY <1>1, <1>2
  <2> QED BY <1>2, <2>1, Rest, SMTT(30)
<1>4. /\ y \in Seq(Frames) /\ Len(y) = m + 1 /\ y[m + 1] = f
      /\ \A i \in 1..m : y[i] = r[i]
  BY <1>1
<1> HIDE DEF x, y
<1>5. ASSUME NEW i \in 1..(m + 1) PROVE x[i] = y[i]
  <2>1. i \in 1..m \/ i = m + 1
    BY <1>1
  <2>2. ASSUME i \in 1..m PROVE x[i] = y[i]
    <3>1. n + i \in 1..Len(s)
      BY <1>1, <2>2
    <3> QED BY <1>1, <1>2, <1>3, <1>4, <2>2, <3>1, SMTT(30)
  <2>3. ASSUME i = m + 1 PROVE x[i] = y[i]
    <3>1. n + i = Len(s) + 1
      BY <1>1, <2>3
    <3> QED BY <1>2, <1>3, <1>4, <2>3, <3>1
  <2> QED BY <2>1, <2>2, <2>3
<1>6. x = y
  BY <1>1, <1>3, <1>4, <1>5
<1> QED BY <1>2, <1>6, Zenon DEF x, y, t, r

LEMMA RestLess ==
  ASSUME NEW s \in Seq(Frames), NEW n \in Nat, n < Len(s)
  PROVE  SubSeq(s, (n + 1) + 1, Len(s)) = Tail(SubSeq(s, n + 1, Len(s)))
BY SMTT(30)

\* The pending frames, and that the buffer is empty when there are none.
LEMMA Underway ==
  ASSUME ParserInv
  PROVE  /\ Len(executed) \in Nat /\ Len(executed) <= Len(sent) /\ Len(buffer_) \in Nat
         /\ Pending \in Seq(Frames) /\ Len(Pending) = Len(sent) - Len(executed)
         /\ \A i \in 1..Len(Pending) : Pending[i] = sent[Len(executed) + i]
         /\ Stream \in Seq(Byte) /\ Laid(Stream, Pending)
         /\ Len(Pending) = 0 => buffer_ = <<>>
<1>1. /\ line \in Seq(Byte) /\ buffer_ \in Seq(Byte) /\ sent \in Seq(Frames)
      /\ executed \in Seq(Frames)
  BY DEF ParserInv, ParserTypes
<1>2. Len(executed) \in Nat /\ Len(executed) <= Len(sent) /\ Laid(Stream, Pending)
  BY <1>1 DEF ParserInv, InStep
<1>3. /\ Pending \in Seq(Frames) /\ Len(Pending) = Len(sent) - Len(executed)
      /\ \A i \in 1..Len(Pending) : Pending[i] = sent[Len(executed) + i]
  BY <1>1, <1>2, Rest DEF Pending
<1>4. Stream \in Seq(Byte)
  <2>1. line # <<>> => Tail(line) \in Seq(Byte)
    BY <1>1
  <2>2. buffer_ \o line \in Seq(Byte)
    BY <1>1
  <2> QED BY <2>1, <2>2 DEF Stream, Filled
<1>5. Len(Pending) = 0 => buffer_ = <<>>
  <2>1. Len(Pending) = 0 => Stream = <<>>
    BY <1>2, <1>3, <1>4, LaidBytes, Zenon
  <2>2. buffer_ \o line = <<>> => buffer_ = <<>>
    BY <1>1
  <2> QED BY <2>1, <2>2 DEF Stream, Filled
<1> QED BY <1>1, <1>2, <1>3, <1>4, <1>5

LEMMA ParserInit == Init => ParserInv
<1> SUFFICES ASSUME Init PROVE ParserInv
  OBVIOUS
<1>1. line = <<>> /\ buffer_ = <<>> /\ sent = <<>> /\ executed = <<>> /\ spi = TRUE
      /\ frame_size_ = 0 /\ mpc = "usb"
  BY DEF Init
<1>2. ParserTypes
  BY <1>1 DEF ParserTypes
<1>3. Pending = <<>> /\ Len(Pending) = 0
  BY <1>1 DEF Pending
<1>4. Stream = <<>>
  BY <1>1 DEF Stream, Filled
<1>5. InStep
  <2>1. Len(executed) = 0 /\ Len(sent) = 0 /\ Len(buffer_) = 0
    BY <1>1
  <2>2. Laid(Stream, Pending)
    BY <1>3, <1>4, LaidNone
  <2>3. \A i \in 1..Len(executed) : executed[i] = sent[i]
    BY <1>1
  <2> QED BY <1>1, <1>3, <2>1, <2>2, <2>3 DEF InStep
<1>6. ModesKept
  BY <1>1 DEF ModesKept, SpiAfter
<1> QED BY <1>1, <1>2, <1>5, <1>6 DEF ParserInv, NeverHung

-----------------------------------------------------------------------------
(* A frame is sent *)

\* The bytes of the frame come last, also when bytes that are no command precede them.
LEMMA StreamSent ==
  ASSUME ParserInv, NEW f \in Frames, HostSends(f)
  PROVE  Stream' = Stream \o f /\ line' \in Seq(Byte)
<1>1. line \in Seq(Byte) /\ buffer_ \in Seq(Byte) /\ buffer_' = buffer_
  BY DEF ParserInv, ParserTypes, HostSends, parserVars
<1>2. f \in Seq(Byte) /\ f # <<>> /\ f[1] # SERIAL_END_COMMANDS
  BY FrameShape, Zenon
<1>3. PICK fill \in {<<>>, <<SERIAL_END_COMMANDS>>} :
        (fill = <<>> \/ line = <<>>) /\ line' = line \o fill \o f
  BY Zenon DEF HostSends
<1>4. CASE fill = <<>>
  <2>1. line' = line \o f /\ line' \in Seq(Byte) /\ line' # <<>>
    <3>1. line \o fill = line
      BY <1>1, <1>4
    <3> QED BY <1>1, <1>2, <1>3, <3>1
  <2>2. line # <<>> => Head(line') = Head(line) /\ Tail(line') = Tail(line) \o f
    BY <1>1, <1>2, <2>1
  <2>3. line = <<>> => Head(line') = f[1]
    BY <1>1, <1>2, <2>1
  <2>4. Filled' <=> Filled
    BY <1>1, <1>2, <2>1, <2>2, <2>3 DEF Filled
  <2>5. buffer_ \o (line \o f) = (buffer_ \o line) \o f
    BY <1>1, <1>2
  <2>6. Filled => line # <<>>
    BY DEF Filled
  <2> QED BY <1>1, <2>1, <2>2, <2>4, <2>5, <2>6, Zenon DEF Stream
<1>5. CASE fill # <<>>
  <2>1. fill = <<SERIAL_END_COMMANDS>> /\ line = <<>>
    BY <1>3, <1>5
  <2>2. buffer_ = <<>>
    <3>1. Stream = buffer_
      BY <1>1, <2>1 DEF Stream, Filled
    <3>2. Pending \in Seq(Frames) /\ Laid(buffer_, Pending) /\ (Len(Pending) = 0 => buffer_ = <<>>)
      BY <3>1, Underway
    <3>3. Len(Pending) > 0 => Len(buffer_) < Len(Pending[1])
      BY DEF ParserInv, InStep
    <3>4. Len(Pending) > 0 => Len(Pending[1]) <= Len(buffer_) /\ Pending[1] \in Frames
      BY <1>1, <3>2, LaidFirst, SMTT(30)
    <3>5. Len(Pending) > 0 => Len(Pending[1]) \in Nat
      BY <3>4, FrameShape, Zenon
    <3>6. Len(Pending) \in Nat /\ Len(buffer_) \in Nat
      BY <1>1, <3>2
    <3> QED BY <3>2, <3>3, <3>4, <3>5, <3>6
  <2>3. Stream = <<>>
    BY <2>1, <2>2 DEF Stream, Filled
  <2>4. SERIAL_END_COMMANDS \in Byte
    BY DEF SERIAL_END_COMMANDS, Byte
  <2>5. line' = <<SERIAL_END_COMMANDS>> \o f
    BY <1>3, <2>1
  <2>6. line' \in Seq(Byte) /\ line' # <<>> /\ Head(line') = SERIAL_END_COMMANDS /\ Tail(line') = f
    BY <1>2, <2>4, <2>5
  <2>7. Stream' = f
    BY <1>1, <2>2, <2>6 DEF Stream, Filled
  <2>8. Stream \o f = f
    BY <1>2, <2>3
  <2> QED BY <2>6, <2>7, <2>8
<1> QED BY <1>4, <1>5

LEMMA HostSendsNext ==
  ASSUME ParserInv, NEW f \in Frames, HostSends(f)
  PROVE  ParserInv'
<1>1. /\ sent' = Append(sent, f) /\ buffer_' = buffer_ /\ executed' = executed
      /\ spi' = spi /\ frame_size_' = frame_size_ /\ mpc' = mpc
  BY DEF HostSends, parserVars
<1>2. /\ buffer_ \in Seq(Byte) /\ sent \in Seq(Frames) /\ executed \in Seq(Frames)
      /\ spi \in BOOLEAN
  BY DEF ParserInv, ParserTypes
<1>3. /\ Len(executed) \in Nat /\ Len(executed) <= Len(sent) /\ Len(buffer_) \in Nat
      /\ Pending \in Seq(Frames) /\ Stream \in Seq(Byte) /\ Laid(Stream, Pending)
      /\ Len(Pending) = 0 => buffer_ = <<>>
  BY Underway
<1>4. Stream' = Stream \o f /\ line' \in Seq(Byte)
  BY StreamSent
<1>5. /\ Len(sent) \in Nat /\ Len(sent') = Len(sent) + 1 /\ sent' \in Seq(Frames)
      /\ sent'[Len(sent) + 1] = f
      /\ \A i \in 1..Len(sent) : sent'[i] = sent[i]
  BY <1>1, <1>2
<1>6. Pending' = Append(Pending, f)
  <2>1. Pending' = SubSeq(Append(sent, f), Len(executed) + 1, Len(sent) + 1)
    BY <1>1, <1>5 DEF Pending
  <2> QED BY <1>2, <1>3, <2>1, RestMore, Zenon DEF Pending
<1>7. ParserTypes'
  BY <1>1, <1>2, <1>4, <1>5 DEF ParserTypes
<1>8. InStep'
  <2>1. /\ \A i \in 1..Len(executed) : executed[i] = sent[i]
        /\ Len(Pending) > 0 => Len(buffer_) < Len(Pending[1])
        /\ frame_size_ = IF Len(buffer_) < 2 THEN 0 ELSE Len(Pending[1])
    BY DEF ParserInv, InStep
  <2>2. Len(executed') <= Len(sent') /\ \A i \in 1..Len(executed') : executed'[i] = sent'[i]
    BY <1>1, <1>3, <1>5, <2>1
  <2>3. Laid(Stream', Pending')
    BY <1>3, <1>4, <1>6, LaidMore
  <2>4. Len(Pending) \in Nat /\ (Len(Pending) = 0 => Pending'[1] = f)
        /\ (Len(Pending) > 0 => Pending'[1] = Pending[1])
    BY <1>3, <1>6
  <2>5. Len(f) \in Nat /\ Len(f) > 1
    BY FrameShape, Zenon
  <2>6. CASE Len(Pending) = 0
    <3>1. Len(buffer_) = 0 /\ Pending'[1] = f
      BY <1>3, <2>4, <2>6
    <3>2. Len(buffer_') < Len(Pending'[1]) /\ Len(buffer_') < 2 /\ frame_size_' = 0
      BY <1>1, <2>1, <2>5, <3>1
    <3> QED BY <2>2, <2>3, <3>2 DEF InStep
  <2>7. CASE Len(Pending) > 0
    <3>1. Pending'[1] = Pending[1]
      BY <2>4, <2>7
    <3> QED BY <1>1, <2>1, <2>2, <2>3, <2>7, <3>1 DEF InStep
  <2> QED BY <2>4, <2>6, <2>7
<1>9. ModesKept'
  <2>1. /\ spi <=> SpiAfter(executed)
        /\ \A i \in 1..Len(sent) :
             sent[i][1] \in {SERIAL_DOWNLOAD_DATA, SERIAL_SPI_DATA}
               => SpiAfter(SubSeq(sent, 1, i - 1))
    BY DEF ParserInv, ModesKept
  <2>2. ASSUME NEW i \in 1..Len(sent'),
               sent'[i][1] \in {SERIAL_DOWNLOAD_DATA, SERIAL_SPI_DATA}
        PROVE  SpiAfter(SubSeq(sent', 1, i - 1))
    <3>1. i \in 1..Len(sent) \/ i = Len(sent) + 1
      BY <1>5
    <3>2. i - 1 \in 0..Len(sent)
      BY <1>5
    <3>3. SubSeq(sent', 1, i - 1) = SubSeq(sent, 1, i - 1)
      BY <1>1, <1>2, <3>2, FirstFrames
    <3>4. CASE i \in 1..Len(sent)
      BY <1>5, <2>1, <2>2, <3>3, <3>4, Zenon
    <3>5. CASE i = Len(sent) + 1
      <4>1. SpiAfter(sent)
        BY <1>5, <2>2, <3>5 DEF HostSends
      <4>2. i - 1 = Len(sent) /\ SubSeq(sent, 1, Len(sent)) = sent
        BY <1>2, <1>5, <3>5
      <4> QED BY <3>3, <4>1, <4>2, Zenon
    <3> QED BY <3>1, <3>4, <3>5
  <2> QED BY <1>1, <2>1, <2>2 DEF ModesKept
<1>10. NeverHung'
  BY <1>1 DEF ParserInv, NeverHung
<1> QED BY <1>7, <1>8, <1>9, <1>10 DEF ParserInv

-----------------------------------------------------------------------------
(* A byte is received *)

\* What is left of the bytes when the frame at their beginning is taken away.
LEMMA Behind ==
  ASSUME NEW s \in Seq(Byte), NEW t \in Seq(Byte)
  PROVE  SubSeq(s \o t, Len(s) + 1, Len(s \o t)) = t
<1> DEFINE x == SubSeq(s \o t, Len(s) + 1, Len(s \o t))
<1>1. /\ s \o t \in Seq(Byte) /\ Len(s \o t) = Len(s) + Len(t)
      /\ Len(s) \in Nat /\ Len(t) \in Nat
      /\ \A k \in 1..Len(t) : (s \o t)[Len(s) + k] = t[k]
  BY Joined
<1>2. /\ x \in Seq(Byte) /\ Len(x) = Len(t)
      /\ \A k \in 1..Len(t) : x[k] = (s \o t)[Len(s) + k]
  <2>1. Len(s) <= Len(s \o t) /\ Len(s \o t) - Len(s) = Len(t)
    BY <1>1
  <2> QED BY <1>1, <2>1, Cut
<1> HIDE DEF x
<1>3. x = t
  BY <1>1, <1>2, SameBytes
<1> QED BY <1>3 DEF x

\* The bytes of pending frames do not look like a byte that is no command.
LEMMA NotFilled ==
  ASSUME NEW s \in Seq(Byte), NEW fs \in Seq(Frames), Laid(s, fs), s # <<>>
  PROVE  Head(s) # SERIAL_END_COMMANDS /\ ~(Head(s) >= SERIAL_END_COMMANDS)
<1>1. s[1] \in Byte /\ s[1] < SERIAL_END_COMMANDS /\ s[1] # SERIAL_END_COMMANDS
  BY LaidBytes
<1>2. Head(s) = s[1]
  OBVIOUS
<1>3. ~(s[1] >= SERIAL_END_COMMANDS)
  <2>1. \A x \in 0..255 : x < 10 => ~(x >= 10)
    OBVIOUS
  <2> QED BY <1>1, <2>1, Zenon DEF Byte, SERIAL_END_COMMANDS
<1> QED BY <1>1, <1>2, <1>3

\* A byte that is no command is dropped.
LEMMA ByteDropped ==
  ASSUME ParserInv, line # <<>>, line' = Tail(line), UNCHANGED <<parserVars, mpc, sent>>,
         Len(buffer_) = 0, Head(line) >= SERIAL_END_COMMANDS
  PROVE  ParserInv'
<1>1. /\ sent' = sent /\ buffer_' = buffer_ /\ executed' = executed
      /\ spi' = spi /\ frame_size_' = frame_size_ /\ mpc' = mpc
  BY DEF parserVars
<1>2. line \in Seq(Byte) /\ buffer_ \in Seq(Byte)
  BY DEF ParserInv, ParserTypes
<1>3. buffer_ = <<>> /\ line' \in Seq(Byte)
  <2>1. buffer_ = <<>>
    BY <1>2
  <2>2. Tail(line) \in Seq(Byte)
    BY <1>2
  <2> QED BY <2>1, <2>2
<1>4. Pending \in Seq(Frames) /\ Stream \in Seq(Byte) /\ Laid(Stream, Pending)
  BY Underway
<1>5. Filled
  <2>1. SUFFICES ASSUME ~Filled PROVE FALSE
    OBVIOUS
  <2>2. Stream = line
    BY <1>2, <1>3, <2>1 DEF Stream
  <2> QED BY <1>4, <2>2, NotFilled
<1>6. Stream = line'
  BY <1>5 DEF Stream
<1>7. ~Filled'
  BY <1>4, <1>6, NotFilled, Zenon DEF Filled
<1>8. Stream' = Stream
  <2>1. Stream' = <<>> \o line'
    BY <1>1, <1>3, <1>7 DEF Stream
  <2> QED BY <1>3, <1>6, <2>1
<1>9. Pending' = Pending
  BY <1>1 DEF Pending
<1>10. ParserTypes'
  BY <1>1, <1>3 DEF ParserInv, ParserTypes
<1>11. InStep'
  BY <1>1, <1>8, <1>9 DEF ParserInv, InStep
<1>12. ModesKept' /\ NeverHung'
  BY <1>1 DEF ParserInv, ModesKept, NeverHung
<1> QED BY <1>10, <1>11, <1>12 DEF ParserInv

\* A byte that is taken is the next byte of the first pending frame.
LEMMA ByteTaken ==
  ASSUME ParserInv, line # <<>>, Len(buffer_) = 0 => Head(line) < SERIAL_END_COMMANDS
  PROVE  LET f == Pending[1]
             b == Append(buffer_, Head(line))
             frame == IF Len(buffer_) = 1 THEN FrameSize(Head(line)) ELSE frame_size_
         IN  /\ Len(Pending) > 0 /\ f \in Frames
             /\ b \in Seq(Byte) /\ Len(b) = Len(buffer_) + 1 /\ Len(b) <= Len(f)
             /\ \A k \in 1..Len(b) : b[k] = f[k]
             /\ Tail(line) \in Seq(Byte) /\ Stream = b \o Tail(line)
             /\ frame = IF Len(buffer_) = 0 THEN 0 ELSE Len(f)
<1> DEFINE f == Pending[1]
           b == Append(buffer_, Head(line))
           frame == IF Len(buffer_) = 1 THEN FrameSize(Head(line)) ELSE frame_size_
<1>1. line \in Seq(Byte) /\ buffer_ \in Seq(Byte) /\ Len(buffer_) \in Nat
  BY DEF ParserInv, ParserTypes
<1>2. Pending \in Seq(Frames) /\ Stream \in Seq(Byte) /\ Laid(Stream, Pending)
  BY Underway
<1>3. Head(line) \in Byte /\ Tail(line) \in Seq(Byte)
  BY <1>1
<1>4. ~Filled
  <2>1. ASSUME Filled PROVE FALSE
    <3>1. Len(buffer_) = 0 /\ Head(line) = SERIAL_END_COMMANDS
      BY <2>1 DEF Filled
    <3>2. SERIAL_END_COMMANDS < SERIAL_END_COMMANDS
      BY <3>1
    <3> QED BY <3>2 DEF SERIAL_END_COMMANDS
  <2> QED BY <2>1
<1>5. Stream = buffer_ \o line
  BY <1>4 DEF Stream
<1>6. b \in Seq(Byte) /\ Len(b) = Len(buffer_) + 1 /\ Stream = b \o Tail(line)
  <2>1. b \in Seq(Byte) /\ Len(b) = Len(buffer_) + 1
    BY <1>1, <1>3
  <2>2. b \o Tail(line) = buffer_ \o line
    BY <1>1
  <2> QED BY <1>5, <2>1, <2>2
<1>7. Len(Pending) > 0
  <2>1. Stream # <<>>
    BY <1>1, <1>5
  <2>2. Len(Pending) # 0 /\ Len(Pending) \in Nat
    BY <1>2, <2>1, LaidBytes
  <2> QED BY <2>2
<1>8. f \in Frames /\ Len(f) <= Len(Stream) /\ \A k \in 1..Len(f) : Stream[k] = f[k]
  BY <1>2, <1>7, LaidFirst, SMTT(30)
<1>9. f \in Seq(Byte) /\ Len(f) \in Nat /\ Len(f) > 1 /\ f[2] \in Byte /\ Len(f) = f[2] + 2
      /\ Len(f) \in 2..255
  BY <1>8, FrameShape, Zenon
<1>10. Len(buffer_) < Len(f)
  BY <1>7 DEF ParserInv, InStep
<1>11. frame_size_ = IF Len(buffer_) < 2 THEN 0 ELSE Len(f)
  BY DEF ParserInv, InStep
<1>12. Len(b) <= Len(f) /\ Len(b) \in Nat
  BY <1>1, <1>6, <1>9, <1>10
<1> HIDE DEF f, b
<1>13. ASSUME NEW k \in 1..Len(b) PROVE b[k] = f[k]
  <2>1. Stream[k] = b[k]
    BY <1>3, <1>6, Joined
  <2>2. k \in 1..Len(f)
    BY <1>9, <1>12
  <2> QED BY <1>8, <2>1, <2>2
<1>14. frame = IF Len(buffer_) = 0 THEN 0 ELSE Len(f)
  <2>1. CASE Len(buffer_) = 1
    <3>1. b[2] = Head(line) /\ 2 \in 1..Len(b)
      <4>1. b[Len(buffer_) + 1] = Head(line) /\ Len(buffer_) + 1 \in 1..Len(b)
        BY <1>1, <1>3 DEF b
      <4>2. Len(buffer_) + 1 = 2
        BY <2>1
      <4> QED BY <4>1, <4>2
    <3>2. Head(line) = f[2]
      BY <1>13, <3>1
    <3>3. \A x \in Byte : x + 2 \in 2..255 => (x + 2) % 256 = x + 2
      BY DEF Byte
    <3>4. FrameSize(Head(line)) = Len(f)
      BY <1>9, <3>2, <3>3 DEF FrameSize
    <3> QED BY <2>1, <3>4
  <2>2. CASE Len(buffer_) # 1
    <3>1. \A n \in Nat : n # 1 => (n < 2 <=> n = 0)
      OBVIOUS
    <3>2. Len(buffer_) < 2 <=> Len(buffer_) = 0
      BY <1>1, <2>2, <3>1, Zenon
    <3> QED BY <1>11, <2>2, <3>2
  <2> QED BY <2>1, <2>2
<1> QED BY <1>3, <1>6, <1>7, <1>8, <1>12, <1>13, <1>14 DEF f, b

\* The frame is not complete yet.
LEMMA ByteAdded ==
  ASSUME ParserInv, line # <<>>, line' = Tail(line),
         Len(buffer_) = 0 => Head(line) < SERIAL_END_COMMANDS,
         NEW frame,
         frame = IF Len(buffer_) = 1 THEN FrameSize(Head(line)) ELSE frame_size_,
         Len(buffer_) + 1 # frame,
         buffer_' = Append(buffer_, Head(line)), frame_size_' = frame,
         UNCHANGED <<spi, executed, mpc, sent>>
  PROVE  ParserInv'
<1> DEFINE f == Pending[1]
           b == Append(buffer_, Head(line))
<1>1. /\ Len(Pending) > 0 /\ f \in Frames
      /\ b \in Seq(Byte) /\ Len(b) = Len(buffer_) + 1 /\ Len(b) <= Len(f)
      /\ Tail(line) \in Seq(Byte) /\ Stream = b \o Tail(line)
      /\ frame = IF Len(buffer_) = 0 THEN 0 ELSE Len(f)
  BY ByteTaken, Zenon
<1>2. Len(f) \in Nat /\ Len(f) > 1
  BY <1>1, FrameShape, Zenon
<1>3. Len(buffer_) \in Nat
  BY Underway
<1>4. buffer_' = b /\ b # <<>>
  <2>1. Len(b) # 0
    BY <1>1, <1>3
  <2> QED BY <2>1
<1>5. Stream' = Stream
  <2>1. ~Filled'
    BY <1>4 DEF Filled
  <2>2. Stream' = buffer_' \o line'
    BY <2>1, Zenon DEF Stream
  <2> QED BY <1>1, <1>4, <2>2, Zenon
<1>6. Pending' = Pending
  BY DEF Pending
<1> HIDE DEF f, b
<1>7. Len(b) < Len(f) /\ frame = IF Len(b) < 2 THEN 0 ELSE Len(f)
  <2> DEFINE n == Len(buffer_)
             m == Len(f)
             l == Len(b)
  <2>1. /\ n \in Nat /\ m \in Nat /\ m > 1 /\ l = n + 1 /\ l <= m /\ n + 1 # frame
        /\ frame = IF n = 0 THEN 0 ELSE m
    BY <1>1, <1>2, <1>3
  <2> HIDE DEF n, m, l
  <2>2. l < m /\ frame = IF l < 2 THEN 0 ELSE m
    BY <2>1
  <2> QED BY <2>2 DEF m, l
<1>8. ParserTypes'
  BY <1>1, <1>4 DEF ParserInv, ParserTypes
<1>9. InStep'
  <2>1. /\ Len(executed) <= Len(sent)
        /\ \A i \in 1..Len(executed) : executed[i] = sent[i]
        /\ Laid(Stream, Pending)
    BY DEF ParserInv, InStep
  <2>2. Len(buffer_') < Len(Pending'[1])
        /\ frame_size_' = IF Len(buffer_') < 2 THEN 0 ELSE Len(Pending'[1])
    BY <1>4, <1>6, <1>7 DEF f
  <2> QED BY <1>5, <1>6, <2>1, <2>2, SMTT(30) DEF InStep
<1>10. ModesKept' /\ NeverHung'
  BY DEF ParserInv, ModesKept, NeverHung
<1> QED BY <1>8, <1>9, <1>10 DEF ParserInv

\* A frame is complete: buffer_ holds it and nothing else.
LEMMA FrameComplete ==
  ASSUME ParserInv, line # <<>>, Len(buffer_) = 0 => Head(line) < SERIAL_END_COMMANDS,
         NEW frame,
         frame = IF Len(buffer_) = 1 THEN FrameSize(Head(line)) ELSE frame_size_,
         Len(buffer_) + 1 = frame
  PROVE  /\ Len(Pending) > 0 /\ Pending[1] \in Frames /\ Append(buffer_, Head(line)) = Pending[1]
         /\ Tail(line) \in Seq(Byte) /\ Stream = Pending[1] \o Tail(line)
<1> DEFINE f == Pending[1]
           b == Append(buffer_, Head(line))
<1>1. /\ Len(Pending) > 0 /\ f \in Frames
      /\ b \in Seq(Byte) /\ Len(b) = Len(buffer_) + 1
      /\ \A k \in 1..Len(b) : b[k] = f[k]
      /\ Tail(line) \in Seq(Byte) /\ Stream = b \o Tail(line)
      /\ frame = IF Len(buffer_) = 0 THEN 0 ELSE Len(f)
  BY ByteTaken, Zenon
<1>2. f \in Seq(Byte)
  BY <1>1, FrameShape, Zenon
<1>3. Len(buffer_) # 0
  <2>1. \A n \in Nat : n + 1 # 0
    OBVIOUS
  <2>2. Len(buffer_) \in Nat
    BY Underway
  <2> QED BY <1>1, <2>1, <2>2
<1>4. Len(b) = Len(f)
  BY <1>1, <1>3
<1> HIDE DEF f, b
<1>5. b = f
  BY <1>1, <1>2, <1>4, SameBytes, SMTT(30)
<1> QED BY <1>1, <1>5, Zenon DEF f, b

\* serialProcess removes the frame, and the host's frame before it keeps it from waiting.
LEMMA FrameProcessed ==
  ASSUME ParserInv, Len(Pending) > 0, Pending[1] \in Frames, serialProcess(Pending[1])
  PROVE  /\ buffer_' = <<>> /\ executed' = Append(executed, Pending[1])
         /\ spi' = SpiMode(Pending[1][1]) /\ mpc' = mpc
<1> DEFINE f == Pending[1]
<1>1. f \in Seq(Byte) /\ Len(f) \in Nat /\ Len(f) = f[2] + 2 /\ f[2] \in Byte
  BY FrameShape, Zenon
<1>2. Removes(f[1], f[2]) = f[2]
  BY FrameRemoved
<1>3. ~Hangs(f[1], f[2])
  <2>1. SUFFICES ASSUME f[1] \in {SERIAL_DOWNLOAD_DATA, SERIAL_SPI_DATA} PROVE spi
    BY DEF Hangs
  <2>2. /\ Len(executed) \in Nat /\ Len(Pending) = Len(sent) - Len(executed)
        /\ \A i \in 1..Len(Pending) : Pending[i] = sent[Len(executed) + i]
        /\ sent \in Seq(Frames) /\ executed \in Seq(Frames) /\ Len(executed) <= Len(sent)
        /\ Len(sent) \in Nat
    BY Underway DEF ParserInv, ParserTypes
  <2>3. Len(executed) + 1 \in 1..Len(sent) /\ (Len(executed) + 1) - 1 = Len(executed)
        /\ 1 \in 1..Len(Pending)
    BY <2>2
  <2>4. sent[Len(executed) + 1] = f
    BY <2>2, <2>3
  <2>5. SpiAfter(SubSeq(sent, 1, (Len(executed) + 1) - 1))
    BY <2>1, <2>3, <2>4 DEF ParserInv, ModesKept
  <2>6. SubSeq(sent, 1, Len(executed)) = executed
    BY <2>2, AllFrames DEF ParserInv, InStep
  <2>7. SpiAfter(executed)
    BY <2>3, <2>5, <2>6, Zenon
  <2> QED BY <2>7 DEF ParserInv, ModesKept
<1> HIDE DEF f
<1>4. /\ buffer_' = SubSeq(f, 3 + f[2], Len(f))
      /\ executed' = Append(executed, SubSeq(f, 1, 2 + f[2]))
      /\ spi' = SpiMode(f[1]) /\ mpc' = mpc
  BY <1>2, <1>3 DEF serialProcess, f
<1>5. 3 + f[2] = Len(f) + 1 /\ 2 + f[2] = Len(f)
  <2>1. \A x \in Byte : 3 + x = (x + 2) + 1 /\ 2 + x = x + 2
    BY DEF Byte
  <2> QED BY <1>1, <2>1
<1>6. SubSeq(f, Len(f) + 1, Len(f)) = <<>> /\ SubSeq(f, 1, Len(f)) = f
  BY <1>1
<1> QED BY <1>4, <1>5, <1>6, Zenon DEF f

LEMMA FrameTaken ==
  ASSUME ParserInv, line # <<>>, line' = Tail(line),
         Len(buffer_) = 0 => Head(line) < SERIAL_END_COMMANDS,
         NEW frame,
         frame = IF Len(buffer_) = 1 THEN FrameSize(Head(line)) ELSE frame_size_,
         Len(buffer_) + 1 = frame, frame_size_' = 0, sent' = sent,
         serialProcess(Append(buffer_, Head(line)))
  PROVE  ParserInv'
<1> DEFINE f == Pending[1]
           n == Len(executed)
<1>1. /\ Len(Pending) > 0 /\ f \in Frames /\ Append(buffer_, Head(line)) = f
      /\ line' \in Seq(Byte) /\ Stream = f \o line'
  BY FrameComplete
<1>2. /\ buffer_' = <<>> /\ executed' = Append(executed, f)
      /\ spi' = SpiMode(f[1]) /\ mpc' = mpc
  BY <1>1, FrameProcessed, Zenon
<1>3. /\ n \in Nat /\ n <= Len(sent) /\ Len(Pending) = Len(sent) - n
      /\ Pending \in Seq(Frames) /\ Stream \in Seq(Byte) /\ Laid(Stream, Pending)
      /\ \A i \in 1..Len(Pending) : Pending[i] = sent[n + i]
  BY Underway
<1>4. sent \in Seq(Frames) /\ Len(sent) \in Nat /\ executed \in Seq(Frames) /\ spi \in BOOLEAN
  BY DEF ParserInv, ParserTypes
<1>5. n < Len(sent) /\ sent[n + 1] = f
  <2>1. 1 \in 1..Len(Pending) /\ n < Len(sent)
    BY <1>1, <1>3, <1>4, SMTT(30)
  <2> QED BY <1>3, <2>1
<1>6. /\ executed' \in Seq(Frames) /\ Len(executed') = n + 1 /\ executed'[n + 1] = f
      /\ \A i \in 1..n : executed'[i] = executed[i]
  BY <1>1, <1>2, <1>4
<1>7. Pending' = Tail(Pending) /\ Pending' \in Seq(Frames)
  <2>1. Pending' = SubSeq(sent, (n + 1) + 1, Len(sent))
    BY <1>6 DEF Pending
  <2>2. Pending' = Tail(Pending)
    BY <1>3, <1>4, <1>5, <2>1, RestLess, Zenon DEF Pending
  <2>3. Pending # <<>>
    BY <1>1
  <2>4. Tail(Pending) \in Seq(Frames)
    BY <1>3, <2>3
  <2> QED BY <2>2, <2>4
<1>8. Laid(line', Pending')
  <2>1. Laid(SubSeq(Stream, Len(f) + 1, Len(Stream)), Tail(Pending))
    BY <1>1, <1>3, LaidFirst, Zenon
  <2>2. f \in Seq(Byte)
    BY <1>1, FrameShape, Zenon
  <2>3. SubSeq(Stream, Len(f) + 1, Len(Stream)) = line'
    BY <1>1, <2>2, Behind, Zenon
  <2> QED BY <1>7, <2>1, <2>3, Zenon
<1>9. Stream' = line'
  <2>1. ~Filled'
    BY <1>1, <1>7, <1>8, NotFilled, Zenon DEF Filled
  <2>2. Stream' = <<>> \o line'
    BY <1>2, <2>1 DEF Stream
  <2> QED BY <1>1, <2>2
<1> HIDE DEF f, n
<1>10. spi' \in BOOLEAN
  BY <1>2, <1>4, Zenon DEF SpiMode
<1>11. ParserTypes'
  <2>1. <<>> \in Seq(Byte)
    OBVIOUS
  <2> QED BY <1>1, <1>2, <1>4, <1>6, <1>10, <2>1 DEF ParserTypes
<1>12. InStep'
  <2>1. Len(executed') <= Len(sent')
    BY <1>3, <1>4, <1>5, <1>6
  <2>2. ASSUME NEW i \in 1..Len(executed') PROVE executed'[i] = sent'[i]
    <3>1. i \in 1..n \/ i = n + 1
      BY <1>3, <1>6
    <3>2. \A j \in 1..n : executed[j] = sent[j]
      BY DEF ParserInv, InStep, n
    <3> QED BY <1>5, <1>6, <3>1, <3>2
  <2>3. Len(buffer_') = 0
    BY <1>2
  <2>4. Len(Pending') > 0 => Len(buffer_') < Len(Pending'[1])
    <3>1. SUFFICES ASSUME Len(Pending') > 0 PROVE Len(Pending'[1]) > 0
      BY <2>3
    <3>2. Pending'[1] \in Frames
      BY <1>7, <3>1, SMTT(30)
    <3>3. Len(Pending'[1]) \in Nat /\ Len(Pending'[1]) > 1
      BY <3>2, FrameShape, Zenon
    <3> QED BY <3>3
  <2>5. frame_size_' = IF Len(buffer_') < 2 THEN 0 ELSE Len(Pending'[1])
    BY <2>3
  <2>6. Laid(Stream', Pending')
    BY <1>8, <1>9
  <2> QED BY <2>1, <2>2, <2>4, <2>5, <2>6 DEF InStep
<1>13. ModesKept'
  <2>1. spi <=> SpiAfter(executed)
    BY DEF ParserInv, ModesKept
  <2>2. SpiAfter(executed') <=> (SpiAfter(executed) \/ f[1] = SERIAL_USE_SPI)
                                  /\ f[1] # SERIAL_USE_USART
    BY <1>1, <1>2, <1>4, SpiAfterAppend
  <2>3. spi' <=> SpiAfter(executed')
    BY <1>2, <2>1, <2>2, Zenon DEF SpiMode
  <2> QED BY <2>3 DEF ParserInv, ModesKept
<1>14. NeverHung'
  BY <1>2 DEF ParserInv, NeverHung
<1> QED BY <1>11, <1>12, <1>13, <1>14 DEF ParserInv

LEMMA ReceiveNext ==
  ASSUME ParserInv, Receive
  PROVE  ParserInv'
<1> DEFINE frame == IF Len(buffer_) = 1 THEN FrameSize(Head(line)) ELSE frame_size_
<1>1. line # <<>> /\ line' = Tail(line) /\ sent' = sent
  BY DEF Receive
<1>2. \/ /\ Len(buffer_) = 0 /\ Head(line) >= SERIAL_END_COMMANDS
         /\ UNCHANGED <<parserVars, mpc, out>>
      \/ /\ Len(buffer_) = 0 => Head(line) < SERIAL_END_COMMANDS
         /\ Len(buffer_) + 1 # frame
         /\ buffer_' = Append(buffer_, Head(line)) /\ frame_size_' = frame
         /\ UNCHANGED <<spi, executed, answers, mpc, out>>
      \/ /\ Len(buffer_) = 0 => Head(line) < SERIAL_END_COMMANDS
         /\ Len(buffer_) + 1 = frame
         /\ frame_size_' = 0 /\ serialProcess(Append(buffer_, Head(line)))
  BY DEF Receive
<1>3. CASE /\ Len(buffer_) = 0 /\ Head(line) >= SERIAL_END_COMMANDS
           /\ UNCHANGED <<parserVars, mpc, out>>
  BY <1>1, <1>3, ByteDropped
<1>4. CASE /\ Len(buffer_) = 0 => Head(line) < SERIAL_END_COMMANDS
           /\ Len(buffer_) + 1 # frame
           /\ buffer_' = Append(buffer_, Head(line)) /\ frame_size_' = frame
           /\ UNCHANGED <<spi, executed, answers, mpc, out>>
  BY <1>1, <1>4, ByteAdded
<1>5. CASE /\ Len(buffer_) = 0 => Head(line) < SERIAL_END_COMMANDS
           /\ Len(buffer_) + 1 = frame
           /\ frame_size_' = 0 /\ serialProcess(Append(buffer_, Head(line)))
  BY <1>1, <1>5, FrameTaken
<1> QED BY <1>2, <1>3, <1>4, <1>5

-----------------------------------------------------------------------------
(* The steps together *)

\* Every other step leaves host and parser alone, and none of them waits for the SPI.
LEMMA OthersNext ==
  ASSUME ParserInv, UNCHANGED <<hostVars, parserVars>>, mpc' # "hung"
  PROVE  ParserInv'
<1>1. /\ line' = line /\ sent' = sent /\ buffer_' = buffer_ /\ executed' = executed
      /\ spi' = spi /\ frame_size_' = frame_size_
  BY DEF hostVars, parserVars
<1>2. Pending' = Pending /\ Stream' = Stream
  BY <1>1 DEF Pending, Stream, Filled
<1>3. ParserTypes'
  BY <1>1 DEF ParserInv, ParserTypes
<1>4. InStep'
  BY <1>1, <1>2 DEF ParserInv, InStep
<1>5. ModesKept'
  BY <1>1 DEF ParserInv, ModesKept
<1> QED BY <1>3, <1>4, <1>5 DEF ParserInv, NeverHung

LEMMA ParserNext == ParserInv /\ [Next]_vars => ParserInv'
<1> SUFFICES ASSUME ParserInv, [Next]_vars PROVE ParserInv'
  OBVIOUS
<1>1. mpc # "hung"
  BY DEF ParserInv, NeverHung
<1>2. CASE Receive
  BY <1>2, ReceiveNext
<1>3. ASSUME NEW f \in Frames, HostSends(f) PROVE ParserInv'
  BY <1>3, HostSendsNext
<1>4. CASE ReceiveEnds
  BY <1>4, OthersNext DEF ReceiveEnds
<1>5. CASE SendByte
  BY <1>1, <1>5, OthersNext DEF SendByte
<1>6. CASE SendEnds
  BY <1>6, OthersNext DEF SendEnds
<1>7. CASE ServiceIdle
  BY <1>7, OthersNext DEF ServiceIdle
<1>8. CASE ServiceExpired
  BY <1>8, OthersNext DEF ServiceExpired
<1>9. CASE Move
  BY <1>1, <1>9, OthersNext DEF Move
<1>10. CASE Usart1Rx
  BY <1>1, <1>10, OthersNext DEF Usart1Rx
<1>11. CASE UNCHANGED vars
  BY <1>1, <1>11, OthersNext DEF vars
<1> QED BY <1>2, <1>3, <1>4, <1>5, <1>6, <1>7, <1>8, <1>9, <1>10, <1>11 DEF Next, MainLoop

LEMMA ParserInvariant == Spec => []ParserInv
BY ParserInit, ParserNext, PTL DEF Spec

LEMMA ParsedInStep == ParserInv => FramesParsed
<1> SUFFICES ASSUME ParserInv PROVE FramesParsed
  OBVIOUS
<1>1. sent \in Seq(Frames) /\ executed \in Seq(Frames) /\ buffer_ \in Seq(Byte)
  BY DEF ParserInv, ParserTypes
<1>2. Len(executed) <= Len(sent) /\ \A i \in 1..Len(executed) : executed[i] = sent[i]
  BY DEF ParserInv, InStep
<1>3. SubSeq(sent, 1, Len(executed)) = executed
  BY <1>1, <1>2, AllFrames
<1>5. Len(buffer_) < BufSize
  <2>1. BufSize \in Nat /\ BufSize > 0
    BY SizesAssumption
  <2>2. Pending \in Seq(Frames) /\ Len(buffer_) \in Nat /\ (Len(Pending) = 0 => buffer_ = <<>>)
    BY Underway
  <2>3. CASE Len(Pending) = 0
    <3>1. Len(buffer_) = 0
      BY <2>2, <2>3
    <3> QED BY <2>1, <3>1
  <2>4. CASE Len(Pending) > 0
    <3>1. Pending[1] \in Frames
      BY <2>2, <2>4, SMTT(30)
    <3>2. Len(Pending[1]) \in Nat /\ Len(Pending[1]) <= BufSize
      BY <3>1, FrameShape, Zenon
    <3>3. Len(buffer_) < Len(Pending[1])
      BY <2>4 DEF ParserInv, InStep
    <3> QED BY <2>1, <2>2, <3>2, <3>3
  <2>5. Len(Pending) \in Nat
    BY <2>2
  <2> QED BY <2>3, <2>4, <2>5
<1> QED BY <1>2, <1>3, <1>5 DEF FramesParsed

\* Whatever well-formed frames the host sends, however far ahead and however they are
\* cut into packets, serialAddByte and serialProcess take out the same frames in the
\* same order, unknown commands included, and never fill buffer_ beyond its size.
THEOREM FramesStayParsed == Spec => []FramesParsed
BY ParserInvariant, ParsedInStep, PTL

\* The programmer never waits for a disabled SPI: when a frame with data for the SPI is
\* processed, the frames processed before it are those the host sent before it, so the
\* port is in the mode the host had set.
THEOREM SpiNeverHangs == Spec => []NeverHung
<1>1. ParserInv => NeverHung
  BY DEF ParserInv
<1> QED BY <1>1, ParserInvariant, PTL

-----------------------------------------------------------------------------
(* The decoder of the host *)

\* y is less than x.
Less == {ss \in Nat \X Nat : ss[1] < ss[2]}

\* A set of numbers that is not empty has a least element: the induction that the proofs
\* about the decoder rest on.
LEMMA LeastElement ==
  ASSUME NEW T, T \subseteq Nat, T # {}
  PROVE  \E x \in T : \A y \in T : x <= y
<1>1. IsWellFoundedOn(Less, Nat)
  BY NatLessThanWellFounded DEF OpToRel, Less
<1>2. PICK x \in T : \A y \in T : <<y, x>> \notin Less
  BY <1>1, WFMin, Zenon
<1>3. \A y \in T : ~(y < x)
  BY <1>2, Zenon DEF Less
<1> QED BY <1>3

\* The decoder reads only what is behind its place.
LEMMA DecodesAhead ==
  ASSUME NEW s \in Seq(Nat), NEW i \in 1..(Len(s) + 1), NEW g, NEW h,
         \A j \in (i + 1)..(Len(s) + 1) : g[j] = h[j]
  PROVE  DecodedAt(s, g, i) = DecodedAt(s, h, i)
<1>1. CASE i >= Len(s)
  BY <1>1 DEF DecodedAt
<1>2. CASE i < Len(s)
  <2> DEFINE next == i + 2 + s[i + 1]
             place == IF next > Len(s) THEN Len(s) + 1 ELSE next
  <2>1. s[i + 1] \in Nat
    BY <1>2
  <2>2. place \in (i + 1)..(Len(s) + 1)
    BY <1>2, <2>1, SMTT(30)
  <2>3. g[place] = h[place]
    BY <2>2
  <2> QED BY <1>2, <2>3 DEF DecodedAt
<1> QED BY <1>1, <1>2

\* g is the decoder from place k on.
Decodes(s, g, k) ==
  g = [i \in 1..(Len(s) + 1) |-> IF i < k THEN 0 ELSE DecodedAt(s, g, i)]

\* The recursion of DecodedFrom has a function that satisfies it: built from the end of the
\* stream backwards, no place is the last one without.
LEMMA DecoderDefined ==
  ASSUME NEW s \in Seq(Nat)
  PROVE  DecodedFrom(s) = [i \in 1..(Len(s) + 1) |-> DecodedAt(s, DecodedFrom(s), i)]
<1> DEFINE N == Len(s) + 1
           Partly(k) == \E g : Decodes(s, g, k)
           Missing == {d \in 0..N : ~Partly(N + 1 - d)}
<1>1. N \in Nat \ {0}
  OBVIOUS
<1>2. Partly(N + 1)
  <2>1. Decodes(s, [i \in 1..N |-> 0], N + 1)
    BY <1>1 DEF Decodes
  <2> QED BY <2>1
<1>3. ASSUME NEW k \in 1..N, Partly(k + 1) PROVE Partly(k)
  <2>1. PICK g : Decodes(s, g, k + 1)
    BY <1>3
  <2> DEFINE h == [i \in 1..N |->
                     IF i < k THEN 0 ELSE IF i = k THEN DecodedAt(s, g, k) ELSE g[i]]
  <2>2. ASSUME NEW i \in k..N PROVE h[i] = DecodedAt(s, h, i)
    <3>1. \A j \in (i + 1)..N : g[j] = h[j]
      BY <1>1
    <3>2. i \in 1..N
      BY <1>1
    <3>3. DecodedAt(s, g, i) = DecodedAt(s, h, i)
      <4> HIDE DEF h
      <4> QED BY <3>1, <3>2, DecodesAhead
    <3>4. CASE i = k
      <4>1. h[k] = DecodedAt(s, g, k)
        OBVIOUS
      <4> HIDE DEF h
      <4> QED BY <3>3, <3>4, <4>1
    <3>5. CASE i # k
      <4>1. h[i] = g[i]
        BY <3>5, <1>1
      <4>2. g[i] = DecodedAt(s, g, i)
        <5> HIDE DEF N
        <5>1. i \in 1..N /\ ~(i < k + 1)
          BY <3>5, <1>1
        <5> QED BY <5>1, <2>1, SMTT(30) DEF Decodes, N
      <4> QED BY <3>3, <4>1, <4>2
    <3> QED BY <3>4, <3>5
  <2>3. \A i \in 1..N : h[i] = IF i < k THEN 0 ELSE DecodedAt(s, h, i)
    <3> SUFFICES ASSUME NEW i \in 1..N PROVE h[i] = IF i < k THEN 0 ELSE DecodedAt(s, h, i)
      OBVIOUS
    <3>1. CASE i < k
      BY <3>1
    <3>2. CASE ~(i < k)
      <4>1. i \in k..N
        BY <3>2, <1>1
      <4>2. h[i] = DecodedAt(s, h, i)
        <5> HIDE DEF h
        <5> QED BY <4>1, <2>2
      <4> QED BY <3>2, <4>2
    <3> QED BY <3>1, <3>2
  <2>4. Decodes(s, h, k)
    BY <2>3 DEF Decodes
  <2> QED BY <2>4
<1> HIDE DEF Partly
<1>4. Missing = {}
  <2> SUFFICES ASSUME Missing # {} PROVE FALSE
    OBVIOUS
  <2>1. PICK d \in Missing : \A e \in Missing : d <= e
    <3>1. Missing \subseteq Nat
      BY <1>1
    <3> HIDE DEF Missing
    <3> QED BY <3>1, LeastElement, Zenon
  <2> HIDE DEF N
  <2>2. d \in 1..N
    BY <1>1, <1>2, <2>1
  <2>3. d - 1 \in 0..N /\ d - 1 \notin Missing
    BY <1>1, <2>1, <2>2, SMTT(30)
  <2>4. Partly((N + 1 - d) + 1)
    <3>1. N + 1 - (d - 1) = (N + 1 - d) + 1
      BY <1>1, <2>2
    <3> QED BY <2>3, <3>1
  <2>5. Partly(N + 1 - d)
    BY <1>1, <1>3, <2>2, <2>4
  <2> QED BY <2>1, <2>5
<1>5. PICK g : Decodes(s, g, 1)
  <2>1. Partly(N + 1 - N)
    BY <1>1, <1>4
  <2>2. N + 1 - N = 1
    BY <1>1
  <2> QED BY <2>1, <2>2 DEF Partly
<1>6. g = [i \in 1..N |-> DecodedAt(s, g, i)]
  BY <1>5, <1>1 DEF Decodes
<1> HIDE DEF N
<1> QED BY <1>6, Zenon DEF DecodedFrom, N

\* What the decoder reads at a place.
LEMMA DecodedThere ==
  ASSUME NEW s \in Seq(Nat), NEW i \in 1..(Len(s) + 1)
  PROVE  DecodedFrom(s)[i] = DecodedAt(s, DecodedFrom(s), i)
<1> DEFINE D == DecodedFrom(s)
           At(j) == DecodedAt(s, D, j)
<1>1. D = [j \in 1..(Len(s) + 1) |-> At(j)]
  BY DecoderDefined
<1> HIDE DEF D, At
<1>2. D[i] = At(i)
  BY <1>1
<1> QED BY <1>2 DEF D, At

\* Two sequences behind each other.
LEMMA JoinedNumbers ==
  ASSUME NEW s \in Seq(Nat), NEW t \in Seq(Nat)
  PROVE  /\ s \o t \in Seq(Nat) /\ Len(s \o t) = Len(s) + Len(t)
         /\ Len(s) \in Nat /\ Len(t) \in Nat
         /\ \A k \in 1..Len(s) : (s \o t)[k] = s[k]
         /\ \A k \in 1..Len(t) : (s \o t)[Len(s) + k] = t[k]
OBVIOUS

\* And three.
LEMMA JoinedThree ==
  ASSUME NEW s \in Seq(Nat), NEW t \in Seq(Nat), NEW u \in Seq(Nat)
  PROVE  s \o (t \o u) = (s \o t) \o u
BY SMTT(30)

\* A part of a sequence.
LEMMA Part ==
  ASSUME NEW s \in Seq(Nat), NEW m \in 1..(Len(s) + 1), NEW n \in 0..Len(s)
  PROVE  /\ SubSeq(s, m, n) \in Seq(Nat)
         /\ Len(SubSeq(s, m, n)) = IF m <= n THEN n - m + 1 ELSE 0
         /\ \A k \in 1..(n - m + 1) : SubSeq(s, m, n)[k] = s[m + k - 1]
<1>1. \A k \in m..n : s[k] \in Nat
  OBVIOUS
<1> QED BY <1>1, SubSeqProperties

\* The places in s where a frame starts, the end of s among them.
Starts(s, P) ==
  /\ P \subseteq 1..(Len(s) + 1) /\ 1 \in P /\ (Len(s) + 1) \in P
  /\ \A i \in P : i <= Len(s) => i < Len(s) /\ (i + 2 + s[i + 1]) \in P

\* s is a sequence of whole frames.
Whole(s) == \E P : Starts(s, P)

\* What a host can have read.
Streams == [answers : Seq(Nat), serial : Seq(Nat)]

\* The host has read this, and then a frame.
WithFrame(read, kind, data) ==
  IF kind = SERIAL_USART_DATA
    THEN [answers |-> read.answers, serial |-> read.serial \o data]
    ELSE [answers |-> Append(read.answers, kind), serial |-> read.serial]

\* From one start to the next.
LEMMA NextStart ==
  ASSUME NEW s \in Seq(Nat), NEW P, Starts(s, P), NEW i \in P, i <= Len(s)
  PROVE  /\ i \in 1..Len(s) /\ i + 1 \in 1..Len(s) /\ s[i] \in Nat /\ s[i + 1] \in Nat
         /\ i + 2 + s[i + 1] \in P /\ i + 2 + s[i + 1] \in (i + 2)..(Len(s) + 1)
<1>1. i \in 1..Len(s) /\ i < Len(s) /\ i + 2 + s[i + 1] \in P
  BY DEF Starts
<1>2. s[i + 1] \in Nat /\ s[i] \in Nat /\ i + 1 \in 1..Len(s)
  BY <1>1
<1>3. i + 2 + s[i + 1] \in (i + 2)..(Len(s) + 1)
  BY <1>1, <1>2, SMTT(30) DEF Starts
<1> QED BY <1>1, <1>2, <1>3

\* One frame, and then the rest.
LEMMA DecodedFirst ==
  ASSUME NEW s \in Seq(Nat), NEW P, Starts(s, P), NEW i \in P, i <= Len(s),
         NEW last \in Nat, i + 2 + s[i + 1] = last + 1
  PROVE  LET rest == DecodedFrom(s)[last + 1]
         IN  /\ SubSeq(s, i + 2, last) \in Seq(Nat)
             /\ DecodedFrom(s)[i] =
                  IF s[i] = SERIAL_USART_DATA
                    THEN [answers |-> rest.answers,
                          serial |-> SubSeq(s, i + 2, last) \o rest.serial]
                    ELSE [answers |-> <<s[i]>> \o rest.answers, serial |-> rest.serial]
<1> DEFINE next == i + 2 + s[i + 1]
<1>1. /\ i \in 1..Len(s) /\ i + 1 \in 1..Len(s) /\ s[i + 1] \in Nat /\ Len(s) \in Nat
      /\ next \in (i + 2)..(Len(s) + 1)
  BY NextStart
<1>2. next = last + 1 /\ last \in (i + 1)..Len(s)
  BY <1>1
<1>3. SubSeq(s, i + 2, last) \in Seq(Nat)
  <2>1. i + 2 \in 1..(Len(s) + 1) /\ last \in 0..Len(s)
    BY <1>1, <1>2
  <2> QED BY <2>1, Part, Zenon
<1>4. DecodedFrom(s)[i] = DecodedAt(s, DecodedFrom(s), i)
  <2>1. i \in 1..(Len(s) + 1)
    BY <1>1
  <2> QED BY <2>1, DecodedThere, Zenon
<1>5. ~(i >= Len(s))
  BY <1>1
<1>6. (IF next > Len(s) THEN Len(s) + 1 ELSE next) = next /\ next - 1 = last
  <2> HIDE DEF next
  <2> QED BY <1>1, <1>2, SMTT(30)
<1> QED BY <1>2, <1>3, <1>4, <1>5, <1>6, Zenon DEF DecodedAt

\* The bytes of a stream and one more frame.
LEMMA FrameAdded ==
  ASSUME NEW s \in Seq(Nat), NEW kind \in Nat, NEW data \in Seq(Nat)
  PROVE  LET t == s \o (<<kind, Len(data)>> \o data)
             m == Len(s)
             n == Len(data)
         IN  /\ m \in Nat /\ n \in Nat
             /\ t \in Seq(Nat) /\ Len(t) = m + 2 + n
             /\ \A k \in 1..m : t[k] = s[k]
             /\ t[m + 1] = kind /\ t[m + 2] = n
             /\ SubSeq(t, m + 3, m + 2 + n) = data
             /\ \A j \in 1..(m + 1), k \in 0..m : SubSeq(t, j, k) = SubSeq(s, j, k)
<1> DEFINE m == Len(s)
           n == Len(data)
           h == <<kind, n>>
           f == h \o data
           t == s \o f
<1>1. m \in Nat /\ n \in Nat
  OBVIOUS
<1>2. h \in Seq(Nat) /\ Len(h) = 2 /\ h[1] = kind /\ h[2] = n
  BY <1>1
<1> HIDE DEF n, h
<1>3. /\ f \in Seq(Nat) /\ Len(f) = Len(h) + Len(data)
      /\ \A k \in 1..Len(h) : f[k] = h[k]
      /\ \A k \in 1..Len(data) : f[Len(h) + k] = data[k]
  BY <1>2, JoinedNumbers, Zenon
<1> HIDE DEF f
<1>4. /\ t \in Seq(Nat) /\ Len(t) = Len(s) + Len(f)
      /\ \A k \in 1..Len(s) : t[k] = s[k]
      /\ \A k \in 1..Len(f) : t[Len(s) + k] = f[k]
  BY <1>3, JoinedNumbers, Zenon
<1> HIDE DEF t, m
<1>5. /\ Len(t) = m + 2 + n
      /\ \A k \in 1..m : t[k] = s[k] /\ s[k] \in Nat
      /\ \A k \in 1..(2 + n) : t[m + k] = f[k]
      /\ \A k \in 1..n : f[2 + k] = data[k]
      /\ f[1] = kind /\ f[2] = n
      /\ \A k \in 1..(m + 2 + n) : t[k] \in Nat
  <2>1. Len(f) = 2 + n
    BY <1>1, <1>2, <1>3 DEF n
  <2>2. Len(t) = m + 2 + n
    BY <1>1, <1>4, <2>1 DEF m
  <2>3. f[1] = kind /\ f[2] = n /\ \A k \in 1..n : f[2 + k] = data[k]
    BY <1>1, <1>2, <1>3 DEF n
  <2>4. \A k \in 1..(2 + n) : t[m + k] = f[k]
    BY <1>4, <2>1 DEF m
  <2>5. \A k \in 1..m : t[k] = s[k] /\ s[k] \in Nat
    BY <1>4, SMTT(30) DEF m
  <2>6. \A k \in 1..(m + 2 + n) : t[k] \in Nat
    BY <1>4, <2>2
  <2> QED BY <2>2, <2>3, <2>4, <2>5, <2>6
<1>6. t[m + 1] = kind /\ t[m + 2] = n
  BY <1>1, <1>5, SMTT(30)
<1>7. SubSeq(t, m + 3, m + 2 + n) = data
  <2> DEFINE a == m + 3
             b == m + 2 + n
             x == SubSeq(t, a, b)
  <2>1. a \in 1..(Len(t) + 1) /\ b \in 0..Len(t)
    BY <1>1, <1>5
  <2>2. b - a + 1 = n /\ (a <= b <=> n # 0)
    BY <1>1
  <2> HIDE DEF a, b
  <2>3. /\ x \in Seq(Nat) /\ Len(x) = (IF a <= b THEN b - a + 1 ELSE 0)
        /\ \A k \in 1..(b - a + 1) : x[k] = t[a + k - 1]
    BY <1>4, <2>1, Part, Zenon
  <2> HIDE DEF x
  <2>4. Len(x) = n
    BY <1>1, <2>2, <2>3
  <2>5. \A k \in 1..n : x[k] = data[k]
    <3> TAKE k \in 1..n
    <3>1. a + k - 1 = m + (2 + k) /\ 2 + k \in 1..(2 + n)
      BY <1>1 DEF a
    <3> QED BY <1>5, <2>2, <2>3, <3>1, ZenonT(30)
  <2> QED BY <2>3, <2>4, <2>5, SeqEqual, Zenon DEF a, b, x, n
<1>8. ASSUME NEW j \in 1..(m + 1), NEW k \in 0..m PROVE SubSeq(t, j, k) = SubSeq(s, j, k)
  <2> DEFINE x == SubSeq(t, j, k)
             y == SubSeq(s, j, k)
  <2>1. j \in 1..(Len(t) + 1) /\ k \in 0..Len(t) /\ j \in 1..(Len(s) + 1) /\ k \in 0..Len(s)
    BY <1>1, <1>5 DEF m
  <2>2. /\ x \in Seq(Nat) /\ Len(x) = (IF j <= k THEN k - j + 1 ELSE 0)
        /\ \A i \in 1..(k - j + 1) : x[i] = t[j + i - 1]
    BY <1>4, <2>1, Part, Zenon
  <2>3. /\ y \in Seq(Nat) /\ Len(y) = (IF j <= k THEN k - j + 1 ELSE 0)
        /\ \A i \in 1..(k - j + 1) : y[i] = s[j + i - 1]
    BY <2>1, Part, Zenon
  <2> HIDE DEF x, y
  <2>4. \A i \in 1..Len(x) : x[i] = y[i]
    <3> TAKE i \in 1..Len(x)
    <3>1. i \in 1..(k - j + 1) /\ j + i - 1 \in 1..m
      BY <1>1, <2>2
    <3> QED BY <1>5, <2>2, <2>3, <3>1, Zenon
  <2> QED BY <2>2, <2>3, <2>4, SeqEqual, Zenon DEF x, y
<1> QED BY <1>1, <1>4, <1>5, <1>6, <1>7, <1>8, Zenon DEF t, f, h, m, n

\* One more frame is read behind everything else.
LEMMA DecodedMore ==
  ASSUME NEW s \in Seq(Nat), NEW kind \in Nat, NEW data \in Seq(Nat), Whole(s)
  PROVE  LET t == s \o (<<kind, Len(data)>> \o data)
         IN  /\ Whole(t) /\ Decoded(s) \in Streams
             /\ Decoded(t) = WithFrame(Decoded(s), kind, data)
<1> DEFINE t == s \o (<<kind, Len(data)>> \o data)
           m == Len(s)
           n == Len(data)
<1>1. PICK P : Starts(s, P)
  BY DEF Whole
<1> DEFINE Q == P \cup {m + 3 + n}
           Read(i) == /\ DecodedFrom(s)[i] \in Streams
                      /\ DecodedFrom(t)[i] = WithFrame(DecodedFrom(s)[i], kind, data)
           Wrong == {d \in 0..m : m + 1 - d \in P /\ ~Read(m + 1 - d)}
<1>2. /\ m \in Nat /\ n \in Nat
      /\ t \in Seq(Nat) /\ Len(t) = m + 2 + n
      /\ \A k \in 1..m : t[k] = s[k]
      /\ t[m + 1] = kind /\ t[m + 2] = n
      /\ SubSeq(t, m + 3, m + 2 + n) = data
      /\ \A j \in 1..(m + 1), k \in 0..m : SubSeq(t, j, k) = SubSeq(s, j, k)
  BY FrameAdded, ZenonT(30)
<1> HIDE DEF t
<1>0. t \in Seq(Nat)
  BY <1>2
<1>3. P \subseteq 1..(m + 1) /\ 1 \in P /\ m + 1 \in P
  BY <1>1 DEF Starts
<1>4. \A i \in P : i <= m => /\ i \in 1..m /\ i + 1 \in 1..m
                             /\ s[i] \in Nat /\ s[i + 1] \in Nat
                             /\ i + 2 + s[i + 1] \in P /\ i + 2 + s[i + 1] \in (i + 2)..(m + 1)
  BY <1>1, NextStart
<1> HIDE DEF m, n
<1>5. Starts(t, Q)
  <2>1. Q \subseteq 1..(Len(t) + 1) /\ 1 \in Q /\ Len(t) + 1 \in Q
    BY <1>2, <1>3
  <2>2. ASSUME NEW i \in Q, i <= Len(t) PROVE i < Len(t) /\ i + 2 + t[i + 1] \in Q
    <3>1. CASE i \in P /\ i <= m
      <4>1. i + 1 \in 1..m /\ t[i + 1] = s[i + 1]
        BY <1>2, <1>4, <3>1, Zenon
      <4> QED BY <1>2, <1>4, <3>1, <4>1
    <3>2. CASE i = m + 1
      <4>1. i + 1 = m + 2 /\ i + 2 + n = m + 3 + n
        BY <1>2, <3>2
      <4> QED BY <1>2, <3>2, <4>1
    <3>3. i # m + 3 + n
      BY <1>2, <2>2
    <3>4. i \in 1..(m + 1)
      BY <1>3, <2>2, <3>3
    <3> QED BY <1>2, <2>2, <3>1, <3>2, <3>3, <3>4
  <2> QED BY <2>1, <2>2 DEF Starts
<1>6. Read(m + 1)
  <2> DEFINE empty == [answers |-> <<>>, serial |-> <<>>]
  <2>1. DecodedFrom(s)[m + 1] = empty
    <3>1. DecodedFrom(s)[m + 1] = DecodedAt(s, DecodedFrom(s), m + 1)
      BY <1>2, DecodedThere DEF m
    <3>2. m + 1 >= Len(s)
      BY <1>2 DEF m
    <3> QED BY <3>1, <3>2, Zenon DEF DecodedAt
  <2> DEFINE e == m + 2 + n
  <2>2. DecodedFrom(t)[e + 1] = empty
    <3>1. e + 1 \in 1..(Len(t) + 1) /\ e + 1 >= Len(t)
      BY <1>2
    <3>2. DecodedFrom(t)[e + 1] = DecodedAt(t, DecodedFrom(t), e + 1)
      <4> HIDE DEF e
      <4> QED BY <1>2, <3>1, DecodedThere
    <3> HIDE DEF e
    <3> QED BY <3>1, <3>2, Zenon DEF DecodedAt
  <2> DEFINE i == m + 1
  <2>3. i \in Q /\ i <= Len(t) /\ e \in Nat /\ i + 2 + t[i + 1] = e + 1
    <3>1. i + 1 = m + 2 /\ i + 2 + n = e + 1 /\ e \in Nat /\ i <= Len(t)
      BY <1>2
    <3> QED BY <1>2, <1>3, <3>1
  <2>4. t[i] = kind /\ SubSeq(t, i + 2, e) = data
    <3>1. i + 2 = m + 3
      BY <1>2
    <3> QED BY <1>2, <3>1
  <2> HIDE DEF e, empty, i, Q
  <2>5. DecodedFrom(t)[i] =
          IF kind = SERIAL_USART_DATA
            THEN [answers |-> empty.answers, serial |-> data \o empty.serial]
            ELSE [answers |-> <<kind>> \o empty.answers, serial |-> empty.serial]
    <3> DEFINE rest == DecodedFrom(t)[e + 1]
    <3>1. /\ SubSeq(t, i + 2, e) \in Seq(Nat)
          /\ DecodedFrom(t)[i] =
               IF t[i] = SERIAL_USART_DATA
                 THEN [answers |-> rest.answers, serial |-> SubSeq(t, i + 2, e) \o rest.serial]
                 ELSE [answers |-> <<t[i]>> \o rest.answers, serial |-> rest.serial]
      BY <1>0, <1>5, <2>3, DecodedFirst, ZenonT(30)
    <3> QED BY <2>2, <2>4, <3>1, Zenon
  <2>6. empty.answers = <<>> /\ empty.serial = <<>> /\ empty \in Streams
    BY DEF empty, Streams
  <2>7. data \o <<>> = <<>> \o data /\ <<kind>> \o <<>> = Append(<<>>, kind)
    OBVIOUS
  <2>8. DecodedFrom(t)[i] = WithFrame(empty, kind, data)
    BY <2>5, <2>6, <2>7, Zenon DEF WithFrame
  <2> QED BY <2>1, <2>6, <2>8 DEF i
<1>7. ASSUME NEW i \in P, i <= m, Read(i + 2 + s[i + 1]) PROVE Read(i)
  <2> DEFINE last == i + 1 + s[i + 1]
             rest == DecodedFrom(s)[last + 1]
             d == SubSeq(s, i + 2, last)
             r == WithFrame(rest, kind, data)
  <2>1. /\ i \in 1..m /\ i + 1 \in 1..m /\ s[i] \in Nat /\ s[i + 1] \in Nat
        /\ i + 2 + s[i + 1] = last + 1 /\ last \in Nat /\ last \in 0..m /\ i + 2 \in 1..(m + 1)
    <3>1. /\ i \in 1..m /\ i + 1 \in 1..m /\ s[i] \in Nat /\ s[i + 1] \in Nat
          /\ i + 2 + s[i + 1] \in (i + 2)..(m + 1)
      BY <1>4, <1>7
    <3> DEFINE c == s[i + 1]
    <3>2. c \in Nat /\ i + 2 + c \in (i + 2)..(m + 1) /\ last = i + 1 + c
      BY <3>1
    <3> HIDE DEF c, last
    <3>3. i + 2 + c = last + 1 /\ last \in Nat /\ last \in 0..m /\ i + 2 \in 1..(m + 1)
      BY <1>2, <3>1, <3>2
    <3> QED BY <3>1, <3>3 DEF c
  <2> HIDE DEF last
  <2>2. rest \in Streams /\ DecodedFrom(t)[last + 1] = r
    BY <1>7, <2>1
  <2>3. /\ d \in Seq(Nat)
        /\ DecodedFrom(s)[i] =
             IF s[i] = SERIAL_USART_DATA
               THEN [answers |-> rest.answers, serial |-> d \o rest.serial]
               ELSE [answers |-> <<s[i]>> \o rest.answers, serial |-> rest.serial]
    BY <1>1, <1>7, <2>1, DecodedFirst, ZenonT(30) DEF m
  <2>4. t[i] = s[i] /\ t[i + 1] = s[i + 1] /\ SubSeq(t, i + 2, last) = d
    BY <1>2, <2>1, Zenon
  <2>5. i \in Q /\ i <= Len(t)
    BY <1>2, <2>1
  <2>6. DecodedFrom(t)[i] =
          IF s[i] = SERIAL_USART_DATA
            THEN [answers |-> r.answers, serial |-> d \o r.serial]
            ELSE [answers |-> <<s[i]>> \o r.answers, serial |-> r.serial]
    <3> DEFINE u == DecodedFrom(t)[last + 1]
    <3>1. /\ SubSeq(t, i + 2, last) \in Seq(Nat)
          /\ DecodedFrom(t)[i] =
               IF t[i] = SERIAL_USART_DATA
                 THEN [answers |-> u.answers, serial |-> SubSeq(t, i + 2, last) \o u.serial]
                 ELSE [answers |-> <<t[i]>> \o u.answers, serial |-> u.serial]
      <4> HIDE DEF Q
      <4>1. i + 2 + t[i + 1] = last + 1
        BY <2>1, <2>4
      <4> QED BY <1>0, <1>5, <2>1, <2>5, <4>1, DecodedFirst, ZenonT(30)
    <3> HIDE DEF r, d, rest
    <3> QED BY <2>2, <2>4, <3>1, Zenon
  <2> HIDE DEF rest, d
  <2>7. rest.answers \in Seq(Nat) /\ rest.serial \in Seq(Nat) /\ <<s[i]>> \in Seq(Nat)
    BY <2>1, <2>2 DEF Streams
  <2>8. DecodedFrom(s)[i] \in Streams
    BY <2>3, <2>7 DEF Streams
  <2> DEFINE c == <<s[i]>>
             ra == rest.answers
             rs == rest.serial
  <2>9. c \in Seq(Nat) /\ ra \in Seq(Nat) /\ rs \in Seq(Nat)
    BY <2>7
  <2>10. d \o (rs \o data) = (d \o rs) \o data /\ c \o Append(ra, kind) = Append(c \o ra, kind)
    <3> HIDE DEF c, ra, rs
    <3>1. d \o (rs \o data) = (d \o rs) \o data
      BY <2>3, <2>9, JoinedThree, ZenonT(30)
    <3>2. c \o Append(ra, kind) = Append(c \o ra, kind)
      BY <2>9, SMTT(30)
    <3> QED BY <3>1, <3>2
  <2>11. CASE kind = SERIAL_USART_DATA
    <3>1. r.answers = ra /\ r.serial = rs \o data
      BY <2>11 DEF WithFrame
    <3> HIDE DEF r, c, ra, rs
    <3>2. DecodedFrom(t)[i] = [answers |-> DecodedFrom(s)[i].answers,
                               serial |-> DecodedFrom(s)[i].serial \o data]
      <4>1. CASE s[i] = SERIAL_USART_DATA
        <5>1. DecodedFrom(s)[i].answers = ra /\ DecodedFrom(s)[i].serial = d \o rs
          BY <2>3, <4>1, SMTT(30) DEF ra, rs
        <5> QED BY <2>6, <2>10, <3>1, <4>1, <5>1, Zenon
      <4>2. CASE s[i] # SERIAL_USART_DATA
        <5>1. DecodedFrom(s)[i].answers = c \o ra /\ DecodedFrom(s)[i].serial = rs
          BY <2>3, <4>2, SMTT(30) DEF ra, rs, c
        <5>2. <<s[i]>> = c
          BY DEF c
        <5> QED BY <2>6, <2>10, <3>1, <4>2, <5>1, <5>2, Zenon
      <4> QED BY <4>1, <4>2
    <3> QED BY <2>8, <2>11, <3>2, Zenon DEF WithFrame
  <2>12. CASE kind # SERIAL_USART_DATA
    <3>1. r.answers = Append(ra, kind) /\ r.serial = rs
      BY <2>12 DEF WithFrame
    <3> HIDE DEF r, c, ra, rs
    <3>2. DecodedFrom(t)[i] = [answers |-> Append(DecodedFrom(s)[i].answers, kind),
                               serial |-> DecodedFrom(s)[i].serial]
      <4>1. CASE s[i] = SERIAL_USART_DATA
        <5>1. DecodedFrom(s)[i].answers = ra /\ DecodedFrom(s)[i].serial = d \o rs
          BY <2>3, <4>1, SMTT(30) DEF ra, rs
        <5> QED BY <2>6, <2>10, <3>1, <4>1, <5>1, Zenon
      <4>2. CASE s[i] # SERIAL_USART_DATA
        <5>1. DecodedFrom(s)[i].answers = c \o ra /\ DecodedFrom(s)[i].serial = rs
          BY <2>3, <4>2, SMTT(30) DEF ra, rs, c
        <5>2. <<s[i]>> = c
          BY DEF c
        <5> QED BY <2>6, <2>10, <3>1, <4>2, <5>1, <5>2, Zenon
      <4> QED BY <4>1, <4>2
    <3> QED BY <2>8, <2>12, <3>2, Zenon DEF WithFrame
  <2> QED BY <2>11, <2>12
<1> HIDE DEF Read, Q
<1>8. Wrong = {}
  <2> SUFFICES ASSUME Wrong # {} PROVE FALSE
    OBVIOUS
  <2>1. PICK d \in Wrong : \A e \in Wrong : d <= e
    <3>1. Wrong \subseteq Nat
      BY <1>2
    <3> HIDE DEF Wrong
    <3> QED BY <3>1, LeastElement, Zenon
  <2> DEFINE i == m + 1 - d
  <2>2. i \in P /\ i \in 1..(m + 1) /\ ~Read(i) /\ d = m + 1 - i
    BY <1>2, <2>1
  <2>3. i <= m
    BY <1>2, <1>6, <2>2
  <2> HIDE DEF i
  <2> DEFINE next == i + 2 + s[i + 1]
             e == m + 1 - next
  <2>4. next \in P /\ next \in (i + 2)..(m + 1)
    BY <1>4, <2>2, <2>3
  <2>5. ~Read(next)
    BY <1>7, <2>2, <2>3
  <2> HIDE DEF next
  <2>6. e \in 0..m /\ m + 1 - e = next /\ ~(d <= e)
    BY <1>2, <2>2, <2>4
  <2> HIDE DEF e
  <2>7. e \in Wrong
    BY <2>4, <2>5, <2>6
  <2> QED BY <2>1, <2>6, <2>7
<1>9. Read(1)
  <2>1. m \in 0..m /\ m + 1 - m = 1
    BY <1>2
  <2> QED BY <1>3, <1>8, <2>1
<1>10. Whole(t) /\ Decoded(s) \in Streams /\ Decoded(t) = WithFrame(Decoded(s), kind, data)
  BY <1>5, <1>9 DEF Whole, Read, Decoded
<1> QED BY <1>10 DEF t

-----------------------------------------------------------------------------
(* The bytes of the serial line and the answers on their way to the host *)

\* The first of t goes behind s.
LEMMA HeadMoves ==
  ASSUME NEW s \in Seq(Nat), NEW t \in Seq(Nat), t # <<>>
  PROVE  /\ Head(t) \in Nat /\ Tail(t) \in Seq(Nat) /\ Len(Tail(t)) = Len(t) - 1
         /\ Append(s, Head(t)) \in Seq(Nat) /\ Append(s, Head(t)) \o Tail(t) = s \o t
BY SMTT(30)

\* The first n of s without the first of all.
LEMMA FirstOfTail ==
  ASSUME NEW s \in Seq(Nat), NEW n \in 1..Len(s)
  PROVE  SubSeq(s, 1, n) # <<>> /\ Head(SubSeq(s, 1, n)) = Head(s)
         /\ Tail(SubSeq(s, 1, n)) = SubSeq(Tail(s), 1, n - 1)
<1>1. SubSeq(s, 1, n) # <<>> /\ Head(SubSeq(s, 1, n)) = Head(s)
  OBVIOUS
<1>2. Tail(SubSeq(s, 1, n)) = SubSeq(Tail(s), 1, n - 1)
  OBVIOUS
<1> QED BY <1>1, <1>2

\* Those behind the first n are the same.
LEMMA LastOfTail ==
  ASSUME NEW s \in Seq(Nat), NEW n \in 1..Len(s)
  PROVE  SubSeq(Tail(s), n, Len(s) - 1) = SubSeq(s, n + 1, Len(s))
BY SMTT(30)

\* One more does not change the first n.
LEMMA FirstOfAppend ==
  ASSUME NEW s \in Seq(Nat), NEW n \in 0..Len(s), NEW x \in Nat
  PROVE  SubSeq(Append(s, x), 1, n) = SubSeq(s, 1, n)
OBVIOUS

\* It is behind the others.
LEMMA LastOfAppend ==
  ASSUME NEW s \in Seq(Nat), NEW n \in 0..Len(s), NEW x \in Nat
  PROVE  SubSeq(Append(s, x), n + 1, Len(s) + 1) = Append(SubSeq(s, n + 1, Len(s)), x)
<1> DEFINE m == Len(s)
           t == Append(s, x)
           p == SubSeq(s, n + 1, m)
           q == SubSeq(t, n + 1, m + 1)
           r == Append(p, x)
<1>1. /\ m \in Nat /\ t \in Seq(Nat) /\ Len(t) = m + 1 /\ t[m + 1] = x
      /\ \A k \in 1..m : t[k] = s[k]
  OBVIOUS
<1>2. n + 1 \in 1..(m + 1) /\ m \in 0..m
  BY <1>1
<1>3. /\ p \in Seq(Nat) /\ Len(p) = (IF n + 1 <= m THEN m - (n + 1) + 1 ELSE 0)
      /\ \A k \in 1..(m - (n + 1) + 1) : p[k] = s[n + 1 + k - 1]
  BY <1>2, Part, Zenon
<1> HIDE DEF t
<1>4. n + 1 \in 1..(Len(t) + 1) /\ m + 1 \in 0..Len(t)
  BY <1>1
<1>5. /\ q \in Seq(Nat) /\ Len(q) = (IF n + 1 <= m + 1 THEN m + 1 - (n + 1) + 1 ELSE 0)
      /\ \A k \in 1..(m + 1 - (n + 1) + 1) : q[k] = t[n + 1 + k - 1]
  <2> DEFINE a == n + 1
             b == m + 1
             u == SubSeq(t, a, b)
  <2>1. t \in Seq(Nat) /\ a \in 1..(Len(t) + 1) /\ b \in 0..Len(t)
    BY <1>1, <1>4
  <2> HIDE DEF a, b
  <2>2. /\ u \in Seq(Nat) /\ Len(u) = (IF a <= b THEN b - a + 1 ELSE 0)
        /\ \A k \in 1..(b - a + 1) : u[k] = t[a + k - 1]
    BY <2>1, Part, Zenon
  <2> QED BY <2>2 DEF a, b
<1> HIDE DEF m, p, q
<1>6. /\ r \in Seq(Nat) /\ Len(r) = Len(p) + 1 /\ r[Len(p) + 1] = x
      /\ \A k \in 1..Len(p) : r[k] = p[k]
  BY <1>3
<1>7. Len(p) = m - n /\ Len(q) = m - n + 1 /\ m - n \in Nat
  BY <1>1, <1>2, <1>3, <1>5
<1> HIDE DEF r
<1>8. ASSUME NEW k \in 1..Len(q) PROVE q[k] = r[k]
  <2>1. k \in 1..(m + 1 - (n + 1) + 1) /\ n + 1 + k - 1 = n + k
    BY <1>1, <1>2, <1>7
  <2>2. q[k] = t[n + k]
    BY <1>5, <2>1
  <2>3. CASE k = m - n + 1
    <3>1. n + k = m + 1
      BY <1>1, <1>7, <2>3
    <3> QED BY <1>1, <1>6, <1>7, <2>2, <2>3, <3>1, SMTT(30)
  <2>4. CASE k # m - n + 1
    <3>1. k \in 1..(m - n) /\ n + k \in 1..m /\ k \in 1..(m - (n + 1) + 1)
      BY <1>1, <1>7, <2>4
    <3>2. p[k] = s[n + k]
      BY <1>3, <2>1, <3>1
    <3> QED BY <1>1, <1>6, <1>7, <2>2, <3>1, <3>2
  <2> QED BY <2>3, <2>4
<1>9. q = r
  BY <1>5, <1>6, <1>7, <1>8, SeqEqual, Zenon
<1> QED BY <1>9, Zenon DEF q, r, p, t, m

\* Nothing, and everything.
LEMMA WholeParts ==
  ASSUME NEW s \in Seq(Nat)
  PROVE  /\ SubSeq(s, 1, 0) = <<>> /\ SubSeq(s, 1, Len(s)) = s
         /\ SubSeq(s, Len(s) + 1, Len(s)) = <<>> /\ s \o <<>> = s
OBVIOUS

\* What the host has got and is still to get of the frames begun, and the bytes of the
\* serial line that are in no frame yet.
ToHost == got \o out \o SubSeq(rx, 1, count)
Unsent == SubSeq(rx, count + 1, Len(rx))

SerialTypes ==
  /\ got \in Seq(Nat) /\ out \in Seq(Nat) /\ rx \in Seq(Nat) /\ usart \in Seq(Nat)
  /\ answers \in Seq(Nat) /\ quota \in Nat /\ count \in 0..Len(rx)

\* Only the loop of appService has a frame that is begun, and the loop that sends takes
\* no more than there is.
SerialInv ==
  /\ SerialTypes
  /\ mpc # "move" => count = 0
  /\ mpc = "send" => quota <= Len(out)
  /\ Whole(ToHost) /\ StreamDecodes

\* A step that leaves the stream as it is.
LEMMA StreamSame ==
  ASSUME SerialInv, SerialTypes', UNCHANGED <<answers, usart>>,
         ToHost' = ToHost, Unsent' = Unsent,
         (mpc # "move" => count = 0)', (mpc = "send" => quota <= Len(out))'
  PROVE  SerialInv'
BY Zenon DEF SerialInv, StreamDecodes, ToHost, Unsent

\* What is on its way to the host is a sequence of whole frames and can be read.
LEMMA HostRead ==
  ASSUME SerialInv
  PROVE  ToHost \in Seq(Nat) /\ Whole(ToHost) /\ Decoded(ToHost) \in Streams
<1> DEFINE none == <<>>
<1>1. none \in Seq(Nat) /\ 0 \in Nat
  OBVIOUS
<1> HIDE DEF none
<1>2. ToHost \in Seq(Nat) /\ Whole(ToHost)
  <2>1. SubSeq(rx, 1, count) \in Seq(Nat)
    BY Part DEF SerialInv, SerialTypes
  <2> QED BY <2>1 DEF SerialInv, SerialTypes, ToHost
<1> QED BY <1>1, <1>2, DecodedMore, Zenon

\* A step that appends a frame.
LEMMA StreamMore ==
  ASSUME SerialInv, NEW kind \in Nat, NEW data \in Seq(Nat),
         ToHost' = ToHost \o (<<kind, Len(data)>> \o data)
  PROVE  /\ Whole(ToHost') /\ Decoded(ToHost) \in Streams
         /\ Decoded(ToHost)' = WithFrame(Decoded(ToHost), kind, data)
BY HostRead, DecodedMore

\* Nothing has come yet.
LEMMA StreamInit == Init => SerialInv
<1> SUFFICES ASSUME Init PROVE SerialInv
  OBVIOUS
<1>1. /\ got = <<>> /\ out = <<>> /\ rx = <<>> /\ usart = <<>> /\ answers = <<>>
      /\ count = 0 /\ quota = 0 /\ mpc = "usb"
  BY DEF Init
<1>2. SerialTypes
  BY <1>1 DEF SerialTypes
<1>3. ToHost = <<>> /\ SubSeq(rx, count + 1, Len(rx)) = <<>>
  BY <1>1 DEF ToHost
<1> DEFINE none == <<>>
<1>4. none \in Seq(Nat) /\ Len(none) = 0
  OBVIOUS
<1> HIDE DEF none
<1>5. Starts(none, {1})
  BY <1>4 DEF Starts
<1>6. Decoded(none) = [answers |-> <<>>, serial |-> <<>>]
  <2>1. 1 \in 1..(Len(none) + 1) /\ 1 >= Len(none)
    BY <1>4
  <2>2. DecodedFrom(none)[1] = DecodedAt(none, DecodedFrom(none), 1)
    BY <1>4, <2>1, DecodedThere, Zenon
  <2> QED BY <2>1, <2>2, Zenon DEF DecodedAt, Decoded
<1>7. StreamDecodes
  <2>1. ToHost = none
    BY <1>3 DEF none
  <2>2. Decoded(ToHost).answers = answers /\ Decoded(ToHost).serial = <<>>
    BY <1>1, <1>6, <2>1
  <2> QED BY <1>1, <1>3, <2>2 DEF StreamDecodes, ToHost
<1>8. Whole(ToHost)
  BY <1>3, <1>5 DEF Whole, none
<1> QED BY <1>1, <1>2, <1>7, <1>8 DEF SerialInv

\* An answer is a frame without data.
LEMMA AnswerStream ==
  ASSUME SerialInv, mpc # "move", NEW cmd, NEW answer \in Results(cmd),
         answers' = Append(answers, answer), out' = out \o <<answer, 0>>,
         UNCHANGED <<got, rx, usart, count, quota, mpc>>, mpc # "send"
  PROVE  SerialInv'
<1>1. answer \in Nat /\ answer # SERIAL_USART_DATA
  BY DEF Results, SERIAL_ACK, SERIAL_NAK, SERIAL_USART_DATA
<1>2. /\ got \in Seq(Nat) /\ out \in Seq(Nat) /\ rx \in Seq(Nat) /\ usart \in Seq(Nat)
      /\ answers \in Seq(Nat) /\ count = 0 /\ SubSeq(rx, 1, 0) = <<>>
  BY WholeParts DEF SerialInv, SerialTypes
<1> DEFINE f == <<answer, 0>>
           none == <<>>
<1>3. f \in Seq(Nat) /\ f = <<answer, Len(none)>> \o none /\ none \in Seq(Nat)
  BY <1>1
<1>4. out' = out \o f /\ out' \in Seq(Nat)
  BY <1>2, <1>3
<1> HIDE DEF f, none
<1>5. ToHost' = ToHost \o f
  <2>1. ToHost = got \o out \o <<>> /\ ToHost' = got \o (out \o f) \o <<>>
    BY <1>2, <1>4, Zenon DEF ToHost
  <2>2. got \o out \in Seq(Nat) /\ got \o (out \o f) \in Seq(Nat)
        /\ got \o (out \o f) = (got \o out) \o f
    <3>1. out \o f \in Seq(Nat) /\ got \o out \in Seq(Nat)
      BY <1>2, <1>3, JoinedNumbers, Zenon
    <3>2. got \o (out \o f) \in Seq(Nat)
      BY <1>2, <3>1, JoinedNumbers, Zenon
    <3>3. got \in Seq(Nat) /\ out \in Seq(Nat) /\ f \in Seq(Nat)
      BY <1>2, <1>3
    <3>4. got \o (out \o f) = (got \o out) \o f
      BY ONLY <3>3, JoinedThree, Zenon
    <3> QED BY <3>1, <3>2, <3>4, Zenon
  <2>3. got \o out \o <<>> = got \o out /\ got \o (out \o f) \o <<>> = got \o (out \o f)
    BY <2>2, WholeParts
  <2> QED BY <2>1, <2>2, <2>3
<1>6. /\ Whole(ToHost') /\ Decoded(ToHost) \in Streams
      /\ Decoded(ToHost)' = WithFrame(Decoded(ToHost), answer, none)
  BY <1>1, <1>3, <1>5, StreamMore, Zenon
<1>7. StreamDecodes'
  <2>1. /\ Decoded(ToHost)'.answers = Append(Decoded(ToHost).answers, answer)
        /\ Decoded(ToHost)'.serial = Decoded(ToHost).serial
    BY <1>1, <1>6 DEF WithFrame
  <2>2. /\ Decoded(ToHost).answers = answers
        /\ Decoded(ToHost).serial \o SubSeq(rx, count + 1, Len(rx)) = usart
    BY Zenon DEF SerialInv, StreamDecodes, ToHost
  <2> QED BY <2>1, <2>2, Zenon DEF StreamDecodes, ToHost
<1>8. SerialTypes'
  BY <1>1, <1>2, <1>4 DEF SerialInv, SerialTypes
<1> QED BY <1>2, <1>6, <1>7, <1>8 DEF SerialInv

\* appService begins a frame of serial data.
LEMMA ForwardStream ==
  ASSUME SerialInv, ServiceExpired
  PROVE  SerialInv'
<1> DEFINE n == Len(rx)
           h == <<SERIAL_USART_DATA, n>>
<1>1. /\ mpc = "service" /\ mpc' = "move" /\ count' = n /\ out' = out \o h
      /\ answers' = answers /\ rx' = rx /\ usart' = usart /\ quota' = quota /\ got' = got
  BY DEF ServiceExpired, parserVars, serialVars
<1>2. /\ got \in Seq(Nat) /\ out \in Seq(Nat) /\ rx \in Seq(Nat) /\ usart \in Seq(Nat)
      /\ answers \in Seq(Nat) /\ count = 0 /\ quota \in Nat
  BY <1>1 DEF SerialInv, SerialTypes
<1>3. /\ SubSeq(rx, 1, 0) = <<>> /\ SubSeq(rx, 1, n) = rx /\ SubSeq(rx, n + 1, n) = <<>>
      /\ rx \o <<>> = rx
  BY <1>2, WholeParts, Zenon
<1>4. h \in Seq(Nat) /\ n \in Nat /\ SERIAL_USART_DATA \in Nat
  BY <1>2 DEF SERIAL_USART_DATA
<1>5. out \o h \in Seq(Nat) /\ got \o out \in Seq(Nat)
  BY <1>2, <1>4, JoinedNumbers, Zenon
<1>6. ToHost' = ToHost \o (h \o rx)
  <2> HIDE DEF h, n
  <2>1. ToHost = got \o out \o <<>> /\ ToHost' = got \o (out \o h) \o rx
    BY <1>1, <1>2, <1>3, Zenon DEF ToHost
  <2>2. got \o out \o <<>> = got \o out
    BY <1>5, WholeParts
  <2>3. got \o (out \o h) = (got \o out) \o h
    <3>1. got \in Seq(Nat) /\ out \in Seq(Nat) /\ h \in Seq(Nat)
      BY <1>2, <1>4, Zenon
    <3> QED BY ONLY <3>1, JoinedThree, Zenon
  <2>4. (got \o out) \o (h \o rx) = ((got \o out) \o h) \o rx
    <3> DEFINE begun == got \o out
    <3>1. begun \in Seq(Nat) /\ h \in Seq(Nat) /\ rx \in Seq(Nat)
      BY <1>2, <1>4, <1>5
    <3> HIDE DEF begun
    <3>2. begun \o (h \o rx) = (begun \o h) \o rx
      BY ONLY <3>1, JoinedThree, Zenon
    <3> QED BY <3>2 DEF begun
  <2> QED BY <2>1, <2>2, <2>3, <2>4, Zenon
<1>7. /\ Whole(ToHost') /\ Decoded(ToHost) \in Streams
      /\ Decoded(ToHost)' = WithFrame(Decoded(ToHost), SERIAL_USART_DATA, rx)
  BY <1>2, <1>4, <1>6, StreamMore, Zenon
<1>8. StreamDecodes'
  <2>1. /\ Decoded(ToHost)'.answers = Decoded(ToHost).answers
        /\ Decoded(ToHost)'.serial = Decoded(ToHost).serial \o rx
    BY <1>7 DEF WithFrame
  <2>2. /\ Decoded(ToHost).answers = answers
        /\ Decoded(ToHost).serial \o SubSeq(rx, 0 + 1, n) = usart
    BY <1>2, Zenon DEF SerialInv, StreamDecodes, ToHost
  <2>3. 0 + 1 = 1
    OBVIOUS
  <2>4. Decoded(ToHost)'.serial \o <<>> = usart
    BY <1>2, <1>3, <2>1, <2>2, <2>3, WholeParts, Zenon
  <2> QED BY <1>1, <1>3, <2>1, <2>2, <2>4, Zenon DEF StreamDecodes, ToHost
<1>9. SerialTypes'
  BY <1>1, <1>2, <1>4, <1>5 DEF SerialTypes
<1> QED BY <1>1, <1>7, <1>8, <1>9 DEF SerialInv

\* A byte of the frame is moved from serial_rx_buffer to USARTtoUSB_Buffer.
LEMMA MoveStream ==
  ASSUME SerialInv, Move
  PROVE  SerialInv'
<1>1. /\ mpc = "move" /\ answers' = answers /\ usart' = usart /\ quota' = quota /\ got' = got
  BY DEF Move, parserVars
<1>2. /\ got \in Seq(Nat) /\ out \in Seq(Nat) /\ rx \in Seq(Nat) /\ usart \in Seq(Nat)
      /\ answers \in Seq(Nat) /\ count \in 0..Len(rx) /\ quota \in Nat
  BY DEF SerialInv, SerialTypes
<1>3. CASE count = 0
  <2>1. mpc' = "usb" /\ rx' = rx /\ out' = out /\ count' = count
    BY <1>3 DEF Move
  <2> QED BY <1>1, <1>2, <1>3, <2>1, StreamSame DEF SerialTypes, ToHost, Unsent
<1>4. CASE count # 0
  <2>1. out' = Append(out, Head(rx)) /\ rx' = Tail(rx) /\ count' = count - 1 /\ mpc' = mpc
    BY <1>4 DEF Move
  <2>2. rx # <<>> /\ count \in 1..Len(rx)
    BY <1>2, <1>4
  <2>3. SerialTypes'
    BY <1>1, <1>2, <2>1, <2>2, HeadMoves DEF SerialTypes
  <2>4. Unsent' = Unsent
    <3>1. SubSeq(Tail(rx), count, Len(rx) - 1) = SubSeq(rx, count + 1, Len(rx))
      BY <1>2, <2>2, LastOfTail
    <3>2. Len(Tail(rx)) = Len(rx) - 1 /\ count - 1 + 1 = count
      BY <1>2, <2>2
    <3> QED BY <2>1, <3>1, <3>2, Zenon DEF Unsent
  <2>5. ToHost' = ToHost
    <3> DEFINE p == SubSeq(rx, 1, count)
    <3>1. /\ p # <<>> /\ Head(p) = Head(rx) /\ Tail(p) = SubSeq(Tail(rx), 1, count - 1)
      BY <1>2, <2>2, FirstOfTail, Zenon
    <3>2. ToHost' = got \o Append(out, Head(p)) \o Tail(p)
      BY <1>1, <2>1, <3>1, Zenon DEF ToHost
    <3>6. p \in Seq(Nat)
      <4>1. 1 \in 1..(Len(rx) + 1) /\ count \in 0..Len(rx)
        BY <1>2
      <4> QED BY <1>2, <4>1, Part, Zenon
    <3> HIDE DEF p
    <3>3. /\ Append(out, Head(p)) \in Seq(Nat) /\ Tail(p) \in Seq(Nat)
          /\ Append(out, Head(p)) \o Tail(p) = out \o p
      BY <1>2, <3>1, <3>6, HeadMoves, Zenon
    <3>4. got \o Append(out, Head(p)) \o Tail(p) = got \o (out \o p)
      <4> DEFINE longer == Append(out, Head(p))
                 t == Tail(p)
      <4>1. got \in Seq(Nat) /\ longer \in Seq(Nat) /\ t \in Seq(Nat) /\ longer \o t = out \o p
        BY <1>2, <3>3, Zenon
      <4> HIDE DEF longer, t
      <4>2. got \o (longer \o t) = (got \o longer) \o t
        BY ONLY <4>1, JoinedThree, Zenon
      <4> QED BY ONLY <4>1, <4>2, Zenon DEF longer, t
    <3>5. got \o (out \o p) = ToHost
      <4>1. got \in Seq(Nat) /\ out \in Seq(Nat) /\ p \in Seq(Nat)
        BY <1>2, <3>6
      <4>2. got \o (out \o p) = (got \o out) \o p
        BY ONLY <4>1, JoinedThree, Zenon
      <4> QED BY <4>2, Zenon DEF ToHost, p
    <3> QED BY <3>2, <3>4, <3>5, Zenon
  <2> QED BY <1>1, <2>1, <2>3, <2>4, <2>5, StreamSame
<1> QED BY <1>3, <1>4

\* The host gets a byte.
LEMMA SendByteStream ==
  ASSUME SerialInv, SendByte
  PROVE  SerialInv'
<1>1. /\ mpc = "send" /\ mpc' = mpc /\ answers' = answers /\ usart' = usart /\ rx' = rx
      /\ count' = count /\ quota > 0 /\ quota' = quota - 1
      /\ got' = Append(got, Head(out)) /\ out' = Tail(out)
  BY DEF SendByte, parserVars, serialVars
<1>2. /\ got \in Seq(Nat) /\ out \in Seq(Nat) /\ rx \in Seq(Nat) /\ usart \in Seq(Nat)
      /\ answers \in Seq(Nat) /\ count \in 0..Len(rx) /\ count = 0 /\ quota \in Nat
      /\ quota <= Len(out)
  BY <1>1 DEF SerialInv, SerialTypes
<1>3. out # <<>>
  BY <1>1, <1>2
<1>4. /\ Head(out) \in Nat /\ Tail(out) \in Seq(Nat) /\ Len(Tail(out)) = Len(out) - 1
      /\ Append(got, Head(out)) \in Seq(Nat) /\ Append(got, Head(out)) \o Tail(out) = got \o out
  BY ONLY <1>2, <1>3, HeadMoves, Zenon
<1>5. SerialTypes'
  BY <1>1, <1>2, <1>4 DEF SerialTypes
<1>6. ToHost' = ToHost /\ Unsent' = Unsent
  BY <1>1, <1>4, Zenon DEF ToHost, Unsent
<1>7. (quota <= Len(out))'
  BY <1>1, <1>2, <1>4
<1> QED BY <1>1, <1>2, <1>5, <1>6, <1>7, StreamSame

\* A byte comes over the serial line, also while a frame is being moved.
LEMMA Usart1RxStream ==
  ASSUME SerialInv, Usart1Rx
  PROVE  SerialInv'
<1> DEFINE x == SERIAL_SPI_SELECT + Len(usart)
<1>1. /\ rx' = Append(rx, x) /\ usart' = Append(usart, x) /\ mpc' = mpc /\ answers' = answers
      /\ count' = count /\ quota' = quota /\ got' = got /\ out' = out
  BY DEF Usart1Rx, parserVars
<1>2. /\ got \in Seq(Nat) /\ out \in Seq(Nat) /\ rx \in Seq(Nat) /\ usart \in Seq(Nat)
      /\ answers \in Seq(Nat) /\ count \in 0..Len(rx) /\ quota \in Nat
  BY DEF SerialInv, SerialTypes
<1>3. x \in Nat
  BY <1>2 DEF SERIAL_SPI_SELECT
<1> HIDE DEF x
<1>4. /\ SubSeq(Append(rx, x), 1, count) = SubSeq(rx, 1, count)
      /\ SubSeq(Append(rx, x), count + 1, Len(rx) + 1) =
           Append(SubSeq(rx, count + 1, Len(rx)), x)
  BY ONLY <1>2, <1>3, FirstOfAppend, LastOfAppend, Zenon
<1>5. /\ Append(rx, x) \in Seq(Nat) /\ Len(Append(rx, x)) = Len(rx) + 1
      /\ Append(usart, x) \in Seq(Nat)
  BY ONLY <1>2, <1>3
<1>6. SerialTypes'
  BY <1>1, <1>2, <1>5 DEF SerialTypes
<1>7. ToHost' = ToHost /\ Unsent' = Append(Unsent, x)
  BY <1>1, <1>4, <1>5, Zenon DEF ToHost, Unsent
<1>8. Decoded(ToHost) \in Streams
  BY HostRead
<1>9. StreamDecodes'
  <2> DEFINE s == Decoded(ToHost).serial
  <2>1. Unsent \in Seq(Nat)
    <3>1. count + 1 \in 1..(Len(rx) + 1) /\ Len(rx) \in 0..Len(rx)
      BY ONLY <1>2
    <3> QED BY <1>2, <3>1, Part, Zenon DEF Unsent
  <2>2. s \in Seq(Nat)
    BY <1>8 DEF Streams
  <2>3. Decoded(ToHost).answers = answers /\ s \o Unsent = usart
    BY Zenon DEF SerialInv, StreamDecodes, ToHost, Unsent
  <2> HIDE DEF s
  <2>4. s \o Append(Unsent, x) = Append(s \o Unsent, x)
    BY ONLY <1>3, <2>1, <2>2
  <2> QED BY <1>1, <1>7, <2>3, <2>4, Zenon DEF StreamDecodes, ToHost, Unsent, s
<1> QED BY <1>1, <1>2, <1>6, <1>7, <1>9 DEF SerialInv

\* A byte from the host is received, and the command it completes is executed.
LEMMA ReceiveStream ==
  ASSUME SerialInv, Receive
  PROVE  SerialInv'
<1>1. /\ mpc = "usb" /\ got' = got /\ rx' = rx /\ usart' = usart /\ count' = count
      /\ quota' = quota
  BY DEF Receive, serialVars
<1>2. CASE answers' = answers /\ out' = out /\ mpc' \in {"usb", "hung"}
  <2>1. SerialTypes' /\ ToHost' = ToHost /\ Unsent' = Unsent
    BY <1>1, <1>2 DEF SerialInv, SerialTypes, ToHost, Unsent
  <2>2. (mpc # "move" => count = 0)' /\ (mpc = "send" => quota <= Len(out))'
    BY <1>1, <1>2 DEF SerialInv
  <2> QED BY <1>1, <1>2, <2>1, <2>2, StreamSame
<1>3. CASE \E cmd : \E answer \in Results(cmd) :
             answers' = Append(answers, answer) /\ out' = out \o <<answer, 0>> /\ mpc' = mpc
  BY <1>1, <1>3, AnswerStream
<1>4. CASE serialProcess(Append(buffer_, Head(line)))
  BY <1>1, <1>2, <1>3, <1>4, Zenon DEF serialProcess
<1> QED BY <1>1, <1>2, <1>4, Zenon DEF Receive, parserVars

\* The steps that only move the main loop, and those of the host.
LEMMA OtherStream ==
  ASSUME SerialInv,
         \/ ReceiveEnds \/ SendEnds \/ ServiceIdle
         \/ \E f \in Frames : HostSends(f)
         \/ UNCHANGED vars
  PROVE  SerialInv'
<1>1. /\ got' = got /\ rx' = rx /\ usart' = usart /\ count' = count /\ out' = out
      /\ answers' = answers
  BY Zenon DEF ReceiveEnds, SendEnds, ServiceIdle, HostSends, vars, parserVars, serialVars
<1>2. \/ mpc' = mpc /\ quota' = quota
      \/ mpc = "usb" /\ mpc' = "send" /\ quota' = Len(out)
      \/ mpc # "move" /\ mpc' \in {"usb", "service"} /\ quota' = quota
  BY Zenon DEF ReceiveEnds, SendEnds, ServiceIdle, HostSends, vars
<1>3. SerialTypes'
  BY <1>1, <1>2 DEF SerialInv, SerialTypes
<1>4. ToHost' = ToHost /\ Unsent' = Unsent
  BY <1>1, Zenon DEF ToHost, Unsent
<1>5. (mpc # "move" => count = 0)' /\ (mpc = "send" => quota <= Len(out))'
  BY <1>1, <1>2 DEF SerialInv, SerialTypes
<1> QED BY <1>1, <1>3, <1>4, <1>5, StreamSame

\* Whatever bytes come over the serial line, also while appService moves earlier ones, and
\* whatever answers the commands give between, a host that decodes the stream frame by
\* frame gets every answer and every byte, in order: the frame appService begins has as many
\* bytes as its size says, although the queue may have grown, and no answer is put into it.
THEOREM StreamStaysDecodable == Spec => []StreamDecodes
<1>1. SerialInv /\ [Next]_vars => SerialInv'
  BY ReceiveStream, SendByteStream, ForwardStream, MoveStream, Usart1RxStream, OtherStream, Zenon
  DEF Next, MainLoop
<1>2. SerialInv => StreamDecodes
  BY DEF SerialInv
<1> QED BY StreamInit, <1>1, <1>2, PTL DEF Spec
=============================================================================
