------------------------------ MODULE AsicWork -------------------------------
(***************************************************************************)
(* How a work unit gets into the chip: asicPrecalc computes six words from *)
(* the unit (avalon.c), pushWork sends twenty words (application.c), and   *)
(* send32 puts each bit on two lines: both low, then one of them high.     *)
(*                                                                         *)
(* Words are functions from the bits to {0, 1}, of W bits (32 in the code).*)
(* The rounds avalon.c keeps under "#if 0" are computed alongside, in      *)
(* history variables, from the same unit.                                  *)
(***************************************************************************)
EXTENDS Naturals, Sequences

CONSTANTS
  W,             \* bits of a word
  Plus(_, _),    \* addition of words, modulo 2^W
  K,             \* the three round constants
  CLOCK_CONFIG,  \* the two words that set the clock of the chip
  Midstates,     \* the midstates and data words of the units
  Datas

Bits == 0..(W - 1)
Word == [Bits -> {0, 1}]

ASSUME WidthAssumption == W \in Nat \ {0}
ASSUME PlusAssumption ==
  /\ \A x, y \in Word : Plus(x, y) \in Word /\ Plus(x, y) = Plus(y, x)
  /\ \A x, y, z \in Word : Plus(Plus(x, y), z) = Plus(x, Plus(y, z))
ASSUME UnitsAssumption ==
  /\ K \in [0..2 -> Word]
  /\ CLOCK_CONFIG \in Word \X Word
  /\ Midstates \subseteq [0..7 -> Word] /\ Datas \subseteq [0..2 -> Word]

VARIABLES
  midstate, data, precalc,  \* app->worktask
  n, m,                     \* the locals of asicPrecalc
  refm, refprecalc,         \* history: the same, computed by the reference rounds
  sent,                     \* words asicSend has finished
  bit,                      \* i of send32
  lines,                    \* <<DATA_P, DATA_N>>
  received                  \* the bits the chip has received since its reset

unitVars == <<midstate, data, precalc, n, m, refm, refprecalc>>
vars == <<unitVars, sent, bit, lines, received>>

-----------------------------------------------------------------------------
(* The operations of a uint32_t *)

And(x, y) == [i \in Bits |-> IF x[i] = 1 /\ y[i] = 1 THEN 1 ELSE 0]
Or(x, y) == [i \in Bits |-> IF x[i] = 1 \/ y[i] = 1 THEN 1 ELSE 0]
Xor(x, y) == [i \in Bits |-> IF x[i] # y[i] THEN 1 ELSE 0]
Not(x) == [i \in Bits |-> IF x[i] = 1 THEN 0 ELSE 1]
Zero == [i \in Bits |-> 0]

\* rotate, to the left.
rotate(x, y) == [i \in Bits |-> x[(i + (W - (y % W))) % W]]

-----------------------------------------------------------------------------
(* asicPrecalc *)

Sigma1(e) == Xor(Xor(rotate(e, 26), rotate(e, 21)), rotate(e, 7))
Sigma0(a) == Xor(Xor(rotate(a, 30), rotate(a, 19)), rotate(a, 10))

\* One reference round: a step of SHA-256 on all eight words.
RefT1(s, k, d) ==
  Plus(Plus(Plus(Plus(s[7], Sigma1(s[4])), Xor(And(s[4], s[5]), And(Not(s[4]), s[6]))), k), d)
RefT2(s) ==
  Plus(Sigma0(s[0]), Xor(Xor(And(s[0], s[1]), And(s[0], s[2])), And(s[1], s[2])))
RefRound(s, k, d) ==
  [i \in 0..7 |-> IF i = 0 THEN Plus(RefT1(s, k, d), RefT2(s))
                  ELSE IF i = 4 THEN Plus(s[3], RefT1(s, k, d)) ELSE s[i - 1]]

\* The macro r: (x-n) & 7.
r(x, round) == (x + (8 - round)) % 8

\* The first half of an optimised round: x + Sigma1, the new m[7-n].
Round_T1(s, round, k, d) ==
  LET x == Xor(s[6 - round], And(Xor(s[5 - round], s[6 - round]), s[4 - round]))
      e == s[4 - round]
      z == Xor(rotate(e, 7), Xor(rotate(e, 26), rotate(e, 21)))
  IN  Plus(z, Plus(Plus(Plus(x, k), d), s[7 - round]))

\* Faulty variant: the indices do not move with the round.
Round_T2_Fixed(s, round) ==
  LET y == Xor(rotate(s[0], 10), Xor(rotate(s[0], 19), rotate(s[0], 30)))
      x == Or(And(s[2], Or(s[0], s[1])), And(s[0], s[1]))
  IN  Plus(y, x)

\* The second half, after m[7-n] and m[3-n] have changed: y + x.
Round_T2(s, round) ==
  LET a == s[r(0, round)] b == s[r(1, round)] c == s[r(2, round)]
      y == Xor(rotate(a, 10), Xor(rotate(a, 19), rotate(a, 30)))
      x == Or(And(c, Or(a, b)), And(a, b))
  IN  Plus(y, x)

\* An optimised round: two words change, the others stay where they are.
OptRound(s, round, k, d) ==
  LET t1 == Round_T1(s, round, k, d)
      half == [s EXCEPT ![7 - round] = t1, ![3 - round] = Plus(s[3 - round], t1)]
  IN  [half EXCEPT ![7 - round] = Plus(t1, Round_T2(half, round))]

Init ==
  /\ midstate \in Midstates /\ data \in Datas
  /\ precalc = [i \in 0..5 |-> Zero] /\ refprecalc = precalc
  /\ n = 0 /\ m = midstate /\ refm = midstate
  /\ sent = 0 /\ bit = 0
  /\ lines = <<1, 1>> /\ received = <<>>

\* A round of the loop.
Round ==
  /\ n < 3 /\ n' = n + 1
  /\ m' = OptRound(m, n, K[n], data[n])
  /\ precalc' = [precalc EXCEPT ![2 - n] = m'[7 - n], ![5 - n] = m'[3 - n]]
  /\ refm' = RefRound(refm, K[n], data[n])
  /\ refprecalc' = [refprecalc EXCEPT ![2 - n] = refm'[0], ![5 - n] = refm'[4]]
  /\ UNCHANGED <<midstate, data, sent, bit, lines, received>>

-----------------------------------------------------------------------------
(* pushWork, asicSend and send32 *)

\* Faulty variant: one of the precalculated words is forgotten.
pushWork_Short ==
  CLOCK_CONFIG \o <<data[0], data[1], data[2]>> \o [i \in 1..4 |-> precalc[i]]
    \o [i \in 1..8 |-> midstate[i - 1]] \o <<precalc[0]>> \o <<Zero>>

\* The words that pushWork passes to asicSend, in order.
pushWork ==
  CLOCK_CONFIG \o <<data[0], data[1], data[2]>> \o [i \in 1..5 |-> precalc[i]]
    \o [i \in 1..8 |-> midstate[i - 1]] \o <<precalc[0]>> \o <<Zero>>

\* The chip: a bit is a rise of one line after both were low.
ChipSees(new) ==
  received' = IF lines = <<0, 0>> /\ new # <<0, 0>> THEN Append(received, new[1]) ELSE received

SetLines(new) == lines' = new /\ ChipSees(new)

\* Both lines low.
BitStart ==
  /\ n = 3 /\ sent < Len(pushWork) /\ lines # <<0, 0>>
  /\ SetLines(<<0, 0>>)
  /\ UNCHANGED <<unitVars, sent, bit>>

\* Faulty variant: the most significant bit first.
BitEnd_MsbFirst ==
  /\ lines = <<0, 0>>
  /\ SetLines(IF pushWork[sent + 1][(W - 1) - bit] = 1 THEN <<1, 0>> ELSE <<0, 1>>)
  /\ bit' = (bit + 1) % W
  /\ sent' = IF bit' = 0 THEN sent + 1 ELSE sent
  /\ UNCHANGED unitVars

\* One of them high; the least significant bit goes first.
BitEnd ==
  /\ lines = <<0, 0>>
  /\ SetLines(IF pushWork[sent + 1][bit] = 1 THEN <<1, 0>> ELSE <<0, 1>>)
  /\ bit' = (bit + 1) % W
  /\ sent' = IF bit' = 0 THEN sent + 1 ELSE sent
  /\ UNCHANGED unitVars

\* asicIdle.
Idle ==
  /\ sent = Len(pushWork) /\ lines # <<1, 1>>
  /\ SetLines(<<1, 1>>)
  /\ UNCHANGED <<unitVars, sent, bit>>

\* The next 'W': a new unit is stored, precalc keeps what the last one left there,
\* and the chip is reset before anything is sent.
NewWork ==
  /\ sent = Len(pushWork) /\ lines = <<1, 1>>
  /\ midstate' \in Midstates /\ data' \in Datas
  /\ n' = 0 /\ m' = midstate' /\ refm' = midstate'
  /\ sent' = 0 /\ bit' = 0 /\ received' = <<>>
  /\ UNCHANGED <<precalc, refprecalc, lines>>

Next == Round \/ BitStart \/ BitEnd \/ Idle \/ NewWork

Spec == Init /\ [][Next]_vars
FairSpec == Spec /\ WF_vars(Round \/ BitStart \/ BitEnd \/ Idle)

-----------------------------------------------------------------------------
(* Properties *)

\* The rounds that are compiled agree with the reference rounds under #if 0: the
\* words have moved by n places instead of being shifted, and the six results are
\* the same.
PrecalcAgrees ==
  /\ precalc = refprecalc
  /\ \A i \in 0..7 : refm[i] = m[r(i, n)]

\* The registers of the chip, in the order of the line: the clock, the data, five
\* of the six precalculated words, the midstate, the sixth and the first nonce.
Expected(k) ==
  CASE k \in 1..2   -> CLOCK_CONFIG[k]
    [] k \in 3..5   -> data[k - 3]
    [] k \in 6..10  -> refprecalc[k - 5]
    [] k \in 11..18 -> midstate[k - 11]
    [] k = 19       -> refprecalc[0]
    [] k = 20       -> Zero

\* What the chip has received at any moment is the beginning of the unit, word by
\* word and the least significant bit first, with the precalculated words of the
\* reference rounds: nothing of an earlier unit, no bit twice, none left out.
ChipGetsUnit ==
  \A j \in 1..Len(received) : received[j] = Expected(((j - 1) \div W) + 1)[(j - 1) % W]

\* Every unit is sent to its end, all twenty words of it, and the lines come to rest.
UnitIsSent == n = 0 ~> lines = <<1, 1>> /\ Len(received) = 20 * W
=============================================================================
