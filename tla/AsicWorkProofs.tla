--------------------------- MODULE AsicWorkProofs ----------------------------
(***************************************************************************)
(* The optimised rounds of asicPrecalc compute what the reference rounds   *)
(* compute, and the chip receives the words and bits of the unit, for      *)
(* words of every width, every unit and every addition that is commutative *)
(* and associative.                                                        *)
(***************************************************************************)
EXTENDS AsicWork, TLAPS

State == [0..7 -> Word]

-----------------------------------------------------------------------------
(* Words *)

\* The bit operations return words.
LEMMA WordOps ==
  ASSUME NEW x \in Word, NEW y \in Word
  PROVE  And(x, y) \in Word /\ Or(x, y) \in Word /\ Xor(x, y) \in Word /\ Not(x) \in Word
BY DEF And, Or, Xor, Not, Word

LEMMA RotateWord ==
  ASSUME NEW x \in Word, NEW y \in Nat
  PROVE  rotate(x, y) \in Word
<1>1. y % W \in 0..(W - 1)
  BY WidthAssumption
<1>2. \A i \in Bits : (i + (W - (y % W))) % W \in Bits
  BY <1>1, WidthAssumption DEF Bits
<1>3. QED BY <1>2 DEF rotate, Word

LEMMA SigmaWords ==
  ASSUME NEW x \in Word
  PROVE  Sigma0(x) \in Word /\ Sigma1(x) \in Word
BY RotateWord, WordOps, Zenon DEF Sigma0, Sigma1

\* The choice of the optimised round: one operation less than the reference.
LEMMA ChoiceAgrees ==
  ASSUME NEW e \in Word, NEW f \in Word, NEW g \in Word
  PROVE  Xor(g, And(Xor(f, g), e)) = Xor(And(e, f), And(Not(e), g))
<1>1. \A i \in Bits : e[i] \in {0, 1} /\ f[i] \in {0, 1} /\ g[i] \in {0, 1}
  BY DEF Word
<1>2. QED BY <1>1 DEF Xor, And, Not

\* The majority, with "or" instead of "exclusive or".
LEMMA MajorityAgrees ==
  ASSUME NEW a \in Word, NEW b \in Word, NEW c \in Word
  PROVE  Or(And(c, Or(a, b)), And(a, b)) = Xor(Xor(And(a, b), And(a, c)), And(b, c))
<1>1. \A i \in Bits : a[i] \in {0, 1} /\ b[i] \in {0, 1} /\ c[i] \in {0, 1}
  BY DEF Word
<1>2. QED BY <1>1 DEF Xor, And, Or

\* Three rotations may be combined in any order.
LEMMA XorAgrees ==
  ASSUME NEW x \in Word, NEW y \in Word, NEW z \in Word
  PROVE  Xor(z, Xor(x, y)) = Xor(Xor(x, y), z) /\ Xor(z, Xor(y, x)) = Xor(Xor(x, y), z)
<1>1. \A i \in Bits : x[i] \in {0, 1} /\ y[i] \in {0, 1} /\ z[i] \in {0, 1}
  BY DEF Word
<1>2. QED BY <1>1 DEF Xor

\* The five terms of t1 are added in different orders.
LEMMA SumAgrees ==
  ASSUME NEW z \in Word, NEW x \in Word, NEW k \in Word, NEW d \in Word, NEW h \in Word
  PROVE  Plus(z, Plus(Plus(Plus(x, k), d), h)) = Plus(Plus(Plus(Plus(h, z), x), k), d)
<1>1. Plus(x, k) \in Word /\ Plus(Plus(x, k), d) \in Word /\ Plus(h, z) \in Word
  BY PlusAssumption
<1>2. Plus(Plus(Plus(Plus(h, z), x), k), d) = Plus(Plus(h, z), Plus(Plus(x, k), d))
  <2>1. Plus(Plus(Plus(h, z), x), k) = Plus(Plus(h, z), Plus(x, k))
    BY <1>1, PlusAssumption
  <2>2. QED BY <1>1, <2>1, PlusAssumption
<1>3. Plus(Plus(Plus(x, k), d), h) = Plus(h, Plus(Plus(x, k), d))
  BY <1>1, PlusAssumption
<1>4. Plus(z, Plus(h, Plus(Plus(x, k), d))) = Plus(Plus(z, h), Plus(Plus(x, k), d))
  BY <1>1, PlusAssumption
<1>5. QED BY <1>1, <1>2, <1>3, <1>4, PlusAssumption

-----------------------------------------------------------------------------
(* A round *)

\* The words of the reference round, in the places where the optimised one has
\* left them.
Turned(ref, s, round) == \A i \in 0..7 : ref[i] = s[r(i, round)]

\* What the macro r computes in the three rounds.
LEMMA Places ==
  ASSUME NEW round \in 0..2
  PROVE  /\ \A i \in 3..7 : r(i, round) = i - round
         /\ r(0, round + 1) = 7 - round /\ r(4, round + 1) = 3 - round
         /\ \A i \in 1..7 : r(i, round + 1) = r(i - 1, round)
         /\ \A i \in 0..2 : r(i, round) # 7 - round /\ r(i, round) # 3 - round
         /\ \A i \in (1..7) \ {4} : r(i - 1, round) # 7 - round /\ r(i - 1, round) # 3 - round
         /\ \A i \in 0..7 : r(i, round) \in 0..7 /\ r(i, round + 1) \in 0..7
BY DEF r

\* The first half computes t1.
LEMMA T1Agrees ==
  ASSUME NEW s \in State, NEW ref \in State, NEW round \in 0..2,
         NEW k \in Word, NEW d \in Word, Turned(ref, s, round)
  PROVE  Round_T1(s, round, k, d) = RefT1(ref, k, d) /\ RefT1(ref, k, d) \in Word
<1> DEFINE e == ref[4] f == ref[5] g == ref[6] h == ref[7]
           x == Xor(g, And(Xor(f, g), e))
           z == Xor(rotate(e, 7), Xor(rotate(e, 26), rotate(e, 21)))
<1>1. s[4 - round] = e /\ s[5 - round] = f /\ s[6 - round] = g /\ s[7 - round] = h
  BY Places DEF Turned
<1>2. e \in Word /\ f \in Word /\ g \in Word /\ h \in Word
  BY DEF State
<1>3. z = Sigma1(e) /\ z \in Word
  <2>1. rotate(e, 7) \in Word /\ rotate(e, 26) \in Word /\ rotate(e, 21) \in Word
    BY <1>2, RotateWord
  <2>2. z = Xor(Xor(rotate(e, 26), rotate(e, 21)), rotate(e, 7))
    BY <2>1, XorAgrees
  <2>3. Sigma1(e) \in Word BY <1>2, SigmaWords
  <2>4. QED BY <2>2, <2>3 DEF Sigma1
<1>4. x = Xor(And(e, f), And(Not(e), g)) /\ x \in Word
  <2>1. x = Xor(And(e, f), And(Not(e), g))
    BY <1>2, ChoiceAgrees
  <2>2. Xor(f, g) \in Word
    BY <1>2, WordOps, Zenon
  <2>3. And(Xor(f, g), e) \in Word
    BY <1>2, <2>2, WordOps
  <2>4. x \in Word
    BY <1>2, <2>3, WordOps
  <2>5. QED BY <2>1, <2>4
<1>5. Round_T1(s, round, k, d) = Plus(z, Plus(Plus(Plus(x, k), d), h))
  BY <1>1 DEF Round_T1
<1>6. RefT1(ref, k, d) = Plus(Plus(Plus(Plus(h, z), x), k), d)
  BY <1>3, <1>4 DEF RefT1
<1> HIDE DEF x, z, e, f, g, h
<1>7. Plus(h, z) \in Word /\ Plus(Plus(h, z), x) \in Word /\ Plus(Plus(Plus(h, z), x), k) \in Word
  BY <1>2, <1>3, <1>4, PlusAssumption, SMTT(30)
<1>8. Plus(Plus(Plus(Plus(h, z), x), k), d) \in Word
  BY <1>7, PlusAssumption
<1>9. Plus(z, Plus(Plus(Plus(x, k), d), h)) = Plus(Plus(Plus(Plus(h, z), x), k), d)
  <2>1. z \in Word /\ x \in Word /\ h \in Word
    BY <1>2, <1>3, <1>4
  <2>2. QED BY <2>1, SumAgrees
<1>10. QED BY <1>5, <1>6, <1>8, <1>9

\* The second half computes t2; the words it reads have not changed yet.
LEMMA T2Agrees ==
  ASSUME NEW s \in State, NEW ref \in State, NEW round \in 0..2, NEW u, NEW v,
         Turned(ref, s, round)
  PROVE  /\ Round_T2([s EXCEPT ![7 - round] = u, ![3 - round] = v], round) = RefT2(ref)
         /\ RefT2(ref) \in Word
<1> DEFINE half == [s EXCEPT ![7 - round] = u, ![3 - round] = v]
           a == ref[0] b == ref[1] c == ref[2]
           y == Xor(rotate(a, 10), Xor(rotate(a, 19), rotate(a, 30)))
           x == Or(And(c, Or(a, b)), And(a, b))
<1>1. half[r(0, round)] = a /\ half[r(1, round)] = b /\ half[r(2, round)] = c
  BY Places DEF Turned, State
<1>2. a \in Word /\ b \in Word /\ c \in Word
  BY DEF State
<1>3. y = Sigma0(a) /\ y \in Word
  <2>1. rotate(a, 10) \in Word /\ rotate(a, 19) \in Word /\ rotate(a, 30) \in Word
    BY <1>2, RotateWord
  <2>2. y = Xor(Xor(rotate(a, 30), rotate(a, 19)), rotate(a, 10))
    BY <2>1, XorAgrees
  <2>3. Sigma0(a) \in Word BY <1>2, SigmaWords
  <2>4. QED BY <2>2, <2>3 DEF Sigma0
<1>4. x = Xor(Xor(And(a, b), And(a, c)), And(b, c)) /\ x \in Word
  <2>1. x = Xor(Xor(And(a, b), And(a, c)), And(b, c))
    BY <1>2, MajorityAgrees
  <2>2. Or(a, b) \in Word /\ And(a, b) \in Word
    BY <1>2, WordOps
  <2>3. And(c, Or(a, b)) \in Word
    BY <1>2, <2>2, WordOps, Zenon
  <2>4. x \in Word
    BY <2>2, <2>3, WordOps
  <2>5. QED BY <2>1, <2>4
<1>5. Round_T2(half, round) = Plus(y, x)
  BY <1>1 DEF Round_T2
<1>6. RefT2(ref) = Plus(y, x)
  BY <1>3, <1>4 DEF RefT2
<1>7. Plus(y, x) \in Word
  BY <1>3, <1>4, PlusAssumption
<1>8. QED BY <1>5, <1>6, <1>7

\* A round turns the words one place further, and its two results are those of the
\* reference round.
RoundsAgree(opt, ref, round) ==
  /\ opt \in State /\ ref \in State /\ Turned(ref, opt, round + 1)
  /\ opt[7 - round] = ref[0] /\ opt[3 - round] = ref[4]

LEMMA RoundAgrees ==
  ASSUME NEW s \in State, NEW ref \in State, NEW round \in 0..2,
         NEW k \in Word, NEW d \in Word, Turned(ref, s, round)
  PROVE  RoundsAgree(OptRound(s, round, k, d), RefRound(ref, k, d), round)
<1> DEFINE t1 == RefT1(ref, k, d)
           t2 == RefT2(ref)
           half == [s EXCEPT ![7 - round] = t1, ![3 - round] = Plus(s[3 - round], t1)]
           opt == [half EXCEPT ![7 - round] = Plus(t1, t2)]
<1>1. Round_T1(s, round, k, d) = t1 /\ t1 \in Word
  BY T1Agrees
<1>2. Round_T2(half, round) = t2 /\ t2 \in Word
  BY T2Agrees, SMTT(30)
<1>3. OptRound(s, round, k, d) = opt
  BY <1>1, <1>2, Zenon DEF OptRound
<1>4. ref[3] = s[3 - round] /\ s[3 - round] \in Word /\ 3 - round \in 0..7 /\ 7 - round \in 0..7
  BY Places DEF Turned, State
<1>5. Plus(t1, t2) \in Word /\ Plus(s[3 - round], t1) \in Word
  BY <1>1, <1>2, <1>4, PlusAssumption, Zenon
<1> DEFINE new == RefRound(ref, k, d)
<1>6. new \in State /\ new[0] = Plus(t1, t2) /\ new[4] = Plus(s[3 - round], t1)
      /\ \A i \in (1..7) \ {4} : new[i] = ref[i - 1]
  BY <1>1, <1>4, <1>5 DEF RefRound, State
<1> HIDE DEF t1, t2, new
<1>7. opt \in State
  BY <1>1, <1>4, <1>5 DEF State
<1>8. /\ opt[7 - round] = Plus(t1, t2)
      /\ opt[3 - round] = Plus(s[3 - round], t1)
      /\ \A j \in 0..7 : j # 7 - round /\ j # 3 - round => opt[j] = s[j]
  BY <1>4 DEF State
<1> HIDE DEF opt, half
<1>9. Turned(new, opt, round + 1)
  <2>1. new[0] = opt[r(0, round + 1)] /\ new[4] = opt[r(4, round + 1)]
    BY <1>6, <1>8, Places
  <2>2. ASSUME NEW i \in (1..7) \ {4} PROVE new[i] = opt[r(i, round + 1)]
    <3>1. new[i] = s[r(i - 1, round)]
      BY <1>6 DEF Turned
    <3>2. opt[r(i - 1, round)] = s[r(i - 1, round)]
      <4>1. /\ r(i - 1, round) \in 0..7
            /\ r(i - 1, round) # 7 - round /\ r(i - 1, round) # 3 - round
        BY Places
      <4>2. QED BY <1>8, <4>1
    <3>3. r(i, round + 1) = r(i - 1, round)
      BY Places
    <3>4. QED BY <3>1, <3>2, <3>3
  <2>3. QED BY <2>1, <2>2 DEF Turned
<1>10. QED BY <1>3, <1>6, <1>7, <1>8, <1>9 DEF new, RoundsAgree

-----------------------------------------------------------------------------
(* The invariant *)

UnitTypes ==
  /\ midstate \in State /\ data \in [0..2 -> Word]
  /\ n \in 0..3 /\ m \in State /\ refm \in State
  /\ precalc \in [0..5 -> Word]

PrecalcInv == UnitTypes /\ PrecalcAgrees

LEMMA PrecalcInit == Init => PrecalcInv
<1>1. Zero \in Word
  BY DEF Zero, Word
<1> QED BY <1>1, UnitsAssumption DEF Init, PrecalcInv, UnitTypes, PrecalcAgrees, State, r

LEMMA PrecalcNext ==
  ASSUME PrecalcInv, [Next]_vars
  PROVE  PrecalcInv'
<1> USE UnitsAssumption
<1>1. CASE Round
  <2>1. n \in 0..2 /\ K[n] \in Word /\ data[n] \in Word /\ n' = n + 1
    BY <1>1 DEF Round, PrecalcInv, UnitTypes
  <2>2. Turned(refm, m, n)
    BY DEF PrecalcInv, PrecalcAgrees, Turned
  <2>3. /\ m' \in State /\ refm' \in State /\ Turned(refm', m', n + 1)
        /\ m'[7 - n] = refm'[0] /\ m'[3 - n] = refm'[4]
    <3>1. m \in State /\ refm \in State
      BY DEF PrecalcInv, UnitTypes
    <3>2. m' = OptRound(m, n, K[n], data[n]) /\ refm' = RefRound(refm, K[n], data[n])
      BY <1>1 DEF Round
    <3>3. RoundsAgree(OptRound(m, n, K[n], data[n]), RefRound(refm, K[n], data[n]), n)
      BY <2>1, <2>2, <3>1, RoundAgrees, Zenon
    <3>4. QED BY <3>2, <3>3 DEF RoundsAgree
  <2>4. precalc' = refprecalc' /\ precalc' \in [0..5 -> Word]
    <3>1. m'[7 - n] \in Word /\ m'[3 - n] \in Word
      BY <2>1, <2>3 DEF State
    <3>2. /\ precalc' = [precalc EXCEPT ![2 - n] = m'[7 - n], ![5 - n] = m'[3 - n]]
          /\ precalc' = refprecalc' /\ precalc \in [0..5 -> Word]
      BY <1>1, <2>3 DEF Round, PrecalcInv, PrecalcAgrees, UnitTypes
    <3> QED BY <3>1, <3>2, Zenon
  <2>5. UnitTypes'
    BY <1>1, <2>1, <2>3, <2>4 DEF Round, PrecalcInv, UnitTypes
  <2>6. \A i \in 0..7 : refm'[i] = m'[r(i, n')]
    BY <2>1, <2>3 DEF Turned
  <2>7. PrecalcAgrees'
    BY <2>4, <2>6 DEF PrecalcAgrees, r
  <2>8. QED BY <2>5, <2>7 DEF PrecalcInv
<1>2. CASE NewWork
  BY <1>2 DEF NewWork, PrecalcInv, UnitTypes, PrecalcAgrees, State, r
<1>3. CASE UNCHANGED unitVars
  BY <1>3 DEF unitVars, PrecalcInv, UnitTypes, PrecalcAgrees
<1>4. QED
  BY <1>1, <1>2, <1>3 DEF Next, BitStart, BitEnd, Idle, vars, unitVars

LEMMA PrecalcInvariant == Spec => []PrecalcInv
BY PrecalcInit, PrecalcNext, PTL DEF Spec

\* PrecalcAgrees for every width and every unit: the rounds compiled in avalon.c
\* compute what the rounds under #if 0 compute.
THEOREM PrecalcRight == Spec => []PrecalcAgrees
BY PrecalcInvariant, PTL DEF PrecalcInv

-----------------------------------------------------------------------------
(* The words on the line *)

\* pushWork sends what the chip expects: twenty words.
LEMMA WordsSent ==
  ASSUME PrecalcInv
  PROVE  /\ Len(pushWork) = 20
         /\ \A k \in 1..20 : pushWork[k] = Expected(k) /\ pushWork[k] \in Word
<1> DEFINE c == CLOCK_CONFIG
           d == <<data[0], data[1], data[2]>>
           p == [i \in 1..5 |-> precalc[i]]
           h == [i \in 1..8 |-> midstate[i - 1]]
           q == <<precalc[0]>>
           z == <<Zero>>
           \* The lengths, under names.
           n1 == 1
           n2 == 2
           n3 == 3
           n5 == 5
           n8 == 8
           n10 == 10
           n18 == 18
           n19 == 19
           n20 == 20
<1>0. /\ n1 \in Nat /\ n2 \in Nat /\ n3 \in Nat /\ n5 \in Nat /\ n8 \in Nat /\ n10 \in Nat
      /\ n18 \in Nat /\ n19 \in Nat /\ n20 \in Nat
      /\ n2 + n3 = n5 /\ n5 + n5 = n10 /\ n10 + n8 = n18 /\ n18 + n1 = n19 /\ n19 + n1 = n20
  OBVIOUS
<1>1. c \in Seq(Word) /\ Len(c) = n2
  <2>1. PICK x \in Word, y \in Word : c = <<x, y>>
    BY UnitsAssumption
  <2> QED BY <2>1
<1>2. d \in Seq(Word) /\ Len(d) = n3
  BY DEF PrecalcInv, UnitTypes
<1>3. p \in Seq(Word) /\ Len(p) = n5
  BY DEF PrecalcInv, UnitTypes
<1>4. h \in Seq(Word) /\ Len(h) = n8
  BY DEF PrecalcInv, UnitTypes, State
<1>5. q \in Seq(Word) /\ Len(q) = n1
  BY DEF PrecalcInv, UnitTypes
<1>6. z \in Seq(Word) /\ Len(z) = n1
  BY DEF Zero, Word
<1>7. /\ \A k \in 1..3 : d[k] = data[k - 1]
      /\ \A k \in 1..5 : p[k] = precalc[k]
      /\ \A k \in 1..8 : h[k] = midstate[k - 1]
      /\ q[1] = precalc[0] /\ z[1] = Zero
  OBVIOUS
<1>8. pushWork = c \o d \o p \o h \o q \o z
  BY DEF pushWork
<1> HIDE DEF c, d, p, h, q, z, n1, n2, n3, n5, n8, n10, n18, n19, n20
<1> DEFINE s2 == c \o d
           s3 == s2 \o p
           s4 == s3 \o h
           s5 == s4 \o q
           s6 == s5 \o z
<1>9. s2 \in Seq(Word) /\ Len(s2) = n5
  BY <1>0, <1>1, <1>2
<1>10. /\ \A k \in 1..n2 : s2[k] = c[k]
      /\ \A k \in (n2 + 1)..n5 : s2[k] = d[k - n2]
  BY <1>0, <1>1, <1>2
<1> HIDE DEF s2
<1>11. s3 \in Seq(Word) /\ Len(s3) = n10
  BY <1>0, <1>9, <1>3
<1>12. /\ \A k \in 1..n5 : s3[k] = s2[k]
      /\ \A k \in (n5 + 1)..n10 : s3[k] = p[k - n5]
  BY <1>0, <1>9, <1>3
<1> HIDE DEF s3
<1>13. s4 \in Seq(Word) /\ Len(s4) = n18
  BY <1>0, <1>11, <1>4
<1>14. /\ \A k \in 1..n10 : s4[k] = s3[k]
      /\ \A k \in (n10 + 1)..n18 : s4[k] = h[k - n10]
  BY <1>0, <1>11, <1>4
<1> HIDE DEF s4
<1>15. s5 \in Seq(Word) /\ Len(s5) = n19
  BY <1>0, <1>13, <1>5
<1>16. /\ \A k \in 1..n18 : s5[k] = s4[k]
      /\ \A k \in (n18 + 1)..n19 : s5[k] = q[k - n18]
  BY <1>0, <1>13, <1>5
<1> HIDE DEF s5
<1>17. s6 \in Seq(Word) /\ Len(s6) = n20
  BY <1>0, <1>15, <1>6
<1>18. /\ \A k \in 1..n19 : s6[k] = s5[k]
      /\ \A k \in (n19 + 1)..n20 : s6[k] = z[k - n19]
  BY <1>0, <1>15, <1>6
<1> HIDE DEF s6
<1>19. pushWork = s6
  BY <1>8 DEF s2, s3, s4, s5, s6
<1>20. precalc = refprecalc
  BY DEF PrecalcInv, PrecalcAgrees
<1>21. \A k \in 1..n20 : pushWork[k] \in Word
  BY <1>17, <1>19
<1> USE DEF n1, n2, n3, n5, n8, n10, n18, n19, n20
<1>22. ASSUME NEW k \in 1..20 PROVE pushWork[k] = Expected(k)
  <2>1. CASE k \in 1..2
    BY <1>10, <1>12, <1>14, <1>16, <1>18, <1>19, <2>1 DEF Expected, c
  <2>2. CASE k \in 3..5
    <3>1. pushWork[k] = d[k - 2]
      BY <1>10, <1>12, <1>14, <1>16, <1>18, <1>19, <2>2
    <3> QED BY <1>7, <2>2, <3>1 DEF Expected
  <2>3. CASE k \in 6..10
    <3>1. pushWork[k] = p[k - 5]
      BY <1>12, <1>14, <1>16, <1>18, <1>19, <2>3
    <3> QED BY <1>7, <1>20, <2>3, <3>1 DEF Expected
  <2>4. CASE k \in 11..18
    <3>1. pushWork[k] = h[k - 10]
      BY <1>14, <1>16, <1>18, <1>19, <2>4
    <3> QED BY <1>7, <2>4, <3>1 DEF Expected
  <2>5. CASE k = 19
    <3>1. pushWork[k] = q[1]
      BY <1>16, <1>18, <1>19, <2>5
    <3> QED BY <1>7, <1>20, <2>5, <3>1 DEF Expected
  <2>6. CASE k = 20
    <3>1. pushWork[k] = z[1]
      BY <1>18, <1>19, <2>6
    <3> QED BY <1>7, <2>6, <3>1 DEF Expected
  <2> QED BY <2>1, <2>2, <2>3, <2>4, <2>5, <2>6
<1>23. Len(pushWork) = 20
  BY <1>17, <1>19
<1>24. \A k \in 1..20 : pushWork[k] \in Word
  BY <1>21
<1> QED BY <1>22, <1>23, <1>24

-----------------------------------------------------------------------------
(* The bits on the line *)

\* How far send32 has come; nothing is sent before the rounds are over.
LineInv ==
  /\ sent \in 0..20 /\ bit \in Bits /\ (sent = 20 => bit = 0)
  /\ received \in Seq({0, 1}) /\ Len(received) = sent * W + bit
  /\ n # 3 => sent = 0 /\ bit = 0
  /\ lines = <<0, 0>> => n = 3 /\ sent < 20

ChipInv == LineInv /\ ChipGetsUnit

\* The number of a bit says which bit of which word it is.
LEMMA WordAndBit ==
  ASSUME NEW k \in Nat, NEW b \in Bits
  PROVE  (k * W + b) \div W = k /\ (k * W + b) % W = b
BY WidthAssumption DEF Bits

LEMMA LineInit == Init => ChipInv
<1> SUFFICES ASSUME Init PROVE ChipInv
  OBVIOUS
<1>1. received = <<>> /\ sent = 0 /\ bit = 0 /\ lines = <<1, 1>> /\ n = 0
  BY DEF Init
<1>2. 0 \in Bits /\ 0 = 0 * W + 0 /\ Len(<<>>) = 0
  BY WidthAssumption DEF Bits
<1>3. LineInv
  BY <1>1, <1>2 DEF LineInv
<1>4. ChipGetsUnit
  BY <1>1 DEF ChipGetsUnit
<1> QED BY <1>3, <1>4 DEF ChipInv

\* A step that neither sends nor changes the unit.
LEMMA LineQuiet ==
  ASSUME ChipInv, UNCHANGED <<midstate, data, refprecalc, received>>
  PROVE  ChipGetsUnit'
BY Zenon DEF ChipInv, ChipGetsUnit, Expected

LEMMA LineNext ==
  ASSUME PrecalcInv, ChipInv, [Next]_vars
  PROVE  ChipInv'
<1> USE DEF ChipInv
<1>0. /\ W \in Nat /\ W > 0 /\ sent \in Nat /\ bit \in 0..(W - 1)
      /\ received \in Seq({0, 1}) /\ Len(received) = sent * W + bit
      /\ Len(pushWork) = 20
  BY WidthAssumption, WordsSent, SMTT(30) DEF LineInv, Bits
<1>1. CASE Round
  <2>1. /\ n \in 0..2 /\ n' = n + 1 /\ UNCHANGED <<sent, bit, lines, received>>
    BY <1>1 DEF Round, PrecalcInv, UnitTypes
  <2>2. n # 3
    BY <2>1
  <2>3. sent = 0 /\ bit = 0 /\ lines # <<0, 0>>
    BY <2>2 DEF LineInv
  <2>4. Len(received) = 0
    BY <1>0, <2>3
  <2>5. LineInv'
    BY <2>1, <2>3 DEF LineInv
  <2>6. ChipGetsUnit'
    BY <2>1, <2>4 DEF ChipGetsUnit
  <2> QED BY <2>5, <2>6
<1>2. CASE BitStart
  <2>1. n = 3 /\ sent < 20 /\ UNCHANGED <<unitVars, sent, bit, received>>
    BY <1>0, <1>2 DEF BitStart, SetLines, ChipSees
  <2>2. LineInv'
    BY <2>1 DEF LineInv, unitVars
  <2>3. ChipGetsUnit'
    BY <2>1, LineQuiet DEF unitVars
  <2> QED BY <2>2, <2>3
<1>3. CASE BitEnd
  <2>1. n = 3 /\ sent \in 0..19 /\ UNCHANGED unitVars
    BY <1>3 DEF BitEnd, LineInv
  <2> DEFINE b == pushWork[sent + 1][bit]
  <2>2. b = Expected(sent + 1)[bit] /\ b \in {0, 1}
    <3>1. sent + 1 \in 1..20
      BY <2>1
    <3>2. pushWork[sent + 1] = Expected(sent + 1) /\ pushWork[sent + 1] \in Word
      BY <3>1, WordsSent
    <3> QED BY <3>2 DEF Word, LineInv
  <2>3. received' = Append(received, b) /\ lines' # <<0, 0>>
    <3>1. CASE b = 1
      <4>1. lines = <<0, 0>> /\ lines' = <<1, 0>>
            /\ received' = IF lines = <<0, 0>> /\ <<1, 0>> # <<0, 0>>
                             THEN Append(received, <<1, 0>>[1]) ELSE received
        BY <1>3, <3>1 DEF BitEnd, SetLines, ChipSees
      <4> QED BY <3>1, <4>1
    <3>2. CASE b = 0
      <4>1. lines = <<0, 0>> /\ lines' = <<0, 1>>
            /\ received' = IF lines = <<0, 0>> /\ <<0, 1>> # <<0, 0>>
                             THEN Append(received, <<0, 1>>[1]) ELSE received
        BY <1>3, <3>2 DEF BitEnd, SetLines, ChipSees
      <4> QED BY <3>2, <4>1
    <3> QED BY <2>2, <3>1, <3>2
  <2>4. bit' = (bit + 1) % W /\ sent' = IF bit' = 0 THEN sent + 1 ELSE sent
    BY <1>3 DEF BitEnd
  <2> HIDE DEF b
  <2>5. /\ received' \in Seq({0, 1}) /\ Len(received') = Len(received) + 1
        /\ \A j \in 1..Len(received) : received'[j] = received[j]
        /\ received'[Len(received) + 1] = b
    BY <1>0, <2>2, <2>3
  <2>6. /\ sent' \in 0..20 /\ bit' \in Bits /\ (sent' = 20 => bit' = 0)
        /\ sent' * W + bit' = sent * W + bit + 1
    <3>1. CASE bit = W - 1
      <4>1. bit' = 0 /\ sent' = sent + 1
        BY <1>0, <2>4, <3>1
      <4>2. (sent + 1) * W + 0 = sent * W + (W - 1) + 1
        BY <1>0
      <4> QED BY <1>0, <2>1, <3>1, <4>1, <4>2 DEF Bits
    <3>2. CASE bit # W - 1
      <4>1. bit' = bit + 1 /\ bit' # 0 /\ sent' = sent
        <5>1. \A x \in 0..(W - 1) : x % W = x
          BY ONLY WidthAssumption
        <5>2. bit + 1 \in 0..(W - 1) /\ bit + 1 # 0
          BY <1>0, <3>2
        <5> QED BY <2>4, <5>1, <5>2
      <4> QED BY <1>0, <2>1, <3>2, <4>1 DEF Bits
    <3> QED BY <3>1, <3>2
  <2>7. LineInv'
    <3>1. n' = 3
      BY <2>1 DEF unitVars
    <3> QED BY <1>0, <2>3, <2>5, <2>6, <3>1, Zenon DEF LineInv
  <2>8. ASSUME NEW j \in 1..Len(received')
        PROVE  received'[j] = Expected(((j - 1) \div W) + 1)[(j - 1) % W]
    <3>1. CASE j \in 1..Len(received)
      BY <2>5, <3>1 DEF ChipGetsUnit
    <3>2. CASE j \notin 1..Len(received)
      <4>1. Len(received) \in Nat
        BY <1>0
      <4>2. j = Len(received) + 1 /\ j - 1 = sent * W + bit
        <5>1. j = Len(received) + 1
          BY <2>5, <3>2, <4>1
        <5>2. j - 1 = Len(received)
          BY <4>1, <5>1
        <5> QED BY <1>0, <5>1, <5>2
      <4>3. (j - 1) \div W = sent /\ (j - 1) % W = bit
        <5>1. (sent * W + bit) \div W = sent /\ (sent * W + bit) % W = bit
          BY <1>0, WordAndBit, Zenon DEF Bits
        <5> QED BY <4>2, <5>1
      <4> QED BY <2>2, <2>5, <4>2, <4>3
    <3> QED BY <3>1, <3>2
  <2>9. ChipGetsUnit'
    BY <2>1, <2>8, Zenon DEF ChipGetsUnit, Expected, unitVars
  <2> QED BY <2>7, <2>9
<1>4. CASE Idle
  <2>1. sent = 20 /\ lines' = <<1, 1>> /\ UNCHANGED <<unitVars, sent, bit>>
    BY <1>0, <1>4 DEF Idle, SetLines
  <2>2. UNCHANGED received
    BY <1>4, <2>1 DEF Idle, SetLines, ChipSees, LineInv
  <2>3. LineInv'
    BY <2>1, <2>2 DEF LineInv, unitVars
  <2>4. ChipGetsUnit'
    BY <2>1, <2>2, LineQuiet DEF unitVars
  <2> QED BY <2>3, <2>4
<1>5. CASE NewWork
  <2>1. /\ sent' = 0 /\ bit' = 0 /\ received' = <<>> /\ n' = 0 /\ lines' = <<1, 1>>
    BY <1>5 DEF NewWork
  <2>2. 0 \in Bits /\ 0 = 0 * W + 0 /\ Len(<<>>) = 0
    BY WidthAssumption DEF Bits
  <2>3. LineInv'
    BY <2>1, <2>2 DEF LineInv
  <2>4. ChipGetsUnit'
    BY <2>1 DEF ChipGetsUnit
  <2> QED BY <2>3, <2>4
<1>6. CASE UNCHANGED vars
  <2>1. LineInv'
    BY <1>6 DEF vars, unitVars, LineInv
  <2>2. ChipGetsUnit'
    BY <1>6, LineQuiet DEF vars, unitVars
  <2> QED BY <2>1, <2>2
<1> QED BY <1>1, <1>2, <1>3, <1>4, <1>5, <1>6 DEF Next

\* ChipGetsUnit for words of every width and every unit: what the chip has received is
\* the beginning of the twenty words of this unit, the least significant bit first, with
\* the words of the reference rounds.
THEOREM ChipReceivesUnit == Spec => []ChipGetsUnit
<1>1. PrecalcInv /\ ChipInv /\ [Next]_vars => ChipInv'
  BY LineNext
<1> QED BY <1>1, LineInit, PrecalcInvariant, PTL DEF Spec, ChipInv

-----------------------------------------------------------------------------
(* How long a unit takes *)

\* A unit is sent and the lines are at rest.
UnitSent == lines = <<1, 1>> /\ Len(received) = 20 * W

\* Rounds to go, two changes of the lines for every bit to go, and the last rest.
StepsLeft ==
  (3 - n) + 2 * (20 * W - Len(received)) + (IF lines = <<0, 0>> \/ UnitSent THEN 0 ELSE 1)

LEMMA StepsBounded ==
  ASSUME PrecalcInv, ChipInv
  PROVE  /\ StepsLeft \in Nat /\ (StepsLeft = 0 <=> UnitSent)
         /\ n = 0 /\ ~UnitSent => StepsLeft = 40 * W + 4
<1>1. /\ W \in Nat /\ W > 0 /\ n \in 0..3 /\ sent \in 0..20 /\ bit \in 0..(W - 1)
      /\ sent = 20 => bit = 0
      /\ Len(received) = sent * W + bit
      /\ n # 3 => sent = 0 /\ bit = 0
      /\ lines = <<0, 0>> => n = 3 /\ sent < 20
  BY WidthAssumption, SMTT(30) DEF PrecalcInv, UnitTypes, ChipInv, LineInv, Bits
<1>2. Len(received) \in Nat /\ Len(received) <= 20 * W
  BY <1>1
<1>3. (lines = <<0, 0>> => Len(received) < 20 * W) /\ (n # 3 => Len(received) = 0 /\ lines # <<0, 0>>)
  BY <1>1
<1>4. lines = <<1, 1>> => lines # <<0, 0>>
  OBVIOUS
<1>5. UnitSent => lines = <<1, 1>> /\ Len(received) = 20 * W
  BY DEF UnitSent
<1>6. UnitSent => n = 3
  BY <1>1, <1>3, <1>5
<1> QED BY <1>1, <1>2, <1>3, <1>4, <1>5, <1>6 DEF StepsLeft

LEMMA StepTaken ==
  ASSUME PrecalcInv, ChipInv, Next, ~NewWork
  PROVE  StepsLeft' = StepsLeft - 1
<1>1. /\ W \in Nat /\ W > 0 /\ n \in 0..3 /\ sent \in 0..20 /\ bit \in 0..(W - 1)
      /\ sent = 20 => bit = 0
      /\ received \in Seq({0, 1}) /\ Len(received) \in Nat /\ Len(received) = sent * W + bit
      /\ n # 3 => sent = 0 /\ bit = 0
      /\ lines = <<0, 0>> => n = 3 /\ sent < 20
      /\ Len(pushWork) = 20
  BY WidthAssumption, WordsSent, SMTT(30) DEF PrecalcInv, UnitTypes, ChipInv, LineInv, Bits
<1>2. CASE Round
  <2>1. n' = n + 1 /\ n \in 0..2 /\ lines' = lines /\ received' = received
    BY <1>1, <1>2 DEF Round
  <2>2. Len(received) = 0 /\ 20 * W # 0
    BY <1>1, <2>1
  <2>3. UnitSent' = UnitSent
    BY <2>1 DEF UnitSent
  <2> QED BY <1>1, <2>1, <2>2, <2>3 DEF StepsLeft
<1>3. CASE BitStart
  <2>1. n' = n /\ lines' = <<0, 0>> /\ lines # <<0, 0>> /\ received' = received /\ sent < 20
    BY <1>1, <1>3 DEF BitStart, SetLines, ChipSees, unitVars
  <2>2. Len(received) # 20 * W
    BY <1>1, <2>1
  <2>3. ~UnitSent
    BY <2>2 DEF UnitSent
  <2> QED BY <1>1, <2>1, <2>3 DEF StepsLeft
<1>4. CASE BitEnd
  <2>1. n' = n /\ lines = <<0, 0>> /\ lines' \in {<<1, 0>>, <<0, 1>>}
    BY <1>4, Zenon DEF BitEnd, SetLines, unitVars
  <2>2. lines' # <<0, 0>> /\ lines' # <<1, 1>>
    BY <2>1
  <2>3. received' = Append(received, lines'[1])
    BY <1>4, <2>1, <2>2, Zenon DEF BitEnd, SetLines, ChipSees
  <2>4. Len(received') = Len(received) + 1
    BY <1>1, <2>1, <2>3
  <2>5. ~UnitSent'
    BY <2>2 DEF UnitSent
  <2> QED BY <1>1, <2>1, <2>2, <2>4, <2>5 DEF StepsLeft
<1>5. CASE Idle
  <2>1. n' = n /\ lines' = <<1, 1>> /\ lines # <<1, 1>> /\ sent = 20
    BY <1>1, <1>5 DEF Idle, SetLines, unitVars
  <2>2. lines # <<0, 0>> /\ lines' # <<0, 0>>
    BY <1>1, <2>1
  <2>3. received' = received
    BY <1>5, <2>2 DEF Idle, SetLines, ChipSees
  <2>4. Len(received) = 20 * W
    BY <1>1, <2>1
  <2>5. UnitSent' /\ ~UnitSent
    BY <2>1, <2>3, <2>4 DEF UnitSent
  <2> QED BY <1>1, <2>1, <2>2, <2>3, <2>5 DEF StepsLeft
<1> QED BY <1>2, <1>3, <1>4, <1>5, Zenon DEF Next

\* What UnitIsSent asks for, counted, for every width: the firmware and the lines take
\* exactly 40 * W + 4 steps over a unit, every step before the next 'W' brings the
\* unit closer to its end, and what is left is nothing exactly when the chip has all
\* twenty words and the lines rest.
THEOREM UnitTakesSteps ==
  Spec => /\ [](/\ StepsLeft \in Nat /\ (StepsLeft = 0 <=> UnitSent)
                /\ n = 0 => StepsLeft = 40 * W + 4)
          /\ [][~NewWork => StepsLeft' = StepsLeft - 1]_vars
<1>1. PrecalcInv /\ ChipInv /\ [Next]_vars => ChipInv'
  BY LineNext
<1>2. PrecalcInv /\ ChipInv =>
        /\ StepsLeft \in Nat /\ (StepsLeft = 0 <=> UnitSent)
        /\ n = 0 => StepsLeft = 40 * W + 4
  <2>1. ASSUME PrecalcInv, ChipInv, n = 0 PROVE ~UnitSent
    BY <2>1, WidthAssumption DEF ChipInv, LineInv, UnitSent
  <2> QED BY <2>1, StepsBounded
<1>3. PrecalcInv /\ ChipInv /\ [Next]_vars => [~NewWork => StepsLeft' = StepsLeft - 1]_vars
  BY StepTaken
<1> QED BY <1>1, <1>2, <1>3, LineInit, PrecalcInvariant, PTL DEF Spec
=============================================================================
