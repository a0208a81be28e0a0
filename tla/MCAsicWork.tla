----------------------------- MODULE MCAsicWork ------------------------------
(* Instances of AsicWork for TLC: words of W bits, added in binary. *)
EXTENDS AsicWork

\* The number a word stands for, and the words as a table, so that TLC computes
\* each of them once.
Value(x) ==
  LET v[i \in 0..W] == IF i = 0 THEN 0 ELSE v[i - 1] + x[i - 1] * 2^(i - 1) IN v[W]
WordTable == [v \in 0..(2^W - 1) |-> CHOOSE x \in Word : Value(x) = v]
WordOf(v) == WordTable[v % 2^W]

BinaryPlus(x, y) == CHOOSE z \in {WordOf(Value(a) + Value(b)) : a \in {x}, b \in {y}} : TRUE

\* Three different round constants, two configuration words.
Constants == [i \in 0..2 |-> WordOf(3 * i + 5)]
Clock == <<WordOf(9), WordOf(6)>>

\* Midstates and data of two values each, in every position of the halves.
SomeMidstates ==
  {[i \in 0..7 |-> WordOf((IF i < 4 THEN f[i] ELSE g[i - 4]) + i)] :
     f \in {[j \in 0..3 |-> 3], [j \in 0..3 |-> j * 7]}, g \in [0..3 -> {0, 13}]}
SomeDatas == {[i \in 0..2 |-> WordOf(5 * i + c)] : c \in {1, 11}}
=============================================================================
