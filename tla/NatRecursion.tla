----------------------------- MODULE NatRecursion -----------------------------
(***************************************************************************)
(* Functions that are defined by recursion on a number.  Instances of this *)
(* module say of one definition, Def, what the provers cannot be told of   *)
(* definitions in general.                                                 *)
(***************************************************************************)
EXTENDS Naturals, WellFoundedInduction, TLAPS

CONSTANT Def(_, _) \* the value at a number, given a function that has those below it

Less == {p \in Nat \X Nat : p[1] < p[2]}

\* There is no infinite descent.
LEMMA LessWellFounded == IsWellFoundedOn(Less, Nat)
BY NatLessThanWellFounded, Zenon DEF OpToRel, Less

\* Induction, for a set of numbers.
LEMMA SetInduction ==
  ASSUME NEW S \in SUBSET Nat, 0 \in S, \A n \in S : n + 1 \in S
  PROVE  S = Nat
<1>1. SUFFICES ASSUME Nat \ S # {} PROVE FALSE
  OBVIOUS
<1>2. PICK x \in Nat \ S : \A y \in Nat \ S : ~(<<y, x>> \in Less)
  <2>1. Nat \ S \subseteq Nat
    OBVIOUS
  <2>2. QED BY <1>1, <2>1, LessWellFounded, WFMin, Zenon
<1>3. x - 1 \in Nat \ S /\ x - 1 < x
  OBVIOUS
<1>4. <<x - 1, x>> \in Less
  BY <1>3 DEF Less
<1> QED BY <1>2, <1>3, <1>4


-----------------------------------------------------------------------------
\* Def needs the values below the number only.
LooksBack ==
  \A n \in Nat : \A g, h : (\A i \in 0 .. n - 1 : g[i] = h[i]) => Def(g, n) = Def(h, n)

\* g is the function up to n.
Begins(g, n) == g = [m \in 0 .. n |-> Def(g, m)]

\* The function that is defined as f[n \in Nat] == Def(f, n) has these values: all
\* beginnings exist and agree.
LEMMA Recursion ==
  LooksBack =>
    \A f : f = (CHOOSE g : g = [n \in Nat |-> Def(g, n)]) => f = [n \in Nat |-> Def(f, n)]
<1> SUFFICES ASSUME LooksBack PROVE \E f : f = [n \in Nat |-> Def(f, n)]
  OBVIOUS
<1>1. ASSUME NEW g, NEW h, NEW n \in Nat, \A i \in 0 .. n - 1 : g[i] = h[i]
      PROVE  Def(g, n) = Def(h, n)
  BY <1>1 DEF LooksBack
<1> USE DEF Begins
<1>2. ASSUME NEW g, NEW h, NEW n \in Nat, NEW m \in Nat, Begins(g, n), Begins(h, m), n <= m
      PROVE  \A i \in 0 .. n : g[i] = h[i]
  <2> DEFINE S == {i \in Nat : \A j \in 0 .. i : j <= n => g[j] = h[j]}
  <2>1. 0 \in S
    BY <1>1, <1>2
  <2>2. ASSUME NEW i \in S PROVE i + 1 \in S
    <3>1. SUFFICES ASSUME NEW j \in 0 .. i + 1, j <= n PROVE g[j] = h[j]
      OBVIOUS
    <3>2. g[j] = Def(g, j) /\ h[j] = Def(h, j)
      <4>1. j \in 0 .. n /\ j \in 0 .. m
        BY <3>1, <1>2
      <4>2. g = [l \in 0 .. n |-> Def(g, l)] /\ h = [l \in 0 .. m |-> Def(h, l)]
        BY <1>2
      <4>3. g[j] = Def(g, j)
        BY <4>1, <4>2
      <4>4. h[j] = Def(h, j)
        BY <4>1, <4>2
      <4> QED BY <4>3, <4>4
    <3>3. \A l \in 0 .. j - 1 : g[l] = h[l]
      <4>1. \A l \in 0 .. i : l <= n => g[l] = h[l]
        OBVIOUS
      <4> QED BY <4>1, <3>1
    <3> QED BY <3>2, <3>3, <1>1
  <2>3. S = Nat
    <3> HIDE DEF S
    <3>1. S \in SUBSET Nat BY DEF S
    <3> QED BY <2>1, <2>2, <3>1, SetInduction
  <2> QED BY <2>3
<1>3. ASSUME NEW n \in Nat PROVE \E g : Begins(g, n)
  <2> DEFINE S == {i \in Nat : \E g : Begins(g, i)}
  <2>1. 0 \in S
    <3> DEFINE g == [m \in 0 .. 0 |-> Def(<<>>, m)]
    <3>1. Begins(g, 0)
      BY <1>1
    <3> QED BY <3>1
  <2>2. ASSUME NEW i \in S PROVE i + 1 \in S
    <3>1. PICK g : Begins(g, i)
      OBVIOUS
    <3> DEFINE h == [m \in 0 .. i + 1 |-> IF m = i + 1 THEN Def(g, m) ELSE g[m]]
    <3>2. ASSUME NEW m \in 0 .. i + 1 PROVE h[m] = Def(h, m)
      <4>1. \A l \in 0 .. m - 1 : g[l] = h[l]
        OBVIOUS
      <4>2. Def(g, m) = Def(h, m)
        BY <4>1, <1>1
      <4>3. m # i + 1 => g[m] = Def(g, m)
        BY <3>1
      <4> QED BY <4>2, <4>3
    <3>3. Begins(h, i + 1)
      BY <3>2
    <3> QED
      <4> HIDE DEF h
      <4> QED BY <3>3
  <2>3. S = Nat
    <3> HIDE DEF S
    <3>1. S \in SUBSET Nat BY DEF S
    <3> QED BY <2>1, <2>2, <3>1, SetInduction
  <2> QED BY <2>3
<1> DEFINE f == [n \in Nat |-> (CHOOSE g : Begins(g, n))[n]]
<1>4. f = [n \in Nat |-> Def(f, n)]
  <2>1. ASSUME NEW n \in Nat PROVE f[n] = Def(f, n)
    <3> DEFINE a(i) == CHOOSE g : Begins(g, i)
    <3>1. \A i \in Nat : Begins(a(i), i)
      BY <1>3
    <3>2. a(n)[n] = Def(a(n), n)
      <4> HIDE DEF a
      <4>1. a(n) = [m \in 0 .. n |-> Def(a(n), m)]
        BY <3>1
      <4> QED BY <4>1
    <3>3. \A i \in 0 .. n - 1 : a(n)[i] = f[i]
      <4> HIDE DEF a, Begins
      <4>1. \A i \in 0 .. n - 1 : a(i)[i] = a(n)[i]
        BY <3>1, <1>2
      <4> QED BY <4>1 DEF a
    <3>4. Def(a(n), n) = Def(f, n)
      BY <3>3, <1>1
    <3> QED BY <3>2, <3>4
  <2> QED BY <2>1
<1> QED
  <2> HIDE DEF f
  <2> QED BY <1>4
=============================================================================
