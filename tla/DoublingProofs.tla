----------------------------- MODULE DoublingProofs -----------------------------
(***************************************************************************)
(* The function that doubles is what its definition says, for every n: the  *)
(* delays of FetchCycle and of StripPolls rest on it.                       *)
(*                                                                          *)
(* The definition chooses a function that satisfies an equation, so that    *)
(* one does must be shown.  It is put together from the finite beginnings   *)
(* of one, which are shown to exist and to agree by induction.              *)
(***************************************************************************)
EXTENDS Doubling, Integers, WellFoundedInduction, TLAPS

\* Every set of naturals that is not empty has a least element.
LEMMA Least ==
  ASSUME NEW T, T \subseteq Nat, T # {}
  PROVE  \E x \in T : \A y \in T : x <= y
<1>1. \E x \in T : \A y \in T : ~(<<y, x>> \in OpToRel(<, Nat))
  BY NatLessThanWellFounded, WFMin
<1>2. ASSUME NEW x \in Nat, NEW y \in Nat, y < x PROVE <<y, x>> \in OpToRel(<, Nat)
  <2>1. OpToRel(<, Nat) = {s \in Nat \X Nat : s[1] < s[2]}
    BY DEF OpToRel
  <2> QED
    BY <1>2, <2>1
<1>3. PICK x \in T : \A y \in T : ~(<<y, x>> \in OpToRel(<, Nat))
  BY <1>1
<1>4. \A y \in T : ~(y < x)
  BY <1>2, <1>3
<1> QED
  BY <1>4

\* Induction on the naturals, of a set rather than of an operator.
LEMMA NatSets ==
  ASSUME NEW S, 0 \in S, \A n \in Nat : n \in S => n + 1 \in S
  PROVE  \A n \in Nat : n \in S
<1> SUFFICES ASSUME Nat \ S # {} PROVE FALSE
  OBVIOUS
<1>1. PICK x \in Nat \ S : \A y \in Nat \ S : x <= y
  BY Least
<1>2. x # 0 /\ x - 1 \in Nat
  BY <1>1
<1>3. x - 1 \in S
  BY <1>1, <1>2
<1> QED
  BY <1>1, <1>2, <1>3

-----------------------------------------------------------------------------
\* The beginnings of length n + 1 of a function that doubles.
Beginnings(n) ==
    {f \in [0 .. n -> Nat \ {0}] : f[0] = 1 /\ \A i \in 1 .. n : f[i] = 2 * f[i - 1]}

LEMMA BeginningsExist == \A n \in Nat : Beginnings(n) # {}
<1> DEFINE S == {n \in Nat : Beginnings(n) # {}}
<1>1. 0 \in S
  <2>1. [i \in 0 .. 0 |-> 1] \in Beginnings(0)
    BY DEF Beginnings
  <2> QED
    BY <2>1
<1>2. ASSUME NEW n \in Nat, n \in S PROVE n + 1 \in S
  <2>1. PICK f : f \in Beginnings(n)
    BY <1>2
  <2> DEFINE g == [i \in 0 .. n + 1 |-> IF i <= n THEN f[i] ELSE 2 * f[n]]
  <2>2. \A i \in 0 .. n : f[i] \in Nat \ {0}
    BY <2>1 DEF Beginnings
  <2>3. g \in [0 .. n + 1 -> Nat \ {0}] /\ g[0] = 1
    BY <2>1, <2>2 DEF Beginnings
  <2>4. ASSUME NEW i \in 1 .. n + 1 PROVE g[i] = 2 * g[i - 1]
    <3>1. CASE i \in 1 .. n
      BY <2>1, <3>1 DEF Beginnings
    <3>2. CASE i = n + 1
      BY <3>2
    <3> QED
      BY <3>1, <3>2
  <2>5. g \in Beginnings(n + 1)
    BY <2>3, <2>4 DEF Beginnings
  <2> QED
    BY <2>5
<1> HIDE DEF S
<1>3. \A n \in Nat : n \in S
  BY <1>1, <1>2, NatSets
<1> QED
  BY <1>3 DEF S

LEMMA BeginningsAgree ==
  ASSUME NEW m \in Nat, NEW n \in Nat, NEW f \in Beginnings(m), NEW g \in Beginnings(n)
  PROVE  \A i \in Nat : i <= m /\ i <= n => f[i] = g[i]
<1> DEFINE S == {i \in Nat : i <= m /\ i <= n => f[i] = g[i]}
<1>1. 0 \in S
  BY DEF Beginnings
<1>2. ASSUME NEW i \in Nat, i \in S PROVE i + 1 \in S
  <2> SUFFICES ASSUME i + 1 <= m, i + 1 <= n PROVE f[i + 1] = g[i + 1]
    OBVIOUS
  <2>1. f[i] = g[i]
    BY <1>2
  <2>2. i + 1 \in 1 .. m /\ i + 1 \in 1 .. n /\ (i + 1) - 1 = i
    OBVIOUS
  <2>3. f[i + 1] = 2 * f[i] /\ g[i + 1] = 2 * g[i]
    BY <2>2 DEF Beginnings
  <2> QED
    BY <2>1, <2>3
<1> HIDE DEF S
<1>3. \A i \in Nat : i \in S
  BY <1>1, <1>2, NatSets
<1> QED
  BY <1>3 DEF S

\* 2 to the 0 is 1, each next power is twice the last, and every one is positive.
LEMMA DoublesEachTime ==
    /\ Doubled \in [Nat -> Nat \ {0}]
    /\ Doubled[0] = 1
    /\ \A n \in Nat : Doubled[n + 1] = 2 * Doubled[n]
<1> DEFINE Begin(n) == CHOOSE f : f \in Beginnings(n)
           F == [n \in Nat |-> Begin(n)[n]]
           Is(f) == f = [n \in Nat |-> IF n = 0 THEN 1 ELSE 2 * f[n - 1]]
<1>1. \A n \in Nat : Begin(n) \in Beginnings(n)
  BY BeginningsExist
<1> HIDE DEF Begin
<1>2. F[0] = 1
  BY <1>1 DEF Beginnings
<1>3. ASSUME NEW n \in Nat, n # 0 PROVE F[n] = 2 * F[n - 1]
  <2>1. n - 1 \in Nat /\ n \in 1 .. n /\ n - 1 <= n
    BY <1>3
  <2>2. Begin(n)[n] = 2 * Begin(n)[n - 1]
    BY <1>1, <2>1 DEF Beginnings
  <2>3. Begin(n)[n - 1] = Begin(n - 1)[n - 1]
    BY <1>1, <2>1, BeginningsAgree
  <2> QED
    BY <2>1, <2>2, <2>3
<1>4. \A n \in Nat : F[n] \in Nat \ {0}
  BY <1>1 DEF Beginnings
<1>5. Is(F)
  BY <1>2, <1>3
<1> HIDE DEF F
<1>6. Is(Doubled)
  BY <1>5 DEF Doubled
<1>7. Doubled[0] = 1 /\ \A n \in Nat : Doubled[n + 1] = 2 * Doubled[n]
  <2>1. Doubled = [n \in Nat |-> IF n = 0 THEN 1 ELSE 2 * Doubled[n - 1]]
    BY <1>6
  <2>2. \A n \in Nat : Doubled[n] = IF n = 0 THEN 1 ELSE 2 * Doubled[n - 1]
    BY <2>1, Zenon
  <2>3. ASSUME NEW n \in Nat PROVE Doubled[n + 1] = 2 * Doubled[n]
    <3>1. n + 1 \in Nat /\ n + 1 # 0 /\ (n + 1) - 1 = n
      OBVIOUS
    <3> QED
      BY <2>2, <3>1
  <2> QED
    BY <2>2, <2>3
<1>8. \A n \in Nat : Doubled[n] \in Nat \ {0}
  <2> DEFINE S == {n \in Nat : Doubled[n] \in Nat \ {0}}
  <2>1. 0 \in S /\ \A n \in Nat : n \in S => n + 1 \in S
    BY <1>7
  <2> HIDE DEF S
  <2>2. \A n \in Nat : n \in S
    BY <2>1, NatSets
  <2> QED
    BY <2>2 DEF S
<1>9. Doubled \in [Nat -> Nat \ {0}]
  BY <1>6, <1>8
<1> QED
  BY <1>7, <1>9
===============================================================================
