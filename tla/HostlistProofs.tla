--------------------------- MODULE HostlistProofs ---------------------------
(***************************************************************************)
(* The count of a host list is the number of names its ranges stand for,   *)
(* and every operation on the ranges is the one that HostlistLog has for   *)
(* the names, for lists of any length, any names and any limits of the     *)
(* parser.  After hostlist_uniq no name is there twice, if names are       *)
(* written alike, and a list that is written out is read as itself.        *)
(*                                                                         *)
(* The operations fold over ranges, tokens and names.  What a fold returns *)
(* is first shown to be the end of a chain of values, one per element, so  *)
(* that what each step keeps, the whole keeps; the names of a list come    *)
(* together range by range; and each operation then has its lemma.  That a *)
(* number is formatted alike wherever ranges are joined rests on Fits: two *)
(* widths that pad a number alike pad all larger ones alike.               *)
(***************************************************************************)
EXTENDS Hostlist, FiniteSetTheorems, TLAPS

----------------------------------------------------------------------------
(* Folds.  A fold over a finite set takes out one element after the other;  *)
(* c[t] is the one it takes out of t.                                       *)

\* A set of numbers that is not empty has a least one.
LEMMA LeastIs == ASSUME NEW T, T \subseteq Nat, T # {} PROVE \E m \in T : \A k \in T : m <= k
<1>1. PICK x \in T : \A y \in T : ~(<<y, x>> \in OpToRel(<, Nat))
  BY NatLessThanWellFounded, WFMin, Zenon
<1>2. ASSUME NEW y \in T, y < x PROVE <<y, x>> \in OpToRel(<, Nat)
  <2>1. <<y, x>> \in Nat \X Nat /\ <<y, x>>[1] = y /\ <<y, x>>[2] = x
    OBVIOUS
  <2> QED
    BY <1>2, <2>1, Zenon DEF OpToRel
<1>3. \A y \in T : ~(y < x)
  BY <1>1, <1>2
<1>4. \A y \in T : x <= y
  BY <1>3
<1> QED
  BY <1>4

\* The subsets of S with at most n elements.
Small(S, n) == {t \in SUBSET S : Cardinality(t) <= n}

LEMMA Smaller ==
  ASSUME NEW S, IsFiniteSet(S), NEW t \in SUBSET S, NEW x \in t
  PROVE  /\ t \ {x} \in SUBSET S /\ Cardinality(t) \in Nat
         /\ Cardinality(t \ {x}) \in Nat /\ Cardinality(t \ {x}) = Cardinality(t) - 1
<1>1. IsFiniteSet(t)
  BY FS_Subset
<1>2. Cardinality(t) \in Nat /\ IsFiniteSet(t \ {x})
  BY <1>1, FS_CardinalityType, FS_RemoveElement
<1>3. Cardinality(t \ {x}) = Cardinality(t) - 1
  BY <1>1, FS_RemoveElement
<1>4. Cardinality(t \ {x}) \in Nat
  BY <1>2, FS_CardinalityType
<1> QED
  BY <1>2, <1>3, <1>4

PicksOf(S, c) == \A t \in SUBSET S : t # {} => c[t] \in t
Folds(S, c, base, F, g) == 
  \A t \in SUBSET S : g[t] = IF t = {} THEN base ELSE F[<<c[t], g[t \ {c[t]}]>>]

\* A fold exists.
LEMMA FoldExists ==
  ASSUME NEW S, IsFiniteSet(S), NEW V, NEW base \in V, NEW c, PicksOf(S, c), NEW F \in [S \X V -> V]
  PROVE  \E g \in [SUBSET S -> V] : Folds(S, c, base, F, g)
<1> USE DEF PicksOf
<1> DEFINE Is(n, g) == 
      /\ g \in [SUBSET S -> V]
      /\ \A t \in Small(S, n) : g[t] = IF t = {} THEN base ELSE F[<<c[t], g[t \ {c[t]}]>>]
<1> DEFINE T == {n \in Nat : ~\E g : Is(n, g)}
<1>1. Cardinality(S) \in Nat
  BY FS_CardinalityType
<1>2. \A t \in SUBSET S : Cardinality(t) \in Nat /\ Cardinality(t) <= Cardinality(S)
  <2>1. \A t \in SUBSET S : IsFiniteSet(t) /\ Cardinality(t) <= Cardinality(S)
    BY FS_Subset
  <2> QED
    BY <2>1, FS_CardinalityType
<1>3. Small(S, Cardinality(S)) = SUBSET S
  BY <1>2 DEF Small
<1>4. T = {}
  <2>1. SUFFICES ASSUME T # {} PROVE FALSE
    OBVIOUS
  <2>2. T \subseteq Nat
    OBVIOUS
  <2>3. PICK n \in T : \A k \in T : n <= k
    BY <2>1, <2>2, LeastIs
  <2>4. n \in Nat /\ ~\E g : Is(n, g)
    OBVIOUS
  <2>5. CASE n = 0
    <3> DEFINE g == [t \in SUBSET S |-> base]
    <3>1. ASSUME NEW t \in Small(S, 0) PROVE t = {}
      <4>1. t \in SUBSET S /\ Cardinality(t) <= 0
        BY DEF Small
      <4>2. IsFiniteSet(t) /\ Cardinality(t) = 0
        BY <1>2, <4>1, FS_Subset
      <4> QED
        BY <4>2, FS_EmptySet
    <3>2. \A t \in Small(S, 0) : t = {} /\ t \in SUBSET S
      BY <3>1
    <3>3. Is(0, g)
      BY <3>2
    <3> QED
      BY <2>4, <2>5, <3>3
  <2>6. CASE n # 0
    <3>1. n - 1 \in Nat /\ ~(n <= n - 1)
      BY <2>4, <2>6
    <3>2. n - 1 \notin T
      BY <2>3, <3>1
    <3>3. PICK g : Is(n - 1, g)
      BY <3>1, <3>2
    <3> DEFINE h == [t \in SUBSET S |-> IF Cardinality(t) <= n - 1 THEN g[t] 
                                        ELSE IF t = {} THEN base ELSE F[<<c[t], g[t \ {c[t]}]>>]]
    <3>4. \A t \in SUBSET S : t # {} => 
             t \ {c[t]} \in SUBSET S /\ Cardinality(t \ {c[t]}) = Cardinality(t) - 1
      BY Smaller
    <3>5. h \in [SUBSET S -> V]
      <4>1. \A t \in SUBSET S : t # {} => <<c[t], g[t \ {c[t]}]>> \in S \X V
        BY <3>3, <3>4
      <4>2. \A t \in SUBSET S : t # {} => F[<<c[t], g[t \ {c[t]}]>>] \in V
        BY <4>1
      <4> QED
        BY <3>3, <4>2
    <3>6. ASSUME NEW t \in Small(S, n) 
          PROVE  h[t] = IF t = {} THEN base ELSE F[<<c[t], h[t \ {c[t]}]>>]
      <4>1. t \in SUBSET S /\ Cardinality(t) <= n
        BY DEF Small
      <4>2. t # {} => h[t \ {c[t]}] = g[t \ {c[t]}]
        <5>1. t # {} => Cardinality(t \ {c[t]}) <= n - 1 /\ t \ {c[t]} \in SUBSET S
          BY <1>2, <2>4, <3>4, <4>1
        <5> QED
          BY <5>1
      <4>3. CASE Cardinality(t) <= n - 1
        <5>1. t \in Small(S, n - 1)
          BY <4>1, <4>3 DEF Small
        <5>2. h[t] = g[t]
          BY <4>1, <4>3
        <5>3. g[t] = IF t = {} THEN base ELSE F[<<c[t], g[t \ {c[t]}]>>]
          BY <3>3, <5>1
        <5> QED
          BY <4>2, <5>2, <5>3
      <4>4. CASE ~(Cardinality(t) <= n - 1)
        <5>1. h[t] = IF t = {} THEN base ELSE F[<<c[t], g[t \ {c[t]}]>>]
          BY <4>1, <4>4
        <5> QED
          BY <4>2, <5>1
      <4> QED
        BY <4>3, <4>4
    <3>7. Is(n, h)
      BY <3>5, <3>6
    <3> QED
      BY <2>4, <3>7
  <2> QED
    BY <2>5, <2>6
<1>5. PICK g : Is(Cardinality(S), g)
  BY <1>1, <1>4
<1> QED
  BY <1>3, <1>5 DEF Folds

\* Two functions that agree on a set if they agree on it without its first element.
Follows(S, c, g, h) == 
  /\ h[{}] = g[{}]
  /\ \A t \in SUBSET S : t # {} /\ h[t \ {c[t]}] = g[t \ {c[t]}] => h[t] = g[t]

SameOn(S, g, h) == \A t \in SUBSET S : h[t] = g[t]

\* There is only one.
LEMMA FoldUnique ==
  ASSUME NEW S, IsFiniteSet(S), NEW c, PicksOf(S, c), NEW g, NEW h, Follows(S, c, g, h)
  PROVE  SameOn(S, g, h)
<1> USE DEF PicksOf, Follows, SameOn
<1> DEFINE T == {n \in Nat : \E t \in SUBSET S : Cardinality(t) = n /\ h[t] # g[t]}
<1>1. T = {}
  <2>1. SUFFICES ASSUME T # {} PROVE FALSE
    OBVIOUS
  <2>2. T \subseteq Nat
    OBVIOUS
  <2>3. PICK n \in T : \A k \in T : n <= k
    BY <2>1, <2>2, LeastIs
  <2>4. PICK t \in SUBSET S : Cardinality(t) = n /\ h[t] # g[t]
    OBVIOUS
  <2>5. t # {}
    BY <2>4
  <2>6. c[t] \in t
    BY <2>5
  <2>7. /\ t \ {c[t]} \in SUBSET S /\ Cardinality(t) \in Nat
        /\ Cardinality(t \ {c[t]}) \in Nat /\ Cardinality(t \ {c[t]}) = Cardinality(t) - 1
    BY <2>6, Smaller
  <2>8. Cardinality(t \ {c[t]}) \notin T
    <3> HIDE DEF T
    <3>1. ~(n <= Cardinality(t \ {c[t]}))
      BY <2>4, <2>7
    <3> QED
      BY <2>3, <3>1
  <2>9. h[t \ {c[t]}] = g[t \ {c[t]}]
    BY <2>7, <2>8
  <2> QED
    BY <2>4, <2>5, <2>9
<1>2. ASSUME NEW t \in SUBSET S PROVE Cardinality(t) \in Nat
  BY FS_Subset, FS_CardinalityType
<1> QED
  BY <1>1, <1>2

----------------------------------------------------------------------------
(* Numbers and their digits. *)

IsPower(f, n) == f \in [0..n -> Nat] /\ f[0] = 1 /\ \A k \in 1..n : f[k] = Base * f[k - 1]

LEMMA PowersExist == ASSUME NEW n \in Nat PROVE \E f : IsPower(f, n)
<1> DEFINE T == {k \in Nat : ~\E f : IsPower(f, k)}
<1>1. T = {}
  <2>1. SUFFICES ASSUME T # {} PROVE FALSE
    OBVIOUS
  <2>2. T \subseteq Nat
    OBVIOUS
  <2>3. PICK k \in T : \A j \in T : k <= j
    <3> HIDE DEF T
    <3> QED
      BY <2>1, <2>2, LeastIs
  <2>4. k \in Nat /\ ~\E f : IsPower(f, k)
    OBVIOUS
  <2>5. CASE k = 0
    <3>1. IsPower([j \in 0..0 |-> 1], 0)
      BY DEF IsPower
    <3> QED
      BY <2>4, <2>5, <3>1
  <2>6. CASE k # 0
    <3>1. k - 1 \in Nat /\ ~(k <= k - 1)
      BY <2>4, <2>6
    <3>2. k - 1 \notin T
      BY <2>3, <3>1
    <3>3. PICK f : IsPower(f, k - 1)
      BY <3>1, <3>2
    <3> DEFINE h == [j \in 0..k |-> IF j = k THEN Base * f[k - 1] ELSE f[j]]
    <3>4. Base \in Nat /\ f[k - 1] \in Nat
      BY <3>1, <3>3, HostlistAssumption DEF IsPower
    <3>5. Base * f[k - 1] \in Nat
      BY <3>4
    <3>6. h \in [0..k -> Nat]
      BY <3>1, <3>3, <3>5 DEF IsPower
    <3>7. h[0] = 1
      BY <2>6, <3>1, <3>3 DEF IsPower
    <3>8. \A j \in 1..k : h[j] = Base * h[j - 1]
      <4> SUFFICES ASSUME NEW j \in 1..k PROVE h[j] = Base * h[j - 1]
        OBVIOUS
      <4>1. h[j - 1] = f[j - 1]
        BY <3>1
      <4>2. h[j] = Base * f[j - 1]
        BY <3>1, <3>3 DEF IsPower
      <4> QED
        BY <4>1, <4>2
    <3>9. IsPower(h, k)
      BY <3>6, <3>7, <3>8 DEF IsPower
    <3> QED
      BY <2>4, <3>9
  <2> QED
    BY <2>5, <2>6
<1> QED
  BY <1>1

LEMMA PowersAgree ==
  ASSUME NEW m \in Nat, NEW n \in Nat, NEW f, NEW g, IsPower(f, m), IsPower(g, n)
  PROVE  \A k \in Nat : k <= m /\ k <= n => f[k] = g[k]
<1> DEFINE T == {k \in Nat : k <= m /\ k <= n /\ f[k] # g[k]}
<1>1. T = {}
  <2>1. SUFFICES ASSUME T # {} PROVE FALSE
    OBVIOUS
  <2>2. T \subseteq Nat
    OBVIOUS
  <2>3. PICK k \in T : \A j \in T : k <= j
    <3> HIDE DEF T
    <3> QED
      BY <2>1, <2>2, LeastIs
  <2>4. k \in Nat /\ k <= m /\ k <= n /\ f[k] # g[k]
    OBVIOUS
  <2>5. k # 0
    BY <2>4 DEF IsPower
  <2>6. k - 1 \in Nat /\ k - 1 <= m /\ k - 1 <= n /\ ~(k <= k - 1) /\ k \in 1..m /\ k \in 1..n
    BY <2>4, <2>5
  <2>7. f[k - 1] = g[k - 1]
    BY <2>3, <2>6
  <2>8. f[k] = Base * f[k - 1] /\ g[k] = Base * g[k - 1]
    BY <2>6 DEF IsPower
  <2> QED
    BY <2>4, <2>7, <2>8
<1> QED
  BY <1>1

\* The powers of the base, as Power defines them.
LEMMA PowerIs ==
  Power[0] = 1 /\ \A n \in Nat : Power[n] \in Nat /\ Power[n + 1] = Base * Power[n]
<1> DEFINE P == [n \in Nat |-> (CHOOSE f : IsPower(f, n))[n]]
<1>1. ASSUME NEW n \in Nat PROVE IsPower(CHOOSE f : IsPower(f, n), n)
  BY PowersExist, Zenon
<1>2. P[0] = 1
  <2>1. IsPower(CHOOSE f : IsPower(f, 0), 0)
    BY <1>1
  <2>2. P[0] = (CHOOSE f : IsPower(f, 0))[0]
    OBVIOUS
  <2> QED
    BY <2>1, <2>2 DEF IsPower
<1>3. ASSUME NEW n \in Nat PROVE P[n] \in Nat /\ P[n + 1] = Base * P[n]
  <2>1. n + 1 \in Nat /\ n <= n + 1 /\ n <= n /\ n \in 0..n /\ n + 1 \in 1..n + 1 /\ (n + 1) - 1 = n
    OBVIOUS
  <2>2. PICK f : f = CHOOSE h : IsPower(h, n)
    OBVIOUS
  <2>3. PICK g : g = CHOOSE h : IsPower(h, n + 1)
    OBVIOUS
  <2>4. IsPower(f, n) /\ IsPower(g, n + 1)
    BY <1>1, <2>1, <2>2, <2>3, Zenon
  <2>5. P[n] = f[n] /\ P[n + 1] = g[n + 1]
    BY <2>1, <2>2, <2>3
  <2>6. f[n] = g[n]
    BY <2>1, <2>4, PowersAgree
  <2>7. g[n + 1] = Base * g[n]
    BY <2>1, <2>4 DEF IsPower
  <2>8. f[n] \in Nat
    BY <2>1, <2>4 DEF IsPower
  <2> QED
    BY <2>5, <2>6, <2>7, <2>8
<1>4. P = [n \in Nat |-> IF n = 0 THEN 1 ELSE Base * P[n - 1]]
  <2>1. ASSUME NEW n \in Nat PROVE P[n] = IF n = 0 THEN 1 ELSE Base * P[n - 1]
    <3>1. CASE n = 0
      BY <1>2, <3>1
    <3>2. CASE n # 0
      <4>1. n - 1 \in Nat /\ (n - 1) + 1 = n
        BY <3>2
      <4>2. P[(n - 1) + 1] = Base * P[n - 1]
        BY <1>3, <4>1
      <4> QED
        BY <3>2, <4>1, <4>2
    <3> QED
      BY <3>1, <3>2
  <2>2. P = [n \in Nat |-> P[n]]
    OBVIOUS
  <2> HIDE DEF P
  <2> QED
    BY <2>1, <2>2
<1> HIDE DEF P
<1>5. Power = [n \in Nat |-> IF n = 0 THEN 1 ELSE Base * Power[n - 1]]
  <2>1. Power = CHOOSE h : h = [n \in Nat |-> IF n = 0 THEN 1 ELSE Base * h[n - 1]]
    BY DEF Power
  <2> QED
    BY <1>4, <2>1, Zenon
<1>6. Power[0] = 1 
  BY <1>5
<1>7. ASSUME NEW n \in Nat PROVE Power[n + 1] = Base * Power[n]
  <2>1. n + 1 \in Nat /\ n + 1 # 0 /\ (n + 1) - 1 = n
    OBVIOUS
  <2> QED
    BY <1>5, <2>1
<1> DEFINE T == {k \in Nat : Power[k] \notin Nat}
<1>8. T = {}
  <2>1. SUFFICES ASSUME T # {} PROVE FALSE
    OBVIOUS
  <2>2. T \subseteq Nat
    OBVIOUS
  <2>3. PICK k \in T : \A j \in T : k <= j
    <3> HIDE DEF T
    <3> QED
      BY <2>1, <2>2, LeastIs
  <2>4. k \in Nat /\ Power[k] \notin Nat
    OBVIOUS
  <2>5. k # 0
    BY <1>6, <2>4
  <2>6. k - 1 \in Nat /\ ~(k <= k - 1) /\ (k - 1) + 1 = k
    BY <2>4, <2>5
  <2>7. Power[k - 1] \in Nat
    BY <2>3, <2>6
  <2>8. Power[(k - 1) + 1] = Base * Power[k - 1]
    BY <1>7, <2>6
  <2>9. Base * Power[k - 1] \in Nat
    BY <2>7, HostlistAssumption
  <2> QED
    BY <2>4, <2>6, <2>8, <2>9
<1> QED
  BY <1>6, <1>7, <1>8

\* A number is less than the base to as many digits.
LEMMA PowerExceeds == \A n \in Nat : Power[n] \in Nat /\ n < Power[n]
<1> DEFINE T == {k \in Nat : ~(k < Power[k])}
<1>1. T = {}
  <2>1. SUFFICES ASSUME T # {} PROVE FALSE
    OBVIOUS
  <2>2. T \subseteq Nat
    OBVIOUS
  <2>3. PICK k \in T : \A j \in T : k <= j
    <3> HIDE DEF T
    <3> QED
      BY <2>1, <2>2, LeastIs
  <2>4. k \in Nat /\ ~(k < Power[k])
    OBVIOUS
  <2>5. k # 0
    BY <2>4, PowerIs
  <2>6. k - 1 \in Nat /\ ~(k <= k - 1) /\ (k - 1) + 1 = k
    BY <2>4, <2>5
  <2>7. k - 1 < Power[k - 1]
    BY <2>3, <2>6
  <2>8. Power[(k - 1) + 1] = Base * Power[k - 1] /\ Power[k - 1] \in Nat
    BY PowerIs, <2>6
  <2>9. Base \in Nat /\ Base >= 2
    BY HostlistAssumption
  <2>10. \A b, x \in Nat : b >= 2 => b * x >= 2 * x
    OBVIOUS
  <2>11. Power[k] >= 2 * Power[k - 1]
    BY <2>6, <2>8, <2>9, <2>10
  <2> QED
    BY <2>4, <2>5, <2>7, <2>8, <2>11, PowerIs
<1> QED
  BY <1>1, PowerIs

\* The digits of a number: just enough of them.
LEMMA DigitsAre ==
  ASSUME NEW n \in Nat
  PROVE  /\ NumDigits(n) \in Nat /\ NumDigits(n) >= 1 /\ n < Power[NumDigits(n)]
         /\ NumDigits(n) = 1 \/ Power[NumDigits(n) - 1] <= n
<1> DEFINE T == {d \in Nat : d # 0 /\ n < Power[d]}
<1>1. n + 1 \in T
  BY PowerExceeds
<1>2. PICK d \in T : \A k \in T : d <= k
  <2>1. T \subseteq Nat /\ T # {}
    BY <1>1
  <2> HIDE DEF T
  <2> QED
    BY <2>1, LeastIs
<1>3. d \in Nat /\ d # 0 /\ n < Power[d] /\ d <= n + 1
  BY <1>1, <1>2
<1>4. d = 1 \/ Power[d - 1] <= n
  <2>1. SUFFICES ASSUME d # 1 PROVE Power[d - 1] <= n
    OBVIOUS
  <2>2. d - 1 \in Nat /\ d - 1 # 0 /\ ~(d <= d - 1)
    BY <1>3, <2>1
  <2>3. d - 1 \notin T
    BY <1>2, <2>2
  <2>4. ~(n < Power[d - 1]) /\ Power[d - 1] \in Nat
    BY <2>2, <2>3, PowerIs
  <2> QED
    BY <2>4
<1>5. d \in 1..n + 1
  BY <1>3
<1> DEFINE Q(k) == n < Power[k] /\ (k = 1 \/ Power[k - 1] <= n)
<1>6. Q(d)
  BY <1>3, <1>4
<1>7. NumDigits(n) = CHOOSE k \in 1..n + 1 : Q(k)
  BY DEF NumDigits
<1>8. NumDigits(n) \in 1..n + 1 /\ Q(NumDigits(n))
  <2> HIDE DEF Q
  <2> QED
    BY <1>5, <1>6, <1>7
<1> QED
  BY <1>8

----------------------------------------------------------------------------
(* FoldLeft and FoldRight as chains of the values on the way. *)

\* The least and the greatest of some positions.
LEMMA EndsAre ==
  ASSUME NEW n \in Nat, NEW t \in SUBSET (1..n), t # {}
  PROVE  /\ Max(t) \in t /\ \A k \in t : k <= Max(t)
         /\ Min(t) \in t /\ \A k \in t : Min(t) <= k
<1>1. PICK m \in t : \A k \in t : m <= k
  <2>1. t \subseteq Nat
    OBVIOUS
  <2> QED
    BY <2>1, LeastIs
<1>2. Min(t) \in t /\ \A k \in t : Min(t) <= k
  BY <1>1 DEF Min
<1> DEFINE T == {n - k : k \in t}
<1>3. T \subseteq Nat /\ T # {}
  OBVIOUS
<1>4. PICK d \in T : \A j \in T : d <= j
  <2> HIDE DEF T
  <2> QED
    BY <1>3, LeastIs
<1>5. PICK x \in t : d = n - x
  OBVIOUS
<1>6. ASSUME NEW k \in t PROVE x >= k
  <2>1. n - k \in T
    OBVIOUS
  <2>2. n - x <= n - k
    <3> HIDE DEF T
    <3>1. d <= n - k
      BY <1>4, <2>1, Zenon
    <3> QED
      BY <1>5, <3>1
  <2>3. x \in Int /\ k \in Int
    <3>1. t \subseteq 1..n
      OBVIOUS
    <3>2. x \in 1..n /\ k \in 1..n
      BY <3>1, Zenon
    <3> QED
      BY <3>2
  <2> QED
    BY <2>2, <2>3
<1>7. \E z \in t : \A y \in t : z >= y
  BY <1>6
<1>8. Max(t) \in t /\ \A y \in t : Max(t) >= y
  <2>1. PICK top : top = Max(t)
    OBVIOUS
  <2>2. top \in t /\ \A y \in t : top >= y
    BY <1>7, <2>1, Zenon DEF Max
  <2> QED
    BY <2>1, <2>2
<1>9. \A y \in t : y \in Int
  OBVIOUS
<1>10. \A y \in t : y <= Max(t)
  BY <1>8, <1>9
<1> QED
  BY <1>2, <1>8, <1>10

\* A fold exists, from the left and from the right.
LeftFolds(n, base, F, g) == 
  \A t \in SUBSET (1..n) : g[t] = IF t = {} THEN base ELSE F[<<Max(t), g[t \ {Max(t)}]>>]

LEMMA LeftExists ==
  ASSUME NEW n \in Nat, NEW V, NEW base \in V, NEW F \in [(1..n) \X V -> V]
  PROVE  \E g \in [SUBSET (1..n) -> V] : LeftFolds(n, base, F, g)
<1> DEFINE c == [t \in SUBSET (1..n) |-> Max(t)]
<1>1. \A t \in SUBSET (1..n) : c[t] = Max(t)
  OBVIOUS
<1>2. PicksOf(1..n, c)
  BY EndsAre DEF PicksOf
<1>3. IsFiniteSet(1..n)
  BY FS_Interval
<1> HIDE DEF c
<1>4. PICK g \in [SUBSET (1..n) -> V] : Folds(1..n, c, base, F, g)
  BY <1>2, <1>3, FoldExists, Zenon
<1>5. LeftFolds(n, base, F, g)
  BY <1>1, <1>4 DEF Folds, LeftFolds
<1> QED
  BY <1>5

\* What a fold from the left computes: a[k] is the value after k elements.
LeftStep(n, V, base, F, h) == 
  /\ h[{}] = base
  /\ \A t \in SUBSET (1..n) : 
       t # {} /\ h[t \ {Max(t)}] \in V => h[t] = F[<<Max(t), h[t \ {Max(t)}]>>]
LeftValues(n, base, F, a) == a[0] = base /\ \A k \in 1..n : a[k] = F[<<k, a[k - 1]>>]
LeftComputes(n, V, base, F, h) == 
  \E a \in [0..n -> V] : LeftValues(n, base, F, a) /\ h[1..n] = a[n]

LEMMA LeftChain ==
  ASSUME NEW n \in Nat, NEW V, NEW base \in V, NEW F \in [(1..n) \X V -> V],
         NEW h, LeftStep(n, V, base, F, h)
  PROVE  LeftComputes(n, V, base, F, h)
<1>1. PICK g \in [SUBSET (1..n) -> V] : LeftFolds(n, base, F, g)
  BY LeftExists, Zenon
<1>2. \A t \in SUBSET (1..n) : h[t] = g[t]
  <2> DEFINE c == [t \in SUBSET (1..n) |-> Max(t)]
  <2>1. \A t \in SUBSET (1..n) : c[t] = Max(t)
    OBVIOUS
  <2>2. PicksOf(1..n, c)
    BY EndsAre DEF PicksOf
  <2>3. IsFiniteSet(1..n)
    BY FS_Interval
  <2>4. h[{}] = g[{}]
    BY <1>1 DEF LeftFolds, LeftStep
  <2>5. ASSUME NEW t \in SUBSET (1..n), t # {}, h[t \ {Max(t)}] = g[t \ {Max(t)}] PROVE h[t] = g[t]
    <3>1. g[t \ {Max(t)}] \in V
      BY <1>1
    <3>2. h[t] = F[<<Max(t), h[t \ {Max(t)}]>>]
      BY <2>5, <3>1 DEF LeftStep
    <3> QED
      BY <1>1, <2>5, <3>2 DEF LeftFolds
  <2> HIDE DEF c
  <2>6. Follows(1..n, c, g, h)
    BY <2>1, <2>4, <2>5 DEF Follows
  <2>7. SameOn(1..n, g, h)
    BY <2>2, <2>3, <2>6, FoldUnique, Zenon
  <2> QED
    BY <2>7 DEF SameOn
<1> DEFINE a == [k \in 0..n |-> g[1..k]]
<1>3. \A k \in 0..n : 1..k \in SUBSET (1..n)
  OBVIOUS
<1>4. a \in [0..n -> V]
  BY <1>1, <1>3
<1>5. a[0] = base
  <2>1. 1..0 = {} /\ 0 \in 0..n
    OBVIOUS
  <2>2. g[{}] = base
    BY <1>1 DEF LeftFolds
  <2> QED
    BY <2>1, <2>2
<1>6. ASSUME NEW k \in 1..n PROVE a[k] = F[<<k, a[k - 1]>>]
  <2>1. 1..k \in SUBSET (1..n) /\ 1..k # {} /\ k - 1 \in 0..n /\ k \in 0..n /\ k \in 1..k
    OBVIOUS
  <2>2. Max(1..k) \in 1..k /\ k <= Max(1..k)
    BY <2>1, EndsAre
  <2>3. Max(1..k) = k
    BY <2>2
  <2>4. (1..k) \ {k} = 1..k - 1
    OBVIOUS
  <2>5. g[1..k] = F[<<k, g[1..k - 1]>>]
    BY <1>1, <2>1, <2>3, <2>4 DEF LeftFolds
  <2> QED
    BY <2>1, <2>5
<1>7. h[1..n] = a[n]
  BY <1>2, <1>3
<1> QED
  BY <1>4, <1>5, <1>6, <1>7 DEF LeftValues, LeftComputes

RightFolds(n, base, F, g) == 
  \A t \in SUBSET (1..n) : g[t] = IF t = {} THEN base ELSE F[<<Min(t), g[t \ {Min(t)}]>>]

LEMMA RightExists ==
  ASSUME NEW n \in Nat, NEW V, NEW base \in V, NEW F \in [(1..n) \X V -> V]
  PROVE  \E g \in [SUBSET (1..n) -> V] : RightFolds(n, base, F, g)
<1> DEFINE c == [t \in SUBSET (1..n) |-> Min(t)]
<1>1. \A t \in SUBSET (1..n) : c[t] = Min(t)
  OBVIOUS
<1>2. PicksOf(1..n, c)
  BY EndsAre DEF PicksOf
<1>3. IsFiniteSet(1..n)
  BY FS_Interval
<1> HIDE DEF c
<1>4. PICK g \in [SUBSET (1..n) -> V] : Folds(1..n, c, base, F, g)
  BY <1>2, <1>3, FoldExists, Zenon
<1>5. RightFolds(n, base, F, g)
  BY <1>1, <1>4 DEF Folds, RightFolds
<1> QED
  BY <1>5

\* A fold from the right: a[k] is the value after the elements behind position k.
RightStep(n, V, base, F, h) == 
  /\ h[{}] = base
  /\ \A t \in SUBSET (1..n) : 
       t # {} /\ h[t \ {Min(t)}] \in V => h[t] = F[<<Min(t), h[t \ {Min(t)}]>>]
RightValues(n, base, F, a) == a[n] = base /\ \A k \in 1..n : a[k - 1] = F[<<k, a[k]>>]
RightComputes(n, V, base, F, h) == 
  \E a \in [0..n -> V] : RightValues(n, base, F, a) /\ h[1..n] = a[0]

LEMMA RightChain ==
  ASSUME NEW n \in Nat, NEW V, NEW base \in V, NEW F \in [(1..n) \X V -> V],
         NEW h, RightStep(n, V, base, F, h)
  PROVE  RightComputes(n, V, base, F, h)
<1>1. PICK g \in [SUBSET (1..n) -> V] : RightFolds(n, base, F, g)
  BY RightExists, Zenon
<1>2. \A t \in SUBSET (1..n) : h[t] = g[t]
  <2> DEFINE c == [t \in SUBSET (1..n) |-> Min(t)]
  <2>1. \A t \in SUBSET (1..n) : c[t] = Min(t)
    OBVIOUS
  <2>2. PicksOf(1..n, c)
    BY EndsAre DEF PicksOf
  <2>3. IsFiniteSet(1..n)
    BY FS_Interval
  <2>4. h[{}] = g[{}]
    BY <1>1 DEF RightFolds, RightStep
  <2>5. ASSUME NEW t \in SUBSET (1..n), t # {}, h[t \ {Min(t)}] = g[t \ {Min(t)}] PROVE h[t] = g[t]
    <3>1. g[t \ {Min(t)}] \in V
      BY <1>1
    <3>2. h[t] = F[<<Min(t), h[t \ {Min(t)}]>>]
      BY <2>5, <3>1 DEF RightStep
    <3> QED
      BY <1>1, <2>5, <3>2 DEF RightFolds
  <2> HIDE DEF c
  <2>6. Follows(1..n, c, g, h)
    BY <2>1, <2>4, <2>5 DEF Follows
  <2>7. SameOn(1..n, g, h)
    BY <2>2, <2>3, <2>6, FoldUnique, Zenon
  <2> QED
    BY <2>7 DEF SameOn
<1> DEFINE a == [k \in 0..n |-> g[k + 1..n]]
<1>3. \A k \in 0..n : k + 1..n \in SUBSET (1..n)
  OBVIOUS
<1>4. a \in [0..n -> V]
  BY <1>1, <1>3
<1>5. a[n] = base
  <2>1. n + 1..n = {} /\ n \in 0..n
    OBVIOUS
  <2>2. g[{}] = base
    BY <1>1 DEF RightFolds
  <2> QED
    BY <2>1, <2>2
<1>6. ASSUME NEW k \in 1..n PROVE a[k - 1] = F[<<k, a[k]>>]
  <2>1. k - 1 \in 0..n /\ k \in 0..n /\ (k - 1) + 1 = k /\ k \in k..n /\ k..n \subseteq 1..n
    OBVIOUS
  <2>2. Min(k..n) \in k..n /\ Min(k..n) <= k
    BY <2>1, EndsAre
  <2>3. Min(k..n) = k
    BY <2>2
  <2>4. (k..n) \ {k} = k + 1..n
    OBVIOUS
  <2>5. g[k..n] = F[<<k, g[k + 1..n]>>]
    BY <1>1, <2>1, <2>3, <2>4 DEF RightFolds
  <2> QED
    BY <2>1, <2>5
<1>7. h[1..n] = a[0]
  <2>1. 0 + 1 = 1 /\ 0 \in 0..n /\ 1..n \in SUBSET (1..n)
    OBVIOUS
  <2> QED
    BY <1>2, <2>1
<1> QED
  BY <1>4, <1>5, <1>6, <1>7 DEF RightValues, RightComputes

----------------------------------------------------------------------------
(* The folds of the host list. *)

\* Pushing a sequence of ranges is pushing one after the other.
CanPush(V, n, s) == DOMAIN s = 1..n /\ \A k \in 1..n : \A v \in V : PushRange(v, s[k]) \in V
Pushed(V, n, s, l) == \E a \in [0..n -> V] : 
  a[0] = l /\ (\A k \in 1..n : a[k] = PushRange(a[k - 1], s[k])) /\ PushAll(l, s) = a[n]

LEMMA PushAllIs ==
  ASSUME NEW n \in Nat, NEW s, NEW V, NEW l \in V, CanPush(V, n, s)
  PROVE  Pushed(V, n, s, l)
<1> USE DEF CanPush
<1> DEFINE F == [p \in (1..n) \X V |-> PushRange(p[2], s[p[1]])]
<1>1. F \in [(1..n) \X V -> V]
  OBVIOUS
<1>2. \A k \in 1..n : \A v \in V : F[<<k, v>>] = PushRange(v, s[k])
  OBVIOUS
<1> HIDE DEF F
<1> DEFINE Eq(h) == 
      h = [t \in SUBSET (1..n) |-> IF t = {} THEN l ELSE PushRange(h[t \ {Max(t)}], s[Max(t)])]
<1>3. \E g : Eq(g)
  <2>1. PICK g \in [SUBSET (1..n) -> V] : LeftFolds(n, l, F, g)
    BY <1>1, LeftExists, Zenon
  <2>2. ASSUME NEW t \in SUBSET (1..n), t # {}
        PROVE  g[t] = PushRange(g[t \ {Max(t)}], s[Max(t)])
    <3>1. Max(t) \in 1..n
      BY <2>2, EndsAre
    <3>2. g[t \ {Max(t)}] \in V
      BY <2>1
    <3> QED
      BY <1>2, <2>1, <2>2, <3>1, <3>2 DEF LeftFolds
  <2>3. Eq(g)
    BY <2>1, <2>2 DEF LeftFolds
  <2> QED
    BY <2>3
<1> DEFINE h == CHOOSE g : Eq(g)
<1>4. PushAll(l, s) = h[1..n]
  BY DEF PushAll, FoldLeft, MapThenFoldSet
<1>5. Eq(h)
  <2> HIDE DEF Eq
  <2> QED
    BY <1>3
<1> HIDE DEF h
<1>6. h[{}] = l
  BY <1>5
<1>7. ASSUME NEW t \in SUBSET (1..n), t # {}, h[t \ {Max(t)}] \in V 
      PROVE  h[t] = F[<<Max(t), h[t \ {Max(t)}]>>]
  <2>1. Max(t) \in 1..n
    BY <1>7, EndsAre
  <2> QED
    BY <1>2, <1>5, <1>7, <2>1
<1>8. LeftStep(n, V, l, F, h)
  BY <1>6, <1>7 DEF LeftStep
<1>9. PICK a \in [0..n -> V] : LeftValues(n, l, F, a) /\ h[1..n] = a[n]
  <2>1. LeftComputes(n, V, l, F, h)
    BY <1>1, <1>8, LeftChain, Zenon
  <2> QED
    BY <2>1 DEF LeftComputes
<1>10. ASSUME NEW k \in 1..n PROVE a[k] = PushRange(a[k - 1], s[k])
  <2>1. a[k] = F[<<k, a[k - 1]>>] /\ k - 1 \in 0..n
    BY <1>9 DEF LeftValues
  <2> QED
    BY <1>2, <2>1
<1> QED
  BY <1>4, <1>9, <1>10 DEF LeftValues, Pushed

\* Pushing what is in one pair of brackets.
GroupPushed(token, m, g) ==
  IF token.tail = "" THEN PushRange(m, NewRange(token.prefix, g.lo, g.hi, g.width))
                     ELSE PushAll(m, Singles(token.prefix, token.tail, g))
AllGroups(token, l, s) == FoldLeft(LAMBDA m, g : GroupPushed(token, m, g), l, s)

\* The groups one after the other.
CanPushGroups(token, V, n, s) == 
  DOMAIN s = 1..n /\ \A k \in 1..n : \A v \in V : GroupPushed(token, v, s[k]) \in V
GroupsPushed(token, V, n, s, l) == \E a \in [0..n -> V] : 
  /\ a[0] = l /\ (\A k \in 1..n : a[k] = GroupPushed(token, a[k - 1], s[k])) 
  /\ AllGroups(token, l, s) = a[n]

LEMMA AllGroupsIs ==
  ASSUME NEW n \in Nat, NEW s, NEW V, NEW l \in V, NEW token, CanPushGroups(token, V, n, s)
  PROVE  GroupsPushed(token, V, n, s, l)
<1> USE DEF CanPushGroups
<1> DEFINE F == [p \in (1..n) \X V |-> GroupPushed(token, p[2], s[p[1]])]
<1>1. F \in [(1..n) \X V -> V]
  OBVIOUS
<1>2. \A k \in 1..n : \A v \in V : F[<<k, v>>] = GroupPushed(token, v, s[k])
  OBVIOUS
<1> HIDE DEF F
<1> DEFINE Eq(h) == 
      h = [t \in SUBSET (1..n) |-> 
             IF t = {} THEN l ELSE GroupPushed(token, h[t \ {Max(t)}], s[Max(t)])]
<1>3. \E g : Eq(g)
  <2>1. PICK g \in [SUBSET (1..n) -> V] : LeftFolds(n, l, F, g)
    BY <1>1, LeftExists, Zenon
  <2>2. ASSUME NEW t \in SUBSET (1..n), t # {}
        PROVE  g[t] = GroupPushed(token, g[t \ {Max(t)}], s[Max(t)])
    <3>1. Max(t) \in 1..n
      BY <2>2, EndsAre
    <3>2. g[t \ {Max(t)}] \in V
      BY <2>1
    <3> QED
      BY <1>2, <2>1, <2>2, <3>1, <3>2 DEF LeftFolds
  <2>3. Eq(g)
    BY <2>1, <2>2 DEF LeftFolds
  <2> QED
    BY <2>3
<1> DEFINE h == CHOOSE g : Eq(g)
<1>4. AllGroups(token, l, s) = h[1..n]
  BY DEF AllGroups, FoldLeft, MapThenFoldSet
<1>5. Eq(h)
  <2> HIDE DEF Eq
  <2> QED
    BY <1>3
<1> HIDE DEF h
<1>6. h[{}] = l
  BY <1>5
<1>7. ASSUME NEW t \in SUBSET (1..n), t # {}, h[t \ {Max(t)}] \in V 
      PROVE  h[t] = F[<<Max(t), h[t \ {Max(t)}]>>]
  <2>1. Max(t) \in 1..n
    BY <1>7, EndsAre
  <2> QED
    BY <1>2, <1>5, <1>7, <2>1
<1>8. LeftStep(n, V, l, F, h)
  BY <1>6, <1>7 DEF LeftStep
<1>9. PICK a \in [0..n -> V] : LeftValues(n, l, F, a) /\ h[1..n] = a[n]
  <2>1. LeftComputes(n, V, l, F, h)
    BY <1>1, <1>8, LeftChain, Zenon
  <2> QED
    BY <2>1 DEF LeftComputes
<1>10. ASSUME NEW k \in 1..n PROVE a[k] = GroupPushed(token, a[k - 1], s[k])
  <2>1. a[k] = F[<<k, a[k - 1]>>] /\ k - 1 \in 0..n
    BY <1>9 DEF LeftValues
  <2> QED
    BY <1>2, <2>1
<1> QED
  BY <1>4, <1>9, <1>10 DEF LeftValues, GroupsPushed

\* The tokens one after the other.
CanPushTokens(V, n, s) == DOMAIN s = 1..n /\ \A k \in 1..n : \A v \in V : PushToken(v, s[k]) \in V
TokensPushed(V, n, s, l) == \E a \in [0..n -> V] : 
  a[0] = l /\ (\A k \in 1..n : a[k] = PushToken(a[k - 1], s[k])) /\ FoldLeft(PushToken, l, s) = a[n]

LEMMA CreateIs ==
  ASSUME NEW n \in Nat, NEW s, NEW V, NEW l \in V, CanPushTokens(V, n, s)
  PROVE  TokensPushed(V, n, s, l)
<1> USE DEF CanPushTokens
<1> DEFINE F == [p \in (1..n) \X V |-> PushToken(p[2], s[p[1]])]
<1>1. F \in [(1..n) \X V -> V]
  OBVIOUS
<1>2. \A k \in 1..n : \A v \in V : F[<<k, v>>] = PushToken(v, s[k])
  OBVIOUS
<1> HIDE DEF F
<1> DEFINE Eq(h) == 
      h = [t \in SUBSET (1..n) |-> IF t = {} THEN l ELSE PushToken(h[t \ {Max(t)}], s[Max(t)])]
<1>3. \E g : Eq(g)
  <2>1. PICK g \in [SUBSET (1..n) -> V] : LeftFolds(n, l, F, g)
    BY <1>1, LeftExists, Zenon
  <2>2. ASSUME NEW t \in SUBSET (1..n), t # {}
        PROVE  g[t] = PushToken(g[t \ {Max(t)}], s[Max(t)])
    <3>1. Max(t) \in 1..n
      BY <2>2, EndsAre
    <3>2. g[t \ {Max(t)}] \in V
      BY <2>1
    <3> QED
      BY <1>2, <2>1, <2>2, <3>1, <3>2 DEF LeftFolds
  <2>3. Eq(g)
    BY <2>1, <2>2 DEF LeftFolds
  <2> QED
    BY <2>3
<1> DEFINE h == CHOOSE g : Eq(g)
<1>4. FoldLeft(PushToken, l, s) = h[1..n]
  BY DEF FoldLeft, MapThenFoldSet
<1>5. Eq(h)
  <2> HIDE DEF Eq
  <2> QED
    BY <1>3
<1> HIDE DEF h
<1>6. h[{}] = l
  BY <1>5
<1>7. ASSUME NEW t \in SUBSET (1..n), t # {}, h[t \ {Max(t)}] \in V 
      PROVE  h[t] = F[<<Max(t), h[t \ {Max(t)}]>>]
  <2>1. Max(t) \in 1..n
    BY <1>7, EndsAre
  <2> QED
    BY <1>2, <1>5, <1>7, <2>1
<1>8. LeftStep(n, V, l, F, h)
  BY <1>6, <1>7 DEF LeftStep
<1>9. PICK a \in [0..n -> V] : LeftValues(n, l, F, a) /\ h[1..n] = a[n]
  <2>1. LeftComputes(n, V, l, F, h)
    BY <1>1, <1>8, LeftChain, Zenon
  <2> QED
    BY <2>1 DEF LeftComputes
<1>10. ASSUME NEW k \in 1..n PROVE a[k] = PushToken(a[k - 1], s[k])
  <2>1. a[k] = F[<<k, a[k - 1]>>] /\ k - 1 \in 0..n
    BY <1>9 DEF LeftValues
  <2> QED
    BY <1>2, <2>1
<1> QED
  BY <1>4, <1>9, <1>10 DEF LeftValues, TokensPushed

\* hostlist_uniq joins the sorted ranges one after the other.
CanJoin(V, n, s) == DOMAIN s = 1..n /\ \A k \in 1..n : \A v \in V : AttemptJoin(v, s[k]) \in V
AllJoined(V, n, s, l) == \E a \in [0..n -> V] : 
  /\ a[0] = l /\ (\A k \in 1..n : a[k] = AttemptJoin(a[k - 1], s[k])) 
  /\ FoldLeft(AttemptJoin, l, s) = a[n]

LEMMA JoinsAre ==
  ASSUME NEW n \in Nat, NEW s, NEW V, NEW l \in V, CanJoin(V, n, s)
  PROVE  AllJoined(V, n, s, l)
<1> USE DEF CanJoin
<1> DEFINE F == [p \in (1..n) \X V |-> AttemptJoin(p[2], s[p[1]])]
<1>1. F \in [(1..n) \X V -> V]
  OBVIOUS
<1>2. \A k \in 1..n : \A v \in V : F[<<k, v>>] = AttemptJoin(v, s[k])
  OBVIOUS
<1> HIDE DEF F
<1> DEFINE Eq(h) == 
      h = [t \in SUBSET (1..n) |-> IF t = {} THEN l ELSE AttemptJoin(h[t \ {Max(t)}], s[Max(t)])]
<1>3. \E g : Eq(g)
  <2>1. PICK g \in [SUBSET (1..n) -> V] : LeftFolds(n, l, F, g)
    BY <1>1, LeftExists, Zenon
  <2>2. ASSUME NEW t \in SUBSET (1..n), t # {}
        PROVE  g[t] = AttemptJoin(g[t \ {Max(t)}], s[Max(t)])
    <3>1. Max(t) \in 1..n
      BY <2>2, EndsAre
    <3>2. g[t \ {Max(t)}] \in V
      BY <2>1
    <3> QED
      BY <1>2, <2>1, <2>2, <3>1, <3>2 DEF LeftFolds
  <2>3. Eq(g)
    BY <2>1, <2>2 DEF LeftFolds
  <2> QED
    BY <2>3
<1> DEFINE h == CHOOSE g : Eq(g)
<1>4. FoldLeft(AttemptJoin, l, s) = h[1..n]
  BY DEF FoldLeft, MapThenFoldSet
<1>5. Eq(h)
  <2> HIDE DEF Eq
  <2> QED
    BY <1>3
<1> HIDE DEF h
<1>6. h[{}] = l
  BY <1>5
<1>7. ASSUME NEW t \in SUBSET (1..n), t # {}, h[t \ {Max(t)}] \in V 
      PROVE  h[t] = F[<<Max(t), h[t \ {Max(t)}]>>]
  <2>1. Max(t) \in 1..n
    BY <1>7, EndsAre
  <2> QED
    BY <1>2, <1>5, <1>7, <2>1
<1>8. LeftStep(n, V, l, F, h)
  BY <1>6, <1>7 DEF LeftStep
<1>9. PICK a \in [0..n -> V] : LeftValues(n, l, F, a) /\ h[1..n] = a[n]
  <2>1. LeftComputes(n, V, l, F, h)
    BY <1>1, <1>8, LeftChain, Zenon
  <2> QED
    BY <2>1 DEF LeftComputes
<1>10. ASSUME NEW k \in 1..n PROVE a[k] = AttemptJoin(a[k - 1], s[k])
  <2>1. a[k] = F[<<k, a[k - 1]>>] /\ k - 1 \in 0..n
    BY <1>9 DEF LeftValues
  <2> QED
    BY <1>2, <2>1
<1> QED
  BY <1>4, <1>9, <1>10 DEF LeftValues, AllJoined

\* hostlist_delete takes the names one after the other, the last one first.
CanDelete(V, n, s) == DOMAIN s = 1..n /\ \A k \in 1..n : \A v \in V : DeleteName(v, s[k]) \in V
DeleteAll(s, l) == FoldRight(LAMBDA x, v : DeleteName(v, x), s, l)
AllDeleted(V, n, s, l) == \E a \in [0..n -> V] : 
  a[n] = l /\ (\A k \in 1..n : a[k - 1] = DeleteName(a[k], s[k])) /\ DeleteAll(s, l) = a[0]

LEMMA DeletesAre ==
  ASSUME NEW n \in Nat, NEW s, NEW V, NEW l \in V, CanDelete(V, n, s)
  PROVE  AllDeleted(V, n, s, l)
<1> USE DEF CanDelete
<1> DEFINE F == [p \in (1..n) \X V |-> DeleteName(p[2], s[p[1]])]
<1>1. F \in [(1..n) \X V -> V]
  OBVIOUS
<1>2. \A k \in 1..n : \A v \in V : F[<<k, v>>] = DeleteName(v, s[k])
  OBVIOUS
<1> HIDE DEF F
<1> DEFINE Eq(h) == 
      h = [t \in SUBSET (1..n) |-> IF t = {} THEN l ELSE DeleteName(h[t \ {Min(t)}], s[Min(t)])]
<1>3. \E g : Eq(g)
  <2>1. PICK g \in [SUBSET (1..n) -> V] : RightFolds(n, l, F, g)
    BY <1>1, RightExists, Zenon
  <2>2. ASSUME NEW t \in SUBSET (1..n), t # {}
        PROVE  g[t] = DeleteName(g[t \ {Min(t)}], s[Min(t)])
    <3>1. Min(t) \in 1..n
      BY <2>2, EndsAre
    <3>2. g[t \ {Min(t)}] \in V
      BY <2>1
    <3> QED
      BY <1>2, <2>1, <2>2, <3>1, <3>2 DEF RightFolds
  <2>3. Eq(g)
    BY <2>1, <2>2 DEF RightFolds
  <2> QED
    BY <2>3
<1> DEFINE h == CHOOSE g : Eq(g)
<1>4. DeleteAll(s, l) = h[1..n]
  BY DEF DeleteAll, FoldRight, MapThenFoldSet
<1>5. Eq(h)
  <2> HIDE DEF Eq
  <2> QED
    BY <1>3
<1> HIDE DEF h
<1>6. h[{}] = l
  BY <1>5
<1>7. ASSUME NEW t \in SUBSET (1..n), t # {}, h[t \ {Min(t)}] \in V 
      PROVE  h[t] = F[<<Min(t), h[t \ {Min(t)}]>>]
  <2>1. Min(t) \in 1..n
    BY <1>7, EndsAre
  <2> QED
    BY <1>2, <1>5, <1>7, <2>1
<1>8. RightStep(n, V, l, F, h)
  BY <1>6, <1>7 DEF RightStep
<1>9. PICK a \in [0..n -> V] : RightValues(n, l, F, a) /\ h[1..n] = a[0]
  <2>1. RightComputes(n, V, l, F, h)
    BY <1>1, <1>8, RightChain, Zenon
  <2> QED
    BY <2>1 DEF RightComputes
<1>10. ASSUME NEW k \in 1..n PROVE a[k - 1] = DeleteName(a[k], s[k])
  <2>1. a[k - 1] = F[<<k, a[k]>>] /\ k \in 0..n
    BY <1>9 DEF RightValues
  <2> QED
    BY <1>2, <2>1
<1> QED
  BY <1>4, <1>9, <1>10 DEF RightValues, AllDeleted

----------------------------------------------------------------------------
(* The names that ranges stand for. *)

\* A range with hosts; a host on its own has no numbers, and a range no tail.
GoodRanges == {r \in Ranges : 
  r.lo <= r.hi /\ IF r.singlehost THEN r.lo = 0 /\ r.hi = 0 ELSE NoTail(r.prefix)}

\* What goes from each number to the next reaches all.
LEMMA Climbs ==
  ASSUME NEW n \in Nat, NEW B, 0 \in B, \A k \in 1..n : k - 1 \in B => k \in B
  PROVE  \A k \in 0..n : k \in B
<1> DEFINE T == {k \in 0..n : k \notin B}
<1>1. SUFFICES ASSUME T # {} PROVE FALSE
  OBVIOUS
<1>2. PICK m \in T : \A k \in T : m <= k
  <2>1. T \subseteq Nat
    OBVIOUS
  <2> HIDE DEF T
  <2> QED
    BY <1>1, <2>1, LeastIs
<1>3. m \in 0..n /\ m \notin B /\ m # 0
  BY <1>2
<1>4. m \in 1..n /\ m - 1 \in 0..n /\ ~(m <= m - 1)
  BY <1>3
<1>5. m - 1 \notin T
  <2> HIDE DEF T
  <2> QED
    BY <1>2, <1>4
<1>6. m - 1 \in B
  BY <1>4, <1>5
<1> QED
  BY <1>3, <1>4, <1>6

\* The larger the exponent, the larger the power.
LEMMA PowerGrows == \A m, n \in Nat : m <= n => Power[m] <= Power[n]
<1>1. Base \in Nat /\ Base >= 2
  BY HostlistAssumption
<1>2. ASSUME NEW n \in Nat PROVE Power[n] \in Nat /\ Power[n + 1] \in Nat /\ Power[n] <= Power[n + 1]
  <2>1. Power[n] \in Nat /\ Power[n + 1] \in Nat /\ Power[n + 1] = Base * Power[n]
    BY PowerIs
  <2>2. \A b, x \in Nat : b >= 2 => b * x >= x
    OBVIOUS
  <2> QED
    BY <1>1, <2>1, <2>2
<1>3. ASSUME NEW m \in Nat, NEW n \in Nat, m <= n PROVE Power[m] <= Power[n]
  <2> DEFINE T == {k \in Nat : m <= k /\ ~(Power[m] <= Power[k])}
  <2>1. T = {}
    <3>1. SUFFICES ASSUME T # {} PROVE FALSE
      OBVIOUS
    <3>2. PICK k \in T : \A j \in T : k <= j
      <4>1. T \subseteq Nat
        OBVIOUS
      <4> HIDE DEF T
      <4> QED
        BY <3>1, <4>1, LeastIs
    <3>3. k \in Nat /\ m <= k /\ ~(Power[m] <= Power[k])
      BY <3>2
    <3>4. k # m
      BY <1>2, <3>3
    <3>5. k - 1 \in Nat /\ m <= k - 1 /\ (k - 1) + 1 = k /\ ~(k <= k - 1)
      BY <3>3, <3>4
    <3>6. k - 1 \notin T
      <4> HIDE DEF T
      <4> QED
        BY <3>2, <3>5
    <3>7. Power[m] <= Power[k - 1]
      BY <3>5, <3>6
    <3>8. Power[k - 1] \in Nat /\ Power[k] \in Nat /\ Power[k - 1] <= Power[k] /\ Power[m] \in Nat
      BY <1>2, <3>3, <3>5
    <3> QED
      BY <3>3, <3>7, <3>8
  <2> QED
    BY <1>3, <2>1
<1> QED
  BY <1>3

\* Digits put behind digits.
LEMMA PowerSum ==
  ASSUME NEW a \in Nat, NEW b \in Nat
  PROVE  Power[a + b] = Power[a] * Power[b]
<1> DEFINE B == {k \in 0..b : Power[a + k] = Power[a] * Power[k]}
<1>1. 0 \in B
  <2>1. Power[a] \in Nat /\ Power[0] = 1 /\ a + 0 = a
    BY PowerIs
  <2> QED
    BY <2>1
<1>2. ASSUME NEW k \in 1..b, k - 1 \in B PROVE k \in B
  <2>1. k - 1 \in Nat /\ (k - 1) + 1 = k /\ a + (k - 1) \in Nat /\ (a + (k - 1)) + 1 = a + k /\ k \in 0..b
    OBVIOUS
  <2>2. /\ Power[a] \in Nat /\ Power[k - 1] \in Nat /\ Power[k] = Base * Power[k - 1]
        /\ Power[a + k] = Base * Power[a + (k - 1)]
    BY <2>1, PowerIs
  <2>3. Power[a + (k - 1)] = Power[a] * Power[k - 1]
    BY <1>2
  <2> DEFINE p == Power[a]
             q == Power[k - 1]
  <2>4. Base \in Nat /\ p \in Nat /\ q \in Nat
    BY <2>2, HostlistAssumption
  <2> HIDE DEF p, q
  <2>5. Base * (p * q) = p * (Base * q)
    BY <2>4
  <2>6. Power[a + k] = Power[a] * Power[k]
    BY <2>2, <2>3, <2>5 DEF p, q
  <2> QED
    BY <2>1, <2>6
<1> HIDE DEF B
<1>3. \A k \in 0..b : k \in B
  BY <1>1, <1>2, Climbs
<1> QED
  BY <1>3 DEF B

\* A part below its limit, and one below the other.
LEMMA PartsBelow ==
  ASSUME NEW v \in Nat, NEW Q \in Nat, v < Q, NEW P \in Nat, NEW n \in Nat, n < P
  PROVE  v * P + n < Q * P
<1>1. \A x, e \in Nat : (x + 1 + e) * P = x * P + P + e * P /\ e * P >= 0
  OBVIOUS
<1>2. Q - v - 1 \in Nat /\ v + 1 + (Q - v - 1) = Q
  OBVIOUS
<1> DEFINE e == Q - v - 1
           x == v * P
           y == e * P
           z == Q * P
<1>3. z = x + P + y /\ y >= 0
  BY <1>1, <1>2
<1>4. x \in Nat /\ y \in Nat /\ z \in Nat
  BY <1>2
<1> HIDE DEF x, y, z, e
<1>5. x + n < z
  BY <1>3, <1>4
<1> QED
  BY <1>5 DEF x, z

\* A name formatted with a number is a name.
LEMMA FormatIs ==
  ASSUME NEW p \in HostNames, NEW n \in Nat, NEW w \in Nat
  PROVE  /\ NumDigits(n) + ZeroPadded(n, w) \in Nat /\ ZeroPadded(n, w) \in Nat
         /\ Format(p, n, w) \in HostNames
<1>1. NumDigits(n) \in Nat /\ n < Power[NumDigits(n)]
  BY DigitsAre
<1>2. ZeroPadded(n, w) \in Nat
  BY <1>1 DEF ZeroPadded
<1> DEFINE len == NumDigits(n) + ZeroPadded(n, w)
<1>3. len \in Nat /\ NumDigits(n) <= len
  BY <1>1, <1>2
<1>4. Power[len] \in Nat /\ n < Power[len]
  <2>1. Power[len] \in Nat /\ Power[NumDigits(n)] \in Nat
    BY <1>1, <1>3, PowerIs
  <2> HIDE DEF len
  <2>2. Power[NumDigits(n)] <= Power[len]
    BY <1>1, <1>3, PowerGrows
  <2> QED
    BY <1>1, <2>1, <2>2
<1> HIDE DEF len
<1>5. p.val \in Nat /\ p.len \in Nat /\ p.val < Power[p.len]
  BY DEF HostNames
<1>5a. p.val * Power[len] + n < Power[p.len + len]
  <2>1. Power[p.len] \in Nat /\ Power[p.len + len] = Power[p.len] * Power[len]
    BY <1>3, <1>5, PowerIs, PowerSum
  <2> QED
    BY <1>4, <1>5, <2>1, PartsBelow
<1>6. p.val * Power[len] \in Nat
  BY <1>4, <1>5
<1>7. p.val * Power[len] + n \in Nat /\ p.len + len \in Nat
  BY <1>3, <1>5, <1>6
<1>8. Format(p, n, w) = [p EXCEPT !.val = p.val * Power[len] + n, !.len = p.len + len]
  BY DEF Format, len
<1>9. [p EXCEPT !.val = p.val * Power[len] + n, !.len = p.len + len] \in HostNames
  BY <1>5a, <1>7 DEF HostNames
<1> QED
  BY <1>1, <1>2, <1>3, <1>8, <1>9 DEF len

\* The names of a range, as many as it counts.
LEMMA NamesInIs ==
  ASSUME NEW r \in GoodRanges
  PROVE  /\ Count(r) \in Nat /\ Count(r) >= 1 /\ NamesIn(r) \in Seq(HostNames)
         /\ Len(NamesIn(r)) = Count(r)
         /\ \A k \in 1..Count(r) : NamesIn(r)[k] = NameAt(r, k - 1)
<1>1. r \in Ranges /\ r.lo \in Nat /\ r.hi \in Nat /\ r.width \in Nat /\ r.lo <= r.hi
      /\ r.prefix \in HostNames /\ r.singlehost \in BOOLEAN
  BY DEF GoodRanges, Ranges
<1>2. Count(r) \in Nat /\ Count(r) >= 1
  BY <1>1 DEF Count
<1>3. ASSUME NEW k \in 1..Count(r) PROVE NameAt(r, k - 1) \in HostNames
  <2>1. r.lo + (k - 1) \in Nat
    BY <1>1, <1>2
  <2>2. Format(r.prefix, r.lo + (k - 1), r.width) \in HostNames
    BY <1>1, <2>1, FormatIs
  <2> QED
    BY <1>1, <2>2 DEF NameAt
<1>4. NamesIn(r) = [k \in 1..Count(r) |-> NameAt(r, k - 1)]
  BY DEF NamesIn
<1>5. NamesIn(r) \in Seq(HostNames) /\ Len(NamesIn(r)) = Count(r)
  <2> DEFINE f == [k \in 1..Count(r) |-> NameAt(r, k - 1)]
  <2>1. f \in Seq(HostNames) /\ Len(f) = Count(r)
    BY <1>2, <1>3
  <2> QED
    BY <1>4, <2>1
<1> QED
  BY <1>2, <1>4, <1>5

\* The names of the first k ranges, for all k.
NamesUpTo(s, n, a) == 
  a[0] = <<>> /\ \A k \in 1..n : a[k] = a[k - 1] \o NamesIn(s[k])

LEMMA NamesExist ==
  ASSUME NEW s \in Seq(GoodRanges)
  PROVE  \E a \in [0..Len(s) -> Seq(HostNames)] : NamesUpTo(s, Len(s), a) /\ NamesOf(s) = a[Len(s)]
<1> DEFINE n == Len(s)
<1> DEFINE V == Seq(HostNames)
<1> DEFINE F == [p \in (1..n) \X V |-> p[2] \o NamesIn(s[p[1]])]
<1>1. n \in Nat /\ \A k \in 1..n : s[k] \in GoodRanges
  OBVIOUS
<1>2. \A k \in 1..n : NamesIn(s[k]) \in V
  BY <1>1, NamesInIs
<1>3. F \in [(1..n) \X V -> V]
  <2> HIDE DEF n
  <2> QED
    BY <1>2
<1>4. \A k \in 1..n : \A v \in V : F[<<k, v>>] = v \o NamesIn(s[k])
  <2> HIDE DEF n, V
  <2> QED
    OBVIOUS
<1>5. <<>> \in V
  OBVIOUS
<1> HIDE DEF F, V
<1>6. PICK g \in [SUBSET (1..n) -> V] : LeftFolds(n, <<>>, F, g)
  BY <1>1, <1>3, <1>5, LeftExists, Zenon
<1>7. LeftStep(n, V, <<>>, F, g)
  BY <1>6 DEF LeftFolds, LeftStep
<1>8. LeftComputes(n, V, <<>>, F, g)
  BY <1>1, <1>3, <1>5, <1>7, LeftChain, Zenon
<1>9. PICK a \in [0..n -> V] : LeftValues(n, <<>>, F, a)
  BY <1>8 DEF LeftComputes
<1>10. a[0] = <<>> /\ \A k \in 1..n : a[k] = a[k - 1] \o NamesIn(s[k]) /\ a[k - 1] \in V
  <2>1. ASSUME NEW k \in 1..n PROVE a[k] = a[k - 1] \o NamesIn(s[k]) /\ a[k - 1] \in V
    <3>1. k - 1 \in 0..n
      BY <1>1
    <3>2. a[k] = F[<<k, a[k - 1]>>]
      BY <1>9 DEF LeftValues
    <3> QED
      BY <1>4, <3>1, <3>2
  <2> QED
    BY <1>9, <2>1 DEF LeftValues
<1>11. NamesUpTo(s, n, a)
  BY <1>10 DEF NamesUpTo
<1>12. NamesOf(s) = a[n]
  <2> DEFINE q == [k \in DOMAIN s |-> NamesIn(s[k])]
  <2>1. DOMAIN s = 1..n
    OBVIOUS
  <2>2. q \in Seq(V) /\ Len(q) = n /\ \A k \in 1..n : q[k] = NamesIn(s[k])
    <3> HIDE DEF n
    <3>1. DOMAIN q = 1..n /\ \A k \in 1..n : q[k] = NamesIn(s[k])
      BY <2>1
    <3>2. q \in [1..n -> V]
      BY <1>2, <2>1 DEF V
    <3> QED
      BY <1>1, <3>1, <3>2
  <2>3. NamesOf(s) = FlattenSeq(q)
    BY DEF NamesOf
  <2> HIDE DEF q
  <2>4. CASE n = 0
    <3>1. q = <<>>
      BY <2>2, <2>4
    <3>2. FlattenSeq(q) = q
      BY <2>2, <2>4 DEF FlattenSeq
    <3> QED
      BY <1>10, <2>3, <2>4, <3>1, <3>2
  <2>5. CASE n # 0
    <3> DEFINE Eq(f) == f = [i \in 1..n |-> IF i = 1 THEN q[i] ELSE f[i - 1] \o q[i]]
    <3> DEFINE f == CHOOSE h : Eq(h)
    <3>1. FlattenSeq(q) = f[n]
      BY <2>2, <2>5 DEF FlattenSeq
    <3> DEFINE b == [i \in 1..n |-> a[i]]
    <3>2. ASSUME NEW i \in 1..n PROVE b[i] = IF i = 1 THEN q[i] ELSE b[i - 1] \o q[i]
      <4>1. a[i] = a[i - 1] \o q[i] /\ q[i] \in V
        BY <1>2, <1>10, <2>2
      <4>2. CASE i = 1
        <5>1. <<>> \o q[i] = q[i]
          BY <4>1 DEF V
        <5>2. a[i - 1] = <<>>
          BY <1>10, <4>2
        <5>3. a[i] = q[i]
          BY <4>1, <5>1, <5>2
        <5>4. b[i] = a[i]
          OBVIOUS
        <5> HIDE DEF b
        <5> QED
          BY <4>2, <5>3, <5>4
      <4>3. CASE i # 1
        <5>1. i - 1 \in 1..n
          BY <1>1, <4>3
        <5>2. b[i - 1] = a[i - 1]
          BY <5>1
        <5> QED
          BY <4>1, <4>3, <5>2
      <4> QED
        BY <4>2, <4>3
    <3>3. Eq(b)
      BY <3>2
    <3>4. Eq(f)
      <4> HIDE DEF Eq
      <4> QED
        BY <3>3
    <3> HIDE DEF f
    <3> DEFINE T == {i \in 1..n : f[i] # a[i]}
    <3>5. T = {}
      <4>1. SUFFICES ASSUME T # {} PROVE FALSE
        OBVIOUS
      <4>2. T \subseteq Nat
        OBVIOUS
      <4>3. PICK i \in T : \A j \in T : i <= j
        <5> HIDE DEF T
        <5> QED
          BY <4>1, <4>2, LeastIs
      <4>4. i \in 1..n /\ f[i] # a[i]
        OBVIOUS
      <4>5. CASE i = 1
        <5>1. f[i] = q[i] /\ a[i] = <<>> \o q[i] /\ q[i] \in V
          BY <1>2, <1>10, <2>2, <3>4, <4>4, <4>5, SMTT(30)
        <5>2. <<>> \o q[i] = q[i]
          BY <5>1 DEF V
        <5> QED
          BY <4>4, <5>1, <5>2
      <4>6. CASE i # 1
        <5>1. i - 1 \in 1..n /\ ~(i <= i - 1)
          BY <1>1, <4>4, <4>6
        <5>2. f[i - 1] = a[i - 1]
          BY <4>3, <5>1
        <5>3. f[i] = f[i - 1] \o q[i] /\ a[i] = a[i - 1] \o q[i]
          BY <1>10, <2>2, <3>4, <4>4, <4>6
        <5> QED
          BY <4>4, <5>2, <5>3
      <4> QED
        BY <4>5, <4>6
    <3>6. f[n] = a[n]
      BY <1>1, <2>5, <3>5
    <3> QED
      BY <2>3, <3>1, <3>6
  <2> QED
    BY <2>4, <2>5
<1> QED
  BY <1>9, <1>11, <1>12 DEF V

\* Ranges that are the same so far have the same names so far.
LEMMA NamesSame ==
  ASSUME NEW n \in Nat, NEW s, NEW t, \A k \in 1..n : s[k] = t[k], NEW a, NEW b,
         NamesUpTo(s, n, a), NamesUpTo(t, n, b)
  PROVE  a[n] = b[n]
<1> DEFINE T == {k \in 0..n : a[k] # b[k]}
<1>1. T = {}
  <2>1. SUFFICES ASSUME T # {} PROVE FALSE
    OBVIOUS
  <2>2. T \subseteq Nat
    OBVIOUS
  <2>3. PICK k \in T : \A j \in T : k <= j
    <3> HIDE DEF T
    <3> QED
      BY <2>1, <2>2, LeastIs
  <2>4. k \in 0..n /\ a[k] # b[k]
    OBVIOUS
  <2>5. k # 0
    BY <2>4 DEF NamesUpTo
  <2>6. k \in 1..n /\ k - 1 \in 0..n /\ ~(k <= k - 1)
    BY <2>4, <2>5
  <2>7. a[k - 1] = b[k - 1]
    BY <2>3, <2>6
  <2>8. a[k] = a[k - 1] \o NamesIn(s[k]) /\ b[k] = b[k - 1] \o NamesIn(t[k])
    BY <2>6 DEF NamesUpTo
  <2> QED
    BY <2>4, <2>6, <2>7, <2>8
<1> QED
  BY <1>1

LEMMA NamesOfType == ASSUME NEW s \in Seq(GoodRanges) PROVE NamesOf(s) \in Seq(HostNames)
<1>1. PICK a \in [0..Len(s) -> Seq(HostNames)] : NamesUpTo(s, Len(s), a) /\ NamesOf(s) = a[Len(s)]
  BY NamesExist
<1> QED
  BY <1>1

LEMMA NamesOfNone == NamesOf(<<>>) = <<>>
<1>1. <<>> \in Seq(GoodRanges) /\ Len(<<>>) = 0
  OBVIOUS
<1>2. PICK a : NamesUpTo(<<>>, Len(<<>>), a) /\ NamesOf(<<>>) = a[Len(<<>>)]
  BY <1>1, NamesExist
<1> QED
  BY <1>1, <1>2 DEF NamesUpTo

\* One more range, one more piece of names.
LEMMA NamesOfAppend ==
  ASSUME NEW s \in Seq(GoodRanges), NEW r \in GoodRanges
  PROVE  NamesOf(Append(s, r)) = NamesOf(s) \o NamesIn(r)
<1> DEFINE t == Append(s, r)
<1>1. t \in Seq(GoodRanges) /\ Len(t) = Len(s) + 1 /\ Len(s) \in Nat
  OBVIOUS
<1>2. (\A k \in 1..Len(s) : t[k] = s[k]) /\ t[Len(s) + 1] = r
  OBVIOUS
<1> HIDE DEF t
<1>3. PICK a : NamesUpTo(s, Len(s), a) /\ NamesOf(s) = a[Len(s)]
  BY NamesExist
<1>4. PICK b : NamesUpTo(t, Len(t), b) /\ NamesOf(t) = b[Len(t)]
  BY <1>1, NamesExist
<1>5. NamesUpTo(t, Len(s), b)
  <2>1. \A k \in 1..Len(s) : k \in 1..Len(t)
    BY <1>1
  <2> QED
    BY <1>4, <2>1, Zenon DEF NamesUpTo
<1>6. a[Len(s)] = b[Len(s)]
  BY <1>1, <1>2, <1>3, <1>5, NamesSame, SMTT(30)
<1>7. Len(s) + 1 \in 1..Len(t) /\ (Len(s) + 1) - 1 = Len(s)
  BY <1>1
<1>8. b[Len(s) + 1] = b[(Len(s) + 1) - 1] \o NamesIn(t[Len(s) + 1])
  BY <1>4, <1>7, Zenon DEF NamesUpTo
<1> QED
  BY <1>1, <1>2, <1>3, <1>4, <1>6, <1>7, <1>8 DEF t

\* Lists put behind each other, whatever they hold.
LEMMA BehindIs ==
  ASSUME NEW S, NEW x \in Seq(S), NEW y \in Seq(S)
  PROVE  /\ x \o y \in Seq(S) /\ Len(x \o y) = Len(x) + Len(y)
         /\ Len(x) \in Nat /\ Len(y) \in Nat
         /\ \A i \in 1..Len(x) + Len(y) : (x \o y)[i] = IF i <= Len(x) THEN x[i] ELSE y[i - Len(x)]
  BY SMTT(30)

LEMMA SameList ==
  ASSUME NEW S, NEW x \in Seq(S), NEW y \in Seq(S), Len(x) = Len(y),
         \A i \in 1..Len(x) : x[i] = y[i]
  PROVE  x = y
  BY SMTT(30)

LEMMA NamesBehind ==
  ASSUME NEW x \in Seq(HostNames), NEW y \in Seq(HostNames), NEW z \in Seq(HostNames)
  PROVE  (x \o y) \o z = x \o (y \o z)
<1>1. PICK xy \in Seq(HostNames) : xy = x \o y
  BY BehindIs
<1>2. PICK yz \in Seq(HostNames) : yz = y \o z
  BY BehindIs
<1>3. PICK l \in Seq(HostNames) : l = xy \o z
  BY BehindIs
<1>4. PICK r \in Seq(HostNames) : r = x \o yz
  BY BehindIs
<1>5. /\ Len(xy) = Len(x) + Len(y) /\ Len(x) \in Nat /\ Len(y) \in Nat
      /\ \A i \in 1..Len(x) + Len(y) : xy[i] = IF i <= Len(x) THEN x[i] ELSE y[i - Len(x)]
  BY <1>1, BehindIs
<1>6. /\ Len(yz) = Len(y) + Len(z) /\ Len(z) \in Nat
      /\ \A i \in 1..Len(y) + Len(z) : yz[i] = IF i <= Len(y) THEN y[i] ELSE z[i - Len(y)]
  BY <1>2, BehindIs
<1>7. /\ Len(l) = Len(xy) + Len(z)
      /\ \A i \in 1..Len(xy) + Len(z) : l[i] = IF i <= Len(xy) THEN xy[i] ELSE z[i - Len(xy)]
  BY <1>3, BehindIs
<1>8. /\ Len(r) = Len(x) + Len(yz)
      /\ \A i \in 1..Len(x) + Len(yz) : r[i] = IF i <= Len(x) THEN x[i] ELSE yz[i - Len(x)]
  BY <1>4, BehindIs
<1>9. ASSUME NEW i \in 1..Len(l) PROVE l[i] = r[i]
  <2>0. i \in 1..Len(x) + Len(y) + Len(z) /\ i \in Nat
    BY ONLY <1>5, <1>7, <1>9, SMTT(30)
  <2>1. CASE i <= Len(x)
    <3>1. l[i] = xy[i]
      BY ONLY <1>5, <1>6, <1>7, <2>0, <2>1, SMTT(30)
    <3>2. xy[i] = x[i]
      BY ONLY <1>5, <1>6, <2>0, <2>1, SMTT(30)
    <3>3. r[i] = x[i]
      BY ONLY <1>5, <1>6, <1>8, <2>0, <2>1, SMTT(30)
    <3> QED
      BY <3>1, <3>2, <3>3
  <2>2. CASE i > Len(x) /\ i <= Len(x) + Len(y)
    <3>1. l[i] = xy[i]
      BY ONLY <1>5, <1>6, <1>7, <2>0, <2>2, SMTT(30)
    <3>2. xy[i] = y[i - Len(x)]
      BY ONLY <1>5, <1>6, <2>0, <2>2, SMTT(30)
    <3>3. r[i] = yz[i - Len(x)]
      BY ONLY <1>5, <1>6, <1>8, <2>0, <2>2, SMTT(30)
    <3>4. yz[i - Len(x)] = y[i - Len(x)]
      BY ONLY <1>5, <1>6, <2>0, <2>2, SMTT(30)
    <3> QED
      BY <3>1, <3>2, <3>3, <3>4
  <2>3. CASE i > Len(x) + Len(y)
    <3>1. l[i] = z[i - Len(xy)]
      BY ONLY <1>5, <1>6, <1>7, <2>0, <2>3, SMTT(30)
    <3>2. i - Len(xy) = (i - Len(x)) - Len(y)
      BY ONLY <1>5, <2>0, SMTT(30)
    <3>3. r[i] = yz[i - Len(x)]
      BY ONLY <1>5, <1>6, <1>8, <2>0, <2>3, SMTT(30)
    <3>4. yz[i - Len(x)] = z[(i - Len(x)) - Len(y)]
      BY ONLY <1>5, <1>6, <2>0, <2>3, SMTT(30)
    <3> QED
      BY <3>1, <3>2, <3>3, <3>4
  <2> QED
    BY ONLY <1>5, <2>0, <2>1, <2>2, <2>3, SMTT(30)
<1>10. Len(l) = Len(r)
  BY ONLY <1>5, <1>6, <1>7, <1>8, SMTT(30)
<1>11. l = r
  BY <1>9, <1>10, SameList
<1> QED
  BY <1>1, <1>2, <1>3, <1>4, <1>11

\* The names of two lists in a row.
LEMMA NamesOfConcat ==
  ASSUME NEW s \in Seq(GoodRanges), NEW t \in Seq(GoodRanges)
  PROVE  NamesOf(s \o t) = NamesOf(s) \o NamesOf(t)
<1> DEFINE P(k) == NamesOf(s \o SubSeq(t, 1, k)) = NamesOf(s) \o NamesOf(SubSeq(t, 1, k))
<1> DEFINE T == {k \in 0..Len(t) : ~P(k)}
<1>0. NamesOf(s) \in Seq(HostNames) /\ Len(t) \in Nat
  BY NamesOfType
<1>1. T = {}
  <2>1. SUFFICES ASSUME T # {} PROVE FALSE
    OBVIOUS
  <2>2. T \subseteq Nat
    OBVIOUS
  <2>3. PICK k \in T : \A j \in T : k <= j
    <3> HIDE DEF T
    <3> QED
      BY <2>1, <2>2, LeastIs
  <2>4. k \in 0..Len(t) /\ ~P(k)
    OBVIOUS
  <2>5. CASE k = 0
    <3>1. SubSeq(t, 1, 0) = <<>> /\ s \o <<>> = s
      OBVIOUS
    <3>2. NamesOf(s) \o <<>> = NamesOf(s)
      BY <1>0
    <3> QED
      BY <2>4, <2>5, <3>1, <3>2, NamesOfNone
  <2>6. CASE k # 0
    <3>1. k - 1 \in 0..Len(t) /\ ~(k <= k - 1) /\ k \in 1..Len(t) /\ k - 1 \in Nat
      BY <2>4, <2>6, <1>0
    <3>2. P(k - 1)
      BY <2>3, <3>1
    <3> DEFINE u == SubSeq(t, 1, k - 1)
    <3>3. u \in Seq(GoodRanges) /\ t[k] \in GoodRanges
      BY <3>1
    <3>4. SubSeq(t, 1, k) = Append(u, t[k])
      BY <3>1
    <3> HIDE DEF u
    <3>5. s \o Append(u, t[k]) = Append(s \o u, t[k]) /\ s \o u \in Seq(GoodRanges)
      BY <3>3, SMTT(30)
    <3>6. NamesOf(Append(u, t[k])) = NamesOf(u) \o NamesIn(t[k])
      BY <3>3, NamesOfAppend
    <3>7. NamesOf(Append(s \o u, t[k])) = NamesOf(s \o u) \o NamesIn(t[k])
      BY <3>3, <3>5, NamesOfAppend
    <3>8. NamesOf(u) \in Seq(HostNames) /\ NamesIn(t[k]) \in Seq(HostNames)
      BY <3>3, NamesOfType, NamesInIs
    <3>9. NamesOf(s \o u) = NamesOf(s) \o NamesOf(u)
      BY <3>2 DEF u
    <3>10. NamesOf(s \o u) \o NamesIn(t[k]) = NamesOf(s) \o (NamesOf(u) \o NamesIn(t[k]))
      <4>1. \A x, y, z \in Seq(HostNames) : (x \o y) \o z = x \o (y \o z)
        <5> TAKE x, y, z \in Seq(HostNames)
        <5> QED
          BY NamesBehind, ZenonT(40)
      <4>2. (NamesOf(s) \o NamesOf(u)) \o NamesIn(t[k]) = NamesOf(s) \o (NamesOf(u) \o NamesIn(t[k]))
        BY <1>0, <3>8, <4>1, ZenonT(40)
      <4> QED
        BY <3>9, <4>2, ZenonT(40)
    <3> QED
      BY <2>4, <3>4, <3>5, <3>6, <3>7, <3>10
  <2> QED
    BY <2>5, <2>6
<1>2. P(Len(t))
  BY <1>0, <1>1
<1>3. SubSeq(t, 1, Len(t)) = t
  OBVIOUS
<1> QED
  BY <1>2, <1>3

LEMMA NamesOfOne == ASSUME NEW r \in GoodRanges PROVE NamesOf(<<r>>) = NamesIn(r)
<1>1. <<>> \in Seq(GoodRanges) /\ Append(<<>>, r) = <<r>>
  OBVIOUS
<1>2. NamesOf(Append(<<>>, r)) = NamesOf(<<>>) \o NamesIn(r)
  BY <1>1, NamesOfAppend
<1>3. NamesIn(r) \in Seq(HostNames)
  BY NamesInIs
<1>4. <<>> \o NamesIn(r) = NamesIn(r)
  BY <1>3
<1> QED
  BY <1>1, <1>2, <1>4, NamesOfNone

----------------------------------------------------------------------------
(* The number of names. *)
Total(s) == Len(NamesOf(s))

LEMMA TotalNone == Total(<<>>) = 0
  BY NamesOfNone DEF Total

LEMMA TotalOne == ASSUME NEW r \in GoodRanges PROVE Total(<<r>>) = Count(r)
  BY NamesOfOne, NamesInIs DEF Total

LEMMA TotalConcat ==
  ASSUME NEW s \in Seq(GoodRanges), NEW t \in Seq(GoodRanges)
  PROVE  Total(s) \in Nat /\ Total(t) \in Nat /\ Total(s \o t) = Total(s) + Total(t)
<1>1. NamesOf(s) \in Seq(HostNames) /\ NamesOf(t) \in Seq(HostNames)
  BY NamesOfType
<1>2. \A x, y \in Seq(HostNames) : Len(x \o y) = Len(x) + Len(y) /\ Len(x) \in Nat
  OBVIOUS
<1> QED
  BY <1>1, <1>2, NamesOfConcat DEF Total

\* What the list holds before, at and behind a position.
LEMMA TotalAt ==
  ASSUME NEW s \in Seq(GoodRanges), NEW n \in DOMAIN s
  PROVE  /\ n \in 1..Len(s) /\ s[n] \in GoodRanges
         /\ SubSeq(s, 1, n - 1) \in Seq(GoodRanges) /\ SubSeq(s, n + 1, Len(s)) \in Seq(GoodRanges)
         /\ s = SubSeq(s, 1, n - 1) \o <<s[n]>> \o SubSeq(s, n + 1, Len(s))
         /\ Total(SubSeq(s, 1, n - 1)) \in Nat /\ Total(SubSeq(s, n + 1, Len(s))) \in Nat
         /\ Total(s) = Total(SubSeq(s, 1, n - 1)) + Count(s[n]) + Total(SubSeq(s, n + 1, Len(s)))
<1>1. n \in 1..Len(s) /\ s[n] \in GoodRanges /\ Len(s) \in Nat
  OBVIOUS
<1> DEFINE x == SubSeq(s, 1, n - 1)
<1> DEFINE y == SubSeq(s, n + 1, Len(s))
<1>2. x \in Seq(GoodRanges) /\ y \in Seq(GoodRanges) /\ <<s[n]>> \in Seq(GoodRanges)
  BY <1>1
<1>3. s = x \o <<s[n]>> \o y
  <2>1. Len(x) = n - 1 /\ Len(y) = Len(s) - n /\ Len(<<s[n]>>) = 1
    BY <1>1
  <2>2. \A i \in 1..n - 1 : x[i] = s[i]
    BY <1>1
  <2>3. \A i \in 1..Len(s) - n : y[i] = s[n + i]
    BY <1>1
  <2> HIDE DEF x, y
  <2> DEFINE z == (x \o <<s[n]>>) \o y
  <2>4. z \in Seq(GoodRanges) /\ Len(z) = Len(s)
    BY <1>1, <1>2, <2>1
  <2>5. ASSUME NEW i \in 1..Len(s) PROVE z[i] = s[i]
    <3>1. CASE i < n
      BY <1>1, <1>2, <2>1, <2>2, <3>1
    <3>2. CASE i = n
      BY <1>1, <1>2, <2>1, <3>2
    <3>3. CASE i > n
      <4>1. i - n \in 1..Len(s) - n /\ n + (i - n) = i
        BY <1>1, <3>3
      <4>2. z[i] = y[i - n]
        BY <1>1, <1>2, <2>1, <3>3
      <4>3. y[i - n] = s[n + (i - n)]
        BY <2>3, <4>1, Zenon
      <4> HIDE DEF z
      <4> QED
        BY <4>1, <4>2, <4>3
    <3>4. i < n \/ i = n \/ i > n
      <4> HIDE DEF z
      <4> QED
        BY <1>1
    <3> QED
      BY <3>1, <3>2, <3>3, <3>4, Zenon
  <2> HIDE DEF z
  <2>6. s = z
    BY <2>4, <2>5
  <2> QED
    BY <2>6 DEF z
<1> HIDE DEF x, y
<1>4. x \o <<s[n]>> \in Seq(GoodRanges)
  BY <1>2
<1>5. Total(x) \in Nat /\ Total(y) \in Nat /\ Total(<<s[n]>>) = Count(s[n])
  BY <1>1, <1>2, TotalConcat, TotalOne
<1>6. Total(x \o <<s[n]>>) = Total(x) + Total(<<s[n]>>)
  BY <1>2, TotalConcat
<1>7. Total(x \o <<s[n]>> \o y) = Total(x \o <<s[n]>>) + Total(y)
  BY <1>2, <1>4, TotalConcat
<1>8. Count(s[n]) \in Nat
  BY <1>1, NamesInIs
<1>9. Total(s) = Total(x) + Count(s[n]) + Total(y)
  BY <1>3, <1>5, <1>6, <1>7, <1>8
<1> QED
  BY <1>1, <1>2, <1>3, <1>5, <1>9 DEF x, y

LEMMA GoodIs ==
  ASSUME NEW r \in GoodRanges
  PROVE  /\ r \in Ranges /\ r.prefix \in HostNames /\ r.singlehost \in BOOLEAN
         /\ r.lo \in Nat /\ r.hi \in Nat /\ r.width \in Nat /\ r.lo <= r.hi
         /\ (r.singlehost => r.lo = 0 /\ r.hi = 0) /\ Count(r) = r.hi - r.lo + 1
         /\ (~r.singlehost => NoTail(r.prefix))
  BY DEF GoodRanges, Ranges, Count

\* A range with other bounds.
LEMMA ChangedIs ==
  ASSUME NEW r \in GoodRanges, NEW a \in Nat, NEW b \in Nat, NEW w \in Nat, a <= b, ~r.singlehost
  PROVE  [r EXCEPT !.lo = a, !.hi = b, !.width = w] \in GoodRanges
         /\ Count([r EXCEPT !.lo = a, !.hi = b, !.width = w]) = b - a + 1
  BY DEF GoodRanges, Ranges, Count

LEMMA LastIs ==
  ASSUME NEW s \in Seq(GoodRanges), s # <<>>
  PROVE  /\ Front(s) \in Seq(GoodRanges) /\ Last(s) \in GoodRanges /\ Len(s) \in DOMAIN s
         /\ Total(Front(s)) \in Nat /\ Total(s) = Total(Front(s)) + Count(Last(s))
         /\ s = Front(s) \o <<Last(s)>>
<1>1. Len(s) \in DOMAIN s /\ Len(s) \in Nat
  OBVIOUS
<1>2. SubSeq(s, Len(s) + 1, Len(s)) = <<>>
  BY <1>1
<1> DEFINE x == SubSeq(s, 1, Len(s) - 1)
<1>3. /\ x \in Seq(GoodRanges) /\ s[Len(s)] \in GoodRanges /\ Total(x) \in Nat
      /\ Total(s) = Total(x) + Count(s[Len(s)]) + Total(SubSeq(s, Len(s) + 1, Len(s)))
      /\ s = x \o <<s[Len(s)]>> \o SubSeq(s, Len(s) + 1, Len(s))
  BY <1>1, TotalAt
<1> HIDE DEF x
<1>4. Count(s[Len(s)]) \in Nat
  BY <1>3, NamesInIs
<1>5. Total(s) = Total(x) + Count(s[Len(s)])
  <2>1. Total(SubSeq(s, Len(s) + 1, Len(s))) = 0
    BY <1>2, TotalNone, Zenon
  <2> QED
    BY <1>3, <1>4, <2>1
<1>6. x \o <<s[Len(s)]>> \in Seq(GoodRanges)
  BY <1>3
<1>7. s = x \o <<s[Len(s)]>>
  <2>1. (x \o <<s[Len(s)]>>) \o <<>> = x \o <<s[Len(s)]>>
    BY <1>6
  <2> QED
    BY <1>2, <1>3, <2>1
<1>8. x = Front(s) /\ s[Len(s)] = Last(s)
  BY DEF Front, Last, x
<1> QED
  BY <1>1, <1>3, <1>5, <1>7, <1>8

LEMMA FirstIs ==
  ASSUME NEW s \in Seq(GoodRanges), s # <<>>
  PROVE  /\ Tail(s) \in Seq(GoodRanges) /\ s[1] \in GoodRanges /\ 1 \in DOMAIN s
         /\ Total(Tail(s)) \in Nat /\ Total(s) = Count(s[1]) + Total(Tail(s))
         /\ s = <<s[1]>> \o Tail(s)
<1>1. 1 \in DOMAIN s /\ Len(s) \in Nat /\ Tail(s) \in Seq(GoodRanges) /\ s[1] \in GoodRanges
  OBVIOUS
<1>2. s = <<s[1]>> \o Tail(s)
  OBVIOUS
<1>3. <<s[1]>> \in Seq(GoodRanges)
  BY <1>1
<1>4. Total(Tail(s)) \in Nat /\ Total(<<s[1]>> \o Tail(s)) = Total(<<s[1]>>) + Total(Tail(s))
  BY <1>1, <1>3, TotalConcat
<1>5. Total(<<s[1]>>) = Count(s[1])
  BY <1>1, TotalOne
<1> QED
  BY <1>1, <1>2, <1>4, <1>5

----------------------------------------------------------------------------
(* Lists whose count is right. *)
GoodLists == {l \in [nhosts : Nat, hr : Seq(GoodRanges)] : l.nhosts = Total(l.hr)}

LEMMA GoodListIs ==
  ASSUME NEW s \in Seq(GoodRanges), NEW n, n = Total(s)
  PROVE  [nhosts |-> n, hr |-> s] \in GoodLists
<1>1. Total(s) \in Nat
  BY TotalConcat
<1> QED
  BY <1>1 DEF GoodLists

\* hostlist_push_range.
LEMMA PushRangeKeeps ==
  ASSUME NEW l \in GoodLists, NEW r \in GoodRanges
  PROVE  PushRange(l, r) \in GoodLists
<1>1. l.hr \in Seq(GoodRanges) /\ l.nhosts \in Nat /\ l.nhosts = Total(l.hr)
  BY DEF GoodLists
<1>2. Count(r) \in Nat
  BY NamesInIs
<1> DEFINE q == Last(l.hr)
<1> DEFINE joins == l.hr # <<>> /\ SamePrefix(q, r) /\ q.hi = r.lo - 1 /\ r.lo > 0 /\ Combine(q, r)
<1>3. CASE joins
  <2>1. /\ Front(l.hr) \in Seq(GoodRanges) /\ q \in GoodRanges
        /\ Total(Front(l.hr)) \in Nat /\ Total(l.hr) = Total(Front(l.hr)) + Count(q)
    BY <1>1, <1>3, LastIs
  <2>2. /\ q.lo \in Nat /\ q.hi \in Nat /\ q.lo <= q.hi /\ q.width \in Nat /\ r.width \in Nat
        /\ r.lo \in Nat /\ r.hi \in Nat /\ r.lo <= r.hi
        /\ Count(q) = q.hi - q.lo + 1 /\ Count(r) = r.hi - r.lo + 1
    BY <2>1, GoodIs
  <2>3. ~q.singlehost
    <3>1. r.singlehost => r.lo = 0
      BY GoodIs
    <3> QED
      BY <1>3, <2>2, <3>1 DEF SamePrefix
  <2> DEFINE w == CommonWidth(q, r)
  <2> DEFINE j == [q EXCEPT !.lo = q.lo, !.hi = r.hi, !.width = w]
  <2>4. w \in Nat /\ q.lo <= r.hi
    BY <1>3, <2>2 DEF CommonWidth
  <2>5. j \in GoodRanges /\ Count(j) = r.hi - q.lo + 1
    <3>1. q \in GoodRanges
      BY <2>1
    <3>2. q.lo \in Nat
      BY <2>2
    <3>3. r.hi \in Nat
      BY <2>2
    <3>4. w \in Nat
      BY <2>4
    <3>5. q.lo <= r.hi
      BY <2>4
    <3> HIDE DEF w, q
    <3> QED
      BY <2>3, <3>1, <3>2, <3>3, <3>4, <3>5, ChangedIs, ZenonT(40)
  <2>6. Joined(q, r, r.hi) = j
    <3>1. q \in Ranges
      BY <2>1, GoodIs
    <3> QED
      BY <3>1 DEF Joined, Ranges
  <2> HIDE DEF j
  <2>7. PushRange(l, r) = [nhosts |-> l.nhosts + Count(r), hr |-> Front(l.hr) \o <<j>>]
    BY <1>3, <2>6 DEF PushRange
  <2>8. <<j>> \in Seq(GoodRanges) /\ Front(l.hr) \o <<j>> \in Seq(GoodRanges)
    BY <2>1, <2>5
  <2>9. Total(Front(l.hr) \o <<j>>) = Total(Front(l.hr)) + Total(<<j>>) /\ Total(<<j>>) = Count(j)
    BY <2>1, <2>5, <2>8, TotalConcat, TotalOne
  <2>10. l.nhosts + Count(r) = Total(Front(l.hr) \o <<j>>)
    <3>1. q.hi = r.lo - 1
      BY <1>3
    <3> HIDE DEF q, joins
    <3>2. l.nhosts = Total(Front(l.hr)) + (q.hi - q.lo + 1)
      BY <1>1, <2>1, <2>2
    <3>3. Total(Front(l.hr) \o <<j>>) = Total(Front(l.hr)) + (r.hi - q.lo + 1)
      BY <2>5, <2>9
    <3>4. Count(r) = r.hi - r.lo + 1 /\ Total(Front(l.hr)) \in Nat
      BY <2>1, <2>2
    <3> QED
      BY ONLY <2>2, <3>1, <3>2, <3>3, <3>4
  <2> QED
    BY <2>7, <2>8, <2>10, GoodListIs
<1>4. CASE ~joins
  <2>1. PushRange(l, r) = [nhosts |-> l.nhosts + Count(r), hr |-> Append(l.hr, r)]
    BY <1>4 DEF PushRange
  <2>2. Append(l.hr, r) \in Seq(GoodRanges) /\ Append(l.hr, r) = l.hr \o <<r>> 
        /\ <<r>> \in Seq(GoodRanges)
    BY <1>1
  <2>3. Total(l.hr \o <<r>>) = Total(l.hr) + Total(<<r>>) /\ Total(<<r>>) = Count(r)
    BY <1>1, <2>2, TotalConcat, TotalOne
  <2>4. l.nhosts + Count(r) = Total(Append(l.hr, r))
    BY <1>1, <2>2, <2>3
  <2> QED
    BY <2>1, <2>2, <2>4, GoodListIs
<1> QED
  BY <1>3, <1>4

\* hostlist_push_list.
LEMMA PushAllKeeps ==
  ASSUME NEW l \in GoodLists, NEW s \in Seq(GoodRanges)
  PROVE  PushAll(l, s) \in GoodLists
<1>1. Len(s) \in Nat /\ DOMAIN s = 1..Len(s) /\ \A k \in 1..Len(s) : s[k] \in GoodRanges
  OBVIOUS
<1>2. CanPush(GoodLists, Len(s), s)
  BY <1>1, PushRangeKeeps DEF CanPush
<1>3. Pushed(GoodLists, Len(s), s, l)
  BY <1>1, <1>2, PushAllIs, Zenon
<1>4. PICK a \in [0..Len(s) -> GoodLists] : PushAll(l, s) = a[Len(s)]
  BY <1>3 DEF Pushed
<1> QED
  BY <1>1, <1>4

\* The hosts of a name with a tail: hosts on their own.
LEMMA SinglesAre ==
  ASSUME NEW prefix \in HostNames, NEW tail \in Tails, 
         NEW g \in Groups, g.lo <= g.hi
  PROVE  Singles(prefix, tail, g) \in Seq(GoodRanges)
<1> DEFINE n == g.hi - g.lo + 1
<1> DEFINE f == [k \in 1..n |-> 
                   Single([Format(prefix, g.lo + k - 1, g.width) EXCEPT !.tail = tail])]
<1>1. n \in Nat /\ g.lo \in Nat /\ g.width \in Nat
  BY DEF Groups
<1>2. ASSUME NEW k \in 1..n
      PROVE  Single([Format(prefix, g.lo + k - 1, g.width) EXCEPT !.tail = tail]) \in GoodRanges
  <2>1. g.lo + k - 1 \in Nat
    BY <1>1
  <2>2. Format(prefix, g.lo + k - 1, g.width) \in HostNames
    BY <1>1, <2>1, FormatIs
  <2>3. PICK p \in HostNames : p = Format(prefix, g.lo + k - 1, g.width)
    BY <2>2
  <2>4. [p EXCEPT !.tail = tail] \in HostNames
    BY DEF HostNames
  <2>5. Single([p EXCEPT !.tail = tail]) \in GoodRanges
    BY <2>4 DEF Single, GoodRanges, Ranges
  <2> QED
    BY <2>3, <2>5
<1> HIDE DEF n
<1>3. f \in Seq(GoodRanges)
  <2>1. f \in [1..n -> GoodRanges]
    BY <1>2
  <2> HIDE DEF f
  <2> QED
    BY <1>1, <2>1
<1> QED
  BY <1>3 DEF Singles, n

LEMMA GroupKeeps ==
  ASSUME NEW token \in Tokens, NEW l \in GoodLists, NEW g \in Groups,
         g.lo <= g.hi, NoTail(token.prefix)
  PROVE  GroupPushed(token, l, g) \in GoodLists
<1>1. token.prefix \in HostNames /\ token.tail \in Tails
  BY DEF Tokens
<1>2. NewRange(token.prefix, g.lo, g.hi, g.width) \in GoodRanges
  BY <1>1 DEF NewRange, GoodRanges, Ranges, Groups
<1>3. PushRange(l, NewRange(token.prefix, g.lo, g.hi, g.width)) \in GoodLists
  BY <1>2, PushRangeKeeps
<1>4. Singles(token.prefix, token.tail, g) \in Seq(GoodRanges)
  BY <1>1, SinglesAre
<1>5. PushAll(l, Singles(token.prefix, token.tail, g)) \in GoodLists
  BY <1>4, PushAllKeeps
<1> QED
  BY <1>3, <1>5 DEF GroupPushed

LEMMA HostRangeIs == ASSUME NEW p \in HostNames PROVE HostRange(p) \in GoodRanges
<1>1. p.val \in Nat /\ p.len \in Nat
  BY DEF HostNames
<1> DEFINE q == [p EXCEPT !.val = 0, !.len = 0]
<1>2. q \in HostNames /\ q.tail = p.tail
  <2>1. 0 < Power[0]
    BY PowerIs
  <2> QED
    BY <2>1 DEF HostNames
<1> HIDE DEF q
<1>3. ASSUME HasSuffix(p) PROVE NewRange(q, p.val, p.val, p.len) \in GoodRanges
  <2>1. NoTail(q)
    BY <1>2, <1>3 DEF HasSuffix, NoTail
  <2> QED
    BY <1>1, <1>2, <2>1 DEF NewRange, GoodRanges, Ranges
<1>4. Single(p) \in GoodRanges
  BY DEF Single, GoodRanges, Ranges
<1> QED
  BY <1>3, <1>4 DEF HostRange, q

ValidToken(token) == 
  /\ \A j \in DOMAIN token.ranges : Valid(token.ranges[j])
  /\ token.ranges # <<>> => NoTail(token.prefix)

LEMMA TokenKeeps ==
  ASSUME NEW l \in GoodLists, NEW token \in Tokens, ValidToken(token)
  PROVE  PushToken(l, token) \in GoodLists
<1>1. token.prefix \in HostNames /\ token.ranges \in Seq(Groups)
  BY DEF Tokens
<1> DEFINE s == token.ranges
<1>2. Len(s) \in Nat /\ DOMAIN s = 1..Len(s) 
      /\ \A k \in 1..Len(s) : s[k] \in Groups
  <2>1. s \in Seq(Groups)
    BY <1>1
  <2> HIDE DEF s
  <2>2. \A k \in 1..Len(s) : s[k] \in Groups
    BY <2>1
  <2> QED
    BY <2>1, <2>2
<1>3. ASSUME NEW k \in 1..Len(s), NEW v \in GoodLists 
      PROVE  GroupPushed(token, v, s[k]) \in GoodLists
  <2>1. s[k].lo <= s[k].hi
    BY <1>2 DEF ValidToken, Valid
  <2>2. s # <<>>
    BY <1>2
  <2>3. NoTail(token.prefix)
    BY <2>2, Zenon DEF ValidToken
  <2> QED
    BY <1>2, <2>1, <2>3, GroupKeeps
<1>4. CanPushGroups(token, GoodLists, Len(s), s)
  BY <1>2, <1>3 DEF CanPushGroups
<1>5. GroupsPushed(token, GoodLists, Len(s), s, l)
  BY <1>2, <1>4, AllGroupsIs, Zenon
<1>6. AllGroups(token, l, s) \in GoodLists
  BY <1>2, <1>5 DEF GroupsPushed
<1>7. HostRange(token.prefix) \in GoodRanges
  BY <1>1, HostRangeIs
<1>8. PushRange(l, HostRange(token.prefix)) \in GoodLists
  BY <1>7, PushRangeKeeps
<1>9. PushToken(l, token) = 
        IF s = <<>> THEN PushRange(l, HostRange(token.prefix)) ELSE AllGroups(token, l, s)
  BY DEF PushToken, AllGroups, GroupPushed
<1> QED
  BY <1>6, <1>8, <1>9

\* hostlist_create: a list with a count that is right.
LEMMA CreateKeeps ==
  ASSUME NEW tokens \in Inputs, ParseOK(tokens)
  PROVE  Create(tokens) \in GoodLists
<1>1. /\ Len(tokens) \in Nat /\ DOMAIN tokens = 1..Len(tokens) 
      /\ \A k \in 1..Len(tokens) : tokens[k] \in Tokens
  <2>1. tokens \in Seq(Tokens)
    BY HostlistAssumption
  <2> QED
    BY <2>1
<1>2. \A k \in 1..Len(tokens) : ValidToken(tokens[k])
  BY <1>1, HostlistAssumption DEF ParseOK, ValidToken
<1>3. CanPushTokens(GoodLists, Len(tokens), tokens)
  BY <1>1, <1>2, TokenKeeps DEF CanPushTokens
<1>4. EmptyList \in GoodLists
  <2>1. <<>> \in Seq(GoodRanges) /\ 0 = Total(<<>>)
    BY TotalNone
  <2> QED
    BY <2>1, GoodListIs DEF EmptyList
<1>5. TokensPushed(GoodLists, Len(tokens), tokens, EmptyList)
  BY <1>1, <1>3, <1>4, CreateIs, Zenon
<1>6. FoldLeft(PushToken, EmptyList, tokens) \in GoodLists
  BY <1>1, <1>5 DEF TokensPushed
<1> QED
  BY <1>6 DEF Create

----------------------------------------------------------------------------
(* hostlist_delete and hostlist_remove: one host less. *)

LEMMA TotalThree ==
  ASSUME NEW x \in Seq(GoodRanges), NEW y \in Seq(GoodRanges), NEW z \in Seq(GoodRanges)
  PROVE  /\ x \o y \o z \in Seq(GoodRanges)
         /\ Total(x \o y \o z) = Total(x) + Total(y) + Total(z)
         /\ Total(x) \in Nat /\ Total(y) \in Nat /\ Total(z) \in Nat
<1>1. x \o y \in Seq(GoodRanges) /\ (x \o y) \o z \in Seq(GoodRanges)
  OBVIOUS
<1>2. Total((x \o y) \o z) = Total(x \o y) + Total(z) /\ Total(z) \in Nat
  BY <1>1, TotalConcat
<1>3. Total(x \o y) = Total(x) + Total(y) /\ Total(x) \in Nat /\ Total(y) \in Nat
  BY TotalConcat
<1> QED
  BY <1>1, <1>2, <1>3

\* Replacing the range at a position by any ranges.
Around(s, n, y) == SubSeq(s, 1, n - 1) \o y \o SubSeq(s, n + 1, Len(s))

LEMMA AroundIs ==
  ASSUME NEW s \in Seq(GoodRanges), NEW n \in DOMAIN s, NEW y \in Seq(GoodRanges)
  PROVE  /\ Around(s, n, y) \in Seq(GoodRanges)
         /\ Total(Around(s, n, y)) = Total(s) - Count(s[n]) + Total(y)
<1> DEFINE x == SubSeq(s, 1, n - 1)
<1> DEFINE z == SubSeq(s, n + 1, Len(s))
<1>1. /\ x \in Seq(GoodRanges) /\ z \in Seq(GoodRanges) /\ s[n] \in GoodRanges
      /\ Total(x) \in Nat /\ Total(z) \in Nat /\ Total(s) = Total(x) + Count(s[n]) + Total(z)
  BY TotalAt
<1>2. Count(s[n]) \in Nat
  BY <1>1, NamesInIs
<1>3. Around(s, n, y) = x \o y \o z
  BY DEF Around
<1> HIDE DEF x, z
<1>4. /\ x \o y \o z \in Seq(GoodRanges) /\ Total(y) \in Nat
      /\ Total(x \o y \o z) = Total(x) + Total(y) + Total(z)
  BY <1>1, TotalThree
<1> QED
  BY <1>1, <1>2, <1>3, <1>4

LEMMA SameEnd ==
  ASSUME NEW s \in Seq(GoodRanges), NEW t \in Seq(GoodRanges), Len(t) = Len(s), 
         NEW m \in 1..Len(s) + 1, \A k \in m..Len(s) : t[k] = s[k]
  PROVE  SubSeq(t, m, Len(t)) = SubSeq(s, m, Len(s))
<1> DEFINE x == SubSeq(s, m, Len(s))
<1> DEFINE y == SubSeq(t, m, Len(t))
<1>1. x \in Seq(GoodRanges) /\ Len(x) = Len(s) - m + 1 
      /\ \A i \in 1..Len(s) - m + 1 : x[i] = s[m + i - 1]
  OBVIOUS
<1>2. y \in Seq(GoodRanges) /\ Len(y) = Len(s) - m + 1 
      /\ \A i \in 1..Len(s) - m + 1 : y[i] = t[m + i - 1]
  OBVIOUS
<1> HIDE DEF x, y
<1>3. ASSUME NEW i \in 1..Len(s) - m + 1 PROVE x[i] = y[i]
  <2>1. m + i - 1 \in m..Len(s)
    OBVIOUS
  <2>2. t[m + i - 1] = s[m + i - 1]
    BY <2>1
  <2> QED
    BY <1>1, <1>2, <2>2
<1>4. x = y
  <2>1. x \in Seq(GoodRanges) /\ y \in Seq(GoodRanges) /\ Len(x) = Len(y)
    BY <1>1, <1>2
  <2>2. \A i \in 1..Len(x) : x[i] = y[i]
    BY <1>1, <1>3
  <2> QED
    BY <2>1, <2>2, SameList, ZenonT(40)
<1> QED
  BY <1>4 DEF x, y

LEMMA ReplaceAround ==
  ASSUME NEW s \in Seq(GoodRanges), NEW n \in DOMAIN s, NEW r \in GoodRanges
  PROVE  ReplaceAt(s, n, r) = Around(s, n, <<r>>)
<1>1. n \in 1..Len(s) /\ Len(s) \in Nat
  OBVIOUS
<1> DEFINE t == [s EXCEPT ![n] = r]
<1>2. t \in Seq(GoodRanges) /\ Len(t) = Len(s) /\ n \in DOMAIN t
  OBVIOUS
<1>3. t[n] = r /\ \A k \in 1..Len(s) : k # n => t[k] = s[k]
  OBVIOUS
<1> HIDE DEF t
<1>4. t = SubSeq(t, 1, n - 1) \o <<t[n]>> \o SubSeq(t, n + 1, Len(t))
  BY <1>2, TotalAt
<1>5. SubSeq(t, 1, n - 1) = SubSeq(s, 1, n - 1)
  BY <1>1, <1>2, <1>3
<1>6. SubSeq(t, n + 1, Len(t)) = SubSeq(s, n + 1, Len(s))
  <2>1. n + 1 \in 1..Len(s) + 1 /\ Len(t) = Len(s)
    BY <1>1, <1>2
  <2>2. \A k \in n + 1..Len(s) : t[k] = s[k]
    BY <1>1, <1>3
  <2> QED
    BY <1>2, <2>1, <2>2, SameEnd
<1> QED
  BY <1>3, <1>4, <1>5, <1>6 DEF ReplaceAt, Around, t

LEMMA ConcatIs ==
  ASSUME NEW x \in Seq(GoodRanges), NEW y \in Seq(GoodRanges)
  PROVE  /\ x \o y \in Seq(GoodRanges) /\ Len(x \o y) = Len(x) + Len(y)
         /\ Len(x) \in Nat /\ Len(y) \in Nat
         /\ \A i \in 1..Len(x) + Len(y) : (x \o y)[i] = IF i <= Len(x) THEN x[i] ELSE y[i - Len(x)]
  OBVIOUS

LEMMA PairIs ==
  ASSUME NEW q \in GoodRanges, NEW r \in GoodRanges
  PROVE  /\ <<q>> \in Seq(GoodRanges) /\ <<r>> \in Seq(GoodRanges) /\ <<q>> \o <<r>> = <<q, r>>
         /\ <<q, r>> \in Seq(GoodRanges)
<1>1. <<q>> \in Seq(GoodRanges) /\ <<r>> \in Seq(GoodRanges)
  OBVIOUS
<1>2. <<q>> \o <<r>> = <<q, r>>
  <2>1. PICK x \in Seq(GoodRanges) : x = <<q>>
    BY <1>1
  <2>2. PICK y \in Seq(GoodRanges) : y = <<r>>
    BY <1>1
  <2>3. Len(x) = 1 /\ x[1] = q /\ Len(y) = 1 /\ y[1] = r
    BY <2>1, <2>2
  <2> DEFINE v == x \o y
  <2>0. /\ v \in Seq(GoodRanges) /\ Len(v) = Len(x) + Len(y)
        /\ \A i \in 1..Len(x) + Len(y) : v[i] = IF i <= Len(x) THEN x[i] ELSE y[i - Len(x)]
    BY ConcatIs
  <2> HIDE DEF v
  <2>4. v \in Seq(GoodRanges) /\ Len(v) = 2
    BY <2>0, <2>3
  <2>5. v[1] = x[1]
    BY <2>0, <2>3
  <2>6. v[2] = y[2 - 1]
    BY <2>0, <2>3
  <2>7. <<q, r>> \in Seq(GoodRanges) /\ Len(<<q, r>>) = 2 /\ <<q, r>>[1] = q /\ <<q, r>>[2] = r
    OBVIOUS
  <2>8. PICK z \in Seq(GoodRanges) : z = <<q, r>>
    BY <2>7
  <2>9. Len(z) = 2 /\ z[1] = q /\ z[2] = r
    BY <2>7, <2>8
  <2>10. PICK w \in Seq(GoodRanges) : w = v
    BY <2>4
  <2>11. Len(w) = 2 /\ w[1] = q /\ w[2] = r
    BY <2>3, <2>4, <2>5, <2>6, <2>10
  <2>12. w = z
    BY <2>9, <2>11
  <2> QED
    BY <2>1, <2>2, <2>8, <2>10, <2>12, Zenon DEF v
<1>3. <<q, r>> \in Seq(GoodRanges)
  OBVIOUS
<1> QED
  BY <1>1, <1>2, <1>3

LEMMA SplitAround ==
  ASSUME NEW s \in Seq(GoodRanges), NEW n \in DOMAIN s, NEW q \in GoodRanges, NEW r \in GoodRanges
  PROVE  InsertAt(ReplaceAt(s, n, q), n + 1, r) = Around(s, n, <<q, r>>)
<1>1. n \in 1..Len(s) /\ Len(s) \in Nat
  OBVIOUS
<1> DEFINE t == [s EXCEPT ![n] = q]
<1>2. t \in Seq(GoodRanges) /\ Len(t) = Len(s)
  OBVIOUS
<1>3. t[n] = q /\ \A k \in 1..Len(s) : k # n => t[k] = s[k]
  OBVIOUS
<1>4. t = ReplaceAt(s, n, q)
  BY DEF ReplaceAt
<1> HIDE DEF t
<1>5. SubSeq(t, 1, (n + 1) - 1) = SubSeq(s, 1, n - 1) \o <<q>>
  <2> DEFINE x == SubSeq(s, 1, n - 1)
  <2>1. x \in Seq(GoodRanges) /\ Len(x) = n - 1 /\ \A k \in 1..n - 1 : x[k] = s[k]
    BY <1>1
  <2> HIDE DEF x
  <2> DEFINE y == SubSeq(t, 1, n)
  <2>2. y \in Seq(GoodRanges) /\ Len(y) = n /\ \A k \in 1..n : y[k] = t[k]
    BY <1>1, <1>2
  <2>3. (n + 1) - 1 = n
    BY <1>1
  <2> HIDE DEF y
  <2>4. x \o <<q>> \in Seq(GoodRanges) /\ Len(x \o <<q>>) = n
    BY <1>1, <2>1
  <2>5. ASSUME NEW k \in 1..n PROVE (x \o <<q>>)[k] = y[k]
    BY <1>1, <1>3, <2>1, <2>2, <2>5
  <2>6. y = x \o <<q>>
    BY <2>2, <2>4, <2>5
  <2> QED
    BY <2>3, <2>6 DEF x, y
<1>6. SubSeq(t, n + 1, Len(t)) = SubSeq(s, n + 1, Len(s))
  <2>1. n + 1 \in 1..Len(s) + 1 /\ Len(t) = Len(s)
    BY <1>1, <1>2
  <2>2. \A k \in n + 1..Len(s) : t[k] = s[k]
    BY <1>1, <1>3
  <2> QED
    BY <1>2, <2>1, <2>2, SameEnd
<1>7. InsertAt(t, n + 1, r) = (SubSeq(s, 1, n - 1) \o <<q>>) \o <<r>> \o SubSeq(s, n + 1, Len(s))
  BY <1>5, <1>6, Zenon DEF InsertAt
<1>8. (SubSeq(s, 1, n - 1) \o <<q>>) \o <<r>> = SubSeq(s, 1, n - 1) \o <<q, r>>
  <2>1. SubSeq(s, 1, n - 1) \in Seq(GoodRanges)
    BY <1>1
  <2>2. \A x, y, z \in Seq(GoodRanges) : (x \o y) \o z = x \o (y \o z)
    OBVIOUS
  <2>3. <<q>> \in Seq(GoodRanges) /\ <<r>> \in Seq(GoodRanges) /\ <<q>> \o <<r>> = <<q, r>>
    BY PairIs
  <2>4. (SubSeq(s, 1, n - 1) \o <<q>>) \o <<r>> = SubSeq(s, 1, n - 1) \o (<<q>> \o <<r>>)
    BY <2>1, <2>2, <2>3, Zenon
  <2> QED
    BY <2>3, <2>4, Zenon
<1> QED
  BY <1>4, <1>7, <1>8 DEF Around

LEMMA RemoveAround == 
  ASSUME NEW s \in Seq(GoodRanges), NEW n \in DOMAIN s 
  PROVE  RemoveAt(s, n) = Around(s, n, <<>>)
<1>1. SubSeq(s, 1, n - 1) \in Seq(GoodRanges)
  BY TotalAt
<1>2. SubSeq(s, 1, n - 1) \o <<>> = SubSeq(s, 1, n - 1)
  BY <1>1
<1> QED
  BY <1>2 DEF RemoveAt, Around

\* hostrange_delete_host.
LEMMA DeleteHostKeeps ==
  ASSUME NEW s \in Seq(GoodRanges), NEW n \in DOMAIN s, NEW k \in Nat, s[n].lo <= k, k <= s[n].hi
  PROVE  DeleteHost(s, n, k) \in Seq(GoodRanges) /\ Total(DeleteHost(s, n, k)) = Total(s) - 1
<1> DEFINE r == s[n]
<1>1. r \in GoodRanges /\ Total(s) \in Nat
  BY TotalConcat
<1>2. /\ r \in Ranges /\ r.prefix \in HostNames /\ r.singlehost \in BOOLEAN
      /\ r.lo \in Nat /\ r.hi \in Nat /\ r.width \in Nat /\ r.lo <= r.hi
      /\ (r.singlehost => r.lo = 0 /\ r.hi = 0) /\ Count(r) = r.hi - r.lo + 1
  BY <1>1, GoodIs
<1>3. r.lo <= k /\ k <= r.hi
  OBVIOUS
<1>4. CASE k = r.lo /\ r.lo = r.hi
  <2>1. DeleteHost(s, n, k) = Around(s, n, <<>>)
    BY <1>4, RemoveAround DEF DeleteHost, DeleteRange
  <2>2. <<>> \in Seq(GoodRanges) /\ Total(<<>>) = 0
    BY TotalNone
  <2>3. /\ Around(s, n, <<>>) \in Seq(GoodRanges) 
        /\ Total(Around(s, n, <<>>)) = Total(s) - Count(r) + Total(<<>>)
    BY <2>2, AroundIs
  <2> HIDE DEF r
  <2> QED
    BY <1>1, <1>2, <1>4, <2>1, <2>2, <2>3
<1>5. CASE k = r.lo /\ r.lo # r.hi
  <2> DEFINE q == [r EXCEPT !.lo = r.lo + 1, !.hi = r.hi, !.width = r.width]
  <2>1. q = WithoutFirst(r)
    BY <1>2 DEF WithoutFirst, Ranges
  <2>2. q \in GoodRanges /\ Count(q) = r.hi - (r.lo + 1) + 1
    <3>1. r.lo + 1 \in Nat
      BY <1>2
    <3>2. r.lo + 1 <= r.hi
      BY <1>2, <1>5
    <3>3. ~r.singlehost
      BY <1>2, <1>5
    <3>4. r.hi \in Nat 
      BY <1>2
    <3>5. r.width \in Nat
      BY <1>2
    <3> HIDE DEF r
    <3> QED
      BY <1>1, <3>1, <3>2, <3>3, <3>4, <3>5, ChangedIs, ZenonT(40)
  <2> HIDE DEF q
  <2>3. DeleteHost(s, n, k) = Around(s, n, <<q>>)
    BY <1>5, <2>1, <2>2, ReplaceAround DEF DeleteHost
  <2>4. <<q>> \in Seq(GoodRanges) /\ Total(<<q>>) = Count(q)
    BY <2>2, TotalOne
  <2>5. /\ Around(s, n, <<q>>) \in Seq(GoodRanges) 
        /\ Total(Around(s, n, <<q>>)) = Total(s) - Count(r) + Total(<<q>>)
    BY <2>4, AroundIs
  <2> HIDE DEF r
  <2> QED
    BY <1>1, <1>2, <2>2, <2>3, <2>4, <2>5
<1>6. CASE k # r.lo /\ k = r.hi
  <2> DEFINE q == [r EXCEPT !.lo = r.lo, !.hi = r.hi - 1, !.width = r.width]
  <2>1. q = [r EXCEPT !.hi = @ - 1]
    BY <1>2 DEF Ranges
  <2>2. q \in GoodRanges /\ Count(q) = (r.hi - 1) - r.lo + 1
    <3>1. r.hi - 1 \in Nat
      BY <1>2, <1>3, <1>6
    <3>2. r.lo <= r.hi - 1
      BY <1>2, <1>3, <1>6
    <3>3. ~r.singlehost
      BY <1>2, <1>6
    <3>4. r.lo \in Nat 
      BY <1>2
    <3>5. r.width \in Nat
      BY <1>2
    <3> HIDE DEF r
    <3> QED
      BY <1>1, <3>1, <3>2, <3>3, <3>4, <3>5, ChangedIs, ZenonT(40)
  <2> HIDE DEF q
  <2>3. DeleteHost(s, n, k) = Around(s, n, <<q>>)
    BY <1>6, <2>1, <2>2, ReplaceAround DEF DeleteHost
  <2>4. <<q>> \in Seq(GoodRanges) /\ Total(<<q>>) = Count(q)
    BY <2>2, TotalOne
  <2>5. /\ Around(s, n, <<q>>) \in Seq(GoodRanges) 
        /\ Total(Around(s, n, <<q>>)) = Total(s) - Count(r) + Total(<<q>>)
    BY <2>4, AroundIs
  <2> HIDE DEF r
  <2> QED
    BY <1>1, <1>2, <2>2, <2>3, <2>4, <2>5
<1>7. CASE k # r.lo /\ k # r.hi
  <2> DEFINE q == [r EXCEPT !.lo = r.lo, !.hi = k - 1, !.width = r.width]
  <2> DEFINE p == [r EXCEPT !.lo = k + 1, !.hi = r.hi, !.width = r.width]
  <2>1. q = [r EXCEPT !.hi = k - 1] /\ p = [r EXCEPT !.lo = k + 1]
    BY <1>2 DEF Ranges
  <2>2. k - 1 \in Nat /\ r.lo <= k - 1 /\ k + 1 \in Nat /\ k + 1 <= r.hi /\ ~r.singlehost
    BY <1>2, <1>3, <1>7
  <2>3. q \in GoodRanges /\ Count(q) = (k - 1) - r.lo + 1
    <3>1. k - 1 \in Nat
      BY <2>2
    <3>2. r.lo <= k - 1
      BY <2>2
    <3>3. ~r.singlehost
      BY <2>2
    <3>4. r.lo \in Nat 
      BY <1>2
    <3>5. r.width \in Nat
      BY <1>2
    <3> HIDE DEF r
    <3> QED
      BY <1>1, <3>1, <3>2, <3>3, <3>4, <3>5, ChangedIs, ZenonT(40)
  <2>4. p \in GoodRanges /\ Count(p) = r.hi - (k + 1) + 1
    <3>1. k + 1 \in Nat
      BY <2>2
    <3>2. k + 1 <= r.hi
      BY <2>2
    <3>3. ~r.singlehost
      BY <2>2
    <3>4. r.hi \in Nat 
      BY <1>2
    <3>5. r.width \in Nat
      BY <1>2
    <3> HIDE DEF r
    <3> QED
      BY <1>1, <3>1, <3>2, <3>3, <3>4, <3>5, ChangedIs, ZenonT(40)
  <2> HIDE DEF p, q
  <2>5. DeleteHost(s, n, k) = Around(s, n, <<q, p>>)
    BY <1>7, <2>1, <2>3, <2>4, SplitAround DEF DeleteHost, InsertRange
  <2>6. <<q, p>> \in Seq(GoodRanges) /\ Total(<<q, p>>) = Count(q) + Count(p)
    <3>1. <<q>> \in Seq(GoodRanges) /\ <<p>> \in Seq(GoodRanges) /\ <<q>> \o <<p>> = <<q, p>>
          /\ <<q, p>> \in Seq(GoodRanges)
      BY <2>3, <2>4, PairIs
    <3>2. Total(<<q>> \o <<p>>) = Total(<<q>>) + Total(<<p>>)
      BY <3>1, TotalConcat
    <3>3. Total(<<q>>) = Count(q) /\ Total(<<p>>) = Count(p)
      BY <2>3, <2>4, TotalOne
    <3> QED
      BY <3>1, <3>2, <3>3
  <2>7. /\ Around(s, n, <<q, p>>) \in Seq(GoodRanges) 
        /\ Total(Around(s, n, <<q, p>>)) = Total(s) - Count(r) + Total(<<q, p>>)
    BY <2>6, AroundIs
  <2> HIDE DEF r
  <2> QED
    BY <1>1, <1>2, <2>3, <2>4, <2>5, <2>6, <2>7, SMTT(30)
<1> QED
  BY <1>4, <1>5, <1>6, <1>7

\* hostlist_find and the deletion of what it finds.
LEMMA DeleteNameKeeps ==
  ASSUME NEW l \in GoodLists, NEW x \in HostNames
  PROVE  DeleteName(l, x) \in GoodLists
<1>1. l.hr \in Seq(GoodRanges) /\ l.nhosts \in Nat /\ l.nhosts = Total(l.hr) /\ Len(l.hr) \in Nat
  BY DEF GoodLists
<1> DEFINE s == l.hr
<1> DEFINE T == {i \in 1..Len(s) : Within(s[i], x)}
<1>2. CASE \E n \in DOMAIN s : Within(s[n], x)
  <2>1. T # {} /\ T \in SUBSET (1..Len(s))
    BY <1>1, <1>2
  <2> DEFINE n == Min(T)
  <2>2. n \in T
    <3> HIDE DEF T
    <3> QED
      BY <1>1, <2>1, EndsAre
  <2>3. SelectInSeq(s, LAMBDA r : Within(r, x)) = n
    BY <2>1 DEF SelectInSeq
  <2> HIDE DEF n
  <2> DEFINE k == IF s[n].singlehost THEN 0 ELSE Number(x, s[n].prefix)
  <2>4. DeleteName(l, x) = [nhosts |-> l.nhosts - 1, hr |-> DeleteHost(s, n, k)]
    BY <1>2, <2>3 DEF DeleteName
  <2>5. n \in DOMAIN s /\ s[n] \in GoodRanges /\ Within(s[n], x)
    BY <1>1, <2>2
  <2>6. k \in Nat /\ s[n].lo <= k /\ k <= s[n].hi
    <3>1. PICK r \in GoodRanges : r = s[n]
      BY <2>5
    <3>2. r.lo \in Nat /\ r.hi \in Nat /\ (r.singlehost => r.lo = 0 /\ r.hi = 0)
      BY <3>1, GoodIs
    <3>3. CASE r.singlehost
      BY <3>1, <3>2, <3>3
    <3>4. CASE ~r.singlehost
      <4>1. Number(x, r.prefix) \in r.lo..r.hi
        BY <2>5, <3>1, <3>4 DEF Within
      <4>2. k = Number(x, r.prefix)
        BY <3>1, <3>4
      <4> HIDE DEF k
      <4> QED
        BY <3>1, <3>2, <4>1, <4>2
    <3> QED
      BY <3>3, <3>4
  <2> HIDE DEF k
  <2>7. DeleteHost(s, n, k) \in Seq(GoodRanges) /\ Total(DeleteHost(s, n, k)) = Total(s) - 1
    <3> HIDE DEF s
    <3>1. s \in Seq(GoodRanges)
      BY <1>1 DEF s
    <3>2. n \in DOMAIN s
      BY <2>5
    <3>3. k \in Nat
      BY <2>6
    <3>4. s[n].lo <= k
      BY <2>6
    <3>5. k <= s[n].hi
      BY <2>6
    <3> QED
      BY <3>1, <3>2, <3>3, <3>4, <3>5, DeleteHostKeeps, Zenon
  <2> QED
    BY <1>1, <2>4, <2>7, GoodListIs
<1>3. CASE ~\E n \in DOMAIN s : Within(s[n], x)
  BY <1>3 DEF DeleteName
<1> QED
  BY <1>2, <1>3

LEMMA DeleteAllKeeps ==
  ASSUME NEW l \in GoodLists, NEW s \in Seq(HostNames)
  PROVE  DeleteAll(s, l) \in GoodLists
<1>1. Len(s) \in Nat /\ DOMAIN s = 1..Len(s) /\ \A k \in 1..Len(s) : s[k] \in HostNames
  OBVIOUS
<1>2. CanDelete(GoodLists, Len(s), s)
  BY <1>1, DeleteNameKeeps DEF CanDelete
<1>3. AllDeleted(GoodLists, Len(s), s, l)
  BY <1>1, <1>2, DeletesAre, Zenon
<1>4. PICK a \in [0..Len(s) -> GoodLists] : DeleteAll(s, l) = a[0]
  BY <1>3 DEF AllDeleted
<1> QED
  BY <1>1, <1>4

----------------------------------------------------------------------------
(* hostlist_uniq: the joins. *)

\* The count is the one of all ranges until the last of them is in the list.
OpenLists == [nhosts : Int, hr : Seq(GoodRanges)]

\* What a join counts twice.
LEMMA DuplicatedIs ==
  ASSUME NEW q \in GoodRanges, NEW r \in GoodRanges
  PROVE  LET d == Duplicated(q, r) 
             j == Joined(q, r, IF q.hi < r.hi THEN r.hi ELSE q.hi)
         IN  /\ d \in Int
             /\ d >= 0 => j \in GoodRanges /\ Count(j) = Count(q) + Count(r) - d
<1> DEFINE d == Duplicated(q, r)
<1> DEFINE top == IF q.hi < r.hi THEN r.hi ELSE q.hi
<1> DEFINE j == Joined(q, r, top)
<1>1. /\ q \in Ranges /\ q.lo \in Nat /\ q.hi \in Nat /\ q.width \in Nat /\ q.lo <= q.hi
      /\ (q.singlehost => q.lo = 0 /\ q.hi = 0) /\ Count(q) = q.hi - q.lo + 1
      /\ q.singlehost \in BOOLEAN
  BY GoodIs
<1>2. /\ r.lo \in Nat /\ r.hi \in Nat /\ r.width \in Nat /\ r.lo <= r.hi
      /\ (r.singlehost => r.lo = 0 /\ r.hi = 0) /\ Count(r) = r.hi - r.lo + 1
  BY GoodIs
<1>3. Count(r) \in Nat
  BY <1>2
<1>4. d \in Int
  BY <1>1, <1>2, <1>3 DEF Duplicated
<1>5. ASSUME d >= 0 PROVE j \in GoodRanges /\ Count(j) = Count(q) + Count(r) - d
  <2>1. SamePrefix(q, r)
    BY <1>5 DEF Duplicated
  <2>2. CommonWidth(q, r) \in Nat
    BY <1>1, <1>2 DEF CommonWidth
  <2>3. j = [q EXCEPT !.lo = q.lo, !.hi = top, !.width = CommonWidth(q, r)]
    BY <1>1 DEF Joined, Ranges
  <2>4. top \in Nat /\ q.lo <= top
    BY <1>1, <1>2
  <2>5. CASE ~q.singlehost
    <3>1. j \in GoodRanges /\ Count(j) = top - q.lo + 1
      <4>1. q.lo \in Nat
        BY <1>1
      <4>2. top \in Nat
        BY <2>4
      <4>3. q.lo <= top
        BY <2>4
      <4>4. ~q.singlehost
        BY <2>5
      <4> HIDE DEF top, j
      <4> QED
        BY <2>2, <2>3, <4>1, <4>2, <4>3, <4>4, ChangedIs, ZenonT(40)
    <3>2. \/ q.hi = r.lo - 1 /\ d = 0
          \/ r.lo <= q.hi /\ q.hi < r.hi /\ d = q.hi - r.lo + 1
          \/ r.lo <= q.hi /\ r.hi <= q.hi /\ d = Count(r)
      <4> DEFINE e == Duplicated(q, r)
      <4>1. e = IF q.hi = r.lo - 1 THEN 0
                ELSE IF q.hi < r.lo THEN -1
                ELSE IF q.hi < r.hi THEN q.hi - r.lo + 1 ELSE Count(r)
        BY <1>5, <2>5 DEF Duplicated
      <4>2. e >= 0
        BY <1>5
      <4> HIDE DEF e
      <4>3. \/ q.hi = r.lo - 1 /\ e = 0
            \/ r.lo <= q.hi /\ q.hi < r.hi /\ e = q.hi - r.lo + 1
            \/ r.lo <= q.hi /\ r.hi <= q.hi /\ e = Count(r)
        BY <1>1, <1>2, <4>1, <4>2
      <4> QED
        BY <4>3 DEF e
    <3> HIDE DEF d, j
    <3>3. top - q.lo + 1 = Count(q) + Count(r) - d
      BY <1>1, <1>2, <3>2
    <3> HIDE DEF top
    <3> QED
      BY <3>1, <3>3
  <2>6. CASE q.singlehost
    <3>1. r.singlehost
      BY <2>1, <2>6 DEF SamePrefix
    <3>2. q.lo = 0 /\ q.hi = 0 /\ r.lo = 0 /\ r.hi = 0 /\ Count(q) = 1 /\ Count(r) = 1
      BY <1>1, <1>2, <2>6, <3>1
    <3>3. d = 1
      BY <1>5, <2>6 DEF Duplicated
    <3>4. top = 0
      BY <3>2
    <3>5. j.lo = 0 /\ j.hi = 0 /\ j.singlehost = q.singlehost /\ j \in Ranges
      BY <1>1, <2>2, <2>3, <3>2, <3>4 DEF Ranges
    <3>6. j \in GoodRanges /\ Count(j) = 1
      <4> HIDE DEF j
      <4> QED
        BY <2>6, <3>5 DEF GoodRanges, Count
    <3> HIDE DEF d, j
    <3> QED
      BY <3>2, <3>3, <3>6
  <2> QED
    BY <2>5, <2>6
<1> QED
  BY <1>4, <1>5

\* A join takes from the count what it counts twice.
LEMMA JoinKeeps ==
  ASSUME NEW l \in OpenLists, NEW r \in GoodRanges
  PROVE  LET m == AttemptJoin(l, r) 
         IN  /\ m \in OpenLists
             /\ m.nhosts - Total(m.hr) = l.nhosts - Total(l.hr) - Count(r)
<1>1. l.hr \in Seq(GoodRanges) /\ l.nhosts \in Int /\ Total(l.hr) \in Nat
  BY TotalConcat DEF OpenLists
<1>2. Count(r) \in Nat
  BY NamesInIs
<1> DEFINE q == Last(l.hr)
<1> DEFINE d == Duplicated(q, r)
<1> DEFINE j == Joined(q, r, IF q.hi < r.hi THEN r.hi ELSE q.hi)
<1> DEFINE m == AttemptJoin(l, r)
<1>3. CASE l.hr = <<>> \/ d < 0
  <2>1. m = [l EXCEPT !.hr = Append(@, r)]
    BY <1>3 DEF AttemptJoin
  <2>2. /\ Append(l.hr, r) \in Seq(GoodRanges) /\ Append(l.hr, r) = l.hr \o <<r>> 
        /\ <<r>> \in Seq(GoodRanges)
    BY <1>1
  <2>3. Total(l.hr \o <<r>>) = Total(l.hr) + Total(<<r>>) /\ Total(<<r>>) = Count(r)
    BY <1>1, <2>2, TotalConcat, TotalOne
  <2>4. m.nhosts = l.nhosts /\ m.hr = Append(l.hr, r) /\ m \in OpenLists
    BY <2>1, <2>2 DEF OpenLists
  <2> HIDE DEF m, q, d
  <2> QED
    BY <1>1, <1>2, <2>2, <2>3, <2>4 DEF m
<1>4. CASE l.hr # <<>> /\ ~(d < 0)
  <2>1. /\ Front(l.hr) \in Seq(GoodRanges) /\ q \in GoodRanges
        /\ Total(Front(l.hr)) \in Nat /\ Total(l.hr) = Total(Front(l.hr)) + Count(q)
    BY <1>1, <1>4, LastIs
  <2>2. d \in Int /\ (d >= 0 => j \in GoodRanges /\ Count(j) = Count(q) + Count(r) - d)
    <3> HIDE DEF q
    <3> QED
      BY <2>1, DuplicatedIs
  <2>3. m = [nhosts |-> l.nhosts - d, hr |-> Front(l.hr) \o <<j>>]
    BY <1>4 DEF AttemptJoin
  <2> HIDE DEF m, d, q, j
  <2>4. j \in GoodRanges /\ Count(j) = Count(q) + Count(r) - d
    BY <1>4, <2>2
  <2>5. <<j>> \in Seq(GoodRanges) /\ Front(l.hr) \o <<j>> \in Seq(GoodRanges)
    BY <2>1, <2>4
  <2>6. Total(Front(l.hr) \o <<j>>) = Total(Front(l.hr)) + Total(<<j>>) /\ Total(<<j>>) = Count(j)
    BY <2>1, <2>4, <2>5, TotalConcat, TotalOne
  <2>7. m.nhosts = l.nhosts - d /\ m.hr = Front(l.hr) \o <<j>> /\ m \in OpenLists
    BY <1>1, <2>2, <2>3, <2>5 DEF OpenLists
  <2>8. Count(q) \in Nat
    BY <2>1, NamesInIs
  <2>9. m.nhosts - Total(m.hr) = l.nhosts - Total(l.hr) - Count(r)
    BY <1>1, <1>2, <2>1, <2>2, <2>4, <2>6, <2>7, <2>8
  <2> QED
    BY <2>7, <2>9 DEF m
<1> QED
  BY <1>3, <1>4

\* Up to one position more.
LEMMA TotalUpTo ==
  ASSUME NEW s \in Seq(GoodRanges), NEW k \in 1..Len(s)
  PROVE  /\ s[k] \in GoodRanges /\ Count(s[k]) \in Nat /\ Total(SubSeq(s, 1, k - 1)) \in Nat
         /\ Total(SubSeq(s, 1, k)) = Total(SubSeq(s, 1, k - 1)) + Count(s[k])
<1>1. Len(s) \in Nat /\ s[k] \in GoodRanges
  OBVIOUS
<1> DEFINE t == SubSeq(s, 1, k)
<1>2. t \in Seq(GoodRanges) /\ Len(t) = k /\ t[k] = s[k] /\ t # <<>>
  OBVIOUS
<1>3. SubSeq(t, 1, k - 1) = SubSeq(s, 1, k - 1)
  <2>1. \A i \in 1..k - 1 : t[i] = s[i]
    OBVIOUS
  <2> HIDE DEF t
  <2> QED
    BY <1>2, <2>1
<1>4. Count(s[k]) \in Nat
  BY <1>1, NamesInIs
<1> HIDE DEF t
<1>5. Total(Front(t)) \in Nat /\ Total(t) = Total(Front(t)) + Count(Last(t))
  BY <1>2, LastIs
<1>6. Front(t) = SubSeq(s, 1, k - 1) /\ Last(t) = s[k]
  BY <1>2, <1>3 DEF Front, Last
<1> QED
  BY <1>1, <1>4, <1>5, <1>6 DEF t

\* All the joins, from a list that is empty and has the count of all ranges.
LEMMA JoinAllKeeps ==
  ASSUME NEW s \in Seq(GoodRanges), NEW n \in Nat, n = Total(s)
  PROVE  FoldLeft(AttemptJoin, [hr |-> <<>>, nhosts |-> n], s) \in GoodLists
<1> DEFINE l == [hr |-> <<>>, nhosts |-> n]
<1>1. Len(s) \in Nat /\ DOMAIN s = 1..Len(s) /\ \A k \in 1..Len(s) : s[k] \in GoodRanges
  OBVIOUS
<1>2. l \in OpenLists /\ l.nhosts = n /\ l.hr = <<>>
  BY DEF OpenLists
<1> HIDE DEF l
<1>3. CanJoin(OpenLists, Len(s), s)
  BY <1>1, JoinKeeps DEF CanJoin
<1>4. AllJoined(OpenLists, Len(s), s, l)
  BY <1>1, <1>2, <1>3, JoinsAre, Zenon
<1>5. PICK a \in [0..Len(s) -> OpenLists] : 
        /\ a[0] = l /\ (\A k \in 1..Len(s) : a[k] = AttemptJoin(a[k - 1], s[k])) 
        /\ FoldLeft(AttemptJoin, l, s) = a[Len(s)]
  BY <1>4 DEF AllJoined
<1> DEFINE B(k) == a[k].nhosts - Total(a[k].hr) = n - Total(SubSeq(s, 1, k))
<1>6. ASSUME NEW k \in 1..Len(s), B(k - 1) PROVE B(k)
  <2>1. k - 1 \in 0..Len(s) /\ k \in 0..Len(s)
    BY <1>1
  <2>2. a[k - 1] \in OpenLists /\ a[k] \in OpenLists /\ s[k] \in GoodRanges
    BY <1>1, <1>5, <2>1
  <2>3. a[k].nhosts - Total(a[k].hr) = a[k - 1].nhosts - Total(a[k - 1].hr) - Count(s[k])
    BY <1>5, <2>2, JoinKeeps
  <2>4. a[k - 1].nhosts \in Int /\ Total(a[k - 1].hr) \in Nat
    BY <2>2, TotalConcat DEF OpenLists
  <2>5. /\ Count(s[k]) \in Nat /\ Total(SubSeq(s, 1, k - 1)) \in Nat
        /\ Total(SubSeq(s, 1, k)) = Total(SubSeq(s, 1, k - 1)) + Count(s[k])
    BY TotalUpTo
  <2> QED
    BY <1>6, <2>3, <2>4, <2>5
<1>7. B(0)
  <2>1. SubSeq(s, 1, 0) = <<>>
    OBVIOUS
  <2> QED
    BY <1>2, <1>5, <2>1, TotalNone
<1> HIDE DEF B
<1>8. B(Len(s))
  <2> DEFINE T == {k \in 0..Len(s) : ~B(k)}
  <2>1. SUFFICES ASSUME T # {} PROVE FALSE
    BY <1>1
  <2>2. PICK m \in T : \A k \in T : m <= k
    <3>1. T \subseteq Nat
      BY <1>1
    <3> HIDE DEF T
    <3> QED
      BY <2>1, <3>1, LeastIs
  <2>3. m # 0
    BY <1>7, <2>2
  <2>4. m \in 1..Len(s) /\ m - 1 \in 0..Len(s) /\ m - 1 < m
    BY <1>1, <2>2, <2>3
  <2>5. m - 1 \notin T
    <3> HIDE DEF T
    <3> QED
      BY <2>2, <2>4
  <2>6. B(m - 1)
    BY <2>4, <2>5
  <2> QED
    BY <1>6, <2>2, <2>4, <2>6
<1>9. SubSeq(s, 1, Len(s)) = s
  BY <1>1
<1> DEFINE z == a[Len(s)]
<1>10. z \in OpenLists
  BY <1>1, <1>5
<1>11. z.nhosts - Total(z.hr) = n - Total(s)
  BY <1>8, <1>9, Zenon DEF B
<1> HIDE DEF z
<1>12. /\ z.hr \in Seq(GoodRanges) /\ z.nhosts \in Int /\ Total(z.hr) \in Nat 
       /\ z = [nhosts |-> z.nhosts, hr |-> z.hr]
  BY <1>10, TotalConcat DEF OpenLists
<1>13. z.nhosts = Total(z.hr)
  BY <1>11, <1>12, TotalConcat
<1>14. z \in GoodLists
  BY <1>12, <1>13, GoodListIs
<1> QED
  BY <1>5, <1>14 DEF z, l

----------------------------------------------------------------------------
(* Ranges in another order stand for as many hosts. *)

\* A cell for each host of the first k ranges.
Cells(s, k) == {c \in (1..k) \X Nat : c[2] < Count(s[c[1]])}
CountedCells(s, k) == IsFiniteSet(Cells(s, k)) /\ Cardinality(Cells(s, k)) = Total(SubSeq(s, 1, k))

\* The cells of one range.
LEMMA RowIs ==
  ASSUME NEW k, NEW c \in Nat
  PROVE  LET R == {<<k, x>> : x \in 0..c - 1} IN IsFiniteSet(R) /\ Cardinality(R) = c
<1> DEFINE R == {<<k, x>> : x \in 0..c - 1}
<1> DEFINE f == [x \in 0..c - 1 |-> <<k, x>>]
<1>1. IsFiniteSet(0..c - 1) /\ Cardinality(0..c - 1) = c
  <2>1. 0 \in Int /\ c - 1 \in Int
    OBVIOUS
  <2>2. IsFiniteSet(0..c - 1) /\ Cardinality(0..c - 1) = IF 0 > c - 1 THEN 0 ELSE (c - 1) - 0 + 1
    BY <2>1, FS_Interval
  <2> QED
    BY <2>2
<1>2. f \in Bijection(0..c - 1, R)
  <2>1. f \in [0..c - 1 -> R]
    OBVIOUS
  <2>2. \A x, y \in 0..c - 1 : f[x] = f[y] => x = y
    OBVIOUS
  <2>3. \A y \in R : \E x \in 0..c - 1 : f[x] = y
    OBVIOUS
  <2> QED
    BY <2>1, <2>2, <2>3 DEF Bijection, Injection, IsInjective, Surjection
<1> HIDE DEF f, R
<1>3. ExistsBijection(0..c - 1, R)
  BY <1>2 DEF ExistsBijection
<1>4. IsFiniteSet(R) /\ Cardinality(R) = Cardinality(0..c - 1)
  BY <1>1, <1>3, FS_Bijection
<1> QED
  BY <1>1, <1>4 DEF R

LEMMA CellsAre == ASSUME NEW s \in Seq(GoodRanges) PROVE CountedCells(s, Len(s))
<1>0. Len(s) \in Nat
  OBVIOUS
<1>1. CountedCells(s, 0)
  <2>1. Cells(s, 0) = {}
    BY DEF Cells
  <2>2. SubSeq(s, 1, 0) = <<>>
    OBVIOUS
  <2>3. IsFiniteSet({}) /\ Cardinality({}) = 0
    BY FS_EmptySet
  <2> QED
    BY <2>1, <2>2, <2>3, TotalNone DEF CountedCells
<1>2. ASSUME NEW k \in 1..Len(s), CountedCells(s, k - 1) PROVE CountedCells(s, k)
  <2>1. /\ Count(s[k]) \in Nat /\ Total(SubSeq(s, 1, k - 1)) \in Nat
        /\ Total(SubSeq(s, 1, k)) = Total(SubSeq(s, 1, k - 1)) + Count(s[k])
    BY TotalUpTo
  <2> DEFINE R == {<<k, x>> : x \in 0..Count(s[k]) - 1}
  <2> DEFINE C == Cells(s, k - 1)
  <2>2. IsFiniteSet(R) /\ Cardinality(R) = Count(s[k])
    BY <2>1, RowIs
  <2>3. IsFiniteSet(C) /\ Cardinality(C) = Total(SubSeq(s, 1, k - 1))
    BY <1>2 DEF CountedCells
  <2>4. Cells(s, k) = C \cup R
    <3>1. ASSUME NEW i \in 1..k, NEW x \in Nat, x < Count(s[i]) PROVE <<i, x>> \in C \cup R
      <4>1. CASE i = k
        BY <2>1, <3>1, <4>1
      <4>2. CASE i # k
        <5>1. i \in 1..k - 1
          BY <1>0, <4>2
        <5> QED
          BY <3>1, <5>1 DEF Cells
      <4> QED
        BY <4>1, <4>2
    <3>2. C \subseteq Cells(s, k)
      <4>1. 1..k - 1 \subseteq 1..k
        BY <1>0
      <4> QED
        BY <4>1 DEF Cells
    <3>3. ASSUME NEW x \in 0..Count(s[k]) - 1 PROVE <<k, x>> \in Cells(s, k)
      <4>1. x \in Nat /\ x < Count(s[k]) /\ k \in 1..k
        BY <1>0, <2>1
      <4> QED
        BY <4>1 DEF Cells
    <3>4. Cells(s, k) \subseteq C \cup R
      <4> HIDE DEF C, R
      <4> QED
        BY <3>1 DEF Cells
    <3> QED
      BY <3>2, <3>3, <3>4
  <2>5. C \cap R = {}
    <3>1. k \notin 1..k - 1
      BY <1>0
    <3> QED
      BY <3>1 DEF Cells
  <2> HIDE DEF C, R
  <2>6. /\ IsFiniteSet(C \cup R) 
        /\ Cardinality(C \cup R) = Cardinality(C) + Cardinality(R) - Cardinality(C \cap R)
    BY <2>2, <2>3, FS_Union
  <2>7. Cardinality(C \cap R) = 0
    BY <2>5, FS_EmptySet
  <2> QED
    BY <2>1, <2>2, <2>3, <2>4, <2>6, <2>7 DEF CountedCells
<1> DEFINE T == {k \in 0..Len(s) : ~CountedCells(s, k)}
<1>3. SUFFICES ASSUME T # {} PROVE FALSE
  BY <1>0
<1>4. PICK m \in T : \A k \in T : m <= k
  <2>1. T \subseteq Nat
    BY <1>0
  <2> HIDE DEF T
  <2> QED
    BY <1>3, <2>1, LeastIs
<1>5. m # 0
  BY <1>1, <1>4
<1>6. m \in 1..Len(s) /\ m - 1 \in 0..Len(s) /\ m - 1 < m
  BY <1>0, <1>4, <1>5
<1>7. m - 1 \notin T
  <2> HIDE DEF T
  <2> QED
    BY <1>4, <1>6
<1>8. CountedCells(s, m - 1)
  BY <1>6, <1>7
<1> QED
  BY <1>2, <1>4, <1>6, <1>8

\* A host of one is a host of the other.
LEMMA ArrangementKeeps ==
  ASSUME NEW s \in Seq(GoodRanges), NEW t \in Arrangements(s)
  PROVE  t \in Seq(GoodRanges) /\ Total(t) = Total(s)
<1> DEFINE N == Len(s)
<1>1. N \in Nat /\ DOMAIN s = 1..N /\ \A k \in 1..N : s[k] \in GoodRanges
  OBVIOUS
<1>2. PICK p \in [1..N -> 1..N] : 
        (\A j, k \in 1..N : p[j] = p[k] => j = k) /\ t = [k \in 1..N |-> s[p[k]]]
  BY <1>1 DEF Arrangements
<1>3. t \in Seq(GoodRanges) /\ Len(t) = N /\ \A k \in 1..N : t[k] = s[p[k]]
  <2> HIDE DEF N
  <2>1. t \in [1..N -> GoodRanges]
    BY <1>1, <1>2
  <2>2. t \in Seq(GoodRanges) /\ Len(t) = N
    BY <1>1, <2>1
  <2> QED
    BY <1>2, <2>2
<1> HIDE DEF N
<1>4. p \in Surjection(1..N, 1..N)
  <2>1. p \in Injection(1..N, 1..N)
    BY <1>2 DEF Injection, IsInjective
  <2>2. IsFiniteSet(1..N)
    BY <1>1, FS_Interval
  <2>3. Cardinality(1..N) = Cardinality(1..N) <=> p \in Surjection(1..N, 1..N)
    BY <2>1, <2>2, FS_Injection
  <2> QED
    BY <2>3
<1> DEFINE C == Cells(t, N)
<1> DEFINE D == Cells(s, N)
<1> DEFINE f == [c \in C |-> <<p[c[1]], c[2]>>]
<1>5. f \in Bijection(C, D)
  <2>1. ASSUME NEW c \in C PROVE f[c] \in D
    <3>1. c[1] \in 1..N /\ c[2] \in Nat /\ c[2] < Count(t[c[1]])
      BY DEF Cells
    <3>2. p[c[1]] \in 1..N /\ c[2] < Count(s[p[c[1]]])
      BY <1>2, <1>3, <3>1
    <3>3. <<p[c[1]], c[2]>> \in D
      BY <3>1, <3>2 DEF Cells
    <3> QED
      BY <3>3
  <2>2. ASSUME NEW c \in C, NEW d \in C, f[c] = f[d] PROVE c = d
    <3>1. /\ c[1] \in 1..N /\ d[1] \in 1..N /\ c = <<c[1], c[2]>> /\ d = <<d[1], d[2]>>
      BY DEF Cells
    <3>2. <<p[c[1]], c[2]>> = <<p[d[1]], d[2]>>
      BY <2>2
    <3>3. p[c[1]] = p[d[1]] /\ c[2] = d[2]
      BY <3>2
    <3>4. c[1] = d[1]
      BY <1>2, <3>1, <3>3
    <3> QED
      BY <3>1, <3>3, <3>4
  <2>3. ASSUME NEW d \in D PROVE \E c \in C : f[c] = d
    <3>1. d[1] \in 1..N /\ d[2] \in Nat /\ d[2] < Count(s[d[1]]) /\ d = <<d[1], d[2]>>
      BY DEF Cells
    <3>2. PICK k \in 1..N : p[k] = d[1]
      BY <1>4, <3>1 DEF Surjection
    <3>3. <<k, d[2]>> \in C
      BY <1>3, <3>1, <3>2 DEF Cells
    <3>4. f[<<k, d[2]>>] = d
      BY <3>1, <3>2, <3>3
    <3> QED
      BY <3>3, <3>4
  <2>4. f \in [C -> D]
    <3> HIDE DEF C, D
    <3>1. DOMAIN f = C
      OBVIOUS
    <3> QED
      BY <2>1
  <2> HIDE DEF C, D, f
  <2> QED
    BY <2>2, <2>3, <2>4 DEF Bijection, Injection, IsInjective, Surjection
<1> HIDE DEF f, C, D
<1>6. ExistsBijection(C, D)
  BY <1>5 DEF ExistsBijection
<1>7. IsFiniteSet(C) /\ Cardinality(C) = Total(SubSeq(t, 1, N))
  BY <1>3, CellsAre DEF CountedCells, C
<1>8. IsFiniteSet(D) /\ Cardinality(D) = Total(SubSeq(s, 1, N))
  BY CellsAre DEF CountedCells, D, N
<1>9. Cardinality(D) = Cardinality(C)
  BY <1>6, <1>7, FS_Bijection
<1>10. SubSeq(t, 1, N) = t /\ SubSeq(s, 1, N) = s
  BY <1>1, <1>3 DEF N
<1> QED
  BY <1>3, <1>7, <1>8, <1>9, <1>10

----------------------------------------------------------------------------
(* The invariant. *)
Iterators == [on : BOOLEAN, idx : Nat, depth : Int]
Counted == hr \in Seq(GoodRanges) /\ nhosts = Total(hr)
Returned == ret \in Seq(HostNames) /\ Len(ret) <= 1

\* Where an iterator can be: before the first host of a range (-1), at a host, or behind
\* the last range; and at a host if it has returned one.
IteratorFits ==
  /\ it \in Iterators /\ it.idx \in 1..Len(hr) + 1 /\ it.depth >= -1
  /\ it.idx <= Len(hr) => it.depth <= hr[it.idx].hi - hr[it.idx].lo
  /\ it.idx > Len(hr) => it.depth <= 0
  /\ ret # <<>> => it.idx <= Len(hr) /\ it.depth >= 0
Iterating == IF it.on THEN IteratorFits ELSE it = NoIterator

IInv == Counted /\ Returned /\ Iterating

LEMMA NothingReturned == ASSUME ret' = <<>> PROVE Returned'
  BY DEF Returned

LEMMA NameReturned == ASSUME NEW x \in HostNames, ret' = <<x>> PROVE Returned'
  BY DEF Returned

LEMMA NameIs ==
  ASSUME NEW r \in GoodRanges, NEW d \in Int, 0 <= d, d <= Count(r) - 1
  PROVE  NameAt(r, d) \in HostNames
<1>1. Count(r) \in Nat /\ NamesIn(r) \in Seq(HostNames) /\ Len(NamesIn(r)) = Count(r)
      /\ \A k \in 1..Count(r) : NamesIn(r)[k] = NameAt(r, k - 1)
  BY NamesInIs
<1>2. d + 1 \in 1..Count(r) /\ (d + 1) - 1 = d
  BY <1>1
<1>3. NamesIn(r)[d + 1] \in HostNames
  BY <1>1, <1>2
<1> QED
  BY <1>1, <1>2, <1>3

\* While there is no iterator, the rest does not matter to one.
LEMMA AloneStays == ASSUME Iterating, Alone, UNCHANGED it PROVE Iterating'
  BY DEF Iterating, Alone

LEMMA NowIs == ASSUME Counted PROVE Now \in GoodLists
  BY GoodListIs DEF Counted, Now

LEMMA BecomesGood == ASSUME NEW l \in GoodLists, Becomes(l) PROVE Counted'
  BY DEF Becomes, Counted, GoodLists, Total

LEMMA CountedStays == ASSUME Counted, UNCHANGED <<hr, nhosts>> PROVE Counted'
  BY DEF Counted, Total

LEMMA PushKeeps ==
  ASSUME IInv, NEW tokens \in Inputs, Push(tokens)
  PROVE  IInv'
<1>1. Returned'
  BY NothingReturned DEF Push
<1>2. Iterating'
  BY AloneStays DEF Push, IInv
<1>3. CASE ParseOK(tokens)
  <2>2. Create(tokens) \in GoodLists
    BY <1>3, CreateKeeps
  <2>3. Create(tokens).hr \in Seq(GoodRanges)
    BY <2>2 DEF GoodLists
  <2>4. PushAll(Now, Create(tokens).hr) \in GoodLists
    BY <2>3, NowIs, PushAllKeeps DEF IInv
  <2>5. Becomes(PushAll(Now, Create(tokens).hr))
    BY <1>3 DEF Push
  <2>6. Counted'
    BY <2>4, <2>5, BecomesGood
  <2> QED
    BY <1>1, <1>2, <2>6 DEF IInv
<1>4. CASE ~ParseOK(tokens)
  <2>1. Counted'
    BY <1>4, CountedStays DEF Push, IInv
  <2> QED
    BY <1>1, <1>2, <2>1 DEF IInv
<1> QED
  BY <1>3, <1>4

LEMMA DeleteKeeps ==
  ASSUME IInv, NEW tokens \in Inputs, Delete(tokens)
  PROVE  IInv'
<1>1. Returned'
  BY NothingReturned DEF Delete
<1>2. Iterating'
  BY AloneStays DEF Delete, IInv
<1>3. CASE ParseOK(tokens)
  <2>2. Create(tokens) \in GoodLists
    BY <1>3, CreateKeeps
  <2>3. Create(tokens).hr \in Seq(GoodRanges)
    BY <2>2 DEF GoodLists
  <2>4. NamesOf(Create(tokens).hr) \in Seq(HostNames)
    BY <2>3, NamesOfType
  <2>5. DeleteAll(NamesOf(Create(tokens).hr), Now) \in GoodLists
    BY <2>4, NowIs, DeleteAllKeeps DEF IInv
  <2>6. Becomes(DeleteAll(NamesOf(Create(tokens).hr), Now))
    BY <1>3 DEF Delete, DeleteAll
  <2>7. Counted'
    BY <2>5, <2>6, BecomesGood
  <2> QED
    BY <1>1, <1>2, <2>7 DEF IInv
<1>4. CASE ~ParseOK(tokens)
  <2>1. Counted'
    BY <1>4, CountedStays DEF Delete, IInv
  <2> QED
    BY <1>1, <1>2, <2>1 DEF IInv
<1> QED
  BY <1>3, <1>4

\* A list that counts a host has a range.
LEMMA NotEmpty == ASSUME Counted, nhosts > 0 PROVE hr # <<>>
  BY TotalNone DEF Counted

LEMMA PopHostKeeps ==
  ASSUME IInv, PopHost
  PROVE  IInv'
<1> DEFINE r == Last(hr)
<1>1. hr \in Seq(GoodRanges) /\ nhosts = Total(hr) /\ hr # <<>>
  BY NotEmpty DEF IInv, Counted, PopHost
<1>2. /\ Front(hr) \in Seq(GoodRanges) /\ r \in GoodRanges
      /\ Total(Front(hr)) \in Nat /\ Total(hr) = Total(Front(hr)) + Count(r)
  BY <1>1, LastIs
<1>3. /\ ret' = <<NameAt(r, Count(r) - 1)>> /\ nhosts' = nhosts - 1
      /\ hr' = Front(hr) \o IF Empty(WithoutLast(r)) THEN <<>> ELSE <<WithoutLast(r)>>
  BY DEF PopHost
<1>4. Iterating'
  BY AloneStays DEF PopHost, IInv
<1> HIDE DEF r
<1>5. /\ r \in Ranges /\ r.singlehost \in BOOLEAN /\ r.width \in Nat
      /\ r.lo \in Nat /\ r.hi \in Nat /\ r.lo <= r.hi
      /\ (r.singlehost => r.lo = 0 /\ r.hi = 0) /\ Count(r) = r.hi - r.lo + 1
  BY <1>2, GoodIs
<1>6. Returned'
  <2>1. Count(r) - 1 \in Int /\ 0 <= Count(r) - 1 /\ Count(r) - 1 <= Count(r) - 1
    BY <1>5
  <2>2. NameAt(r, Count(r) - 1) \in HostNames
    BY <1>2, <2>1, NameIs
  <2> QED
    BY <1>3, <2>2, NameReturned
<1>7. CASE r.lo = r.hi
  <2>1. Empty(WithoutLast(r)) 
    BY <1>5, <1>7 DEF Empty, WithoutLast, Ranges
  <2>2. hr' = Front(hr)
    BY <1>2, <1>3, <2>1
  <2>3. nhosts' = Total(Front(hr))
    BY <1>1, <1>2, <1>3, <1>5, <1>7
  <2>4. Counted'
    BY <1>2, <2>2, <2>3 DEF Counted, Total
  <2> QED
    BY <1>4, <1>6, <2>4 DEF IInv
<1>8. CASE r.lo # r.hi
  <2> DEFINE q == [r EXCEPT !.lo = r.lo, !.hi = r.hi - 1, !.width = r.width]
  <2>1. ~r.singlehost /\ r.hi - 1 \in Nat /\ r.lo <= r.hi - 1
    BY <1>5, <1>8
  <2>0. ~r.singlehost /\ r.hi - 1 \in Nat /\ r.lo \in Nat /\ r.lo <= r.hi - 1 /\ r.width \in Nat
    BY <1>5, <2>1
  <2>2. q = WithoutLast(r) /\ q.hi = r.hi - 1 /\ q.lo = r.lo
    BY <1>5, <2>1 DEF WithoutLast, Ranges
  <2>3. q \in GoodRanges /\ Count(q) = (r.hi - 1) - r.lo + 1
    <3>1. r \in GoodRanges
      BY <1>2
    <3>2. ~r.singlehost
      BY <2>0
    <3>3. r.lo \in Nat
      BY <2>0
    <3>4. r.hi - 1 \in Nat
      BY <2>0
    <3>5. r.lo <= r.hi - 1
      BY <2>0
    <3>6. r.width \in Nat
      BY <2>0
    <3> HIDE DEF r
    <3> QED
      BY <3>1, <3>2, <3>3, <3>4, <3>5, <3>6, ChangedIs, ZenonT(40)
  <2> HIDE DEF q
  <2>4. ~Empty(WithoutLast(r))
    BY <1>5, <2>1, <2>2 DEF Empty
  <2>5. hr' = Front(hr) \o <<q>>
    BY <1>3, <2>2, <2>4
  <2>6. <<q>> \in Seq(GoodRanges) /\ Front(hr) \o <<q>> \in Seq(GoodRanges)
    BY <1>2, <2>3
  <2>7. Total(Front(hr) \o <<q>>) = Total(Front(hr)) + Total(<<q>>) /\ Total(<<q>>) = Count(q)
    BY <1>2, <2>3, <2>6, TotalConcat, TotalOne
  <2>8. nhosts' = Total(Front(hr) \o <<q>>)
    BY <1>1, <1>2, <1>3, <1>5, <2>3, <2>7
  <2>9. Counted'
    BY <2>5, <2>6, <2>8 DEF Counted, Total
  <2> QED
    BY <1>4, <1>6, <2>9 DEF IInv
<1> QED
  BY <1>7, <1>8

LEMMA ShiftHostKeeps ==
  ASSUME IInv, ShiftHost
  PROVE  IInv'
<1> DEFINE r == hr[1]
<1>1. hr \in Seq(GoodRanges) /\ nhosts = Total(hr) /\ hr # <<>>
  BY NotEmpty DEF IInv, Counted, ShiftHost
<1>2. /\ Tail(hr) \in Seq(GoodRanges) /\ r \in GoodRanges
      /\ Total(Tail(hr)) \in Nat /\ Total(hr) = Count(r) + Total(Tail(hr))
  BY <1>1, FirstIs
<1>3. /\ ret' = <<NameAt(r, 0)>> /\ nhosts' = nhosts - 1
      /\ hr' = (IF Empty(WithoutFirst(r)) THEN <<>> ELSE <<WithoutFirst(r)>>) \o Tail(hr)
  BY DEF ShiftHost
<1>4. Iterating'
  BY AloneStays DEF ShiftHost, IInv
<1> HIDE DEF r
<1>5. /\ r \in Ranges /\ r.singlehost \in BOOLEAN /\ r.width \in Nat
      /\ r.lo \in Nat /\ r.hi \in Nat /\ r.lo <= r.hi
      /\ (r.singlehost => r.lo = 0 /\ r.hi = 0) /\ Count(r) = r.hi - r.lo + 1
  BY <1>2, GoodIs
<1>6. Returned'
  <2>1. 0 \in Int /\ 0 <= 0 /\ 0 <= Count(r) - 1
    BY <1>5
  <2>2. NameAt(r, 0) \in HostNames
    BY <1>2, <2>1, NameIs
  <2> QED
    BY <1>3, <2>2, NameReturned
<1>7. CASE r.lo = r.hi
  <2>1. Empty(WithoutFirst(r)) 
    BY <1>5, <1>7 DEF Empty, WithoutFirst, Ranges
  <2>2. hr' = Tail(hr)
    BY <1>2, <1>3, <2>1
  <2>3. nhosts' = Total(Tail(hr))
    BY <1>1, <1>2, <1>3, <1>5, <1>7
  <2>4. Counted'
    BY <1>2, <2>2, <2>3 DEF Counted, Total
  <2> QED
    BY <1>4, <1>6, <2>4 DEF IInv
<1>8. CASE r.lo # r.hi
  <2> DEFINE q == [r EXCEPT !.lo = r.lo + 1, !.hi = r.hi, !.width = r.width]
  <2>1. ~r.singlehost /\ r.lo + 1 \in Nat /\ r.lo + 1 <= r.hi
    BY <1>5, <1>8
  <2>0. ~r.singlehost /\ r.lo + 1 \in Nat /\ r.hi \in Nat /\ r.lo + 1 <= r.hi /\ r.width \in Nat
    BY <1>5, <2>1
  <2>2. q = WithoutFirst(r) /\ q.hi = r.hi /\ q.lo = r.lo + 1
    BY <1>5, <2>1 DEF WithoutFirst, Ranges
  <2>3. q \in GoodRanges /\ Count(q) = r.hi - (r.lo + 1) + 1
    <3>1. r \in GoodRanges
      BY <1>2
    <3>2. ~r.singlehost
      BY <2>0
    <3>3. r.lo + 1 \in Nat
      BY <2>0
    <3>4. r.hi \in Nat
      BY <2>0
    <3>5. r.lo + 1 <= r.hi
      BY <2>0
    <3>6. r.width \in Nat
      BY <2>0
    <3> HIDE DEF r
    <3> QED
      BY <3>1, <3>2, <3>3, <3>4, <3>5, <3>6, ChangedIs, ZenonT(40)
  <2> HIDE DEF q
  <2>4. ~Empty(WithoutFirst(r))
    BY <1>5, <2>1, <2>2 DEF Empty
  <2>5. hr' = <<q>> \o Tail(hr)
    BY <1>3, <2>2, <2>4
  <2>6. <<q>> \in Seq(GoodRanges) /\ <<q>> \o Tail(hr) \in Seq(GoodRanges)
    BY <1>2, <2>3
  <2>7. Total(<<q>> \o Tail(hr)) = Total(<<q>>) + Total(Tail(hr)) /\ Total(<<q>>) = Count(q)
    BY <1>2, <2>3, <2>6, TotalConcat, TotalOne
  <2>8. nhosts' = Total(<<q>> \o Tail(hr))
    BY <1>1, <1>2, <1>3, <1>5, <2>3, <2>7
  <2>9. Counted'
    BY <2>5, <2>6, <2>8 DEF Counted, Total
  <2> QED
    BY <1>4, <1>6, <2>9 DEF IInv
<1> QED
  BY <1>7, <1>8

LEMMA UniqKeeps ==
  ASSUME IInv, Uniq
  PROVE  IInv'
<1>1. Returned'
  BY NothingReturned DEF Uniq
<1>2. Iterating'
  BY AloneStays DEF Uniq, IInv
<1>3. CASE Len(hr) <= 1
  <2>1. Counted'
    BY <1>3, CountedStays DEF Uniq, IInv
  <2> QED
    BY <1>1, <1>2, <2>1 DEF IInv
<1>4. CASE ~(Len(hr) <= 1)
  <2>1. PICK s \in Arrangements(hr) : 
          Becomes(FoldLeft(AttemptJoin, [hr |-> <<>>, nhosts |-> nhosts], s))
    BY <1>4 DEF Uniq
  <2>2. hr \in Seq(GoodRanges) /\ nhosts = Total(hr) /\ Total(hr) \in Nat
    BY TotalConcat DEF IInv, Counted
  <2>3. s \in Seq(GoodRanges) /\ nhosts = Total(s) /\ nhosts \in Nat
    BY <2>2, ArrangementKeeps
  <2> DEFINE l == FoldLeft(AttemptJoin, [hr |-> <<>>, nhosts |-> nhosts], s)
  <2>4. l \in GoodLists
    BY <2>3, JoinAllKeeps
  <2> HIDE DEF l
  <2>5. Counted'
    BY <2>1, <2>4, BecomesGood DEF l
  <2> QED
    BY <1>1, <1>2, <2>5 DEF IInv
<1> QED
  BY <1>3, <1>4

LEMMA NothingThereKeeps == ASSUME IInv, NothingThere PROVE IInv'
<1>1. Returned'
  BY NothingReturned DEF NothingThere
<1>2. Iterating'
  BY AloneStays DEF NothingThere, IInv
<1>3. Counted'
  BY CountedStays DEF NothingThere, IInv
<1> QED
  BY <1>1, <1>2, <1>3 DEF IInv

LEMMA IteratorCreateKeeps == ASSUME IInv, IteratorCreate PROVE IInv'
<1>1. Returned'
  BY NothingReturned DEF IteratorCreate
<1>2. Counted'
  BY CountedStays DEF IteratorCreate, IInv
<1>3. hr \in Seq(GoodRanges) /\ hr' = hr /\ ret' = <<>> /\ it' = [NoIterator EXCEPT !.on = TRUE]
  BY DEF IteratorCreate, IInv, Counted
<1>4. it' = [on |-> TRUE, idx |-> 1, depth |-> -1]
  BY <1>3 DEF NoIterator
<1>5. Len(hr) \in Nat /\ (1 <= Len(hr) => hr[1] \in GoodRanges)
  BY <1>3
<1>6. 1 <= Len(hr) => -1 <= hr[1].hi - hr[1].lo
  <2>1. ASSUME 1 <= Len(hr) PROVE -1 <= hr[1].hi - hr[1].lo
    <3>1. PICK r \in GoodRanges : r = hr[1]
      BY <1>5, <2>1
    <3>2. r.lo \in Nat /\ r.hi \in Nat /\ r.lo <= r.hi
      BY GoodIs
    <3> QED
      BY <3>1, <3>2
  <2> QED
    BY <2>1
<1>7. IteratorFits'
  <2>1. it' \in Iterators /\ it'.idx = 1 /\ it'.depth = -1
    BY <1>4 DEF Iterators
  <2>2. 1 \in 1..Len(hr) + 1
    BY <1>5
  <2> QED
    BY <1>3, <1>5, <1>6, <2>1, <2>2 DEF IteratorFits
<1>8. Iterating'
  BY <1>4, <1>7 DEF Iterating
<1> QED
  BY <1>1, <1>2, <1>8 DEF IInv

LEMMA IteratorDestroyKeeps == ASSUME IInv, IteratorDestroy PROVE IInv'
<1>1. Returned'
  BY NothingReturned DEF IteratorDestroy
<1>2. Counted'
  BY CountedStays DEF IteratorDestroy, IInv
<1>3. Iterating'
  BY DEF IteratorDestroy, Iterating, NoIterator
<1> QED
  BY <1>1, <1>2, <1>3 DEF IInv

\* The iterator that is there, and the range it is at.
LEMMA IteratorIs ==
  ASSUME IInv, it.on
  PROVE  /\ it \in Iterators /\ it.idx \in Nat /\ it.depth \in Int /\ it.depth >= -1
         /\ 1 <= it.idx /\ it.idx <= Len(hr) + 1 /\ Len(hr) \in Nat
         /\ hr \in Seq(GoodRanges) /\ nhosts = Total(hr) /\ Total(hr) \in Nat
         /\ it = [on |-> TRUE, idx |-> it.idx, depth |-> it.depth]
<1>1. IteratorFits /\ hr \in Seq(GoodRanges) /\ nhosts = Total(hr)
  BY DEF IInv, Iterating, Counted
<1>2. Total(hr) \in Nat /\ Len(hr) \in Nat
  BY <1>1, TotalConcat
<1>3. it \in Iterators /\ it.idx \in 1..Len(hr) + 1 /\ it.depth >= -1
  BY <1>1 DEF IteratorFits
<1> QED
  BY <1>1, <1>2, <1>3 DEF Iterators

LEMMA MovedIs ==
  ASSUME NEW x \in Iterators, NEW i \in Int, NEW d \in Int
  PROVE  /\ [x EXCEPT !.depth = d] = [on |-> x.on, idx |-> x.idx, depth |-> d]
         /\ [x EXCEPT !.idx = i] = [on |-> x.on, idx |-> i, depth |-> x.depth]
         /\ [x EXCEPT !.idx = i, !.depth = d] = [on |-> x.on, idx |-> i, depth |-> d]
<1>1. [x EXCEPT !.depth = d] = [on |-> x.on, idx |-> x.idx, depth |-> d]
  BY DEF Iterators
<1>2. [x EXCEPT !.idx = i] = [on |-> x.on, idx |-> i, depth |-> x.depth]
  BY DEF Iterators
<1>3. [x EXCEPT !.idx = i, !.depth = d] = [on |-> x.on, idx |-> i, depth |-> d]
  <2> DEFINE z == [x EXCEPT !.idx = i, !.depth = d]
  <2>1. z \in [on : BOOLEAN, idx : Int, depth : Int]
    BY DEF Iterators
  <2>2. z.on = x.on /\ z.idx = i /\ z.depth = d
    BY DEF Iterators
  <2> HIDE DEF z
  <2>3. z = [on |-> z.on, idx |-> z.idx, depth |-> z.depth]
    BY <2>1
  <2>4. z = [on |-> x.on, idx |-> i, depth |-> d]
    BY <2>2, <2>3
  <2> QED
    BY <2>4 DEF z
<1> QED
  BY <1>1, <1>2, <1>3

LEMMA RangeIs ==
  ASSUME NEW s \in Seq(GoodRanges), NEW n \in Nat, 1 <= n, n <= Len(s)
  PROVE  /\ n \in DOMAIN s /\ s[n] \in GoodRanges /\ s[n].lo \in Nat /\ s[n].hi \in Nat
         /\ s[n].lo <= s[n].hi /\ Count(s[n]) = s[n].hi - s[n].lo + 1
<1>1. n \in DOMAIN s
  OBVIOUS
<1>2. PICK r \in GoodRanges : r = s[n]
  BY <1>1
<1>3. r.lo \in Nat /\ r.hi \in Nat /\ r.lo <= r.hi /\ Count(r) = r.hi - r.lo + 1
  BY GoodIs
<1> QED
  BY <1>1, <1>2, <1>3

LEMMA IteratorNextKeeps == ASSUME IInv, IteratorNext PROVE IInv'
<1>1. Counted'
  BY CountedStays DEF IteratorNext, IInv
<1>2. /\ it \in Iterators /\ it.idx \in Nat /\ it.depth \in Int /\ it.depth >= -1
      /\ 1 <= it.idx /\ it.idx <= Len(hr) + 1 /\ Len(hr) \in Nat /\ hr \in Seq(GoodRanges) 
      /\ it = [on |-> TRUE, idx |-> it.idx, depth |-> it.depth]
  BY IteratorIs DEF IteratorNext
<1>3. /\ it' = Advanced /\ hr' = hr
      /\ ret' = IF it'.idx > Len(hr) THEN <<>> ELSE <<NameAt(hr[it'.idx], it'.depth)>>
  BY DEF IteratorNext
<1>4. it.idx > Len(hr) => it.depth <= 0
  BY DEF IInv, Iterating, IteratorFits, IteratorNext
<1> DEFINE i == it'.idx
<1> DEFINE d == it'.depth
<1>5. /\ it' = [on |-> TRUE, idx |-> i, depth |-> d] /\ it' \in Iterators
      /\ i \in Nat /\ d \in Int /\ 1 <= i /\ i <= Len(hr) + 1 /\ d >= -1
      /\ (i > Len(hr) => d <= 0) /\ (i <= Len(hr) => 0 <= d /\ d <= hr[i].hi - hr[i].lo)
  <2>1. CASE it.idx > Len(hr)
    <3>1. it' = it
      BY <1>3, <2>1 DEF Advanced
    <3>2. i = it.idx /\ d = it.depth
      BY <3>1
    <3>3. it' = [on |-> TRUE, idx |-> i, depth |-> d] /\ it' \in Iterators
      BY <1>2, <3>1, <3>2
    <3> HIDE DEF i, d
    <3>4. d <= 0
      BY <1>4, <2>1, <3>2
    <3>5. /\ i \in Nat /\ d \in Int /\ 1 <= i /\ i <= Len(hr) + 1 /\ d >= -1 
          /\ i > Len(hr) /\ ~(i <= Len(hr))
      BY <1>2, <2>1, <3>2
    <3> QED
      BY <3>3, <3>4, <3>5, Zenon
  <2>2. CASE it.idx <= Len(hr) /\ it.depth + 1 > hr[it.idx].hi - hr[it.idx].lo
    <3>1. it' = [on |-> TRUE, idx |-> it.idx + 1, depth |-> 0]
      <4>1. it' = [it EXCEPT !.idx = it.idx + 1, !.depth = 0]
        BY <1>2, <1>3, <2>2 DEF Advanced
      <4>2. it \in Iterators /\ it.on = TRUE /\ it.idx + 1 \in Int /\ 0 \in Int
        BY <1>2 DEF Iterators
      <4>3. [it EXCEPT !.idx = it.idx + 1, !.depth = 0] 
              = [on |-> it.on, idx |-> it.idx + 1, depth |-> 0]
        BY <4>2, MovedIs, ZenonT(40)
      <4> QED
        BY <4>1, <4>2, <4>3, Zenon
    <3>2. i = it.idx + 1 /\ d = 0
      BY <3>1
    <3>3. i \in Nat /\ 1 <= i /\ i <= Len(hr) + 1
      BY <1>2, <2>2, <3>2
    <3>4. it' = [on |-> TRUE, idx |-> i, depth |-> d] /\ it' \in Iterators
      BY <3>1, <3>2, <3>3 DEF Iterators
    <3> HIDE DEF i, d
    <3>5. i <= Len(hr) => hr[i].lo \in Nat /\ hr[i].hi \in Nat /\ hr[i].lo <= hr[i].hi
      BY <1>2, <3>3, RangeIs
    <3>6. i <= Len(hr) => 0 <= d /\ d <= hr[i].hi - hr[i].lo
      BY <3>2, <3>5
    <3> QED
      BY <3>2, <3>3, <3>4, <3>6
  <2>3. CASE it.idx <= Len(hr) /\ ~(it.depth + 1 > hr[it.idx].hi - hr[it.idx].lo)
    <3>1. it' = [on |-> TRUE, idx |-> it.idx, depth |-> it.depth + 1]
      <4>1. it' = [it EXCEPT !.depth = it.depth + 1]
        BY <1>2, <1>3, <2>3 DEF Advanced
      <4>2. it \in Iterators /\ it.on = TRUE /\ it.depth + 1 \in Int
        BY <1>2 DEF Iterators
      <4>3. [it EXCEPT !.depth = it.depth + 1] 
              = [on |-> it.on, idx |-> it.idx, depth |-> it.depth + 1]
        BY <4>2, MovedIs, ZenonT(40)
      <4> QED
        BY <4>1, <4>2, <4>3, Zenon
    <3>2. i = it.idx /\ d = it.depth + 1
      BY <3>1
    <3>3. it' = [on |-> TRUE, idx |-> i, depth |-> d] /\ it' \in Iterators
      BY <1>2, <3>1, <3>2 DEF Iterators
    <3> HIDE DEF i, d
    <3>4. hr[i].lo \in Nat /\ hr[i].hi \in Nat
      BY <1>2, <2>3, <3>2, RangeIs
    <3> QED
      BY <1>2, <2>3, <3>2, <3>3, <3>4
  <2> QED
    BY <1>2, <2>1, <2>2, <2>3
<1> HIDE DEF i, d
<1>6. Returned' /\ (ret' # <<>> => i <= Len(hr))
  <2>1. CASE i > Len(hr)
    <3>1. ret' = <<>>
      BY <1>3, <2>1 DEF i
    <3> QED
      BY <3>1, NothingReturned
  <2>2. CASE i <= Len(hr)
    <3>1. ret' = <<NameAt(hr[i], d)>>
      BY <1>2, <1>3, <1>5, <2>2 DEF i, d
    <3>2. hr[i] \in GoodRanges /\ Count(hr[i]) = hr[i].hi - hr[i].lo + 1 
          /\ hr[i].lo \in Nat /\ hr[i].hi \in Nat
      BY <1>2, <1>5, <2>2, RangeIs
    <3>3. 0 <= d /\ d <= Count(hr[i]) - 1
      BY <1>5, <2>2, <3>2
    <3>4. NameAt(hr[i], d) \in HostNames
      BY <1>5, <3>2, <3>3, NameIs
    <3> QED
      BY <2>2, <3>1, <3>4, NameReturned
  <2> QED
    BY <1>2, <1>5, <2>1, <2>2
<1>7. IteratorFits'
  <2>1. it'.on /\ it'.idx = i /\ it'.depth = d
    BY <1>5
  <2> QED
    BY <1>2, <1>3, <1>5, <1>6, <2>1 DEF IteratorFits
<1>8. Iterating'
  BY <1>5, <1>7 DEF Iterating
<1> QED
  BY <1>1, <1>6, <1>8 DEF IInv

\* What hostlist_remove leaves of the range, where it was.
LEMMA DeletedIs ==
  ASSUME NEW s \in Seq(GoodRanges), NEW n \in DOMAIN s, NEW k \in Nat, s[n].lo <= k, k <= s[n].hi
  PROVE  LET t == DeleteHost(s, n, k) 
         IN  /\ k = s[n].lo /\ s[n].lo = s[n].hi => Len(t) = Len(s) - 1 
             /\ (k = s[n].lo \/ k = s[n].hi) /\ s[n].lo # s[n].hi
                => Len(t) = Len(s) /\ t[n].hi - t[n].lo = s[n].hi - s[n].lo - 1
             /\ k # s[n].lo /\ k # s[n].hi => Len(t) = Len(s) + 1
<1> DEFINE t == DeleteHost(s, n, k)
<1> DEFINE r == s[n]
<1>1. r \in GoodRanges /\ n \in 1..Len(s) /\ Len(s) \in Nat
  OBVIOUS
<1>2. r \in Ranges /\ r.lo \in Nat /\ r.hi \in Nat /\ r.width \in Nat /\ r.lo <= r.hi
  BY <1>1, GoodIs
<1>3. ASSUME k = r.lo, r.lo = r.hi PROVE Len(t) = Len(s) - 1
  <2>1. t = RemoveAt(s, n)
    BY <1>3 DEF DeleteHost, DeleteRange
  <2> HIDE DEF t
  <2>2. t = SubSeq(s, 1, n - 1) \o SubSeq(s, n + 1, Len(s))
    BY <2>1 DEF RemoveAt
  <2>3. SubSeq(s, 1, n - 1) \in Seq(GoodRanges) /\ SubSeq(s, n + 1, Len(s)) \in Seq(GoodRanges)
        /\ Len(SubSeq(s, 1, n - 1)) = n - 1 /\ Len(SubSeq(s, n + 1, Len(s))) = Len(s) - n
    BY <1>1
  <2>4. Len(t) = (n - 1) + (Len(s) - n)
    BY <2>2, <2>3, ConcatIs
  <2> QED
    BY <1>1, <2>4
<1>4. ASSUME k = r.lo \/ k = r.hi, r.lo # r.hi 
      PROVE  Len(t) = Len(s) /\ t[n].hi - t[n].lo = r.hi - r.lo - 1
  <2>1. CASE k = r.lo
    <3>1. t = [s EXCEPT ![n] = [r EXCEPT !.lo = r.lo + 1]]
      BY <1>4, <2>1 DEF DeleteHost, ReplaceAt, WithoutFirst
    <3> HIDE DEF t
    <3>2. Len(t) = Len(s) /\ t[n] = [r EXCEPT !.lo = r.lo + 1]
      BY <1>1, <3>1
    <3>3. t[n].hi = r.hi /\ t[n].lo = r.lo + 1
      BY <1>2, <3>2 DEF Ranges
    <3> HIDE DEF r
    <3> QED
      BY <1>2, <3>2, <3>3
  <2>2. CASE k = r.hi
    <3>1. t = [s EXCEPT ![n] = [r EXCEPT !.hi = r.hi - 1]]
      BY <1>4, <2>2 DEF DeleteHost, ReplaceAt
    <3> HIDE DEF t
    <3>2. Len(t) = Len(s) /\ t[n] = [r EXCEPT !.hi = r.hi - 1]
      BY <1>1, <3>1
    <3>3. t[n].hi = r.hi - 1 /\ t[n].lo = r.lo
      BY <1>2, <3>2 DEF Ranges
    <3> HIDE DEF r
    <3> QED
      BY <1>2, <3>2, <3>3
  <2> QED
    BY <1>4, <2>1, <2>2
<1>5. ASSUME k # r.lo, k # r.hi PROVE Len(t) = Len(s) + 1
  <2> DEFINE q == [r EXCEPT !.hi = k - 1]
  <2> DEFINE p == [r EXCEPT !.lo = k + 1]
  <2> DEFINE u == ReplaceAt(s, n, q)
  <2>1. t = InsertAt(u, n + 1, p)
    BY <1>5 DEF DeleteHost, InsertRange
  <2>2. k - 1 \in Nat /\ k + 1 \in Nat /\ r.lo <= k - 1 /\ k + 1 <= r.hi
    BY <1>2, <1>5
  <2>3. q \in GoodRanges /\ p \in GoodRanges
    <3>1. ~r.singlehost
      BY <1>1, <1>2, <2>2, GoodIs
    <3> HIDE DEF r
    <3> QED
      BY <1>1, <1>2, <2>2, <3>1 DEF GoodRanges, Ranges
  <2> HIDE DEF t, p, q
  <2>4. u \in Seq(GoodRanges) /\ Len(u) = Len(s)
    BY <1>1, <2>3 DEF ReplaceAt
  <2> HIDE DEF u
  <2>5. t = SubSeq(u, 1, (n + 1) - 1) \o <<p>> \o SubSeq(u, n + 1, Len(u))
    BY <2>1 DEF InsertAt
  <2> DEFINE x == SubSeq(u, 1, (n + 1) - 1)
  <2> DEFINE y == SubSeq(u, n + 1, Len(u))
  <2>6. x \in Seq(GoodRanges) /\ Len(x) = n /\ y \in Seq(GoodRanges) /\ Len(y) = Len(s) - n
    BY <1>1, <2>4
  <2>7. t = x \o <<p>> \o y
    BY <2>5
  <2> HIDE DEF x, y
  <2>8. <<p>> \in Seq(GoodRanges) /\ Len(<<p>>) = 1
    BY <2>3
  <2>9. x \o <<p>> \in Seq(GoodRanges) /\ Len(x \o <<p>>) = n + 1
    BY <2>6, <2>8, ConcatIs
  <2>10. Len(t) = (n + 1) + (Len(s) - n)
    BY <2>6, <2>7, <2>9, ConcatIs
  <2> QED
    BY <1>1, <2>10
<1> QED
  BY <1>3, <1>4, <1>5

LEMMA IteratorRemoveKeeps == ASSUME IInv, IteratorRemove PROVE IInv'
<1>1. /\ it \in Iterators /\ it.idx \in Nat /\ it.depth \in Int
      /\ 1 <= it.idx /\ it.idx <= Len(hr) + 1 /\ Len(hr) \in Nat
      /\ hr \in Seq(GoodRanges) /\ nhosts = Total(hr) /\ Total(hr) \in Nat
      /\ it = [on |-> TRUE, idx |-> it.idx, depth |-> it.depth]
  BY IteratorIs DEF IteratorRemove
<1> DEFINE n == it.idx
<1> DEFINE r == hr[n]
<1> DEFINE k == r.lo + it.depth
<1>2. n <= Len(hr) /\ it.depth >= 0 /\ it.depth <= r.hi - r.lo
  BY DEF IInv, Iterating, IteratorFits, IteratorRemove
<1>3. n \in DOMAIN hr /\ r \in GoodRanges /\ r.lo \in Nat /\ r.hi \in Nat /\ r.lo <= r.hi
  BY <1>1, <1>2, RangeIs
<1>4. k \in Nat /\ r.lo <= k /\ k <= r.hi
  BY <1>1, <1>2, <1>3
<1>5. ret' = <<>> /\ nhosts' = nhosts - 1 /\ hr' = DeleteHost(hr, n, k) /\ it' = StepBack(k)
  BY DEF IteratorRemove
<1>6. Returned'
  BY <1>5, NothingReturned
<1> DEFINE t == DeleteHost(hr, n, k)
<1>7. /\ k = r.lo /\ r.lo = r.hi => Len(t) = Len(hr) - 1 
      /\ (k = r.lo \/ k = r.hi) /\ r.lo # r.hi 
         => Len(t) = Len(hr) /\ t[n].hi - t[n].lo = r.hi - r.lo - 1
      /\ k # r.lo /\ k # r.hi => Len(t) = Len(hr) + 1
  <2> HIDE DEF k, n
  <2> QED
    BY <1>1, <1>3, <1>4, DeletedIs
<1>8. t \in Seq(GoodRanges) /\ Total(t) = Total(hr) - 1
  <2> HIDE DEF k, n
  <2> QED
    BY <1>1, <1>3, <1>4, DeleteHostKeeps
<1>9. it' = IF r.lo = r.hi
            THEN IF n = 1 THEN [on |-> TRUE, idx |-> n, depth |-> -1] 
                 ELSE [on |-> TRUE, idx |-> n - 1, depth |-> it.depth]
            ELSE IF k = r.lo \/ k = r.hi THEN [on |-> TRUE, idx |-> n, depth |-> it.depth - 1]
            ELSE [on |-> TRUE, idx |-> n + 1, depth |-> -1]
  <2>1. it' = IF r.lo = r.hi 
              THEN IF n = 1 THEN [it EXCEPT !.depth = -1] ELSE [it EXCEPT !.idx = n - 1]
              ELSE IF k = r.lo \/ k = r.hi THEN [it EXCEPT !.depth = it.depth - 1]
              ELSE [it EXCEPT !.idx = n + 1, !.depth = -1]
    BY <1>5 DEF StepBack
  <2>2. /\ [it EXCEPT !.depth = -1] = [on |-> TRUE, idx |-> n, depth |-> -1]
        /\ [it EXCEPT !.idx = n - 1] = [on |-> TRUE, idx |-> n - 1, depth |-> it.depth]
        /\ [it EXCEPT !.depth = it.depth - 1] = [on |-> TRUE, idx |-> n, depth |-> it.depth - 1]
        /\ [it EXCEPT !.idx = n + 1, !.depth = -1] = [on |-> TRUE, idx |-> n + 1, depth |-> -1]
    <3>1. it \in Iterators /\ it.on = TRUE
      BY <1>1 DEF Iterators
    <3>2. n \in Int /\ n - 1 \in Int /\ n + 1 \in Int /\ it.depth - 1 \in Int /\ -1 \in Int
      BY <1>1
    <3>3. [it EXCEPT !.depth = -1] = [on |-> it.on, idx |-> n, depth |-> -1]
      BY <3>1, <3>2, MovedIs, ZenonT(40)
    <3>4. [it EXCEPT !.idx = n - 1] = [on |-> it.on, idx |-> n - 1, depth |-> it.depth]
      BY <3>1, <3>2, MovedIs, ZenonT(40)
    <3>5. [it EXCEPT !.depth = it.depth - 1] = [on |-> it.on, idx |-> n, depth |-> it.depth - 1]
      BY <3>1, <3>2, MovedIs, ZenonT(40)
    <3>6. [it EXCEPT !.idx = n + 1, !.depth = -1] = [on |-> it.on, idx |-> n + 1, depth |-> -1]
      BY <3>1, <3>2, MovedIs, ZenonT(40)
    <3> QED
      BY <3>1, <3>3, <3>4, <3>5, <3>6, Zenon
  <2> HIDE DEF k, r, n
  <2> QED
    BY <2>1, <2>2, Zenon
<1>10. hr' = t
  BY <1>5
<1>11. Counted'
  BY <1>1, <1>5, <1>8, <1>10 DEF Counted, Total
<1> HIDE DEF t
<1> DEFINE i == it'.idx
<1> DEFINE d == it'.depth
<1>12. /\ it'.on /\ it' \in Iterators /\ i \in Nat /\ d \in Int 
       /\ 1 <= i /\ i <= Len(t) + 1 /\ d >= -1
       /\ (i > Len(t) => d <= 0) /\ (i <= Len(t) => d <= t[i].hi - t[i].lo)
  <2>1. CASE r.lo = r.hi
    <3>1. k = r.lo /\ it.depth = 0 /\ Len(t) = Len(hr) - 1
      BY <1>1, <1>2, <1>3, <1>7, <2>1
    <3>2. CASE n = 1
      <4>1. it' = [on |-> TRUE, idx |-> 1, depth |-> -1]
        BY <1>9, <2>1, <3>2
      <4>2. i = 1 /\ d = -1 /\ it'.on /\ it' \in Iterators
        BY <4>1 DEF Iterators
      <4> HIDE DEF i, d
      <4>3. 1 <= Len(t) => t[1].lo \in Nat /\ t[1].hi \in Nat /\ t[1].lo <= t[1].hi
        BY <1>8, RangeIs
      <4>4. Len(t) \in Nat
        BY <1>8
      <4> QED
        BY <4>2, <4>3, <4>4
    <3>3. CASE n # 1
      <4>1. it' = [on |-> TRUE, idx |-> n - 1, depth |-> 0]
        BY <1>9, <2>1, <3>1, <3>3
      <4>2. n - 1 \in Nat /\ 1 <= n - 1 /\ n - 1 <= Len(t)
        BY <1>1, <1>2, <3>1, <3>3
      <4>3. i = n - 1 /\ d = 0 /\ it'.on /\ it' \in Iterators
        BY <4>1, <4>2 DEF Iterators
      <4> HIDE DEF i, d, n
      <4>4. t[n - 1].lo \in Nat /\ t[n - 1].hi \in Nat /\ t[n - 1].lo <= t[n - 1].hi
        BY <1>8, <4>2, RangeIs
      <4>5. Len(t) \in Nat
        BY <1>8
      <4> QED
        BY <4>2, <4>3, <4>4, <4>5
    <3> QED
      BY <3>2, <3>3
  <2>2. CASE r.lo # r.hi /\ (k = r.lo \/ k = r.hi)
    <3>1. it' = [on |-> TRUE, idx |-> n, depth |-> it.depth - 1]
      BY <1>9, <2>2
    <3>2. Len(t) = Len(hr) /\ t[n].hi - t[n].lo = r.hi - r.lo - 1
      BY <1>7, <2>2
    <3>3. it.depth - 1 \in Int /\ it.depth - 1 >= -1 /\ it.depth - 1 <= r.hi - r.lo - 1
      BY <1>1, <1>2, <1>3
    <3>4. i = n /\ d = it.depth - 1 /\ it'.on /\ it' \in Iterators
      BY <1>1, <3>1, <3>3 DEF Iterators
    <3> HIDE DEF i, d, r, k
    <3> QED
      BY <1>1, <1>2, <3>2, <3>3, <3>4
  <2>3. CASE r.lo # r.hi /\ k # r.lo /\ k # r.hi
    <3>1. it' = [on |-> TRUE, idx |-> n + 1, depth |-> -1]
      BY <1>9, <2>3
    <3>2. Len(t) = Len(hr) + 1
      BY <1>7, <2>3
    <3>3. n + 1 \in Nat /\ 1 <= n + 1 /\ n + 1 <= Len(t)
      BY <1>1, <1>2, <3>2
    <3>4. i = n + 1 /\ d = -1 /\ it'.on /\ it' \in Iterators
      BY <3>1, <3>3 DEF Iterators
    <3> HIDE DEF i, d, n
    <3>5. t[n + 1].lo \in Nat /\ t[n + 1].hi \in Nat /\ t[n + 1].lo <= t[n + 1].hi
      BY <1>8, <3>3, RangeIs
    <3>6. Len(t) \in Nat
      BY <1>8
    <3> QED
      BY <3>3, <3>4, <3>5, <3>6
  <2> QED
    BY <2>1, <2>2, <2>3
<1> HIDE DEF k, r, n
<1>13. IteratorFits'
  <2>1. Len(t) \in Nat
    BY <1>8
  <2> QED
    BY <1>5, <1>10, <1>12, <2>1 DEF IteratorFits
<1>14. Iterating'
  BY <1>12, <1>13 DEF Iterating
<1> QED
  BY <1>6, <1>11, <1>14 DEF IInv

LEMMA StutterKeeps == ASSUME IInv, UNCHANGED vars PROVE IInv'
<1>1. hr' = hr /\ nhosts' = nhosts /\ it' = it /\ ret' = ret
  BY DEF vars
<1>2. Counted'
  BY <1>1, CountedStays DEF IInv
<1>3. Returned'
  BY <1>1 DEF IInv, Returned
<1>4. IF it.on THEN IteratorFits' ELSE it' = NoIterator
  BY <1>1 DEF IInv, Iterating, IteratorFits
<1>5. Iterating'
  BY <1>1, <1>4 DEF Iterating
<1> QED
  BY <1>2, <1>3, <1>5 DEF IInv

LEMMA Inductive ==
  /\ Init => IInv
  /\ IInv /\ [Next]_vars => IInv'
<1>1. ASSUME Init PROVE IInv
  <2>1. hr = <<>> /\ nhosts = 0 /\ it = NoIterator /\ ret = <<>>
    BY <1>1 DEF Init
  <2>2. Counted
    BY <2>1, TotalNone DEF Counted
  <2>3. Returned
    BY <2>1 DEF Returned
  <2>4. Iterating
    BY <2>1 DEF Iterating, NoIterator
  <2> QED
    BY <2>2, <2>3, <2>4 DEF IInv
<1>2. ASSUME IInv, [Next]_vars PROVE IInv'
  <2> USE <1>2
  <2>1. ASSUME NEW tokens \in Inputs, Push(tokens) PROVE IInv'
    BY <2>1, PushKeeps
  <2>2. ASSUME NEW tokens \in Inputs, Delete(tokens) PROVE IInv'
    BY <2>2, DeleteKeeps
  <2>3. CASE PopHost
    BY <2>3, PopHostKeeps
  <2>4. CASE ShiftHost
    BY <2>4, ShiftHostKeeps
  <2>5. CASE NothingThere
    BY <2>5, NothingThereKeeps
  <2>6. CASE Uniq
    BY <2>6, UniqKeeps
  <2>7. CASE IteratorCreate
    BY <2>7, IteratorCreateKeeps
  <2>8. CASE IteratorDestroy
    BY <2>8, IteratorDestroyKeeps
  <2>9. CASE IteratorNext
    BY <2>9, IteratorNextKeeps
  <2>10. CASE IteratorRemove
    BY <2>10, IteratorRemoveKeeps
  <2>11. CASE UNCHANGED vars
    BY <2>11, StutterKeeps
  <2> QED
    BY <2>1, <2>2, <2>3, <2>4, <2>5, <2>6, <2>7, <2>8, <2>9, <2>10, <2>11 DEF Next
<1> QED
  BY <1>1, <1>2

LEMMA Enough == ASSUME IInv PROVE CountKept
<1>1. /\ hr \in Seq(GoodRanges) /\ nhosts = Total(hr) /\ Total(hr) \in Nat /\ Len(hr) \in Nat
      /\ ret \in Seq(HostNames) /\ Len(ret) <= 1
  BY TotalConcat DEF IInv, Counted, Returned
<1>2. nhosts = Len(Hosts) /\ nhosts \in Nat
  BY <1>1 DEF Total, Hosts
<1>3. ASSUME NEW k \in DOMAIN hr PROVE ~Empty(hr[k]) /\ hr[k] \in Ranges
  <2>1. PICK r \in GoodRanges : r = hr[k]
    BY <1>1
  <2>2. r \in Ranges /\ r.lo \in Nat /\ r.hi \in Nat /\ r.lo <= r.hi
    BY GoodIs
  <2> QED
    BY <2>1, <2>2 DEF Empty
<1>4. hr \in Seq(Ranges)
  BY <1>1 DEF GoodRanges
<1>5. it.on \in BOOLEAN /\ it.idx \in 1..Len(hr) + 1 /\ it.depth \in -1..nhosts
  <2>1. CASE it.on = TRUE
    <3>1. IteratorFits
      BY <2>1 DEF IInv, Iterating
    <3>2. it \in Iterators /\ it.idx \in Nat /\ it.depth \in Int /\ it.depth >= -1
          /\ it.idx \in 1..Len(hr) + 1
      BY <3>1 DEF IteratorFits, Iterators
    <3>3. it.depth <= nhosts
      <4>1. CASE it.idx > Len(hr)
        <5>1. it.depth <= 0
          BY <3>1, <4>1 DEF IteratorFits
        <5> QED
          BY <1>2, <3>2, <5>1
      <4>2. CASE it.idx <= Len(hr)
        <5> DEFINE n == it.idx
        <5>1. n \in DOMAIN hr /\ it.depth <= hr[n].hi - hr[n].lo
          BY <1>1, <3>1, <3>2, <4>2 DEF IteratorFits
        <5> HIDE DEF n
        <5>2. /\ Total(SubSeq(hr, 1, n - 1)) \in Nat /\ Total(SubSeq(hr, n + 1, Len(hr))) \in Nat
              /\ hr[n] \in GoodRanges
              /\ Total(hr) = Total(SubSeq(hr, 1, n - 1)) + Count(hr[n]) 
                             + Total(SubSeq(hr, n + 1, Len(hr)))
          BY <1>1, <5>1, TotalAt
        <5>3. Count(hr[n]) = hr[n].hi - hr[n].lo + 1 /\ hr[n].hi \in Nat /\ hr[n].lo \in Nat
          BY <5>2, GoodIs
        <5> QED
          BY <1>1, <3>2, <5>1, <5>2, <5>3, SMTT(30)
      <4> QED
        BY <1>1, <3>2, <4>1, <4>2
    <3>4. it.depth \in -1..nhosts
      BY <1>2, <3>2, <3>3
    <3>5. it.on \in BOOLEAN
      BY <2>1
    <3> QED
      BY <3>2, <3>4, <3>5
  <2>2. CASE it.on # TRUE
    <3>1. it = NoIterator
      BY <2>2 DEF IInv, Iterating
    <3> QED
      BY <1>1, <1>2, <3>1 DEF NoIterator
  <2> QED
    BY <2>1, <2>2
<1> QED
  BY <1>1, <1>2, <1>3, <1>4, <1>5 DEF CountKept, TypeOK

\* The count of a host list is that of the names its ranges stand for, through pushes
\* that join, pops, shifts and removals that shrink and split, and the sort and joins
\* of hostlist_uniq (hostlist_push_range, hostlist_pop, hostlist_shift, hostlist_remove,
\* _attempt_range_join); no range without hosts stays in it; and the iterator never leaves
\* the list but at its end.
THEOREM CountIsKept == Spec => []CountKept
<1>1. Init /\ [][Next]_vars => []IInv
  BY Inductive, PTL
<1> QED
  BY <1>1, Enough, PTL DEF Spec

----------------------------------------------------------------------------
(* Numbers and their widths. *)

\* A number below a power has no more digits.
LEMMA DigitsLeast ==
  ASSUME NEW n \in Nat, NEW d \in Nat, d >= 1, n < Power[d]
  PROVE  NumDigits(n) <= d
<1> DEFINE e == NumDigits(n)
<1>1. e \in Nat /\ e >= 1 /\ (e = 1 \/ Power[e - 1] <= n)
  BY DigitsAre
<1> HIDE DEF e
<1>2. SUFFICES ASSUME e > d PROVE FALSE
  BY <1>1 DEF e
<1>3. e - 1 \in Nat /\ d <= e - 1 /\ e # 1
  BY <1>1, <1>2
<1>4. Power[d] <= Power[e - 1] /\ Power[d] \in Nat /\ Power[e - 1] \in Nat
  BY <1>3, PowerGrows, PowerIs
<1> QED
  BY <1>1, <1>3, <1>4

LEMMA DigitsGrow ==
  ASSUME NEW m \in Nat, NEW n \in Nat, m <= n
  PROVE  NumDigits(m) <= NumDigits(n)
<1> DEFINE d == NumDigits(n)
<1>1. d \in Nat /\ d >= 1 /\ n < Power[d]
  BY DigitsAre
<1> HIDE DEF d
<1>2. Power[d] \in Nat
  BY <1>1, PowerIs
<1>3. m < Power[d]
  BY <1>1, <1>2
<1>4. NumDigits(m) <= d
  BY <1>1, <1>3, DigitsLeast
<1> QED
  BY <1>4 DEF d

\* As many digits as the width says, and at least those of the number.
Width(n, w) == NumDigits(n) + ZeroPadded(n, w)

LEMMA WidthIs ==
  ASSUME NEW n \in Nat, NEW w \in Nat
  PROVE  /\ NumDigits(n) \in Nat /\ NumDigits(n) >= 1 /\ ZeroPadded(n, w) \in Nat
         /\ Width(n, w) \in Nat /\ Width(n, w) >= 1
         /\ Width(n, w) = IF w > NumDigits(n) THEN w ELSE NumDigits(n)
         /\ n < Power[Width(n, w)]
<1>1. NumDigits(n) \in Nat /\ NumDigits(n) >= 1 /\ n < Power[NumDigits(n)]
  BY DigitsAre
<1>2. ZeroPadded(n, w) = IF w > NumDigits(n) THEN w - NumDigits(n) ELSE 0
  BY DEF ZeroPadded
<1>3. /\ Width(n, w) \in Nat /\ Width(n, w) >= 1 /\ ZeroPadded(n, w) \in Nat
      /\ Width(n, w) = IF w > NumDigits(n) THEN w ELSE NumDigits(n)
  BY <1>1, <1>2 DEF Width
<1>4. NumDigits(n) <= Width(n, w)
  BY <1>1, <1>3
<1>5. /\ Power[NumDigits(n)] <= Power[Width(n, w)] /\ Power[NumDigits(n)] \in Nat 
      /\ Power[Width(n, w)] \in Nat
  BY <1>1, <1>3, <1>4, PowerGrows, PowerIs
<1>6. n < Power[Width(n, w)]
  BY <1>1, <1>5
<1> QED
  BY <1>1, <1>3, <1>6

\* Two widths do the same to a number: they are the same, or it has the digits anyway.
Fits(n, v, w) == v = w \/ (v <= NumDigits(n) /\ w <= NumDigits(n))

LEMMA FitsIs ==
  ASSUME NEW n \in Nat, NEW v \in Nat, NEW w \in Nat
  PROVE  /\ ZeroPadded(n, v) = ZeroPadded(n, w) <=> Fits(n, v, w)
         /\ Fits(n, v, w) => Width(n, v) = Width(n, w)
         /\ Fits(n, v, w) <=> Fits(n, w, v)
<1>1. NumDigits(n) \in Nat
  BY WidthIs
<1>2. ZeroPadded(n, v) = IF v > NumDigits(n) THEN v - NumDigits(n) ELSE 0
  BY DEF ZeroPadded
<1>3. ZeroPadded(n, w) = IF w > NumDigits(n) THEN w - NumDigits(n) ELSE 0
  BY DEF ZeroPadded
<1>4. ZeroPadded(n, v) = ZeroPadded(n, w) <=> Fits(n, v, w)
  BY <1>1, <1>2, <1>3 DEF Fits
<1>5. Fits(n, v, w) => Width(n, v) = Width(n, w)
  BY <1>4 DEF Width
<1>6. Fits(n, v, w) <=> Fits(n, w, v)
  BY DEF Fits
<1> QED
  BY <1>4, <1>5, <1>6

\* What fits a number fits a larger one.
LEMMA FitsLater ==
  ASSUME NEW n \in Nat, NEW m \in Nat, n <= m, NEW v \in Nat, NEW w \in Nat, Fits(n, v, w)
  PROVE  Fits(m, v, w)
<1>1. NumDigits(n) \in Nat /\ NumDigits(m) \in Nat /\ NumDigits(n) <= NumDigits(m)
  BY WidthIs, DigitsGrow
<1> QED
  BY <1>1 DEF Fits

\* The names of a range with another width that fits are the same.
LEMMA FormatSame ==
  ASSUME NEW p, NEW n \in Nat, NEW v \in Nat, NEW w \in Nat, Fits(n, v, w)
  PROVE  Format(p, n, v) = Format(p, n, w)
<1>1. Width(n, v) = Width(n, w)
  BY FitsIs
<1> QED
  BY <1>1 DEF Format, Width

\* hostrange_width_combine, and the width the joined range gets.
LEMMA CombineIs ==
  ASSUME NEW q \in GoodRanges, NEW r \in GoodRanges
  PROVE  /\ Combine(q, r) <=> Fits(q.lo, q.width, r.width) \/ Fits(r.lo, q.width, r.width)
         /\ CommonWidth(q, r) \in Nat
         /\ Fits(q.lo, q.width, r.width) => CommonWidth(q, r) = r.width
         /\ ~Fits(q.lo, q.width, r.width) => CommonWidth(q, r) = q.width
<1>1. q.lo \in Nat /\ q.width \in Nat /\ r.lo \in Nat /\ r.width \in Nat
  BY GoodIs
<1>2. ZeroPadded(q.lo, q.width) = ZeroPadded(q.lo, r.width) <=> Fits(q.lo, q.width, r.width)
  BY <1>1, FitsIs
<1>3. ZeroPadded(r.lo, r.width) = ZeroPadded(r.lo, q.width) <=> Fits(r.lo, q.width, r.width)
  BY <1>1, FitsIs
<1> QED
  BY <1>1, <1>2, <1>3 DEF Combine, WidthEquiv, CommonWidth

\* Either range may be written with the common width.
LEMMA CommonFits ==
  ASSUME NEW q \in GoodRanges, NEW r \in GoodRanges, Combine(q, r)
  PROVE  LET w == CommonWidth(q, r) 
         IN  w \in Nat /\ Fits(q.lo, q.width, w) /\ Fits(r.lo, r.width, w)
<1>1. q.lo \in Nat /\ q.width \in Nat /\ r.lo \in Nat /\ r.width \in Nat
  BY GoodIs
<1> DEFINE w == CommonWidth(q, r)
<1>2. /\ Fits(q.lo, q.width, r.width) \/ Fits(r.lo, q.width, r.width)
      /\ w \in Nat
      /\ Fits(q.lo, q.width, r.width) => w = r.width
      /\ ~Fits(q.lo, q.width, r.width) => w = q.width
  BY CombineIs
<1> HIDE DEF w
<1>3. CASE Fits(q.lo, q.width, r.width)
  <2>1. w = r.width
    BY <1>2, <1>3
  <2> QED
    BY <1>2, <1>3, <2>1 DEF Fits, w
<1>4. CASE ~Fits(q.lo, q.width, r.width)
  <2>1. w = q.width /\ Fits(r.lo, q.width, r.width)
    BY <1>2, <1>4
  <2>2. Fits(r.lo, r.width, q.width)
    BY <1>1, <2>1, FitsIs
  <2> QED
    BY <1>2, <2>1, <2>2 DEF Fits, w
<1> QED
  BY <1>3, <1>4

----------------------------------------------------------------------------
(* The names of ranges that are joined and pushed. *)

LEMMA PutIs ==
  ASSUME NEW x \in Seq(HostNames), NEW y \in Seq(HostNames)
  PROVE  /\ x \o y \in Seq(HostNames) /\ Len(x \o y) = Len(x) + Len(y)
         /\ Len(x) \in Nat /\ Len(y) \in Nat
         /\ \A i \in 1..Len(x) + Len(y) : (x \o y)[i] = IF i <= Len(x) THEN x[i] ELSE y[i - Len(x)]
  BY BehindIs

\* The name of a range with a number.
Numbered(r, n) == Format(r.prefix, n, r.width)

LEMMA NumberedIs ==
  ASSUME NEW r \in GoodRanges, ~r.singlehost, NEW d \in Int, 0 <= d
  PROVE  NameAt(r, d) = Numbered(r, r.lo + d) /\ r.lo + d \in Nat
<1>1. r.lo \in Nat
  BY GoodIs
<1> QED
  BY <1>1 DEF NameAt, Numbered

\* A joined range names each number that either range had the way that range did.
LEMMA JoinedIs ==
  ASSUME NEW q \in GoodRanges, NEW r \in GoodRanges, SamePrefix(q, r), Combine(q, r), ~q.singlehost,
         NEW top \in Nat, q.lo <= top
  PROVE  LET j == Joined(q, r, top)
         IN  /\ j \in GoodRanges /\ ~j.singlehost /\ j.lo = q.lo /\ j.hi = top
             /\ \A n \in Nat : n >= q.lo => Numbered(j, n) = Numbered(q, n)
             /\ \A n \in Nat : n >= r.lo => Numbered(j, n) = Numbered(r, n)
<1> DEFINE w == CommonWidth(q, r)
<1> DEFINE j == Joined(q, r, top)
<1>1. /\ q \in Ranges /\ q.lo \in Nat /\ q.width \in Nat /\ r.lo \in Nat /\ r.width \in Nat
      /\ NoTail(q.prefix)
  BY GoodIs
<1>2. w \in Nat /\ Fits(q.lo, q.width, w) /\ Fits(r.lo, r.width, w)
  BY CommonFits
<1>3. r.prefix = q.prefix
  BY DEF SamePrefix
<1>4. j = [q EXCEPT !.hi = top, !.width = w]
  BY DEF Joined
<1> HIDE DEF w, j
<1>5. j.prefix = q.prefix /\ j.lo = q.lo /\ j.hi = top /\ j.width = w /\ j.singlehost = q.singlehost
  BY <1>1, <1>4 DEF Ranges
<1>6. j \in GoodRanges
  BY <1>1, <1>2, <1>4 DEF GoodRanges, Ranges
<1>7. ASSUME NEW n \in Nat, n >= q.lo PROVE Numbered(j, n) = Numbered(q, n)
  <2>1. Fits(n, q.width, w)
    BY <1>1, <1>2, <1>7, FitsLater
  <2>2. Format(q.prefix, n, q.width) = Format(q.prefix, n, w)
    BY <1>1, <1>2, <2>1, FormatSame
  <2> QED
    BY <1>5, <2>2 DEF Numbered
<1>8. ASSUME NEW n \in Nat, n >= r.lo PROVE Numbered(j, n) = Numbered(r, n)
  <2>1. Fits(n, r.width, w)
    BY <1>1, <1>2, <1>8, FitsLater
  <2>2. Format(q.prefix, n, r.width) = Format(q.prefix, n, w)
    BY <1>1, <1>2, <2>1, FormatSame
  <2> QED
    BY <1>3, <1>5, <2>2 DEF Numbered
<1> QED
  BY <1>5, <1>6, <1>7, <1>8 DEF j

\* The names of a range of numbers.
LEMMA NumbersIs ==
  ASSUME NEW r \in GoodRanges, ~r.singlehost
  PROVE  /\ NamesIn(r) \in Seq(HostNames) /\ Len(NamesIn(r)) = r.hi - r.lo + 1
         /\ r.lo \in Nat /\ r.hi \in Nat /\ r.lo <= r.hi
         /\ \A k \in 1..r.hi - r.lo + 1 : NamesIn(r)[k] = Numbered(r, r.lo + (k - 1))
<1>1. /\ r.lo \in Nat /\ r.hi \in Nat /\ r.lo <= r.hi /\ Count(r) = r.hi - r.lo + 1
  BY GoodIs
<1>2. /\ NamesIn(r) \in Seq(HostNames) /\ Len(NamesIn(r)) = Count(r)
      /\ \A k \in 1..Count(r) : NamesIn(r)[k] = NameAt(r, k - 1)
  BY NamesInIs
<1>3. ASSUME NEW k \in 1..r.hi - r.lo + 1 PROVE NamesIn(r)[k] = Numbered(r, r.lo + (k - 1))
  <2>1. k - 1 \in Int /\ 0 <= k - 1
    BY <1>1
  <2>2. NameAt(r, k - 1) = Numbered(r, r.lo + (k - 1))
    BY <2>1, NumberedIs
  <2> QED
    BY <1>1, <1>2, <2>2
<1> QED
  BY <1>1, <1>2, <1>3

\* Of numbers only.
LEMMA TouchingNumbers ==
  ASSUME NEW a \in Nat, NEW b \in Nat, NEW c \in Nat, NEW d \in Nat, b = c - 1, a <= b, c <= d
  PROVE  /\ (b - a + 1) + (d - c + 1) = d - a + 1 /\ b - a + 1 = c - a
         /\ \A i \in 1..d - a + 1 : 
              /\ a + (i - 1) \in Nat
              /\ i <= c - a => i \in 1..b - a + 1 /\ a + (i - 1) >= a
              /\ i > c - a => /\ i - (c - a) \in 1..d - c + 1 
                              /\ c + ((i - (c - a)) - 1) = a + (i - 1) /\ a + (i - 1) >= c
BY SMTT(30)

\* Ranges that touch, joined, are the names of the one and then those of the other.
LEMMA TouchingNames ==
  ASSUME NEW q \in GoodRanges, NEW r \in GoodRanges, SamePrefix(q, r), Combine(q, r), ~q.singlehost,
         q.hi = r.lo - 1
  PROVE  /\ Joined(q, r, r.hi) \in GoodRanges
         /\ NamesIn(Joined(q, r, r.hi)) = NamesIn(q) \o NamesIn(r)
<1>1. ~r.singlehost
  BY DEF SamePrefix
<1>2. PICK x \in Seq(HostNames) : 
        /\ x = NamesIn(q) /\ Len(x) = q.hi - q.lo + 1 /\ q.lo \in Nat /\ q.hi \in Nat /\ q.lo <= q.hi
        /\ \A k \in 1..q.hi - q.lo + 1 : x[k] = Numbered(q, q.lo + (k - 1))
  BY NumbersIs
<1>3. PICK y \in Seq(HostNames) : 
        /\ y = NamesIn(r) /\ Len(y) = r.hi - r.lo + 1 /\ r.lo \in Nat /\ r.hi \in Nat /\ r.lo <= r.hi
        /\ \A k \in 1..r.hi - r.lo + 1 : y[k] = Numbered(r, r.lo + (k - 1))
  BY <1>1, NumbersIs
<1> DEFINE j == Joined(q, r, r.hi)
<1>4. /\ j \in GoodRanges /\ ~j.singlehost /\ j.lo = q.lo /\ j.hi = r.hi
      /\ \A n \in Nat : n >= q.lo => Numbered(j, n) = Numbered(q, n)
      /\ \A n \in Nat : n >= r.lo => Numbered(j, n) = Numbered(r, n)
  <2>1. r.hi \in Nat /\ q.lo <= r.hi
    BY <1>2, <1>3
  <2> QED
    BY <2>1, JoinedIs
<1> HIDE DEF j
<1>5. PICK z \in Seq(HostNames) :
        /\ z = NamesIn(j) /\ Len(z) = r.hi - q.lo + 1
        /\ \A k \in 1..r.hi - q.lo + 1 : z[k] = Numbered(j, q.lo + (k - 1))
  BY <1>4, NumbersIs
<1>6. PICK xy \in Seq(HostNames) : 
        /\ xy = x \o y /\ Len(xy) = Len(x) + Len(y)
        /\ \A i \in 1..Len(x) + Len(y) : xy[i] = IF i <= Len(x) THEN x[i] ELSE y[i - Len(x)]
  BY PutIs
<1>7a. /\ (q.hi - q.lo + 1) + (r.hi - r.lo + 1) = r.hi - q.lo + 1 /\ q.hi - q.lo + 1 = r.lo - q.lo
       /\ \A i \in 1..r.hi - q.lo + 1 : 
            /\ q.lo + (i - 1) \in Nat
            /\ i <= r.lo - q.lo => i \in 1..q.hi - q.lo + 1 /\ q.lo + (i - 1) >= q.lo
            /\ i > r.lo - q.lo => /\ i - (r.lo - q.lo) \in 1..r.hi - r.lo + 1 
                                  /\ r.lo + ((i - (r.lo - q.lo)) - 1) = q.lo + (i - 1) 
                                  /\ q.lo + (i - 1) >= r.lo
  BY <1>2, <1>3, TouchingNumbers, Zenon
<1>7. Len(xy) = Len(z) /\ Len(x) = r.lo - q.lo
  BY <1>2, <1>3, <1>5, <1>6, <1>7a, Zenon
<1>8. ASSUME NEW i \in 1..Len(z) PROVE z[i] = xy[i]
  <2>1. i \in 1..r.hi - q.lo + 1 /\ i \in 1..Len(x) + Len(y) /\ q.lo + (i - 1) \in Nat
    BY <1>5, <1>6, <1>7, <1>7a, Zenon
  <2>2. z[i] = Numbered(j, q.lo + (i - 1)) 
    BY <1>5, <2>1, Zenon
  <2>3. CASE i <= Len(x)
    <3>1. i \in 1..q.hi - q.lo + 1 /\ q.lo + (i - 1) >= q.lo
      BY <1>7, <1>7a, <2>1, <2>3, Zenon
    <3>2. xy[i] = x[i] /\ x[i] = Numbered(q, q.lo + (i - 1)) 
      BY <1>2, <1>6, <2>1, <2>3, <3>1, Zenon
    <3>3. Numbered(j, q.lo + (i - 1)) = Numbered(q, q.lo + (i - 1))
      BY <1>4, <2>1, <3>1, Zenon
    <3> QED
      BY <2>2, <3>2, <3>3, Zenon
  <2>4. CASE ~(i <= Len(x))
    <3> DEFINE m == i - Len(x)
    <3>0. Len(x) \in Nat /\ i \in Int
      BY <2>1
    <3>1. i > r.lo - q.lo
      BY <1>7, <2>4, <3>0
    <3>2. m \in 1..r.hi - r.lo + 1 /\ r.lo + (m - 1) = q.lo + (i - 1) /\ q.lo + (i - 1) >= r.lo
      BY <1>7, <1>7a, <2>1, <3>1, Zenon
    <3>3. xy[i] = y[m] 
      BY <1>6, <2>1, <2>4, Zenon
    <3> HIDE DEF m
    <3>4. y[m] = Numbered(r, q.lo + (i - 1))
      BY <1>3, <3>2, Zenon
    <3>5. Numbered(j, q.lo + (i - 1)) = Numbered(r, q.lo + (i - 1))
      BY <1>4, <2>1, <3>2, Zenon
    <3> QED
      BY <2>2, <3>3, <3>4, <3>5, Zenon
  <2> QED
    BY <2>3, <2>4
<1>9. z = xy
  BY <1>7, <1>8, SameList
<1> QED
  BY <1>2, <1>3, <1>4, <1>5, <1>6, <1>9 DEF j

LEMMA NamesOfNext ==
  ASSUME NEW s \in Seq(GoodRanges), NEW k \in 1..Len(s)
  PROVE  /\ s[k] \in GoodRanges /\ NamesIn(s[k]) \in Seq(HostNames)
         /\ NamesOf(SubSeq(s, 1, k - 1)) \in Seq(HostNames)
         /\ NamesOf(SubSeq(s, 1, k)) = NamesOf(SubSeq(s, 1, k - 1)) \o NamesIn(s[k])
<1> DEFINE u == SubSeq(s, 1, k - 1)
<1>1. u \in Seq(GoodRanges) /\ s[k] \in GoodRanges /\ SubSeq(s, 1, k) = Append(u, s[k])
  OBVIOUS
<1> HIDE DEF u
<1>2. NamesOf(Append(u, s[k])) = NamesOf(u) \o NamesIn(s[k]) /\ NamesOf(u) \in Seq(HostNames)
  BY <1>1, NamesOfAppend, NamesOfType
<1>3. NamesIn(s[k]) \in Seq(HostNames)
  BY <1>1, NamesInIs
<1> QED
  BY <1>1, <1>2, <1>3 DEF u

\* hostlist_push_range puts the names of the range behind the others.
LEMMA PushRangeNames ==
  ASSUME NEW l \in GoodLists, NEW r \in GoodRanges
  PROVE  NamesOf(PushRange(l, r).hr) = NamesOf(l.hr) \o NamesIn(r)
<1>1. l.hr \in Seq(GoodRanges)
  BY DEF GoodLists
<1> DEFINE q == Last(l.hr)
<1> DEFINE joins == l.hr # <<>> /\ SamePrefix(q, r) /\ q.hi = r.lo - 1 /\ r.lo > 0 /\ Combine(q, r)
<1>2. CASE joins
  <2>1. Front(l.hr) \in Seq(GoodRanges) /\ q \in GoodRanges /\ l.hr = Front(l.hr) \o <<q>>
    BY <1>1, <1>2, LastIs
  <2>2. q.singlehost = r.singlehost /\ r.lo > 0 /\ r.lo \in Nat /\ (r.singlehost => r.lo = 0)
    BY <1>2, GoodIs DEF SamePrefix
  <2>3. ~q.singlehost
    BY <2>2
  <2> DEFINE j == Joined(q, r, r.hi)
  <2>4. j \in GoodRanges /\ NamesIn(j) = NamesIn(q) \o NamesIn(r)
    <3>1. q \in GoodRanges
      BY <2>1
    <3>2. SamePrefix(q, r)
      BY <1>2
    <3>3. Combine(q, r)
      BY <1>2
    <3>4. q.hi = r.lo - 1
      BY <1>2
    <3> HIDE DEF q, joins
    <3> QED
      BY <2>3, <3>1, <3>2, <3>3, <3>4, TouchingNames
  <2>5. PushRange(l, r).hr = Front(l.hr) \o <<j>>
    BY <1>2 DEF PushRange
  <2>6. PICK u \in Seq(GoodRanges) : u = Front(l.hr)
    BY <2>1
  <2> HIDE DEF joins, q, j
  <2>7. <<j>> \in Seq(GoodRanges) /\ <<q>> \in Seq(GoodRanges)
    BY <2>1, <2>4
  <2>8. NamesOf(u \o <<j>>) = NamesOf(u) \o NamesIn(j) /\ NamesOf(u \o <<q>>) = NamesOf(u) \o NamesIn(q)
    BY <2>1, <2>4, <2>7, NamesOfConcat, NamesOfOne
  <2>9. NamesOf(u) \in Seq(HostNames) /\ NamesIn(q) \in Seq(HostNames) /\ NamesIn(r) \in Seq(HostNames)
    BY <2>1, NamesOfType, NamesInIs
  <2>10. (NamesOf(u) \o NamesIn(q)) \o NamesIn(r) = NamesOf(u) \o (NamesIn(q) \o NamesIn(r))
    BY <2>9, NamesBehind
  <2> QED
    BY <2>1, <2>4, <2>5, <2>6, <2>8, <2>10
<1>3. CASE ~joins
  <2>1. PushRange(l, r).hr = Append(l.hr, r)
    BY <1>3 DEF PushRange
  <2> QED
    BY <1>1, <2>1, NamesOfAppend
<1> QED
  BY <1>2, <1>3

\* hostlist_push_list puts the names of all of them there, in order.
LEMMA PushAllNames ==
  ASSUME NEW l \in GoodLists, NEW s \in Seq(GoodRanges)
  PROVE  NamesOf(PushAll(l, s).hr) = NamesOf(l.hr) \o NamesOf(s)
<1>1. Len(s) \in Nat /\ DOMAIN s = 1..Len(s) /\ \A k \in 1..Len(s) : s[k] \in GoodRanges
  OBVIOUS
<1>2. CanPush(GoodLists, Len(s), s)
  BY <1>1, PushRangeKeeps DEF CanPush
<1>3. Pushed(GoodLists, Len(s), s, l)
  BY <1>1, <1>2, PushAllIs, Zenon
<1>4. PICK a \in [0..Len(s) -> GoodLists] : 
        /\ a[0] = l /\ (\A k \in 1..Len(s) : a[k] = PushRange(a[k - 1], s[k]))
        /\ PushAll(l, s) = a[Len(s)]
  BY <1>3 DEF Pushed
<1> DEFINE N == NamesOf(l.hr)
<1>5. N \in Seq(HostNames)
  BY NamesOfType DEF GoodLists
<1> HIDE DEF N
<1> DEFINE B == {k \in 0..Len(s) : NamesOf(a[k].hr) = N \o NamesOf(SubSeq(s, 1, k))}
<1>6. 0 \in B
  <2>1. SubSeq(s, 1, 0) = <<>> /\ N \o <<>> = N
    BY <1>5
  <2>0. a[0] = l
    BY <1>4
  <2>2. NamesOf(a[0].hr) = N
    BY <2>0, Zenon DEF N
  <2>3. 0 \in 0..Len(s)
    BY <1>1
  <2>4. NamesOf(SubSeq(s, 1, 0)) = <<>>
    BY <2>1, NamesOfNone, Zenon
  <2> QED
    BY <2>1, <2>2, <2>3, <2>4
<1>7. ASSUME NEW k \in 1..Len(s), k - 1 \in B PROVE k \in B
  <2>1. k - 1 \in 0..Len(s) /\ k \in 0..Len(s)
    BY <1>1
  <2>2. PICK m \in GoodLists : m = a[k - 1]
    BY <1>4, <2>1
  <2>3. NamesOf(m.hr) = N \o NamesOf(SubSeq(s, 1, k - 1))
    BY <1>7, <2>2
  <2>4. NamesOf(a[k].hr) = NamesOf(m.hr) \o NamesIn(s[k])
    BY <1>1, <1>4, <2>2, PushRangeNames
  <2>5. /\ NamesIn(s[k]) \in Seq(HostNames) /\ NamesOf(SubSeq(s, 1, k - 1)) \in Seq(HostNames)
        /\ NamesOf(SubSeq(s, 1, k)) = NamesOf(SubSeq(s, 1, k - 1)) \o NamesIn(s[k])
    BY NamesOfNext
  <2>6. (N \o NamesOf(SubSeq(s, 1, k - 1))) \o NamesIn(s[k]) 
          = N \o (NamesOf(SubSeq(s, 1, k - 1)) \o NamesIn(s[k]))
    BY <1>5, <2>5, NamesBehind
  <2> QED
    BY <2>1, <2>3, <2>4, <2>5, <2>6
<1> HIDE DEF B
<1>8. Len(s) \in B
  <2>1. \A k \in 1..Len(s) : k - 1 \in B => k \in B
    BY <1>7
  <2>2. \A k \in 0..Len(s) : k \in B
    BY <1>1, <1>6, <2>1, Climbs, Zenon
  <2> QED
    BY <1>1, <2>2
<1>9. SubSeq(s, 1, Len(s)) = s
  BY <1>1
<1> QED
  BY <1>4, <1>8, <1>9 DEF B, N

----------------------------------------------------------------------------
(* A name between others. *)

Between(x, e, y) == (x \o <<e>>) \o y

LEMMA OneIs == ASSUME NEW e \in HostNames PROVE <<e>> \in Seq(HostNames) /\ Len(<<e>>) = 1 /\ <<e>>[1] = e
  OBVIOUS

IsBetween(z, x, e, y) ==
  /\ z \in Seq(HostNames) /\ Len(x) \in Nat /\ Len(y) \in Nat
  /\ Len(z) = Len(x) + 1 + Len(y) /\ z[Len(x) + 1] = e
  /\ \A i \in 1..Len(x) : z[i] = x[i]
  /\ \A i \in 1..Len(y) : z[Len(x) + 1 + i] = y[i]

\* Of numbers only.
LEMMA BetweenNumbers ==
  ASSUME NEW a \in Nat, NEW b \in Nat
  PROVE  /\ a + 1 \in 1..a + 1 /\ ~(a + 1 <= a) /\ (a + 1) - a = 1
         /\ a + 1 \in 1..(a + 1) + b /\ a + 1 <= a + 1
         /\ \A i \in 1..a : i \in 1..a + 1 /\ i \in 1..(a + 1) + b /\ i <= a + 1 /\ i <= a
         /\ \A i \in 1..b : /\ a + 1 + i \in 1..(a + 1) + b /\ ~(a + 1 + i <= a + 1) 
                           /\ (a + 1 + i) - (a + 1) = i
BY SMTT(30)

LEMMA BetweenIs ==
  ASSUME NEW x \in Seq(HostNames), NEW e \in HostNames, NEW y \in Seq(HostNames)
  PROVE  IsBetween(Between(x, e, y), x, e, y)
<1>1. PICK one \in Seq(HostNames) : one = <<e>> /\ Len(one) = 1 /\ one[1] = e
  BY OneIs
<1>2. PICK u \in Seq(HostNames) : u = x \o one
  BY PutIs
<1>3. /\ Len(u) = Len(x) + 1 /\ Len(x) \in Nat
      /\ \A i \in 1..Len(x) + 1 : u[i] = IF i <= Len(x) THEN x[i] ELSE one[i - Len(x)]
  BY <1>1, <1>2, PutIs
<1>4. PICK z \in Seq(HostNames) : z = u \o y
  BY PutIs
<1>5. /\ Len(z) = Len(u) + Len(y) /\ Len(y) \in Nat
      /\ \A i \in 1..Len(u) + Len(y) : z[i] = IF i <= Len(u) THEN u[i] ELSE y[i - Len(u)]
  BY <1>4, PutIs
<1>7. \A i \in 1..(Len(x) + 1) + Len(y) : z[i] = IF i <= Len(x) + 1 THEN u[i] ELSE y[i - (Len(x) + 1)]
  BY <1>3, <1>5
<1>8. z = Between(x, e, y)
  BY <1>1, <1>2, <1>4 DEF Between
<1>6. LET a == Len(x)
          b == Len(y)
      IN  /\ a + 1 \in 1..a + 1 /\ ~(a + 1 <= a) /\ (a + 1) - a = 1
          /\ a + 1 \in 1..(a + 1) + b /\ a + 1 <= a + 1
          /\ \A i \in 1..a : i \in 1..a + 1 /\ i \in 1..(a + 1) + b /\ i <= a + 1 /\ i <= a
          /\ \A i \in 1..b : /\ a + 1 + i \in 1..(a + 1) + b /\ ~(a + 1 + i <= a + 1) 
                            /\ (a + 1 + i) - (a + 1) = i
  BY <1>3, <1>5, BetweenNumbers, Zenon
<1>9. ASSUME NEW i \in 1..Len(x) PROVE z[i] = x[i]
  <2>1. u[i] = x[i]
    BY <1>3, <1>6, Zenon
  <2>2. z[i] = u[i]
    BY <1>6, <1>7, Zenon
  <2> QED
    BY <2>1, <2>2
<1>10. z[Len(x) + 1] = e
  <2>1. u[Len(x) + 1] = one[1]
    BY <1>3, <1>6, Zenon
  <2>2. z[Len(x) + 1] = u[Len(x) + 1]
    BY <1>6, <1>7, Zenon
  <2> QED
    BY <1>1, <2>1, <2>2, Zenon
<1>11. ASSUME NEW i \in 1..Len(y) PROVE z[Len(x) + 1 + i] = y[i]
  BY <1>6, <1>7, Zenon
<1>12. Len(z) = Len(x) + 1 + Len(y)
  BY <1>3, <1>5
<1> QED
  BY <1>3, <1>5, <1>8, <1>9, <1>10, <1>11, <1>12 DEF IsBetween

\* The list without its host at a position.
LEMMA BetweenGone ==
  ASSUME NEW x \in Seq(HostNames), NEW e \in HostNames, NEW y \in Seq(HostNames)
  PROVE  RemoveAt(Between(x, e, y), Len(x) + 1) = x \o y
<1>0. PICK z : z = Between(x, e, y) 
  OBVIOUS
<1>1. /\ z \in Seq(HostNames) /\ Len(z) = Len(x) + 1 + Len(y)
      /\ \A i \in 1..Len(x) : z[i] = x[i]
      /\ \A i \in 1..Len(y) : z[Len(x) + 1 + i] = y[i]
  <2>1. IsBetween(z, x, e, y)
    BY <1>0, BetweenIs, Zenon
  <2> QED
    BY <2>1 DEF IsBetween
<1> DEFINE n == Len(x) + 1
<1>2. \A k \in Nat : k + 1 \in Nat
  OBVIOUS
<1>3. Len(x) \in Nat /\ Len(y) \in Nat /\ n \in Nat /\ n = Len(x) + 1
  <2>1. Len(x) \in Nat /\ Len(y) \in Nat
    BY PutIs
  <2> QED
    BY <1>2, <2>1, Zenon
<1>4. PICK a \in Seq(HostNames) : a = SubSeq(z, 1, n - 1) 
  BY <1>1, <1>3, SMTT(40)
<1>5. Len(a) = Len(x) /\ \A i \in 1..Len(x) : a[i] = z[i]
  BY <1>1, <1>3, <1>4
<1>6. PICK b \in Seq(HostNames) : b = SubSeq(z, n + 1, Len(z)) 
  BY <1>1, <1>3
<1>7. Len(b) = Len(y) /\ \A i \in 1..Len(y) : b[i] = z[Len(x) + 1 + i]
  BY <1>1, <1>3, <1>6
<1> HIDE DEF n
<1>8. a = x
  <2>1. Len(a) = Len(x) /\ \A i \in 1..Len(a) : a[i] = x[i]
    BY <1>1, <1>3, <1>5
  <2> QED
    BY <2>1, SameList, Zenon
<1>9. b = y
  <2>1. Len(b) = Len(y) /\ \A i \in 1..Len(b) : b[i] = y[i]
    BY <1>1, <1>3, <1>7
  <2> QED
    BY <2>1, SameList, Zenon
<1>10. RemoveAt(z, n) = a \o b
  BY <1>4, <1>6 DEF RemoveAt
<1> QED
  BY <1>0, <1>8, <1>9, <1>10 DEF n

\* What is left of a range before and after a host of it.
Before(r, k) == IF k = r.lo THEN <<>> ELSE <<[r EXCEPT !.hi = k - 1]>>
After(r, k) == IF k = r.hi THEN <<>> ELSE <<[r EXCEPT !.lo = k + 1]>>

LEMMA BeforeIs ==
  ASSUME NEW r \in GoodRanges, NEW k \in Nat, r.lo <= k, k <= r.hi
  PROVE  \E x \in Seq(HostNames) :
           /\ Before(r, k) \in Seq(GoodRanges) /\ x = NamesOf(Before(r, k)) /\ Len(x) = k - r.lo
           /\ \A i \in 1..k - r.lo : x[i] = Numbered(r, r.lo + (i - 1))
<1>1. /\ r \in Ranges /\ r.lo \in Nat /\ r.hi \in Nat /\ (r.singlehost => r.lo = 0 /\ r.hi = 0)
      /\ r.singlehost \in BOOLEAN
  BY GoodIs
<1>2. CASE k = r.lo
  <2>1. Before(r, k) = <<>> /\ NamesOf(<<>>) = <<>>
    BY <1>2, NamesOfNone DEF Before
  <2>2. <<>> \in Seq(HostNames) /\ Len(<<>>) = 0 /\ <<>> \in Seq(GoodRanges)
    OBVIOUS
  <2>3. k - r.lo = 0
    BY <1>1, <1>2
  <2>4. PICK x \in Seq(HostNames) : x = NamesOf(Before(r, k)) /\ Len(x) = 0
    BY <2>1, <2>2
  <2>5. Len(x) = k - r.lo /\ \A i \in 1..k - r.lo : x[i] = Numbered(r, r.lo + (i - 1))
    BY <2>3, <2>4
  <2> QED
    BY <2>1, <2>2, <2>4, <2>5
<1>3. CASE k # r.lo
  <2>1. ~r.singlehost /\ k - 1 \in Nat /\ r.lo <= k - 1
    BY <1>1, <1>3
  <2> DEFINE q == [r EXCEPT !.hi = k - 1]
  <2>2. q.lo = r.lo /\ q.hi = k - 1 /\ q.prefix = r.prefix /\ q.width = r.width /\ ~q.singlehost
    BY <1>1, <2>1 DEF Ranges
  <2>3. q \in GoodRanges
    BY <1>1, <2>1 DEF GoodRanges, Ranges
  <2> HIDE DEF q
  <2>4. /\ NamesIn(q) \in Seq(HostNames) /\ Len(NamesIn(q)) = q.hi - q.lo + 1
        /\ \A i \in 1..q.hi - q.lo + 1 : NamesIn(q)[i] = Numbered(q, q.lo + (i - 1))
    BY <2>2, <2>3, NumbersIs
  <2>5. Before(r, k) = <<q>> /\ <<q>> \in Seq(GoodRanges) /\ NamesOf(<<q>>) = NamesIn(q)
    BY <1>3, <2>3, NamesOfOne DEF Before, q
  <2>6. q.hi - q.lo + 1 = k - r.lo
    BY <1>1, <2>2
  <2>7. \A n : Numbered(q, n) = Numbered(r, n)
    BY <2>2 DEF Numbered
  <2>8. \A i \in 1..k - r.lo : NamesIn(q)[i] = Numbered(r, r.lo + (i - 1))
    BY <2>2, <2>4, <2>6, <2>7
  <2> QED
    BY <2>4, <2>5, <2>6, <2>8
<1> QED
  BY <1>2, <1>3

LEMMA AfterIs ==
  ASSUME NEW r \in GoodRanges, NEW k \in Nat, r.lo <= k, k <= r.hi
  PROVE  \E y \in Seq(HostNames) :
           /\ After(r, k) \in Seq(GoodRanges) /\ y = NamesOf(After(r, k)) /\ Len(y) = r.hi - k
           /\ \A i \in 1..r.hi - k : y[i] = Numbered(r, k + i)
<1>1. /\ r \in Ranges /\ r.lo \in Nat /\ r.hi \in Nat /\ (r.singlehost => r.lo = 0 /\ r.hi = 0)
      /\ r.singlehost \in BOOLEAN
  BY GoodIs
<1>2. CASE k = r.hi
  <2>1. After(r, k) = <<>> /\ NamesOf(<<>>) = <<>>
    BY <1>2, NamesOfNone DEF After
  <2>2. <<>> \in Seq(HostNames) /\ Len(<<>>) = 0 /\ <<>> \in Seq(GoodRanges)
    OBVIOUS
  <2>3. r.hi - k = 0
    BY <1>1, <1>2
  <2>4. PICK y \in Seq(HostNames) : y = NamesOf(After(r, k)) /\ Len(y) = 0
    BY <2>1, <2>2
  <2>5. Len(y) = r.hi - k /\ \A i \in 1..r.hi - k : y[i] = Numbered(r, k + i)
    BY <2>3, <2>4
  <2> QED
    BY <2>1, <2>2, <2>4, <2>5
<1>3. CASE k # r.hi
  <2>1. ~r.singlehost /\ k + 1 \in Nat /\ k + 1 <= r.hi
    BY <1>1, <1>3
  <2> DEFINE q == [r EXCEPT !.lo = k + 1]
  <2>2. q.lo = k + 1 /\ q.hi = r.hi /\ q.prefix = r.prefix /\ q.width = r.width /\ ~q.singlehost
    BY <1>1, <2>1 DEF Ranges
  <2>3. q \in GoodRanges
    BY <1>1, <2>1 DEF GoodRanges, Ranges
  <2> HIDE DEF q
  <2>4. /\ NamesIn(q) \in Seq(HostNames) /\ Len(NamesIn(q)) = q.hi - q.lo + 1
        /\ \A i \in 1..q.hi - q.lo + 1 : NamesIn(q)[i] = Numbered(q, q.lo + (i - 1))
    BY <2>2, <2>3, NumbersIs
  <2>5. After(r, k) = <<q>> /\ <<q>> \in Seq(GoodRanges) /\ NamesOf(<<q>>) = NamesIn(q)
    BY <1>3, <2>3, NamesOfOne DEF After, q
  <2>6. q.hi - q.lo + 1 = r.hi - k
    BY <1>1, <2>2
  <2>7. \A n : Numbered(q, n) = Numbered(r, n)
    BY <2>2 DEF Numbered
  <2>8. \A i \in 1..r.hi - k : NamesIn(q)[i] = Numbered(r, k + i)
    <3> TAKE i \in 1..r.hi - k
    <3>1. q.lo + (i - 1) = k + i
      BY <1>1, <2>2
    <3> QED
      BY <2>4, <2>6, <2>7, <3>1
  <2> QED
    BY <2>4, <2>5, <2>6, <2>8
<1> QED
  BY <1>2, <1>3

LEMMA RangeSplit ==
  ASSUME NEW r \in GoodRanges, NEW k \in Nat, r.lo <= k, k <= r.hi
  PROVE  /\ Before(r, k) \in Seq(GoodRanges) /\ After(r, k) \in Seq(GoodRanges)
         /\ NameAt(r, k - r.lo) \in HostNames
         /\ NamesIn(r) = Between(NamesOf(Before(r, k)), NameAt(r, k - r.lo), NamesOf(After(r, k)))
         /\ Len(NamesOf(Before(r, k))) = k - r.lo
<1>1. /\ r.lo \in Nat /\ r.hi \in Nat /\ (r.singlehost => r.lo = 0 /\ r.hi = 0)
      /\ r.singlehost \in BOOLEAN /\ Count(r) = r.hi - r.lo + 1 /\ k - r.lo \in Nat
  BY GoodIs
<1>2. PICK x \in Seq(HostNames) :
        /\ Before(r, k) \in Seq(GoodRanges) /\ x = NamesOf(Before(r, k)) /\ Len(x) = k - r.lo
        /\ \A i \in 1..k - r.lo : x[i] = Numbered(r, r.lo + (i - 1))
  BY BeforeIs
<1>3. PICK y \in Seq(HostNames) :
        /\ After(r, k) \in Seq(GoodRanges) /\ y = NamesOf(After(r, k)) /\ Len(y) = r.hi - k
        /\ \A i \in 1..r.hi - k : y[i] = Numbered(r, k + i)
  BY AfterIs
<1>4. NameAt(r, k - r.lo) \in HostNames
  <2>1. 0 <= k - r.lo /\ k - r.lo <= Count(r) - 1 /\ k - r.lo \in Int
    BY <1>1
  <2> QED
    BY <2>1, NameIs
<1>5. PICK e \in HostNames : e = NameAt(r, k - r.lo)
  BY <1>4
<1>6. PICK z : z = Between(x, e, y)
  OBVIOUS
<1>7. /\ z \in Seq(HostNames) /\ Len(z) = Len(x) + 1 + Len(y) /\ z[Len(x) + 1] = e
      /\ \A i \in 1..Len(x) : z[i] = x[i]
      /\ \A i \in 1..Len(y) : z[Len(x) + 1 + i] = y[i]
  <2>1. IsBetween(z, x, e, y)
    BY <1>6, BetweenIs, Zenon
  <2> QED
    BY <2>1 DEF IsBetween
<1>8. PICK v \in Seq(HostNames) : 
        v = NamesIn(r) /\ Len(v) = Count(r) /\ \A i \in 1..Count(r) : v[i] = NameAt(r, i - 1)
  BY NamesInIs
<1>9. Len(z) = Len(v)
  <2>1. Len(z) = (k - r.lo) + 1 + (r.hi - k) /\ Len(v) = r.hi - r.lo + 1
    BY <1>1, <1>2, <1>3, <1>7, <1>8
  <2> QED
    BY ONLY <1>1, <2>1, SMTT(30)
<1>10. ASSUME NEW i \in 1..Len(z) PROVE z[i] = v[i]
  <2>1. i \in 1..r.hi - r.lo + 1 /\ i \in 1..Count(r) /\ v[i] = NameAt(r, i - 1)
    BY <1>1, <1>8, <1>9
  <2>2. CASE i = k - r.lo + 1
    <3>1. z[i] = e
      BY <1>2, <1>7, <2>2, Zenon
    <3>2. i - 1 = k - r.lo
      BY <1>1, <2>2, SMTT(30)
    <3> QED
      BY <1>5, <2>1, <3>1, <3>2, Zenon
  <2>3. CASE i < k - r.lo + 1
    <3>1. ~r.singlehost 
      BY <1>1, <2>1, <2>3
    <3>2. NameAt(r, i - 1) = Numbered(r, r.lo + (i - 1))
      BY <2>1, <3>1, NumberedIs
    <3>3. i \in 1..k - r.lo
      BY <1>1, <2>1, <2>3
    <3>4. z[i] = x[i] /\ x[i] = Numbered(r, r.lo + (i - 1))
      BY <1>2, <1>7, <3>3
    <3> QED
      BY <2>1, <3>2, <3>4
  <2>4. CASE i > k - r.lo + 1
    <3>1. ~r.singlehost 
      BY <1>1, <2>1, <2>4
    <3>2. NameAt(r, i - 1) = Numbered(r, r.lo + (i - 1))
      BY <2>1, <3>1, NumberedIs
    <3> DEFINE j == i - (k - r.lo + 1)
    <3>3. /\ j \in 1..r.hi - k /\ i = (k - r.lo) + 1 + j /\ k + j = r.lo + (i - 1)
      <4>1. k \in Nat /\ r.lo \in Nat /\ r.hi \in Nat
        BY <1>1
      <4>2. i \in 1..r.hi - r.lo + 1 /\ i > k - r.lo + 1
        BY <2>1, <2>4
      <4>3. \A a, b, c \in Nat : \A n \in 1..b - a + 1 : n > c - a + 1 =>
              /\ n - (c - a + 1) \in 1..b - c /\ n = (c - a) + 1 + (n - (c - a + 1))
              /\ c + (n - (c - a + 1)) = a + (n - 1)
        OBVIOUS
      <4> QED
        BY <4>1, <4>2, <4>3, Zenon
    <3> HIDE DEF j
    <3>4. z[i] = y[j] /\ y[j] = Numbered(r, k + j)
      BY <1>2, <1>3, <1>7, <3>3
    <3> QED
      BY <2>1, <3>2, <3>3, <3>4
  <2>5. i \in Int /\ k - r.lo + 1 \in Int
    BY <1>1, <2>1
  <2>6. i = k - r.lo + 1 \/ i < k - r.lo + 1 \/ i > k - r.lo + 1
    BY <2>5, SMTT(30)
  <2> QED
    BY <2>2, <2>3, <2>4, <2>6, Zenon
<1>11. z = v
  BY <1>7, <1>9, <1>10, SameList
<1> QED
  BY <1>2, <1>3, <1>4, <1>5, <1>6, <1>8, <1>11

\* The same as an operator of its own, which keeps the terms small.
Cat(x, y) == x \o y

LEMMA CatIs == 
  \A x, y \in Seq(HostNames) : Cat(x, y) \in Seq(HostNames) /\ Len(Cat(x, y)) = Len(x) + Len(y)
BY PutIs DEF Cat

LEMMA CatBehind == 
  \A x, y, z \in Seq(HostNames) : Cat(Cat(x, y), z) = Cat(x, Cat(y, z))
BY NamesBehind DEF Cat

\* A list with a name between two parts, within a longer one.
Nested(p, b, e, a, q) ==
  /\ p \o b \in Seq(HostNames) /\ a \o q \in Seq(HostNames) /\ Len(p \o b) = Len(p) + Len(b)
  /\ (p \o Between(b, e, a)) \o q = Between(p \o b, e, a \o q)
  /\ (p \o (b \o a)) \o q = (p \o b) \o (a \o q)

LEMMA BetweenWithin ==
  ASSUME NEW p \in Seq(HostNames), NEW b \in Seq(HostNames), NEW e \in HostNames, 
         NEW a \in Seq(HostNames), NEW q \in Seq(HostNames)
  PROVE  Nested(p, b, e, a, q)
<1>1. PICK o \in Seq(HostNames) : o = <<e>>
  BY OneIs
<1>2. o \in Seq(HostNames)
  BY <1>1
<1>3. /\ Cat(p, b) \in Seq(HostNames) /\ Cat(a, q) \in Seq(HostNames) /\ Cat(b, o) \in Seq(HostNames)
      /\ Cat(p, Cat(b, o)) \in Seq(HostNames)
  BY <1>2, CatIs
<1>4. Cat(Cat(p, Cat(Cat(b, o), a)), q) = Cat(Cat(Cat(p, b), o), Cat(a, q))
  <2>1. Cat(p, Cat(Cat(b, o), a)) = Cat(Cat(p, Cat(b, o)), a)
    BY <1>2, <1>3, CatBehind
  <2>2. Cat(p, Cat(b, o)) = Cat(Cat(p, b), o)
    BY <1>2, <1>3, CatBehind
  <2>3. Cat(Cat(Cat(p, Cat(b, o)), a), q) = Cat(Cat(p, Cat(b, o)), Cat(a, q))
    BY <1>2, <1>3, CatBehind
  <2> QED
    BY <2>1, <2>2, <2>3
<1>5. Cat(Cat(p, Cat(b, a)), q) = Cat(Cat(p, b), Cat(a, q))
  <2>1. Cat(p, Cat(b, a)) = Cat(Cat(p, b), a)
    BY CatBehind
  <2>2. Cat(Cat(Cat(p, b), a), q) = Cat(Cat(p, b), Cat(a, q))
    BY <1>3, CatBehind
  <2> QED
    BY <2>1, <2>2
<1>6. Len(Cat(p, b)) = Len(p) + Len(b)
  BY CatIs
<1> QED
  BY <1>1, <1>3, <1>4, <1>5, <1>6, Zenon DEF Cat, Between, Nested

LEMMA AroundNames ==
  ASSUME NEW s \in Seq(GoodRanges), NEW n \in DOMAIN s, NEW y \in Seq(GoodRanges)
  PROVE  /\ NamesOf(Around(s, n, y)) 
              = (NamesOf(SubSeq(s, 1, n - 1)) \o NamesOf(y)) \o NamesOf(SubSeq(s, n + 1, Len(s)))
         /\ NamesOf(s) 
              = (NamesOf(SubSeq(s, 1, n - 1)) \o NamesIn(s[n])) \o NamesOf(SubSeq(s, n + 1, Len(s)))
         /\ NamesOf(SubSeq(s, 1, n - 1)) \in Seq(HostNames)
         /\ NamesOf(SubSeq(s, n + 1, Len(s))) \in Seq(HostNames)
<1>1. /\ s[n] \in GoodRanges
      /\ SubSeq(s, 1, n - 1) \in Seq(GoodRanges) /\ SubSeq(s, n + 1, Len(s)) \in Seq(GoodRanges)
      /\ s = SubSeq(s, 1, n - 1) \o <<s[n]>> \o SubSeq(s, n + 1, Len(s))
  BY TotalAt
<1>2. PICK x \in Seq(GoodRanges) : x = SubSeq(s, 1, n - 1)
  BY <1>1
<1>3. PICK z \in Seq(GoodRanges) : z = SubSeq(s, n + 1, Len(s))
  BY <1>1
<1>4. \A v \in Seq(GoodRanges) : NamesOf((x \o v) \o z) = (NamesOf(x) \o NamesOf(v)) \o NamesOf(z)
  <2> TAKE v \in Seq(GoodRanges)
  <2>1. x \o v \in Seq(GoodRanges)
    OBVIOUS
  <2>2. NamesOf(x \o v) = NamesOf(x) \o NamesOf(v)
    BY NamesOfConcat
  <2>3. NamesOf((x \o v) \o z) = NamesOf(x \o v) \o NamesOf(z)
    BY <2>1, NamesOfConcat
  <2> QED
    BY <2>2, <2>3
<1>5. <<s[n]>> \in Seq(GoodRanges) /\ NamesOf(<<s[n]>>) = NamesIn(s[n])
  BY <1>1, NamesOfOne
<1>6. NamesOf(Around(s, n, y)) = (NamesOf(x) \o NamesOf(y)) \o NamesOf(z)
  BY <1>2, <1>3, <1>4 DEF Around
<1>7. NamesOf(s) = (NamesOf(x) \o NamesIn(s[n])) \o NamesOf(z)
  BY <1>1, <1>2, <1>3, <1>4, <1>5, Zenon
<1>8. NamesOf(x) \in Seq(HostNames) /\ NamesOf(z) \in Seq(HostNames)
  BY NamesOfType
<1> QED
  BY <1>2, <1>3, <1>6, <1>7, <1>8

LEMMA DeleteHostAround ==
  ASSUME NEW s \in Seq(GoodRanges), NEW n \in DOMAIN s, NEW k \in Nat, s[n].lo <= k, k <= s[n].hi
  PROVE  DeleteHost(s, n, k) = Around(s, n, Before(s[n], k) \o After(s[n], k))
<1> DEFINE r == s[n]
<1>1. r \in GoodRanges
  BY TotalAt
<1>2. /\ r \in Ranges /\ r.lo \in Nat /\ r.hi \in Nat
      /\ Before(r, k) \in Seq(GoodRanges) /\ After(r, k) \in Seq(GoodRanges)
  BY <1>1, GoodIs, RangeSplit
<1>3. CASE k = r.lo /\ k = r.hi
  <2>1. DeleteHost(s, n, k) = RemoveAt(s, n)
    BY <1>3 DEF DeleteHost, DeleteRange
  <2>2. Before(r, k) = <<>> /\ After(r, k) = <<>> /\ <<>> \o <<>> = <<>>
    BY <1>3 DEF Before, After
  <2> QED
    BY <2>1, <2>2, RemoveAround
<1>4. CASE k = r.lo /\ k # r.hi
  <2> DEFINE q == [r EXCEPT !.lo = k + 1]
  <2>1. WithoutFirst(r) = q 
    BY <1>2, <1>4 DEF WithoutFirst
  <2>2. DeleteHost(s, n, k) = ReplaceAt(s, n, q)
    BY <1>2, <1>4, <2>1 DEF DeleteHost
  <2>3. Before(r, k) = <<>> /\ After(r, k) = <<q>>
    BY <1>4 DEF Before, After
  <2> HIDE DEF q, r
  <2>4. q \in GoodRanges
    <3>1. <<q>> \in Seq(GoodRanges)
      BY <1>2, <2>3
    <3>2. <<q>>[1] \in GoodRanges
      BY <3>1
    <3> QED
      BY <3>2
  <2>5. <<>> \o <<q>> = <<q>>
    BY <2>4
  <2> QED
    BY <2>2, <2>3, <2>4, <2>5, ReplaceAround DEF r
<1>5. CASE k # r.lo /\ k = r.hi
  <2> DEFINE q == [r EXCEPT !.hi = k - 1]
  <2>1. [r EXCEPT !.hi = @ - 1] = q 
    BY <1>2, <1>5
  <2>2. DeleteHost(s, n, k) = ReplaceAt(s, n, q)
    BY <1>2, <1>5, <2>1 DEF DeleteHost
  <2>3. Before(r, k) = <<q>> /\ After(r, k) = <<>>
    BY <1>5 DEF Before, After
  <2> HIDE DEF q, r
  <2>4. q \in GoodRanges
    <3>1. <<q>> \in Seq(GoodRanges)
      BY <1>2, <2>3
    <3>2. <<q>>[1] \in GoodRanges
      BY <3>1
    <3> QED
      BY <3>2
  <2>5. <<q>> \o <<>> = <<q>>
    BY <2>4
  <2> QED
    BY <2>2, <2>3, <2>4, <2>5, ReplaceAround DEF r
<1>6. CASE k # r.lo /\ k # r.hi
  <2> DEFINE q == [r EXCEPT !.hi = k - 1]
  <2> DEFINE p == [r EXCEPT !.lo = k + 1]
  <2>2. DeleteHost(s, n, k) = InsertAt(ReplaceAt(s, n, q), n + 1, p)
    BY <1>6 DEF DeleteHost, InsertRange
  <2>3. Before(r, k) = <<q>> /\ After(r, k) = <<p>>
    BY <1>6 DEF Before, After
  <2> HIDE DEF q, p, r
  <2>4. q \in GoodRanges /\ p \in GoodRanges
    <3>1. <<q>> \in Seq(GoodRanges) /\ <<p>> \in Seq(GoodRanges)
      BY <1>2, <2>3
    <3>2. <<q>>[1] \in GoodRanges /\ <<p>>[1] \in GoodRanges
      BY <3>1
    <3> QED
      BY <3>2
  <2>5. <<q>> \o <<p>> = <<q, p>>
    BY <2>4, PairIs
  <2>6. InsertAt(ReplaceAt(s, n, q), n + 1, p) = Around(s, n, <<q, p>>)
    BY <2>4, SplitAround
  <2> QED
    BY <2>2, <2>3, <2>5, <2>6 DEF r
<1> QED
  BY <1>3, <1>4, <1>5, <1>6

----------------------------------------------------------------------------
(* The names without one host, and without the first or the last. *)

\* Deleting one host takes its name from the list and leaves all others in order.
LEMMA DeleteHostNames ==
  ASSUME NEW s \in Seq(GoodRanges), NEW n \in DOMAIN s, NEW k \in Nat, s[n].lo <= k, k <= s[n].hi
  PROVE  \E x, y \in Seq(HostNames) :
           /\ NameAt(s[n], k - s[n].lo) \in HostNames
           /\ NamesOf(s) = Between(x, NameAt(s[n], k - s[n].lo), y)
           /\ NamesOf(DeleteHost(s, n, k)) = x \o y
           /\ Len(x) = Total(SubSeq(s, 1, n - 1)) + (k - s[n].lo)
           /\ x = NamesOf(SubSeq(s, 1, n - 1)) \o NamesOf(Before(s[n], k))
<1> DEFINE r == s[n]
           b == Before(r, k)
           a == After(r, k)
           P == NamesOf(SubSeq(s, 1, n - 1))
           Q == NamesOf(SubSeq(s, n + 1, Len(s)))
           B == NamesOf(b)
           A == NamesOf(a)
           e == NameAt(r, k - r.lo)
<1>1. r \in GoodRanges
  BY TotalAt
<1>2. /\ b \in Seq(GoodRanges) /\ a \in Seq(GoodRanges) /\ e \in HostNames
      /\ NamesIn(r) = Between(B, e, A) /\ Len(B) = k - r.lo
  BY <1>1, RangeSplit
<1>3. b \o a \in Seq(GoodRanges)
  BY <1>2, ConcatIs
<1>4. NamesOf(b \o a) = B \o A
  BY <1>2, NamesOfConcat
<1>5. DeleteHost(s, n, k) = Around(s, n, b \o a)
  BY DeleteHostAround
<1>6. /\ NamesOf(Around(s, n, b \o a)) = (P \o NamesOf(b \o a)) \o Q
      /\ NamesOf(s) = (P \o NamesIn(r)) \o Q
      /\ P \in Seq(HostNames) /\ Q \in Seq(HostNames)
  BY <1>3, AroundNames
<1>7. A \in Seq(HostNames) /\ B \in Seq(HostNames)
  BY <1>2, NamesOfType
<1>8. Len(P) = Total(SubSeq(s, 1, n - 1))
  BY DEF Total
<1> HIDE DEF b, a, P, Q, B, A, e, r
<1>9. /\ P \o B \in Seq(HostNames) /\ A \o Q \in Seq(HostNames) /\ Len(P \o B) = Len(P) + Len(B)
      /\ (P \o Between(B, e, A)) \o Q = Between(P \o B, e, A \o Q)
      /\ (P \o (B \o A)) \o Q = (P \o B) \o (A \o Q)
  <2>1. P \in Seq(HostNames) /\ B \in Seq(HostNames) /\ e \in HostNames
        /\ A \in Seq(HostNames) /\ Q \in Seq(HostNames)
    BY <1>2, <1>6, <1>7
  <2> QED
    <3>1. Nested(P, B, e, A, Q)
      BY <2>1, BetweenWithin, ZenonT(40)
    <3> QED
      BY <3>1 DEF Nested
<1>10. NamesOf(s) = Between(P \o B, e, A \o Q) /\ NamesOf(DeleteHost(s, n, k)) = (P \o B) \o (A \o Q)
  BY <1>2, <1>4, <1>5, <1>6, <1>9
<1>11. Len(P \o B) = Total(SubSeq(s, 1, n - 1)) + (k - r.lo)
  BY <1>2, <1>8, <1>9
<1>12. P \o B = NamesOf(SubSeq(s, 1, n - 1)) \o NamesOf(Before(s[n], k))
  BY DEF P, B, b, r
<1> QED
  BY <1>2, <1>9, <1>10, <1>11, <1>12, Zenon DEF e, r

\* The name at either end, and the list without it.
LEMMA LastTaken ==
  ASSUME NEW x \in Seq(HostNames), NEW e \in HostNames
  PROVE  LET z == x \o <<e>> IN z # <<>> /\ z[Len(z)] = e /\ Front(z) = x
<1> DEFINE z == x \o <<e>>
<1>1. PICK o \in Seq(HostNames) : o = <<e>> /\ Len(o) = 1 /\ o[1] = e
  BY OneIs
<1>2. /\ z \in Seq(HostNames) /\ Len(z) = Len(x) + 1 /\ Len(x) \in Nat
      /\ \A i \in 1..Len(x) + 1 : z[i] = IF i <= Len(x) THEN x[i] ELSE o[i - Len(x)]
  BY <1>1, PutIs
<1> HIDE DEF z
<1>3. z[Len(z)] = e /\ z # <<>>
  <2>1. Len(x) + 1 \in 1..Len(x) + 1 /\ ~(Len(x) + 1 <= Len(x)) /\ (Len(x) + 1) - Len(x) = 1
    BY <1>2
  <2>2. z[Len(x) + 1] = o[1]
    BY <1>2, <2>1
  <2> QED
    BY <1>1, <1>2, <2>2
<1>4. Front(z) \in Seq(HostNames) /\ Len(Front(z)) = Len(x) /\ \A i \in 1..Len(x) : Front(z)[i] = z[i]
  BY <1>2, <1>3 DEF Front
<1>5. \A i \in 1..Len(x) : z[i] = x[i]
  BY <1>2
<1>6. Front(z) = x
  BY <1>4, <1>5, SameList
<1> QED
  BY <1>3, <1>6 DEF z

LEMMA FirstTaken ==
  ASSUME NEW y \in Seq(HostNames), NEW e \in HostNames
  PROVE  LET z == <<e>> \o y IN z # <<>> /\ z[1] = e /\ Tail(z) = y
<1> DEFINE z == <<e>> \o y
<1>1. PICK o \in Seq(HostNames) : o = <<e>> /\ Len(o) = 1 /\ o[1] = e
  BY OneIs
<1>2. /\ z \in Seq(HostNames) /\ Len(z) = 1 + Len(y) /\ Len(y) \in Nat
      /\ \A i \in 1..1 + Len(y) : z[i] = IF i <= 1 THEN o[i] ELSE y[i - 1]
  BY <1>1, PutIs
<1> HIDE DEF z
<1>3. z[1] = e /\ z # <<>>
  BY <1>1, <1>2
<1>4. Tail(z) \in Seq(HostNames) /\ Len(Tail(z)) = Len(y) /\ \A i \in 1..Len(y) : Tail(z)[i] = z[i + 1]
  BY <1>2, <1>3
<1>5. \A i \in 1..Len(y) : z[i + 1] = y[i]
  <2>1. \A i \in 1..Len(y) : i + 1 \in 1..1 + Len(y) /\ ~(i + 1 <= 1) /\ (i + 1) - 1 = i
    BY <1>2
  <2> QED
    BY <1>2, <2>1
<1>6. Tail(z) = y
  BY <1>4, <1>5, SameList
<1> QED
  BY <1>3, <1>6 DEF z

LEMMA NoneBeside ==
  ASSUME NEW x \in Seq(HostNames)
  PROVE  x \o <<>> = x /\ <<>> \o x = x
OBVIOUS

LEMMA BesideIs ==
  ASSUME NEW x \in Seq(HostNames), NEW e \in HostNames
  PROVE  Between(x, e, <<>>) = x \o <<e>> /\ Between(<<>>, e, x) = <<e>> \o x
<1>1. PICK o \in Seq(HostNames) : o = <<e>>
  BY OneIs
<1>2. x \o o \in Seq(HostNames) /\ (x \o o) \o <<>> = x \o o /\ <<>> \o o = o
  BY <1>1, PutIs, NoneBeside
<1> QED
  BY <1>1, <1>2 DEF Between

\* A range without its last host, and without its first.
LEMMA EndsGone ==
  ASSUME NEW r \in GoodRanges
  PROVE  /\ (IF Empty(WithoutLast(r)) THEN <<>> ELSE <<WithoutLast(r)>>) = Before(r, r.hi)
         /\ (IF Empty(WithoutFirst(r)) THEN <<>> ELSE <<WithoutFirst(r)>>) = After(r, r.lo)
         /\ After(r, r.hi) = <<>> /\ Before(r, r.lo) = <<>>
         /\ NameAt(r, Count(r) - 1) = NameAt(r, r.hi - r.lo)
<1>1. /\ r \in Ranges /\ r.singlehost \in BOOLEAN /\ r.lo \in Nat /\ r.hi \in Nat /\ r.lo <= r.hi
      /\ (r.singlehost => r.lo = 0 /\ r.hi = 0) /\ Count(r) = r.hi - r.lo + 1
  BY GoodIs
<1>2. [r EXCEPT !.hi = r.hi - 1].lo = r.lo /\ [r EXCEPT !.hi = r.hi - 1].hi = r.hi - 1
  BY <1>1 DEF Ranges
<1>3. [r EXCEPT !.lo = r.lo + 1].lo = r.lo + 1 /\ [r EXCEPT !.lo = r.lo + 1].hi = r.hi
  BY <1>1 DEF Ranges
<1>4. (IF Empty(WithoutLast(r)) THEN <<>> ELSE <<WithoutLast(r)>>) = Before(r, r.hi)
  <2>1. CASE r.singlehost
    BY <1>1, <1>3, <2>1 DEF WithoutLast, Empty, Before
  <2>2. CASE ~r.singlehost
    <3>1. WithoutLast(r) = [r EXCEPT !.hi = r.hi - 1]
      BY <2>2 DEF WithoutLast
    <3>2. Empty(WithoutLast(r)) <=> r.hi = r.lo
      BY <1>1, <1>2, <3>1 DEF Empty
    <3> QED
      BY <3>1, <3>2 DEF Before
  <2> QED
    BY <2>1, <2>2
<1>5. (IF Empty(WithoutFirst(r)) THEN <<>> ELSE <<WithoutFirst(r)>>) = After(r, r.lo)
  <2>1. WithoutFirst(r) = [r EXCEPT !.lo = r.lo + 1]
    BY DEF WithoutFirst
  <2>2. Empty(WithoutFirst(r)) <=> r.lo = r.hi
    BY <1>1, <1>3, <2>1 DEF Empty
  <2> QED
    BY <2>1, <2>2 DEF After
<1>6. Count(r) - 1 = r.hi - r.lo /\ r.lo - r.lo = 0
  BY <1>1
<1> QED
  BY <1>4, <1>5, <1>6 DEF After, Before

LEMMA PopNames ==
  ASSUME NEW s \in Seq(GoodRanges), s # <<>>
  PROVE  LET r == Last(s)
             t == Front(s) \o IF Empty(WithoutLast(r)) THEN <<>> ELSE <<WithoutLast(r)>>
         IN  NamesOf(s) # <<>> /\ NameAt(r, Count(r) - 1) = NamesOf(s)[Len(NamesOf(s))]
             /\ NamesOf(t) = Front(NamesOf(s))
<1> DEFINE r == Last(s)
           e == NameAt(r, r.hi - r.lo)
           b == Before(r, r.hi)
<1>1. Front(s) \in Seq(GoodRanges) /\ r \in GoodRanges /\ s = Front(s) \o <<r>>
  BY LastIs
<1>2. r.lo \in Nat /\ r.hi \in Nat /\ r.lo <= r.hi
  BY <1>1, GoodIs
<1>3. /\ b \in Seq(GoodRanges) /\ e \in HostNames
      /\ NamesIn(r) = Between(NamesOf(b), e, NamesOf(After(r, r.hi)))
  BY <1>1, <1>2, RangeSplit
<1>4. /\ (IF Empty(WithoutLast(r)) THEN <<>> ELSE <<WithoutLast(r)>>) = b
      /\ NameAt(r, Count(r) - 1) = e /\ After(r, r.hi) = <<>>
  BY <1>1, EndsGone
<1> HIDE DEF r, e, b
<1>5. NamesOf(Front(s)) \in Seq(HostNames) /\ NamesOf(b) \in Seq(HostNames)
  BY <1>1, <1>3, NamesOfType
<1>6. NamesIn(r) = NamesOf(b) \o <<e>>
  BY <1>3, <1>4, <1>5, NamesOfNone, BesideIs
<1>7. NamesOf(s) = NamesOf(Front(s)) \o NamesIn(r)
  <2>1. <<r>> \in Seq(GoodRanges)
    BY <1>1
  <2>2. NamesOf(Front(s) \o <<r>>) = NamesOf(Front(s)) \o NamesOf(<<r>>)
    BY <1>1, <2>1, NamesOfConcat
  <2>3. NamesOf(<<r>>) = NamesIn(r)
    BY <1>1, NamesOfOne
  <2> QED
    BY <1>1, <2>2, <2>3
<1> DEFINE x == NamesOf(Front(s)) \o NamesOf(b)
<1>8. x \in Seq(HostNames) /\ NamesOf(s) = x \o <<e>>
  <2>1. <<e>> \in Seq(HostNames)
    BY <1>3, OneIs
  <2> QED
    BY <1>5, <1>6, <1>7, <2>1, NamesBehind, PutIs
<1>9. NamesOf(Front(s) \o b) = x
  BY <1>1, <1>3, NamesOfConcat
<1> HIDE DEF x
<1>10. LET z == x \o <<e>> IN z # <<>> /\ z[Len(z)] = e /\ Front(z) = x
  BY <1>3, <1>8, LastTaken
<1> QED
  BY <1>4, <1>8, <1>9, <1>10 DEF r

LEMMA ShiftNames ==
  ASSUME NEW s \in Seq(GoodRanges), s # <<>>
  PROVE  LET r == s[1]
             t == (IF Empty(WithoutFirst(r)) THEN <<>> ELSE <<WithoutFirst(r)>>) \o Tail(s)
         IN  NamesOf(s) # <<>> /\ NameAt(r, 0) = NamesOf(s)[1] /\ NamesOf(t) = Tail(NamesOf(s))
<1> DEFINE r == s[1]
           e == NameAt(r, 0)
           a == After(r, r.lo)
<1>1. Tail(s) \in Seq(GoodRanges) /\ r \in GoodRanges /\ s = <<r>> \o Tail(s)
  BY FirstIs
<1>2. r.lo \in Nat /\ r.hi \in Nat /\ r.lo <= r.hi
  BY <1>1, GoodIs
<1>3. /\ a \in Seq(GoodRanges) /\ e \in HostNames
      /\ NamesIn(r) = Between(NamesOf(Before(r, r.lo)), e, NamesOf(a))
  <2>1. r.lo - r.lo = 0
    BY <1>2
  <2> QED
    BY <1>1, <1>2, <2>1, RangeSplit
<1>4. /\ (IF Empty(WithoutFirst(r)) THEN <<>> ELSE <<WithoutFirst(r)>>) = a
      /\ Before(r, r.lo) = <<>>
  BY <1>1, EndsGone
<1> HIDE DEF r, e, a
<1>5. NamesOf(Tail(s)) \in Seq(HostNames) /\ NamesOf(a) \in Seq(HostNames)
  BY <1>1, <1>3, NamesOfType
<1>6. NamesIn(r) = <<e>> \o NamesOf(a)
  BY <1>3, <1>4, <1>5, NamesOfNone, BesideIs
<1>7. NamesOf(s) = NamesIn(r) \o NamesOf(Tail(s))
  <2>1. <<r>> \in Seq(GoodRanges)
    BY <1>1
  <2>2. NamesOf(<<r>> \o Tail(s)) = NamesOf(<<r>>) \o NamesOf(Tail(s))
    BY <1>1, <2>1, NamesOfConcat
  <2>3. NamesOf(<<r>>) = NamesIn(r)
    BY <1>1, NamesOfOne
  <2> QED
    BY <1>1, <2>2, <2>3
<1> DEFINE y == NamesOf(a) \o NamesOf(Tail(s))
<1>8. y \in Seq(HostNames) /\ NamesOf(s) = <<e>> \o y
  <2>1. <<e>> \in Seq(HostNames)
    BY <1>3, OneIs
  <2> QED
    BY <1>5, <1>6, <1>7, <2>1, NamesBehind, PutIs
<1>9. NamesOf(a \o Tail(s)) = y
  BY <1>1, <1>3, NamesOfConcat
<1> HIDE DEF y
<1>10. LET z == <<e>> \o y IN z # <<>> /\ z[1] = e /\ Tail(z) = y
  BY <1>3, <1>8, FirstTaken
<1> QED
  BY <1>4, <1>8, <1>9, <1>10 DEF r, e

----------------------------------------------------------------------------
(* What is kept besides the count, and the operations that are simple steps of the log. *)

\* What hostlist_next has returned is the name the iterator is at.
Seen == it.on /\ ret # <<>> => ret = <<NameAt(hr[it.idx], it.depth)>>
LogInv == IInv /\ Seen

LEMMA AloneBehind == ASSUME IInv, Alone PROVE Behind = -1 /\ hr \in Seq(GoodRanges) /\ Hosts = NamesOf(hr)
BY DEF IInv, Counted, Alone, Behind, Hosts

LEMMA StillAlone == ASSUME Alone, UNCHANGED it PROVE Behind' = -1
BY DEF Alone, Behind

LEMMA CreatedNames == 
  ASSUME NEW tokens \in Inputs, ParseOK(tokens)
  PROVE  Create(tokens).hr \in Seq(GoodRanges) /\ NamesOf(Create(tokens).hr) \in Seq(HostNames)
<1>1. Create(tokens).hr \in Seq(GoodRanges)
  BY CreateKeeps DEF GoodLists
<1> QED
  BY <1>1, NamesOfType

LEMMA PushIsLog ==
  ASSUME LogInv, NEW tokens \in Inputs, Push(tokens)
  PROVE  Log!Next
<1>1. IInv /\ Alone /\ ret' = <<>> /\ UNCHANGED it
  BY DEF LogInv, Push
<1>2. Behind = -1 /\ Behind' = -1 /\ hr \in Seq(GoodRanges)
  BY <1>1, AloneBehind, StillAlone
<1>3. CASE ParseOK(tokens)
  <2> DEFINE b == NamesOf(Create(tokens).hr)
  <2>1. hr' = PushAll(Now, Create(tokens).hr).hr
    BY <1>3 DEF Push, Becomes
  <2>2. Now \in GoodLists /\ Now.hr = hr
    BY <1>1, NowIs DEF IInv, Now
  <2>3. Create(tokens).hr \in Seq(GoodRanges)
    BY <1>3, CreatedNames
  <2>4. NamesOf(PushAll(Now, Create(tokens).hr).hr) = NamesOf(Now.hr) \o b
    BY <2>2, <2>3, PushAllNames
  <2>5. Hosts' = Hosts \o b
    BY <2>1, <2>2, <2>4 DEF Hosts
  <2>6. Log!Put(b)
    BY <1>1, <1>2, <2>5 DEF Log!Put
  <2>7. b \in {NamesOf(Create(t).hr) : t \in {u \in Inputs : ParseOK(u)}}
    BY <1>3
  <2> QED
    BY <2>6, <2>7 DEF Log!Next
<1>4. CASE ~ParseOK(tokens)
  <2>1. Hosts' = Hosts
    BY <1>4 DEF Push, Hosts
  <2> QED
    BY <1>1, <1>2, <2>1 DEF Log!Next, Log!Refuse
<1> QED
  BY <1>3, <1>4

LEMMA PopHostIsLog ==
  ASSUME LogInv, PopHost
  PROVE  Log!Next
<1>1. IInv /\ Alone /\ UNCHANGED it
  BY DEF LogInv, PopHost
<1>2. Behind = -1 /\ Behind' = -1 /\ hr \in Seq(GoodRanges)
  BY <1>1, AloneBehind, StillAlone
<1>3. hr # <<>>
  BY <1>1, NotEmpty DEF PopHost, IInv
<1>4. LET r == Last(hr)
          t == Front(hr) \o IF Empty(WithoutLast(r)) THEN <<>> ELSE <<WithoutLast(r)>>
      IN  NamesOf(hr) # <<>> /\ NameAt(r, Count(r) - 1) = NamesOf(hr)[Len(NamesOf(hr))]
          /\ NamesOf(t) = Front(NamesOf(hr))
  BY <1>2, <1>3, PopNames
<1>5. Hosts # <<>> /\ ret' = <<Hosts[Len(Hosts)]>> /\ Hosts' = Front(Hosts)
  BY <1>4 DEF PopHost, Hosts
<1>6. Log!Front(Hosts) = Front(Hosts)
  BY DEF Log!Front, Front
<1> QED
  BY <1>2, <1>5, <1>6 DEF Log!Next, Log!TakeLast, Log!Size

LEMMA ShiftHostIsLog ==
  ASSUME LogInv, ShiftHost
  PROVE  Log!Next
<1>1. IInv /\ Alone /\ UNCHANGED it
  BY DEF LogInv, ShiftHost
<1>2. Behind = -1 /\ Behind' = -1 /\ hr \in Seq(GoodRanges)
  BY <1>1, AloneBehind, StillAlone
<1>3. hr # <<>>
  BY <1>1, NotEmpty DEF ShiftHost, IInv
<1>4. LET r == hr[1]
          t == (IF Empty(WithoutFirst(r)) THEN <<>> ELSE <<WithoutFirst(r)>>) \o Tail(hr)
      IN  NamesOf(hr) # <<>> /\ NameAt(r, 0) = NamesOf(hr)[1] /\ NamesOf(t) = Tail(NamesOf(hr))
  BY <1>2, <1>3, ShiftNames
<1>5. Hosts # <<>> /\ ret' = <<Hosts[1]>> /\ Hosts' = Tail(Hosts)
  BY <1>4 DEF ShiftHost, Hosts
<1> QED
  BY <1>2, <1>5 DEF Log!Next, Log!TakeFirst

LEMMA NothingThereIsLog == ASSUME NothingThere PROVE Log!Next
BY DEF NothingThere, Log!Next, Log!Refuse, Hosts, Behind

LEMMA IteratorCreateIsLog ==
  ASSUME LogInv, IteratorCreate
  PROVE  Log!Next
<1>1. IInv /\ Alone /\ ret' = <<>> /\ hr' = hr
  BY DEF LogInv, IteratorCreate
<1>2. Behind = -1 /\ hr \in Seq(GoodRanges)
  BY <1>1, AloneBehind
<1>3. it' = [on |-> TRUE, idx |-> 1, depth |-> -1]
  BY DEF IteratorCreate, NoIterator
<1>4. Hosts' = Hosts
  BY <1>1 DEF Hosts
<1>5. Behind' = 0
  <2>1. Behind' = IF 1 > Len(hr) THEN Len(Hosts) ELSE Len(NamesOf(SubSeq(hr, 1, 1 - 1))) + -1 + 1
    BY <1>1, <1>3, <1>4 DEF Behind
  <2>2. CASE hr = <<>>
    <3>1. NamesOf(hr) = <<>> /\ 1 > Len(hr)
      BY <2>2, NamesOfNone
    <3>2. Len(Hosts) = 0
      BY <3>1 DEF Hosts
    <3> QED
      BY <2>1, <3>1, <3>2
  <2>3. CASE hr # <<>>
    <3>1. SubSeq(hr, 1, 1 - 1) = <<>> /\ ~(1 > Len(hr))
      BY <1>2, <2>3
    <3>2. Total(SubSeq(hr, 1, 1 - 1)) = 0
      BY <3>1, TotalNone
    <3>3. Len(NamesOf(SubSeq(hr, 1, 1 - 1))) = 0
      BY <3>2 DEF Total
    <3> QED
      BY <2>1, <3>1, <3>3
  <2> QED
    BY <2>2, <2>3
<1> QED
  BY <1>1, <1>2, <1>4, <1>5 DEF Log!Next, Log!Start

LEMMA IteratorDestroyIsLog ==
  ASSUME LogInv, IteratorDestroy
  PROVE  Log!Next
<1>1. /\ it.on /\ it.idx > Len(hr) /\ it' = NoIterator /\ ret' = <<>> /\ hr' = hr
      /\ hr \in Seq(GoodRanges)
  BY DEF LogInv, IteratorDestroy, IInv, Counted
<1>2. Behind = Len(Hosts) /\ Hosts \in Seq(HostNames)
  BY <1>1, NamesOfType DEF Behind, Hosts
<1>3. Behind >= 0
  BY <1>2
<1>4. Behind' = -1 /\ Hosts' = Hosts
  BY <1>1 DEF Behind, NoIterator, Hosts
<1> QED
  BY <1>1, <1>3, <1>4 DEF Log!Next, Log!Finish

----------------------------------------------------------------------------
(* Where the iterator is among the names. *)

\* The names before the range at n.
Ahead(s, n) == Total(SubSeq(s, 1, n - 1))

LEMMA PlaceIs ==
  ASSUME NEW s \in Seq(GoodRanges), NEW n \in DOMAIN s, NEW d \in Nat, d <= s[n].hi - s[n].lo
  PROVE  /\ NamesOf(s) \in Seq(HostNames) /\ Ahead(s, n) \in Nat
         /\ Ahead(s, n) + d + 1 <= Len(NamesOf(s))
         /\ NamesOf(s)[Ahead(s, n) + d + 1] = NameAt(s[n], d)
         /\ NameAt(s[n], d) \in HostNames
<1>1. /\ s[n].lo \in Nat /\ s[n].hi \in Nat /\ Ahead(s, n) \in Nat
  BY TotalAt, GoodIs DEF Ahead
<1> DEFINE k == s[n].lo + d
<1>2. k \in Nat /\ s[n].lo <= k /\ k <= s[n].hi /\ k - s[n].lo = d
  BY <1>1
<1> HIDE DEF k
<1>3. PICK x, y \in Seq(HostNames) :
        /\ NameAt(s[n], k - s[n].lo) \in HostNames
        /\ NamesOf(s) = Between(x, NameAt(s[n], k - s[n].lo), y)
        /\ NamesOf(DeleteHost(s, n, k)) = x \o y
        /\ Len(x) = Total(SubSeq(s, 1, n - 1)) + (k - s[n].lo)
  BY <1>2, DeleteHostNames
<1>4. /\ x \in Seq(HostNames) /\ y \in Seq(HostNames) /\ NameAt(s[n], d) \in HostNames
      /\ NamesOf(s) = Between(x, NameAt(s[n], d), y) /\ Len(x) = Ahead(s, n) + d
  BY <1>2, <1>3 DEF Ahead
<1>5. IsBetween(Between(x, NameAt(s[n], d), y), x, NameAt(s[n], d), y)
  BY <1>4, BetweenIs, Zenon
<1>6. /\ NamesOf(s) \in Seq(HostNames) /\ Len(y) \in Nat
      /\ Len(NamesOf(s)) = Len(x) + 1 + Len(y) /\ NamesOf(s)[Len(x) + 1] = NameAt(s[n], d)
  BY <1>4, <1>5 DEF IsBetween
<1> QED
  BY <1>1, <1>4, <1>6

LEMMA AheadNext ==
  ASSUME NEW s \in Seq(GoodRanges), NEW n \in DOMAIN s
  PROVE  /\ Ahead(s, n) \in Nat /\ Ahead(s, n + 1) = Ahead(s, n) + (s[n].hi - s[n].lo + 1)
         /\ Ahead(s, Len(s) + 1) = Len(NamesOf(s))
<1>1. n \in 1..Len(s) /\ (n + 1) - 1 = n /\ (Len(s) + 1) - 1 = Len(s)
  OBVIOUS
<1>2. Count(s[n]) = s[n].hi - s[n].lo + 1
  BY TotalAt, GoodIs
<1>3. /\ Total(SubSeq(s, 1, n - 1)) \in Nat
      /\ Total(SubSeq(s, 1, n)) = Total(SubSeq(s, 1, n - 1)) + Count(s[n])
  BY <1>1, TotalUpTo
<1>4. SubSeq(s, 1, Len(s)) = s
  OBVIOUS
<1> QED
  BY <1>1, <1>2, <1>3, <1>4 DEF Ahead, Total

\* The names behind an iterator.
Position(s, x) == 
  IF ~x.on THEN -1 ELSE IF x.idx > Len(s) THEN Len(NamesOf(s))
  ELSE Len(NamesOf(SubSeq(s, 1, x.idx - 1))) + x.depth + 1

LEMMA PositionIs ==
  ASSUME NEW s \in Seq(GoodRanges), NEW x, x.on, x.idx \in Nat, x.idx >= 1, x.idx <= Len(s) + 1, 
         x.depth \in Int
  PROVE  /\ NamesOf(s) \in Seq(HostNames) /\ Len(NamesOf(s)) \in Nat
         /\ x.idx <= Len(s) => x.idx \in DOMAIN s /\ Position(s, x) = Ahead(s, x.idx) + (x.depth + 1)
                               /\ Ahead(s, x.idx) \in Nat
         /\ ~(x.idx <= Len(s)) => Position(s, x) = Len(NamesOf(s)) /\ x.idx = Len(s) + 1
<1>1. NamesOf(s) \in Seq(HostNames) /\ Len(NamesOf(s)) \in Nat /\ Len(s) \in Nat
  BY NamesOfType
<1>2. ASSUME x.idx <= Len(s) 
      PROVE  x.idx \in DOMAIN s /\ Position(s, x) = Ahead(s, x.idx) + (x.depth + 1) 
             /\ Ahead(s, x.idx) \in Nat
  <2>1. x.idx \in DOMAIN s /\ ~(x.idx > Len(s))
    BY <1>1, <1>2
  <2>2. Ahead(s, x.idx) \in Nat
    BY <2>1, AheadNext
  <2>3. Position(s, x) = Ahead(s, x.idx) + x.depth + 1
    BY <2>1 DEF Position, Ahead, Total
  <2> QED
    BY <2>1, <2>2, <2>3
<1>3. ASSUME ~(x.idx <= Len(s)) PROVE Position(s, x) = Len(NamesOf(s)) /\ x.idx = Len(s) + 1
  BY <1>1, <1>3 DEF Position
<1> QED
  BY <1>1, <1>2, <1>3

\* The place of the iterator, and what is known of it.
LEMMA BehindAt ==
  ASSUME IInv, it.on
  PROVE  /\ hr \in Seq(GoodRanges) /\ Hosts \in Seq(HostNames) /\ Len(Hosts) \in Nat
         /\ it.idx \in Nat /\ it.depth \in Int /\ it.depth >= -1 /\ it.idx >= 1
         /\ it.idx <= Len(hr) => /\ it.idx \in DOMAIN hr /\ Behind = Ahead(hr, it.idx) + (it.depth + 1)
                                 /\ it.depth <= hr[it.idx].hi - hr[it.idx].lo
         /\ ~(it.idx <= Len(hr)) => Behind = Len(Hosts) /\ it.idx = Len(hr) + 1
<1>1. /\ it.idx \in Nat /\ it.depth \in Int /\ it.depth >= -1 /\ hr \in Seq(GoodRanges) 
      /\ 1 <= it.idx /\ it.idx <= Len(hr) + 1 /\ Len(hr) \in Nat
  BY IteratorIs
<1>2. Hosts \in Seq(HostNames) /\ Len(Hosts) \in Nat
  BY <1>1, NamesOfType DEF Hosts
<1>3. it.idx <= Len(hr) => it.depth <= hr[it.idx].hi - hr[it.idx].lo
  BY DEF IInv, Iterating, IteratorFits
<1>4. ASSUME it.idx <= Len(hr) PROVE it.idx \in DOMAIN hr /\ Behind = Ahead(hr, it.idx) + (it.depth + 1)
  <2>1. it.idx \in DOMAIN hr /\ ~(it.idx > Len(hr))
    BY <1>1, <1>4
  <2>2. Ahead(hr, it.idx) \in Nat
    BY <1>1, <2>1, AheadNext
  <2>3. Behind = Ahead(hr, it.idx) + it.depth + 1
    BY <2>1 DEF Behind, Ahead, Total
  <2> QED
    BY <1>1, <2>1, <2>2, <2>3
<1>5. ASSUME ~(it.idx <= Len(hr)) PROVE Behind = Len(Hosts) /\ it.idx = Len(hr) + 1
  BY <1>1, <1>5 DEF Behind
<1> QED
  BY <1>1, <1>2, <1>3, <1>4, <1>5

LEMMA AdvancedIs ==
  ASSUME IInv, IteratorNext
  PROVE  /\ it.on /\ it'.on /\ hr' = hr
         /\ it.idx > Len(hr) => it'.idx = it.idx /\ it'.depth = it.depth
         /\ it.idx <= Len(hr) /\ it.depth + 1 > hr[it.idx].hi - hr[it.idx].lo 
              => it'.idx = it.idx + 1 /\ it'.depth = 0
         /\ it.idx <= Len(hr) /\ ~(it.depth + 1 > hr[it.idx].hi - hr[it.idx].lo)
              => it'.idx = it.idx /\ it'.depth = it.depth + 1
         /\ it'.idx > Len(hr) => ret' = <<>> 
         /\ ~(it'.idx > Len(hr)) => ret' = <<NameAt(hr[it'.idx], it'.depth)>>
<1>1. /\ it.on /\ it' = Advanced /\ hr' = hr
      /\ ret' = IF it'.idx > Len(hr) THEN <<>> ELSE <<NameAt(hr[it'.idx], it'.depth)>>
  BY DEF IteratorNext
<1>2. /\ it \in Iterators /\ it.idx \in Nat /\ it.depth \in Int /\ Len(hr) \in Nat
      /\ it = [on |-> TRUE, idx |-> it.idx, depth |-> it.depth]
  BY <1>1, IteratorIs
<1>3. /\ it'.idx > Len(hr) => ret' = <<>> 
      /\ ~(it'.idx > Len(hr)) => ret' = <<NameAt(hr[it'.idx], it'.depth)>>
  BY <1>1
<1>4. CASE it.idx > Len(hr)
  <2>1. it' = it
    BY <1>1, <1>4 DEF Advanced
  <2>2. ~(it.idx <= Len(hr))
    BY <1>2, <1>4
  <2> QED
    BY <1>1, <1>3, <1>4, <2>1, <2>2
<1>5. CASE it.idx <= Len(hr) /\ it.depth + 1 > hr[it.idx].hi - hr[it.idx].lo
  <2>0. ~(it.idx > Len(hr))
    BY <1>2, <1>5
  <2>1. it' = [it EXCEPT !.idx = it.idx + 1, !.depth = 0]
    BY <1>1, <1>5, <2>0 DEF Advanced
  <2>2. it \in Iterators /\ it.on = TRUE /\ it.idx + 1 \in Int /\ 0 \in Int
    BY <1>2
  <2>3. [it EXCEPT !.idx = it.idx + 1, !.depth = 0] = [on |-> it.on, idx |-> it.idx + 1, depth |-> 0]
    BY <2>2, MovedIs, ZenonT(40)
  <2>4. it'.on /\ it'.idx = it.idx + 1 /\ it'.depth = 0
    BY <2>1, <2>2, <2>3
  <2> QED
    BY <1>1, <1>3, <1>5, <2>0, <2>4, Zenon
<1>6. CASE it.idx <= Len(hr) /\ ~(it.depth + 1 > hr[it.idx].hi - hr[it.idx].lo)
  <2>0. ~(it.idx > Len(hr))
    BY <1>2, <1>6
  <2>1. it' = [it EXCEPT !.depth = it.depth + 1]
    BY <1>1, <1>6, <2>0 DEF Advanced
  <2>2. it \in Iterators /\ it.on = TRUE /\ it.depth + 1 \in Int
    BY <1>2
  <2>3. [it EXCEPT !.depth = it.depth + 1] = [on |-> it.on, idx |-> it.idx, depth |-> it.depth + 1]
    BY <2>2, MovedIs, ZenonT(40)
  <2>4. it'.on /\ it'.idx = it.idx /\ it'.depth = it.depth + 1
    BY <2>1, <2>2, <2>3
  <2> QED
    BY <1>1, <1>3, <1>6, <2>0, <2>4, Zenon
<1> QED
  BY <1>2, <1>4, <1>5, <1>6

LEMMA IteratorNextIsLog ==
  ASSUME LogInv, IteratorNext
  PROVE  Log!Next
<1>1. IInv /\ it.on
  BY DEF LogInv, IteratorNext
<1>2. IInv'
  BY <1>1, IteratorNextKeeps
<1>3. it'.on /\ hr' = hr /\ Hosts' = Hosts
  BY <1>1, AdvancedIs DEF Hosts
<1> DEFINE i == it'.idx
<1> DEFINE d == it'.depth
<1> DEFINE j == it.idx
<1> DEFINE c == it.depth
<1>4. /\ hr \in Seq(GoodRanges) /\ Hosts \in Seq(HostNames) /\ Len(Hosts) \in Nat
      /\ j \in Nat /\ c \in Int /\ c >= -1 /\ j >= 1
      /\ j <= Len(hr) => /\ j \in DOMAIN hr /\ Behind = Ahead(hr, j) + (c + 1)
                         /\ c <= hr[j].hi - hr[j].lo
      /\ ~(j <= Len(hr)) => Behind = Len(Hosts) /\ j = Len(hr) + 1
  BY <1>1, BehindAt
<1>5. i \in Nat /\ d \in Int /\ i >= 1 /\ i <= Len(hr) + 1
  BY <1>2, <1>3 DEF IInv, Iterating, IteratorFits, Iterators
<1>6. /\ i <= Len(hr) => Behind' = Ahead(hr, i) + (d + 1)
      /\ ~(i <= Len(hr)) => Behind' = Len(Hosts)
  <2>1. Behind' = Position(hr, it')
    BY <1>3 DEF Behind, Position, Hosts
  <2> QED
    BY <1>3, <1>4, <1>5, <2>1, PositionIs DEF Hosts
<1>7. /\ j > Len(hr) => i = j /\ d = c
      /\ j <= Len(hr) /\ c + 1 > hr[j].hi - hr[j].lo => i = j + 1 /\ d = 0
      /\ j <= Len(hr) /\ ~(c + 1 > hr[j].hi - hr[j].lo) => i = j /\ d = c + 1
      /\ i > Len(hr) => ret' = <<>> 
      /\ ~(i > Len(hr)) => ret' = <<NameAt(hr[i], d)>>
  BY <1>1, AdvancedIs
<1> HIDE DEF i, d, j, c
<1>8. Len(hr) \in Nat /\ (j <= Len(hr) => hr[j].lo \in Nat /\ hr[j].hi \in Nat /\ hr[j].lo <= hr[j].hi)
  BY <1>4, RangeIs
<1>9. j <= Len(hr) => /\ Ahead(hr, j) \in Nat /\ Ahead(hr, j + 1) = Ahead(hr, j) + (hr[j].hi - hr[j].lo + 1)
                      /\ Ahead(hr, Len(hr) + 1) = Len(Hosts)
  BY <1>4, AheadNext DEF Hosts
\* The name at the new place, when there is one.
<1>10. ASSUME i <= Len(hr), d >= 0, d <= hr[i].hi - hr[i].lo
       PROVE  /\ Ahead(hr, i) \in Nat /\ Ahead(hr, i) + d + 1 <= Len(Hosts) 
              /\ Hosts[Ahead(hr, i) + d + 1] = NameAt(hr[i], d)
  <2>1. i \in DOMAIN hr /\ d \in Nat
    BY <1>4, <1>5, <1>8, <1>10
  <2> QED
    BY <1>4, <1>10, <2>1, PlaceIs DEF Hosts
<1>11. Behind >= 0
  BY <1>4, <1>8, <1>9
<1>12. IF Behind < Len(Hosts) THEN Behind' = Behind + 1 /\ ret' = <<Hosts[Behind + 1]>>
                              ELSE Behind' = Behind /\ ret' = <<>>
  <2>1. CASE j > Len(hr)
    BY <1>4, <1>6, <1>7, <1>8, <2>1
  <2>2. CASE j <= Len(hr) /\ c + 1 > hr[j].hi - hr[j].lo
    <3>1. i = j + 1 /\ d = 0 /\ c = hr[j].hi - hr[j].lo
      BY <1>4, <1>7, <1>8, <2>2
    <3>2. Behind = Ahead(hr, i)
      BY <1>4, <1>8, <1>9, <2>2, <3>1
    <3>3. CASE i > Len(hr)
      <4>1. i = Len(hr) + 1
        BY <1>5, <1>8, <3>3
      <4> QED
        BY <1>4, <1>6, <1>7, <1>8, <1>9, <2>2, <3>2, <3>3, <4>1
    <3>4. CASE i <= Len(hr)
      <4>1. d <= hr[i].hi - hr[i].lo
        BY <1>4, <1>5, <3>1, <3>4, RangeIs
      <4>2. /\ Ahead(hr, i) \in Nat /\ Ahead(hr, i) + d + 1 <= Len(Hosts) 
            /\ Hosts[Ahead(hr, i) + d + 1] = NameAt(hr[i], d)
        BY <1>10, <3>1, <3>4, <4>1
      <4>3. Ahead(hr, i) + d + 1 = Behind + 1 /\ Behind < Len(Hosts) /\ Behind' = Behind + 1
        BY <1>4, <1>6, <3>1, <3>2, <3>4, <4>2
      <4>4. ret' = <<NameAt(hr[i], d)>>
        BY <1>5, <1>7, <1>8, <3>4
      <4> QED
        BY <4>2, <4>3, <4>4
    <3> QED
      BY <1>5, <1>8, <3>3, <3>4
  <2>3. CASE j <= Len(hr) /\ ~(c + 1 > hr[j].hi - hr[j].lo)
    <3>1. i = j /\ d = c + 1 /\ d <= hr[i].hi - hr[i].lo /\ d >= 0 /\ i <= Len(hr)
      BY <1>4, <1>7, <1>8, <2>3
    <3>2. /\ Ahead(hr, i) \in Nat /\ Ahead(hr, i) + d + 1 <= Len(Hosts) 
          /\ Hosts[Ahead(hr, i) + d + 1] = NameAt(hr[i], d)
      BY <1>10, <3>1
    <3>3. Ahead(hr, i) + d + 1 = Behind + 1 /\ Behind < Len(Hosts) /\ Behind' = Behind + 1
      BY <1>4, <1>6, <3>1, <3>2
    <3>4. ret' = <<NameAt(hr[i], d)>>
      BY <1>5, <1>7, <1>8, <3>1
    <3> QED
      BY <3>2, <3>3, <3>4
  <2> QED
    BY <1>4, <1>8, <2>1, <2>2, <2>3
<1> QED
  BY <1>3, <1>11, <1>12 DEF Log!Next, Log!Advance, Log!Size

----------------------------------------------------------------------------
(* The iterator removes the host behind it. *)

LEMMA SameRanges ==
  ASSUME NEW x \in Seq(GoodRanges), NEW y \in Seq(GoodRanges), Len(x) = Len(y),
         \A i \in 1..Len(x) : x[i] = y[i]
  PROVE  x = y
BY SameList

\* The start of a list that something is put behind.
LEMMA StartIs ==
  ASSUME NEW x \in Seq(GoodRanges), NEW y \in Seq(GoodRanges), NEW m \in 1..Len(x) + 1
  PROVE  SubSeq(x \o y, 1, m - 1) = SubSeq(x, 1, m - 1)
<1> DEFINE z == x \o y
<1>1. /\ z \in Seq(GoodRanges) /\ Len(z) = Len(x) + Len(y) /\ Len(x) \in Nat /\ Len(y) \in Nat
      /\ \A i \in 1..Len(x) + Len(y) : z[i] = IF i <= Len(x) THEN x[i] ELSE y[i - Len(x)]
  BY ConcatIs
<1> HIDE DEF z
<1>2. \A i \in 1..Len(x) : z[i] = x[i]
  BY <1>1
<1>3. m - 1 \in Nat /\ m - 1 <= Len(x) /\ m - 1 <= Len(z)
  BY <1>1
<1>4. /\ SubSeq(z, 1, m - 1) \in Seq(GoodRanges) /\ Len(SubSeq(z, 1, m - 1)) = m - 1
      /\ \A i \in 1..m - 1 : SubSeq(z, 1, m - 1)[i] = z[i]
  BY <1>1, <1>3
<1>5. /\ SubSeq(x, 1, m - 1) \in Seq(GoodRanges) /\ Len(SubSeq(x, 1, m - 1)) = m - 1
      /\ \A i \in 1..m - 1 : SubSeq(x, 1, m - 1)[i] = x[i]
  BY <1>1, <1>3
<1>6. \A i \in 1..m - 1 : SubSeq(z, 1, m - 1)[i] = SubSeq(x, 1, m - 1)[i]
  BY <1>1, <1>2, <1>3, <1>4, <1>5
<1>7. SubSeq(z, 1, m - 1) = SubSeq(x, 1, m - 1)
  BY <1>4, <1>5, <1>6, SameRanges
<1> QED
  BY <1>7 DEF z

\* The ranges before the one at n stay when that one is replaced by others.
LEMMA AroundStart ==
  ASSUME NEW s \in Seq(GoodRanges), NEW n \in DOMAIN s, NEW y \in Seq(GoodRanges)
  PROVE  /\ \A m \in 1..n : Ahead(Around(s, n, y), m) = Ahead(s, m)
         /\ Len(y) >= 1 => n \in DOMAIN Around(s, n, y) /\ Around(s, n, y)[n] = y[1]
<1> DEFINE P == SubSeq(s, 1, n - 1)
           Q == SubSeq(s, n + 1, Len(s))
           u == P \o y
           t == u \o Q
<1>1. n \in 1..Len(s) /\ Len(s) \in Nat
  OBVIOUS
<1>2. P \in Seq(GoodRanges) /\ Len(P) = n - 1 /\ Q \in Seq(GoodRanges) /\ \A i \in 1..n - 1 : P[i] = s[i]
  BY <1>1
<1> HIDE DEF P, Q
<1>3. /\ u \in Seq(GoodRanges) /\ Len(u) = Len(P) + Len(y) /\ Len(y) \in Nat
      /\ \A i \in 1..Len(P) + Len(y) : u[i] = IF i <= Len(P) THEN P[i] ELSE y[i - Len(P)]
  BY <1>2, ConcatIs
<1> HIDE DEF u
<1>4. /\ t \in Seq(GoodRanges) /\ Len(t) = Len(u) + Len(Q) /\ Len(Q) \in Nat
      /\ \A i \in 1..Len(u) + Len(Q) : t[i] = IF i <= Len(u) THEN u[i] ELSE Q[i - Len(u)]
  BY <1>2, <1>3, ConcatIs
<1>5. ASSUME NEW m \in 1..n PROVE Ahead(t, m) = Ahead(s, m)
  <2>1. m \in 1..Len(u) + 1 /\ m \in 1..Len(P) + 1
    BY <1>1, <1>2, <1>3
  <2>2. SubSeq(t, 1, m - 1) = SubSeq(u, 1, m - 1)
    BY <1>2, <1>3, <2>1, StartIs
  <2>3. SubSeq(u, 1, m - 1) = SubSeq(P, 1, m - 1)
    BY <1>2, <2>1, StartIs DEF u
  <2>4. SubSeq(P, 1, m - 1) = SubSeq(s, 1, m - 1)
    <3>1. /\ SubSeq(P, 1, m - 1) \in Seq(GoodRanges) /\ Len(SubSeq(P, 1, m - 1)) = m - 1
          /\ \A i \in 1..m - 1 : SubSeq(P, 1, m - 1)[i] = P[i]
      BY <1>1, <1>2
    <3>2. /\ SubSeq(s, 1, m - 1) \in Seq(GoodRanges) /\ Len(SubSeq(s, 1, m - 1)) = m - 1
          /\ \A i \in 1..m - 1 : SubSeq(s, 1, m - 1)[i] = s[i]
      BY <1>1
    <3>3. \A i \in 1..m - 1 : SubSeq(P, 1, m - 1)[i] = SubSeq(s, 1, m - 1)[i]
      BY <1>1, <1>2, <3>1, <3>2
    <3> QED
      BY <3>1, <3>2, <3>3, SameRanges
  <2> QED
    BY <2>2, <2>3, <2>4 DEF Ahead
<1>6. ASSUME Len(y) >= 1 PROVE n \in DOMAIN t /\ t[n] = y[1]
  <2>1. Len(P) = n - 1 /\ Len(u) = Len(P) + Len(y) /\ Len(y) \in Nat /\ Len(Q) \in Nat /\ n \in Nat /\ n >= 1
    BY <1>1, <1>2, <1>3, <1>4
  <2>2. /\ n \in 1..Len(u) + Len(Q) /\ n <= Len(u) /\ n \in 1..Len(P) + Len(y) 
        /\ ~(n <= Len(P)) /\ n - Len(P) = 1
    BY ONLY <1>6, <2>1, SMTT(30)
  <2>3. t[n] = u[n] /\ u[n] = y[1]
    BY <1>3, <1>4, <2>2
  <2> QED
    BY <1>4, <2>2, <2>3
<1>7. Around(s, n, y) = t
  BY DEF Around, t, u, P, Q
<1> HIDE DEF t
<1> QED
  BY <1>5, <1>6, <1>7

\* How many names are behind the places hostlist_remove puts the iterator at.
LEMMA DeletedAhead ==
  ASSUME NEW s \in Seq(GoodRanges), NEW n \in DOMAIN s, NEW k \in Nat, s[n].lo <= k, k <= s[n].hi
  PROVE  LET t == DeleteHost(s, n, k) 
         IN  /\ t \in Seq(GoodRanges)
             /\ \A m \in 1..n : Ahead(t, m) = Ahead(s, m)
             /\ k # s[n].lo /\ k # s[n].hi => Ahead(t, n + 1) = Ahead(s, n) + (k - s[n].lo)
<1> DEFINE t == DeleteHost(s, n, k)
           r == s[n]
           q == [r EXCEPT !.hi = k - 1]
           p == [r EXCEPT !.lo = k + 1]
           y == Before(r, k) \o After(r, k)
<1>1. r \in GoodRanges /\ r.lo \in Nat /\ r.hi \in Nat /\ n \in 1..Len(s)
  BY TotalAt, GoodIs
<1>2. Before(r, k) \in Seq(GoodRanges) /\ After(r, k) \in Seq(GoodRanges)
  BY <1>1, RangeSplit
<1>3. y \in Seq(GoodRanges)
  BY <1>2, ConcatIs
<1>4. t = Around(s, n, y)
  BY DeleteHostAround
<1>5. t \in Seq(GoodRanges)
  BY DeleteHostKeeps
<1> HIDE DEF y, t
<1>6. \A m \in 1..n : Ahead(t, m) = Ahead(s, m)
  BY <1>3, <1>4, AroundStart
<1>7. ASSUME k # r.lo, k # r.hi PROVE Ahead(t, n + 1) = Ahead(s, n) + (k - r.lo)
  <2>1. y = <<q>> \o <<p>>
    BY <1>7 DEF y, Before, After
  <2>2. q.lo = r.lo /\ q.hi = k - 1
    <3>1. r \in Ranges
      BY <1>1, GoodIs
    <3> HIDE DEF r
    <3> QED
      BY <3>1 DEF Ranges
  <2> HIDE DEF q, p
  <2>3. Len(y) = 2 /\ y[1] = q
    <3>1. <<q>> \in Seq({q, p}) /\ <<p>> \in Seq({q, p}) /\ Len(<<q>>) = 1 /\ Len(<<p>>) = 1 /\ <<q>>[1] = q
      OBVIOUS
    <3>2. /\ Len(y) = Len(<<q>>) + Len(<<p>>)
          /\ \A i \in 1..Len(<<q>>) + Len(<<p>>) : y[i] = IF i <= Len(<<q>>) THEN <<q>>[i] ELSE <<p>>[i - Len(<<q>>)]
      BY <2>1, <3>1, BehindIs
    <3>3. 1 \in 1..1 + 1 /\ 1 <= 1
      OBVIOUS
    <3> QED
      BY <3>1, <3>2, <3>3
  <2>4. Len(y) >= 1
    BY <2>3
  <2>5. n \in DOMAIN t /\ t[n] = q
    BY <1>3, <1>4, <2>3, <2>4, AroundStart
  <2>6. n \in 1..n
    BY <1>1
  <2>7. Ahead(t, n) = Ahead(s, n)
    BY <1>6, <2>6
  <2>8. Ahead(t, n) \in Nat /\ Ahead(t, n + 1) = Ahead(t, n) + (t[n].hi - t[n].lo + 1)
    BY <1>5, <2>5, AheadNext
  <2>9. t[n].hi - t[n].lo + 1 = k - r.lo
    BY <1>1, <2>2, <2>5
  <2> QED
    BY <2>7, <2>8, <2>9
<1> QED
  BY <1>5, <1>6, <1>7 DEF t

\* Where hostlist_remove finds the iterator, and where it leaves it.
LEMMA RemovedIs ==
  ASSUME IInv, IteratorRemove
  PROVE  LET n == it.idx
             r == hr[n]
             k == r.lo + it.depth
         IN  /\ n \in DOMAIN hr /\ hr \in Seq(GoodRanges) /\ r \in GoodRanges /\ it.depth \in Nat
             /\ k \in Nat /\ r.lo <= k /\ k <= r.hi /\ k - r.lo = it.depth /\ it.on /\ ret # <<>> /\ ret' = <<>>
             /\ hr' = DeleteHost(hr, n, k)
             /\ it' = IF r.lo = r.hi
                      THEN IF n = 1 THEN [on |-> TRUE, idx |-> n, depth |-> -1] 
                           ELSE [on |-> TRUE, idx |-> n - 1, depth |-> it.depth]
                      ELSE IF k = r.lo \/ k = r.hi THEN [on |-> TRUE, idx |-> n, depth |-> it.depth - 1]
                      ELSE [on |-> TRUE, idx |-> n + 1, depth |-> -1]
<1>1. /\ it \in Iterators /\ it.idx \in Nat /\ it.depth \in Int /\ it.on /\ hr \in Seq(GoodRanges)
      /\ 1 <= it.idx /\ it.idx <= Len(hr) + 1 /\ Len(hr) \in Nat
      /\ it = [on |-> TRUE, idx |-> it.idx, depth |-> it.depth]
  BY IteratorIs DEF IteratorRemove
<1> DEFINE n == it.idx
<1> DEFINE r == hr[n]
<1> DEFINE k == r.lo + it.depth
<1>2. n <= Len(hr) /\ it.depth >= 0 /\ it.depth <= r.hi - r.lo
  BY DEF IInv, Iterating, IteratorFits, IteratorRemove
<1>3. n \in DOMAIN hr /\ r \in GoodRanges /\ r.lo \in Nat /\ r.hi \in Nat /\ r.lo <= r.hi
  BY <1>1, <1>2, RangeIs
<1>4. k \in Nat /\ r.lo <= k /\ k <= r.hi /\ k - r.lo = it.depth /\ it.depth \in Nat
  BY <1>1, <1>2, <1>3
<1>5. hr' = DeleteHost(hr, n, k) /\ it' = StepBack(k) /\ ret # <<>> /\ ret' = <<>>
  BY DEF IteratorRemove
<1>6. it' = IF r.lo = r.hi 
            THEN IF n = 1 THEN [it EXCEPT !.depth = -1] ELSE [it EXCEPT !.idx = n - 1]
            ELSE IF k = r.lo \/ k = r.hi THEN [it EXCEPT !.depth = it.depth - 1]
            ELSE [it EXCEPT !.idx = n + 1, !.depth = -1]
  BY <1>5 DEF StepBack
<1>7. /\ [it EXCEPT !.depth = -1] = [on |-> TRUE, idx |-> n, depth |-> -1]
      /\ [it EXCEPT !.idx = n - 1] = [on |-> TRUE, idx |-> n - 1, depth |-> it.depth]
      /\ [it EXCEPT !.depth = it.depth - 1] = [on |-> TRUE, idx |-> n, depth |-> it.depth - 1]
      /\ [it EXCEPT !.idx = n + 1, !.depth = -1] = [on |-> TRUE, idx |-> n + 1, depth |-> -1]
  <2>1. it \in Iterators /\ it.on = TRUE
    BY <1>1 DEF Iterators
  <2>2. n \in Int /\ n - 1 \in Int /\ n + 1 \in Int /\ it.depth - 1 \in Int /\ -1 \in Int
    BY <1>1
  <2>3. [it EXCEPT !.depth = -1] = [on |-> it.on, idx |-> n, depth |-> -1]
    BY <2>1, <2>2, MovedIs, ZenonT(40)
  <2>4. [it EXCEPT !.idx = n - 1] = [on |-> it.on, idx |-> n - 1, depth |-> it.depth]
    BY <2>1, <2>2, MovedIs, ZenonT(40)
  <2>5. [it EXCEPT !.depth = it.depth - 1] = [on |-> it.on, idx |-> n, depth |-> it.depth - 1]
    BY <2>1, <2>2, MovedIs, ZenonT(40)
  <2>6. [it EXCEPT !.idx = n + 1, !.depth = -1] = [on |-> it.on, idx |-> n + 1, depth |-> -1]
    BY <2>1, <2>2, MovedIs, ZenonT(40)
  <2> QED
    BY <2>1, <2>3, <2>4, <2>5, <2>6, Zenon
<1>8. it' = IF r.lo = r.hi
            THEN IF n = 1 THEN [on |-> TRUE, idx |-> n, depth |-> -1] 
                 ELSE [on |-> TRUE, idx |-> n - 1, depth |-> it.depth]
            ELSE IF k = r.lo \/ k = r.hi THEN [on |-> TRUE, idx |-> n, depth |-> it.depth - 1]
            ELSE [on |-> TRUE, idx |-> n + 1, depth |-> -1]
  <2> HIDE DEF k, r, n
  <2> QED
    BY <1>6, <1>7, Zenon
<1> QED
  BY <1>1, <1>3, <1>4, <1>5, <1>8, Zenon

LEMMA IteratorRemoveIsLog ==
  ASSUME LogInv, IteratorRemove
  PROVE  Log!Next
<1> DEFINE n == it.idx
<1> DEFINE r == hr[n]
<1> DEFINE c == it.depth
<1> DEFINE k == r.lo + c
<1> DEFINE t == DeleteHost(hr, n, k)
<1>1. IInv
  BY DEF LogInv
<1>2. /\ n \in DOMAIN hr /\ hr \in Seq(GoodRanges) /\ r \in GoodRanges /\ c \in Nat
      /\ k \in Nat /\ r.lo <= k /\ k <= r.hi /\ k - r.lo = c /\ it.on /\ ret # <<>> /\ ret' = <<>>
      /\ hr' = t
      /\ it' = IF r.lo = r.hi
               THEN IF n = 1 THEN [on |-> TRUE, idx |-> n, depth |-> -1] 
                    ELSE [on |-> TRUE, idx |-> n - 1, depth |-> c]
               ELSE IF k = r.lo \/ k = r.hi THEN [on |-> TRUE, idx |-> n, depth |-> c - 1]
               ELSE [on |-> TRUE, idx |-> n + 1, depth |-> -1]
  BY <1>1, RemovedIs
<1>3. IInv'
  BY <1>1, IteratorRemoveKeeps
<1>4. ret = <<NameAt(r, c)>>
  BY <1>2 DEF LogInv, Seen
<1>5. /\ n \in Nat /\ n >= 1 /\ n <= Len(hr) /\ Len(hr) \in Nat /\ Ahead(hr, n) \in Nat
      /\ r.lo \in Nat /\ r.hi \in Nat
  <2> HIDE DEF r, k, t, c
  <2>1. r.lo \in Nat /\ r.hi \in Nat
    BY <1>2, GoodIs
  <2>2. Ahead(hr, n) \in Nat
    BY <1>2, AheadNext
  <2> QED
    BY <1>2, <2>1, <2>2
<1>6. Behind = Ahead(hr, n) + (c + 1)
  BY <1>1, <1>2, <1>5, BehindAt
<1> HIDE DEF k
<1>7. PICK x, y \in Seq(HostNames) :
        /\ NameAt(hr[n], k - hr[n].lo) \in HostNames
        /\ NamesOf(hr) = Between(x, NameAt(hr[n], k - hr[n].lo), y)
        /\ NamesOf(DeleteHost(hr, n, k)) = x \o y
        /\ Len(x) = Total(SubSeq(hr, 1, n - 1)) + (k - hr[n].lo)
  BY <1>2, DeleteHostNames
<1> DEFINE e == NameAt(r, c)
<1>8. /\ x \in Seq(HostNames) /\ y \in Seq(HostNames) /\ e \in HostNames
      /\ Hosts = Between(x, e, y) /\ Hosts' = x \o y /\ Len(x) + 1 = Behind
  <2>1. /\ x \in Seq(HostNames) /\ y \in Seq(HostNames) /\ e \in HostNames
        /\ NamesOf(hr) = Between(x, e, y) /\ NamesOf(t) = x \o y /\ Len(x) = Ahead(hr, n) + c
    BY <1>2, <1>7 DEF Ahead
  <2> HIDE DEF e, t
  <2> QED
    BY <1>2, <1>5, <1>6, <2>1 DEF Hosts
<1> HIDE DEF e, t
<1>9. Hosts[Behind] = e /\ Len(Hosts) \in Nat
  <2>1. IsBetween(Between(x, e, y), x, e, y)
    BY <1>8, BetweenIs, Zenon
  <2> QED
    BY <1>8, <2>1 DEF IsBetween
<1>10. Hosts' = RemoveAt(Hosts, Behind)
  BY <1>8, BetweenGone
<1>11. /\ t \in Seq(GoodRanges)
       /\ \A m \in 1..n : Ahead(t, m) = Ahead(hr, m)
       /\ k # r.lo /\ k # r.hi => Ahead(t, n + 1) = Ahead(hr, n) + (k - r.lo)
  BY <1>2, DeletedAhead DEF t
<1>12. /\ k = r.lo /\ r.lo = r.hi => Len(t) = Len(hr) - 1 
       /\ (k = r.lo \/ k = r.hi) /\ r.lo # r.hi => Len(t) = Len(hr)
       /\ k # r.lo /\ k # r.hi => Len(t) = Len(hr) + 1
  BY <1>2, DeletedIs DEF t
<1>13. Behind' = Position(t, it')
  BY <1>2 DEF Behind, Position, Hosts
<1>14. it'.on /\ it'.idx \in Nat /\ it'.depth \in Int /\ it'.idx >= 1 /\ it'.idx <= Len(t) + 1
  <2>1. it'.on
    BY <1>2
  <2> QED
    BY <1>2, <1>3, <2>1 DEF IInv, Iterating, IteratorFits, Iterators
<1>15. /\ it'.idx <= Len(t) => Behind' = Ahead(t, it'.idx) + (it'.depth + 1)
       /\ ~(it'.idx <= Len(t)) => Behind' = Len(NamesOf(t)) /\ it'.idx = Len(t) + 1
  BY <1>11, <1>13, <1>14, PositionIs
<1>16. Behind' \in 0..Behind - 1
  <2>0. Len(t) \in Nat /\ n \in 1..n /\ 0 <= Ahead(hr, n) /\ 0 <= c
    BY <1>2, <1>5, <1>11
  <2>a. ASSUME NEW b \in Nat, b <= Ahead(hr, n) + c, Behind' = b PROVE Behind' \in 0..Behind - 1
    <3>1. c \in Nat
      BY <1>2
    <3>2. Ahead(hr, n) \in Nat /\ Behind = Ahead(hr, n) + (c + 1)
      BY <1>5, <1>6
    <3> HIDE DEF c
    <3>3. b \in 0..Behind - 1
      BY <2>a, <3>1, <3>2
    <3> QED
      BY <2>a, <3>3
  <2>b. Ahead(hr, n) \in Nat /\ c \in Nat /\ Ahead(hr, n) + c \in Nat
    BY <1>2, <1>5
  <2>1. CASE r.lo = r.hi /\ n = 1
    <3>1. it'.idx = 1 /\ it'.depth = -1
      BY <1>2, <2>1
    <3>2. CASE 1 <= Len(t)
      <4>1. Behind' = Ahead(t, 1) + (-1 + 1) /\ Ahead(t, 1) = Ahead(hr, n)
        BY <1>11, <1>15, <2>0, <2>1, <3>1, <3>2
      <4>2. Behind' = Ahead(hr, n)
        BY <2>b, <4>1
      <4> QED
        BY <2>a, <2>b, <4>2
    <3>3. CASE ~(1 <= Len(t))
      <4>1. t = <<>>
        BY <1>11, <2>0, <3>3
      <4>2. Behind' = 0
        BY <1>15, <3>1, <3>3, <4>1, TotalNone DEF Total
      <4> QED
        BY <2>a, <2>b, <4>2
    <3> QED
      BY <3>2, <3>3
  <2>2. CASE r.lo = r.hi /\ n # 1
    <3>1. it'.idx = n - 1 /\ it'.depth = c
      BY <1>2, <2>2
    <3>2. k = r.lo /\ c = 0
      BY <1>2, <1>5, <2>2
    <3>3. n - 1 \in DOMAIN hr /\ n - 1 \in 1..n /\ n - 1 <= Len(t) /\ (n - 1) + 1 = n
      BY <1>2, <1>5, <1>12, <2>2, <3>2
    <3>4. /\ Ahead(hr, n - 1) \in Nat 
          /\ Ahead(hr, (n - 1) + 1) = Ahead(hr, n - 1) + (hr[n - 1].hi - hr[n - 1].lo + 1)
      BY <1>2, <3>3, AheadNext
    <3>5. hr[n - 1].lo \in Nat /\ hr[n - 1].hi \in Nat /\ hr[n - 1].lo <= hr[n - 1].hi
      <4>1. hr \in Seq(GoodRanges) /\ n - 1 \in Nat /\ 1 <= n - 1 /\ n - 1 <= Len(hr)
        BY <1>2, <1>5, <3>3
      <4> QED
        BY <4>1, RangeIs
    <3>6. Ahead(hr, n) >= Ahead(hr, n - 1) + 1
      BY <3>3, <3>4, <3>5
    <3>7. Behind' = Ahead(hr, n - 1) + (0 + 1)
      BY <1>11, <1>15, <3>1, <3>2, <3>3
    <3>8. Ahead(hr, n - 1) + 1 \in Nat /\ Ahead(hr, n - 1) + 1 <= Ahead(hr, n) + c
      BY <2>b, <3>4, <3>6
    <3>9. Behind' = Ahead(hr, n - 1) + 1
      BY <3>7
    <3> QED
      BY <2>a, <3>8, <3>9
  <2>3. CASE r.lo # r.hi /\ (k = r.lo \/ k = r.hi)
    <3>1. it'.idx = n /\ it'.depth = c - 1 /\ n <= Len(t)
      BY <1>2, <1>5, <1>12, <2>3
    <3>2. Behind' = Ahead(hr, n) + (c - 1 + 1)
      BY <1>11, <1>15, <2>0, <3>1
    <3>3. Behind' = Ahead(hr, n) + c
      BY <2>b, <3>2
    <3> QED
      BY <2>a, <2>b, <3>3
  <2>4. CASE k # r.lo /\ k # r.hi
    <3>1. r.lo # r.hi
      BY <1>2, <1>5, <2>4
    <3>2. it'.idx = n + 1 /\ it'.depth = -1 /\ n + 1 <= Len(t)
      BY <1>2, <1>5, <1>12, <2>4, <3>1
    <3>3. Behind' = Ahead(t, n + 1) + (-1 + 1) /\ Ahead(t, n + 1) = Ahead(hr, n) + c
      BY <1>2, <1>11, <1>15, <2>4, <3>2
    <3>4. Behind' = Ahead(hr, n) + c
      BY <2>b, <3>3
    <3> QED
      BY <2>a, <2>b, <3>4
  <2> QED
    BY <1>2, <1>5, <2>1, <2>2, <2>3, <2>4
<1>17. Log!RemoveAt(Hosts, Behind) = RemoveAt(Hosts, Behind)
  BY DEF Log!RemoveAt, RemoveAt
<1> QED
  BY <1>2, <1>4, <1>5, <1>6, <1>9, <1>10, <1>16, <1>17 DEF Log!Next, Log!RemoveLast, e

----------------------------------------------------------------------------
(* A name is in a range exactly when the range has its number. *)

\* A number in two parts, as / and % of C split it.
LEMMA PartsAre ==
  ASSUME NEW P \in Nat, P > 0, NEW a \in Nat
  PROVE  /\ a \div P \in Nat /\ a % P \in Nat /\ a % P < P /\ a = (a \div P) * P + (a % P)
         /\ \A q, n \in Nat : a = q * P + n /\ n < P => a \div P = q /\ a % P = n
<1>1. a \div P \in Nat /\ a % P \in Nat /\ a % P < P
  OBVIOUS
<1>2. a = (a \div P) * P + (a % P)
  OBVIOUS
<1>3. ASSUME NEW q \in Nat, NEW n \in Nat, a = q * P + n, n < P PROVE a \div P = q /\ a % P = n
  <2>1. \A x, y \in Nat : x < y => y * P >= x * P + P
    <3>1. \A x, e \in Nat : (x + 1 + e) * P = x * P + P + e * P /\ e * P >= 0
      OBVIOUS
    <3>2. \A x, y \in Nat : x < y => y - x - 1 \in Nat /\ x + 1 + (y - x - 1) = y
      OBVIOUS
    <3>3. \A x \in Nat : x * P \in Nat
      OBVIOUS
    <3> QED
      BY <3>1, <3>2, <3>3
  <2> DEFINE d == a \div P
             m == a % P
             u == d * P
             v == q * P
  <2>2. d \in Nat /\ m \in Nat /\ m < P /\ u \in Nat /\ v \in Nat /\ u + m = v + n
    BY <1>1, <1>2, <1>3
  <2>3. /\ d < q => v >= u + P
        /\ q < d => u >= v + P
    BY <2>1, <2>2
  <2> HIDE DEF d, m, u, v
  <2>4. d = q
    BY <1>3, <2>2, <2>3
  <2>5. u = v
    BY <2>4 DEF u, v
  <2>6. m = n
    BY <2>2, <2>5
  <2> QED
    BY <2>4, <2>6 DEF d, m
<1> QED
  BY <1>1, <1>2, <1>3

\* The name that a prefix and a number make, part by part.
LEMMA NumberedParts ==
  ASSUME NEW r \in GoodRanges, ~r.singlehost, NEW n \in Nat
  PROVE  LET x == Numbered(r, n)
             W == Width(n, r.width)
         IN  /\ x \in HostNames /\ x.stem = r.prefix.stem /\ x.tail = r.prefix.tail
             /\ x.len = r.prefix.len + W /\ x.val = r.prefix.val * Power[W] + n
             /\ W \in Nat /\ W >= 1 /\ n < Power[W] /\ Power[W] \in Nat 
             /\ r.prefix.len \in Nat /\ r.prefix.val \in Nat
<1> DEFINE p == r.prefix
           W == Width(n, r.width)
           x == Numbered(r, n)
<1>1. p \in HostNames /\ r.width \in Nat
  BY GoodIs
<1>2. W \in Nat /\ W >= 1 /\ n < Power[W]
  BY <1>1, WidthIs
<1>3. Power[W] \in Nat
  BY <1>2, PowerIs
<1>4. x = [p EXCEPT !.val = p.val * Power[W] + n, !.len = p.len + W]
  BY DEF Numbered, Format, Width
<1>5. x \in HostNames
  BY <1>1, FormatIs DEF Numbered
<1> HIDE DEF p, W, x
<1>6. x.stem = p.stem /\ x.tail = p.tail /\ x.len = p.len + W /\ x.val = p.val * Power[W] + n
      /\ p.len \in Nat /\ p.val \in Nat
  BY <1>1, <1>4 DEF HostNames
<1> QED
  BY <1>2, <1>3, <1>5, <1>6 DEF p, W, x

\* The name is one of the range's, whether or not hostlist_find gets it there.
Has(r, name) ==
  IF r.singlehost THEN r.prefix = name
  ELSE /\ name.len > 0 /\ NoTail(name) /\ r.prefix.stem = name.stem 
       /\ Rest(name, r.prefix) > 0
       /\ name.val \div Power[Rest(name, r.prefix)] = r.prefix.val
       /\ Number(name, r.prefix) \in r.lo..r.hi 
       /\ WidthEquiv(r.lo, r.width, Number(name, r.prefix), Rest(name, r.prefix))

\* It does unless the number is too large.
LEMMA WithinHas ==
  ASSUME NEW r, NEW x \in HostNames
  PROVE  /\ Within(r, x) => Has(r, x)
         /\ Has(r, x) /\ x \notin TooLarge => Within(r, x)
<1>1. CASE r.singlehost
  BY <1>1 DEF Has, Within
<1>2. CASE ~r.singlehost
  <2>1. x \notin TooLarge /\ x.len > 0 /\ NoTail(x) => x.val <= MaxSuffix
    <3>1. x.val \in Nat
      BY DEF HostNames
    <3> QED
      BY <3>1, HostlistAssumption DEF TooLarge
  <2> QED
    BY <1>2, <2>1 DEF Has, Within, HasSuffix
<1> QED
  BY <1>1, <1>2

\* A range has the names its numbers make, and each under one number.
LEMMA NumberedWithin ==
  ASSUME NEW r \in GoodRanges, ~r.singlehost, NEW n \in Nat, r.lo <= n, n <= r.hi
  PROVE  Has(r, Numbered(r, n)) /\ Number(Numbered(r, n), r.prefix) = n
<1> DEFINE p == r.prefix
           W == Width(n, r.width)
           x == Numbered(r, n)
<1>1. /\ x \in HostNames /\ x.stem = p.stem /\ x.tail = p.tail
      /\ x.len = p.len + W /\ x.val = p.val * Power[W] + n
      /\ W \in Nat /\ W >= 1 /\ n < Power[W] /\ Power[W] \in Nat 
      /\ p.len \in Nat /\ p.val \in Nat
  BY NumberedParts
<1>2. r.lo \in Nat /\ r.hi \in Nat /\ r.width \in Nat /\ NoTail(p)
  BY GoodIs
<1> DEFINE D == NumDigits(n)
<1>3. D \in Nat /\ W = IF r.width > D THEN r.width ELSE D
  BY <1>2, WidthIs
<1>4. Fits(n, W, r.width)
  <2>1. W = r.width \/ (W <= D /\ r.width <= D)
    <3> HIDE DEF W, D
    <3> QED
      BY <1>2, <1>3
  <2> QED
    BY <2>1 DEF Fits
<1>5. ZeroPadded(n, W) = ZeroPadded(n, r.width)
  BY <1>1, <1>2, <1>4, FitsIs
<1> HIDE DEF p, W, x, D
<1>6. Rest(x, p) = W
  BY <1>1 DEF Rest
<1>7. x.val \in Nat /\ Power[W] > 0
  BY <1>1 DEF HostNames
<1>8. x.val \div Power[W] = p.val /\ x.val % Power[W] = n
  <2> DEFINE P == Power[W]
             a == x.val
  <2>1. P \in Nat /\ P > 0 /\ a \in Nat
    BY <1>1, <1>7
  <2>2. p.val \in Nat /\ n \in Nat /\ a = p.val * P + n /\ n < P
    BY <1>1
  <2> HIDE DEF P, a
  <2>3. \A q, m \in Nat : a = q * P + m /\ m < P => a \div P = q /\ a % P = m
    BY <2>1, PartsAre
  <2>4. a \div P = p.val /\ a % P = n
    BY <2>2, <2>3, Zenon
  <2> QED
    BY <2>4 DEF P, a
<1>9. Number(x, p) = n
  BY <1>6, <1>8 DEF Number
<1>10. x.len > 0 /\ NoTail(x)
  <2>1. x.len > 0
    BY <1>1
  <2>2. NoTail(x)
    BY <1>1, <1>2 DEF NoTail
  <2> QED
    BY <2>1, <2>2
<1>11. WidthEquiv(r.lo, r.width, n, W)
  BY <1>5 DEF WidthEquiv
<1>12. n \in r.lo..r.hi /\ W > 0
  BY <1>1, <1>2
<1>13. Has(r, x)
  BY <1>1, <1>6, <1>8, <1>9, <1>10, <1>11, <1>12 DEF Has, p
<1> QED
  BY <1>9, <1>13 DEF p, x

LEMMA WithinNumbered ==
  ASSUME NEW r \in GoodRanges, ~r.singlehost, NEW x \in HostNames, Has(r, x)
  PROVE  /\ Number(x, r.prefix) \in Nat /\ r.lo <= Number(x, r.prefix) /\ Number(x, r.prefix) <= r.hi
         /\ Numbered(r, Number(x, r.prefix)) = x
<1> DEFINE p == r.prefix
           R == Rest(x, p)
           n == Number(x, p)
           W == Width(n, r.width)
           D == NumDigits(n)
<1>1. p \in HostNames /\ r.lo \in Nat /\ r.hi \in Nat /\ r.width \in Nat /\ NoTail(p)
  BY GoodIs
<1>2. /\ NoTail(x) /\ p.stem = x.stem /\ R > 0 /\ x.val \div Power[R] = p.val /\ n \in r.lo..r.hi 
      /\ WidthEquiv(r.lo, r.width, n, R)
  BY DEF Has
<1>3. /\ p.len \in Nat /\ p.val \in Nat /\ x.len \in Nat /\ x.val \in Nat
  BY <1>1 DEF HostNames
<1>4. R \in Nat /\ R >= 1 /\ R = x.len - p.len
  <2>1. R = x.len - p.len
    BY DEF Rest
  <2> HIDE DEF R
  <2> QED
    BY <1>2, <1>3, <2>1
<1>5. n = x.val % Power[R]
  BY DEF Number
<1> HIDE DEF p, R, n
<1>6. n \in Nat /\ r.lo <= n /\ n <= r.hi
  BY <1>1, <1>2
<1>7. Power[R] \in Nat /\ Power[R] > 0
  BY <1>4, PowerExceeds
<1>8. x.val = p.val * Power[R] + n /\ n < Power[R]
  BY <1>2, <1>3, <1>5, <1>7, PartsAre
<1>9. D \in Nat /\ D <= R /\ W = IF r.width > D THEN r.width ELSE D
  BY <1>1, <1>4, <1>6, <1>8, DigitsLeast, WidthIs
<1>10. Fits(n, r.width, R)
  <2>1. ZeroPadded(r.lo, r.width) = ZeroPadded(r.lo, R) => Fits(r.lo, r.width, R)
    BY <1>1, <1>4, FitsIs
  <2>2. Fits(r.lo, r.width, R) => Fits(n, r.width, R)
    BY <1>1, <1>4, <1>6, FitsLater
  <2>3. ZeroPadded(n, R) = ZeroPadded(n, r.width) => Fits(n, r.width, R)
    BY <1>1, <1>4, <1>6, FitsIs
  <2>4. ZeroPadded(r.lo, r.width) = ZeroPadded(r.lo, R) \/ ZeroPadded(n, R) = ZeroPadded(n, r.width)
    BY <1>2 DEF WidthEquiv
  <2> QED
    BY <2>1, <2>2, <2>3, <2>4
<1>11. W = R
  <2>1. r.width = R \/ (r.width <= D /\ R <= D)
    BY <1>10 DEF Fits
  <2> HIDE DEF W, D
  <2> QED
    BY <1>1, <1>4, <1>9, <2>1
<1>12. Numbered(r, n) = [p EXCEPT !.val = x.val, !.len = x.len]
  <2>1. Numbered(r, n) = [p EXCEPT !.val = p.val * Power[W] + n, !.len = p.len + W]
    BY DEF Numbered, Format, Width, p
  <2>2. p.len + R = x.len
    BY <1>3, <1>4
  <2> QED
    BY <1>8, <1>11, <2>1, <2>2
<1>13. p.tail = x.tail
  BY <1>1, <1>2 DEF NoTail
<1>14. [p EXCEPT !.val = x.val, !.len = x.len] = x
  BY <1>1, <1>2, <1>3, <1>13 DEF HostNames
<1> QED
  BY <1>6, <1>12, <1>14 DEF n, p

Absent(z, x) == \A i \in 1..Len(z) : z[i] # x

LEMMA AbsentPut ==
  ASSUME NEW y \in Seq(HostNames), NEW z \in Seq(HostNames), NEW x
  PROVE  Absent(y \o z, x) <=> Absent(y, x) /\ Absent(z, x)
<1> DEFINE u == y \o z
<1>1. /\ u \in Seq(HostNames) /\ Len(u) = Len(y) + Len(z) /\ Len(y) \in Nat /\ Len(z) \in Nat
      /\ \A i \in 1..Len(y) + Len(z) : u[i] = IF i <= Len(y) THEN y[i] ELSE z[i - Len(y)]
  BY PutIs
<1> HIDE DEF u
<1>2. ASSUME Absent(y, x), Absent(z, x) PROVE Absent(u, x)
  <2>1. SUFFICES ASSUME NEW i \in 1..Len(u) PROVE u[i] # x
    BY DEF Absent
  <2>2. CASE i <= Len(y)
    <3>1. i \in 1..Len(y) /\ u[i] = y[i]
      BY <1>1, <2>2
    <3> QED
      BY <1>2, <3>1 DEF Absent
  <2>3. CASE ~(i <= Len(y))
    <3>1. i - Len(y) \in 1..Len(z) /\ u[i] = z[i - Len(y)]
      BY <1>1, <2>3
    <3> QED
      BY <1>2, <3>1 DEF Absent
  <2> QED
    BY <2>2, <2>3
<1>3. ASSUME Absent(u, x) PROVE Absent(y, x) /\ Absent(z, x)
  <2>1. ASSUME NEW i \in 1..Len(y) PROVE y[i] # x
    <3>1. i \in 1..Len(u) /\ u[i] = y[i]
      BY <1>1
    <3> QED
      BY <1>3, <3>1 DEF Absent
  <2>2. ASSUME NEW i \in 1..Len(z) PROVE z[i] # x
    <3>1. Len(y) + i \in 1..Len(u) /\ ~(Len(y) + i <= Len(y)) /\ (Len(y) + i) - Len(y) = i
      BY <1>1
    <3>2. u[Len(y) + i] = z[i]
      BY <1>1, <3>1
    <3> QED
      BY <1>3, <3>1, <3>2 DEF Absent
  <2> QED
    BY <2>1, <2>2 DEF Absent
<1> QED
  BY <1>2, <1>3 DEF u

LEMMA NoneAbsent == ASSUME NEW x PROVE Absent(<<>>, x)
BY DEF Absent

\* The number under which hostlist_find has a name in a range.
Place(r, x) == IF r.singlehost THEN 0 ELSE Number(x, r.prefix)

LEMMA FoundIs ==
  ASSUME NEW r \in GoodRanges, NEW x \in HostNames, Has(r, x)
  PROVE  /\ Place(r, x) \in Nat /\ r.lo <= Place(r, x) /\ Place(r, x) <= r.hi
         /\ NameAt(r, Place(r, x) - r.lo) = x
         /\ Absent(NamesOf(Before(r, Place(r, x))), x)
<1>1. /\ r.lo \in Nat /\ r.hi \in Nat /\ r.lo <= r.hi /\ r.singlehost \in BOOLEAN
      /\ (r.singlehost => r.lo = 0 /\ r.hi = 0)
  BY GoodIs
<1>2. CASE r.singlehost
  <2>1. r.prefix = x /\ Place(r, x) = 0 /\ r.lo = 0 /\ r.hi = 0
    BY <1>1, <1>2 DEF Has, Place
  <2>2. NameAt(r, Place(r, x) - r.lo) = x
    BY <1>2, <2>1 DEF NameAt
  <2>3. Before(r, Place(r, x)) = <<>>
    BY <2>1 DEF Before
  <2> QED
    BY <2>1, <2>2, <2>3, NamesOfNone, NoneAbsent
<1>3. CASE ~r.singlehost
  <2> DEFINE k == Number(x, r.prefix)
  <2>1. k \in Nat /\ r.lo <= k /\ k <= r.hi /\ Numbered(r, k) = x
    BY <1>3, WithinNumbered
  <2>2. Place(r, x) = k
    BY <1>3 DEF Place
  <2> HIDE DEF k
  <2>3. NameAt(r, k - r.lo) = x
    <3>1. k - r.lo \in Int /\ 0 <= k - r.lo /\ r.lo + (k - r.lo) = k
      BY <1>1, <2>1
    <3> QED
      BY <1>3, <2>1, <3>1, NumberedIs
  <2>4. Absent(NamesOf(Before(r, k)), x)
    <3>1. PICK z \in Seq(HostNames) :
            /\ Before(r, k) \in Seq(GoodRanges) /\ z = NamesOf(Before(r, k)) /\ Len(z) = k - r.lo
            /\ \A i \in 1..k - r.lo : z[i] = Numbered(r, r.lo + (i - 1))
      BY <2>1, BeforeIs
    <3>2. SUFFICES ASSUME NEW i \in 1..k - r.lo, z[i] = x PROVE FALSE
      BY <3>1 DEF Absent
    <3> DEFINE n == r.lo + (i - 1)
    <3>3. n \in Nat /\ r.lo <= n /\ n <= r.hi /\ n # k
      BY <1>1, <2>1
    <3>4. Numbered(r, n) = x
      BY <3>1, <3>2
    <3> HIDE DEF n
    <3>5. Number(x, r.prefix) = n
      BY <1>3, <3>3, <3>4, NumberedWithin
    <3> QED
      BY <3>3, <3>5 DEF k
  <2> QED
    BY <2>1, <2>2, <2>3, <2>4
<1> QED
  BY <1>1, <1>2, <1>3

LEMMA NotFoundIs ==
  ASSUME NEW r \in GoodRanges, NEW x \in HostNames, ~Has(r, x)
  PROVE  Absent(NamesIn(r), x)
<1>1. /\ r.lo \in Nat /\ r.hi \in Nat /\ r.lo <= r.hi /\ r.singlehost \in BOOLEAN
      /\ (r.singlehost => r.lo = 0 /\ r.hi = 0) /\ Count(r) = r.hi - r.lo + 1
  BY GoodIs
<1>2. CASE r.singlehost
  <2>1. r.prefix # x
    BY <1>2 DEF Has
  <2>2. Len(NamesIn(r)) = 1 /\ \A k \in 1..1 : NamesIn(r)[k] = NameAt(r, k - 1)
    <3>1. Count(r) = 1
      BY <1>1, <1>2
    <3> QED
      BY <3>1, NamesInIs
  <2>3. \A k : NameAt(r, k) = r.prefix
    BY <1>2 DEF NameAt
  <2> QED
    BY <2>1, <2>2, <2>3 DEF Absent
<1>3. CASE ~r.singlehost
  <2>1. /\ Len(NamesIn(r)) = r.hi - r.lo + 1
        /\ \A k \in 1..r.hi - r.lo + 1 : NamesIn(r)[k] = Numbered(r, r.lo + (k - 1))
    BY <1>3, NumbersIs
  <2>2. SUFFICES ASSUME NEW k \in 1..r.hi - r.lo + 1 PROVE Numbered(r, r.lo + (k - 1)) # x
    BY <2>1 DEF Absent
  <2>3. r.lo + (k - 1) \in Nat /\ r.lo <= r.lo + (k - 1) /\ r.lo + (k - 1) <= r.hi
    BY <1>1
  <2> QED
    BY <1>3, <2>3, NumberedWithin
<1> QED
  BY <1>1, <1>2, <1>3

\* Where no range has a name, the names of those ranges are other ones.
LEMMA NoneFound ==
  ASSUME NEW s \in Seq(GoodRanges), NEW x \in HostNames, NEW m \in 0..Len(s),
         \A n \in 1..m : ~Has(s[n], x)
  PROVE  Absent(NamesOf(SubSeq(s, 1, m)), x)
<1> DEFINE B == {n \in 0..m : Absent(NamesOf(SubSeq(s, 1, n)), x)}
<1>1. m \in Nat /\ Len(s) \in Nat
  OBVIOUS
<1>2. 0 \in B
  <2>1. SubSeq(s, 1, 0) = <<>>
    OBVIOUS
  <2>2. NamesOf(SubSeq(s, 1, 0)) = <<>>
    BY <2>1, NamesOfNone
  <2>3. Absent(NamesOf(SubSeq(s, 1, 0)), x)
    BY <2>2, NoneAbsent
  <2>4. 0 \in 0..m
    BY <1>1
  <2> QED
    BY <2>3, <2>4
<1>3. ASSUME NEW k \in 1..m, k - 1 \in B PROVE k \in B
  <2>1. k \in 1..Len(s) /\ k \in 0..m
    BY <1>1
  <2>2. /\ s[k] \in GoodRanges /\ NamesIn(s[k]) \in Seq(HostNames)
        /\ NamesOf(SubSeq(s, 1, k - 1)) \in Seq(HostNames)
        /\ NamesOf(SubSeq(s, 1, k)) = NamesOf(SubSeq(s, 1, k - 1)) \o NamesIn(s[k])
    BY <2>1, NamesOfNext
  <2>3. Absent(NamesOf(SubSeq(s, 1, k - 1)), x)
    BY <1>3
  <2>4. Absent(NamesIn(s[k]), x)
    BY <2>2, NotFoundIs
  <2>5. Absent(NamesOf(SubSeq(s, 1, k - 1)) \o NamesIn(s[k]), x)
    BY <2>2, <2>3, <2>4, AbsentPut
  <2> QED
    BY <2>1, <2>2, <2>5
<1> HIDE DEF B
<1>4. \A k \in 0..m : k \in B
  BY <1>1, <1>2, <1>3, Climbs
<1> QED
  BY <1>1, <1>4 DEF B

LEMMA GoneFirst ==
  ASSUME NEW x \in Seq(HostNames), NEW e \in HostNames, NEW y \in Seq(HostNames), Absent(x, e)
  PROVE  Log!WithoutFirst(Between(x, e, y), e) = x \o y
<1> DEFINE z == Between(x, e, y)
           m == Len(x) + 1
           T == {i \in 1..Len(z) : z[i] = e}
<1>1. IsBetween(z, x, e, y)
  BY BetweenIs, Zenon
<1>2. /\ z \in Seq(HostNames) /\ Len(x) \in Nat /\ Len(y) \in Nat
      /\ Len(z) = Len(x) + 1 + Len(y) /\ z[m] = e
      /\ \A i \in 1..Len(x) : z[i] = x[i]
  BY <1>1 DEF IsBetween
<1>3. RemoveAt(z, m) = x \o y
  BY BetweenGone
<1> HIDE DEF z
<1>4. m \in T /\ m \in Nat
  BY <1>2
<1>5. ASSUME NEW i \in T PROVE m <= i
  <2>1. i \in 1..Len(z) /\ z[i] = e
    OBVIOUS
  <2>2. SUFFICES ASSUME i <= Len(x) PROVE FALSE
    BY <1>2, <2>1
  <2>3. i \in 1..Len(x)
    BY <1>2, <2>1, <2>2
  <2>4. x[i] = e
    BY <1>2, <2>1, <2>3
  <2> QED
    BY <2>3, <2>4 DEF Absent
<1>6. T \in SUBSET (1..Len(z)) /\ T # {} /\ Len(z) \in Nat
  <2>1. Len(z) \in Nat
    BY <1>2
  <2> QED
    BY <1>4, <2>1, Zenon
<1> HIDE DEF T
<1>7. Min(T) \in T /\ \A k \in T : Min(T) <= k
  BY <1>6, EndsAre
<1>8. Min(T) = m
  <2>0. Min(T) \in 1..Len(z)
    BY <1>6, <1>7
  <2>1. Min(T) <= m /\ m <= Min(T) /\ Min(T) \in Nat
    BY <1>4, <1>5, <1>6, <1>7, <2>0
  <2> HIDE DEF m
  <2> QED
    BY <1>4, <2>1
<1>9. Log!Min(T) = Min(T)
  BY DEF Log!Min, Min
<1>10. Log!SelectInSeq(z, LAMBDA v : v = e) = m
  BY <1>6, <1>8, <1>9 DEF Log!SelectInSeq, T
<1>11. Log!Contains(z, e)
  BY <1>4 DEF Log!Contains, T
<1>12. Log!RemoveAt(z, m) = RemoveAt(z, m)
  BY DEF Log!RemoveAt, RemoveAt
<1>13. Log!WithoutFirst(z, e) = Log!RemoveAt(z, Log!SelectInSeq(z, LAMBDA v : v = e))
  BY <1>11 DEF Log!WithoutFirst
<1> QED
  BY <1>3, <1>10, <1>12, <1>13 DEF z

LEMMA NoneGone ==
  ASSUME NEW z \in Seq(HostNames), NEW e \in HostNames, Absent(z, e)
  PROVE  Log!WithoutFirst(z, e) = z
<1>1. ~Log!Contains(z, e)
  BY DEF Log!Contains, Absent
<1> QED
  BY <1>1 DEF Log!WithoutFirst

LEMMA GoneAny ==
  ASSUME NEW x \in Seq(HostNames), NEW e \in HostNames, NEW y \in Seq(HostNames), e \in TooLarge
  PROVE  x \o y \in Log!Without(Between(x, e, y), e)
<1>1. PICK z : z = Between(x, e, y)
  OBVIOUS
<1>2. IsBetween(z, x, e, y)
  BY <1>1, BetweenIs, Zenon
<1>3. z \in Seq(HostNames) /\ Len(x) + 1 \in DOMAIN z /\ z[Len(x) + 1] = e
  BY <1>2 DEF IsBetween
<1>4. Log!RemoveAt(z, Len(x) + 1) = x \o y
  BY <1>1, BetweenGone DEF Log!RemoveAt, RemoveAt
<1> QED
  BY <1>1, <1>3, <1>4 DEF Log!Without

\* hostlist_delete_host takes the first host of the name - the first that stands alone in
\* the array if the number is too large.
LEMMA DeleteNameNames ==
  ASSUME NEW l \in GoodLists, NEW x \in HostNames
  PROVE  NamesOf(DeleteName(l, x).hr) \in Log!Without(NamesOf(l.hr), x)
<1> DEFINE s == l.hr
<1>1. s \in Seq(GoodRanges) /\ Len(s) \in Nat
  BY DEF GoodLists
<1> DEFINE T == {i \in 1..Len(s) : Within(s[i], x)}
<1>2. CASE \E n \in DOMAIN s : Within(s[n], x)
  <2>1. T # {} /\ T \in SUBSET (1..Len(s))
    BY <1>1, <1>2
  <2> DEFINE n == Min(T)
  <2>2. n \in T /\ \A k \in T : n <= k
    <3> HIDE DEF T
    <3> QED
      BY <1>1, <2>1, EndsAre
  <2>3. SelectInSeq(s, LAMBDA r : Within(r, x)) = n
    BY <2>1 DEF SelectInSeq
  <2> HIDE DEF n
  <2> DEFINE k == Place(s[n], x)
  <2>4. DeleteName(l, x) = [nhosts |-> l.nhosts - 1, hr |-> DeleteHost(s, n, k)]
    BY <1>2, <2>3 DEF DeleteName, Place
  <2>5. n \in DOMAIN s /\ n \in 1..Len(s) /\ s[n] \in GoodRanges /\ Within(s[n], x)
    BY <1>1, <2>2
  <2>13. s[n] \in GoodRanges /\ Has(s[n], x)
    BY <2>5, WithinHas
  <2>6. /\ k \in Nat /\ s[n].lo <= k /\ k <= s[n].hi /\ NameAt(s[n], k - s[n].lo) = x
        /\ Absent(NamesOf(Before(s[n], k)), x)
    BY <2>13, FoundIs
  <2>7. ASSUME x \notin TooLarge PROVE Absent(NamesOf(SubSeq(s, 1, n - 1)), x)
    <3>1. n - 1 \in 0..Len(s)
      BY <1>1, <2>5
    <3>2. \A i \in 1..n - 1 : ~Has(s[i], x)
      <4>1. \A i \in 1..n - 1 : i \in 1..Len(s) /\ ~(n <= i)
        BY <1>1, <2>5
      <4> QED
        BY <2>2, <2>7, <4>1, WithinHas
    <3> HIDE DEF s
    <3> QED
      BY <1>1, <3>1, <3>2, NoneFound
  <2> HIDE DEF k, s
  <2>8. PICK u, v \in Seq(HostNames) :
          /\ NameAt(s[n], k - s[n].lo) \in HostNames
          /\ NamesOf(s) = Between(u, NameAt(s[n], k - s[n].lo), v)
          /\ NamesOf(DeleteHost(s, n, k)) = u \o v
          /\ Len(u) = Total(SubSeq(s, 1, n - 1)) + (k - s[n].lo)
          /\ u = NamesOf(SubSeq(s, 1, n - 1)) \o NamesOf(Before(s[n], k))
    <3>1. s \in Seq(GoodRanges) /\ n \in DOMAIN s /\ k \in Nat /\ s[n].lo <= k /\ k <= s[n].hi
      BY <1>1, <2>5, <2>6
    <3> QED
      BY ONLY <3>1, DeleteHostNames, ZenonT(40)
  <2>9. ASSUME x \notin TooLarge PROVE Absent(u, x)
    <3>1. NamesOf(SubSeq(s, 1, n - 1)) \in Seq(HostNames) /\ NamesOf(Before(s[n], k)) \in Seq(HostNames)
      <4>1. SubSeq(s, 1, n - 1) \in Seq(GoodRanges)
        BY <1>1, <2>5, TotalAt
      <4>2. Before(s[n], k) \in Seq(GoodRanges)
        BY <2>5, <2>6, RangeSplit
      <4> QED
        BY <4>1, <4>2, NamesOfType
    <3> QED
      BY <2>6, <2>7, <2>8, <2>9, <3>1, AbsentPut
  <2>10. u \o v \in Log!Without(Between(u, x, v), x)
    <3>1. CASE x \in TooLarge
      BY <2>8, <3>1, GoneAny
    <3>2. CASE x \notin TooLarge
      <4>1. Log!WithoutFirst(Between(u, x, v), x) = u \o v
        BY <2>8, <2>9, <3>2, GoneFirst
      <4> QED
        BY <3>2, <4>1 DEF Log!Without
    <3> QED
      BY <3>1, <3>2
  <2>11. NamesOf(s) = Between(u, x, v) /\ NamesOf(DeleteHost(s, n, k)) = u \o v
    BY <2>6, <2>8
  <2>12. NamesOf(DeleteName(l, x).hr) = u \o v
    BY <2>4, <2>11
  <2>14. NamesOf(l.hr) = Between(u, x, v)
    BY <2>11 DEF s
  <2> QED
    BY <2>10, <2>12, <2>14, Zenon
<1>3. CASE ~\E n \in DOMAIN s : Within(s[n], x)
  <2>1. DeleteName(l, x) = l
    BY <1>3 DEF DeleteName
  <2>2. Len(s) \in 0..Len(s) /\ \A n \in 1..Len(s) : ~Within(s[n], x)
    BY <1>1, <1>3
  <2> HIDE DEF s
  <2>3. SubSeq(s, 1, Len(s)) = s
    BY <1>1
  <2>4. CASE x \in TooLarge
    BY <2>1, <2>4 DEF s, Log!Without
  <2>5. CASE x \notin TooLarge
    <3>1. \A n \in 1..Len(s) : ~Has(s[n], x)
      BY <1>1, <2>2, <2>5, WithinHas
    <3>2. Absent(NamesOf(SubSeq(s, 1, Len(s))), x)
      BY <1>1, <2>2, <3>1, NoneFound
    <3>3. NamesOf(s) \in Seq(HostNames) /\ Absent(NamesOf(s), x)
      BY <1>1, <2>3, <3>2, NamesOfType
    <3>4. Log!WithoutFirst(NamesOf(s), x) = NamesOf(s)
      BY <3>3, NoneGone
    <3> QED
      BY <2>1, <2>5, <3>4 DEF s, Log!Without
  <2> QED
    BY <2>4, <2>5
<1> QED
  BY <1>2, <1>3

----------------------------------------------------------------------------
(* Names that are deleted one after the other. *)

\* The names go one after the other, the last one first.
Dropped(S, x) == UNION {Log!Without(v, x) : v \in S}
CanDrop(V, n, s) == DOMAIN s = 1..n /\ \A k \in 1..n : \A v \in V : Dropped(v, s[k]) \in V
DropAll(s, l) == Log!FoldRight(LAMBDA x, S : UNION {Log!Without(v, x) : v \in S}, s, l)
AllDropped(V, n, s, l) == \E a \in [0..n -> V] : 
  a[n] = l /\ (\A k \in 1..n : a[k - 1] = Dropped(a[k], s[k])) /\ DropAll(s, l) = a[0]

LEMMA DropsAre ==
  ASSUME NEW n \in Nat, NEW s, NEW V, NEW l \in V, CanDrop(V, n, s)
  PROVE  AllDropped(V, n, s, l)
<1> USE DEF CanDrop
<1> DEFINE F == [p \in (1..n) \X V |-> Dropped(p[2], s[p[1]])]
<1>1. F \in [(1..n) \X V -> V]
  OBVIOUS
<1>2. \A k \in 1..n : \A v \in V : F[<<k, v>>] = Dropped(v, s[k])
  OBVIOUS
<1> HIDE DEF F
<1> DEFINE Eq(h) == 
      h = [t \in SUBSET (1..n) |-> IF t = {} THEN l ELSE Dropped(h[t \ {Min(t)}], s[Min(t)])]
<1>3. \E g : Eq(g)
  <2>1. PICK g \in [SUBSET (1..n) -> V] : RightFolds(n, l, F, g)
    BY <1>1, RightExists, Zenon
  <2>2. ASSUME NEW t \in SUBSET (1..n), t # {}
        PROVE  g[t] = Dropped(g[t \ {Min(t)}], s[Min(t)])
    <3>1. Min(t) \in 1..n
      BY <2>2, EndsAre
    <3>2. g[t \ {Min(t)}] \in V
      BY <2>1
    <3> QED
      BY <1>2, <2>1, <2>2, <3>1, <3>2 DEF RightFolds
  <2>3. Eq(g)
    BY <2>1, <2>2 DEF RightFolds
  <2> QED
    BY <2>3
<1> DEFINE h == CHOOSE g : Eq(g)
<1>4. DropAll(s, l) = h[1..n]
  BY DEF DropAll, Dropped, Log!FoldRight, Log!MapThenFoldSet, Log!Min, Min
<1>5. Eq(h)
  <2> HIDE DEF Eq
  <2> QED
    BY <1>3
<1> HIDE DEF h
<1>6. h[{}] = l
  BY <1>5
<1>7. ASSUME NEW t \in SUBSET (1..n), t # {}, h[t \ {Min(t)}] \in V 
      PROVE  h[t] = F[<<Min(t), h[t \ {Min(t)}]>>]
  <2>1. Min(t) \in 1..n
    BY <1>7, EndsAre
  <2> QED
    BY <1>2, <1>5, <1>7, <2>1
<1>8. RightStep(n, V, l, F, h)
  BY <1>6, <1>7 DEF RightStep
<1>9. PICK a \in [0..n -> V] : RightValues(n, l, F, a) /\ h[1..n] = a[0]
  <2>1. RightComputes(n, V, l, F, h)
    BY <1>1, <1>8, RightChain, Zenon
  <2> QED
    BY <2>1 DEF RightComputes
<1>10. ASSUME NEW k \in 1..n PROVE a[k - 1] = Dropped(a[k], s[k])
  <2>1. a[k - 1] = F[<<k, a[k]>>] /\ k \in 0..n
    BY <1>9 DEF RightValues
  <2> QED
    BY <1>2, <2>1
<1> QED
  BY <1>4, <1>9, <1>10 DEF RightValues, AllDropped

LEMMA WithoutFirstType ==
  ASSUME NEW z \in Seq(HostNames), NEW e \in HostNames
  PROVE  Log!WithoutFirst(z, e) \in Seq(HostNames)
<1>1. CASE Log!Contains(z, e)
  <2> DEFINE T == {i \in 1..Len(z) : z[i] = e}
  <2>1. T \in SUBSET (1..Len(z)) /\ T # {} /\ Len(z) \in Nat
    BY <1>1 DEF Log!Contains
  <2>2. Log!SelectInSeq(z, LAMBDA v : v = e) = Log!Min(T)
    BY <2>1 DEF Log!SelectInSeq
  <2> HIDE DEF T
  <2>3. Min(T) \in 1..Len(z)
    BY <2>1, EndsAre
  <2>4. PICK m \in 1..Len(z) : Log!SelectInSeq(z, LAMBDA v : v = e) = m
    BY <2>2, <2>3 DEF Log!Min, Min
  <2>5. Log!WithoutFirst(z, e) = Log!RemoveAt(z, Log!SelectInSeq(z, LAMBDA v : v = e))
    BY <1>1 DEF Log!WithoutFirst
  <2>6. Log!RemoveAt(z, m) = SubSeq(z, 1, m - 1) \o SubSeq(z, m + 1, Len(z))
    BY DEF Log!RemoveAt
  <2>7. SubSeq(z, 1, m - 1) \in Seq(HostNames) /\ SubSeq(z, m + 1, Len(z)) \in Seq(HostNames)
    OBVIOUS
  <2>8. SubSeq(z, 1, m - 1) \o SubSeq(z, m + 1, Len(z)) \in Seq(HostNames)
    BY <2>7, PutIs
  <2> QED
    BY <2>4, <2>5, <2>6, <2>8
<1>2. CASE ~Log!Contains(z, e)
  BY <1>2 DEF Log!WithoutFirst
<1> QED
  BY <1>1, <1>2

LEMMA DroppedType ==
  ASSUME NEW S \in SUBSET Seq(HostNames), NEW e \in HostNames
  PROVE  Dropped(S, e) \in SUBSET Seq(HostNames)
<1> SUFFICES ASSUME NEW z \in Seq(HostNames), NEW y \in Log!Without(z, e) PROVE y \in Seq(HostNames)
  BY DEF Dropped
<1>1. CASE e \notin TooLarge
  BY <1>1, WithoutFirstType DEF Log!Without
<1>2. ASSUME NEW m \in 1..Len(z) PROVE Log!RemoveAt(z, m) \in Seq(HostNames)
  <2>1. Log!RemoveAt(z, m) = SubSeq(z, 1, m - 1) \o SubSeq(z, m + 1, Len(z))
    BY DEF Log!RemoveAt
  <2>2. SubSeq(z, 1, m - 1) \in Seq(HostNames) /\ SubSeq(z, m + 1, Len(z)) \in Seq(HostNames)
    OBVIOUS
  <2> QED
    BY <2>1, <2>2, PutIs
<1>3. CASE e \in TooLarge
  BY <1>2, <1>3 DEF Log!Without
<1> QED
  BY <1>1, <1>3

LEMMA DeleteAllNames ==
  ASSUME NEW l \in GoodLists, NEW b \in Seq(HostNames)
  PROVE  NamesOf(DeleteAll(b, l).hr) \in DropAll(b, {NamesOf(l.hr)})
<1> DEFINE n == Len(b)
           h == NamesOf(l.hr)
<1>1. n \in Nat /\ DOMAIN b = 1..n /\ \A k \in 1..n : b[k] \in HostNames
  OBVIOUS
<1>2. h \in Seq(HostNames)
  <2>1. l.hr \in Seq(GoodRanges)
    BY DEF GoodLists
  <2> QED
    BY <2>1, NamesOfType
<1>3. CanDelete(GoodLists, n, b)
  BY <1>1, DeleteNameKeeps DEF CanDelete
<1>4. CanDrop(SUBSET Seq(HostNames), n, b)
  BY <1>1, DroppedType DEF CanDrop
<1> HIDE DEF n, h
<1>5. AllDeleted(GoodLists, n, b, l)
  BY <1>1, <1>3, DeletesAre, Zenon
<1>6. AllDropped(SUBSET Seq(HostNames), n, b, {h})
  <2>1. {h} \in SUBSET Seq(HostNames)
    BY <1>2
  <2> QED
    BY <1>1, <1>4, <2>1, DropsAre, Zenon
<1>7. PICK a \in [0..n -> GoodLists] : 
        a[n] = l /\ (\A k \in 1..n : a[k - 1] = DeleteName(a[k], b[k])) /\ DeleteAll(b, l) = a[0]
  BY <1>5 DEF AllDeleted
<1>8. PICK c \in [0..n -> SUBSET Seq(HostNames)] : 
        c[n] = {h} /\ (\A k \in 1..n : c[k - 1] = Dropped(c[k], b[k])) /\ DropAll(b, {h}) = c[0]
  BY <1>6 DEF AllDropped
<1> DEFINE B == {j \in 0..n : NamesOf(a[n - j].hr) \in c[n - j]}
<1>9. 0 \in B
  <2>1. n - 0 = n /\ 0 \in 0..n
    BY <1>1
  <2>2. NamesOf(a[n].hr) \in c[n]
    BY <1>7, <1>8 DEF h
  <2> QED
    BY <2>1, <2>2
<1>10. ASSUME NEW j \in 1..n, j - 1 \in B PROVE j \in B
  <2> DEFINE k == n - (j - 1)
  <2>1. k \in 1..n /\ k - 1 = n - j /\ j \in 0..n /\ k \in 0..n
    BY <1>1
  <2>2. NamesOf(a[k].hr) \in c[k]
    BY <1>10
  <2> HIDE DEF k
  <2>3. a[k] \in GoodLists /\ b[k] \in HostNames
    BY <1>1, <1>7, <2>1
  <2>4. NamesOf(DeleteName(a[k], b[k]).hr) \in Log!Without(NamesOf(a[k].hr), b[k])
    BY <2>3, DeleteNameNames
  <2>5. NamesOf(a[k - 1].hr) \in c[k - 1]
    <3>1. NamesOf(DeleteName(a[k], b[k]).hr) \in Dropped(c[k], b[k])
      BY <2>2, <2>4 DEF Dropped
    <3> QED
      BY <1>7, <1>8, <2>1, <3>1
  <2> QED
    BY <2>1, <2>5
<1> HIDE DEF B
<1>11. n \in B
  <2>1. \A j \in 0..n : j \in B
    BY <1>1, <1>9, <1>10, Climbs
  <2> QED
    BY <1>1, <2>1
<1>12. NamesOf(a[0].hr) \in c[0]
  <2>1. n - n = 0
    BY <1>1
  <2> QED
    BY <1>11, <2>1 DEF B
<1> QED
  BY <1>7, <1>8, <1>12 DEF h

LEMMA DeleteIsLog ==
  ASSUME LogInv, NEW tokens \in Inputs, Delete(tokens)
  PROVE  Log!Next
<1>1. IInv /\ Alone /\ ret' = <<>> /\ UNCHANGED it
  BY DEF LogInv, Delete
<1>2. Behind = -1 /\ Behind' = -1 /\ hr \in Seq(GoodRanges)
  BY <1>1, AloneBehind, StillAlone
<1>3. CASE ParseOK(tokens)
  <2> DEFINE b == NamesOf(Create(tokens).hr)
  <2>1. hr' = DeleteAll(b, Now).hr
    BY <1>3 DEF Delete, Becomes, DeleteAll
  <2>2. Now \in GoodLists /\ Now.hr = hr
    BY <1>1, NowIs DEF IInv, Now
  <2>3. b \in Seq(HostNames)
    BY <1>3, CreatedNames
  <2>4. NamesOf(DeleteAll(b, Now).hr) \in DropAll(b, {NamesOf(Now.hr)})
    BY <2>2, <2>3, DeleteAllNames
  <2>5. Hosts' \in DropAll(b, {Hosts})
    BY <2>1, <2>2, <2>4 DEF Hosts
  <2>6. Log!Drop(b)
    BY <1>1, <1>2, <2>5 DEF Log!Drop, DropAll
  <2>7. b \in {NamesOf(Create(t).hr) : t \in {u \in Inputs : ParseOK(u)}}
    BY <1>3
  <2> QED
    BY <2>6, <2>7 DEF Log!Next
<1>4. CASE ~ParseOK(tokens)
  <2>1. Hosts' = Hosts
    BY <1>4 DEF Delete, Hosts
  <2> QED
    BY <1>1, <1>2, <2>1 DEF Log!Next, Log!Refuse
<1> QED
  BY <1>3, <1>4

----------------------------------------------------------------------------
(* How often a list has a name. *)

\* Where a name is in a list, and how often.
Spots(z, x) == {k \in 1..Len(z) : z[k] = x}
HowOften(z, x) == Cardinality(Spots(z, x))

LEMMA SpotsFinite ==
  ASSUME NEW z \in Seq(HostNames), NEW x
  PROVE  /\ IsFiniteSet(Spots(z, x)) /\ HowOften(z, x) \in Nat
         /\ HowOften(z, x) = 0 <=> Absent(z, x)
<1>1. Len(z) \in Nat
  OBVIOUS
<1>2. IsFiniteSet(1..Len(z))
  <2>1. 1 \in Int /\ Len(z) \in Int
    BY <1>1
  <2> QED
    BY <2>1, FS_Interval
<1>3. Spots(z, x) \in SUBSET (1..Len(z))
  BY DEF Spots
<1>4. IsFiniteSet(Spots(z, x))
  BY <1>2, <1>3, FS_Subset
<1>5. HowOften(z, x) \in Nat
  BY <1>4, FS_CardinalityType DEF HowOften
<1>6. HowOften(z, x) = 0 <=> Spots(z, x) = {}
  BY <1>4, FS_EmptySet DEF HowOften
<1>7. Spots(z, x) = {} <=> Absent(z, x)
  BY DEF Spots, Absent
<1> QED
  BY <1>4, <1>5, <1>6, <1>7

LEMMA OftenPut ==
  ASSUME NEW y \in Seq(HostNames), NEW z \in Seq(HostNames), NEW x
  PROVE  HowOften(y \o z, x) = HowOften(y, x) + HowOften(z, x)
<1> DEFINE u == y \o z
           A == Spots(u, x)
           Y == Spots(y, x)
           Z == Spots(z, x)
           m == Len(y)
           S == {k \in (m + 1)..Len(u) : u[k] = x}
           f == [k \in Z |-> m + k]
<1>1. /\ u \in Seq(HostNames) /\ Len(u) = m + Len(z) /\ m \in Nat /\ Len(z) \in Nat
      /\ \A i \in 1..m + Len(z) : u[i] = IF i <= m THEN y[i] ELSE z[i - m]
  BY PutIs
<1>2. IsFiniteSet(Y) /\ IsFiniteSet(Z) /\ HowOften(y, x) \in Nat /\ HowOften(z, x) \in Nat
  BY SpotsFinite
<1> HIDE DEF u, m
<1>3. A = Y \cup S
  <2>1. ASSUME NEW k \in 1..Len(u) PROVE k \in A <=> k \in Y \/ k \in S
    <3>1. CASE k <= m
      <4>1. k \in 1..m /\ u[k] = y[k] /\ k \notin (m + 1)..Len(u)
        BY <1>1, <3>1
      <4> QED
        BY <4>1 DEF Spots, m
    <3>2. CASE ~(k <= m)
      <4>1. k \notin 1..m /\ k \in (m + 1)..Len(u)
        BY <1>1, <3>2
      <4> QED
        BY <4>1 DEF Spots, m
    <3> QED
      BY <3>1, <3>2
  <2>2. A \subseteq 1..Len(u)
    BY DEF Spots
  <2>3. Y \subseteq 1..Len(u)
    <3>1. Y \subseteq 1..m
      BY DEF Spots, m
    <3> QED
      BY <1>1, <3>1
  <2>4. S \subseteq 1..Len(u)
    BY <1>1
  <2> HIDE DEF A, Y, S
  <2> QED
    BY <2>1, <2>2, <2>3, <2>4
<1>4. Y \cap S = {}
  <2>1. \A k \in 1..m : k \notin (m + 1)..Len(u)
    BY <1>1
  <2> QED
    BY <2>1 DEF Spots, m
<1>5. f \in Bijection(Z, S)
  <2>1. ASSUME NEW k \in Z PROVE m + k \in S
    <3>1. k \in 1..Len(z) /\ z[k] = x
      BY DEF Spots
    <3>2. m + k \in (m + 1)..Len(u) /\ m + k \in 1..m + Len(z) /\ ~(m + k <= m) /\ (m + k) - m = k
      BY <1>1, <3>1
    <3>3. u[m + k] = z[k]
      BY <1>1, <3>2
    <3> QED
      BY <3>1, <3>2, <3>3
  <2>2. ASSUME NEW k \in Z, NEW j \in Z, m + k = m + j PROVE k = j
    <3>1. k \in Nat /\ j \in Nat
      BY DEF Spots
    <3> QED
      BY <1>1, <2>2, <3>1
  <2>3. ASSUME NEW i \in S PROVE \E k \in Z : m + k = i
    <3>1. i - m \in 1..Len(z) /\ m + (i - m) = i /\ i \in 1..m + Len(z) /\ ~(i <= m)
      BY <1>1
    <3>2. z[i - m] = x
      BY <1>1, <3>1
    <3> QED
      BY <3>1, <3>2 DEF Spots
  <2> HIDE DEF Z, S
  <2>4. f \in [Z -> S]
    BY <2>1
  <2> QED
    BY <2>2, <2>3, <2>4 DEF Bijection, Injection, IsInjective, Surjection
<1>6. IsFiniteSet(S) /\ Cardinality(S) = Cardinality(Z)
  <2> HIDE DEF f, Z, S
  <2>1. ExistsBijection(Z, S)
    BY <1>5 DEF ExistsBijection
  <2> QED
    BY <1>2, <2>1, FS_Bijection
<1> HIDE DEF A, Y, Z, S
<1>7. Cardinality(Y \cup S) = Cardinality(Y) + Cardinality(S) - Cardinality(Y \cap S)
  BY <1>2, <1>6, FS_Union
<1>8. Cardinality(Y \cap S) = 0
  BY <1>4, FS_EmptySet
<1>9. HowOften(y, x) = Cardinality(Y) /\ HowOften(z, x) = Cardinality(Z) /\ HowOften(u, x) = Cardinality(A)
  BY DEF HowOften, A, Y, Z
<1>10. HowOften(u, x) = HowOften(y, x) + HowOften(z, x)
  BY <1>2, <1>3, <1>6, <1>7, <1>8, <1>9
<1> QED
  BY <1>10 DEF u

LEMMA NoneOften == ASSUME NEW x PROVE HowOften(<<>>, x) = 0
<1>1. Spots(<<>>, x) = {}
  BY DEF Spots
<1> QED
  BY <1>1, FS_EmptySet DEF HowOften

\* A range has a name once, or not at all.
LEMMA OnceIn ==
  ASSUME NEW r \in GoodRanges, NEW x \in HostNames
  PROVE  HowOften(NamesIn(r), x) = IF Has(r, x) THEN 1 ELSE 0
<1>1. /\ r.lo \in Nat /\ r.hi \in Nat /\ r.lo <= r.hi /\ r.singlehost \in BOOLEAN
      /\ (r.singlehost => r.lo = 0 /\ r.hi = 0) /\ Count(r) = r.hi - r.lo + 1
  BY GoodIs
<1>2. NamesIn(r) \in Seq(HostNames)
  BY NamesInIs
<1>3. CASE ~Has(r, x)
  BY <1>2, <1>3, NotFoundIs, SpotsFinite
<1>4. CASE Has(r, x) /\ r.singlehost
  <2>1. Len(NamesIn(r)) = 1 /\ NamesIn(r)[1] = NameAt(r, 0)
    <3>1. Count(r) = 1 /\ 1 \in 1..1 /\ 1 - 1 = 0
      BY <1>1, <1>4
    <3> QED
      BY <3>1, NamesInIs
  <2>2. NamesIn(r)[1] = x
    BY <1>4, <2>1 DEF NameAt, Has
  <2>3. Spots(NamesIn(r), x) = {1}
    BY <2>1, <2>2 DEF Spots
  <2> QED
    BY <1>4, <2>3, FS_Singleton DEF HowOften
<1>5. CASE Has(r, x) /\ ~r.singlehost
  <2> DEFINE k == Number(x, r.prefix)
             c == k - r.lo + 1
  <2>1. k \in Nat /\ r.lo <= k /\ k <= r.hi /\ Numbered(r, k) = x
    BY <1>5, WithinNumbered
  <2>2. /\ Len(NamesIn(r)) = r.hi - r.lo + 1
        /\ \A i \in 1..r.hi - r.lo + 1 : NamesIn(r)[i] = Numbered(r, r.lo + (i - 1))
    BY <1>5, NumbersIs
  <2>3. c \in 1..r.hi - r.lo + 1 /\ r.lo + (c - 1) = k
    <3> HIDE DEF k
    <3> QED
      BY <1>1, <2>1
  <2>4. NamesIn(r)[c] = x
    BY <2>1, <2>2, <2>3
  <2>5. ASSUME NEW i \in 1..r.hi - r.lo + 1, NamesIn(r)[i] = x PROVE i = c
    <3> DEFINE n == r.lo + (i - 1)
    <3>1. n \in Nat /\ r.lo <= n /\ n <= r.hi
      BY <1>1
    <3>2. Numbered(r, n) = x
      BY <2>2, <2>5
    <3> HIDE DEF n
    <3>3. k = n
      BY <1>5, <3>1, <3>2, NumberedWithin
    <3> HIDE DEF k
    <3> QED
      BY <1>1, <2>1, <3>3 DEF n
  <2> HIDE DEF c
  <2>6. Spots(NamesIn(r), x) = {c}
    BY <2>2, <2>3, <2>4, <2>5 DEF Spots
  <2> QED
    BY <1>5, <2>6, FS_Singleton DEF HowOften
<1> QED
  BY <1>1, <1>3, <1>4, <1>5

\* The ranges, of the first m, that have a name.
Holders(s, m, x) == {n \in 1..m : Has(s[n], x)}
Copies(s, x) == HowOften(NamesOf(s), x)
HeldCopies(s, m, x) == 
  IsFiniteSet(Holders(s, m, x)) /\ Copies(SubSeq(s, 1, m), x) = Cardinality(Holders(s, m, x))

LEMMA CopiesNext ==
  ASSUME NEW s \in Seq(GoodRanges), NEW x \in HostNames, NEW k \in 1..Len(s)
  PROVE  /\ Copies(SubSeq(s, 1, k), x) = Copies(SubSeq(s, 1, k - 1), x) + (IF Has(s[k], x) THEN 1 ELSE 0)
         /\ Copies(SubSeq(s, 1, k - 1), x) \in Nat
<1>1. /\ s[k] \in GoodRanges /\ NamesIn(s[k]) \in Seq(HostNames)
      /\ NamesOf(SubSeq(s, 1, k - 1)) \in Seq(HostNames)
      /\ NamesOf(SubSeq(s, 1, k)) = NamesOf(SubSeq(s, 1, k - 1)) \o NamesIn(s[k])
  BY NamesOfNext
<1>2. HowOften(NamesIn(s[k]), x) = IF Has(s[k], x) THEN 1 ELSE 0
  BY <1>1, OnceIn
<1>3. HowOften(NamesOf(SubSeq(s, 1, k - 1)) \o NamesIn(s[k]), x) 
        = HowOften(NamesOf(SubSeq(s, 1, k - 1)), x) + HowOften(NamesIn(s[k]), x)
  BY <1>1, OftenPut
<1>4. HowOften(NamesOf(SubSeq(s, 1, k - 1)), x) \in Nat
  BY <1>1, SpotsFinite
<1> QED
  BY <1>1, <1>2, <1>3, <1>4 DEF Copies

LEMMA CopiesHeld ==
  ASSUME NEW s \in Seq(GoodRanges), NEW x \in HostNames
  PROVE  HeldCopies(s, Len(s), x)
<1> DEFINE m == Len(s)
           B == {k \in 0..m : HeldCopies(s, k, x)}
<1>1. m \in Nat
  OBVIOUS
<1>2. 0 \in B
  <2>1. SubSeq(s, 1, 0) = <<>> /\ Holders(s, 0, x) = {} /\ 0 \in 0..m
    BY <1>1 DEF Holders
  <2>2. Copies(SubSeq(s, 1, 0), x) = 0
    BY <2>1, NamesOfNone, NoneOften DEF Copies
  <2> QED
    BY <2>1, <2>2, FS_EmptySet DEF HeldCopies
<1>3. ASSUME NEW k \in 1..m, k - 1 \in B PROVE k \in B
  <2> DEFINE H == Holders(s, k - 1, x)
  <2>1. IsFiniteSet(H) /\ Copies(SubSeq(s, 1, k - 1), x) = Cardinality(H)
    BY <1>3 DEF HeldCopies
  <2>2. /\ Copies(SubSeq(s, 1, k), x) = Copies(SubSeq(s, 1, k - 1), x) + (IF Has(s[k], x) THEN 1 ELSE 0)
        /\ Copies(SubSeq(s, 1, k - 1), x) \in Nat
    BY CopiesNext
  <2>3. k \in Nat /\ k \in 0..m /\ k \notin 1..k - 1 /\ \A n : n \in 1..k <=> n \in 1..k - 1 \/ n = k
    BY <1>1
  <2>4. k \notin H
    BY <2>3 DEF Holders
  <2>5. CASE Has(s[k], x)
    <3>1. Holders(s, k, x) = H \cup {k}
      BY <2>3, <2>5 DEF Holders
    <3> HIDE DEF H
    <3>2. IsFiniteSet(H \cup {k}) /\ Cardinality(H \cup {k}) = Cardinality(H) + 1
      BY <2>1, <2>4, FS_AddElement
    <3> QED
      BY <2>1, <2>2, <2>3, <2>5, <3>1, <3>2 DEF HeldCopies
  <2>6. CASE ~Has(s[k], x)
    <3>1. Holders(s, k, x) = H
      BY <2>3, <2>6 DEF Holders
    <3> HIDE DEF H
    <3> QED
      BY <2>1, <2>2, <2>3, <2>6, <3>1 DEF HeldCopies
  <2> QED
    BY <2>5, <2>6
<1> HIDE DEF B
<1>4. \A k \in 0..m : k \in B
  <2> HIDE DEF m
  <2> QED
    BY <1>1, <1>2, <1>3, Climbs
<1> QED
  BY <1>1, <1>4 DEF B

\* Ranges in another order have the same names, each as often.
LEMMA ArrangedCopies ==
  ASSUME NEW s \in Seq(GoodRanges), NEW t \in Arrangements(s), NEW x \in HostNames
  PROVE  Copies(t, x) = Copies(s, x)
<1> DEFINE N == Len(s)
<1>1. N \in Nat /\ DOMAIN s = 1..N /\ \A k \in 1..N : s[k] \in GoodRanges
  OBVIOUS
<1>2. PICK p \in [1..N -> 1..N] : 
        (\A j, k \in 1..N : p[j] = p[k] => j = k) /\ t = [k \in 1..N |-> s[p[k]]]
  BY <1>1 DEF Arrangements
<1>3. t \in Seq(GoodRanges) /\ Len(t) = N /\ \A k \in 1..N : t[k] = s[p[k]]
  <2> HIDE DEF N
  <2>1. t \in [1..N -> GoodRanges]
    BY <1>1, <1>2
  <2>2. t \in Seq(GoodRanges) /\ Len(t) = N
    BY <1>1, <2>1
  <2> QED
    BY <1>2, <2>2
<1> HIDE DEF N
<1>4. p \in Surjection(1..N, 1..N)
  <2>1. p \in Injection(1..N, 1..N)
    BY <1>2 DEF Injection, IsInjective
  <2>2. IsFiniteSet(1..N)
    BY <1>1, FS_Interval
  <2>3. Cardinality(1..N) = Cardinality(1..N) <=> p \in Surjection(1..N, 1..N)
    BY <2>1, <2>2, FS_Injection
  <2> QED
    BY <2>3
<1> DEFINE C == Holders(t, N, x)
           D == Holders(s, N, x)
           f == [k \in C |-> p[k]]
<1>5. f \in Bijection(C, D)
  <2>1. ASSUME NEW k \in C PROVE p[k] \in D
    <3>1. k \in 1..N /\ Has(t[k], x)
      BY DEF Holders
    <3>2. p[k] \in 1..N /\ Has(s[p[k]], x)
      BY <1>2, <1>3, <3>1
    <3> QED
      BY <3>2 DEF Holders
  <2>2. ASSUME NEW j \in C, NEW k \in C, p[j] = p[k] PROVE j = k
    BY <1>2, <2>2 DEF Holders
  <2>3. ASSUME NEW d \in D PROVE \E k \in C : p[k] = d
    <3>1. d \in 1..N /\ Has(s[d], x)
      BY DEF Holders
    <3>2. PICK k \in 1..N : p[k] = d
      BY <1>4, <3>1 DEF Surjection
    <3>3. k \in C
      BY <1>3, <3>1, <3>2 DEF Holders
    <3> QED
      BY <3>2, <3>3
  <2> HIDE DEF C, D
  <2>4. f \in [C -> D]
    BY <2>1
  <2> QED
    BY <2>2, <2>3, <2>4 DEF Bijection, Injection, IsInjective, Surjection
<1>6. HeldCopies(t, N, x) /\ HeldCopies(s, N, x)
  <2>1. HeldCopies(t, Len(t), x) /\ HeldCopies(s, Len(s), x)
    BY <1>3, CopiesHeld
  <2> QED
    BY <1>3, <2>1 DEF N
<1>7. Cardinality(D) = Cardinality(C)
  <2>1. IsFiniteSet(C)
    BY <1>6 DEF HeldCopies
  <2> HIDE DEF f, C, D
  <2>2. ExistsBijection(C, D)
    BY <1>5 DEF ExistsBijection
  <2> QED
    BY <2>1, <2>2, FS_Bijection
<1>8. SubSeq(t, 1, N) = t /\ SubSeq(s, 1, N) = s
  BY <1>1, <1>3 DEF N
<1> QED
  BY <1>6, <1>7, <1>8 DEF HeldCopies

----------------------------------------------------------------------------
(* The joins of hostlist_uniq, on ranges in order. *)

\* What Duplicated promises about the two ranges it allows to be joined.
LEMMA JoinableIs ==
  ASSUME NEW q \in GoodRanges, NEW r \in GoodRanges, Duplicated(q, r) >= 0
  PROVE  /\ SamePrefix(q, r) /\ Combine(q, r) 
         /\ ~q.singlehost => r.lo <= q.hi + 1
<1>1. q.singlehost \in BOOLEAN /\ q.hi \in Nat /\ r.lo \in Nat
  BY GoodIs
<1>2. SamePrefix(q, r) /\ Combine(q, r)
  BY DEF Duplicated
<1>3. ASSUME ~q.singlehost PROVE r.lo <= q.hi + 1
  <2> SUFFICES ASSUME ~(r.lo <= q.hi + 1) PROVE FALSE
    OBVIOUS
  <2>1. q.hi # r.lo - 1 /\ q.hi < r.lo
    BY <1>1
  <2>2. Duplicated(q, r) = -1
    BY <1>2, <1>3, <2>1 DEF Duplicated
  <2> QED
    BY <2>2
<1> QED
  BY <1>2, <1>3

\* The joined range has the names of both, and no other.
LEMMA JoinedWithin ==
  ASSUME NEW q \in GoodRanges, NEW r \in GoodRanges, Duplicated(q, r) >= 0, q.lo <= r.lo, 
         NEW x \in HostNames
  PROVE  LET j == Joined(q, r, IF q.hi < r.hi THEN r.hi ELSE q.hi)
         IN  Has(j, x) <=> Has(q, x) \/ Has(r, x)
<1> DEFINE top == IF q.hi < r.hi THEN r.hi ELSE q.hi
           j == Joined(q, r, top)
<1>1. /\ q \in Ranges /\ q.lo \in Nat /\ q.hi \in Nat /\ q.lo <= q.hi /\ q.singlehost \in BOOLEAN
  BY GoodIs
<1>2. r.lo \in Nat /\ r.hi \in Nat /\ r.lo <= r.hi
  BY GoodIs
<1>3. SamePrefix(q, r) /\ Combine(q, r) /\ (~q.singlehost => r.lo <= q.hi + 1)
  BY JoinableIs
<1>4. q.prefix = r.prefix /\ q.singlehost = r.singlehost
  BY <1>3 DEF SamePrefix
<1>5. j.prefix = q.prefix /\ j.singlehost = q.singlehost
  BY <1>1 DEF Joined, Ranges
<1>6. top \in Nat /\ q.lo <= top /\ q.hi <= top /\ r.hi <= top /\ (top = q.hi \/ top = r.hi)
  BY <1>1, <1>2
<1> HIDE DEF top
<1>7. CASE q.singlehost
  <2> HIDE DEF j
  <2>1. Has(j, x) <=> q.prefix = x
    BY <1>5, <1>7 DEF Has
  <2>2. Has(q, x) <=> q.prefix = x
    BY <1>7 DEF Has
  <2>3. Has(r, x) <=> q.prefix = x
    BY <1>4, <1>7 DEF Has
  <2> QED
    BY <2>1, <2>2, <2>3 DEF j, top
<1>8. CASE ~q.singlehost
  <2>1. /\ j \in GoodRanges /\ ~j.singlehost /\ j.lo = q.lo /\ j.hi = top
        /\ \A n \in Nat : n >= q.lo => Numbered(j, n) = Numbered(q, n)
        /\ \A n \in Nat : n >= r.lo => Numbered(j, n) = Numbered(r, n)
    BY <1>3, <1>6, <1>8, JoinedIs
  <2> HIDE DEF j
  <2>2. ASSUME Has(q, x) PROVE Has(j, x)
    <3> DEFINE n == Number(x, q.prefix)
    <3>1. n \in Nat /\ q.lo <= n /\ n <= q.hi /\ Numbered(q, n) = x
      BY <1>8, <2>2, WithinNumbered
    <3> HIDE DEF n
    <3>2. j.lo <= n /\ n <= j.hi /\ Numbered(j, n) = x
      BY <1>1, <1>6, <2>1, <3>1
    <3> QED
      BY <2>1, <3>1, <3>2, NumberedWithin
  <2>3. ASSUME Has(r, x) PROVE Has(j, x)
    <3> DEFINE n == Number(x, r.prefix)
    <3>1. n \in Nat /\ r.lo <= n /\ n <= r.hi /\ Numbered(r, n) = x
      BY <1>4, <1>8, <2>3, WithinNumbered
    <3> HIDE DEF n
    <3>2. j.lo <= n /\ n <= j.hi /\ Numbered(j, n) = x
      BY <1>1, <1>2, <1>6, <2>1, <3>1
    <3> QED
      BY <2>1, <3>1, <3>2, NumberedWithin
  <2>4. ASSUME Has(j, x) PROVE Has(q, x) \/ Has(r, x)
    <3> DEFINE n == Number(x, j.prefix)
    <3>1. n \in Nat /\ j.lo <= n /\ n <= j.hi /\ Numbered(j, n) = x
      BY <2>1, <2>4, WithinNumbered
    <3> HIDE DEF n
    <3>2. q.lo <= n /\ n <= top
      BY <2>1, <3>1
    <3>3. CASE n <= q.hi
      <4>1. Numbered(q, n) = x
        BY <1>1, <2>1, <3>1, <3>2
      <4>2. Has(q, x)
        BY <1>8, <3>1, <3>2, <3>3, <4>1, NumberedWithin
      <4> QED
        BY <4>2
    <3>4. CASE ~(n <= q.hi)
      <4>1. r.lo <= n /\ n <= r.hi
        BY <1>1, <1>2, <1>3, <1>6, <1>8, <3>1, <3>2, <3>4
      <4>2. Numbered(r, n) = x
        BY <1>2, <2>1, <3>1, <4>1
      <4>3. Has(r, x)
        BY <1>4, <1>8, <3>1, <4>1, <4>2, NumberedWithin
      <4> QED
        BY <4>3
    <3> QED
      BY <3>3, <3>4
  <2> QED
    BY <2>2, <2>3, <2>4 DEF j, top
<1> QED
  BY <1>7, <1>8

\* The range that the join has come to, when it has just taken in u.
Covers(q, u) == SamePrefix(q, u) /\ q.lo <= u.lo /\ Fits(u.lo, u.width, q.width)

\* In the order of hostlist_uniq, what can still be joined does not begin before it.
LEMMA InOrder ==
  ASSUME NEW q \in GoodRanges, NEW u \in GoodRanges, NEW r \in GoodRanges, 
         Covers(q, u), NotAfter(u, r), Duplicated(q, r) >= 0
  PROVE  q.lo <= r.lo
<1>1. /\ q.lo \in Nat /\ u.lo \in Nat /\ r.lo \in Nat /\ u.prefix \in HostNames
      /\ q.width \in Nat /\ u.width \in Nat /\ r.width \in Nat
  BY GoodIs
<1>2. SamePrefix(q, r) /\ Combine(q, r)
  BY JoinableIs
<1>3. q.lo <= u.lo /\ Fits(u.lo, u.width, q.width) /\ u.prefix = r.prefix /\ u.singlehost = r.singlehost
  BY <1>2 DEF Covers, SamePrefix
<1>4. ~PrefixBefore(u.prefix, u.prefix)
  <2> DEFINE p == u.prefix
  <2>1. p.stem \in DOMAIN Rank /\ p.len \in Nat /\ p.val \in Nat
    BY <1>1 DEF HostNames
  <2>2. Rank[p.stem] \in Int
    BY <2>1, HostlistAssumption
  <2> HIDE DEF p
  <2>3. ~(Rank[p.stem] < Rank[p.stem]) /\ ~(p.len < p.len) /\ ~(p.val < p.val)
    BY <2>1, <2>2
  <2>4. ~PrefixBefore(p, p)
    BY <2>3 DEF PrefixBefore
  <2> QED
    BY <2>4 DEF p
<1>5. IF Combine(u, r) THEN u.lo <= r.lo ELSE u.width <= r.width
  BY <1>3, <1>4 DEF NotAfter
<1>6. CASE Combine(u, r)
  BY <1>1, <1>3, <1>5, <1>6
<1>7. CASE ~Combine(u, r)
  <2>1. u.width <= r.width
    BY <1>5, <1>7
  <2>2. ~Fits(u.lo, u.width, r.width) /\ ~Fits(r.lo, u.width, r.width)
    BY <1>7, CombineIs
  <2>3. Fits(q.lo, q.width, r.width) \/ Fits(r.lo, q.width, r.width)
    BY <1>2, CombineIs
  <2> DEFINE a == NumDigits(u.lo)
             b == NumDigits(r.lo)
             c == NumDigits(q.lo)
  <2>4. a \in Nat /\ b \in Nat /\ c \in Nat /\ c <= a
    BY <1>1, <1>3, DigitsAre, DigitsGrow
  <2>5. /\ u.width # r.width /\ ~(u.width <= a /\ r.width <= a) /\ ~(u.width <= b /\ r.width <= b)
        /\ u.width = q.width \/ (u.width <= a /\ q.width <= a)
        /\ q.width = r.width \/ (q.width <= c /\ r.width <= c) \/ (q.width <= b /\ r.width <= b)
    BY <1>3, <2>2, <2>3 DEF Fits
  <2> HIDE DEF a, b, c
  <2>6. u.width < r.width /\ a < r.width /\ b < r.width
    BY <1>1, <2>1, <2>4, <2>5
  <2>7. q.width < r.width /\ c < r.width
    BY <1>1, <2>4, <2>5, <2>6
  <2> QED
    BY <1>1, <2>4, <2>5, <2>6, <2>7
<1> QED
  BY <1>6, <1>7

LEMMA CoversItself == ASSUME NEW r \in GoodRanges PROVE Covers(r, r)
<1>1. r.lo \in Nat
  BY GoodIs
<1> QED
  BY <1>1 DEF Covers, SamePrefix, Fits

LEMMA CoversJoined ==
  ASSUME NEW q \in GoodRanges, NEW r \in GoodRanges, Duplicated(q, r) >= 0, q.lo <= r.lo
  PROVE  Covers(Joined(q, r, IF q.hi < r.hi THEN r.hi ELSE q.hi), r)
<1> DEFINE j == Joined(q, r, IF q.hi < r.hi THEN r.hi ELSE q.hi)
<1>1. q \in Ranges /\ SamePrefix(q, r) /\ Combine(q, r)
  BY GoodIs, JoinableIs
<1>2. j.prefix = q.prefix /\ j.singlehost = q.singlehost /\ j.lo = q.lo /\ j.width = CommonWidth(q, r)
  BY <1>1 DEF Joined, Ranges
<1>3. Fits(r.lo, r.width, CommonWidth(q, r))
  BY <1>1, CommonFits
<1> HIDE DEF j
<1>4. Covers(j, r)
  BY <1>1, <1>2, <1>3 DEF Covers, SamePrefix
<1> QED
  BY <1>4 DEF j

One(r, x) == IF Has(r, x) THEN 1 ELSE 0

\* One range more at the end.
LEMMA CopiesEnd ==
  ASSUME NEW s \in Seq(GoodRanges), NEW r \in GoodRanges, NEW x \in HostNames
  PROVE  LET t == s \o <<r>>
         IN  /\ t \in Seq(GoodRanges) /\ t # <<>> /\ Last(t) = r
             /\ Copies(s, x) \in Nat /\ Copies(t, x) = Copies(s, x) + One(r, x)
             /\ Total(s) \in Nat /\ Total(t) = Total(s) + Count(r)
<1> DEFINE t == s \o <<r>>
<1>1. <<r>> \in Seq(GoodRanges) /\ t \in Seq(GoodRanges) /\ Len(t) = Len(s) + 1 /\ t[Len(s) + 1] = r
  OBVIOUS
<1>2. t # <<>> /\ Last(t) = r
  BY <1>1 DEF Last
<1>3. NamesOf(t) = NamesOf(s) \o NamesIn(r)
  <2> HIDE DEF t
  <2>1. NamesOf(s \o <<r>>) = NamesOf(s) \o NamesOf(<<r>>)
    BY <1>1, NamesOfConcat
  <2> QED
    BY <2>1, NamesOfOne DEF t
<1>4. NamesOf(s) \in Seq(HostNames) /\ NamesIn(r) \in Seq(HostNames)
  BY NamesOfType, NamesInIs
<1> HIDE DEF t
<1>5. HowOften(NamesOf(s) \o NamesIn(r), x) = HowOften(NamesOf(s), x) + HowOften(NamesIn(r), x)
  BY <1>4, OftenPut
<1>6. HowOften(NamesIn(r), x) = One(r, x)
  BY OnceIn DEF One
<1>7. HowOften(NamesOf(s), x) \in Nat
  BY <1>4, SpotsFinite
<1>8. Copies(s, x) \in Nat /\ Copies(t, x) = Copies(s, x) + One(r, x)
  BY <1>3, <1>5, <1>6, <1>7 DEF Copies
<1>9. Total(s) \in Nat /\ Total(s \o <<r>>) = Total(s) + Total(<<r>>) /\ Total(<<r>>) = Count(r)
  BY <1>1, TotalConcat, TotalOne
<1> QED
  BY <1>1, <1>2, <1>8, <1>9 DEF t

\* What hostlist_uniq does with one more range, in order.
JoinedOf(q, r) == Joined(q, r, IF q.hi < r.hi THEN r.hi ELSE q.hi)
TakesIn(s, r, t, x) ==
  /\ t \in Seq(GoodRanges) /\ t # <<>>
  /\ Copies(s, x) \in Nat /\ Copies(t, x) \in Nat /\ Total(s) \in Nat /\ Total(t) \in Nat
  /\ Copies(t, x) <= Copies(s, x) + One(r, x)
  /\ Copies(s, x) + One(r, x) > 0 => Copies(t, x) > 0
  /\ Total(t) <= Total(s) + Count(r)

LEMMA JoinStep ==
  ASSUME NEW l \in OpenLists, NEW r \in GoodRanges, NEW x \in HostNames,
         l.hr # <<>> /\ Duplicated(Last(l.hr), r) >= 0 => Last(l.hr).lo <= r.lo
  PROVE  LET m == AttemptJoin(l, r)
         IN  /\ TakesIn(l.hr, r, m.hr, x)
             /\ \/ Last(m.hr) = r
                \/ /\ l.hr # <<>> /\ Last(l.hr) \in GoodRanges /\ Duplicated(Last(l.hr), r) >= 0 
                   /\ Last(m.hr) = JoinedOf(Last(l.hr), r)
<1> DEFINE m == AttemptJoin(l, r)
           q == Last(l.hr)
           d == Duplicated(q, r)
           j == JoinedOf(q, r)
<1>1. l \in [nhosts : Int, hr : Seq(GoodRanges)] /\ l.hr \in Seq(GoodRanges)
  BY DEF OpenLists
<1>2. Count(r) \in Nat /\ One(r, x) \in Nat /\ One(r, x) <= 1
  BY NamesInIs DEF One
<1>3. CASE l.hr = <<>> \/ d < 0
  <2>1. m.hr = Append(l.hr, r)
    BY <1>1, <1>3 DEF AttemptJoin
  <2>2. m.hr = l.hr \o <<r>>
    BY <1>1, <2>1
  <2>3. /\ l.hr \o <<r>> \in Seq(GoodRanges) /\ l.hr \o <<r>> # <<>> /\ Last(l.hr \o <<r>>) = r
        /\ Copies(l.hr, x) \in Nat /\ Copies(l.hr \o <<r>>, x) = Copies(l.hr, x) + One(r, x)
        /\ Total(l.hr) \in Nat /\ Total(l.hr \o <<r>>) = Total(l.hr) + Count(r)
    BY <1>1, CopiesEnd
  <2> HIDE DEF m, q, d, j
  <2>4. TakesIn(l.hr, r, m.hr, x) /\ Last(m.hr) = r
    BY <1>2, <2>2, <2>3 DEF TakesIn
  <2> QED
    BY <2>4 DEF m
<1>4. CASE l.hr # <<>> /\ ~(d < 0)
  <2>1. Front(l.hr) \in Seq(GoodRanges) /\ q \in GoodRanges /\ l.hr = Front(l.hr) \o <<q>>
    BY <1>1, <1>4, LastIs
  <2>2. m.hr = Front(l.hr) \o <<j>>
    BY <1>4 DEF AttemptJoin, JoinedOf
  <2> HIDE DEF q
  <2>3. d \in Int /\ (d >= 0 => j \in GoodRanges /\ Count(j) = Count(q) + Count(r) - d)
    BY <2>1, DuplicatedIs DEF JoinedOf
  <2>4. d >= 0
    <3> HIDE DEF d
    <3> QED
      BY <1>4, <2>3
  <2>5. q.lo <= r.lo
    BY <1>4, <2>4 DEF q
  <2>6. Has(j, x) <=> Has(q, x) \/ Has(r, x)
    BY <2>1, <2>4, <2>5, JoinedWithin DEF JoinedOf
  <2> HIDE DEF d, j, m
  <2>7. j \in GoodRanges /\ Count(j) = Count(q) + Count(r) - d
    BY <2>3, <2>4
  <2>8. One(j, x) <= One(q, x) + One(r, x) /\ One(j, x) \in Nat /\ One(q, x) \in Nat
        /\ (One(q, x) + One(r, x) > 0 => One(j, x) > 0)
    BY <2>6 DEF One
  <2> DEFINE f == Front(l.hr)
  <2>9. f \in Seq(GoodRanges) /\ l.hr = f \o <<q>> /\ m.hr = f \o <<j>>
    BY <2>1, <2>2
  <2> HIDE DEF f
  <2>10. /\ Copies(f, x) \in Nat /\ Copies(f \o <<q>>, x) = Copies(f, x) + One(q, x)
         /\ Total(f) \in Nat /\ Total(f \o <<q>>) = Total(f) + Count(q)
    BY <2>1, <2>9, CopiesEnd
  <2>11. /\ f \o <<j>> \in Seq(GoodRanges) /\ f \o <<j>> # <<>> /\ Last(f \o <<j>>) = j
         /\ Copies(f \o <<j>>, x) = Copies(f, x) + One(j, x)
         /\ Total(f \o <<j>>) = Total(f) + Count(j)
    BY <2>7, <2>9, CopiesEnd
  <2>12. Count(q) \in Nat /\ Count(j) \in Nat
    BY <2>1, <2>7, NamesInIs
  <2> DEFINE C == Copies(f, x)
             T == Total(f)
             A == One(q, x)
             B == One(r, x)
             J == One(j, x)
             cq == Count(q)
             cr == Count(r)
             cj == Count(j)
  <2>13. /\ Copies(l.hr, x) = C + A /\ Copies(m.hr, x) = C + J
         /\ Total(l.hr) = T + cq /\ Total(m.hr) = T + cj
    BY <2>9, <2>10, <2>11
  <2>14. /\ C \in Nat /\ T \in Nat /\ A \in Nat /\ B \in Nat /\ J \in Nat /\ cq \in Nat /\ cr \in Nat /\ cj \in Nat
         /\ J <= A + B /\ (A + B > 0 => J > 0) /\ cj = cq + cr - d /\ d \in Int /\ d >= 0
    BY <1>2, <2>3, <2>4, <2>7, <2>8, <2>10, <2>12
  <2>15. m.hr \in Seq(GoodRanges) /\ m.hr # <<>> /\ Last(m.hr) = j
    BY <2>9, <2>11
  <2>16. TakesIn(l.hr, r, m.hr, x)
    <3>1. TakesIn(l.hr, r, m.hr, x) <=>
            /\ m.hr \in Seq(GoodRanges) /\ m.hr # <<>>
            /\ C + A \in Nat /\ C + J \in Nat /\ T + cq \in Nat /\ T + cj \in Nat
            /\ C + J <= (C + A) + B
            /\ (C + A) + B > 0 => C + J > 0
            /\ T + cj <= (T + cq) + cr
      BY <2>13 DEF TakesIn
    <3> HIDE DEF C, T, A, B, J, cq, cr, cj
    <3>2. /\ C + A \in Nat /\ C + J \in Nat /\ T + cq \in Nat /\ T + cj \in Nat
          /\ C + J <= (C + A) + B
          /\ (C + A) + B > 0 => C + J > 0
          /\ T + cj <= (T + cq) + cr
      <4>1. C + A \in Nat /\ C + J \in Nat /\ T + cq \in Nat /\ T + cj \in Nat
        BY <2>14
      <4>2. C + J <= (C + A) + B
        BY <2>14
      <4>3. (C + A) + B > 0 => C + J > 0
        BY <2>14
      <4>4. cj <= cq + cr
        BY <2>14
      <4>5. T + cj <= (T + cq) + cr
        BY <2>14, <4>4
      <4> QED
        BY <4>1, <4>2, <4>3, <4>5
    <3> QED
      BY <2>15, <3>1, <3>2
  <2> QED
    BY <1>4, <2>1, <2>4, <2>15, <2>16 DEF m, q, d, j
<1> QED
  <2>1. l.hr = <<>> \/ d < 0 \/ (l.hr # <<>> /\ ~(d < 0))
    OBVIOUS
  <2> QED
    BY <1>3, <1>4, <2>1

\* After k ranges: no more names than they have, each of them, and a range that covers
\* the last of them at the end.
Reached(s, k, t, x) ==
  /\ t \in Seq(GoodRanges) /\ Copies(t, x) \in Nat /\ Total(t) \in Nat
  /\ Copies(t, x) <= Copies(SubSeq(s, 1, k), x)
  /\ Copies(SubSeq(s, 1, k), x) > 0 => Copies(t, x) > 0
  /\ Total(t) <= Total(SubSeq(s, 1, k))
  /\ k = 0 => t = <<>>
  /\ k > 0 => t # <<>> /\ Last(t) \in GoodRanges /\ Covers(Last(t), s[k])

LEMMA JoinReaches ==
  ASSUME NEW s \in Seq(GoodRanges), Sorted(s), NEW x \in HostNames, NEW k \in 1..Len(s),
         NEW l \in OpenLists, Reached(s, k - 1, l.hr, x)
  PROVE  Reached(s, k, AttemptJoin(l, s[k]).hr, x)
<1> DEFINE r == s[k]
           q == Last(l.hr)
           t == AttemptJoin(l, r).hr
<1>1. Len(s) \in Nat /\ k \in Nat /\ k >= 1 /\ k <= Len(s) /\ r \in GoodRanges
  OBVIOUS
<1>2. ASSUME l.hr # <<>> PROVE q \in GoodRanges /\ (Duplicated(q, r) >= 0 => q.lo <= r.lo)
  <2>1. k - 1 > 0
    BY <1>1, <1>2 DEF Reached
  <2>2. q \in GoodRanges /\ Covers(q, s[k - 1])
    BY <2>1 DEF Reached
  <2>3. k - 1 \in 1..Len(s) - 1 /\ s[k - 1] \in GoodRanges /\ (k - 1) + 1 = k
    BY <1>1, <2>1
  <2>4. NotAfter(s[k - 1], r)
    BY <2>3 DEF Sorted
  <2> HIDE DEF q, r
  <2>5. Duplicated(q, r) >= 0 => q.lo <= r.lo
    BY <1>1, <2>2, <2>3, <2>4, InOrder
  <2> QED
    BY <2>2, <2>5
<1>3. /\ TakesIn(l.hr, r, t, x)
      /\ \/ Last(t) = r
         \/ l.hr # <<>> /\ q \in GoodRanges /\ Duplicated(q, r) >= 0 /\ Last(t) = JoinedOf(q, r)
  <2>1. l.hr # <<>> /\ Duplicated(Last(l.hr), r) >= 0 => Last(l.hr).lo <= r.lo
    BY <1>2
  <2> HIDE DEF r
  <2> QED
    BY <1>1, <2>1, JoinStep
<1>4. Last(t) \in GoodRanges /\ Covers(Last(t), r)
  <2>1. CASE Last(t) = r
    <3> HIDE DEF t, r
    <3> QED
      BY <1>1, <2>1, CoversItself
  <2>2. CASE l.hr # <<>> /\ q \in GoodRanges /\ Duplicated(q, r) >= 0 /\ Last(t) = JoinedOf(q, r)
    <3>1. q.lo <= r.lo
      BY <1>2, <2>2
    <3> HIDE DEF q, r, t
    <3>2. JoinedOf(q, r) \in GoodRanges
      BY <1>1, <2>2, DuplicatedIs DEF JoinedOf
    <3>3. Covers(JoinedOf(q, r), r)
      BY <1>1, <2>2, <3>1, CoversJoined DEF JoinedOf
    <3> QED
      BY <2>2, <3>2, <3>3
  <2> QED
    BY <1>3, <2>1, <2>2
<1>5. /\ Copies(SubSeq(s, 1, k), x) = Copies(SubSeq(s, 1, k - 1), x) + One(r, x)
      /\ Copies(SubSeq(s, 1, k - 1), x) \in Nat
  BY CopiesNext DEF One
<1>6. /\ Count(r) \in Nat /\ Total(SubSeq(s, 1, k - 1)) \in Nat
      /\ Total(SubSeq(s, 1, k)) = Total(SubSeq(s, 1, k - 1)) + Count(r)
  BY TotalUpTo
<1>7. One(r, x) \in Nat
  BY DEF One
<1>8. /\ Copies(l.hr, x) <= Copies(SubSeq(s, 1, k - 1), x)
      /\ Copies(SubSeq(s, 1, k - 1), x) > 0 => Copies(l.hr, x) > 0
      /\ Total(l.hr) <= Total(SubSeq(s, 1, k - 1))
  BY DEF Reached
<1>9. /\ t \in Seq(GoodRanges) /\ t # <<>>
      /\ Copies(l.hr, x) \in Nat /\ Copies(t, x) \in Nat /\ Total(l.hr) \in Nat /\ Total(t) \in Nat
      /\ Copies(t, x) <= Copies(l.hr, x) + One(r, x)
      /\ Copies(l.hr, x) + One(r, x) > 0 => Copies(t, x) > 0
      /\ Total(t) <= Total(l.hr) + Count(r)
  BY <1>3 DEF TakesIn
<1> HIDE DEF r, q, t
<1>10. Copies(t, x) <= Copies(SubSeq(s, 1, k), x)
  BY <1>5, <1>7, <1>8, <1>9
<1>11. Copies(SubSeq(s, 1, k), x) > 0 => Copies(t, x) > 0
  BY <1>5, <1>7, <1>8, <1>9
<1>12. Total(t) <= Total(SubSeq(s, 1, k))
  BY <1>6, <1>8, <1>9
<1>13. Covers(Last(t), s[k]) /\ k # 0
  BY <1>1, <1>4 DEF r
<1>14. Reached(s, k, t, x)
  BY <1>4, <1>9, <1>10, <1>11, <1>12, <1>13 DEF Reached
<1> QED
  BY <1>14 DEF t, r

\* What is left when the ranges, in order, are joined.
LEMMA JoinAllNames ==
  ASSUME NEW s \in Seq(GoodRanges), Sorted(s), NEW n \in Nat, NEW x \in HostNames
  PROVE  Reached(s, Len(s), FoldLeft(AttemptJoin, [hr |-> <<>>, nhosts |-> n], s).hr, x)
<1> DEFINE l == [hr |-> <<>>, nhosts |-> n]
<1>1. Len(s) \in Nat /\ DOMAIN s = 1..Len(s) /\ \A k \in 1..Len(s) : s[k] \in GoodRanges
  OBVIOUS
<1>2. l \in OpenLists /\ l.hr = <<>>
  BY DEF OpenLists
<1> HIDE DEF l
<1>3. CanJoin(OpenLists, Len(s), s)
  BY <1>1, JoinKeeps DEF CanJoin
<1>4. AllJoined(OpenLists, Len(s), s, l)
  BY <1>1, <1>2, <1>3, JoinsAre, Zenon
<1>5. PICK a \in [0..Len(s) -> OpenLists] : 
        /\ a[0] = l /\ (\A k \in 1..Len(s) : a[k] = AttemptJoin(a[k - 1], s[k])) 
        /\ FoldLeft(AttemptJoin, l, s) = a[Len(s)]
  BY <1>4 DEF AllJoined
<1> DEFINE B == {k \in 0..Len(s) : Reached(s, k, a[k].hr, x)}
<1>6. 0 \in B
  <2>1. SubSeq(s, 1, 0) = <<>> /\ 0 \in 0..Len(s) /\ <<>> \in Seq(GoodRanges)
    BY <1>1
  <2>2. a[0].hr = <<>>
    BY <1>2, <1>5
  <2>3. Copies(<<>>, x) = 0 /\ Total(<<>>) = 0
    BY NamesOfNone, NoneOften, TotalNone DEF Copies
  <2>4. Reached(s, 0, a[0].hr, x)
    BY <2>1, <2>2, <2>3 DEF Reached
  <2> QED
    BY <2>1, <2>4
<1>7. ASSUME NEW k \in 1..Len(s), k - 1 \in B PROVE k \in B
  <2>1. k - 1 \in 0..Len(s) /\ k \in 0..Len(s)
    BY <1>1
  <2>2. a[k - 1] \in OpenLists /\ Reached(s, k - 1, a[k - 1].hr, x) /\ a[k] = AttemptJoin(a[k - 1], s[k])
    BY <1>5, <1>7, <2>1
  <2>3. Reached(s, k, AttemptJoin(a[k - 1], s[k]).hr, x)
    BY <2>2, JoinReaches
  <2> QED
    BY <2>1, <2>2, <2>3
<1> HIDE DEF B
<1>8. \A k \in 0..Len(s) : k \in B
  BY <1>1, <1>6, <1>7, Climbs
<1>9. Len(s) \in B
  BY <1>1, <1>8
<1> QED
  BY <1>5, <1>9 DEF B, l

LEMMA TimesIs ==
  ASSUME NEW z \in Seq(HostNames), NEW x 
  PROVE  Log!Times(z, x) = HowOften(z, x) /\ (x \in Log!Names(z) <=> HowOften(z, x) # 0)
<1>1. DOMAIN z = 1..Len(z)
  OBVIOUS
<1>2. Log!Times(z, x) = HowOften(z, x)
  <2>1. Log!Cardinality(Spots(z, x)) = Cardinality(Spots(z, x))
    BY DEF Log!Cardinality, Cardinality
  <2> QED
    BY <1>1, <2>1 DEF Log!Times, HowOften, Spots
<1>3. HowOften(z, x) = 0 <=> Absent(z, x)
  BY SpotsFinite
<1>4. x \in Log!Names(z) <=> ~Absent(z, x)
  BY <1>1 DEF Log!Names, Absent
<1> QED
  BY <1>2, <1>3, <1>4

LEMMA UniqIsLog ==
  ASSUME LogInv, Uniq
  PROVE  Log!Next
<1>1. IInv /\ Alone /\ ret' = <<>> /\ UNCHANGED it
  BY DEF LogInv, Uniq
<1>2. Behind = -1 /\ Behind' = -1 /\ hr \in Seq(GoodRanges)
  BY <1>1, AloneBehind, StillAlone
<1>3. CASE Len(hr) <= 1
  <2>1. Hosts' = Hosts
    BY <1>3 DEF Uniq, Hosts
  <2> QED
    BY <1>1, <1>2, <2>1 DEF Log!Next, Log!Refuse
<1>4. CASE ~(Len(hr) <= 1)
  <2>1. PICK s \in Arrangements(hr) : 
          Sorted(s) /\ Becomes(FoldLeft(AttemptJoin, [hr |-> <<>>, nhosts |-> nhosts], s))
    BY <1>4 DEF Uniq
  <2>2. nhosts \in Nat
    BY <1>1, TotalConcat DEF IInv, Counted
  <2>3. s \in Seq(GoodRanges) /\ Total(s) = Total(hr)
    BY <1>2, ArrangementKeeps
  <2> DEFINE t == FoldLeft(AttemptJoin, [hr |-> <<>>, nhosts |-> nhosts], s).hr
  <2>4. hr' = t
    BY <2>1 DEF Becomes
  <2>5. \A x \in HostNames : Reached(s, Len(s), t, x)
    BY <2>1, <2>2, <2>3, JoinAllNames
  <2>6. SubSeq(s, 1, Len(s)) = s
    BY <2>3
  <2> HIDE DEF t
  <2>7. ASSUME NEW x \in HostNames
        PROVE  /\ t \in Seq(GoodRanges) /\ Copies(t, x) \in Nat /\ Copies(t, x) <= Copies(hr, x)
               /\ Copies(hr, x) > 0 => Copies(t, x) > 0
               /\ Total(t) <= Total(hr)
    <3>1. Copies(s, x) = Copies(hr, x)
      BY <1>2, ArrangedCopies
    <3>2. Reached(s, Len(s), t, x)
      BY <2>5
    <3> QED
      BY <2>3, <2>6, <3>1, <3>2 DEF Reached
  <2>8. t \in Seq(GoodRanges) /\ Total(t) <= Total(hr)
    <3>1. hr[1] \in GoodRanges /\ hr[1].prefix \in HostNames
      <4>1. hr[1] \in GoodRanges
        BY <1>2, <1>4
      <4> QED
        BY <4>1, GoodIs
    <3> QED
      BY <2>7, <3>1
  <2> DEFINE y == NamesOf(hr)
             z == NamesOf(t)
  <2>9. y \in Seq(HostNames) /\ z \in Seq(HostNames) /\ Len(z) <= Len(y)
    BY <1>2, <2>8, NamesOfType DEF Total
  <2>10. Hosts = y /\ Hosts' = z
    BY <2>4 DEF Hosts
  <2>11. \A x \in HostNames : /\ HowOften(z, x) \in Nat /\ HowOften(y, x) \in Nat
                              /\ HowOften(z, x) <= HowOften(y, x) 
                              /\ HowOften(y, x) > 0 => HowOften(z, x) > 0
    <3>1. \A x \in HostNames : HowOften(y, x) \in Nat
      <4> HIDE DEF y, z
      <4> QED
        BY <2>9, SpotsFinite
    <3> QED
      BY <2>7, <3>1 DEF Copies
  <2> HIDE DEF y, z
  <2>12. Log!Names(y) \subseteq HostNames /\ Log!Names(z) \subseteq HostNames
    BY <2>9 DEF Log!Names
  <2>13. \A x \in HostNames : /\ Log!Times(z, x) = HowOften(z, x) /\ (x \in Log!Names(z) <=> HowOften(z, x) # 0)
                              /\ Log!Times(y, x) = HowOften(y, x) /\ (x \in Log!Names(y) <=> HowOften(y, x) # 0)
    BY <2>9, TimesIs
  <2>14. \A x \in HostNames : x \in Log!Names(z) <=> x \in Log!Names(y)
    <3> TAKE x \in HostNames
    <3>1. HowOften(z, x) # 0 <=> HowOften(y, x) # 0
      BY <2>11
    <3> QED
      BY <2>13, <3>1
  <2>15. Log!Names(z) = Log!Names(y)
    BY <2>12, <2>14
  <2>16. \A x \in Log!Names(y) : Log!Times(z, x) <= Log!Times(y, x)
    BY <2>11, <2>12, <2>13
  <2>17. Log!Uniquify
    BY <1>1, <1>2, <2>9, <2>10, <2>15, <2>16 DEF Log!Uniquify, Log!Size
  <2> QED
    BY <2>17 DEF Log!Next
<1> QED
  BY <1>3, <1>4

----------------------------------------------------------------------------
(* The host list is the log of its names. *)

\* Only hostlist_next leaves a name returned while there is an iterator.
LEMMA SeenStep == 
  ASSUME LogInv, [Next]_vars 
  PROVE  Seen'
<1>1. ASSUME ret' = <<>> PROVE Seen'
  BY <1>1 DEF Seen
<1>2. ASSUME NEW tokens \in Inputs, Push(tokens) \/ Delete(tokens) PROVE Seen'
  BY <1>1, <1>2 DEF Push, Delete
<1>3. CASE PopHost \/ ShiftHost
  <2>1. ~it'.on
    BY <1>3 DEF PopHost, ShiftHost, Alone
  <2> QED
    BY <2>1 DEF Seen
<1>4. CASE NothingThere \/ Uniq \/ IteratorCreate \/ IteratorDestroy \/ IteratorRemove
  BY <1>1, <1>4 DEF NothingThere, Uniq, IteratorCreate, IteratorDestroy, IteratorRemove
<1>5. CASE IteratorNext
  <2>1. /\ hr' = hr
        /\ it'.idx > Len(hr) => ret' = <<>> 
        /\ ~(it'.idx > Len(hr)) => ret' = <<NameAt(hr[it'.idx], it'.depth)>>
    BY <1>5, AdvancedIs DEF LogInv
  <2> QED
    BY <2>1 DEF Seen
<1>6. CASE UNCHANGED vars
  BY <1>6 DEF LogInv, Seen, vars
<1> QED
  BY <1>2, <1>3, <1>4, <1>5, <1>6 DEF Next

LEMMA LogInductive ==
  /\ Init => LogInv
  /\ LogInv /\ [Next]_vars => LogInv'
<1>1. Init => Seen
  BY DEF Init, Seen, NoIterator
<1> QED
  BY <1>1, Inductive, SeenStep DEF LogInv

LEMMA InitIsLog == Init => Log!Init
<1> SUFFICES ASSUME Init PROVE Log!Init
  OBVIOUS
<1>1. Hosts = <<>> /\ Behind = -1
  BY NamesOfNone DEF Init, Hosts, Behind, NoIterator
<1> QED
  BY <1>1 DEF Init, Log!Init

LEMMA StepIsLog == LogInv /\ [Next]_vars => [Log!Next]_(Log!logVars)
<1> SUFFICES ASSUME LogInv, [Next]_vars PROVE [Log!Next]_(Log!logVars)
  OBVIOUS
<1>1. ASSUME NEW tokens \in Inputs, Push(tokens) PROVE Log!Next
  BY <1>1, PushIsLog
<1>2. ASSUME NEW tokens \in Inputs, Delete(tokens) PROVE Log!Next
  BY <1>2, DeleteIsLog
<1>3. CASE PopHost
  BY <1>3, PopHostIsLog
<1>4. CASE ShiftHost
  BY <1>4, ShiftHostIsLog
<1>5. CASE NothingThere
  BY <1>5, NothingThereIsLog
<1>6. CASE Uniq
  BY <1>6, UniqIsLog
<1>7. CASE IteratorCreate
  BY <1>7, IteratorCreateIsLog
<1>8. CASE IteratorDestroy
  BY <1>8, IteratorDestroyIsLog
<1>9. CASE IteratorNext
  BY <1>9, IteratorNextIsLog
<1>10. CASE IteratorRemove
  BY <1>10, IteratorRemoveIsLog
<1>11. CASE UNCHANGED vars
  BY <1>11 DEF vars, Log!logVars, Hosts, Behind
<1> QED
  BY <1>1, <1>2, <1>3, <1>4, <1>5, <1>6, <1>7, <1>8, <1>9, <1>10, <1>11 DEF Next

\* However the ranges are parsed, joined, split, padded anew and sorted, a host list is a
\* sequence of names: what a push adds at its end, a delete takes away, pop and shift
\* return and hostlist_uniq keeps, and a loop that removes hosts as it goes passes over
\* none of the others.  This is what hostlist.h says, but for the names with a number
\* above MAX_HOST_SUFFIX: of those hostlist_delete may leave some that it is to delete
\* (hostlist.c:503, hostlist.h:212), and that is all it does wrong.
THEOREM HostlistIsLog == Spec => IsHostlistLog
<1>1. Init /\ [][Next]_vars => []LogInv
  BY LogInductive, PTL
<1>2. Init => Log!Init
  BY InitIsLog
<1>3. LogInv /\ [Next]_vars => [Log!Next]_(Log!logVars)
  BY StepIsLog
<1> QED
  BY <1>1, <1>2, <1>3, PTL DEF Spec, IsHostlistLog, Log!Spec

----------------------------------------------------------------------------
(* After hostlist_uniq no host is there twice. *)

\* The order of the prefixes.
Upto(p, q) == p = q \/ PrefixBefore(p, q)

LEMMA PrefixOrder ==
  ASSUME NEW p \in HostNames, NEW q \in HostNames, NEW r \in HostNames
  PROVE  /\ ~PrefixBefore(p, p)
         /\ PrefixBefore(p, q) /\ PrefixBefore(q, r) => PrefixBefore(p, r)
<1>1. /\ p.stem \in DOMAIN Rank /\ p.len \in Nat /\ p.val \in Nat
      /\ q.stem \in DOMAIN Rank /\ q.len \in Nat /\ q.val \in Nat
      /\ r.stem \in DOMAIN Rank /\ r.len \in Nat /\ r.val \in Nat
  BY DEF HostNames
<1>2. Rank[p.stem] \in Int /\ Rank[q.stem] \in Int /\ Rank[r.stem] \in Int
  BY <1>1, HostlistAssumption
<1>3. ~PrefixBefore(p, p)
  BY <1>1, <1>2 DEF PrefixBefore
<1>4. ASSUME PrefixBefore(p, q), PrefixBefore(q, r) PROVE PrefixBefore(p, r)
  <2>1. \/ Rank[p.stem] < Rank[q.stem]
        \/ p.stem = q.stem /\ (p.len < q.len \/ (p.len = q.len /\ p.val < q.val))
    BY <1>4 DEF PrefixBefore
  <2>2. \/ Rank[q.stem] < Rank[r.stem]
        \/ q.stem = r.stem /\ (q.len < r.len \/ (q.len = r.len /\ q.val < r.val))
    BY <1>4 DEF PrefixBefore
  <2>3. CASE Rank[p.stem] < Rank[q.stem]
    <3>1. Rank[p.stem] < Rank[r.stem]
      BY <1>2, <2>2, <2>3
    <3> QED
      BY <3>1 DEF PrefixBefore
  <2>4. CASE p.stem = q.stem /\ Rank[q.stem] < Rank[r.stem]
    BY <2>4 DEF PrefixBefore
  <2>5. CASE /\ p.stem = q.stem /\ (p.len < q.len \/ (p.len = q.len /\ p.val < q.val))
             /\ q.stem = r.stem /\ (q.len < r.len \/ (q.len = r.len /\ q.val < r.val))
    <3>1. p.len < r.len \/ (p.len = r.len /\ p.val < r.val)
      BY <1>1, <2>5
    <3> QED
      BY <2>5, <3>1 DEF PrefixBefore
  <2> QED
    BY <2>1, <2>2, <2>3, <2>4, <2>5
<1> QED
  BY <1>3, <1>4

\* Widths that do for one number make one class.
LEMMA FitsBoth ==
  ASSUME NEW n \in Nat, NEW u \in Nat, NEW v \in Nat, NEW w \in Nat, Fits(n, u, v), Fits(n, u, w)
  PROVE  Fits(n, v, w)
<1>1. NumDigits(n) \in Nat
  BY DigitsAre
<1> QED
  BY <1>1 DEF Fits

\* Ranges that are written alike and have a name in common have one prefix.
LEMMA SharedPrefix ==
  ASSUME NEW q \in GoodRanges, NEW r \in GoodRanges, Alike(q, r), NEW x \in HostNames,
         Has(q, x), Has(r, x)
  PROVE  SamePrefix(q, r)
<1>1. q.singlehost \in BOOLEAN /\ r.singlehost \in BOOLEAN
      /\ (~q.singlehost => NoTail(q.prefix)) /\ (~r.singlehost => NoTail(r.prefix))
  BY GoodIs
<1>2. q.prefix.stem = x.stem /\ q.prefix.tail = x.tail
  BY <1>1 DEF Has, NoTail
<1>3. r.prefix.stem = x.stem /\ r.prefix.tail = x.tail
  BY <1>1 DEF Has, NoTail
<1> QED
  BY <1>2, <1>3 DEF Alike, SamePrefix

\* A name of a list is in one of its ranges.
LEMMA HeldSome ==
  ASSUME NEW s \in Seq(GoodRanges), NEW x \in HostNames, NEW m \in 0..Len(s), 
         Copies(SubSeq(s, 1, m), x) > 0
  PROVE  \E n \in 1..m : Has(s[n], x)
<1> SUFFICES ASSUME \A n \in 1..m : ~Has(s[n], x) PROVE FALSE
  OBVIOUS
<1>1. Absent(NamesOf(SubSeq(s, 1, m)), x)
  BY NoneFound
<1>2. SubSeq(s, 1, m) \in Seq(GoodRanges)
  OBVIOUS
<1>3. NamesOf(SubSeq(s, 1, m)) \in Seq(HostNames)
  BY <1>2, NamesOfType
<1>4. Copies(SubSeq(s, 1, m), x) = 0
  BY <1>1, <1>3, SpotsFinite DEF Copies
<1> QED
  BY <1>4

LEMMA ArrangedAlike ==
  ASSUME NEW s \in Seq(GoodRanges), NEW t \in Arrangements(s), AllAlike(s)
  PROVE  AllAlike(t)
<1>1. PICK p \in [DOMAIN s -> DOMAIN s] : t = [k \in DOMAIN s |-> s[p[k]]]
  BY DEF Arrangements
<1>2. ASSUME NEW j \in DOMAIN t, NEW k \in DOMAIN t PROVE Alike(t[j], t[k])
  <2>1. p[j] \in DOMAIN s /\ p[k] \in DOMAIN s /\ t[j] = s[p[j]] /\ t[k] = s[p[k]]
    BY <1>1
  <2> QED
    BY <2>1 DEF AllAlike
<1> QED
  BY <1>2 DEF AllAlike

\* After k ranges: prefixes in order, the last range as far as any of its prefix, and no
\* name twice.
Once(s, k, t) ==
  /\ \A n \in 1..k : /\ Upto(s[n].prefix, s[k].prefix) 
                     /\ SamePrefix(s[n], s[k]) => s[n].hi <= Last(t).hi
  /\ \A x \in HostNames : Copies(t, x) <= 1
ReachedAll(s, k, t) == \A x \in HostNames : Reached(s, k, t, x)

LEMMA OnceUpto ==
  ASSUME NEW s \in Seq(GoodRanges), Sorted(s), NEW k \in 1..Len(s), NEW t, Once(s, k - 1, t)
  PROVE  \A n \in 1..k : Upto(s[n].prefix, s[k].prefix)
<1> TAKE n \in 1..k
<1>1. Len(s) \in Nat /\ k \in Nat /\ k >= 1 /\ k <= Len(s)
  OBVIOUS
<1>2. CASE n = k
  BY <1>2 DEF Upto
<1>3. CASE n # k
  <2>1. n \in 1..k - 1 /\ k - 1 \in 1..Len(s) - 1 /\ (k - 1) + 1 = k /\ n \in 1..Len(s) /\ k - 1 \in 1..Len(s)
    BY <1>1, <1>3
  <2>2. Upto(s[n].prefix, s[k - 1].prefix)
    BY <2>1 DEF Once
  <2>3. NotAfter(s[k - 1], s[k])
    BY <2>1 DEF Sorted
  <2>4. Upto(s[k - 1].prefix, s[k].prefix)
    BY <2>3 DEF NotAfter, Upto, SamePrefix
  <2>5. s[n].prefix \in HostNames /\ s[k - 1].prefix \in HostNames /\ s[k].prefix \in HostNames
    <3>1. s[n] \in GoodRanges /\ s[k - 1] \in GoodRanges /\ s[k] \in GoodRanges
      BY <2>1
    <3> QED
      BY <3>1, GoodIs
  <2> DEFINE a == s[n].prefix
             b == s[k - 1].prefix
             c == s[k].prefix
  <2>6. PrefixBefore(a, b) /\ PrefixBefore(b, c) => PrefixBefore(a, c)
    BY <2>5, PrefixOrder
  <2> QED
    BY <2>2, <2>4, <2>6 DEF Upto
<1> QED
  BY <1>2, <1>3

\* What a range that comes next, with the prefix of one before it, meets.
Meets(q, r, u) == 
  /\ q \in GoodRanges /\ SamePrefix(q, r) /\ Combine(q, r) /\ q.lo <= r.lo /\ Fits(r.lo, q.width, r.width)
  /\ u.hi <= q.hi

LEMMA NextMeets ==
  ASSUME NEW s \in Seq(GoodRanges), Sorted(s), AllAlike(s), NEW k \in 1..Len(s),
         NEW x \in HostNames, NEW t, Reached(s, k - 1, t, x), Once(s, k - 1, t),
         NEW n \in 1..k - 1, SamePrefix(s[n], s[k])
  PROVE  t # <<>> /\ Meets(Last(t), s[k], s[n])
<1> DEFINE r == s[k]
           u == s[k - 1]
           q == Last(t)
<1>1. /\ Len(s) \in Nat /\ k \in Nat /\ k - 1 > 0 /\ k <= Len(s) /\ k - 1 \in 1..Len(s) - 1 /\ (k - 1) + 1 = k
      /\ n \in 1..Len(s) /\ k - 1 \in 1..Len(s) /\ k \in 1..k /\ k - 1 \in 1..k /\ n \in 1..k
      /\ n \in DOMAIN s /\ k - 1 \in DOMAIN s /\ k \in DOMAIN s
  OBVIOUS
<1>2. r \in GoodRanges /\ u \in GoodRanges /\ s[n] \in GoodRanges
  BY <1>1
<1>3. t # <<>> /\ q \in GoodRanges /\ Covers(q, u)
  BY <1>1 DEF Reached
<1>4. r.prefix \in HostNames /\ u.prefix \in HostNames /\ s[n].prefix \in HostNames
      /\ r.lo \in Nat /\ u.lo \in Nat /\ q.lo \in Nat /\ r.width \in Nat /\ u.width \in Nat /\ q.width \in Nat
  BY <1>2, <1>3, GoodIs
<1>5. u.prefix = r.prefix
  <2>1. Upto(u.prefix, r.prefix)
    BY <1>1, OnceUpto
  <2>2. Upto(s[n].prefix, u.prefix)
    BY DEF Once
  <2>3. s[n].prefix = r.prefix
    BY DEF SamePrefix
  <2> DEFINE a == r.prefix
             b == u.prefix
  <2>4. ~PrefixBefore(a, a) /\ (PrefixBefore(a, b) /\ PrefixBefore(b, a) => PrefixBefore(a, a))
    BY <1>4, PrefixOrder
  <2> HIDE DEF a, b
  <2>5. Upto(b, a) /\ Upto(a, b)
    BY <2>1, <2>2, <2>3 DEF a, b
  <2>6. a = b
    BY <2>4, <2>5 DEF Upto
  <2> QED
    BY <2>6 DEF a, b
<1>6. SamePrefix(u, r) /\ Combine(u, r)
  <2>1. Alike(u, r)
    BY <1>1 DEF AllAlike
  <2> QED
    BY <1>5, <2>1 DEF Alike, SamePrefix
<1>7. u.lo <= r.lo
  <2>1. NotAfter(u, r)
    BY <1>1 DEF Sorted
  <2>2. ~PrefixBefore(u.prefix, u.prefix)
    BY <1>4, PrefixOrder
  <2> QED
    BY <1>5, <1>6, <2>1, <2>2 DEF NotAfter, SamePrefix
<1> HIDE DEF r, u, q
<1>8. Fits(r.lo, u.width, r.width)
  <2>1. Fits(u.lo, u.width, r.width) \/ Fits(r.lo, u.width, r.width)
    BY <1>2, <1>6, CombineIs
  <2> QED
    BY <1>4, <1>7, <2>1, FitsLater
<1>9. Fits(r.lo, u.width, q.width)
  BY <1>3, <1>4, <1>7, FitsLater DEF Covers
<1>10. Fits(r.lo, q.width, r.width)
  BY <1>4, <1>8, <1>9, FitsBoth
<1>11. Combine(q, r)
  BY <1>2, <1>3, <1>10, CombineIs
<1>12. SamePrefix(q, r) /\ q.lo <= r.lo
  BY <1>3, <1>4, <1>6, <1>7 DEF Covers, SamePrefix
<1>13. SamePrefix(s[n], u)
  BY <1>6 DEF SamePrefix, r
<1>14. s[n].hi <= q.hi
  BY <1>13 DEF Once, u, q
<1>15. Meets(q, r, s[n])
  BY <1>3, <1>10, <1>11, <1>12, <1>14 DEF Meets
<1> QED
  BY <1>3, <1>15 DEF q, r

\* A name of both u and r is one of q.
LEMMA MetWithin ==
  ASSUME NEW q \in GoodRanges, NEW r \in GoodRanges, NEW u \in GoodRanges, Meets(q, r, u), SamePrefix(u, r),
         NEW x \in HostNames, Has(r, x), Has(u, x)
  PROVE  Has(q, x) /\ Duplicated(q, r) >= 0
<1>1. /\ q.lo \in Nat /\ q.hi \in Nat /\ r.lo \in Nat /\ r.hi \in Nat /\ u.hi \in Nat 
      /\ q.width \in Nat /\ r.width \in Nat /\ q.singlehost \in BOOLEAN /\ Count(r) = r.hi - r.lo + 1 /\ r.lo <= r.hi
  BY GoodIs
<1>2. /\ SamePrefix(q, r) /\ Combine(q, r) /\ q.lo <= r.lo /\ Fits(r.lo, q.width, r.width) /\ u.hi <= q.hi
      /\ q.prefix = r.prefix /\ q.singlehost = r.singlehost /\ u.prefix = r.prefix /\ u.singlehost = r.singlehost
  BY DEF Meets, SamePrefix
<1>3. CASE q.singlehost
  <2>1. Has(q, x)
    BY <1>2, <1>3 DEF Has
  <2>2. Duplicated(q, r) = 1
    BY <1>2, <1>3 DEF Duplicated
  <2> QED
    BY <2>1, <2>2
<1>4. CASE ~q.singlehost
  <2> DEFINE n == Number(x, r.prefix)
  <2>1. n \in Nat /\ r.lo <= n /\ n <= r.hi /\ Numbered(r, n) = x
    BY <1>2, <1>4, WithinNumbered
  <2>2. n <= u.hi
    BY <1>2, <1>4, WithinNumbered
  <2> HIDE DEF n
  <2>3. q.lo <= n /\ n <= q.hi
    BY <1>1, <1>2, <2>1, <2>2
  <2>4. Fits(n, q.width, r.width)
    BY <1>1, <1>2, <2>1, FitsLater
  <2>5. Numbered(q, n) = x
    <3>1. Format(r.prefix, n, q.width) = Format(r.prefix, n, r.width)
      BY <1>1, <2>1, <2>4, FormatSame
    <3> QED
      BY <1>2, <2>1, <3>1 DEF Numbered
  <2>6. Has(q, x)
    BY <1>4, <2>1, <2>3, <2>5, NumberedWithin
  <2>7. q.hi # r.lo - 1 /\ ~(q.hi < r.lo)
    BY <1>1, <2>1, <2>3
  <2>8. Duplicated(q, r) = IF q.hi < r.hi THEN q.hi - r.lo + 1 ELSE Count(r)
    BY <1>2, <1>4, <2>7 DEF Duplicated
  <2>9. Duplicated(q, r) >= 0
    BY <1>1, <2>7, <2>8
  <2> QED
    BY <2>6, <2>9
<1> QED
  BY <1>3, <1>4

\* One range more is put at the end, or joined to the last.
JoinedTo(t, r, u) == 
  \/ (t = <<>> \/ Duplicated(Last(t), r) < 0) /\ u = t \o <<r>>
  \/ /\ t # <<>> /\ Last(t) \in GoodRanges /\ Duplicated(Last(t), r) >= 0 /\ JoinedOf(Last(t), r) \in GoodRanges
     /\ \E f \in Seq(GoodRanges) : t = f \o <<Last(t)>> /\ u = f \o <<JoinedOf(Last(t), r)>>

LEMMA JoinShape ==
  ASSUME NEW l \in OpenLists, NEW r \in GoodRanges
  PROVE  JoinedTo(l.hr, r, AttemptJoin(l, r).hr)
<1> DEFINE m == AttemptJoin(l, r)
           q == Last(l.hr)
           d == Duplicated(q, r)
<1>1. l \in [nhosts : Int, hr : Seq(GoodRanges)] /\ l.hr \in Seq(GoodRanges)
  BY DEF OpenLists
<1>2. CASE l.hr = <<>> \/ d < 0
  <2>1. m.hr = Append(l.hr, r)
    BY <1>1, <1>2 DEF AttemptJoin
  <2>2. m.hr = l.hr \o <<r>>
    BY <1>1, <2>1
  <2> QED
    BY <1>2, <2>2 DEF JoinedTo
<1>3. CASE l.hr # <<>> /\ ~(d < 0)
  <2>1. Front(l.hr) \in Seq(GoodRanges) /\ q \in GoodRanges /\ l.hr = Front(l.hr) \o <<q>>
    BY <1>1, <1>3, LastIs
  <2>2. m.hr = Front(l.hr) \o <<JoinedOf(q, r)>>
    BY <1>3 DEF AttemptJoin, JoinedOf
  <2> HIDE DEF q, m
  <2>3. d \in Int /\ (d >= 0 => JoinedOf(q, r) \in GoodRanges)
    BY <2>1, DuplicatedIs DEF JoinedOf
  <2>4. d >= 0
    <3> HIDE DEF d
    <3> QED
      BY <1>3, <2>3
  <2> DEFINE f == Front(l.hr)
  <2>5. f \in Seq(GoodRanges) /\ l.hr = f \o <<q>> /\ m.hr = f \o <<JoinedOf(q, r)>>
    BY <2>1, <2>2
  <2> HIDE DEF f
  <2> QED
    BY <1>3, <2>1, <2>3, <2>4, <2>5 DEF JoinedTo, q, m
<1> QED
  <2>1. l.hr = <<>> \/ d < 0 \/ (l.hr # <<>> /\ ~(d < 0))
    OBVIOUS
  <2> QED
    BY <1>2, <1>3, <2>1

\* A range that is not joined to one it meets is past it.
LEMMA PastIt ==
  ASSUME NEW q, NEW r \in GoodRanges, NEW u \in GoodRanges, Meets(q, r, u), Duplicated(q, r) < 0
  PROVE  u.hi <= r.hi
<1>1. /\ q \in GoodRanges /\ SamePrefix(q, r) /\ Combine(q, r) /\ u.hi <= q.hi
  BY DEF Meets
<1>2. /\ q.hi \in Nat /\ r.lo \in Nat /\ r.hi \in Nat /\ u.hi \in Nat /\ r.lo <= r.hi /\ Count(r) = r.hi - r.lo + 1
      /\ q.singlehost \in BOOLEAN
  BY <1>1, GoodIs
<1>3. q.hi < r.lo
  <2> SUFFICES ASSUME ~(q.hi < r.lo) PROVE FALSE
    OBVIOUS
  <2>1. q.hi # r.lo - 1
    BY <1>2
  <2>2. CASE q.singlehost
    <3>1. Duplicated(q, r) = 1
      BY <1>1, <2>2 DEF Duplicated
    <3> QED
      BY <3>1
  <2>3. CASE ~q.singlehost
    <3>1. Duplicated(q, r) = IF q.hi < r.hi THEN q.hi - r.lo + 1 ELSE Count(r)
      BY <1>1, <2>1, <2>3 DEF Duplicated
    <3>2. q.hi - r.lo + 1 \in Nat /\ r.hi - r.lo + 1 \in Nat
      BY <1>2
    <3>3. Duplicated(q, r) = q.hi - r.lo + 1 \/ Duplicated(q, r) = Count(r)
      BY <3>1
    <3> DEFINE d == Duplicated(q, r)
               a == q.hi - r.lo + 1
               b == r.hi - r.lo + 1
    <3>4. a \in Nat /\ b \in Nat /\ (d = a \/ d = b) /\ d < 0
      BY <1>2, <3>2, <3>3
    <3> HIDE DEF a, b, d
    <3> QED
      BY <3>4
  <2> QED
    BY <2>2, <2>3
<1> QED
  BY <1>1, <1>2, <1>3

\* The next range has no name that the list has, or is joined to a range that has it.
MetAll(s, k, t, x) ==
  /\ \A n \in 1..k - 1 : SamePrefix(s[n], s[k]) => t # <<>> /\ Meets(Last(t), s[k], s[n])
  /\ t # <<>> /\ Duplicated(Last(t), s[k]) >= 0 => Last(t).lo <= s[k].lo
  /\ Has(s[k], x) /\ Copies(t, x) > 0 => t # <<>> /\ Duplicated(Last(t), s[k]) >= 0 /\ Has(Last(t), x)

LEMMA NextMeetsAll ==
  ASSUME NEW s \in Seq(GoodRanges), Sorted(s), AllAlike(s), NEW k \in 1..Len(s),
         NEW t, ReachedAll(s, k - 1, t), Once(s, k - 1, t), NEW x \in HostNames
  PROVE  MetAll(s, k, t, x)
<1> DEFINE r == s[k]
<1>1. Reached(s, k - 1, t, x)
  BY DEF ReachedAll
<1>2. /\ Len(s) \in Nat /\ k \in Nat /\ k >= 1 /\ k <= Len(s) /\ k - 1 \in Nat /\ k - 1 \in 0..Len(s) /\ r \in GoodRanges
      /\ k \in DOMAIN s
  OBVIOUS
<1>3. \A n \in 1..k - 1 : SamePrefix(s[n], s[k]) => t # <<>> /\ Meets(Last(t), s[k], s[n])
  BY <1>1, NextMeets
<1>4. ASSUME t # <<>>, Duplicated(Last(t), r) >= 0 PROVE Last(t).lo <= r.lo
  <2> DEFINE q == Last(t)
  <2>1. k - 1 > 0
    BY <1>1, <1>2, <1>4 DEF Reached
  <2>2. q \in GoodRanges /\ Covers(q, s[k - 1])
    BY <1>1, <2>1 DEF Reached
  <2>3. k - 1 \in 1..Len(s) - 1 /\ s[k - 1] \in GoodRanges /\ (k - 1) + 1 = k
    BY <1>2, <2>1
  <2>4. NotAfter(s[k - 1], r)
    BY <2>3 DEF Sorted
  <2> HIDE DEF q, r
  <2>5. Duplicated(q, r) >= 0 => q.lo <= r.lo
    BY <1>2, <2>2, <2>3, <2>4, InOrder
  <2> QED
    BY <1>4, <2>5 DEF q
<1>5. ASSUME Has(r, x), Copies(t, x) > 0 PROVE t # <<>> /\ Duplicated(Last(t), r) >= 0 /\ Has(Last(t), x)
  <2>1. Copies(SubSeq(s, 1, k - 1), x) > 0
    <3>1. Copies(SubSeq(s, 1, k - 1), x) \in Nat
      BY CopiesNext
    <3>2. Copies(t, x) \in Nat /\ Copies(t, x) <= Copies(SubSeq(s, 1, k - 1), x)
      BY <1>1 DEF Reached
    <3> QED
      BY <1>5, <3>1, <3>2
  <2>2. PICK n \in 1..k - 1 : Has(s[n], x)
    BY <1>2, <2>1, HeldSome
  <2>3. s[n] \in GoodRanges /\ n \in DOMAIN s
    BY <1>2
  <2>4. Alike(s[n], r)
    BY <1>2, <2>3 DEF AllAlike
  <2>5. SamePrefix(s[n], r)
    <3> HIDE DEF r
    <3> QED
      BY <1>2, <1>5, <2>2, <2>3, <2>4, SharedPrefix
  <2>6. t # <<>> /\ Meets(Last(t), r, s[n])
    BY <1>3, <2>5
  <2>7. Last(t) \in GoodRanges
    BY <2>6 DEF Meets
  <2> DEFINE q == Last(t)
             u == s[n]
  <2>8. q \in GoodRanges /\ u \in GoodRanges /\ Meets(q, r, u) /\ SamePrefix(u, r) /\ Has(u, x)
    BY <2>2, <2>3, <2>5, <2>6, <2>7
  <2> HIDE DEF q, u, r
  <2>9. Has(q, x) /\ Duplicated(q, r) >= 0
    BY <1>2, <1>5, <2>8, MetWithin
  <2> QED
    BY <2>6, <2>9 DEF q
<1>6. /\ t # <<>> /\ Duplicated(Last(t), s[k]) >= 0 => Last(t).lo <= s[k].lo
  BY <1>4
<1>7. Has(s[k], x) /\ Copies(t, x) > 0 => t # <<>> /\ Duplicated(Last(t), s[k]) >= 0 /\ Has(Last(t), x)
  BY <1>5
<1> QED
  BY <1>3, <1>6, <1>7 DEF MetAll

LEMMA OnceStep ==
  ASSUME NEW s \in Seq(GoodRanges), Sorted(s), AllAlike(s), NEW k \in 1..Len(s),
         NEW l \in OpenLists, ReachedAll(s, k - 1, l.hr), Once(s, k - 1, l.hr)
  PROVE  Once(s, k, AttemptJoin(l, s[k]).hr)
<1> DEFINE r == s[k]
           t == l.hr
           u == AttemptJoin(l, r).hr
           q == Last(t)
           j == JoinedOf(q, r)
<1>1. r \in GoodRanges /\ k \in Nat /\ k >= 1 /\ t \in Seq(GoodRanges) /\ r.prefix \in HostNames /\ r.hi \in Nat
  <2>1. r \in GoodRanges /\ k \in Nat /\ k >= 1 /\ t \in Seq(GoodRanges)
    BY DEF OpenLists
  <2> HIDE DEF r
  <2> QED
    BY <2>1, GoodIs
<1>2. JoinedTo(t, r, u)
  <2> HIDE DEF r
  <2> QED
    BY <1>1, JoinShape
<1>3. \A x \in HostNames : MetAll(s, k, t, x)
  BY NextMeetsAll
<1>4. \A n \in 1..k : Upto(s[n].prefix, s[k].prefix)
  BY OnceUpto
<1>5. \A x \in HostNames : Copies(t, x) <= 1
  BY DEF Once
<1>6. /\ \A n \in 1..k - 1 : s[n] \in GoodRanges /\ (SamePrefix(s[n], r) => t # <<>> /\ Meets(q, r, s[n]))
      /\ t # <<>> /\ Duplicated(q, r) >= 0 => q.lo <= r.lo
  <2>1. Len(s) \in Nat /\ k <= Len(s)
    OBVIOUS
  <2>2. \A n \in 1..k - 1 : s[n] \in GoodRanges
    BY <2>1
  <2> QED
    BY <1>1, <1>3, <2>2 DEF MetAll
<1>7. \A x \in HostNames : Has(r, x) /\ Copies(t, x) > 0 => 
         t # <<>> /\ Duplicated(q, r) >= 0 /\ Has(q, x)
  BY <1>3 DEF MetAll
<1> HIDE DEF r, t, u, q, j
<1>8. CASE (t = <<>> \/ Duplicated(q, r) < 0) /\ u = t \o <<r>>
  <2>1. \A x \in HostNames : /\ Copies(t, x) \in Nat /\ Copies(t \o <<r>>, x) = Copies(t, x) + One(r, x)
                             /\ Last(t \o <<r>>) = r
    BY <1>1, CopiesEnd
  <2>2. Last(u) = r
    BY <1>1, <1>8, <2>1
  <2>3. ASSUME NEW n \in 1..k, SamePrefix(s[n], r) PROVE s[n].hi <= Last(u).hi
    <3>1. CASE n = k
      BY <1>1, <2>2, <3>1 DEF r
    <3>2. CASE n # k
      <4>1. n \in 1..k - 1
        BY <1>1, <3>2
      <4>2. s[n] \in GoodRanges /\ t # <<>> /\ Meets(q, r, s[n])
        BY <1>6, <2>3, <4>1
      <4>3. Duplicated(q, r) < 0
        BY <1>8, <4>2
      <4>4. s[n].hi <= r.hi
        BY <1>1, <4>2, <4>3, PastIt
      <4> QED
        BY <2>2, <4>4
    <3> QED
      BY <3>1, <3>2
  <2>4. ASSUME NEW x \in HostNames PROVE Copies(u, x) <= 1
    <3>1. Copies(t, x) \in Nat /\ Copies(u, x) = Copies(t, x) + One(r, x) /\ Copies(t, x) <= 1
      BY <1>5, <1>8, <2>1
    <3>2. CASE Has(r, x)
      <4>1. ~(Copies(t, x) > 0)
        <5> SUFFICES ASSUME Copies(t, x) > 0 PROVE FALSE
          OBVIOUS
        <5>1. t # <<>> /\ Duplicated(q, r) >= 0
          BY <1>7, <3>2
        <5>2. q \in GoodRanges
          <6> QED
            BY <1>1, <5>1, LastIs DEF q
        <5>3. Duplicated(q, r) \in Int
          BY <1>1, <5>2, DuplicatedIs
        <5> QED
          BY <1>8, <5>1, <5>3
      <4>2. One(r, x) = 1
        BY <3>2 DEF One
      <4> QED
        BY <3>1, <4>1, <4>2
    <3>3. CASE ~Has(r, x)
      <4>1. One(r, x) = 0
        BY <3>3 DEF One
      <4> QED
        BY <3>1, <4>1
    <3> QED
      BY <3>2, <3>3
  <2> QED
    BY <1>4, <2>3, <2>4 DEF Once, r, t, u
<1>9. ASSUME t # <<>>, q \in GoodRanges, Duplicated(q, r) >= 0, j \in GoodRanges, 
             NEW f \in Seq(GoodRanges), t = f \o <<q>>, u = f \o <<j>>
      PROVE  Once(s, k, u)
  <2>1. q.lo <= r.lo
    BY <1>6, <1>9
  <2>2. \A x \in HostNames : /\ Copies(f, x) \in Nat /\ Copies(f \o <<q>>, x) = Copies(f, x) + One(q, x)
                             /\ Copies(f \o <<j>>, x) = Copies(f, x) + One(j, x)
                             /\ Last(f \o <<j>>) = j
    BY <1>9, CopiesEnd
  <2>3. Last(u) = j
    BY <1>1, <1>9, <2>2
  <2>4. q.hi \in Nat /\ q \in Ranges
    BY <1>9, GoodIs
  <2>5. j.hi = IF q.hi < r.hi THEN r.hi ELSE q.hi
    BY <2>4 DEF j, JoinedOf, Joined, Ranges
  <2>6. q.hi <= j.hi /\ r.hi <= j.hi /\ j.hi \in Nat
    BY <1>1, <2>4, <2>5
  <2>7. ASSUME NEW n \in 1..k, SamePrefix(s[n], r) PROVE s[n].hi <= Last(u).hi
    <3>1. CASE n = k
      BY <1>1, <2>3, <2>6, <3>1 DEF r
    <3>2. CASE n # k
      <4>1. n \in 1..k - 1
        BY <1>1, <3>2
      <4>2. s[n] \in GoodRanges /\ Meets(q, r, s[n])
        BY <1>6, <2>7, <4>1
      <4>3. s[n].hi <= q.hi /\ s[n].hi \in Nat
        BY <4>2, GoodIs DEF Meets
      <4> QED
        BY <2>3, <2>4, <2>6, <4>3
    <3> QED
      BY <3>1, <3>2
  <2>8. ASSUME NEW x \in HostNames PROVE Copies(u, x) <= 1
    <3>1. /\ Copies(f, x) \in Nat /\ Copies(t, x) = Copies(f, x) + One(q, x) /\ Copies(u, x) = Copies(f, x) + One(j, x) 
          /\ Copies(t, x) <= 1
      BY <1>5, <1>9, <2>2
    <3>2. Has(j, x) <=> Has(q, x) \/ Has(r, x)
      BY <1>1, <1>9, <2>1, JoinedWithin DEF j, JoinedOf
    <3>3. CASE ~Has(j, x)
      <4>1. One(j, x) = 0 /\ One(q, x) = 0
        BY <3>2, <3>3 DEF One
      <4> QED
        BY <3>1, <4>1
    <3>4. CASE Has(q, x)
      <4>1. One(j, x) = 1 /\ One(q, x) = 1
        BY <3>2, <3>4 DEF One
      <4> QED
        BY <3>1, <4>1
    <3>5. CASE Has(r, x) /\ ~Has(q, x)
      <4>1. One(j, x) = 1 /\ One(q, x) = 0
        BY <3>2, <3>5 DEF One
      <4>2. ~(Copies(t, x) > 0)
        BY <1>7, <3>5
      <4> QED
        BY <3>1, <4>1, <4>2
    <3> QED
      BY <3>2, <3>3, <3>4, <3>5
  <2> QED
    BY <1>4, <2>7, <2>8 DEF Once, r
<1>10. CASE /\ t # <<>> /\ q \in GoodRanges /\ Duplicated(q, r) >= 0 /\ j \in GoodRanges
            /\ \E f \in Seq(GoodRanges) : t = f \o <<q>> /\ u = f \o <<j>>
  <2>1. PICK f \in Seq(GoodRanges) : t = f \o <<q>> /\ u = f \o <<j>>
    BY <1>10
  <2>2. Once(s, k, u)
    BY <1>9, <1>10, <2>1
  <2> QED
    BY <2>2 DEF u, t, r
<1>11. \/ (t = <<>> \/ Duplicated(q, r) < 0) /\ u = t \o <<r>>
       \/ /\ t # <<>> /\ q \in GoodRanges /\ Duplicated(q, r) >= 0 /\ j \in GoodRanges
          /\ \E f \in Seq(GoodRanges) : t = f \o <<q>> /\ u = f \o <<j>>
  BY <1>2 DEF JoinedTo, q, j
<1> QED
  BY <1>8, <1>10, <1>11

\* What is left when the ranges, in order and written alike, are joined has no name twice.
LEMMA JoinAllOnce ==
  ASSUME NEW s \in Seq(GoodRanges), Sorted(s), AllAlike(s), s # <<>>, NEW n \in Nat
  PROVE  \A x \in HostNames : Copies(FoldLeft(AttemptJoin, [hr |-> <<>>, nhosts |-> n], s).hr, x) <= 1
<1> DEFINE l == [hr |-> <<>>, nhosts |-> n]
<1>1. Len(s) \in Nat /\ DOMAIN s = 1..Len(s) /\ (\A k \in 1..Len(s) : s[k] \in GoodRanges) /\ Len(s) > 0
  OBVIOUS
<1>2. l \in OpenLists /\ l.hr = <<>>
  BY DEF OpenLists
<1> HIDE DEF l
<1>3. CanJoin(OpenLists, Len(s), s)
  BY <1>1, JoinKeeps DEF CanJoin
<1>4. AllJoined(OpenLists, Len(s), s, l)
  BY <1>1, <1>2, <1>3, JoinsAre, Zenon
<1>5. PICK a \in [0..Len(s) -> OpenLists] : 
        /\ a[0] = l /\ (\A k \in 1..Len(s) : a[k] = AttemptJoin(a[k - 1], s[k])) 
        /\ FoldLeft(AttemptJoin, l, s) = a[Len(s)]
  BY <1>4 DEF AllJoined
<1> DEFINE B == {k \in 0..Len(s) : ReachedAll(s, k, a[k].hr) /\ Once(s, k, a[k].hr)}
<1>6. 0 \in B
  <2>1. SubSeq(s, 1, 0) = <<>> /\ 0 \in 0..Len(s) /\ <<>> \in Seq(GoodRanges)
    BY <1>1
  <2>2. a[0].hr = <<>>
    BY <1>2, <1>5
  <2>3. \A x \in HostNames : Copies(<<>>, x) = 0 /\ Total(<<>>) = 0
    BY NamesOfNone, NoneOften, TotalNone DEF Copies
  <2>4. ReachedAll(s, 0, a[0].hr)
    BY <2>1, <2>2, <2>3 DEF Reached, ReachedAll
  <2>5. Once(s, 0, a[0].hr)
    BY <2>2, <2>3 DEF Once
  <2> QED
    BY <2>1, <2>4, <2>5
<1>7. ASSUME NEW k \in 1..Len(s), k - 1 \in B PROVE k \in B
  <2>1. k - 1 \in 0..Len(s) /\ k \in 0..Len(s)
    BY <1>1
  <2>2. /\ a[k - 1] \in OpenLists /\ ReachedAll(s, k - 1, a[k - 1].hr) /\ Once(s, k - 1, a[k - 1].hr) 
        /\ a[k] = AttemptJoin(a[k - 1], s[k])
    BY <1>5, <1>7, <2>1
  <2>3. \A x \in HostNames : Reached(s, k, AttemptJoin(a[k - 1], s[k]).hr, x)
    BY <2>2, JoinReaches DEF ReachedAll
  <2>4. Once(s, k, AttemptJoin(a[k - 1], s[k]).hr)
    BY <2>2, OnceStep
  <2> QED
    BY <2>1, <2>2, <2>3, <2>4 DEF ReachedAll
<1> HIDE DEF B
<1>8. \A k \in 0..Len(s) : k \in B
  BY <1>1, <1>6, <1>7, Climbs
<1>9. Len(s) \in B
  BY <1>1, <1>8
<1>10. Once(s, Len(s), a[Len(s)].hr)
  BY <1>9 DEF B
<1> QED
  BY <1>5, <1>10 DEF l, Once

\* A sequence that has no name more often than once names no host twice.
LEMMA NotTwice ==
  ASSUME NEW z \in Seq(HostNames), \A x \in HostNames : HowOften(z, x) <= 1
  PROVE  NamedOnce(z)
<1> SUFFICES ASSUME NEW j \in DOMAIN z, NEW k \in DOMAIN z, z[j] = z[k], j # k PROVE FALSE
  BY DEF NamedOnce
<1> DEFINE x == z[j]
           S == Spots(z, x)
<1>1. x \in HostNames /\ DOMAIN z = 1..Len(z)
  OBVIOUS
<1>2. {j, k} \subseteq S
  BY <1>1 DEF Spots
<1>3. IsFiniteSet(S) /\ Cardinality(S) \in Nat /\ Cardinality(S) <= 1
  BY <1>1, SpotsFinite DEF HowOften
<1> HIDE DEF S
<1>4. Cardinality({j, k}) <= Cardinality(S)
  BY <1>2, <1>3, FS_Subset
<1>5. Cardinality({j, k}) = 2
  <2> DEFINE A == {j}
  <2>1. IsFiniteSet(A) /\ Cardinality(A) = 1
    BY FS_Singleton
  <2>2. k \notin A /\ A \cup {k} = {j, k}
    OBVIOUS
  <2> HIDE DEF A
  <2>3. Cardinality(A \cup {k}) = IF k \in A THEN Cardinality(A) ELSE Cardinality(A) + 1
    BY <2>1, FS_AddElement, Zenon
  <2>4. Cardinality(A \cup {k}) = Cardinality(A) + 1
    BY <2>2, <2>3, Zenon
  <2>5. Cardinality(A) + 1 = 2
    BY <2>1
  <2> QED
    BY <2>2, <2>4, <2>5, Zenon
<1> QED
  BY <1>3, <1>4, <1>5

LEMMA UniqOnce == 
  ASSUME IInv, Uniq, AllAlike(hr)
  PROVE  NamedOnce(Hosts')
<1>1. hr \in Seq(GoodRanges) /\ nhosts \in Nat
  <2>1. Alone /\ ret' = <<>> /\ UNCHANGED it
    BY DEF Uniq
  <2>2. hr \in Seq(GoodRanges)
    BY <2>1, AloneBehind
  <2> QED
    BY <2>2, TotalConcat DEF IInv, Counted
<1>2. hr' \in Seq(GoodRanges) /\ \A x \in HostNames : Copies(hr', x) <= 1
  <2>1. CASE Len(hr) <= 1
    <3>1. hr' = hr
      BY <2>1 DEF Uniq
    <3>2. CASE hr = <<>>
      <4>1. \A x \in HostNames : Copies(hr', x) = 0
        BY <3>1, <3>2, NamesOfNone, NoneOften DEF Copies
      <4> QED
        BY <1>1, <3>1, <4>1
    <3>3. CASE hr # <<>>
      <4> DEFINE r == hr[1]
      <4>1. r \in GoodRanges /\ hr = <<>> \o <<r>> /\ <<>> \in Seq(GoodRanges)
        BY <1>1, <2>1, <3>3
      <4> HIDE DEF r
      <4>2. \A x \in HostNames : Copies(<<>> \o <<r>>, x) = Copies(<<>>, x) + One(r, x)
        BY <4>1, CopiesEnd
      <4>3. \A x \in HostNames : Copies(<<>>, x) = 0
        BY NamesOfNone, NoneOften DEF Copies
      <4>4. \A x \in HostNames : One(r, x) = 0 \/ One(r, x) = 1
        BY DEF One
      <4>5. \A x \in HostNames : Copies(hr', x) <= 1
        <5> TAKE x \in HostNames
        <5>1. Copies(hr', x) = 0 + One(r, x)
          BY <3>1, <4>1, <4>2, <4>3
        <5> QED
          BY <4>4, <5>1
      <4> QED
        BY <1>1, <3>1, <4>5
    <3> QED
      BY <3>2, <3>3
  <2>2. CASE ~(Len(hr) <= 1)
    <3>1. PICK s \in Arrangements(hr) : 
            Sorted(s) /\ Becomes(FoldLeft(AttemptJoin, [hr |-> <<>>, nhosts |-> nhosts], s))
      BY <2>2 DEF Uniq
    <3>2. s \in Seq(GoodRanges) /\ AllAlike(s)
      BY <1>1, ArrangementKeeps, ArrangedAlike
    <3>3. s # <<>>
      <4>1. hr # <<>> /\ DOMAIN s = DOMAIN hr /\ DOMAIN hr = 1..Len(hr) /\ Len(hr) \in Nat
        BY <1>1, <2>2 DEF Arrangements
      <4>2. 1 \in DOMAIN s
        BY <2>2, <4>1
      <4> QED
        BY <4>2
    <3> DEFINE t == FoldLeft(AttemptJoin, [hr |-> <<>>, nhosts |-> nhosts], s).hr
    <3>4. hr' = t
      BY <3>1 DEF Becomes
    <3>5. \A x \in HostNames : Copies(t, x) <= 1
      BY <1>1, <3>1, <3>2, <3>3, JoinAllOnce
    <3>6. \A x \in HostNames : Reached(s, Len(s), t, x)
      BY <1>1, <3>1, <3>2, JoinAllNames
    <3> HIDE DEF t
    <3>7. t \in Seq(GoodRanges)
      <4>1. s[1] \in GoodRanges
        BY <3>2, <3>3
      <4>2. s[1].prefix \in HostNames
        BY <4>1, GoodIs
      <4> QED
        BY <3>6, <4>2 DEF Reached
    <3> QED
      BY <3>4, <3>5, <3>7
  <2> QED
    BY <2>1, <2>2
<1>3. Hosts' = NamesOf(hr')
  BY DEF Hosts
<1> DEFINE z == NamesOf(hr')
<1>4. z \in Seq(HostNames)
  BY <1>2, NamesOfType
<1>5. \A x \in HostNames : HowOften(z, x) <= 1
  BY <1>2 DEF Copies
<1> HIDE DEF z
<1>6. NamedOnce(z)
  BY <1>4, <1>5, NotTwice
<1> QED
  BY <1>3, <1>6 DEF z

\* When the ranges with one stem are all written alike, hostlist_uniq, which compares only
\* neighbours of the sorted ranges, leaves no host in the list twice.
THEOREM UniqIsComplete == Spec => UniqComplete
<1>1. Init /\ [][Next]_vars => []IInv
  BY Inductive, PTL
<1>2. IInv /\ [Next]_vars => [Uniq /\ AllAlike(hr) => NamedOnce(Hosts')]_vars
  BY UniqOnce
<1> QED
  BY <1>1, <1>2, PTL DEF Spec, UniqComplete

----------------------------------------------------------------------------
(* A list that is written out and read again. *)

\* A host on its own is read as the name it has.
LEMMA HostRangeNames == 
  ASSUME NEW p \in HostNames 
  PROVE  NamesIn(HostRange(p)) = <<p>>
<1> DEFINE r == HostRange(p)
           q == [p EXCEPT !.val = 0, !.len = 0]
<1>1. p.val \in Nat /\ p.len \in Nat /\ p.val < Power[p.len]
  BY DEF HostNames
<1>2. r \in GoodRanges
  BY HostRangeIs
<1>3. CASE HasSuffix(p)
  <2>1. r = NewRange(q, p.val, p.val, p.len)
    BY <1>3 DEF HostRange
  <2>2. r.prefix = q /\ r.lo = p.val /\ r.hi = p.val /\ r.width = p.len /\ ~r.singlehost
    BY <2>1 DEF NewRange
  <2>3. Width(p.val, p.len) = p.len
    <3>1. p.len >= 1
      BY <1>1, <1>3 DEF HasSuffix
    <3>2. NumDigits(p.val) <= p.len
      BY <1>1, <3>1, DigitsLeast
    <3>3. /\ Width(p.val, p.len) = (IF p.len > NumDigits(p.val) THEN p.len ELSE NumDigits(p.val))
          /\ NumDigits(p.val) \in Nat
      BY <1>1, WidthIs
    <3> QED
      BY <1>1, <3>2, <3>3
  <2>4. Numbered(r, p.val) = p
    <3>1. Numbered(r, p.val) = [q EXCEPT !.val = q.val * Power[p.len] + p.val, !.len = q.len + p.len]
      BY <2>2, <2>3 DEF Numbered, Format, Width
    <3>2. p \in [stem : DOMAIN Rank, val : Nat, len : Nat, tail : Tails] /\ q.val = 0 /\ q.len = 0
      BY DEF HostNames
    <3>3. Power[p.len] \in Nat
      BY <1>1, PowerIs
    <3>4. q.val * Power[p.len] + p.val = p.val /\ q.len + p.len = p.len
      BY <1>1, <3>2, <3>3
    <3>5. [q EXCEPT !.val = p.val, !.len = p.len] = p
      BY <3>2
    <3> QED
      BY <3>1, <3>4, <3>5
  <2> HIDE DEF r, q
  <2>5. NamesIn(r) \in Seq(HostNames) /\ Len(NamesIn(r)) = 1 /\ NamesIn(r)[1] = Numbered(r, r.lo + (1 - 1))
    <3>1. r.hi - r.lo + 1 = 1
      BY <1>1, <2>2
    <3>2. /\ NamesIn(r) \in Seq(HostNames) /\ Len(NamesIn(r)) = r.hi - r.lo + 1
          /\ \A k \in 1..r.hi - r.lo + 1 : NamesIn(r)[k] = Numbered(r, r.lo + (k - 1))
      BY <1>2, <2>2, NumbersIs
    <3>3. 1 \in 1..r.hi - r.lo + 1
      BY <3>1
    <3>4. NamesIn(r)[1] = Numbered(r, r.lo + (1 - 1))
      BY <3>2, <3>3, Zenon
    <3> QED
      BY <3>1, <3>2, <3>4
  <2>6. NamesIn(r)[1] = p
    BY <1>1, <2>2, <2>4, <2>5
  <2>7. NamesIn(r) = <<p>>
    BY <2>5, <2>6
  <2> QED
    BY <2>7 DEF r
<1>4. CASE ~HasSuffix(p)
  <2>1. r = Single(p)
    BY <1>4 DEF HostRange
  <2>2. Count(r) = 1 /\ NameAt(r, 0) = p
    BY <2>1 DEF Single, Count, NameAt
  <2> HIDE DEF r
  <2>3. NamesIn(r) \in Seq(HostNames) /\ Len(NamesIn(r)) = 1 /\ NamesIn(r)[1] = NameAt(r, 1 - 1)
    <3>1. NamesIn(r) \in Seq(HostNames) /\ Len(NamesIn(r)) = 1 /\ \A k \in 1..Count(r) : NamesIn(r)[k] = NameAt(r, k - 1)
      BY <1>2, <2>2, NamesInIs
    <3>2. 1 \in 1..Count(r)
      BY <2>2
    <3>3. NamesIn(r)[1] = NameAt(r, 1 - 1)
      BY <3>1, <3>2, Zenon
    <3> QED
      BY <3>1, <3>3
  <2>4. NamesIn(r) = <<p>>
    BY <2>2, <2>3
  <2> QED
    BY <2>4 DEF r
<1> QED
  BY <1>3, <1>4

\* A range is written out with as many digits as its first number has, and has the same
\* names when it is read again.
ReadAgain(r) == NewRange(r.prefix, NumStr(r).lo, NumStr(r).hi, NumStr(r).width)

LEMMA NumStrIs ==
  ASSUME NEW r \in GoodRanges
  PROVE  /\ NumStr(r) \in Groups /\ NumStr(r).lo = r.lo /\ NumStr(r).hi = r.hi
         /\ NumStr(r).width = Width(r.lo, r.width)
<1>1. r.lo \in Nat /\ r.hi \in Nat /\ Width(r.lo, r.width) \in Nat
  BY GoodIs, WidthIs
<1> QED
  BY <1>1 DEF NumStr, Groups, Width

LEMMA ReadAgainNames ==
  ASSUME NEW r \in GoodRanges, ~r.singlehost
  PROVE  ReadAgain(r) \in GoodRanges /\ NamesIn(ReadAgain(r)) = NamesIn(r)
<1> DEFINE t == ReadAgain(r)
           w == Width(r.lo, r.width)
<1>1. /\ r.prefix \in HostNames /\ r.lo \in Nat /\ r.hi \in Nat /\ r.width \in Nat /\ r.lo <= r.hi
      /\ NoTail(r.prefix)
  BY GoodIs
<1>2. w \in Nat /\ w = (IF r.width > NumDigits(r.lo) THEN r.width ELSE NumDigits(r.lo)) /\ NumDigits(r.lo) \in Nat
  BY <1>1, WidthIs
<1>3. t = NewRange(r.prefix, r.lo, r.hi, w)
  BY NumStrIs DEF ReadAgain
<1>4. Fits(r.lo, w, r.width)
  BY <1>1, <1>2 DEF Fits
<1> HIDE DEF t, w
<1>5. t \in GoodRanges /\ ~t.singlehost /\ t.lo = r.lo /\ t.hi = r.hi /\ t.prefix = r.prefix /\ t.width = w
  BY <1>1, <1>2, <1>3 DEF NewRange, GoodRanges, Ranges
<1>6. ASSUME NEW n \in Nat, n >= r.lo PROVE Numbered(t, n) = Numbered(r, n)
  <2>1. Fits(n, w, r.width)
    BY <1>1, <1>2, <1>4, <1>6, FitsLater
  <2>2. Format(r.prefix, n, w) = Format(r.prefix, n, r.width)
    BY <1>1, <1>2, <2>1, FormatSame
  <2> QED
    BY <1>5, <2>2 DEF Numbered
<1> DEFINE x == NamesIn(t)
           y == NamesIn(r)
           m == r.hi - r.lo + 1
<1>7. /\ x \in Seq(HostNames) /\ Len(x) = m /\ y \in Seq(HostNames) /\ Len(y) = m
      /\ \A k \in 1..m : x[k] = Numbered(t, r.lo + (k - 1)) /\ y[k] = Numbered(r, r.lo + (k - 1))
  BY <1>5, NumbersIs
<1>8. \A k \in 1..m : r.lo + (k - 1) \in Nat /\ r.lo + (k - 1) >= r.lo
  BY <1>1
<1> HIDE DEF x, y, m
<1>9. \A k \in 1..m : x[k] = y[k]
  BY <1>6, <1>7, <1>8
<1>10. x = y
  BY <1>7, <1>9, SameList
<1> QED
  BY <1>5, <1>10 DEF t, x, y

\* FlattenSeq puts the pieces one behind the other.
Pieces(q, n, a) == a[0] = <<>> /\ \A k \in 1..n : a[k] = a[k - 1] \o q[k]

LEMMA FlattenIs ==
  ASSUME NEW S, NEW q \in Seq(Seq(S))
  PROVE  \E a \in [0..Len(q) -> Seq(S)] : Pieces(q, Len(q), a) /\ FlattenSeq(q) = a[Len(q)]
<1> DEFINE n == Len(q)
<1> DEFINE V == Seq(S)
<1> DEFINE F == [p \in (1..n) \X V |-> p[2] \o q[p[1]]]
<1>1. n \in Nat /\ \A k \in 1..n : q[k] \in V
  OBVIOUS
<1>3. F \in [(1..n) \X V -> V]
  <2> HIDE DEF n
  <2> QED
    BY <1>1
<1>4. \A k \in 1..n : \A v \in V : F[<<k, v>>] = v \o q[k]
  <2> HIDE DEF n, V
  <2> QED
    OBVIOUS
<1>5. <<>> \in V
  OBVIOUS
<1> HIDE DEF F, V
<1>6. PICK g \in [SUBSET (1..n) -> V] : LeftFolds(n, <<>>, F, g)
  BY <1>1, <1>3, <1>5, LeftExists, Zenon
<1>7. LeftStep(n, V, <<>>, F, g)
  BY <1>6 DEF LeftFolds, LeftStep
<1>8. LeftComputes(n, V, <<>>, F, g)
  BY <1>1, <1>3, <1>5, <1>7, LeftChain, Zenon
<1>9. PICK a \in [0..n -> V] : LeftValues(n, <<>>, F, a)
  BY <1>8 DEF LeftComputes
<1>10. a[0] = <<>> /\ \A k \in 1..n : a[k] = a[k - 1] \o q[k] /\ a[k - 1] \in V
  <2>1. ASSUME NEW k \in 1..n PROVE a[k] = a[k - 1] \o q[k] /\ a[k - 1] \in V
    <3>1. k - 1 \in 0..n
      BY <1>1
    <3>2. a[k] = F[<<k, a[k - 1]>>]
      BY <1>9 DEF LeftValues
    <3> QED
      BY <1>4, <3>1, <3>2
  <2> QED
    BY <1>9, <2>1 DEF LeftValues
<1>11. Pieces(q, n, a)
  BY <1>10 DEF Pieces
<1>12. FlattenSeq(q) = a[n]
  <2>2. Len(q) = n
    OBVIOUS
  <2> HIDE DEF n
  <2>4. CASE n = 0
    <3>1. q = <<>>
      BY <2>2, <2>4
    <3>2. FlattenSeq(q) = q
      BY <2>2, <2>4 DEF FlattenSeq
    <3> QED
      BY <1>10, <2>4, <3>1, <3>2
  <2>5. CASE n # 0
    <3> DEFINE Eq(f) == f = [i \in 1..n |-> IF i = 1 THEN q[i] ELSE f[i - 1] \o q[i]]
    <3> DEFINE f == CHOOSE h : Eq(h)
    <3>1. FlattenSeq(q) = f[n]
      BY <2>2, <2>5 DEF FlattenSeq
    <3> DEFINE b == [i \in 1..n |-> a[i]]
    <3>2. ASSUME NEW i \in 1..n PROVE b[i] = IF i = 1 THEN q[i] ELSE b[i - 1] \o q[i]
      <4>1. a[i] = a[i - 1] \o q[i] /\ q[i] \in V
        BY <1>1, <1>10
      <4>2. CASE i = 1
        <5>1. <<>> \o q[i] = q[i]
          BY <4>1 DEF V
        <5>2. a[i - 1] = <<>>
          BY <1>10, <4>2
        <5>3. a[i] = q[i]
          BY <4>1, <5>1, <5>2
        <5>4. b[i] = a[i]
          OBVIOUS
        <5> HIDE DEF b
        <5> QED
          BY <4>2, <5>3, <5>4
      <4>3. CASE i # 1
        <5>1. i - 1 \in 1..n
          BY <1>1, <4>3
        <5>2. b[i - 1] = a[i - 1]
          BY <5>1
        <5> QED
          BY <4>1, <4>3, <5>2
      <4> QED
        BY <4>2, <4>3
    <3>3. Eq(b)
      BY <3>2
    <3>4. Eq(f)
      <4> HIDE DEF Eq
      <4> QED
        BY <3>3
    <3> HIDE DEF f
    <3> DEFINE T == {i \in 1..n : f[i] # a[i]}
    <3>5. T = {}
      <4>1. SUFFICES ASSUME T # {} PROVE FALSE
        OBVIOUS
      <4>2. T \subseteq Nat
        OBVIOUS
      <4>3. PICK i \in T : \A j \in T : i <= j
        <5> HIDE DEF T
        <5> QED
          BY <4>1, <4>2, LeastIs
      <4>4. i \in 1..n /\ f[i] # a[i]
        OBVIOUS
      <4>5. CASE i = 1
        <5>0. i - 1 = 0 /\ a[0] = <<>>
          BY <1>10, <4>5
        <5>1. f[i] = q[i] /\ a[i] = <<>> \o q[i] /\ q[i] \in V
          <6>1. f[i] = q[i]
            BY <3>4, <4>4, <4>5
          <6>2. a[i] = a[i - 1] \o q[i] /\ q[i] \in V
            BY <1>1, <1>10, <4>4
          <6> QED
            BY <5>0, <6>1, <6>2
        <5>2. <<>> \o q[i] = q[i]
          BY <5>1 DEF V
        <5> QED
          BY <4>4, <5>1, <5>2
      <4>6. CASE i # 1
        <5>1. i - 1 \in 1..n /\ ~(i <= i - 1)
          BY <1>1, <4>4, <4>6
        <5>2. f[i - 1] = a[i - 1]
          BY <4>3, <5>1
        <5>3. f[i] = f[i - 1] \o q[i] /\ a[i] = a[i - 1] \o q[i]
          BY <1>10, <3>4, <4>4, <4>6
        <5> QED
          BY <4>4, <5>2, <5>3
      <4> QED
        BY <4>5, <4>6
    <3>6. f[n] = a[n]
      BY <1>1, <2>5, <3>5
    <3> QED
      BY <3>1, <3>6
  <2> QED
    BY <2>4, <2>5
<1> QED
  BY <1>9, <1>11, <1>12 DEF V

\* What tokens make of a list, one more token at the end.
ValidTokens == {t \in Tokens : ValidToken(t)}

LEMMA CreateAppend ==
  ASSUME NEW y \in Seq(ValidTokens), NEW t \in ValidTokens
  PROVE  Create(y) \in GoodLists /\ Create(Append(y, t)) = PushToken(Create(y), t)
<1> DEFINE n == Len(y)
           z == Append(y, t)
           V == GoodLists
<1>1. n \in Nat /\ DOMAIN y = 1..n /\ \A k \in 1..n : y[k] \in ValidTokens
  OBVIOUS
<1>2. Len(z) = n + 1 /\ DOMAIN z = 1..n + 1 /\ z[n + 1] = t /\ \A k \in 1..n : z[k] = y[k]
  BY <1>1
<1>3. EmptyList \in V
  <2>1. <<>> \in Seq(GoodRanges) /\ 0 = Total(<<>>)
    BY TotalNone
  <2> QED
    BY <2>1, GoodListIs DEF EmptyList
<1>4. \A u \in ValidTokens : \A v \in V : PushToken(v, u) \in V
  BY TokenKeeps DEF ValidTokens
<1> HIDE DEF z, V, n
<1>5. CanPushTokens(V, n, y)
  BY <1>1, <1>4 DEF CanPushTokens
<1>6. CanPushTokens(V, n + 1, z)
  <2>1. \A k \in 1..n + 1 : k = n + 1 \/ k \in 1..n
    BY <1>1
  <2>2. \A k \in 1..n + 1 : z[k] \in ValidTokens
    BY <1>1, <1>2, <2>1
  <2> QED
    BY <1>2, <1>4, <2>2 DEF CanPushTokens
<1>7. TokensPushed(V, n, y, EmptyList) /\ TokensPushed(V, n + 1, z, EmptyList)
  <2>1. n + 1 \in Nat
    BY <1>1
  <2> QED
    BY <1>1, <1>3, <1>5, <1>6, <2>1, CreateIs, Zenon
<1>8. PICK a \in [0..n -> V] : /\ a[0] = EmptyList /\ (\A k \in 1..n : a[k] = PushToken(a[k - 1], y[k])) 
                               /\ FoldLeft(PushToken, EmptyList, y) = a[n]
  BY <1>7 DEF TokensPushed
<1>9. PICK b \in [0..n + 1 -> V] : 
         /\ b[0] = EmptyList /\ (\A k \in 1..n + 1 : b[k] = PushToken(b[k - 1], z[k])) 
         /\ FoldLeft(PushToken, EmptyList, z) = b[n + 1]
  BY <1>7 DEF TokensPushed
<1> DEFINE B == {k \in 0..n : a[k] = b[k]}
<1>10. 0 \in B
  BY <1>1, <1>8, <1>9
<1>11. ASSUME NEW k \in 1..n, k - 1 \in B PROVE k \in B
  <2>1. k \in 0..n /\ k \in 1..n + 1
    BY <1>1
  <2>2. a[k] = PushToken(a[k - 1], y[k]) /\ b[k] = PushToken(b[k - 1], z[k]) /\ a[k - 1] = b[k - 1] /\ z[k] = y[k]
    BY <1>2, <1>8, <1>9, <1>11, <2>1
  <2> QED
    BY <2>1, <2>2
<1> HIDE DEF B
<1>12. \A k \in 0..n : k \in B
  BY <1>1, <1>10, <1>11, Climbs
<1>13. a[n] = b[n] /\ a[n] \in V
  <2>1. n \in 0..n /\ n \in B
    BY <1>1, <1>12
  <2> QED
    BY <1>8, <2>1 DEF B
<1>14. b[n + 1] = PushToken(b[(n + 1) - 1], z[n + 1]) /\ (n + 1) - 1 = n
  <2>1. n + 1 \in 1..n + 1 /\ (n + 1) - 1 = n
    BY <1>1
  <2> QED
    BY <1>9, <2>1
<1>15. Create(y) = a[n] /\ Create(z) = b[n + 1]
  BY <1>8, <1>9 DEF Create
<1> QED
  BY <1>2, <1>13, <1>14, <1>15 DEF z, V

\* The ranges of a bracket put their names behind the others.
GroupRange(token, g) == NewRange(token.prefix, g.lo, g.hi, g.width)
ReadsAs(token, s) == /\ token.tail = "" /\ token.ranges # <<>> /\ Len(s) = Len(token.ranges)
                     /\ \A k \in 1..Len(s) : NamesIn(GroupRange(token, token.ranges[k])) = NamesIn(s[k])

LEMMA BracketNames ==
  ASSUME NEW l \in GoodLists, NEW token \in ValidTokens, NEW s \in Seq(GoodRanges), ReadsAs(token, s)
  PROVE  NamesOf(PushToken(l, token).hr) = NamesOf(l.hr) \o NamesOf(s)
<1> DEFINE g == token.ranges
           n == Len(g)
           N == NamesOf(l.hr)
<1>1. /\ n \in Nat /\ DOMAIN g = 1..n /\ Len(s) = n /\ \A k \in 1..n : s[k] \in GoodRanges
      /\ \A k \in 1..n : g[k] \in Groups /\ g[k].lo <= g[k].hi
      /\ token.prefix \in HostNames /\ NoTail(token.prefix) /\ token \in Tokens
  <2>1. g \in Seq(Groups) /\ token \in Tokens /\ token.prefix \in HostNames
    BY DEF ValidTokens, Tokens
  <2>2. ValidToken(token)
    BY DEF ValidTokens
  <2>3. NoTail(token.prefix) /\ \A k \in DOMAIN g : g[k].lo <= g[k].hi
    BY <2>2 DEF ValidToken, Valid, ReadsAs
  <2> HIDE DEF g
  <2>4. n \in Nat /\ DOMAIN g = 1..n /\ \A k \in 1..n : g[k] \in Groups
    BY <2>1
  <2>5. \A k \in 1..Len(s) : s[k] \in GoodRanges
    OBVIOUS
  <2>6. \A k \in 1..n : g[k].lo <= g[k].hi
    BY <2>3, <2>4
  <2>7. Len(s) = n
    BY DEF g, ReadsAs
  <2> HIDE DEF n
  <2> QED
    BY <2>1, <2>3, <2>4, <2>5, <2>6, <2>7
<1>1a. n \in Nat /\ Len(s) = n
  BY <1>1
<1>2. N \in Seq(HostNames)
  BY NamesOfType DEF GoodLists
<1>3. PushToken(l, token) = AllGroups(token, l, g)
  BY DEF PushToken, AllGroups, GroupPushed, ReadsAs
<1> HIDE DEF g, n, N
<1>4. \A k \in 1..n : \A v \in GoodLists : GroupPushed(token, v, g[k]) \in GoodLists
  BY <1>1, GroupKeeps
<1>5. CanPushGroups(token, GoodLists, n, g)
  BY <1>1, <1>4 DEF CanPushGroups
<1>6. GroupsPushed(token, GoodLists, n, g, l)
  BY <1>1, <1>5, AllGroupsIs, Zenon
<1>7. PICK a \in [0..n -> GoodLists] : 
        /\ a[0] = l /\ (\A k \in 1..n : a[k] = GroupPushed(token, a[k - 1], g[k])) 
        /\ AllGroups(token, l, g) = a[n]
  BY <1>6 DEF GroupsPushed
<1> DEFINE B == {k \in 0..n : NamesOf(a[k].hr) = N \o NamesOf(SubSeq(s, 1, k))}
<1>8. 0 \in B
  <2>1. SubSeq(s, 1, 0) = <<>> /\ N \o <<>> = N /\ 0 \in 0..n
    BY <1>1a, <1>2
  <2>2. a[0] = l
    BY <1>7
  <2>3. NamesOf(a[0].hr) = N
    BY <2>2, Zenon DEF N
  <2>4. NamesOf(SubSeq(s, 1, 0)) = <<>>
    BY <2>1, NamesOfNone, Zenon
  <2> QED
    BY <2>1, <2>3, <2>4
<1>9. ASSUME NEW k \in 1..n, k - 1 \in B PROVE k \in B
  <2>1. k - 1 \in 0..n /\ k \in 0..n /\ k \in 1..Len(s)
    BY <1>1a
  <2>2. PICK m \in GoodLists : m = a[k - 1]
    BY <1>7, <2>1
  <2>3. NamesOf(m.hr) = N \o NamesOf(SubSeq(s, 1, k - 1))
    BY <1>9, <2>2
  <2> DEFINE r == GroupRange(token, g[k])
  <2>4. r \in GoodRanges
    <3>1. g[k] \in Groups /\ g[k].lo <= g[k].hi
      BY <1>1
    <3> QED
      BY <1>1, <3>1 DEF GroupRange, NewRange, GoodRanges, Ranges, Groups
  <2>5. NamesIn(r) = NamesIn(s[k])
    BY <2>1 DEF g, ReadsAs
  <2>6. a[k] = PushRange(m, r)
    <3>1. a[k] = GroupPushed(token, m, g[k])
      BY <1>7, <2>2
    <3> QED
      BY <3>1 DEF GroupPushed, GroupRange, ReadsAs
  <2> HIDE DEF r
  <2>7. NamesOf(a[k].hr) = NamesOf(m.hr) \o NamesIn(s[k])
    BY <2>2, <2>4, <2>5, <2>6, PushRangeNames
  <2>8. /\ NamesIn(s[k]) \in Seq(HostNames) /\ NamesOf(SubSeq(s, 1, k - 1)) \in Seq(HostNames)
        /\ NamesOf(SubSeq(s, 1, k)) = NamesOf(SubSeq(s, 1, k - 1)) \o NamesIn(s[k])
    BY <2>1, NamesOfNext
  <2>9. (N \o NamesOf(SubSeq(s, 1, k - 1))) \o NamesIn(s[k]) 
          = N \o (NamesOf(SubSeq(s, 1, k - 1)) \o NamesIn(s[k]))
    BY <1>2, <2>8, NamesBehind
  <2> QED
    BY <2>1, <2>3, <2>7, <2>8, <2>9
<1> HIDE DEF B
<1>10. n \in B
  <2>1. \A k \in 0..n : k \in B
    BY <1>1a, <1>8, <1>9, Climbs
  <2> QED
    BY <1>1a, <2>1
<1>11. SubSeq(s, 1, n) = s
  BY <1>1a
<1> QED
  BY <1>3, <1>7, <1>10, <1>11 DEF B, N

\* A bracket has a last range.
EndsAt(s, k, n) == 
  /\ n \in k..Len(s) /\ \A j \in k + 1..n : ~FirstOfBracket(s, j)
  /\ n = Len(s) \/ FirstOfBracket(s, n + 1)

LEMMA SomeLast ==
  ASSUME NEW s \in Seq(GoodRanges), NEW k \in 1..Len(s)
  PROVE  \E n \in k..Len(s) : EndsAt(s, k, n)
<1> DEFINE T == {n \in k..Len(s) : n = Len(s) \/ FirstOfBracket(s, n + 1)}
<1>1. Len(s) \in Nat /\ k \in Nat /\ k >= 1 /\ k <= Len(s)
  OBVIOUS
<1>2. T \subseteq Nat /\ Len(s) \in T
  BY <1>1
<1>3. PICK n \in T : \A m \in T : n <= m
  <2> HIDE DEF T
  <2> QED
    BY <1>2, LeastIs
<1>4. n \in k..Len(s) /\ (n = Len(s) \/ FirstOfBracket(s, n + 1))
  OBVIOUS
<1>5. ASSUME NEW j \in k + 1..n PROVE ~FirstOfBracket(s, j)
  <2> SUFFICES ASSUME FirstOfBracket(s, j) PROVE FALSE
    OBVIOUS
  <2>1. j - 1 \in k..Len(s) /\ (j - 1) + 1 = j /\ ~(n <= j - 1)
    BY <1>1, <1>4
  <2>2. j - 1 \in T
    BY <2>1
  <2> HIDE DEF T
  <2> QED
    BY <1>3, <2>1, <2>2
<1>6. EndsAt(s, k, n)
  BY <1>4, <1>5 DEF EndsAt
<1> HIDE DEF T
<1> QED
  BY <1>4, <1>6

LEMMA LastOfBracketIs ==
  ASSUME NEW s \in Seq(GoodRanges), NEW k \in 1..Len(s)
  PROVE  EndsAt(s, k, LastOfBracket(s, k))
<1> DEFINE P(n) == /\ \A j \in k + 1..n : ~FirstOfBracket(s, j)
                   /\ n = Len(s) \/ FirstOfBracket(s, n + 1)
           e == CHOOSE n \in k..Len(s) : P(n)
<1>1. LastOfBracket(s, k) = e
  BY DEF LastOfBracket
<1>2. \E n \in k..Len(s) : P(n)
  BY SomeLast DEF EndsAt
<1>3. e \in k..Len(s) /\ P(e)
  <2> HIDE DEF P
  <2> QED
    BY <1>2, Zenon
<1> HIDE DEF e
<1>4. EndsAt(s, k, e)
  BY <1>3 DEF EndsAt
<1> QED
  BY <1>1, <1>4

\* The ranges of one bracket have one prefix.
LEMMA OneBracket ==
  ASSUME NEW s \in Seq(GoodRanges), NEW k \in 1..Len(s), NEW e, EndsAt(s, k, e)
  PROVE  /\ \A j \in k..e : SamePrefix(s[j], s[k])
         /\ e > k => ~s[k].singlehost
<1>1. Len(s) \in Nat /\ k \in Nat /\ k >= 1 /\ e \in k..Len(s) /\ \A j \in k + 1..e : ~FirstOfBracket(s, j)
  BY DEF EndsAt
<1> DEFINE m == e - k
           B == {i \in 0..m : SamePrefix(s[k + i], s[k])}
<1>2. m \in Nat /\ k + m = e
  BY <1>1
<1> HIDE DEF m
<1>3. ASSUME NEW j \in k + 1..e PROVE SamePrefix(s[j], s[j - 1]) /\ ~s[j].singlehost
  BY <1>1 DEF FirstOfBracket, WithinRange
<1>4. 0 \in B
  BY <1>1, <1>2 DEF SamePrefix
<1>5. ASSUME NEW i \in 1..m, i - 1 \in B PROVE i \in B
  <2>1. k + i \in k + 1..e /\ (k + i) - 1 = k + (i - 1) /\ i \in 0..m
    BY <1>1, <1>2
  <2>2. SamePrefix(s[k + i], s[k + (i - 1)])
    BY <1>3, <2>1
  <2>3. SamePrefix(s[k + (i - 1)], s[k])
    BY <1>5
  <2> QED
    BY <2>1, <2>2, <2>3 DEF SamePrefix
<1> HIDE DEF B
<1>6. \A i \in 0..m : i \in B
  BY <1>2, <1>4, <1>5, Climbs
<1>7. ASSUME NEW j \in k..e PROVE SamePrefix(s[j], s[k])
  <2>1. j - k \in 0..m /\ k + (j - k) = j
    BY <1>1, <1>2
  <2> QED
    BY <1>6, <2>1 DEF B
<1>8. ASSUME e > k PROVE ~s[k].singlehost
  <2>1. k + 1 \in k + 1..e /\ k + 1 \in k..e
    BY <1>1, <1>8
  <2>2. ~s[k + 1].singlehost /\ SamePrefix(s[k + 1], s[k])
    BY <1>3, <1>7, <2>1
  <2> QED
    BY <2>2 DEF SamePrefix
<1> QED
  BY <1>7, <1>8

\* A host that goes without a bracket stands for itself.
LEMMA NoBracket ==
  ASSUME NEW s \in Seq(GoodRanges), NEW k \in 1..Len(s), NEW e, EndsAt(s, k, e), ~BracketNeeded(s, k)
  PROVE  e = k /\ Count(s[k]) = 1
<1>1. Len(s) \in Nat /\ k \in Nat /\ k >= 1 /\ e \in k..Len(s) /\ \A j \in k + 1..e : ~FirstOfBracket(s, j)
  BY DEF EndsAt
<1>2. s[k] \in GoodRanges
  OBVIOUS
<1>3. Count(s[k]) \in Nat /\ Count(s[k]) >= 1
  BY <1>2, NamesInIs
<1>4. Count(s[k]) = 1
  BY <1>3 DEF BracketNeeded
<1>5. e = k
  <2> SUFFICES ASSUME e # k PROVE FALSE
    OBVIOUS
  <2>1. k + 1 \in k + 1..e /\ k < Len(s) /\ k + 1 # 1 /\ (k + 1) - 1 = k
    BY <1>1
  <2>2. WithinRange(s[k + 1], s[k])
    BY <1>1, <2>1 DEF FirstOfBracket
  <2>3. WithinRange(s[k], s[k + 1])
    BY <2>2 DEF WithinRange, SamePrefix
  <2> QED
    BY <2>1, <2>3 DEF BracketNeeded
<1> QED
  BY <1>4, <1>5

LEMMA WithBracket ==
  ASSUME NEW s \in Seq(GoodRanges), NEW k \in 1..Len(s), BracketNeeded(s, k)
  PROVE  ~s[k].singlehost
<1>1. s[k] \in GoodRanges /\ k \in Nat
  OBVIOUS
<1>2. s[k].singlehost \in BOOLEAN
  BY <1>1, GoodIs
<1>3. CASE Count(s[k]) > 1
  BY <1>2, <1>3 DEF Count
<1>4. CASE WithinRange(s[k], s[k + 1])
  BY <1>4 DEF WithinRange
<1> QED
  BY <1>3, <1>4 DEF BracketNeeded

\* What a bracket, or the host that goes without one, is read as.
Reads(s, k, e, t) == 
  /\ t \in Tokens /\ t.tail = "" /\ (t.ranges # <<>> => NoTail(t.prefix))
  /\ \A j \in DOMAIN t.ranges : /\ t.ranges[j].lo \in Nat /\ t.ranges[j].hi \in Nat 
                                /\ t.ranges[j].lo <= t.ranges[j].hi
  /\ \A l \in GoodLists : ValidToken(t) => 
       NamesOf(PushToken(l, t).hr) = NamesOf(l.hr) \o NamesOf(SubSeq(s, k, e))

LEMMA HostReads ==
  ASSUME NEW s \in Seq(GoodRanges), NEW k \in 1..Len(s), EndsAt(s, k, LastOfBracket(s, k)), ~BracketNeeded(s, k)
  PROVE  Reads(s, k, LastOfBracket(s, k), Bracketed(s, k))
<1> DEFINE e == LastOfBracket(s, k)
           t == Bracketed(s, k)
           r == s[k]
           p == NameAt(r, 0)
<1>1. e = k /\ Count(r) = 1
  BY NoBracket
<1>2. r \in GoodRanges /\ SubSeq(s, k, k) = <<r>>
  <2>1. k \in Nat /\ Len(s) \in Nat /\ k >= 1 /\ k <= Len(s)
    OBVIOUS
  <2>2. s[k] \in GoodRanges
    OBVIOUS
  <2>3. SubSeq(s, k, k) = <<s[k]>>
    <3> DEFINE q == SubSeq(s, k, k)
    <3>1. q \in Seq(GoodRanges) /\ Len(q) = 1 /\ q[1] = s[k]
      BY <2>1
    <3> HIDE DEF q
    <3>2. q = <<s[k]>>
      BY <3>1
    <3> QED
      BY <3>2 DEF q
  <2> QED
    BY <2>2, <2>3 DEF r
<1>3. t = [prefix |-> p, ranges |-> <<>>, tail |-> ""]
  BY DEF Bracketed
<1> HIDE DEF e, t, r
<1>4. p \in HostNames
  <2>1. 0 <= Count(r) - 1
    BY <1>1
  <2> QED
    BY <1>2, <2>1, NameIs
<1>5. NamesIn(r) = <<p>>
  <2>1. NamesIn(r) \in Seq(HostNames) /\ Len(NamesIn(r)) = 1 /\ \A j \in 1..Count(r) : NamesIn(r)[j] = NameAt(r, j - 1)
    BY <1>1, <1>2, NamesInIs
  <2>2. 1 \in 1..Count(r)
    BY <1>1
  <2>3. NamesIn(r)[1] = NameAt(r, 1 - 1)
    BY <2>1, <2>2, Zenon
  <2>4. NamesIn(r)[1] = p
    BY <2>3
  <2> HIDE DEF p
  <2> QED
    BY <2>1, <2>4
<1> HIDE DEF p
<1>6. NamesOf(SubSeq(s, k, e)) = <<p>>
  BY <1>1, <1>2, <1>5, NamesOfOne
<1>7. HostRange(p) \in GoodRanges /\ NamesIn(HostRange(p)) = <<p>>
  BY <1>4, HostRangeIs, HostRangeNames
<1>8. ASSUME NEW l \in GoodLists PROVE NamesOf(PushToken(l, t).hr) = NamesOf(l.hr) \o <<p>>
  <2>1. PushToken(l, t) = PushRange(l, HostRange(p))
    BY <1>3 DEF PushToken
  <2> QED
    BY <1>7, <2>1, PushRangeNames
<1>9. t.ranges = <<>> /\ t.tail = "" /\ DOMAIN t.ranges = {}
  <2>1. t.ranges = <<>> /\ t.tail = ""
    BY ONLY <1>3
  <2>2. DOMAIN t.ranges = {}
    <3>1. DOMAIN <<>> = {}
      BY ONLY TRUE
    <3> QED
      BY <2>1, <3>1, Zenon
  <2> QED
    BY <2>1, <2>2
<1>10. t \in Tokens
  <2>1. <<>> \in Seq(Groups)
    BY ONLY TRUE
  <2>2. "" \in Tails
    BY TailsAssumption
  <2>3. [prefix |-> p, ranges |-> <<>>, tail |-> ""] \in [prefix : HostNames, ranges : Seq(Groups), tail : Tails]
    BY ONLY <1>4, <2>1, <2>2
  <2> QED
    BY ONLY <1>3, <2>3 DEF Tokens
<1>11. \A l \in GoodLists : NamesOf(PushToken(l, t).hr) = NamesOf(l.hr) \o NamesOf(SubSeq(s, k, e))
  BY <1>6, <1>8
<1>12. Reads(s, k, e, t)
  BY <1>9, <1>10, <1>11 DEF Reads
<1> QED
  BY <1>12 DEF e, t

LEMMA BracketReads ==
  ASSUME NEW s \in Seq(GoodRanges), NEW k \in 1..Len(s), EndsAt(s, k, LastOfBracket(s, k)), BracketNeeded(s, k)
  PROVE  Reads(s, k, LastOfBracket(s, k), Bracketed(s, k))
<1> DEFINE e == LastOfBracket(s, k)
           t == Bracketed(s, k)
           p == s[k].prefix
           u == SubSeq(s, k, e)
           m == e - k + 1
           g == [j \in 1..m |-> NumStr(s[k + j - 1])]
<1>1. Len(s) \in Nat /\ k \in Nat /\ k >= 1 /\ k <= Len(s) /\ e \in k..Len(s)
  BY DEF EndsAt
<1>2. \A j \in k..e : SamePrefix(s[j], s[k])
  BY OneBracket
<1>3. ~s[k].singlehost
  BY WithBracket
<1>4. t = [prefix |-> p, ranges |-> g, tail |-> ""]
  BY DEF Bracketed
<1> HIDE DEF e, t
<1>5. m \in Nat /\ m >= 1 /\ \A j \in 1..m : k + j - 1 \in k..e /\ k + j - 1 \in 1..Len(s)
  BY <1>1
<1>6. u \in Seq(GoodRanges) /\ Len(u) = m /\ \A j \in 1..m : u[j] = s[k + j - 1]
  BY <1>1
<1> HIDE DEF u
<1>7. \A j \in 1..m : u[j] \in GoodRanges
  BY <1>6
<1>8. \A j \in 1..m : SamePrefix(u[j], s[k])
  BY <1>2, <1>5, <1>6
<1> HIDE DEF m
<1>9. ASSUME NEW j \in 1..m 
      PROVE  /\ u[j] \in GoodRanges /\ u[j].prefix = p /\ ~u[j].singlehost /\ g[j] = NumStr(u[j])
             /\ g[j] \in Groups /\ g[j].lo \in Nat /\ g[j].hi \in Nat /\ g[j].lo <= g[j].hi
  <2>1. u[j] \in GoodRanges /\ u[j].prefix = p /\ ~u[j].singlehost
    BY <1>3, <1>7, <1>8 DEF SamePrefix
  <2>2. g[j] = NumStr(u[j])
    BY <1>6
  <2> DEFINE r == u[j]
  <2> HIDE DEF r, g
  <2>3. r \in GoodRanges /\ g[j] = NumStr(r)
    BY <2>1, <2>2 DEF r
  <2>4. NumStr(r) \in Groups /\ NumStr(r).lo = r.lo /\ NumStr(r).hi = r.hi /\ r.lo \in Nat /\ r.hi \in Nat /\ r.lo <= r.hi
    BY <2>3, NumStrIs, GoodIs
  <2> QED
    BY <2>1, <2>2, <2>3, <2>4
<1>10. g \in Seq(Groups) /\ Len(g) = m /\ DOMAIN g = 1..m
  <2>1. DOMAIN g = 1..m
    OBVIOUS
  <2>2. \A j \in 1..m : g[j] \in Groups
    BY <1>9
  <2>3. g \in [1..m -> Groups]
    BY <2>2
  <2> HIDE DEF g
  <2> QED
    BY <1>5, <2>1, <2>3
<1> HIDE DEF g, p
<1>11. p \in HostNames /\ NoTail(p)
  <2>1. s[k] \in GoodRanges
    OBVIOUS
  <2> QED
    BY <1>3, <2>1, GoodIs DEF p
<1>12. t \in Tokens /\ t.tail = "" /\ t.prefix = p /\ t.ranges = g /\ g # <<>>
  <2>1. g # <<>>
    <3>1. Len(g) >= 1 
      BY <1>5, <1>10
    <3>2. Len(<<>>) = 0
      BY ONLY TRUE
    <3> QED
      BY ONLY <3>1, <3>2
  <2>2. t.tail = "" /\ t.prefix = p /\ t.ranges = g
    BY ONLY <1>4
  <2>3. [prefix |-> p, ranges |-> g, tail |-> ""] \in [prefix : HostNames, ranges : Seq(Groups), tail : Tails]
    <3>1. "" \in Tails 
      BY TailsAssumption
    <3>2. g \in Seq(Groups) /\ p \in HostNames
      BY <1>10, <1>11
    <3> QED
      BY ONLY <3>1, <3>2
  <2>4. t \in Tokens
    BY ONLY <1>4, <2>3 DEF Tokens
  <2> QED
    BY <2>1, <2>2, <2>4
<1>13. \A j \in 1..m : NamesIn(GroupRange(t, g[j])) = NamesIn(u[j])
  <2> TAKE j \in 1..m
  <2>1. u[j] \in GoodRanges /\ u[j].prefix = p /\ ~u[j].singlehost /\ g[j] = NumStr(u[j])
    BY <1>9
  <2>2. GroupRange(t, g[j]) = ReadAgain(u[j])
    BY <1>12, <2>1 DEF GroupRange, ReadAgain
  <2> QED
    BY <2>1, <2>2, ReadAgainNames
<1>14. ReadsAs(t, u)
  BY <1>6, <1>10, <1>12, <1>13 DEF ReadsAs
<1>15. ASSUME NEW l \in GoodLists, ValidToken(t) 
       PROVE  NamesOf(PushToken(l, t).hr) = NamesOf(l.hr) \o NamesOf(u)
  <2>1. t \in ValidTokens
    BY <1>12, <1>15 DEF ValidTokens
  <2> QED
    BY <1>6, <1>14, <2>1, BracketNames
<1>16. \A j \in DOMAIN t.ranges : /\ t.ranges[j].lo \in Nat /\ t.ranges[j].hi \in Nat 
                                  /\ t.ranges[j].lo <= t.ranges[j].hi
  BY <1>9, <1>10, <1>12
<1>17. Reads(s, k, e, t)
  BY <1>11, <1>12, <1>15, <1>16 DEF Reads, u
<1> QED
  BY <1>17 DEF e, t

LEMMA BracketedReads ==
  ASSUME NEW s \in Seq(GoodRanges), NEW k \in 1..Len(s)
  PROVE  EndsAt(s, k, LastOfBracket(s, k)) /\ Reads(s, k, LastOfBracket(s, k), Bracketed(s, k))
<1>1. EndsAt(s, k, LastOfBracket(s, k))
  BY LastOfBracketIs
<1> QED
  BY <1>1, HostReads, BracketReads

\* What has been written of the list up to a range is read as the ranges up to
\* the end of that range's bracket.
ReadUpTo(s, y, k) == 
  y \in Seq(ValidTokens) => \E e : EndsAt(s, k, e) /\ NamesOf(Create(y).hr) = NamesOf(SubSeq(s, 1, e))

LEMMA AppendedIn ==
  ASSUME NEW S, NEW V, NEW y \in Seq(S), NEW t, Append(y, t) \in Seq(V)
  PROVE  y \in Seq(V) /\ t \in V
<1> DEFINE z == Append(y, t)
           n == Len(y)
<1>1. n \in Nat /\ Len(z) = n + 1 /\ z[n + 1] = t /\ \A k \in 1..n : z[k] = y[k]
  OBVIOUS
<1>2. z \in Seq(V)
  OBVIOUS
<1>3. y \in [1..n -> S]
  OBVIOUS
<1> HIDE DEF z, n
<1>4. \A k \in 1..n : z[k] \in V
  BY <1>1, <1>2
<1>5. t \in V
  BY <1>1, <1>2
<1>6. y \in [1..n -> V]
  BY <1>1, <1>3, <1>4
<1>7. y \in Seq(V)
  BY <1>1, <1>6
<1> QED
  BY <1>5, <1>7

LEMMA NothingRead == ASSUME NEW s \in Seq(GoodRanges) PROVE ReadUpTo(s, <<>>, 0)
<1>1. Create(<<>>) = EmptyList
  <2>1. <<>> \in Seq(ValidTokens) /\ Len(<<>>) = 0 /\ 0 \in Nat
    OBVIOUS
  <2>2. EmptyList \in GoodLists
    <3>1. <<>> \in Seq(GoodRanges) /\ 0 = Total(<<>>)
      BY TotalNone
    <3> QED
      BY <3>1, GoodListIs DEF EmptyList
  <2>3. CanPushTokens(GoodLists, 0, <<>>)
    BY DEF CanPushTokens
  <2>4. TokensPushed(GoodLists, 0, <<>>, EmptyList)
    BY <2>1, <2>2, <2>3, CreateIs, Zenon
  <2>5. PICK a \in [0..0 -> GoodLists] : a[0] = EmptyList /\ FoldLeft(PushToken, EmptyList, <<>>) = a[0]
    BY <2>4 DEF TokensPushed
  <2> QED
    BY <2>5 DEF Create
<1>2. EndsAt(s, 0, 0)
  <2>1. 0 \in 0..Len(s) /\ 0 + 1 = 1 /\ 0 + 1..0 = {}
    OBVIOUS
  <2> QED
    BY <2>1 DEF EndsAt, FirstOfBracket
<1>3. NamesOf(Create(<<>>).hr) = NamesOf(SubSeq(s, 1, 0))
  <2>1. SubSeq(s, 1, 0) = <<>>
    OBVIOUS
  <2>2. Create(<<>>).hr = <<>>
    BY <1>1 DEF EmptyList
  <2> QED
    BY <2>1, <2>2, Zenon
<1> QED
  BY <1>2, <1>3 DEF ReadUpTo

LEMMA SameBracket ==
  ASSUME NEW s \in Seq(GoodRanges), NEW k \in 1..Len(s), NEW y, ReadUpTo(s, y, k - 1), ~FirstOfBracket(s, k)
  PROVE  ReadUpTo(s, y, k)
<1> SUFFICES ASSUME y \in Seq(ValidTokens) 
             PROVE  \E e : EndsAt(s, k, e) /\ NamesOf(Create(y).hr) = NamesOf(SubSeq(s, 1, e))
  BY DEF ReadUpTo
<1>1. PICK e : EndsAt(s, k - 1, e) /\ NamesOf(Create(y).hr) = NamesOf(SubSeq(s, 1, e))
  BY DEF ReadUpTo
<1>2. Len(s) \in Nat /\ k \in Nat /\ k >= 1 /\ k <= Len(s) /\ (k - 1) + 1 = k
  OBVIOUS
<1>3. e \in k - 1..Len(s) /\ (\A j \in k..e : ~FirstOfBracket(s, j)) /\ (e = Len(s) \/ FirstOfBracket(s, e + 1))
  BY <1>1, <1>2 DEF EndsAt
<1>4. e # k - 1
  BY <1>2, <1>3
<1>5. e \in k..Len(s) /\ k + 1..e \subseteq k..e
  BY <1>2, <1>3, <1>4
<1>6. EndsAt(s, k, e)
  BY <1>3, <1>5 DEF EndsAt
<1> QED
  BY <1>1, <1>6

LEMMA NextBracket ==
  ASSUME NEW s \in Seq(GoodRanges), NEW k \in 1..Len(s), NEW S, NEW y \in Seq(S), 
         ReadUpTo(s, y, k - 1), FirstOfBracket(s, k)
  PROVE  ReadUpTo(s, Append(y, Bracketed(s, k)), k)
<1> DEFINE t == Bracketed(s, k)
           d == LastOfBracket(s, k)
<1> SUFFICES ASSUME Append(y, t) \in Seq(ValidTokens) 
             PROVE  \E e : EndsAt(s, k, e) /\ NamesOf(Create(Append(y, t)).hr) = NamesOf(SubSeq(s, 1, e))
  BY DEF ReadUpTo
<1>1. EndsAt(s, k, d) /\ Reads(s, k, d, t)
  BY BracketedReads
<1> HIDE DEF t, d
<1>2. y \in Seq(ValidTokens) /\ t \in ValidTokens
  BY AppendedIn, Zenon
<1>3. PICK e : EndsAt(s, k - 1, e) /\ NamesOf(Create(y).hr) = NamesOf(SubSeq(s, 1, e))
  BY <1>2 DEF ReadUpTo
<1>4. Len(s) \in Nat /\ k \in Nat /\ k >= 1 /\ k <= Len(s) /\ (k - 1) + 1 = k
  OBVIOUS
<1>5. e = k - 1
  <2>1. e \in k - 1..Len(s) /\ (\A j \in k..e : ~FirstOfBracket(s, j))
    BY <1>3, <1>4 DEF EndsAt
  <2>2. ~(k \in k..e)
    BY <2>1
  <2> QED
    BY <1>4, <2>1, <2>2
<1>6. Create(y) \in GoodLists /\ Create(Append(y, t)) = PushToken(Create(y), t)
  BY <1>2, CreateAppend
<1>7. NamesOf(Create(Append(y, t)).hr) = NamesOf(Create(y).hr) \o NamesOf(SubSeq(s, k, d))
  BY <1>1, <1>2, <1>6 DEF Reads, ValidTokens
<1>8. d \in k..Len(s)
  BY <1>1 DEF EndsAt
<1> DEFINE u == SubSeq(s, 1, k - 1)
           v == SubSeq(s, k, d)
<1>9. u \in Seq(GoodRanges) /\ v \in Seq(GoodRanges) /\ u \o v = SubSeq(s, 1, d)
  BY <1>4, <1>8
<1> HIDE DEF u, v
<1>10. NamesOf(u \o v) = NamesOf(u) \o NamesOf(v)
  BY <1>9, NamesOfConcat
<1>11. NamesOf(Create(Append(y, t)).hr) = NamesOf(SubSeq(s, 1, d))
  BY <1>3, <1>5, <1>7, <1>9, <1>10 DEF u, v
<1> QED
  BY <1>1, <1>11

\* The list that the written one is read as.
WithinLimits(y) == \A k \in DOMAIN y : 
  /\ Len(y[k].ranges) <= MaxRanges 
  /\ \A j \in DOMAIN y[k].ranges : y[k].ranges[j].hi - y[k].ranges[j].lo < MaxRange

LEMMA RoundTrip ==
  ASSUME NEW s \in Seq(GoodRanges), WithinLimits(RangedString(s))
  PROVE  ParseOK(RangedString(s)) /\ NamesOf(Create(RangedString(s)).hr) = NamesOf(s)
<1> DEFINE n == Len(s)
           S == {Bracketed(s, k) : k \in 1..n}
           q == [k \in DOMAIN s |-> IF FirstOfBracket(s, k) THEN <<Bracketed(s, k)>> ELSE <<>>]
<1>1. n \in Nat /\ DOMAIN s = 1..n
  OBVIOUS
<1>2. \A k \in 1..n : q[k] = IF FirstOfBracket(s, k) THEN <<Bracketed(s, k)>> ELSE <<>>
  BY <1>1
<1>3. q \in Seq(Seq(S)) /\ Len(q) = n
  <2>1. \A k \in 1..n : Bracketed(s, k) \in S
    OBVIOUS
  <2>2. DOMAIN q = 1..n
    BY <1>1
  <2> HIDE DEF q, S
  <2>3. ASSUME NEW k \in 1..n PROVE q[k] \in Seq(S)
    <3> DEFINE t == Bracketed(s, k)
    <3>1. t \in S
      BY <2>1
    <3>2. q[k] = IF FirstOfBracket(s, k) THEN <<t>> ELSE <<>>
      BY <1>2
    <3> HIDE DEF t, n
    <3>3. <<t>> \in Seq(S) /\ <<>> \in Seq(S)
      BY ONLY <3>1
    <3> QED
      BY ONLY <3>2, <3>3
  <2>4. q = [k \in 1..n |-> q[k]]
    BY <1>1, <2>2 DEF q
  <2> HIDE DEF n
  <2> QED
    BY <1>1, <2>3, <2>4
<1>4. RangedString(s) = FlattenSeq(q)
  BY DEF RangedString
<1>5. \A t \in S : \E k \in 1..n : t = Bracketed(s, k)
  OBVIOUS
<1> HIDE DEF q, S
<1>6. PICK c \in [0..n -> Seq(S)] : Pieces(q, n, c) /\ RangedString(s) = c[n]
  BY <1>3, <1>4, FlattenIs
<1> DEFINE y == RangedString(s)
<1>7. y \in Seq(S)
  BY <1>1, <1>6
<1>8. ASSUME NEW i \in DOMAIN y
      PROVE  y[i] \in ValidTokens /\ Len(y[i].ranges) <= MaxRanges /\ \A j \in DOMAIN y[i].ranges : Valid(y[i].ranges[j])
  <2> DEFINE t == y[i]
  <2>1. t \in S
    BY <1>7
  <2>2. PICK k \in 1..n : t = Bracketed(s, k)
    BY <1>5, <2>1
  <2>3. Reads(s, k, LastOfBracket(s, k), t)
    BY <2>2, BracketedReads
  <2>4. Len(t.ranges) <= MaxRanges /\ \A j \in DOMAIN t.ranges : t.ranges[j].hi - t.ranges[j].lo < MaxRange
    BY DEF WithinLimits
  <2> HIDE DEF t, n
  <2>5. ASSUME NEW j \in DOMAIN t.ranges PROVE Valid(t.ranges[j])
    <3>1. t.ranges[j].lo \in Nat /\ t.ranges[j].hi \in Nat /\ t.ranges[j].lo <= t.ranges[j].hi
      BY <2>3 DEF Reads
    <3>2. t.ranges[j].hi - t.ranges[j].lo < MaxRange
      BY <2>4
    <3> DEFINE lo == t.ranges[j].lo
               hi == t.ranges[j].hi
    <3>3. MaxRange \in Nat
      BY HostlistAssumption DEF HostlistAssumption
    <3> QED
      BY <3>1, <3>2, <3>3 DEF Valid
  <2>6. t \in Tokens /\ (t.ranges # <<>> => NoTail(t.prefix))
    BY <2>3 DEF Reads
  <2>7. t \in ValidTokens
    BY <2>5, <2>6 DEF ValidTokens, ValidToken
  <2> QED
    BY <2>4, <2>5, <2>7 DEF t
<1> HIDE DEF y
<1>9. y \in Seq(ValidTokens)
  <2> DEFINE m == Len(y)
  <2>1. m \in Nat /\ DOMAIN y = 1..m /\ y \in [1..m -> S]
    BY <1>7
  <2> HIDE DEF m
  <2>2. y \in [1..m -> ValidTokens]
    BY <1>8, <2>1
  <2> QED
    BY <2>1, <2>2
<1>10. ParseOK(y)
  BY <1>8 DEF ParseOK
<1> DEFINE B == {k \in 0..n : ReadUpTo(s, c[k], k)}
<1>11. 0 \in B
  BY <1>1, <1>6, NothingRead DEF Pieces
<1>12. ASSUME NEW k \in 1..n, k - 1 \in B PROVE k \in B
  <2>1. k \in 0..n /\ k - 1 \in 0..n
    BY <1>1
  <2>2. c[k - 1] \in Seq(S) /\ c[k] = c[k - 1] \o q[k]
    BY <1>6, <2>1 DEF Pieces
  <2>3. ReadUpTo(s, c[k - 1], k - 1)
    BY <1>12
  <2>4. CASE FirstOfBracket(s, k)
    <3>1. q[k] = <<Bracketed(s, k)>>
      BY <1>2, <2>4
    <3>2. c[k - 1] \o <<Bracketed(s, k)>> = Append(c[k - 1], Bracketed(s, k))
      BY <2>2
    <3>3. ReadUpTo(s, Append(c[k - 1], Bracketed(s, k)), k)
      BY <2>2, <2>3, <2>4, NextBracket
    <3> QED
      BY <2>1, <2>2, <3>1, <3>2, <3>3
  <2>5. CASE ~FirstOfBracket(s, k)
    <3>1. q[k] = <<>>
      BY <1>2, <2>5
    <3>2. c[k - 1] \o <<>> = c[k - 1]
      BY <2>2
    <3>3. ReadUpTo(s, c[k - 1], k)
      BY <2>3, <2>5, SameBracket
    <3> QED
      BY <2>1, <2>2, <3>1, <3>2, <3>3
  <2> QED
    BY <2>4, <2>5
<1> HIDE DEF B
<1>13. n \in B
  <2> HIDE DEF n
  <2>1. \A k \in 0..n : k \in B
    BY <1>1, <1>11, <1>12, Climbs
  <2> QED
    BY <1>1, <2>1
<1>14. PICK e : EndsAt(s, n, e) /\ NamesOf(Create(y).hr) = NamesOf(SubSeq(s, 1, e))
  <2>1. c[n] = y /\ ReadUpTo(s, c[n], n)
    BY <1>6, <1>13 DEF B, y
  <2> QED
    BY <1>9, <2>1 DEF ReadUpTo
<1>15. e = n
  <2>1. e \in n..n
    BY <1>14 DEF EndsAt
  <2> HIDE DEF n
  <2> QED
    BY <1>1, <2>1
<1>16. SubSeq(s, 1, n) = s
  OBVIOUS
<1> QED
  BY <1>10, <1>14, <1>15, <1>16 DEF y

LEMMA GoodReadsBack == IInv => ReadsBack
<1> SUFFICES ASSUME IInv, Readable 
             PROVE  ParseOK(RangedString(hr)) /\ NamesOf(Create(RangedString(hr)).hr) = Hosts
  BY DEF ReadsBack
<1>1. hr \in Seq(GoodRanges)
  BY DEF IInv, Counted
<1> DEFINE y == RangedString(hr)
<1>2. \A k \in DOMAIN y : y[k] \in {y[j] : j \in DOMAIN y}
  OBVIOUS
<1>3. \A t \in {y[j] : j \in DOMAIN y} : 
        Len(t.ranges) <= MaxRanges /\ \A j \in DOMAIN t.ranges : t.ranges[j].hi - t.ranges[j].lo < MaxRange
  BY DEF Readable
<1> HIDE DEF y
<1>4. WithinLimits(y)
  BY <1>2, <1>3, Zenon DEF WithinLimits
<1>5. WithinLimits(RangedString(hr))
  BY <1>4 DEF y
<1> QED
  BY <1>1, <1>5, RoundTrip DEF Hosts

\* hostlist_ranged_string writes what hostlist_create reads as the same hosts, in the same
\* order: "-w -^file" excludes the hosts it is meant to.
THEOREM ListReadsBack == Spec => []ReadsBack
<1>1. Init /\ [][Next]_vars => []IInv
  BY Inductive, PTL
<1> QED
  BY <1>1, GoodReadsBack, PTL DEF Spec
=============================================================================
