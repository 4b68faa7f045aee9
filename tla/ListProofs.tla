----------------------------- MODULE ListProofs ----------------------------
(***************************************************************************)
(* The chain of a list, its tail, its count and the place of every         *)
(* iterator survive every operation, the list owns exactly the items in    *)
(* its nodes, and it is the sequence with iterators that ListLog promises, *)
(* for any number of nodes, items and iterators.                           *)
(***************************************************************************)
EXTENDS List, FiniteSetTheorems, NaturalsInduction, TLAPS

\* A chain m through the first n nodes of s.
Linked(m, s, n) ==
  /\ \A k, l \in 1..n : s[k] = s[l] => k = l
  /\ \A k \in 0..n : m[Field(s, k)] = IF k = n THEN Nil ELSE s[k + 1]

\* An iterator with at most one node between its field and its node.
Cursor(m, s, n, a, p) == \E k \in 0..n :
  /\ a = Field(s, k)
  /\ p = m[a] \/ (k < n /\ p = m[s[k + 1]])

With(s, n, j, p) ==
  [k \in 1..n + 1 |-> IF k <= j THEN s[k] ELSE IF k = j + 1 THEN p ELSE s[k - 1]]
Without(s, n, j) == [k \in 1..n - 1 |-> IF k <= j THEN s[k] ELSE s[k + 1]]

\* q is one of the first n nodes of s.
Among(s, n, q) == \E k \in 1..n : s[k] = q

Linking(m, a, p) == [m EXCEPT ![p] = m[a], ![a] = p]
Unlinking(m, a, p) == [m EXCEPT ![a] = m[p], ![p] = Nil]

\* The fields of a chain are distinct, and each has its own value.
LEMMA FieldFacts ==
  ASSUME NEW n \in Nat, NEW s \in [1..n -> Nodes], NEW m, Linked(m, s, n)
  PROVE  /\ \A k \in 0..n : Field(s, k) \in Fields
         /\ \A k, l \in 0..n : Field(s, k) = Field(s, l) => k = l
         /\ \A k, l \in 0..n : m[Field(s, k)] = m[Field(s, l)] => k = l
<1>1. \A k \in 0..n : Field(s, k) \in Fields
  BY DEF Field, Fields
<1>2. ASSUME NEW k \in 0..n, NEW l \in 0..n, Field(s, k) = Field(s, l) PROVE k = l
  BY <1>2, ListAssumption DEF Field, Linked
<1>3. ASSUME NEW k \in 0..n, NEW l \in 0..n, m[Field(s, k)] = m[Field(s, l)]
      PROVE  k = l
  <2>1. m[Field(s, k)] = IF k = n THEN Nil ELSE s[k + 1]
    BY DEF Linked
  <2>2. m[Field(s, l)] = IF l = n THEN Nil ELSE s[l + 1]
    BY DEF Linked
  <2>3. \A i \in 0..n : i # n => i + 1 \in 1..n /\ s[i + 1] # Nil
    BY ListAssumption
  <2>4. \A i, e \in 1..n : s[i] = s[e] => i = e
    BY DEF Linked
  <2>5. (k = n) <=> (l = n)
    BY <1>3, <2>1, <2>2, <2>3
  <2>6. k # n => s[k + 1] = s[l + 1]
    BY <1>3, <2>1, <2>2, <2>5
  <2> QED
    BY <2>3, <2>4, <2>5, <2>6
<1> QED
  BY <1>1, <1>2, <1>3

\* A node linked in after field j.
LEMMA LinkIn ==
  ASSUME NEW n \in Nat, NEW s \in [1..n -> Nodes], NEW m \in [Fields -> Refs],
         Linked(m, s, n), NEW j \in 0..n,
         NEW p \in Nodes, \A k \in 1..n : s[k] # p
  PROVE  LET t == With(s, n, j, p)
             w == Linking(m, Field(s, j), p)
         IN  /\ t \in [1..n + 1 -> Nodes] /\ w \in [Fields -> Refs]
             /\ Linked(w, t, n + 1)
             /\ Field(t, j + 1) = p /\ w[p] = m[Field(s, j)] /\ w[Field(s, j)] = p
             /\ \A k \in 0..j : Field(t, k) = Field(s, k)
             /\ \A k \in j + 1..n : Field(t, k + 1) = Field(s, k)
             /\ \A k \in 0..n : k # j => w[Field(s, k)] = m[Field(s, k)]
<1> DEFINE t == With(s, n, j, p)
           a == Field(s, j)
           w == Linking(m, a, p)
<1>1. /\ \A k \in 0..n : Field(s, k) \in Fields /\ Field(s, k) # p
      /\ \A k, l \in 0..n : Field(s, k) = Field(s, l) => k = l
  BY FieldFacts, ListAssumption DEF Field
<1>2. w \in [Fields -> Refs] /\ w[p] = m[a] /\ w[a] = p
  BY <1>1 DEF Linking, Fields, Refs
<1>3. \A k \in 0..n : k # j => w[Field(s, k)] = m[Field(s, k)]
  BY <1>1 DEF Linking
<1>4. t \in [1..n + 1 -> Nodes]
  BY DEF With
<1>5. /\ \A k \in 1..j : t[k] = s[k]
      /\ t[j + 1] = p
      /\ \A k \in j + 1..n : t[k + 1] = s[k]
  BY DEF With
<1>6. /\ \A k \in 0..j : Field(t, k) = Field(s, k)
      /\ Field(t, j + 1) = p
      /\ \A k \in j + 1..n : Field(t, k + 1) = Field(s, k)
  BY <1>5 DEF Field
<1>7. ASSUME NEW k \in 1..n + 1, NEW l \in 1..n + 1, t[k] = t[l] PROVE k = l
  <2>1. \A i, e \in 1..n : s[i] = s[e] => i = e
    BY DEF Linked
  <2>2. \A i \in 1..n + 1 : t[i] = IF i <= j THEN s[i] ELSE IF i = j + 1 THEN p ELSE s[i - 1]
    BY DEF With
  <2> HIDE DEF t
  <2> QED
    BY <1>7, <2>1, <2>2
<1>8. ASSUME NEW k \in 0..n + 1
      PROVE  w[Field(t, k)] = IF k = n + 1 THEN Nil ELSE t[k + 1]
  <2>0. \A i \in 0..n : m[Field(s, i)] = IF i = n THEN Nil ELSE s[i + 1]
    BY DEF Linked
  <2> HIDE DEF t, w
  <2>1. CASE k < j
    BY <2>0, <2>1, <1>3, <1>5, <1>6
  <2>2. CASE k = j
    BY <2>2, <1>2, <1>5, <1>6
  <2>3. CASE k = j + 1
    BY <2>0, <2>3, <1>2, <1>5, <1>6
  <2>4. CASE k > j + 1
    <3>1. k - 1 \in j + 1..n /\ k - 1 # j /\ (k # n + 1 => k \in j + 1..n)
      BY <2>4
    <3>2. Field(t, k) = Field(s, k - 1)
      BY <3>1, <1>6
    <3>3. w[Field(t, k)] = IF k - 1 = n THEN Nil ELSE s[k]
      BY <2>0, <3>1, <3>2, <1>3
    <3> QED
      BY <3>1, <3>3, <1>5
  <2> QED
    BY <2>1, <2>2, <2>3, <2>4
<1> QED
  <2>1. Linked(w, t, n + 1)
    BY <1>7, <1>8 DEF Linked
  <2> HIDE DEF t, w, a
  <2>2. /\ t \in [1..n + 1 -> Nodes] /\ w \in [Fields -> Refs]
        /\ Linked(w, t, n + 1)
        /\ Field(t, j + 1) = p /\ w[p] = m[a] /\ w[a] = p
        /\ \A k \in 0..j : Field(t, k) = Field(s, k)
        /\ \A k \in j + 1..n : Field(t, k + 1) = Field(s, k)
        /\ \A k \in 0..n : k # j => w[Field(s, k)] = m[Field(s, k)]
    BY <1>2, <1>3, <1>4, <1>6, <2>1
  <2> QED
    BY <2>2, Zenon DEF t, w, a

\* The node after field j linked out.
LEMMA LinkOut ==
  ASSUME NEW n \in Nat, NEW s \in [1..n -> Nodes], NEW m \in [Fields -> Refs],
         Linked(m, s, n), NEW j \in 0..n - 1,
         NEW p, p = s[j + 1], NEW a, a = Field(s, j),
         NEW t, t = Without(s, n, j), NEW w, w = Unlinking(m, a, p)
  PROVE  /\ n - 1 \in Nat /\ t \in [1..n - 1 -> Nodes] /\ w \in [Fields -> Refs]
         /\ Linked(w, t, n - 1)
         /\ p = m[a] /\ p \in Nodes /\ p = Field(s, j + 1) /\ w[a] = m[p]
         /\ \A k \in 1..n - 1 : t[k] # p
         /\ \A k \in 0..j : Field(t, k) = Field(s, k)
         /\ \A k \in j + 2..n : Field(t, k - 1) = Field(s, k)
         /\ \A k \in 0..n : k \notin {j, j + 1} => w[Field(s, k)] = m[Field(s, k)]
<1>0. n - 1 \in Nat /\ j + 1 \in 1..n
  OBVIOUS
<1>1. /\ \A k \in 0..n : Field(s, k) \in Fields
      /\ \A k, l \in 0..n : Field(s, k) = Field(s, l) => k = l
  BY FieldFacts
<1>2. p = m[a] /\ p \in Nodes /\ p = Field(s, j + 1)
  BY <1>0 DEF Linked, Field
<1>3. a \in Fields /\ a # p
  BY <1>0, <1>1, <1>2
<1>4. w \in [Fields -> Refs] /\ w[a] = m[p]
  BY <1>2, <1>3 DEF Unlinking, Fields, Refs
<1>5. \A k \in 0..n : k \notin {j, j + 1} => w[Field(s, k)] = m[Field(s, k)]
  BY <1>0, <1>1, <1>2 DEF Unlinking
<1>6. /\ t \in [1..n - 1 -> Nodes]
      /\ \A k \in 1..n - 1 : t[k] = IF k <= j THEN s[k] ELSE s[k + 1]
  BY DEF Without
<1>7. /\ \A k \in 0..j : Field(t, k) = Field(s, k)
      /\ \A k \in j + 2..n : Field(t, k - 1) = Field(s, k)
  BY <1>6 DEF Field
<1>8. \A k, l \in 1..n : s[k] = s[l] => k = l
  BY DEF Linked
<1>9. \A k, l \in 1..n - 1 : t[k] = t[l] => k = l
  BY <1>6, <1>8
<1>10. \A k \in 1..n - 1 : t[k] # p
  BY <1>0, <1>6, <1>8
<1>11. ASSUME NEW k \in 0..n - 1
       PROVE  w[Field(t, k)] = IF k = n - 1 THEN Nil ELSE t[k + 1]
  <2>0. \A i \in 0..n : m[Field(s, i)] = IF i = n THEN Nil ELSE s[i + 1]
    BY DEF Linked
  <2>1. CASE k < j
    BY <2>0, <2>1, <1>5, <1>6, <1>7
  <2>2. CASE k = j
    BY <2>0, <2>2, <1>0, <1>2, <1>4, <1>6, <1>7
  <2>3. CASE k > j
    <3>1. k + 1 \in j + 2..n /\ k + 1 \in 0..n /\ k + 1 \notin {j, j + 1}
      BY <2>3
    <3>2. Field(t, k) = Field(s, k + 1)
      BY <3>1, <1>7
    <3>3. w[Field(t, k)] = IF k + 1 = n THEN Nil ELSE s[k + 2]
      BY <2>0, <3>1, <3>2, <1>5
    <3> QED
      BY <2>3, <3>3, <1>6
  <2> QED
    BY <2>1, <2>2, <2>3
<1>12. Linked(w, t, n - 1)
  BY <1>9, <1>11 DEF Linked
<1> QED
  BY <1>0, <1>2, <1>4, <1>5, <1>6, <1>7, <1>10, <1>12

\* An iterator stays placed when a node is linked in ...
LEMMA CursorIn ==
  ASSUME NEW n \in Nat, NEW s \in [1..n -> Nodes], NEW m \in [Fields -> Refs],
         Linked(m, s, n), NEW j \in 0..n,
         NEW p \in Nodes, \A k \in 1..n : s[k] # p,
         NEW b, NEW q, Cursor(m, s, n, b, q)
  PROVE  LET a == Field(s, j)
         IN  Cursor(Linking(m, a, p), With(s, n, j, p), n + 1,
                    IF b = a THEN p ELSE b, IF b # a /\ q = m[a] THEN p ELSE q)
<1> DEFINE a == Field(s, j)
           t == With(s, n, j, p)
           w == Linking(m, a, p)
           b2 == IF b = a THEN p ELSE b
           q2 == IF b # a /\ q = m[a] THEN p ELSE q
<1>1. /\ Field(t, j + 1) = p /\ w[p] = m[a] /\ w[a] = p
      /\ \A k \in 0..j : Field(t, k) = Field(s, k)
      /\ \A k \in j + 1..n : Field(t, k + 1) = Field(s, k)
      /\ \A k \in 0..n : k # j => w[Field(s, k)] = m[Field(s, k)]
  BY LinkIn
<1>2. /\ \A k, l \in 0..n : Field(s, k) = Field(s, l) => k = l
      /\ \A k, l \in 0..n : m[Field(s, k)] = m[Field(s, l)] => k = l
  BY FieldFacts
<1>3. PICK k \in 0..n : /\ b = Field(s, k)
                        /\ q = m[b] \/ (k < n /\ q = m[Field(s, k + 1)])
  BY DEF Cursor, Field
<1> HIDE DEF t, w, a
<1>a. a = Field(s, j)
  BY DEF a
<1> SUFFICES \E i \in 0..n + 1 : /\ b2 = Field(t, i)
                                 /\ q2 = w[b2] \/ (i < n + 1 /\ q2 = w[Field(t, i + 1)])
  <2>1. \A i \in 0..n + 1 : i < n + 1 => Field(t, i + 1) = t[i + 1]
    BY DEF Field
  <2>2. Cursor(w, t, n + 1, b2, q2)
    BY <2>1 DEF Cursor
  <2> QED
    BY <2>2, Zenon DEF t, w, a
<1>4. CASE k = j
  <2>1. b2 = p /\ q2 = q /\ b2 = Field(t, j + 1)
    BY <1>1, <1>3, <1>4, <1>a
  <2>2. CASE q = m[b]
    BY <1>1, <1>3, <1>4, <1>a, <2>1, <2>2
  <2>3. CASE k < n /\ q = m[Field(s, k + 1)]
    <3>1. j + 1 \in j + 1..n /\ j + 1 # j /\ j + 1 \in 0..n
      BY <1>4, <2>3
    <3>2. q2 = w[Field(t, j + 2)]
      BY <1>1, <1>4, <2>1, <2>3, <3>1
    <3> QED
      BY <2>1, <3>1, <3>2
  <2> QED
    BY <1>3, <2>2, <2>3
<1>5. CASE k # j
  <2>1. b2 = b /\ m[b] # m[a] /\ w[b] = m[b] /\ b # a
    BY <1>1, <1>2, <1>3, <1>5, <1>a
  <2> DEFINE i == IF k < j THEN k ELSE k + 1
  <2>2. i \in 0..n + 1 /\ b2 = Field(t, i)
    BY <1>1, <1>3, <1>5, <2>1
  <2>3. CASE q = m[b]
    <3>1. q2 = w[b2]
      BY <2>1, <2>3
    <3> QED
      BY <2>2, <3>1
  <2>4. CASE k < n /\ k + 1 = j /\ q = m[Field(s, k + 1)]
    <3>1. q2 = p /\ i + 1 = j /\ w[Field(t, i + 1)] = p
      BY <1>1, <1>a, <2>1, <2>4
    <3> QED
      BY <2>2, <2>4, <3>1
  <2>5. CASE k < n /\ k + 1 # j /\ q = m[Field(s, k + 1)]
    <3>1. q # m[a] /\ q2 = q
      BY <1>2, <1>a, <2>5
    <3>2. w[Field(s, k + 1)] = m[Field(s, k + 1)]
      BY <1>1, <2>5
    <3>3. Field(t, i + 1) = Field(s, k + 1) /\ i < n + 1
      BY <1>1, <1>5, <2>5
    <3> QED
      BY <2>2, <2>5, <3>1, <3>2, <3>3
  <2> QED
    BY <1>3, <2>3, <2>4, <2>5
<1> QED
  BY <1>4, <1>5

\* ... and when one is linked out.
LEMMA CursorOut ==
  ASSUME NEW n \in Nat, NEW s \in [1..n -> Nodes], NEW m \in [Fields -> Refs],
         Linked(m, s, n), NEW j \in 0..n - 1,
         NEW b, NEW q, Cursor(m, s, n, b, q)
  PROVE  LET a == Field(s, j)
             p == s[j + 1]
         IN  Cursor(Unlinking(m, a, p), Without(s, n, j), n - 1,
                    IF q = p \/ b = p THEN a ELSE b, IF q = p THEN m[p] ELSE q)
<1> DEFINE a == Field(s, j)
           p == s[j + 1]
           t == Without(s, n, j)
           w == Unlinking(m, a, p)
           b2 == IF q = p \/ b = p THEN a ELSE b
           q2 == IF q = p THEN m[p] ELSE q
<1>1. /\ n - 1 \in Nat /\ p = m[a] /\ p = Field(s, j + 1) /\ w[a] = m[p]
      /\ \A k \in 0..j : Field(t, k) = Field(s, k)
      /\ \A k \in j + 2..n : Field(t, k - 1) = Field(s, k)
      /\ \A k \in 0..n : k \notin {j, j + 1} => w[Field(s, k)] = m[Field(s, k)]
  <2> HIDE DEF t, w, a, p
  <2>1. a = Field(s, j) /\ p = s[j + 1] /\ t = Without(s, n, j) /\ w = Unlinking(m, a, p)
    BY DEF t, w, a, p
  <2> QED
    BY <2>1, LinkOut
<1>2. /\ \A k, l \in 0..n : Field(s, k) = Field(s, l) => k = l
      /\ \A k, l \in 0..n : m[Field(s, k)] = m[Field(s, l)] => k = l
  BY FieldFacts
<1>3. PICK k \in 0..n : /\ b = Field(s, k)
                        /\ q = m[b] \/ (k < n /\ q = m[Field(s, k + 1)])
  BY DEF Cursor, Field
<1> HIDE DEF t, w, a, p
<1>a. a = Field(s, j) /\ a = Field(t, j)
  BY <1>1 DEF a
<1> SUFFICES \E i \in 0..n - 1 : /\ b2 = Field(t, i)
                                 /\ q2 = w[b2] \/ (i < n - 1 /\ q2 = w[Field(t, i + 1)])
  <2>1. \A i \in 0..n - 1 : i < n - 1 => Field(t, i + 1) = t[i + 1]
    BY DEF Field
  <2>2. Cursor(w, t, n - 1, b2, q2)
    BY <2>1 DEF Cursor
  <2> QED
    BY <2>2, Zenon DEF t, w, a, p
<1>4. CASE q = p
  BY <1>1, <1>4, <1>a
<1>5. CASE q # p /\ k = j + 1
  <2>1. b2 = a /\ q2 = q /\ b = p
    BY <1>1, <1>3, <1>5
  <2>2. CASE q = m[b]
    BY <1>1, <1>a, <2>1, <2>2
  <2>3. CASE k < n /\ q = m[Field(s, k + 1)]
    <3>1. /\ j + 2 \in j + 2..n /\ j + 2 \in 0..n /\ j + 2 \notin {j, j + 1}
          /\ k + 1 = j + 2 /\ (j + 2) - 1 = j + 1
      BY <1>5, <2>3
    <3>2. Field(t, j + 1) = Field(s, j + 2) /\ w[Field(s, j + 2)] = q
      BY <1>1, <2>3, <3>1
    <3> QED
      BY <1>a, <2>1, <3>1, <3>2
  <2> QED
    BY <1>3, <2>2, <2>3
<1>6. CASE q # p /\ k # j + 1
  <2>1. b2 = b /\ q2 = q
    BY <1>1, <1>2, <1>3, <1>6
  <2>2. CASE k = j
    BY <1>1, <1>3, <1>6, <1>a, <2>1, <2>2
  <2>3. CASE k # j /\ q = m[b]
    <3>1. w[b] = m[b]
      BY <1>1, <1>3, <1>6, <2>3
    <3> DEFINE i == IF k < j THEN k ELSE k - 1
    <3>2. i \in 0..n - 1 /\ b = Field(t, i)
      BY <1>1, <1>3, <1>6, <2>3
    <3> QED
      BY <2>1, <2>3, <3>1, <3>2
  <2>4. CASE k # j /\ k < n /\ q = m[Field(s, k + 1)]
    <3>1. k + 1 # j
      BY <1>1, <1>6, <1>a, <2>4
    <3>2. w[Field(s, k + 1)] = q
      BY <1>1, <1>6, <2>4, <3>1
    <3> DEFINE i == IF k < j THEN k ELSE k - 1
    <3>3. i \in 0..n - 1 /\ b = Field(t, i) /\ i < n - 1
      BY <1>1, <1>3, <1>6, <2>4
    <3>4. Field(t, i + 1) = Field(s, k + 1)
      BY <1>1, <1>6, <2>4, <3>1
    <3> QED
      BY <2>1, <3>2, <3>3, <3>4
  <2> QED
    BY <1>3, <2>2, <2>3, <2>4
<1> QED
  BY <1>4, <1>5, <1>6

\* The nodes of a chain after a link.
LEMMA NodesIn ==
  ASSUME NEW n \in Nat, NEW s \in [1..n -> Nodes], NEW j \in 0..n, NEW p, NEW q
  PROVE  Among(With(s, n, j, p), n + 1, q) <=> (q = p \/ Among(s, n, q))
<1> DEFINE t == With(s, n, j, p)
<1>1. /\ \A k \in 1..j : t[k] = s[k] /\ k \in 1..n + 1
      /\ t[j + 1] = p /\ j + 1 \in 1..n + 1
      /\ \A k \in j + 1..n : t[k + 1] = s[k] /\ k + 1 \in 1..n + 1
  BY DEF With
<1>2. \A k \in 1..n + 1 : k \in 1..j \/ k = j + 1 \/ k - 1 \in j + 1..n
  OBVIOUS
<1>3. \A k \in 1..n : k \in 1..j \/ k \in j + 1..n
  OBVIOUS
<1>4. \A k \in 1..n + 1 : k - 1 \in j + 1..n => t[k] = s[k - 1] /\ k - 1 \in 1..n
  BY DEF With
<1>5. \A k \in 1..j : k \in 1..n
  OBVIOUS
<1> HIDE DEF t
<1>6. ASSUME NEW k \in 1..n + 1, t[k] = q PROVE q = p \/ \E i \in 1..n : s[i] = q
  BY <1>1, <1>2, <1>4, <1>5, <1>6, Zenon
<1>7. ASSUME q = p \/ \E i \in 1..n : s[i] = q PROVE \E k \in 1..n + 1 : t[k] = q
  BY <1>1, <1>3, <1>7, Zenon
<1>8. (\E k \in 1..n + 1 : t[k] = q) <=> (q = p \/ \E k \in 1..n : s[k] = q)
  BY <1>6, <1>7, Zenon
<1> QED
  BY <1>8, Zenon DEF t, Among

LEMMA NodesOut ==
  ASSUME NEW n \in Nat, NEW s \in [1..n -> Nodes], NEW j \in 0..n - 1, NEW q,
         \A k, l \in 1..n : s[k] = s[l] => k = l
  PROVE  Among(Without(s, n, j), n - 1, q) <=> (q # s[j + 1] /\ Among(s, n, q))
<1> DEFINE t == Without(s, n, j)
<1>1. \A k \in 1..n - 1 : t[k] = s[IF k <= j THEN k ELSE k + 1]
  BY DEF Without
<1> HIDE DEF t
<1>2. ASSUME NEW k \in 1..n - 1, t[k] = q PROVE q # s[j + 1] /\ \E i \in 1..n : s[i] = q
  <2> DEFINE i == IF k <= j THEN k ELSE k + 1
  <2>1. i \in 1..n /\ i # j + 1 /\ j + 1 \in 1..n /\ s[i] = q
    BY <1>1, <1>2
  <2> QED
    BY <2>1
<1>3. ASSUME NEW i \in 1..n, s[i] = q, q # s[j + 1] PROVE \E k \in 1..n - 1 : t[k] = q
  <2> DEFINE k == IF i <= j THEN i ELSE i - 1
  <2>1. i # j + 1
    BY <1>3
  <2>2. k \in 1..n - 1 /\ (IF k <= j THEN k ELSE k + 1) = i
    BY <2>1
  <2> QED
    BY <1>1, <1>3, <2>2
<1>4. (\E k \in 1..n - 1 : t[k] = q) <=> (q # s[j + 1] /\ \E k \in 1..n : s[k] = q)
  BY <1>2, <1>3, Zenon
<1> QED
  BY <1>4, Zenon DEF t, Among

----------------------------------------------------------------------------
\* The pointers of the loop that holds the mutex.
Loop(s) ==
  /\ op.name = "delete_all" => \E k \in 0..count : op.pp = Field(s, k)
  /\ Sorting => \E j \in 1..count : 
       /\ op.pp = Field(s, j) /\ op.back = Field(s, j - 1)
       /\ op.name = "place" => 
            /\ j < count /\ KeyAt(op.pp) < KeyAt(op.back)
            /\ \E k \in 0..j - 1 : op.at = Field(s, k)

Whole(s) ==
  /\ Linked(mem, s, count)
  /\ \A q : q \in used <=> Among(s, count, q)
  /\ ~Sorting => /\ tail = Field(s, count) 
                 /\ \A i \in iters : Cursor(mem, s, count, prev[i], pos[i])
  /\ Loop(s)

\* Inductive: between operations the chain is whole; in a loop, the loop's pointers
\* are on it, and the search for a node's place cannot run past that node.
IndInv ==
  /\ TypeOK
  /\ \A p \in used : data[p] \in Items
  /\ alive => \E s \in [1..count -> Nodes] : Whole(s)
  /\ ~alive => used = {} /\ iters = {} /\ op = Idle

LEMMA IdleFacts ==
  ASSUME op = Idle 
  PROVE  op.name = "none" /\ ~Sorting /\ \A s : Loop(s)
  BY DEF Idle, Sorting, Loop

LEMMA InitInd == Init => IndInv
<1> SUFFICES ASSUME Init PROVE IndInv
  OBVIOUS
<1>1. TypeOK
  BY ListAssumption DEF Init, TypeOK, Fields, Refs, Idle
<1>2. Whole([k \in 1..0 |-> HeadPtr])
  <2>1. \A s : Field(s, 0) = HeadPtr /\ 1..0 = {} /\ \A k \in 0..0 : k = 0
    BY DEF Field
  <2>2. HeadPtr \in Fields
    BY DEF Fields
  <2> QED
    BY <2>1, <2>2, IdleFacts DEF Init, Whole, Linked, Among
<1>3. [k \in 1..0 |-> HeadPtr] \in [1..0 -> Nodes]
  OBVIOUS
<1> QED
  BY <1>1, <1>2, <1>3 DEF Init, IndInv

\* A node linked in through any field of the chain.
\* t is the chain s with p, which has x, after its first j nodes.
Put(s, t, j, x, p) ==
  /\ p \in Nodes \ used /\ data' = [data EXCEPT ![p] = x]
  /\ t = With(s, count, j, p) /\ count' = count + 1
  /\ t \in [1..count' -> Nodes] /\ Whole(t)'
  /\ \A i \in iters : /\ prev'[i] = PrevAfterCreate(i, Field(s, j), p)
                      /\ pos'[i] = PosAfterCreate(i, Field(s, j), p)

LEMMA CreateWhole ==
  ASSUME IndInv, Free, NEW s \in [1..count -> Nodes], Whole(s), NEW j \in 0..count,
         NEW x \in Items, NodeCreate(Field(s, j), x)
  PROVE  IndInv' /\ \E t, p : Put(s, t, j, x, p)
<1> DEFINE n == count
           a == Field(s, j)
<1>1. PICK p \in Nodes \ used :
        /\ used' = used \cup {p} /\ data' = [data EXCEPT ![p] = x]
        /\ mem' = [mem EXCEPT ![p] = mem[a], ![a] = p]
        /\ tail' = IF mem[a] = Nil THEN p ELSE tail
        /\ prev' = [i \in Iters |-> 
                      IF i \in iters THEN PrevAfterCreate(i, a, p) ELSE prev[i]]
        /\ pos' = [i \in Iters |-> 
                     IF i \in iters THEN PosAfterCreate(i, a, p) ELSE pos[i]]
  BY DEF NodeCreate
<1>2. /\ count' = n + 1 /\ owner' = [owner EXCEPT ![x] = "list"] /\ ret' = x
      /\ iters' = iters /\ op' = op /\ alive' = alive /\ alive /\ op = Idle
  BY DEF NodeCreate, Free
<1>3. /\ n \in Nat /\ mem \in [Fields -> Refs] /\ Linked(mem, s, n)
      /\ \A k \in 1..n : s[k] # p
      /\ ~Sorting /\ tail = Field(s, n)
      /\ \A i \in iters : Cursor(mem, s, n, prev[i], pos[i])
  BY <1>1, <1>2, IdleFacts DEF IndInv, TypeOK, Whole, Among
<1>t. PICK t : t = With(s, count, j, p)
  OBVIOUS
<1>4. /\ t \in [1..n + 1 -> Nodes] /\ mem' \in [Fields -> Refs]
      /\ Linked(mem', t, n + 1)
      /\ Field(t, j + 1) = p
      /\ \A k \in j + 1..n : Field(t, k + 1) = Field(s, k)
  <2>1. mem' = Linking(mem, Field(s, j), p)
    BY <1>1, Zenon DEF Linking
  <2> QED
    BY <1>3, <1>t, <2>1, LinkIn
<1>5. tail' = Field(t, n + 1)
  <2>1. mem[a] = IF j = n THEN Nil ELSE s[j + 1]
    BY <1>3 DEF Linked
  <2>2. CASE j = n
    BY <1>1, <1>4, <2>1, <2>2
  <2>3. CASE j # n
    <3>1. mem[a] # Nil
      BY <1>3, <2>1, <2>3, ListAssumption
    <3> QED
      BY <1>1, <1>3, <1>4, <2>3, <3>1
  <2> QED
    BY <2>2, <2>3
<1>6. \A i \in iters : Cursor(mem', t, n + 1, prev'[i], pos'[i])
  <2> TAKE i \in iters
  <2>1. i \in Iters
    BY DEF IndInv, TypeOK
  <2>2. /\ prev'[i] = IF prev[i] = a THEN p ELSE prev[i]
        /\ pos'[i] = IF prev[i] # a /\ pos[i] = mem[a] THEN p ELSE pos[i]
    BY <1>1, <2>1 DEF PrevAfterCreate, PosAfterCreate
  <2>3. mem' = Linking(mem, a, p)
    BY <1>1, Zenon DEF Linking
  <2>4. Cursor(Linking(mem, Field(s, j), p), With(s, n, j, p), n + 1,
               IF prev[i] = Field(s, j) THEN p ELSE prev[i],
               IF prev[i] # Field(s, j) /\ pos[i] = mem[Field(s, j)] THEN p ELSE pos[i])
    BY <1>1, <1>3, CursorIn
  <2> QED
    BY <1>t, <2>2, <2>3, <2>4, Zenon
<1>7. \A q : q \in used' <=> Among(t, n + 1, q)
  <2> TAKE q
  <2>1. Among(t, n + 1, q) <=> (q = p \/ Among(s, n, q))
    BY <1>3, <1>t, NodesIn
  <2> QED
    BY <1>1, <2>1 DEF Whole
<1>8. /\ \A i \in Iters : prev'[i] \in Fields /\ pos'[i] \in Refs
      /\ tail' \in Fields
  BY <1>1 DEF IndInv, TypeOK, PrevAfterCreate, PosAfterCreate, Fields, Refs
<1>9. TypeOK'
  <2>1. data' \in [Nodes -> Items \cup {Nil}] /\ used' \subseteq Nodes
    BY <1>1 DEF IndInv, TypeOK
  <2>2. prev' \in [Iters -> Fields] /\ pos' \in [Iters -> Refs]
    BY <1>1, <1>8
  <2>3. owner' \in [Items -> {"caller", "list", "freed"}]
    BY <1>2 DEF IndInv, TypeOK
  <2> QED
    BY <1>2, <1>3, <1>4, <1>8, <2>1, <2>2, <2>3 DEF IndInv, TypeOK
<1>10. Whole(t)'
  <2>1. (\A y : Loop(y))' /\ ~Sorting'
    BY <1>2 DEF Idle, Loop, Sorting
  <2> QED
    BY <1>2, <1>4, <1>5, <1>6, <1>7, <2>1 DEF Whole
<1>11. \A q \in used' : data'[q] \in Items
  BY <1>1 DEF IndInv, TypeOK
<1>12. IndInv'
  BY <1>2, <1>4, <1>9, <1>10, <1>11 DEF IndInv
<1>13. ASSUME NEW i \in iters
       PROVE  prev'[i] = PrevAfterCreate(i, a, p) /\ pos'[i] = PosAfterCreate(i, a, p)
  <2>1. i \in Iters
    BY DEF IndInv, TypeOK
  <2> QED
    BY <1>1, <2>1
<1>14. Put(s, t, j, x, p)
  BY <1>1, <1>2, <1>4, <1>10, <1>13, <1>t DEF Put
<1> QED
  BY <1>12, <1>14

LEMMA CreateStep ==
  ASSUME IndInv, Free, NEW s \in [1..count -> Nodes], Whole(s), NEW j \in 0..count,
         NEW x \in Items, NodeCreate(Field(s, j), x)
  PROVE  IndInv'
  BY CreateWhole

\* A node linked out through any field of the chain, which keeps its place.
\* t is the chain s without its node j + 1.
Cut(s, t, j) ==
  /\ t = Without(s, count, j) /\ count' = count - 1
  /\ t \in [1..count' -> Nodes] /\ Whole(t)'

LEMMA DestroyWhole ==
  ASSUME IndInv, alive, ~Sorting, NEW s \in [1..count -> Nodes], Whole(s),
         NEW j \in 0..count - 1, NEW to \in {"caller", "freed"},
         op.name = "delete_all" => op.pp = Field(s, j),
         NodeDestroy(Field(s, j), to), op' = op, ret' \in Items \cup {Nil}
  PROVE  IndInv' /\ \E t : Cut(s, t, j)
<1> DEFINE n == count
           a == Field(s, j)
<1>0. /\ n \in Nat /\ mem \in [Fields -> Refs] /\ Linked(mem, s, n)
      /\ tail = Field(s, n) /\ \A i \in iters : Cursor(mem, s, n, prev[i], pos[i])
  BY DEF IndInv, TypeOK, Whole
<1>p. PICK p : p = mem[a]
  OBVIOUS
<1>1. /\ used' = used \ {p} /\ data' = [data EXCEPT ![p] = Nil]
      /\ mem' = [mem EXCEPT ![a] = mem[p], ![p] = Nil]
      /\ tail' = IF mem[p] = Nil THEN a ELSE tail
      /\ prev' = [i \in Iters |-> 
                    IF i \in iters THEN PrevAfterDestroy(i, a, p) ELSE prev[i]]
      /\ pos' = [i \in Iters |-> IF i \in iters THEN PosAfterDestroy(i, p) ELSE pos[i]]
      /\ count' = n - 1 /\ owner' = [owner EXCEPT ![data[p]] = to]
      /\ iters' = iters /\ alive' = alive
  BY <1>p DEF NodeDestroy
<1>t. PICK t : t = Without(s, count, j)
  OBVIOUS
<1>2. /\ p = s[j + 1] /\ p \in Nodes
  <2>1. j \in 0..n /\ j # n
    BY <1>0
  <2> QED
    BY <1>0, <1>p, <2>1 DEF Linked
<1>3. mem' = Unlinking(mem, Field(s, j), p)
  BY <1>1, Zenon DEF Unlinking
<1>4. /\ n - 1 \in Nat /\ t \in [1..n - 1 -> Nodes] /\ mem' \in [Fields -> Refs]
      /\ Linked(mem', t, n - 1) /\ p = Field(s, j + 1)
      /\ \A k \in 0..j : Field(t, k) = Field(s, k)
      /\ \A k \in j + 2..n : Field(t, k - 1) = Field(s, k)
  BY <1>0, <1>2, <1>3, <1>t, LinkOut
<1>5. tail' = Field(t, n - 1)
  <2>1. mem[p] = IF j + 1 = n THEN Nil ELSE s[j + 2]
    BY <1>0, <1>4 DEF Linked
  <2>2. CASE j + 1 = n
    BY <1>1, <1>4, <2>1, <2>2
  <2>3. CASE j + 1 # n
    <3>1. mem[p] # Nil
      BY <1>0, <2>1, <2>3, ListAssumption
    <3>2. n \in j + 2..n
      BY <1>0, <2>3
    <3> QED
      BY <1>0, <1>1, <1>4, <3>1, <3>2
  <2> QED
    BY <2>2, <2>3
<1>6. \A i \in iters : Cursor(mem', t, n - 1, prev'[i], pos'[i])
  <2> TAKE i \in iters
  <2>1. i \in Iters
    BY DEF IndInv, TypeOK
  <2>2. /\ prev'[i] = IF pos[i] = p \/ prev[i] = p THEN a ELSE prev[i]
        /\ pos'[i] = IF pos[i] = p THEN mem[p] ELSE pos[i]
    BY <1>1, <2>1 DEF PrevAfterDestroy, PosAfterDestroy
  <2>3. Cursor(Unlinking(mem, Field(s, j), s[j + 1]), Without(s, n, j), n - 1,
               IF pos[i] = s[j + 1] \/ prev[i] = s[j + 1] THEN Field(s, j) ELSE prev[i],
               IF pos[i] = s[j + 1] THEN mem[s[j + 1]] ELSE pos[i])
    BY <1>0, CursorOut
  <2> QED
    BY <1>2, <1>3, <1>t, <2>2, <2>3, Zenon
<1>7. \A q : q \in used' <=> Among(t, n - 1, q)
  <2> TAKE q
  <2>1. Among(t, n - 1, q) <=> (q # s[j + 1] /\ Among(s, n, q))
    BY <1>0, <1>t, NodesOut DEF Linked
  <2> QED
    BY <1>1, <1>2, <2>1 DEF Whole
<1>8. p \in used /\ data[p] \in Items
  BY <1>0, <1>2 DEF Whole, Among, IndInv
<1>9. TypeOK'
  <2>1. \A i \in Iters : prev'[i] \in Fields /\ pos'[i] \in Refs
    BY <1>0, <1>1, <1>2, FieldFacts DEF IndInv, TypeOK, PrevAfterDestroy, PosAfterDestroy, Fields
  <2>2. prev' \in [Iters -> Fields] /\ pos' \in [Iters -> Refs]
    BY <1>1, <2>1
  <2>3. a \in Fields
    BY <1>0, FieldFacts
  <2>4. /\ data' \in [Nodes -> Items \cup {Nil}] /\ used' \subseteq Nodes /\ tail' \in Fields
        /\ owner' \in [Items -> {"caller", "list", "freed"}]
    BY <1>1, <1>8, <2>3 DEF IndInv, TypeOK
  <2> QED
    BY <1>1, <1>4, <2>2, <2>4 DEF IndInv, TypeOK
<1>10. Whole(t)'
  <2>1. Loop(t)' /\ ~Sorting'
    <3>1. op.name = "delete_all" => op.pp = Field(t, j) /\ j \in 0..n - 1
      BY <1>4
    <3> QED
      BY <1>1, <3>1 DEF Loop, Sorting
  <2> QED
    BY <1>1, <1>4, <1>5, <1>6, <1>7, <2>1 DEF Whole
<1>11. \A q \in used' : data'[q] \in Items
  BY <1>1 DEF IndInv, TypeOK
<1>12. IndInv'
  BY <1>1, <1>4, <1>9, <1>10, <1>11 DEF IndInv
<1>13. Cut(s, t, j)
  BY <1>1, <1>4, <1>10, <1>t DEF Cut
<1> QED
  BY <1>12, <1>13

LEMMA DestroyStep ==
  ASSUME IndInv, alive, ~Sorting, NEW s \in [1..count -> Nodes], Whole(s),
         NEW j \in 0..count - 1, NEW to \in {"caller", "freed"},
         op.name = "delete_all" => op.pp = Field(s, j),
         NodeDestroy(Field(s, j), to), op' = op, ret' \in Items \cup {Nil}
  PROVE  IndInv'
  BY DestroyWhole

\* A node moved by the sort to the place that was found for it.
\* t is the chain s with its node j + 1 moved to after its first k nodes.
Move(s, t, j, k) ==
  /\ op.pp = Field(s, j) /\ op.at = Field(s, k) /\ j < count
  /\ t = With(Without(s, count, j), count - 1, k, s[j + 1])
  /\ t \in [1..count -> Nodes] /\ Linked(mem', t, count)
  /\ op'.pp = Field(t, j + 1) /\ op'.name = "sort" /\ Whole(t)'

LEMMA PlaceWhole ==
  ASSUME IndInv, SortPlace, NEW s \in [1..count -> Nodes], Whole(s) 
  PROVE  IndInv' /\ \E t : \E j \in 1..count : \E k \in 0..j - 1 : Move(s, t, j, k)
<1> DEFINE n == count
           a == op.at
           b == op.pp
<1>p. PICK p : p = mem[op.pp]
  OBVIOUS
<1>1. /\ op.name = "place" /\ mem' = [mem EXCEPT ![p] = mem[a], ![a] = p, ![b] = mem[p]]
      /\ op' = [op EXCEPT !.name = "sort", !.back = IF @ = op.at THEN p ELSE @]
      /\ UNCHANGED <<data, used, tail, count, cursors, alive, owner, ret>>
  BY <1>p DEF SortPlace
<1>2. n \in Nat /\ mem \in [Fields -> Refs] /\ Linked(mem, s, n) /\ Sorting
  BY <1>1 DEF IndInv, TypeOK, Whole, Sorting
<1>3. PICK j \in 1..n : 
        /\ b = Field(s, j) /\ op.back = Field(s, j - 1) /\ j < n
        /\ \E k \in 0..j - 1 : a = Field(s, k)
  BY <1>1, <1>2 DEF Whole, Loop
<1>4. PICK k \in 0..j - 1 : a = Field(s, k)
  BY <1>3
<1>5. /\ \A i \in 0..n : Field(s, i) \in Fields
      /\ \A i, e \in 0..n : Field(s, i) = Field(s, e) => i = e
  BY <1>2, FieldFacts
<1>6. p = s[j + 1]
  BY <1>2, <1>3, <1>p DEF Linked
<1>u. PICK u : u = Without(s, count, j)
  OBVIOUS
<1>w. PICK w : w = Unlinking(mem, op.pp, p)
  OBVIOUS
<1>7. /\ n - 1 \in Nat /\ u \in [1..n - 1 -> Nodes] /\ w \in [Fields -> Refs]
      /\ Linked(w, u, n - 1) /\ p \in Nodes /\ p = Field(s, j + 1)
      /\ \A i \in 1..n - 1 : u[i] # p
      /\ \A i \in 0..j : Field(u, i) = Field(s, i)
  <2>1. j \in 0..n - 1
    BY <1>2, <1>3
  <2>2. w = Unlinking(mem, Field(s, j), p)
    BY <1>3, <1>w
  <2> QED
    BY <1>2, <1>6, <1>u, <2>1, <2>2, LinkOut
<1>t. PICK t : t = With(u, count - 1, k, p)
  OBVIOUS
<1>8. a = Field(u, k) /\ k \in 0..n - 1
  BY <1>2, <1>3, <1>4, <1>7
<1>9. mem' = Linking(w, Field(u, k), p)
  <2>1. a \in Fields /\ b \in Fields /\ p \in Fields /\ a # b /\ a # p /\ b # p
    <3>1. j \in 0..n /\ j + 1 \in 0..n /\ k \in 0..n /\ k # j /\ k # j + 1 /\ j # j + 1
      BY <1>2, <1>3
    <3> QED
      BY <1>3, <1>4, <1>5, <1>7, <3>1
  <2>2. \A c \in Fields : mem'[c] = Linking(w, a, p)[c]
    BY <1>1, <1>2, <1>7, <1>w, <2>1 DEF Linking, Unlinking
  <2>3. mem' \in [Fields -> Refs] /\ Linking(w, a, p) \in [Fields -> Refs]
    BY <1>1, <1>2, <1>7, <2>1 DEF Linking, Refs
  <2>4. mem' = Linking(w, a, p)
    BY <2>2, <2>3
  <2> QED
    BY <1>8, <2>4
<1>10. /\ t \in [1..n -> Nodes] /\ mem' \in [Fields -> Refs] /\ Linked(mem', t, n)
       /\ Field(t, k + 1) = p
       /\ \A i \in k + 1..n - 1 : Field(t, i + 1) = Field(u, i)
  <2>1. /\ t \in [1..(n - 1) + 1 -> Nodes] /\ mem' \in [Fields -> Refs] 
        /\ Linked(mem', t, (n - 1) + 1)
        /\ Field(t, k + 1) = p
        /\ \A i \in k + 1..n - 1 : Field(t, i + 1) = Field(u, i)
    BY <1>7, <1>8, <1>9, <1>t, LinkIn
  <2>2. (n - 1) + 1 = n
    BY <1>2
  <2> QED
    BY <2>1, <2>2
<1>11. \A q : q \in used' <=> Among(t, n, q)
  <2> TAKE q
  <2>1. Among(u, n - 1, q) <=> (q # s[j + 1] /\ Among(s, n, q))
    <3>1. j \in 0..n - 1
      BY <1>2, <1>3
    <3> QED
      BY <1>2, <1>u, <3>1, NodesOut DEF Linked
  <2>2. Among(t, (n - 1) + 1, q) <=> (q = p \/ Among(u, n - 1, q))
    BY <1>7, <1>8, <1>t, NodesIn
  <2>3. Among(s, n, p) /\ (n - 1) + 1 = n
    BY <1>2, <1>3, <1>6 DEF Among
  <2> QED
    BY <1>1, <1>6, <2>1, <2>2, <2>3 DEF Whole
<1>12. /\ op'.pp = Field(t, j + 1) /\ op'.back = Field(t, j)
       /\ op'.name = "sort" /\ j + 1 \in 1..n
  <2>1. op'.pp = op.pp /\ op'.name = "sort" /\ op'.back = IF op.back = a THEN p ELSE op.back
    BY <1>1 DEF IndInv, TypeOK
  <2>2. op.pp = Field(t, j + 1)
    BY <1>2, <1>3, <1>4, <1>7, <1>10
  <2>3. CASE op.back = a
    <3>1. k = j - 1
      BY <1>2, <1>3, <1>4, <1>5, <2>3
    <3> QED
      BY <1>2, <1>3, <1>10, <2>1, <2>2, <2>3, <3>1
  <2>4. CASE op.back # a
    <3>1. k # j - 1
      BY <1>3, <1>4, <2>4
    <3>2. j - 1 \in k + 1..n - 1 /\ (j - 1) + 1 = j /\ j - 1 \in 0..j
      BY <1>2, <1>3, <3>1
    <3>3. op.back = Field(t, j)
      BY <1>3, <1>7, <1>10, <3>2
    <3> QED
      BY <1>2, <1>3, <2>1, <2>2, <2>4, <3>3
  <2> QED
    BY <2>3, <2>4
<1>13. Whole(t)'
  <2>1. Sorting' /\ Loop(t)'
    <3>1. j = (j + 1) - 1
      BY <1>3
    <3> QED
      BY <1>1, <1>12, <3>1 DEF Sorting, Loop
  <2> QED
    BY <1>1, <1>10, <1>11, <2>1 DEF Whole
<1>14. TypeOK'
  <2>1. op' \in [name : {"none", "delete_all", "sort", "place"},
                pp : Fields, back : Fields, at : Fields, key : Nat]
    <3>1. p \in Fields
      BY <1>7 DEF Fields
    <3> QED
      BY <1>1, <3>1 DEF IndInv, TypeOK
  <2> QED
    BY <1>1, <1>10, <2>1 DEF IndInv, TypeOK, cursors
<1>15. IndInv'
  <2>1. op # Idle /\ alive
    BY <1>1 DEF Idle, IndInv
  <2> QED
    BY <1>1, <1>10, <1>13, <1>14, <2>1 DEF IndInv
<1>16. Move(s, t, j, k)
  BY <1>3, <1>4, <1>6, <1>10, <1>12, <1>13, <1>t, <1>u DEF Move
<1> QED
  BY <1>15, <1>16

LEMMA PlaceStep ==
  ASSUME IndInv, SortPlace, NEW s \in [1..count -> Nodes], Whole(s) PROVE IndInv'
  BY PlaceWhole

\* Steps that leave the chain alone, and only put one iterator elsewhere on it.
LEMMA CursorStep ==
  ASSUME IndInv, Free, NEW s \in [1..count -> Nodes], Whole(s), NEW i \in Iters,
         UNCHANGED <<chain, op, alive, owner>>, iters' \subseteq Iters,
         NEW a \in Fields, NEW p \in Refs,
         pos' = [pos EXCEPT ![i] = p], prev' = [prev EXCEPT ![i] = a],
         i \in iters' => Cursor(mem, s, count, a, p),
         iters' \ {i} \subseteq iters, ret' \in Items \cup {Nil}
  PROVE  IndInv'
<1>1. TypeOK'
  BY DEF IndInv, TypeOK, chain
<1>2. \A e \in iters' : Cursor(mem, s, count, prev'[e], pos'[e])
  <2> TAKE e \in iters'
  <2>1. CASE e = i
    BY <2>1 DEF IndInv, TypeOK
  <2>2. CASE e # i
    BY <2>2, IdleFacts DEF IndInv, TypeOK, Whole, Free
  <2> QED
    BY <2>1, <2>2
<1>3. Whole(s)'
  BY <1>2, IdleFacts DEF Whole, Loop, Sorting, chain, Free
<1> QED
  BY <1>1, <1>3 DEF IndInv, chain, Free

\* Steps that only move the pointers of a loop.
LEMMA LoopStep ==
  ASSUME IndInv, alive, NEW s \in [1..count -> Nodes], Whole(s),
         UNCHANGED <<chain, cursors, alive, owner, ret>>,
         TypeOK', Sorting => Sorting', Loop(s)'
  PROVE  IndInv'
<1>1. Whole(s)'
  BY DEF Whole, chain, cursors, Sorting
<1> QED
  BY <1>1 DEF IndInv, chain

LEMMA Step == IndInv /\ [Next]_vars => IndInv'
<1> SUFFICES ASSUME IndInv, [Next]_vars PROVE IndInv'
  OBVIOUS
<1>0. \A k \in Keys : k \in Nat
  BY ListAssumption DEF Keys
<1> DEFINE Fixed == UNCHANGED <<chain, cursors, op, alive, owner>> /\ ret' = Nil
<1>1. ASSUME Fixed \/ UNCHANGED vars PROVE IndInv'
  <2>1. UNCHANGED <<chain, cursors, op, alive, owner>> /\ ret' \in Items \cup {Nil}
    BY <1>1 DEF vars, chain, cursors, IndInv, TypeOK
  <2>2. TypeOK'
    BY <2>1 DEF IndInv, TypeOK, chain, cursors
  <2>3. ASSUME NEW s, Whole(s) PROVE Whole(s)'
    BY <2>1, <2>3 DEF Whole, Loop, Sorting, KeyAt, chain, cursors
  <2> QED
    BY <2>1, <2>2, <2>3 DEF IndInv, chain, cursors
<1>2. CASE ListCreate
  <2>1. TypeOK'
    BY <1>2 DEF ListCreate, IndInv, TypeOK, Fields, Refs
  <2>2. [k \in 1..0 |-> HeadPtr] \in [1..count' -> Nodes]
    BY <1>2 DEF ListCreate
  <2>3. Whole([k \in 1..0 |-> HeadPtr])'
    <3>1. \A s : Field(s, 0) = HeadPtr /\ 1..0 = {} /\ \A k \in 0..0 : k = 0
      BY DEF Field
    <3>2. /\ HeadPtr \in Fields /\ mem' = [mem EXCEPT ![HeadPtr] = Nil] /\ count' = 0
          /\ tail' = HeadPtr /\ iters' = {} /\ used' = {} /\ op' = Idle
      BY <1>2 DEF ListCreate, IndInv, Fields
    <3>3. mem'[HeadPtr] = Nil
      BY <3>2 DEF IndInv, TypeOK
    <3> QED
      BY <3>1, <3>2, <3>3 DEF Whole, Linked, Among, Loop, Sorting, Idle
  <2> QED
    BY <1>2, <2>1, <2>2, <2>3 DEF ListCreate, IndInv
<1>3. CASE ListDestroy
  <2>1. TypeOK'
    BY <1>3 DEF ListDestroy, IndInv, TypeOK, Fields, Refs
  <2> QED
    BY <1>3, <2>1 DEF ListDestroy, IndInv, Free
<1>4. ASSUME NEW s \in [1..count -> Nodes], Whole(s), Free
      PROVE  /\ count \in Nat /\ Linked(mem, s, count) /\ tail = Field(s, count)
             /\ \A i \in iters : Cursor(mem, s, count, prev[i], pos[i])
             /\ HeadPtr = Field(s, 0) /\ alive /\ ~Sorting /\ op.name = "none"
  BY <1>4, IdleFacts DEF IndInv, TypeOK, Whole, Free, Field
<1>5. ASSUME Free PROVE \E s \in [1..count -> Nodes] : Whole(s)
  BY <1>5 DEF IndInv, Free
<1>6. ASSUME NEW x \in Items, ListAppend(x) \/ ListPrepend(x) PROVE IndInv'
  <2>1. Free
    BY <1>6 DEF ListAppend, ListPrepend
  <2>2. PICK s \in [1..count -> Nodes] : Whole(s)
    BY <1>5, <2>1
  <2>3. count \in Nat /\ tail = Field(s, count) /\ HeadPtr = Field(s, 0)
    BY <1>4, <2>1, <2>2
  <2>4. CASE ReturnsNull
    BY <1>1, <2>4 DEF ReturnsNull
  <2>5. CASE NodeCreate(tail, x)
    <3>1. count \in 0..count /\ NodeCreate(Field(s, count), x)
      BY <2>3, <2>5
    <3> QED
      BY <2>1, <2>2, <3>1, CreateStep
  <2>6. CASE NodeCreate(HeadPtr, x)
    <3>1. 0 \in 0..count /\ NodeCreate(Field(s, 0), x)
      BY <2>3, <2>6
    <3> QED
      BY <2>1, <2>2, <3>1, CreateStep
  <2> QED
    BY <1>6, <2>4, <2>5, <2>6 DEF ListAppend, ListPrepend
<1>7. ASSUME NEW x \in Items, NEW i \in Iters, ListInsert(i, x) PROVE IndInv'
  <2>1. Free /\ i \in iters
    BY <1>7 DEF ListInsert
  <2>2. PICK s \in [1..count -> Nodes] : Whole(s)
    BY <1>5, <2>1
  <2>3. PICK k \in 0..count : prev[i] = Field(s, k)
    BY <1>4, <2>1, <2>2 DEF Cursor
  <2>4. CASE ReturnsNull
    BY <1>1, <2>4 DEF ReturnsNull
  <2>5. CASE NodeCreate(prev[i], x)
    BY <2>1, <2>2, <2>3, <2>5, CreateStep
  <2> QED
    BY <1>7, <2>4, <2>5 DEF ListInsert
<1>8. ASSUME NEW s \in [1..count -> Nodes], Whole(s), alive, ~Sorting,
             NEW k \in 0..count, mem[Field(s, k)] # Nil,
             op.name = "delete_all" => op.pp = Field(s, k),
             NEW to \in {"caller", "freed"},
             NodeDestroy(Field(s, k), to), op' = op,
             ret' = data[mem[Field(s, k)]] \/ ret' = ret
      PROVE  IndInv'
  <2>1. k \in 0..count - 1 /\ mem[Field(s, k)] = s[k + 1] /\ k + 1 \in 1..count
    BY <1>8 DEF IndInv, TypeOK, Whole, Linked
  <2>2. ret' \in Items \cup {Nil}
    BY <1>8, <2>1 DEF IndInv, TypeOK, Whole, Among
  <2> QED
    BY <1>8, <2>1, <2>2, DestroyStep
<1>9. CASE ListPop
  <2>1. Free
    BY <1>9 DEF ListPop
  <2>2. PICK s \in [1..count -> Nodes] : Whole(s)
    BY <1>5, <2>1
  <2>3. /\ count \in Nat /\ HeadPtr = Field(s, 0) /\ alive /\ ~Sorting /\ 0 \in 0..count
        /\ op.name = "none"
    BY <1>4, <2>1, <2>2
  <2>4. CASE mem[HeadPtr] = Nil
    BY <1>1, <1>9, <2>4 DEF ListPop, ReturnsNull
  <2>5. CASE mem[HeadPtr] # Nil
    BY <1>8, <1>9, <2>2, <2>3, <2>5 DEF ListPop
  <2> QED
    BY <2>4, <2>5
<1>10. ASSUME NEW i \in Iters, NEW to \in {"caller", "freed"}, ListRemove(i, to) PROVE IndInv'
  <2>1. Free /\ i \in iters
    BY <1>10 DEF ListRemove
  <2>2. PICK s \in [1..count -> Nodes] : Whole(s)
    BY <1>5, <2>1
  <2>3. alive /\ ~Sorting /\ op.name = "none" /\ Linked(mem, s, count)
    BY <1>4, <2>1, <2>2
  <2>4. PICK k \in 0..count : 
          /\ prev[i] = Field(s, k)
          /\ pos[i] = mem[prev[i]] \/ (k < count /\ pos[i] = mem[s[k + 1]])
    BY <1>4, <2>1, <2>2 DEF Cursor
  <2>5. CASE mem[prev[i]] = pos[i]
    BY <1>1, <1>10, <2>5 DEF ListRemove, ReturnsNull
  <2>6. CASE mem[prev[i]] # pos[i]
    <3>1. mem[Field(s, k)] # Nil
      <4>1. mem[Field(s, k)] = s[k + 1] /\ s[k + 1] \in Nodes
        BY <1>4, <2>1, <2>2, <2>3, <2>4, <2>6 DEF Linked
      <4> QED
        BY <4>1, ListAssumption
    <3> QED
      BY <1>8, <1>10, <2>2, <2>3, <2>4, <2>6, <3>1 DEF ListRemove
  <2> QED
    BY <2>5, <2>6
<1>11. ASSUME NEW i \in Iters, 
              IteratorCreate(i) \/ IteratorReset(i) \/ IteratorDestroy(i) \/ ListNext(i)
       PROVE  IndInv'
  <2>1. Free
    BY <1>11 DEF IteratorCreate, IteratorReset, IteratorDestroy, ListNext
  <2>2. PICK s \in [1..count -> Nodes] : Whole(s)
    BY <1>5, <2>1
  <2>3. /\ count \in Nat /\ Linked(mem, s, count) /\ HeadPtr = Field(s, 0)
        /\ \A e \in iters : Cursor(mem, s, count, prev[e], pos[e])
    BY <1>4, <2>1, <2>2
  <2>4. /\ HeadPtr \in Fields /\ mem[HeadPtr] \in Refs
        /\ Cursor(mem, s, count, HeadPtr, mem[HeadPtr])
        /\ ret \in Items \cup {Nil} /\ iters \subseteq Iters
    BY <2>3 DEF Fields, IndInv, TypeOK, Cursor
  <2>5. CASE IteratorCreate(i)
    <3>1. CASE ReturnsNull
      BY <1>1, <3>1 DEF ReturnsNull
    <3>2. CASE ~ReturnsNull
      <4>1. /\ iters' = iters \cup {i} /\ IteratorAt(i, HeadPtr)
            /\ UNCHANGED <<chain, op, alive, owner, ret>>
        BY <2>5, <3>2 DEF IteratorCreate
      <4> QED
        BY <2>1, <2>2, <2>4, <4>1, CursorStep DEF IteratorAt
    <3> QED
      BY <3>1, <3>2
  <2>6. CASE IteratorReset(i)
    BY <2>1, <2>2, <2>4, <2>6, CursorStep DEF IteratorReset, IteratorAt
  <2>7. CASE IteratorDestroy(i)
    <3>1. Nil \in Refs /\ i \notin iters'
      BY <2>7 DEF IteratorDestroy, Refs
    <3> QED
      BY <2>1, <2>2, <2>4, <2>7, <3>1, CursorStep DEF IteratorDestroy
  <2>8. CASE ListNext(i)
    <3> DEFINE p == IF pos[i] = Nil THEN Nil ELSE mem[pos[i]]
    <3>1. /\ i \in iters /\ pos' = [pos EXCEPT ![i] = p]
          /\ prev' = [prev EXCEPT ![i] = Follow(i)] /\ iters' = iters
          /\ UNCHANGED <<chain, op, alive, owner>>
          /\ ret' = IF pos[i] = Nil THEN Nil ELSE data[pos[i]]
      BY <2>8 DEF ListNext, IndInv, TypeOK
    <3>2. PICK k \in 0..count : 
            /\ prev[i] = Field(s, k)
            /\ pos[i] = mem[prev[i]] \/ (k < count /\ pos[i] = mem[s[k + 1]])
      BY <2>3, <3>1 DEF Cursor
    <3>3. ASSUME NEW e \in 0..count, e # count
          PROVE  /\ e + 1 \in 0..count /\ s[e + 1] = Field(s, e + 1)
                 /\ mem[Field(s, e)] = Field(s, e + 1) /\ Field(s, e + 1) # Nil
      BY <2>3, <3>3, ListAssumption DEF Linked, Field
    <3>4. mem[Field(s, count)] = Nil /\ \A e \in 0..count : Field(s, e) \in Fields
      BY <2>3, FieldFacts DEF Linked
    <3>5. PICK e \in 0..count : Follow(i) = Field(s, e) /\ pos[i] = mem[Field(s, e)]
      <4>1. CASE pos[i] = mem[prev[i]]
        BY <3>2, <4>1 DEF Follow
      <4>2. CASE pos[i] # mem[prev[i]]
        <5>1. k # count /\ pos[i] = mem[s[k + 1]]
          BY <2>3, <3>2, <4>2
        <5>2. k + 1 \in 0..count /\ s[k + 1] = Field(s, k + 1) /\ mem[prev[i]] = Field(s, k + 1)
          BY <3>2, <3>3, <5>1
        <5> QED
          BY <4>2, <5>1, <5>2 DEF Follow
      <4> QED
        BY <4>1, <4>2
    <3>6. Cursor(mem, s, count, Follow(i), p) /\ Follow(i) \in Fields
      <4>1. CASE e = count
        <5>1. p = mem[Field(s, e)]
          BY <3>4, <3>5, <4>1
        <5> QED
          BY <3>4, <3>5, <5>1 DEF Cursor
      <4>2. CASE e # count
        <5>1. p = mem[s[e + 1]] /\ e < count
          BY <2>3, <3>3, <3>5, <4>2
        <5> HIDE DEF p
        <5> QED
          BY <3>4, <3>5, <5>1 DEF Cursor
      <4> QED
        BY <4>1, <4>2
    <3>7. p \in Refs /\ ret' \in Items \cup {Nil}
      BY <3>1, <3>6 DEF IndInv, TypeOK, Refs, Fields
    <3> HIDE DEF p
    <3> QED
      BY <2>1, <2>2, <2>4, <3>1, <3>6, <3>7, CursorStep
  <2> QED
    BY <1>11, <2>5, <2>6, <2>7, <2>8
<1>12. ASSUME NEW k \in Keys, DeleteAll(k) PROVE IndInv'
  <2>1. Free /\ op' = [Idle EXCEPT !.name = "delete_all", !.key = k]
        /\ UNCHANGED <<chain, cursors, alive, owner, ret>>
    BY <1>12 DEF DeleteAll
  <2>2. PICK s \in [1..count -> Nodes] : Whole(s)
    BY <1>5, <2>1
  <2>3. count \in Nat /\ HeadPtr = Field(s, 0) /\ alive /\ ~Sorting
    BY <1>4, <2>1, <2>2
  <2>4. TypeOK' /\ ~Sorting' /\ op'.pp = HeadPtr
    BY <1>0, <2>1 DEF IndInv, TypeOK, Idle, Sorting, Fields, chain, cursors
  <2>5. Loop(s)'
    <3>1. 0 \in 0..count
      BY <2>3
    <3> QED
      BY <2>1, <2>3, <2>4, <3>1 DEF Loop, chain
  <2> QED
    BY <2>1, <2>2, <2>3, <2>4, <2>5, LoopStep
<1>13. CASE DeleteAllStep
  <2>1. op.name = "delete_all" /\ alive /\ ~Sorting
    BY <1>13 DEF DeleteAllStep, IndInv, Idle, Sorting
  <2>2. PICK s \in [1..count -> Nodes] : Whole(s)
    BY <2>1 DEF IndInv
  <2>3. PICK k \in 0..count : op.pp = Field(s, k)
    BY <2>1, <2>2 DEF Whole, Loop
  <2>4. CASE mem[op.pp] # Nil /\ Key[data[mem[op.pp]]] = op.key
    BY <1>8, <1>13, <2>1, <2>2, <2>3, <2>4 DEF DeleteAllStep
  <2>5. CASE mem[op.pp] = Nil
    <3>1. op' = Idle /\ UNCHANGED <<chain, cursors, alive, owner, ret>>
      BY <1>13, <2>5 DEF DeleteAllStep
    <3>2. TypeOK' /\ ~Sorting' /\ Loop(s)'
      BY <3>1 DEF IndInv, TypeOK, Idle, Sorting, Loop, Fields, chain, cursors
    <3> QED
      BY <2>1, <2>2, <3>1, <3>2, LoopStep
  <2>6. CASE mem[op.pp] # Nil /\ Key[data[mem[op.pp]]] # op.key
    <3>1. op' = [op EXCEPT !.pp = mem[@]] /\ UNCHANGED <<chain, cursors, alive, owner, ret>>
      BY <1>13, <2>6 DEF DeleteAllStep
    <3>2. /\ mem[op.pp] = s[k + 1] /\ k + 1 \in 1..count /\ s[k + 1] = Field(s, k + 1)
          /\ count \in Nat
      BY <2>2, <2>3, <2>6 DEF Whole, Linked, Field, IndInv, TypeOK
    <3>3. op'.pp = Field(s, k + 1) /\ op'.name = "delete_all" /\ k + 1 \in 0..count
      BY <2>1, <3>1, <3>2 DEF IndInv, TypeOK
    <3>4. Field(s, k + 1) \in Fields
      BY <3>2 DEF Fields
    <3>5. TypeOK'
      BY <3>1, <3>2, <3>4 DEF IndInv, TypeOK, chain, cursors
    <3>6. ~Sorting' /\ Loop(s)'
      BY <3>1, <3>3 DEF Sorting, Loop, chain
    <3> QED
      BY <2>1, <2>2, <3>1, <3>5, <3>6, LoopStep
  <2> QED
    BY <2>4, <2>5, <2>6
<1>14. CASE Sort
  <2>1. Free /\ UNCHANGED <<chain, cursors, alive, owner, ret>>
        /\ op' = IF count > 1 THEN [Idle EXCEPT !.name = "sort", !.pp = mem[HeadPtr]] ELSE op
    BY <1>14 DEF Sort
  <2>2. PICK s \in [1..count -> Nodes] : Whole(s)
    BY <1>5, <2>1
  <2>3. count \in Nat /\ HeadPtr = Field(s, 0) /\ alive /\ ~Sorting /\ Linked(mem, s, count)
    BY <1>4, <2>1, <2>2
  <2>4. CASE count <= 1
    <3>1. op' = op
      BY <2>1, <2>3, <2>4
    <3>2. TypeOK' /\ Sorting' = Sorting /\ Loop(s)'
      BY <2>1, <2>2, <3>1 DEF IndInv, TypeOK, Sorting, Loop, KeyAt, Whole, chain, cursors
    <3> QED
      BY <2>1, <2>2, <2>3, <3>2, LoopStep
  <2>5. CASE count > 1
    <3>1. op' = [Idle EXCEPT !.name = "sort", !.pp = mem[HeadPtr]]
      BY <2>1, <2>5
    <3>2. mem[HeadPtr] = s[1] /\ s[1] = Field(s, 1) /\ s[1] \in Fields
      BY <2>3, <2>5 DEF Linked, Field, Fields
    <3>3. op'.name = "sort" /\ op'.pp = Field(s, 1) /\ op'.back = Field(s, 0)
      BY <2>3, <3>1, <3>2 DEF Idle
    <3>4. TypeOK' /\ Sorting'
      <4>1. op' \in [name : {"none", "delete_all", "sort", "place"},
                    pp : Fields, back : Fields, at : Fields, key : Nat]
        BY <3>1, <3>2 DEF Idle, Fields
      <4> QED
        BY <2>1, <3>3, <4>1 DEF IndInv, TypeOK, Sorting, chain, cursors
    <3>5. Loop(s)'
      <4>1. 1 \in 1..count /\ 1 - 1 = 0
        BY <2>3, <2>5
      <4> QED
        BY <2>1, <3>3, <4>1 DEF Loop, chain
    <3> QED
      BY <2>1, <2>2, <2>3, <3>4, <3>5, LoopStep
  <2> QED
    BY <2>3, <2>4, <2>5
<1>15. ASSUME op.name \in {"sort", "place"}
       PROVE  /\ alive /\ Sorting /\ count \in Nat
              /\ \E s \in [1..count -> Nodes] : Whole(s)
  BY <1>15 DEF IndInv, TypeOK, Idle, Sorting
<1>16. CASE SortAdvance
  <2>1. op.name = "sort" /\ mem[op.pp] # Nil /\ UNCHANGED <<chain, cursors, alive, owner, ret>>
    BY <1>16 DEF SortAdvance
  <2>2. alive /\ Sorting /\ count \in Nat
    BY <1>15, <2>1
  <2>3. PICK s \in [1..count -> Nodes] : Whole(s)
    BY <1>15, <2>1
  <2>4. PICK j \in 1..count : op.pp = Field(s, j) /\ op.back = Field(s, j - 1)
    BY <2>2, <2>3 DEF Whole, Loop
  <2>5. /\ j < count /\ mem[op.pp] = Field(s, j + 1) /\ Field(s, j + 1) \in Fields
        /\ HeadPtr = Field(s, 0) /\ HeadPtr \in Fields
    BY <2>1, <2>2, <2>3, <2>4 DEF Whole, Linked, Field, Fields
  <2>6. CASE KeyAt(op.pp) < KeyAt(op.back)
    <3>1. op' = [op EXCEPT !.name = "place", !.at = HeadPtr]
      BY <1>16, <2>6 DEF SortAdvance
    <3>2. op'.name = "place" /\ op'.pp = op.pp /\ op'.back = op.back /\ op'.at = Field(s, 0)
      BY <2>5, <3>1 DEF IndInv, TypeOK
    <3>3. TypeOK' /\ Sorting'
      BY <2>1, <2>5, <3>1, <3>2 DEF IndInv, TypeOK, Sorting, chain, cursors
    <3>4. (KeyAt(op.pp) < KeyAt(op.back))' /\ 0 \in 0..j - 1
      BY <2>1, <2>6, <3>2 DEF KeyAt, chain
    <3>5. Loop(s)'
      BY <2>1, <2>4, <2>5, <3>2, <3>4 DEF Loop, chain
    <3> QED
      BY <2>1, <2>2, <2>3, <3>3, <3>5, LoopStep
  <2>7. CASE ~(KeyAt(op.pp) < KeyAt(op.back))
    <3>1. op' = [op EXCEPT !.back = op.pp, !.pp = mem[op.pp]]
      BY <1>16, <2>7 DEF SortAdvance
    <3>2. op'.name = "sort" /\ op'.pp = Field(s, j + 1) /\ op'.back = Field(s, j)
      BY <2>1, <2>4, <2>5, <3>1 DEF IndInv, TypeOK
    <3>3. TypeOK' /\ Sorting'
      BY <2>1, <2>5, <3>1, <3>2 DEF IndInv, TypeOK, Sorting, chain, cursors
    <3>4. Loop(s)'
      <4>1. j + 1 \in 1..count /\ (j + 1) - 1 = j
        BY <2>2, <2>5
      <4> QED
        BY <2>1, <3>2, <4>1 DEF Loop, chain
    <3> QED
      BY <2>1, <2>2, <2>3, <3>3, <3>4, LoopStep
  <2> QED
    BY <2>6, <2>7
<1>17. CASE SortSeek
  <2>1. /\ op.name = "place" /\ KeyAt(op.pp) >= KeyAt(op.at) 
        /\ op' = [op EXCEPT !.at = mem[@]] /\ UNCHANGED <<chain, cursors, alive, owner, ret>>
    BY <1>17 DEF SortSeek, GoesBeyond
  <2>2. alive /\ Sorting /\ count \in Nat
    BY <1>15, <2>1
  <2>3. PICK s \in [1..count -> Nodes] : Whole(s)
    BY <1>15, <2>1
  <2>4. PICK j \in 1..count : 
          /\ op.pp = Field(s, j) /\ op.back = Field(s, j - 1) /\ j < count 
          /\ KeyAt(op.pp) < KeyAt(op.back) /\ \E k \in 0..j - 1 : op.at = Field(s, k)
    BY <2>1, <2>2, <2>3 DEF Whole, Loop
  <2>5. PICK k \in 0..j - 1 : op.at = Field(s, k)
    BY <2>4
  <2>6. \A e \in 0..count - 1 : KeyAt(Field(s, e)) \in Nat
    <3> TAKE e \in 0..count - 1
    <3>1. mem[Field(s, e)] = s[e + 1] /\ e + 1 \in 1..count
      BY <2>2, <2>3 DEF Whole, Linked
    <3>2. s[e + 1] \in used
      BY <2>3, <3>1 DEF Whole, Among
    <3> QED
      BY <3>1, <3>2, ListAssumption DEF KeyAt, IndInv
  <2>7. k + 1 \in 0..j - 1
    <3>1. k # j - 1
      BY <2>1, <2>2, <2>4, <2>5, <2>6
    <3> QED
      BY <3>1
  <2>8. mem[op.at] = Field(s, k + 1) /\ Field(s, k + 1) \in Fields
    BY <2>2, <2>3, <2>4, <2>5, <2>7 DEF Whole, Linked, Field, Fields
  <2>9. /\ op'.name = "place" /\ op'.pp = op.pp /\ op'.back = op.back 
        /\ op'.at = Field(s, k + 1)
    BY <2>1, <2>8 DEF IndInv, TypeOK
  <2>10. TypeOK' /\ Sorting'
    BY <2>1, <2>8, <2>9 DEF IndInv, TypeOK, Sorting, chain, cursors
  <2>11. (KeyAt(op.pp) < KeyAt(op.back))'
    BY <2>1, <2>4, <2>9 DEF KeyAt, chain
  <2>12. Loop(s)'
    BY <2>1, <2>4, <2>7, <2>9, <2>11 DEF Loop, chain
  <2> QED
    BY <2>1, <2>2, <2>3, <2>10, <2>12, LoopStep
<1>18. CASE SortPlace
  <2>1. PICK s \in [1..count -> Nodes] : Whole(s)
    BY <1>15, <1>18 DEF SortPlace
  <2> QED
    BY <1>18, <2>1, PlaceStep
<1>19. CASE SortEnd
  <2>1. /\ op.name = "sort" /\ mem[op.pp] = Nil /\ tail' = op.pp /\ op' = Idle
        /\ pos' = [i \in Iters |-> IF i \in iters THEN mem[HeadPtr] ELSE pos[i]]
        /\ prev' = [i \in Iters |-> IF i \in iters THEN HeadPtr ELSE prev[i]]
        /\ UNCHANGED <<mem, data, used, count, iters, alive, owner, ret>>
    BY <1>19 DEF SortEnd
  <2>2. alive /\ Sorting /\ count \in Nat
    BY <1>15, <2>1
  <2>3. PICK s \in [1..count -> Nodes] : Whole(s)
    BY <1>15, <2>1
  <2>4. PICK j \in 1..count : op.pp = Field(s, j)
    BY <2>2, <2>3 DEF Whole, Loop
  <2>5. j = count
    BY <2>1, <2>2, <2>3, <2>4, ListAssumption DEF Whole, Linked
  <2>6. HeadPtr \in Fields /\ mem[HeadPtr] \in Refs /\ op.pp \in Fields
    BY DEF Fields, IndInv, TypeOK
  <2>7. TypeOK'
    BY <2>1, <2>6 DEF IndInv, TypeOK, Idle
  <2>8. HeadPtr = Field(s, 0) /\ 0 \in 0..count
    BY <2>2 DEF Field
  <2>9. \A i \in iters : prev'[i] = HeadPtr /\ pos'[i] = mem[HeadPtr]
    BY <2>1 DEF IndInv, TypeOK
  <2>10. \A i \in iters : Cursor(mem, s, count, prev'[i], pos'[i])
    BY <2>8, <2>9 DEF Cursor
  <2>11. ~Sorting' /\ Loop(s)'
    BY <2>1 DEF Sorting, Loop, Idle
  <2>12. Whole(s)'
    BY <2>1, <2>3, <2>4, <2>5, <2>10, <2>11 DEF Whole
  <2> QED
    BY <2>1, <2>2, <2>7, <2>12 DEF IndInv
<1> QED
  BY <1>1, <1>2, <1>3, <1>6, <1>7, <1>9, <1>10, <1>11, <1>12, <1>13, <1>14, <1>16, <1>17,
     <1>18, <1>19 DEF Next

\* The invariant holds in every state.
THEOREM Inductive == Spec => []IndInv
<1>1. IndInv /\ [Next]_vars => IndInv'
  BY Step
<1> QED
  BY <1>1, InitInd, PTL DEF Spec

\* Every variable keeps its type; an iterator's prev is never NULL.
THEOREM TypeCorrect == Spec => []TypeOK
<1>1. IndInv => TypeOK
  BY DEF IndInv
<1> QED
  BY <1>1, Inductive, PTL

\* list_node_create and list_node_destroy: the assertion they make of every iterator
\* holds, the tail is the last field and the count is the length of the chain.
THEOREM ChainSafe == Spec => []ChainKept
<1>1. IndInv => ChainKept
  <2> SUFFICES ASSUME IndInv, alive
               PROVE  \E s \in [1..count -> used] : Arrangement(s)
    BY DEF ChainKept
  <2>1. PICK s \in [1..count -> Nodes] : Whole(s)
    BY DEF IndInv
  <2>2. s \in [1..count -> used]
    BY <2>1 DEF Whole, Among
  <2>3. Chained(s)
    BY <2>1 DEF Whole, Linked, Among, Chained
  <2>4. ASSUME ~Sorting, NEW i \in iters PROVE Placed(s, i)
    BY <2>1, <2>4 DEF Whole, Cursor, Placed
  <2> QED
    BY <2>2, <2>3, <2>4 DEF Arrangement
<1> QED
  BY <1>1, Inductive, PTL

----------------------------------------------------------------------------
(* What walking along the chain finds. *)

\* A set of numbers that is not empty has a least one.
LEMMA LeastIs == ASSUME NEW T, T \subseteq Nat, T # {} PROVE \E m \in T : \A k \in T : m <= k
<1>1. PICK x \in T : \A y \in T : ~(<<y, x>> \in OpToRel(<, Nat))
  BY NatLessThanWellFounded, WFMin, Zenon
<1>2. ASSUME NEW y \in T, y < x PROVE <<y, x>> \in OpToRel(<, Nat)
  <2>1. <<y, x>> \in Nat \X Nat /\ <<y, x>>[1] = y /\ <<y, x>>[2] = x
    OBVIOUS
  <2> QED
    BY <1>2, <2>1, Zenon DEF OpToRel
<1>3. \A y \in T : ~(y < x)
  BY <1>1, <1>2
<1>4. \A y \in T : x <= y
  BY <1>3
<1> QED
  BY <1>4

\* A chain is no longer than there are nodes.
LEMMA ChainFits ==
  ASSUME NEW n \in Nat, NEW s \in [1..n -> Nodes], NEW m, Linked(m, s, n)
  PROVE  Cardinality(Nodes) \in Nat /\ n <= Cardinality(Nodes)
<1>1. s \in Injection(1..n, Nodes)
  BY Zenon DEF Injection, IsInjective, Linked
<1>2. IsFiniteSet(Nodes)
  BY ListAssumption
<1>3. Cardinality(1..n) <= Cardinality(Nodes)
  BY <1>1, <1>2, FS_Injection, Zenon
<1>4. Cardinality(1..n) = n
  BY FS_Interval
<1>5. Cardinality(Nodes) \in Nat
  BY <1>2, FS_CardinalityType, Zenon
<1> QED
  BY <1>3, <1>4, <1>5

Walked(s, n, j) == [k \in 1..n - j |-> s[j + k]]

LEMMA WalkIs ==
  ASSUME NEW n \in Nat, NEW s \in [1..n -> Nodes], Linked(mem, s, n), NEW j \in 0..n
  PROVE  Walk(Field(s, j)) = Walked(s, n, j)
<1> DEFINE N == Cardinality(Nodes)
           a == Field(s, j)
           next(h, k) == IF k = 1 THEN mem[a] ELSE IF h[k - 1] = Nil THEN Nil ELSE mem[h[k - 1]]
           node == CHOOSE h : h = [k \in 1..N |-> next(h, k)]
           g == [k \in 1..N |-> IF k <= n - j THEN s[j + k] ELSE Nil]
<1>1. N \in Nat /\ n <= N
  BY ChainFits, Zenon
<1>2. Walk(a) = [k \in 1..Cardinality({i \in 1..N : node[i] # Nil}) |-> node[k]]
  BY DEF Walk
<1> HIDE DEF N
<1>3. \A k \in 1..N : g[k] = next(g, k)
  <2> TAKE k \in 1..N
  <2>0. \A i \in 0..n : mem[Field(s, i)] = IF i = n THEN Nil ELSE s[i + 1]
    BY DEF Linked
  <2>1. \A i \in 1..n : s[i] # Nil /\ Field(s, i) = s[i]
    BY ListAssumption DEF Field
  <2>2. CASE k = 1
    <3>1. mem[a] = IF j = n THEN Nil ELSE s[j + 1]
      BY <2>0
    <3>2. g[1] = IF 1 <= n - j THEN s[j + 1] ELSE Nil
      BY <2>2
    <3>3. 1 <= n - j <=> j # n
      OBVIOUS
    <3>4. next(g, k) = mem[a]
      BY <2>2, Zenon
    <3> HIDE DEF next, g, a
    <3> QED
      BY <2>2, <3>1, <3>2, <3>3, <3>4
  <2>3. CASE k # 1
    <3>1. k - 1 \in 1..N
      BY <1>1, <2>3
    <3>2. CASE k - 1 <= n - j
      <4>1. j + (k - 1) \in 1..n /\ g[k - 1] = s[j + (k - 1)]
        BY <3>1, <3>2
      <4>2. mem[g[k - 1]] = IF j + (k - 1) = n THEN Nil ELSE s[(j + (k - 1)) + 1]
        BY <2>0, <2>1, <4>1
      <4> QED
        BY <2>1, <2>3, <4>1, <4>2
    <3>3. CASE ~(k - 1 <= n - j)
      <4>1. g[k - 1] = Nil /\ g[k] = Nil
        BY <3>1, <3>3
      <4> HIDE DEF g
      <4> QED
        BY <2>3, <4>1
    <3> QED
      BY <3>2, <3>3
  <2> QED
    BY <2>2, <2>3
<1>4. g = [k \in 1..N |-> next(g, k)]
  <2>1. g = [k \in 1..N |-> g[k]]
    OBVIOUS
  <2> HIDE DEF g
  <2> QED
    BY <1>3, <2>1
<1> HIDE DEF next
<1>5. node = [k \in 1..N |-> next(node, k)]
  <2> HIDE DEF g
  <2> QED
    BY <1>4
<1> HIDE DEF node
<1>n. ASSUME NEW k \in 1..N PROVE node[k] = next(node, k)
  <2>1. [i \in 1..N |-> next(node, i)][k] = next(node, k)
    OBVIOUS
  <2> QED
    BY <1>5, <2>1, Zenon
<1>6. \A k \in 1..N : node[k] = g[k]
  <2> DEFINE T == {k \in 1..N : node[k] # g[k]}
  <2> SUFFICES ASSUME T # {} PROVE FALSE
    OBVIOUS
  <2>1. T \subseteq Nat
    BY <1>1
  <2> HIDE DEF g
  <2>2. PICK k \in T : \A i \in T : k <= i
    <3> HIDE DEF T
    <3> QED
      BY <2>1, LeastIs, Zenon
  <2>3. k \in 1..N /\ node[k] # g[k] /\ node[k] = next(node, k) /\ g[k] = next(g, k)
    BY <1>3, <1>n
  <2>4. CASE k = 1
    BY <2>3, <2>4 DEF next
  <2>5. CASE k # 1
    <3>1. k - 1 \in 1..N /\ ~(k <= k - 1)
      BY <1>1, <2>3, <2>5
    <3>2. node[k - 1] = g[k - 1]
      BY <2>2, <3>1
    <3> QED
      BY <2>3, <2>5, <3>2 DEF next
  <2> QED
    BY <2>4, <2>5
<1>7. {i \in 1..N : node[i] # Nil} = 1..n - j
  <2>1. \A i \in 1..n : s[i] # Nil
    BY ListAssumption
  <2>2. \A i \in 1..N : node[i] # Nil <=> i <= n - j
    BY <1>1, <1>6, <2>1
  <2>3. \A i : i \in 1..n - j <=> i \in 1..N /\ i <= n - j
    BY <1>1
  <2> QED
    BY <2>2, <2>3
<1>8. Cardinality(1..n - j) = n - j
  BY FS_Interval
<1>9. \A k \in 1..n - j : node[k] = s[j + k]
  BY <1>1, <1>6
<1> QED
  BY <1>2, <1>7, <1>8, <1>9 DEF Walked

----------------------------------------------------------------------------
(* Who has an item. *)

\* Inductive, with IndInv: a node has an item of its own, and the list has the items
\* that its nodes have.
OwnInv ==
  /\ \A p, q \in used : data[p] = data[q] => p = q
  /\ \A x \in Items : owner[x] = "list" <=> \E p \in used : data[p] = x

\* A new node takes an item from its caller.
LEMMA CreateOwns ==
  ASSUME IndInv, OwnInv, NEW a, NEW x \in Items, owner[x] = "caller", NodeCreate(a, x)
  PROVE  OwnInv'
<1>1. PICK p \in Nodes \ used : used' = used \cup {p} /\ data' = [data EXCEPT ![p] = x]
  BY DEF NodeCreate
<1>2. owner' = [owner EXCEPT ![x] = "list"]
  BY DEF NodeCreate
<1>3. /\ used \subseteq Nodes /\ data \in [Nodes -> Items \cup {Nil}]
      /\ owner \in [Items -> {"caller", "list", "freed"}]
  BY DEF IndInv, TypeOK
<1>4. \A q \in used : data[q] # x
  BY <1>3 DEF OwnInv
<1>5. data'[p] = x /\ \A q \in used : data'[q] = data[q] /\ q # p
  BY <1>1, <1>3
<1>6. \A y \in Items : owner'[y] = "list" <=> owner[y] = "list" \/ y = x
  BY <1>2, <1>3
<1>7. ASSUME NEW q \in used', NEW r \in used', data'[q] = data'[r] PROVE q = r
  BY <1>1, <1>4, <1>5, <1>7 DEF OwnInv
<1>8. ASSUME NEW y \in Items PROVE owner'[y] = "list" <=> \E q \in used' : data'[q] = y
  <2>1. (\E q \in used' : data'[q] = y) <=> y = x \/ \E q \in used : data[q] = y
    BY <1>1, <1>5, Zenon
  <2> QED
    BY <1>6, <2>1, Zenon DEF OwnInv
<1> QED
  BY <1>7, <1>8, Zenon DEF OwnInv

\* A node that goes gives its item away.
LEMMA DestroyOwns ==
  ASSUME IndInv, OwnInv, NEW a, mem[a] \in used, NEW to \in {"caller", "freed"},
         NodeDestroy(a, to)
  PROVE  OwnInv'
<1>p. PICK p : p = mem[a]
  OBVIOUS
<1>1. /\ used' = used \ {p} /\ data' = [data EXCEPT ![p] = Nil]
      /\ owner' = [owner EXCEPT ![data[p]] = to] /\ p \in used
  BY <1>p DEF NodeDestroy
<1>2. /\ used \subseteq Nodes /\ data \in [Nodes -> Items \cup {Nil}]
      /\ owner \in [Items -> {"caller", "list", "freed"}] /\ data[p] \in Items
  BY <1>1 DEF IndInv, TypeOK
<1>3. \A q \in used' : data'[q] = data[q] /\ q \in used /\ q # p
  BY <1>1, <1>2
<1>4. \A y \in Items : owner'[y] = "list" <=> owner[y] = "list" /\ y # data[p]
  BY <1>1, <1>2
<1>5. ASSUME NEW q \in used', NEW r \in used', data'[q] = data'[r] PROVE q = r
  BY <1>3, <1>5 DEF OwnInv
<1>6. ASSUME NEW y \in Items PROVE owner'[y] = "list" <=> \E q \in used' : data'[q] = y
  <2>1. \A q \in used : q \in used' <=> q # p
    BY <1>1
  <2>2. \A q \in used : data[q] = data[p] <=> q = p
    BY <1>1 DEF OwnInv
  <2>3. (\E q \in used' : data'[q] = y) <=> y # data[p] /\ \E q \in used : data[q] = y
    BY <1>3, <2>1, <2>2, Zenon
  <2> QED
    BY <1>4, <2>3, Zenon DEF OwnInv
<1> QED
  BY <1>5, <1>6, Zenon DEF OwnInv

\* What a field of the chain points to is a node in use.
LEMMA ChainUsed ==
  ASSUME IndInv, NEW s \in [1..count -> Nodes], Whole(s), NEW k \in 0..count,
         mem[Field(s, k)] # Nil
  PROVE  mem[Field(s, k)] \in used
<1>1. mem[Field(s, k)] = s[k + 1] /\ k + 1 \in 1..count
  BY DEF IndInv, TypeOK, Whole, Linked
<1> QED
  BY <1>1 DEF Whole, Among

LEMMA OwnStep == IndInv /\ OwnInv /\ [Next]_vars => OwnInv'
<1> SUFFICES ASSUME IndInv, OwnInv, [Next]_vars PROVE OwnInv'
  OBVIOUS
<1>1. ASSUME UNCHANGED <<data, used, owner>> PROVE OwnInv'
  BY <1>1 DEF OwnInv
<1>2. CASE UNCHANGED vars
  BY <1>1, <1>2 DEF vars
<1>3. CASE ReturnsNull
  BY <1>1, <1>3 DEF ReturnsNull, chain
<1>4. CASE ListCreate
  BY <1>1, <1>4 DEF ListCreate
<1>5. CASE ListDestroy
  <2>1. /\ used' = {} /\ owner' = [x \in Items |-> IF x \in Destroyed THEN "freed" ELSE owner[x]]
    BY <1>5 DEF ListDestroy
  <2>2. \A x \in Items : owner'[x] # "list"
    BY <2>1, Zenon DEF OwnInv, Destroyed
  <2> QED
    BY <2>1, <2>2 DEF OwnInv
<1>6. ASSUME NEW x \in Items,
             ListAppend(x) \/ ListPrepend(x) \/ \E i \in Iters : ListInsert(i, x)
      PROVE  OwnInv'
  <2>1. owner[x] = "caller" /\ (ReturnsNull \/ \E a : NodeCreate(a, x))
    BY <1>6 DEF ListAppend, ListPrepend, ListInsert
  <2> QED
    BY <1>3, <2>1, CreateOwns, Zenon
<1>7. CASE ListPop
  <2>1. CASE mem[HeadPtr] = Nil
    BY <1>3, <1>7, <2>1 DEF ListPop
  <2>2. CASE mem[HeadPtr] # Nil
    <3>1. NodeDestroy(HeadPtr, "caller") /\ alive
      BY <1>7, <2>2 DEF ListPop, Free
    <3>2. PICK s \in [1..count -> Nodes] : Whole(s)
      BY <3>1 DEF IndInv
    <3>3. 0 \in 0..count /\ HeadPtr = Field(s, 0)
      BY DEF Field, IndInv, TypeOK
    <3>4. mem[HeadPtr] \in used
      BY <2>2, <3>2, <3>3, ChainUsed
    <3> QED
      BY <3>1, <3>4, DestroyOwns
  <2> QED
    BY <2>1, <2>2
<1>8. ASSUME NEW i \in Iters, NEW to \in {"caller", "freed"}, ListRemove(i, to) PROVE OwnInv'
  <2>1. CASE mem[prev[i]] = pos[i]
    BY <1>3, <1>8, <2>1 DEF ListRemove
  <2>2. CASE mem[prev[i]] # pos[i]
    <3>1. NodeDestroy(prev[i], to) /\ alive /\ i \in iters /\ ~Sorting
      BY <1>8, <2>2, IdleFacts DEF ListRemove, Free
    <3>2. PICK s \in [1..count -> Nodes] : Whole(s)
      BY <3>1 DEF IndInv
    <3>3. PICK k \in 0..count :
            /\ prev[i] = Field(s, k)
            /\ pos[i] = mem[prev[i]] \/ (k < count /\ pos[i] = mem[s[k + 1]])
      BY <3>1, <3>2 DEF Whole, Cursor
    <3>4. mem[Field(s, k)] # Nil
      <4>1. mem[Field(s, k)] = s[k + 1] /\ s[k + 1] \in Nodes
        BY <2>2, <3>2, <3>3 DEF Whole, Linked, IndInv, TypeOK
      <4> QED
        BY <4>1, ListAssumption
    <3>5. mem[prev[i]] \in used
      BY <3>2, <3>3, <3>4, ChainUsed
    <3> QED
      BY <3>1, <3>5, DestroyOwns
  <2> QED
    BY <2>1, <2>2
<1>9. CASE DeleteAllStep
  <2>1. op.name = "delete_all" /\ alive
    BY <1>9 DEF DeleteAllStep, IndInv, Idle
  <2>2. CASE mem[op.pp] # Nil /\ Key[data[mem[op.pp]]] = op.key
    <3>1. NodeDestroy(op.pp, "freed")
      BY <1>9, <2>2 DEF DeleteAllStep
    <3>2. PICK s \in [1..count -> Nodes] : Whole(s)
      BY <2>1 DEF IndInv
    <3>3. PICK k \in 0..count : op.pp = Field(s, k)
      BY <2>1, <3>2 DEF Whole, Loop
    <3>4. mem[op.pp] \in used
      BY <2>2, <3>2, <3>3, ChainUsed
    <3> QED
      BY <3>1, <3>4, DestroyOwns
  <2>3. CASE ~(mem[op.pp] # Nil /\ Key[data[mem[op.pp]]] = op.key)
    BY <1>1, <1>9, <2>3 DEF DeleteAllStep, chain
  <2> QED
    BY <2>2, <2>3
<1>10. ASSUME NEW i \in Iters,
              IteratorCreate(i) \/ IteratorReset(i) \/ IteratorDestroy(i) \/ ListNext(i)
       PROVE  OwnInv'
  <2>1. UNCHANGED <<data, used, owner>>
    BY <1>10 DEF IteratorCreate, IteratorReset, IteratorDestroy, ListNext, ReturnsNull, chain
  <2> QED
    BY <1>1, <2>1
<1>11. CASE Sort \/ (\E k \in Keys : DeleteAll(k)) \/ SortAdvance \/ SortSeek \/ SortPlace \/ SortEnd
  <2>1. UNCHANGED <<data, used, owner>>
    BY <1>11 DEF Sort, DeleteAll, SortAdvance, SortSeek, SortPlace, SortEnd, chain
  <2> QED
    BY <1>1, <2>1
<1> QED
  BY <1>2, <1>4, <1>5, <1>6, <1>7, <1>8, <1>9, <1>10, <1>11 DEF Next

\* The contents of a list are the items of its nodes, along the chain.
LEMMA ContentsIs ==
  ASSUME IndInv, alive, NEW s \in [1..count -> Nodes], Whole(s)
  PROVE  Contents = [k \in 1..count |-> data[s[k]]]
<1>1. count \in Nat /\ Linked(mem, s, count) /\ 0 \in 0..count /\ HeadPtr = Field(s, 0)
  BY DEF Whole, IndInv, TypeOK, Field
<1>2. Walk(HeadPtr) = Walked(s, count, 0)
  BY <1>1, WalkIs
<1>3. Walked(s, count, 0) = [k \in 1..count |-> s[k]]
  <2>1. count - 0 = count /\ \A k \in 1..count : 0 + k = k
    BY <1>1
  <2> QED
    BY <2>1 DEF Walked
<1>4. DOMAIN Walk(HeadPtr) = 1..count /\ \A k \in 1..count : Walk(HeadPtr)[k] = s[k]
  BY <1>2, <1>3
<1>5. Contents = [k \in DOMAIN Walk(HeadPtr) |-> data[Walk(HeadPtr)[k]]]
  BY Zenon DEF Contents
<1> QED
  BY <1>4, <1>5

\* No item is leaked or handed out twice: those the list has are its contents, once each.
THEOREM ItemsKept == Spec => []ItemsAccounted
<1>1. Init => OwnInv
  BY DEF Init, OwnInv
<1>2. IndInv /\ OwnInv => ItemsAccounted
  <2> SUFFICES ASSUME IndInv, OwnInv PROVE ItemsAccounted
    OBVIOUS
  <2>1. CASE ~alive
    <3>1. Contents = <<>> /\ \A x \in Items : owner[x] # "list"
      BY <2>1 DEF Contents, IndInv, OwnInv
    <3> QED
      BY <3>1 DEF ItemsAccounted
  <2>2. CASE alive
    <3>1. PICK s \in [1..count -> Nodes] : Whole(s)
      BY <2>2 DEF IndInv
    <3>2. Contents = [k \in 1..count |-> data[s[k]]]
      BY <2>2, <3>1, ContentsIs
    <3>3. DOMAIN Contents = 1..count /\ \A k \in 1..count : Contents[k] = data[s[k]]
      BY <3>2
    <3>4. \A k \in 1..count : s[k] \in used /\ data[s[k]] \in Items
      BY <3>1 DEF Whole, Among, IndInv
    <3>5. ASSUME NEW j \in 1..count, NEW k \in 1..count, Contents[j] = Contents[k] PROVE j = k
      BY <3>1, <3>3, <3>4, <3>5 DEF OwnInv, Whole, Linked
    <3>6. ASSUME NEW x \in Items
          PROVE  owner[x] = "list" <=> \E k \in 1..count : Contents[k] = x
      <4>1. \A p : p \in used <=> \E k \in 1..count : s[k] = p
        BY <3>1, Zenon DEF Whole, Among
      <4>2. owner[x] = "list" <=> \E p \in used : data[p] = x
        BY Zenon DEF OwnInv
      <4>3. ASSUME NEW p \in used, data[p] = x PROVE \E k \in 1..count : Contents[k] = x
        BY <3>3, <4>1, <4>3
      <4>4. ASSUME NEW k \in 1..count, Contents[k] = x PROVE \E p \in used : data[p] = x
        BY <3>3, <3>4, <4>4
      <4> QED
        BY <4>2, <4>3, <4>4, Zenon
    <3>7. {Contents[k] : k \in DOMAIN Contents} = {x \in Items : owner[x] = "list"}
      <4>1. \A k \in 1..count : Contents[k] \in Items
        BY <3>3, <3>4, Zenon
      <4>2. \A x : x \in {Contents[k] : k \in DOMAIN Contents} <=> \E k \in 1..count : Contents[k] = x
        BY <3>3, Zenon
      <4>3. \A x : x \in {y \in Items : owner[y] = "list"} <=> x \in Items /\ owner[x] = "list"
        OBVIOUS
      <4> QED
        BY <3>6, <4>1, <4>2, <4>3, Zenon
    <3> QED
      BY <3>3, <3>5, <3>7, Zenon DEF ItemsAccounted
  <2> QED
    BY <2>1, <2>2
<1> QED
  BY <1>1, <1>2, Inductive, OwnStep, PTL DEF Spec

\* Where an iterator before the k + 1st node, that is to return the e + 1st, is after a 
\* node is put after the first j, ...
FieldIn(j, k) == IF k < j THEN k ELSE k + 1
PosIn(j, k, e) == IF k < j /\ e = j THEN j ELSE FieldIn(j, e)
\* ... and after the node j + 1 is taken out.
FieldOut(j, k, e) == IF e = j THEN j ELSE IF k <= j THEN k ELSE k - 1
PosOut(j, e) == IF e <= j THEN e ELSE e - 1

MovedIn(n, s, j, p, m, t, w, k, e) ==
  /\ FieldIn(j, k) \in 0..n + 1 /\ PosIn(j, k, e) \in 0..n + 1
  /\ PosIn(j, k, e) \in {FieldIn(j, k), FieldIn(j, k) + 1}
  /\ (IF Field(s, k) = Field(s, j) THEN p ELSE Field(s, k)) = Field(t, FieldIn(j, k))
  /\ (IF Field(s, k) # Field(s, j) /\ m[Field(s, e)] = m[Field(s, j)] 
      THEN p ELSE m[Field(s, e)]) = w[Field(t, PosIn(j, k, e))]
  /\ PosIn(j, k, e) = FieldIn(j, k) <=> e = k
  /\ e = k + 1 => t[PosIn(j, k, e)] = s[e]

LEMMA AtIn ==
  ASSUME NEW n \in Nat, NEW s \in [1..n -> Nodes], NEW j \in 0..n, NEW p \in Nodes,
         NEW m, Linked(m, s, n), NEW t, t = With(s, n, j, p), NEW w, Linked(w, t, n + 1),
         NEW k \in 0..n, NEW e \in 0..n, e \in {k, k + 1}
  PROVE  MovedIn(n, s, j, p, m, t, w, k, e)
<1>1. /\ FieldIn(j, k) \in 0..n + 1 /\ PosIn(j, k, e) \in 0..n + 1
      /\ PosIn(j, k, e) \in {FieldIn(j, k), FieldIn(j, k) + 1}
      /\ PosIn(j, k, e) = FieldIn(j, k) <=> e = k
  BY DEF FieldIn, PosIn
<1>2. /\ \A i \in 1..n + 1 : t[i] = IF i <= j THEN s[i] ELSE IF i = j + 1 THEN p ELSE s[i - 1]
  BY DEF With
<1>3. \A i \in 0..n + 1 : w[Field(t, i)] = IF i = n + 1 THEN Nil ELSE t[i + 1]
  BY DEF Linked
<1>4. \A i \in 0..n : m[Field(s, i)] = IF i = n THEN Nil ELSE s[i + 1]
  BY DEF Linked
<1>5. Field(s, k) = Field(s, j) <=> k = j
  BY FieldFacts
<1>6. m[Field(s, e)] = m[Field(s, j)] <=> e = j
  BY FieldFacts
<1>7. (IF k = j THEN p ELSE Field(s, k)) = Field(t, FieldIn(j, k))
  <2>1. CASE k = j
    <3>1. j + 1 \in 1..n + 1 /\ ~(j + 1 <= j) /\ FieldIn(j, k) = j + 1
      BY <2>1 DEF FieldIn
    <3>2. Field(t, j + 1) = p
      BY <1>2, <3>1 DEF Field
    <3> QED
      BY <2>1, <3>1, <3>2
  <2>2. CASE k < j
    BY <1>2, <2>2 DEF Field, FieldIn
  <2>3. CASE k > j
    <3>1. k + 1 \in 1..n + 1 /\ (k + 1) - 1 = k /\ ~(k + 1 <= j) /\ k + 1 # j + 1 /\ k # 0
      BY <2>3
    <3>2. t[k + 1] = s[k]
      BY <1>2, <3>1
    <3> QED
      BY <2>3, <3>1, <3>2 DEF Field, FieldIn
  <2> QED
    BY <2>1, <2>2, <2>3
<1>8. (IF k # j /\ e = j THEN p ELSE m[Field(s, e)]) = w[Field(t, PosIn(j, k, e))]
  <2>1. CASE k # j /\ e = j
    <3>1. PosIn(j, k, e) = j /\ j + 1 \in 1..n + 1 /\ ~(j + 1 <= j) /\ j # n + 1
      BY <2>1 DEF PosIn
    <3>2. w[Field(t, j)] = t[j + 1] /\ t[j + 1] = p
      BY <1>2, <1>3, <3>1
    <3> QED
      BY <2>1, <3>1, <3>2
  <2>2. CASE e < j
    <3>1. PosIn(j, k, e) = e /\ e + 1 \in 1..n + 1 /\ e + 1 <= j /\ e # n + 1 /\ e # n
      BY <2>2 DEF PosIn, FieldIn
    <3>2. w[Field(t, e)] = t[e + 1] /\ t[e + 1] = s[e + 1] /\ m[Field(s, e)] = s[e + 1]
      BY <1>2, <1>3, <1>4, <3>1
    <3> QED
      BY <2>2, <3>1, <3>2
  <2>3. CASE e >= j /\ ~(k # j /\ e = j)
    <3>1. PosIn(j, k, e) = e + 1 /\ e + 1 \in 0..n + 1
      BY <2>3 DEF PosIn, FieldIn
    <3>2. CASE e = n
      <4>1. w[Field(t, n + 1)] = Nil /\ m[Field(s, n)] = Nil
        BY <1>3, <1>4
      <4> QED
        BY <2>3, <3>1, <3>2, <4>1
    <3>3. CASE e # n
      <4>1. /\ (e + 1) + 1 \in 1..n + 1 /\ ((e + 1) + 1) - 1 = e + 1 /\ e + 1 # n + 1
            /\ ~((e + 1) + 1 <= j) /\ (e + 1) + 1 # j + 1
        BY <2>3, <3>3
      <4>2. w[Field(t, e + 1)] = t[(e + 1) + 1] /\ m[Field(s, e)] = s[e + 1]
        BY <1>3, <1>4, <3>1, <3>3, <4>1
      <4>3. t[(e + 1) + 1] = s[e + 1]
        BY <1>2, <4>1
      <4> QED
        BY <2>3, <3>1, <4>2, <4>3
    <3> QED
      BY <3>2, <3>3
  <2> QED
    BY <2>1, <2>2, <2>3
<1>9. e = k + 1 => t[PosIn(j, k, e)] = s[e]
  <2>1. CASE e = k + 1 /\ k < j
    <3>1. PosIn(j, k, e) = e /\ e \in 1..n + 1 /\ e <= j
      BY <2>1 DEF PosIn, FieldIn
    <3> QED
      BY <1>2, <3>1
  <2>2. CASE e = k + 1 /\ ~(k < j)
    <3>1. /\ PosIn(j, k, e) = e + 1 /\ e + 1 \in 1..n + 1 /\ (e + 1) - 1 = e
          /\ ~(e + 1 <= j) /\ e + 1 # j + 1
      BY <2>2 DEF PosIn, FieldIn
    <3> QED
      BY <1>2, <3>1
  <2> QED
    BY <2>1, <2>2
<1> QED
  <2>1. (IF Field(s, k) = Field(s, j) THEN p ELSE Field(s, k)) = Field(t, FieldIn(j, k))
    BY <1>5, <1>7, Zenon
  <2>2. (IF Field(s, k) # Field(s, j) /\ m[Field(s, e)] = m[Field(s, j)] 
         THEN p ELSE m[Field(s, e)]) = w[Field(t, PosIn(j, k, e))]
    BY <1>5, <1>6, <1>8
  <2> QED
    BY <1>1, <1>9, <2>1, <2>2, Zenon DEF MovedIn

MovedOut(n, s, j, p, m, t, w, k, e) ==
  /\ FieldOut(j, k, e) \in 0..n - 1 /\ PosOut(j, e) \in 0..n - 1
  /\ PosOut(j, e) \in {FieldOut(j, k, e), FieldOut(j, k, e) + 1}
  /\ (IF m[Field(s, e)] = p \/ Field(s, k) = p THEN Field(s, j) ELSE Field(s, k)) =
       Field(t, FieldOut(j, k, e))
  /\ (IF m[Field(s, e)] = p THEN m[p] ELSE m[Field(s, e)]) = w[Field(t, PosOut(j, e))]
  /\ PosOut(j, e) = FieldOut(j, k, e) <=> e = k \/ e = j \/ k = j
  /\ PosOut(j, e) # FieldOut(j, k, e) => t[PosOut(j, e)] = s[e]

LEMMA AtOut ==
  ASSUME NEW n \in Nat, NEW s \in [1..n -> Nodes], NEW j \in 0..n - 1,
         NEW m, Linked(m, s, n), NEW t, t = Without(s, n, j), NEW w, Linked(w, t, n - 1),
         NEW k \in 0..n, NEW e \in 0..n, e \in {k, k + 1}
  PROVE  MovedOut(n, s, j, s[j + 1], m, t, w, k, e)
<1> DEFINE p == s[j + 1]
<1>1. /\ FieldOut(j, k, e) \in 0..n - 1 /\ PosOut(j, e) \in 0..n - 1
      /\ PosOut(j, e) \in {FieldOut(j, k, e), FieldOut(j, k, e) + 1}
      /\ PosOut(j, e) = FieldOut(j, k, e) <=> e = k \/ e = j \/ k = j
  BY DEF FieldOut, PosOut
<1>2. \A i \in 1..n - 1 : t[i] = IF i <= j THEN s[i] ELSE s[i + 1]
  BY DEF Without
<1>3. \A i \in 0..n - 1 : w[Field(t, i)] = IF i = n - 1 THEN Nil ELSE t[i + 1]
  BY DEF Linked
<1>4. \A i \in 0..n : m[Field(s, i)] = IF i = n THEN Nil ELSE s[i + 1]
  BY DEF Linked
<1>5. /\ j \in 0..n /\ j + 1 \in 0..n /\ j # n /\ p = m[Field(s, j)] /\ p = Field(s, j + 1)
  BY <1>4 DEF Field
<1>6. Field(s, k) = p <=> k = j + 1
  BY <1>5, FieldFacts
<1>7. m[Field(s, e)] = p <=> e = j
  BY <1>5, FieldFacts
<1>8. \A i \in 0..n - 1 : Field(t, i) = IF i <= j THEN Field(s, i) ELSE Field(s, i + 1)
  BY <1>2 DEF Field
<1>9. (IF e = j \/ k = j + 1 THEN Field(s, j) ELSE Field(s, k)) = Field(t, FieldOut(j, k, e))
  <2>1. CASE e = j \/ k = j + 1
    <3>1. FieldOut(j, k, e) = j
      BY <2>1 DEF FieldOut
    <3> QED
      BY <1>8, <2>1, <3>1
  <2>2. CASE ~(e = j \/ k = j + 1) /\ k <= j
    <3>1. FieldOut(j, k, e) = k /\ k \in 0..n - 1
      BY <2>2 DEF FieldOut
    <3> QED
      BY <1>8, <2>2, <3>1
  <2>3. CASE ~(e = j \/ k = j + 1) /\ k > j
    <3>1. FieldOut(j, k, e) = k - 1 /\ k - 1 \in 0..n - 1 /\ ~(k - 1 <= j) /\ (k - 1) + 1 = k
      BY <2>3 DEF FieldOut
    <3>2. Field(t, k - 1) = Field(s, k)
      BY <1>8, <3>1
    <3> QED
      BY <2>3, <3>1, <3>2
  <2> QED
    BY <2>1, <2>2, <2>3
<1>10. (IF e = j THEN m[p] ELSE m[Field(s, e)]) = w[Field(t, PosOut(j, e))]
  <2>1. CASE e = j
    <3>1. PosOut(j, e) = j /\ m[p] = IF j + 1 = n THEN Nil ELSE s[(j + 1) + 1]
      BY <1>4, <1>5, <2>1 DEF PosOut
    <3>2. CASE j + 1 = n
      <4>1. w[Field(t, j)] = Nil
        BY <1>3, <3>2
      <4> QED
        BY <2>1, <3>1, <3>2, <4>1
    <3>3. CASE j + 1 # n
      <4>1. j # n - 1 /\ j + 1 \in 1..n - 1 /\ ~(j + 1 <= j)
        BY <3>3
      <4>2. w[Field(t, j)] = t[j + 1] /\ t[j + 1] = s[(j + 1) + 1]
        BY <1>2, <1>3, <4>1
      <4> QED
        BY <2>1, <3>1, <3>3, <4>2
    <3> QED
      BY <3>2, <3>3
  <2>2. CASE e < j
    <3>1. PosOut(j, e) = e /\ e \in 0..n - 1 /\ e # n - 1 /\ e # n /\ e + 1 \in 1..n - 1 /\ e + 1 <= j
      BY <2>2 DEF PosOut
    <3>2. w[Field(t, e)] = t[e + 1] /\ t[e + 1] = s[e + 1] /\ m[Field(s, e)] = s[e + 1]
      BY <1>2, <1>3, <1>4, <3>1
    <3> QED
      BY <2>2, <3>1, <3>2
  <2>3. CASE e > j
    <3>1. PosOut(j, e) = e - 1 /\ e - 1 \in 0..n - 1 /\ (e - 1) + 1 = e /\ e # j
      BY <2>3 DEF PosOut
    <3>2. CASE e = n
      <4>1. w[Field(t, e - 1)] = Nil /\ m[Field(s, e)] = Nil
        BY <1>3, <1>4, <3>1, <3>2
      <4> QED
        BY <3>1, <4>1
    <3>3. CASE e # n
      <4>1. e - 1 # n - 1 /\ e \in 1..n - 1 /\ ~(e <= j)
        BY <2>3, <3>3
      <4>2. w[Field(t, e - 1)] = t[e] /\ t[e] = s[e + 1] /\ m[Field(s, e)] = s[e + 1]
        BY <1>2, <1>3, <1>4, <3>1, <3>3, <4>1
      <4> QED
        BY <3>1, <4>2
    <3> QED
      BY <3>2, <3>3
  <2> QED
    BY <2>1, <2>2, <2>3
<1>11. PosOut(j, e) # FieldOut(j, k, e) => t[PosOut(j, e)] = s[e]
  <2>1. CASE e < j /\ PosOut(j, e) # FieldOut(j, k, e)
    <3>1. PosOut(j, e) = e /\ e \in 1..n - 1 /\ e <= j
      BY <2>1 DEF PosOut, FieldOut
    <3> QED
      BY <1>2, <3>1
  <2>2. CASE e >= j /\ PosOut(j, e) # FieldOut(j, k, e)
    <3>1. PosOut(j, e) = e - 1 /\ e - 1 \in 1..n - 1 /\ (e - 1) + 1 = e /\ ~(e - 1 <= j)
      BY <2>2 DEF PosOut, FieldOut
    <3>2. t[e - 1] = s[e]
      BY <1>2, <3>1
    <3> QED
      BY <3>1, <3>2
  <2> QED
    BY <2>1, <2>2
<1> QED
  <2>1. (IF m[Field(s, e)] = p \/ Field(s, k) = p THEN Field(s, j) ELSE Field(s, k)) =
          Field(t, FieldOut(j, k, e))
    BY <1>6, <1>7, <1>9
  <2>2. (IF m[Field(s, e)] = p THEN m[p] ELSE m[Field(s, e)]) = w[Field(t, PosOut(j, e))]
    BY <1>7, <1>10
  <2> QED
    BY <1>1, <1>11, <2>1, <2>2, Zenon DEF MovedOut

\* A chain is the only one through its fields.
LEMMA OneChain ==
  ASSUME NEW m, NEW n \in Nat, NEW s \in [1..n -> Nodes], NEW t \in [1..n -> Nodes],
         Linked(m, s, n), Linked(m, t, n)
  PROVE  s = t
<1> DEFINE T == {k \in 1..n : s[k] # t[k]}
<1>1. CASE T = {}
  BY <1>1
<1>2. CASE T # {}
  <2>1. T \subseteq Nat
    OBVIOUS
  <2>2. PICK k \in T : \A i \in T : k <= i
    BY <1>2, <2>1, LeastIs
  <2>3. k \in 1..n /\ s[k] # t[k] /\ k - 1 \in 0..n /\ k - 1 # n /\ (k - 1) + 1 = k
    BY <2>2
  <2>4. Field(s, k - 1) = Field(t, k - 1)
    <3>1. CASE k = 1
      BY <3>1 DEF Field
    <3>2. CASE k # 1
      <4>1. k - 1 \in 1..n /\ k - 1 \notin T
        BY <2>2, <2>3, <3>2
      <4> QED
        BY <4>1 DEF Field
    <3> QED
      BY <3>1, <3>2
  <2>5. s[k] = t[k]
    BY <2>3, <2>4 DEF Linked
  <2> QED
    BY <2>3, <2>5
<1> QED
  BY <1>1, <1>2

LEMMA ConcatIs ==
  ASSUME NEW S, NEW u \in Seq(S), NEW w \in Seq(S)
  PROVE  /\ u \o w \in Seq(S) /\ Len(u \o w) = Len(u) + Len(w)
         /\ \A k \in 1..Len(u) : (u \o w)[k] = u[k]
         /\ \A k \in 1..Len(w) : (u \o w)[Len(u) + k] = w[k]
<1>1. u \o w \in Seq(S) /\ Len(u \o w) = Len(u) + Len(w)
  OBVIOUS
<1>2. ASSUME NEW k \in 1..Len(u) PROVE (u \o w)[k] = u[k]
  OBVIOUS
<1>3. ASSUME NEW k \in 1..Len(w) PROVE (u \o w)[Len(u) + k] = w[k]
  <2>1. Len(u) + k \in 1..Len(u) + Len(w) /\ (Len(u) + k) - Len(u) = k /\ Len(u) + k > Len(u)
    OBVIOUS
  <2> QED
    BY <2>1
<1> QED
  BY <1>1, <1>2, <1>3

LEMMA InsertIs ==
  ASSUME NEW S, NEW v \in Seq(S), NEW j \in 0..Len(v), NEW x \in S
  PROVE  Log!InsertAt(v, j + 1, x) = With(v, Len(v), j, x)
<1> DEFINE n == Len(v)
<1>1. (j + 1) - 1 = j /\ n \in Nat
  OBVIOUS
<1>2. Log!InsertAt(v, j + 1, x) = SubSeq(v, 1, j) \o <<x>> \o SubSeq(v, j + 1, n)
  BY <1>1 DEF Log!InsertAt
<1>3. /\ SubSeq(v, 1, j) \in Seq(S) /\ Len(SubSeq(v, 1, j)) = j
      /\ \A k \in 1..j : SubSeq(v, 1, j)[k] = v[k]
  OBVIOUS
<1>4. /\ SubSeq(v, j + 1, n) \in Seq(S) /\ Len(SubSeq(v, j + 1, n)) = n - j
      /\ \A k \in 1..n - j : SubSeq(v, j + 1, n)[k] = v[j + k]
  OBVIOUS
<1> DEFINE u == SubSeq(v, 1, j)
           w == SubSeq(v, j + 1, n)
           z == u \o <<x>>
           t == Log!InsertAt(v, j + 1, x)
<1>5. t = z \o w
  BY <1>2
<1> HIDE DEF u, w, z, t, n
<1>6. u \in Seq(S) /\ Len(u) = j /\ w \in Seq(S) /\ Len(w) = n - j
  BY <1>3, <1>4 DEF u, w
<1>7. /\ z \in Seq(S) /\ Len(z) = j + 1 /\ z[j + 1] = x
      /\ \A k \in 1..j : z[k] = u[k]
  <2>1. <<x>> \in Seq(S) /\ Len(<<x>>) = 1 /\ <<x>>[1] = x /\ 1 \in 1..1
    OBVIOUS
  <2> QED
    BY <1>6, <2>1, ConcatIs DEF z
<1>8. /\ t \in Seq(S) /\ Len(t) = n + 1
      /\ \A k \in 1..j + 1 : t[k] = z[k]
      /\ \A k \in 1..n - j : t[(j + 1) + k] = w[k]
  <2>1. (j + 1) + (n - j) = n + 1
    BY <1>1
  <2>2. /\ z \o w \in Seq(S) /\ Len(z \o w) = Len(z) + Len(w)
        /\ \A k \in 1..Len(z) : (z \o w)[k] = z[k]
        /\ \A k \in 1..Len(w) : (z \o w)[Len(z) + k] = w[k]
    <3>1. z \in Seq(S)
      BY <1>7
    <3>2. w \in Seq(S)
      BY <1>6
    <3> QED
      BY ONLY <3>1, <3>2, ConcatIs
  <2> QED
    BY <1>5, <1>6, <1>7, <2>1, <2>2
<1>9. ASSUME NEW k \in 1..n + 1
      PROVE  t[k] = IF k <= j THEN v[k] ELSE IF k = j + 1 THEN x ELSE v[k - 1]
  <2>1. CASE k <= j + 1
    <3>1. t[k] = z[k]
      BY <1>8, <2>1
    <3> QED
      BY <1>3, <1>7, <2>1, <3>1 DEF u
  <2>2. CASE k > j + 1
    <3>1. k - (j + 1) \in 1..n - j /\ j + (k - (j + 1)) = k - 1
      BY <1>1, <2>2 DEF n
    <3>2. t[k] = w[k - (j + 1)]
      <4>1. (j + 1) + (k - (j + 1)) = k
        OBVIOUS
      <4> QED
        BY <1>8, <3>1, <4>1
    <3> QED
      BY <1>4, <2>2, <3>1, <3>2 DEF w
  <2> QED
    BY <1>1, <2>1, <2>2
<1>10. t = [k \in 1..n + 1 |-> t[k]]
  BY <1>1, <1>8
<1>11. t = With(v, n, j, x)
  BY <1>9, <1>10, Zenon DEF With
<1> QED
  BY <1>11 DEF t, n

LEMMA RemoveIs ==
  ASSUME NEW S, NEW v \in Seq(S), NEW j \in 0..Len(v) - 1
  PROVE  Log!RemoveAt(v, j + 1) = Without(v, Len(v), j)
<1> DEFINE n == Len(v)
<1>1. (j + 1) - 1 = j /\ n \in Nat /\ (j + 1) + 1 = j + 2
  OBVIOUS
<1>2. Log!RemoveAt(v, j + 1) = SubSeq(v, 1, j) \o SubSeq(v, j + 2, n)
  BY <1>1 DEF Log!RemoveAt
<1>3. /\ SubSeq(v, 1, j) \in Seq(S) /\ Len(SubSeq(v, 1, j)) = j
      /\ \A k \in 1..j : SubSeq(v, 1, j)[k] = v[k]
  OBVIOUS
<1>4. /\ SubSeq(v, j + 2, n) \in Seq(S) /\ Len(SubSeq(v, j + 2, n)) = (n - j) - 1
      /\ \A k \in 1..(n - j) - 1 : SubSeq(v, j + 2, n)[k] = v[(j + 1) + k]
  OBVIOUS
<1> DEFINE u == SubSeq(v, 1, j)
           w == SubSeq(v, j + 2, n)
           t == Log!RemoveAt(v, j + 1)
<1>5. t = u \o w
  BY <1>2
<1> HIDE DEF u, w, t, n
<1>6. u \in Seq(S) /\ Len(u) = j /\ w \in Seq(S) /\ Len(w) = (n - j) - 1
  BY <1>3, <1>4 DEF u, w
<1>8. /\ t \in Seq(S) /\ Len(t) = n - 1
      /\ \A k \in 1..j : t[k] = u[k]
      /\ \A k \in 1..(n - j) - 1 : t[j + k] = w[k]
  <2>1. j + ((n - j) - 1) = n - 1
    BY <1>1
  <2>2. u \in Seq(S) /\ w \in Seq(S)
    BY <1>6
  <2>3. /\ u \o w \in Seq(S) /\ Len(u \o w) = Len(u) + Len(w)
        /\ \A k \in 1..Len(u) : (u \o w)[k] = u[k]
        /\ \A k \in 1..Len(w) : (u \o w)[Len(u) + k] = w[k]
    BY ONLY <2>2, ConcatIs
  <2> QED
    BY <1>5, <1>6, <2>1, <2>3
<1>9. ASSUME NEW k \in 1..n - 1 PROVE t[k] = IF k <= j THEN v[k] ELSE v[k + 1]
  <2>1. CASE k <= j
    <3>1. t[k] = u[k]
      BY <1>8, <2>1
    <3> QED
      BY <1>3, <2>1, <3>1 DEF u
  <2>2. CASE k > j
    <3>1. k - j \in 1..(n - j) - 1 /\ (j + 1) + (k - j) = k + 1
      BY <1>1, <2>2 DEF n
    <3>2. t[k] = w[k - j]
      <4>1. j + (k - j) = k
        OBVIOUS
      <4> QED
        BY <1>8, <3>1, <4>1
    <3>3. w[k - j] = v[(j + 1) + (k - j)]
      BY <1>4, <3>1, Zenon DEF w
    <3> QED
      BY <2>2, <3>1, <3>2, <3>3
  <2> QED
    BY <1>1, <2>1, <2>2
<1>10. t = [k \in 1..n - 1 |-> t[k]]
  BY <1>1, <1>8
<1>11. t = Without(v, n, j)
  BY <1>9, <1>10, Zenon DEF Without
<1> QED
  BY <1>11 DEF t, n

----------------------------------------------------------------------------
(* How the chain shows a list. *)

\* The items d of the first n nodes of s.
Along(s, n, d) == [k \in 1..n |-> d[s[k]]]

\* An iterator before the k + 1st node, that is to return the e + 1st.
At(s, i, k, e) ==
  /\ k \in 0..count /\ e \in 0..count /\ e \in {k, k + 1}
  /\ prev[i] = Field(s, k) /\ pos[i] = mem[Field(s, e)]

Placing(s, i) == \E k, e \in 0..count : At(s, i, k, e)

\* What an iterator has ahead of it, and which item it returned last.
Ahead(i, e) == Remaining(i) = count - e
Last(s, i, k, e) == LastOf(i) = IF e = k THEN Nil ELSE data[s[e]]

Shows(s) ==
  /\ Contents = Along(s, count, data)
  /\ ~Sorting => \A i \in iters : Placing(s, i)
  /\ ~Sorting => \A i \in iters : \A k, e \in 0..count :
       At(s, i, k, e) => Ahead(i, e) /\ Last(s, i, k, e)

View == alive => \A s \in [1..count -> Nodes] : Whole(s) => Shows(s)

LEMMA CursorPlacing ==
  ASSUME NEW s \in [1..count -> Nodes], Linked(mem, s, count), count \in Nat, NEW i,
         Cursor(mem, s, count, prev[i], pos[i])
  PROVE  Placing(s, i)
<1>1. PICK k \in 0..count :
        /\ prev[i] = Field(s, k)
        /\ pos[i] = mem[prev[i]] \/ (k < count /\ pos[i] = mem[s[k + 1]])
  BY DEF Cursor
<1>2. CASE pos[i] = mem[prev[i]]
  <2>1. At(s, i, k, k)
    BY <1>1, <1>2 DEF At
  <2> QED
    BY <2>1 DEF Placing
<1>3. CASE k < count /\ pos[i] = mem[s[k + 1]]
  <2>1. k + 1 \in 0..count /\ s[k + 1] = Field(s, k + 1)
    BY <1>3 DEF Field
  <2>2. At(s, i, k, k + 1)
    BY <1>1, <1>3, <2>1 DEF At
  <2> QED
    BY <2>1, <2>2 DEF Placing
<1> QED
  BY <1>1, <1>2, <1>3

LEMMA IterIs ==
  ASSUME NEW s \in [1..count -> Nodes], Linked(mem, s, count), count \in Nat, ~Sorting,
         NEW i \in iters, NEW k \in 0..count, NEW e \in 0..count, At(s, i, k, e)
  PROVE  Ahead(i, e) /\ Last(s, i, k, e)
<1>1. e \in {k, k + 1} /\ prev[i] = Field(s, k) /\ pos[i] = mem[Field(s, e)]
  BY DEF At
<1>2. Ahead(i, e)
  <2>1. CASE e = count
    <3>1. pos[i] = Nil
      BY <1>1, <2>1 DEF Linked
    <3> QED
      BY <2>1, <3>1 DEF Ahead, Remaining
  <2>2. CASE e # count
    <3>1. e + 1 \in 0..count /\ e + 1 \in 1..count
      BY <2>2
    <3>2. pos[i] = Field(s, e + 1) /\ pos[i] # Nil
      BY <1>1, <2>2, <3>1, ListAssumption DEF Linked, Field
    <3>3. Walk(Field(s, e + 1)) = Walked(s, count, e + 1)
      BY <3>1, WalkIs
    <3>4. Len(Walked(s, count, e + 1)) = count - (e + 1)
      BY <3>1 DEF Walked
    <3>5. Remaining(i) = 1 + Len(Walk(pos[i]))
      BY <3>2 DEF Remaining
    <3> QED
      BY <3>1, <3>2, <3>3, <3>4, <3>5 DEF Ahead
  <2> QED
    BY <2>1, <2>2
<1>3. Last(s, i, k, e)
  <2>1. mem[prev[i]] = pos[i] <=> e = k
    BY <1>1, FieldFacts
  <2>2. CASE e = k
    BY <2>1, <2>2 DEF Last, LastOf
  <2>3. CASE e # k
    <3>1. mem[prev[i]] = s[e]
      BY <1>1, <2>3 DEF Linked
    <3>2. LastOf(i) = data[mem[prev[i]]]
      BY <2>1, <2>3, Zenon DEF LastOf
    <3> QED
      BY <2>3, <3>1, <3>2 DEF Last
  <2> QED
    BY <2>2, <2>3
<1> QED
  BY <1>2, <1>3

LEMMA Seen == IndInv => View
<1> SUFFICES ASSUME IndInv, alive, NEW s \in [1..count -> Nodes], Whole(s) PROVE Shows(s)
  BY DEF View
<1>1. count \in Nat /\ Linked(mem, s, count)
  BY DEF IndInv, TypeOK, Whole
<1>2. Contents = [k \in 1..count |-> data[s[k]]]
  BY ContentsIs
<1>3. ASSUME ~Sorting, NEW i \in iters PROVE Placing(s, i)
  BY <1>1, <1>3, CursorPlacing DEF Whole
<1>4. ASSUME ~Sorting, NEW i \in iters, NEW k \in 0..count, NEW e \in 0..count, At(s, i, k, e)
      PROVE  Ahead(i, e) /\ Last(s, i, k, e)
  BY <1>1, <1>4, IterIs
<1> QED
  BY <1>2, <1>3, <1>4, Zenon DEF Shows, Along

LEMMA SeenNext == IndInv' => View'
  BY Seen, PTL

----------------------------------------------------------------------------
(* The contents once a node is in, and once one is out. *)

Stored(d, p, x) == [d EXCEPT ![p] = x]

PutInto(s, t, n, d, c, j, x) == Along(t, n + 1, c) = With(Along(s, n, d), n, j, x)
CutFrom(s, t, n, d, c, j) == Along(t, n - 1, c) = Without(Along(s, n, d), n, j)

LEMMA ContentsIn ==
  ASSUME NEW n \in Nat, NEW s \in [1..n -> Nodes], NEW j \in 0..n, NEW p \in Nodes,
         ~Among(s, n, p), NEW d \in [Nodes -> Items \cup {Nil}], NEW x,
         NEW t, t = With(s, n, j, p), NEW c, c = Stored(d, p, x)
  PROVE  PutInto(s, t, n, d, c, j, x)
<1> DEFINE v == [k \in 1..n |-> d[s[k]]]
<1>0. c = [d EXCEPT ![p] = x] /\ \A k \in 1..n : s[k] # p
  BY DEF Stored, Among
<1>1. ASSUME NEW k \in 1..n + 1
      PROVE  c[t[k]] = IF k <= j THEN v[k] ELSE IF k = j + 1 THEN x ELSE v[k - 1]
  <2>1. CASE k <= j
    <3>1. k \in 1..n /\ t[k] = s[k] /\ s[k] \in Nodes /\ s[k] # p
      BY <1>0, <2>1 DEF With
    <3> QED
      BY <1>0, <2>1, <3>1
  <2>2. CASE k = j + 1
    <3>1. t[k] = p /\ ~(k <= j)
      BY <2>2 DEF With
    <3> QED
      BY <1>0, <2>2, <3>1
  <2>3. CASE k > j + 1
    <3>1. k - 1 \in 1..n /\ ~(k <= j) /\ k # j + 1
      BY <2>3
    <3>2. t[k] = s[k - 1] /\ s[k - 1] \in Nodes /\ s[k - 1] # p
      BY <1>0, <3>1 DEF With
    <3> QED
      BY <1>0, <3>1, <3>2
  <2> QED
    BY <2>1, <2>2, <2>3
<1> HIDE DEF v
<1>2. [k \in 1..n + 1 |-> c[t[k]]] = With(v, n, j, x)
  BY <1>1, Zenon DEF With
<1> QED
  BY <1>2 DEF v, Along, PutInto

LEMMA ContentsOut ==
  ASSUME NEW n \in Nat, NEW s \in [1..n -> Nodes], NEW j \in 0..n - 1,
         NEW m, Linked(m, s, n), NEW d \in [Nodes -> Items \cup {Nil}], NEW x,
         NEW t, t = Without(s, n, j), NEW c, c = Stored(d, s[j + 1], x)
  PROVE  CutFrom(s, t, n, d, c, j)
<1> DEFINE v == [k \in 1..n |-> d[s[k]]]
<1>0. c = [d EXCEPT ![s[j + 1]] = x] /\ \A k, l \in 1..n : s[k] = s[l] => k = l
  BY DEF Stored, Linked
<1>1. ASSUME NEW k \in 1..n - 1 PROVE c[t[k]] = IF k <= j THEN v[k] ELSE v[k + 1]
  <2>1. j + 1 \in 1..n /\ k \in 1..n /\ k + 1 \in 1..n
    OBVIOUS
  <2>2. CASE k <= j
    <3>1. t[k] = s[k] /\ s[k] \in Nodes /\ s[k] # s[j + 1]
      BY <1>0, <2>1, <2>2 DEF Without
    <3> QED
      BY <1>0, <2>1, <2>2, <3>1
  <2>3. CASE k > j
    <3>1. t[k] = s[k + 1] /\ s[k + 1] \in Nodes /\ s[k + 1] # s[j + 1] /\ ~(k <= j)
      BY <1>0, <2>1, <2>3 DEF Without
    <3> QED
      BY <1>0, <2>1, <2>3, <3>1
  <2> QED
    BY <2>2, <2>3
<1> HIDE DEF v
<1>2. [k \in 1..n - 1 |-> c[t[k]]] = Without(v, n, j)
  BY <1>1, Zenon DEF Without
<1> QED
  BY <1>2 DEF v, Along, CutFrom

\* The contents are a sequence of items.
LEMMA ContentsType ==
  ASSUME IndInv, NEW s \in [1..count -> Nodes], Whole(s), Shows(s)
  PROVE  /\ Contents \in Seq(Items) /\ Len(Contents) = count /\ count \in Nat
         /\ \A k \in 1..count : Contents[k] = data[s[k]] /\ s[k] \in used
<1>1. count \in Nat /\ Contents = [k \in 1..count |-> data[s[k]]]
  BY DEF IndInv, TypeOK, Shows, Along
<1>2. \A k \in 1..count : s[k] \in used /\ data[s[k]] \in Items
  BY DEF IndInv, Whole, Among
<1> QED
  BY <1>1, <1>2

\* What an iterator of a list has ahead is at most what the list has.
LEMMA RemainingType ==
  ASSUME IndInv, alive, ~Sorting, NEW s \in [1..count -> Nodes], Whole(s), Shows(s),
         NEW i \in Iters
  PROVE  Remaining(i) \in 0..count /\ LastOf(i) \in Items \cup {Nil}
<1>1. CASE i \notin iters
  BY <1>1 DEF Remaining, LastOf, IndInv, TypeOK
<1>2. CASE i \in iters
  <2>1. PICK k \in 0..count, e \in 0..count : At(s, i, k, e)
    BY <1>2 DEF Shows, Placing
  <2>2. Ahead(i, e) /\ Last(s, i, k, e) /\ e \in {k, k + 1}
    BY <1>2, <2>1, Zenon DEF Shows, At
  <2>3. count \in Nat /\ (e # k => data[s[e]] \in Items)
    <3>1. e # k => e \in 1..count
      BY <2>2
    <3> QED
      BY <3>1 DEF IndInv, TypeOK, Whole, Among
  <2> QED
    BY <2>2, <2>3 DEF Ahead, Last
<1> QED
  BY <1>1, <1>2

Ranges == alive /\ ~Sorting =>
  \A i \in Iters : Remaining(i) \in 0..count /\ LastOf(i) \in Items \cup {Nil}

LEMMA InRange == IndInv => Ranges
  BY RemainingType, Seen DEF Ranges, View, IndInv

LEMMA InRangeNext == IndInv' => Ranges'
  BY InRange, PTL

\* The iterators once a node is in.
LEMMA IterPut ==
  ASSUME IndInv, IndInv', Free, NEW s \in [1..count -> Nodes], Whole(s), Shows(s),
         NEW j \in 0..count, NEW x, NodeCreate(Field(s, j), x),
         NEW t, NEW p, Put(s, t, j, x, p), Shows(t)', NEW i \in iters
  PROVE  \E k, e \in 0..count : 
           /\ At(s, i, k, e)
           /\ Remaining(i) = count - e /\ Remaining(i)' = (count + 1) - PosIn(j, k, e)
           /\ LastOf(i)' = LastOf(i)
           /\ LastOf(i) = IF e = k THEN Nil ELSE data[s[e]]
<1>1. /\ count \in Nat /\ Linked(mem, s, count) /\ ~Sorting /\ alive /\ count' = count + 1
      /\ Linked(mem', t, count + 1) /\ ~Sorting' /\ iters' = iters /\ p \in Nodes
      /\ t = With(s, count, j, p) /\ data \in [Nodes -> Items \cup {Nil}]
      /\ data' = [data EXCEPT ![p] = x] /\ p \notin used
  <2>1. op = Idle /\ alive /\ ~Sorting
    BY IdleFacts DEF Free
  <2>2. iters' = iters /\ op' = op
    BY DEF NodeCreate
  <2>3. ~Sorting'
    BY <2>1, <2>2 DEF Sorting, Idle
  <2>4. /\ count' = count + 1 /\ t = With(s, count, j, p) /\ p \in Nodes /\ p \notin used
        /\ data' = [data EXCEPT ![p] = x] /\ Whole(t)'
    BY DEF Put
  <2>5. Linked(mem', t, count')
    BY <2>4 DEF Whole
  <2>6. count \in Nat /\ Linked(mem, s, count) /\ data \in [Nodes -> Items \cup {Nil}]
    BY DEF IndInv, TypeOK, Whole
  <2> QED
    BY <2>1, <2>2, <2>3, <2>4, <2>5, <2>6, Zenon
<1>2. PICK k \in 0..count, e \in 0..count : At(s, i, k, e)
  BY <1>1 DEF Shows, Placing
<1>3. Ahead(i, e) /\ Last(s, i, k, e)
  BY <1>1, <1>2 DEF Shows
<1>4. e \in {k, k + 1} /\ prev[i] = Field(s, k) /\ pos[i] = mem[Field(s, e)]
  BY <1>2 DEF At
<1> DEFINE k2 == FieldIn(j, k)
           e2 == PosIn(j, k, e)
<1>5. /\ k2 \in 0..count + 1 /\ e2 \in 0..count + 1 /\ e2 \in {k2, k2 + 1}
      /\ (IF Field(s, k) = Field(s, j) THEN p ELSE Field(s, k)) = Field(t, k2)
      /\ (IF Field(s, k) # Field(s, j) /\ mem[Field(s, e)] = mem[Field(s, j)] 
          THEN p ELSE mem[Field(s, e)]) = mem'[Field(t, e2)]
      /\ e2 = k2 <=> e = k
      /\ e = k + 1 => t[e2] = s[e]
  <2>1. count \in Nat
    BY <1>1
  <2>2. Linked(mem, s, count)
    BY <1>1
  <2>3. Linked(mem', t, count + 1)
    BY <1>1
  <2>4. t = With(s, count, j, p)
    BY <1>1
  <2>5. p \in Nodes
    BY <1>1
  <2>6. e \in {k, k + 1}
    BY <1>4
  <2> QED
    <3>1. MovedIn(count, s, j, p, mem, t, mem', k, e)
      BY <2>1, <2>2, <2>3, <2>4, <2>5, <2>6, AtIn, Zenon
    <3> QED
      BY <3>1, Zenon DEF MovedIn
<1> HIDE DEF k2, e2
<1>6. /\ prev'[i] = IF prev[i] = Field(s, j) THEN p ELSE prev[i]
      /\ pos'[i] = IF prev[i] # Field(s, j) /\ pos[i] = mem[Field(s, j)] THEN p ELSE pos[i]
  BY DEF Put, PrevAfterCreate, PosAfterCreate
<1>7. prev'[i] = Field(t, k2) /\ pos'[i] = mem'[Field(t, e2)]
  BY <1>4, <1>5, <1>6
<1>8. At(t, i, k2, e2)'
  BY <1>1, <1>5, <1>7 DEF At
<1>9. Ahead(i, e2)' /\ Last(t, i, k2, e2)'
  BY <1>1, <1>5, <1>8 DEF Shows
<1>10. Remaining(i) = count - e /\ Remaining(i)' = (count + 1) - e2
  BY <1>1, <1>3, <1>9 DEF Ahead
<1>11. /\ LastOf(i) = IF e = k THEN Nil ELSE data[s[e]]
       /\ LastOf(i)' = IF e2 = k2 THEN Nil ELSE data'[t[e2]]
  BY <1>3, <1>9 DEF Last
<1>12. LastOf(i)' = LastOf(i)
  <2>1. CASE e = k
    BY <1>5, <1>11, <2>1
  <2>2. CASE e # k
    <3>1. e = k + 1 /\ e \in 1..count /\ t[e2] = s[e] /\ e2 # k2
      BY <1>4, <1>5, <2>2
    <3>2. s[e] \in used
      BY <3>1 DEF Whole, Among
    <3>3. data'[s[e]] = data[s[e]]
      BY <1>1, <3>1, <3>2
    <3> QED
      BY <1>11, <2>2, <3>1, <3>3
  <2> QED
    BY <2>1, <2>2
<1> QED
  BY <1>2, <1>10, <1>11, <1>12 DEF e2

LEMMA PutIs ==
  ASSUME IndInv, Free, NEW s \in [1..count -> Nodes], Whole(s), NEW j \in 0..count,
         NEW x \in Items, NodeCreate(Field(s, j), x)
  PROVE  Log!InsertAfter(j, x)
<1>1. IndInv' /\ \E t, p : Put(s, t, j, x, p)
  BY CreateWhole
<1>2. PICK t, p : Put(s, t, j, x, p)
  BY <1>1
<1>3. /\ count' = count + 1 /\ alive /\ alive' /\ iters' = iters /\ ret' = x
      /\ ~Sorting /\ ~Sorting' /\ iters \subseteq Iters
  BY <1>2, IdleFacts DEF Put, NodeCreate, Free, Idle, Sorting, IndInv, TypeOK
<1>4. Shows(s)
  BY <1>3, Seen DEF View
<1>5. Shows(t)'
  BY <1>1, <1>2, <1>3, SeenNext DEF View, Put
<1>6. Contents \in Seq(Items) /\ Len(Contents) = count /\ count \in Nat
  BY <1>4, ContentsType
<1>7. Contents' = Log!InsertAt(Contents, j + 1, x)
  <2>1. Contents' = Along(t, count + 1, data')
    <3>1. Contents' = Along(t, count', data')
      BY <1>5, Zenon DEF Shows, Along
    <3> QED
      BY <1>3, <3>1
  <2>2. Contents = Along(s, count, data)
    BY <1>4 DEF Shows
  <2>3. t = With(s, count, j, p)
    BY <1>2 DEF Put
  <2>0. data' = Stored(data, p, x)
    BY <1>2 DEF Put, Stored
  <2>4. ~Among(s, count, p)
    BY <1>2 DEF Put, Whole
  <2>5. p \in Nodes
    BY <1>2 DEF Put
  <2>6. data \in [Nodes -> Items \cup {Nil}]
    BY DEF IndInv, TypeOK
  <2>7. count \in Nat
    BY <1>6
  <2>8. PutInto(s, t, count, data, data', j, x)
    BY <2>0, <2>3, <2>4, <2>5, <2>6, <2>7, ContentsIn, Zenon
  <2>9. Contents' = With(Contents, count, j, x)
    BY <2>1, <2>2, <2>8 DEF PutInto
  <2> QED
    BY <1>6, <2>9, InsertIs
<1> DEFINE A == [i \in Iters |-> Remaining(i)]
           L == [i \in Iters |-> LastOf(i)]
<1>8. ASSUME NEW i \in iters
      PROVE  \E k, e \in 0..count : 
               /\ e \in {k, k + 1}
               /\ Remaining(i) = count - e /\ Remaining(i)' = (count + 1) - PosIn(j, k, e)
               /\ LastOf(i)' = LastOf(i)
  BY <1>1, <1>2, <1>4, <1>5, IterPut DEF At
<1>9. A' \in [Iters -> 0..count + 1]
  <2>1. ASSUME NEW i \in Iters PROVE Remaining(i)' \in 0..count + 1
    <3>1. (IndInv /\ alive /\ ~Sorting /\ t \in [1..count -> Nodes] /\ Whole(t) /\ Shows(t))'
      BY <1>1, <1>2, <1>3, <1>5 DEF Put
    <3>2. CASE i \notin iters
      BY <1>3, <1>6, <3>2 DEF Remaining
    <3>3. CASE i \in iters
      BY <1>6, <1>8, <3>3 DEF PosIn, FieldIn
    <3> QED
      BY <3>2, <3>3
  <2> QED
    BY <2>1
<1>10. ASSUME NEW i \in iters
       PROVE  LET passed == Len(Contents) - A[i] IN
                /\ j < passed => A'[i] = A[i]
                /\ j = passed => A'[i] \in {A[i], A[i] + 1}
                /\ j > passed => A'[i] = A[i] + 1
  <2>1. A[i] = Remaining(i) /\ A'[i] = Remaining(i)'
    BY <1>3
  <2> HIDE DEF A
  <2>2. PICK k \in 0..count, e \in 0..count :
          e \in {k, k + 1} /\ A[i] = count - e /\ A'[i] = (count + 1) - PosIn(j, k, e)
    BY <1>8, <2>1
  <2>3. Len(Contents) - A[i] = e
    BY <1>6, <2>2
  <2>4. /\ j < e => A'[i] = A[i]
        /\ j = e => A'[i] \in {A[i], A[i] + 1}
        /\ j > e => A'[i] = A[i] + 1
    BY <1>6, <2>2 DEF PosIn, FieldIn
  <2> QED
    BY <2>3, <2>4
<1>11. L' = L
  <2>1. ASSUME NEW i \in Iters PROVE LastOf(i)' = LastOf(i)
    <3>1. CASE i \notin iters
      BY <1>3, <3>1 DEF LastOf
    <3>2. CASE i \in iters
      BY <1>8, <3>2
    <3> QED
      BY <3>1, <3>2
  <2> QED
    BY <2>1
<1>12. A' \in [Iters -> 0..Len(Contents) + 1]
  BY <1>6, <1>9
<1> HIDE DEF A, L
<1> QED
  <2>0. Sorting' = Sorting
    BY DEF NodeCreate, Sorting
  <2>1. UNCHANGED <<iters, L, Sorting>>
    BY <1>3, <1>11, <2>0
  <2> QED
    BY <1>3, <1>7, <1>10, <1>12, <2>1 DEF Log!InsertAfter, Log!Size, A, L

\* The iterators once a node is out.
IterAfterCut(s, i, j) == \E k, e \in 0..count : 
  /\ At(s, i, k, e)
  /\ Remaining(i) = count - e /\ Remaining(i)' = (count - 1) - PosOut(j, e)
  /\ LastOf(i) = IF e = k THEN Nil ELSE data[s[e]]
  /\ LastOf(i)' = IF e = k \/ e = j \/ k = j THEN Nil ELSE data[s[e]]

LEMMA IterCut ==
  ASSUME IndInv, IndInv', alive, ~Sorting, NEW s \in [1..count -> Nodes], Whole(s), Shows(s),
         NEW j \in 0..count - 1, NEW to, NodeDestroy(Field(s, j), to), op' = op,
         NEW t, Cut(s, t, j), Shows(t)', NEW i \in iters
  PROVE  IterAfterCut(s, i, j)
<1>1. /\ count \in Nat /\ Linked(mem, s, count) /\ count' = count - 1
      /\ Linked(mem', t, count - 1) /\ ~Sorting' /\ iters' = iters
      /\ t = Without(s, count, j) /\ data \in [Nodes -> Items \cup {Nil}]
      /\ data' = [data EXCEPT ![s[j + 1]] = Nil] /\ mem[Field(s, j)] = s[j + 1]
  <2>1. count \in Nat /\ Linked(mem, s, count) /\ data \in [Nodes -> Items \cup {Nil}]
    BY DEF IndInv, TypeOK, Whole
  <2>2. mem[Field(s, j)] = s[j + 1]
    <3>1. j \in 0..count /\ j # count
      BY <2>1
    <3> QED
      BY <2>1, <3>1 DEF Linked
  <2>3. iters' = iters /\ count' = count - 1 /\ data' = [data EXCEPT ![s[j + 1]] = Nil]
    BY <2>2 DEF NodeDestroy
  <2>4. ~Sorting'
    BY DEF Sorting
  <2>5. t = Without(s, count, j) /\ Whole(t)'
    BY DEF Cut
  <2>6. Linked(mem', t, count')
    BY <2>5 DEF Whole
  <2> QED
    BY <2>1, <2>2, <2>3, <2>4, <2>5, <2>6, Zenon
<1>2. PICK k \in 0..count, e \in 0..count : At(s, i, k, e)
  BY <1>1 DEF Shows, Placing
<1>3. Ahead(i, e) /\ Last(s, i, k, e)
  BY <1>1, <1>2 DEF Shows
<1>4. e \in {k, k + 1} /\ prev[i] = Field(s, k) /\ pos[i] = mem[Field(s, e)]
  BY <1>2 DEF At
<1> DEFINE k2 == FieldOut(j, k, e)
           e2 == PosOut(j, e)
           p == s[j + 1]
<1>5. /\ k2 \in 0..count - 1 /\ e2 \in 0..count - 1 /\ e2 \in {k2, k2 + 1}
      /\ (IF mem[Field(s, e)] = p \/ Field(s, k) = p THEN Field(s, j) ELSE Field(s, k)) =
           Field(t, k2)
      /\ (IF mem[Field(s, e)] = p THEN mem[p] ELSE mem[Field(s, e)]) = mem'[Field(t, e2)]
      /\ e2 = k2 <=> e = k \/ e = j \/ k = j
      /\ e2 # k2 => t[e2] = s[e]
  <2>1. count \in Nat
    BY <1>1
  <2>2. Linked(mem, s, count)
    BY <1>1
  <2>3. Linked(mem', t, count - 1)
    BY <1>1
  <2>4. t = Without(s, count, j)
    BY <1>1
  <2>6. e \in {k, k + 1}
    BY <1>4
  <2>7. MovedOut(count, s, j, s[j + 1], mem, t, mem', k, e)
    BY <2>1, <2>2, <2>3, <2>4, <2>6, AtOut, Zenon
  <2> QED
    BY <2>7, Zenon DEF MovedOut
<1> HIDE DEF k2, e2
<1>6. /\ prev'[i] = IF pos[i] = p \/ prev[i] = p THEN Field(s, j) ELSE prev[i]
      /\ pos'[i] = IF pos[i] = p THEN mem[p] ELSE pos[i]
  <2>1. i \in Iters
    BY DEF IndInv, TypeOK
  <2> QED
    BY <1>1, <2>1 DEF NodeDestroy, PrevAfterDestroy, PosAfterDestroy
<1> HIDE DEF p
<1>7. prev'[i] = Field(t, k2) /\ pos'[i] = mem'[Field(t, e2)]
  BY <1>4, <1>5, <1>6
<1>8. At(t, i, k2, e2)'
  BY <1>1, <1>5, <1>7 DEF At
<1>9. Ahead(i, e2)' /\ Last(t, i, k2, e2)'
  BY <1>1, <1>5, <1>8 DEF Shows
<1>10. Remaining(i) = count - e /\ Remaining(i)' = (count - 1) - e2
  BY <1>1, <1>3, <1>9 DEF Ahead
<1>11. /\ LastOf(i) = IF e = k THEN Nil ELSE data[s[e]]
       /\ LastOf(i)' = IF e2 = k2 THEN Nil ELSE data'[t[e2]]
  BY <1>3, <1>9 DEF Last
<1>12. LastOf(i)' = IF e = k \/ e = j \/ k = j THEN Nil ELSE data[s[e]]
  <2>1. CASE e2 = k2
    BY <1>5, <1>11, <2>1
  <2>2. CASE e2 # k2
    <3>1. ~(e = k \/ e = j \/ k = j) /\ t[e2] = s[e] /\ e \in 1..count /\ j + 1 \in 1..count /\ e # j + 1
      BY <1>1, <1>4, <1>5, <2>2
    <3>2. s[e] # s[j + 1] /\ s[e] \in Nodes
      BY <1>1, <3>1 DEF Linked
    <3>3. data'[s[e]] = data[s[e]]
      BY <1>1, <3>2
    <3> QED
      BY <1>11, <2>2, <3>1, <3>3
  <2> QED
    BY <2>1, <2>2
<1> QED
  BY <1>2, <1>10, <1>11, <1>12 DEF e2, IterAfterCut

LEMMA CutIs ==
  ASSUME IndInv, OwnInv, alive, ~Sorting, NEW s \in [1..count -> Nodes], Whole(s),
         NEW j \in 0..count - 1, NEW to \in {"caller", "freed"},
         op.name = "delete_all" => op.pp = Field(s, j),
         NodeDestroy(Field(s, j), to), op' = op, ret' \in Items \cup {Nil}
  PROVE  Log!RemoveFrom(j + 1)
<1>1. IndInv' /\ \E t : Cut(s, t, j)
  BY DestroyWhole
<1>2. PICK t : Cut(s, t, j)
  BY <1>1
<1>3. count' = count - 1 /\ alive' /\ iters' = iters /\ ~Sorting' /\ iters \subseteq Iters
  BY <1>2 DEF Cut, NodeDestroy, Sorting, IndInv, TypeOK
<1>4. Shows(s)
  BY Seen DEF View
<1>5. Shows(t)'
  BY <1>1, <1>2, <1>3, SeenNext DEF View, Cut
<1>6. Contents \in Seq(Items) /\ Len(Contents) = count /\ count \in Nat /\ count - 1 \in Nat
  BY <1>4, ContentsType
<1>7. Contents' = Log!RemoveAt(Contents, j + 1)
  <2>1. Contents' = Along(t, count - 1, data')
    <3>1. Contents' = Along(t, count', data')
      BY <1>5, Zenon DEF Shows, Along
    <3> QED
      BY <1>3, <3>1
  <2>2. Contents = Along(s, count, data)
    BY <1>4 DEF Shows
  <2>3. t = Without(s, count, j)
    BY <1>2 DEF Cut
  <2>4. Linked(mem, s, count)
    BY DEF Whole
  <2>5. data' = Stored(data, s[j + 1], Nil)
    <3>1. j \in 0..count /\ j # count
      BY <1>6
    <3>2. mem[Field(s, j)] = s[j + 1]
      BY <2>4, <3>1 DEF Linked
    <3> QED
      BY <3>2 DEF NodeDestroy, Stored
  <2>6. data \in [Nodes -> Items \cup {Nil}]
    BY DEF IndInv, TypeOK
  <2>7. count \in Nat
    BY <1>6
  <2>8. CutFrom(s, t, count, data, data', j)
    BY <2>3, <2>4, <2>5, <2>6, <2>7, ContentsOut, Zenon
  <2>9. Contents' = Without(Contents, count, j)
    BY <2>1, <2>2, <2>8 DEF CutFrom
  <2> QED
    BY <1>6, <2>9, RemoveIs
<1> DEFINE A == [i \in Iters |-> Remaining(i)]
           L == [i \in Iters |-> LastOf(i)]
<1>8. ASSUME NEW i \in iters
      PROVE  \E k, e \in 0..count : 
               /\ e \in {k, k + 1}
               /\ Remaining(i) = count - e /\ Remaining(i)' = (count - 1) - PosOut(j, e)
               /\ LastOf(i) = IF e = k THEN Nil ELSE data[s[e]]
               /\ LastOf(i)' = IF e = k \/ e = j \/ k = j THEN Nil ELSE data[s[e]]
  <2>1. IndInv'
    BY <1>1
  <2>2. IterAfterCut(s, i, j)
    BY <1>2, <1>4, <1>5, <2>1, IterCut, Zenon
  <2> QED
    BY <2>2 DEF IterAfterCut, At
<1>9. A' \in [Iters -> 0..Len(Contents)] /\ L' \in [Iters -> Items \cup {Nil}]
  <2>1. \A i \in Iters : Remaining(i)' \in 0..count' /\ LastOf(i)' \in Items \cup {Nil}
    BY <1>1, <1>3, InRangeNext DEF Ranges
  <2>2. \A i \in Iters : Remaining(i)' \in 0..Len(Contents)
    BY <1>3, <1>6, <2>1
  <2> QED
    BY <2>1, <2>2
<1>10. ASSUME NEW i \in iters
       PROVE  LET first == Len(Contents) - A[i] + 1 IN
                /\ A'[i] = IF j + 1 < first THEN A[i] ELSE A[i] - 1
                /\ L'[i] = IF L[i] = Contents[j + 1] \/ j + 1 = first THEN Nil ELSE L[i]
  <2>1. A[i] = Remaining(i) /\ A'[i] = Remaining(i)' /\ L[i] = LastOf(i) /\ L'[i] = LastOf(i)'
    BY <1>3
  <2> HIDE DEF A, L
  <2>2. PICK k \in 0..count, e \in 0..count :
          /\ e \in {k, k + 1} /\ A[i] = count - e /\ A'[i] = (count - 1) - PosOut(j, e)
          /\ L[i] = IF e = k THEN Nil ELSE data[s[e]]
          /\ L'[i] = IF e = k \/ e = j \/ k = j THEN Nil ELSE data[s[e]]
    BY <1>8, <2>1
  <2>3. (Len(Contents) - A[i]) + 1 = e + 1
    BY <1>6, <2>2
  <2>4. A'[i] = IF j + 1 < e + 1 THEN A[i] ELSE A[i] - 1
    BY <1>6, <2>2 DEF PosOut
  <2>5. j + 1 \in 1..count /\ Contents[j + 1] = data[s[j + 1]] /\ s[j + 1] \in used
        /\ data[s[j + 1]] # Nil
    <3>1. j + 1 \in 1..count
      BY <1>6
    <3>2. Contents[j + 1] = data[s[j + 1]] /\ s[j + 1] \in used
      BY <1>4, <3>1, ContentsType
    <3> QED
      BY <3>1, <3>2, ListAssumption DEF IndInv
  <2>6. L'[i] = IF L[i] = Contents[j + 1] \/ j + 1 = e + 1 THEN Nil ELSE L[i]
    <3>1. CASE e = k
      BY <2>2, <2>5, <3>1
    <3>2. CASE e # k /\ e = j + 1
      <4>1. k = j /\ L'[i] = Nil /\ L[i] = data[s[j + 1]]
        BY <2>2, <3>2
      <4> QED
        BY <2>5, <4>1
    <3>3. CASE e # k /\ e # j + 1
      <4>1. e \in 1..count /\ k # j
        BY <2>2, <3>3
      <4>2. s[e] \in used /\ s[e] # s[j + 1]
        BY <2>5, <3>3, <4>1 DEF Whole, Linked, Among
      <4>3. L[i] = data[s[e]] /\ data[s[e]] # data[s[j + 1]]
        BY <2>2, <2>5, <3>3, <4>2 DEF OwnInv
      <4>4. L'[i] = IF e = j THEN Nil ELSE L[i]
        BY <2>2, <3>3, <4>1, <4>3
      <4>5. L[i] # Contents[j + 1]
        BY <2>5, <4>3
      <4>6. j + 1 = e + 1 <=> e = j
        OBVIOUS
      <4> QED
        BY <4>4, <4>5, <4>6
    <3> QED
      BY <3>1, <3>2, <3>3
  <2> QED
    BY <2>3, <2>4, <2>6
<1> HIDE DEF A, L
<1> QED
  <2>0. Sorting' = Sorting
    BY DEF Sorting
  <2>1. UNCHANGED <<iters, Sorting>>
    BY <1>3, <2>0
  <2> QED
    BY <1>7, <1>9, <1>10, <2>1 DEF Log!RemoveFrom, Log!Forgets, Log!Size, A, L

----------------------------------------------------------------------------
(* The order a sort makes. *)

Before(s, h, i) == Key[data[s[h]]] <= Key[data[s[i]]]

\* Inductive, with IndInv: up to the field pp the nodes are in order, and the node in pp
\* goes behind all those that the search for its place has passed.
Ordered(s) == \A j \in 1..count : op.pp = Field(s, j) =>
  /\ \A h, i \in 1..j : h <= i => Before(s, h, i)
  /\ op.name = "place" => 
       \A k \in 0..j - 1 : op.at = Field(s, k) => \A h \in 1..k : Before(s, h, j + 1)

OrderInv == Sorting => \A s \in [1..count -> Nodes] : Linked(mem, s, count) => Ordered(s)

LEMMA SameField ==
  ASSUME NEW n \in Nat, NEW s \in [1..n -> Nodes], NEW m, Linked(m, s, n),
         NEW k \in 0..n, NEW l \in 0..n, Field(s, k) = Field(s, l)
  PROVE  k = l
  BY FieldFacts

LEMMA TheChain ==
  ASSUME IndInv, alive, NEW s \in [1..count -> Nodes], Linked(mem, s, count)
  PROVE  Whole(s) /\ \A k \in 1..count : data[s[k]] \in Items /\ Key[data[s[k]]] \in Nat
<1>1. PICK t \in [1..count -> Nodes] : Whole(t)
  BY DEF IndInv
<1>2. count \in Nat /\ Linked(mem, t, count)
  BY <1>1 DEF IndInv, TypeOK, Whole
<1>3. s = t
  BY <1>2, OneChain
<1>4. \A k \in 1..count : data[s[k]] \in Items
  BY <1>1, <1>3 DEF Whole, Among, IndInv
<1> QED
  BY <1>1, <1>3, <1>4, ListAssumption

\* What the fields of the sort's loop say of the chain.
LEMMA SortPointers ==
  ASSUME IndInv, Sorting, NEW s \in [1..count -> Nodes], Linked(mem, s, count)
  PROVE  /\ alive /\ count \in Nat
         /\ \E j \in 1..count : 
              /\ op.pp = Field(s, j) /\ op.back = Field(s, j - 1)
              /\ op.name = "place" => j < count /\ \E k \in 0..j - 1 : op.at = Field(s, k)
<1>1. op # Idle
  BY DEF Sorting, Idle
<1>2. alive /\ count \in Nat
  BY <1>1 DEF IndInv, TypeOK
<1>3. Whole(s)
  BY <1>2, TheChain
<1> QED
  BY <1>2, <1>3 DEF Whole, Loop

\* The key of the item in the node after a field.
LEMMA KeyThere ==
  ASSUME NEW s \in [1..count -> Nodes], Linked(mem, s, count), count \in Nat, 
         NEW k \in 0..count - 1
  PROVE  KeyAt(Field(s, k)) = Key[data[s[k + 1]]]
<1>1. mem[Field(s, k)] = s[k + 1]
  BY DEF Linked
<1> QED
  BY <1>1 DEF KeyAt

LEMMA AdvanceOrder ==
  ASSUME IndInv, OrderInv, SortAdvance, NEW s \in [1..count -> Nodes], Linked(mem, s, count)
  PROVE  Ordered(s)'
<1>1. op.name = "sort" /\ mem[op.pp] # Nil /\ UNCHANGED <<mem, data, count>> /\ Sorting
  BY DEF SortAdvance, chain, Sorting
<1>2. PICK j \in 1..count : op.pp = Field(s, j) /\ op.back = Field(s, j - 1)
  BY <1>1, SortPointers
<1>3. alive /\ count \in Nat
  BY <1>1, SortPointers
<1>4. j < count /\ mem[op.pp] = s[j + 1] /\ s[j + 1] = Field(s, j + 1)
  BY <1>1, <1>2, <1>3 DEF Linked, Field
<1>5. \A h, i \in 1..j : h <= i => Before(s, h, i)
  BY <1>1, <1>2 DEF OrderInv, Ordered
<1>6. CASE KeyAt(op.pp) < KeyAt(op.back)
  <2>1. op' = [op EXCEPT !.name = "place", !.at = HeadPtr]
    BY <1>6 DEF SortAdvance
  <2>2. op'.pp = Field(s, j) /\ op'.at = Field(s, 0)
    BY <1>2, <2>1 DEF IndInv, TypeOK, Field
  <2>3. ASSUME NEW i \in 1..count, op'.pp = Field(s, i) PROVE i = j
    <3>1. i \in 0..count /\ j \in 0..count /\ Field(s, i) = Field(s, j)
      BY <2>2, <2>3
    <3> QED
      BY <1>3, <3>1, SameField
  <2>4. ASSUME NEW k \in 0..j - 1, op'.at = Field(s, k) PROVE 1..k = {}
    <3>1. k = 0
      BY <1>3, <2>2, <2>4, FieldFacts
    <3> QED
      BY <3>1
  <2> QED
    BY <1>1, <1>5, <2>3, <2>4 DEF Ordered, Before
<1>7. CASE ~(KeyAt(op.pp) < KeyAt(op.back))
  <2>1. op' = [op EXCEPT !.back = op.pp, !.pp = mem[op.pp]]
    BY <1>7 DEF SortAdvance
  <2>2. op'.pp = Field(s, j + 1) /\ op'.name = "sort" /\ j + 1 \in 0..count
    BY <1>1, <1>4, <2>1 DEF IndInv, TypeOK
  <2>3. ASSUME NEW i \in 1..count, op'.pp = Field(s, i) PROVE i = j + 1
    BY <1>3, <2>2, <2>3, FieldFacts
  <2>4. Before(s, j, j + 1)
    <3>1. j - 1 \in 0..count - 1 /\ j \in 0..count - 1 /\ (j - 1) + 1 = j
      BY <1>3, <1>4
    <3>2. KeyAt(op.pp) = Key[data[s[j + 1]]]
      BY <1>2, <1>3, <3>1, KeyThere
    <3>3. KeyAt(op.back) = Key[data[s[(j - 1) + 1]]]
      BY <1>2, <1>3, <3>1, KeyThere, Zenon
    <3>4. Key[data[s[j + 1]]] \in Nat /\ Key[data[s[j]]] \in Nat
      BY <1>3, <1>4, TheChain
    <3> QED
      BY <1>7, <3>1, <3>2, <3>3, <3>4 DEF Before
  <2>5. ASSUME NEW h \in 1..j + 1, NEW i \in 1..j + 1, h <= i PROVE Before(s, h, i)
    <3>1. \A k \in 1..j + 1 : Key[data[s[k]]] \in Nat
      BY <1>3, <1>4, TheChain
    <3>2. CASE i <= j
      BY <1>5, <2>5, <3>2
    <3>3. CASE h = j + 1
      BY <2>5, <3>1, <3>3 DEF Before
    <3>4. CASE i = j + 1 /\ h <= j
      <4>1. Before(s, h, j)
        BY <1>5, <3>4
      <4> QED
        BY <2>4, <3>1, <3>4, <4>1 DEF Before
    <3> QED
      BY <2>5, <3>2, <3>3, <3>4
  <2> QED
    BY <1>1, <2>2, <2>3, <2>5 DEF Ordered, Before
<1> QED
  BY <1>6, <1>7

LEMMA SeekOrder ==
  ASSUME IndInv, OrderInv, SortSeek, NEW s \in [1..count -> Nodes], Linked(mem, s, count)
  PROVE  Ordered(s)'
<1>1. /\ op.name = "place" /\ op' = [op EXCEPT !.at = mem[op.at]] 
      /\ UNCHANGED <<mem, data, count>> /\ Sorting
  BY DEF SortSeek, chain, Sorting
<1>2. alive /\ count \in Nat
  BY <1>1, SortPointers
<1>3. PICK j \in 1..count : op.pp = Field(s, j) /\ j < count /\ \E k \in 0..j - 1 : op.at = Field(s, k)
  BY <1>1, SortPointers
<1>4. PICK k \in 0..j - 1 : op.at = Field(s, k)
  BY <1>3
<1>5. /\ \A h, i \in 1..j : h <= i => Before(s, h, i)
      /\ \A h \in 1..k : Before(s, h, j + 1)
  BY <1>1, <1>3, <1>4 DEF OrderInv, Ordered
<1>6. mem[op.at] = s[k + 1] /\ s[k + 1] = Field(s, k + 1) /\ k + 1 \in 0..count
  BY <1>2, <1>3, <1>4 DEF Linked, Field
<1>7. op'.pp = Field(s, j) /\ op'.at = Field(s, k + 1) /\ op'.name = "place"
  BY <1>1, <1>3, <1>6 DEF IndInv, TypeOK
<1>8. Before(s, k + 1, j + 1)
  <2>1. KeyAt(op.pp) >= KeyAt(op.at)
    BY DEF SortSeek, GoesBeyond
  <2>2. KeyAt(op.pp) = Key[data[s[j + 1]]] /\ KeyAt(op.at) = Key[data[s[k + 1]]]
    <3>1. j \in 0..count - 1 /\ k \in 0..count - 1
      BY <1>2, <1>3
    <3> QED
      BY <1>2, <1>3, <1>4, <3>1, KeyThere
  <2>3. Key[data[s[j + 1]]] \in Nat /\ Key[data[s[k + 1]]] \in Nat
    <3>1. j + 1 \in 1..count /\ k + 1 \in 1..count
      BY <1>2, <1>3
    <3> QED
      BY <1>2, <3>1, TheChain
  <2> QED
    BY <2>1, <2>2, <2>3 DEF Before
<1>9. ASSUME NEW i \in 1..count, op'.pp = Field(s, i) PROVE i = j
  <2>1. i \in 0..count /\ j \in 0..count /\ Field(s, i) = Field(s, j)
    BY <1>7, <1>9
  <2> QED
    BY <1>2, <2>1, SameField
<1>10. \A i \in 0..j - 1 : op'.at = Field(s, i) => i = k + 1
  BY <1>2, <1>3, <1>6, <1>7, FieldFacts
<1>11. \A h \in 1..k + 1 : Before(s, h, j + 1)
  BY <1>5, <1>8
<1> QED
  BY <1>1, <1>5, <1>9, <1>10, <1>11 DEF Ordered, Before

\* Which node is at h once the node at j + 1 has moved to after the first k.
From(j, k, h) == IF h <= k THEN h ELSE IF h = k + 1 THEN j + 1 ELSE IF h <= j + 1 THEN h - 1 ELSE h

LEMMA MovedFrom ==
  ASSUME NEW n \in Nat, NEW s, NEW j \in 0..n - 1, NEW k \in 0..j, NEW h \in 1..n
  PROVE  With(Without(s, n, j), n - 1, k, s[j + 1])[h] = s[From(j, k, h)] /\ From(j, k, h) \in 1..n
<1>1. (n - 1) + 1 = n /\ From(j, k, h) \in 1..n
  BY DEF From
<1>u. PICK u : u = Without(s, n, j)
  OBVIOUS
<1>2. \A i \in 1..n - 1 : u[i] = IF i <= j THEN s[i] ELSE s[i + 1]
  BY <1>u DEF Without
<1>w. PICK w : w = With(u, n - 1, k, s[j + 1])
  OBVIOUS
<1>3. w[h] = IF h <= k THEN u[h] ELSE IF h = k + 1 THEN s[j + 1] ELSE u[h - 1]
  <2>1. h \in 1..(n - 1) + 1
    BY <1>1
  <2> QED
    BY <1>w, <2>1 DEF With
<1>4. CASE h <= k
  <2>1. h \in 1..n - 1 /\ h <= j /\ From(j, k, h) = h
    BY <1>4 DEF From
  <2>2. u[h] = s[h]
    BY <1>2, <2>1
  <2>3. w[h] = s[From(j, k, h)]
    BY <1>3, <1>4, <2>1, <2>2
  <2> QED
    BY <1>1, <1>u, <1>w, <2>3
<1>5. CASE h = k + 1
  <2>1. From(j, k, h) = j + 1 /\ ~(h <= k)
    BY <1>5 DEF From
  <2>2. w[h] = s[From(j, k, h)]
    BY <1>3, <1>5, <2>1
  <2> QED
    BY <1>1, <1>u, <1>w, <2>2
<1>6. CASE h > k + 1
  <2>1. h - 1 \in 1..n - 1 /\ ~(h <= k) /\ h # k + 1 /\ (h - 1) + 1 = h
    BY <1>6
  <2>2. w[h] = u[h - 1]
    BY <1>3, <2>1
  <2>3. u[h - 1] = IF h - 1 <= j THEN s[h - 1] ELSE s[(h - 1) + 1]
    BY <1>2, <2>1
  <2>4. w[h] = s[From(j, k, h)]
    BY <2>1, <2>2, <2>3 DEF From
  <2> QED
    BY <1>1, <1>u, <1>w, <2>4
<1> QED
  BY <1>4, <1>5, <1>6

\* A node that is placed goes ahead of greater ones only.
LEMMA PlaceFacts ==
  ASSUME IndInv, OrderInv, SortPlace, NEW s \in [1..count -> Nodes], Whole(s),
         NEW t, NEW j \in 1..count, NEW k \in 0..j - 1, Move(s, t, j, k)
  PROVE  /\ count \in Nat /\ alive /\ j < count /\ op.pp = Field(s, j)
         /\ \A h \in 1..count : data[s[h]] \in Items /\ Key[data[s[h]]] \in Nat
         /\ \A h, i \in 1..j : h <= i => Key[data[s[h]]] <= Key[data[s[i]]]
         /\ \A h \in 1..k : Key[data[s[h]]] <= Key[data[s[j + 1]]]
         /\ \A h \in k + 1..j : Key[data[s[j + 1]]] < Key[data[s[h]]]
<1>1. op.name = "place" /\ Sorting /\ Linked(mem, s, count)
  BY DEF SortPlace, Sorting, Whole
<1>2. count \in Nat /\ alive
  BY <1>1, SortPointers
<1>3. op.pp = Field(s, j) /\ op.at = Field(s, k) /\ j < count
  BY DEF Move
<1>4. Ordered(s)
  BY <1>1 DEF OrderInv
<1>5. /\ \A h, i \in 1..j : h <= i => Key[data[s[h]]] <= Key[data[s[i]]]
      /\ \A h \in 1..k : Key[data[s[h]]] <= Key[data[s[j + 1]]]
  BY <1>1, <1>3, <1>4 DEF Ordered, Before
<1>6. \A h \in 1..count : data[s[h]] \in Items /\ Key[data[s[h]]] \in Nat
  BY <1>1, <1>2, TheChain
<1>7. Key[data[s[j + 1]]] < Key[data[s[k + 1]]]
  <2>1. j \in 0..count - 1 /\ k \in 0..count - 1
    BY <1>2, <1>3
  <2>2. KeyAt(op.pp) = Key[data[s[j + 1]]] /\ KeyAt(op.at) = Key[data[s[k + 1]]]
    BY <1>1, <1>2, <1>3, <2>1, KeyThere
  <2>3. ~(KeyAt(op.pp) >= KeyAt(op.at))
    BY DEF SortPlace, GoesBeyond
  <2>4. Key[data[s[j + 1]]] \in Nat /\ Key[data[s[k + 1]]] \in Nat
    BY <1>2, <1>6, <2>1
  <2> QED
    BY <2>2, <2>3, <2>4
<1>8. ASSUME NEW h \in k + 1..j PROVE Key[data[s[j + 1]]] < Key[data[s[h]]]
  <2>1. k + 1 \in 1..j /\ h \in 1..j /\ k + 1 <= h /\ j + 1 \in 1..count /\ k + 1 \in 1..count
        /\ h \in 1..count
    BY <1>2, <1>3
  <2>2. Key[data[s[k + 1]]] <= Key[data[s[h]]]
    BY <1>5, <2>1
  <2>3. /\ Key[data[s[j + 1]]] \in Nat /\ Key[data[s[k + 1]]] \in Nat /\ Key[data[s[h]]] \in Nat
    BY <1>6, <2>1
  <2> QED
    BY <1>7, <2>2, <2>3
<1> QED
  BY <1>2, <1>3, <1>5, <1>6, <1>8

LEMMA PlaceOrder ==
  ASSUME IndInv, OrderInv, SortPlace, NEW r \in [1..count -> Nodes], Linked(mem', r, count)
  PROVE  Ordered(r)'
<1>1. op.name = "place" /\ Sorting /\ UNCHANGED <<data, count>>
  BY DEF SortPlace, Sorting
<1>2. alive /\ op # Idle
  BY <1>1 DEF Idle, IndInv
<1>3. PICK s \in [1..count -> Nodes] : Whole(s)
  BY <1>2 DEF IndInv
<1>t. PICK t : \E j \in 1..count : \E k \in 0..j - 1 : Move(s, t, j, k)
  BY <1>3, PlaceWhole
<1>j. PICK j \in 1..count : \E k \in 0..j - 1 : Move(s, t, j, k)
  BY <1>t
<1>4. PICK k \in 0..j - 1 : Move(s, t, j, k)
  BY <1>j
<1>5. /\ count \in Nat /\ j < count
      /\ \A h \in 1..count : Key[data[s[h]]] \in Nat
      /\ \A h, i \in 1..j : h <= i => Key[data[s[h]]] <= Key[data[s[i]]]
      /\ \A h \in 1..k : Key[data[s[h]]] <= Key[data[s[j + 1]]]
      /\ \A h \in k + 1..j : Key[data[s[j + 1]]] < Key[data[s[h]]]
  BY <1>3, <1>4, PlaceFacts
<1>6. /\ t = With(Without(s, count, j), count - 1, k, s[j + 1])
      /\ t \in [1..count -> Nodes] /\ Linked(mem', t, count)
      /\ op'.pp = Field(t, j + 1) /\ op'.name = "sort"
  BY <1>4 DEF Move
<1>7. r = t
  <2>1. count \in Nat
    BY <1>5
  <2>2. t \in [1..count -> Nodes]
    BY <1>6
  <2>3. Linked(mem', t, count)
    BY <1>6
  <2> QED
    BY <2>1, <2>2, <2>3, OneChain, Zenon
<1>8. ASSUME NEW h \in 1..count PROVE t[h] = s[From(j, k, h)] /\ From(j, k, h) \in 1..count
  <2>1. j \in 0..count - 1 /\ k \in 0..j
    BY <1>5
  <2> QED
    BY <1>5, <1>6, <2>1, MovedFrom
<1>9. ASSUME NEW h \in 1..j + 1, NEW i \in 1..j + 1, h <= i
      PROVE  Key[data[t[h]]] <= Key[data[t[i]]]
  <2>1. h \in 1..count /\ i \in 1..count /\ j + 1 \in 1..count
    BY <1>5
  <2>2. t[h] = s[From(j, k, h)] /\ t[i] = s[From(j, k, i)]
    BY <1>8, <2>1
  <2>3. \A e \in 1..count : Key[data[s[e]]] \in Nat
    BY <1>5
  <2>4. CASE h <= k /\ i <= k
    BY <1>5, <1>9, <2>2, <2>4 DEF From
  <2>5. CASE h <= k /\ i = k + 1
    BY <1>5, <2>2, <2>5 DEF From
  <2>6. CASE h <= k /\ i > k + 1
    <3>1. From(j, k, h) = h /\ From(j, k, i) = i - 1 /\ i - 1 \in 1..j /\ h \in 1..j /\ h <= i - 1
      BY <2>6 DEF From
    <3> QED
      BY <1>5, <2>2, <3>1
  <2>7. CASE h = k + 1 /\ i = k + 1
    BY <2>1, <2>2, <2>3, <2>7 DEF From
  <2>8. CASE h = k + 1 /\ i > k + 1
    <3>1. From(j, k, h) = j + 1 /\ From(j, k, i) = i - 1 /\ i - 1 \in k + 1..j /\ i - 1 \in 1..count
      BY <1>5, <2>8 DEF From
    <3>2. Key[data[s[j + 1]]] < Key[data[s[i - 1]]]
      BY <1>5, <3>1
    <3>3. Key[data[s[j + 1]]] \in Nat /\ Key[data[s[i - 1]]] \in Nat
      BY <2>1, <2>3, <3>1
    <3> QED
      BY <2>2, <3>1, <3>2, <3>3
  <2>9. CASE h > k + 1
    <3>1. /\ From(j, k, h) = h - 1 /\ From(j, k, i) = i - 1 /\ i - 1 \in 1..j /\ h - 1 \in 1..j
          /\ h - 1 <= i - 1
      BY <1>9, <2>9 DEF From
    <3> QED
      BY <1>5, <2>2, <3>1
  <2> QED
    BY <1>9, <2>4, <2>5, <2>6, <2>7, <2>8, <2>9
<1>10. ASSUME NEW i \in 1..count, op'.pp = Field(t, i) PROVE i = j + 1
  <2>1. i \in 0..count /\ j + 1 \in 0..count /\ Field(t, i) = Field(t, j + 1) /\ count \in Nat
    BY <1>5, <1>6, <1>10
  <2> QED
    BY <1>6, <2>1, SameField
<1>11. Ordered(t)'
  BY <1>1, <1>6, <1>9, <1>10 DEF Ordered, Before
<1> QED
  BY <1>7, <1>11

LEMMA OrderStep == IndInv /\ OrderInv /\ [Next]_vars => OrderInv'
<1> SUFFICES ASSUME IndInv, OrderInv, [Next]_vars, Sorting',
                    NEW s \in [1..count' -> Nodes], Linked(mem', s, count')
             PROVE  Ordered(s)'
  BY DEF OrderInv
<1>1. CASE UNCHANGED <<mem, data, count, op>>
  BY <1>1 DEF OrderInv, Ordered, Before, Sorting
<1>2. CASE Sort
  <2>1. Free /\ UNCHANGED <<mem, data, count>> /\ alive /\ ~Sorting
    BY <1>2, IdleFacts DEF Sort, chain, Free
  <2>2. op' = [Idle EXCEPT !.name = "sort", !.pp = mem[HeadPtr]] /\ count > 1
    <3>1. op' # op
      BY <2>1 DEF Sorting
    <3> QED
      BY <1>2, <3>1 DEF Sort
  <2>3. count \in Nat /\ s \in [1..count -> Nodes] /\ Linked(mem, s, count)
    BY <2>1 DEF IndInv, TypeOK
  <2>4. op'.name = "sort" /\ op'.pp = Field(s, 1)
    BY <2>2, <2>3 DEF Linked, Field, Idle
  <2>5. ASSUME NEW i \in 1..count, op'.pp = Field(s, i) PROVE i = 1
    <3>1. i \in 0..count /\ 1 \in 0..count /\ Field(s, i) = Field(s, 1)
      BY <2>2, <2>3, <2>4, <2>5
    <3> QED
      BY <2>3, <3>1, SameField
  <2>6. \A h, i \in 1..1 : Key[data[s[h]]] <= Key[data[s[i]]]
    <3>1. 1 \in 1..count
      BY <2>2, <2>3
    <3>2. Key[data[s[1]]] \in Nat
      BY <2>1, <2>3, <3>1, TheChain
    <3> QED
      BY <3>2
  <2> QED
    BY <2>1, <2>4, <2>5, <2>6 DEF Ordered, Before
<1>3. CASE SortAdvance
  <2>1. count' = count /\ mem' = mem
    BY <1>3 DEF SortAdvance, chain
  <2> QED
    BY <1>3, <2>1, AdvanceOrder
<1>4. CASE SortSeek
  <2>1. count' = count /\ mem' = mem
    BY <1>4 DEF SortSeek, chain
  <2> QED
    BY <1>4, <2>1, SeekOrder
<1>5. CASE SortPlace
  <2>1. count' = count
    BY <1>5 DEF SortPlace
  <2> QED
    BY <1>5, <2>1, PlaceOrder
<1>6. CASE SortEnd
  BY <1>6 DEF SortEnd, Sorting, Idle
<1>7. ASSUME NEW k \in Keys, DeleteAll(k) PROVE FALSE
  BY <1>7 DEF DeleteAll, Sorting, Idle
<1>8. CASE DeleteAllStep
  BY <1>8 DEF DeleteAllStep, Sorting, Idle, IndInv, TypeOK
<1>9. ASSUME op' = op, op = Idle PROVE FALSE
  BY <1>9 DEF Sorting, Idle
<1>10. CASE ListCreate
  BY <1>9, <1>10 DEF ListCreate, IndInv
<1>11. CASE ListDestroy \/ ListPop
  BY <1>9, <1>11 DEF ListDestroy, ListPop, Free, ReturnsNull
<1>12. ASSUME NEW x \in Items,
              ListAppend(x) \/ ListPrepend(x) \/ \E i \in Iters : ListInsert(i, x)
       PROVE  FALSE
  BY <1>9, <1>12 DEF ListAppend, ListPrepend, ListInsert, NodeCreate, ReturnsNull, Free
<1>13. ASSUME NEW i \in Iters, 
              \/ IteratorCreate(i) \/ IteratorReset(i) \/ IteratorDestroy(i) \/ ListNext(i)
              \/ \E to \in {"caller", "freed"} : ListRemove(i, to)
       PROVE  FALSE
  BY <1>9, <1>13 DEF IteratorCreate, IteratorReset, IteratorDestroy, ListNext, ListRemove,
                     ReturnsNull, Free
<1>14. CASE UNCHANGED vars
  BY <1>1, <1>14 DEF vars
<1> QED
  BY <1>2, <1>3, <1>4, <1>5, <1>6, <1>7, <1>8, <1>10, <1>11, <1>12, <1>13, <1>14 DEF Next

LEMMA ShiftIs ==
  ASSUME IndInv, OrderInv, SortPlace PROVE Log!Shift
<1>1. op.name = "place" /\ Sorting /\ UNCHANGED <<data, count, iters, ret>> /\ Sorting' /\ alive'
  <2>1. op' = [op EXCEPT !.name = "sort", !.back = IF @ = op.at THEN mem[op.pp] ELSE @]
    BY DEF SortPlace
  <2>2. op'.name = "sort" /\ op # Idle /\ op.name = "place"
    BY <2>1 DEF IndInv, TypeOK, SortPlace, Idle
  <2> QED
    BY <2>2 DEF SortPlace, Sorting, cursors, IndInv
<1>2. alive /\ op # Idle
  BY <1>1 DEF Idle, IndInv
<1>3. PICK s \in [1..count -> Nodes] : Whole(s)
  BY <1>2 DEF IndInv
<1>t. IndInv' /\ \E t : \E j \in 1..count : \E k \in 0..j - 1 : Move(s, t, j, k)
  BY <1>3, PlaceWhole
<1>u. PICK t : \E j \in 1..count : \E k \in 0..j - 1 : Move(s, t, j, k)
  BY <1>t
<1>j. PICK j \in 1..count : \E k \in 0..j - 1 : Move(s, t, j, k)
  BY <1>u
<1>4. PICK k \in 0..j - 1 : Move(s, t, j, k)
  BY <1>j
<1>5. /\ count \in Nat /\ j < count
      /\ \A h \in k + 1..j : Key[data[s[j + 1]]] < Key[data[s[h]]]
  BY <1>3, <1>4, PlaceFacts
<1>6. Shows(s)
  BY <1>2, <1>3, Seen DEF View
<1>7. Shows(t)'
  BY <1>1, <1>4, <1>t, SeenNext DEF View, Move
<1>8. /\ Contents \in Seq(Items) /\ Len(Contents) = count
      /\ \A i \in 1..count : Contents[i] = data[s[i]]
  BY <1>3, <1>6, ContentsType
<1>9. Contents' = Log!InsertAt(Log!RemoveAt(Contents, j + 1), k + 1, Contents[j + 1])
  <2>1. Contents' = Along(t, count', data') /\ count' = count
    BY <1>1, <1>7, Zenon DEF Shows, Along
  <2>2. j \in 0..count - 1 /\ k \in 0..j /\ k \in 0..count - 1 /\ (count - 1) + 1 = count
    BY <1>5
  <2>u. PICK u : u = Without(Contents, count, j)
    OBVIOUS
  <2>3. Log!RemoveAt(Contents, j + 1) = u /\ u \in Seq(Items) /\ Len(u) = count - 1
    <3>1. Log!RemoveAt(Contents, j + 1) = u
      BY <1>8, <2>2, <2>u, RemoveIs
    <3>2. count - 1 \in Nat /\ u = [i \in 1..count - 1 |-> u[i]]
      BY <1>5, <2>u DEF Without
    <3>3. \A i \in 1..count : Contents[i] \in Items
      BY <1>8
    <3>4. ASSUME NEW i \in 1..count - 1 PROVE u[i] \in Items
      <4>1. i \in 1..count /\ i + 1 \in 1..count
        BY <1>5
      <4>2. u[i] = IF i <= j THEN Contents[i] ELSE Contents[i + 1]
        BY <2>u DEF Without
      <4> QED
        BY <3>3, <4>1, <4>2
    <3>5. u \in [1..count - 1 -> Items]
      BY <3>2, <3>4
    <3> QED
      BY <3>1, <3>2, <3>5
  <2>4. Log!InsertAt(u, k + 1, Contents[j + 1]) = With(u, count - 1, k, Contents[j + 1])
    <3>1. Contents[j + 1] \in Items /\ k \in 0..Len(u)
      BY <1>5, <1>8, <2>2, <2>3
    <3> QED
      BY <2>3, <3>1, InsertIs
  <2>5. ASSUME NEW h \in 1..count 
        PROVE  Contents'[h] = With(u, count - 1, k, Contents[j + 1])[h]
    <3>1. /\ With(Without(s, count, j), count - 1, k, s[j + 1])[h] = s[From(j, k, h)]
          /\ From(j, k, h) \in 1..count
      <4>1. count \in Nat
        BY <1>5
      <4>2. j \in 0..count - 1
        BY <2>2
      <4>3. k \in 0..j
        BY <2>2
      <4> QED
        BY ONLY <4>1, <4>2, <4>3, h \in 1..count, MovedFrom
    <3>2. With(Without(Contents, count, j), count - 1, k, Contents[j + 1])[h] = Contents[From(j, k, h)]
      BY <1>5, <2>2, MovedFrom
    <3>3. t[h] = s[From(j, k, h)]
      BY <1>4, <3>1, Zenon DEF Move
    <3>4. Contents'[h] = data[t[h]]
      BY <1>1, <2>1 DEF Along
    <3> QED
      BY <1>8, <2>u, <3>1, <3>2, <3>3, <3>4
  <2>6. Contents' = [h \in 1..count |-> Contents'[h]]
    BY <2>1 DEF Along
  <2>7. With(u, count - 1, k, Contents[j + 1]) =
          [h \in 1..count |-> With(u, count - 1, k, Contents[j + 1])[h]]
    BY <2>2 DEF With
  <2>8. Contents' = With(u, count - 1, k, Contents[j + 1])
    BY <2>5, <2>6, <2>7
  <2> QED
    BY <2>3, <2>4, <2>8
<1>10. \A n \in k + 1..(j + 1) - 1 : Key[Contents[n]] > Key[Contents[j + 1]]
  <2>1. (j + 1) - 1 = j /\ j + 1 \in 1..count
    BY <1>5
  <2>2. ASSUME NEW n \in k + 1..j PROVE Key[Contents[n]] > Key[Contents[j + 1]]
    <3>1. n \in 1..count
      BY <1>5
    <3>2. Key[data[s[j + 1]]] < Key[data[s[n]]]
      BY <1>5
    <3> QED
      BY <1>8, <2>1, <3>1, <3>2
  <2> QED
    BY <2>1, <2>2
<1> DEFINE A == [i \in Iters |-> Remaining(i)]
           L == [i \in Iters |-> LastOf(i)]
<1>11. A' = A
  <2>1. Len(Contents') = count
    BY <1>1, <1>5, <1>7 DEF Shows, Along
  <2>2. \A i \in Iters : Remaining(i)' = Remaining(i)
    BY <1>1, <1>8, <2>1 DEF Remaining
  <2> QED
    BY <2>2
<1>12. L' = L
  BY <1>1 DEF LastOf
<1>13. k + 1 \in DOMAIN Contents /\ j + 1 \in DOMAIN Contents /\ k + 1 < j + 1
  BY <1>5, <1>8
<1> HIDE DEF A, L
<1>14. \E h, i \in DOMAIN Contents :
         /\ h < i /\ \A n \in h..i - 1 : Key[Contents[n]] > Key[Contents[i]]
         /\ Contents' = Log!InsertAt(Log!RemoveAt(Contents, i), h, Contents[i])
  BY <1>9, <1>10, <1>13
<1> QED
  <2>1. Sorting' = Sorting
    BY <1>1 DEF Sorting
  <2>2. UNCHANGED <<iters, A, L, Sorting, ret>>
    BY <1>1, <1>11, <1>12, <2>1
  <2> QED
    BY <1>1, <1>14, <2>2 DEF Log!Shift, A, L

----------------------------------------------------------------------------
(* Every step of a list is one of the sequence it stands for. *)

LinkedView == alive => \A s \in [1..count -> Nodes] : Linked(mem, s, count) => Whole(s) /\ Shows(s)

LEMMA LinkedSeen == IndInv => LinkedView
  BY TheChain, Seen DEF LinkedView, View

LEMMA LinkedSeenNext == IndInv' => LinkedView'
  BY LinkedSeen, PTL

AheadOf == [i \in Iters |-> Remaining(i)]
LastItem == [i \in Iters |-> LastOf(i)]

WalkIn(m, a) ==
  LET n == Cardinality(Nodes)
      node[k \in 1..n] == IF k = 1 THEN m[a] 
                          ELSE IF node[k - 1] = Nil THEN Nil ELSE m[node[k - 1]]
  IN  [k \in 1..Cardinality({j \in 1..n : node[j] # Nil}) |-> node[k]]

\* A walk depends on the chain alone.
LEMMA SameWalk == ASSUME mem' = mem PROVE \A a : Walk(a)' = Walk(a)
<1>1. \A a : Walk(a) = WalkIn(mem, a)
  BY DEF Walk, WalkIn
<1>2. \A a : Walk(a)' = WalkIn(mem', a)
  BY DEF Walk, WalkIn
<1> QED
  BY <1>1, <1>2

LEMMA Stutters ==
  ASSUME UNCHANGED <<mem, data, alive, iters, pos, prev>>, Sorting' = Sorting
  PROVE  Contents' = Contents /\ AheadOf' = AheadOf /\ LastItem' = LastItem
<1>1. \A a : Walk(a)' = Walk(a)
  BY SameWalk
<1>2. Contents' = Contents
  BY <1>1, Zenon DEF Contents
<1>3. \A i \in Iters : Remaining(i)' = Remaining(i)
  BY <1>1, <1>2, Zenon DEF Remaining
<1>4. \A i \in Iters : LastOf(i)' = LastOf(i)
  BY Zenon DEF LastOf
<1> QED
  BY <1>2, <1>3, <1>4, Zenon DEF AheadOf, LastItem

\* One iterator put elsewhere: what changes of the chain's cursors, and what it shows.
PutAt(s, i, k, e) ==
  /\ UNCHANGED <<chain, op, alive>> /\ iters' = iters \cup {i} /\ e \in {k, k + 1}
  /\ pos' = [pos EXCEPT ![i] = mem[Field(s, e)]] /\ prev' = [prev EXCEPT ![i] = Field(s, k)]

ShownAt(s, i, k, e) ==
  /\ Contents' = Contents /\ Len(Contents) = count
  /\ AheadOf' = [AheadOf EXCEPT ![i] = count - e]
  /\ LastItem' = [LastItem EXCEPT ![i] = IF e = k THEN Nil ELSE data[s[e]]]

LEMMA CursorLog ==
  ASSUME IndInv, IndInv', Free, NEW s \in [1..count -> Nodes], Whole(s), NEW i \in Iters,
         NEW k \in 0..count, NEW e \in 0..count, PutAt(s, i, k, e)
  PROVE  ShownAt(s, i, k, e)
<1>0. /\ UNCHANGED <<chain, op, alive>> /\ iters' = iters \cup {i} /\ e \in {k, k + 1}
      /\ pos' = [pos EXCEPT ![i] = mem[Field(s, e)]] 
      /\ prev' = [prev EXCEPT ![i] = Field(s, k)]
  BY DEF PutAt
<1>1. ~Sorting /\ ~Sorting' /\ alive /\ alive'
  BY <1>0, IdleFacts DEF Free, Sorting
<1>2. mem' = mem /\ data' = data /\ count' = count
  BY <1>0 DEF chain
<1>3. Shows(s)
  BY <1>1, Seen DEF View
<1>4. Shows(s)'
  BY <1>1, <1>2, LinkedSeenNext DEF LinkedView, Whole
<1>5. \A a : Walk(a)' = Walk(a)
  BY <1>2, SameWalk
<1>6. Contents' = Contents
  BY <1>0, <1>1, <1>2, <1>5, Zenon DEF Contents
<1>7. At(s, i, k, e)'
  BY <1>0, <1>2 DEF At, IndInv, TypeOK
<1>8. Remaining(i)' = count - e /\ LastOf(i)' = IF e = k THEN Nil ELSE data[s[e]]
  <2>1. Ahead(i, e)' /\ Last(s, i, k, e)'
    BY <1>0, <1>1, <1>2, <1>4, <1>7 DEF Shows
  <2> QED
    BY <1>2, <2>1 DEF Ahead, Last
<1>9. ASSUME NEW y \in Iters, y # i PROVE Remaining(y)' = Remaining(y) /\ LastOf(y)' = LastOf(y)
  <2>1. pos'[y] = pos[y] /\ prev'[y] = prev[y] /\ (y \in iters' <=> y \in iters)
    BY <1>0, <1>9 DEF IndInv, TypeOK
  <2>2. Remaining(y)' = Remaining(y)
    <3>1. CASE y \in iters
      BY <1>1, <1>5, <2>1, <3>1 DEF Remaining
    <3>2. CASE y \notin iters
      BY <2>1, <3>2 DEF Remaining
    <3> QED
      BY <3>1, <3>2
  <2>3. LastOf(y)' = LastOf(y)
    BY <1>1, <1>2, <2>1 DEF LastOf
  <2> QED
    BY <2>2, <2>3
<1>10. Len(Contents) = count
  BY <1>3, ContentsType
<1>11. AheadOf' = [AheadOf EXCEPT ![i] = count - e]
  BY <1>8, <1>9 DEF AheadOf
<1>12. LastItem' = [LastItem EXCEPT ![i] = IF e = k THEN Nil ELSE data[s[e]]]
  BY <1>8, <1>9 DEF LastItem
<1> QED
  BY <1>6, <1>10, <1>11, <1>12 DEF ShownAt

LEMMA LogInit == Init => Log!Init
<1> SUFFICES ASSUME Init PROVE Log!Init
  OBVIOUS
<1>1. IndInv /\ alive /\ ~Sorting /\ iters = {} /\ count = 0
  BY InitInd DEF Init, Idle, Sorting
<1>2. PICK s \in [1..count -> Nodes] : Whole(s)
  BY <1>1 DEF IndInv
<1>3. Shows(s)
  BY <1>1, <1>2, Seen DEF View
<1>4. Contents \in Seq(Items) /\ Len(Contents) = 0
  BY <1>1, <1>2, <1>3, ContentsType
<1>5. Contents = <<>>
  BY <1>4
<1>6. AheadOf = [i \in Iters |-> 0] /\ LastItem = [i \in Iters |-> Nil]
  BY <1>1 DEF AheadOf, LastItem, Remaining, LastOf
<1>7. ret = Nil /\ Sorting = FALSE
  BY DEF Init, Sorting, Idle
<1> QED
  BY <1>1, <1>5, <1>6, <1>7 DEF Log!Init, AheadOf, LastItem

\* What every operation finds.
LEMMA FreeFacts ==
  ASSUME IndInv, Free
  PROVE  /\ alive /\ ~Sorting /\ count \in Nat /\ op.name = "none" /\ HeadPtr = Field(<<>>, 0)
         /\ \E s \in [1..count -> Nodes] : Whole(s) /\ Shows(s)
  BY IdleFacts, Seen DEF IndInv, TypeOK, Free, View, Field

LEMMA NewItem ==
  ASSUME IndInv, OwnInv, NEW s \in [1..count -> Nodes], Whole(s), Shows(s),
         NEW x \in Items, owner[x] = "caller"
  PROVE  x \in Items \ Log!ToSet(Contents)
<1>1. \A p \in used : data[p] # x
  BY DEF OwnInv
<1>2. Contents = Along(s, count, data) /\ \A k \in 1..count : s[k] \in used
  BY DEF Shows, Whole, Among
<1>3. DOMAIN Contents = 1..count /\ \A k \in DOMAIN Contents : Contents[k] # x
  BY <1>1, <1>2 DEF Along
<1>4. x \notin {Contents[k] : k \in DOMAIN Contents}
  BY <1>3, Zenon
<1> QED
  BY <1>4 DEF Log!ToSet

\* Where an iterator of the list is.
LEMMA WhereIs ==
  ASSUME IndInv, ~Sorting, NEW s \in [1..count -> Nodes], Whole(s), Shows(s), NEW i \in iters
  PROVE  \E k \in 0..count : \E e \in 0..count : 
           /\ e \in {k, k + 1} /\ prev[i] = Field(s, k) /\ pos[i] = mem[Field(s, e)]
           /\ Remaining(i) = count - e /\ LastOf(i) = IF e = k THEN Nil ELSE data[s[e]]
           /\ (mem[prev[i]] = pos[i] <=> e = k)
           /\ i \in Iters
<1>1. PICK k \in 0..count, e \in 0..count : At(s, i, k, e)
  BY DEF Shows, Placing
<1>2. Ahead(i, e) /\ Last(s, i, k, e)
  BY <1>1 DEF Shows
<1>3. e \in {k, k + 1} /\ prev[i] = Field(s, k) /\ pos[i] = mem[Field(s, e)]
  BY <1>1 DEF At
<1>4. mem[prev[i]] = pos[i] <=> e = k
  BY <1>3, FieldFacts DEF Whole, IndInv, TypeOK
<1>5. i \in Iters
  BY DEF IndInv, TypeOK
<1> QED
  BY <1>2, <1>3, <1>4, <1>5 DEF Ahead, Last

LEMMA NothingIs == ASSUME ReturnsNull PROVE Log!Nothing
<1>1. /\ ret' = Nil /\ UNCHANGED <<mem, data, alive, iters, pos, prev, op>>
  BY DEF ReturnsNull, chain, cursors
<1>2. Sorting' = Sorting
  BY <1>1 DEF Sorting
<1>3. UNCHANGED <<Contents, iters, AheadOf, LastItem, Sorting>>
  BY <1>1, <1>2, Stutters
<1> QED
  BY <1>1, <1>3 DEF Log!Nothing, AheadOf, LastItem

\* One of the log's operations, with the list as its state.
LogOperation == ~Sorting /\ Log!Operation

LEMMA InsertLog ==
  ASSUME IndInv, OwnInv, NEW x \in Items,
         ListAppend(x) \/ ListPrepend(x) \/ \E i \in Iters : ListInsert(i, x)
  PROVE  LogOperation
<1>1. Free /\ owner[x] = "caller"
  BY DEF ListAppend, ListPrepend, ListInsert
<1>2. ~Sorting /\ alive /\ count \in Nat
  BY <1>1, FreeFacts
<1>3. PICK s \in [1..count -> Nodes] : Whole(s) /\ Shows(s)
  BY <1>1, FreeFacts
<1>4. x \in Items \ Log!ToSet(Contents)
  BY <1>1, <1>3, NewItem
<1>5. Len(Contents) = count
  BY <1>3, ContentsType
<1>6. CASE ReturnsNull
  <2>1. Log!Nothing
    BY <1>6, NothingIs
  <2> QED
    BY <1>2, <2>1 DEF LogOperation, Log!Operation
<1>7. ASSUME NEW j \in 0..count, NodeCreate(Field(s, j), x) PROVE Log!InsertAfter(j, x)
  BY <1>1, <1>3, <1>7, PutIs
<1>8. CASE ListAppend(x) /\ NodeCreate(tail, x)
  <2>1. tail = Field(s, count) /\ count \in 0..count
    BY <1>2, <1>3 DEF Whole
  <2>2. Log!PutLast(x)
    BY <1>5, <1>7, <1>8, <2>1 DEF Log!PutLast, Log!Size
  <2> QED
    BY <1>2, <1>4, <2>2 DEF LogOperation, Log!Operation
<1>9. CASE ListPrepend(x) /\ NodeCreate(HeadPtr, x)
  <2>1. HeadPtr = Field(s, 0) /\ 0 \in 0..count
    BY <1>2 DEF Field
  <2>2. Log!PutFirst(x)
    BY <1>7, <1>9, <2>1 DEF Log!PutFirst
  <2> QED
    BY <1>2, <1>4, <2>2 DEF LogOperation, Log!Operation
<1>10. ASSUME NEW i \in Iters, ListInsert(i, x), NodeCreate(prev[i], x) PROVE LogOperation
  <2>1. i \in iters
    BY <1>10 DEF ListInsert
  <2>2. PICK k \in 0..count : \E e \in 0..count : 
           /\ e \in {k, k + 1} /\ prev[i] = Field(s, k) /\ pos[i] = mem[Field(s, e)]
           /\ Remaining(i) = count - e /\ LastOf(i) = IF e = k THEN Nil ELSE data[s[e]]
    BY <1>2, <1>3, <2>1, WhereIs
  <2>3. PICK e \in 0..count :
           /\ e \in {k, k + 1} /\ prev[i] = Field(s, k)
           /\ Remaining(i) = count - e /\ LastOf(i) = IF e = k THEN Nil ELSE data[s[e]]
    BY <2>2
  <2>4. Log!InsertAfter(k, x)
    BY <1>7, <1>10, <2>3
  <2>5. IF LastItem[i] = Nil THEN k = Len(Contents) - AheadOf[i]
        ELSE k < Len(Contents) /\ Contents[k + 1] = LastItem[i]
    <3>1. LastItem[i] = LastOf(i) /\ AheadOf[i] = Remaining(i)
      BY DEF LastItem, AheadOf
    <3>2. CASE e = k
      BY <1>2, <1>5, <2>3, <3>1, <3>2
    <3>3. CASE e # k
      <4>1. e = k + 1 /\ e \in 1..count
        BY <2>3, <3>3
      <4>2. Contents[e] = data[s[e]] /\ data[s[e]] \in Items
        BY <1>3, <4>1, ContentsType DEF IndInv
      <4> QED
        BY <1>2, <1>5, <2>3, <3>1, <3>3, <4>1, <4>2, ListAssumption
    <3> QED
      BY <3>2, <3>3
  <2>6. Log!PutBefore(i, x)
    <3>1. k \in 0..Len(Contents)
      BY <1>5
    <3> QED
      BY <2>4, <2>5, <3>1 DEF Log!PutBefore, Log!Size, LastItem, AheadOf
  <2> QED
    BY <1>2, <1>4, <2>1, <2>6 DEF LogOperation, Log!Operation
<1> QED
  BY <1>6, <1>8, <1>9, <1>10 DEF ListAppend, ListPrepend, ListInsert

LEMMA RemoveLog ==
  ASSUME IndInv, OwnInv,
         \/ ListPop
         \/ DeleteAllStep /\ mem[op.pp] # Nil /\ Key[data[mem[op.pp]]] = op.key
         \/ \E i \in Iters, to \in {"caller", "freed"} : ListRemove(i, to)
  PROVE  LogOperation
<1>1. ~Sorting /\ alive /\ count \in Nat
  <2>1. op.name = "delete_all" => op # Idle /\ ~Sorting
    BY DEF Sorting, Idle
  <2> QED
    BY <2>1, FreeFacts DEF ListPop, ListRemove, DeleteAllStep, IndInv, TypeOK
<1>2. PICK s \in [1..count -> Nodes] : Whole(s)
  BY <1>1 DEF IndInv
<1>3. Shows(s)
  BY <1>1, <1>2, Seen DEF View
<1>4. /\ Contents \in Seq(Items) /\ Len(Contents) = count
      /\ \A k \in 1..count : Contents[k] = data[s[k]] /\ s[k] \in used
  BY <1>2, <1>3, ContentsType
<1>5. ASSUME NEW j \in 0..count, mem[Field(s, j)] # Nil
      PROVE  /\ j \in 0..count - 1 /\ j + 1 \in 1..count /\ mem[Field(s, j)] = s[j + 1]
             /\ Contents[j + 1] = data[s[j + 1]] /\ Contents[j + 1] \in Items
  <2>1. Linked(mem, s, count)
    BY <1>2 DEF Whole
  <2>2. j # count /\ j + 1 \in 1..count
    BY <1>1, <1>5, <2>1 DEF Linked
  <2> QED
    BY <1>1, <1>4, <2>1, <2>2 DEF Linked
<1>6. ASSUME NEW j \in 0..count, mem[Field(s, j)] # Nil, NEW to \in {"caller", "freed"},
             op.name = "delete_all" => op.pp = Field(s, j),
             NodeDestroy(Field(s, j), to), op' = op,
             ret' = data[mem[Field(s, j)]] \/ ret' = ret
      PROVE  Log!RemoveFrom(j + 1)
  <2>1. j \in 0..count - 1
    BY <1>5, <1>6
  <2>2. ret' \in Items \cup {Nil}
    BY <1>5, <1>6 DEF IndInv, TypeOK
  <2> QED
    BY <1>1, <1>2, <1>6, <2>1, <2>2, CutIs
<1>7. CASE ReturnsNull
  <2>1. Log!Nothing
    BY <1>7, NothingIs
  <2> QED
    BY <1>1, <2>1 DEF LogOperation, Log!Operation
<1>8. CASE ListPop /\ ~ReturnsNull
  <2>1. /\ mem[HeadPtr] # Nil /\ NodeDestroy(HeadPtr, "caller") /\ ret' = data[mem[HeadPtr]]
        /\ op' = op /\ Free
    BY <1>8 DEF ListPop
  <2>2. HeadPtr = Field(s, 0) /\ 0 \in 0..count /\ op.name = "none"
    BY <1>1, <2>1, FreeFacts DEF Field
  <2>3. Log!RemoveFrom(0 + 1)
    BY <1>6, <2>1, <2>2
  <2>4. Contents # <<>> /\ ret' = Head(Contents)
    <3>1. 0 + 1 = 1 /\ 1 \in 1..count /\ Contents[1] = data[s[1]] /\ mem[HeadPtr] = s[1]
      BY <1>5, <2>1, <2>2
    <3> QED
      BY <1>4, <2>1, <3>1
  <2>5. Log!TakeFirst
    BY <2>3, <2>4 DEF Log!TakeFirst
  <2> QED
    BY <1>1, <2>5 DEF LogOperation, Log!Operation
<1>9. ASSUME NEW i \in Iters, NEW to \in {"caller", "freed"}, ListRemove(i, to), ~ReturnsNull
      PROVE  LogOperation
  <2>1. /\ Free /\ i \in iters /\ mem[prev[i]] # pos[i] /\ NodeDestroy(prev[i], to)
        /\ ret' = data[mem[prev[i]]] /\ op' = op
    BY <1>9 DEF ListRemove
  <2>2. PICK k \in 0..count : \E e \in 0..count : 
           /\ e \in {k, k + 1} /\ prev[i] = Field(s, k)
           /\ LastOf(i) = IF e = k THEN Nil ELSE data[s[e]]
           /\ (mem[prev[i]] = pos[i] <=> e = k)
    BY <1>1, <1>2, <1>3, <2>1, WhereIs
  <2>3. /\ prev[i] = Field(s, k) /\ LastOf(i) = data[s[k + 1]] /\ k + 1 \in 1..count
    BY <2>1, <2>2
  <2>4. mem[Field(s, k)] = s[k + 1] /\ s[k + 1] # Nil
    BY <1>1, <1>2, <2>3, ListAssumption DEF Whole, Linked
  <2>5. Contents[k + 1] = data[s[k + 1]]
    BY <1>5, <2>4
  <2>6. Log!RemoveFrom(k + 1)
    <3>1. op.name = "none"
      BY <2>1, FreeFacts
    <3> QED
      BY <1>6, <2>1, <2>3, <2>4, <3>1
  <2>7. LastItem[i] = Contents[k + 1] /\ ret' = Contents[k + 1] /\ k + 1 \in 1..Len(Contents)
    BY <1>4, <2>1, <2>3, <2>4, <2>5 DEF LastItem
  <2>8. Log!Take(i)
    BY <2>6, <2>7 DEF Log!Take, Log!Size, LastItem
  <2> QED
    BY <1>1, <2>1, <2>8 DEF LogOperation, Log!Operation
<1>10. CASE DeleteAllStep /\ mem[op.pp] # Nil /\ Key[data[mem[op.pp]]] = op.key
  <2>1. op.name = "delete_all" /\ NodeDestroy(op.pp, "freed") /\ op' = op /\ ret' = ret
    BY <1>10 DEF DeleteAllStep
  <2>2. PICK k \in 0..count : op.pp = Field(s, k)
    BY <1>2, <2>1 DEF Whole, Loop
  <2>3. Log!RemoveFrom(k + 1)
    BY <1>6, <1>10, <2>1, <2>2
  <2>4. /\ k + 1 \in 1..Len(Contents) /\ Key[Contents[k + 1]] = op.key 
        /\ Contents[k + 1] \in Items
    BY <1>4, <1>5, <1>10, <2>2
  <2>5. Log!DeleteMatching(op.key)
    BY <2>1, <2>3, <2>4 DEF Log!DeleteMatching, Log!Size
  <2>6. op.key \in {Key[y] : y \in Items}
    BY <2>4
  <2> QED
    BY <1>1, <2>5, <2>6 DEF LogOperation, Log!Operation
<1> QED
  BY <1>7, <1>8, <1>9, <1>10

\* An iterator is put on the list, or starts anew.
LEMMA RewindLog ==
  ASSUME IndInv, IndInv', NEW i \in Iters, IteratorCreate(i) \/ IteratorReset(i)
  PROVE  LogOperation
<1>1. Free
  BY DEF IteratorCreate, IteratorReset
<1>2. ~Sorting /\ count \in Nat
  BY <1>1, FreeFacts
<1>3. CASE ReturnsNull
  <2>1. Log!Nothing
    BY <1>3, NothingIs
  <2> QED
    BY <1>2, <2>1 DEF LogOperation, Log!Operation
<1>4. CASE IteratorAt(i, HeadPtr) /\ iters' = iters \cup {i} /\ UNCHANGED <<chain, op, alive, ret>>
  <2>1. PICK s \in [1..count -> Nodes] : Whole(s)
    BY <1>1, FreeFacts
  <2>2. HeadPtr = Field(s, 0) /\ 0 \in 0..count
    BY <1>2 DEF Field
  <2>3. /\ pos' = [pos EXCEPT ![i] = mem[Field(s, 0)]]
        /\ prev' = [prev EXCEPT ![i] = Field(s, 0)]
    BY <1>4, <2>2 DEF IteratorAt
  <2>4. /\ Contents' = Contents /\ Len(Contents) = count
        /\ AheadOf' = [AheadOf EXCEPT ![i] = count - 0]
        /\ LastItem' = [LastItem EXCEPT ![i] = IF 0 = 0 THEN Nil ELSE data[s[0]]]
    <3>1. PutAt(s, i, 0, 0)
      BY <1>4, <2>3 DEF PutAt
    <3> QED
      BY <1>1, <2>1, <2>2, <3>1, CursorLog DEF ShownAt
  <2>5. Sorting' = Sorting /\ ret' = ret
    BY <1>4 DEF Sorting
  <2>6. count - 0 = Len(Contents)
    BY <1>2, <2>4
  <2>7. Log!Rewind(i)
    BY <2>4, <2>5, <2>6 DEF Log!Rewind, Log!Size, AheadOf, LastItem
  <2>8. Log!Open(i) \/ (i \in iters /\ Log!Reset(i))
    BY <1>4, <2>7 DEF IteratorCreate, IteratorReset, Log!Open, Log!Reset, ReturnsNull, cursors
  <2> QED
    BY <1>2, <2>8 DEF LogOperation, Log!Operation
<1> QED
  BY <1>3, <1>4 DEF IteratorCreate, IteratorReset, chain

\* An iterator leaves the list.
LEMMA CloseLog ==
  ASSUME IndInv, NEW i \in Iters, IteratorDestroy(i) PROVE LogOperation
<1>1. /\ Free /\ i \in iters /\ iters' = iters \ {i}
      /\ pos' = [pos EXCEPT ![i] = Nil] /\ prev' = [prev EXCEPT ![i] = HeadPtr]
      /\ UNCHANGED <<mem, data, op, alive, ret>>
  BY DEF IteratorDestroy, chain
<1>2. ~Sorting /\ Sorting' = Sorting
  BY <1>1, FreeFacts DEF Sorting
<1>3. \A a : Walk(a)' = Walk(a)
  BY <1>1, SameWalk
<1>4. Contents' = Contents
  BY <1>1, <1>3, Zenon DEF Contents
<1>5. Remaining(i)' = 0 /\ LastOf(i)' = Nil
  BY <1>1 DEF Remaining, LastOf
<1>6. ASSUME NEW y \in Iters, y # i PROVE Remaining(y)' = Remaining(y) /\ LastOf(y)' = LastOf(y)
  <2>1. pos'[y] = pos[y] /\ prev'[y] = prev[y] /\ (y \in iters' <=> y \in iters)
    BY <1>1, <1>6 DEF IndInv, TypeOK
  <2>2. Remaining(y)' = Remaining(y)
    <3>1. CASE y \in iters
      BY <1>2, <1>3, <2>1, <3>1 DEF Remaining
    <3>2. CASE y \notin iters
      BY <2>1, <3>2 DEF Remaining
    <3> QED
      BY <3>1, <3>2
  <2>3. LastOf(y)' = LastOf(y)
    BY <1>1, <1>2, <2>1 DEF LastOf
  <2> QED
    BY <2>2, <2>3
<1>7. AheadOf' = [AheadOf EXCEPT ![i] = 0]
  BY <1>5, <1>6 DEF AheadOf
<1>8. LastItem' = [LastItem EXCEPT ![i] = Nil]
  BY <1>5, <1>6 DEF LastItem
<1>9. Log!Close(i)
  BY <1>1, <1>2, <1>4, <1>7, <1>8 DEF Log!Close, AheadOf, LastItem
<1> QED
  BY <1>1, <1>2, <1>9 DEF LogOperation, Log!Operation

\* list_next returns the next item, or NULL behind the last one.
LEMMA NextLog ==
  ASSUME IndInv, IndInv', NEW i \in Iters, ListNext(i) PROVE LogOperation
<1>1. /\ Free /\ i \in iters /\ iters' = iters \cup {i}
      /\ ret' = IF pos[i] = Nil THEN Nil ELSE data[pos[i]]
      /\ pos' = [pos EXCEPT ![i] = IF pos[i] = Nil THEN Nil ELSE mem[pos[i]]]
      /\ prev' = [prev EXCEPT ![i] = Follow(i)]
      /\ UNCHANGED <<chain, op, alive>>
  BY DEF ListNext
<1>2. ~Sorting /\ count \in Nat
  BY <1>1, FreeFacts
<1>3. PICK s \in [1..count -> Nodes] : Whole(s) /\ Shows(s)
  BY <1>1, FreeFacts
<1>4. PICK k \in 0..count : \E e \in 0..count : 
         /\ e \in {k, k + 1} /\ prev[i] = Field(s, k) /\ pos[i] = mem[Field(s, e)]
         /\ Remaining(i) = count - e /\ LastOf(i) = IF e = k THEN Nil ELSE data[s[e]]
         /\ (mem[prev[i]] = pos[i] <=> e = k)
  BY <1>1, <1>2, <1>3, WhereIs
<1>5. PICK e \in 0..count : 
         /\ e \in {k, k + 1} /\ prev[i] = Field(s, k) /\ pos[i] = mem[Field(s, e)]
         /\ Remaining(i) = count - e /\ (mem[prev[i]] = pos[i] <=> e = k)
  BY <1>4
<1>6. Linked(mem, s, count)
  BY <1>3 DEF Whole
<1>7. Follow(i) = Field(s, e)
  <2>1. CASE e = k
    BY <1>5, <2>1 DEF Follow
  <2>2. CASE e # k
    <3>1. e = k + 1 /\ k # count /\ e # 0
      BY <1>2, <1>5, <2>2
    <3>2. mem[prev[i]] = s[e]
      BY <1>5, <1>6, <3>1 DEF Linked
    <3> QED
      BY <1>5, <2>2, <3>1, <3>2 DEF Follow, Field
  <2> QED
    BY <2>1, <2>2
<1>8. Sorting' = Sorting /\ AheadOf[i] = count - e
  BY <1>1, <1>5 DEF Sorting, AheadOf
<1>9. CASE e = count
  <2>1. pos[i] = Nil /\ ret' = Nil /\ pos' = [pos EXCEPT ![i] = mem[Field(s, e)]]
    <3>1. pos[i] = Nil
      BY <1>5, <1>6, <1>9 DEF Linked
    <3> QED
      BY <1>1, <1>5, <3>1
  <2>2. prev' = [prev EXCEPT ![i] = Field(s, e)]
    BY <1>1, <1>7
  <2>3. /\ Contents' = Contents /\ Len(Contents) = count
        /\ AheadOf' = [AheadOf EXCEPT ![i] = count - e]
        /\ LastItem' = [LastItem EXCEPT ![i] = IF e = e THEN Nil ELSE data[s[e]]]
    <3>1. PutAt(s, i, e, e)
      BY <1>1, <2>1, <2>2 DEF PutAt
    <3>2. ShownAt(s, i, e, e)
      BY <1>1, <1>3, <3>1, CursorLog, Zenon
    <3> QED
      BY <3>2 DEF ShownAt
  <2>4. AheadOf[i] = 0 /\ AheadOf' = AheadOf
    <3>1. count - e = 0
      BY <1>2, <1>9
    <3> QED
      BY <1>8, <2>3, <3>1 DEF AheadOf
  <2>5. iters' = iters /\ LastItem' = [LastItem EXCEPT ![i] = Nil]
    BY <1>1, <2>3
  <2>6. Log!AtEnd(i)
    BY <1>8, <2>1, <2>3, <2>4, <2>5 DEF Log!AtEnd, AheadOf, LastItem
  <2> QED
    BY <1>1, <1>2, <2>6 DEF LogOperation, Log!Operation
<1>10. CASE e # count
  <2>1. e + 1 \in 0..count /\ e + 1 \in 1..count /\ e + 1 # e /\ e + 1 \in {e, e + 1}
    BY <1>2, <1>10
  <2>2. pos[i] = s[e + 1] /\ s[e + 1] = Field(s, e + 1) /\ pos[i] # Nil
    BY <1>5, <1>6, <1>10, <2>1, ListAssumption DEF Linked, Field
  <2>3. /\ pos' = [pos EXCEPT ![i] = mem[Field(s, e + 1)]]
        /\ prev' = [prev EXCEPT ![i] = Field(s, e)] /\ ret' = data[s[e + 1]]
    BY <1>1, <1>7, <2>2
  <2>4. /\ Contents' = Contents /\ Len(Contents) = count
        /\ AheadOf' = [AheadOf EXCEPT ![i] = count - (e + 1)]
        /\ LastItem' = [LastItem EXCEPT ![i] = IF e + 1 = e THEN Nil ELSE data[s[e + 1]]]
    <3>1. PICK f \in 0..count : f = e + 1
      BY <2>1
    <3>2. PutAt(s, i, e, f)
      BY <1>1, <2>3, <3>1 DEF PutAt
    <3>3. ShownAt(s, i, e, f)
      BY <1>1, <1>3, <3>2, CursorLog, Zenon
    <3> QED
      BY <3>1, <3>3 DEF ShownAt
  <2>5. Contents[e + 1] = data[s[e + 1]]
    BY <1>3, <2>1, ContentsType
  <2>6. /\ AheadOf[i] > 0 /\ (Len(Contents) - AheadOf[i]) + 1 = e + 1
        /\ AheadOf[i] - 1 = count - (e + 1)
    BY <1>2, <1>8, <1>10, <2>4
  <2>7. /\ ret' = Contents[(Len(Contents) - AheadOf[i]) + 1]
        /\ LastItem' = [LastItem EXCEPT ![i] = Contents[(Len(Contents) - AheadOf[i]) + 1]]
        /\ AheadOf' = [AheadOf EXCEPT ![i] = AheadOf[i] - 1]
    <3>1. LastItem' = [LastItem EXCEPT ![i] = data[s[e + 1]]]
      BY <2>1, <2>4
    <3> QED
      BY <2>3, <2>4, <2>5, <2>6, <3>1
  <2>8. iters' = iters
    BY <1>1
  <2>9. Log!Return(i)
    BY <1>8, <2>4, <2>6, <2>7, <2>8 DEF Log!Return, Log!Size, AheadOf, LastItem
  <2> QED
    BY <1>1, <1>2, <2>9 DEF LogOperation, Log!Operation
<1> QED
  BY <1>9, <1>10

\* With a list go its items and its iterators.
LEMMA DiscardLog == ASSUME IndInv, ListDestroy PROVE LogOperation
<1>1. /\ Free /\ ~alive' /\ iters' = {} /\ op' = op /\ ret' = ret
  BY DEF ListDestroy
<1>2. ~Sorting /\ Sorting' = Sorting
  BY <1>1, FreeFacts DEF Sorting
<1>3. /\ Contents' = <<>> /\ AheadOf' = [i \in Iters |-> 0]
      /\ LastItem' = [i \in Iters |-> Nil]
  BY <1>1 DEF Contents, AheadOf, LastItem, Remaining, LastOf
<1>4. Log!Discard
  BY <1>1, <1>2, <1>3 DEF Log!Discard, AheadOf, LastItem
<1> QED
  BY <1>2, <1>4 DEF LogOperation, Log!Operation

\* What the log sees of a list.
LogView == <<Contents, iters, AheadOf, LastItem, Sorting, ret>>

\* A new list is empty.
LEMMA NewList == ASSUME IndInv, IndInv', ListCreate PROVE UNCHANGED LogView
<1>1. /\ ~alive /\ alive' /\ count' = 0 /\ iters = {} /\ iters' = {} 
      /\ UNCHANGED <<data, op, ret>> /\ mem' = [mem EXCEPT ![HeadPtr] = Nil] /\ op = Idle
  BY DEF ListCreate, IndInv
<1>2. ~Sorting /\ Sorting' = Sorting
  BY <1>1, IdleFacts DEF Sorting
<1> DEFINE s == [k \in 1..0 |-> HeadPtr]
<1>3. s \in [1..count' -> Nodes] /\ Linked(mem', s, count')
  <2>1. Field(s, 0) = HeadPtr /\ 1..0 = {} /\ \A k \in 0..0 : k = 0
    BY DEF Field
  <2>2. mem'[HeadPtr] = Nil
    BY <1>1 DEF IndInv, TypeOK, Fields
  <2> QED
    BY <1>1, <2>1, <2>2 DEF Linked
<1>4. Shows(s)'
  BY <1>1, <1>3, LinkedSeenNext DEF LinkedView
<1>5. Contents' = [k \in 1..0 |-> data'[s[k]]]
  BY <1>1, <1>4 DEF Shows, Along
<1>6. Contents' = <<>>
  BY <1>5
<1>7. Contents = <<>>
  BY <1>1 DEF Contents
<1>8. AheadOf' = AheadOf /\ LastItem' = LastItem
  BY <1>1 DEF AheadOf, LastItem, Remaining, LastOf
<1> QED
  BY <1>1, <1>2, <1>6, <1>7, <1>8 DEF LogView

\* Steps of a loop that change no more than its own pointers.
LEMMA LoopStutters ==
  ASSUME UNCHANGED <<chain, cursors, alive, ret>>, Sorting' = Sorting
  PROVE  UNCHANGED LogView
<1>1. UNCHANGED <<mem, data, alive, iters, pos, prev>>
  BY DEF chain, cursors
<1> QED
  BY <1>1, Stutters DEF LogView

\* list_sort begins: the iterators are as good as rewound.
LEMMA BeginLog ==
  ASSUME IndInv, Sort PROVE LogOperation \/ UNCHANGED LogView
<1>1. Free /\ UNCHANGED <<mem, data, iters, alive, ret>> /\ UNCHANGED <<chain, cursors>>
  BY DEF Sort, chain, cursors
<1>2. ~Sorting /\ alive /\ count \in Nat
  BY <1>1, FreeFacts
<1>3. PICK s \in [1..count -> Nodes] : Whole(s) /\ Shows(s)
  BY <1>1, FreeFacts
<1>4. Len(Contents) = count
  BY <1>3, ContentsType
<1>5. CASE count > 1
  <2>1. Sorting'
    BY <1>5 DEF Sort, Sorting, Idle
  <2>2. \A a : Walk(a)' = Walk(a)
    BY <1>1, SameWalk
  <2>3. Contents' = Contents
    BY <1>1, <2>2, Zenon DEF Contents
  <2>4. /\ AheadOf' = [i \in Iters |-> IF i \in iters THEN Len(Contents) ELSE 0]
        /\ LastItem' = [i \in Iters |-> Nil]
    <3>1. ASSUME NEW i \in Iters 
          PROVE  /\ Remaining(i)' = IF i \in iters THEN Len(Contents) ELSE 0
                 /\ LastOf(i)' = Nil
      BY <1>1, <2>1, <2>3 DEF Remaining, LastOf
    <3> QED
      BY <3>1 DEF AheadOf, LastItem
  <2>5. Sorting' = TRUE
    BY <2>1 DEF Sorting
  <2>6. Log!BeginSort
    BY <1>1, <1>4, <1>5, <2>3, <2>4, <2>5 DEF Log!BeginSort, Log!Size, AheadOf, LastItem
  <2> QED
    BY <1>2, <2>6 DEF LogOperation, Log!Operation
<1>6. CASE ~(count > 1)
  <2>1. op' = op
    BY <1>6 DEF Sort
  <2>2. Sorting' = Sorting
    BY <2>1 DEF Sorting
  <2> QED
    BY <1>1, <2>2, LoopStutters
<1> QED
  BY <1>5, <1>6

\* list_sort ends with the items in order.
LEMMA EndLog ==
  ASSUME IndInv, IndInv', OrderInv, SortEnd PROVE Log!EndSort
<1>1. /\ op.name = "sort" /\ mem[op.pp] = Nil /\ op' = Idle
      /\ pos' = [i \in Iters |-> IF i \in iters THEN mem[HeadPtr] ELSE pos[i]]
      /\ prev' = [i \in Iters |-> IF i \in iters THEN HeadPtr ELSE prev[i]]
      /\ UNCHANGED <<mem, data, count, iters, alive, ret>>
  BY DEF SortEnd
<1>2. Sorting /\ op # Idle /\ ~Sorting'
  BY <1>1 DEF Sorting, Idle
<1>3. alive /\ count \in Nat
  BY <1>2 DEF IndInv, TypeOK
<1>4. PICK s \in [1..count -> Nodes] : Whole(s)
  BY <1>3 DEF IndInv
<1>5. Shows(s)
  BY <1>3, <1>4, Seen DEF View
<1>6. Linked(mem, s, count)
  BY <1>4 DEF Whole
<1>7. /\ Contents \in Seq(Items) /\ Len(Contents) = count
      /\ \A k \in 1..count : Contents[k] = data[s[k]]
  BY <1>4, <1>5, ContentsType
<1>8. PICK j \in 1..count : op.pp = Field(s, j)
  BY <1>2, <1>6, SortPointers
<1>9. j = count
  BY <1>1, <1>3, <1>6, <1>8, ListAssumption DEF Linked
<1>10. \A h, i \in 1..count : h <= i => Before(s, h, i)
  BY <1>2, <1>6, <1>8, <1>9 DEF OrderInv, Ordered
<1>11. Log!Sorted
  <2>1. DOMAIN Contents = 1..count
    BY <1>7
  <2>2. ASSUME NEW h \in 1..count, NEW i \in 1..count, h < i
        PROVE  Key[Contents[h]] <= Key[Contents[i]]
    BY <1>7, <1>10, <2>2 DEF Before
  <2> QED
    BY <2>1, <2>2 DEF Log!Sorted
<1>12. Shows(s)'
  BY <1>1, <1>3, <1>6, LinkedSeenNext DEF LinkedView
<1>13. \A a : Walk(a)' = Walk(a)
  BY <1>1, SameWalk
<1>14. Contents' = Contents
  BY <1>1, <1>13, Zenon DEF Contents
<1>15. ASSUME NEW i \in Iters
       PROVE  Remaining(i)' = Remaining(i) /\ LastOf(i)' = LastOf(i)
  <2>1. CASE i \notin iters
    BY <1>1, <2>1 DEF Remaining, LastOf
  <2>2. CASE i \in iters
    <3>1. Remaining(i) = count /\ LastOf(i) = Nil
      BY <1>2, <1>7, <2>2 DEF Remaining, LastOf
    <3>2. At(s, i, 0, 0)'
      <4>1. prev'[i] = HeadPtr /\ pos'[i] = mem[HeadPtr] /\ HeadPtr = Field(s, 0)
        BY <1>1, <2>2 DEF Field
      <4> QED
        BY <1>1, <1>3, <4>1 DEF At
    <3>3. 0 \in 0..count' /\ i \in iters'
      BY <1>1, <1>3, <2>2
    <3>4. Ahead(i, 0)' /\ Last(s, i, 0, 0)'
      BY <1>2, <1>12, <3>2, <3>3 DEF Shows
    <3>5. Remaining(i)' = count' - 0 /\ LastOf(i)' = Nil
      BY <3>4 DEF Ahead, Last
    <3> QED
      BY <1>1, <1>3, <3>1, <3>5
  <2> QED
    BY <2>1, <2>2
<1>16. AheadOf' = AheadOf /\ LastItem' = LastItem
  BY <1>15 DEF AheadOf, LastItem
<1>17. Sorting' = FALSE
  BY <1>2 DEF Sorting
<1> QED
  BY <1>1, <1>2, <1>11, <1>14, <1>16, <1>17 DEF Log!EndSort, AheadOf, LastItem

LEMMA LogStep == 
  IndInv /\ IndInv' /\ OwnInv /\ OrderInv /\ [Next]_vars 
    => LogOperation \/ Log!Shift \/ Log!EndSort \/ UNCHANGED LogView
<1> SUFFICES ASSUME IndInv, IndInv', OwnInv, OrderInv, [Next]_vars
             PROVE  LogOperation \/ Log!Shift \/ Log!EndSort \/ UNCHANGED LogView
  OBVIOUS
<1>1. CASE UNCHANGED vars
  <2>1. UNCHANGED <<chain, cursors, alive, ret>> /\ op' = op
    BY <1>1 DEF vars, chain, cursors
  <2>2. Sorting' = Sorting
    BY <2>1 DEF Sorting
  <2> QED
    BY <2>1, <2>2, LoopStutters
<1>2. CASE ListCreate
  BY <1>2, NewList
<1>3. CASE ListDestroy
  BY <1>3, DiscardLog
<1>4. ASSUME NEW x \in Items,
             ListAppend(x) \/ ListPrepend(x) \/ \E i \in Iters : ListInsert(i, x)
      PROVE  LogOperation
  BY <1>4, InsertLog
<1>5. CASE ListPop
  BY <1>5, RemoveLog
<1>6. ASSUME NEW i \in Iters, NEW to \in {"caller", "freed"}, ListRemove(i, to)
      PROVE  LogOperation
  BY <1>6, RemoveLog
<1>7. ASSUME NEW i \in Iters,
             IteratorCreate(i) \/ IteratorReset(i) \/ IteratorDestroy(i) \/ ListNext(i)
      PROVE  LogOperation
  BY <1>7, RewindLog, CloseLog, NextLog
<1>8. ASSUME NEW k \in Keys, DeleteAll(k) PROVE UNCHANGED LogView
  <2>1. UNCHANGED <<chain, cursors, alive, ret>> /\ Free /\ op' = [Idle EXCEPT !.name = "delete_all", !.key = k]
    BY <1>8 DEF DeleteAll
  <2>2. Sorting' = Sorting
    BY <2>1, FreeFacts DEF Sorting, Idle
  <2> QED
    BY <2>1, <2>2, LoopStutters
<1>9. CASE DeleteAllStep
  <2>1. CASE mem[op.pp] # Nil /\ Key[data[mem[op.pp]]] = op.key
    BY <1>9, <2>1, RemoveLog
  <2>2. CASE ~(mem[op.pp] # Nil /\ Key[data[mem[op.pp]]] = op.key)
    <3>1. /\ UNCHANGED <<chain, cursors, alive, ret>> /\ op.name = "delete_all"
          /\ op' = Idle \/ op' = [op EXCEPT !.pp = mem[@]]
      BY <1>9, <2>2 DEF DeleteAllStep
    <3>2. op'.name \in {"none", "delete_all"}
      BY <3>1 DEF Idle, IndInv, TypeOK
    <3>3. Sorting' = Sorting
      BY <3>1, <3>2 DEF Sorting
    <3> QED
      BY <3>1, <3>3, LoopStutters
  <2> QED
    BY <2>1, <2>2
<1>10. CASE Sort
  BY <1>10, BeginLog
<1>11. CASE SortAdvance \/ SortSeek
  <2>1. /\ UNCHANGED <<chain, cursors, alive, ret>> /\ Sorting
        /\ \/ op' = [op EXCEPT !.name = "place", !.at = HeadPtr]
           \/ op.name = "sort" /\ op' = [op EXCEPT !.back = op.pp, !.pp = mem[op.pp]]
           \/ op.name = "place" /\ op' = [op EXCEPT !.at = mem[@]]
    BY <1>11 DEF SortAdvance, SortSeek, Sorting
  <2>2. op'.name \in {"sort", "place"}
    BY <2>1 DEF IndInv, TypeOK
  <2>3. Sorting' = Sorting
    BY <2>1, <2>2 DEF Sorting
  <2> QED
    BY <2>1, <2>3, LoopStutters
<1>12. CASE SortPlace
  BY <1>12, ShiftIs
<1>13. CASE SortEnd
  BY <1>13, EndLog
<1> QED
  BY <1>1, <1>2, <1>3, <1>4, <1>5, <1>6, <1>7, <1>8, <1>9, <1>10, <1>11, <1>12, <1>13 DEF Next

\* While a sort is under way, what is behind it is in order, and the node to be placed
\* belongs behind all that the search for its place has passed.
THEOREM SortInOrder == Spec => []OrderInv
<1>1. Init => OrderInv
  BY DEF Init, OrderInv, Sorting, Idle
<1> QED
  BY <1>1, Inductive, OrderStep, PTL DEF Spec

\* Every operation of a list, through any iterators and any sorts, is one of the sequence
\* with iterators of ListLog: what each iterator returns, what it may remove, what a sort
\* may move. That is what list.h promises but for the exception ListLog names Forgets:
\* an iterator has no last item once the item it would return next has been removed
\* (list.c:716; list.h:249, 266).
THEOREM ListIsLog == Spec => IsListLog
<1>1. Init => OwnInv
  BY DEF Init, OwnInv
<1>2. IndInv /\ IndInv' /\ OwnInv /\ OrderInv /\ [Next]_vars => [Log!Next]_(Log!logVars)
  <2> SUFFICES ASSUME IndInv, IndInv', OwnInv, OrderInv, [Next]_vars
               PROVE  [Log!Next]_(Log!logVars)
    OBVIOUS
  <2>1. LogOperation \/ Log!Shift \/ Log!EndSort \/ UNCHANGED LogView
    BY LogStep
  <2>2. CASE LogOperation \/ Log!Shift \/ Log!EndSort
    BY <2>2 DEF LogOperation, Log!Next
  <2>3. CASE UNCHANGED LogView
    BY <2>3 DEF LogView, Log!logVars, AheadOf, LastItem
  <2> QED
    BY <2>1, <2>2, <2>3
<1>3. Spec => []OwnInv
  BY <1>1, Inductive, OwnStep, PTL DEF Spec
<1> QED
  BY <1>2, <1>3, Inductive, SortInOrder, LogInit, PTL DEF Spec, IsListLog, Log!Spec
=============================================================================
