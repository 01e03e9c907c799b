------------------------ MODULE KeyedRowsOperations ------------------------
(***************************************************************************)
(* What the operations of KeyedRows make of the rows, for any keys, values,*)
(* limits and graphs.                                                      *)
(*                                                                         *)
(* World says what holds of a runtime between any two steps of an          *)
(* operation: the page holds the nodes of its rows and nothing else, and   *)
(* every row has its owners.  Each step on one row (update, insert, drop,  *)
(* relocate, refresh) keeps it.  An operation is a walk over such steps;   *)
(* Climb follows a walk by a predicate of how far it has come.             *)
(*                                                                         *)
(* What a whole operation comes to is in ReconcileLoopIs, of an array, and *)
(* in DeltaUpdateIs and its like, of a delta.  An array needs that the     *)
(* rows of the reorder plan stand in one order before and after, and that  *)
(* there are no longer plans: ReorderPlanIs.                               *)
(***************************************************************************)
EXTENDS KeyedRows, FiniteSetTheorems, WellFoundedInduction, SequenceTheorems, TLAPS

(***************************************************************************)
(* Numbers                                                                 *)
(***************************************************************************)

\* The order on the numbers as a set of pairs, which WFMin takes.
Less == { pair \in Nat \X Nat : pair[1] < pair[2] }

LEMMA LeastNumber ==
  ASSUME NEW S \in SUBSET Nat, S # {}
  PROVE  \E least \in S : \A n \in S : least <= n
  <1>1. IsWellFoundedOn(Less, Nat)
    <2>1. OpToRel(<, Nat) = Less
      BY Zenon DEF OpToRel, Less
    <2>. QED
      BY <2>1, NatLessThanWellFounded, Zenon
  <1>2. PICK m \in S : \A n \in S : ~ (<<n, m>> \in Less)
    BY <1>1, WFMin
  <1>3. \A n \in S : m <= n
    <2>. SUFFICES ASSUME NEW n \in S PROVE m <= n
      OBVIOUS
    <2>1. <<n, m>> \in Nat \X Nat /\ ~ (n < m)
      BY <1>2 DEF Less
    <2>. QED
      BY <2>1
  <1>. QED
    BY <1>3

\* A set that holds 0 and with each number below n the next one holds all of
\* them: there is no least one that it lacks.  The loops of this module are
\* followed with it, one step after the other.
LEMMA Climb ==
  ASSUME NEW n \in Nat, NEW S, 0 \in S, \A i \in 0 .. n - 1 : i \in S => i + 1 \in S
  PROVE  \A i \in 0 .. n : i \in S
  <1>. SUFFICES ASSUME NEW j \in 0 .. n, j \notin S PROVE FALSE
    OBVIOUS
  <1>1. PICK Lacks \in SUBSET Nat : Lacks = { i \in 0 .. n : i \notin S }
    <2>1. { i \in 0 .. n : i \notin S } \in SUBSET Nat
      OBVIOUS
    <2>. QED
      BY <2>1
  <1>2. PICK least \in Lacks : \A i \in Lacks : least <= i
    BY <1>1, LeastNumber
  <1>3. least \in 0 .. n /\ least \notin S /\ least # 0
    BY <1>1, <1>2
  <1>4. least - 1 \in 0 .. n - 1 /\ least - 1 \in S
    BY <1>1, <1>2, <1>3
  <1>5. least - 1 + 1 = least
    BY <1>3
  <1>. QED
    BY <1>3, <1>4, <1>5

\* The same from the last number down.
LEMMA Greatest ==
  ASSUME NEW b \in Nat, NEW S \in SUBSET (0 .. b), S # {}
  PROVE  \E greatest \in S : \A n \in S : n <= greatest
  <1>1. PICK Below \in SUBSET Nat : Below = { b - n : n \in S }
    <2>1. { b - n : n \in S } \in SUBSET Nat
      OBVIOUS
    <2>. QED
      BY <2>1
  <1>2. PICK least \in Below : \A n \in Below : least <= n
    <2>1. Below # {}
      BY <1>1
    <2>. QED
      BY <2>1, LeastNumber
  <1>3. PICK m \in S : least = b - m
    BY <1>1, <1>2
  <1>4. ASSUME NEW n \in S PROVE n <= m
    <2>1. b - n \in Below /\ n \in 0 .. b /\ m \in 0 .. b
      BY <1>1
    <2>2. b - m <= b - n
      BY <1>2, <1>3, <2>1
    <2>. QED
      BY <2>1, <2>2
  <1>. QED
    BY <1>4

(***************************************************************************)
(* Sequences as orders of their elements                                   *)
(***************************************************************************)

\* x stands before y.
Before(s, x, y) == \E i, j \in DOMAIN s : i < j /\ s[i] = x /\ s[j] = y

LEMMA SeqFacts ==
  ASSUME NEW X, NEW s \in Seq(X)
  PROVE  /\ Len(s) \in Nat /\ DOMAIN s = 1 .. Len(s)
         /\ \A i \in 1 .. Len(s) : s[i] \in X
         /\ s = [i \in 1 .. Len(s) |-> s[i]]
         /\ ToSet(s) \subseteq X
  <1>1. Len(s) \in Nat /\ DOMAIN s = 1 .. Len(s) /\ s \in [1 .. Len(s) -> X]
    BY LenProperties
  <1>. QED
    BY <1>1 DEF ToSet

LEMMA SeqMade ==
  ASSUME NEW n \in Nat, NEW X, NEW s, DOMAIN s = 1 .. n, s = [i \in 1 .. n |-> s[i]],
         \A i \in 1 .. n : s[i] \in X
  PROVE  s \in Seq(X) /\ Len(s) = n
  <1>1. s \in [1 .. n -> X]
    OBVIOUS
  <1>. QED
    BY <1>1, SeqDef

\* Two orders of one set that agree about each two of its elements are the same.
LEMMA SameOrder ==
  ASSUME NEW X, NEW s \in Seq(X), NEW t \in Seq(X), IsInjective(s), IsInjective(t),
         ToSet(s) = ToSet(t), \A x, y \in ToSet(s) : Before(s, x, y) => Before(t, x, y)
  PROVE  s = t
  <1>1. /\ Len(s) \in Nat /\ DOMAIN s = 1 .. Len(s) /\ s = [i \in 1 .. Len(s) |-> s[i]]
        /\ Len(t) \in Nat /\ DOMAIN t = 1 .. Len(t) /\ t = [i \in 1 .. Len(t) |-> t[i]]
    BY SeqFacts
  <1>2. \A i, j \in DOMAIN s : s[i] = s[j] => i = j
    BY DEF IsInjective
  <1>3. \A i, j \in DOMAIN t : t[i] = t[j] => i = j
    BY DEF IsInjective
  <1>4. /\ \A i \in DOMAIN s : s[i] \in ToSet(s) /\ \E j \in DOMAIN t : t[j] = s[i]
        /\ \A j \in DOMAIN t : t[j] \in ToSet(s) /\ \E i \in DOMAIN s : s[i] = t[j]
    <2>1. ToSet(s) = {s[i] : i \in DOMAIN s} /\ ToSet(t) = {t[i] : i \in DOMAIN t}
      BY DEF ToSet
    <2>. QED
      BY <2>1
  <1>5. ASSUME NEW x \in ToSet(s), NEW y \in ToSet(s), NEW i \in DOMAIN s, NEW j \in DOMAIN s,
               NEW a \in DOMAIN t, NEW b \in DOMAIN t,
               s[i] = x, s[j] = y, t[a] = x, t[b] = y, i < j
        PROVE  a < b
    <2>1. Before(s, x, y)
      BY <1>5 DEF Before
    <2>2. Before(t, x, y)
      BY <2>1
    <2>. QED
      BY <1>3, <1>5, <2>2 DEF Before
  <1>6. PICK Wrong \in SUBSET Nat :
          Wrong = { i \in DOMAIN s : i \notin DOMAIN t \/ s[i] # t[i] }
    <2>1. { i \in DOMAIN s : i \notin DOMAIN t \/ s[i] # t[i] } \in SUBSET Nat
      BY <1>1
    <2>. QED
      BY <2>1
  <1>7. Wrong = {}
    <2>. SUFFICES ASSUME Wrong # {} PROVE FALSE
      OBVIOUS
    <2>1. PICK i \in Wrong : \A k \in Wrong : i <= k
      BY LeastNumber
    <2>2. i \in DOMAIN s /\ (i \notin DOMAIN t \/ s[i] # t[i])
      BY <1>6, <2>1
    <2>3. \A k \in DOMAIN s : k < i => k \in DOMAIN t /\ s[k] = t[k]
      BY <1>1, <1>6, <2>1, <2>2
    <2>4. PICK j \in DOMAIN t : t[j] = s[i]
      BY <1>4, <2>2
    <2>5. i \in Nat /\ j \in Nat /\ 1 <= i /\ 1 <= j
      BY <1>1, <2>2, <2>4
    <2>6. ~ (j < i)
      <3>. SUFFICES ASSUME j < i PROVE FALSE
        OBVIOUS
      <3>1. j \in DOMAIN s
        BY <1>1, <2>2, <2>5
      <3>2. s[j] = t[j]
        BY <2>3, <3>1
      <3>. QED
        BY <1>2, <2>2, <2>4, <2>5, <3>1, <3>2
    <2>7. i < j
      BY <2>2, <2>4, <2>5, <2>6
    <2>8. i \in DOMAIN t
      BY <1>1, <2>4, <2>5, <2>7
    <2>9. PICK k \in DOMAIN s : s[k] = t[i]
      BY <1>4, <2>8
    <2>10. k \in Nat /\ k # i
      BY <1>1, <2>2, <2>8, <2>9
    <2>11. ~ (k < i)
      <3>. SUFFICES ASSUME k < i PROVE FALSE
        OBVIOUS
      <3>1. k \in DOMAIN t /\ t[k] = t[i]
        BY <2>3, <2>9
      <3>. QED
        BY <1>3, <2>5, <2>8, <2>10, <3>1
    <2>12. i < k
      BY <2>5, <2>10, <2>11
    <2>13. j < i
      <3>1. s[i] \in ToSet(s) /\ s[k] \in ToSet(s)
        BY <1>4, <2>2
      <3>. QED
        BY <1>5, <2>2, <2>4, <2>8, <2>9, <2>12, <3>1
    <2>. QED
      BY <2>6, <2>13
  <1>8. \A i \in DOMAIN s : i \in DOMAIN t /\ s[i] = t[i]
    BY <1>6, <1>7
  <1>9. Len(t) <= Len(s)
    <2>. SUFFICES ASSUME Len(s) < Len(t) PROVE FALSE
      BY <1>1
    <2>1. Len(s) + 1 \in DOMAIN t
      BY <1>1
    <2>2. PICK i \in DOMAIN s : s[i] = t[Len(s) + 1]
      BY <1>4, <2>1
    <2>3. i \in DOMAIN t /\ t[i] = t[Len(s) + 1]
      BY <1>8, <2>2
    <2>4. i = Len(s) + 1
      BY <1>3, <2>1, <2>3
    <2>. QED
      BY <1>1, <2>4
  <1>10. Len(s) <= Len(t)
    <2>1. CASE Len(s) = 0
      BY <1>1, <2>1
    <2>2. CASE Len(s) # 0
      <3>1. Len(s) \in DOMAIN s
        BY <1>1, <2>2
      <3>2. Len(s) \in DOMAIN t
        BY <1>8, <3>1
      <3>. QED
        BY <1>1, <3>2
    <2>. QED
      BY <2>1, <2>2
  <1>11. Len(s) = Len(t) /\ \A i \in 1 .. Len(s) : s[i] = t[i]
    <2>1. Len(s) \in Nat /\ Len(t) \in Nat
      BY <1>1
    <2>2. Len(s) = Len(t)
      BY ONLY <1>9, <1>10, <2>1
    <2>. QED
      BY <1>1, <1>8, <2>2
  <1>12. [i \in 1 .. Len(s) |-> s[i]] = [i \in 1 .. Len(s) |-> t[i]]
    BY <1>11
  <1>. QED
    BY ONLY <1>1, <1>11, <1>12

\* The function that Only defines, on the first n elements.
Keeps(f, n, seq, set) ==
  f = [i \in 0 .. n |-> IF i = 0 THEN << >>
                        ELSE IF seq[i] \in set THEN Append(f[i - 1], seq[i]) ELSE f[i - 1]]

LEMMA KeepsFurther ==
  ASSUME NEW seq, NEW set, NEW n \in Nat, NEW f, Keeps(f, n, seq, set)
  PROVE  \E g : Keeps(g, n + 1, seq, set)
  <1>1. \A i \in 0 .. n : f[i] = IF i = 0 THEN << >>
                                 ELSE IF seq[i] \in set THEN Append(f[i - 1], seq[i]) ELSE f[i - 1]
    BY DEF Keeps
  <1>2. PICK last : last = IF seq[n + 1] \in set THEN Append(f[n], seq[n + 1]) ELSE f[n]
    OBVIOUS
  <1>3. PICK g : g = [i \in 0 .. n + 1 |-> IF i = n + 1 THEN last ELSE f[i]]
    OBVIOUS
  <1>4. ASSUME NEW i \in 0 .. n + 1
        PROVE  g[i] = IF i = 0 THEN << >>
                      ELSE IF seq[i] \in set THEN Append(g[i - 1], seq[i]) ELSE g[i - 1]
    <2>1. CASE i = n + 1
      BY <1>2, <1>3, <2>1
    <2>2. CASE i # n + 1
      <3>1. i \in 0 .. n /\ g[i] = f[i]
        BY <1>3, <2>2
      <3>2. i # 0 => i - 1 \in 0 .. n + 1 /\ i - 1 # n + 1 /\ g[i - 1] = f[i - 1]
        BY <1>3, <3>1
      <3>. QED
        BY <1>1, <3>1, <3>2
    <2>. QED
      BY <2>1, <2>2
  <1>5. g = [i \in 0 .. n + 1 |-> IF i = 0 THEN << >>
                ELSE IF seq[i] \in set THEN Append(g[i - 1], seq[i]) ELSE g[i - 1]]
    BY ONLY <1>3, <1>4
  <1>. QED
    BY <1>5 DEF Keeps

LEMMA KeepsExists ==
  ASSUME NEW seq, NEW set, NEW n \in Nat
  PROVE  \E f : Keeps(f, n, seq, set)
  <1>1. PICK S : S = { i \in Nat : \E f : Keeps(f, i, seq, set) }
    OBVIOUS
  <1>2. 0 \in S
    <2>1. PICK f : f = [i \in 0 .. 0 |-> << >>]
      OBVIOUS
    <2>2. Keeps(f, 0, seq, set)
      BY <2>1 DEF Keeps
    <2>. QED
      BY <1>1, <2>2
  <1>3. \A i \in 0 .. n - 1 : i \in S => i + 1 \in S
    BY <1>1, KeepsFurther
  <1>4. n \in S
    BY <1>2, <1>3, Climb
  <1>. QED
    BY <1>1, <1>4

LEMMA OnlyKeeps ==
  ASSUME NEW seq, NEW set, Len(seq) \in Nat
  PROVE  \E f : /\ Only(seq, set) = f[Len(seq)] /\ f[0] = << >>
                /\ \A i \in 1 .. Len(seq) :
                     f[i] = IF seq[i] \in set THEN Append(f[i - 1], seq[i]) ELSE f[i - 1]
  <1>1. \E f : Keeps(f, Len(seq), seq, set)
    BY KeepsExists
  <1>2. PICK f : f = CHOOSE g : Keeps(g, Len(seq), seq, set)
    OBVIOUS
  <1>3. Keeps(f, Len(seq), seq, set)
    BY <1>1, <1>2
  <1>4. Only(seq, set) = f[Len(seq)]
    BY <1>2 DEF Only, Keeps
  <1>5. /\ f[0] = << >>
        /\ \A i \in 1 .. Len(seq) :
             f[i] = IF seq[i] \in set THEN Append(f[i - 1], seq[i]) ELSE f[i - 1]
    <2>1. PICK n \in Nat : n = Len(seq)
      OBVIOUS
    <2>2. \A i \in 0 .. n : f[i] = IF i = 0 THEN << >>
                ELSE IF seq[i] \in set THEN Append(f[i - 1], seq[i]) ELSE f[i - 1]
      BY <1>3, <2>1 DEF Keeps
    <2>3. /\ f[0] = << >>
          /\ \A i \in 1 .. n :
               f[i] = IF seq[i] \in set THEN Append(f[i - 1], seq[i]) ELSE f[i - 1]
      <3>1. 0 \in 0 .. n /\ \A i \in 1 .. n : i \in 0 .. n /\ i # 0
        OBVIOUS
      <3>. QED
        BY <2>2, <3>1
    <2>. QED
      BY <2>1, <2>3
  <1>. QED
    BY <1>4, <1>5

\* The places of a sequence whose elements are in a set, in order.
Places(e, m, P) ==
  /\ e \in [1 .. m -> P]
  /\ \A a, b \in 1 .. m : a < b => e[a] < e[b]
  /\ \A i \in P : \E a \in 1 .. m : e[a] = i

\* Of the first k elements r holds those in the set.
Held(r, k, seq, set, X) ==
  \E m \in Nat : \E e :
     /\ Places(e, m, {i \in 1 .. k : seq[i] \in set})
     /\ r \in Seq(X) /\ Len(r) = m
     /\ \A a \in 1 .. m : r[a] = seq[e[a]]

LEMMA OnlyIs ==
  ASSUME NEW X, NEW seq \in Seq(X), NEW set
  PROVE  Held(Only(seq, set), Len(seq), seq, set, X)
  <1>1. /\ Len(seq) \in Nat /\ DOMAIN seq = 1 .. Len(seq)
        /\ \A i \in 1 .. Len(seq) : seq[i] \in X
    BY SeqFacts
  <1>2. PICK f : /\ Only(seq, set) = f[Len(seq)] /\ f[0] = << >>
                 /\ \A i \in 1 .. Len(seq) :
                      f[i] = IF seq[i] \in set THEN Append(f[i - 1], seq[i]) ELSE f[i - 1]
    BY <1>1, OnlyKeeps, SMTT(30)
  <1>3. PICK S : S = { k \in 0 .. Len(seq) : Held(f[k], k, seq, set, X) }
    OBVIOUS
  <1>4. 0 \in S
    <2>1. PICK e : e = [a \in 1 .. 0 |-> 0]
      OBVIOUS
    <2>2. {i \in 1 .. 0 : seq[i] \in set} = {}
      OBVIOUS
    <2>3. Places(e, 0, {i \in 1 .. 0 : seq[i] \in set})
      BY <2>1, <2>2 DEF Places
    <2>4. f[0] \in Seq(X) /\ Len(f[0]) = 0 /\ 1 .. 0 = {}
      BY <1>2, EmptySeq
    <2>5. Held(f[0], 0, seq, set, X)
      BY <2>3, <2>4 DEF Held
    <2>. QED
      BY <1>1, <1>3, <2>5
  <1>5. ASSUME NEW k \in 0 .. Len(seq) - 1, k \in S
        PROVE  k + 1 \in S
    <2>1. PICK m \in Nat : \E e :
            /\ Places(e, m, {i \in 1 .. k : seq[i] \in set})
            /\ f[k] \in Seq(X) /\ Len(f[k]) = m
            /\ \A a \in 1 .. m : f[k][a] = seq[e[a]]
      BY <1>3, <1>5 DEF Held
    <2>2. PICK e :
            /\ Places(e, m, {i \in 1 .. k : seq[i] \in set})
            /\ f[k] \in Seq(X) /\ Len(f[k]) = m
            /\ \A a \in 1 .. m : f[k][a] = seq[e[a]]
      BY <2>1
    <2>3. k \in Nat /\ k + 1 \in 1 .. Len(seq) /\ k + 1 - 1 = k
      BY <1>1
    <2>4. f[k + 1] = IF seq[k + 1] \in set THEN Append(f[k], seq[k + 1]) ELSE f[k]
      BY <1>2, <2>3
    <2>5. PICK P : P = {i \in 1 .. k : seq[i] \in set}
      OBVIOUS
    <2>6. PICK Q : Q = {i \in 1 .. k + 1 : seq[i] \in set}
      OBVIOUS
    <2>7. CASE seq[k + 1] \notin set
      <3>1. P = Q
        BY <2>3, <2>5, <2>6, <2>7
      <3>2. Held(f[k + 1], k + 1, seq, set, X)
        <4>1. f[k + 1] = f[k] /\ Q = {i \in 1 .. k + 1 : seq[i] \in set}
          BY <2>4, <2>6, <2>7
        <4>2. Places(e, m, Q)
          BY <2>2, <2>5, <3>1
        <4>3. f[k + 1] \in Seq(X) /\ Len(f[k + 1]) = m
              /\ \A a \in 1 .. m : f[k + 1][a] = seq[e[a]]
          BY Zenon, <2>2, <4>1
        <4>. QED
          BY Zenon, <2>6, <4>2, <4>3 DEF Held
      <3>. QED
        BY <1>3, <2>3, <3>2
    <2>8. CASE seq[k + 1] \in set
      <3>1. Q = P \cup {k + 1} /\ \A i \in P : i < k + 1
        BY <2>3, <2>5, <2>6, <2>8
      <3>2. PICK g : g = [a \in 1 .. m + 1 |-> IF a = m + 1 THEN k + 1 ELSE e[a]]
        OBVIOUS
      <3>3. /\ e \in [1 .. m -> P] /\ \A a, b \in 1 .. m : a < b => e[a] < e[b]
            /\ \A i \in P : \E a \in 1 .. m : e[a] = i
        BY <2>2, <2>5 DEF Places
      <3>4. \A a \in 1 .. m : a \in 1 .. m + 1 /\ g[a] = e[a] /\ g[a] \in P
        BY <3>2, <3>3
      <3>5. m + 1 \in 1 .. m + 1 /\ g[m + 1] = k + 1
        BY <3>2
      <3>6. g \in [1 .. m + 1 -> Q]
        BY <3>1, <3>2, <3>3
      <3>7. \A a, b \in 1 .. m + 1 : a < b => g[a] < g[b]
        BY <3>1, <3>3, <3>4, <3>5
      <3>8. \A i \in Q : \E a \in 1 .. m + 1 : g[a] = i
        BY <3>1, <3>3, <3>4, <3>5
      <3>9. Places(g, m + 1, Q)
        BY <3>6, <3>7, <3>8 DEF Places
      <3>10. /\ f[k + 1] \in Seq(X) /\ Len(f[k + 1]) = m + 1
             /\ \A a \in 1 .. m : f[k + 1][a] = f[k][a]
             /\ f[k + 1][m + 1] = seq[k + 1]
        BY <1>1, <2>2, <2>3, <2>4, <2>8, AppendProperties
      <3>11. \A a \in 1 .. m + 1 : f[k + 1][a] = seq[g[a]]
        BY <2>2, <3>4, <3>5, <3>10
      <3>12. Held(f[k + 1], k + 1, seq, set, X)
        <4>1. m + 1 \in Nat
          OBVIOUS
        <4>. QED
          BY Zenon, <2>6, <3>9, <3>10, <3>11, <4>1 DEF Held
      <3>. QED
        BY <1>3, <2>3, <3>12
    <2>. QED
      BY <2>7, <2>8
  <1>6. Len(seq) \in S
    <2>1. PICK n \in Nat : n = Len(seq)
      BY <1>1, Zenon
    <2>2. \A k \in 0 .. n - 1 : k \in S => k + 1 \in S
      BY <1>5, <2>1
    <2>3. n \in S
      <3>1. \A i \in 0 .. n : i \in S
        BY ONLY <1>4, <2>2, n \in Nat, Climb
      <3>. QED
        BY <3>1
    <2>. QED
      BY <2>1, <2>3
  <1>7. Held(f[Len(seq)], Len(seq), seq, set, X)
    BY <1>3, <1>6
  <1>. QED
    BY Zenon, <1>2, <1>7

\* What is left of an order is the same order.
LEMMA OnlyTells ==
  ASSUME NEW X, NEW seq \in Seq(X), NEW set
  PROVE  /\ Only(seq, set) \in Seq(X)
         /\ ToSet(Only(seq, set)) = ToSet(seq) \cap set
         /\ IsInjective(seq) => IsInjective(Only(seq, set))
         /\ \A x, y \in set : Before(Only(seq, set), x, y) <=> Before(seq, x, y)
  <1>1. PICK P : P = {i \in DOMAIN seq : seq[i] \in set}
    OBVIOUS
  <1>2. PICK m \in Nat : \E e :
           /\ Places(e, m, P)
           /\ Only(seq, set) \in Seq(X) /\ Len(Only(seq, set)) = m
           /\ \A a \in 1 .. m : Only(seq, set)[a] = seq[e[a]]
    <2>1. Held(Only(seq, set), Len(seq), seq, set, X)
      BY OnlyIs
    <2>2. P = {i \in 1 .. Len(seq) : seq[i] \in set}
      BY <1>1, SeqFacts
    <2>. QED
      BY Zenon, <2>1, <2>2 DEF Held
  <1>3. PICK e :
           /\ Places(e, m, P)
           /\ Only(seq, set) \in Seq(X) /\ Len(Only(seq, set)) = m
           /\ \A a \in 1 .. m : Only(seq, set)[a] = seq[e[a]]
    BY <1>2
  <1>4. PICK r : r = Only(seq, set)
    OBVIOUS
  <1>5. /\ e \in [1 .. m -> P] /\ \A a, b \in 1 .. m : a < b => e[a] < e[b]
        /\ \A i \in P : \E a \in 1 .. m : e[a] = i
    BY <1>3 DEF Places
  <1>6. DOMAIN r = 1 .. m /\ \A a \in 1 .. m : r[a] = seq[e[a]]
    BY <1>3, <1>4, LenProperties
  <1>7. P \subseteq Nat
    BY <1>1, SeqFacts
  <1>8. ToSet(r) = ToSet(seq) \cap set
    <2>1. ASSUME NEW x \in ToSet(r) PROVE x \in ToSet(seq) \cap set
      <3>1. PICK a \in 1 .. m : x = r[a]
        BY <1>6 DEF ToSet
      <3>2. e[a] \in P /\ x = seq[e[a]]
        BY <1>5, <1>6, <3>1
      <3>. QED
        BY <1>1, <3>2 DEF ToSet
    <2>2. ASSUME NEW x \in ToSet(seq) \cap set PROVE x \in ToSet(r)
      <3>1. PICK i \in DOMAIN seq : x = seq[i]
        BY DEF ToSet
      <3>2. PICK a \in 1 .. m : e[a] = i
        BY <1>1, <1>5, <3>1
      <3>. QED
        BY <1>6, <3>1, <3>2 DEF ToSet
    <2>. QED
      BY <2>1, <2>2
  <1>9. \A a, b \in 1 .. m : e[a] = e[b] => a = b
    <2>. SUFFICES ASSUME NEW a \in 1 .. m, NEW b \in 1 .. m, e[a] = e[b], a # b PROVE FALSE
      OBVIOUS
    <2>1. e[a] \in P /\ e[b] \in P /\ (a < b \/ b < a)
      BY <1>5
    <2>2. e[a] \in Nat /\ e[b] \in Nat
      BY <1>7, <2>1
    <2>. QED
      BY <1>5, <2>1, <2>2
  <1>10. IsInjective(seq) => IsInjective(r)
    BY <1>1, <1>5, <1>6, <1>9 DEF IsInjective
  <1>11. ASSUME NEW x \in set, NEW y \in set, Before(r, x, y) PROVE Before(seq, x, y)
    <2>1. PICK a, b \in 1 .. m : a < b /\ r[a] = x /\ r[b] = y
      BY <1>6, <1>11 DEF Before
    <2>2. e[a] \in DOMAIN seq /\ e[b] \in DOMAIN seq /\ e[a] < e[b]
          /\ seq[e[a]] = x /\ seq[e[b]] = y
      BY <1>1, <1>5, <1>6, <2>1
    <2>. QED
      BY <2>2 DEF Before
  <1>12. ASSUME NEW x \in set, NEW y \in set, Before(seq, x, y) PROVE Before(r, x, y)
    <2>1. PICK i, j \in DOMAIN seq : i < j /\ seq[i] = x /\ seq[j] = y
      BY <1>12 DEF Before
    <2>2. PICK a \in 1 .. m : e[a] = i
      BY <1>1, <1>5, <2>1
    <2>3. PICK b \in 1 .. m : e[b] = j
      BY <1>1, <1>5, <2>1
    <2>4. ~ (b <= a)
      <3>. SUFFICES ASSUME b <= a PROVE FALSE
        OBVIOUS
      <3>1. i \in Nat /\ j \in Nat
        BY <1>1, <1>7, <2>1
      <3>2. b = a \/ b < a
        OBVIOUS
      <3>. QED
        BY <1>5, <2>1, <2>2, <2>3, <3>1, <3>2
    <2>5. a < b /\ r[a] = x /\ r[b] = y
      BY <1>6, <2>1, <2>2, <2>3, <2>4
    <2>. QED
      BY <1>6, <2>5 DEF Before
  <1>. QED
    BY <1>3, <1>4, <1>8, <1>10, <1>11, <1>12
LEMMA MinIs ==
  ASSUME NEW S \in SUBSET Nat, S # {}
  PROVE  Min(S) \in S /\ \A i \in S : Min(S) <= i
  <1>1. PICK least \in S : \A i \in S : least <= i
    BY LeastNumber
  <1>. QED
    BY <1>1 DEF Min

LEMMA MaxIs ==
  ASSUME NEW b \in Nat, NEW S \in SUBSET (0 .. b), S # {}
  PROVE  Max(S) \in S /\ \A i \in S : i <= Max(S)
  <1>1. PICK greatest \in S : \A i \in S : i <= greatest
    BY Greatest
  <1>2. \A i \in S : greatest >= i
    BY <1>1
  <1>3. Max(S) \in S /\ \A i \in S : Max(S) >= i
    BY <1>2 DEF Max
  <1>4. \A i \in S : i \in Nat /\ Max(S) \in Nat
    <2>1. Max(S) \in 0 .. b /\ \A i \in S : i \in 0 .. b
      BY <1>3
    <2>. QED
      BY <2>1
  <1>. QED
    BY <1>3, <1>4

\* At gives the first place of an element, and 0 for one that is not there.
LEMMA AtIs ==
  ASSUME NEW X, NEW s \in Seq(X), NEW x
  PROVE  /\ x \in ToSet(s) =>
              At(s, x) \in 1 .. Len(s) /\ s[At(s, x)] = x /\ Contains(s, x)
         /\ x \notin ToSet(s) => At(s, x) = 0 /\ ~ Contains(s, x)
         /\ At(s, x) \in Nat
  <1>1. Len(s) \in Nat /\ DOMAIN s = 1 .. Len(s)
    BY SeqFacts
  <1>2. PICK I \in SUBSET Nat : I = { i \in 1 .. Len(s) : s[i] = x }
    <2>1. { i \in 1 .. Len(s) : s[i] = x } \in SUBSET Nat
      BY <1>1
    <2>. QED
      BY <2>1
  <1>3. At(s, x) = IF I # {} THEN Min(I) ELSE 0
    BY <1>2 DEF At, SelectInSeq
  <1>4. x \in ToSet(s) <=> I # {}
    BY <1>1, <1>2 DEF ToSet
  <1>5. Contains(s, x) <=> I # {}
    BY <1>2 DEF Contains
  <1>6. I # {} => Min(I) \in I
    BY MinIs
  <1>. QED
    BY <1>2, <1>3, <1>4, <1>5, <1>6

LEMMA AtPlace ==
  ASSUME NEW X, NEW s \in Seq(X), IsInjective(s), NEW i \in DOMAIN s
  PROVE  At(s, s[i]) = i
  <1>1. s[i] \in ToSet(s)
    BY DEF ToSet
  <1>2. At(s, s[i]) \in DOMAIN s /\ s[At(s, s[i])] = s[i]
    BY <1>1, AtIs, SeqFacts
  <1>. QED
    BY <1>2 DEF IsInjective

\* r is s with y put at place p.
Inserted(r, s, p, y) ==
  /\ p \in 1 .. Len(s) + 1
  /\ Len(r) = Len(s) + 1
  /\ r[p] = y
  /\ \A i \in 1 .. p - 1 : r[i] = s[i]
  /\ \A i \in p .. Len(s) : r[i + 1] = s[i]

LEMMA InsertAtIs ==
  ASSUME NEW X, NEW s \in Seq(X), NEW y \in X, NEW p \in 1 .. Len(s)
  PROVE  InsertAt(s, p, y) \in Seq(X) /\ Inserted(InsertAt(s, p, y), s, p, y)
  <1>1. Len(s) \in Nat /\ \A i \in 1 .. Len(s) : s[i] \in X
    BY SeqFacts
  <1>2. PICK left : left = SubSeq(s, 1, p - 1)
    OBVIOUS
  <1>3. PICK right : right = SubSeq(s, p, Len(s))
    OBVIOUS
  <1>4. left \in Seq(X) /\ Len(left) = p - 1 /\ \A i \in 1 .. p - 1 : left[i] = s[i]
    BY <1>1, <1>2, SubSeqProperties
  <1>5. right \in Seq(X) /\ Len(right) = Len(s) - p + 1
        /\ \A i \in 1 .. Len(s) - p + 1 : right[i] = s[p + i - 1]
    BY <1>1, <1>3, SubSeqProperties
  <1>6. PICK mid : mid = left \o <<y>>
    OBVIOUS
  <1>7. <<y>> \in Seq(X) /\ Len(<<y>>) = 1 /\ <<y>>[1] = y
    OBVIOUS
  <1>8. mid \in Seq(X) /\ Len(mid) = p /\ mid[p] = y /\ \A i \in 1 .. p - 1 : mid[i] = s[i]
    <2>1. mid \in Seq(X) /\ Len(mid) = Len(left) + Len(<<y>>)
          /\ \A i \in 1 .. Len(left) + Len(<<y>>) :
               mid[i] = IF i <= Len(left) THEN left[i] ELSE <<y>>[i - Len(left)]
      BY <1>4, <1>6, <1>7, ConcatProperties
    <2>2. Len(left) + Len(<<y>>) = p /\ p \in Nat /\ p - Len(left) = 1
      BY <1>4, <1>7
    <2>3. \A i \in 1 .. p - 1 : i \in 1 .. p /\ i <= Len(left)
      BY <1>4, <2>2
    <2>4. p \in 1 .. p /\ ~ (p <= Len(left))
      BY <1>4, <2>2
    <2>. QED
      BY <1>4, <1>7, <2>1, <2>2, <2>3, <2>4
  <1>9. PICK all : all = mid \o right
    OBVIOUS
  <1>10. all \in Seq(X) /\ Len(all) = Len(s) + 1
    <2>1. all \in Seq(X) /\ Len(all) = Len(mid) + Len(right)
      BY <1>5, <1>8, <1>9, ConcatProperties
    <2>2. Len(mid) + Len(right) = Len(s) + 1
      BY <1>1, <1>5, <1>8
    <2>. QED
      BY <2>1, <2>2
  <1>11. \A i \in 1 .. p : all[i] = mid[i]
    BY <1>1, <1>5, <1>8, <1>9, ConcatProperties
  <1>12. \A i \in p .. Len(s) : all[i + 1] = s[i]
    <2>. SUFFICES ASSUME NEW i \in p .. Len(s) PROVE all[i + 1] = s[i]
      OBVIOUS
    <2>1. i + 1 - p \in 1 .. Len(s) - p + 1 /\ p + (i + 1 - p) - 1 = i
          /\ i + 1 \in 1 .. Len(mid) + Len(right) /\ i + 1 > Len(mid)
      BY <1>1, <1>5, <1>8
    <2>2. all[i + 1] = right[i + 1 - Len(mid)]
      BY <1>5, <1>8, <1>9, <2>1, ConcatProperties
    <2>. QED
      BY <1>5, <1>8, <2>1, <2>2
  <1>13. InsertAt(s, p, y) = all
    BY <1>2, <1>3, <1>6, <1>9 DEF InsertAt
  <1>14. p \in 1 .. Len(s) + 1 /\ p \in 1 .. p /\ \A i \in 1 .. p - 1 : i \in 1 .. p
    BY <1>1
  <1>. QED
    BY <1>8, <1>10, <1>11, <1>12, <1>13, <1>14 DEF Inserted

LEMMA AppendIs ==
  ASSUME NEW X, NEW s \in Seq(X), NEW y \in X
  PROVE  Append(s, y) \in Seq(X) /\ Inserted(Append(s, y), s, Len(s) + 1, y)
  <1>1. Len(s) \in Nat
    BY SeqFacts
  <1>2. /\ Append(s, y) \in Seq(X) /\ Len(Append(s, y)) = Len(s) + 1
        /\ \A i \in 1 .. Len(s) : Append(s, y)[i] = s[i]
        /\ Append(s, y)[Len(s) + 1] = y
    BY AppendProperties
  <1>. QED
    BY <1>1, <1>2 DEF Inserted

\* Where the elements of s and the new one stand.
LEMMA InsertedTells ==
  ASSUME NEW X, NEW s \in Seq(X), NEW r \in Seq(X), NEW p, NEW y,
         Inserted(r, s, p, y), IsInjective(s), y \notin ToSet(s)
  PROVE  /\ ToSet(r) = ToSet(s) \cup {y}
         /\ IsInjective(r)
         /\ \A u, v \in ToSet(s) : Before(r, u, v) <=> Before(s, u, v)
         /\ \A u : Before(r, u, y) <=> \E i \in 1 .. p - 1 : s[i] = u
         /\ \A u : Before(r, y, u) <=> \E i \in p .. Len(s) : s[i] = u
  <1>1. /\ Len(s) \in Nat /\ DOMAIN s = 1 .. Len(s) /\ Len(r) \in Nat /\ DOMAIN r = 1 .. Len(r)
        /\ Len(r) = Len(s) + 1 /\ p \in 1 .. Len(s) + 1
    BY SeqFacts DEF Inserted
  <1>2. PICK n \in Nat : n = Len(s)
    BY <1>1, Zenon
  <1>3. PICK to : to = [i \in 1 .. n |-> IF i < p THEN i ELSE i + 1]
    OBVIOUS
  <1>4. p \in 1 .. n + 1 /\ DOMAIN s = 1 .. n /\ DOMAIN r = 1 .. n + 1
    BY <1>1, <1>2
  <1>5. /\ \A i \in 1 .. n : to[i] \in 1 .. n + 1 /\ to[i] # p /\ r[to[i]] = s[i]
        /\ r[p] = y
    BY <1>2, <1>3, <1>4 DEF Inserted
  <1>6. \A i, j \in 1 .. n : i < j <=> to[i] < to[j]
    BY <1>3, <1>4
  <1>7. \A k \in 1 .. n + 1 : k # p => \E i \in 1 .. n : to[i] = k
    <2>. SUFFICES ASSUME NEW k \in 1 .. n + 1, k # p PROVE \E i \in 1 .. n : to[i] = k
      OBVIOUS
    <2>1. CASE k < p
      BY <1>3, <1>4, <2>1
    <2>2. CASE k > p
      <3>1. k - 1 \in 1 .. n /\ to[k - 1] = k
        BY <1>3, <1>4, <2>2
      <3>. QED
        BY <3>1
    <2>. QED
      BY <1>4, <2>1, <2>2
  <1>8. \A i \in 1 .. n : (to[i] < p <=> i \in 1 .. p - 1) /\ (p < to[i] <=> i \in p .. n)
    BY <1>3, <1>4
  <1>9. \A i \in 1 .. n : s[i] \in ToSet(s) /\ s[i] # y
    BY <1>4 DEF ToSet
  <1>10. \A i, j \in 1 .. n : s[i] = s[j] => i = j
    BY <1>4 DEF IsInjective
  <1>11. \A k \in 1 .. n + 1 : r[k] = y <=> k = p
    BY <1>5, <1>7, <1>9
  <1>12. ToSet(r) = ToSet(s) \cup {y}
    <2>1. ASSUME NEW u \in ToSet(r) PROVE u \in ToSet(s) \cup {y}
      <3>1. PICK k \in 1 .. n + 1 : r[k] = u
        BY <1>4 DEF ToSet
      <3>. QED
        BY <1>5, <1>7, <1>9, <3>1
    <2>2. ASSUME NEW u \in ToSet(s) PROVE u \in ToSet(r)
      <3>1. PICK i \in 1 .. n : s[i] = u
        BY <1>4 DEF ToSet
      <3>2. to[i] \in DOMAIN r /\ r[to[i]] = u
        BY <1>4, <1>5, <3>1
      <3>. QED
        BY <3>2 DEF ToSet
    <2>3. y \in ToSet(r)
      BY <1>4, <1>5 DEF ToSet
    <2>. QED
      BY <2>1, <2>2, <2>3
  <1>13. IsInjective(r)
    <2>. SUFFICES ASSUME NEW k \in 1 .. n + 1, NEW l \in 1 .. n + 1, r[k] = r[l] PROVE k = l
      BY <1>4 DEF IsInjective
    <2>1. CASE k = p \/ l = p
      BY <1>5, <1>11, <2>1
    <2>2. CASE k # p /\ l # p
      <3>1. PICK i \in 1 .. n : to[i] = k
        BY <1>7, <2>2
      <3>2. PICK j \in 1 .. n : to[j] = l
        BY <1>7, <2>2
      <3>. QED
        BY <1>5, <1>10, <3>1, <3>2
    <2>. QED
      BY <2>1, <2>2
  <1>14. ASSUME NEW u \in ToSet(s), NEW v \in ToSet(s)
         PROVE  Before(r, u, v) <=> Before(s, u, v)
    <2>1. ASSUME Before(r, u, v) PROVE Before(s, u, v)
      <3>1. PICK k, l \in 1 .. n + 1 : k < l /\ r[k] = u /\ r[l] = v
        BY <1>4, <2>1 DEF Before
      <3>2. k # p /\ l # p
        BY <1>11, <3>1
      <3>3. PICK i \in 1 .. n : to[i] = k
        BY <1>7, <3>2
      <3>4. PICK j \in 1 .. n : to[j] = l
        BY <1>7, <3>2
      <3>5. i < j /\ s[i] = u /\ s[j] = v
        BY <1>5, <1>6, <3>1, <3>3, <3>4
      <3>. QED
        BY <1>4, <3>5 DEF Before
    <2>2. ASSUME Before(s, u, v) PROVE Before(r, u, v)
      <3>1. PICK i, j \in 1 .. n : i < j /\ s[i] = u /\ s[j] = v
        BY <1>4, <2>2 DEF Before
      <3>2. to[i] < to[j] /\ r[to[i]] = u /\ r[to[j]] = v /\ to[i] \in DOMAIN r /\ to[j] \in DOMAIN r
        BY <1>4, <1>5, <1>6, <3>1
      <3>. QED
        BY <3>2 DEF Before
    <2>. QED
      BY <2>1, <2>2
  <1>15. ASSUME NEW u
         PROVE  Before(r, u, y) <=> \E i \in 1 .. p - 1 : s[i] = u
    <2>1. ASSUME Before(r, u, y) PROVE \E i \in 1 .. p - 1 : s[i] = u
      <3>1. PICK k, l \in 1 .. n + 1 : k < l /\ r[k] = u /\ r[l] = y
        BY <1>4, <2>1 DEF Before
      <3>2. l = p /\ k # p
        BY <1>11, <3>1
      <3>3. PICK i \in 1 .. n : to[i] = k
        BY <1>7, <3>2
      <3>. QED
        BY <1>5, <1>8, <3>1, <3>2, <3>3
    <2>2. ASSUME NEW i \in 1 .. p - 1, s[i] = u PROVE Before(r, u, y)
      <3>1. i \in 1 .. n
        BY <1>4
      <3>2. to[i] < p /\ r[to[i]] = u /\ to[i] \in DOMAIN r /\ p \in DOMAIN r
        BY <1>4, <1>5, <1>8, <2>2, <3>1
      <3>. QED
        BY <1>5, <3>2 DEF Before
    <2>. QED
      BY <2>1, <2>2
  <1>16. ASSUME NEW u
         PROVE  Before(r, y, u) <=> \E i \in p .. n : s[i] = u
    <2>1. ASSUME Before(r, y, u) PROVE \E i \in p .. n : s[i] = u
      <3>1. PICK k, l \in 1 .. n + 1 : k < l /\ r[k] = y /\ r[l] = u
        BY <1>4, <2>1 DEF Before
      <3>2. k = p /\ l # p
        BY <1>11, <3>1
      <3>3. PICK i \in 1 .. n : to[i] = l
        BY <1>7, <3>2
      <3>. QED
        BY <1>5, <1>8, <3>1, <3>2, <3>3
    <2>2. ASSUME NEW i \in p .. n, s[i] = u PROVE Before(r, y, u)
      <3>1. i \in 1 .. n
        BY <1>4
      <3>2. p < to[i] /\ r[to[i]] = u /\ to[i] \in DOMAIN r /\ p \in DOMAIN r
        BY <1>4, <1>5, <1>8, <2>2, <3>1
      <3>. QED
        BY <1>5, <3>2 DEF Before
    <2>. QED
      BY <2>1, <2>2
  <1>. QED
    BY <1>2, <1>12, <1>13, <1>14, <1>15, <1>16

(***************************************************************************)
(* Operations: step after step                                              *)
(***************************************************************************)

\* The fold over the steps of an operation.
Performs(it, n, rt, steps) ==
  it = [s \in SUBSET (1 .. n) |->
          IF s = {} THEN rt ELSE DoUnlessFailed(it[s \ {Max(s)}], steps[Max(s)])]

LEMMA PerformsFurther ==
  ASSUME NEW rt, NEW steps, NEW n \in Nat, NEW it, Performs(it, n, rt, steps)
  PROVE  \E next : Performs(next, n + 1, rt, steps)
  <1>1. \A s \in SUBSET (1 .. n) :
          it[s] = IF s = {} THEN rt ELSE DoUnlessFailed(it[s \ {Max(s)}], steps[Max(s)])
    BY Zenon DEF Performs
  <1>2. PICK g : g = [s \in SUBSET (1 .. n + 1) |->
                        IF n + 1 \in s THEN DoUnlessFailed(it[s \ {n + 1}], steps[n + 1])
                        ELSE it[s]]
    OBVIOUS
  <1>3. \A s \in SUBSET (1 .. n + 1) :
          /\ n + 1 \in s => g[s] = DoUnlessFailed(it[s \ {n + 1}], steps[n + 1])
          /\ n + 1 \notin s => g[s] = it[s]
    BY <1>2
  <1>4. ASSUME NEW s \in SUBSET (1 .. n + 1), s # {}
        PROVE  Max(s) \in s /\ (n + 1 \in s => Max(s) = n + 1)
    <2>1. s \in SUBSET (0 .. n + 1) /\ n + 1 \in Nat
      OBVIOUS
    <2>2. Max(s) \in s /\ \A i \in s : i <= Max(s)
      BY <1>4, <2>1, MaxIs
    <2>3. Max(s) \in 1 .. n + 1
      BY <2>2
    <2>4. ASSUME n + 1 \in s PROVE Max(s) = n + 1
      <3>1. n + 1 <= Max(s)
        BY <2>2, <2>4
      <3>. QED
        BY ONLY <2>3, <3>1, n \in Nat
    <2>. QED
      BY <2>2, <2>4
  <1>5. ASSUME NEW s \in SUBSET (1 .. n + 1)
        PROVE  g[s] = IF s = {} THEN rt ELSE DoUnlessFailed(g[s \ {Max(s)}], steps[Max(s)])
    <2>1. CASE n + 1 \in s
      <3>1. Max(s) = n + 1 /\ s # {}
        BY <1>4, <2>1
      <3>2. s \ {n + 1} \in SUBSET (1 .. n + 1) /\ n + 1 \notin s \ {n + 1}
        OBVIOUS
      <3>3. g[s \ {n + 1}] = it[s \ {n + 1}]
        BY <1>3, <3>2
      <3>. QED
        BY <1>3, <2>1, <3>1, <3>3
    <2>2. CASE n + 1 \notin s
      <3>1. s \in SUBSET (1 .. n) /\ g[s] = it[s]
        BY <1>3, <2>2
      <3>2. CASE s = {}
        BY <1>1, <3>1, <3>2
      <3>3. CASE s # {}
        <4>1. s \ {Max(s)} \in SUBSET (1 .. n + 1) /\ n + 1 \notin s \ {Max(s)}
          BY <2>2
        <4>2. g[s \ {Max(s)}] = it[s \ {Max(s)}]
          BY <1>3, <4>1
        <4>. QED
          BY <1>1, <3>1, <3>3, <4>2
      <3>. QED
        BY <3>2, <3>3
    <2>. QED
      BY <2>1, <2>2
  <1>6. g = [s \in SUBSET (1 .. n + 1) |->
               IF s = {} THEN rt ELSE DoUnlessFailed(g[s \ {Max(s)}], steps[Max(s)])]
    BY ONLY <1>2, <1>5
  <1>. QED
    BY Zenon, <1>6 DEF Performs

LEMMA PerformsExists ==
  ASSUME NEW rt, NEW steps, NEW n \in Nat
  PROVE  \E it : Performs(it, n, rt, steps)
  <1>1. PICK S : S = { i \in Nat : \E it : Performs(it, i, rt, steps) }
    OBVIOUS
  <1>2. 0 \in S
    <2>1. PICK it : it = [s \in SUBSET (1 .. 0) |-> rt]
      OBVIOUS
    <2>2. SUBSET (1 .. 0) = {{}}
      OBVIOUS
    <2>3. \A s \in SUBSET (1 .. 0) :
            rt = IF s = {} THEN rt ELSE DoUnlessFailed(it[s \ {Max(s)}], steps[Max(s)])
      BY <2>2
    <2>4. it = [s \in SUBSET (1 .. 0) |->
                  IF s = {} THEN rt ELSE DoUnlessFailed(it[s \ {Max(s)}], steps[Max(s)])]
      BY ONLY <2>1, <2>3
    <2>5. Performs(it, 0, rt, steps)
      BY Zenon, <2>4 DEF Performs
    <2>. QED
      BY <1>1, <2>5
  <1>3. \A i \in 0 .. n - 1 : i \in S => i + 1 \in S
    BY <1>1, PerformsFurther
  <1>4. n \in S
    BY <1>2, <1>3, Climb
  <1>. QED
    BY <1>1, <1>4

\* a is what it goes through.
Trace(a, n, rt, steps) ==
  /\ a[0] = rt
  /\ \A i \in 1 .. n : a[i] = DoUnlessFailed(a[i - 1], steps[i])

LEMMA PerformRuns ==
  ASSUME NEW rt, NEW steps, NEW n \in Nat, DOMAIN steps = 1 .. n
  PROVE  \E a : Trace(a, n, rt, steps) /\ Perform(rt, steps) = a[n]
  <1>1. PICK it : it = CHOOSE f : Performs(f, n, rt, steps)
    OBVIOUS
  <1>2. Performs(it, n, rt, steps)
    BY <1>1, PerformsExists
  <1>3. Perform(rt, steps) = it[1 .. n]
    <2>1. Perform(rt, steps) = (CHOOSE f : f = [s \in SUBSET (DOMAIN steps) |->
             IF s = {} THEN rt ELSE DoUnlessFailed(f[s \ {Max(s)}], steps[Max(s)])])[DOMAIN steps]
      BY Zenon DEF Perform, FoldLeft, MapThenFoldSet
    <2>. QED
      BY <1>1, <2>1 DEF Performs
  <1>4. \A s \in SUBSET (1 .. n) :
          it[s] = IF s = {} THEN rt ELSE DoUnlessFailed(it[s \ {Max(s)}], steps[Max(s)])
    BY Zenon, <1>2 DEF Performs
  <1>5. PICK a : a = [i \in 0 .. n |-> it[1 .. i]]
    OBVIOUS
  <1>6. a[0] = rt
    <2>1. 0 \in 0 .. n /\ 1 .. 0 = {} /\ {} \in SUBSET (1 .. n)
      OBVIOUS
    <2>. QED
      BY <1>4, <1>5, <2>1
  <1>7. ASSUME NEW i \in 1 .. n PROVE a[i] = DoUnlessFailed(a[i - 1], steps[i])
    <2>1. 1 .. i \in SUBSET (1 .. n) /\ 1 .. i # {} /\ 1 .. i \in SUBSET (0 .. i) /\ i \in Nat
      <3>1. i \in Nat /\ i \in 1 .. i
        OBVIOUS
      <3>2. \A j \in 1 .. i : j \in 1 .. n /\ j \in 0 .. i
        OBVIOUS
      <3>. QED
        BY ONLY <3>1, <3>2
    <2>2. Max(1 .. i) \in 1 .. i /\ \A j \in 1 .. i : j <= Max(1 .. i)
      BY <2>1, MaxIs
    <2>3. Max(1 .. i) = i
      BY <2>1, <2>2
    <2>4. (1 .. i) \ {i} = 1 .. i - 1
      OBVIOUS
    <2>5. it[1 .. i] = DoUnlessFailed(it[1 .. i - 1], steps[i])
      BY <1>4, <2>1, <2>3, <2>4
    <2>. QED
      BY <1>5, <2>5
  <1>8. a[n] = it[1 .. n]
    BY <1>5
  <1>. QED
    BY <1>3, <1>6, <1>7, <1>8 DEF Trace

(***************************************************************************)
(* Deltas: one after the other                                              *)
(***************************************************************************)

\* The same for the deltas of a snapshot.
Applies(it, n, rt, steps) ==
  it = [s \in SUBSET (1 .. n) |->
          IF s = {} THEN rt ELSE ApplyUnlessFailed(it[s \ {Max(s)}], steps[Max(s)])]

LEMMA AppliesFurther ==
  ASSUME NEW rt, NEW steps, NEW n \in Nat, NEW it, Applies(it, n, rt, steps)
  PROVE  \E next : Applies(next, n + 1, rt, steps)
  <1>1. \A s \in SUBSET (1 .. n) :
          it[s] = IF s = {} THEN rt ELSE ApplyUnlessFailed(it[s \ {Max(s)}], steps[Max(s)])
    BY Zenon DEF Applies
  <1>2. PICK g : g = [s \in SUBSET (1 .. n + 1) |->
                        IF n + 1 \in s THEN ApplyUnlessFailed(it[s \ {n + 1}], steps[n + 1])
                        ELSE it[s]]
    OBVIOUS
  <1>3. \A s \in SUBSET (1 .. n + 1) :
          /\ n + 1 \in s => g[s] = ApplyUnlessFailed(it[s \ {n + 1}], steps[n + 1])
          /\ n + 1 \notin s => g[s] = it[s]
    BY <1>2
  <1>4. ASSUME NEW s \in SUBSET (1 .. n + 1), s # {}
        PROVE  Max(s) \in s /\ (n + 1 \in s => Max(s) = n + 1)
    <2>1. s \in SUBSET (0 .. n + 1) /\ n + 1 \in Nat
      OBVIOUS
    <2>2. Max(s) \in s /\ \A i \in s : i <= Max(s)
      BY <1>4, <2>1, MaxIs
    <2>3. Max(s) \in 1 .. n + 1
      BY <2>2
    <2>4. ASSUME n + 1 \in s PROVE Max(s) = n + 1
      <3>1. n + 1 <= Max(s)
        BY <2>2, <2>4
      <3>. QED
        BY ONLY <2>3, <3>1, n \in Nat
    <2>. QED
      BY <2>2, <2>4
  <1>5. ASSUME NEW s \in SUBSET (1 .. n + 1)
        PROVE  g[s] = IF s = {} THEN rt ELSE ApplyUnlessFailed(g[s \ {Max(s)}], steps[Max(s)])
    <2>1. CASE n + 1 \in s
      <3>1. Max(s) = n + 1 /\ s # {}
        BY <1>4, <2>1
      <3>2. s \ {n + 1} \in SUBSET (1 .. n + 1) /\ n + 1 \notin s \ {n + 1}
        OBVIOUS
      <3>3. g[s \ {n + 1}] = it[s \ {n + 1}]
        BY <1>3, <3>2
      <3>. QED
        BY <1>3, <2>1, <3>1, <3>3
    <2>2. CASE n + 1 \notin s
      <3>1. s \in SUBSET (1 .. n) /\ g[s] = it[s]
        BY <1>3, <2>2
      <3>2. CASE s = {}
        BY <1>1, <3>1, <3>2
      <3>3. CASE s # {}
        <4>1. s \ {Max(s)} \in SUBSET (1 .. n + 1) /\ n + 1 \notin s \ {Max(s)}
          BY <2>2
        <4>2. g[s \ {Max(s)}] = it[s \ {Max(s)}]
          BY <1>3, <4>1
        <4>. QED
          BY <1>1, <3>1, <3>3, <4>2
      <3>. QED
        BY <3>2, <3>3
    <2>. QED
      BY <2>1, <2>2
  <1>6. g = [s \in SUBSET (1 .. n + 1) |->
               IF s = {} THEN rt ELSE ApplyUnlessFailed(g[s \ {Max(s)}], steps[Max(s)])]
    BY ONLY <1>2, <1>5
  <1>. QED
    BY Zenon, <1>6 DEF Applies

LEMMA AppliesExists ==
  ASSUME NEW rt, NEW steps, NEW n \in Nat
  PROVE  \E it : Applies(it, n, rt, steps)
  <1>1. PICK S : S = { i \in Nat : \E it : Applies(it, i, rt, steps) }
    OBVIOUS
  <1>2. 0 \in S
    <2>1. PICK it : it = [s \in SUBSET (1 .. 0) |-> rt]
      OBVIOUS
    <2>2. SUBSET (1 .. 0) = {{}}
      OBVIOUS
    <2>3. \A s \in SUBSET (1 .. 0) :
            rt = IF s = {} THEN rt ELSE ApplyUnlessFailed(it[s \ {Max(s)}], steps[Max(s)])
      BY <2>2
    <2>4. it = [s \in SUBSET (1 .. 0) |->
                  IF s = {} THEN rt ELSE ApplyUnlessFailed(it[s \ {Max(s)}], steps[Max(s)])]
      BY ONLY <2>1, <2>3
    <2>5. Applies(it, 0, rt, steps)
      BY Zenon, <2>4 DEF Applies
    <2>. QED
      BY <1>1, <2>5
  <1>3. \A i \in 0 .. n - 1 : i \in S => i + 1 \in S
    BY <1>1, AppliesFurther
  <1>4. n \in S
    BY <1>2, <1>3, Climb
  <1>. QED
    BY <1>1, <1>4

\* a is what it goes through.
DeltaTrace(a, n, rt, steps) ==
  /\ a[0] = rt
  /\ \A i \in 1 .. n : a[i] = ApplyUnlessFailed(a[i - 1], steps[i])

LEMMA ApplyDeltasRuns ==
  ASSUME NEW rt, NEW steps, NEW n \in Nat, DOMAIN steps = 1 .. n
  PROVE  \E a : DeltaTrace(a, n, rt, steps) /\ ApplyDeltas(rt, steps) = a[n]
  <1>1. PICK it : it = CHOOSE f : Applies(f, n, rt, steps)
    OBVIOUS
  <1>2. Applies(it, n, rt, steps)
    BY <1>1, AppliesExists
  <1>3. ApplyDeltas(rt, steps) = it[1 .. n]
    <2>1. ApplyDeltas(rt, steps) = (CHOOSE f : f = [s \in SUBSET (DOMAIN steps) |->
             IF s = {} THEN rt ELSE ApplyUnlessFailed(f[s \ {Max(s)}], steps[Max(s)])])[DOMAIN steps]
      BY Zenon DEF ApplyDeltas, FoldLeft, MapThenFoldSet
    <2>. QED
      BY <1>1, <2>1 DEF Applies
  <1>4. \A s \in SUBSET (1 .. n) :
          it[s] = IF s = {} THEN rt ELSE ApplyUnlessFailed(it[s \ {Max(s)}], steps[Max(s)])
    BY Zenon, <1>2 DEF Applies
  <1>5. PICK a : a = [i \in 0 .. n |-> it[1 .. i]]
    OBVIOUS
  <1>6. a[0] = rt
    <2>1. 0 \in 0 .. n /\ 1 .. 0 = {} /\ {} \in SUBSET (1 .. n)
      OBVIOUS
    <2>. QED
      BY <1>4, <1>5, <2>1
  <1>7. ASSUME NEW i \in 1 .. n PROVE a[i] = ApplyUnlessFailed(a[i - 1], steps[i])
    <2>1. 1 .. i \in SUBSET (1 .. n) /\ 1 .. i # {} /\ 1 .. i \in SUBSET (0 .. i) /\ i \in Nat
      <3>1. i \in Nat /\ i \in 1 .. i
        OBVIOUS
      <3>2. \A j \in 1 .. i : j \in 1 .. n /\ j \in 0 .. i
        OBVIOUS
      <3>. QED
        BY ONLY <3>1, <3>2
    <2>2. Max(1 .. i) \in 1 .. i /\ \A j \in 1 .. i : j <= Max(1 .. i)
      BY <2>1, MaxIs
    <2>3. Max(1 .. i) = i
      BY <2>1, <2>2
    <2>4. (1 .. i) \ {i} = 1 .. i - 1
      OBVIOUS
    <2>5. it[1 .. i] = ApplyUnlessFailed(it[1 .. i - 1], steps[i])
      BY <1>4, <2>1, <2>3, <2>4
    <2>. QED
      BY <1>5, <2>5
  <1>8. a[n] = it[1 .. n]
    BY <1>5
  <1>. QED
    BY <1>3, <1>6, <1>7, <1>8 DEF DeltaTrace

(***************************************************************************)
(* Rows, tokens and owners                                                 *)
(***************************************************************************)

Shaped(r) ==
  r = [order |-> r.order, rows |-> r.rows, children |-> r.children, flag |-> r.flag,
       collection |-> r.collection, live |-> r.live, budget |-> r.budget,
       listeners |-> r.listeners, requests |-> r.requests, taken |-> r.taken,
       moves |-> r.moves, error |-> r.error]

RowShaped(row) ==
  /\ row = [values |-> row.values, text |-> row.text, generation |-> row.generation,
            region |-> row.region]
  /\ row.region = [selected |-> row.region.selected, shows |-> row.region.shows,
                   generation |-> row.region.generation]
RowIsTyped(row) ==
  /\ row.values \in AnyRow
  /\ row.generation \in Nat
  /\ row.region.generation \in Nat
  /\ row.region.selected \in BOOLEAN
RowOK(key, row) == RowShaped(row) /\ RowIsTyped(row) /\ row.values.id = key

\* The listeners of a row are there, there are no others of its key, and none
\* of its key waits.
Owned(r, key) == OwnersOf(key, r.rows[key]) \subseteq r.listeners \cup r.requests
OwnedOnly(r, key) ==
  \A o \in r.listeners \cup r.requests : o[1] = key => o \in OwnersOf(key, r.rows[key])
Quiet(r, key) == \A o \in r.requests : o[1] # key

FiniteSets(r) ==
  IsFiniteSet(r.listeners) /\ IsFiniteSet(r.requests) /\ IsFiniteSet(r.taken)

\* An operation on one row: it leaves the order, the page and the other rows
\* alone, and the nodes of the row where they are.
OtherFields(r, n) ==
  /\ Shaped(n) /\ n.order = r.order /\ n.children = r.children /\ n.flag = r.flag
  /\ n.collection = r.collection /\ n.live = r.live /\ n.budget = r.budget
  /\ n.moves = r.moves /\ n.error = r.error
OtherOwners(r, n, key) ==
  \A o : o[1] # key => /\ o \in n.listeners <=> o \in r.listeners
                       /\ o \in n.requests <=> o \in r.requests
OtherRows(r, n, key) ==
  /\ DOMAIN n.rows = DOMAIN r.rows
  /\ \A k \in DOMAIN r.rows : k # key => n.rows[k] = r.rows[k]
Touch(r, n, key) ==
  /\ OtherFields(r, n) /\ OtherOwners(r, n, key) /\ OtherRows(r, n, key)
  /\ RowOK(key, n.rows[key]) /\ n.rows[key].generation = r.rows[key].generation
  /\ FiniteSets(n)

\* What an operation on one row makes of its listeners.
OwnersFollow(r, n, key) ==
  /\ Owned(r, key) => Owned(n, key)
  /\ OwnedOnly(r, key) /\ Quiet(r, key) => OwnedOnly(n, key)

\* A row as a record of known values, and the same of its region.
LEMMA RowFields ==
  ASSUME NEW row, NEW key, RowOK(key, row)
  PROVE  /\ row = [values |-> row.values, text |-> row.text, generation |-> row.generation,
                   region |-> row.region]
         /\ row.region = [selected |-> row.region.selected, shows |-> row.region.shows,
                          generation |-> row.region.generation]
         /\ row.values \in AnyRow /\ row.generation \in Nat /\ row.region.generation \in Nat
         /\ row.region.selected \in BOOLEAN /\ row.values.id = key
  BY DEF RowOK, RowShaped, RowIsTyped

LEMMA RowMade ==
  ASSUME NEW key, NEW row, NEW values \in AnyRow, values.id = key, NEW text, NEW shows,
         NEW generation \in Nat, NEW inner \in Nat, NEW selected \in BOOLEAN,
         row = [values |-> values, text |-> text, generation |-> generation,
                region |-> [selected |-> selected, shows |-> shows, generation |-> inner]]
  PROVE  RowOK(key, row)
  <1>1. row.values = values /\ row.text = text /\ row.generation = generation
        /\ row.region = [selected |-> selected, shows |-> shows, generation |-> inner]
    OBVIOUS
  <1>2. row.region.selected = selected /\ row.region.shows = shows
        /\ row.region.generation = inner
    BY <1>1
  <1>. QED
    BY <1>1, <1>2 DEF RowOK, RowShaped, RowIsTyped

LEMMA SelectsIsBoolean ==
  ASSUME setup \in Setups, NEW rt, rt.flag \in BOOLEAN, NEW values \in AnyRow, NEW index
  PROVE  Selects(rt, values, index) \in BOOLEAN
  <1>1. setup.test \in {"on", "s", "index"}
    BY GraphsAreTyped
  <1>2. values.on \in BOOLEAN /\ values["on"] = values.on
    BY DEF AnyRow
  <1>3. CASE setup.test = "index"
    BY <1>3 DEF Selects
  <1>4. CASE setup.test = "s"
    <2>1. Value(rt, "s", values, index) = rt.flag
      BY DEF Value
    <2>. QED
      BY <1>4, <2>1 DEF Selects
  <1>5. CASE setup.test = "on"
    <2>1. Value(rt, "on", values, index) = values["on"]
      BY DEF Value
    <2>. QED
      BY <1>2, <1>5, <2>1 DEF Selects
  <1>. QED
    BY <1>1, <1>3, <1>4, <1>5

\* There is a generation of the key that is not taken, at most as many as are
\* taken at all.
LEMMA GenerationIsNat ==
  ASSUME NEW taken, IsFiniteSet(taken), NEW key
  PROVE  NewGeneration(taken, key) \in Nat
  <1>1. PICK c \in Nat : c = Cardinality(taken)
    BY FS_CardinalityType
  <1>2. PICK Free \in SUBSET Nat : Free = { g \in 0 .. c : <<key, g>> \notin taken }
    <2>1. { g \in 0 .. c : <<key, g>> \notin taken } \in SUBSET Nat
      OBVIOUS
    <2>. QED
      BY <2>1
  <1>3. Free # {}
    <2>. SUFFICES ASSUME Free = {} PROVE FALSE
      OBVIOUS
    <2>1. \A g \in 0 .. c : <<key, g>> \in taken
      BY <1>2
    <2>2. PICK f : f = [g \in 0 .. c |-> <<key, g>>]
      OBVIOUS
    <2>3. f \in [0 .. c -> taken]
      BY <2>1, <2>2
    <2>4. IsFiniteSet(0 .. c) /\ Cardinality(0 .. c) = c + 1
      BY FS_Interval
    <2>5. \E a, b \in 0 .. c : a # b /\ f[a] = f[b]
      BY <1>1, <2>3, <2>4, FS_PigeonHole
    <2>. QED
      BY <2>2, <2>5
  <1>4. PICK g \in Free : \A h \in Free : g <= h
    BY <1>3, LeastNumber
  <1>5. g \in 0 .. c /\ <<key, g>> \notin taken
    BY <1>2, <1>4
  <1>6. \A lower \in 0 .. g - 1 : <<key, lower>> \in taken
    BY <1>2, <1>4, <1>5
  <1>7. \E h \in 0 .. Cardinality(taken) :
          /\ <<key, h>> \notin taken
          /\ \A lower \in 0 .. h - 1 : <<key, lower>> \in taken
    BY <1>1, <1>5, <1>6
  <1>8. NewGeneration(taken, key) \in 0 .. Cardinality(taken)
    BY <1>7 DEF NewGeneration
  <1>. QED
    BY <1>1, <1>8

\* The owners of a row are its element and, when it is there, its branch.
LEMMA OwnersAre ==
  ASSUME NEW key, NEW row, RowOK(key, row)
  PROVE  /\ \A o : o \in OwnersOf(key, row) <=>
                     \/ o = RowOwner(key, row)
                     \/ row.region.selected /\ o = BranchOwner(key, row)
         /\ \A o \in OwnersOf(key, row) : o[1] = key
         /\ RowOwner(key, row)[1] = key /\ BranchOwner(key, row)[1] = key
         /\ RowOwner(key, row) # BranchOwner(key, row)
         /\ BranchOwner(key, row)[2] = row.generation /\ RowOwner(key, row)[2] = row.generation
  <1>1. row.region.generation \in Nat /\ row.region.selected \in BOOLEAN
    BY RowFields
  <1>2. row.region.generation # -1
    BY <1>1
  <1>3. \A o : o \in OwnersOf(key, row) <=>
                     \/ o = RowOwner(key, row)
                     \/ row.region.selected /\ o = BranchOwner(key, row)
    BY <1>1 DEF OwnersOf
  <1>4. /\ RowOwner(key, row)[1] = key /\ BranchOwner(key, row)[1] = key
        /\ BranchOwner(key, row)[2] = row.generation /\ RowOwner(key, row)[2] = row.generation
    BY DEF RowOwner, BranchOwner
  <1>5. RowOwner(key, row) # BranchOwner(key, row)
    BY <1>2 DEF RowOwner, BranchOwner
  <1>. QED
    BY <1>3, <1>4, <1>5

(***************************************************************************)
(* One row                                                                 *)
(***************************************************************************)

LEMMA FiniteUnion ==
  ASSUME NEW S, NEW T, IsFiniteSet(S), IsFiniteSet(T)
  PROVE  IsFiniteSet(S \cup T)
  BY FS_Union

\* The owners of other keys are neither added nor removed.
LEMMA QueueIs ==
  ASSUME NEW r, NEW owners, Shaped(r)
  PROVE  /\ OtherFields(r, Queue(r, owners))
         /\ Queue(r, owners).rows = r.rows /\ Queue(r, owners).taken = r.taken
         /\ Queue(r, owners).listeners = r.listeners
         /\ Queue(r, owners).requests = r.requests \cup (owners \ r.listeners)
  <1>1. PICK n : n = [order |-> r.order, rows |-> r.rows, children |-> r.children, flag |-> r.flag,
       collection |-> r.collection, live |-> r.live, budget |-> r.budget,
       listeners |-> r.listeners, requests |-> r.requests \cup (owners \ r.listeners),
       taken |-> r.taken, moves |-> r.moves, error |-> r.error]
    OBVIOUS
  <1>2. Queue(r, owners) = n
    BY <1>1 DEF Queue, Shaped
  <1>. QED
    BY <1>1, <1>2 DEF OtherFields, Shaped

\* The row of a key has another value.
LEMMA RowPut ==
  ASSUME NEW r, Shaped(r), NEW key \in DOMAIN r.rows, NEW row, NEW n,
         n = [r EXCEPT !.rows[key] = row]
  PROVE  /\ OtherFields(r, n) /\ OtherRows(r, n, key) /\ n.rows[key] = row
         /\ n.listeners = r.listeners /\ n.requests = r.requests /\ n.taken = r.taken
  <1>1. PICK rows : rows = [r.rows EXCEPT ![key] = row]
    OBVIOUS
  <1>2. n = [order |-> r.order, rows |-> rows, children |-> r.children, flag |-> r.flag,
       collection |-> r.collection, live |-> r.live, budget |-> r.budget,
       listeners |-> r.listeners, requests |-> r.requests,
       taken |-> r.taken, moves |-> r.moves, error |-> r.error]
    BY <1>1 DEF Shaped
  <1>3. DOMAIN rows = DOMAIN r.rows /\ rows[key] = row
        /\ \A k \in DOMAIN r.rows : k # key => rows[k] = r.rows[k]
    BY <1>1
  <1>4. n.rows = rows
    BY <1>2
  <1>5. OtherRows(r, n, key)
    BY <1>3, <1>4 DEF OtherRows
  <1>6. OtherFields(r, n)
    BY <1>2 DEF OtherFields, Shaped
  <1>. QED
    BY <1>2, <1>3, <1>4, <1>5, <1>6

\* A region that changes sides: what is left of its listeners is its own.
LEMMA ReconcileBranchIs ==
  ASSUME NEW r, Shaped(r), FiniteSets(r), NEW key \in DOMAIN r.rows, RowOK(key, r.rows[key]),
         NEW selected \in BOOLEAN, NEW n, n = ReconcileBranch(r, key, selected)
  PROVE  /\ Touch(r, n, key)
         /\ OwnersFollow(r, n, key)
         /\ n.rows[key].values = r.rows[key].values /\ n.rows[key].text = r.rows[key].text
         /\ n.rows[key].region.selected = selected
         /\ r.rows[key].region.selected = selected => n = r
         /\ r.rows[key].region.selected # selected => n.rows[key].region.shows = {}
  <1>1. PICK row : row = r.rows[key]
    OBVIOUS
  <1>2. RowOK(key, row)
    BY <1>1
  <1>3. /\ row = [values |-> row.values, text |-> row.text, generation |-> row.generation,
                  region |-> row.region]
        /\ row.values \in AnyRow /\ row.generation \in Nat /\ row.values.id = key
    BY <1>2, RowFields
  <1>4. CASE row.region.selected = selected
    <2>1. n = r
      BY <1>1, <1>4 DEF ReconcileBranch
    <2>2. Touch(r, n, key)
      BY <1>1, <1>2, <2>1 DEF Touch, OtherFields, OtherOwners, OtherRows
    <2>3. OwnersFollow(r, n, key)
      BY <2>1 DEF OwnersFollow
    <2>. QED
      BY <1>1, <1>4, <2>1, <2>2, <2>3
  <1>5. CASE row.region.selected # selected
    <2>1. PICK generation \in Nat : generation = NewGeneration(r.taken, key)
      BY GenerationIsNat DEF FiniteSets
    <2>2. PICK region : region = [selected |-> selected, shows |-> {}, generation |-> generation]
      OBVIOUS
    <2>3. PICK next : next = [row EXCEPT !.region = region]
      OBVIOUS
    <2>4. next = [values |-> row.values, text |-> row.text, generation |-> row.generation,
                  region |-> region]
      BY <1>3, <2>3
    <2>5. RowOK(key, next) /\ next.values = row.values /\ next.text = row.text
          /\ next.generation = row.generation /\ next.region = region
      <3>1. next = [values |-> row.values, text |-> row.text, generation |-> row.generation,
                    region |-> [selected |-> selected, shows |-> {}, generation |-> generation]]
        BY <2>2, <2>4
      <3>2. RowOK(key, next)
        BY <1>3, <3>1, RowMade
      <3>. QED
        BY <2>4, <3>2
    <2>6. next.region.selected = selected /\ next.region.shows = {}
      BY <2>2, <2>5
    <2>7. PICK base : base = [r EXCEPT !.rows[key] = next,
                                       !.listeners = @ \ {BranchOwner(key, row)},
                                       !.taken = @ \cup {<<key, generation>>}]
      OBVIOUS
    <2>8. PICK owners : owners = IF selected THEN {BranchOwner(key, next)} ELSE {}
      OBVIOUS
    <2>9. n = Queue(base, owners)
      BY <1>1, <1>5, <2>1, <2>2, <2>3, <2>7, <2>8 DEF ReconcileBranch
    <2>10. /\ OtherFields(r, base) /\ OtherRows(r, base, key) /\ base.rows[key] = next
           /\ base.listeners = r.listeners \ {BranchOwner(key, row)}
           /\ base.requests = r.requests /\ base.taken = r.taken \cup {<<key, generation>>}
      <3>1. PICK rows : rows = [r.rows EXCEPT ![key] = next]
        OBVIOUS
      <3>2. base = [order |-> r.order, rows |-> rows, children |-> r.children, flag |-> r.flag,
             collection |-> r.collection, live |-> r.live, budget |-> r.budget,
             listeners |-> r.listeners \ {BranchOwner(key, row)}, requests |-> r.requests,
             taken |-> r.taken \cup {<<key, generation>>}, moves |-> r.moves, error |-> r.error]
        BY <2>7, <3>1 DEF Shaped
      <3>3. DOMAIN rows = DOMAIN r.rows /\ rows[key] = next
            /\ \A k \in DOMAIN r.rows : k # key => rows[k] = r.rows[k]
        BY <3>1
      <3>4. base.rows = rows
        BY <3>2
      <3>5. OtherRows(r, base, key)
        BY <3>3, <3>4 DEF OtherRows
      <3>6. OtherFields(r, base)
        BY <3>2 DEF OtherFields, Shaped
      <3>. QED
        BY <3>2, <3>3, <3>4, <3>5, <3>6
    <2>11. /\ OtherFields(base, n) /\ n.rows = base.rows /\ n.taken = base.taken
           /\ n.listeners = base.listeners
           /\ n.requests = base.requests \cup (owners \ base.listeners)
      <3>1. Shaped(base)
        BY <2>10 DEF OtherFields
      <3>. QED
        BY <2>9, <3>1, QueueIs
    <2>12. OtherFields(r, n)
      BY <2>10, <2>11 DEF OtherFields
    <2>13. OtherRows(r, n, key) /\ n.rows[key] = next
      BY <2>10, <2>11 DEF OtherRows
    <2>14. /\ n.listeners = r.listeners \ {BranchOwner(key, row)}
           /\ n.requests = r.requests \cup (owners \ n.listeners)
      BY <2>10, <2>11
    <2>15. \A o \in owners : o[1] = key /\ o = BranchOwner(key, next) /\ selected
      BY <2>5, <2>8, OwnersAre
    <2>16. OtherOwners(r, n, key)
      BY <1>2, <2>14, <2>15, OwnersAre DEF OtherOwners
    <2>17. FiniteSets(n)
      <3>1. IsFiniteSet(owners)
        BY <2>8, FS_EmptySet, FS_Singleton
      <3>2. IsFiniteSet(owners \ n.listeners)
        BY <3>1, FS_Subset
      <3>3. IsFiniteSet(r.listeners) /\ IsFiniteSet(r.requests) /\ IsFiniteSet(r.taken)
        BY DEF FiniteSets
      <3>4. IsFiniteSet(n.listeners)
        BY <2>14, <3>3, FS_Subset
      <3>5. IsFiniteSet(n.requests)
        BY <2>14, <3>2, <3>3, FiniteUnion
      <3>6. IsFiniteSet(n.taken)
        <4>1. IsFiniteSet({<<key, generation>>})
          BY FS_Singleton
        <4>. QED
          BY <2>10, <2>11, <3>3, <4>1, FiniteUnion
      <3>. QED
        BY <3>4, <3>5, <3>6 DEF FiniteSets
    <2>18. RowOwner(key, next) = RowOwner(key, row)
      BY <2>5 DEF RowOwner
    <2>19. Touch(r, n, key)
      BY <1>1, <2>5, <2>12, <2>13, <2>16, <2>17 DEF Touch
    <2>20. ASSUME Owned(r, key) PROVE Owned(n, key)
      <3>. SUFFICES ASSUME NEW o \in OwnersOf(key, next) PROVE o \in n.listeners \cup n.requests
        BY <2>13 DEF Owned
      <3>1. CASE o = RowOwner(key, next)
        <4>1. RowOwner(key, row) \in r.listeners \cup r.requests
          BY <1>1, <1>2, <2>20, OwnersAre DEF Owned
        <4>2. RowOwner(key, row) # BranchOwner(key, row)
          BY <1>2, OwnersAre
        <4>. QED
          BY <2>14, <2>18, <3>1, <4>1, <4>2
      <3>2. CASE next.region.selected /\ o = BranchOwner(key, next)
        BY <2>6, <2>8, <2>14, <3>2
      <3>. QED
        BY <2>5, <3>1, <3>2, OwnersAre
    <2>21. ASSUME OwnedOnly(r, key), Quiet(r, key) PROVE OwnedOnly(n, key)
      <3>. SUFFICES ASSUME NEW o \in n.listeners \cup n.requests, o[1] = key
                    PROVE  o \in OwnersOf(key, next)
        BY <2>13 DEF OwnedOnly
      <3>1. CASE o \in n.listeners
        <4>1. o \in OwnersOf(key, row) /\ o # BranchOwner(key, row)
          BY <1>1, <2>14, <2>21, <3>1 DEF OwnedOnly
        <4>2. o = RowOwner(key, next)
          BY <1>2, <2>18, <4>1, OwnersAre
        <4>. QED
          BY <2>5, <4>2, OwnersAre
      <3>2. CASE o \in r.requests
        BY <2>21, <3>2 DEF Quiet
      <3>3. CASE o \in owners
        BY <2>5, <2>6, <2>15, <3>3, OwnersAre
      <3>. QED
        BY <2>14, <3>1, <3>2, <3>3
    <2>22. OwnersFollow(r, n, key)
      BY <2>20, <2>21 DEF OwnersFollow
    <2>. QED
      BY <1>1, <1>5, <2>5, <2>6, <2>13, <2>19, <2>22
  <1>. QED
    BY <1>4, <1>5

\* The nodes of a row that read what has changed are written, and only they.
LEMMA WriteBindingsIs ==
  ASSUME NEW r, Shaped(r), FiniteSets(r), NEW key \in DOMAIN r.rows, RowOK(key, r.rows[key]),
         NEW values \in AnyRow, values.id = key, NEW index, NEW what,
         NEW n, n = WriteBindings(r, key, values, index, what)
  PROVE  /\ Touch(r, n, key)
         /\ n.listeners = r.listeners /\ n.requests = r.requests
         /\ OwnersOf(key, n.rows[key]) = OwnersOf(key, r.rows[key])
         /\ n.rows[key].values = values
         /\ n.rows[key].text = IF setup.text \cap what # {}
                               THEN Shows(r, setup.text, values, index) ELSE r.rows[key].text
         /\ n.rows[key].region.selected = r.rows[key].region.selected
         /\ r.rows[key].region.selected =>
              n.rows[key].region.shows = IF setup.branch \cap what # {}
                                         THEN Shows(r, setup.branch, values, index)
                                         ELSE r.rows[key].region.shows
  <1>1. PICK row : row = r.rows[key]
    OBVIOUS
  <1>2. RowOK(key, row)
    BY <1>1
  <1>3. /\ row = [values |-> row.values, text |-> row.text, generation |-> row.generation,
                  region |-> row.region]
        /\ row.region = [selected |-> row.region.selected, shows |-> row.region.shows,
                         generation |-> row.region.generation]
        /\ row.region.generation \in Nat /\ row.generation \in Nat
        /\ row.region.selected \in BOOLEAN
    BY <1>2, RowFields
  <1>4. PICK text : text = IF setup.text \cap what # {}
                           THEN Shows(r, setup.text, values, index) ELSE row.text
    OBVIOUS
  <1>5. PICK branch : branch = IF setup.branch \cap what # {}
                               THEN Shows(r, setup.branch, values, index) ELSE row.region.shows
    OBVIOUS
  <1>6. PICK shows : shows = IF row.region.selected THEN branch ELSE {}
    OBVIOUS
  <1>7. PICK next : next = [row EXCEPT !.values = values, !.region.shows = shows, !.text = text]
    OBVIOUS
  <1>8. n = [r EXCEPT !.rows[key] = next]
    BY <1>1, <1>4, <1>5, <1>6, <1>7 DEF WriteBindings
  <1>9. PICK region : region = [selected |-> row.region.selected, shows |-> shows,
                                generation |-> row.region.generation]
    OBVIOUS
  <1>10. next = [values |-> values, text |-> text, generation |-> row.generation,
                 region |-> region]
    BY <1>7, <1>9, <1>3
  <1>11. RowOK(key, next) /\ next.values = values /\ next.text = text
         /\ next.generation = row.generation /\ next.region = region
    <2>1. next = [values |-> values, text |-> text, generation |-> row.generation,
                  region |-> [selected |-> row.region.selected, shows |-> shows,
                              generation |-> row.region.generation]]
      BY <1>9, <1>10
    <2>2. RowOK(key, next)
      BY <1>3, <2>1, RowMade
    <2>. QED
      BY <1>10, <2>2
  <1>12. next.region.selected = row.region.selected /\ next.region.shows = shows
         /\ next.region.generation = row.region.generation
    BY <1>9, <1>11
  <1>13. /\ OtherFields(r, n) /\ OtherRows(r, n, key) /\ n.rows[key] = next
         /\ n.listeners = r.listeners /\ n.requests = r.requests /\ n.taken = r.taken
    BY <1>8, RowPut
  <1>14. Touch(r, n, key)
    BY <1>1, <1>11, <1>13 DEF Touch, OtherOwners, FiniteSets
  <1>15. OwnersOf(key, next) = OwnersOf(key, row)
    BY <1>11, <1>12 DEF OwnersOf, RowOwner, BranchOwner
  <1>. QED
    BY <1>1, <1>4, <1>5, <1>6, <1>11, <1>12, <1>13, <1>14, <1>15

\* What a node shows depends on the state, the row and the index alone.
LEMMA SameShows ==
  ASSUME NEW a, NEW b, a.flag = b.flag, NEW reads, NEW values, NEW index
  PROVE  /\ Shows(a, reads, values, index) = Shows(b, reads, values, index)
         /\ Selects(a, values, index) = Selects(b, values, index)
  <1>1. \A read : Value(a, read, values, index) = Value(b, read, values, index)
    BY DEF Value
  <1>. QED
    BY <1>1 DEF Shows, Selects

LEMMA TouchAgain ==
  ASSUME NEW r, NEW b, NEW n, NEW key \in DOMAIN r.rows, Touch(r, b, key), Touch(b, n, key)
  PROVE  Touch(r, n, key)
  <1>1. OtherFields(r, n)
    BY DEF Touch, OtherFields
  <1>2. OtherOwners(r, n, key)
    BY DEF Touch, OtherOwners
  <1>3. OtherRows(r, n, key)
    BY DEF Touch, OtherRows
  <1>4. n.rows[key].generation = r.rows[key].generation /\ RowOK(key, n.rows[key]) /\ FiniteSets(n)
    BY DEF Touch
  <1>. QED
    BY <1>1, <1>2, <1>3, <1>4 DEF Touch

\* What an operation writes into the nodes of a row.
Writes(r, n, key, selected, index, what) ==
  /\ n.rows[key].text = IF setup.text \cap what # {}
                        THEN Shows(r, setup.text, n.rows[key].values, index)
                        ELSE r.rows[key].text
  /\ n.rows[key].region.selected = selected
  /\ selected => n.rows[key].region.shows =
                   IF setup.branch \cap what # {}
                   THEN Shows(r, setup.branch, n.rows[key].values, index)
                   ELSE IF r.rows[key].region.selected THEN r.rows[key].region.shows ELSE {}

LEMMA BranchThenWrite ==
  ASSUME NEW r, Shaped(r), FiniteSets(r), NEW key \in DOMAIN r.rows, RowOK(key, r.rows[key]),
         NEW selected \in BOOLEAN, NEW values \in AnyRow, values.id = key, NEW index, NEW what,
         NEW n, n = WriteBindings(ReconcileBranch(r, key, selected), key, values, index, what)
  PROVE  /\ Touch(r, n, key) /\ OwnersFollow(r, n, key) /\ n.rows[key].values = values
         /\ Writes(r, n, key, selected, index, what)
  <1>1. PICK b : b = ReconcileBranch(r, key, selected)
    OBVIOUS
  <1>2. /\ Touch(r, b, key)
        /\ OwnersFollow(r, b, key)
        /\ b.rows[key].text = r.rows[key].text
        /\ b.rows[key].region.selected = selected
        /\ r.rows[key].region.selected = selected => b = r
        /\ r.rows[key].region.selected # selected => b.rows[key].region.shows = {}
    BY <1>1, ReconcileBranchIs
  <1>3. Shaped(b) /\ FiniteSets(b) /\ key \in DOMAIN b.rows /\ RowOK(key, b.rows[key])
        /\ b.flag = r.flag
    BY <1>2 DEF Touch, OtherFields, OtherRows
  <1>4. n = WriteBindings(b, key, values, index, what)
    BY <1>1
  <1>5. /\ Touch(b, n, key)
        /\ n.listeners = b.listeners /\ n.requests = b.requests
        /\ OwnersOf(key, n.rows[key]) = OwnersOf(key, b.rows[key])
        /\ n.rows[key].values = values
        /\ n.rows[key].text = IF setup.text \cap what # {}
                              THEN Shows(b, setup.text, values, index) ELSE b.rows[key].text
        /\ n.rows[key].region.selected = b.rows[key].region.selected
        /\ b.rows[key].region.selected =>
             n.rows[key].region.shows = IF setup.branch \cap what # {}
                                        THEN Shows(b, setup.branch, values, index)
                                        ELSE b.rows[key].region.shows
    BY <1>3, <1>4, WriteBindingsIs
  <1>6. Touch(r, n, key)
    BY <1>2, <1>5, TouchAgain
  <1>7. OwnersFollow(r, n, key)
    BY <1>2, <1>5 DEF OwnersFollow, Owned, OwnedOnly
  <1>8. /\ Shows(b, setup.text, values, index) = Shows(r, setup.text, values, index)
        /\ Shows(b, setup.branch, values, index) = Shows(r, setup.branch, values, index)
    BY <1>3, SameShows
  <1>9. n.rows[key].text = IF setup.text \cap what # {}
                           THEN Shows(r, setup.text, n.rows[key].values, index)
                           ELSE r.rows[key].text
    BY <1>2, <1>5, <1>8
  <1>10. r.rows[key].region.selected \in BOOLEAN
    BY RowFields
  <1>11. selected => n.rows[key].region.shows =
                       IF setup.branch \cap what # {}
                       THEN Shows(r, setup.branch, n.rows[key].values, index)
                       ELSE IF r.rows[key].region.selected THEN r.rows[key].region.shows ELSE {}
    <2>. SUFFICES ASSUME selected
                  PROVE  n.rows[key].region.shows =
                           IF setup.branch \cap what # {}
                           THEN Shows(r, setup.branch, n.rows[key].values, index)
                           ELSE IF r.rows[key].region.selected THEN r.rows[key].region.shows ELSE {}
      OBVIOUS
    <2>1. n.rows[key].region.shows = IF setup.branch \cap what # {}
                                     THEN Shows(r, setup.branch, values, index)
                                     ELSE b.rows[key].region.shows
      BY <1>2, <1>5, <1>8
    <2>2. CASE r.rows[key].region.selected
      BY <1>2, <1>5, <2>1, <2>2
    <2>3. CASE ~ r.rows[key].region.selected
      BY <1>2, <1>5, <2>1, <2>3
    <2>. QED
      BY <2>2, <2>3
  <1>12. n.rows[key].region.selected = selected
    BY <1>2, <1>5
  <1>. QED
    BY <1>5, <1>6, <1>7, <1>9, <1>11, <1>12 DEF Writes

\* A row whose index has changed.
LEMMA UpdateTypedRowIndexIs ==
  ASSUME setup \in Setups, NEW r, Shaped(r), FiniteSets(r), r.flag \in BOOLEAN,
         NEW key \in DOMAIN r.rows, RowOK(key, r.rows[key]),
         NEW n, n = UpdateTypedRowIndex(r, key)
  PROVE  /\ Touch(r, n, key) /\ OwnersFollow(r, n, key)
         /\ n.rows[key].values = r.rows[key].values
         /\ setup.test # "index" => /\ n.listeners = r.listeners /\ n.requests = r.requests
                                    /\ n.rows[key].region = r.rows[key].region
         /\ setup.test # "index" /\ "index" \notin setup.text => n = r
  <1>1. PICK index : index = IndexOf(r, key)
    OBVIOUS
  <1>2. PICK values \in AnyRow : values = r.rows[key].values
    BY RowFields
  <1>3. PICK selected \in BOOLEAN : selected = Selects(r, values, index)
    BY SelectsIsBoolean
  <1>4. PICK b : b = IF setup.test = "index" THEN ReconcileBranch(r, key, selected) ELSE r
    OBVIOUS
  <1>5. /\ Touch(r, b, key)
        /\ OwnersFollow(r, b, key)
        /\ b.rows[key].values = values
        /\ setup.test # "index" => b = r
    <2>1. CASE setup.test = "index"
      BY <1>2, <1>4, <2>1, ReconcileBranchIs
    <2>2. CASE setup.test # "index"
      <3>1. b = r
        BY <1>4, <2>2
      <3>2. Touch(r, b, key)
        BY <3>1 DEF Touch, OtherFields, OtherOwners, OtherRows
      <3>3. OwnersFollow(r, b, key)
        BY <3>1 DEF OwnersFollow
      <3>. QED
        BY <1>2, <3>1, <3>2, <3>3
    <2>. QED
      BY <2>1, <2>2
  <1>6. n = IF "index" \in setup.text
            THEN [b EXCEPT !.rows[key].text = Shows(r, setup.text, values, index)] ELSE b
    BY <1>1, <1>2, <1>3, <1>4 DEF UpdateTypedRowIndex
  <1>7. CASE "index" \notin setup.text
    BY <1>2, <1>5, <1>6, <1>7
  <1>8. CASE "index" \in setup.text
    <2>1. Shaped(b) /\ FiniteSets(b) /\ key \in DOMAIN b.rows /\ RowOK(key, b.rows[key])
      BY <1>5 DEF Touch, OtherFields, OtherRows
    <2>2. PICK row : row = b.rows[key]
      OBVIOUS
    <2>3. /\ row = [values |-> row.values, text |-> row.text, generation |-> row.generation,
                    region |-> row.region]
          /\ row.region = [selected |-> row.region.selected, shows |-> row.region.shows,
                           generation |-> row.region.generation]
          /\ row.values \in AnyRow /\ row.generation \in Nat /\ row.region.generation \in Nat
          /\ row.region.selected \in BOOLEAN /\ row.values.id = key
      BY <2>1, <2>2, RowFields
    <2>4. PICK text : text = Shows(r, setup.text, values, index)
      OBVIOUS
    <2>5. PICK next : next = [row EXCEPT !.text = text]
      OBVIOUS
    <2>6. n = [b EXCEPT !.rows[key] = next]
      BY <1>6, <1>8, <2>1, <2>2, <2>4, <2>5 DEF Shaped
    <2>7. next = [values |-> row.values, text |-> text, generation |-> row.generation,
                  region |-> row.region]
      BY <2>3, <2>5
    <2>8. next.values = row.values /\ next.generation = row.generation /\ next.region = row.region
      BY <2>7
    <2>9. RowOK(key, next)
      <3>1. next = [values |-> row.values, text |-> text, generation |-> row.generation,
                    region |-> [selected |-> row.region.selected, shows |-> row.region.shows,
                                generation |-> row.region.generation]]
        BY <2>3, <2>7
      <3>. QED
        BY <2>3, <3>1, RowMade
    <2>10. /\ OtherFields(b, n) /\ OtherRows(b, n, key) /\ n.rows[key] = next
           /\ n.listeners = b.listeners /\ n.requests = b.requests /\ n.taken = b.taken
      BY <2>1, <2>6, RowPut
    <2>11. Touch(b, n, key)
      BY <2>1, <2>2, <2>8, <2>9, <2>10 DEF Touch, OtherOwners, FiniteSets
    <2>12. Touch(r, n, key)
      BY <1>5, <2>11, TouchAgain
    <2>13. OwnersOf(key, n.rows[key]) = OwnersOf(key, b.rows[key])
      BY <2>2, <2>8, <2>10 DEF OwnersOf, RowOwner, BranchOwner
    <2>14. OwnersFollow(r, n, key)
      BY <1>5, <2>10, <2>13 DEF OwnersFollow, Owned, OwnedOnly
    <2>. QED
      BY <1>2, <1>5, <1>8, <2>2, <2>8, <2>10, <2>12, <2>14
  <1>. QED
    BY <1>7, <1>8

\* A row with other values, or one whose state has changed.
LEMMA UpdateTypedRowIs ==
  ASSUME setup \in Setups, NEW r, Shaped(r), FiniteSets(r), r.flag \in BOOLEAN,
         NEW key \in DOMAIN r.rows, RowOK(key, r.rows[key]),
         NEW values \in AnyRow, values.id = key, NEW what,
         NEW n, n = UpdateTypedRow(r, key, values, what)
  PROVE  /\ Touch(r, n, key) /\ OwnersFollow(r, n, key) /\ n.rows[key].values = values
         /\ Writes(r, n, key, Selects(r, values, IndexOf(r, key)), 0, what)
  <1>1. PICK selected \in BOOLEAN : selected = Selects(r, values, IndexOf(r, key))
    BY SelectsIsBoolean
  <1>2. n = WriteBindings(ReconcileBranch(r, key, selected), key, values, 0, what)
    BY <1>1 DEF UpdateTypedRow
  <1>. QED
    BY <1>1, <1>2, BranchThenWrite

LEMMA UpdateTypedRowFieldsIs ==
  ASSUME setup \in Setups, NEW r, Shaped(r), FiniteSets(r), r.flag \in BOOLEAN,
         NEW key \in DOMAIN r.rows, RowOK(key, r.rows[key]),
         NEW values \in AnyRow, values.id = key, NEW changed,
         NEW n, n = UpdateTypedRowFields(r, key, values, changed)
  PROVE  /\ Touch(r, n, key) /\ OwnersFollow(r, n, key) /\ n.rows[key].values = values
         /\ Writes(r, n, key, IF setup.test \in changed
                              THEN Selects(r, values, IndexOf(r, key))
                              ELSE r.rows[key].region.selected,
                   IndexOf(r, key), changed)
  <1>1. PICK index : index = IndexOf(r, key)
    OBVIOUS
  <1>2. PICK selected \in BOOLEAN :
          selected = IF setup.test \in changed THEN Selects(r, values, index)
                     ELSE r.rows[key].region.selected
    <2>1. Selects(r, values, index) \in BOOLEAN
      BY SelectsIsBoolean
    <2>2. r.rows[key].region.selected \in BOOLEAN
      BY RowFields
    <2>. QED
      BY <2>1, <2>2
  <1>3. n = WriteBindings(ReconcileBranch(r, key, selected), key, values, index, changed)
    <2>1. CASE setup.test \in changed
      BY <1>1, <1>2, <2>1 DEF UpdateTypedRowFields
    <2>2. CASE setup.test \notin changed
      <3>1. ReconcileBranch(r, key, selected) = r
        BY <1>2, <2>2, ReconcileBranchIs
      <3>. QED
        BY <1>1, <2>2, <3>1 DEF UpdateTypedRowFields
    <2>. QED
      BY <2>1, <2>2
  <1>4. /\ Touch(r, n, key) /\ OwnersFollow(r, n, key) /\ n.rows[key].values = values
        /\ Writes(r, n, key, selected, index, changed)
    BY <1>3, BranchThenWrite
  <1>. QED
    BY Zenon, <1>1, <1>2, <1>4

(***************************************************************************)
(* The page                                                                *)
(***************************************************************************)

Tokens(r) == { Token(r, k) : k \in DOMAIN r.rows }
Page(r) ==
  /\ r.children \in Seq(setup.keys \X Nat)
  /\ IsInjective(r.children)
  /\ ToSet(r.children) = Tokens(r)

\* What holds of a runtime in the middle of every operation, also of one that
\* stops half way.
World(r) ==
  /\ Shaped(r) /\ FiniteSets(r)
  /\ r.flag \in BOOLEAN /\ r.order \in Seq(setup.keys)
  /\ DOMAIN r.rows \subseteq setup.keys
  /\ \A k \in DOMAIN r.rows : RowOK(k, r.rows[k])
  /\ Page(r)
  /\ \A k \in DOMAIN r.rows : Owned(r, k)

\* All listeners belong to rows that are there.
Strict(r) ==
  \A o \in r.listeners \cup r.requests :
     o[1] \in DOMAIN r.rows /\ o \in OwnersOf(o[1], r.rows[o[1]])

LEMMA TokenIs ==
  ASSUME NEW r, NEW k \in DOMAIN r.rows, DOMAIN r.rows \subseteq setup.keys,
         RowOK(k, r.rows[k])
  PROVE  /\ Token(r, k) \in setup.keys \X Nat /\ Token(r, k)[1] = k
         /\ Token(r, k) # Nowhere /\ Token(r, k) = <<k, r.rows[k].generation>>
  <1>1. r.rows[k].generation \in Nat
    BY RowFields
  <1>2. Token(r, k) = <<k, r.rows[k].generation>>
    BY DEF Token
  <1>3. Token(r, k) # Nowhere
    BY <1>2 DEF Nowhere
  <1>. QED
    BY <1>1, <1>2, <1>3

\* The page of a runtime whose rows are the same nodes is the same.
LEMMA SameTokens ==
  ASSUME NEW r, NEW n, DOMAIN n.rows = DOMAIN r.rows,
         \A k \in DOMAIN r.rows : n.rows[k].generation = r.rows[k].generation
  PROVE  Tokens(n) = Tokens(r) /\ \A k \in DOMAIN r.rows : Token(n, k) = Token(r, k)
  <1>1. \A k \in DOMAIN r.rows : Token(n, k) = Token(r, k)
    BY DEF Token
  <1>. QED
    BY <1>1 DEF Tokens

LEMMA TouchKeepsWorld ==
  ASSUME NEW r, World(r), NEW key \in DOMAIN r.rows, NEW n,
         Touch(r, n, key), OwnersFollow(r, n, key)
  PROVE  /\ World(n)
         /\ \A k \in DOMAIN r.rows : n.rows[k].generation = r.rows[k].generation
         /\ Strict(r) /\ Quiet(r, key) => Strict(n)
  <1>1. DOMAIN n.rows = DOMAIN r.rows /\ \A k \in DOMAIN r.rows : k # key => n.rows[k] = r.rows[k]
    BY DEF Touch, OtherRows
  <1>2. \A k \in DOMAIN r.rows : n.rows[k].generation = r.rows[k].generation
    BY <1>1 DEF Touch
  <1>3. \A k \in DOMAIN n.rows : RowOK(k, n.rows[k])
    BY <1>1 DEF Touch, World
  <1>4. Page(n)
    <2>1. Tokens(n) = Tokens(r)
      BY <1>1, <1>2, SameTokens
    <2>2. n.children = r.children
      BY DEF Touch, OtherFields
    <2>. QED
      BY <2>1, <2>2 DEF World, Page
  <1>5. ASSUME NEW k \in DOMAIN n.rows PROVE Owned(n, k)
    <2>1. CASE k = key
      BY <2>1 DEF OwnersFollow, World
    <2>2. CASE k # key
      <3>1. Owned(r, k) /\ RowOK(k, r.rows[k]) /\ n.rows[k] = r.rows[k]
        BY <1>1, <2>2 DEF World
      <3>2. \A o \in OwnersOf(k, r.rows[k]) : o[1] # key
        BY <2>2, <3>1, OwnersAre
      <3>. QED
        BY <3>1, <3>2 DEF Owned, Touch, OtherOwners
    <2>. QED
      BY <2>1, <2>2
  <1>6. World(n)
    BY <1>1, <1>3, <1>4, <1>5 DEF World, Touch, OtherFields
  <1>7. ASSUME Strict(r), Quiet(r, key) PROVE Strict(n)
    <2>. SUFFICES ASSUME NEW o \in n.listeners \cup n.requests
                  PROVE  o[1] \in DOMAIN n.rows /\ o \in OwnersOf(o[1], n.rows[o[1]])
      BY DEF Strict
    <2>1. CASE o[1] = key
      <3>1. OwnedOnly(r, key)
        BY <1>7 DEF Strict, OwnedOnly
      <3>2. OwnedOnly(n, key)
        BY <1>7, <3>1 DEF OwnersFollow
      <3>. QED
        BY <1>1, <2>1, <3>2 DEF OwnedOnly
    <2>2. CASE o[1] # key
      <3>1. o \in r.listeners \cup r.requests
        BY <2>2 DEF Touch, OtherOwners
      <3>. QED
        BY <1>1, <1>7, <2>2, <3>1 DEF Strict
    <2>. QED
      BY <2>1, <2>2
  <1>. QED
    BY <1>2, <1>6, <1>7

\* An element is put in front of another one, or at the end.
InFront(r, s, y, a) ==
  /\ ToSet(r) = ToSet(s) \cup {y} /\ IsInjective(r)
  /\ \A u, v \in ToSet(s) : Before(r, u, v) <=> Before(s, u, v)
  /\ a \in ToSet(s) => \A u \in ToSet(s) : /\ Before(r, u, y) <=> Before(s, u, a)
                                           /\ Before(r, y, u) <=> u = a \/ Before(s, a, u)
  /\ a \notin ToSet(s) => \A u \in ToSet(s) : Before(r, u, y) /\ ~ Before(r, y, u)
  /\ ~ Before(r, y, y)

LEMMA PutInFront ==
  ASSUME NEW X, NEW s \in Seq(X), IsInjective(s), NEW y \in X, y \notin ToSet(s), NEW a
  PROVE  /\ a \in ToSet(s) => /\ InsertAt(s, At(s, a), y) \in Seq(X)
                              /\ InFront(InsertAt(s, At(s, a), y), s, y, a)
         /\ a \notin ToSet(s) => Append(s, y) \in Seq(X) /\ InFront(Append(s, y), s, y, a)
  <1>1. PICK n \in Nat : n = Len(s) /\ DOMAIN s = 1 .. n
    BY SeqFacts
  <1>2. \A i, j \in 1 .. n : s[i] = s[j] => i = j
    BY <1>1 DEF IsInjective
  <1>3. \A u : u \in ToSet(s) <=> \E i \in 1 .. n : s[i] = u
    BY <1>1 DEF ToSet
  <1>4. ASSUME NEW r \in Seq(X), IsInjective(r) PROVE ~ Before(r, y, y)
    <2>1. \A i, j \in DOMAIN r : r[i] = r[j] => i = j
      BY <1>4 DEF IsInjective
    <2>2. DOMAIN r \subseteq Nat
      BY SeqFacts
    <2>. QED
      BY <2>1, <2>2 DEF Before
  <1>5. CASE a \in ToSet(s)
    <2>1. PICK p \in 1 .. n : p = At(s, a) /\ s[p] = a
      BY <1>1, <1>5, AtIs
    <2>2. PICK r : r = InsertAt(s, p, y)
      OBVIOUS
    <2>3. r \in Seq(X) /\ Inserted(r, s, p, y)
      BY <1>1, <2>2, InsertAtIs
    <2>4. /\ ToSet(r) = ToSet(s) \cup {y}
          /\ IsInjective(r)
          /\ \A u, v \in ToSet(s) : Before(r, u, v) <=> Before(s, u, v)
          /\ \A u : Before(r, u, y) <=> \E i \in 1 .. p - 1 : s[i] = u
          /\ \A u : Before(r, y, u) <=> \E i \in p .. n : s[i] = u
      BY <1>1, <2>3, InsertedTells
    <2>5. ASSUME NEW u PROVE (\E i \in 1 .. p - 1 : s[i] = u) <=> Before(s, u, a)
      <3>1. ASSUME NEW i \in 1 .. p - 1, s[i] = u PROVE Before(s, u, a)
        BY <1>1, <2>1, <3>1 DEF Before
      <3>2. ASSUME Before(s, u, a) PROVE \E i \in 1 .. p - 1 : s[i] = u
        <4>1. PICK i, j \in 1 .. n : i < j /\ s[i] = u /\ s[j] = a
          BY <1>1, <3>2 DEF Before
        <4>2. j = p
          BY <1>2, <2>1, <4>1
        <4>. QED
          BY <4>1, <4>2
      <3>. QED
        BY <3>1, <3>2
    <2>6. ASSUME NEW u PROVE (\E i \in p .. n : s[i] = u) <=> (u = a \/ Before(s, a, u))
      <3>1. ASSUME NEW i \in p .. n, s[i] = u PROVE u = a \/ Before(s, a, u)
        BY <1>1, <2>1, <3>1 DEF Before
      <3>2. ASSUME Before(s, a, u) PROVE \E i \in p .. n : s[i] = u
        <4>1. PICK i, j \in 1 .. n : i < j /\ s[i] = a /\ s[j] = u
          BY <1>1, <3>2 DEF Before
        <4>2. i = p
          BY <1>2, <2>1, <4>1
        <4>. QED
          BY <4>1, <4>2
      <3>3. p \in p .. n
        BY <2>1
      <3>. QED
        BY <2>1, <3>1, <3>2, <3>3
    <2>7. InFront(r, s, y, a)
      BY <1>4, <1>5, <2>3, <2>4, <2>5, <2>6 DEF InFront
    <2>. QED
      BY <1>5, <2>1, <2>2, <2>3, <2>7
  <1>6. CASE a \notin ToSet(s)
    <2>1. PICK r : r = Append(s, y)
      OBVIOUS
    <2>2. r \in Seq(X) /\ Inserted(r, s, n + 1, y)
      BY <1>1, <2>1, AppendIs
    <2>3. /\ ToSet(r) = ToSet(s) \cup {y}
          /\ IsInjective(r)
          /\ \A u, v \in ToSet(s) : Before(r, u, v) <=> Before(s, u, v)
          /\ \A u : Before(r, u, y) <=> \E i \in 1 .. n + 1 - 1 : s[i] = u
          /\ \A u : Before(r, y, u) <=> \E i \in n + 1 .. n : s[i] = u
      BY <1>1, <2>2, InsertedTells
    <2>4. 1 .. n + 1 - 1 = 1 .. n /\ n + 1 .. n = {}
      OBVIOUS
    <2>5. InFront(r, s, y, a)
      BY <1>3, <1>4, <1>6, <2>2, <2>3, <2>4 DEF InFront
    <2>. QED
      BY <1>6, <2>1, <2>2, <2>5
  <1>. QED
    BY <1>5, <1>6

\* The range of a row goes, comes, or changes its place.
Anchored(s, anchor) == anchor = Nowhere \/ anchor \in ToSet(s)

LEMMA InsertBeforeIs ==
  ASSUME NEW X, NEW s \in Seq(X), IsInjective(s), NEW y \in X, y \notin ToSet(s),
         Nowhere \notin ToSet(s), NEW anchor, Anchored(s, anchor)
  PROVE  InsertBefore(s, y, anchor) \in Seq(X) /\ InFront(InsertBefore(s, y, anchor), s, y, anchor)
  BY PutInFront DEF InsertBefore, Anchored

LEMMA WithoutIs ==
  ASSUME NEW X, NEW s \in Seq(X), IsInjective(s), NEW x
  PROVE  /\ Without(s, x) \in Seq(X) /\ IsInjective(Without(s, x))
         /\ ToSet(Without(s, x)) = ToSet(s) \ {x}
         /\ \A u, v \in ToSet(s) \ {x} : Before(Without(s, x), u, v) <=> Before(s, u, v)
  <1>1. /\ Only(s, ToSet(s) \ {x}) \in Seq(X)
        /\ ToSet(Only(s, ToSet(s) \ {x})) = ToSet(s) \cap (ToSet(s) \ {x})
        /\ IsInjective(Only(s, ToSet(s) \ {x}))
        /\ \A u, v \in ToSet(s) \ {x} :
             Before(Only(s, ToSet(s) \ {x}), u, v) <=> Before(s, u, v)
    BY OnlyTells
  <1>. QED
    BY <1>1 DEF Without

\* What an operation on the rows leaves alone in any case.
Around(r, n) ==
  /\ n.order = r.order /\ n.flag = r.flag /\ n.collection = r.collection
  /\ n.budget = r.budget /\ n.error = r.error

Dropped(r, n, key) ==
  /\ World(n) /\ Around(r, n) /\ n.requests = r.requests /\ n.moves = r.moves
  /\ DOMAIN n.rows = DOMAIN r.rows \ {key}
  /\ \A k \in DOMAIN n.rows : n.rows[k] = r.rows[k]
  /\ n.children = Without(r.children, Token(r, key))
  /\ Strict(r) /\ Quiet(r, key) => Strict(n)

LEMMA DropRowIs ==
  ASSUME NEW r, World(r), NEW key \in DOMAIN r.rows, NEW n, n = DropRow(r, key)
  PROVE  Dropped(r, n, key)
  <1>1. PICK row : row = r.rows[key]
    OBVIOUS
  <1>2. RowOK(key, row)
    BY <1>1 DEF World
  <1>3. PICK listeners : listeners = { o \in r.listeners : ~ (o[1] = key /\ o[2] = row.generation) }
    OBVIOUS
  <1>4. PICK rows : rows = [k \in DOMAIN r.rows \ {key} |-> r.rows[k]]
    OBVIOUS
  <1>5. PICK children : children = Without(r.children, Token(r, key))
    OBVIOUS
  <1>6. n = [order |-> r.order, rows |-> rows, children |-> children, flag |-> r.flag,
       collection |-> r.collection, live |-> r.live - 2, budget |-> r.budget,
       listeners |-> listeners, requests |-> r.requests, taken |-> r.taken,
       moves |-> r.moves, error |-> r.error]
    <2>1. n = [r EXCEPT !.rows = rows, !.live = @ - 2, !.children = children,
                        !.listeners = listeners]
      BY <1>1, <1>3, <1>4, <1>5 DEF DropRow, Restrict
    <2>. QED
      BY <2>1 DEF World, Shaped
  <1>7. n.rows = rows /\ n.children = children /\ n.listeners = listeners
        /\ n.requests = r.requests /\ n.taken = r.taken /\ n.moves = r.moves
    BY <1>6
  <1>8. Around(r, n) /\ Shaped(n)
    BY <1>6 DEF Around, Shaped
  <1>9. DOMAIN n.rows = DOMAIN r.rows \ {key} /\ \A k \in DOMAIN n.rows : n.rows[k] = r.rows[k]
    BY <1>4, <1>7
  <1>10. \A k \in DOMAIN n.rows : Token(n, k) = Token(r, k)
    BY <1>9 DEF Token
  <1>11. Page(n)
    <2>1. r.children \in Seq(setup.keys \X Nat) /\ IsInjective(r.children)
          /\ ToSet(r.children) = Tokens(r)
      BY DEF World, Page
    <2>2. /\ children \in Seq(setup.keys \X Nat) /\ IsInjective(children)
          /\ ToSet(children) = Tokens(r) \ {Token(r, key)}
      BY <1>5, <2>1, WithoutIs
    <2>3. \A k \in DOMAIN r.rows : Token(r, k)[1] = k
      BY TokenIs DEF World
    <2>4. Tokens(r) \ {Token(r, key)} = Tokens(n)
      BY <1>9, <1>10, <2>3 DEF Tokens
    <2>. QED
      BY <1>7, <2>2, <2>4 DEF Page
  <1>12. FiniteSets(n)
    <2>1. IsFiniteSet(listeners)
      BY <1>3, FS_Subset DEF World, FiniteSets
    <2>. QED
      BY <1>7, <2>1 DEF World, FiniteSets
  <1>13. ASSUME NEW k \in DOMAIN n.rows PROVE Owned(n, k)
    <2>1. k # key /\ k \in DOMAIN r.rows /\ n.rows[k] = r.rows[k]
      BY <1>9
    <2>2. RowOK(k, r.rows[k]) /\ Owned(r, k)
      BY <2>1 DEF World
    <2>3. \A o \in OwnersOf(k, r.rows[k]) : o[1] = k
      BY <2>2, OwnersAre
    <2>. QED
      BY <1>3, <1>7, <2>1, <2>2, <2>3 DEF Owned
  <1>14. World(n)
    BY <1>8, <1>9, <1>11, <1>12, <1>13 DEF World, Around
  <1>15. ASSUME Strict(r), Quiet(r, key) PROVE Strict(n)
    <2>. SUFFICES ASSUME NEW o \in n.listeners \cup n.requests
                  PROVE  o[1] \in DOMAIN n.rows /\ o \in OwnersOf(o[1], n.rows[o[1]])
      BY DEF Strict
    <2>1. o \in r.listeners \cup r.requests
      BY <1>3, <1>7
    <2>2. o[1] \in DOMAIN r.rows /\ o \in OwnersOf(o[1], r.rows[o[1]])
      BY <1>15, <2>1 DEF Strict
    <2>3. o[1] # key
      <3>. SUFFICES ASSUME o[1] = key PROVE FALSE
        OBVIOUS
      <3>1. o \in listeners
        BY <1>7, <1>15 DEF Quiet
      <3>2. o = RowOwner(key, row) \/ o = BranchOwner(key, row)
        BY <1>1, <1>2, <2>2, OwnersAre
      <3>3. o[2] = row.generation
        BY <1>2, <3>2, OwnersAre
      <3>. QED
        BY <1>3, <3>1, <3>3
    <2>. QED
      BY <1>9, <2>2, <2>3
  <1>. QED
    BY <1>5, <1>7, <1>8, <1>9, <1>14, <1>15 DEF Dropped

Relocated(r, n, key, anchor) ==
  /\ World(n) /\ Around(r, n) /\ n.requests = r.requests /\ n.rows = r.rows
  /\ n.moves = r.moves + 1
  /\ n.children = InsertBefore(Without(r.children, Token(r, key)), Token(r, key), anchor)
  /\ Strict(r) => Strict(n)

LEMMA RelocateIs ==
  ASSUME NEW r, World(r), NEW key \in DOMAIN r.rows, NEW anchor,
         Anchored(r.children, anchor), anchor # Token(r, key),
         NEW n, n = RelocateTypedRow(r, key, anchor)
  PROVE  Relocated(r, n, key, anchor)
  <1>1. PICK token : token = Token(r, key)
    OBVIOUS
  <1>2. PICK others : others = Without(r.children, token)
    OBVIOUS
  <1>3. PICK children : children = InsertBefore(others, token, anchor)
    OBVIOUS
  <1>4. n = [order |-> r.order, rows |-> r.rows, children |-> children, flag |-> r.flag,
       collection |-> r.collection, live |-> r.live, budget |-> r.budget,
       listeners |-> r.listeners, requests |-> r.requests, taken |-> r.taken,
       moves |-> r.moves + 1, error |-> r.error]
    <2>1. n = [r EXCEPT !.children = children, !.moves = @ + 1]
      BY <1>1, <1>2, <1>3 DEF RelocateTypedRow
    <2>. QED
      BY <2>1 DEF World, Shaped
  <1>5. n.rows = r.rows /\ n.children = children /\ n.listeners = r.listeners
        /\ n.requests = r.requests /\ n.taken = r.taken /\ n.moves = r.moves + 1
    BY <1>4
  <1>6. Around(r, n) /\ Shaped(n)
    BY <1>4 DEF Around, Shaped
  <1>7. r.children \in Seq(setup.keys \X Nat) /\ IsInjective(r.children)
        /\ ToSet(r.children) = Tokens(r)
    BY DEF World, Page
  <1>8. token \in setup.keys \X Nat /\ token \in Tokens(r)
    BY <1>1, TokenIs DEF World, Tokens
  <1>9. Nowhere \notin Tokens(r)
    BY TokenIs DEF World, Tokens
  <1>10. /\ others \in Seq(setup.keys \X Nat) /\ IsInjective(others)
         /\ ToSet(others) = Tokens(r) \ {token}
    BY <1>2, <1>7, WithoutIs
  <1>11. Anchored(others, anchor)
    BY <1>1, <1>7, <1>10 DEF Anchored
  <1>12. children \in Seq(setup.keys \X Nat) /\ InFront(children, others, token, anchor)
    BY <1>3, <1>8, <1>9, <1>10, <1>11, InsertBeforeIs
  <1>13. IsInjective(children) /\ ToSet(children) = Tokens(r)
    BY <1>8, <1>10, <1>12 DEF InFront
  <1>14. Tokens(n) = Tokens(r)
    BY <1>5 DEF Tokens, Token
  <1>15. Page(n)
    BY <1>5, <1>12, <1>13, <1>14 DEF Page
  <1>16. World(n)
    BY <1>5, <1>6, <1>15 DEF World, Around, FiniteSets, Owned
  <1>17. Strict(r) => Strict(n)
    BY <1>5 DEF Strict
  <1>. QED
    BY <1>1, <1>2, <1>3, <1>5, <1>6, <1>16, <1>17 DEF Relocated

\* A new row shows what its values say.
Written(r, row, index) ==
  /\ row.text = Shows(r, setup.text, row.values, 0)
  /\ row.region.selected = Selects(r, row.values, index)
  /\ row.region.selected => row.region.shows = Shows(r, setup.branch, row.values, 0)

Added(r, n, key, values, anchor) ==
  /\ World(n) /\ Around(r, n) /\ n.moves = r.moves
  /\ DOMAIN n.rows = DOMAIN r.rows \cup {key}
  /\ \A k \in DOMAIN r.rows : n.rows[k] = r.rows[k]
  /\ n.rows[key].values = values
  /\ Token(n, key) \in setup.keys \X Nat /\ Token(n, key) \notin Tokens(r)
  /\ n.children = InsertBefore(r.children, Token(n, key), anchor)
  /\ OtherOwners(r, n, key)
  /\ Strict(r) => Strict(n)
  /\ Written(r, n.rows[key], IndexOf(r, key))

LEMMA InsertTypedRowIs ==
  ASSUME setup \in Setups, NEW r, World(r), NEW key \in setup.keys, key \notin DOMAIN r.rows,
         NEW values \in AnyRow, values.id = key, NEW index,
         NEW anchor, Anchored(r.children, anchor),
         NEW n, n = InsertTypedRow(r, key, values, index, anchor)
  PROVE  \/ n = Fails(r, "MOUNTED_REGION_LIMIT_EXCEEDED")
         \/ Added(r, n, key, values, anchor)
  <1>1. PICK row : row = InstantiateRow(r, key, values, index)
    OBVIOUS
  <1>2. IsFiniteSet(r.taken) /\ IsFiniteSet(r.listeners) /\ IsFiniteSet(r.requests)
        /\ r.flag \in BOOLEAN
    BY DEF World, FiniteSets
  <1>3. PICK inner \in Nat : inner = NewGeneration(r.taken, key)
    BY <1>2, GenerationIsNat
  <1>4. PICK outer \in Nat : outer = NewGeneration(r.taken \cup {<<key, inner>>}, key)
    <2>1. IsFiniteSet(r.taken \cup {<<key, inner>>})
      BY <1>2, FS_Singleton, FiniteUnion
    <2>. QED
      BY <2>1, GenerationIsNat
  <1>5. PICK selected \in BOOLEAN : selected = Selects(r, values, index)
    BY <1>2, SelectsIsBoolean
  <1>6. row = [values |-> values, text |-> {}, generation |-> outer,
               region |-> [selected |-> selected, shows |-> {}, generation |-> inner]]
    BY <1>1, <1>3, <1>4, <1>5 DEF InstantiateRow
  <1>7. RowOK(key, row)
    BY <1>6, RowMade
  <1>8. row.text = {} /\ row.region.shows = {} /\ row.generation = outer /\ row.values = values
        /\ row.region.generation = inner
    BY <1>6
  <1>9. PICK token : token = <<key, outer>>
    OBVIOUS
  <1>10. PICK children : children = InsertBefore(r.children, token, anchor)
    OBVIOUS
  <1>11. PICK rows : rows = [k \in DOMAIN r.rows \cup {key} |-> IF k = key THEN row ELSE r.rows[k]]
    OBVIOUS
  <1>12. PICK taken : taken = r.taken \cup {<<key, outer>>, <<key, inner>>}
    OBVIOUS
  <1>13. PICK placed : placed = [order |-> r.order, rows |-> rows, children |-> children,
       flag |-> r.flag, collection |-> r.collection, live |-> r.live + 2, budget |-> r.budget,
       listeners |-> r.listeners, requests |-> r.requests, taken |-> taken,
       moves |-> r.moves, error |-> r.error]
    OBVIOUS
  <1>14. PICK updated : updated = UpdateTypedRow(placed, key, values, Reads)
    OBVIOUS
  <1>15. n = IF r.live + 2 > setup.regions THEN Fails(r, "MOUNTED_REGION_LIMIT_EXCEEDED")
             ELSE Queue(updated, OwnersOf(key, updated.rows[key]))
    <2>1. placed = [r EXCEPT !.rows = rows, !.live = @ + 2, !.taken = taken, !.children = children]
      <3>1. r = [order |-> r.order, rows |-> r.rows, children |-> r.children, flag |-> r.flag,
                 collection |-> r.collection, live |-> r.live, budget |-> r.budget,
                 listeners |-> r.listeners, requests |-> r.requests, taken |-> r.taken,
                 moves |-> r.moves, error |-> r.error]
        BY DEF World, Shaped
      <3>2. PICK big : big = [r EXCEPT !.rows = rows, !.live = @ + 2, !.taken = taken,
                                       !.children = children]
        OBVIOUS
      <3>3. big = [order |-> r.order, rows |-> rows, children |-> children,
                   flag |-> r.flag, collection |-> r.collection, live |-> r.live + 2,
                   budget |-> r.budget, listeners |-> r.listeners, requests |-> r.requests,
                   taken |-> taken, moves |-> r.moves, error |-> r.error]
        BY ONLY <3>1, <3>2
      <3>. QED
        BY ONLY <1>13, <3>2, <3>3
    <2>2. placed = [r EXCEPT !.rows = [k \in DOMAIN @ \cup {key} |-> IF k = key THEN row ELSE @[k]],
                             !.live = @ + 2,
                             !.taken = @ \cup {<<key, row.generation>>,
                                               <<key, row.region.generation>>},
                             !.children = InsertBefore(@, <<key, row.generation>>, anchor)]
      BY <1>8, <1>9, <1>10, <1>11, <1>12, <2>1
    <2>. QED
      BY Zenon, <1>1, <1>14, <2>2 DEF InsertTypedRow
  <1>16. SUFFICES ASSUME n = Queue(updated, OwnersOf(key, updated.rows[key]))
                  PROVE  Added(r, n, key, values, anchor)
    BY <1>15
  <1>17. /\ placed.rows = rows /\ placed.children = children /\ placed.order = r.order
         /\ placed.listeners = r.listeners /\ placed.requests = r.requests
         /\ placed.taken = taken /\ placed.flag = r.flag /\ Shaped(placed)
         /\ placed.collection = r.collection /\ placed.budget = r.budget
         /\ placed.moves = r.moves /\ placed.error = r.error
    BY <1>13 DEF Shaped
  <1>18. DOMAIN placed.rows = DOMAIN r.rows \cup {key} /\ placed.rows[key] = row
         /\ \A k \in DOMAIN r.rows : placed.rows[k] = r.rows[k]
    BY <1>11, <1>17
  <1>19. FiniteSets(placed)
    <2>1. IsFiniteSet({<<key, outer>>}) /\ IsFiniteSet({<<key, inner>>})
      BY FS_Singleton
    <2>2. IsFiniteSet({<<key, outer>>} \cup {<<key, inner>>})
      BY <2>1, FiniteUnion
    <2>3. taken = r.taken \cup ({<<key, outer>>} \cup {<<key, inner>>})
      BY <1>12
    <2>4. IsFiniteSet(taken)
      BY <1>2, <2>2, <2>3, FiniteUnion
    <2>. QED
      BY <1>2, <1>17, <2>4 DEF FiniteSets
  <1>20. /\ Touch(placed, updated, key) /\ OwnersFollow(placed, updated, key)
         /\ updated.rows[key].values = values
         /\ Writes(placed, updated, key, Selects(placed, values, IndexOf(placed, key)), 0, Reads)
    BY <1>7, <1>14, <1>17, <1>18, <1>19, <1>2, UpdateTypedRowIs
  <1>21. PICK owners : owners = OwnersOf(key, updated.rows[key])
    OBVIOUS
  <1>22. RowOK(key, updated.rows[key]) /\ updated.rows[key].generation = outer
    BY <1>8, <1>18, <1>20 DEF Touch
  <1>23. /\ OtherFields(updated, n) /\ n.rows = updated.rows /\ n.taken = updated.taken
         /\ n.listeners = updated.listeners
         /\ n.requests = updated.requests \cup (owners \ updated.listeners)
    BY <1>16, <1>20, <1>21, QueueIs DEF Touch, OtherFields
  <1>24. OtherFields(placed, updated)
    BY <1>20 DEF Touch
  <1>25. Around(r, n) /\ Shaped(n) /\ n.moves = r.moves /\ n.children = children
    BY <1>17, <1>23, <1>24 DEF Around, OtherFields
  <1>26. /\ DOMAIN n.rows = DOMAIN r.rows \cup {key}
         /\ \A k \in DOMAIN r.rows : n.rows[k] = r.rows[k]
         /\ n.rows[key] = updated.rows[key]
    <2>1. /\ DOMAIN updated.rows = DOMAIN placed.rows
          /\ \A k \in DOMAIN placed.rows : k # key => updated.rows[k] = placed.rows[k]
      BY <1>20 DEF Touch, OtherRows
    <2>. QED
      BY <1>18, <1>23, <2>1
  <1>27. \A o \in owners : o[1] = key
    BY <1>21, <1>22, OwnersAre
  <1>28. OtherOwners(r, n, key)
    BY <1>17, <1>20, <1>23, <1>27 DEF OtherOwners, Touch
  <1>29. Owned(n, key)
    BY <1>21, <1>23, <1>26 DEF Owned
  <1>30. FiniteSets(n)
    <2>1. IsFiniteSet(updated.listeners) /\ IsFiniteSet(updated.requests) /\ IsFiniteSet(updated.taken)
      BY <1>20 DEF Touch, FiniteSets
    <2>2. IsFiniteSet(owners)
      <3>1. PICK one : one = {RowOwner(key, updated.rows[key]), BranchOwner(key, updated.rows[key])}
        OBVIOUS
      <3>2. IsFiniteSet({RowOwner(key, updated.rows[key])} \cup {BranchOwner(key, updated.rows[key])})
        BY FS_Singleton, FiniteUnion
      <3>3. owners \subseteq {RowOwner(key, updated.rows[key])} \cup {BranchOwner(key, updated.rows[key])}
        BY <1>21, <1>22, OwnersAre
      <3>. QED
        BY <3>2, <3>3, FS_Subset
    <2>3. IsFiniteSet(owners \ updated.listeners)
      BY <2>2, FS_Subset
    <2>. QED
      BY <1>23, <2>1, <2>3, FiniteUnion DEF FiniteSets
  <1>31. Token(n, key) = token /\ \A k \in DOMAIN r.rows : Token(n, k) = Token(r, k)
    BY <1>9, <1>22, <1>26 DEF Token
  <1>32. token \in setup.keys \X Nat /\ token[1] = key
    BY <1>9
  <1>33. \A t \in Tokens(r) : t # token /\ t # Nowhere
    BY <1>32, TokenIs DEF World, Tokens
  <1>34. r.children \in Seq(setup.keys \X Nat) /\ IsInjective(r.children)
         /\ ToSet(r.children) = Tokens(r)
    BY DEF World, Page
  <1>35. children \in Seq(setup.keys \X Nat) /\ InFront(children, r.children, token, anchor)
    BY <1>10, <1>32, <1>33, <1>34, InsertBeforeIs
  <1>36. Tokens(n) = Tokens(r) \cup {token}
    BY <1>26, <1>31 DEF Tokens
  <1>37. Page(n)
    BY <1>25, <1>34, <1>35, <1>36 DEF Page, InFront
  <1>38. ASSUME NEW k \in DOMAIN n.rows PROVE RowOK(k, n.rows[k]) /\ Owned(n, k)
    <2>1. CASE k = key
      BY <1>22, <1>26, <1>29, <2>1
    <2>2. CASE k # key
      <3>1. k \in DOMAIN r.rows /\ n.rows[k] = r.rows[k]
        BY <1>26, <2>2
      <3>2. RowOK(k, r.rows[k]) /\ Owned(r, k)
        BY <3>1 DEF World
      <3>3. \A o \in OwnersOf(k, r.rows[k]) : o[1] # key
        BY <2>2, <3>2, OwnersAre
      <3>. QED
        BY <1>28, <3>1, <3>2, <3>3 DEF Owned, OtherOwners
    <2>. QED
      BY <2>1, <2>2
  <1>39. World(n)
    BY <1>25, <1>26, <1>30, <1>37, <1>38 DEF World, Around
  <1>40. ASSUME Strict(r) PROVE Strict(n)
    <2>1. \A o \in r.listeners \cup r.requests : o[1] # key
      BY <1>40 DEF Strict
    <2>2. OwnedOnly(placed, key) /\ Quiet(placed, key)
      BY <1>17, <2>1 DEF OwnedOnly, Quiet
    <2>3. OwnedOnly(updated, key)
      BY <1>20, <2>2 DEF OwnersFollow
    <2>. SUFFICES ASSUME NEW o \in n.listeners \cup n.requests
                  PROVE  o[1] \in DOMAIN n.rows /\ o \in OwnersOf(o[1], n.rows[o[1]])
      BY DEF Strict
    <2>4. CASE o[1] = key
      <3>1. o \in OwnersOf(key, updated.rows[key])
        BY <1>21, <1>23, <2>3, <2>4 DEF OwnedOnly
      <3>. QED
        BY <1>26, <2>4, <3>1
    <2>5. CASE o[1] # key
      <3>1. o \in r.listeners \cup r.requests
        BY <1>28, <2>5 DEF OtherOwners
      <3>. QED
        BY <1>26, <1>40, <3>1 DEF Strict
    <2>. QED
      BY <2>4, <2>5
  <1>41. Written(r, n.rows[key], IndexOf(r, key))
    <2>1. setup.text \subseteq Reads /\ setup.branch \subseteq Reads
      BY GraphsAreTyped
    <2>2. IndexOf(placed, key) = IndexOf(r, key)
      BY <1>17 DEF IndexOf
    <2>3. \A reads, i : Shows(placed, reads, values, i) = Shows(r, reads, values, i)
      BY <1>17, SameShows
    <2>4. Selects(placed, values, IndexOf(placed, key)) = Selects(r, values, IndexOf(r, key))
      BY <1>17, <2>2, SameShows
    <2>5. PICK u : u = n.rows[key]
      OBVIOUS
    <2>6. /\ u.text = IF setup.text \cap Reads # {} THEN Shows(r, setup.text, values, 0) ELSE {}
          /\ u.region.selected = Selects(r, values, IndexOf(r, key))
          /\ u.region.selected =>
               u.region.shows = IF setup.branch \cap Reads # {}
                                THEN Shows(r, setup.branch, values, 0) ELSE {}
          /\ u.values = values
      <3>1. u = updated.rows[key] /\ placed.rows[key].text = {}
            /\ placed.rows[key].region.shows = {} /\ u.values = values
        BY <1>8, <1>18, <1>20, <1>26, <2>5
      <3>2. PICK s : s = Selects(r, values, IndexOf(r, key))
        OBVIOUS
      <3>3. Writes(placed, updated, key, s, 0, Reads)
        BY <1>20, <2>4, <3>2
      <3>4. /\ u.text = IF setup.text \cap Reads # {} THEN Shows(placed, setup.text, values, 0) ELSE {}
            /\ u.region.selected = s
            /\ s => u.region.shows = IF setup.branch \cap Reads # {}
                                     THEN Shows(placed, setup.branch, values, 0)
                                     ELSE IF placed.rows[key].region.selected THEN {} ELSE {}
        BY <3>1, <3>3 DEF Writes
      <3>. QED
        BY <2>3, <3>1, <3>2, <3>4
    <2>7. setup.text \cap Reads = {} => setup.text = {} /\ Shows(r, setup.text, values, 0) = {}
      BY <2>1 DEF Shows
    <2>8. setup.branch \cap Reads = {} => setup.branch = {} /\ Shows(r, setup.branch, values, 0) = {}
      BY <2>1 DEF Shows
    <2>. QED
      BY <2>5, <2>6, <2>7, <2>8 DEF Written
  <1>42. n.rows[key].values = values
    BY <1>20, <1>26
  <1>. QED
    BY <1>10, <1>25, <1>26, <1>28, <1>31, <1>32, <1>33, <1>39, <1>40, <1>41, <1>42 DEF Added

(***************************************************************************)
(* Steps of an operation                                                   *)
(***************************************************************************)

LEMMA DoDrop ==
  ASSUME NEW r, NEW key, r.error = "none"
  PROVE  DoUnlessFailed(r, Drop(key)) =
           DropRow(r, key)
  BY DEF DoUnlessFailed, Do, Drop

LEMMA DoUpdate ==
  ASSUME NEW r, NEW key, NEW values, NEW what, r.error = "none"
  PROVE  DoUnlessFailed(r, Update(key, values, what)) =
           UpdateTypedRow(r, key, values, what)
  BY DEF DoUnlessFailed, Do, Update

LEMMA DoInsert ==
  ASSUME NEW r, NEW key, NEW values, NEW index, NEW before, r.error = "none"
  PROVE  DoUnlessFailed(r, Insert(key, values, index, before)) =
           InsertTypedRow(r, key, values, index, AnchorOf(r, before))
  BY DEF DoUnlessFailed, Do, Insert

LEMMA DoRelocate ==
  ASSUME NEW r, NEW key, NEW before, r.error = "none"
  PROVE  DoUnlessFailed(r, Relocate(key, before)) =
           RelocateTypedRow(r, key, AnchorOf(r, before))
  BY DEF DoUnlessFailed, Do, Relocate

LEMMA DoRefresh ==
  ASSUME NEW r, NEW key, r.error = "none"
  PROVE  DoUnlessFailed(r, [do |-> "refresh", key |-> key]) =
           RefreshIndexRow(r, key)
  BY DEF DoUnlessFailed, Do

LEMMA DoNothing ==
  ASSUME NEW r, NEW step, r.error # "none"
  PROVE  DoUnlessFailed(r, step) = r
  BY DEF DoUnlessFailed

\* Rows are dropped.
AfterDrops(r, n, gone) ==
  /\ World(n) /\ Around(r, n) /\ n.requests = r.requests /\ n.moves = r.moves
  /\ DOMAIN n.rows = DOMAIN r.rows \ gone
  /\ \A k \in DOMAIN n.rows : n.rows[k] = r.rows[k]
  /\ \A t, u \in ToSet(n.children) : Before(r.children, t, u) => Before(n.children, t, u)
  /\ Strict(r) /\ r.requests = {} => Strict(n)

LEMMA DropOneMore ==
  ASSUME NEW r, NEW b, NEW gone, AfterDrops(r, b, gone), NEW key \in DOMAIN b.rows,
         NEW n, n = DropRow(b, key)
  PROVE  AfterDrops(r, n, gone \cup {key})
  <1>1. World(b) /\ Around(r, b) /\ b.requests = r.requests
        /\ DOMAIN b.rows = DOMAIN r.rows \ gone
        /\ \A k \in DOMAIN b.rows : b.rows[k] = r.rows[k]
        /\ \A t, u \in ToSet(b.children) : Before(r.children, t, u) => Before(b.children, t, u)
        /\ b.moves = r.moves
    BY DEF AfterDrops
  <1>2. Dropped(b, n, key)
    BY <1>1, DropRowIs
  <1>3. /\ World(n) /\ Around(b, n) /\ n.requests = b.requests /\ n.moves = b.moves
        /\ DOMAIN n.rows = DOMAIN b.rows \ {key}
        /\ \A k \in DOMAIN n.rows : n.rows[k] = b.rows[k]
        /\ n.children = Without(b.children, Token(b, key))
    BY <1>2 DEF Dropped
  <1>4. /\ ToSet(n.children) = ToSet(b.children) \ {Token(b, key)}
        /\ \A u, v \in ToSet(b.children) \ {Token(b, key)} :
             Before(n.children, u, v) <=> Before(b.children, u, v)
    <2>1. b.children \in Seq(setup.keys \X Nat) /\ IsInjective(b.children)
      BY <1>1 DEF World, Page
    <2>. QED
      BY <1>3, <2>1, WithoutIs
  <1>5. \A t, u \in ToSet(n.children) : Before(r.children, t, u) => Before(n.children, t, u)
    BY <1>1, <1>4
  <1>6. Strict(r) /\ r.requests = {} => Strict(n)
    BY <1>1, <1>2 DEF Dropped, AfterDrops, Quiet
  <1>7. Around(r, n)
    BY <1>1, <1>3 DEF Around
  <1>. QED
    BY <1>1, <1>3, <1>5, <1>6, <1>7 DEF AfterDrops

LEMMA DropsAre ==
  ASSUME NEW r, World(r), r.error = "none", NEW keys \in Seq(DOMAIN r.rows), IsInjective(keys),
         NEW n, n = Perform(r, [i \in DOMAIN keys |-> Drop(keys[i])])
  PROVE  AfterDrops(r, n, ToSet(keys))
  <1>1. PICK m \in Nat : m = Len(keys) /\ DOMAIN keys = 1 .. m
    BY SeqFacts
  <1>2. PICK steps : steps = [i \in 1 .. m |-> Drop(keys[i])]
    OBVIOUS
  <1>3. PICK a : Trace(a, m, r, steps) /\ Perform(r, steps) = a[m]
    <2>1. DOMAIN steps = 1 .. m
      BY <1>2
    <2>. QED
      BY <2>1, PerformRuns
  <1>4. /\ a[0] = r
        /\ \A i \in 1 .. m : a[i] = DoUnlessFailed(a[i - 1], steps[i])
    BY <1>3 DEF Trace
  <1>5. PICK S : S = { i \in 0 .. m : AfterDrops(r, a[i], {keys[j] : j \in 1 .. i}) }
    OBVIOUS
  <1>6. 0 \in S
    <2>1. {keys[j] : j \in 1 .. 0} = {}
      OBVIOUS
    <2>2. AfterDrops(r, r, {})
      BY DEF AfterDrops, Around
    <2>3. AfterDrops(r, a[0], {keys[j] : j \in 1 .. 0})
      BY Zenon, <1>4, <2>1, <2>2
    <2>4. 0 \in 0 .. m
      OBVIOUS
    <2>. QED
      BY Zenon, <1>5, <2>3, <2>4
  <1>7. ASSUME NEW i \in 0 .. m - 1, i \in S PROVE i + 1 \in S
    <2>1. PICK b : b = a[i]
      OBVIOUS
    <2>2. AfterDrops(r, b, {keys[j] : j \in 1 .. i})
      BY <1>5, <1>7, <2>1
    <2>3. i + 1 \in 1 .. m /\ i + 1 - 1 = i
      OBVIOUS
    <2>4. PICK key : key = keys[i + 1]
      OBVIOUS
    <2>5. key \in DOMAIN r.rows
      BY <1>1, <2>3, <2>4, SeqFacts
    <2>6. key \notin {keys[j] : j \in 1 .. i}
      BY <1>1, <2>3, <2>4 DEF IsInjective
    <2>7. key \in DOMAIN b.rows /\ b.error = "none"
      BY <2>2, <2>5, <2>6 DEF AfterDrops, Around
    <2>8. a[i + 1] = DropRow(b, key)
      <3>1. steps[i + 1] = Drop(key)
        BY <1>2, <2>3, <2>4
      <3>2. a[i + 1] = DoUnlessFailed(b, steps[i + 1])
        BY <1>4, <2>1, <2>3
      <3>3. DoUnlessFailed(b, Drop(key)) = DropRow(b, key)
        BY <2>7, DoDrop
      <3>. QED
        BY <3>1, <3>2, <3>3
    <2>9. AfterDrops(r, a[i + 1], {keys[j] : j \in 1 .. i} \cup {key})
      BY <2>2, <2>7, <2>8, DropOneMore
    <2>10. {keys[j] : j \in 1 .. i + 1} = {keys[j] : j \in 1 .. i} \cup {key}
      BY <2>4
    <2>11. AfterDrops(r, a[i + 1], {keys[j] : j \in 1 .. i + 1})
      BY Zenon, <2>9, <2>10
    <2>12. i + 1 \in 0 .. m
      OBVIOUS
    <2>. QED
      BY Zenon, <1>5, <2>11, <2>12
  <1>8. m \in S
    <2>1. \A i \in 0 .. m : i \in S
      BY ONLY <1>6, <1>7, m \in Nat, Climb
    <2>. QED
      BY <2>1
  <1>9. ToSet(keys) = {keys[j] : j \in 1 .. m}
    BY <1>1 DEF ToSet
  <1>10. n = a[m]
    BY <1>1, <1>2, <1>3
  <1>. QED
    BY <1>5, <1>8, <1>9, <1>10

\* Rows are updated, each of them once.
AfterUpdates(r, n, done, keys, values, what) ==
  /\ World(n) /\ Around(r, n) /\ n.children = r.children /\ n.moves = r.moves
  /\ DOMAIN n.rows = DOMAIN r.rows
  /\ \A k \in DOMAIN r.rows : n.rows[k].generation = r.rows[k].generation
  /\ \A k \in DOMAIN r.rows : k \notin {keys[j] : j \in done} => n.rows[k] = r.rows[k]
  /\ \A j \in done :
       /\ keys[j] \in DOMAIN r.rows
       /\ n.rows[keys[j]].values = values[j]
       /\ Writes(r, n, keys[j], Selects(r, values[j], IndexOf(r, keys[j])), 0, what)
  /\ \A o \in n.requests : o \in r.requests \/ o[1] \in {keys[j] : j \in done}
  /\ Strict(r) /\ r.requests = {} => Strict(n)

LEMMA UpdateOneMore ==
  ASSUME setup \in Setups, NEW r, NEW b, NEW done, NEW keys, NEW values, NEW what,
         AfterUpdates(r, b, done, keys, values, what), NEW i, keys[i] \in DOMAIN r.rows,
         keys[i] \notin {keys[j] : j \in done}, values[i] \in AnyRow, values[i].id = keys[i],
         NEW n, n = UpdateTypedRow(b, keys[i], values[i], what)
  PROVE  AfterUpdates(r, n, done \cup {i}, keys, values, what)
  <1>1. PICK key : key = keys[i]
    OBVIOUS
  <1>2. World(b) /\ Around(r, b) /\ b.children = r.children /\ b.moves = r.moves
        /\ DOMAIN b.rows = DOMAIN r.rows
    BY DEF AfterUpdates
  <1>3. key \in DOMAIN b.rows /\ RowOK(key, b.rows[key]) /\ Shaped(b) /\ FiniteSets(b)
        /\ b.flag \in BOOLEAN
    BY <1>1, <1>2 DEF World
  <1>4. /\ Touch(b, n, key) /\ OwnersFollow(b, n, key) /\ n.rows[key].values = values[i]
        /\ Writes(b, n, key, Selects(b, values[i], IndexOf(b, key)), 0, what)
    BY <1>1, <1>3, UpdateTypedRowIs
  <1>5. /\ World(n)
        /\ \A k \in DOMAIN b.rows : n.rows[k].generation = b.rows[k].generation
        /\ Strict(b) /\ Quiet(b, key) => Strict(n)
    BY <1>2, <1>3, <1>4, TouchKeepsWorld
  <1>6. OtherFields(b, n) /\ OtherRows(b, n, key) /\ OtherOwners(b, n, key)
    BY <1>4 DEF Touch
  <1>7. Around(r, n) /\ n.children = r.children /\ n.moves = r.moves
        /\ DOMAIN n.rows = DOMAIN r.rows
    BY <1>2, <1>6 DEF Around, OtherFields, OtherRows
  <1>8. \A k \in DOMAIN r.rows : n.rows[k].generation = r.rows[k].generation
    BY <1>2, <1>5 DEF AfterUpdates
  <1>9. {keys[j] : j \in done \cup {i}} = {keys[j] : j \in done} \cup {key}
    BY <1>1
  <1>10. \A k \in DOMAIN r.rows :
           k \notin {keys[j] : j \in done \cup {i}} => n.rows[k] = r.rows[k]
    BY <1>2, <1>6, <1>9 DEF AfterUpdates, OtherRows
  <1>11. \A x : Shows(b, setup.text, x, 0) = Shows(r, setup.text, x, 0)
                /\ Shows(b, setup.branch, x, 0) = Shows(r, setup.branch, x, 0)
    BY <1>2, SameShows DEF Around
  <1>12. Selects(b, values[i], IndexOf(b, key)) = Selects(r, values[i], IndexOf(r, key))
    <2>1. IndexOf(b, key) = IndexOf(r, key) /\ b.flag = r.flag
      BY <1>2 DEF Around, IndexOf
    <2>. QED
      BY <2>1, SameShows
  <1>13. b.rows[key] = r.rows[key]
    BY <1>1 DEF AfterUpdates
  <1>14. Writes(r, n, key, Selects(r, values[i], IndexOf(r, key)), 0, what)
    BY <1>4, <1>11, <1>12, <1>13 DEF Writes
  <1>15. ASSUME NEW j \in done
         PROVE  /\ keys[j] \in DOMAIN r.rows
                /\ n.rows[keys[j]].values = values[j]
                /\ Writes(r, n, keys[j], Selects(r, values[j], IndexOf(r, keys[j])), 0, what)
    <2>1. keys[j] # key
      BY <1>1
    <2>2. n.rows[keys[j]] = b.rows[keys[j]]
      <3>1. keys[j] \in DOMAIN b.rows
        BY <1>2 DEF AfterUpdates
      <3>. QED
        BY <1>6, <2>1, <3>1 DEF OtherRows
    <2>3. /\ keys[j] \in DOMAIN r.rows
          /\ b.rows[keys[j]].values = values[j]
          /\ Writes(r, b, keys[j], Selects(r, values[j], IndexOf(r, keys[j])), 0, what)
      BY DEF AfterUpdates
    <2>. QED
      BY <2>2, <2>3 DEF Writes
  <1>16. \A o \in n.requests : o \in r.requests \/ o[1] \in {keys[j] : j \in done \cup {i}}
    BY <1>6, <1>9 DEF AfterUpdates, OtherOwners
  <1>17. Strict(r) /\ r.requests = {} => Strict(n)
    <2>. SUFFICES ASSUME Strict(r), r.requests = {} PROVE Strict(n)
      OBVIOUS
    <2>1. Strict(b) /\ Quiet(b, key)
      BY <1>1 DEF AfterUpdates, Quiet
    <2>. QED
      BY <1>5, <2>1
  <1>. QED
    BY <1>1, <1>4, <1>5, <1>7, <1>8, <1>10, <1>14, <1>15, <1>16, <1>17 DEF AfterUpdates

LEMMA UpdatesAre ==
  ASSUME setup \in Setups, NEW r, World(r), r.error = "none", NEW m \in Nat,
         NEW keys, NEW values, NEW what,
         \A i \in 1 .. m : keys[i] \in DOMAIN r.rows /\ values[i] \in AnyRow /\ values[i].id = keys[i],
         \A i, j \in 1 .. m : keys[i] = keys[j] => i = j,
         NEW n, n = Perform(r, [i \in 1 .. m |-> Update(keys[i], values[i], what)])
  PROVE  AfterUpdates(r, n, 1 .. m, keys, values, what)
  <1>1. PICK steps : steps = [i \in 1 .. m |-> Update(keys[i], values[i], what)]
    OBVIOUS
  <1>2. PICK a : Trace(a, m, r, steps) /\ Perform(r, steps) = a[m]
    <2>1. DOMAIN steps = 1 .. m
      BY <1>1
    <2>. QED
      BY <2>1, PerformRuns
  <1>3. /\ a[0] = r
        /\ \A i \in 1 .. m : a[i] = DoUnlessFailed(a[i - 1], steps[i])
    BY <1>2 DEF Trace
  <1>4. PICK S : S = { i \in 0 .. m : AfterUpdates(r, a[i], 1 .. i, keys, values, what) }
    OBVIOUS
  <1>5. 0 \in S
    <2>1. 1 .. 0 = {} /\ {keys[j] : j \in {}} = {}
      OBVIOUS
    <2>2. AfterUpdates(r, r, {}, keys, values, what)
      BY <2>1 DEF AfterUpdates, Around
    <2>. QED
      BY <1>3, <1>4, <2>1, <2>2
  <1>6. ASSUME NEW i \in 0 .. m - 1, i \in S PROVE i + 1 \in S
    <2>1. PICK b : b = a[i]
      OBVIOUS
    <2>2. AfterUpdates(r, b, 1 .. i, keys, values, what)
      BY <1>4, <1>6, <2>1
    <2>3. i + 1 \in 1 .. m /\ i + 1 - 1 = i /\ \A j \in 1 .. i : j \in 1 .. m /\ j # i + 1
      OBVIOUS
    <2>4. keys[i + 1] \notin {keys[j] : j \in 1 .. i}
      BY <2>3
    <2>5. b.error = "none"
      BY <2>2 DEF AfterUpdates, Around
    <2>6. a[i + 1] = UpdateTypedRow(b, keys[i + 1], values[i + 1], what)
      <3>1. steps[i + 1] = Update(keys[i + 1], values[i + 1], what)
        BY <1>1, <2>3
      <3>2. a[i + 1] = DoUnlessFailed(b, steps[i + 1])
        BY <1>3, <2>1, <2>3
      <3>3. DoUnlessFailed(b, Update(keys[i + 1], values[i + 1], what))
              = UpdateTypedRow(b, keys[i + 1], values[i + 1], what)
        BY <2>5, DoUpdate
      <3>. QED
        BY <3>1, <3>2, <3>3
    <2>7. AfterUpdates(r, a[i + 1], 1 .. i \cup {i + 1}, keys, values, what)
      BY <2>2, <2>3, <2>4, <2>6, UpdateOneMore
    <2>8. 1 .. i + 1 = 1 .. i \cup {i + 1}
      OBVIOUS
    <2>9. AfterUpdates(r, a[i + 1], 1 .. i + 1, keys, values, what)
      BY Zenon, <2>7, <2>8
    <2>10. i + 1 \in 0 .. m
      OBVIOUS
    <2>. QED
      BY Zenon, <1>4, <2>9, <2>10
  <1>7. m \in S
    <2>1. \A i \in 0 .. m : i \in S
      BY ONLY <1>5, <1>6, m \in Nat, Climb
    <2>. QED
      BY <2>1
  <1>. QED
    BY <1>1, <1>2, <1>4, <1>7

(***************************************************************************)
(* Placing rows                                                            *)
(***************************************************************************)

\* The numbers up to n that are in a set, in order.
LEMMA OnlyNumbers ==
  ASSUME NEW n \in Nat, NEW set
  PROVE  \E m \in Nat : /\ Places(Only([i \in 1 .. n |-> i], set), m, (1 .. n) \cap set)
                        /\ Len(Only([i \in 1 .. n |-> i], set)) = m
                        /\ DOMAIN Only([i \in 1 .. n |-> i], set) = 1 .. m
  <1>1. PICK id : id = [i \in 1 .. n |-> i]
    OBVIOUS
  <1>2. DOMAIN id = 1 .. n /\ id = [i \in 1 .. n |-> id[i]] /\ \A i \in 1 .. n : id[i] \in 1 .. n
    BY <1>1
  <1>3. id \in Seq(1 .. n) /\ Len(id) = n
    BY ONLY <1>2, n \in Nat, SeqMade
  <1>4. PICK r : r = Only(id, set)
    OBVIOUS
  <1>5. Held(r, n, id, set, 1 .. n)
    BY <1>3, <1>4, OnlyIs
  <1>6. PICK m \in Nat : \E e :
          /\ Places(e, m, {i \in 1 .. n : id[i] \in set})
          /\ r \in Seq(1 .. n) /\ Len(r) = m
          /\ \A a \in 1 .. m : r[a] = id[e[a]]
    BY <1>5 DEF Held
  <1>7. PICK e :
          /\ Places(e, m, {i \in 1 .. n : id[i] \in set})
          /\ r \in Seq(1 .. n) /\ Len(r) = m
          /\ \A a \in 1 .. m : r[a] = id[e[a]]
    BY <1>6
  <1>8. {i \in 1 .. n : id[i] \in set} = (1 .. n) \cap set
    BY <1>1
  <1>9. /\ e \in [1 .. m -> (1 .. n) \cap set]
        /\ \A a, b \in 1 .. m : a < b => e[a] < e[b]
        /\ \A i \in (1 .. n) \cap set : \E a \in 1 .. m : e[a] = i
    BY <1>7, <1>8 DEF Places
  <1>10. DOMAIN r = 1 .. m /\ \A a \in 1 .. m : r[a] = e[a]
    <2>1. \A a \in 1 .. m : e[a] \in 1 .. n
      BY <1>9
    <2>2. \A a \in 1 .. m : r[a] = e[a]
      BY <1>1, <1>7, <2>1
    <2>3. DOMAIN r = 1 .. m
      BY <1>7, SeqFacts
    <2>. QED
      BY <2>2, <2>3
  <1>11. r \in [1 .. m -> (1 .. n) \cap set]
    <2>1. r \in [1 .. m -> 1 .. n]
      BY <1>7, LenProperties
    <2>. QED
      BY <1>9, <1>10, <2>1
  <1>12. Places(r, m, (1 .. n) \cap set)
    BY <1>9, <1>10, <1>11 DEF Places
  <1>. QED
    BY <1>1, <1>4, <1>7, <1>10, <1>12

\* The step for one position of a list.
After(list, p) == IF p = Len(list) THEN Nowhere ELSE list[p + 1].id
PlaceStep(r, list, p) ==
  IF list[p].id \in DOMAIN r.rows THEN Relocate(list[p].id, After(list, p))
  ELSE Insert(list[p].id, list[p], p - 1, After(list, p))

LEMMA KeysAre ==
  ASSUME NEW list \in Seq(AnyRow)
  PROVE  /\ KeysOf(list) \in Seq(setup.keys) /\ Len(KeysOf(list)) = Len(list)
         /\ DOMAIN KeysOf(list) = 1 .. Len(list)
         /\ \A i \in 1 .. Len(list) : KeysOf(list)[i] = list[i].id
  <1>1. PICK n \in Nat : n = Len(list) /\ DOMAIN list = 1 .. n /\ \A i \in 1 .. n : list[i] \in AnyRow
    BY SeqFacts
  <1>2. PICK keys : keys = KeysOf(list)
    OBVIOUS
  <1>3. keys = [i \in 1 .. n |-> list[i].id]
    BY <1>1, <1>2 DEF KeysOf
  <1>4. DOMAIN keys = 1 .. n /\ keys = [i \in 1 .. n |-> keys[i]]
        /\ \A i \in 1 .. n : keys[i] = list[i].id /\ keys[i] \in setup.keys
    BY <1>1, <1>3 DEF AnyRow
  <1>5. keys \in Seq(setup.keys) /\ Len(keys) = n
    BY ONLY <1>4, n \in Nat, SeqMade
  <1>. QED
    BY <1>1, <1>2, <1>4, <1>5

\* The positions that are placed, from the last one to the first.
FromTheRight(steps, r, list, stable, m, mv) ==
  /\ Places(mv, m, (1 .. Len(list)) \ stable)
  /\ DOMAIN steps = 1 .. m
  /\ \A i \in 1 .. m : steps[i] = PlaceStep(r, list, mv[m + 1 - i])

LEMMA PlacedIs ==
  ASSUME NEW r, NEW list \in Seq(AnyRow), NEW stable
  PROVE  \E m \in Nat : \E mv : FromTheRight(Placed(r, list, stable), r, list, stable, m, mv)
  <1>1. PICK n \in Nat : n = Len(list)
    BY SeqFacts
  <1>2. PICK desired : desired = KeysOf(list)
    OBVIOUS
  <1>3. Len(desired) = n /\ DOMAIN desired = 1 .. n
        /\ \A i \in 1 .. n : desired[i] = list[i].id
    BY <1>1, <1>2, KeysAre
  <1>4. PICK moving : moving = Only([i \in 1 .. n |-> i], (1 .. n) \ stable)
    OBVIOUS
  <1>5. PICK m \in Nat : Places(moving, m, (1 .. n) \cap ((1 .. n) \ stable))
                         /\ Len(moving) = m /\ DOMAIN moving = 1 .. m
    BY <1>4, OnlyNumbers
  <1>6. (1 .. n) \cap ((1 .. n) \ stable) = (1 .. n) \ stable
    OBVIOUS
  <1>7. PICK step : step = [p \in 1 .. n |->
           IF desired[p] \in DOMAIN r.rows
           THEN Relocate(desired[p], IF p = Len(desired) THEN Nowhere ELSE desired[p + 1])
           ELSE Insert(desired[p], list[p], p - 1, IF p = Len(desired) THEN Nowhere ELSE desired[p + 1])]
    OBVIOUS
  <1>8. ASSUME NEW p \in 1 .. n PROVE step[p] = PlaceStep(r, list, p)
    <2>1. (IF p = Len(desired) THEN Nowhere ELSE desired[p + 1]) = After(list, p)
      BY <1>1, <1>3 DEF After
    <2>. QED
      BY <1>3, <1>7, <2>1 DEF PlaceStep
  <1>9. \A i \in 1 .. m : m + 1 - i \in 1 .. m /\ moving[m + 1 - i] \in 1 .. n
    <2>1. \A i \in 1 .. m : moving[i] \in 1 .. n
      BY <1>5 DEF Places
    <2>. QED
      BY <2>1
  <1>10. PICK all : all = Placed(r, list, stable)
    OBVIOUS
  <1>11. all = [i \in 1 .. m |->
           IF desired[moving[m + 1 - i]] \in DOMAIN r.rows
           THEN Relocate(desired[moving[m + 1 - i]],
                         IF moving[m + 1 - i] = Len(desired) THEN Nowhere
                         ELSE desired[moving[m + 1 - i] + 1])
           ELSE Insert(desired[moving[m + 1 - i]], list[moving[m + 1 - i]],
                       moving[m + 1 - i] - 1,
                       IF moving[m + 1 - i] = Len(desired) THEN Nowhere
                       ELSE desired[moving[m + 1 - i] + 1])]
    BY <1>2, <1>3, <1>4, <1>5, <1>10, ZenonT(60) DEF Placed
  <1>12. DOMAIN all = 1 .. m /\ \A i \in 1 .. m : all[i] = step[moving[m + 1 - i]]
    BY <1>7, <1>9, <1>11
  <1>13. \A i \in 1 .. m : all[i] = PlaceStep(r, list, moving[m + 1 - i])
    BY <1>8, <1>9, <1>12
  <1>14. FromTheRight(all, r, list, stable, m, moving)
    BY <1>1, <1>5, <1>6, <1>12, <1>13 DEF FromTheRight
  <1>. QED
    BY <1>10, <1>14

\* A position whose right neighbour is in order joins the positions in order.
InOrder(c, tok, fixed) == \A q1, q2 \in fixed : q1 < q2 => Before(c, tok[q1], tok[q2])

LEMMA JoinsTheOrder ==
  ASSUME NEW len \in Nat, NEW p \in 1 .. len, NEW fixed \in SUBSET (1 .. len), p \notin fixed,
         \A q \in p + 1 .. len : q \in fixed,
         NEW tok, NEW s, NEW c, NEW a,
         \A q \in fixed : tok[q] \in ToSet(s),
         InOrder(s, tok, fixed),
         InFront(c, s, tok[p], a),
         p = len => a \notin ToSet(s), p # len => a = tok[p + 1]
  PROVE  InOrder(c, tok, fixed \cup {p})
  <1>. SUFFICES ASSUME NEW q1 \in fixed \cup {p}, NEW q2 \in fixed \cup {p}, q1 < q2
                PROVE  Before(c, tok[q1], tok[q2])
    BY DEF InOrder
  <1>1. CASE q1 \in fixed /\ q2 \in fixed
    BY <1>1 DEF InFront, InOrder
  <1>2. CASE q2 = p
    <2>1. q1 \in fixed /\ tok[q1] \in ToSet(s)
      BY <1>2
    <2>2. CASE p = len
      BY <1>2, <2>1, <2>2 DEF InFront
    <2>3. CASE p # len
      <3>1. p + 1 \in fixed /\ q1 < p + 1
        BY <1>2, <2>3
      <3>2. a \in ToSet(s) /\ Before(s, tok[q1], a)
        BY <2>1, <2>3, <3>1 DEF InOrder
      <3>. QED
        BY <1>2, <2>1, <3>2 DEF InFront
    <2>. QED
      BY <2>2, <2>3
  <1>3. CASE q1 = p
    <2>1. q2 \in fixed /\ tok[q2] \in ToSet(s) /\ p # len /\ q2 \in p + 1 .. len
      BY <1>3
    <2>2. p + 1 \in fixed /\ a = tok[p + 1] /\ a \in ToSet(s)
      BY <2>1
    <2>3. tok[q2] = a \/ Before(s, a, tok[q2])
      <3>1. CASE q2 = p + 1
        BY <2>2, <3>1
      <3>2. CASE q2 # p + 1
        <4>1. p + 1 < q2
          BY <2>1, <3>2
        <4>. QED
          BY <2>1, <2>2, <4>1 DEF InOrder
      <3>. QED
        BY <3>1, <3>2
    <2>. QED
      BY <1>3, <2>1, <2>2, <2>3 DEF InFront
  <1>. QED
    BY <1>1, <1>2, <1>3

\* The rows at some positions of a list stand in the order of the list.
Ordered(r, list, fixed) ==
  \A p, q \in fixed : p < q => Before(r.children, Token(r, list[p].id), Token(r, list[q].id))

\* The rows at some positions of a list are placed: those that were there
\* before, as they were; the others are new.
PlacedUpTo(r, n, list, stable, fixed) ==
  /\ fixed \subseteq 1 .. Len(list)
  /\ World(n) /\ Around(r, n)
  /\ DOMAIN n.rows = DOMAIN r.rows \cup {list[p].id : p \in fixed}
  /\ \A k \in DOMAIN r.rows : n.rows[k] = r.rows[k]
  /\ \A p \in fixed : list[p].id \notin DOMAIN r.rows =>
       /\ n.rows[list[p].id].values = list[p]
       /\ Written(r, n.rows[list[p].id], IndexOf(r, list[p].id))
  /\ Strict(r) => Strict(n)
  /\ Ordered(r, list, stable) => Ordered(n, list, fixed)
  /\ n.moves = r.moves + Cardinality({p \in fixed \ stable : list[p].id \in DOMAIN r.rows})

LEMMA CountOneMore ==
  ASSUME NEW S, IsFiniteSet(S), NEW x, x \notin S
  PROVE  Cardinality(S) \in Nat /\ Cardinality(S \cup {x}) = Cardinality(S) + 1
  BY FS_AddElement, FS_CardinalityType

LEMMA PlaceOneMore ==
  ASSUME setup \in Setups, NEW r, NEW b, NEW list \in Seq(AnyRow), r.moves \in Nat,
         \A p, q \in 1 .. Len(list) : list[p].id = list[q].id => p = q,
         NEW stable, NEW fixed \in SUBSET (1 .. Len(list)), stable \subseteq fixed,
         PlacedUpTo(r, b, list, stable, fixed), b.error = "none",
         NEW p \in 1 .. Len(list), p \notin fixed, \A q \in p + 1 .. Len(list) : q \in fixed,
         \A q \in stable : list[q].id \in DOMAIN r.rows,
         NEW n, n = DoUnlessFailed(b, PlaceStep(r, list, p))
  PROVE  \/ PlacedUpTo(r, n, list, stable, fixed \cup {p})
         \/ n = Fails(b, "MOUNTED_REGION_LIMIT_EXCEEDED")
  <1>1. PICK len \in Nat : len = Len(list) /\ \A i \in 1 .. len : list[i] \in AnyRow
    BY SeqFacts
  <1>2. PICK key : key = list[p].id
    OBVIOUS
  <1>3. key \in setup.keys /\ list[p] \in AnyRow
    BY <1>1, <1>2 DEF AnyRow
  <1>4. /\ World(b) /\ Around(r, b)
        /\ DOMAIN b.rows = DOMAIN r.rows \cup {list[q].id : q \in fixed}
        /\ \A k \in DOMAIN r.rows : b.rows[k] = r.rows[k]
        /\ b.moves = r.moves + Cardinality({q \in fixed \ stable : list[q].id \in DOMAIN r.rows})
    BY DEF PlacedUpTo
  <1>5. PICK anchor : anchor = AnchorOf(b, After(list, p))
    OBVIOUS
  <1>6. \A k \in DOMAIN b.rows : k \in setup.keys /\ Token(b, k) \in setup.keys \X Nat
                                 /\ Token(b, k)[1] = k /\ Token(b, k) # Nowhere
    BY <1>4, TokenIs DEF World
  <1>7. b.children \in Seq(setup.keys \X Nat) /\ IsInjective(b.children)
        /\ ToSet(b.children) = Tokens(b) /\ Nowhere \notin ToSet(b.children)
    BY <1>4, <1>6 DEF World, Page, Tokens
  <1>8. \A q \in fixed : list[q].id \in DOMAIN b.rows /\ list[q].id # key
    BY <1>1, <1>2, <1>4
  <1>9. p = len => anchor = Nowhere
    <2>1. Nowhere \notin setup.keys
      BY GraphsAreTyped
    <2>. QED
      BY <1>1, <1>5, <1>6, <2>1 DEF AnchorOf, After
  <1>10. p # len => p + 1 \in fixed /\ anchor = Token(b, list[p + 1].id)
    <2>. SUFFICES ASSUME p # len PROVE p + 1 \in fixed /\ anchor = Token(b, list[p + 1].id)
      OBVIOUS
    <2>1. p + 1 \in fixed
      BY <1>1
    <2>2. After(list, p) = list[p + 1].id
      BY <1>1 DEF After
    <2>. QED
      BY <1>5, <1>8, <2>1, <2>2 DEF AnchorOf
  <1>11. Anchored(b.children, anchor)
    BY <1>7, <1>8, <1>9, <1>10 DEF Anchored, Tokens
  <1>12. PICK tok : tok = [q \in fixed \cup {p} |-> IF q = p THEN Token(n, key) ELSE Token(b, list[q].id)]
    OBVIOUS
  <1>13. tok[p] = Token(n, key) /\ \A q \in fixed : tok[q] = Token(b, list[q].id)
    BY <1>12
  <1>14. \A q \in fixed : tok[q] \in ToSet(b.children)
    BY <1>7, <1>8, <1>13 DEF Tokens
  <1>15. IsFiniteSet({q \in fixed \ stable : list[q].id \in DOMAIN r.rows})
    <2>1. IsFiniteSet(1 .. len)
      <3>1. 1 \in Int /\ len \in Int
        OBVIOUS
      <3>. QED
        BY ONLY <3>1, FS_Interval
    <2>. QED
      BY <1>1, <2>1, FS_Subset
  \* When the places of all are known, so is their order.
  <1>16. ASSUME \A q \in fixed : Token(n, list[q].id) = Token(b, list[q].id),
                NEW s, \A q \in fixed : tok[q] \in ToSet(s),
                \A q1, q2 \in fixed : Before(b.children, tok[q1], tok[q2]) => Before(s, tok[q1], tok[q2]),
                InFront(n.children, s, tok[p], anchor),
                Nowhere \notin ToSet(s)
         PROVE  Ordered(r, list, stable) => Ordered(n, list, fixed \cup {p})
    <2>. SUFFICES ASSUME Ordered(r, list, stable) PROVE Ordered(n, list, fixed \cup {p})
      OBVIOUS
    <2>1. Ordered(b, list, fixed)
      BY DEF PlacedUpTo
    <2>2. \A q1, q2 \in fixed : q1 < q2 => Before(s, tok[q1], tok[q2])
      BY <1>13, <1>16, <2>1 DEF Ordered
    <2>3. (p = len => anchor \notin ToSet(s)) /\ (p # len => anchor = tok[p + 1])
      BY <1>9, <1>10, <1>13, <1>16
    <2>4. InOrder(n.children, tok, fixed \cup {p})
      <3>1. \A q \in p + 1 .. len : q \in fixed
        BY <1>1
      <3>2. p \in 1 .. len /\ fixed \in SUBSET (1 .. len) /\ p \notin fixed
        BY <1>1
      <3>3. \A q \in fixed : tok[q] \in ToSet(s)
        BY <1>16
      <3>4. InFront(n.children, s, tok[p], anchor)
        BY <1>16
      <3>5. InOrder(s, tok, fixed)
        BY <2>2 DEF InOrder
      <3>6. p = len => anchor \notin ToSet(s)
        BY <2>3
      <3>7. p # len => anchor = tok[p + 1]
        BY <2>3
      <3>. QED
        BY ONLY len \in Nat, <3>1, <3>2, <3>3, <3>4, <3>5, <3>6, <3>7, JoinsTheOrder
    <2>5. \A q \in fixed \cup {p} : tok[q] = Token(n, list[q].id)
      BY <1>2, <1>13, <1>16
    <2>. QED
      BY <2>4, <2>5 DEF Ordered, InOrder
  <1>17. CASE key \in DOMAIN r.rows
    <2>1. n = RelocateTypedRow(b, key, anchor)
      BY <1>2, <1>5, <1>17, DoRelocate DEF PlaceStep
    <2>2. key \in DOMAIN b.rows
      BY <1>4, <1>17
    <2>3. anchor # Token(b, key)
      BY <1>6, <1>8, <1>9, <1>10, <2>2
    <2>4. Relocated(b, n, key, anchor)
      BY <1>4, <1>11, <2>1, <2>2, <2>3, RelocateIs
    <2>5. /\ World(n) /\ Around(b, n) /\ n.requests = b.requests /\ n.rows = b.rows
          /\ n.moves = b.moves + 1
          /\ n.children = InsertBefore(Without(b.children, Token(b, key)), Token(b, key), anchor)
          /\ Strict(b) => Strict(n)
      BY <2>4 DEF Relocated
    <2>6. \A k : Token(n, k) = Token(b, k)
      BY <2>5 DEF Token
    <2>7. PICK others : others = Without(b.children, Token(b, key))
      OBVIOUS
    <2>8. /\ others \in Seq(setup.keys \X Nat) /\ IsInjective(others)
          /\ ToSet(others) = ToSet(b.children) \ {Token(b, key)}
          /\ \A u, v \in ToSet(b.children) \ {Token(b, key)} : Before(others, u, v) <=> Before(b.children, u, v)
      BY <1>7, <2>7, WithoutIs
    <2>9. Token(b, key) \in setup.keys \X Nat /\ Token(b, key) \notin ToSet(others)
          /\ Nowhere \notin ToSet(others) /\ Anchored(others, anchor)
      BY <1>6, <1>7, <1>11, <2>2, <2>3, <2>8 DEF Anchored
    <2>10. InFront(n.children, others, tok[p], anchor)
      <3>1. InFront(InsertBefore(others, Token(b, key), anchor), others, Token(b, key), anchor)
        BY ONLY <2>8, <2>9, InsertBeforeIs
      <3>2. n.children = InsertBefore(others, Token(b, key), anchor)
        BY <2>5, <2>7
      <3>3. tok[p] = Token(b, key)
        BY <1>13, <2>6
      <3>. QED
        BY <3>1, <3>2, <3>3
    <2>11. \A q \in fixed : tok[q] \in ToSet(others)
      <3>1. \A q \in fixed : tok[q] # Token(b, key)
        BY <1>6, <1>8, <1>13, <2>2
      <3>. QED
        BY <1>14, <2>8, <3>1
    <2>12. \A q1, q2 \in fixed : Before(b.children, tok[q1], tok[q2]) => Before(others, tok[q1], tok[q2])
      BY <2>8, <2>11
    <2>13. Ordered(r, list, stable) => Ordered(n, list, fixed \cup {p})
      BY <1>16, <2>6, <2>9, <2>10, <2>11, <2>12
    <2>14. DOMAIN n.rows = DOMAIN r.rows \cup {list[q].id : q \in fixed \cup {p}}
      <3>1. {list[q].id : q \in fixed \cup {p}} = {list[q].id : q \in fixed} \cup {key}
        BY <1>2
      <3>2. DOMAIN n.rows = DOMAIN b.rows
        BY <2>5
      <3>. QED
        BY <1>4, <1>17, <3>1, <3>2
    <2>15. n.moves = r.moves + Cardinality({q \in (fixed \cup {p}) \ stable : list[q].id \in DOMAIN r.rows})
      <3>1. PICK old : old = {q \in fixed \ stable : list[q].id \in DOMAIN r.rows}
        OBVIOUS
      <3>2. {q \in (fixed \cup {p}) \ stable : list[q].id \in DOMAIN r.rows} = old \cup {p}
        BY <1>2, <1>17, <3>1
      <3>3. p \notin old
        BY <3>1
      <3>4. Cardinality(old) \in Nat /\ Cardinality(old \cup {p}) = Cardinality(old) + 1
        BY <1>15, <3>1, <3>3, CountOneMore
      <3>5. b.moves = r.moves + Cardinality(old) /\ n.moves = b.moves + 1
        BY <1>4, <2>5, <3>1
      <3>6. n.moves = r.moves + (Cardinality(old) + 1)
        BY ONLY <3>4, <3>5, r.moves \in Nat, SMTT(30)
      <3>. QED
        BY <3>2, <3>4, <3>6
    <2>16. Around(r, n)
      BY <1>4, <2>5 DEF Around
    <2>17. Strict(r) => Strict(n)
      BY <2>5 DEF PlacedUpTo
    <2>18. \A q \in fixed \cup {p} : list[q].id \notin DOMAIN r.rows =>
             /\ n.rows[list[q].id].values = list[q]
             /\ Written(r, n.rows[list[q].id], IndexOf(r, list[q].id))
      BY <1>2, <1>17, <2>5 DEF PlacedUpTo
    <2>19. PlacedUpTo(r, n, list, stable, fixed \cup {p})
      BY <1>4, <2>5, <2>13, <2>14, <2>15, <2>16, <2>17, <2>18 DEF PlacedUpTo
    <2>. QED
      BY <2>19
  <1>18. CASE key \notin DOMAIN r.rows
    <2>1. n = InsertTypedRow(b, key, list[p], p - 1, anchor)
      BY <1>2, <1>5, <1>18, DoInsert DEF PlaceStep
    <2>2. key \notin DOMAIN b.rows
      BY <1>4, <1>8, <1>18
    <2>3. \/ n = Fails(b, "MOUNTED_REGION_LIMIT_EXCEEDED")
          \/ Added(b, n, key, list[p], anchor)
      BY <1>2, <1>3, <1>4, <1>11, <2>1, <2>2, InsertTypedRowIs
    <2>. SUFFICES ASSUME Added(b, n, key, list[p], anchor)
                  PROVE  PlacedUpTo(r, n, list, stable, fixed \cup {p})
      BY <2>3
    <2>4. /\ World(n) /\ Around(b, n) /\ n.moves = b.moves
          /\ DOMAIN n.rows = DOMAIN b.rows \cup {key}
          /\ \A k \in DOMAIN b.rows : n.rows[k] = b.rows[k]
          /\ n.rows[key].values = list[p]
          /\ Token(n, key) \in setup.keys \X Nat /\ Token(n, key) \notin Tokens(b)
          /\ n.children = InsertBefore(b.children, Token(n, key), anchor)
          /\ Strict(b) => Strict(n)
          /\ Written(b, n.rows[key], IndexOf(b, key))
      BY DEF Added
    <2>5. \A k \in DOMAIN b.rows : Token(n, k) = Token(b, k)
      BY <2>4 DEF Token
    <2>6. InFront(n.children, b.children, tok[p], anchor)
      BY <1>7, <1>11, <1>13, <2>4, InsertBeforeIs, SMTT(30)
    <2>7. Ordered(r, list, stable) => Ordered(n, list, fixed \cup {p})
      BY <1>7, <1>8, <1>14, <1>16, <2>5, <2>6
    <2>8. DOMAIN n.rows = DOMAIN r.rows \cup {list[q].id : q \in fixed \cup {p}}
      <3>1. {list[q].id : q \in fixed \cup {p}} = {list[q].id : q \in fixed} \cup {key}
        BY <1>2
      <3>. QED
        BY <1>4, <2>4, <3>1
    <2>9. n.moves = r.moves + Cardinality({q \in (fixed \cup {p}) \ stable : list[q].id \in DOMAIN r.rows})
      <3>1. {q \in (fixed \cup {p}) \ stable : list[q].id \in DOMAIN r.rows}
              = {q \in fixed \ stable : list[q].id \in DOMAIN r.rows}
        BY <1>2, <1>18
      <3>. QED
        BY <1>4, <2>4, <3>1
    <2>10. Around(r, n)
      BY <1>4, <2>4 DEF Around
    <2>11. Strict(r) => Strict(n)
      BY <2>4 DEF PlacedUpTo
    <2>12. ASSUME NEW q \in fixed \cup {p}, list[q].id \notin DOMAIN r.rows
           PROVE  /\ n.rows[list[q].id].values = list[q]
                  /\ Written(r, n.rows[list[q].id], IndexOf(r, list[q].id))
      <3>1. CASE q = p
        <4>1. IndexOf(b, key) = IndexOf(r, key) /\ b.flag = r.flag
          BY <1>4 DEF Around, IndexOf
        <4>2. \A reads, values, index :
                /\ Shows(b, reads, values, index) = Shows(r, reads, values, index)
                /\ Selects(b, values, index) = Selects(r, values, index)
          BY <4>1, SameShows
        <4>. QED
          BY <1>2, <2>4, <3>1, <4>1, <4>2 DEF Written
      <3>2. CASE q # p
        BY <1>8, <2>4, <2>12, <3>2 DEF PlacedUpTo
      <3>. QED
        BY <3>1, <3>2
    <2>. QED
      BY <1>4, <2>4, <2>7, <2>8, <2>9, <2>10, <2>11, <2>12 DEF PlacedUpTo
  <1>. QED
    BY <1>17, <1>18

\* A list is placed from right to left, all of it or up to a row that no
\* region is left for.
LEMMA PlacesAll ==
  ASSUME setup \in Setups, NEW r, World(r), r.error = "none", r.moves \in Nat,
         NEW list \in Seq(AnyRow),
         \A p, q \in 1 .. Len(list) : list[p].id = list[q].id => p = q,
         NEW stable \in SUBSET (1 .. Len(list)),
         \A q \in stable : list[q].id \in DOMAIN r.rows,
         NEW n, n = Perform(r, Placed(r, list, stable))
  PROVE  \/ PlacedUpTo(r, n, list, stable, 1 .. Len(list))
         \/ \E b : \E fixed : /\ PlacedUpTo(r, b, list, stable, fixed)
                              /\ n = Fails(b, "MOUNTED_REGION_LIMIT_EXCEEDED")
  <1>1. PICK len \in Nat : len = Len(list)
    BY SeqFacts
  <1>2. PICK m \in Nat : \E mv : FromTheRight(Placed(r, list, stable), r, list, stable, m, mv)
    BY PlacedIs
  <1>3. PICK mv : FromTheRight(Placed(r, list, stable), r, list, stable, m, mv)
    BY <1>2
  <1>4. PICK steps : steps = Placed(r, list, stable)
    OBVIOUS
  <1>5. PICK a : Trace(a, m, r, steps) /\ Perform(r, steps) = a[m]
    BY <1>3, <1>4, PerformRuns DEF FromTheRight
  <1>6. a[0] = r /\ \A i \in 1 .. m : a[i] = DoUnlessFailed(a[i - 1], PlaceStep(r, list, mv[m + 1 - i]))
    BY <1>3, <1>4, <1>5 DEF Trace, FromTheRight
  <1>7. /\ mv \in [1 .. m -> (1 .. len) \ stable]
        /\ \A i, j \in 1 .. m : i < j => mv[i] < mv[j]
        /\ \A i \in (1 .. len) \ stable : \E j \in 1 .. m : mv[j] = i
    BY <1>1, <1>3 DEF Places, FromTheRight
  <1>8. PICK fixed : fixed = [i \in 0 .. m |-> stable \cup {mv[m + 1 - j] : j \in 1 .. i}]
    OBVIOUS
  <1>9. \A i \in 0 .. m : fixed[i] = stable \cup {mv[m + 1 - j] : j \in 1 .. i}
    BY <1>8
  <1>10. PICK Stopped : Stopped = { x \in {a[i] : i \in 0 .. m} :
            \E b : \E f : /\ PlacedUpTo(r, b, list, stable, f)
                          /\ x = Fails(b, "MOUNTED_REGION_LIMIT_EXCEEDED") }
    OBVIOUS
  <1>11. PICK S : S = { i \in 0 .. m : \/ a[i] \in Stopped
                                       \/ PlacedUpTo(r, a[i], list, stable, fixed[i]) }
    OBVIOUS
  <1>12. 0 \in S
    <2>1. fixed[0] = stable
      <3>1. 0 \in 0 .. m /\ {mv[m + 1 - j] : j \in 1 .. 0} = {}
        OBVIOUS
      <3>2. fixed[0] = stable \cup {mv[m + 1 - j] : j \in 1 .. 0}
        BY <1>9, <3>1
      <3>. QED
        BY <3>1, <3>2
    <2>2. PlacedUpTo(r, r, list, stable, stable)
      <3>1. {p \in stable \ stable : list[p].id \in DOMAIN r.rows} = {}
        OBVIOUS
      <3>2. Cardinality({p \in stable \ stable : list[p].id \in DOMAIN r.rows}) = 0
        BY <3>1, FS_EmptySet
      <3>3. r.moves = r.moves + 0
        OBVIOUS
      <3>4. DOMAIN r.rows = DOMAIN r.rows \cup {list[p].id : p \in stable}
        OBVIOUS
      <3>. QED
        BY <3>2, <3>3, <3>4 DEF PlacedUpTo, Around
    <2>3. PlacedUpTo(r, a[0], list, stable, fixed[0])
      BY <1>6, <2>1, <2>2
    <2>4. 0 \in 0 .. m
      OBVIOUS
    <2>. QED
      BY <1>11, <2>3, <2>4
  <1>13. ASSUME NEW i \in 0 .. m - 1, i \in S PROVE i + 1 \in S
    <2>1. i + 1 \in 0 .. m /\ i + 1 \in 1 .. m /\ i + 1 - 1 = i /\ i \in 0 .. m
      OBVIOUS
    <2>2. PICK p : p = mv[m + 1 - (i + 1)]
      OBVIOUS
    <2>3. a[i + 1] = DoUnlessFailed(a[i], PlaceStep(r, list, p))
      BY <1>6, <2>1, <2>2
    <2>4. CASE a[i] \in Stopped
      <3>1. PICK b : a[i] = Fails(b, "MOUNTED_REGION_LIMIT_EXCEEDED")
                     /\ \E f : PlacedUpTo(r, b, list, stable, f)
        BY <1>10, <2>4
      <3>2. a[i].error # "none"
        <4>1. Shaped(b)
          BY <3>1 DEF PlacedUpTo, World
        <4>2. a[i].error = "MOUNTED_REGION_LIMIT_EXCEEDED"
          BY <3>1, <4>1 DEF Fails, Shaped
        <4>. QED
          BY <4>2
      <3>3. a[i + 1] = a[i]
        BY <2>3, <3>2, DoNothing
      <3>. QED
        BY <1>11, <2>1, <2>4, <3>3
    <2>5. CASE PlacedUpTo(r, a[i], list, stable, fixed[i])
      <3>1. m + 1 - (i + 1) \in 1 .. m
        OBVIOUS
      <3>2. p \in (1 .. len) \ stable
        BY <1>7, <2>2, <3>1
      <3>3. fixed[i] = stable \cup {mv[m + 1 - j] : j \in 1 .. i}
        BY <1>9, <2>1
      <3>4. \A j \in 1 .. i : m + 1 - j \in 1 .. m /\ p < mv[m + 1 - j]
        <4>. SUFFICES ASSUME NEW j \in 1 .. i PROVE m + 1 - j \in 1 .. m /\ p < mv[m + 1 - j]
          OBVIOUS
        <4>1. m + 1 - j \in 1 .. m /\ m + 1 - (i + 1) < m + 1 - j
          OBVIOUS
        <4>. QED
          BY <1>7, <2>2, <3>1, <4>1
      <3>5. p \notin fixed[i]
        <4>1. \A j \in 1 .. i : mv[m + 1 - j] \in 1 .. len
          BY <1>7, <3>4
        <4>2. \A j \in 1 .. i : mv[m + 1 - j] # p
          BY <3>2, <3>4, <4>1
        <4>. QED
          BY <3>2, <3>3, <4>2
      <3>6. fixed[i] \in SUBSET (1 .. len)
        <4>1. \A j \in 1 .. i : mv[m + 1 - j] \in 1 .. len
          BY <1>7, <3>4
        <4>2. stable \subseteq 1 .. len
          BY <1>1
        <4>3. ASSUME NEW q \in fixed[i] PROVE q \in 1 .. len
          <5>1. CASE q \in stable
            BY <4>2, <5>1
          <5>2. CASE \E j \in 1 .. i : q = mv[m + 1 - j]
            BY <4>1, <5>2
          <5>. QED
            BY <3>3, <5>1, <5>2
        <4>. QED
          BY <4>3
      <3>7. ASSUME NEW q \in p + 1 .. len PROVE q \in fixed[i]
        <4>1. CASE q \in stable
          BY <3>3, <4>1
        <4>2. CASE q \notin stable
          <5>1. q \in (1 .. len) \ stable
            BY <3>2, <4>2
          <5>2. PICK j \in 1 .. m : mv[j] = q
            BY <1>7, <5>1
          <5>3. m + 1 - (i + 1) < j
            <6>. SUFFICES ASSUME ~ (m + 1 - (i + 1) < j) PROVE FALSE
              OBVIOUS
            <6>1. j = m + 1 - (i + 1) \/ j < m + 1 - (i + 1)
              OBVIOUS
            <6>2. q = p \/ q < p
              BY <1>7, <2>2, <3>1, <5>2, <6>1
            <6>. QED
              BY <3>2, <6>2
          <5>4. m + 1 - j \in 1 .. i /\ m + 1 - (m + 1 - j) = j
            BY <5>3
          <5>5. mv[m + 1 - (m + 1 - j)] \in fixed[i]
            BY <3>3, <5>4
          <5>. QED
            BY <5>2, <5>4, <5>5
        <4>. QED
          BY <4>1, <4>2
      <3>8. a[i].error = "none"
        BY <2>5 DEF PlacedUpTo, Around
      <3>9. fixed[i + 1] = fixed[i] \cup {p}
        <4>1. fixed[i + 1] = stable \cup {mv[m + 1 - j] : j \in 1 .. i + 1}
          BY <1>9, <2>1
        <4>2. 1 .. i + 1 = 1 .. i \cup {i + 1}
          OBVIOUS
        <4>. QED
          BY <2>2, <3>3, <4>1, <4>2, SMTT(30)
      <3>10. \/ PlacedUpTo(r, a[i + 1], list, stable, fixed[i] \cup {p})
             \/ a[i + 1] = Fails(a[i], "MOUNTED_REGION_LIMIT_EXCEEDED")
        BY <1>1, <2>3, <2>5, <3>2, <3>3, <3>5, <3>6, <3>7, <3>8, PlaceOneMore
      <3>11. CASE PlacedUpTo(r, a[i + 1], list, stable, fixed[i] \cup {p})
        BY <1>11, <2>1, <3>9, <3>11
      <3>12. CASE a[i + 1] = Fails(a[i], "MOUNTED_REGION_LIMIT_EXCEEDED")
        <4>1. a[i + 1] \in Stopped
          BY <1>10, <2>1, <2>5, <3>12
        <4>. QED
          BY <1>11, <2>1, <4>1
      <3>. QED
        BY <3>10, <3>11, <3>12
    <2>. QED
      BY <1>11, <1>13, <2>4, <2>5
  <1>14. m \in S
    <2>1. \A i \in 0 .. m : i \in S
      BY ONLY <1>12, <1>13, m \in Nat, Climb
    <2>. QED
      BY <2>1
  <1>15. n = a[m]
    BY <1>4, <1>5
  <1>16. fixed[m] = 1 .. len
    <2>1. fixed[m] = stable \cup {mv[m + 1 - j] : j \in 1 .. m}
      BY <1>9
    <2>2. \A j \in 1 .. m : m + 1 - j \in 1 .. m /\ m + 1 - (m + 1 - j) = j
      OBVIOUS
    <2>3. \A i \in (1 .. len) \ stable : \E j \in 1 .. m : mv[m + 1 - j] = i
      BY <1>7, <2>2, ZenonT(60)
    <2>4. \A j \in 1 .. m : mv[m + 1 - j] \in 1 .. len
      BY <1>7, <2>2
    <2>5. stable \subseteq 1 .. len
      BY <1>1
    <2>. QED
      BY ONLY <2>1, <2>3, <2>4, <2>5, ZenonT(60)
  <1>. QED
    BY <1>1, <1>10, <1>11, <1>14, <1>15, <1>16

(***************************************************************************)
(* A longest increasing run                                                *)
(***************************************************************************)

\* The fold that deals the ranks.
Deals(it, n, rt, ranks, steps) ==
  it = [s \in SUBSET (1 .. n) |->
          IF s = {} THEN rt ELSE Deal(ranks, it[s \ {Max(s)}], steps[Max(s)])]

LEMMA DealsFurther ==
  ASSUME NEW rt, NEW ranks, NEW steps, NEW n \in Nat, NEW it, Deals(it, n, rt, ranks, steps)
  PROVE  \E next : Deals(next, n + 1, rt, ranks, steps)
  <1>1. \A s \in SUBSET (1 .. n) :
          it[s] = IF s = {} THEN rt ELSE Deal(ranks, it[s \ {Max(s)}], steps[Max(s)])
    BY Zenon DEF Deals
  <1>2. PICK g : g = [s \in SUBSET (1 .. n + 1) |->
                        IF n + 1 \in s THEN Deal(ranks, it[s \ {n + 1}], steps[n + 1])
                        ELSE it[s]]
    OBVIOUS
  <1>3. \A s \in SUBSET (1 .. n + 1) :
          /\ n + 1 \in s => g[s] = Deal(ranks, it[s \ {n + 1}], steps[n + 1])
          /\ n + 1 \notin s => g[s] = it[s]
    BY <1>2
  <1>4. ASSUME NEW s \in SUBSET (1 .. n + 1), s # {}
        PROVE  Max(s) \in s /\ (n + 1 \in s => Max(s) = n + 1)
    <2>1. s \in SUBSET (0 .. n + 1) /\ n + 1 \in Nat
      OBVIOUS
    <2>2. Max(s) \in s /\ \A i \in s : i <= Max(s)
      BY <1>4, <2>1, MaxIs
    <2>3. Max(s) \in 1 .. n + 1
      BY <2>2
    <2>4. ASSUME n + 1 \in s PROVE Max(s) = n + 1
      <3>1. n + 1 <= Max(s)
        BY <2>2, <2>4
      <3>. QED
        BY ONLY <2>3, <3>1, n \in Nat
    <2>. QED
      BY <2>2, <2>4
  <1>5. ASSUME NEW s \in SUBSET (1 .. n + 1)
        PROVE  g[s] = IF s = {} THEN rt ELSE Deal(ranks, g[s \ {Max(s)}], steps[Max(s)])
    <2>1. CASE n + 1 \in s
      <3>1. Max(s) = n + 1 /\ s # {}
        BY <1>4, <2>1
      <3>2. s \ {n + 1} \in SUBSET (1 .. n + 1) /\ n + 1 \notin s \ {n + 1}
        OBVIOUS
      <3>3. g[s \ {n + 1}] = it[s \ {n + 1}]
        BY <1>3, <3>2
      <3>. QED
        BY <1>3, <2>1, <3>1, <3>3
    <2>2. CASE n + 1 \notin s
      <3>1. s \in SUBSET (1 .. n) /\ g[s] = it[s]
        BY <1>3, <2>2
      <3>2. CASE s = {}
        BY <1>1, <3>1, <3>2
      <3>3. CASE s # {}
        <4>1. s \ {Max(s)} \in SUBSET (1 .. n + 1) /\ n + 1 \notin s \ {Max(s)}
          BY <2>2
        <4>2. g[s \ {Max(s)}] = it[s \ {Max(s)}]
          BY <1>3, <4>1
        <4>. QED
          BY <1>1, <3>1, <3>3, <4>2
      <3>. QED
        BY <3>2, <3>3
    <2>. QED
      BY <2>1, <2>2
  <1>6. g = [s \in SUBSET (1 .. n + 1) |->
               IF s = {} THEN rt ELSE Deal(ranks, g[s \ {Max(s)}], steps[Max(s)])]
    BY ONLY <1>2, <1>5
  <1>. QED
    BY Zenon, <1>6 DEF Deals

LEMMA DealsExist ==
  ASSUME NEW rt, NEW ranks, NEW steps, NEW n \in Nat
  PROVE  \E it : Deals(it, n, rt, ranks, steps)
  <1>1. PICK S : S = { i \in Nat : \E it : Deals(it, i, rt, ranks, steps) }
    OBVIOUS
  <1>2. 0 \in S
    <2>1. PICK it : it = [s \in SUBSET (1 .. 0) |-> rt]
      OBVIOUS
    <2>2. SUBSET (1 .. 0) = {{}}
      OBVIOUS
    <2>3. \A s \in SUBSET (1 .. 0) :
            rt = IF s = {} THEN rt ELSE Deal(ranks, it[s \ {Max(s)}], steps[Max(s)])
      BY <2>2
    <2>4. it = [s \in SUBSET (1 .. 0) |->
                  IF s = {} THEN rt ELSE Deal(ranks, it[s \ {Max(s)}], steps[Max(s)])]
      BY ONLY <2>1, <2>3
    <2>5. Deals(it, 0, rt, ranks, steps)
      BY Zenon, <2>4 DEF Deals
    <2>. QED
      BY <1>1, <2>5
  <1>3. \A i \in 0 .. n - 1 : i \in S => i + 1 \in S
    BY <1>1, DealsFurther
  <1>4. n \in S
    BY <1>2, <1>3, Climb
  <1>. QED
    BY <1>1, <1>4

NoPiles == [tails |-> << >>, parents |-> << >>]
Cards(ranks) == [i \in DOMAIN ranks |-> i]

LEMMA DealtRuns ==
  ASSUME NEW ranks, NEW n \in Nat, DOMAIN ranks = 1 .. n
  PROVE  \E a : /\ a[0] = NoPiles
                /\ \A i \in 1 .. n : a[i] = Deal(ranks, a[i - 1], i)
                /\ Dealt(ranks) = a[n]
  <1>1. PICK rt : rt = NoPiles
    OBVIOUS
  <1>2. PICK steps : steps = Cards(ranks)
    OBVIOUS
  <1>3. DOMAIN steps = 1 .. n /\ \A i \in 1 .. n : steps[i] = i
    BY <1>2 DEF Cards
  <1>4. PICK it : it = CHOOSE f : Deals(f, n, rt, ranks, steps)
    OBVIOUS
  <1>5. Deals(it, n, rt, ranks, steps)
    BY <1>4, DealsExist
  <1>6. Dealt(ranks) = it[1 .. n]
    <2>1. Dealt(ranks) = (CHOOSE f : f = [s \in SUBSET (DOMAIN Cards(ranks)) |->
             IF s = {} THEN NoPiles
             ELSE Deal(ranks, f[s \ {Max(s)}], Cards(ranks)[Max(s)])])[DOMAIN Cards(ranks)]
      BY Zenon DEF Dealt, FoldLeft, MapThenFoldSet, NoPiles, Cards
    <2>2. Dealt(ranks) = (CHOOSE f : f = [s \in SUBSET (DOMAIN steps) |->
             IF s = {} THEN rt ELSE Deal(ranks, f[s \ {Max(s)}], steps[Max(s)])])[DOMAIN steps]
      BY ONLY <2>1, <1>1, <1>2
    <2>. QED
      BY <1>3, <1>4, <2>2 DEF Deals
  <1>7. \A s \in SUBSET (1 .. n) :
          it[s] = IF s = {} THEN rt ELSE Deal(ranks, it[s \ {Max(s)}], steps[Max(s)])
    BY Zenon, <1>5 DEF Deals
  <1>8. PICK a : a = [i \in 0 .. n |-> it[1 .. i]]
    OBVIOUS
  <1>9. a[0] = rt
    <2>1. 0 \in 0 .. n /\ 1 .. 0 = {} /\ {} \in SUBSET (1 .. n)
      OBVIOUS
    <2>. QED
      BY <1>7, <1>8, <2>1
  <1>10. ASSUME NEW i \in 1 .. n PROVE a[i] = Deal(ranks, a[i - 1], steps[i])
    <2>1. 1 .. i \in SUBSET (1 .. n) /\ 1 .. i # {} /\ 1 .. i \in SUBSET (0 .. i) /\ i \in Nat
      <3>1. i \in Nat /\ i \in 1 .. i
        OBVIOUS
      <3>2. \A j \in 1 .. i : j \in 1 .. n /\ j \in 0 .. i
        OBVIOUS
      <3>. QED
        BY ONLY <3>1, <3>2
    <2>2. Max(1 .. i) \in 1 .. i /\ \A j \in 1 .. i : j <= Max(1 .. i)
      BY <2>1, MaxIs
    <2>3. Max(1 .. i) = i
      BY <2>1, <2>2
    <2>4. (1 .. i) \ {i} = 1 .. i - 1
      OBVIOUS
    <2>5. it[1 .. i] = Deal(ranks, it[1 .. i - 1], steps[i])
      BY <1>7, <2>1, <2>3, <2>4
    <2>. QED
      BY <1>8, <2>5
  <1>11. a[n] = it[1 .. n]
    BY <1>8
  <1>12. \A i \in 1 .. n : a[i] = Deal(ranks, a[i - 1], i)
    BY <1>10, <1>3
  <1>. QED
    BY <1>1, <1>6, <1>9, <1>11, <1>12

\* The numbers up to m that are in a set which with a number holds those below.
LEMMA InitialSegment ==
  ASSUME NEW m \in Nat, NEW S \in SUBSET (1 .. m),
         \A p \in S : \A q \in 1 .. p : q \in S
  PROVE  Cardinality(S) \in 0 .. m /\ S = 1 .. Cardinality(S)
  <1>1. CASE S = {}
    <2>1. Cardinality(S) = 0
      BY <1>1, FS_EmptySet
    <2>. QED
      BY <1>1, <2>1
  <1>2. CASE S # {}
    <2>1. S \in SUBSET (0 .. m)
      OBVIOUS
    <2>2. PICK top \in S : \A n \in S : n <= top
      BY <1>2, <2>1, Greatest
    <2>3. S = 1 .. top
      <3>1. top \in 1 .. m /\ \A q \in 1 .. top : q \in S
        BY <2>2
      <3>2. \A q \in S : q \in 1 .. m /\ q <= top
        BY <2>2
      <3>3. \A q \in S : q \in 1 .. top
        BY <3>1, <3>2
      <3>. QED
        BY <3>1, <3>3
    <2>4. 1 \in Int /\ top \in Int /\ top \in 1 .. m
      BY <2>2
    <2>5. Cardinality(1 .. top) = top
      <3>1. Cardinality(1 .. top) = IF 1 > top THEN 0 ELSE top - 1 + 1
        BY ONLY <2>4, FS_Interval
      <3>. QED
        BY <2>4, <3>1
    <2>. QED
      BY <2>3, <2>4, <2>5
  <1>. QED
    BY <1>1, <1>2

\* The piles after k cards: the topmost ranks rise from pile to pile, each card
\* knows the one that was on top of the pile to the left of its own, and no
\* card goes to the pile of a lower one that was dealt before it, or further
\* to the left.
PilesTyped(k, piles) ==
  /\ piles = [tails |-> piles.tails, parents |-> piles.parents]
  /\ piles.tails \in Seq(Nat) /\ piles.parents \in Seq(Nat) /\ Len(piles.parents) = k
  /\ \A j \in 1 .. Len(piles.tails) : piles.tails[j] \in 1 .. k
  /\ \A c \in 1 .. k : piles.parents[c] \in 0 .. c - 1
Tops(ranks, k, piles, pile) ==
  /\ \A i, j \in 1 .. Len(piles.tails) : i < j => ranks[piles.tails[i]] < ranks[piles.tails[j]]
  /\ \A j \in 1 .. Len(piles.tails) : pile[piles.tails[j]] = j
  /\ \A c \in 1 .. k : /\ pile[c] \in 1 .. Len(piles.tails)
                        /\ ranks[piles.tails[pile[c]]] <= ranks[c]
Lineage(ranks, k, piles, pile) ==
  \A c \in 1 .. k :
    /\ piles.parents[c] = 0 => pile[c] = 1
    /\ piles.parents[c] # 0 => /\ ranks[piles.parents[c]] < ranks[c]
                               /\ pile[piles.parents[c]] = pile[c] - 1
RunsRise(ranks, k, pile) ==
  \A c, d \in 1 .. k : c < d /\ ranks[c] < ranks[d] => pile[c] < pile[d]
PilesOK(ranks, k, piles) ==
  /\ PilesTyped(k, piles)
  /\ \E pile : Tops(ranks, k, piles, pile) /\ Lineage(ranks, k, piles, pile) /\ RunsRise(ranks, k, pile)

LEMMA DealOneMore ==
  ASSUME NEW n \in Nat, NEW ranks, \A i \in 1 .. n : ranks[i] \in Nat,
         NEW k \in 0 .. n - 1, NEW piles, PilesOK(ranks, k, piles),
         NEW next, next = Deal(ranks, piles, k + 1)
  PROVE  PilesOK(ranks, k + 1, next)
  <1>1. PICK c \in 1 .. n : c = k + 1
    OBVIOUS
  <1>2. PICK t : t = piles.tails
    OBVIOUS
  <1>3. PICK p : p = piles.parents
    OBVIOUS
  <1>4. t \in Seq(Nat) /\ p \in Seq(Nat) /\ Len(p) = k
        /\ \A d \in 1 .. k : p[d] \in 0 .. d - 1
    BY <1>2, <1>3 DEF PilesOK, PilesTyped
  <1>5. PICK m \in Nat : m = Len(t) /\ DOMAIN t = 1 .. m
    BY <1>4, SeqFacts
  <1>6. \A j \in 1 .. m : t[j] \in 1 .. k
    BY <1>2, <1>5 DEF PilesOK, PilesTyped
  <1>7. PICK pile : Tops(ranks, k, piles, pile) /\ Lineage(ranks, k, piles, pile) /\ RunsRise(ranks, k, pile)
    BY DEF PilesOK
  <1>8. /\ \A i, j \in 1 .. m : i < j => ranks[t[i]] < ranks[t[j]]
        /\ \A j \in 1 .. m : pile[t[j]] = j
        /\ \A d \in 1 .. k : pile[d] \in 1 .. m /\ ranks[t[pile[d]]] <= ranks[d]
    BY <1>2, <1>5, <1>7 DEF Tops
  <1>9. PICK lower \in SUBSET (1 .. m) : lower = {j \in 1 .. m : ranks[t[j]] < ranks[c]}
    OBVIOUS
  <1>10. \A j \in 1 .. m : ranks[t[j]] \in Nat
    BY <1>6
  <1>11. ASSUME NEW j \in lower, NEW q \in 1 .. j PROVE q \in lower
    <2>1. j \in 1 .. m /\ q \in 1 .. m /\ (q = j \/ q < j) /\ ranks[t[j]] < ranks[c]
      BY <1>9
    <2>2. ranks[t[q]] < ranks[c]
      BY <1>1, <1>8, <1>10, <2>1
    <2>. QED
      BY <1>9, <2>1, <2>2
  <1>12. PICK low \in 0 .. m : low = Cardinality(lower) /\ lower = 1 .. low
    <2>1. \A j \in lower : \A q \in 1 .. j : q \in lower
      BY <1>11
    <2>. QED
      BY ONLY <2>1, m \in Nat, lower \in SUBSET (1 .. m), InitialSegment
  <1>13. PICK slot \in 1 .. m + 1 : slot = low + 1
    OBVIOUS
  <1>14. \A j \in 1 .. m : ranks[t[j]] < ranks[c] <=> j < slot
    <2>. SUFFICES ASSUME NEW j \in 1 .. m PROVE ranks[t[j]] < ranks[c] <=> j < slot
      OBVIOUS
    <2>1. ranks[t[j]] < ranks[c] <=> j \in lower
      BY <1>9
    <2>2. j \in lower <=> j <= low
      <3>1. lower = 1 .. low /\ low \in 0 .. m
        BY <1>12
      <3>2. j \in 1 .. low <=> j <= low
        BY <3>1
      <3>. QED
        BY <3>1, <3>2
    <2>. QED
      BY <1>13, <2>1, <2>2
  <1>15. PICK parent : parent = IF slot > 1 THEN t[slot - 1] ELSE 0
    OBVIOUS
  <1>16. PICK tails : tails = IF slot > m THEN Append(t, c) ELSE [t EXCEPT ![slot] = c]
    OBVIOUS
  <1>17. PICK parents : parents = Append(p, parent)
    OBVIOUS
  <1>18. next = [tails |-> tails, parents |-> parents]
    <2>1. {j \in DOMAIN piles.tails : ranks[piles.tails[j]] < ranks[k + 1]} = lower
      BY <1>1, <1>2, <1>5, <1>9
    <2>2. slot = 1 + Cardinality({j \in DOMAIN piles.tails : ranks[piles.tails[j]] < ranks[k + 1]})
      <3>1. Cardinality({j \in DOMAIN piles.tails : ranks[piles.tails[j]] < ranks[k + 1]}) = low
        BY Zenon, <1>12, <2>1
      <3>2. slot = 1 + low
        BY <1>13
      <3>. QED
        BY <3>1, <3>2
    <2>. QED
      BY <1>1, <1>2, <1>3, <1>5, <1>15, <1>16, <1>17, <2>2 DEF Deal
  <1>19. next.tails = tails /\ next.parents = parents
         /\ next = [tails |-> next.tails, parents |-> next.parents]
    BY <1>18
  <1>20. parent \in 0 .. k /\ (slot = 1 => parent = 0)
         /\ (slot # 1 => parent = t[slot - 1] /\ slot - 1 \in 1 .. m /\ parent # 0)
    <2>1. CASE slot = 1
      BY <1>15, <2>1
    <2>2. CASE slot # 1
      <3>1. slot - 1 \in 1 .. m /\ parent = t[slot - 1]
        BY <1>15, <2>2
      <3>2. t[slot - 1] \in 1 .. k
        BY <1>6, <3>1
      <3>. QED
        BY <2>2, <3>1, <3>2
    <2>. QED
      BY <2>1, <2>2
  <1>21. parents \in Seq(Nat) /\ Len(parents) = k + 1 /\ parents[k + 1] = parent
         /\ \A d \in 1 .. k : parents[d] = p[d]
    <2>1. parent \in Nat
      BY <1>20
    <2>. QED
      BY <1>4, <1>17, <2>1, AppendProperties
  <1>22. PICK m2 \in Nat : m2 = IF slot > m THEN m + 1 ELSE m
    OBVIOUS
  <1>23. tails \in Seq(Nat) /\ Len(tails) = m2 /\ tails[slot] = c
         /\ \A j \in 1 .. m2 : j # slot => j \in 1 .. m /\ tails[j] = t[j]
    <2>1. CASE slot > m
      <3>1. slot = m + 1 /\ m2 = m + 1 /\ tails = Append(t, c) /\ c \in Nat
        BY <1>16, <1>22, <2>1
      <3>2. /\ tails \in Seq(Nat) /\ Len(tails) = m + 1 /\ tails[m + 1] = c
            /\ \A j \in 1 .. m : tails[j] = t[j]
        BY <1>4, <1>5, <3>1, AppendProperties
      <3>. QED
        BY <3>1, <3>2
    <2>2. CASE slot \in 1 .. m
      <3>1. m2 = m /\ tails = [t EXCEPT ![slot] = c] /\ c \in Nat
        BY <1>16, <1>22, <2>2
      <3>2. DOMAIN tails = 1 .. m /\ tails[slot] = c /\ \A j \in 1 .. m : j # slot => tails[j] = t[j]
        BY <1>5, <2>2, <3>1
      <3>3. tails = [j \in 1 .. m |-> tails[j]] /\ \A j \in 1 .. m : tails[j] \in Nat
        <4>1. tails = [j \in 1 .. m |-> IF j = slot THEN c ELSE t[j]]
          BY <1>5, <3>1
        <4>2. \A j \in 1 .. m : tails[j] \in Nat
          BY <1>6, <3>1, <3>2
        <4>. QED
          BY <4>1, <4>2
      <3>4. tails \in Seq(Nat) /\ Len(tails) = m
        BY ONLY <3>2, <3>3, m \in Nat, SeqMade
      <3>. QED
        BY <3>1, <3>2, <3>4
    <2>. QED
      BY <2>1, <2>2
  <1>24. PilesTyped(k + 1, next)
    <2>1. \A j \in 1 .. m2 : tails[j] \in 1 .. k + 1
      BY <1>1, <1>6, <1>23
    <2>2. \A d \in 1 .. k + 1 : parents[d] \in 0 .. d - 1
      BY <1>4, <1>20, <1>21
    <2>. QED
      BY <1>19, <1>21, <1>23, <2>1, <2>2 DEF PilesTyped
  <1>25. PICK pile2 : pile2 = [d \in 1 .. k + 1 |-> IF d = k + 1 THEN slot ELSE pile[d]]
    OBVIOUS
  <1>26. pile2[k + 1] = slot /\ \A d \in 1 .. k : pile2[d] = pile[d]
    BY <1>25
  <1>27. slot \in 1 .. m2 /\ \A j \in 1 .. m : j \in 1 .. m2
    BY <1>22
  <1>28. \A d \in 1 .. k : ranks[d] \in Nat /\ pile[d] \in 1 .. m
    BY <1>8
  <1>29. ranks[c] \in Nat
    OBVIOUS
  <1>30. Tops(ranks, k + 1, next, pile2)
    <2>1. ASSUME NEW i \in 1 .. m2, NEW j \in 1 .. m2, i < j
          PROVE  ranks[tails[i]] < ranks[tails[j]]
      <3>1. CASE i = slot
        <4>1. j # slot /\ j \in 1 .. m /\ tails[j] = t[j] /\ tails[i] = c /\ slot \in 1 .. m
          BY <1>23, <2>1, <3>1
        <4>2. ranks[t[slot]] < ranks[t[j]] /\ ~ (ranks[t[slot]] < ranks[c])
          BY <1>8, <1>14, <2>1, <3>1, <4>1
        <4>3. ranks[c] < ranks[t[j]]
          BY <1>10, <1>29, <4>1, <4>2
        <4>. QED
          BY <4>1, <4>3
      <3>2. CASE j = slot
        <4>1. i # slot /\ i \in 1 .. m /\ tails[i] = t[i] /\ tails[j] = c
          BY <1>23, <2>1, <3>2
        <4>. QED
          BY <1>14, <2>1, <3>2, <4>1
      <3>3. CASE i # slot /\ j # slot
        BY <1>8, <1>23, <2>1, <3>3
      <3>. QED
        BY <3>1, <3>2, <3>3
    <2>2. ASSUME NEW j \in 1 .. m2 PROVE pile2[tails[j]] = j
      <3>1. CASE j = slot
        BY <1>1, <1>23, <1>26, <3>1
      <3>2. CASE j # slot
        <4>1. j \in 1 .. m /\ tails[j] = t[j] /\ t[j] \in 1 .. k
          BY <1>6, <1>23, <3>2
        <4>. QED
          BY <1>8, <1>26, <4>1
      <3>. QED
        BY <3>1, <3>2
    <2>3. ASSUME NEW d \in 1 .. k + 1
          PROVE  pile2[d] \in 1 .. m2 /\ ranks[tails[pile2[d]]] <= ranks[d]
      <3>1. CASE d = k + 1
        BY <1>1, <1>23, <1>26, <1>27, <1>29, <3>1
      <3>2. CASE d \in 1 .. k
        <4>1. pile2[d] = pile[d] /\ pile[d] \in 1 .. m /\ pile[d] \in 1 .. m2
              /\ ranks[t[pile[d]]] <= ranks[d] /\ ranks[d] \in Nat /\ ranks[t[pile[d]]] \in Nat
          BY <1>8, <1>10, <1>26, <1>27, <1>28, <3>2
        <4>2. CASE pile[d] = slot
          <5>1. ~ (ranks[t[slot]] < ranks[c])
            BY <1>14, <4>1, <4>2
          <5>2. ranks[c] <= ranks[d]
            BY <1>29, <4>1, <4>2, <5>1
          <5>. QED
            BY <1>23, <4>1, <4>2, <5>2
        <4>3. CASE pile[d] # slot
          BY <1>23, <4>1, <4>3
        <4>. QED
          BY <4>2, <4>3
      <3>. QED
        BY <3>1, <3>2
    <2>. QED
      BY <1>19, <1>23, <2>1, <2>2, <2>3 DEF Tops
  <1>31. Lineage(ranks, k + 1, next, pile2)
    <2>. SUFFICES ASSUME NEW d \in 1 .. k + 1
                  PROVE  /\ parents[d] = 0 => pile2[d] = 1
                         /\ parents[d] # 0 => /\ ranks[parents[d]] < ranks[d]
                                              /\ pile2[parents[d]] = pile2[d] - 1
      BY <1>19 DEF Lineage
    <2>1. CASE d \in 1 .. k
      <3>1. parents[d] = p[d] /\ pile2[d] = pile[d]
        BY <1>21, <1>26, <2>1
      <3>2. /\ p[d] = 0 => pile[d] = 1
            /\ p[d] # 0 => ranks[p[d]] < ranks[d] /\ pile[p[d]] = pile[d] - 1
        BY <1>3, <1>7, <2>1 DEF Lineage
      <3>3. p[d] # 0 => p[d] \in 1 .. k
        <4>1. p[d] \in 0 .. d - 1
          BY <1>4, <2>1
        <4>. QED
          BY <2>1, <4>1
      <3>. QED
        BY <1>26, <3>1, <3>2, <3>3
    <2>2. CASE d = k + 1
      <3>1. parents[d] = parent /\ pile2[d] = slot
        BY <1>21, <1>26, <2>2
      <3>2. CASE slot = 1
        BY <1>20, <3>1, <3>2
      <3>3. CASE slot # 1
        <4>1. parent = t[slot - 1] /\ slot - 1 \in 1 .. m /\ parent # 0
          BY <1>20, <3>3
        <4>2. t[slot - 1] \in 1 .. k /\ ranks[t[slot - 1]] < ranks[c] /\ pile[t[slot - 1]] = slot - 1
          BY <1>6, <1>8, <1>14, <4>1
        <4>. QED
          BY <1>1, <1>26, <2>2, <3>1, <4>1, <4>2
      <3>. QED
        BY <3>2, <3>3
    <2>. QED
      BY <2>1, <2>2
  <1>32. RunsRise(ranks, k + 1, pile2)
    <2>. SUFFICES ASSUME NEW d \in 1 .. k + 1, NEW e \in 1 .. k + 1, d < e, ranks[d] < ranks[e]
                  PROVE  pile2[d] < pile2[e]
      BY DEF RunsRise
    <2>1. d \in 1 .. k
      OBVIOUS
    <2>2. CASE e \in 1 .. k
      BY <1>7, <1>26, <2>1, <2>2 DEF RunsRise
    <2>3. CASE e = k + 1
      <3>1. ranks[t[pile[d]]] <= ranks[d] /\ pile[d] \in 1 .. m /\ ranks[d] \in Nat
            /\ ranks[t[pile[d]]] \in Nat
        BY <1>8, <1>10, <1>28, <2>1
      <3>2. ranks[t[pile[d]]] < ranks[c]
        BY <1>1, <1>29, <2>3, <3>1
      <3>3. pile[d] < slot
        BY <1>14, <3>1, <3>2
      <3>. QED
        BY <1>26, <2>1, <2>3, <3>3
    <2>. QED
      BY <2>2, <2>3
  <1>. QED
    BY <1>24, <1>30, <1>31, <1>32 DEF PilesOK

LEMMA DealtIs ==
  ASSUME NEW n \in Nat, NEW ranks, DOMAIN ranks = 1 .. n, \A i \in 1 .. n : ranks[i] \in Nat
  PROVE  PilesOK(ranks, n, Dealt(ranks))
  <1>1. PICK a : /\ a[0] = NoPiles
                 /\ \A i \in 1 .. n : a[i] = Deal(ranks, a[i - 1], i)
                 /\ Dealt(ranks) = a[n]
    BY DealtRuns
  <1>2. PICK S : S = { i \in 0 .. n : PilesOK(ranks, i, a[i]) }
    OBVIOUS
  <1>3. 0 \in S
    <2>1. PICK none : none = NoPiles
      OBVIOUS
    <2>2. none.tails = << >> /\ none.parents = << >> /\ none = [tails |-> none.tails, parents |-> none.parents]
      BY <2>1 DEF NoPiles
    <2>3. << >> \in Seq(Nat) /\ Len(<< >>) = 0
      BY EmptySeq
    <2>4. 1 .. 0 = {}
      OBVIOUS
    <2>5. PilesTyped(0, none)
      BY <2>2, <2>3, <2>4 DEF PilesTyped
    <2>6. Tops(ranks, 0, none, none) /\ Lineage(ranks, 0, none, none) /\ RunsRise(ranks, 0, none)
      BY <2>2, <2>3, <2>4 DEF Tops, Lineage, RunsRise
    <2>7. PilesOK(ranks, 0, none)
      BY <2>5, <2>6 DEF PilesOK
    <2>8. 0 \in 0 .. n
      OBVIOUS
    <2>. QED
      BY <1>1, <1>2, <2>1, <2>7, <2>8
  <1>4. ASSUME NEW i \in 0 .. n - 1, i \in S PROVE i + 1 \in S
    <2>1. i + 1 \in 1 .. n /\ i + 1 \in 0 .. n /\ i + 1 - 1 = i
      OBVIOUS
    <2>2. PilesOK(ranks, i, a[i]) /\ a[i + 1] = Deal(ranks, a[i], i + 1)
      BY <1>1, <1>2, <1>4, <2>1
    <2>3. PilesOK(ranks, i + 1, a[i + 1])
      BY <2>2, DealOneMore
    <2>. QED
      BY <1>2, <2>1, <2>3
  <1>5. n \in S
    <2>1. \A i \in 0 .. n : i \in S
      BY ONLY <1>3, <1>4, n \in Nat, Climb
    <2>. QED
      BY <2>1
  <1>. QED
    BY <1>1, <1>2, <1>5

LEMMA Injects ==
  ASSUME NEW S, NEW T, IsFiniteSet(T), NEW f, \A x \in S : f[x] \in T,
         \A x, y \in S : f[x] = f[y] => x = y
  PROVE  IsFiniteSet(S) /\ Cardinality(S) <= Cardinality(T)
         /\ Cardinality(S) \in Nat /\ Cardinality(T) \in Nat
  <1>1. PICK g : g = [x \in S |-> f[x]]
    OBVIOUS
  <1>2. g \in [S -> T] /\ IsInjective(g)
    BY <1>1 DEF IsInjective
  <1>3. g \in Injection(S, T)
    BY <1>2 DEF Injection
  <1>4. IsFiniteSet(S) /\ Cardinality(S) <= Cardinality(T)
    BY <1>3, FS_Injection
  <1>. QED
    BY <1>4, FS_CardinalityType

\* The same, of an image.
LEMMA Image ==
  ASSUME NEW S, IsFiniteSet(S), NEW f, \A x, y \in S : f[x] = f[y] => x = y
  PROVE  IsFiniteSet({f[x] : x \in S}) /\ Cardinality({f[x] : x \in S}) = Cardinality(S)
  <1>1. PICK T : T = {f[x] : x \in S}
    OBVIOUS
  <1>2. PICK g : g = [x \in S |-> f[x]]
    OBVIOUS
  <1>3. g \in [S -> T] /\ IsInjective(g)
    BY <1>1, <1>2 DEF IsInjective
  <1>4. \A t \in T : \E s \in S : g[s] = t
    BY <1>1, <1>2
  <1>5. g \in Injection(S, T) /\ g \in Surjection(S, T)
    BY <1>3, <1>4 DEF Injection, Surjection
  <1>6. IsFiniteSet(T) /\ (Cardinality(T) = Cardinality(S) <=> g \in Injection(S, T))
    BY <1>5, FS_Surjection
  <1>. QED
    BY <1>1, <1>5, <1>6

\* The function that Ancestors defines, for the first n cards.
Chains(f, n, parents) ==
  f = [c \in 0 .. n |-> IF c = 0 THEN {} ELSE {c} \cup f[parents[c]]]

LEMMA ChainsFurther ==
  ASSUME NEW parents, NEW n \in Nat, NEW f, Chains(f, n, parents),
         \A c \in 1 .. n + 1 : parents[c] \in 0 .. c - 1
  PROVE  \E g : Chains(g, n + 1, parents)
  <1>1. f = [c \in 0 .. n |-> IF c = 0 THEN {} ELSE {c} \cup f[parents[c]]]
    BY DEF Chains
  <1>2. PICK g : g = [c \in 0 .. n + 1 |-> IF c = n + 1 THEN {c} \cup f[parents[c]] ELSE f[c]]
    OBVIOUS
  <1>3. \A c \in 0 .. n : g[c] = f[c]
    BY <1>2
  <1>4. ASSUME NEW c \in 0 .. n + 1
        PROVE  g[c] = IF c = 0 THEN {} ELSE {c} \cup g[parents[c]]
    <2>1. CASE c = n + 1
      <3>1. parents[c] \in 0 .. n /\ c # 0
        BY <2>1
      <3>2. g[parents[c]] = f[parents[c]]
        BY <1>3, <3>1
      <3>3. g[c] = {c} \cup f[parents[c]]
        BY <1>2, <2>1
      <3>. QED
        BY <3>1, <3>2, <3>3
    <2>2. CASE c \in 0 .. n
      <3>1. g[c] = f[c] /\ f[c] = IF c = 0 THEN {} ELSE {c} \cup f[parents[c]]
        BY <1>1, <1>3, <2>2
      <3>2. c # 0 => g[parents[c]] = f[parents[c]]
        <4>. SUFFICES ASSUME c # 0 PROVE g[parents[c]] = f[parents[c]]
          OBVIOUS
        <4>1. parents[c] \in 0 .. c - 1
          OBVIOUS
        <4>2. parents[c] \in 0 .. n
          BY <2>2, <4>1
        <4>. QED
          BY <1>3, <4>2
      <3>. QED
        BY <3>1, <3>2
    <2>. QED
      BY <2>1, <2>2
  <1>5. g = [c \in 0 .. n + 1 |-> IF c = 0 THEN {} ELSE {c} \cup g[parents[c]]]
    BY ONLY <1>2, <1>4
  <1>. QED
    BY Zenon, <1>5 DEF Chains

LEMMA ChainsExist ==
  ASSUME NEW parents, NEW n \in Nat, \A c \in 1 .. n : parents[c] \in 0 .. c - 1
  PROVE  \E f : Chains(f, n, parents)
  <1>1. PICK S : S = { i \in 0 .. n : \E f : Chains(f, i, parents) }
    OBVIOUS
  <1>2. 0 \in S
    <2>1. PICK f : f = [c \in 0 .. 0 |-> {}]
      OBVIOUS
    <2>2. f = [c \in 0 .. 0 |-> IF c = 0 THEN {} ELSE {c} \cup f[parents[c]]]
      BY <2>1
    <2>3. Chains(f, 0, parents)
      BY Zenon, <2>2 DEF Chains
    <2>. QED
      BY <1>1, <2>3
  <1>3. ASSUME NEW i \in 0 .. n - 1, i \in S PROVE i + 1 \in S
    <2>1. PICK f : Chains(f, i, parents)
      BY <1>1, <1>3
    <2>2. \A c \in 1 .. i + 1 : parents[c] \in 0 .. c - 1
      OBVIOUS
    <2>3. \E g : Chains(g, i + 1, parents)
      BY <2>1, <2>2, ChainsFurther
    <2>. QED
      BY <1>1, <2>3
  <1>4. n \in S
    <2>1. \A i \in 0 .. n : i \in S
      BY ONLY <1>2, <1>3, n \in Nat, Climb
    <2>. QED
      BY <2>1
  <1>. QED
    BY <1>1, <1>4

\* A run of ranks that rises.
Rises(ranks, run) == \A c, d \in run : c < d => ranks[c] < ranks[d]
Line(ranks, pile, run, c) ==
  /\ IsFiniteSet(run) /\ run \subseteq 1 .. c /\ Rises(ranks, run)
  /\ c = 0 => run = {}
  /\ c # 0 => c \in run /\ Cardinality(run) = pile[c]

LEMMA AncestorsAre ==
  ASSUME NEW n \in Nat, NEW ranks, \A i \in 1 .. n : ranks[i] \in Nat,
         NEW piles, PilesTyped(n, piles), NEW pile, Tops(ranks, n, piles, pile),
         Lineage(ranks, n, piles, pile), NEW c \in 1 .. n
  PROVE  Line(ranks, pile, Ancestors(piles.parents, c), c)
  <1>1. PICK p : p = piles.parents
    OBVIOUS
  <1>2. Len(p) = n /\ \A d \in 1 .. n : p[d] \in 0 .. d - 1
    BY <1>1 DEF PilesTyped
  <1>3. PICK f : f = CHOOSE g : Chains(g, n, p)
    OBVIOUS
  <1>4. Chains(f, n, p)
    BY <1>2, <1>3, ChainsExist
  <1>5. Ancestors(p, c) = f[c]
    BY <1>2, <1>3 DEF Ancestors, Chains
  <1>6. \A d \in 0 .. n : f[d] = IF d = 0 THEN {} ELSE {d} \cup f[p[d]]
    BY Zenon, <1>4 DEF Chains
  <1>7. \A d \in 1 .. n : pile[d] \in Nat
    BY DEF Tops
  <1>8. PICK S : S = { i \in 0 .. n : \A d \in 0 .. i : Line(ranks, pile, f[d], d) }
    OBVIOUS
  <1>9. 0 \in S
    <2>1. 0 \in 0 .. n
      OBVIOUS
    <2>2. f[0] = {}
      BY <1>6, <2>1
    <2>3. Line(ranks, pile, f[0], 0)
      BY <2>2, FS_EmptySet DEF Line, Rises
    <2>4. \A d \in 0 .. 0 : d = 0
      OBVIOUS
    <2>. QED
      BY <1>8, <2>1, <2>3, <2>4
  <1>10. ASSUME NEW i \in 0 .. n - 1, i \in S PROVE i + 1 \in S
    <2>1. PICK d \in 1 .. n : d = i + 1
      OBVIOUS
    <2>2. PICK q \in 0 .. i : q = p[d]
      <3>1. p[d] \in 0 .. d - 1
        BY <1>2
      <3>. QED
        BY <2>1, <3>1
    <2>3. Line(ranks, pile, f[q], q)
      BY <1>8, <1>10
    <2>4. f[d] = {d} \cup f[q]
      <3>1. d \in 0 .. n /\ d # 0
        OBVIOUS
      <3>. QED
        BY <1>6, <2>2, <3>1
    <2>5. /\ q = 0 => pile[d] = 1
          /\ q # 0 => ranks[q] < ranks[d] /\ pile[q] = pile[d] - 1
      BY <1>1, <2>2 DEF Lineage
    <2>6. IsFiniteSet(f[q]) /\ f[q] \subseteq 1 .. q /\ Rises(ranks, f[q])
          /\ (q = 0 => f[q] = {}) /\ (q # 0 => q \in f[q] /\ Cardinality(f[q]) = pile[q])
      BY <2>3 DEF Line
    <2>7. \A e \in f[q] : e \in 1 .. n /\ e <= q /\ e < d
      BY <2>1, <2>2, <2>6
    <2>8. \A e \in f[q] : ranks[e] < ranks[d]
      <3>. SUFFICES ASSUME NEW e \in f[q] PROVE ranks[e] < ranks[d]
        OBVIOUS
      <3>1. q # 0 /\ q \in 1 .. n /\ e \in 1 .. n
        BY <2>6, <2>7
      <3>2. e = q \/ (e < q /\ q \in f[q])
        BY <2>6, <2>7, <3>1
      <3>3. ranks[e] <= ranks[q]
        BY <2>6, <3>1, <3>2 DEF Rises
      <3>. QED
        BY <2>5, <3>1, <3>3
    <2>9. d \notin f[q]
      BY <2>7
    <2>10. IsFiniteSet(f[d]) /\ Cardinality(f[q]) \in Nat /\ Cardinality(f[d]) = Cardinality(f[q]) + 1
      <3>1. f[d] = f[q] \cup {d}
        BY <2>4
      <3>2. IsFiniteSet(f[q] \cup {d})
        BY <2>6, FS_AddElement
      <3>3. Cardinality(f[q]) \in Nat /\ Cardinality(f[q] \cup {d}) = Cardinality(f[q]) + 1
        BY <2>6, <2>9, CountOneMore
      <3>. QED
        BY <3>1, <3>2, <3>3
    <2>11. Cardinality(f[d]) = pile[d]
      <3>1. CASE q = 0
        <4>1. Cardinality(f[q]) = 0
          BY <2>6, <3>1, FS_EmptySet
        <4>. QED
          BY <2>5, <2>10, <3>1, <4>1
      <3>2. CASE q # 0
        <4>1. q \in 1 .. n
          BY <3>2
        <4>. QED
          BY <1>7, <2>5, <2>6, <2>10, <3>2, <4>1
      <3>. QED
        BY <3>1, <3>2
    <2>12. Rises(ranks, f[d])
      <3>. SUFFICES ASSUME NEW x \in f[d], NEW y \in f[d], x < y PROVE ranks[x] < ranks[y]
        BY DEF Rises
      <3>1. CASE x \in f[q] /\ y \in f[q]
        BY <2>6, <3>1 DEF Rises
      <3>2. CASE y = d /\ x # d
        BY <2>4, <2>8, <3>2
      <3>3. CASE x = d
        BY <2>4, <2>7, <3>3
      <3>. QED
        BY <2>4, <3>1, <3>2, <3>3
    <2>13. f[d] \subseteq 1 .. d
      BY <2>4, <2>7
    <2>14. Line(ranks, pile, f[d], d)
      BY <2>4, <2>10, <2>11, <2>12, <2>13 DEF Line
    <2>15. \A e \in 0 .. i + 1 : e \in 0 .. i \/ e = d
      BY <2>1
    <2>16. \A e \in 0 .. i : Line(ranks, pile, f[e], e)
      BY <1>8, <1>10
    <2>17. i + 1 \in 0 .. n
      OBVIOUS
    <2>. QED
      BY <1>8, <2>14, <2>15, <2>16, <2>17
  <1>11. n \in S
    <2>1. \A i \in 0 .. n : i \in S
      BY ONLY <1>9, <1>10, n \in Nat, Climb
    <2>. QED
      BY <2>1
  <1>12. c \in 0 .. n
    OBVIOUS
  <1>. QED
    BY <1>1, <1>5, <1>8, <1>11, <1>12

\* The run rises, and there is none of more ranks.
LongestOf(ranks, n, run) ==
  /\ run \subseteq 1 .. n /\ Rises(ranks, run)
  /\ \A other \in SUBSET (1 .. n) :
       Rises(ranks, other) => Cardinality(other) <= Cardinality(run)

LEMMA LongestRunIs ==
  ASSUME NEW n \in Nat, NEW ranks \in Seq(Nat), Len(ranks) = n
  PROVE  LongestOf(ranks, n, LongestRun(ranks))
  <1>1. DOMAIN ranks = 1 .. n /\ \A i \in 1 .. n : ranks[i] \in Nat
    BY SeqFacts
  <1>2. PICK run : run = LongestRun(ranks)
    OBVIOUS
  <1>3. CASE ranks = << >>
    <2>1. n = 0 /\ run = {}
      BY <1>2, <1>3, EmptySeq DEF LongestRun
    <2>2. \A other \in SUBSET (1 .. n) : other = {}
      BY <2>1
    <2>3. Cardinality({}) = 0
      BY FS_EmptySet
    <2>4. \A other \in SUBSET (1 .. n) : Cardinality(other) <= Cardinality(run)
      <3>1. Cardinality(run) = 0 /\ \A other \in SUBSET (1 .. n) : Cardinality(other) = 0
        BY Zenon, <2>1, <2>2, <2>3
      <3>2. 0 <= 0
        OBVIOUS
      <3>. QED
        BY Zenon, <3>1, <3>2
    <2>. QED
      BY <1>2, <2>1, <2>4 DEF LongestOf, Rises
  <1>4. CASE ranks # << >>
    <2>1. n # 0 /\ 1 \in 1 .. n
      <3>1. n # 0
        BY <1>4, EmptySeq
      <3>. QED
        BY <3>1
    <2>2. PICK piles : piles = Dealt(ranks)
      OBVIOUS
    <2>3. PilesOK(ranks, n, piles)
      BY <1>1, <2>2, DealtIs
    <2>4. PICK pile : Tops(ranks, n, piles, pile) /\ Lineage(ranks, n, piles, pile) /\ RunsRise(ranks, n, pile)
      BY <2>3 DEF PilesOK
    <2>5. PilesTyped(n, piles)
      BY <2>3 DEF PilesOK
    <2>6. PICK m \in Nat : m = Len(piles.tails)
      BY <2>5, SeqFacts DEF PilesTyped
    <2>7. \A c \in 1 .. n : pile[c] \in 1 .. m
      BY <2>4, <2>6 DEF Tops
    <2>8. m \in 1 .. m
      BY <2>1, <2>7
    <2>9. PICK c \in 1 .. n : c = piles.tails[m]
      BY <2>5, <2>6, <2>8 DEF PilesTyped
    <2>10. pile[c] = m
      BY <2>4, <2>6, <2>8, <2>9 DEF Tops
    <2>11. run = Ancestors(piles.parents, c)
      BY <1>2, <1>4, <2>2, <2>6, <2>9 DEF LongestRun, Last
    <2>12. Line(ranks, pile, run, c)
      BY <1>1, <2>4, <2>5, <2>11, AncestorsAre
    <2>13. /\ run \subseteq 1 .. c /\ Rises(ranks, run) /\ Cardinality(run) = m
      BY <2>10, <2>12 DEF Line
    <2>14. run \subseteq 1 .. n
      BY <2>13
    <2>15. ASSUME NEW other \in SUBSET (1 .. n), Rises(ranks, other)
           PROVE  Cardinality(other) <= m
      <3>1. \A x, y \in other : x < y => pile[x] < pile[y]
        BY <2>4, <2>15 DEF RunsRise, Rises
      <3>2. \A x \in other : pile[x] \in 1 .. m /\ x \in 1 .. n
        BY <2>7
      <3>3. ASSUME NEW x \in other, NEW y \in other, pile[x] = pile[y] PROVE x = y
        <4>1. x \in Int /\ y \in Int /\ pile[x] \in Int /\ pile[y] \in Int
          BY <3>2
        <4>2. ~ (x < y) /\ ~ (y < x)
          BY <3>1, <3>3, <4>1
        <4>. QED
          BY <4>1, <4>2
      <3>4. 1 \in Int /\ m \in Int
        OBVIOUS
      <3>5. IsFiniteSet(1 .. m) /\ Cardinality(1 .. m) = IF 1 > m THEN 0 ELSE m - 1 + 1
        BY ONLY <3>4, FS_Interval
      <3>6. Cardinality(1 .. m) = m
        BY <3>5
      <3>7. Cardinality(other) <= Cardinality(1 .. m)
        BY ONLY <3>2, <3>3, <3>5, Injects
      <3>. QED
        BY <3>6, <3>7
    <2>. QED
      BY <1>2, <2>13, <2>14, <2>15 DEF LongestOf
  <1>. QED
    BY <1>3, <1>4

\* The positions of "desired" that stay are in the previous order, and no more
\* could stay.
InThePreviousOrder(previous, desired, set) ==
  /\ set \subseteq 1 .. Len(desired)
  /\ \A p \in set : desired[p] \in ToSet(previous)
  /\ \A p, q \in set : p < q => Before(previous, desired[p], desired[q])
MostStay(previous, desired, stable) ==
  /\ IsFiniteSet(stable)
  /\ \A set \in SUBSET (1 .. Len(desired)) :
       InThePreviousOrder(previous, desired, set) => Cardinality(set) <= Cardinality(stable)

LEMMA ReorderPlanIs ==
  ASSUME NEW X, NEW previous \in Seq(X), IsInjective(previous), NEW desired \in Seq(X)
  PROVE  /\ InThePreviousOrder(previous, desired, ReorderPlan(previous, desired))
         /\ MostStay(previous, desired, ReorderPlan(previous, desired))
  <1>1. PICK n \in Nat : n = Len(desired) /\ DOMAIN desired = 1 .. n
    BY SeqFacts
  <1>2. PICK set : set = {i \in 1 .. n : desired[i] \in ToSet(previous)}
    OBVIOUS
  <1>3. PICK s : s = Only([i \in 1 .. n |-> i], set)
    OBVIOUS
  <1>4. PICK m \in Nat : Places(s, m, (1 .. n) \cap set) /\ Len(s) = m /\ DOMAIN s = 1 .. m
    BY <1>3, OnlyNumbers
  <1>5. /\ \A c \in 1 .. m : s[c] \in 1 .. n /\ desired[s[c]] \in ToSet(previous)
        /\ \A c, d \in 1 .. m : c < d => s[c] < s[d]
        /\ \A i \in 1 .. n : desired[i] \in ToSet(previous) => \E c \in 1 .. m : s[c] = i
    <2>1. (1 .. n) \cap set = set
      BY <1>2
    <2>2. /\ s \in [1 .. m -> set]
          /\ \A c, d \in 1 .. m : c < d => s[c] < s[d]
          /\ \A i \in set : \E c \in 1 .. m : s[c] = i
      BY <1>4, <2>1 DEF Places
    <2>. QED
      BY <1>2, <2>2
  <1>6. PICK ranks : ranks = [i \in 1 .. m |-> At(previous, desired[s[i]])]
    OBVIOUS
  <1>7. \A c \in 1 .. m : ranks[c] = At(previous, desired[s[c]]) /\ ranks[c] \in 1 .. Len(previous)
                          /\ previous[ranks[c]] = desired[s[c]]
    <2>. SUFFICES ASSUME NEW c \in 1 .. m
                  PROVE  ranks[c] = At(previous, desired[s[c]]) /\ ranks[c] \in 1 .. Len(previous)
                         /\ previous[ranks[c]] = desired[s[c]]
      OBVIOUS
    <2>1. PICK x : x = desired[s[c]]
      OBVIOUS
    <2>2. x \in ToSet(previous)
      BY <1>5, <2>1
    <2>3. At(previous, x) \in 1 .. Len(previous) /\ previous[At(previous, x)] = x
      BY <2>2, AtIs
    <2>. QED
      BY <1>6, <2>1, <2>3
  <1>8. Len(previous) \in Nat /\ DOMAIN previous = 1 .. Len(previous)
    BY SeqFacts
  <1>9. ranks \in Seq(Nat) /\ Len(ranks) = m
    <2>1. DOMAIN ranks = 1 .. m /\ ranks = [i \in 1 .. m |-> ranks[i]]
      BY <1>6
    <2>2. \A i \in 1 .. m : ranks[i] \in Nat
      BY <1>7, <1>8
    <2>. QED
      BY ONLY <2>1, <2>2, m \in Nat, SeqMade
  <1>10. PICK run : run = LongestRun(ranks)
    OBVIOUS
  <1>11. LongestOf(ranks, m, run)
    BY <1>9, <1>10, LongestRunIs
  <1>12. run \subseteq 1 .. m /\ Rises(ranks, run)
    BY <1>11 DEF LongestOf
  <1>13. PICK stable : stable = {s[c] : c \in run}
    OBVIOUS
  <1>14. ReorderPlan(previous, desired) = stable
    <2>1. {i \in DOMAIN desired : desired[i] \in ToSet(previous)} = set
      BY <1>1, <1>2
    <2>2. Only([i \in DOMAIN desired |-> i],
               {i \in DOMAIN desired : desired[i] \in ToSet(previous)}) = s
      BY Zenon, <1>1, <1>3, <2>1
    <2>. QED
      BY Zenon, <1>4, <1>6, <1>10, <1>13, <2>2 DEF ReorderPlan
  <1>15. \A c, d \in 1 .. m : s[c] = s[d] => c = d
    <2>. SUFFICES ASSUME NEW c \in 1 .. m, NEW d \in 1 .. m, s[c] = s[d] PROVE c = d
      OBVIOUS
    <2>1. s[c] \in 1 .. n /\ s[d] \in 1 .. n
      BY <1>5
    <2>2. ~ (c < d) /\ ~ (d < c)
      BY <1>5, <2>1
    <2>. QED
      BY <2>2
  <1>16. ASSUME NEW c \in 1 .. m, NEW d \in 1 .. m, s[c] < s[d] PROVE c < d
    <2>1. s[c] \in 1 .. n /\ s[d] \in 1 .. n
      BY <1>5
    <2>2. c # d /\ ~ (d < c)
      BY <1>5, <1>16, <2>1
    <2>. QED
      BY <2>2
  <1>17. InThePreviousOrder(previous, desired, stable)
    <2>1. stable \subseteq 1 .. n /\ \A p \in stable : desired[p] \in ToSet(previous)
      BY <1>5, <1>12, <1>13
    <2>2. ASSUME NEW p \in stable, NEW q \in stable, p < q
          PROVE  Before(previous, desired[p], desired[q])
      <3>1. PICK c \in run : s[c] = p
        BY <1>13
      <3>2. PICK d \in run : s[d] = q
        BY <1>13
      <3>3. c \in 1 .. m /\ d \in 1 .. m
        BY <1>12
      <3>4. c < d
        BY <1>16, <2>2, <3>1, <3>2, <3>3
      <3>5. ranks[c] < ranks[d]
        BY <1>12, <3>4 DEF Rises
      <3>. QED
        BY <1>7, <1>8, <3>1, <3>2, <3>3, <3>5 DEF Before
    <2>. QED
      BY <1>1, <2>1, <2>2 DEF InThePreviousOrder
  <1>18. IsFiniteSet(run)
    <2>1. 1 \in Int /\ m \in Int
      OBVIOUS
    <2>2. IsFiniteSet(1 .. m)
      BY ONLY <2>1, FS_Interval
    <2>. QED
      BY <1>12, <2>2, FS_Subset
  <1>19. IsFiniteSet(stable) /\ Cardinality(stable) = Cardinality(run)
    <2>1. \A c, d \in run : s[c] = s[d] => c = d
      BY <1>12, <1>15
    <2>2. IsFiniteSet({s[c] : c \in run}) /\ Cardinality({s[c] : c \in run}) = Cardinality(run)
      BY ONLY <1>18, <2>1, Image
    <2>. QED
      BY <1>13, <2>2
  <1>20. ASSUME NEW T \in SUBSET (1 .. n), InThePreviousOrder(previous, desired, T)
         PROVE  Cardinality(T) <= Cardinality(stable)
    <2>1. PICK other \in SUBSET (1 .. m) : other = {c \in 1 .. m : s[c] \in T}
      OBVIOUS
    <2>2. /\ \A p \in T : desired[p] \in ToSet(previous)
          /\ \A p, q \in T : p < q => Before(previous, desired[p], desired[q])
      BY <1>20 DEF InThePreviousOrder
    <2>3. ASSUME NEW c \in other, NEW d \in other, c < d PROVE ranks[c] < ranks[d]
      <3>1. c \in 1 .. m /\ d \in 1 .. m /\ s[c] \in T /\ s[d] \in T /\ s[c] < s[d]
        BY <1>5, <2>1, <2>3
      <3>2. Before(previous, desired[s[c]], desired[s[d]])
        BY <2>2, <3>1
      <3>3. PICK i, j \in DOMAIN previous : i < j /\ previous[i] = desired[s[c]] /\ previous[j] = desired[s[d]]
        BY <3>2 DEF Before
      <3>4. At(previous, previous[i]) = i /\ At(previous, previous[j]) = j
        BY AtPlace
      <3>5. ranks[c] = i /\ ranks[d] = j
        BY <1>7, <3>1, <3>3, <3>4
      <3>. QED
        BY <3>3, <3>5
    <2>4. Rises(ranks, other)
      BY <2>3 DEF Rises
    <2>5. Cardinality(other) <= Cardinality(run)
      BY <1>11, <2>4 DEF LongestOf
    <2>6. PICK f : f = [p \in T |-> CHOOSE c \in 1 .. m : s[c] = p]
      OBVIOUS
    <2>7. \A p \in T : f[p] \in other /\ s[f[p]] = p
      <3>. SUFFICES ASSUME NEW p \in T PROVE f[p] \in other /\ s[f[p]] = p
        OBVIOUS
      <3>1. \E c \in 1 .. m : s[c] = p
        BY <1>5, <2>2
      <3>2. f[p] \in 1 .. m /\ s[f[p]] = p
        BY <2>6, <3>1
      <3>. QED
        BY <2>1, <3>2
    <2>8. IsFiniteSet(other)
      <3>1. 1 \in Int /\ m \in Int
        OBVIOUS
      <3>2. IsFiniteSet(1 .. m)
        BY ONLY <3>1, FS_Interval
      <3>. QED
        BY <3>2, FS_Subset
    <2>9. \A p, q \in T : f[p] = f[q] => p = q
      BY <2>7
    <2>10. Cardinality(T) <= Cardinality(other) /\ Cardinality(T) \in Nat /\ Cardinality(other) \in Nat
      <3>1. \A p \in T : f[p] \in other
        BY <2>7
      <3>. QED
        BY ONLY <2>8, <2>9, <3>1, Injects
    <2>11. Cardinality(run) \in Nat
      BY <1>18, FS_CardinalityType
    <2>. QED
      BY <1>19, <2>5, <2>10, <2>11
  <1>. QED
    BY <1>1, <1>14, <1>17, <1>19, <1>20 DEF MostStay

(***************************************************************************)
(* What the nodes of a row show                                            *)
(***************************************************************************)

\* No node depends on the index of its row.
NoIndex == "index" \notin setup.text \cup setup.branch /\ setup.test # "index"

\* The text, the branch and the text in it are those of the row's data.
Right(r, row) ==
  /\ row.text = Shows(r, setup.text, row.values, 0)
  /\ row.region.selected = Selects(r, row.values, 0)
  /\ row.region.selected => row.region.shows = Shows(r, setup.branch, row.values, 0)
AllRight(r) == \A k \in DOMAIN r.rows : Right(r, r.rows[k])

\* What is read besides "what" and the index is the same.
SameReads(a, old, b, new, what) ==
  \A read \in Reads \ (what \cup {"index"}) : Value(a, read, old, 0) = Value(b, read, new, 0)

LEMMA SameValuesShowTheSame ==
  ASSUME NEW a, NEW old, NEW b, NEW new, NEW what, SameReads(a, old, b, new, what),
         NEW reads \in SUBSET (Reads \ (what \cup {"index"}))
  PROVE  Shows(a, reads, old, 0) = Shows(b, reads, new, 0)
  <1>1. \A read \in reads : Value(a, read, old, 0) = Value(b, read, new, 0)
    BY DEF SameReads
  <1>. QED
    BY <1>1 DEF Shows

LEMMA ShowsAtAnyIndex ==
  ASSUME NEW r, NEW reads, "index" \notin reads, NEW values, NEW i, NEW j
  PROVE  Shows(r, reads, values, i) = Shows(r, reads, values, j)
  <1>1. \A read \in reads : Value(r, read, values, i) = Value(r, read, values, j)
    BY DEF Value
  <1>. QED
    BY <1>1 DEF Shows

LEMMA SelectsAtAnyIndex ==
  ASSUME NEW r, NEW values, NEW i, NEW j, setup.test # "index"
  PROVE  Selects(r, values, i) = Selects(r, values, j)
  BY DEF Selects, Value

LEMMA WrittenIsRight ==
  ASSUME NoIndex, NEW r, NEW row, NEW i, Written(r, row, i)
  PROVE  Right(r, row)
  <1>1. /\ "index" \notin setup.text /\ "index" \notin setup.branch /\ setup.test # "index"
    BY DEF NoIndex
  <1>2. Selects(r, row.values, i) = Selects(r, row.values, 0)
    BY <1>1, SelectsAtAnyIndex
  <1>. QED
    BY <1>2 DEF Written, Right

\* The row b.rows[key] was right in the state a; its bindings that read "what"
\* are written again, and nothing else of what they read has changed.
LEMMA RightAgain ==
  ASSUME setup \in Setups, NoIndex, NEW a, NEW b, NEW n, NEW key, NEW index, NEW what,
         Right(a, b.rows[key]), NEW selected, selected = Selects(b, n.rows[key].values, 0),
         Writes(b, n, key, selected, index, what),
         SameReads(a, b.rows[key].values, b, n.rows[key].values, what),
         setup.branch = {} \/ setup.branch \cap what # {} \/ b.rows[key].region.selected = selected
  PROVE  Right(b, n.rows[key])
  <1>1. PICK old : old = b.rows[key]
    OBVIOUS
  <1>2. PICK new : new = n.rows[key]
    OBVIOUS
  <1>3. /\ old.text = Shows(a, setup.text, old.values, 0)
        /\ old.region.selected => old.region.shows = Shows(a, setup.branch, old.values, 0)
    BY <1>1 DEF Right
  <1>4. /\ new.text = IF setup.text \cap what # {}
                      THEN Shows(b, setup.text, new.values, index) ELSE old.text
        /\ new.region.selected = selected
        /\ selected => new.region.shows =
                         IF setup.branch \cap what # {} THEN Shows(b, setup.branch, new.values, index)
                         ELSE IF old.region.selected THEN old.region.shows ELSE {}
    BY <1>1, <1>2 DEF Writes
  <1>5. /\ Shows(b, setup.text, new.values, index) = Shows(b, setup.text, new.values, 0)
        /\ Shows(b, setup.branch, new.values, index) = Shows(b, setup.branch, new.values, 0)
    <2>1. "index" \notin setup.text /\ "index" \notin setup.branch
      BY DEF NoIndex
    <2>. QED
      BY ONLY <2>1, ShowsAtAnyIndex
  <1>6. setup.text \cap what = {} => Shows(a, setup.text, old.values, 0) = Shows(b, setup.text, new.values, 0)
    <2>. SUFFICES ASSUME setup.text \cap what = {}
                  PROVE  Shows(a, setup.text, old.values, 0) = Shows(b, setup.text, new.values, 0)
      OBVIOUS
    <2>1. setup.text \in SUBSET (Reads \ (what \cup {"index"}))
      BY GraphsAreTyped DEF NoIndex
    <2>. QED
      BY <1>1, <1>2, <2>1, SameValuesShowTheSame
  <1>7. setup.branch \cap what = {} => Shows(a, setup.branch, old.values, 0) = Shows(b, setup.branch, new.values, 0)
    <2>. SUFFICES ASSUME setup.branch \cap what = {}
                  PROVE  Shows(a, setup.branch, old.values, 0) = Shows(b, setup.branch, new.values, 0)
      OBVIOUS
    <2>1. setup.branch \in SUBSET (Reads \ (what \cup {"index"}))
      BY GraphsAreTyped DEF NoIndex
    <2>. QED
      BY <1>1, <1>2, <2>1, SameValuesShowTheSame
  <1>8. setup.branch = {} => Shows(a, setup.branch, old.values, 0) = {} /\ Shows(b, setup.branch, new.values, 0) = {}
    BY DEF Shows
  <1>9. new.text = Shows(b, setup.text, new.values, 0)
    BY <1>3, <1>4, <1>5, <1>6
  <1>10. selected => new.region.shows = Shows(b, setup.branch, new.values, 0)
    <2>1. CASE setup.branch \cap what # {}
      BY <1>4, <1>5, <2>1
    <2>2. CASE setup.branch \cap what = {} /\ old.region.selected
      BY <1>3, <1>4, <1>7, <2>2
    <2>3. CASE setup.branch \cap what = {} /\ ~ old.region.selected
      BY <1>1, <1>4, <1>8, <2>3
    <2>. QED
      BY <2>1, <2>2, <2>3
  <1>11. new.region.selected = Selects(b, new.values, 0)
    BY <1>2, <1>4
  <1>. QED
    BY <1>2, <1>4, <1>9, <1>10, <1>11 DEF Right

\* The same when every binding is written.
LEMMA RightWhenWritten ==
  ASSUME setup \in Setups, NoIndex, NEW b, NEW n, NEW key, NEW i,
         Right(b, b.rows[key]),
         Writes(b, n, key, Selects(b, n.rows[key].values, i), 0, Reads)
  PROVE  Right(b, n.rows[key])
  <1>1. Selects(b, n.rows[key].values, i) = Selects(b, n.rows[key].values, 0)
    BY SelectsAtAnyIndex DEF NoIndex
  <1>2. SameReads(b, b.rows[key].values, b, n.rows[key].values, Reads)
    BY DEF SameReads
  <1>3. setup.branch = {} \/ setup.branch \cap Reads # {}
    BY GraphsAreTyped
  <1>. QED
    BY <1>1, <1>2, <1>3, RightAgain

LEMMA SameRight ==
  ASSUME NEW a, NEW b, a.flag = b.flag, NEW row
  PROVE  Right(a, row) <=> Right(b, row)
  BY SameShows DEF Right

(***************************************************************************)
(* The whole list                                                          *)
(***************************************************************************)

Distinct(list) == \A p, q \in 1 .. Len(list) : list[p].id = list[q].id => p = q
Ids(list) == {list[p].id : p \in 1 .. Len(list)}

LEMMA KeysTell ==
  ASSUME NEW list \in Seq(AnyRow)
  PROVE  /\ ToSet(KeysOf(list)) = Ids(list) /\ Ids(list) \subseteq setup.keys
         /\ Distinct(list) <=> IsInjective(KeysOf(list))
         /\ \A p, q \in 1 .. Len(list) :
              p < q => Before(KeysOf(list), list[p].id, list[q].id)
  <1>1. PICK n \in Nat : n = Len(list)
    BY SeqFacts
  <1>2. PICK keys : keys = KeysOf(list)
    OBVIOUS
  <1>3. keys \in Seq(setup.keys) /\ DOMAIN keys = 1 .. n /\ \A i \in 1 .. n : keys[i] = list[i].id
    BY <1>1, <1>2, KeysAre
  <1>4. \A i \in 1 .. n : keys[i] \in setup.keys
    BY <1>1, <1>2, <1>3, KeysAre, SeqFacts
  <1>5. ToSet(keys) = {keys[i] : i \in 1 .. n}
    BY <1>3 DEF ToSet
  <1>6. {keys[i] : i \in 1 .. n} = Ids(list)
    BY <1>1, <1>3 DEF Ids
  <1>7. Ids(list) \subseteq setup.keys
    BY <1>4, <1>6
  <1>8. Distinct(list) <=> IsInjective(keys)
    BY <1>1, <1>3 DEF Distinct, IsInjective
  <1>9. \A p, q \in 1 .. n : p < q => Before(keys, list[p].id, list[q].id)
    BY <1>3 DEF Before
  <1>. QED
    BY <1>1, <1>2, <1>5, <1>6, <1>7, <1>8, <1>9

LEMMA InSet ==
  ASSUME NEW X, NEW s \in Seq(X), NEW Y, ToSet(s) \subseteq Y
  PROVE  s \in Seq(Y)
  <1>1. PICK n \in Nat : n = Len(s) /\ DOMAIN s = 1 .. n /\ s = [i \in 1 .. n |-> s[i]]
    BY SeqFacts
  <1>2. \A i \in 1 .. n : s[i] \in Y
    BY <1>1 DEF ToSet
  <1>. QED
    BY ONLY <1>1, <1>2, n \in Nat, SeqMade

\* The order is that of the rows that are there, and of their nodes.
InStep(r) ==
  /\ IsInjective(r.order) /\ ToSet(r.order) = DOMAIN r.rows
  /\ \A k, l \in DOMAIN r.rows : Before(r.order, k, l) => Before(r.children, Token(r, k), Token(r, l))

\* The rows that are still there are the same nodes.
Kept(r, n) == \A k \in DOMAIN r.rows \cap DOMAIN n.rows : n.rows[k].generation = r.rows[k].generation

\* All but what is left of the budget.
ButBudget(r, start) ==
  /\ World(start) /\ start.order = r.order /\ start.flag = r.flag
  /\ start.collection = r.collection /\ start.error = r.error
  /\ start.rows = r.rows /\ start.children = r.children
  /\ start.requests = r.requests /\ start.moves = r.moves
  /\ start.listeners = r.listeners

LEMMA DropPhase ==
  ASSUME NEW r, World(r), r.error = "none", IsInjective(r.order), NEW desired,
         NEW stale, stale = Stale(r, desired), NEW planned, NEW b,
         b = Perform([r EXCEPT !.budget = @ - planned], [i \in DOMAIN stale |-> Drop(stale[i])])
  PROVE  \E start : /\ AfterDrops(start, b, (ToSet(r.order) \cap DOMAIN r.rows) \ ToSet(desired))
                    /\ ButBudget(r, start)
  <1>1. PICK start : start = [r EXCEPT !.budget = @ - planned]
    OBVIOUS
  <1>2. Shaped(r)
    BY DEF World
  <1>3. start = [order |-> r.order, rows |-> r.rows, children |-> r.children, flag |-> r.flag,
       collection |-> r.collection, live |-> r.live, budget |-> r.budget - planned,
       listeners |-> r.listeners, requests |-> r.requests, taken |-> r.taken,
       moves |-> r.moves, error |-> r.error]
    BY ONLY <1>1, <1>2 DEF Shaped
  <1>4. /\ start.order = r.order /\ start.flag = r.flag /\ start.taken = r.taken
        /\ start.collection = r.collection /\ start.error = r.error
        /\ start.rows = r.rows /\ start.children = r.children
        /\ start.requests = r.requests /\ start.moves = r.moves
        /\ start.listeners = r.listeners /\ Shaped(start)
    BY <1>3 DEF Shaped
  <1>5. World(start)
    <2>1. Tokens(start) = Tokens(r)
      BY <1>4 DEF Tokens, Token
    <2>2. Page(start)
      BY <1>4, <2>1 DEF World, Page
    <2>3. FiniteSets(start)
      BY <1>4 DEF World, FiniteSets
    <2>4. \A k \in DOMAIN r.rows : Owned(start, k)
      BY <1>4 DEF World, Owned
    <2>. QED
      BY <1>4, <2>2, <2>3, <2>4 DEF World
  <1>6. r.order \in Seq(setup.keys)
    BY DEF World
  <1>7. PICK set : set = DOMAIN r.rows \ ToSet(desired)
    OBVIOUS
  <1>8. stale \in Seq(setup.keys) /\ ToSet(stale) = ToSet(r.order) \cap set /\ IsInjective(stale)
    <2>1. stale = Only(r.order, set)
      BY <1>7 DEF Stale
    <2>. QED
      BY <1>6, <2>1, OnlyTells
  <1>9. stale \in Seq(DOMAIN start.rows)
    <2>1. ToSet(stale) \subseteq DOMAIN start.rows
      BY <1>4, <1>7, <1>8
    <2>. QED
      BY ONLY <1>8, <2>1, InSet
  <1>10. AfterDrops(start, b, ToSet(stale))
    <2>1. b = Perform(start, [i \in DOMAIN stale |-> Drop(stale[i])])
      BY <1>1
    <2>2. start.error = "none"
      BY <1>4
    <2>. QED
      BY ONLY <1>5, <1>8, <1>9, <2>1, <2>2, DropsAre
  <1>11. ToSet(stale) = (ToSet(r.order) \cap DOMAIN r.rows) \ ToSet(desired)
    BY <1>7, <1>8
  <1>12. AfterDrops(start, b, (ToSet(r.order) \cap DOMAIN r.rows) \ ToSet(desired))
    BY ONLY <1>10, <1>11
  <1>. QED
    BY <1>4, <1>5, <1>12 DEF ButBudget

\* The rows that are in the list have its values.
UpToDate(b, u, list) ==
  /\ World(u) /\ Around(b, u) /\ u.children = b.children /\ u.moves = b.moves
  /\ DOMAIN u.rows = DOMAIN b.rows
  /\ \A k \in DOMAIN b.rows : u.rows[k].generation = b.rows[k].generation
  /\ \A p \in 1 .. Len(list) : list[p].id \in DOMAIN u.rows => u.rows[list[p].id].values = list[p]
  /\ Strict(b) /\ b.requests = {} => Strict(u)
  /\ NoIndex /\ AllRight(b) => AllRight(u)

LEMMA UpdatePhase ==
  ASSUME setup \in Setups, NEW b, World(b), b.error = "none", NEW r,
         DOMAIN b.rows \subseteq DOMAIN r.rows, \A k \in DOMAIN b.rows : b.rows[k] = r.rows[k],
         NEW list \in Seq(AnyRow), Distinct(list), DOMAIN r.rows \cap Ids(list) \subseteq DOMAIN b.rows,
         NEW changed, changed = Changed(r, list), NEW u,
         u = Perform(b, [i \in DOMAIN changed |-> Update(changed[i].id, changed[i], Reads)])
  PROVE  UpToDate(b, u, list)
  <1>1. PICK n \in Nat : n = Len(list) /\ \A i \in 1 .. n : list[i] \in AnyRow
    BY SeqFacts
  <1>2. DOMAIN list = 1 .. n
    BY <1>1, SeqFacts
  <1>3. PICK set : set = {row \in ToSet(list) : row.id \in DOMAIN r.rows /\ r.rows[row.id].values # row}
    OBVIOUS
  <1>4. changed \in Seq(AnyRow) /\ ToSet(changed) = ToSet(list) \cap set
        /\ (IsInjective(list) => IsInjective(changed))
    <2>1. changed = Only(list, set)
      BY <1>3 DEF Changed
    <2>. QED
      BY <2>1, OnlyTells
  <1>5. IsInjective(list)
    BY <1>1, <1>2 DEF Distinct, IsInjective
  <1>6. PICK m \in Nat : m = Len(changed) /\ DOMAIN changed = 1 .. m /\ \A i \in 1 .. m : changed[i] \in AnyRow
    BY <1>4, SeqFacts
  <1>7. PICK keys : keys = [i \in 1 .. m |-> changed[i].id]
    OBVIOUS
  <1>8. \A i \in 1 .. m : keys[i] = changed[i].id
    BY <1>7
  <1>9. \A i \in 1 .. m : changed[i] \in set /\ \E p \in 1 .. n : list[p] = changed[i]
    <2>. SUFFICES ASSUME NEW i \in 1 .. m PROVE changed[i] \in set /\ \E p \in 1 .. n : list[p] = changed[i]
      OBVIOUS
    <2>1. changed[i] \in ToSet(changed)
      BY <1>6 DEF ToSet
    <2>2. changed[i] \in ToSet(list) /\ changed[i] \in set
      BY <1>4, <2>1
    <2>. QED
      BY <1>2, <2>2 DEF ToSet
  <1>10. \A i \in 1 .. m : keys[i] \in DOMAIN b.rows /\ changed[i] \in AnyRow /\ changed[i].id = keys[i]
    <2>. SUFFICES ASSUME NEW i \in 1 .. m PROVE keys[i] \in DOMAIN b.rows
      BY <1>6, <1>8
    <2>1. changed[i].id \in DOMAIN r.rows
      BY <1>3, <1>9
    <2>2. PICK p \in 1 .. n : list[p] = changed[i]
      BY <1>9
    <2>3. changed[i].id \in Ids(list)
      BY <1>1, <2>2 DEF Ids
    <2>. QED
      BY <1>8, <2>1, <2>3
  <1>11. ASSUME NEW i \in 1 .. m, NEW j \in 1 .. m, keys[i] = keys[j] PROVE i = j
    <2>1. PICK p \in 1 .. n : list[p] = changed[i]
      BY <1>9
    <2>2. PICK q \in 1 .. n : list[q] = changed[j]
      BY <1>9
    <2>3. p = q
      BY <1>1, <1>8, <1>11, <2>1, <2>2 DEF Distinct
    <2>. QED
      BY <1>4, <1>5, <1>6, <2>1, <2>2, <2>3 DEF IsInjective
  <1>12. AfterUpdates(b, u, 1 .. m, keys, changed, Reads)
    <2>1. [i \in DOMAIN changed |-> Update(changed[i].id, changed[i], Reads)]
            = [i \in 1 .. m |-> Update(keys[i], changed[i], Reads)]
      BY <1>6, <1>8
    <2>2. u = Perform(b, [i \in 1 .. m |-> Update(keys[i], changed[i], Reads)])
      BY <2>1
    <2>. QED
      BY <1>10, <1>11, <2>2, UpdatesAre
  <1>13. /\ World(u) /\ Around(b, u) /\ u.children = b.children /\ u.moves = b.moves
         /\ DOMAIN u.rows = DOMAIN b.rows
         /\ \A k \in DOMAIN b.rows : u.rows[k].generation = b.rows[k].generation
         /\ \A k \in DOMAIN b.rows : k \notin {keys[j] : j \in 1 .. m} => u.rows[k] = b.rows[k]
         /\ \A j \in 1 .. m :
              /\ u.rows[keys[j]].values = changed[j]
              /\ Writes(b, u, keys[j], Selects(b, changed[j], IndexOf(b, keys[j])), 0, Reads)
         /\ Strict(b) /\ b.requests = {} => Strict(u)
    BY <1>12 DEF AfterUpdates
  <1>14. ASSUME NEW p \in 1 .. n, list[p].id \in DOMAIN u.rows PROVE u.rows[list[p].id].values = list[p]
    <2>1. PICK k \in DOMAIN b.rows : k = list[p].id
      BY <1>13, <1>14
    <2>2. list[p] \in ToSet(list) /\ k \in DOMAIN r.rows /\ b.rows[k] = r.rows[k]
      BY <1>2 DEF ToSet
    <2>3. CASE r.rows[k].values = list[p]
      <3>1. ASSUME NEW j \in 1 .. m, keys[j] = k PROVE FALSE
        <4>1. PICK q \in 1 .. n : list[q] = changed[j]
          BY <1>9
        <4>2. q = p
          BY <1>1, <1>8, <2>1, <3>1, <4>1 DEF Distinct
        <4>3. changed[j] \in set
          BY <1>9
        <4>. QED
          BY <1>3, <2>1, <2>3, <4>1, <4>2, <4>3
      <3>2. u.rows[k] = b.rows[k]
        BY <1>13, <3>1
      <3>. QED
        BY <2>1, <2>2, <2>3, <3>2
    <2>4. CASE r.rows[k].values # list[p]
      <3>1. list[p] \in set
        BY <1>3, <2>1, <2>2, <2>4
      <3>2. list[p] \in ToSet(changed)
        BY <1>4, <2>2, <3>1
      <3>3. PICK j \in 1 .. m : changed[j] = list[p]
        BY <1>6, <3>2 DEF ToSet
      <3>4. keys[j] = k
        BY <1>8, <2>1, <3>3
      <3>. QED
        BY <1>13, <2>1, <3>3, <3>4
    <2>. QED
      BY <2>3, <2>4
  <1>15. ASSUME NoIndex, AllRight(b), NEW k \in DOMAIN u.rows PROVE Right(u, u.rows[k])
    <2>1. u.flag = b.flag /\ k \in DOMAIN b.rows
      BY <1>13 DEF Around
    <2>2. Right(b, b.rows[k])
      BY <1>15, <2>1 DEF AllRight
    <2>3. CASE k \in {keys[j] : j \in 1 .. m}
      <3>1. PICK j \in 1 .. m : keys[j] = k
        BY <2>3
      <3>2. Writes(b, u, k, Selects(b, u.rows[k].values, IndexOf(b, k)), 0, Reads)
        BY <1>13, <3>1
      <3>3. Right(b, u.rows[k])
        BY <1>15, <2>2, <3>2, RightWhenWritten
      <3>. QED
        BY <2>1, <3>3, SameRight
    <2>4. CASE k \notin {keys[j] : j \in 1 .. m}
      <3>1. u.rows[k] = b.rows[k]
        BY <1>13, <2>1, <2>4
      <3>. QED
        BY <2>1, <2>2, <3>1, SameRight
    <2>. QED
      BY <2>3, <2>4
  <1>16. NoIndex /\ AllRight(b) => AllRight(u)
    BY <1>15 DEF AllRight
  <1>. QED
    BY <1>1, <1>13, <1>14, <1>16 DEF UpToDate

\* What is left of the old rows, up to date, and the part of it that stays.
Prepared(r, u, list, stable) ==
  /\ World(u) /\ u.order = r.order /\ u.flag = r.flag /\ u.collection = r.collection
  /\ u.error = "none" /\ u.moves = r.moves
  /\ DOMAIN u.rows \subseteq DOMAIN r.rows
  /\ DOMAIN r.rows \cap Ids(list) \subseteq DOMAIN u.rows
  /\ InStep(r) => DOMAIN u.rows = DOMAIN r.rows \cap Ids(list)
  /\ \A k \in DOMAIN u.rows : u.rows[k].generation = r.rows[k].generation
  /\ \A p \in 1 .. Len(list) : list[p].id \in DOMAIN u.rows => u.rows[list[p].id].values = list[p]
  /\ Strict(r) /\ r.requests = {} => Strict(u)
  /\ NoIndex /\ AllRight(r) => AllRight(u)
  /\ InThePreviousOrder(Only(r.order, DOMAIN u.rows), KeysOf(list), stable)
  /\ MostStay(Only(r.order, DOMAIN u.rows), KeysOf(list), stable)
  /\ InStep(r) => Ordered(u, list, stable)

\* The steps of the first two phases.
Reserved(r, planned) == [r EXCEPT !.budget = @ - planned]
Drops(stale) == [i \in DOMAIN stale |-> Drop(stale[i])]
Updates(changed) == [i \in DOMAIN changed |-> Update(changed[i].id, changed[i], Reads)]

LEMMA PreparedIs ==
  ASSUME setup \in Setups, NEW r, World(r), r.error = "none", IsInjective(r.order),
         NEW list \in Seq(AnyRow), Distinct(list), NEW planned,
         NEW stale, stale = Stale(r, KeysOf(list)),
         NEW changed, changed = Changed(r, list),
         NEW b, b = Perform(Reserved(r, planned), Drops(stale)),
         NEW u, u = Perform(b, Updates(changed)),
         NEW stable, stable = ReorderPlan(Only(r.order, DOMAIN b.rows), KeysOf(list))
  PROVE  Prepared(r, u, list, stable)
  <1>1. PICK n \in Nat : n = Len(list)
    BY SeqFacts
  <1>2. PICK keys : keys = KeysOf(list)
    OBVIOUS
  <1>3. keys \in Seq(setup.keys) /\ Len(keys) = n /\ \A i \in 1 .. n : keys[i] = list[i].id
    BY <1>1, <1>2, KeysAre
  <1>4. ToSet(keys) = Ids(list)
    BY <1>2, KeysTell
  <1>5. PICK start : /\ AfterDrops(start, b, (ToSet(r.order) \cap DOMAIN r.rows) \ ToSet(keys))
                     /\ ButBudget(r, start)
    <2>1. b = Perform([r EXCEPT !.budget = @ - planned], [i \in DOMAIN stale |-> Drop(stale[i])])
      BY DEF Reserved, Drops
    <2>2. stale = Stale(r, keys)
      BY <1>2
    <2>. QED
      BY <2>1, <2>2, DropPhase
  <1>6. PICK gone : gone = (ToSet(r.order) \cap DOMAIN r.rows) \ Ids(list)
    OBVIOUS
  <1>7. AfterDrops(start, b, gone)
    BY ONLY <1>4, <1>5, <1>6
  <1>8. /\ World(b) /\ Around(start, b) /\ b.requests = r.requests /\ b.moves = r.moves
        /\ DOMAIN b.rows = DOMAIN r.rows \ gone
        /\ \A k \in DOMAIN b.rows : b.rows[k] = r.rows[k]
        /\ \A t, v \in ToSet(b.children) : Before(r.children, t, v) => Before(b.children, t, v)
        /\ Strict(start) /\ r.requests = {} => Strict(b)
    BY <1>5, <1>7 DEF AfterDrops, ButBudget
  <1>9. b.order = r.order /\ b.flag = r.flag /\ b.collection = r.collection /\ b.error = "none"
    BY <1>5, <1>8 DEF Around, ButBudget
  <1>10. Strict(r) /\ r.requests = {} => Strict(b)
    <2>1. Strict(r) => Strict(start)
      BY <1>5 DEF Strict, ButBudget
    <2>. QED
      BY <1>8, <2>1
  <1>11. UpToDate(b, u, list)
    <2>1. DOMAIN b.rows \subseteq DOMAIN r.rows /\ DOMAIN r.rows \cap Ids(list) \subseteq DOMAIN b.rows
      BY <1>6, <1>8
    <2>2. u = Perform(b, [i \in DOMAIN changed |-> Update(changed[i].id, changed[i], Reads)])
      BY DEF Updates
    <2>. QED
      BY <1>8, <1>9, <2>1, <2>2, UpdatePhase
  <1>12. /\ World(u) /\ Around(b, u) /\ u.children = b.children /\ u.moves = b.moves
         /\ DOMAIN u.rows = DOMAIN b.rows
         /\ \A k \in DOMAIN b.rows : u.rows[k].generation = b.rows[k].generation
         /\ \A p \in 1 .. n : list[p].id \in DOMAIN u.rows => u.rows[list[p].id].values = list[p]
         /\ Strict(b) /\ b.requests = {} => Strict(u)
         /\ NoIndex /\ AllRight(b) => AllRight(u)
    BY <1>1, <1>11 DEF UpToDate
  <1>13. u.order = r.order /\ u.flag = r.flag /\ u.collection = r.collection /\ u.error = "none"
         /\ u.moves = r.moves
    BY <1>8, <1>9, <1>12 DEF Around
  <1>14. DOMAIN u.rows \subseteq DOMAIN r.rows /\ DOMAIN r.rows \cap Ids(list) \subseteq DOMAIN u.rows
    BY <1>6, <1>8, <1>12
  <1>15. InStep(r) => DOMAIN u.rows = DOMAIN r.rows \cap Ids(list)
    BY <1>6, <1>8, <1>12 DEF InStep
  <1>16. \A k \in DOMAIN u.rows : u.rows[k].generation = r.rows[k].generation
    <2>. SUFFICES ASSUME NEW k \in DOMAIN u.rows PROVE u.rows[k].generation = r.rows[k].generation
      OBVIOUS
    <2>1. k \in DOMAIN b.rows /\ u.rows[k].generation = b.rows[k].generation
      BY <1>12
    <2>2. b.rows[k] = r.rows[k]
      BY <1>8, <2>1
    <2>. QED
      BY <2>1, <2>2
  <1>17. NoIndex /\ AllRight(r) => AllRight(u)
    <2>. SUFFICES ASSUME NoIndex, AllRight(r) PROVE AllRight(u)
      OBVIOUS
    <2>1. ASSUME NEW k \in DOMAIN b.rows PROVE Right(b, b.rows[k])
      <3>1. Right(r, r.rows[k]) /\ b.rows[k] = r.rows[k]
        BY <1>8 DEF AllRight
      <3>. QED
        BY <1>9, <3>1, SameRight
    <2>2. AllRight(b)
      BY <2>1 DEF AllRight
    <2>. QED
      BY <1>12, <2>2
  <1>18. PICK surviving : surviving = Only(r.order, DOMAIN u.rows)
    OBVIOUS
  <1>19. r.order \in Seq(setup.keys)
    BY DEF World
  <1>20. /\ surviving \in Seq(setup.keys) /\ IsInjective(surviving)
         /\ ToSet(surviving) = ToSet(r.order) \cap DOMAIN u.rows
         /\ \A x, y \in DOMAIN u.rows : Before(surviving, x, y) <=> Before(r.order, x, y)
    <2>1. PICK set : set = DOMAIN u.rows
      OBVIOUS
    <2>2. /\ Only(r.order, set) \in Seq(setup.keys)
          /\ ToSet(Only(r.order, set)) = ToSet(r.order) \cap set
          /\ IsInjective(Only(r.order, set))
          /\ \A x, y \in set : Before(Only(r.order, set), x, y) <=> Before(r.order, x, y)
      BY <1>19, OnlyTells
    <2>3. surviving = Only(r.order, set)
      BY <1>18, <2>1
    <2>. QED
      BY ONLY Zenon, <2>1, <2>2, <2>3
  <1>21. stable = ReorderPlan(surviving, keys)
    BY <1>2, <1>12, <1>18
  <1>22. InThePreviousOrder(surviving, keys, stable) /\ MostStay(surviving, keys, stable)
    BY <1>3, <1>20, <1>21, ReorderPlanIs
  <1>23. InStep(r) => Ordered(u, list, stable)
    <2>. SUFFICES ASSUME InStep(r), NEW p \in stable, NEW q \in stable, p < q
                  PROVE  Before(u.children, Token(u, list[p].id), Token(u, list[q].id))
      BY DEF Ordered
    <2>1. /\ p \in 1 .. n /\ q \in 1 .. n /\ keys[p] \in ToSet(surviving) /\ keys[q] \in ToSet(surviving)
          /\ Before(surviving, keys[p], keys[q])
      BY <1>3, <1>22 DEF InThePreviousOrder
    <2>2. PICK k \in DOMAIN u.rows : k = list[p].id
      BY <1>3, <1>20, <2>1
    <2>3. PICK l \in DOMAIN u.rows : l = list[q].id
      BY <1>3, <1>20, <2>1
    <2>4. Before(r.order, k, l)
      BY <1>3, <1>20, <2>1, <2>2, <2>3
    <2>5. Before(r.children, Token(r, k), Token(r, l))
      BY <1>14, <2>4 DEF InStep
    <2>6. Token(u, k) = Token(r, k) /\ Token(u, l) = Token(r, l)
      BY <1>16 DEF Token
    <2>7. Token(u, k) \in ToSet(u.children) /\ Token(u, l) \in ToSet(u.children)
      BY <1>12 DEF World, Page, Tokens
    <2>8. Before(b.children, Token(u, k), Token(u, l))
      BY <1>8, <1>12, <2>5, <2>6, <2>7
    <2>. QED
      BY <1>12, <2>2, <2>3, <2>8
  <1>24. Strict(r) /\ r.requests = {} => Strict(u)
    BY <1>8, <1>10, <1>12
  <1>. QED
    BY <1>1, <1>2, <1>12, <1>13, <1>14, <1>15, <1>16, <1>17, <1>18, <1>22, <1>23, <1>24 DEF Prepared

\* What reconcile_loop leaves of the rows, also when a region is refused.
Reshaped(r, n) ==
  /\ World(n) /\ n.flag = r.flag /\ n.collection = r.collection
  /\ Kept(r, n)
  /\ NoIndex /\ AllRight(r) => AllRight(n)

\* The rows of the list, in its order.
Renders(n, list) ==
  /\ n.order = KeysOf(list) /\ DOMAIN n.rows = Ids(list)
  /\ \A p \in 1 .. Len(list) : n.rows[list[p].id].values = list[p]
  /\ Ordered(n, list, 1 .. Len(list))
Reconciled(r, n, list) ==
  /\ Reshaped(r, n) /\ n.error = "none" /\ n.order = KeysOf(list)
  /\ Strict(r) /\ r.requests = {} => Strict(n)
  /\ InStep(r) => Renders(n, list)
  /\ \E set : \E stable :
       /\ InStep(r) => set = DOMAIN r.rows \cap Ids(list)
       /\ InThePreviousOrder(Only(r.order, set), KeysOf(list), stable)
       /\ MostStay(Only(r.order, set), KeysOf(list), stable)
       /\ n.moves = r.moves + Cardinality({p \in (1 .. Len(list)) \ stable : list[p].id \in set})
Refused(r, n) ==
  /\ Reshaped(r, n) /\ n.error = "MOUNTED_REGION_LIMIT_EXCEEDED" /\ n.order = r.order

LEMMA FailsIs ==
  ASSUME NEW r, Shaped(r), NEW what, NEW n, n = Fails(r, what)
  PROVE  /\ Shaped(n) /\ n.error = what /\ n.order = r.order /\ n.rows = r.rows
         /\ n.children = r.children /\ n.flag = r.flag /\ n.collection = r.collection
         /\ n.listeners = r.listeners /\ n.requests = r.requests /\ n.taken = r.taken
         /\ n.moves = r.moves /\ n.budget = r.budget
  <1>1. n = [order |-> r.order, rows |-> r.rows, children |-> r.children, flag |-> r.flag,
       collection |-> r.collection, live |-> r.live, budget |-> r.budget,
       listeners |-> r.listeners, requests |-> r.requests, taken |-> r.taken,
       moves |-> r.moves, error |-> what]
    BY DEF Fails, Shaped
  <1>. QED
    BY <1>1 DEF Shaped

\* The same world, seen through what World looks at.
LEMMA SameWorld ==
  ASSUME NEW r, World(r), NEW n, Shaped(n), n.rows = r.rows, n.children = r.children,
         n.flag = r.flag, n.listeners = r.listeners, n.requests = r.requests,
         n.taken = r.taken, n.order \in Seq(setup.keys)
  PROVE  World(n) /\ (Strict(r) => Strict(n)) /\ (AllRight(r) => AllRight(n))
         /\ \A k : Token(n, k) = Token(r, k)
  <1>1. Tokens(n) = Tokens(r) /\ \A k : Token(n, k) = Token(r, k)
    BY DEF Tokens, Token
  <1>2. Page(n)
    BY <1>1 DEF World, Page
  <1>3. FiniteSets(n)
    BY DEF World, FiniteSets
  <1>4. \A k \in DOMAIN r.rows : Owned(n, k)
    BY DEF World, Owned
  <1>5. World(n)
    BY <1>2, <1>3, <1>4 DEF World
  <1>6. Strict(r) => Strict(n)
    BY DEF Strict
  <1>7. AllRight(r) => AllRight(n)
    BY SameRight DEF AllRight
  <1>. QED
    BY <1>1, <1>5, <1>6, <1>7

LEMMA ReconcileLoopIs ==
  ASSUME setup \in Setups, NEW r, World(r), r.error = "none", r.moves \in Nat,
         IsInjective(r.order), NEW list \in Seq(AnyRow), Distinct(list),
         NEW n, n = ReconcileLoop(r, list)
  PROVE  \/ n = Fails(r, "LOOP_ROW_LIMIT_EXCEEDED")
         \/ n = Fails(r, "RECONCILE_BUDGET_EXCEEDED")
         \/ Refused(r, n)
         \/ Reconciled(r, n, list)
  <1>1. PICK len \in Nat : len = Len(list) /\ \A i \in 1 .. len : list[i] \in AnyRow
    BY SeqFacts
  <1>2. PICK keys : keys = KeysOf(list)
    OBVIOUS
  <1>3. keys \in Seq(setup.keys) /\ Len(keys) = len /\ \A i \in 1 .. len : keys[i] = list[i].id
    BY <1>1, <1>2, KeysAre
  <1>4. PICK planned : planned = 2 * Cardinality(ToSet(keys) \ DOMAIN r.rows)
    OBVIOUS
  <1>5. PICK stale : stale = Stale(r, keys)
    OBVIOUS
  <1>6. PICK changed : changed = Changed(r, list)
    OBVIOUS
  <1>7. PICK b : b = Perform(Reserved(r, planned), Drops(stale))
    OBVIOUS
  <1>8. PICK u : u = Perform(b, Updates(changed))
    OBVIOUS
  <1>9. PICK stable : stable = ReorderPlan(Only(r.order, DOMAIN b.rows), keys)
    OBVIOUS
  <1>10. PICK q : q = Perform(u, Placed(u, list, stable))
    OBVIOUS
  <1>11. \/ n = Fails(r, "LOOP_ROW_LIMIT_EXCEEDED")
         \/ n = Fails(r, "RECONCILE_BUDGET_EXCEEDED")
         \/ n = IF q.error # "none" THEN q ELSE [q EXCEPT !.order = keys]
    BY ZenonT(60), <1>2, <1>4, <1>5, <1>6, <1>7, <1>8, <1>9, <1>10
       DEF ReconcileLoop, Reserved, Drops, Updates
  <1>12. SUFFICES ASSUME n = IF q.error # "none" THEN q ELSE [q EXCEPT !.order = keys]
                  PROVE  Refused(r, n) \/ Reconciled(r, n, list)
    BY <1>11
  <1>13. Prepared(r, u, list, stable)
    <2>1. stale = Stale(r, KeysOf(list)) /\ stable = ReorderPlan(Only(r.order, DOMAIN b.rows), KeysOf(list))
      BY <1>2, <1>5, <1>9
    <2>. QED
      BY <1>6, <1>7, <1>8, <2>1, PreparedIs
  <1>14. /\ World(u) /\ u.order = r.order /\ u.flag = r.flag /\ u.collection = r.collection
         /\ u.error = "none" /\ u.moves = r.moves
         /\ DOMAIN u.rows \subseteq DOMAIN r.rows
         /\ DOMAIN r.rows \cap Ids(list) \subseteq DOMAIN u.rows
         /\ \A k \in DOMAIN u.rows : u.rows[k].generation = r.rows[k].generation
         /\ \A p \in 1 .. len : list[p].id \in DOMAIN u.rows => u.rows[list[p].id].values = list[p]
         /\ NoIndex /\ AllRight(r) => AllRight(u)
    BY <1>1, <1>13 DEF Prepared
  <1>15. stable \in SUBSET (1 .. len) /\ \A p \in stable : list[p].id \in DOMAIN u.rows
    <2>1. InThePreviousOrder(Only(r.order, DOMAIN u.rows), keys, stable)
      BY <1>2, <1>13 DEF Prepared
    <2>2. stable \subseteq 1 .. len /\ \A p \in stable : keys[p] \in ToSet(Only(r.order, DOMAIN u.rows))
      BY <1>3, <2>1 DEF InThePreviousOrder
    <2>3. ToSet(Only(r.order, DOMAIN u.rows)) \subseteq DOMAIN u.rows
      <3>1. r.order \in Seq(setup.keys)
        BY DEF World
      <3>2. ToSet(Only(r.order, DOMAIN u.rows)) = ToSet(r.order) \cap DOMAIN u.rows
        BY <3>1, OnlyTells
      <3>. QED
        BY <3>2
    <2>. QED
      BY <1>3, <2>2, <2>3
  <1>16. \/ PlacedUpTo(u, q, list, stable, 1 .. len)
         \/ \E c : \E fixed : /\ PlacedUpTo(u, c, list, stable, fixed)
                              /\ q = Fails(c, "MOUNTED_REGION_LIMIT_EXCEEDED")
    <2>1. \A p, s \in 1 .. Len(list) : list[p].id = list[s].id => p = s
      BY DEF Distinct
    <2>. QED
      BY <1>1, <1>10, <1>14, <1>15, <2>1, PlacesAll
  \* What holds of all that are placed holds of those that are placed in time.
  <1>17. ASSUME NEW c, NEW fixed, PlacedUpTo(u, c, list, stable, fixed)
         PROVE  Reshaped(r, c) /\ c.order = r.order /\ c.error = "none"
    <2>1. /\ World(c) /\ Around(u, c) /\ fixed \subseteq 1 .. len
          /\ DOMAIN c.rows = DOMAIN u.rows \cup {list[p].id : p \in fixed}
          /\ \A k \in DOMAIN u.rows : c.rows[k] = u.rows[k]
          /\ \A p \in fixed : list[p].id \notin DOMAIN u.rows =>
               /\ c.rows[list[p].id].values = list[p]
               /\ Written(u, c.rows[list[p].id], IndexOf(u, list[p].id))
      BY <1>1, <1>17 DEF PlacedUpTo
    <2>2. c.flag = r.flag /\ c.collection = r.collection /\ c.order = r.order /\ c.error = "none"
          /\ c.flag = u.flag
      BY <1>14, <2>1 DEF Around
    <2>3. Kept(r, c)
      <3>. SUFFICES ASSUME NEW k \in DOMAIN r.rows \cap DOMAIN c.rows
                    PROVE  c.rows[k].generation = r.rows[k].generation
        BY DEF Kept
      <3>1. k \in DOMAIN u.rows
        <4>. SUFFICES ASSUME k \notin DOMAIN u.rows PROVE FALSE
          OBVIOUS
        <4>1. PICK p \in fixed : k = list[p].id
          BY <2>1
        <4>2. k \in Ids(list)
          BY <1>1, <2>1, <4>1 DEF Ids
        <4>. QED
          BY <1>14, <4>2
      <3>. QED
        BY <1>14, <2>1, <3>1
    <2>4. ASSUME NoIndex, AllRight(r), NEW k \in DOMAIN c.rows PROVE Right(c, c.rows[k])
      <3>1. CASE k \in DOMAIN u.rows
        <4>1. Right(u, u.rows[k]) /\ c.rows[k] = u.rows[k]
          BY <1>14, <2>1, <2>4, <3>1 DEF AllRight
        <4>. QED
          BY <2>2, <4>1, SameRight
      <3>2. CASE k \notin DOMAIN u.rows
        <4>1. PICK p \in fixed : k = list[p].id
          BY <2>1, <3>2
        <4>2. Written(u, c.rows[k], IndexOf(u, k))
          BY <2>1, <3>2, <4>1
        <4>3. Right(u, c.rows[k])
          BY <2>4, <4>2, WrittenIsRight
        <4>. QED
          BY <2>2, <4>3, SameRight
      <3>. QED
        BY <3>1, <3>2
    <2>5. NoIndex /\ AllRight(r) => AllRight(c)
      BY <2>4 DEF AllRight
    <2>. QED
      BY <2>1, <2>2, <2>3, <2>5 DEF Reshaped
  <1>18. CASE \E c : \E fixed : /\ PlacedUpTo(u, c, list, stable, fixed)
                                /\ q = Fails(c, "MOUNTED_REGION_LIMIT_EXCEEDED")
    <2>1. PICK c, fixed : /\ PlacedUpTo(u, c, list, stable, fixed)
                          /\ q = Fails(c, "MOUNTED_REGION_LIMIT_EXCEEDED")
      BY <1>18
    <2>2. Reshaped(r, c) /\ c.order = r.order
      BY <1>17, <2>1
    <2>3. World(c) /\ c.flag = r.flag /\ c.collection = r.collection /\ Kept(r, c)
          /\ (NoIndex /\ AllRight(r) => AllRight(c))
      BY <2>2 DEF Reshaped
    <2>4. /\ Shaped(q) /\ q.error = "MOUNTED_REGION_LIMIT_EXCEEDED" /\ q.order = c.order
          /\ q.rows = c.rows /\ q.children = c.children /\ q.flag = c.flag
          /\ q.collection = c.collection /\ q.listeners = c.listeners
          /\ q.requests = c.requests /\ q.taken = c.taken
      <3>1. Shaped(c)
        BY <2>3 DEF World
      <3>. QED
        BY <2>1, <3>1, FailsIs
    <2>5. World(q) /\ (AllRight(c) => AllRight(q))
      <3>1. q.order \in Seq(setup.keys)
        BY <2>3, <2>4 DEF World
      <3>. QED
        BY <2>3, <2>4, <3>1, SameWorld
    <2>6. n = q
      BY <1>12, <2>4
    <2>7. Kept(r, q)
      BY <2>3, <2>4 DEF Kept
    <2>8. Refused(r, n)
      BY <2>2, <2>3, <2>4, <2>5, <2>6, <2>7 DEF Refused, Reshaped
    <2>. QED
      BY <2>8
  <1>19. CASE PlacedUpTo(u, q, list, stable, 1 .. len)
    <2>1. Reshaped(r, q) /\ q.error = "none"
      BY <1>17, <1>19
    <2>2. World(q) /\ q.flag = r.flag /\ q.collection = r.collection /\ Kept(r, q)
          /\ (NoIndex /\ AllRight(r) => AllRight(q))
      BY <2>1 DEF Reshaped
    <2>3. n = [q EXCEPT !.order = keys]
      BY <1>12, <2>1
    <2>4. n = [order |-> keys, rows |-> q.rows, children |-> q.children, flag |-> q.flag,
       collection |-> q.collection, live |-> q.live, budget |-> q.budget,
       listeners |-> q.listeners, requests |-> q.requests, taken |-> q.taken,
       moves |-> q.moves, error |-> q.error]
      <3>1. Shaped(q)
        BY <2>2 DEF World
      <3>. QED
        BY ONLY <2>3, <3>1 DEF Shaped
    <2>5. /\ Shaped(n) /\ n.error = "none" /\ n.order = keys
          /\ n.rows = q.rows /\ n.children = q.children /\ n.flag = q.flag
          /\ n.collection = q.collection /\ n.listeners = q.listeners
          /\ n.requests = q.requests /\ n.taken = q.taken /\ n.moves = q.moves
      BY <2>1, <2>4 DEF Shaped
    <2>6. World(n) /\ (Strict(q) => Strict(n)) /\ (AllRight(q) => AllRight(n))
          /\ \A k : Token(n, k) = Token(q, k)
      BY <1>3, <2>2, <2>5, SameWorld
    <2>7. Kept(r, n)
      BY <2>2, <2>5 DEF Kept
    <2>8. Reshaped(r, n)
      BY <2>2, <2>5, <2>6, <2>7 DEF Reshaped
    <2>9. /\ DOMAIN q.rows = DOMAIN u.rows \cup {list[p].id : p \in 1 .. len}
          /\ \A k \in DOMAIN u.rows : q.rows[k] = u.rows[k]
          /\ \A p \in 1 .. len : list[p].id \notin DOMAIN u.rows => q.rows[list[p].id].values = list[p]
          /\ Strict(u) => Strict(q)
          /\ Ordered(u, list, stable) => Ordered(q, list, 1 .. len)
          /\ q.moves = u.moves + Cardinality({p \in (1 .. len) \ stable : list[p].id \in DOMAIN u.rows})
      BY <1>19 DEF PlacedUpTo
    <2>10. Strict(r) /\ r.requests = {} => Strict(n)
      BY <1>13, <2>6, <2>9 DEF Prepared
    <2>11. InStep(r) => Renders(n, list)
      <3>. SUFFICES ASSUME InStep(r) PROVE Renders(n, list)
        OBVIOUS
      <3>1. DOMAIN n.rows = Ids(list)
        <4>1. DOMAIN u.rows = DOMAIN r.rows \cap Ids(list)
          BY <1>13 DEF Prepared
        <4>2. {list[p].id : p \in 1 .. len} = Ids(list)
          BY <1>1 DEF Ids
        <4>. QED
          BY <2>5, <2>9, <4>1, <4>2
      <3>2. \A p \in 1 .. len : n.rows[list[p].id].values = list[p]
        BY <1>14, <2>5, <2>9
      <3>3. Ordered(n, list, 1 .. len)
        <4>1. Ordered(q, list, 1 .. len)
          BY <1>13, <2>9 DEF Prepared
        <4>. QED
          BY <2>5, <2>6, <4>1 DEF Ordered
      <3>. QED
        BY <1>1, <1>2, <2>5, <3>1, <3>2, <3>3 DEF Renders
    <2>12. PICK set : set = DOMAIN u.rows
      OBVIOUS
    <2>13. /\ InStep(r) => set = DOMAIN r.rows \cap Ids(list)
           /\ InThePreviousOrder(Only(r.order, set), KeysOf(list), stable)
           /\ MostStay(Only(r.order, set), KeysOf(list), stable)
      BY <1>13, <2>12 DEF Prepared
    <2>14. n.moves = r.moves + Cardinality({p \in (1 .. Len(list)) \ stable : list[p].id \in set})
      <3>1. n.moves = r.moves + Cardinality({p \in (1 .. len) \ stable : list[p].id \in DOMAIN u.rows})
        BY <1>14, <2>5, <2>9
      <3>. QED
        BY Zenon, <1>1, <2>12, <3>1
    <2>. QED
      BY <1>2, <2>5, <2>8, <2>10, <2>11, <2>13, <2>14 DEF Reconciled
  <1>. QED
    BY <1>16, <1>18, <1>19

(***************************************************************************)
(* Rows behind a change of the order                                       *)
(***************************************************************************)

\* The rows at some places of a list of keys are refreshed.
Fresh(r, keys) == IsInjective(keys) /\ \A i \in DOMAIN keys : Quiet(r, keys[i])
RefreshedUpTo(r, n, keys, done) ==
  /\ World(n) /\ Around(r, n) /\ n.children = r.children /\ n.moves = r.moves
  /\ DOMAIN n.rows = DOMAIN r.rows
  /\ \A k \in DOMAIN r.rows : /\ n.rows[k].generation = r.rows[k].generation
                              /\ n.rows[k].values = r.rows[k].values
  /\ \A o \in n.requests : o \in r.requests \/ o[1] \in {keys[j] : j \in done}
  /\ setup.test # "index" => n.listeners = r.listeners /\ n.requests = r.requests
                             /\ (Strict(r) => Strict(n))
  /\ NoIndex => n.rows = r.rows
  /\ Strict(r) /\ Fresh(r, keys) => Strict(n)

\* Owners are those of the rows with their regions.
LEMMA SameStrict ==
  ASSUME NEW r, NEW n, n.listeners = r.listeners, n.requests = r.requests,
         DOMAIN n.rows = DOMAIN r.rows,
         \A k \in DOMAIN r.rows : /\ n.rows[k].generation = r.rows[k].generation
                                  /\ n.rows[k].region = r.rows[k].region,
         Strict(r)
  PROVE  Strict(n)
  <1>1. \A k \in DOMAIN r.rows : OwnersOf(k, n.rows[k]) = OwnersOf(k, r.rows[k])
    BY DEF OwnersOf, RowOwner, BranchOwner
  <1>. QED
    BY <1>1 DEF Strict

LEMMA RefreshOneMore ==
  ASSUME setup \in Setups, NEW r, NEW b, NEW keys, NEW i \in Nat,
         DOMAIN keys \subseteq Nat, i + 1 \in DOMAIN keys, \A j \in 1 .. i : j \in DOMAIN keys,
         RefreshedUpTo(r, b, keys, 1 .. i), keys[i + 1] \in DOMAIN r.rows,
         NEW n, n = UpdateTypedRowIndex(b, keys[i + 1])
  PROVE  RefreshedUpTo(r, n, keys, 1 .. i + 1)
  <1>1. PICK key : key = keys[i + 1]
    OBVIOUS
  <1>2. World(b) /\ Around(r, b) /\ b.children = r.children /\ b.moves = r.moves
        /\ DOMAIN b.rows = DOMAIN r.rows
    BY DEF RefreshedUpTo
  <1>3. key \in DOMAIN b.rows /\ RowOK(key, b.rows[key]) /\ Shaped(b) /\ FiniteSets(b)
        /\ b.flag \in BOOLEAN
    BY <1>1, <1>2 DEF World
  <1>4. /\ Touch(b, n, key) /\ OwnersFollow(b, n, key) /\ n.rows[key].values = b.rows[key].values
        /\ setup.test # "index" => /\ n.listeners = b.listeners /\ n.requests = b.requests
                                   /\ n.rows[key].region = b.rows[key].region
        /\ setup.test # "index" /\ "index" \notin setup.text => n = b
    BY <1>1, <1>3, UpdateTypedRowIndexIs
  <1>5. /\ World(n)
        /\ \A k \in DOMAIN b.rows : n.rows[k].generation = b.rows[k].generation
        /\ Strict(b) /\ Quiet(b, key) => Strict(n)
    BY <1>2, <1>3, <1>4, TouchKeepsWorld
  <1>6. OtherFields(b, n) /\ OtherRows(b, n, key) /\ OtherOwners(b, n, key)
    BY <1>4 DEF Touch
  <1>7. Around(r, n) /\ n.children = r.children /\ n.moves = r.moves
        /\ DOMAIN n.rows = DOMAIN r.rows
    BY <1>2, <1>6 DEF Around, OtherFields, OtherRows
  <1>8. \A k \in DOMAIN r.rows : /\ n.rows[k].generation = r.rows[k].generation
                                 /\ n.rows[k].values = r.rows[k].values
    <2>. SUFFICES ASSUME NEW k \in DOMAIN r.rows
                  PROVE  /\ n.rows[k].generation = r.rows[k].generation
                         /\ n.rows[k].values = r.rows[k].values
      OBVIOUS
    <2>1. b.rows[k].generation = r.rows[k].generation /\ b.rows[k].values = r.rows[k].values
      BY DEF RefreshedUpTo
    <2>2. n.rows[k].values = b.rows[k].values
      BY <1>2, <1>4, <1>6 DEF OtherRows
    <2>. QED
      BY <1>2, <1>5, <2>1, <2>2
  <1>9. 1 .. i + 1 = 1 .. i \cup {i + 1}
    OBVIOUS
  <1>10. {keys[j] : j \in 1 .. i + 1} = {keys[j] : j \in 1 .. i} \cup {key}
    BY <1>1, <1>9
  <1>11. \A o \in n.requests : o \in r.requests \/ o[1] \in {keys[j] : j \in 1 .. i + 1}
    BY <1>6, <1>10 DEF RefreshedUpTo, OtherOwners
  <1>12. ASSUME setup.test # "index"
         PROVE  n.listeners = r.listeners /\ n.requests = r.requests /\ (Strict(r) => Strict(n))
    <2>1. n.listeners = b.listeners /\ n.requests = b.requests
      BY <1>4, <1>12
    <2>2. b.listeners = r.listeners /\ b.requests = r.requests /\ (Strict(r) => Strict(b))
      BY <1>12 DEF RefreshedUpTo
    <2>3. \A k \in DOMAIN b.rows : n.rows[k].region = b.rows[k].region
      BY <1>4, <1>6, <1>12 DEF OtherRows
    <2>4. DOMAIN n.rows = DOMAIN b.rows
      BY <1>2, <1>7
    <2>5. Strict(b) => Strict(n)
      BY <1>5, <2>1, <2>3, <2>4, SameStrict
    <2>. QED
      BY <2>1, <2>2, <2>5
  <1>13. NoIndex => n.rows = r.rows
    BY <1>4 DEF NoIndex, RefreshedUpTo
  <1>14. Strict(r) /\ Fresh(r, keys) => Strict(n)
    <2>. SUFFICES ASSUME Strict(r), Fresh(r, keys) PROVE Strict(n)
      OBVIOUS
    <2>1. \A j \in 1 .. i : keys[j] # key
      <3>1. \A j \in 1 .. i : j # i + 1
        OBVIOUS
      <3>. QED
        BY <1>1, <3>1 DEF Fresh, IsInjective
    <2>2. key \notin {keys[j] : j \in 1 .. i}
      BY <2>1
    <2>3. Quiet(r, key)
      BY <1>1 DEF Fresh
    <2>4. Quiet(b, key)
      BY <2>2, <2>3 DEF Quiet, RefreshedUpTo
    <2>. QED
      BY <1>5, <2>4 DEF RefreshedUpTo
  <1>. QED
    BY <1>5, <1>7, <1>8, <1>11, <1>12, <1>13, <1>14 DEF RefreshedUpTo

\* All of them, or those up to one that has no row.
RefreshStops(r, n, keys) ==
  \E c : \E done : /\ RefreshedUpTo(r, c, keys, done) /\ n = Fails(c, "row missing")
                   /\ ~ (ToSet(keys) \subseteq DOMAIN r.rows)
LEMMA RefreshIndexRowsIs ==
  ASSUME setup \in Setups, NEW r, World(r), r.error = "none", NEW X, NEW keys \in Seq(X),
         NEW n, n = RefreshIndexRows(r, keys)
  PROVE  RefreshedUpTo(r, n, keys, DOMAIN keys) \/ RefreshStops(r, n, keys)
  <1>1. PICK m \in Nat : m = Len(keys) /\ DOMAIN keys = 1 .. m
    BY SeqFacts
  <1>2. PICK steps : steps = [i \in DOMAIN keys |-> [do |-> "refresh", key |-> keys[i]]]
    OBVIOUS
  <1>3. DOMAIN steps = 1 .. m /\ n = Perform(r, steps)
    BY <1>1, <1>2 DEF RefreshIndexRows
  <1>4. PICK a : Trace(a, m, r, steps) /\ Perform(r, steps) = a[m]
    BY <1>3, PerformRuns
  <1>5. /\ a[0] = r
        /\ \A i \in 1 .. m : a[i] = DoUnlessFailed(a[i - 1], steps[i])
    BY <1>4 DEF Trace
  <1>6. PICK S : S = { i \in 0 .. m : RefreshedUpTo(r, a[i], keys, 1 .. i) \/ RefreshStops(r, a[i], keys) }
    OBVIOUS
  <1>7. 0 \in S
    <2>1. 1 .. 0 = {} /\ {keys[j] : j \in {}} = {}
      OBVIOUS
    <2>2. RefreshedUpTo(r, r, keys, {})
      BY <2>1 DEF RefreshedUpTo, Around
    <2>. QED
      BY <1>5, <1>6, <2>1, <2>2
  <1>8. ASSUME NEW i \in 0 .. m - 1, i \in S PROVE i + 1 \in S
    <2>1. i + 1 \in 1 .. m /\ i + 1 - 1 = i /\ i + 1 \in 0 .. m /\ i \in Nat
      OBVIOUS
    <2>2. a[i + 1] = DoUnlessFailed(a[i], steps[i + 1])
      BY <1>5, <2>1
    <2>3. steps[i + 1] = [do |-> "refresh", key |-> keys[i + 1]]
      BY <1>1, <1>2, <2>1
    <2>4. CASE RefreshStops(r, a[i], keys)
      <3>1. PICK c, done : /\ RefreshedUpTo(r, c, keys, done) /\ a[i] = Fails(c, "row missing")
        BY <2>4, Zenon DEF RefreshStops
      <3>2. Shaped(c)
        BY <3>1, Zenon DEF RefreshedUpTo, World
      <3>3. a[i].error # "none"
        <4>1. PICK stopped : stopped = a[i]
          OBVIOUS
        <4>2. stopped = Fails(c, "row missing")
          BY <3>1, <4>1, Zenon
        <4>3. stopped.error = "row missing"
          BY <3>2, <4>2, Zenon DEF Fails, Shaped
        <4>. QED
          BY <4>1, <4>3, Zenon
      <3>4. a[i + 1] = a[i]
        BY <2>2, <3>3, DoNothing
      <3>. QED
        BY Zenon, <1>6, <2>1, <2>4, <3>4
    <2>5. CASE RefreshedUpTo(r, a[i], keys, 1 .. i)
      <3>1. a[i].error = "none" /\ DOMAIN a[i].rows = DOMAIN r.rows
        BY <2>5 DEF RefreshedUpTo, Around
      <3>2. a[i + 1] = RefreshIndexRow(a[i], keys[i + 1])
        BY <2>2, <2>3, <3>1, DoRefresh
      <3>3. CASE keys[i + 1] \in DOMAIN r.rows
        <4>1. a[i + 1] = UpdateTypedRowIndex(a[i], keys[i + 1])
          BY <3>1, <3>2, <3>3 DEF RefreshIndexRow
        <4>2. DOMAIN keys \subseteq Nat /\ i + 1 \in DOMAIN keys /\ \A j \in 1 .. i : j \in DOMAIN keys
          BY <1>1, <2>1
        <4>3. RefreshedUpTo(r, a[i + 1], keys, 1 .. i + 1)
          BY <2>1, <2>5, <3>3, <4>1, <4>2, RefreshOneMore
        <4>. QED
          BY Zenon, <1>6, <2>1, <4>3
      <3>4. CASE keys[i + 1] \notin DOMAIN r.rows
        <4>1. a[i + 1] = Fails(a[i], "row missing")
          BY <3>1, <3>2, <3>4, Zenon DEF RefreshIndexRow
        <4>2. ~ (ToSet(keys) \subseteq DOMAIN r.rows)
          BY <1>1, <2>1, <3>4 DEF ToSet
        <4>3. RefreshStops(r, a[i + 1], keys)
          BY <2>5, <4>1, <4>2, Zenon DEF RefreshStops
        <4>. QED
          BY Zenon, <1>6, <2>1, <4>3
      <3>. QED
        BY <3>3, <3>4
    <2>. QED
      BY <1>6, <1>8, <2>4, <2>5
  <1>9. m \in S
    <2>1. \A i \in 0 .. m : i \in S
      BY ONLY <1>7, <1>8, m \in Nat, Climb
    <2>. QED
      BY <2>1
  <1>. QED
    BY <1>1, <1>3, <1>4, <1>6, <1>9

\* The part of a sequence from a place on.
LEMMA FromIs ==
  ASSUME NEW X, NEW s \in Seq(X), NEW first \in Nat, 1 <= first, NEW last \in Nat
  PROVE  /\ From(s, first, last) \in Seq(X)
         /\ \A x \in ToSet(From(s, first, last)) : \E i \in first .. Len(s) : s[i] = x
         /\ IsInjective(s) => IsInjective(From(s, first, last))
  <1>1. PICK n \in Nat : n = Len(s) /\ DOMAIN s = 1 .. n /\ \A i \in 1 .. n : s[i] \in X
    BY SeqFacts
  <1>2. PICK end \in Nat : end = Min({last, n}) /\ end <= n
    <2>1. {last, n} \in SUBSET Nat /\ {last, n} # {}
      OBVIOUS
    <2>. QED
      BY <2>1, MinIs
  <1>3. PICK f : f = From(s, first, last)
    OBVIOUS
  <1>4. f = SubSeq(s, first, end)
    BY <1>1, <1>2, <1>3 DEF From
  <1>5. CASE first <= end
    <2>1. PICK m \in Nat : m = 1 + end - first
      BY <1>5
    <2>2. f = [i \in 1 .. m |-> s[first + i - 1]]
      BY <1>4, <2>1
    <2>3. \A i \in 1 .. m : first + i - 1 \in 1 .. n /\ first + i - 1 \in first .. n
      BY <1>2, <2>1
    <2>4. f \in Seq(X) /\ Len(f) = m
      <3>1. DOMAIN f = 1 .. m /\ \A i \in 1 .. m : f[i] \in X
        BY <1>1, <2>2, <2>3
      <3>2. f = [i \in 1 .. m |-> f[i]]
        BY <2>2
      <3>. QED
        BY <3>1, <3>2, SeqMade
    <2>5. \A x \in ToSet(f) : \E i \in first .. n : s[i] = x
      BY <2>2, <2>3 DEF ToSet
    <2>6. IsInjective(s) => IsInjective(f)
      <3>. SUFFICES ASSUME IsInjective(s), NEW i \in 1 .. m, NEW j \in 1 .. m, f[i] = f[j]
                    PROVE  i = j
        BY <2>2 DEF IsInjective
      <3>1. first + i - 1 = first + j - 1
        BY <1>1, <2>2, <2>3 DEF IsInjective
      <3>. QED
        BY <3>1
    <2>. QED
      BY <1>1, <1>3, <2>4, <2>5, <2>6
  <1>6. CASE ~ (first <= end)
    <2>1. f = << >>
      BY <1>4, <1>6
    <2>2. ToSet(f) = {} /\ IsInjective(f) /\ f \in Seq(X)
      BY <2>1 DEF ToSet, IsInjective
    <2>. QED
      BY <1>3, <2>2
  <1>. QED
    BY <1>5, <1>6

(***************************************************************************)
(* The order of the rows and of their nodes                                *)
(***************************************************************************)

\* The nodes stand in the order of the keys.
Follows(c, tok, s) ==
  \A k, l \in ToSet(s) : Before(s, k, l) => Before(c, tok[k], tok[l])
LEMMA FollowsFurther ==
  ASSUME NEW X, NEW s, NEW s2, NEW c, NEW c2, NEW tok, NEW y, NEW a, NEW ta, y \notin ToSet(s),
         InFront(s2, s, y, a), InFront(c2, c, tok[y], ta), Follows(c, tok, s),
         \A k \in ToSet(s) : tok[k] \in ToSet(c),
         a \in ToSet(s) => ta = tok[a], a \notin ToSet(s) => ta \notin ToSet(c)
  PROVE  Follows(c2, tok, s2)
  <1>. SUFFICES ASSUME NEW k \in ToSet(s2), NEW l \in ToSet(s2), Before(s2, k, l)
                PROVE  Before(c2, tok[k], tok[l])
    BY DEF Follows
  <1>1. ToSet(s2) = ToSet(s) \cup {y} /\ ~ Before(s2, y, y)
        /\ \A u, v \in ToSet(s) : Before(s2, u, v) <=> Before(s, u, v)
    BY DEF InFront
  <1>2. /\ a \in ToSet(s) => \A u \in ToSet(s) : /\ Before(s2, u, y) <=> Before(s, u, a)
                                                 /\ Before(s2, y, u) <=> u = a \/ Before(s, a, u)
        /\ a \notin ToSet(s) => \A u \in ToSet(s) : Before(s2, u, y) /\ ~ Before(s2, y, u)
    BY DEF InFront
  <1>3. /\ ta \in ToSet(c) => \A u \in ToSet(c) : /\ Before(c2, u, tok[y]) <=> Before(c, u, ta)
                                                  /\ Before(c2, tok[y], u) <=> u = ta \/ Before(c, ta, u)
        /\ ta \notin ToSet(c) => \A u \in ToSet(c) : Before(c2, u, tok[y]) /\ ~ Before(c2, tok[y], u)
        /\ \A u, v \in ToSet(c) : Before(c2, u, v) <=> Before(c, u, v)
    BY DEF InFront
  <1>4. CASE k \in ToSet(s) /\ l \in ToSet(s)
    BY <1>1, <1>3, <1>4 DEF Follows
  <1>5. CASE k = y /\ l \in ToSet(s)
    <2>1. a \in ToSet(s) /\ (l = a \/ Before(s, a, l))
      BY <1>2, <1>5
    <2>2. ta \in ToSet(c) /\ (tok[l] = ta \/ Before(c, ta, tok[l])) /\ tok[l] \in ToSet(c)
      BY <1>5, <2>1 DEF Follows
    <2>. QED
      BY <1>3, <1>5, <2>2
  <1>6. CASE k \in ToSet(s) /\ l = y
    <2>1. CASE a \in ToSet(s)
      <3>1. Before(c, tok[k], ta)
        BY <1>2, <1>6, <2>1 DEF Follows
      <3>. QED
        BY <1>3, <1>6, <2>1, <3>1
    <2>2. CASE a \notin ToSet(s)
      BY <1>3, <1>6, <2>2
    <2>. QED
      BY <2>1, <2>2
  <1>. QED
    BY <1>1, <1>4, <1>5, <1>6

\* Two elements of an order stand one way or the other.
LEMMA OneBefore ==
  ASSUME NEW X, NEW s \in Seq(X), IsInjective(s), NEW x \in ToSet(s), NEW y \in ToSet(s)
  PROVE  /\ x # y => Before(s, x, y) \/ Before(s, y, x)
         /\ ~ (Before(s, x, y) /\ Before(s, y, x))
         /\ ~ Before(s, x, x)
  <1>1. PICK n \in Nat : n = Len(s) /\ DOMAIN s = 1 .. n
    BY SeqFacts
  <1>2. \A i, j \in 1 .. n : s[i] = s[j] => i = j
    BY <1>1 DEF IsInjective
  <1>3. PICK i \in 1 .. n : s[i] = x
    BY <1>1 DEF ToSet
  <1>4. PICK j \in 1 .. n : s[j] = y
    BY <1>1 DEF ToSet
  <1>5. Before(s, x, y) <=> i < j
    BY <1>1, <1>2, <1>3, <1>4 DEF Before
  <1>6. Before(s, y, x) <=> j < i
    BY <1>1, <1>2, <1>3, <1>4 DEF Before
  <1>7. ~ Before(s, x, x)
    BY <1>1, <1>2, <1>3 DEF Before
  <1>. QED
    BY <1>3, <1>4, <1>5, <1>6, <1>7

\* A key is put in front of another one, or at the end.
LEMMA PutBeforeIs ==
  ASSUME NEW X, NEW s \in Seq(X), NEW y \in X, NEW a
  PROVE  /\ PutBefore(s, y, a) \in Seq(X) /\ y \in ToSet(PutBefore(s, y, a))
         /\ IsInjective(s) /\ y \notin ToSet(s) => InFront(PutBefore(s, y, a), s, y, a)
  <1>1. PICK r : r = PutBefore(s, y, a)
    OBVIOUS
  <1>2. CASE a \in ToSet(s)
    <2>1. At(s, a) \in 1 .. Len(s) /\ Contains(s, a)
      BY <1>2, AtIs
    <2>2. r = InsertAt(s, At(s, a), y)
      BY <1>1, <2>1 DEF PutBefore
    <2>3. r \in Seq(X) /\ Inserted(r, s, At(s, a), y)
      BY <2>1, <2>2, InsertAtIs
    <2>4. y \in ToSet(r)
      <3>1. PICK p \in 1 .. Len(r) : r[p] = y
        BY <2>1, <2>3, SeqFacts DEF Inserted
      <3>. QED
        BY <2>3, <3>1, SeqFacts DEF ToSet
    <2>5. IsInjective(s) /\ y \notin ToSet(s) => InFront(r, s, y, a)
      BY <1>2, <2>2, PutInFront
    <2>. QED
      BY <1>1, <2>3, <2>4, <2>5
  <1>3. CASE a \notin ToSet(s)
    <2>1. ~ Contains(s, a)
      BY <1>3, AtIs
    <2>2. r = Append(s, y)
      BY <1>1, <2>1 DEF PutBefore
    <2>3. r \in Seq(X) /\ Inserted(r, s, Len(s) + 1, y)
      BY <2>2, AppendIs
    <2>4. y \in ToSet(r)
      <3>1. PICK p \in 1 .. Len(r) : r[p] = y
        BY <2>3, SeqFacts DEF Inserted
      <3>. QED
        BY <2>3, <3>1, SeqFacts DEF ToSet
    <2>5. IsInjective(s) /\ y \notin ToSet(s) => InFront(r, s, y, a)
      BY <1>3, <2>2, PutInFront
    <2>. QED
      BY <1>1, <2>3, <2>4, <2>5
  <1>. QED
    BY <1>2, <1>3

\* The tokens of the rows.
TokensOf(r) == [k \in DOMAIN r.rows |-> Token(r, k)]
LEMMA InStepFollows ==
  ASSUME NEW r
  PROVE  InStep(r) <=> /\ IsInjective(r.order) /\ ToSet(r.order) = DOMAIN r.rows
                       /\ Follows(r.children, TokensOf(r), r.order)
  <1>1. \A k \in DOMAIN r.rows : TokensOf(r)[k] = Token(r, k)
    BY DEF TokensOf
  <1>. QED
    BY <1>1 DEF InStep, Follows

\* The rows of a list, in its order, are in step, and the other way round.
LEMMA RendersMeans ==
  ASSUME NEW r, NEW list \in Seq(AnyRow), Distinct(list)
  PROVE  Renders(r, list) <=>
           /\ InStep(r) /\ r.order = KeysOf(list)
           /\ \A p \in 1 .. Len(list) : r.rows[list[p].id].values = list[p]
  <1>1. PICK n \in Nat : n = Len(list)
    BY SeqFacts
  <1>2. /\ KeysOf(list) \in Seq(setup.keys) /\ Len(KeysOf(list)) = n
        /\ DOMAIN KeysOf(list) = 1 .. n /\ \A i \in 1 .. n : KeysOf(list)[i] = list[i].id
    BY <1>1, KeysAre
  <1>3. ToSet(KeysOf(list)) = Ids(list) /\ IsInjective(KeysOf(list))
        /\ \A p, q \in 1 .. n : p < q => Before(KeysOf(list), list[p].id, list[q].id)
    BY <1>1, KeysTell
  <1>4. ASSUME r.order = KeysOf(list), DOMAIN r.rows = Ids(list)
        PROVE  Ordered(r, list, 1 .. n) <=>
                 \A k, l \in DOMAIN r.rows : Before(r.order, k, l) =>
                    Before(r.children, Token(r, k), Token(r, l))
    <2>1. ASSUME Ordered(r, list, 1 .. n), NEW k \in DOMAIN r.rows, NEW l \in DOMAIN r.rows,
                 Before(r.order, k, l)
          PROVE  Before(r.children, Token(r, k), Token(r, l))
      <3>1. PICK i, j \in 1 .. n : i < j /\ list[i].id = k /\ list[j].id = l
        BY <1>2, <1>4, <2>1 DEF Before
      <3>. QED
        BY <2>1, <3>1 DEF Ordered
    <2>2. ASSUME \A k, l \in DOMAIN r.rows : Before(r.order, k, l) =>
                    Before(r.children, Token(r, k), Token(r, l)),
                 NEW p \in 1 .. n, NEW q \in 1 .. n, p < q
          PROVE  Before(r.children, Token(r, list[p].id), Token(r, list[q].id))
      <3>1. list[p].id \in DOMAIN r.rows /\ list[q].id \in DOMAIN r.rows
        BY <1>1, <1>4 DEF Ids
      <3>2. Before(r.order, list[p].id, list[q].id)
        BY <1>3, <1>4, <2>2
      <3>. QED
        BY <2>2, <3>1, <3>2
    <2>. QED
      BY <2>1, <2>2 DEF Ordered
  <1>5. ASSUME Renders(r, list)
        PROVE  /\ InStep(r) /\ r.order = KeysOf(list)
               /\ \A p \in 1 .. n : r.rows[list[p].id].values = list[p]
    BY <1>1, <1>3, <1>4, <1>5 DEF Renders, InStep
  <1>6. ASSUME InStep(r), r.order = KeysOf(list),
               \A p \in 1 .. n : r.rows[list[p].id].values = list[p]
        PROVE  Renders(r, list)
    BY <1>1, <1>3, <1>4, <1>6 DEF Renders, InStep
  <1>. QED
    BY <1>1, <1>5, <1>6

\* Neither changes as long as the rows are the same nodes in the same places.
LEMMA StillInStep ==
  ASSUME NEW r, NEW n, n.order = r.order, n.children = r.children, DOMAIN n.rows = DOMAIN r.rows,
         \A k \in DOMAIN r.rows : n.rows[k].generation = r.rows[k].generation, InStep(r)
  PROVE  InStep(n)
  <1>1. \A k \in DOMAIN r.rows : Token(n, k) = Token(r, k)
    BY DEF Token
  <1>. QED
    BY <1>1 DEF InStep

(***************************************************************************)
(* Deltas                                                                  *)
(***************************************************************************)

\* The templates whose rows show their data when a delta rewrites what reads
\* a changed field.
SteadyRows == NoIndex /\ (setup.branch = {} \/ setup.test \in setup.branch)
\* What holds after an operation, also after one that failed.
Goes(r, n) ==
  /\ World(n) /\ n.flag = r.flag /\ n.collection = r.collection /\ Kept(r, n)
  /\ SteadyRows /\ AllRight(r) => AllRight(n)
\* A delta that fails before anything has changed.
Refuses(r, n) ==
  /\ n.error \notin {"none", "MOUNTED_REGION_LIMIT_EXCEEDED"}
  /\ \E what : n = Fails(r, what)
NoRegion(r, n) == n.error = "MOUNTED_REGION_LIMIT_EXCEEDED" /\ n.rows = r.rows

LEMMA FailsGoes ==
  ASSUME NEW r, World(r), NEW what, NEW n, n = Fails(r, what)
  PROVE  /\ Goes(r, n) /\ n.rows = r.rows /\ n.error = what /\ n.order = r.order
         /\ n.requests = r.requests /\ (Strict(r) => Strict(n))
         /\ n.listeners = r.listeners /\ n.children = r.children
  <1>1. Shaped(r) /\ r.order \in Seq(setup.keys)
    BY DEF World
  <1>2. /\ Shaped(n) /\ n.error = what /\ n.order = r.order /\ n.rows = r.rows
        /\ n.children = r.children /\ n.flag = r.flag /\ n.collection = r.collection
        /\ n.listeners = r.listeners /\ n.requests = r.requests /\ n.taken = r.taken
    BY <1>1, FailsIs
  <1>3. World(n) /\ (Strict(r) => Strict(n)) /\ (AllRight(r) => AllRight(n))
    BY <1>1, <1>2, SameWorld
  <1>4. Kept(r, n)
    BY <1>2 DEF Kept
  <1>. QED
    BY <1>2, <1>3, <1>4 DEF Goes

TypedChanges(changes) ==
  /\ "v" \in DOMAIN changes => changes["v"] \in {x.v : x \in setup.values}
  /\ "on" \in DOMAIN changes => changes["on"] \in BOOLEAN

LEMMA PatchedIs ==
  ASSUME NEW values \in AnyRow, NEW changes, TypedChanges(changes),
         NEW v, v = Patched(values, changes)
  PROVE  /\ v.id = values.id => v \in AnyRow
         /\ \A f \in {"id", "v", "on"} : v[f] = IF f \in DOMAIN changes THEN changes[f] ELSE values[f]
  <1>1. values = [id |-> values.id, v |-> values.v, on |-> values.on]
        /\ values.id \in setup.keys /\ values.v \in {x.v : x \in setup.values} /\ values.on \in BOOLEAN
    BY DEF AnyRow
  <1>2. DOMAIN values = {"id", "v", "on"}
    BY <1>1
  <1>3. v = [f \in {"id", "v", "on"} |-> IF f \in DOMAIN changes THEN changes[f] ELSE values[f]]
    BY <1>2 DEF Patched
  <1>4. \A f \in {"id", "v", "on"} : v[f] = IF f \in DOMAIN changes THEN changes[f] ELSE values[f]
    BY <1>3
  <1>5. v.v \in {x.v : x \in setup.values} /\ v.on \in BOOLEAN
    BY <1>1, <1>4 DEF TypedChanges
  <1>6. v = [id |-> v.id, v |-> v.v, on |-> v.on]
    BY <1>3
  <1>7. v.id = values.id => v \in AnyRow
    <2>. SUFFICES ASSUME v.id = values.id PROVE v \in AnyRow
      OBVIOUS
    <2>1. v.id \in setup.keys
      BY <1>1
    <2>. QED
      BY <1>5, <1>6, <2>1 DEF AnyRow
  <1>. QED
    BY <1>4, <1>7

\* A row takes the changed fields of its data.
Updated(r, n, key, values) ==
  /\ Goes(r, n) /\ n.error = "none" /\ n.order = r.order /\ DOMAIN n.rows = DOMAIN r.rows
  /\ n.rows[key].values = values
  /\ \A k \in DOMAIN r.rows : k # key => n.rows[k].values = r.rows[k].values
  /\ InStep(r) => InStep(n)
  /\ \A o \in n.requests : o \in r.requests \/ o[1] = key
  /\ Strict(r) /\ Quiet(r, key) => Strict(n)

LEMMA DeltaUpdateIs ==
  ASSUME setup \in Setups, NEW r, World(r), r.error = "none", NEW d, TypedChanges(d.changes),
         NEW n, n = DeltaUpdate(r, d)
  PROVE  \/ /\ Refuses(r, n)
            /\ ~ (/\ d.key \in DOMAIN r.rows /\ d.key \in ToSet(r.order)
                  /\ "id" \in DOMAIN d.changes => d.changes["id"] = d.key)
         \/ /\ d.key \in DOMAIN r.rows /\ d.key \in ToSet(r.order)
            /\ Patched(r.rows[d.key].values, d.changes) \in AnyRow
            /\ Patched(r.rows[d.key].values, d.changes).id = d.key
            /\ Updated(r, n, d.key, Patched(r.rows[d.key].values, d.changes))
  <1>1. PICK key : key = d.key
    OBVIOUS
  <1>2. PICK values : values = Patched(r.rows[key].values, d.changes)
    OBVIOUS
  <1>3. n = IF key \notin DOMAIN r.rows THEN Fails(r, "row missing")
            ELSE IF ~ Contains(r.order, key) THEN Fails(r, "row order missing")
            ELSE IF values.id # r.rows[key].values.id
            THEN Fails(r, "STRUCTURAL_UPDATE_REQUIRES_EXPLICIT_DELTA")
            ELSE UpdateTypedRowFields(r, key, values, DOMAIN d.changes)
    BY <1>1, <1>2, Zenon DEF DeltaUpdate
  <1>4. r.order \in Seq(setup.keys) /\ Shaped(r) /\ FiniteSets(r) /\ r.flag \in BOOLEAN
    BY DEF World
  <1>5. Contains(r.order, key) <=> key \in ToSet(r.order)
    BY <1>4, AtIs
  <1>6. ASSUME NEW what, what \notin {"none", "MOUNTED_REGION_LIMIT_EXCEEDED"}, n = Fails(r, what)
        PROVE  Refuses(r, n)
    <2>1. n.error = what
      BY <1>4, <1>6, FailsIs
    <2>. QED
      BY <1>6, <2>1 DEF Refuses
  <1>7. CASE key \notin DOMAIN r.rows
    <2>1. n = Fails(r, "row missing")
      BY <1>3, <1>7, Zenon
    <2>. QED
      BY <1>1, <1>6, <1>7, <2>1, Zenon
  <1>8. CASE key \in DOMAIN r.rows /\ key \notin ToSet(r.order)
    <2>1. n = Fails(r, "row order missing")
      BY <1>3, <1>5, <1>8, Zenon
    <2>. QED
      BY <1>1, <1>6, <1>8, <2>1, Zenon
  <1>9. ASSUME key \in DOMAIN r.rows
        PROVE  /\ RowOK(key, r.rows[key]) /\ r.rows[key].values \in AnyRow
               /\ r.rows[key].values.id = key
               /\ values.id = key => values \in AnyRow
               /\ \A f \in {"id", "v", "on"} :
                    values[f] = IF f \in DOMAIN d.changes THEN d.changes[f] ELSE r.rows[key].values[f]
    <2>1. RowOK(key, r.rows[key])
      BY <1>9 DEF World
    <2>2. r.rows[key].values \in AnyRow /\ r.rows[key].values.id = key
      BY <2>1, RowFields
    <2>. QED
      BY <1>2, <2>1, <2>2, PatchedIs
  <1>10. CASE key \in DOMAIN r.rows /\ key \in ToSet(r.order) /\ values.id # key
    <2>1. n = Fails(r, "STRUCTURAL_UPDATE_REQUIRES_EXPLICIT_DELTA")
      BY <1>3, <1>5, <1>9, <1>10, Zenon
    <2>2. ~ ("id" \in DOMAIN d.changes => d.changes["id"] = key)
      BY <1>9, <1>10
    <2>. QED
      BY <1>1, <1>6, <2>1, <2>2
  <1>11. CASE key \in DOMAIN r.rows /\ key \in ToSet(r.order) /\ values.id = key
    <2>1. n = UpdateTypedRowFields(r, key, values, DOMAIN d.changes)
      BY <1>3, <1>5, <1>9, <1>11, Zenon
    <2>2. PICK what : what = DOMAIN d.changes
      OBVIOUS
    <2>3. PICK index : index = IndexOf(r, key)
      OBVIOUS
    <2>4. PICK selected : selected = IF setup.test \in what THEN Selects(r, values, index)
                                     ELSE r.rows[key].region.selected
      OBVIOUS
    <2>5. /\ Touch(r, n, key) /\ OwnersFollow(r, n, key) /\ n.rows[key].values = values
          /\ Writes(r, n, key, selected, index, what)
      BY <1>4, <1>9, <1>11, <2>1, <2>2, <2>3, <2>4, UpdateTypedRowFieldsIs
    <2>6. /\ World(n)
          /\ \A k \in DOMAIN r.rows : n.rows[k].generation = r.rows[k].generation
          /\ Strict(r) /\ Quiet(r, key) => Strict(n)
      BY <1>11, <2>5, TouchKeepsWorld
    <2>7. OtherFields(r, n) /\ OtherRows(r, n, key) /\ OtherOwners(r, n, key)
      BY <2>5 DEF Touch
    <2>8. DOMAIN n.rows = DOMAIN r.rows /\ \A k \in DOMAIN r.rows : k # key => n.rows[k] = r.rows[k]
      BY <2>7 DEF OtherRows
    <2>9. n.order = r.order /\ n.children = r.children /\ n.flag = r.flag
          /\ n.collection = r.collection /\ n.error = "none"
      BY <2>7 DEF OtherFields
    <2>10. ASSUME SteadyRows, AllRight(r) PROVE AllRight(n)
      <3>1. NoIndex /\ (setup.branch = {} \/ setup.test \in setup.branch)
        BY <2>10 DEF SteadyRows
      <3>2. Right(r, r.rows[key])
        BY <1>11, <2>10 DEF AllRight
      <3>3. SameReads(r, r.rows[key].values, r, n.rows[key].values, what)
        <4>. SUFFICES ASSUME NEW read \in Reads \ (what \cup {"index"})
                      PROVE  Value(r, read, r.rows[key].values, 0) = Value(r, read, n.rows[key].values, 0)
          BY DEF SameReads
        <4>1. read = "s" \/ (read \in {"v", "on"} /\ read \notin DOMAIN d.changes)
          BY <2>2 DEF Reads
        <4>2. read # "index"
          OBVIOUS
        <4>3. CASE read = "s"
          BY <4>3 DEF Value
        <4>4. CASE read \in {"v", "on"} /\ read \notin DOMAIN d.changes
          <5>1. values[read] = r.rows[key].values[read]
            BY <1>9, <1>11, <4>4
          <5>. QED
            BY <2>5, <4>4, <5>1 DEF Value
        <4>. QED
          BY <4>1, <4>3, <4>4
      <3>4. setup.test \in {"on", "s"}
        BY <3>1, GraphsAreTyped DEF NoIndex
      <3>5. selected = Selects(r, n.rows[key].values, 0)
        <4>1. CASE setup.test \in what
          BY <2>4, <2>5, <3>1, <4>1, SelectsAtAnyIndex DEF NoIndex
        <4>2. CASE setup.test \notin what
          <5>1. selected = Selects(r, r.rows[key].values, 0)
            BY <2>4, <3>2, <4>2 DEF Right
          <5>2. setup.test \in Reads \ (what \cup {"index"})
            BY <3>4, <4>2 DEF Reads
          <5>3. Value(r, setup.test, r.rows[key].values, 0) = Value(r, setup.test, n.rows[key].values, 0)
            BY <3>3, <5>2 DEF SameReads
          <5>. QED
            BY <3>4, <5>1, <5>3 DEF Selects
        <4>. QED
          BY <4>1, <4>2
      <3>6. setup.branch = {} \/ setup.branch \cap what # {} \/ r.rows[key].region.selected = selected
        BY <2>4, <3>1
      <3>7. Right(r, n.rows[key])
        BY <2>5, <3>1, <3>2, <3>3, <3>5, <3>6, RightAgain
      <3>8. ASSUME NEW k \in DOMAIN n.rows PROVE Right(n, n.rows[k])
        <4>1. Right(r, n.rows[k])
          BY <2>8, <2>10, <3>7 DEF AllRight
        <4>. QED
          BY <2>9, <4>1, SameRight
      <3>. QED
        BY <3>8 DEF AllRight
    <2>11. Kept(r, n)
      BY <2>6 DEF Kept
    <2>12. InStep(r) => InStep(n)
      BY <2>6, <2>8, <2>9, StillInStep
    <2>13. \A o \in n.requests : o \in r.requests \/ o[1] = key
      BY <2>7 DEF OtherOwners
    <2>14. Updated(r, n, key, values)
      BY <2>5, <2>6, <2>8, <2>9, <2>10, <2>11, <2>12, <2>13 DEF Updated, Goes
    <2>. QED
      BY <1>1, <1>2, <1>9, <1>11, <2>14
  <1>. QED
    BY <1>7, <1>8, <1>10, <1>11

\* Operations one after the other.
LEMMA GoesFurther ==
  ASSUME NEW r, NEW b, NEW n, Goes(r, b), Goes(b, n),
         DOMAIN r.rows \cap DOMAIN n.rows \subseteq DOMAIN b.rows
  PROVE  Goes(r, n)
  <1>1. World(n) /\ n.flag = r.flag /\ n.collection = r.collection
    BY DEF Goes
  <1>2. Kept(r, n)
    BY DEF Goes, Kept
  <1>3. SteadyRows /\ AllRight(r) => AllRight(n)
    BY DEF Goes
  <1>. QED
    BY <1>1, <1>2, <1>3 DEF Goes

\* The order alone changes.
LEMMA OrderPut ==
  ASSUME NEW r, World(r), NEW order \in Seq(setup.keys), NEW n, n = [r EXCEPT !.order = order]
  PROVE  /\ Goes(r, n) /\ n.order = order /\ n.rows = r.rows /\ n.children = r.children
         /\ n.requests = r.requests /\ n.error = r.error /\ (Strict(r) => Strict(n))
  <1>1. Shaped(r)
    BY DEF World
  <1>2. n = [order |-> order, rows |-> r.rows, children |-> r.children, flag |-> r.flag,
       collection |-> r.collection, live |-> r.live, budget |-> r.budget,
       listeners |-> r.listeners, requests |-> r.requests, taken |-> r.taken,
       moves |-> r.moves, error |-> r.error]
    BY ONLY <1>1, n = [r EXCEPT !.order = order] DEF Shaped
  <1>3. /\ Shaped(n) /\ n.order = order /\ n.rows = r.rows /\ n.children = r.children
        /\ n.flag = r.flag /\ n.collection = r.collection /\ n.listeners = r.listeners
        /\ n.requests = r.requests /\ n.taken = r.taken /\ n.error = r.error
    BY <1>2 DEF Shaped
  <1>4. World(n) /\ (Strict(r) => Strict(n)) /\ (AllRight(r) => AllRight(n))
    BY <1>3, SameWorld
  <1>5. Kept(r, n)
    BY <1>3 DEF Kept
  <1>. QED
    BY <1>3, <1>4, <1>5 DEF Goes

LEMMA RefreshGoes ==
  ASSUME setup \in Setups, NEW r, World(r), r.error = "none", NEW keys \in Seq(setup.keys),
         NEW n, n = RefreshIndexRows(r, keys)
  PROVE  /\ Goes(r, n) /\ DOMAIN n.rows = DOMAIN r.rows
         /\ n.error # "MOUNTED_REGION_LIMIT_EXCEEDED"
         /\ ToSet(keys) \subseteq DOMAIN r.rows => RefreshedUpTo(r, n, keys, DOMAIN keys)
  <1>1. ASSUME NEW c, NEW done, RefreshedUpTo(r, c, keys, done)
        PROVE  Goes(r, c) /\ DOMAIN c.rows = DOMAIN r.rows /\ c.error = "none" /\ World(c)
    <2>1. /\ World(c) /\ Around(r, c) /\ DOMAIN c.rows = DOMAIN r.rows
          /\ \A k \in DOMAIN r.rows : c.rows[k].generation = r.rows[k].generation
          /\ NoIndex => c.rows = r.rows
      BY <1>1 DEF RefreshedUpTo
    <2>2. c.flag = r.flag /\ c.collection = r.collection /\ c.error = "none"
      BY <2>1 DEF Around
    <2>3. Kept(r, c)
      <3>. SUFFICES ASSUME NEW k \in DOMAIN r.rows PROVE c.rows[k].generation = r.rows[k].generation
        BY DEF Kept
      <3>. QED
        BY <2>1
    <2>4. ASSUME SteadyRows, AllRight(r) PROVE AllRight(c)
      <3>1. c.rows = r.rows
        BY <2>1, <2>4 DEF SteadyRows
      <3>. QED
        BY <2>2, <2>4, <3>1, SameRight DEF AllRight
    <2>. QED
      BY <2>1, <2>2, <2>3, <2>4 DEF Goes
  <1>2. CASE RefreshedUpTo(r, n, keys, DOMAIN keys)
    BY <1>1, <1>2
  <1>3. CASE RefreshStops(r, n, keys)
    <2>1. PICK c, done : /\ RefreshedUpTo(r, c, keys, done) /\ n = Fails(c, "row missing")
                         /\ ~ (ToSet(keys) \subseteq DOMAIN r.rows)
      BY <1>3, Zenon DEF RefreshStops
    <2>2. Goes(r, c) /\ DOMAIN c.rows = DOMAIN r.rows /\ World(c)
      BY <1>1, <2>1, Zenon
    <2>3. Goes(c, n) /\ n.rows = c.rows /\ n.error = "row missing"
      <3>1. PICK why : why = "row missing"
        BY Zenon
      <3>2. n = Fails(c, why)
        BY <2>1, <3>1, Zenon
      <3>3. Goes(c, n) /\ n.rows = c.rows /\ n.error = why
        BY <2>2, <3>2, FailsGoes
      <3>. QED
        BY <3>1, <3>3, Zenon
    <2>4. Goes(r, n)
      BY <2>2, <2>3, GoesFurther, Zenon
    <2>. QED
      BY <2>1, <2>2, <2>3, <2>4, Zenon
  <1>. QED
    BY <1>2, <1>3, RefreshIndexRowsIs

LEMMA DroppedGoes ==
  ASSUME NEW r, NEW n, NEW key, Dropped(r, n, key)
  PROVE  Goes(r, n)
  <1>1. World(n) /\ Around(r, n) /\ DOMAIN n.rows = DOMAIN r.rows \ {key}
        /\ \A k \in DOMAIN n.rows : n.rows[k] = r.rows[k]
    BY DEF Dropped
  <1>2. n.flag = r.flag /\ n.collection = r.collection
    BY <1>1 DEF Around
  <1>3. Kept(r, n)
    BY <1>1 DEF Kept
  <1>4. AllRight(r) => AllRight(n)
    <2>. SUFFICES ASSUME AllRight(r), NEW k \in DOMAIN n.rows PROVE Right(n, n.rows[k])
      BY DEF AllRight
    <2>1. Right(r, n.rows[k])
      BY <1>1 DEF AllRight
    <2>. QED
      BY <1>2, <2>1, SameRight
  <1>. QED
    BY <1>1, <1>2, <1>3, <1>4 DEF Goes

\* A row goes.
Gone(r, n, key) ==
  /\ Goes(r, n) /\ n.error = "none" /\ n.order = Without(r.order, key)
  /\ DOMAIN n.rows = DOMAIN r.rows \ {key}
  /\ \A k \in DOMAIN n.rows : n.rows[k].values = r.rows[k].values
  /\ InStep(n)
  /\ setup.test # "index" => n.requests = r.requests
                             /\ (Strict(r) /\ Quiet(r, key) => Strict(n))
  /\ Strict(r) /\ r.requests = {} => Strict(n)

Unordered(r, key) == [r EXCEPT !.order = Without(@, key)]
LEMMA DeltaRemoveIs ==
  ASSUME setup \in Setups, NEW r, World(r), r.error = "none", NEW d,
         NEW n, n = DeltaRemove(r, d)
  PROVE  /\ Goes(r, n) /\ n.error # "MOUNTED_REGION_LIMIT_EXCEEDED"
         /\ DOMAIN n.rows = DOMAIN r.rows \/ DOMAIN n.rows = DOMAIN r.rows \ {d.key}
         /\ InStep(r) => \/ Refuses(r, n) /\ d.key \notin DOMAIN r.rows
                         \/ d.key \in DOMAIN r.rows /\ Gone(r, n, d.key)
  <1>1. PICK key : key = d.key
    OBVIOUS
  <1>2. PICK b : b = DropRow(r, d.key)
    OBVIOUS
  <1>3. PICK order : order = Without(r.order, key)
    OBVIOUS
  <1>4. PICK c : c = Unordered(b, d.key)
    OBVIOUS
  <1>5. PICK f : f = Unordered(r, d.key)
    OBVIOUS
  <1>6. PICK place \in Nat : place = Position(r, key)
    BY AtIs DEF World, Position
  <1>7. PICK keys : keys = From(c.order, Position(r, d.key), Len(c.order))
    OBVIOUS
  <1>8. n = IF ~ Contains(r.order, d.key) THEN Fails(r, "row missing")
            ELSE IF d.key \notin DOMAIN r.rows THEN Fails(f, "row missing")
            ELSE RefreshIndexRows(c, keys)
    <2>1. n = IF ~ Contains(r.order, d.key) THEN Fails(r, "row missing")
              ELSE IF d.key \notin DOMAIN r.rows
              THEN Fails(Unordered(r, d.key), "row missing")
              ELSE RefreshIndexRows(Unordered(DropRow(r, d.key), d.key),
                     From(Unordered(DropRow(r, d.key), d.key).order, Position(r, d.key),
                          Len(Unordered(DropRow(r, d.key), d.key).order)))
      BY Zenon DEF DeltaRemove, Unordered
    <2>2. c = Unordered(DropRow(r, d.key), d.key)
      BY <1>2, <1>4
    <2>. QED
      BY <1>5, <1>7, <2>1, <2>2, Zenon
  <1>9. r.order \in Seq(setup.keys)
    BY DEF World
  <1>10. /\ key \in ToSet(r.order) => 1 <= place /\ Contains(r.order, key)
         /\ key \notin ToSet(r.order) => ~ Contains(r.order, key)
    BY <1>6, <1>9, AtIs DEF Position
  <1>11. /\ order \in Seq(setup.keys) /\ ToSet(order) = ToSet(r.order) \cap (ToSet(r.order) \ {key})
         /\ IsInjective(r.order) => IsInjective(order)
         /\ \A x, y \in ToSet(r.order) \ {key} : Before(order, x, y) <=> Before(r.order, x, y)
    BY <1>3, <1>9, OnlyTells DEF Without
  <1>12. CASE key \notin ToSet(r.order)
    <2>1. n = Fails(r, "row missing")
      BY <1>1, <1>8, <1>10, <1>12, Zenon
    <2>2. Goes(r, n) /\ n.rows = r.rows /\ n.error = "row missing"
      <3>1. PICK why : why = "row missing"
        BY Zenon
      <3>2. n = Fails(r, why)
        BY <2>1, <3>1, Zenon
      <3>3. Goes(r, n) /\ n.rows = r.rows /\ n.error = why
        BY <3>2, FailsGoes
      <3>. QED
        BY <3>1, <3>3, Zenon
    <2>3. InStep(r) => key \notin DOMAIN r.rows
      BY <1>12 DEF InStep
    <2>. QED
      BY <1>1, <2>1, <2>2, <2>3, Zenon DEF Refuses
  <1>13. CASE key \in ToSet(r.order) /\ key \notin DOMAIN r.rows
    <2>1. n = Fails(f, "row missing")
      BY <1>1, <1>8, <1>10, <1>13, Zenon
    <2>2. f = [r EXCEPT !.order = order]
      BY <1>1, <1>3, <1>5 DEF World, Shaped, Unordered
    <2>3. Goes(r, f) /\ f.rows = r.rows /\ World(f)
      BY <1>11, <2>2, OrderPut DEF Goes
    <2>4. Goes(f, n) /\ n.rows = f.rows /\ n.error = "row missing"
      <3>1. PICK why : why = "row missing"
        BY Zenon
      <3>2. n = Fails(f, why)
        BY <2>1, <3>1, Zenon
      <3>3. Goes(f, n) /\ n.rows = f.rows /\ n.error = why
        BY <2>3, <3>2, FailsGoes
      <3>. QED
        BY <3>1, <3>3, Zenon
    <2>5. Goes(r, n)
      BY <2>3, <2>4, GoesFurther, Zenon
    <2>6. ~ InStep(r)
      BY <1>13 DEF InStep
    <2>. QED
      BY <2>3, <2>4, <2>5, <2>6, Zenon
  <1>14. CASE key \in ToSet(r.order) /\ key \in DOMAIN r.rows
    <2>1. n = RefreshIndexRows(c, keys)
      BY <1>1, <1>8, <1>10, <1>14
    <2>2. Dropped(r, b, key)
      BY <1>1, <1>2, <1>14, DropRowIs
    <2>3. /\ World(b) /\ Around(r, b) /\ b.requests = r.requests
          /\ DOMAIN b.rows = DOMAIN r.rows \ {key}
          /\ \A k \in DOMAIN b.rows : b.rows[k] = r.rows[k]
          /\ b.children = Without(r.children, Token(r, key))
          /\ Strict(r) /\ Quiet(r, key) => Strict(b)
      BY <2>2 DEF Dropped
    <2>4. b.order = r.order /\ b.error = "none" /\ Goes(r, b)
      BY <2>2, <2>3, DroppedGoes DEF Around
    <2>5. c = [b EXCEPT !.order = order]
      BY <1>1, <1>3, <1>4, <2>3, <2>4 DEF World, Shaped, Unordered
    <2>6. /\ Goes(b, c) /\ c.order = order /\ c.rows = b.rows /\ c.children = b.children
          /\ c.requests = b.requests /\ c.error = "none" /\ (Strict(b) => Strict(c)) /\ World(c)
      BY <1>11, <2>3, <2>4, <2>5, OrderPut DEF Goes
    <2>7. keys \in Seq(setup.keys) /\ ToSet(keys) \subseteq ToSet(order)
          /\ (IsInjective(order) => IsInjective(keys))
      <3>1. Len(order) \in Nat /\ DOMAIN order = 1 .. Len(order)
        BY <1>11, SeqFacts
      <3>2. keys = From(order, place, Len(order))
        BY <1>1, <1>6, <1>7, <2>6
      <3>3. /\ keys \in Seq(setup.keys)
            /\ \A x \in ToSet(keys) : \E i \in place .. Len(order) : order[i] = x
            /\ IsInjective(order) => IsInjective(keys)
        <4>1. PICK last \in Nat : last = Len(order)
          BY <3>1, Zenon
        <4>2. 1 <= place
          BY <1>10, <1>14
        <4>3. /\ From(order, place, last) \in Seq(setup.keys)
              /\ \A x \in ToSet(From(order, place, last)) : \E i \in place .. Len(order) : order[i] = x
              /\ IsInjective(order) => IsInjective(From(order, place, last))
          BY <1>11, <4>2, FromIs
        <4>. QED
          BY <3>2, <4>1, <4>3
      <3>4. place .. Len(order) \subseteq DOMAIN order
        BY <1>10, <1>14, <3>1
      <3>. QED
        BY <3>3, <3>4 DEF ToSet
    <2>8. /\ Goes(c, n) /\ DOMAIN n.rows = DOMAIN c.rows
          /\ n.error # "MOUNTED_REGION_LIMIT_EXCEEDED"
          /\ ToSet(keys) \subseteq DOMAIN c.rows => RefreshedUpTo(c, n, keys, DOMAIN keys)
      BY <2>1, <2>6, <2>7, RefreshGoes
    <2>9. Goes(r, n) /\ DOMAIN n.rows = DOMAIN r.rows \ {key}
      <3>1. Goes(r, c)
        BY <2>4, <2>6, GoesFurther
      <3>. QED
        BY <2>3, <2>6, <2>8, <3>1, GoesFurther
    <2>10. ASSUME InStep(r) PROVE Gone(r, n, key)
      <3>1. IsInjective(r.order) /\ ToSet(r.order) = DOMAIN r.rows
        BY <2>10 DEF InStep
      <3>2. ToSet(order) = DOMAIN c.rows
        BY <1>11, <2>3, <2>6, <3>1
      <3>3. RefreshedUpTo(c, n, keys, DOMAIN keys)
        BY <2>7, <2>8, <3>2
      <3>4. /\ Around(c, n) /\ n.children = c.children
            /\ \A k \in DOMAIN c.rows : /\ n.rows[k].generation = c.rows[k].generation
                                        /\ n.rows[k].values = c.rows[k].values
            /\ setup.test # "index" => n.requests = c.requests /\ (Strict(c) => Strict(n))
            /\ Strict(c) /\ Fresh(c, keys) => Strict(n)
        BY <3>3 DEF RefreshedUpTo
      <3>5. n.order = order /\ n.error = "none"
        BY <2>6, <3>4 DEF Around
      <3>6. InStep(c)
        <4>. SUFFICES ASSUME NEW k \in DOMAIN c.rows, NEW l \in DOMAIN c.rows, Before(order, k, l)
                      PROVE  Before(c.children, Token(c, k), Token(c, l))
          BY <1>11, <2>6, <3>1, <3>2 DEF InStep
        <4>1. k \in DOMAIN r.rows /\ l \in DOMAIN r.rows /\ k # key /\ l # key
          BY <2>3, <2>6
        <4>2. Before(r.order, k, l)
          BY <1>11, <3>1, <4>1
        <4>3. Before(r.children, Token(r, k), Token(r, l))
          BY <2>10, <4>1, <4>2 DEF InStep
        <4>4. Token(c, k) = Token(r, k) /\ Token(c, l) = Token(r, l)
          BY <2>3, <2>6 DEF Token
        <4>5. /\ Token(r, k) \in ToSet(r.children) \ {Token(r, key)}
              /\ Token(r, l) \in ToSet(r.children) \ {Token(r, key)}
          BY <1>14, <4>1 DEF World, Page, Tokens, Token
        <4>6. r.children \in Seq(setup.keys \X Nat) /\ IsInjective(r.children)
          BY DEF World, Page
        <4>7. Before(Without(r.children, Token(r, key)), Token(r, k), Token(r, l))
          BY <4>3, <4>5, <4>6, WithoutIs
        <4>. QED
          BY <2>3, <2>6, <4>4, <4>7
      <3>7. InStep(n)
        BY <2>6, <2>8, <3>4, <3>5, <3>6, StillInStep
      <3>8. \A k \in DOMAIN n.rows : n.rows[k].values = r.rows[k].values
        BY <2>3, <2>6, <2>8, <3>4
      <3>9. setup.test # "index" => n.requests = r.requests /\ (Strict(r) /\ Quiet(r, key) => Strict(n))
        BY <2>3, <2>6, <3>4
      <3>10. Strict(r) /\ r.requests = {} => Strict(n)
        <4>. SUFFICES ASSUME Strict(r), r.requests = {} PROVE Strict(n)
          OBVIOUS
        <4>1. Quiet(r, key) /\ Fresh(c, keys)
          BY <1>11, <2>3, <2>6, <2>7, <3>1 DEF Quiet, Fresh
        <4>. QED
          BY <2>3, <2>6, <3>4, <4>1
      <3>. QED
        BY <1>3, <2>9, <3>5, <3>7, <3>8, <3>9, <3>10 DEF Gone
    <2>. QED
      BY <1>1, <1>14, <2>8, <2>9, <2>10
  <1>. QED
    BY <1>12, <1>13, <1>14

\* A row comes.
Come(r, n, key, before, values) ==
  /\ Goes(r, n) /\ n.error = "none" /\ n.order = PutBefore(r.order, key, before)
  /\ DOMAIN n.rows = DOMAIN r.rows \cup {key}
  /\ n.rows[key].values = values
  /\ \A k \in DOMAIN r.rows : n.rows[k].values = r.rows[k].values
  /\ InStep(n)
  /\ setup.test # "index" => /\ \A o \in n.requests : o \in r.requests \/ o[1] = key
                             /\ Strict(r) => Strict(n)
  /\ Strict(r) /\ r.requests = {} => Strict(n)

LEMMA AddedGoes ==
  ASSUME NEW r, World(r), NEW n, NEW key, key \notin DOMAIN r.rows, NEW values, NEW anchor,
         Added(r, n, key, values, anchor)
  PROVE  Goes(r, n)
  <1>1. /\ World(n) /\ Around(r, n)
        /\ DOMAIN n.rows = DOMAIN r.rows \cup {key}
        /\ \A k \in DOMAIN r.rows : n.rows[k] = r.rows[k]
        /\ Written(r, n.rows[key], IndexOf(r, key))
    BY DEF Added
  <1>2. n.flag = r.flag /\ n.collection = r.collection
    BY <1>1 DEF Around
  <1>3. Kept(r, n)
    BY <1>1 DEF Kept
  <1>4. ASSUME SteadyRows, AllRight(r) PROVE AllRight(n)
    <2>1. NoIndex
      BY <1>4 DEF SteadyRows
    <2>2. ASSUME NEW k \in DOMAIN n.rows PROVE Right(n, n.rows[k])
      <3>1. CASE k = key
        <4>1. Right(r, n.rows[key])
          BY <1>1, <2>1, WrittenIsRight
        <4>. QED
          BY <1>2, <3>1, <4>1, SameRight
      <3>2. CASE k # key
        <4>1. Right(r, n.rows[k])
          BY <1>1, <1>4, <3>2 DEF AllRight
        <4>. QED
          BY <1>2, <4>1, SameRight
      <3>. QED
        BY <3>1, <3>2
    <2>. QED
      BY <2>2 DEF AllRight
  <1>. QED
    BY <1>1, <1>2, <1>3, <1>4 DEF Goes

LEMMA AnchorIs ==
  ASSUME setup \in Setups, NEW r, World(r), NEW before, NEW anchor, anchor = AnchorOf(r, before)
  PROVE  /\ Anchored(r.children, anchor) /\ Nowhere \notin ToSet(r.children)
         /\ r.children \in Seq(setup.keys \X Nat) /\ IsInjective(r.children)
         /\ \A k \in DOMAIN r.rows : Token(r, k) \in ToSet(r.children)
         /\ before \in DOMAIN r.rows => anchor = Token(r, before)
         /\ before \notin DOMAIN r.rows => anchor = Nowhere
         /\ Nowhere \notin DOMAIN r.rows
  <1>1. /\ r.children \in Seq(setup.keys \X Nat) /\ IsInjective(r.children)
        /\ ToSet(r.children) = Tokens(r)
    BY DEF World, Page
  <1>2. \A k \in DOMAIN r.rows : Token(r, k) # Nowhere
    BY TokenIs DEF World
  <1>3. \A k \in DOMAIN r.rows : Token(r, k) \in ToSet(r.children)
    BY <1>1 DEF Tokens
  <1>4. Nowhere \notin ToSet(r.children)
    BY <1>1, <1>2 DEF Tokens
  <1>5. Nowhere \notin DOMAIN r.rows
    BY GraphsAreTyped DEF World
  <1>. QED
    BY <1>1, <1>3, <1>4, <1>5 DEF AnchorOf, Anchored

WithOrder(r, key, before) == [r EXCEPT !.order = PutBefore(@, key, before)]
LEMMA DeltaInsertIs ==
  ASSUME setup \in Setups, NEW r, World(r), r.error = "none", NEW d, d.key \in setup.keys,
         d.changes \in AnyRow, d.changes.id = d.key,
         NEW n, n = DeltaInsert(r, d)
  PROVE  /\ Goes(r, n)
         /\ \/ DOMAIN n.rows = DOMAIN r.rows
            \/ d.key \notin DOMAIN r.rows /\ DOMAIN n.rows = DOMAIN r.rows \cup {d.key}
         /\ InStep(r) =>
              \/ n.error = "MOUNTED_REGION_LIMIT_EXCEEDED"
              \/ /\ Refuses(r, n)
                 /\ d.key \in DOMAIN r.rows \/ (d.before # Nowhere /\ d.before \notin DOMAIN r.rows)
              \/ /\ d.key \notin DOMAIN r.rows
                 /\ d.before = Nowhere \/ d.before \in DOMAIN r.rows
                 /\ Come(r, n, d.key, d.before, d.changes)
  <1>1. PICK key \in setup.keys : key = d.key
    OBVIOUS
  <1>2. PICK before : before = d.before
    OBVIOUS
  <1>3. PICK values \in AnyRow : values = d.changes /\ values.id = key
    BY <1>1
  <1>4. PICK c : c = WithOrder(r, key, before)
    OBVIOUS
  <1>5. PICK index : index = Position(c, key) - 1
    OBVIOUS
  <1>6. PICK anchor : anchor = AnchorOf(r, before)
    OBVIOUS
  <1>7. PICK b : b = InsertTypedRow(c, key, values, index, anchor)
    OBVIOUS
  <1>8. PICK keys : keys = From(b.order, index + 2, Len(b.order))
    OBVIOUS
  <1>9. n = IF key \in DOMAIN r.rows THEN Fails(r, "duplicate row key")
            ELSE IF before # Nowhere /\ ~ Contains(r.order, before)
            THEN Fails(r, "insert anchor missing")
            ELSE IF b.error # "none" THEN b
            ELSE RefreshIndexRows(b, keys)
    <2>1. n = IF d.key \in DOMAIN r.rows THEN Fails(r, "duplicate row key")
              ELSE IF d.before # Nowhere /\ ~ Contains(r.order, d.before)
              THEN Fails(r, "insert anchor missing")
              ELSE IF InsertTypedRow(WithOrder(r, d.key, d.before), d.key, d.changes,
                        Position(WithOrder(r, d.key, d.before), d.key) - 1,
                        AnchorOf(r, d.before)).error # "none"
              THEN InsertTypedRow(WithOrder(r, d.key, d.before), d.key, d.changes,
                        Position(WithOrder(r, d.key, d.before), d.key) - 1,
                        AnchorOf(r, d.before))
              ELSE RefreshIndexRows(
                     InsertTypedRow(WithOrder(r, d.key, d.before), d.key, d.changes,
                        Position(WithOrder(r, d.key, d.before), d.key) - 1, AnchorOf(r, d.before)),
                     From(InsertTypedRow(WithOrder(r, d.key, d.before), d.key, d.changes,
                            Position(WithOrder(r, d.key, d.before), d.key) - 1,
                            AnchorOf(r, d.before)).order,
                          Position(WithOrder(r, d.key, d.before), d.key) - 1 + 2,
                          Len(InsertTypedRow(WithOrder(r, d.key, d.before), d.key, d.changes,
                            Position(WithOrder(r, d.key, d.before), d.key) - 1,
                            AnchorOf(r, d.before)).order)))
      BY Zenon DEF DeltaInsert, WithOrder
    <2>2. b = InsertTypedRow(WithOrder(r, d.key, d.before), d.key, d.changes,
                Position(WithOrder(r, d.key, d.before), d.key) - 1, AnchorOf(r, d.before))
      BY <1>1, <1>2, <1>3, <1>4, <1>5, <1>6, <1>7
    <2>3. index = Position(WithOrder(r, d.key, d.before), d.key) - 1
      BY <1>1, <1>2, <1>4, <1>5
    <2>. QED
      BY <1>1, <1>2, <1>8, <2>1, <2>2, <2>3, Zenon
  <1>10. r.order \in Seq(setup.keys)
    BY DEF World
  <1>11. PICK order \in Seq(setup.keys) : order = PutBefore(r.order, key, before)
    BY <1>10, PutBeforeIs
  <1>12. key \in ToSet(order) /\ (IsInjective(r.order) /\ key \notin ToSet(r.order) =>
                                    InFront(order, r.order, key, before))
    BY <1>10, <1>11, PutBeforeIs
  <1>13. c = [r EXCEPT !.order = order]
    BY <1>4, <1>11 DEF World, Shaped, WithOrder
  <1>14. /\ Goes(r, c) /\ c.order = order /\ c.rows = r.rows /\ c.children = r.children
         /\ c.requests = r.requests /\ c.error = "none" /\ (Strict(r) => Strict(c)) /\ World(c)
    BY <1>13, OrderPut DEF Goes
  <1>15. Contains(r.order, before) <=> before \in ToSet(r.order)
    BY <1>10, AtIs
  <1>16. CASE key \in DOMAIN r.rows
    <2>1. PICK why : why = "duplicate row key"
      BY Zenon
    <2>2. n = Fails(r, why)
      BY <1>9, <1>16, <2>1, Zenon
    <2>3. Goes(r, n) /\ n.rows = r.rows /\ n.error = why
      BY <2>2, FailsGoes
    <2>. QED
      BY <1>1, <1>16, <2>1, <2>2, <2>3, Zenon DEF Refuses
  <1>17. CASE key \notin DOMAIN r.rows /\ before # Nowhere /\ before \notin ToSet(r.order)
    <2>1. PICK why : why = "insert anchor missing"
      BY Zenon
    <2>2. n = Fails(r, why)
      BY <1>9, <1>15, <1>17, <2>1, Zenon
    <2>3. Goes(r, n) /\ n.rows = r.rows /\ n.error = why
      BY <2>2, FailsGoes
    <2>4. InStep(r) => before \notin DOMAIN r.rows
      BY <1>17 DEF InStep
    <2>. QED
      BY <1>2, <1>17, <2>1, <2>2, <2>3, <2>4, Zenon DEF Refuses
  <1>18. CASE key \notin DOMAIN r.rows /\ (before = Nowhere \/ before \in ToSet(r.order))
    <2>1. n = IF b.error # "none" THEN b ELSE RefreshIndexRows(b, keys)
      BY <1>9, <1>15, <1>18, Zenon
    <2>2. /\ Anchored(r.children, anchor) /\ Nowhere \notin ToSet(r.children)
          /\ r.children \in Seq(setup.keys \X Nat) /\ IsInjective(r.children)
          /\ \A k \in DOMAIN r.rows : Token(r, k) \in ToSet(r.children)
          /\ before \in DOMAIN r.rows => anchor = Token(r, before)
          /\ before \notin DOMAIN r.rows => anchor = Nowhere
          /\ Nowhere \notin DOMAIN r.rows
      BY <1>6, AnchorIs
    <2>3. \/ b = Fails(c, "MOUNTED_REGION_LIMIT_EXCEEDED")
          \/ Added(c, b, key, values, anchor)
      BY <1>3, <1>7, <1>14, <1>18, <2>2, InsertTypedRowIs
    <2>4. CASE b = Fails(c, "MOUNTED_REGION_LIMIT_EXCEEDED")
      <3>1. PICK why : why = "MOUNTED_REGION_LIMIT_EXCEEDED"
        OBVIOUS
      <3>2. b = Fails(c, why)
        BY <2>4, <3>1
      <3>3. Goes(c, b) /\ b.rows = c.rows /\ b.error = why
        BY <1>14, <3>2, FailsGoes
      <3>4. n = b
        BY <2>1, <3>1, <3>3
      <3>5. Goes(r, n)
        BY <1>14, <3>3, <3>4, GoesFurther
      <3>. QED
        BY <1>14, <3>1, <3>3, <3>4, <3>5
    <2>5. CASE Added(c, b, key, values, anchor)
      <3>1. /\ World(b) /\ Around(c, b)
            /\ DOMAIN b.rows = DOMAIN r.rows \cup {key}
            /\ \A k \in DOMAIN r.rows : b.rows[k] = r.rows[k]
            /\ b.rows[key].values = values
            /\ Token(b, key) \in setup.keys \X Nat /\ Token(b, key) \notin Tokens(c)
            /\ b.children = InsertBefore(r.children, Token(b, key), anchor)
            /\ OtherOwners(c, b, key)
            /\ Strict(c) => Strict(b)
        BY <1>14, <2>5 DEF Added
      <3>2. b.error = "none" /\ b.order = order
        BY <1>14, <3>1 DEF Around
      <3>3. Goes(c, b)
        BY <1>14, <1>18, <2>5, AddedGoes
      <3>4. n = RefreshIndexRows(b, keys)
        BY <2>1, <3>2
      <3>5. PICK place \in Nat : place = At(order, key) /\ 1 <= place /\ order[place] = key
                                 /\ place \in DOMAIN order
        BY <1>12, AtIs, SeqFacts
      <3>6. index + 2 = place + 1
        BY <1>5, <1>14, <3>5 DEF Position
      <3>7. PICK last \in Nat : last = Len(order)
        BY SeqFacts
      <3>8. keys = From(order, place + 1, last)
        BY <1>8, <3>2, <3>6, <3>7
      <3>9. /\ keys \in Seq(setup.keys)
            /\ \A x \in ToSet(keys) : \E i \in place + 1 .. last : order[i] = x
            /\ IsInjective(order) => IsInjective(keys)
        <4>1. PICK first \in Nat : first = place + 1 /\ 1 <= first
          BY <3>5
        <4>2. /\ From(order, first, last) \in Seq(setup.keys)
              /\ \A x \in ToSet(From(order, first, last)) : \E i \in first .. Len(order) : order[i] = x
              /\ IsInjective(order) => IsInjective(From(order, first, last))
          <5>1. 1 <= first
            BY <4>1
          <5>. QED
            BY ONLY <5>1, first \in Nat, last \in Nat, order \in Seq(setup.keys), FromIs
        <4>. QED
          BY <3>7, <3>8, <4>1, <4>2
      <3>10. /\ Goes(b, n) /\ DOMAIN n.rows = DOMAIN b.rows
             /\ n.error # "MOUNTED_REGION_LIMIT_EXCEEDED"
             /\ ToSet(keys) \subseteq DOMAIN b.rows => RefreshedUpTo(b, n, keys, DOMAIN keys)
        BY <3>1, <3>2, <3>4, <3>9, RefreshGoes
      <3>11. Goes(r, n) /\ DOMAIN n.rows = DOMAIN r.rows \cup {key}
        <4>1. Goes(r, b)
          BY <1>14, <3>3, GoesFurther
        <4>. QED
          BY <3>1, <3>10, <4>1, GoesFurther
      <3>12. ASSUME InStep(r) PROVE Come(r, n, key, before, values)
        <4>1. IsInjective(r.order) /\ ToSet(r.order) = DOMAIN r.rows
          BY <3>12 DEF InStep
        <4>2. InFront(order, r.order, key, before)
          BY <1>12, <1>18, <4>1
        <4>3. IsInjective(order) /\ ToSet(order) = DOMAIN b.rows
          BY <3>1, <4>1, <4>2 DEF InFront
        <4>4. ToSet(keys) \subseteq ToSet(order) /\ key \notin ToSet(keys)
          <5>1. DOMAIN order = 1 .. last
            BY <3>7, SeqFacts
          <5>2. \A i \in place + 1 .. last : i \in DOMAIN order /\ order[i] # key
            BY <3>5, <4>3, <5>1 DEF IsInjective
          <5>. QED
            BY <3>9, <5>2 DEF ToSet
        <4>5. RefreshedUpTo(b, n, keys, DOMAIN keys)
          BY <3>10, <4>3, <4>4
        <4>6. /\ Around(b, n) /\ n.children = b.children
              /\ \A k \in DOMAIN b.rows : /\ n.rows[k].generation = b.rows[k].generation
                                          /\ n.rows[k].values = b.rows[k].values
              /\ setup.test # "index" => n.requests = b.requests /\ (Strict(b) => Strict(n))
              /\ Strict(b) /\ Fresh(b, keys) => Strict(n)
          BY <4>5 DEF RefreshedUpTo
        <4>7. n.order = order /\ n.error = "none"
          BY <3>2, <4>6 DEF Around
        <4>8. InStep(b)
          <5>1. PICK tok : tok = TokensOf(b)
            OBVIOUS
          <5>2. \A k \in DOMAIN b.rows : tok[k] = Token(b, k)
            BY <5>1 DEF TokensOf
          <5>3. \A k \in DOMAIN r.rows : tok[k] = Token(r, k) /\ tok[k] \in ToSet(r.children)
            BY <2>2, <3>1, <5>2, ZenonT(60) DEF Token
          <5>4. Follows(r.children, tok, r.order)
            BY <3>12, <4>1, <5>3 DEF InStep, Follows
          <5>5. tok[key] = Token(b, key) /\ tok[key] \notin ToSet(r.children)
            <6>1. ToSet(r.children) = Tokens(r) /\ Tokens(c) = Tokens(r)
              BY <1>14 DEF World, Page, Tokens, Token
            <6>. QED
              BY <3>1, <5>2, <6>1
          <5>6. InFront(b.children, r.children, tok[key], anchor)
            <6>1. PICK tk \in setup.keys \X Nat : tk = tok[key]
              BY <3>1, <5>5
            <6>2. InFront(InsertBefore(r.children, tk, anchor), r.children, tk, anchor)
              BY <2>2, <5>5, <6>1, InsertBeforeIs
            <6>. QED
              BY <3>1, <5>5, <6>1, <6>2
          <5>7. /\ before \in ToSet(r.order) => anchor = tok[before]
                /\ before \notin ToSet(r.order) => anchor \notin ToSet(r.children)
            BY <2>2, <4>1, <5>3
          <5>8. key \notin ToSet(r.order)
            BY <1>18, <4>1
          <5>9. Follows(b.children, tok, order)
            BY <4>1, <4>2, <5>3, <5>4, <5>6, <5>7, <5>8, FollowsFurther
          <5>. QED
            BY <3>2, <4>3, <5>1, <5>9, InStepFollows
        <4>9. InStep(n)
          BY <3>2, <3>10, <4>6, <4>7, <4>8, StillInStep
        <4>10. n.rows[key].values = values /\ \A k \in DOMAIN r.rows : n.rows[k].values = r.rows[k].values
          BY <3>1, <4>6
        <4>11. \A o \in b.requests : o \in r.requests \/ o[1] = key
          BY <1>14, <3>1 DEF OtherOwners
        <4>12. setup.test # "index" => /\ \A o \in n.requests : o \in r.requests \/ o[1] = key
                                       /\ Strict(r) => Strict(n)
          BY <1>14, <3>1, <4>6, <4>11
        <4>13. ASSUME Strict(r), r.requests = {} PROVE Strict(n)
          <5>1. Strict(b)
            BY <1>14, <3>1, <4>13
          <5>2. \A i \in DOMAIN keys : keys[i] \in ToSet(keys)
            BY DEF ToSet
          <5>3. Fresh(b, keys)
            BY <3>9, <4>3, <4>4, <4>11, <4>13, <5>2 DEF Fresh, Quiet
          <5>. QED
            BY <4>6, <5>1, <5>3
        <4>. QED
          BY <1>11, <3>11, <4>7, <4>9, <4>10, <4>12, <4>13 DEF Come
      <3>13. InStep(r) => before = Nowhere \/ before \in DOMAIN r.rows
        BY <1>18 DEF InStep
      <3>. QED
        BY <1>1, <1>2, <1>3, <1>18, <3>11, <3>12, <3>13
    <2>. QED
      BY <2>3, <2>4, <2>5
  <1>. QED
    BY <1>16, <1>17, <1>18

LEMMA AtBefore ==
  ASSUME NEW X, NEW s \in Seq(X), IsInjective(s), NEW x \in ToSet(s), NEW y \in ToSet(s)
  PROVE  Before(s, x, y) <=> At(s, x) < At(s, y)
  <1>1. PICK n \in Nat : n = Len(s) /\ DOMAIN s = 1 .. n
    BY SeqFacts
  <1>2. \A i, j \in 1 .. n : s[i] = s[j] => i = j
    BY <1>1 DEF IsInjective
  <1>3. PICK i \in 1 .. n : i = At(s, x) /\ s[i] = x
    BY <1>1, AtIs
  <1>4. PICK j \in 1 .. n : j = At(s, y) /\ s[j] = y
    BY <1>1, AtIs
  <1>. QED
    BY <1>1, <1>2, <1>3, <1>4 DEF Before

\* A row whose node stands right before another one stands before it already.
LEMMA AlreadyThere ==
  ASSUME NEW r, World(r), InStep(r), NEW key \in DOMAIN r.rows, NEW before \in DOMAIN r.rows,
         before # key, NEW here, here = At(r.children, Token(r, key)), here < Len(r.children),
         r.children[here + 1] = Token(r, before)
  PROVE  PutBefore(Without(r.order, key), key, before) = r.order
  <1>1. PICK c : c = r.children
    OBVIOUS
  <1>2. c \in Seq(setup.keys \X Nat) /\ IsInjective(c) /\ ToSet(c) = Tokens(r)
    BY <1>1 DEF World, Page
  <1>3. PICK len \in Nat : len = Len(c) /\ DOMAIN c = 1 .. len
    BY <1>2, SeqFacts
  <1>4. PICK at : at = [k \in DOMAIN r.rows |-> At(c, Token(r, k))]
    OBVIOUS
  <1>5. \A k \in DOMAIN r.rows : at[k] \in 1 .. len /\ c[at[k]] = Token(r, k)
    <2>. SUFFICES ASSUME NEW k \in DOMAIN r.rows PROVE at[k] \in 1 .. len /\ c[at[k]] = Token(r, k)
      OBVIOUS
    <2>1. Token(r, k) \in ToSet(c)
      BY <1>2 DEF Tokens
    <2>. QED
      BY <1>2, <1>3, <1>4, <2>1, AtIs
  <1>6. \A k, l \in DOMAIN r.rows : Before(c, Token(r, k), Token(r, l)) => at[k] < at[l]
    <2>. SUFFICES ASSUME NEW k \in DOMAIN r.rows, NEW l \in DOMAIN r.rows
                  PROVE  Before(c, Token(r, k), Token(r, l)) => at[k] < at[l]
      OBVIOUS
    <2>1. Token(r, k) \in ToSet(c) /\ Token(r, l) \in ToSet(c)
      BY <1>2 DEF Tokens
    <2>. QED
      BY <1>2, <1>4, <2>1, AtBefore
  <1>7. here = at[key] /\ here + 1 = at[before]
    <2>1. here = at[key]
      BY <1>1, <1>4
    <2>2. here + 1 \in DOMAIN c
      BY <1>1, <1>3, <1>5, <2>1
    <2>3. At(c, c[here + 1]) = here + 1
      BY <1>2, <2>2, AtPlace
    <2>. QED
      BY <1>1, <1>4, <2>1, <2>3
  <1>8. /\ r.order \in Seq(setup.keys) /\ IsInjective(r.order) /\ ToSet(r.order) = DOMAIN r.rows
        /\ DOMAIN r.rows \subseteq setup.keys
    BY DEF World, InStep
  <1>9. \A k, l \in DOMAIN r.rows : Before(r.order, k, l) => at[k] < at[l]
    BY <1>1, <1>6 DEF InStep
  <1>10. \A k, l \in DOMAIN r.rows : k # l /\ ~ Before(r.order, k, l) => Before(r.order, l, k)
    BY <1>8, OneBefore
  <1>11. PICK w : w = Without(r.order, key)
    OBVIOUS
  <1>12. /\ w \in Seq(setup.keys) /\ IsInjective(w) /\ ToSet(w) = DOMAIN r.rows \ {key}
         /\ \A u, v \in DOMAIN r.rows \ {key} : Before(w, u, v) <=> Before(r.order, u, v)
    BY <1>8, <1>11, WithoutIs
  <1>13. PICK t \in Seq(setup.keys) : t = PutBefore(w, key, before) /\ InFront(t, w, key, before)
    <2>1. key \in setup.keys /\ key \notin ToSet(w)
      BY <1>8, <1>12
    <2>. QED
      BY <1>12, <2>1, PutBeforeIs
  <1>14. /\ ToSet(t) = DOMAIN r.rows /\ IsInjective(t) /\ ~ Before(t, key, key)
         /\ \A u, v \in ToSet(w) : Before(t, u, v) <=> Before(w, u, v)
         /\ \A u \in ToSet(w) : /\ Before(t, u, key) <=> Before(w, u, before)
                                /\ Before(t, key, u) <=> u = before \/ Before(w, before, u)
    BY <1>12, <1>13 DEF InFront
  <1>15. ASSUME NEW x \in ToSet(t), NEW y \in ToSet(t), Before(t, x, y) PROVE Before(r.order, x, y)
    <2>1. CASE x # key /\ y # key
      BY <1>12, <1>14, <1>15, <2>1
    <2>2. CASE x # key /\ y = key
      <3>1. x \in DOMAIN r.rows /\ Before(r.order, x, before)
        BY <1>12, <1>14, <1>15, <2>2
      <3>2. at[x] < here + 1
        BY <1>7, <1>9, <3>1
      <3>3. ~ Before(r.order, key, x)
        <4>. SUFFICES ASSUME Before(r.order, key, x) PROVE FALSE
          OBVIOUS
        <4>1. here < at[x]
          BY <1>7, <1>9, <3>1
        <4>2. here \in Nat /\ at[x] \in Nat
          BY <1>5, <1>7, <3>1
        <4>. QED
          BY <3>2, <4>1, <4>2
      <3>. QED
        BY <1>10, <2>2, <3>1, <3>3
    <2>3. CASE x = key /\ y # key
      <3>1. y \in DOMAIN r.rows /\ (y = before \/ Before(r.order, before, y))
        BY <1>12, <1>14, <1>15, <2>3
      <3>2. at[y] = here + 1 \/ here + 1 < at[y]
        BY <1>7, <1>9, <3>1
      <3>3. ~ Before(r.order, y, key)
        <4>. SUFFICES ASSUME Before(r.order, y, key) PROVE FALSE
          OBVIOUS
        <4>1. at[y] < here
          BY <1>7, <1>9, <3>1
        <4>2. here \in Nat /\ at[y] \in Nat
          BY <1>5, <1>7, <3>1
        <4>. QED
          BY <3>2, <4>1, <4>2
      <3>. QED
        BY <1>10, <2>3, <3>1, <3>3
    <2>4. CASE x = key /\ y = key
      BY <1>14, <1>15, <2>4
    <2>. QED
      BY <2>1, <2>2, <2>3, <2>4
  <1>16. t = r.order
    BY <1>8, <1>13, <1>14, <1>15, SameOrder
  <1>. QED
    BY <1>11, <1>13, <1>16

\* A row has another place.
Moved(r, n, key, before) ==
  /\ Goes(r, n) /\ n.error = "none"
  /\ n.order = IF before = key THEN r.order ELSE PutBefore(Without(r.order, key), key, before)
  /\ DOMAIN n.rows = DOMAIN r.rows
  /\ \A k \in DOMAIN r.rows : n.rows[k].values = r.rows[k].values
  /\ InStep(n)
  /\ setup.test # "index" => n.requests = r.requests /\ (Strict(r) => Strict(n))
  /\ Strict(r) /\ r.requests = {} => Strict(n)

\* The node and the key are put before another one.
MoveBefore(r, key, before) ==
  [RelocateTypedRow(r, key, AnchorOf(r, before)) EXCEPT
     !.order = PutBefore(Without(@, key), key, before), !.moves = @ + 1]
Relaid(r, n, key, before) ==
  /\ Goes(r, n) /\ World(n) /\ n.error = r.error /\ n.rows = r.rows /\ n.requests = r.requests
  /\ n.order = PutBefore(Without(r.order, key), key, before) /\ key \in ToSet(n.order)
  /\ Strict(r) => Strict(n)
  /\ InStep(r) => InStep(n)
LEMMA MoveBeforeIs ==
  ASSUME setup \in Setups, NEW r, World(r), NEW key \in DOMAIN r.rows, NEW before, before # key,
         NEW n, n = MoveBefore(r, key, before)
  PROVE  Relaid(r, n, key, before)
  <1>1. PICK anchor : anchor = AnchorOf(r, before)
    OBVIOUS
  <1>2. /\ Anchored(r.children, anchor) /\ Nowhere \notin ToSet(r.children)
        /\ r.children \in Seq(setup.keys \X Nat) /\ IsInjective(r.children)
        /\ \A k \in DOMAIN r.rows : Token(r, k) \in ToSet(r.children)
        /\ before \in DOMAIN r.rows => anchor = Token(r, before)
        /\ before \notin DOMAIN r.rows => anchor = Nowhere
    BY <1>1, AnchorIs
  <1>3. /\ DOMAIN r.rows \subseteq setup.keys /\ r.order \in Seq(setup.keys)
        /\ \A k \in DOMAIN r.rows : Token(r, k)[1] = k /\ Token(r, k) # Nowhere
    BY TokenIs DEF World
  <1>4. anchor # Token(r, key)
    BY <1>2, <1>3
  <1>5. PICK b : b = RelocateTypedRow(r, key, anchor)
    OBVIOUS
  <1>6. Relocated(r, b, key, anchor)
    BY <1>2, <1>4, <1>5, RelocateIs
  <1>7. /\ World(b) /\ Around(r, b) /\ b.requests = r.requests /\ b.rows = r.rows
        /\ b.children = InsertBefore(Without(r.children, Token(r, key)), Token(r, key), anchor)
        /\ Strict(r) => Strict(b)
    BY <1>6 DEF Relocated
  <1>8. b.order = r.order /\ b.flag = r.flag /\ b.collection = r.collection /\ b.error = r.error
    BY <1>7 DEF Around
  <1>9. PICK w \in Seq(setup.keys) : w = Without(r.order, key)
    BY <1>3, OnlyTells DEF Without
  <1>10. PICK order \in Seq(setup.keys) : order = PutBefore(w, key, before) /\ key \in ToSet(order)
    BY <1>3, PutBeforeIs
  <1>11. n = [b EXCEPT !.order = PutBefore(Without(@, key), key, before), !.moves = @ + 1]
    BY <1>1, <1>5 DEF MoveBefore
  <1>12. Shaped(b)
    BY <1>7 DEF World
  <1>13. n = [order |-> PutBefore(Without(b.order, key), key, before), rows |-> b.rows,
       children |-> b.children, flag |-> b.flag,
       collection |-> b.collection, live |-> b.live, budget |-> b.budget,
       listeners |-> b.listeners, requests |-> b.requests, taken |-> b.taken,
       moves |-> b.moves + 1, error |-> b.error]
    BY ONLY <1>11, <1>12 DEF Shaped
  <1>14. /\ Shaped(n) /\ n.order = order /\ n.rows = b.rows /\ n.children = b.children
         /\ n.flag = b.flag /\ n.collection = b.collection /\ n.listeners = b.listeners
         /\ n.requests = b.requests /\ n.taken = b.taken /\ n.error = b.error
    BY <1>8, <1>9, <1>10, <1>13 DEF Shaped
  <1>15. World(n) /\ (Strict(b) => Strict(n)) /\ \A k : Token(n, k) = Token(b, k)
    BY <1>7, <1>14, SameWorld
  <1>16. Goes(r, n)
    <2>1. n.flag = r.flag /\ n.collection = r.collection /\ n.rows = r.rows
      BY <1>7, <1>8, <1>14
    <2>2. Kept(r, n)
      BY <2>1 DEF Kept
    <2>3. AllRight(r) => AllRight(n)
      BY <2>1, SameRight DEF AllRight
    <2>. QED
      BY <1>15, <2>1, <2>2, <2>3 DEF Goes
  <1>17. ASSUME InStep(r) PROVE InStep(n)
    <2>1. IsInjective(r.order) /\ ToSet(r.order) = DOMAIN r.rows
      BY <1>17 DEF InStep
    <2>2. /\ IsInjective(w) /\ ToSet(w) = DOMAIN r.rows \ {key}
          /\ \A u, v \in DOMAIN r.rows \ {key} : Before(w, u, v) <=> Before(r.order, u, v)
      BY <1>3, <1>9, <2>1, WithoutIs
    <2>3. key \in setup.keys /\ key \notin ToSet(w)
      BY <1>3, <2>2
    <2>4. InFront(order, w, key, before)
      BY <1>10, <2>2, <2>3, PutBeforeIs
    <2>5. PICK tok : tok = TokensOf(n)
      OBVIOUS
    <2>6. \A k \in DOMAIN r.rows : tok[k] = Token(r, k)
      BY <1>7, <1>14, <2>5 DEF TokensOf, Token
    <2>7. PICK tk \in setup.keys \X Nat : tk = Token(r, key)
      BY <1>3, TokenIs DEF World
    <2>8. PICK v : v = Without(r.children, tk)
      OBVIOUS
    <2>9. /\ v \in Seq(setup.keys \X Nat) /\ IsInjective(v) /\ ToSet(v) = ToSet(r.children) \ {tk}
          /\ \A x, y \in ToSet(r.children) \ {tk} : Before(v, x, y) <=> Before(r.children, x, y)
      BY <1>2, <2>8, WithoutIs
    <2>10. \A k \in DOMAIN r.rows \ {key} : tok[k] \in ToSet(v)
      BY <1>2, <1>3, <2>6, <2>7, <2>9
    <2>11. Follows(v, tok, w)
      <3>. SUFFICES ASSUME NEW k \in ToSet(w), NEW l \in ToSet(w), Before(w, k, l)
                    PROVE  Before(v, tok[k], tok[l])
        BY DEF Follows
      <3>1. Before(r.children, Token(r, k), Token(r, l))
        BY <1>17, <2>1, <2>2 DEF InStep
      <3>. QED
        BY <2>2, <2>6, <2>9, <2>10, <3>1
    <2>12. InFront(n.children, v, tok[key], anchor)
      <3>1. Anchored(v, anchor) /\ Nowhere \notin ToSet(v) /\ tk \notin ToSet(v)
        BY <1>2, <1>4, <2>7, <2>9 DEF Anchored
      <3>2. InFront(InsertBefore(v, tk, anchor), v, tk, anchor)
        BY <2>9, <3>1, InsertBeforeIs
      <3>3. n.children = InsertBefore(v, tk, anchor) /\ tok[key] = tk
        BY <1>7, <1>14, <2>6, <2>7, <2>8
      <3>. QED
        BY <3>2, <3>3
    <2>13. /\ before \in ToSet(w) => anchor = tok[before]
           /\ before \notin ToSet(w) => anchor \notin ToSet(v)
      BY <1>2, <2>2, <2>6, <2>9
    <2>14. Follows(n.children, tok, order)
      BY <2>2, <2>3, <2>4, <2>10, <2>11, <2>12, <2>13, FollowsFurther
    <2>15. IsInjective(order) /\ ToSet(order) = DOMAIN n.rows
      BY <1>7, <1>14, <2>2, <2>4 DEF InFront
    <2>. QED
      BY <1>14, <2>5, <2>14, <2>15, InStepFollows
  <1>. QED
    BY <1>7, <1>8, <1>9, <1>10, <1>14, <1>15, <1>16, <1>17 DEF Relaid

\* A row that stands where it should stays.
MovedOn(r, key, before) ==
  IF before = key
     \/ (AnchorOf(r, before) # Nowhere
         /\ At(r.children, Token(r, key)) < Len(r.children)
         /\ r.children[At(r.children, Token(r, key)) + 1] = AnchorOf(r, before))
  THEN r ELSE MoveBefore(r, key, before)

LEMMA DeltaMoveIs ==
  ASSUME setup \in Setups, NEW r, World(r), r.error = "none", NEW d,
         NEW n, n = DeltaMove(r, d)
  PROVE  /\ Goes(r, n) /\ DOMAIN n.rows = DOMAIN r.rows
         /\ n.error # "MOUNTED_REGION_LIMIT_EXCEEDED"
         /\ InStep(r) => \/ Refuses(r, n) /\ d.key \notin DOMAIN r.rows
                         \/ d.key \in DOMAIN r.rows /\ Moved(r, n, d.key, d.before)
  <1>1. PICK key : key = d.key
    OBVIOUS
  <1>2. PICK before : before = d.before
    OBVIOUS
  <1>3. PICK anchor : anchor = AnchorOf(r, before)
    OBVIOUS
  <1>4. PICK here : here = At(r.children, Token(r, key))
    OBVIOUS
  <1>5. PICK c : c = IF before = key
                        \/ (anchor # Nowhere /\ here < Len(r.children)
                            /\ r.children[here + 1] = anchor)
                     THEN r ELSE MoveBefore(r, key, before)
    OBVIOUS
  <1>6. PICK ends : ends = {Position(r, key), Position(c, key)}
    OBVIOUS
  <1>7. n = IF ~ Contains(r.order, key) \/ key \notin DOMAIN r.rows
            THEN Fails(r, "row missing")
            ELSE RefreshIndexRows(c, From(c.order, Min(ends), Max(ends)))
    <2>1. n = IF ~ Contains(r.order, d.key) \/ d.key \notin DOMAIN r.rows
              THEN Fails(r, "row missing")
              ELSE RefreshIndexRows(MovedOn(r, d.key, d.before),
                     From(MovedOn(r, d.key, d.before).order,
                          Min({Position(r, d.key), Position(MovedOn(r, d.key, d.before), d.key)}),
                          Max({Position(r, d.key), Position(MovedOn(r, d.key, d.before), d.key)})))
      BY Zenon DEF DeltaMove, MovedOn, MoveBefore
    <2>2. c = MovedOn(r, d.key, d.before)
      BY <1>1, <1>2, <1>3, <1>4, <1>5 DEF MovedOn
    <2>. QED
      BY <1>1, <1>6, <2>1, <2>2, Zenon
  <1>8. r.order \in Seq(setup.keys)
    BY DEF World
  <1>9. Contains(r.order, key) <=> key \in ToSet(r.order)
    BY <1>8, AtIs
  <1>10. CASE key \notin ToSet(r.order) \/ key \notin DOMAIN r.rows
    <2>1. PICK why : why = "row missing"
      BY Zenon
    <2>2. n = Fails(r, why)
      BY <1>7, <1>9, <1>10, <2>1, Zenon
    <2>3. Goes(r, n) /\ n.rows = r.rows /\ n.error = why
      BY <2>2, FailsGoes
    <2>4. InStep(r) => key \notin DOMAIN r.rows
      BY <1>10 DEF InStep
    <2>. QED
      BY <1>1, <2>1, <2>2, <2>3, <2>4, Zenon DEF Refuses
  <1>11. CASE key \in ToSet(r.order) /\ key \in DOMAIN r.rows
    <2>1. /\ Goes(r, c) /\ World(c) /\ c.error = "none" /\ c.rows = r.rows /\ c.requests = r.requests
          /\ key \in ToSet(c.order) /\ (Strict(r) => Strict(c))
          /\ InStep(r) => /\ InStep(c)
                          /\ c.order = IF before = key THEN r.order
                                       ELSE PutBefore(Without(r.order, key), key, before)
      <3>1. CASE before = key
        <4>1. c = r
          BY <1>5, <3>1
        <4>2. Goes(r, r)
          BY DEF Goes, Kept
        <4>. QED
          BY <1>11, <3>1, <4>1, <4>2
      <3>2. CASE /\ before # key /\ anchor # Nowhere /\ here < Len(r.children)
                 /\ r.children[here + 1] = anchor
        <4>1. c = r
          BY <1>5, <3>2
        <4>2. Goes(r, r)
          BY DEF Goes, Kept
        <4>3. before \in DOMAIN r.rows /\ anchor = Token(r, before)
          BY <1>3, <3>2, AnchorIs
        <4>4. InStep(r) => r.order = PutBefore(Without(r.order, key), key, before)
          BY <1>4, <1>11, <3>2, <4>3, AlreadyThere
        <4>. QED
          BY <1>11, <3>2, <4>1, <4>2, <4>4
      <3>3. CASE before # key /\ ~ (/\ anchor # Nowhere /\ here < Len(r.children)
                                    /\ r.children[here + 1] = anchor)
        <4>1. c = MoveBefore(r, key, before)
          BY <1>5, <3>3
        <4>2. Relaid(r, c, key, before)
          BY <1>11, <3>3, <4>1, MoveBeforeIs
        <4>. QED
          BY <3>3, <4>2 DEF Relaid
      <3>. QED
        BY <3>1, <3>2, <3>3
    <2>2. PICK order \in Seq(setup.keys) : order = c.order
      BY <2>1 DEF World
    <2>3. PICK p \in Nat : p = Position(r, key) /\ 1 <= p
      BY <1>8, <1>11, AtIs DEF Position
    <2>4. PICK q \in Nat : q = Position(c, key) /\ 1 <= q
      BY <2>1, <2>2, AtIs DEF Position
    <2>5. PICK first \in Nat : first = Min(ends) /\ 1 <= first
      <3>1. {p, q} \in SUBSET Nat /\ {p, q} # {} /\ ends = {p, q}
        BY <1>6, <2>3, <2>4
      <3>2. Min({p, q}) \in {p, q}
        BY <3>1, MinIs
      <3>. QED
        BY <2>3, <2>4, <3>1, <3>2
    <2>6. PICK last \in Nat : last = Max(ends)
      <3>1. p + q \in Nat /\ {p, q} \in SUBSET (0 .. p + q) /\ {p, q} # {} /\ ends = {p, q}
        BY <1>6, <2>3, <2>4
      <3>2. Max({p, q}) \in {p, q}
        BY <3>1, MaxIs
      <3>. QED
        BY <2>3, <2>4, <3>1, <3>2
    <2>7. PICK keys : keys = From(order, first, last)
      OBVIOUS
    <2>8. n = RefreshIndexRows(c, keys)
      BY <1>7, <1>9, <1>11, <2>2, <2>5, <2>6, <2>7, Zenon
    <2>9. /\ keys \in Seq(setup.keys) /\ ToSet(keys) \subseteq ToSet(order)
          /\ IsInjective(order) => IsInjective(keys)
      <3>1. 1 <= first
        BY <2>5
      <3>2. /\ From(order, first, last) \in Seq(setup.keys)
            /\ \A x \in ToSet(From(order, first, last)) : \E i \in first .. Len(order) : order[i] = x
            /\ IsInjective(order) => IsInjective(From(order, first, last))
        BY ONLY <3>1, first \in Nat, last \in Nat, order \in Seq(setup.keys), FromIs
      <3>3. first .. Len(order) \subseteq DOMAIN order
        BY <3>1, SeqFacts
      <3>. QED
        BY <2>7, <3>2, <3>3 DEF ToSet
    <2>10. /\ Goes(c, n) /\ DOMAIN n.rows = DOMAIN c.rows
           /\ n.error # "MOUNTED_REGION_LIMIT_EXCEEDED"
           /\ ToSet(keys) \subseteq DOMAIN c.rows => RefreshedUpTo(c, n, keys, DOMAIN keys)
      BY <2>1, <2>8, <2>9, RefreshGoes
    <2>11. Goes(r, n)
      BY <2>1, <2>10, GoesFurther
    <2>12. ASSUME InStep(r) PROVE Moved(r, n, key, before)
      <3>1. InStep(c)
        BY <2>1, <2>12
      <3>2. IsInjective(order) /\ ToSet(order) = DOMAIN c.rows
        BY <2>2, <3>1 DEF InStep
      <3>3. RefreshedUpTo(c, n, keys, DOMAIN keys)
        BY <2>9, <2>10, <3>2
      <3>4. /\ Around(c, n) /\ n.children = c.children
            /\ \A k \in DOMAIN c.rows : /\ n.rows[k].generation = c.rows[k].generation
                                        /\ n.rows[k].values = c.rows[k].values
            /\ setup.test # "index" => n.requests = c.requests /\ (Strict(c) => Strict(n))
            /\ Strict(c) /\ Fresh(c, keys) => Strict(n)
        BY <3>3 DEF RefreshedUpTo
      <3>5. n.order = order /\ n.error = "none"
        BY <2>1, <2>2, <3>4 DEF Around
      <3>6. InStep(n)
        BY <2>2, <2>10, <3>1, <3>4, <3>5, StillInStep
      <3>7. Strict(r) /\ r.requests = {} => Strict(n)
        <4>. SUFFICES ASSUME Strict(r), r.requests = {} PROVE Strict(n)
          OBVIOUS
        <4>1. Fresh(c, keys)
          BY <2>1, <2>9, <3>2 DEF Fresh, Quiet
        <4>. QED
          BY <2>1, <3>4, <4>1
      <3>8. n.order = IF before = key THEN r.order ELSE PutBefore(Without(r.order, key), key, before)
        BY <2>1, <2>2, <2>12, <3>5
      <3>9. \A k \in DOMAIN r.rows : n.rows[k].values = r.rows[k].values
        BY <2>1, <3>4
      <3>10. setup.test # "index" => n.requests = r.requests /\ (Strict(r) => Strict(n))
        BY <2>1, <3>4
      <3>. QED
        BY <2>1, <2>10, <2>11, <3>5, <3>6, <3>7, <3>8, <3>9, <3>10 DEF Moved
    <2>. QED
      BY <1>1, <1>2, <1>11, <2>1, <2>10, <2>11, <2>12
  <1>. QED
    BY <1>10, <1>11

=============================================================================
