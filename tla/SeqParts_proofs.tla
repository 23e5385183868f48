---------------------------- MODULE SeqParts_proofs ----------------------------
(***************************************************************************)
(* Lemmas about SeqParts, for sequences of any length: what filters, sorts *)
(* and sums give, keep and bound.  A recursive function exists             *)
(* (Recursion), and what holds of its values is shown item by item (UpTo); *)
(* both rest on the order of the numbers being well-founded, since the     *)
(* induction theorems of the library take an operator.                     *)
(***************************************************************************)
EXTENDS SeqParts, TLAPS, WellFoundedInduction, FiniteSetTheorems

-----------------------------------------------------------------------------
(* Induction and recursion over 0..m.                                      *)

\* Induction on the numbers, for a set instead of a predicate.
LEMMA SetInduction ==
  ASSUME NEW S, 0 \in S, \A n \in Nat : n \in S => n + 1 \in S
  PROVE  Nat \subseteq S
<1> DEFINE T == {n \in Nat : n \notin S}
           Less == {ss \in Nat \X Nat : ss[1] < ss[2]}
<1> SUFFICES ASSUME T # {} PROVE FALSE
  OBVIOUS
<1>1. IsWellFoundedOn(Less, Nat)
  BY NatLessThanWellFounded, Zenon DEF OpToRel
<1> HIDE DEF Less
<1>2. T \subseteq Nat
  OBVIOUS
<1>3. PICK x \in T : \A y \in T : ~(<<y, x>> \in Less)
  BY <1>1, <1>2, WFMin
<1>4. \A y \in T : ~(y < x)
  BY <1>3 DEF Less
<1>5. x - 1 \in Nat /\ x - 1 \in S
  BY <1>4
<1> QED
  BY <1>5

\* The same up to m.
LEMMA UpTo ==
  ASSUME NEW m \in Nat, NEW S, 0 \in S, \A n \in 1..m : n - 1 \in S => n \in S
  PROVE  0..m \subseteq S
<1> DEFINE T == {n \in Nat : n <= m => n \in S}
<1>1. 0 \in T
  OBVIOUS
<1>2. ASSUME NEW n \in Nat, n \in T PROVE n + 1 \in T
  <2> SUFFICES ASSUME n + 1 <= m PROVE n + 1 \in S
    OBVIOUS
  <2>1. n \in S /\ n + 1 \in 1..m /\ (n + 1) - 1 = n
    BY <1>2
  <2> QED
    BY <2>1
<1> HIDE DEF T
<1>3. Nat \subseteq T
  BY <1>1, <1>2, SetInduction
<1> QED
  BY <1>3 DEF T

\* f is the function over 0..m that begins with base and goes on by step.
Runs(f, m, base, step) ==
  f = [n \in 0..m |-> IF n = 0 THEN base ELSE step[n][f[n - 1]]]

Steps(m, A) == [1..m -> [A -> A]]

\* There is such a function, and its values are in A.
LEMMA Recursion ==
  ASSUME NEW m \in Nat, NEW A, NEW base \in A, NEW step \in Steps(m, A)
  PROVE  \E f : Runs(f, m, base, step)
<1> DEFINE Is(f, l) == f[0] = base /\ \A n \in 1..l : f[n] = step[n][f[n - 1]]
           T == {l \in 0..m : \E f \in [0..l -> A] : Is(f, l)}
<1>1. 0 \in T
  <2> DEFINE g == [n \in 0..0 |-> base]
  <2>1. g \in [0..0 -> A] /\ Is(g, 0) /\ 0 \in 0..m
    OBVIOUS
  <2> QED
    BY <2>1
<1>2. ASSUME NEW n \in 1..m, n - 1 \in T PROVE n \in T
  <2>1. PICK f \in [0..n - 1 -> A] : Is(f, n - 1)
    BY <1>2
  <2> DEFINE g == [l \in 0..n |-> IF l = n THEN step[n][f[n - 1]] ELSE f[l]]
  <2>2. f[n - 1] \in A /\ step[n] \in [A -> A]
    BY DEF Steps
  <2>3. g \in [0..n -> A]
    BY <2>2
  <2>4. g[0] = base
    BY <2>1
  <2>5. ASSUME NEW l \in 1..n PROVE g[l] = step[l][g[l - 1]]
    <3>1. CASE l = n
      BY <3>1
    <3>2. CASE l # n
      BY <3>2, <2>1
    <3> QED
      BY <3>1, <3>2
  <2> HIDE DEF g
  <2>6. Is(g, n) /\ n \in 0..m
    BY <2>4, <2>5
  <2> QED
    BY <2>3, <2>6
<1> HIDE DEF T
<1>3. \A n \in 1..m : n - 1 \in T => n \in T
  BY <1>2
<1>4. 0..m \subseteq T
  BY <1>1, <1>3, UpTo
<1>5. m \in T
  BY <1>4
<1>6. PICK f \in [0..m -> A] : Is(f, m)
  BY <1>5 DEF T
<1>7. f = [n \in 0..m |-> IF n = 0 THEN base ELSE step[n][f[n - 1]]]
  BY <1>6
<1> QED
  BY <1>7 DEF Runs

\* What a step keeps in A stays in A.
LEMMA RunsIn ==
  ASSUME NEW m \in Nat, NEW A, NEW base \in A, NEW step \in Steps(m, A),
         NEW f, Runs(f, m, base, step)
  PROVE  \A n \in 0..m : f[n] \in A
<1> DEFINE S == {n \in 0..m : f[n] \in A}
<1>1. f[0] = base /\ \A n \in 1..m : f[n] = step[n][f[n - 1]]
  BY DEF Runs
<1>2. 0 \in S
  BY <1>1
<1>3. ASSUME NEW n \in 1..m, n - 1 \in S PROVE n \in S
  <2>1. f[n - 1] \in A /\ step[n] \in [A -> A] /\ n \in 0..m
    BY <1>3 DEF Steps
  <2>2. f[n] = step[n][f[n - 1]]
    BY <1>1
  <2> QED
    BY <2>1, <2>2
<1> HIDE DEF S
<1>4. \A n \in 1..m : n - 1 \in S => n \in S
  BY <1>3
<1>5. 0..m \subseteq S
  BY <1>2, <1>4, UpTo
<1> QED
  BY <1>5 DEF S

\* A set of numbers has a least one.
LEMMA Least ==
  ASSUME NEW Z, Z \subseteq Nat, NEW n \in Z
  PROVE  \E i \in Z : \A k \in Z : i <= k
<1> DEFINE Less == {ss \in Nat \X Nat : ss[1] < ss[2]}
<1>1. IsWellFoundedOn(Less, Nat)
  BY NatLessThanWellFounded, Zenon DEF OpToRel
<1> HIDE DEF Less
<1>2. PICK i \in Z : \A k \in Z : ~(<<k, i>> \in Less)
  BY <1>1, WFMin
<1>3. \A k \in Z : ~(k < i)
  BY <1>2 DEF Less
<1> QED
  BY <1>3

-----------------------------------------------------------------------------
\* The items at the positions is, up to every n.
ThoseRun(f, A, s, is) ==
  /\ Those(s, is) = f[Len(s)]
  /\ \A n \in 0..Len(s) : f[n] \in Seq(A)
  /\ f[0] = <<>>
  /\ \A n \in 1..Len(s) : f[n] = IF n \in is THEN Append(f[n - 1], s[n]) ELSE f[n - 1]

ThoseStep(A, s, is) ==
  [n \in 1..Len(s) |-> [t \in Seq(A) |-> IF n \in is THEN Append(t, s[n]) ELSE t]]

\* A filter is its run over the items.
LEMMA ThoseSteps ==
  ASSUME NEW A, NEW s \in Seq(A), NEW is
  PROVE  \E f : ThoseRun(f, A, s, is)
<1> DEFINE Body(f) == [n \in 0..Len(s) |-> IF n = 0 THEN <<>>
                         ELSE IF n \in is THEN Append(f[n - 1], s[n]) ELSE f[n - 1]]
           those == CHOOSE f : f = Body(f)
<1>1. /\ Len(s) \in Nat /\ <<>> \in Seq(A)
      /\ ThoseStep(A, s, is) \in Steps(Len(s), Seq(A))
  BY DEF ThoseStep, Steps
<1>2. PICK f : Runs(f, Len(s), <<>>, ThoseStep(A, s, is))
  BY <1>1, Recursion
<1>3. \A n \in 0..Len(s) : f[n] \in Seq(A)
  BY <1>1, <1>2, RunsIn
<1>4. /\ f[0] = <<>> /\ \A n \in 1..Len(s) : f[n] = ThoseStep(A, s, is)[n][f[n - 1]]
      /\ f = [n \in 0..Len(s) |-> f[n]]
  BY <1>2 DEF Runs
<1>5. ASSUME NEW n \in 1..Len(s)
      PROVE  f[n] = IF n \in is THEN Append(f[n - 1], s[n]) ELSE f[n - 1]
  <2>1. f[n - 1] \in Seq(A)
    BY <1>3
  <2> QED
    BY <1>4, <2>1 DEF ThoseStep
<1>6. f = Body(f)
  BY <1>4, <1>5
<1>7. those = Body(those)
  <2> HIDE DEF Body
  <2> QED
    BY <1>6
<1>8. Those(s, is) = those[Len(s)]
  BY DEF Those
<1>9. PICK g : g = those
  OBVIOUS
<1> HIDE DEF those
<1>10. g = Body(g)
  BY <1>7, <1>9
<1>a. g[0] = <<>>
  <2>1. 0 \in 0..Len(s)
    BY <1>1
  <2> QED
    BY <1>10, <2>1
<1>b. ASSUME NEW n \in 1..Len(s)
      PROVE  g[n] = IF n \in is THEN Append(g[n - 1], s[n]) ELSE g[n - 1]
  <2>1. n \in 0..Len(s) /\ n # 0
    BY <1>1
  <2> QED
    BY <1>10, <2>1
<1>11. /\ g[0] = <<>>
       /\ \A n \in 1..Len(s) : g[n] = IF n \in is THEN Append(g[n - 1], s[n]) ELSE g[n - 1]
  BY <1>a, <1>b
<1> DEFINE S == {n \in 0..Len(s) : g[n] \in Seq(A)}
<1>c. ASSUME NEW n \in 1..Len(s), n - 1 \in S PROVE n \in S
  <2>1. g[n - 1] \in Seq(A) /\ s[n] \in A /\ n \in 0..Len(s)
    BY <1>c
  <2>2. Append(g[n - 1], s[n]) \in Seq(A)
    BY <2>1
  <2>3. g[n] \in Seq(A)
    BY <1>b, <2>1, <2>2
  <2> QED
    BY <2>1, <2>3
<1>d. 0 \in S
  <2>1. 0 \in 0..Len(s) /\ g[0] \in Seq(A)
    BY <1>1, <1>a
  <2> QED
    BY <2>1
<1>12. 0 \in S /\ \A n \in 1..Len(s) : n - 1 \in S => n \in S
  <2> HIDE DEF S
  <2> QED
    BY <1>c, <1>d
<1>13. 0..Len(s) \subseteq S
  <2> HIDE DEF S
  <2> QED
    BY <1>1, <1>12, UpTo
<1> QED
  BY <1>8, <1>9, <1>11, <1>13 DEF ThoseRun

\* t has the items of s at these positions, and no other.
ArePart(t, s, is) ==
  /\ \A k \in 1..Len(t) : \E i \in is \cap (1..Len(s)) : t[k] = s[i]
  /\ \A i \in is \cap (1..Len(s)) : \E k \in 1..Len(t) : t[k] = s[i]

\* A filter keeps the items at the positions, and no other.
LEMMA ThoseAre ==
  ASSUME NEW A, NEW s \in Seq(A), NEW is
  PROVE  Those(s, is) \in Seq(A) /\ ArePart(Those(s, is), s, is)
<1>1. PICK f : ThoseRun(f, A, s, is)
  BY ThoseSteps
<1> DEFINE From(n) == \A k \in 1..Len(f[n]) : \E i \in is \cap (1..n) : f[n][k] = s[i]
           All(n) == \A i \in is \cap (1..n) : \E k \in 1..Len(f[n]) : f[n][k] = s[i]
           S == {n \in 0..Len(s) : From(n) /\ All(n)}
<1>2. 0 \in S
  BY <1>1 DEF ThoseRun
<1>3. ASSUME NEW n \in 1..Len(s), n - 1 \in S PROVE n \in S
  <2>0. PICK a, b : a = f[n - 1] /\ b = f[n]
    OBVIOUS
  <2>1. /\ a \in Seq(A) /\ s[n] \in A /\ n \in 0..Len(s)
        /\ \A k \in 1..Len(a) : \E i \in is \cap (1..n - 1) : a[k] = s[i]
        /\ \A i \in is \cap (1..n - 1) : \E k \in 1..Len(a) : a[k] = s[i]
        /\ b = IF n \in is THEN Append(a, s[n]) ELSE a
    BY <1>1, <1>3, <2>0 DEF ThoseRun
  <2>2. CASE n \in is
    <3>3. /\ b = Append(a, s[n])
          /\ Len(b) = Len(a) + 1 /\ b[Len(a) + 1] = s[n]
          /\ \A k \in 1..Len(a) : b[k] = a[k]
      BY <2>1, <2>2
    <3>4. From(n)
      <4> SUFFICES ASSUME NEW k \in 1..Len(b) PROVE \E i \in is \cap (1..n) : b[k] = s[i]
        BY <2>0
      <4>1. CASE k \in 1..Len(a)
        BY <2>1, <3>3, <4>1
      <4>2. CASE k = Len(a) + 1
        BY <2>2, <3>3, <4>2
      <4> QED
        BY <2>1, <3>3, <4>1, <4>2
    <3>5. All(n)
      <4> SUFFICES ASSUME NEW i \in is \cap (1..n) PROVE \E k \in 1..Len(b) : b[k] = s[i]
        BY <2>0
      <4>1. CASE i = n
        <5>1. Len(a) + 1 \in 1..Len(b) /\ b[Len(a) + 1] = s[i]
          BY <2>1, <3>3, <4>1
        <5> QED
          BY <5>1
      <4>2. CASE i # n
        <5>1. PICK k \in 1..Len(a) : a[k] = s[i]
          BY <2>1, <4>2
        <5>2. k \in 1..Len(b) /\ b[k] = s[i]
          BY <2>1, <3>3, <5>1
        <5> QED
          BY <5>2
      <4> QED
        BY <4>1, <4>2
    <3> QED
      BY <2>1, <3>4, <3>5
  <2>3. CASE n \notin is
    <3>1. b = a
      BY <2>1, <2>3
    <3>2. is \cap (1..n) = is \cap (1..n - 1)
      BY <2>3
    <3>3. From(n) /\ All(n)
      BY <2>0, <2>1, <3>1, <3>2
    <3> QED
      BY <2>1, <3>3
  <2> QED
    BY <2>2, <2>3
<1>4. 0..Len(s) \subseteq S
  <2> HIDE DEF S
  <2>1. \A n \in 1..Len(s) : n - 1 \in S => n \in S
    BY <1>3
  <2>2. Len(s) \in Nat
    OBVIOUS
  <2> QED
    BY <1>2, <2>1, <2>2, UpTo
<1>5. Len(s) \in 0..Len(s)
  OBVIOUS
<1>6. Len(s) \in S
  <2> HIDE DEF S
  <2> QED
    BY <1>4, <1>5
<1>7. From(Len(s)) /\ All(Len(s)) /\ f[Len(s)] \in Seq(A)
  BY <1>1, <1>6 DEF ThoseRun
<1> QED
  BY <1>1, <1>7 DEF ThoseRun, ArePart

\* Those(s, is) is in the order of a key in which s is.
LEMMA ThoseInOrder ==
  ASSUME NEW A, NEW s \in Seq(A), NEW is, NEW key \in [A -> Int],
         \A i, j \in 1..Len(s) : i < j => key[s[i]] <= key[s[j]]
  PROVE  \A k, l \in 1..Len(Those(s, is)) : k < l => key[Those(s, is)[k]] <= key[Those(s, is)[l]]
<1>1. PICK f : ThoseRun(f, A, s, is)
  BY ThoseSteps
<1> DEFINE Before(n) == \A k \in 1..Len(f[n]) : \E i \in 1..n : f[n][k] = s[i]
           InOrder(n) == \A k, l \in 1..Len(f[n]) : k < l => key[f[n][k]] <= key[f[n][l]]
           S == {n \in 0..Len(s) : Before(n) /\ InOrder(n)}
<1>2. 0 \in S
  BY <1>1 DEF ThoseRun
<1>3. ASSUME NEW n \in 1..Len(s), n - 1 \in S PROVE n \in S
  <2>0. PICK a, b : a = f[n - 1] /\ b = f[n]
    OBVIOUS
  <2>1. /\ a \in Seq(A) /\ s[n] \in A /\ n \in 0..Len(s)
        /\ \A k \in 1..Len(a) : \E i \in 1..n - 1 : a[k] = s[i]
        /\ \A k, l \in 1..Len(a) : k < l => key[a[k]] <= key[a[l]]
        /\ b = IF n \in is THEN Append(a, s[n]) ELSE a
    BY <1>1, <1>3, <2>0 DEF ThoseRun
  <2>2. CASE n \in is
    <3>1. /\ Len(b) = Len(a) + 1 /\ b[Len(a) + 1] = s[n] /\ Len(a) \in Nat
          /\ \A k \in 1..Len(a) : b[k] = a[k]
      BY <2>1, <2>2
    <3>2. ASSUME NEW k \in 1..Len(a) PROVE key[a[k]] <= key[s[n]]
      <4>1. PICK i \in 1..n - 1 : a[k] = s[i]
        BY <2>1
      <4>2. i \in 1..Len(s) /\ i < n
        BY <2>1
      <4> QED
        BY <4>1, <4>2
    <3>3. Before(n)
      <4> SUFFICES ASSUME NEW k \in 1..Len(b) PROVE \E i \in 1..n : b[k] = s[i]
        BY <2>0
      <4>1. CASE k \in 1..Len(a)
        BY <2>1, <3>1, <4>1
      <4>2. CASE k = Len(a) + 1
        BY <3>1, <4>2
      <4> QED
        BY <3>1, <4>1, <4>2
    <3>4. InOrder(n)
      <4> SUFFICES ASSUME NEW k \in 1..Len(b), NEW l \in 1..Len(b), k < l
                   PROVE  key[b[k]] <= key[b[l]]
        BY <2>0
      <4>0. PICK m \in Nat : m = Len(a) /\ Len(b) = m + 1
        BY <3>1
      <4>a. k \in 1..m + 1 /\ l \in 1..m + 1 /\ k < l
        BY <4>0
      <4>b. k \in 1..m /\ (l \in 1..m \/ l = m + 1)
        BY ONLY m \in Nat, <4>a
      <4>1. k \in 1..Len(a) /\ (l \in 1..Len(a) \/ l = Len(a) + 1)
        BY ONLY <4>0, <4>b
      <4>2. CASE l \in 1..Len(a)
        BY <2>1, <3>1, <4>1, <4>2
      <4>3. CASE l = Len(a) + 1
        BY <3>1, <3>2, <4>1, <4>3
      <4> QED
        BY <4>1, <4>2, <4>3
    <3> QED
      BY <2>1, <3>3, <3>4
  <2>3. CASE n \notin is
    <3>1. b = a
      BY <2>1, <2>3
    <3>2. \A k \in 1..Len(a) : \E i \in 1..n : a[k] = s[i]
      BY <2>1
    <3>3. f[n] = a
      BY <2>0, <3>1
    <3>4. Before(n)
      BY <3>2, <3>3
    <3>5. InOrder(n)
      BY <2>1, <3>3
    <3> HIDE DEF Before, InOrder
    <3> QED
      BY <2>1, <3>4, <3>5
  <2> QED
    BY <2>2, <2>3
<1>4. 0..Len(s) \subseteq S
  <2> HIDE DEF S
  <2>1. \A n \in 1..Len(s) : n - 1 \in S => n \in S
    BY <1>3
  <2>2. Len(s) \in Nat
    OBVIOUS
  <2> QED
    BY <1>2, <2>1, <2>2, UpTo
<1>a. Len(s) \in 0..Len(s)
  OBVIOUS
<1>5. InOrder(Len(s))
  <2>1. Len(s) \in S
    <3> HIDE DEF S
    <3> QED
      BY <1>4, <1>a
  <2> QED
    BY <2>1
<1> QED
  BY <1>1, <1>5 DEF ThoseRun

-----------------------------------------------------------------------------
(* Sorted *)

\* The first n of the keys, ranked: in r each comes once, and keys do not fall.
IsRank(r, n, key) ==
  /\ r \in [1..n -> 1..n]
  /\ \A j \in 1..n : \E i \in 1..n : r[i] = j
  /\ \A i, k \in 1..n : i < k => key[r[i]] <= key[r[k]]

\* r with n put in behind the last key that is not greater than its own.
Inserted(r, n, key) ==
  [i \in 1..n |-> IF i < n /\ key[r[i]] <= key[n] THEN r[i]
                  ELSE IF i = 1 \/ key[r[i - 1]] <= key[n] THEN n
                  ELSE r[i - 1]]

\* To put the next position in behind its equals keeps the order of the keys.
LEMMA InsertedIsRank ==
  ASSUME NEW n \in Nat, n >= 1, NEW key, \A i \in 1..n : key[i] \in Int,
         NEW r, IsRank(r, n - 1, key)
  PROVE  IsRank(Inserted(r, n, key), n, key)
<1>1. PICK t : t = Inserted(r, n, key)
  OBVIOUS
<1>2. ASSUME NEW i \in 1..n
      PROVE  t[i] = IF i < n /\ key[r[i]] <= key[n] THEN r[i]
                    ELSE IF i = 1 \/ key[r[i - 1]] <= key[n] THEN n
                    ELSE r[i - 1]
  BY <1>1 DEF Inserted
<1>3. /\ r \in [1..n - 1 -> 1..n - 1]
      /\ \A j \in 1..n - 1 : \E i \in 1..n - 1 : r[i] = j
      /\ \A i, k \in 1..n - 1 : i < k => key[r[i]] <= key[r[k]]
  BY DEF IsRank
<1>4. ASSUME NEW i \in 1..n - 1 PROVE r[i] \in 1..n - 1 /\ key[r[i]] \in Int
  <2>1. r[i] \in 1..n - 1
    BY <1>3
  <2>2. r[i] \in 1..n
    BY <2>1
  <2> QED
    BY <2>1, <2>2
<1>a. \A i, k \in 1..n - 1 : i <= k => key[r[i]] <= key[r[k]]
  <2> SUFFICES ASSUME NEW i \in 1..n - 1, NEW k \in 1..n - 1, i <= k
               PROVE  key[r[i]] <= key[r[k]]
    OBVIOUS
  <2>1. CASE i < k
    BY <1>3, <2>1
  <2>2. CASE i = k
    <3>1. key[r[i]] \in Int
      BY <1>4
    <3> QED
      BY <2>2, <3>1
  <2> QED
    BY <2>1, <2>2
<1>5. ASSUME NEW i \in 1..n PROVE t[i] \in 1..n
  <2>1. CASE i < n
    BY <1>2, <1>4, <2>1
  <2>2. CASE i = n
    BY <1>2, <1>4, <2>2
  <2> QED
    BY <2>1, <2>2
<1>6. t \in [1..n -> 1..n]
  BY <1>1, <1>5 DEF Inserted
<1>7. ASSUME NEW j \in 1..n PROVE \E i \in 1..n : t[i] = j
  <2>1. CASE j = n
    <3> DEFINE Z == {i \in Nat : i \in 1..n /\ (i = n \/ key[r[i]] > key[n])}
    <3>1. n \in Z
      BY <2>1
    <3>2. PICK i \in Z : \A k \in Z : i <= k
      <4> HIDE DEF Z
      <4>1. Z \subseteq Nat
        BY DEF Z
      <4> QED
        BY <3>1, <4>1, Least
    <3>3. i = 1 \/ i - 1 \notin Z
      BY <3>2
    <3>4. i = 1 \/ key[r[i - 1]] <= key[n]
      BY <1>4, <3>3
    <3>5. t[i] = n
      BY <1>2, <1>4, <3>4
    <3> QED
      BY <2>1, <3>5
  <2>2. CASE j # n
    <3>1. PICK i \in 1..n - 1 : r[i] = j
      BY <1>3, <2>2
    <3>2. CASE key[j] <= key[n]
      BY <1>2, <3>1, <3>2
    <3>3. CASE key[j] > key[n]
      <4>1. i + 1 \in 1..n /\ (i + 1) - 1 = i
        OBVIOUS
      <4>2. ~(i + 1 < n /\ key[r[i + 1]] <= key[n])
        <5> SUFFICES ASSUME i + 1 < n PROVE ~(key[r[i + 1]] <= key[n])
          OBVIOUS
        <5>1. i + 1 \in 1..n - 1 /\ n \in 1..n
          OBVIOUS
        <5>a. i <= i + 1
          OBVIOUS
        <5>2. key[r[i]] <= key[r[i + 1]] /\ key[r[i]] > key[n]
          BY <1>a, <3>1, <3>3, <5>1, <5>a
        <5>3. key[r[i]] \in Int /\ key[r[i + 1]] \in Int /\ key[n] \in Int
          BY <1>4, <5>1
        <5> QED
          BY <5>2, <5>3
      <4>3. t[i + 1] = r[i]
        BY <1>2, <1>4, <3>1, <3>3, <4>1, <4>2
      <4> QED
        BY <3>1, <4>1, <4>3
    <3> QED
      BY <3>2, <3>3
  <2> QED
    BY <2>1, <2>2
<1>8. ASSUME NEW i \in 1..n, NEW k \in 1..n, i < k PROVE key[t[i]] <= key[t[k]]
  <2>1. i \in 1..n - 1 /\ k - 1 \in 1..n - 1 /\ i <= k - 1 /\ n \in 1..n
    BY <1>8
  <2>2. key[r[i]] <= key[r[k - 1]] /\ key[n] \in Int
    BY <1>a, <2>1
  <2>3. ASSUME k < n PROVE key[r[i]] <= key[r[k]] /\ key[r[k]] \in Int
    <3>1. k \in 1..n - 1 /\ i <= k
      BY <1>8, <2>3
    <3> QED
      BY <1>4, <1>a, <2>1, <3>1
  <2>4. ASSUME i > 1 PROVE key[r[i - 1]] <= key[r[i]] /\ key[r[i - 1]] \in Int
    <3>1. i - 1 \in 1..n - 1 /\ i - 1 <= i
      BY <2>1, <2>4
    <3> QED
      BY <1>4, <1>a, <2>1, <3>1
  <2>5. key[r[i]] \in Int /\ key[r[k - 1]] \in Int
    BY <1>4, <2>1
  <2>6. key[t[i]] = IF key[r[i]] <= key[n] THEN key[r[i]]
                    ELSE IF i = 1 \/ key[r[i - 1]] <= key[n] THEN key[n]
                    ELSE key[r[i - 1]]
    BY <1>2, <2>1
  <2>7. key[t[k]] = IF k < n /\ key[r[k]] <= key[n] THEN key[r[k]]
                    ELSE IF key[r[k - 1]] <= key[n] THEN key[n]
                    ELSE key[r[k - 1]]
    BY <1>2, <2>1
  <2> QED
    BY <2>1, <2>2, <2>3, <2>4, <2>5, <2>6, <2>7
<1> QED
  BY <1>1, <1>6, <1>7, <1>8 DEF IsRank

\* What goes on by inserting ranks.
LEMMA InsertingRanks ==
  ASSUME NEW m \in Nat, NEW key, \A i \in 1..m : key[i] \in Int,
         NEW f, f[0] = <<>>,
         \A n \in 1..m : IsRank(f[n - 1], n - 1, key) => f[n] = Inserted(f[n - 1], n, key)
  PROVE  \A n \in 0..m : IsRank(f[n], n, key)
<1> DEFINE S == {n \in 0..m : IsRank(f[n], n, key)}
<1>1. 0 \in S
  <2>1. IsRank(<<>>, 0, key) /\ 0 \in 0..m
    BY DEF IsRank
  <2> QED
    BY <2>1
<1>2. ASSUME NEW n \in 1..m, n - 1 \in S PROVE n \in S
  <2>1. /\ n \in Nat /\ n >= 1 /\ n \in 0..m /\ \A i \in 1..n : key[i] \in Int
        /\ IsRank(f[n - 1], n - 1, key)
    BY <1>2
  <2>2. IsRank(Inserted(f[n - 1], n, key), n, key)
    BY <2>1, InsertedIsRank
  <2> QED
    BY <2>1, <2>2
<1> HIDE DEF S
<1>3. \A n \in 1..m : n - 1 \in S => n \in S
  BY <1>2
<1>4. 0..m \subseteq S
  BY <1>1, <1>3, UpTo
<1> QED
  BY <1>4 DEF S

\* The first n ranked, for every n.
RankedRun(f, m, key) ==
  /\ Ranked(key, m) = f[m]
  /\ f[0] = <<>>
  /\ \A n \in 0..m : IsRank(f[n], n, key)
  /\ \A n \in 1..m : f[n] = Inserted(f[n - 1], n, key)

\* A sort puts in position after position.
LEMMA RankedSteps ==
  ASSUME NEW m \in Nat, NEW key, \A i \in 1..m : key[i] \in Int
  PROVE  \E f : RankedRun(f, m, key)
<1> DEFINE A == UNION {{r \in [1..n -> 1..n] : IsRank(r, n, key)} : n \in 0..m}
           step == [n \in 1..m |-> [t \in A |->
                      IF IsRank(t, n - 1, key) THEN Inserted(t, n, key) ELSE <<>>]]
           Body(f) == [n \in 0..m |-> IF n = 0 THEN <<>>
                         ELSE [i \in 1..n |->
                                 IF i < n /\ key[f[n - 1][i]] <= key[n] THEN f[n - 1][i]
                                 ELSE IF i = 1 \/ key[f[n - 1][i - 1]] <= key[n] THEN n
                                 ELSE f[n - 1][i - 1]]]
           ranked == CHOOSE f : f = Body(f)
<1>1. ASSUME NEW n \in 0..m, NEW r, IsRank(r, n, key) PROVE r \in A
  <2>1. r \in [1..n -> 1..n]
    BY <1>1 DEF IsRank
  <2> QED
    BY <1>1, <2>1
<1>2. <<>> \in A
  <2>1. IsRank(<<>>, 0, key) /\ 0 \in 0..m
    BY DEF IsRank
  <2> QED
    BY <1>1, <2>1
<1>3. step \in Steps(m, A)
  <2> SUFFICES ASSUME NEW n \in 1..m, NEW t \in A
               PROVE  (IF IsRank(t, n - 1, key) THEN Inserted(t, n, key) ELSE <<>>) \in A
    BY DEF Steps
  <2>1. CASE IsRank(t, n - 1, key)
    <3>1. n \in Nat /\ n >= 1 /\ n \in 0..m /\ \A i \in 1..n : key[i] \in Int
      OBVIOUS
    <3>2. IsRank(Inserted(t, n, key), n, key)
      BY <2>1, <3>1, InsertedIsRank
    <3>3. Inserted(t, n, key) \in A
      BY <1>1, <3>1, <3>2
    <3> QED
      BY <2>1, <3>3
  <2>2. CASE ~IsRank(t, n - 1, key)
    BY <1>2, <2>2
  <2> QED
    BY <2>1, <2>2
<1>4. PICK f : Runs(f, m, <<>>, step)
  <2> HIDE DEF A, step
  <2> QED
    BY <1>2, <1>3, Recursion
<1>5. /\ f[0] = <<>> /\ f = [n \in 0..m |-> f[n]]
      /\ \A n \in 1..m : f[n] = step[n][f[n - 1]]
  <2> HIDE DEF A, step
  <2> QED
    BY <1>4 DEF Runs
<1>6. ASSUME NEW n \in 1..m, IsRank(f[n - 1], n - 1, key)
      PROVE  f[n] = Inserted(f[n - 1], n, key)
  <2>1. f[n - 1] \in A
    <3>1. n - 1 \in 0..m
      OBVIOUS
    <3> QED
      BY <1>1, <1>6, <3>1
  <2>2. step[n][f[n - 1]] = Inserted(f[n - 1], n, key)
    <3> HIDE DEF A
    <3> QED
      BY <1>6, <2>1
  <2> QED
    BY <1>5, <2>2
<1>7. \A n \in 0..m : IsRank(f[n], n, key)
  <2> HIDE DEF A, step
  <2> QED
    BY <1>5, <1>6, InsertingRanks
<1>8. \A n \in 1..m : f[n] = Inserted(f[n - 1], n, key)
  <2>1. \A n \in 1..m : n - 1 \in 0..m
    OBVIOUS
  <2> QED
    BY <1>6, <1>7, <2>1
<1>9. f = Body(f)
  BY <1>5, <1>8 DEF Inserted
<1>10. ranked = Body(ranked)
  <2> HIDE DEF Body
  <2> QED
    BY <1>9
<1>11. Ranked(key, m) = ranked[m]
  BY DEF Ranked
<1>12. PICK g : g = ranked
  OBVIOUS
<1> HIDE DEF ranked, step, A
<1>13. g = Body(g)
  BY <1>10, <1>12
<1>14. g[0] = <<>>
  <2>1. 0 \in 0..m
    OBVIOUS
  <2> QED
    BY <1>13, <2>1
<1>15. ASSUME NEW n \in 1..m PROVE g[n] = Inserted(g[n - 1], n, key)
  <2>1. n \in 0..m /\ n # 0
    OBVIOUS
  <2> QED
    BY <1>13, <2>1 DEF Inserted
<1>16. \A n \in 0..m : IsRank(g[n], n, key)
  BY <1>14, <1>15, InsertingRanks
<1> QED
  BY <1>11, <1>12, <1>14, <1>15, <1>16 DEF RankedRun

\* It gives every position, by their keys.
LEMMA RankedIsRank ==
  ASSUME NEW m \in Nat, NEW key, \A i \in 1..m : key[i] \in Int
  PROVE  IsRank(Ranked(key, m), m, key)
<1>1. PICK f : RankedRun(f, m, key)
  BY RankedSteps
<1>2. m \in 0..m
  OBVIOUS
<1> QED
  BY <1>1, <1>2 DEF RankedRun

\* Sorted has the items of s, in the order of their keys.
LEMMA SortedIs ==
  ASSUME NEW A, NEW s \in Seq(A), NEW key, \A i \in 1..Len(s) : key[i] \in Int
  PROVE  /\ Sorted(s, key) \in Seq(A)
         /\ Len(Sorted(s, key)) = Len(s)
         /\ \E r : /\ IsRank(r, Len(s), key)
                   /\ \A i \in 1..Len(s) : Sorted(s, key)[i] = s[r[i]]
<1>1. PICK r : r = Ranked(key, Len(s))
  OBVIOUS
<1>2. IsRank(r, Len(s), key)
  <2>1. Len(s) \in Nat
    OBVIOUS
  <2> QED
    BY <1>1, <2>1, RankedIsRank
<1>3. \A i \in 1..Len(s) : r[i] \in 1..Len(s)
  BY <1>2 DEF IsRank
<1>4. Sorted(s, key) = [i \in 1..Len(s) |-> s[r[i]]]
  BY <1>1 DEF Sorted
<1>5. Sorted(s, key) \in Seq(A) /\ Len(Sorted(s, key)) = Len(s)
  BY <1>3, <1>4
<1> QED
  BY <1>2, <1>4, <1>5

\* A bounded set of numbers that is not empty has a greatest one.
LEMMA Greatest ==
  ASSUME NEW m \in Nat, NEW Z, Z \subseteq 0..m, NEW n \in Z
  PROVE  \E i \in Z : \A k \in Z : k <= i
<1> DEFINE Y == {l \in Nat : m - l \in Z}
<1>1. m - n \in Y /\ Y \subseteq Nat
  <2>1. n \in 0..m
    OBVIOUS
  <2>2. m - n \in Nat /\ m - (m - n) = n
    BY <2>1
  <2> QED
    BY <2>2
<1>2. PICK l \in Y : \A k \in Y : l <= k
  <2> HIDE DEF Y
  <2> QED
    BY <1>1, Least
<1>3. ASSUME NEW k \in Z PROVE k <= m - l
  <2>1. k \in 0..m
    OBVIOUS
  <2>2. m - k \in Nat /\ m - (m - k) = k
    BY <2>1
  <2>3. m - k \in Y
    BY <2>2
  <2>4. l <= m - k /\ l \in Nat
    BY <1>2, <2>3
  <2> QED
    BY <2>1, <2>4
<1> QED
  BY <1>2, <1>3

-----------------------------------------------------------------------------
(* Those, by positions *)

\* t has the items of s at the positions is, at each of which r says.
IsPart(r, t, s, is) ==
  /\ r \in [1..Len(t) -> 1..Len(s)]
  /\ \A k \in 1..Len(t) : r[k] \in is /\ t[k] = s[r[k]]
  /\ \A i \in is \cap (1..Len(s)) : \E k \in 1..Len(t) : r[k] = i
  /\ \A k, l \in 1..Len(t) : k < l => r[k] < r[l]

\* A filter keeps the items at the positions, each once and in their order.
LEMMA ThosePart ==
  ASSUME NEW A, NEW s \in Seq(A), NEW is
  PROVE  /\ Those(s, is) \in Seq(A)
         /\ \E r : IsPart(r, Those(s, is), s, is)
<1>1. PICK f : ThoseRun(f, A, s, is)
  BY ThoseSteps
<1> DEFINE Part(r, t, n) ==
             /\ r \in [1..Len(t) -> 1..n]
             /\ \A k \in 1..Len(t) : r[k] \in is /\ t[k] = s[r[k]]
             /\ \A i \in is \cap (1..n) : \E k \in 1..Len(t) : r[k] = i
             /\ \A k, l \in 1..Len(t) : k < l => r[k] < r[l]
           S == {n \in 0..Len(s) : \E r : Part(r, f[n], n)}
<1>2. 0 \in S
  <2>1. Part(<<>>, <<>>, 0)
    OBVIOUS
  <2>2. f[0] = <<>> /\ 0 \in 0..Len(s)
    BY <1>1 DEF ThoseRun
  <2> HIDE DEF Part
  <2> QED
    BY <2>1, <2>2
<1>3. ASSUME NEW n \in 1..Len(s), n - 1 \in S PROVE n \in S
  <2>0. PICK a, b : a = f[n - 1] /\ b = f[n]
    OBVIOUS
  <2>1. PICK r : Part(r, a, n - 1)
    BY <1>3, <2>0
  <2>2. /\ a \in Seq(A) /\ s[n] \in A /\ n \in 0..Len(s)
        /\ b = IF n \in is THEN Append(a, s[n]) ELSE a
    BY <1>1, <2>0 DEF ThoseRun
  <2>3. PICK m \in Nat : m = Len(a)
    BY <2>2
  <2>4. CASE n \in is
    <3>1. /\ Len(b) = m + 1 /\ b[m + 1] = s[n]
          /\ \A k \in 1..m : b[k] = a[k]
      BY <2>2, <2>3, <2>4
    <3>2. /\ r \in [1..m -> 1..n - 1]
          /\ \A k \in 1..m : r[k] \in is /\ a[k] = s[r[k]]
          /\ \A i \in is \cap (1..n - 1) : \E k \in 1..m : r[k] = i
          /\ \A k, l \in 1..m : k < l => r[k] < r[l]
      BY <2>1, <2>3
    <3> DEFINE q == [k \in 1..m + 1 |-> IF k = m + 1 THEN n ELSE r[k]]
    <3>3. ASSUME NEW k \in 1..m PROVE k \in 1..m + 1 /\ k # m + 1 /\ q[k] = r[k] /\ r[k] \in 1..n - 1
      BY <3>2
    <3>4. q[m + 1] = n
      OBVIOUS
    <3>5. q \in [1..m + 1 -> 1..n]
      <4>1. ASSUME NEW k \in 1..m + 1 PROVE q[k] \in 1..n
        <5>1. k \in 1..m \/ k = m + 1
          OBVIOUS
        <5>2. CASE k \in 1..m
          <6>1. q[k] = r[k] /\ r[k] \in 1..n - 1
            BY <3>3, <5>2
          <6> QED
            BY <6>1
        <5> QED
          BY <3>4, <5>1, <5>2
      <4> QED
        BY <4>1
    <3> HIDE DEF q
    <3>6. ASSUME NEW k \in 1..m + 1 PROVE q[k] \in is /\ b[k] = s[q[k]]
      <4>1. CASE k \in 1..m
        BY <3>1, <3>2, <3>3, <4>1
      <4>2. CASE k = m + 1
        BY <2>4, <3>1, <3>4, <4>2
      <4> QED
        BY <4>1, <4>2
    <3>7. ASSUME NEW i \in is \cap (1..n) PROVE \E k \in 1..m + 1 : q[k] = i
      <4>1. CASE i = n
        <5>1. m + 1 \in 1..m + 1
          OBVIOUS
        <5> QED
          BY <3>4, <4>1, <5>1
      <4>2. CASE i # n
        <5>1. i \in is \cap (1..n - 1)
          BY <4>2
        <5>2. PICK k \in 1..m : r[k] = i
          BY <3>2, <5>1
        <5> QED
          BY <3>3, <5>2
      <4> QED
        BY <4>1, <4>2
    <3>8. ASSUME NEW k \in 1..m + 1, NEW l \in 1..m + 1, k < l PROVE q[k] < q[l]
      <4>1. k \in 1..m /\ (l \in 1..m \/ l = m + 1)
        BY <3>8
      <4>2. CASE l \in 1..m
        BY <3>2, <3>3, <3>8, <4>1, <4>2
      <4>3. CASE l = m + 1
        <5>1. q[k] = r[k] /\ r[k] \in 1..n - 1 /\ q[l] = n
          BY <3>3, <3>4, <4>1, <4>3
        <5> QED
          BY <5>1
      <4> QED
        BY <4>1, <4>2, <4>3
    <3>9. Part(q, b, n)
      BY <3>1, <3>5, <3>6, <3>7, <3>8
    <3> HIDE DEF Part
    <3> QED
      BY <2>0, <2>2, <3>9
  <2>5. CASE n \notin is
    <3>1. b = a
      BY <2>2, <2>5
    <3>2. is \cap (1..n) = is \cap (1..n - 1)
      BY <2>5
    <3>3. r \in [1..Len(a) -> 1..n]
      <4>1. r \in [1..Len(a) -> 1..n - 1] /\ 1..n - 1 \subseteq 1..n
        BY <2>1
      <4> QED
        BY <4>1
    <3>4. Part(r, b, n)
      BY <2>1, <3>1, <3>2, <3>3
    <3> HIDE DEF Part
    <3> QED
      BY <2>0, <2>2, <3>4
  <2> QED
    BY <2>4, <2>5
<1>4. Len(s) \in Nat /\ Len(s) \in 0..Len(s)
  OBVIOUS
<1>5. Len(s) \in S
  <2> HIDE DEF S
  <2>1. 0..Len(s) \subseteq S
    BY <1>2, <1>3, <1>4, UpTo
  <2> QED
    BY <1>4, <2>1
<1>6. PICK r : Part(r, f[Len(s)], Len(s))
  BY <1>5
<1>7. f[Len(s)] = Those(s, is) /\ f[Len(s)] \in Seq(A)
  BY <1>1, <1>4 DEF ThoseRun
<1>8. IsPart(r, Those(s, is), s, is)
  BY <1>6, <1>7 DEF IsPart
<1> QED
  BY <1>7, <1>8

\* A filter that leaves nothing out gives what it was given.
LEMMA ThoseAll ==
  ASSUME NEW A, NEW s \in Seq(A)
  PROVE  Those(s, DOMAIN s) = s
<1>1. PICK f : ThoseRun(f, A, s, DOMAIN s)
  BY ThoseSteps
<1> DEFINE S == {n \in 0..Len(s) : Len(f[n]) = n /\ \A k \in 1..n : f[n][k] = s[k]}
<1>2. 0 \in S
  BY <1>1 DEF ThoseRun
<1>3. ASSUME NEW n \in 1..Len(s), n - 1 \in S PROVE n \in S
  <2>1. /\ f[n - 1] \in Seq(A) /\ Len(f[n - 1]) = n - 1 /\ n \in 0..Len(s)
        /\ \A k \in 1..n - 1 : f[n - 1][k] = s[k]
        /\ f[n] = Append(f[n - 1], s[n])
    <3>1. n - 1 \in 0..Len(s) /\ n \in DOMAIN s /\ n \in 0..Len(s)
      OBVIOUS
    <3>2. Len(f[n - 1]) = n - 1 /\ \A k \in 1..n - 1 : f[n - 1][k] = s[k]
      BY <1>3
    <3> QED
      BY <1>1, <3>1, <3>2 DEF ThoseRun
  <2>2. Len(f[n]) = n /\ f[n][n] = s[n] /\ \A k \in 1..n - 1 : f[n][k] = f[n - 1][k]
    BY <2>1
  <2>3. \A k \in 1..n : k \in 1..n - 1 \/ k = n
    OBVIOUS
  <2> QED
    BY <2>1, <2>2, <2>3
<1>4. Len(s) \in Nat /\ Len(s) \in 0..Len(s)
  OBVIOUS
<1>5. Len(s) \in S
  <2> HIDE DEF S
  <2>1. 0..Len(s) \subseteq S
    BY <1>2, <1>3, <1>4, UpTo
  <2> QED
    BY <1>4, <2>1
<1>6. PICK t : t = Those(s, DOMAIN s)
  OBVIOUS
<1>7. t \in Seq(A) /\ Len(t) = Len(s) /\ \A k \in 1..Len(s) : t[k] = s[k]
  BY <1>1, <1>4, <1>5, <1>6 DEF ThoseRun
<1>8. t = s
  BY <1>7
<1> QED
  BY <1>6, <1>8

-----------------------------------------------------------------------------
(* Sorted, where no two keys are the same *)

\* A rank has no position twice.
LEMMA RankInjective ==
  ASSUME NEW n \in Nat, NEW key, NEW r, IsRank(r, n, key)
  PROVE  \A i, k \in 1..n : r[i] = r[k] => i = k
<1>1. r \in [1..n -> 1..n] /\ \A j \in 1..n : \E i \in 1..n : r[i] = j
  BY DEF IsRank
<1>2. r \in Surjection(1..n, 1..n)
  BY <1>1 DEF Surjection
<1>3. IsFiniteSet(1..n)
  BY FS_Interval
<1>4. r \in Injection(1..n, 1..n)
  BY <1>2, <1>3, FS_Surjection
<1> QED
  BY <1>4 DEF Injection, IsInjective

\* Sorted by keys that are all different, the keys rise.
LEMMA RankRises ==
  ASSUME NEW n \in Nat, NEW key, \A i \in 1..n : key[i] \in Int,
         \A i, k \in 1..n : key[i] = key[k] => i = k,
         NEW r, IsRank(r, n, key)
  PROVE  \A i, k \in 1..n : i < k => key[r[i]] < key[r[k]]
<1> SUFFICES ASSUME NEW i \in 1..n, NEW k \in 1..n, i < k PROVE key[r[i]] < key[r[k]]
  OBVIOUS
<1>1. r[i] \in 1..n /\ r[k] \in 1..n /\ key[r[i]] <= key[r[k]]
  BY DEF IsRank
<1>2. r[i] # r[k]
  BY RankInjective
<1>3. key[r[i]] # key[r[k]]
  BY <1>1, <1>2
<1>4. key[r[i]] \in Int /\ key[r[k]] \in Int
  BY <1>1
<1> QED
  BY <1>1, <1>3, <1>4

\* The keys of the items of s rise.
Rises(s, key) == \A i, k \in 1..Len(s) : i < k => key[s[i]] < key[s[k]]

\* Two sequences have the same items.
SameItems(s, t) ==
  /\ \A i \in 1..Len(s) : \E k \in 1..Len(t) : s[i] = t[k]
  /\ \A k \in 1..Len(t) : \E i \in 1..Len(s) : t[k] = s[i]

\* What rises has its items in one order only.
LEMMA OneOrder ==
  ASSUME NEW A, NEW s \in Seq(A), NEW t \in Seq(A), NEW key \in [A -> Int],
         Rises(s, key), Rises(t, key), SameItems(s, t)
  PROVE  s = t
<1> DEFINE Same(n) == n <= Len(s) /\ n <= Len(t) => s[n] = t[n]
           S == {n \in Nat : \A k \in 1..n : Same(k)}
<1>0. /\ Len(s) \in Nat /\ Len(t) \in Nat
      /\ \A i \in 1..Len(s) : s[i] \in A /\ key[s[i]] \in Int
      /\ \A i \in 1..Len(t) : t[i] \in A /\ key[t[i]] \in Int
  OBVIOUS
<1>1. 0 \in S
  OBVIOUS
<1>2. ASSUME NEW n \in Nat, n \in S PROVE n + 1 \in S
  <2> SUFFICES ASSUME n + 1 <= Len(s), n + 1 <= Len(t) PROVE s[n + 1] = t[n + 1]
    <3>1. \A k \in 1..n + 1 : k \in 1..n \/ k = n + 1
      OBVIOUS
    <3>2. \A k \in 1..n : Same(k)
      BY <1>2
    <3> QED
      BY <3>1, <3>2
  <2>1. n + 1 \in 1..Len(s) /\ n + 1 \in 1..Len(t)
    BY <1>0
  <2>2. \A k \in 1..n : s[k] = t[k] /\ k \in 1..Len(s) /\ k \in 1..Len(t) /\ k < n + 1
    BY <1>0, <1>2
  <2>3. PICK j \in 1..Len(t) : s[n + 1] = t[j]
    BY <2>1 DEF SameItems
  <2>4. PICK i \in 1..Len(s) : t[n + 1] = s[i]
    BY <2>1 DEF SameItems
  <2>5. ~(j < n + 1)
    <3> SUFFICES ASSUME j < n + 1 PROVE FALSE
      OBVIOUS
    <3>1. j \in 1..n
      OBVIOUS
    <3>2. s[j] = s[n + 1] /\ key[s[j]] < key[s[n + 1]] /\ key[s[j]] \in Int
      BY <1>0, <2>1, <2>2, <2>3, <3>1 DEF Rises
    <3> QED
      BY <3>2
  <2>6. ~(i < n + 1)
    <3> SUFFICES ASSUME i < n + 1 PROVE FALSE
      OBVIOUS
    <3>1. i \in 1..n
      OBVIOUS
    <3>2. t[i] = t[n + 1] /\ key[t[i]] < key[t[n + 1]] /\ key[t[i]] \in Int
      BY <1>0, <2>1, <2>2, <2>4, <3>1 DEF Rises
    <3> QED
      BY <3>2
  <2>7. CASE j = n + 1
    BY <2>3, <2>7
  <2>8. CASE i = n + 1
    BY <2>4, <2>8
  <2>9. CASE j > n + 1 /\ i > n + 1
    <3>1. key[t[n + 1]] < key[t[j]] /\ key[s[n + 1]] < key[s[i]]
      BY <2>1, <2>9 DEF Rises
    <3>2. key[t[n + 1]] < key[s[n + 1]] /\ key[s[n + 1]] < key[t[n + 1]]
      BY <2>3, <2>4, <3>1
    <3>3. key[t[n + 1]] \in Int /\ key[s[n + 1]] \in Int
      BY <1>0, <2>1
    <3> QED
      BY <3>2, <3>3
  <2> QED
    BY <2>5, <2>6, <2>7, <2>8, <2>9
<1>3. Nat \subseteq S
  <2> HIDE DEF S
  <2> QED
    BY <1>1, <1>2, SetInduction
<1>4. ASSUME NEW n \in Nat, 1 <= n, n <= Len(s), n <= Len(t) PROVE s[n] = t[n]
  <2>1. n \in S /\ n \in 1..n
    <3>1. n \in S
      <4> HIDE DEF S
      <4> QED
        BY <1>3, <1>4
    <3>2. n \in 1..n
      BY <1>4
    <3> QED
      BY <3>1, <3>2
  <2>2. \A k \in 1..n : Same(k)
    BY <2>1
  <2>3. Same(n)
    <3> HIDE DEF Same
    <3> QED
      BY <2>1, <2>2
  <2> QED
    BY <1>4, <2>3
<1>5. ~(Len(s) < Len(t))
  <2> SUFFICES ASSUME Len(s) < Len(t) PROVE FALSE
    OBVIOUS
  <2>1. Len(s) + 1 \in 1..Len(t)
    BY <1>0
  <2>2. PICK i \in 1..Len(s) : t[Len(s) + 1] = s[i]
    BY <2>1 DEF SameItems
  <2>3. s[i] = t[i] /\ i \in 1..Len(t) /\ i < Len(s) + 1
    BY <1>0, <1>4
  <2>4. key[t[i]] < key[t[Len(s) + 1]] /\ key[t[i]] \in Int
    BY <1>0, <2>1, <2>3 DEF Rises
  <2> QED
    BY <2>2, <2>3, <2>4
<1>6. ~(Len(t) < Len(s))
  <2> SUFFICES ASSUME Len(t) < Len(s) PROVE FALSE
    OBVIOUS
  <2>1. Len(t) + 1 \in 1..Len(s)
    BY <1>0
  <2>2. PICK i \in 1..Len(t) : s[Len(t) + 1] = t[i]
    BY <2>1 DEF SameItems
  <2>3. t[i] = s[i] /\ i \in 1..Len(s) /\ i < Len(t) + 1
    BY <1>0, <1>4
  <2>4. key[s[i]] < key[s[Len(t) + 1]] /\ key[s[i]] \in Int
    BY <1>0, <2>1, <2>3 DEF Rises
  <2> QED
    BY <2>2, <2>3, <2>4
<1>7. Len(s) = Len(t)
  BY <1>0, <1>5, <1>6
<1>8. \A n \in 1..Len(s) : s[n] = t[n]
  BY <1>0, <1>4, <1>7
<1> HIDE DEF S, Same
<1> QED
  BY <1>7, <1>8

-----------------------------------------------------------------------------
(* SumOf *)

\* The sums of the first n, for every n.
SumRun(g, f, m) ==
  /\ SumOf(f, m) = g[m]
  /\ g \in [0..m -> Int]
  /\ g[0] = 0
  /\ \A n \in 1..m : g[n] = g[n - 1] + f[n]

\* A sum is its run over the numbers.
LEMMA SumSteps ==
  ASSUME NEW m \in Nat, NEW f, \A n \in 1..m : f[n] \in Int
  PROVE  \E g : SumRun(g, f, m)
<1> DEFINE step == [n \in 1..m |-> [x \in Int |-> x + f[n]]]
           Body(g) == [n \in 0..m |-> IF n = 0 THEN 0 ELSE g[n - 1] + f[n]]
           sum == CHOOSE g : g = Body(g)
<1>1. 0 \in Int /\ step \in Steps(m, Int)
  BY DEF Steps
<1>2. PICK h : Runs(h, m, 0, step)
  <2> HIDE DEF step
  <2> QED
    BY <1>1, Recursion
<1>3. \A n \in 0..m : h[n] \in Int
  <2> HIDE DEF step
  <2> QED
    BY <1>1, <1>2, RunsIn
<1>4. /\ h[0] = 0 /\ \A n \in 1..m : h[n] = step[n][h[n - 1]]
      /\ h = [n \in 0..m |-> h[n]]
  <2> HIDE DEF step
  <2> QED
    BY <1>2 DEF Runs
<1>5. ASSUME NEW n \in 1..m PROVE h[n] = h[n - 1] + f[n]
  <2>1. h[n - 1] \in Int
    BY <1>3
  <2>2. step[n][h[n - 1]] = h[n - 1] + f[n]
    BY <2>1
  <2> QED
    BY <1>4, <2>2
<1>6. h = Body(h)
  <2>1. \A n \in 0..m : h[n] = IF n = 0 THEN 0 ELSE h[n - 1] + f[n]
    <3> TAKE n \in 0..m
    <3>1. n = 0 \/ n \in 1..m
      OBVIOUS
    <3> QED
      BY ONLY <1>4, <1>5, <3>1
  <2>2. h = [n \in 0..m |-> h[n]]
    BY <1>4
  <2>3. [n \in 0..m |-> h[n]] = Body(h)
    BY ONLY <2>1
  <2> QED
    BY <2>2, <2>3
<1>7. sum = Body(sum)
  <2> HIDE DEF Body
  <2> QED
    BY <1>6
<1>8. SumOf(f, m) = sum[m]
  BY DEF SumOf
<1>9. PICK g : g = sum
  OBVIOUS
<1> HIDE DEF sum, step
<1>10. g = Body(g)
  BY <1>7, <1>9
<1>11. g[0] = 0 /\ \A n \in 1..m : g[n] = g[n - 1] + f[n]
  BY <1>10
<1> DEFINE S == {n \in 0..m : g[n] \in Int}
<1>12. ASSUME NEW n \in 1..m, n - 1 \in S PROVE n \in S
  BY <1>11, <1>12
<1>13. 0 \in S
  BY <1>11
<1>14. 0..m \subseteq S
  <2> HIDE DEF S
  <2> QED
    BY <1>12, <1>13, UpTo
<1>15. g \in [0..m -> Int]
  BY <1>10, <1>14
<1> HIDE DEF Body
<1> QED
  BY <1>8, <1>9, <1>11, <1>15 DEF SumRun

\* Summands that are at most the rise of h from one number to the next sum up to at
\* most its rise from the first to the last.
LEMMA SumWithin ==
  ASSUME NEW m \in Nat, NEW f, \A n \in 1..m : f[n] \in Int,
         NEW h, \A n \in 0..m : h[n] \in Int,
         \A n \in 1..m : f[n] <= h[n] - h[n - 1]
  PROVE  SumOf(f, m) <= h[m] - h[0]
<1>1. PICK g : SumRun(g, f, m)
  BY SumSteps
<1> DEFINE S == {n \in 0..m : g[n] <= h[n] - h[0]}
<1>2. 0 \in S
  BY <1>1 DEF SumRun
<1>3. ASSUME NEW n \in 1..m, n - 1 \in S PROVE n \in S
  <2>1. /\ g[n] = g[n - 1] + f[n] /\ g[n - 1] <= h[n - 1] - h[0]
        /\ g[n - 1] \in Int /\ f[n] \in Int /\ h[n] \in Int /\ h[n - 1] \in Int /\ h[0] \in Int
        /\ f[n] <= h[n] - h[n - 1]
    BY <1>1, <1>3 DEF SumRun
  <2> QED
    BY <2>1
<1>4. m \in S
  <2> HIDE DEF S
  <2>1. 0..m \subseteq S
    BY <1>2, <1>3, UpTo
  <2> QED
    BY <2>1
<1> QED
  BY <1>1, <1>4 DEF SumRun

\* The sum of greater summands is not less.
LEMMA SumMonotone ==
  ASSUME NEW m \in Nat, NEW f, \A n \in 1..m : f[n] \in Int,
         NEW h, \A n \in 1..m : h[n] \in Int,
         \A n \in 1..m : f[n] <= h[n]
  PROVE  SumOf(f, m) <= SumOf(h, m)
<1>1. PICK g : SumRun(g, h, m)
  BY SumSteps
<1>2. /\ \A n \in 0..m : g[n] \in Int
      /\ \A n \in 1..m : f[n] <= g[n] - g[n - 1]
      /\ g[0] = 0 /\ g[m] = SumOf(h, m)
  <2>1. ASSUME NEW n \in 1..m PROVE f[n] <= g[n] - g[n - 1]
    <3>1. g[n] = g[n - 1] + h[n] /\ g[n - 1] \in Int /\ f[n] <= h[n] /\ h[n] \in Int /\ f[n] \in Int
      BY <1>1 DEF SumRun
    <3> QED
      BY <3>1
  <2> QED
    BY <1>1, <2>1 DEF SumRun
<1>3. SumOf(f, m) <= g[m] - g[0]
  BY <1>2, SumWithin
<1> QED
  BY <1>2, <1>3

\* A sum of numbers that are not negative is at least each of them.
LEMMA SumAtLeast ==
  ASSUME NEW m \in Nat, NEW f, \A n \in 1..m : f[n] \in Nat, NEW l \in 1..m
  PROVE  SumOf(f, m) >= f[l]
<1>1. PICK g : SumRun(g, f, m)
  BY SumSteps
<1> DEFINE S == {n \in 0..m : g[n] >= 0 /\ (n >= l => g[n] >= f[l])}
<1>2. 0 \in S
  BY <1>1 DEF SumRun
<1>3. ASSUME NEW n \in 1..m, n - 1 \in S PROVE n \in S
  <2>1. /\ g[n] = g[n - 1] + f[n] /\ g[n - 1] >= 0 /\ (n - 1 >= l => g[n - 1] >= f[l])
        /\ g[n - 1] \in Int /\ f[n] \in Nat /\ f[l] \in Nat
    BY <1>1, <1>3 DEF SumRun
  <2>2. CASE n = l
    BY <2>1, <2>2
  <2>3. CASE n # l
    BY <2>1, <2>3
  <2> QED
    BY <2>2, <2>3
<1>4. m \in S
  <2> HIDE DEF S
  <2>1. 0..m \subseteq S
    BY <1>2, <1>3, UpTo
  <2> QED
    BY <2>1
<1>5. g[m] >= f[l]
  BY <1>4
<1> QED
  BY <1>1, <1>5 DEF SumRun

\* The values of the items of s, added up.
Value(val, s) == SumOf([i \in 1..Len(s) |-> val[s[i]]], Len(s))

ValueRun(g, val, s) ==
  /\ Value(val, s) = g[Len(s)]
  /\ g \in [0..Len(s) -> Int]
  /\ g[0] = 0
  /\ \A n \in 1..Len(s) : g[n] = g[n - 1] + val[s[n]]

LEMMA ValueSteps ==
  ASSUME NEW A, NEW val \in [A -> Int], NEW s \in Seq(A)
  PROVE  \E g : ValueRun(g, val, s)
<1> DEFINE f == [i \in 1..Len(s) |-> val[s[i]]]
<1>1. Len(s) \in Nat /\ \A n \in 1..Len(s) : f[n] = val[s[n]] /\ f[n] \in Int
  OBVIOUS
<1>2. Value(val, s) = SumOf(f, Len(s))
  BY DEF Value
<1> HIDE DEF f
<1>3. PICK g : SumRun(g, f, Len(s))
  BY <1>1, SumSteps
<1> QED
  BY <1>1, <1>2, <1>3 DEF SumRun, ValueRun

\* The value of what follows adds to it.
LEMMA ValueConcat ==
  ASSUME NEW A, NEW val \in [A -> Int], NEW s \in Seq(A), NEW t \in Seq(A)
  PROVE  /\ Value(val, s \o t) = Value(val, s) + Value(val, t)
         /\ Value(val, s) \in Int
<1>1. PICK u : u = s \o t
  OBVIOUS
<1>2. PICK k \in Nat, m \in Nat : k = Len(s) /\ m = Len(t)
  OBVIOUS
<1>3. /\ u \in Seq(A) /\ Len(u) = k + m
      /\ \A n \in 1..k : u[n] = s[n]
      /\ \A n \in 1..m : u[k + n] = t[n]
  BY <1>1, <1>2
<1>4. PICK g : /\ Value(val, s) = g[k]
               /\ g \in [0..k -> Int] /\ g[0] = 0
               /\ \A n \in 1..k : g[n] = g[n - 1] + val[s[n]]
  <2>1. PICK g : ValueRun(g, val, s)
    BY ValueSteps
  <2> QED
    BY <1>2, <2>1 DEF ValueRun
<1>5. PICK h : /\ Value(val, t) = h[m]
               /\ h \in [0..m -> Int] /\ h[0] = 0
               /\ \A n \in 1..m : h[n] = h[n - 1] + val[t[n]]
  <2>1. PICK h : ValueRun(h, val, t)
    BY ValueSteps
  <2> QED
    BY <1>2, <2>1 DEF ValueRun
<1>6. PICK l : /\ Value(val, u) = l[k + m]
               /\ l \in [0..k + m -> Int] /\ l[0] = 0
               /\ \A n \in 1..k + m : l[n] = l[n - 1] + val[u[n]]
  <2>1. u \in Seq(A)
    BY <1>3
  <2>2. PICK l : ValueRun(l, val, u)
    BY <2>1, ValueSteps
  <2>3. Len(u) = k + m
    BY <1>3
  <2> QED
    BY <2>2, <2>3 DEF ValueRun
<1> DEFINE S == {n \in 0..k : l[n] = g[n]}
           T == {n \in 0..m : l[k + n] = g[k] + h[n]}
<1>7. 0 \in S
  BY <1>4, <1>6
<1>8. ASSUME NEW n \in 1..k, n - 1 \in S PROVE n \in S
  <2>1. n \in 1..k + m /\ l[n - 1] = g[n - 1] /\ n \in 0..k
    BY <1>8
  <2>2. l[n] = l[n - 1] + val[u[n]] /\ u[n] = s[n] /\ g[n] = g[n - 1] + val[s[n]]
    BY <1>3, <1>4, <1>6, <2>1
  <2> QED
    BY <2>1, <2>2
<1>9. k \in S
  <2> HIDE DEF S
  <2>1. 0..k \subseteq S
    BY <1>7, <1>8, UpTo
  <2> QED
    BY <2>1
<1>10. 0 \in T
  BY <1>4, <1>5, <1>9
<1>11. ASSUME NEW n \in 1..m, n - 1 \in T PROVE n \in T
  <2>1. k + n \in 1..k + m /\ l[k + (n - 1)] = g[k] + h[n - 1] /\ n \in 0..m /\ n - 1 \in 0..m
    BY <1>11
  <2>2. (k + n) - 1 = k + (n - 1)
    BY <1>11
  <2>3. /\ l[k + n] = l[k + (n - 1)] + val[t[n]]
        /\ h[n] = h[n - 1] + val[t[n]]
    BY <1>3, <1>5, <1>6, <2>1, <2>2
  <2>4. h[n - 1] \in Int /\ g[k] \in Int
    BY <1>4, <1>5, <2>1
  <2>5. t[n] \in A
    BY <1>2
  <2>6. val[t[n]] \in Int
    BY <2>5
  <2> QED
    BY <2>1, <2>3, <2>4, <2>6
<1>12. m \in T
  <2> HIDE DEF T
  <2>1. 0..m \subseteq T
    BY <1>10, <1>11, UpTo
  <2> QED
    BY <2>1
<1>13. l[k + m] = g[k] + h[m] /\ g[k] \in Int
  BY <1>4, <1>12
<1> QED
  BY <1>1, <1>4, <1>5, <1>6, <1>13

-----------------------------------------------------------------------------
(* Sequences in a row, as FlattenSeq puts them *)

\* The first n of ss in a row, for every n.
JoinRun(g, A, ss) ==
  /\ \A n \in 0..Len(ss) : g[n] \in Seq(A)
  /\ g[0] = <<>>
  /\ \A n \in 1..Len(ss) : g[n] = g[n - 1] \o ss[n]

\* F is the sequences ss in a row: it has their items, and its values add up to theirs;
\* where the keys of each rise, and from each to the next, they rise.
AreJoined(F, A, ss) ==
  /\ F \in Seq(A)
  /\ \A i \in 1..Len(F) : \E k \in 1..Len(ss) : \E j \in 1..Len(ss[k]) : F[i] = ss[k][j]
  /\ \A k \in 1..Len(ss) : \A j \in 1..Len(ss[k]) : \E i \in 1..Len(F) : F[i] = ss[k][j]

\* The items of s come before those of t.
Before(s, t, key) == \A i \in 1..Len(s), j \in 1..Len(t) : key[s[i]] < key[t[j]]

LEMMA JoinedAre ==
  ASSUME NEW A, NEW ss \in Seq(Seq(A)), NEW g, JoinRun(g, A, ss)
  PROVE  AreJoined(g[Len(ss)], A, ss)
<1> DEFINE From(n) == \A i \in 1..Len(g[n]) :
                        \E k \in 1..n : \E j \in 1..Len(ss[k]) : g[n][i] = ss[k][j]
           All(n) == \A k \in 1..n : \A j \in 1..Len(ss[k]) :
                       \E i \in 1..Len(g[n]) : g[n][i] = ss[k][j]
           S == {n \in 0..Len(ss) : From(n) /\ All(n)}
<1>1. 0 \in S
  BY DEF JoinRun
<1>2. ASSUME NEW n \in 1..Len(ss), n - 1 \in S PROVE n \in S
  <2>0. PICK a, b, s : a = g[n - 1] /\ b = g[n] /\ s = ss[n]
    OBVIOUS
  <2>1. /\ a \in Seq(A) /\ s \in Seq(A) /\ n \in 0..Len(ss) /\ b = a \o s
        /\ \A i \in 1..Len(a) : \E k \in 1..n - 1 : \E j \in 1..Len(ss[k]) : a[i] = ss[k][j]
        /\ \A k \in 1..n - 1 : \A j \in 1..Len(ss[k]) : \E i \in 1..Len(a) : a[i] = ss[k][j]
    <3>1. ss[n] \in Seq(A) /\ n \in 0..Len(ss) /\ n - 1 \in 0..Len(ss)
      OBVIOUS
    <3>2. g[n - 1] \in Seq(A) /\ g[n] = g[n - 1] \o ss[n]
      BY <3>1 DEF JoinRun
    <3>3. From(n - 1) /\ All(n - 1)
      BY <1>2
    <3> QED
      BY <2>0, <3>1, <3>2, <3>3
  <2>2. PICK l \in Nat, m \in Nat : l = Len(a) /\ m = Len(s)
    BY <2>1
  <2>3. /\ Len(b) = l + m
        /\ \A i \in 1..l : b[i] = a[i]
        /\ \A i \in 1..m : b[l + i] = s[i]
    BY <2>1, <2>2
  <2>4. ASSUME NEW i \in 1..Len(b)
        PROVE  \E k \in 1..n : \E j \in 1..Len(ss[k]) : b[i] = ss[k][j]
    <3>1. CASE i \in 1..l
      <4>1. PICK k \in 1..n - 1 : \E j \in 1..Len(ss[k]) : a[i] = ss[k][j]
        BY <2>1, <2>2, <3>1
      <4>2. k \in 1..n /\ b[i] = a[i]
        BY <2>3, <3>1
      <4> QED
        BY <4>1, <4>2
    <3>2. CASE i \notin 1..l
      <4>1. PICK j \in 1..m : i = l + j
        <5>1. i - l \in 1..m /\ i = l + (i - l)
          BY <2>2, <2>3, <3>2
        <5> QED
          BY <5>1
      <4>2. b[i] = ss[n][j] /\ j \in 1..Len(ss[n]) /\ n \in 1..n
        BY <2>0, <2>2, <2>3, <4>1
      <4> QED
        BY <4>2
    <3> QED
      BY <3>1, <3>2
  <2>5. ASSUME NEW k \in 1..n, NEW j \in 1..Len(ss[k])
        PROVE  \E i \in 1..Len(b) : b[i] = ss[k][j]
    <3>1. CASE k = n
      <4>a. j \in 1..m
        BY <2>0, <2>2, <3>1
      <4>1. j \in 1..m /\ l + j \in 1..Len(b)
        BY <2>3, <4>a
      <4>2. b[l + j] = ss[k][j]
        BY <2>0, <2>3, <3>1, <4>1
      <4> QED
        BY <4>1, <4>2
    <3>2. CASE k # n
      <4>1. k \in 1..n - 1
        BY <3>2
      <4>2. PICK i \in 1..Len(a) : a[i] = ss[k][j]
        BY <2>1, <4>1
      <4>3. i \in 1..Len(b) /\ b[i] = a[i]
        BY <2>2, <2>3
      <4> QED
        BY <4>2, <4>3
    <3> QED
      BY <3>1, <3>2
  <2>6. From(n) /\ All(n)
    BY <2>0, <2>4, <2>5
  <2> HIDE DEF From, All
  <2> QED
    BY <2>1, <2>6
<1>3. Len(ss) \in Nat /\ Len(ss) \in 0..Len(ss)
  OBVIOUS
<1>4. Len(ss) \in S
  <2> HIDE DEF S
  <2>1. 0..Len(ss) \subseteq S
    BY <1>1, <1>2, <1>3, UpTo
  <2> QED
    BY <1>3, <2>1
<1>5. From(Len(ss)) /\ All(Len(ss))
  BY <1>4
<1>6. g[Len(ss)] \in Seq(A)
  BY <1>3 DEF JoinRun
<1> QED
  BY <1>5, <1>6 DEF AreJoined

\* What rises from one to the next rises in a row.
LEMMA JoinedRise ==
  ASSUME NEW A, NEW ss \in Seq(Seq(A)), NEW g, JoinRun(g, A, ss), NEW key \in [A -> Int],
         \A k \in 1..Len(ss) : Rises(ss[k], key),
         \A k, l \in 1..Len(ss) : k < l => Before(ss[k], ss[l], key)
  PROVE  Rises(g[Len(ss)], key)
<1> DEFINE Prior(n) == \A l \in n + 1..Len(ss) : Before(g[n], ss[l], key)
           S == {n \in 0..Len(ss) : Rises(g[n], key) /\ Prior(n)}
<1>1. 0 \in S
  BY DEF JoinRun, Rises, Before
<1>2. ASSUME NEW n \in 1..Len(ss), n - 1 \in S PROVE n \in S
  <2>0. PICK a, b, s : a = g[n - 1] /\ b = g[n] /\ s = ss[n]
    OBVIOUS
  <2>1. /\ a \in Seq(A) /\ s \in Seq(A) /\ n \in 0..Len(ss) /\ b = a \o s
        /\ Rises(a, key) /\ Rises(s, key)
        /\ \A l \in n..Len(ss) : Before(a, ss[l], key)
    <3>1. (n - 1) + 1 = n /\ n - 1 \in 0..Len(ss)
      OBVIOUS
    <3>2. Rises(g[n - 1], key) /\ Prior(n - 1)
      BY <1>2
    <3>3. \A l \in n..Len(ss) : Before(g[n - 1], ss[l], key)
      BY <3>1, <3>2
    <3>4. g[n - 1] \in Seq(A) /\ g[n] = g[n - 1] \o ss[n]
      BY <3>1 DEF JoinRun
    <3>5. ss[n] \in Seq(A) /\ n \in 0..Len(ss)
      OBVIOUS
    <3> QED
      BY <2>0, <3>2, <3>3, <3>4, <3>5
  <2>2. PICK p \in Nat, m \in Nat : p = Len(a) /\ m = Len(s)
    BY <2>1
  <2>3. /\ Len(b) = p + m
        /\ \A i \in 1..p : b[i] = a[i]
        /\ \A i \in 1..m : b[p + i] = s[i]
    BY <2>1, <2>2
  <2>4. \A i \in 1..p + m : i \in 1..p \/ \E j \in 1..m : i = p + j
    <3> SUFFICES ASSUME NEW i \in 1..p + m, i \notin 1..p PROVE \E j \in 1..m : i = p + j
      OBVIOUS
    <3>1. i - p \in 1..m /\ i = p + (i - p)
      OBVIOUS
    <3> QED
      BY <3>1
  <2>5. ASSUME NEW i \in 1..p + m, NEW j \in 1..p + m, i < j PROVE key[b[i]] < key[b[j]]
    <3>1. CASE j \in 1..p
      <4>1. i \in 1..p
        BY <2>5, <3>1
      <4> QED
        BY <2>1, <2>2, <2>3, <2>5, <3>1, <4>1 DEF Rises
    <3>2. CASE j \notin 1..p
      <4>1. PICK jj \in 1..m : j = p + jj
        BY <2>4, <3>2
      <4>2. CASE i \in 1..p
        <5>1. n \in n..Len(ss)
          OBVIOUS
        <5>2. Before(a, s, key)
          BY <2>0, <2>1, <5>1
        <5> QED
          BY <2>2, <2>3, <4>1, <4>2, <5>2 DEF Before
      <4>3. CASE i \notin 1..p
        <5>1. PICK ii \in 1..m : i = p + ii
          BY <2>4, <4>3
        <5>2. ii < jj
          BY <2>5, <4>1, <5>1
        <5> QED
          BY <2>1, <2>2, <2>3, <4>1, <5>1, <5>2 DEF Rises
      <4> QED
        BY <4>2, <4>3
    <3> QED
      BY <3>1, <3>2
  <2>6. Rises(b, key)
    BY <2>3, <2>5 DEF Rises
  <2>7. ASSUME NEW l \in n + 1..Len(ss) PROVE Before(b, ss[l], key)
    <3>1. l \in n..Len(ss) /\ l \in 1..Len(ss) /\ n < l
      OBVIOUS
    <3>2. Before(a, ss[l], key) /\ Before(s, ss[l], key)
      BY <2>0, <2>1, <3>1
    <3> SUFFICES ASSUME NEW i \in 1..Len(b), NEW j \in 1..Len(ss[l])
                 PROVE  key[b[i]] < key[ss[l][j]]
      BY DEF Before
    <3>3. CASE i \in 1..p
      BY <2>2, <2>3, <3>2, <3>3 DEF Before
    <3>4. CASE i \notin 1..p
      <4>1. PICK ii \in 1..m : i = p + ii
        BY <2>3, <2>4, <3>4
      <4> QED
        BY <2>2, <2>3, <3>2, <4>1 DEF Before
    <3> QED
      BY <3>3, <3>4
  <2>8. Rises(g[n], key) /\ Prior(n)
    BY <2>0, <2>6, <2>7
  <2> HIDE DEF Prior
  <2> QED
    BY <2>1, <2>8
<1>3. Len(ss) \in Nat /\ Len(ss) \in 0..Len(ss)
  OBVIOUS
<1>4. Len(ss) \in S
  <2> HIDE DEF S
  <2>1. 0..Len(ss) \subseteq S
    BY <1>1, <1>2, <1>3, UpTo
  <2> QED
    BY <1>3, <2>1
<1> QED
  BY <1>4

\* The value of sequences in a row is the sum of theirs.
LEMMA JoinedValue ==
  ASSUME NEW A, NEW ss \in Seq(Seq(A)), NEW g, JoinRun(g, A, ss), NEW val \in [A -> Int]
  PROVE  Value(val, g[Len(ss)]) = SumOf([k \in 1..Len(ss) |-> Value(val, ss[k])], Len(ss))
<1> DEFINE f == [k \in 1..Len(ss) |-> Value(val, ss[k])]
<1>0. Len(ss) \in Nat /\ Len(ss) \in 0..Len(ss)
  OBVIOUS
<1>1. \A k \in 1..Len(ss) : f[k] = Value(val, ss[k]) /\ f[k] \in Int
  <2> TAKE k \in 1..Len(ss)
  <2>1. ss[k] \in Seq(A)
    OBVIOUS
  <2>2. Value(val, ss[k]) \in Int
    BY <2>1, ValueConcat
  <2> QED
    BY <2>2
<1> HIDE DEF f
<1>2. PICK h : SumRun(h, f, Len(ss))
  BY <1>0, <1>1, SumSteps
<1> DEFINE S == {n \in 0..Len(ss) : Value(val, g[n]) = h[n]}
<1>3. 0 \in S
  <2>1. <<>> \in Seq(A) /\ Len(<<>>) = 0
    OBVIOUS
  <2>2. PICK l : ValueRun(l, val, <<>>)
    BY <2>1, ValueSteps
  <2> QED
    BY <1>2, <2>1, <2>2 DEF JoinRun, SumRun, ValueRun
<1>4. ASSUME NEW n \in 1..Len(ss), n - 1 \in S PROVE n \in S
  <2>1. /\ g[n - 1] \in Seq(A) /\ ss[n] \in Seq(A) /\ g[n] = g[n - 1] \o ss[n]
        /\ h[n] = h[n - 1] + f[n] /\ n \in 0..Len(ss)
    <3>1. ss[n] \in Seq(A) /\ n \in 0..Len(ss) /\ n - 1 \in 0..Len(ss)
      OBVIOUS
    <3> QED
      BY <1>2, <3>1 DEF JoinRun, SumRun
  <2>2. Value(val, g[n - 1] \o ss[n]) = Value(val, g[n - 1]) + Value(val, ss[n])
    BY <2>1, ValueConcat
  <2>3. Value(val, g[n - 1]) = h[n - 1] /\ f[n] = Value(val, ss[n])
    BY <1>1, <1>4
  <2> QED
    BY <2>1, <2>2, <2>3
<1>5. Len(ss) \in S
  <2> HIDE DEF S
  <2>1. 0..Len(ss) \subseteq S
    BY <1>0, <1>3, <1>4, UpTo
  <2> QED
    BY <1>0, <2>1
<1>6. Value(val, g[Len(ss)]) = SumOf(f, Len(ss))
  BY <1>2, <1>5 DEF SumRun
<1> QED
  BY <1>6 DEF f

-----------------------------------------------------------------------------
(* What sorts and filters do to values *)

\* To put one more in behind its equals adds its value.
LEMMA InsertedSum ==
  ASSUME NEW n \in Nat, n >= 1, NEW key, \A i \in 1..n : key[i] \in Int,
         NEW r, IsRank(r, n - 1, key), NEW w \in [1..n -> Int]
  PROVE  SumOf([i \in 1..n |-> w[Inserted(r, n, key)[i]]], n)
           = SumOf([i \in 1..n - 1 |-> w[r[i]]], n - 1) + w[n]
<1>1. PICK t : t = Inserted(r, n, key)
  OBVIOUS
<1>2. ASSUME NEW i \in 1..n
      PROVE  t[i] = IF i < n /\ key[r[i]] <= key[n] THEN r[i]
                    ELSE IF i = 1 \/ key[r[i - 1]] <= key[n] THEN n
                    ELSE r[i - 1]
  BY <1>1 DEF Inserted
<1>3. /\ r \in [1..n - 1 -> 1..n - 1]
      /\ \A i, k \in 1..n - 1 : i < k => key[r[i]] <= key[r[k]]
  BY DEF IsRank
<1>4. ASSUME NEW i \in 1..n - 1 PROVE r[i] \in 1..n /\ key[r[i]] \in Int /\ w[r[i]] \in Int
  <2>1. r[i] \in 1..n - 1
    BY <1>3
  <2>2. r[i] \in 1..n
    BY <2>1
  <2> QED
    BY <2>2
<1>5. IsRank(t, n, key)
  BY <1>1, InsertedIsRank
<1>6. \A i \in 1..n : t[i] \in 1..n /\ w[t[i]] \in Int
  BY <1>5 DEF IsRank
<1> DEFINE f == [i \in 1..n |-> w[t[i]]]
           h == [i \in 1..n - 1 |-> w[r[i]]]
<1>7. \A i \in 1..n : f[i] = w[t[i]] /\ f[i] \in Int
  BY <1>6
<1>8. n - 1 \in Nat /\ \A i \in 1..n - 1 : h[i] = w[r[i]] /\ h[i] \in Int
  BY <1>4
<1> HIDE DEF f, h
<1>9. PICK g : SumRun(g, f, n)
  BY <1>7, SumSteps
<1>10. PICK l : SumRun(l, h, n - 1)
  BY <1>8, SumSteps
<1>11. /\ g \in [0..n -> Int] /\ g[0] = 0 /\ SumOf(f, n) = g[n]
       /\ \A i \in 1..n : g[i] = g[i - 1] + w[t[i]]
       /\ l \in [0..n - 1 -> Int] /\ l[0] = 0 /\ SumOf(h, n - 1) = l[n - 1]
       /\ \A i \in 1..n - 1 : l[i] = l[i - 1] + w[r[i]]
  BY <1>7, <1>8, <1>9, <1>10 DEF SumRun
<1> DEFINE still(i) == i < n /\ (i = 0 \/ key[r[i]] <= key[n])
           S == {i \in 0..n : /\ still(i) => g[i] = l[i]
                              /\ ~still(i) => g[i] = l[i - 1] + w[n]}
<1>12. 0 \in S
  BY <1>11
<1>13. ASSUME NEW i \in 1..n, i - 1 \in S PROVE i \in S
  <2>1. /\ g[i] = g[i - 1] + w[t[i]] /\ i \in 0..n /\ i - 1 \in 0..n - 1
        /\ i < n => l[i] = l[i - 1] + w[r[i]]
        /\ i > 1 => l[i - 1] = l[i - 2] + w[r[i - 1]]
    <3>1. i > 1 => l[i - 1] = l[i - 2] + w[r[i - 1]]
      <4> SUFFICES ASSUME i > 1 PROVE l[i - 1] = l[i - 2] + w[r[i - 1]]
        OBVIOUS
      <4>1. PICK j : j = i - 1
        OBVIOUS
      <4>2. j \in 1..n - 1 /\ i - 2 = j - 1
        BY <4>1
      <4>3. l[j] = l[j - 1] + w[r[j]]
        BY <1>11, <4>2
      <4> QED
        BY <4>1, <4>2, <4>3
    <3>2. i < n => l[i] = l[i - 1] + w[r[i]]
      <4> SUFFICES ASSUME i < n PROVE l[i] = l[i - 1] + w[r[i]]
        OBVIOUS
      <4>1. i \in 1..n - 1
        OBVIOUS
      <4> QED
        BY <1>11, <4>1
    <3>3. g[i] = g[i - 1] + w[t[i]]
      BY <1>11
    <3>4. i \in 0..n /\ i - 1 \in 0..n - 1
      OBVIOUS
    <3> QED
      BY ONLY <3>1, <3>2, <3>3, <3>4
  <2>2. /\ still(i - 1) => g[i - 1] = l[i - 1]
        /\ ~still(i - 1) => g[i - 1] = l[(i - 1) - 1] + w[n]
    BY <1>13
  <2>3. CASE still(i)
    <3>1. t[i] = r[i] /\ i < n /\ key[r[i]] <= key[n]
      BY <1>2, <2>3
    <3>2. still(i - 1)
      <4>1. CASE i = 1
        BY <4>1
      <4>2. CASE i # 1
        <5>1. i - 1 \in 1..n - 1 /\ i \in 1..n - 1 /\ i - 1 < i
          BY <3>1, <4>2
        <5>2. key[r[i - 1]] <= key[r[i]] /\ key[r[i - 1]] \in Int /\ key[r[i]] \in Int
          BY <1>3, <1>4, <5>1
        <5>3. n \in 1..n
          OBVIOUS
        <5>4. key[n] \in Int
          BY <5>3
        <5> QED
          BY <3>1, <5>1, <5>2, <5>4
      <4> QED
        BY <4>1, <4>2
    <3>3. g[i] = l[i]
      BY <2>1, <2>2, <3>1, <3>2
    <3> QED
      BY <2>1, <2>3, <3>3
  <2>4. CASE ~still(i)
    <3>1. CASE still(i - 1)
      <4>1. i = 1 \/ key[r[i - 1]] <= key[n]
        BY <3>1
      <4>2. t[i] = n
        BY <1>2, <2>4, <4>1
      <4>3. g[i] = l[i - 1] + w[n]
        BY <2>1, <2>2, <3>1, <4>2
      <4> QED
        BY <2>1, <2>4, <4>3
    <3>2. CASE ~still(i - 1)
      <4>1. i > 1 /\ i - 1 < n /\ ~(key[r[i - 1]] <= key[n])
        BY <3>2
      <4>2. t[i] = r[i - 1]
        BY <1>2, <2>4, <4>1
      <4>3. g[i - 1] = l[i - 2] + w[n]
        BY <2>2, <3>2
      <4>4. l[i - 2] \in Int /\ w[n] \in Int /\ w[r[i - 1]] \in Int
        <5>1. i - 2 \in 0..n - 1 /\ n \in 1..n /\ i - 1 \in 1..n - 1
          BY <4>1
        <5> QED
          BY <1>4, <1>11, <5>1
      <4>5. g[i] = g[i - 1] + w[r[i - 1]] /\ l[i - 1] = l[i - 2] + w[r[i - 1]]
        BY <2>1, <4>1, <4>2
      <4>6. g[i] = l[i - 1] + w[n]
        BY ONLY <4>3, <4>4, <4>5
      <4> QED
        BY <2>1, <2>4, <4>6
    <3> QED
      BY <3>1, <3>2
  <2> QED
    BY <2>3, <2>4
<1>14. n \in S
  <2> HIDE DEF S
  <2>1. 0..n \subseteq S
    BY <1>12, <1>13, UpTo
  <2> QED
    BY <2>1
<1>15. g[n] = l[n - 1] + w[n]
  BY <1>14
<1> QED
  BY <1>1, <1>11, <1>15 DEF f, h

\* The items in the order of their ranks have the same sum.
LEMMA RankedSum ==
  ASSUME NEW m \in Nat, NEW key, \A i \in 1..m : key[i] \in Int, NEW w \in [1..m -> Int]
  PROVE  SumOf([i \in 1..m |-> w[Ranked(key, m)[i]]], m) = SumOf(w, m)
<1>1. PICK f : RankedRun(f, m, key)
  BY RankedSteps
<1>2. PICK g : SumRun(g, w, m)
  <2>1. \A n \in 1..m : w[n] \in Int
    OBVIOUS
  <2> QED
    BY <2>1, SumSteps
<1> DEFINE sum(n) == SumOf([i \in 1..n |-> w[f[n][i]]], n)
           S == {n \in 0..m : sum(n) = g[n]}
<1>3. 0 \in S
  <2>1. PICK x : x = [i \in 1..0 |-> w[f[0][i]]]
    OBVIOUS
  <2>2. PICK l : SumRun(l, x, 0)
    <3>1. 0 \in Nat /\ \A n \in 1..0 : x[n] \in Int
      OBVIOUS
    <3> QED
      BY ONLY <3>1, SumSteps
  <2>3. SumOf(x, 0) = 0
    BY <2>2 DEF SumRun
  <2> QED
    BY <1>2, <2>1, <2>3 DEF SumRun
<1>4. ASSUME NEW n \in 1..m, n - 1 \in S PROVE n \in S
  <2>1. /\ n \in Nat /\ n >= 1 /\ n \in 0..m /\ n - 1 \in 0..m
        /\ \A i \in 1..n : key[i] \in Int /\ w[i] \in Int
    OBVIOUS
  <2>2. PICK r : r = f[n - 1] /\ IsRank(r, n - 1, key) /\ f[n] = Inserted(r, n, key)
    BY <1>1, <2>1 DEF RankedRun
  <2>3. PICK v \in [1..n -> Int] : \A i \in 1..n : v[i] = w[i]
    <3> DEFINE u == [i \in 1..n |-> w[i]]
    <3>1. u \in [1..n -> Int] /\ \A i \in 1..n : u[i] = w[i]
      BY <2>1
    <3> QED
      BY <3>1
  <2>4. SumOf([i \in 1..n |-> v[Inserted(r, n, key)[i]]], n)
          = SumOf([i \in 1..n - 1 |-> v[r[i]]], n - 1) + v[n]
    <3>1. n \in Nat /\ n >= 1 /\ (\A i \in 1..n : key[i] \in Int) /\ IsRank(r, n - 1, key)
      BY ONLY <2>1, <2>2
    <3> QED
      BY ONLY <3>1, v \in [1..n -> Int], InsertedSum
  <2>5. [i \in 1..n |-> v[Inserted(r, n, key)[i]]] = [i \in 1..n |-> w[f[n][i]]]
    <3>1. IsRank(f[n], n, key)
      BY <1>1, <2>1 DEF RankedRun
    <3>2. \A i \in 1..n : f[n][i] \in 1..n
      BY <3>1 DEF IsRank
    <3>3. \A i \in 1..n : v[Inserted(r, n, key)[i]] = w[f[n][i]]
      BY ONLY <2>2, <2>3, <3>2
    <3> QED
      BY ONLY <3>3
  <2>6. [i \in 1..n - 1 |-> v[r[i]]] = [i \in 1..n - 1 |-> w[f[n - 1][i]]]
    <3>1. \A i \in 1..n - 1 : r[i] \in 1..n - 1
      BY <2>2 DEF IsRank
    <3>2. \A i \in 1..n - 1 : v[r[i]] = w[r[i]]
      BY <2>3, <3>1
    <3> QED
      BY <2>2, <3>2
  <2>7. v[n] = w[n] /\ g[n] = g[n - 1] + w[n] /\ sum(n - 1) = g[n - 1]
    <3>1. n \in 1..n
      BY ONLY <2>1
    <3>2. v[n] = w[n]
      BY ONLY <2>3, <3>1
    <3>3. g[n] = g[n - 1] + w[n]
      BY <1>2 DEF SumRun
    <3>4. sum(n - 1) = g[n - 1]
      BY <1>4
    <3> QED
      BY ONLY <3>2, <3>3, <3>4
  <2>8. sum(n) = sum(n - 1) + w[n]
    BY ONLY <2>4, <2>5, <2>6, <2>7
  <2>9. sum(n) = g[n]
    BY ONLY <2>7, <2>8
  <2> QED
    BY <2>1, <2>9
<1>5. m \in S
  <2> HIDE DEF S
  <2>1. 0..m \subseteq S
    BY <1>3, <1>4, UpTo
  <2> QED
    BY <2>1
<1>6. sum(m) = g[m] /\ f[m] = Ranked(key, m) /\ g[m] = SumOf(w, m)
  BY <1>1, <1>2, <1>5 DEF RankedRun, SumRun
<1> QED
  BY <1>6

\* A sort keeps the value.
LEMMA SortedValue ==
  ASSUME NEW A, NEW val \in [A -> Int], NEW s \in Seq(A),
         NEW key, \A i \in 1..Len(s) : key[i] \in Int
  PROVE  Value(val, Sorted(s, key)) = Value(val, s)
<1>a. PICK m \in Nat : m = Len(s)
  OBVIOUS
<1>1. PICK r : m = Len(s) /\ r = Ranked(key, m)
  BY <1>a
<1>2. PICK w \in [1..m -> Int] : w = [i \in 1..m |-> val[s[i]]]
  <2>1. \A i \in 1..m : val[s[i]] \in Int
    BY <1>1
  <2> QED
    BY <2>1
<1>3. SumOf([i \in 1..m |-> w[r[i]]], m) = SumOf(w, m)
  <2>1. \A i \in 1..m : key[i] \in Int
    BY <1>1
  <2>2. SumOf([i \in 1..m |-> w[Ranked(key, m)[i]]], m) = SumOf(w, m)
    BY ONLY m \in Nat, w \in [1..m -> Int], <2>1, RankedSum
  <2> QED
    BY ONLY <1>1, <2>2
<1>4. r \in [1..m -> 1..m]
  <2>1. IsRank(r, m, key)
    BY <1>1, RankedIsRank
  <2> QED
    BY <2>1 DEF IsRank
<1>5. PICK t : t = Sorted(s, key)
  OBVIOUS
<1>6. t = [i \in 1..m |-> s[r[i]]]
  BY <1>1, <1>5 DEF Sorted
<1>7. Len(t) = m /\ \A i \in 1..m : t[i] = s[r[i]]
  BY <1>1, <1>6
<1>8. [i \in 1..m |-> w[r[i]]] = [i \in 1..m |-> val[t[i]]]
  BY <1>2, <1>4, <1>7
<1>9. Value(val, t) = SumOf([i \in 1..m |-> val[t[i]]], m)
  BY <1>7 DEF Value
<1>10. Value(val, s) = SumOf(w, m)
  BY <1>1, <1>2 DEF Value
<1> QED
  BY <1>3, <1>5, <1>8, <1>9, <1>10

\* One more item adds its value.
LEMMA ValueAppend ==
  ASSUME NEW A, NEW val \in [A -> Int], NEW s \in Seq(A), NEW x \in A
  PROVE  Value(val, Append(s, x)) = Value(val, s) + val[x]
<1>1. <<x>> \in Seq(A) /\ Append(s, x) = s \o <<x>> /\ Len(<<x>>) = 1 /\ <<x>>[1] = x
  OBVIOUS
<1>2. PICK g : ValueRun(g, val, <<x>>)
  BY <1>1, ValueSteps
<1>3. Value(val, <<x>>) = val[x]
  <2>1. Value(val, <<x>>) = g[1] /\ g[0] = 0 /\ g[1] = g[0] + val[x]
    BY <1>1, <1>2 DEF ValueRun
  <2>2. val[x] \in Int
    OBVIOUS
  <2> QED
    BY <2>1, <2>2
<1>4. Value(val, s \o <<x>>) = Value(val, s) + Value(val, <<x>>)
  BY <1>1, ValueConcat
<1> QED
  BY ONLY <1>1, <1>3, <1>4

\* A filter keeps the value where it leaves out what has none.
LEMMA ThoseValue ==
  ASSUME NEW A, NEW val \in [A -> Int], NEW s \in Seq(A), NEW is,
         \A i \in 1..Len(s) : i \notin is => val[s[i]] = 0
  PROVE  Value(val, Those(s, is)) = Value(val, s)
<1>1. PICK f : ThoseRun(f, A, s, is)
  BY ThoseSteps
<1>2. PICK g : ValueRun(g, val, s)
  BY ValueSteps
<1> DEFINE S == {n \in 0..Len(s) : Value(val, f[n]) = g[n]}
<1>3. 0 \in S
  <2>1. <<>> \in Seq(A) /\ Len(<<>>) = 0
    OBVIOUS
  <2>2. PICK l : ValueRun(l, val, <<>>)
    BY <2>1, ValueSteps
  <2> QED
    BY <1>1, <1>2, <2>1, <2>2 DEF ThoseRun, ValueRun
<1>4. ASSUME NEW n \in 1..Len(s), n - 1 \in S PROVE n \in S
  <2>1. /\ n \in 0..Len(s) /\ n - 1 \in 0..Len(s) /\ s[n] \in A
    OBVIOUS
  <2>2. /\ f[n - 1] \in Seq(A) /\ Value(val, f[n - 1]) = g[n - 1]
        /\ f[n] = IF n \in is THEN Append(f[n - 1], s[n]) ELSE f[n - 1]
        /\ g[n] = g[n - 1] + val[s[n]] /\ g[n - 1] \in Int
    BY <1>1, <1>2, <1>4, <2>1 DEF ThoseRun, ValueRun
  <2>3. CASE n \in is
    <3>1. Value(val, Append(f[n - 1], s[n])) = Value(val, f[n - 1]) + val[s[n]]
      BY <2>1, <2>2, ValueAppend
    <3> QED
      BY <2>1, <2>2, <2>3, <3>1
  <2>4. CASE n \notin is
    <3>1. val[s[n]] = 0
      BY <2>4
    <3> QED
      BY <2>1, <2>2, <2>4, <3>1
  <2> QED
    BY <2>3, <2>4
<1>5. Len(s) \in S
  <2> HIDE DEF S
  <2>1. Len(s) \in Nat /\ Len(s) \in 0..Len(s)
    OBVIOUS
  <2>2. 0..Len(s) \subseteq S
    BY <1>3, <1>4, <2>1, UpTo
  <2> QED
    BY <2>1, <2>2
<1> QED
  BY <1>1, <1>2, <1>5 DEF ThoseRun, ValueRun

\* No two items of s have the same key.
Distinct(s, key) == \A i, j \in 1..Len(s) : i # j => key[s[i]] # key[s[j]]

\* What is distinct in each and rises from one to the next is distinct in a row.
LEMMA JoinedDistinct ==
  ASSUME NEW A, NEW ss \in Seq(Seq(A)), NEW g, JoinRun(g, A, ss), NEW key \in [A -> Int],
         \A k \in 1..Len(ss) : Distinct(ss[k], key),
         \A k, l \in 1..Len(ss) : k < l => Before(ss[k], ss[l], key)
  PROVE  Distinct(g[Len(ss)], key)
<1> DEFINE Prior(n) == \A l \in n + 1..Len(ss) : Before(g[n], ss[l], key)
           S == {n \in 0..Len(ss) : Distinct(g[n], key) /\ Prior(n)}
<1>1. 0 \in S
  BY DEF JoinRun, Distinct, Before
<1>2. ASSUME NEW n \in 1..Len(ss), n - 1 \in S PROVE n \in S
  <2>0. PICK a, b, s : a = g[n - 1] /\ b = g[n] /\ s = ss[n]
    OBVIOUS
  <2>1. /\ a \in Seq(A) /\ s \in Seq(A) /\ n \in 0..Len(ss) /\ b = a \o s
        /\ Distinct(a, key) /\ Distinct(s, key)
        /\ \A l \in n..Len(ss) : Before(a, ss[l], key)
    <3>1. (n - 1) + 1 = n /\ n - 1 \in 0..Len(ss)
      OBVIOUS
    <3>2. Distinct(g[n - 1], key) /\ Prior(n - 1)
      BY <1>2
    <3>3. \A l \in n..Len(ss) : Before(g[n - 1], ss[l], key)
      BY <3>1, <3>2
    <3>4. g[n - 1] \in Seq(A) /\ g[n] = g[n - 1] \o ss[n]
      BY <3>1 DEF JoinRun
    <3>5. ss[n] \in Seq(A) /\ n \in 0..Len(ss)
      OBVIOUS
    <3> QED
      BY <2>0, <3>2, <3>3, <3>4, <3>5
  <2>2. PICK p \in Nat, m \in Nat : p = Len(a) /\ m = Len(s)
    BY <2>1
  <2>3. /\ Len(b) = p + m
        /\ \A i \in 1..p : b[i] = a[i] /\ key[a[i]] \in Int
        /\ \A i \in 1..m : b[p + i] = s[i] /\ key[s[i]] \in Int
    BY <2>1, <2>2
  <2>4. \A i \in 1..p + m : i \in 1..p \/ \E j \in 1..m : i = p + j
    <3> SUFFICES ASSUME NEW i \in 1..p + m, i \notin 1..p PROVE \E j \in 1..m : i = p + j
      OBVIOUS
    <3>1. i - p \in 1..m /\ i = p + (i - p)
      OBVIOUS
    <3> QED
      BY <3>1
  <2>a. \A i \in 1..p, j \in 1..m : key[b[i]] < key[b[p + j]] /\ key[b[i]] \in Int
    <3>1. n \in n..Len(ss)
      OBVIOUS
    <3>2. Before(a, s, key)
      BY <2>0, <2>1, <3>1
    <3> QED
      BY <2>2, <2>3, <3>2 DEF Before
  <2>5. ASSUME NEW i \in 1..p + m, NEW j \in 1..p + m, i # j PROVE key[b[i]] # key[b[j]]
    <3>1. CASE i \in 1..p /\ j \in 1..p
      BY <2>1, <2>2, <2>3, <2>5, <3>1 DEF Distinct
    <3>2. CASE i \in 1..p /\ j \notin 1..p
      <4>1. PICK k \in 1..m : j = p + k
        BY <2>4, <3>2
      <4>2. key[b[i]] < key[b[j]] /\ key[b[i]] \in Int
        BY <2>a, <3>2, <4>1
      <4> QED
        BY ONLY <4>2
    <3>3. CASE i \notin 1..p /\ j \in 1..p
      <4>1. PICK k \in 1..m : i = p + k
        BY <2>4, <3>3
      <4>2. key[b[j]] < key[b[i]] /\ key[b[j]] \in Int
        BY <2>a, <3>3, <4>1
      <4> QED
        BY ONLY <4>2
    <3>4. CASE i \notin 1..p /\ j \notin 1..p
      <4>1. PICK k \in 1..m, l \in 1..m : i = p + k /\ j = p + l
        BY <2>4, <3>4
      <4>2. k # l
        BY <2>5, <4>1
      <4> QED
        BY <2>1, <2>2, <2>3, <4>1, <4>2 DEF Distinct
    <3> QED
      BY <3>1, <3>2, <3>3, <3>4
  <2>6. Distinct(b, key)
    BY <2>3, <2>5 DEF Distinct
  <2>7. ASSUME NEW l \in n + 1..Len(ss) PROVE Before(b, ss[l], key)
    <3>1. l \in n..Len(ss) /\ l \in 1..Len(ss) /\ n < l
      OBVIOUS
    <3>2. Before(a, ss[l], key) /\ Before(s, ss[l], key)
      BY <2>0, <2>1, <3>1
    <3> SUFFICES ASSUME NEW i \in 1..Len(b), NEW j \in 1..Len(ss[l])
                 PROVE  key[b[i]] < key[ss[l][j]]
      BY DEF Before
    <3>3. CASE i \in 1..p
      BY <2>2, <2>3, <3>2, <3>3 DEF Before
    <3>4. CASE i \notin 1..p
      <4>1. PICK k \in 1..m : i = p + k
        BY <2>3, <2>4, <3>4
      <4> QED
        BY <2>2, <2>3, <3>2, <4>1 DEF Before
    <3> QED
      BY <3>3, <3>4
  <2>8. Distinct(g[n], key) /\ Prior(n)
    BY <2>0, <2>6, <2>7
  <2> HIDE DEF Prior
  <2> QED
    BY <2>1, <2>8
<1>3. Len(ss) \in Nat /\ Len(ss) \in 0..Len(ss)
  OBVIOUS
<1>4. Len(ss) \in S
  <2> HIDE DEF S
  <2>1. 0..Len(ss) \subseteq S
    BY <1>1, <1>2, <1>3, UpTo
  <2> QED
    BY <1>3, <2>1
<1> QED
  BY <1>4

\* Sorted by the keys of its items, which are distinct, a sequence rises and has the
\* same items.
LEMMA SortedRises ==
  ASSUME NEW A, NEW s \in Seq(A), NEW val \in [A -> Int], Distinct(s, val), NEW key,
         \A i \in 1..Len(s) : key[i] = val[s[i]]
  PROVE  /\ Sorted(s, key) \in Seq(A) /\ Len(Sorted(s, key)) = Len(s)
         /\ Rises(Sorted(s, key), val) /\ SameItems(Sorted(s, key), s)
<1>1. \A i \in 1..Len(s) : key[i] \in Int
  OBVIOUS
<1>a. PICK t : t = Sorted(s, key)
  OBVIOUS
<1>b. \A i \in 1..Len(s) : key[i] \in Int
  BY <1>1
<1>2. PICK r : /\ t = Sorted(s, key) /\ t \in Seq(A) /\ Len(t) = Len(s)
               /\ IsRank(r, Len(s), key) /\ \A i \in 1..Len(s) : t[i] = s[r[i]]
  BY ONLY s \in Seq(A), <1>a, <1>b, SortedIs
<1>3. /\ r \in [1..Len(s) -> 1..Len(s)]
      /\ \A j \in 1..Len(s) : \E i \in 1..Len(s) : r[i] = j
  BY <1>2 DEF IsRank
<1>4. \A i, k \in 1..Len(s) : key[i] = key[k] => i = k
  BY DEF Distinct
<1>5. Len(s) \in Nat
  OBVIOUS
<1>6. \A i, k \in 1..Len(s) : i < k => key[r[i]] < key[r[k]]
  BY <1>1, <1>2, <1>4, <1>5, RankRises
<1>7. \A i \in 1..Len(s) : val[t[i]] = key[r[i]]
  <2> TAKE i \in 1..Len(s)
  <2>1. r[i] \in 1..Len(s) /\ t[i] = s[r[i]]
    BY <1>2, <1>3
  <2>2. key[r[i]] = val[s[r[i]]]
    BY <2>1
  <2> QED
    BY <2>1, <2>2
<1>8. Rises(t, val)
  BY <1>2, <1>6, <1>7 DEF Rises
<1>9. SameItems(t, s)
  <2>1. ASSUME NEW k \in 1..Len(s) PROVE \E i \in 1..Len(t) : s[k] = t[i]
    <3>1. PICK i \in 1..Len(s) : r[i] = k
      BY <1>3
    <3>2. i \in 1..Len(t) /\ s[k] = t[i]
      BY <1>2, <3>1
    <3> QED
      BY <3>2
  <2>2. ASSUME NEW i \in 1..Len(t) PROVE \E k \in 1..Len(s) : t[i] = s[k]
    BY <1>2, <1>3
  <2> QED
    BY <2>1, <2>2 DEF SameItems
<1> QED
  BY <1>2, <1>8, <1>9

\* A filter leaves distinct what was.
LEMMA ThoseDistinct ==
  ASSUME NEW A, NEW s \in Seq(A), NEW is, NEW val, Distinct(s, val)
  PROVE  Distinct(Those(s, is), val)
<1>1. PICK t, r : t = Those(s, is) /\ IsPart(r, t, s, is)
  BY ThosePart
<1>2. ASSUME NEW k \in 1..Len(t), NEW l \in 1..Len(t), k # l PROVE r[k] # r[l]
  <2>1. r[k] \in 1..Len(s) /\ r[l] \in 1..Len(s) /\ (k < l => r[k] < r[l]) /\ (l < k => r[l] < r[k])
    BY <1>1 DEF IsPart
  <2>2. k < l \/ l < k
    BY <1>2
  <2> QED
    BY <2>1, <2>2
<1>3. \A k \in 1..Len(t) : r[k] \in 1..Len(s) /\ t[k] = s[r[k]]
  BY <1>1 DEF IsPart
<1> QED
  BY <1>1, <1>2, <1>3 DEF Distinct
=============================================================================
