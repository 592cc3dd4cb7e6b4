---------------------------- MODULE PagingProofs ----------------------------
(***************************************************************************)
(* Proofs about bounded reads (Paging), the part of MCStores whose pages   *)
(* share a budget: a client that follows the offsets gets every character  *)
(* of every record, in order and once.  The records, the limits and        *)
(* budgets of the pages, and how the sessions grow are arbitrary.          *)
(*                                                                         *)
(* What is left of a budget is a recursive function over the records of a  *)
(* page, and what a page takes a sum over them.  Both are reasoned about   *)
(* by induction on the natural numbers, which follows from their being     *)
(* well-founded: a set of numbers that has 0 and the successor of each of  *)
(* its numbers has them all.                                               *)
(***************************************************************************)
EXTENDS MCStores, Sequences, FiniteSetTheorems, WellFoundedInduction, TLAPS

-----------------------------------------------------------------------------
(* Induction.                                                              *)

\* Some numbers have a least one.
LEMMA LeastOfSome ==
    ASSUME NEW Q, Q \subseteq Nat, Q # {}
    PROVE  \E x \in Q : \A y \in Q : x <= y
  <1>1. \E x \in Q : \A y \in Q : ~ (<<y, x>> \in OpToRel(<, Nat))
    BY WFMin, NatLessThanWellFounded
  <1>2. PICK x \in Q : \A y \in Q : ~ (<<y, x>> \in OpToRel(<, Nat))
    BY <1>1
  <1>3. \A y \in Q : y \in Nat /\ x \in Nat /\ ~(y < x)
    BY <1>2 DEF OpToRel
  <1> QED
    BY <1>3

\* Induction over the numbers.
LEMMA Induct ==
    ASSUME NEW Q, Q \subseteq Nat, 0 \in Q, \A n \in Q : n + 1 \in Q
    PROVE  Q = Nat
  <1> SUFFICES ASSUME Nat \ Q # {} PROVE FALSE
    OBVIOUS
  <1>1. PICK x \in Nat \ Q : \A y \in Nat \ Q : x <= y
    BY LeastOfSome
  <1>2. x # 0 /\ x - 1 \in Nat
    BY <1>1
  <1>3. x - 1 \in Q
    BY <1>1, <1>2
  <1>4. (x - 1) + 1 = x
    BY <1>1
  <1> QED
    BY <1>1, <1>3, <1>4

\* The same up to a number.
LEMMA InductTo ==
    ASSUME NEW n \in Nat, NEW Q, 0 \in Q, \A i \in 0..(n - 1) : i \in Q => i + 1 \in Q
    PROVE  0..n \subseteq Q
  <1> DEFINE R0 == {i \in Nat : i <= n => i \in Q}
  <1>1. 0 \in R0
    OBVIOUS
  <1>2. \A i \in R0 : i + 1 \in R0
    OBVIOUS
  <1>3. R0 = Nat
    <2> HIDE DEF R0
    <2>1. R0 \subseteq Nat
      BY DEF R0
    <2> QED
      BY <1>1, <1>2, <2>1, Induct
  <1> QED
    BY <1>3

\* The numbers that n steps reach from a start.
Steps(n, start, down) ==
    CHOOSE g \in [0..n -> Nat] : g[0] = start /\ \A i \in 1..n : g[i] = down[i][g[i - 1]]

\* There are such numbers.
LEMMA StepsExist ==
    ASSUME NEW n \in Nat, NEW start \in Nat, NEW down \in [1..n -> [Nat -> Nat]]
    PROVE  /\ Steps(n, start, down) \in [0..n -> Nat]
           /\ Steps(n, start, down)[0] = start
           /\ \A i \in 1..n : Steps(n, start, down)[i] = down[i][Steps(n, start, down)[i - 1]]
  <1> DEFINE Good(k) == \E g \in [0..k -> Nat] :
                 g[0] = start /\ \A i \in 1..k : g[i] = down[i][g[i - 1]]
             Q == {k \in 0..n : Good(k)}
  <1>1. 0 \in Q
    <2> DEFINE g == [i \in 0..0 |-> start]
    <2>1. g \in [0..0 -> Nat] /\ g[0] = start /\ \A i \in 1..0 : g[i] = down[i][g[i - 1]]
      OBVIOUS
    <2> HIDE DEF g
    <2>2. Good(0)
      BY <2>1, Zenon
    <2> HIDE DEF Good
    <2> QED
      BY <2>2
  <1>2. ASSUME NEW k \in 0..(n - 1), k \in Q PROVE k + 1 \in Q
    <2>1. PICK g \in [0..k -> Nat] : g[0] = start /\ \A i \in 1..k : g[i] = down[i][g[i - 1]]
      BY <1>2
    <2> DEFINE h == [i \in 0..(k + 1) |-> IF i = k + 1 THEN down[i][g[k]] ELSE g[i]]
    <2>2. h \in [0..(k + 1) -> Nat]
      <3>1. k \in 0..k /\ g[k] \in Nat /\ k + 1 \in 1..n
        BY <1>2
      <3>2. down[k + 1] \in [Nat -> Nat]
        BY <3>1
      <3>3. down[k + 1][g[k]] \in Nat
        BY <3>1, <3>2
      <3>4. \A i \in 0..(k + 1) : i # k + 1 => g[i] \in Nat
        OBVIOUS
      <3> QED
        BY <3>3, <3>4
    <2>3. ASSUME NEW i \in 1..(k + 1) PROVE h[i] = down[i][h[i - 1]]
      <3>1. CASE i = k + 1
        <4>1. i - 1 = k /\ k \in 0..(k + 1) /\ k # k + 1
          BY <3>1
        <4>2. h[k] = g[k]
          BY <4>1
        <4> QED
          BY <3>1, <4>1, <4>2
      <3>2. CASE i # k + 1
        <4>1. i \in 1..k
          BY <3>2
        <4>2. h[i] = g[i]
          BY <3>2
        <4>3. i - 1 \in 0..(k + 1) /\ i - 1 # k + 1
          BY <4>1
        <4>4. h[i - 1] = g[i - 1]
          BY <4>3
        <4>5. g[i] = down[i][g[i - 1]]
          BY <2>1, <4>1
        <4> HIDE DEF h
        <4> QED
          BY <4>2, <4>4, <4>5
      <3> QED
        BY <3>1, <3>2
    <2>4. h[0] = start
      BY <2>1
    <2> HIDE DEF h
    <2>5. Good(k + 1)
      BY <2>2, <2>3, <2>4
    <2>6. k + 1 \in 0..n
      OBVIOUS
    <2> QED
      BY <2>5, <2>6
  <1> HIDE DEF Q
  <1>3. 0..n \subseteq Q
    BY <1>1, <1>2, InductTo
  <1>4. n \in Q
    BY <1>3
  <1>5. Good(n)
    BY <1>4 DEF Q
  <1> QED
    BY <1>5 DEF Steps

-----------------------------------------------------------------------------
(* What is left of a budget.                                              *)

\* A record takes no more than there is, and of no field more than it has.
LEMMA ApplyAllFits ==
    ASSUME NEW record \in [P!Fields -> Nat], NEW r \in Nat
    PROVE  LET x == P!ApplyAll(record, r)
           IN /\ x \in [P!Fields -> Nat]
              /\ \A f \in P!Fields : x[f] <= record[f]
              /\ P!Sum3(x) \in Nat /\ P!Sum3(x) <= r
              /\ r = 0 => \A f \in P!Fields : x[f] = 0
  <1> DEFINE text == P!Least(r, record[1])
             input == P!Least(r - text, record[2])
             output == P!Least(r - text - input, record[3])
             x == P!ApplyAll(record, r)
  <1>0. record[1] \in Nat /\ record[2] \in Nat /\ record[3] \in Nat
    BY DEF P!Fields
  <1>1. text \in Nat /\ text <= r /\ text <= record[1]
    BY <1>0 DEF P!Least
  <1> HIDE DEF text
  <1>2. input \in Nat /\ input <= r - text /\ input <= record[2]
    BY <1>0, <1>1 DEF P!Least
  <1> HIDE DEF input
  <1>3. output \in Nat /\ output <= r - text - input /\ output <= record[3]
    BY <1>0, <1>1, <1>2 DEF P!Least
  <1> HIDE DEF output
  <1>4. x = <<text, input, output>>
    BY DEF P!ApplyAll, text, input, output
  <1> HIDE DEF x
  <1>5. x[1] = text /\ x[2] = input /\ x[3] = output
    BY <1>4
  <1>6. x \in [1..3 -> Nat]
    BY <1>1, <1>2, <1>3, <1>4
  <1>7. \A f \in P!Fields : f = 1 \/ f = 2 \/ f = 3
    BY DEF P!Fields
  <1>8. \A f \in P!Fields : x[f] <= record[f]
    BY <1>1, <1>2, <1>3, <1>5, <1>7
  <1>9. P!Sum3(x) = text + input + output
    BY <1>5 DEF P!Sum3
  <1>10. P!Sum3(x) \in Nat /\ P!Sum3(x) <= r
    BY <1>1, <1>2, <1>3, <1>9
  <1>11. r = 0 => \A f \in P!Fields : x[f] = 0
    BY <1>1, <1>2, <1>3, <1>5, <1>7
  <1> QED
    BY <1>6, <1>8, <1>10, <1>11 DEF x, P!Fields

\* A page of n candidates, each of them a record.
PageOf(page, n) ==
    /\ DOMAIN page = 1..n /\ Len(page) = n
    /\ \A i \in 1..n : P!RecordAt(page[i]) \in [P!Fields -> Nat]

\* What is left of the budget: a number that starts as the budget and goes down by
\* what each record takes.
LEMMA LeftUnfolds ==
    ASSUME NEW n \in Nat, NEW page, PageOf(page, n), NEW budget \in Nat
    PROVE  /\ P!Left(page, budget) \in [0..n -> Nat]
           /\ P!Left(page, budget)[0] = budget
           /\ \A i \in 1..n :
                  P!Left(page, budget)[i] = P!Left(page, budget)[i - 1]
                      - P!Sum3(P!ApplyAll(P!RecordAt(page[i]), P!Left(page, budget)[i - 1]))
  <1> DEFINE take(i, r) == r - P!Sum3(P!ApplyAll(P!RecordAt(page[i]), r))
  <1>1. ASSUME NEW i \in 1..n, NEW r \in Nat PROVE take(i, r) \in Nat
    <2>1. P!RecordAt(page[i]) \in [P!Fields -> Nat]
      BY DEF PageOf
    <2>2. LET x == P!ApplyAll(P!RecordAt(page[i]), r)
          IN P!Sum3(x) \in Nat /\ P!Sum3(x) <= r
      BY <2>1, ApplyAllFits
    <2> QED
      BY <2>2
  <1> HIDE DEF take
  <1>2. PICK down \in [1..n -> [Nat -> Nat]] :
            \A i \in 1..n : \A r \in Nat : down[i][r] = take(i, r)
    <2> DEFINE d == [i \in 1..n |-> [r \in Nat |-> take(i, r)]]
    <2>1. d \in [1..n -> [Nat -> Nat]]
      BY <1>1
    <2>2. \A i \in 1..n : \A r \in Nat : d[i][r] = take(i, r)
      OBVIOUS
    <2> HIDE DEF d
    <2> QED
      BY <2>1, <2>2
  <1> DEFINE g == Steps(n, budget, down)
  <1>3. g \in [0..n -> Nat]
    BY StepsExist
  <1>3a. g[0] = budget
    BY StepsExist
  <1>3b. ASSUME NEW i \in 1..n PROVE g[i] = down[i][g[i - 1]]
    BY StepsExist
  <1> HIDE DEF g
  <1>4. \A i \in 1..n : g[i] = take(i, g[i - 1])
    <2> SUFFICES ASSUME NEW i \in 1..n
                 PROVE  g[i] = take(i, g[i - 1])
      OBVIOUS
    <2>1. i - 1 \in 0..n
      OBVIOUS
    <2>2. g[i - 1] \in Nat
      BY <2>1, <1>3
    <2> QED
      BY <1>2, <1>3b, <2>2
  <1> DEFINE Step(h) == h = [i \in 0..n |-> IF i = 0 THEN budget ELSE take(i, h[i - 1])]
  <1>5. Step(g)
    BY <1>3, <1>3a, <1>4
  <1> DEFINE left == P!Left(page, budget)
  <1>6. left = CHOOSE h : Step(h)
    BY DEF P!Left, take, PageOf
  <1>7. Step(left)
    <2> HIDE DEF Step, left
    <2> QED
      BY <1>5, <1>6
  <1> HIDE DEF left
  <1>8. left[0] = budget
    BY <1>7
  <1>9. ASSUME NEW i \in 1..n PROVE left[i] = take(i, left[i - 1])
    <2>1. i \in 0..n /\ i # 0
      OBVIOUS
    <2> QED
      BY <1>7, <2>1
  <1>10. 0..n \subseteq {i \in 0..n : left[i] \in Nat}
    <2> DEFINE Q == {i \in 0..n : left[i] \in Nat}
    <2>1. 0 \in Q
      BY <1>8
    <2>2. ASSUME NEW i \in 0..(n - 1), i \in Q PROVE i + 1 \in Q
      <3>1. i + 1 \in 1..n /\ (i + 1) - 1 = i
        OBVIOUS
      <3>2. left[i + 1] = take(i + 1, left[i])
        BY <1>9, <3>1
      <3>3. left[i] \in Nat
        BY <2>2
      <3>4. take(i + 1, left[i]) \in Nat
        BY <1>1, <3>1, <3>3
      <3>5. i + 1 \in 0..n
        OBVIOUS
      <3> QED
        BY <3>2, <3>4, <3>5
    <2> HIDE DEF Q
    <2> QED
      BY <2>1, <2>2, InductTo DEF Q
  <1>11. DOMAIN left = 0..n
    BY <1>7
  <1>12. left \in [0..n -> Nat]
    <2>1. left = [i \in 0..n |-> left[i]]
      BY <1>7
    <2> QED
      BY <1>10, <2>1
  <1> QED
    BY <1>8, <1>9, <1>12 DEF left, take

\* It never goes up, and once it is used up it stays so.
LEMMA LeftGoesDown ==
    ASSUME NEW n \in Nat, NEW page, PageOf(page, n), NEW budget \in Nat,
           NEW i \in 0..n, NEW j \in i..n
    PROVE  P!Left(page, budget)[j] <= P!Left(page, budget)[i]
  <1> DEFINE left == P!Left(page, budget)
  <1>1. left \in [0..n -> Nat]
    BY LeftUnfolds
  <1>1a. ASSUME NEW k \in 1..n
         PROVE  left[k] = left[k - 1] - P!Sum3(P!ApplyAll(P!RecordAt(page[k]), left[k - 1]))
    BY LeftUnfolds
  <1> HIDE DEF left
  <1>2. ASSUME NEW k \in 1..n PROVE left[k] <= left[k - 1]
    <2>1. k - 1 \in 0..n /\ k \in 0..n
      OBVIOUS
    <2>2. left[k - 1] \in Nat
      BY <1>1, <2>1
    <2>4. P!RecordAt(page[k]) \in [P!Fields -> Nat]
      BY DEF PageOf
    <2>3. LET x == P!ApplyAll(P!RecordAt(page[k]), left[k - 1])
          IN P!Sum3(x) \in Nat /\ P!Sum3(x) <= left[k - 1]
      BY <2>2, <2>4, ApplyAllFits
    <2> QED
      BY <1>1a, <2>2, <2>3
  <1> DEFINE Q == {k \in 0..(n - i) : left[i + k] <= left[i]}
  <1>3. 0 \in Q
    BY <1>1
  <1>4. ASSUME NEW k \in 0..((n - i) - 1), k \in Q PROVE k + 1 \in Q
    <2>1. i + (k + 1) \in 1..n /\ i + (k + 1) - 1 = i + k /\ k + 1 \in 0..(n - i)
      OBVIOUS
    <2>2. left[i + (k + 1)] <= left[i + k]
      BY <1>2, <2>1
    <2>0. i + k \in 0..n /\ i + (k + 1) \in 0..n
      OBVIOUS
    <2>3. left[i + (k + 1)] \in Nat /\ left[i + k] \in Nat /\ left[i] \in Nat
      BY <1>1, <2>0
    <2> QED
      BY <1>4, <2>1, <2>2, <2>3
  <1> HIDE DEF Q
  <1>5. n - i \in Nat
    OBVIOUS
  <1>6. 0..(n - i) \subseteq Q
    BY <1>3, <1>4, <1>5, InductTo
  <1>7. j - i \in 0..(n - i) /\ i + (j - i) = j
    OBVIOUS
  <1> QED
    BY <1>6, <1>7 DEF Q, left

\* The records a page has are the first of its candidates.
LEMMA TakenIsPrefix ==
    ASSUME NEW n \in Nat, NEW page, PageOf(page, n), NEW budget \in Nat
    PROVE  \E m \in 0..n : P!Taken(page, budget) = 1..m
  <1> DEFINE left == P!Left(page, budget)
             Q == {i \in 0..n : i = n \/ left[i] = 0}
  <1>1. left \in [0..n -> Nat]
    BY LeftUnfolds
  <1>2. \A i \in 0..n : \A j \in i..n : left[j] <= left[i]
    BY LeftGoesDown
  <1> HIDE DEF left
  <1>3. PICK m \in Q : \A k \in Q : m <= k
    <2>1. n \in Q /\ Q \subseteq Nat
      OBVIOUS
    <2> HIDE DEF Q
    <2> QED
      BY <2>1, LeastOfSome
  <1>4. ASSUME NEW i \in 1..n PROVE left[i - 1] > 0 <=> i <= m
    <2>0. i - 1 \in 0..n
      OBVIOUS
    <2>1. i - 1 \in 0..n /\ left[i - 1] \in Nat
      BY <1>1, <2>0
    <2>2. CASE i <= m
      <3>1. i - 1 \notin Q
        BY <1>3, <2>1, <2>2
      <3> QED
        BY <2>1, <2>2, <3>1
    <2>3. CASE ~(i <= m)
      <3>1. m \in 0..n /\ m # n /\ left[m] = 0
        BY <1>3, <2>3
      <3>2. i - 1 \in m..n
        BY <2>3, <3>1
      <3>3. left[i - 1] <= left[m]
        BY <1>2, <3>1, <3>2
      <3> QED
        BY <2>1, <2>3, <3>1, <3>3
    <2> QED
      BY <2>2, <2>3
  <1>5. P!Taken(page, budget) = {i \in 1..n : left[i - 1] > 0}
    BY DEF P!Taken, P!Included, left, PageOf
  <1>6. m \in 0..n
    BY <1>3
  <1>7. {i \in 1..n : left[i - 1] > 0} = 1..m
    BY <1>4, <1>6
  <1> QED
    BY <1>5, <1>6, <1>7

-----------------------------------------------------------------------------
(* How many characters a page has.                                         *)

\* The characters of a field after one place and up to another.
Run(p, f, lo, hi) == {<<p, f, x>> : x \in (lo + 1)..hi}

\* The characters a page has of a record.
Piece(p, x) == Run(p, 1, 0, x[1]) \cup Run(p, 2, 0, x[2]) \cup Run(p, 3, 0, x[3])

\* There are as many as the places are apart.
LEMMA RunCounts ==
    ASSUME NEW p, NEW f, NEW lo \in Nat, NEW hi \in Nat, lo <= hi
    PROVE  IsFiniteSet(Run(p, f, lo, hi)) /\ Cardinality(Run(p, f, lo, hi)) = hi - lo
  <1> DEFINE n == hi - lo
             X(k) == Run(p, f, lo, lo + k)
             Q == {k \in 0..n : IsFiniteSet(X(k)) /\ Cardinality(X(k)) = k}
  <1>1. 0 \in Q
    <2>1. X(0) = {}
      BY DEF Run
    <2>2. IsFiniteSet({}) /\ Cardinality({}) = 0
      BY FS_EmptySet
    <2>3. IsFiniteSet(X(0)) /\ Cardinality(X(0)) = 0
      BY <2>1, <2>2
    <2> HIDE DEF X
    <2> QED
      BY <2>3
  <1>2. ASSUME NEW k \in 0..(n - 1), k \in Q PROVE k + 1 \in Q
    <2> DEFINE c == <<p, f, lo + (k + 1)>>
    <2>1. X(k + 1) = X(k) \cup {c}
      <3>1. \A x : x \in (lo + 1)..(lo + (k + 1)) <=> x \in (lo + 1)..(lo + k) \/ x = lo + (k + 1)
        OBVIOUS
      <3> QED
        BY <3>1 DEF Run
    <2>2. c \notin X(k)
      BY DEF Run
    <2>3. IsFiniteSet(X(k)) /\ Cardinality(X(k)) = k
      BY <1>2
    <2> HIDE DEF X, c
    <2>4. IsFiniteSet(X(k) \cup {c}) /\ Cardinality(X(k) \cup {c}) = k + 1
      BY <2>2, <2>3, FS_AddElement
    <2>5. k + 1 \in 0..n
      OBVIOUS
    <2> QED
      BY <2>1, <2>4, <2>5
  <1>3. n \in Nat
    OBVIOUS
  <1>4. 0..n \subseteq Q
    <2> HIDE DEF Q, n
    <2> QED
      BY <1>1, <1>2, <1>3, InductTo
  <1>5. n \in Q /\ lo + n = hi
    BY <1>3, <1>4
  <1> QED
    BY <1>5

\* Sets that have nothing in common are counted one by one.
LEMMA DisjointCounts ==
    ASSUME NEW A, NEW B, IsFiniteSet(A), IsFiniteSet(B), A \cap B = {}
    PROVE  IsFiniteSet(A \cup B) /\ Cardinality(A \cup B) = Cardinality(A) + Cardinality(B)
  <1>1. Cardinality(A) \in Nat /\ Cardinality(B) \in Nat
    BY FS_CardinalityType
  <1>2. Cardinality(A \cap B) = 0
    BY FS_EmptySet
  <1>3. /\ IsFiniteSet(A \cup B)
        /\ Cardinality(A \cup B) = Cardinality(A) + Cardinality(B) - Cardinality(A \cap B)
    BY FS_Union
  <1> QED
    BY <1>1, <1>2, <1>3

\* A page has as many characters of a record as of its three fields.
LEMMA PieceCounts ==
    ASSUME NEW p, NEW x \in [P!Fields -> Nat]
    PROVE  IsFiniteSet(Piece(p, x)) /\ Cardinality(Piece(p, x)) = P!Sum3(x)
  <1> DEFINE A == Run(p, 1, 0, x[1])
             B == Run(p, 2, 0, x[2])
             C == Run(p, 3, 0, x[3])
  <1>0. x[1] \in Nat /\ x[2] \in Nat /\ x[3] \in Nat
    BY DEF P!Fields
  <1>1. IsFiniteSet(A) /\ Cardinality(A) = x[1]
    BY <1>0, RunCounts
  <1>2. IsFiniteSet(B) /\ Cardinality(B) = x[2]
    BY <1>0, RunCounts
  <1>3. IsFiniteSet(C) /\ Cardinality(C) = x[3]
    BY <1>0, RunCounts
  <1>4. A \cap B = {} /\ (A \cup B) \cap C = {}
    BY DEF Run
  <1> HIDE DEF A, B, C
  <1>5. IsFiniteSet(A \cup B) /\ Cardinality(A \cup B) = x[1] + x[2]
    BY <1>1, <1>2, <1>4, DisjointCounts
  <1> DEFINE D == A \cup B
  <1> HIDE DEF D
  <1>8. IsFiniteSet(D) /\ Cardinality(D) = x[1] + x[2] /\ D \cap C = {}
    BY <1>4, <1>5 DEF D
  <1>9. IsFiniteSet(D \cup C) /\ Cardinality(D \cup C) = Cardinality(D) + Cardinality(C)
    BY <1>3, <1>8, DisjointCounts
  <1>6. IsFiniteSet(D \cup C) /\ Cardinality(D \cup C) = x[1] + x[2] + x[3]
    BY <1>3, <1>8, <1>9
  <1>7. Piece(p, x) = D \cup C
    BY DEF Piece, A, B, C, D
  <1> QED
    BY <1>6, <1>7 DEF P!Sum3

\* The characters a page has of its first records.
Chars(page, parts, i) == UNION {Piece(page[j], parts[j]) : j \in 1..i}

\* The parts of n different records, and what is left after each.
PartsOf(page, parts, left, n) ==
    /\ \A i, j \in 1..n : page[i] = page[j] => i = j
    /\ \A i \in 1..n : parts[i] \in [P!Fields -> Nat]
    /\ left \in [0..n -> Nat]
    /\ \A i \in 1..n : left[i] = left[i - 1] - P!Sum3(parts[i])

\* A page takes as many characters as its budget goes down by.
LEMMA PageCounts ==
    ASSUME NEW n \in Nat, NEW page, NEW parts, NEW left, PartsOf(page, parts, left, n)
    PROVE  /\ IsFiniteSet(Chars(page, parts, n))
           /\ Cardinality(Chars(page, parts, n)) = left[0] - left[n]
  <1> DEFINE Q == {i \in 0..n : /\ IsFiniteSet(Chars(page, parts, i))
                                /\ Cardinality(Chars(page, parts, i)) = left[0] - left[i]}
  <1> USE DEF PartsOf
  <1>1. 0 \in Q
    <2>1. Chars(page, parts, 0) = {}
      BY DEF Chars
    <2>2. IsFiniteSet({}) /\ Cardinality({}) = 0
      BY FS_EmptySet
    <2>3. 0 \in 0..n /\ left[0] \in Nat
      OBVIOUS
    <2>5. left[0] - left[0] = 0
      BY <2>3
    <2>4. /\ IsFiniteSet(Chars(page, parts, 0))
          /\ Cardinality(Chars(page, parts, 0)) = left[0] - left[0]
      BY <2>1, <2>2, <2>5
    <2> QED
      BY <2>3, <2>4
  <1>2. ASSUME NEW i \in 0..(n - 1), i \in Q PROVE i + 1 \in Q
    <2> DEFINE A == Chars(page, parts, i)
               B == Piece(page[i + 1], parts[i + 1])
    <2>1. i + 1 \in 1..n /\ i + 1 \in 0..n /\ i \in 0..n /\ (i + 1) - 1 = i
      OBVIOUS
    <2>2. Chars(page, parts, i + 1) = A \cup B
      <3> HIDE DEF PartsOf
      <3>1. \A j : j \in 1..(i + 1) <=> j \in 1..i \/ j = i + 1
        OBVIOUS
      <3> HIDE DEF B
      <3>2. {Piece(page[j], parts[j]) : j \in 1..(i + 1)}
                = {Piece(page[j], parts[j]) : j \in 1..i} \cup {B}
        BY <3>1 DEF B
      <3> QED
        BY <3>2 DEF Chars
    <2>3. IsFiniteSet(B) /\ Cardinality(B) = P!Sum3(parts[i + 1])
      BY <2>1, PieceCounts
    <2>4. A \cap B = {}
      <3> SUFFICES ASSUME NEW c \in A, c \in B PROVE FALSE
        OBVIOUS
      <3> HIDE DEF PartsOf
      <3>1. PICK j \in 1..i : c \in Piece(page[j], parts[j])
        BY DEF Chars
      <3>2. c[1] = page[j]
        BY <3>1 DEF Piece, Run
      <3>3. c[1] = page[i + 1]
        BY DEF Piece, Run
      <3>4. j \in 1..n /\ j # i + 1
        BY <2>1
      <3> QED
        BY <2>1, <3>2, <3>3, <3>4 DEF PartsOf
    <2>5. IsFiniteSet(A) /\ Cardinality(A) = left[0] - left[i]
      BY <1>2
    <2> HIDE DEF A, B
    <2>6. IsFiniteSet(A \cup B) /\ Cardinality(A \cup B) = Cardinality(A) + Cardinality(B)
      BY <2>3, <2>4, <2>5, DisjointCounts
    <2>7. left[i + 1] = left[i] - P!Sum3(parts[i + 1])
      BY <2>1
    <2>8. left[0] \in Nat /\ left[i] \in Nat /\ left[i + 1] \in Nat
      BY <2>1
    <2>9. Cardinality(B) \in Nat
      BY <2>3, FS_CardinalityType
    <2>10. Cardinality(A \cup B) = left[0] - left[i + 1]
      BY <2>3, <2>5, <2>6, <2>7, <2>8, <2>9
    <2> QED
      BY <2>1, <2>2, <2>6, <2>10
  <1> HIDE DEF Q
  <1>3. 0..n \subseteq Q
    BY <1>1, <1>2, InductTo
  <1>4. n \in Q
    BY <1>3
  <1> QED
    BY <1>4 DEF Q

-----------------------------------------------------------------------------
(* The inductive invariant: the client has of each record before the place *)
(* of its session what Covered says, of the others nothing; a field has at *)
(* most one cut, where there is more of it, and only of a record that was  *)
(* read; and as many characters were sent as the client has.               *)

\* The characters the client has.
Gotten == {c \in P!Places \X P!Fields \X Nat : c[3] \in got[c[1]][c[2]]}

\* The values of the variables; unlike TypeOK it says that what is read is there.
PagingTyped ==
    /\ session \in [P!Batch -> Seq(Shapes)]
    /\ \A s \in P!Batch : Len(session[s]) <= MaxRecords
    /\ anchor \in 0..Len(session[1])
    /\ place \in [P!Batch -> Nat] /\ \A s \in P!Batch : place[s] <= Len(session[s])
    /\ got \in [P!Places -> [P!Fields -> SUBSET Nat]]
    /\ received \in Nat
    /\ owed \subseteq P!Places \X P!Fields \X Nat

\* A cut is of a record that was read, before its end, and the only one of its field.
CutsAreRead ==
    /\ \A c \in owed : \E s \in P!Batch : \E k \in 1..place[s] : c[1] = <<s, P!At(s, k)>>
    /\ \A c \in owed : c[3] < P!RecordAt(c[1])[c[2]]
    /\ \A c, d \in owed : c[1] = d[1] /\ c[2] = d[2] => c = d

\* The client has what the pages account for of the records they have moved past ...
ReadIsCovered ==
    \A s \in P!Batch : \A k \in 1..place[s] : \A f \in P!Fields :
        got[<<s, P!At(s, k)>>][f] = P!Covered(<<s, P!At(s, k)>>, f)

\* ... and nothing of the others.
RestIsUnread ==
    \A s \in P!Batch : \A k \in (place[s] + 1)..MaxRecords : \A f \in P!Fields :
        got[<<s, P!At(s, k)>>][f] = {}

\* What was sent is what the client has: nothing was sent twice.
AllIsCounted == IsFiniteSet(Gotten) /\ Cardinality(Gotten) = received

\* The inductive invariant of bounded reads.
PagingInv == PagingTyped /\ CutsAreRead /\ ReadIsCovered /\ RestIsUnread /\ AllIsCounted

\* A context is its records in another order.
LEMMA AtIsOrder ==
    ASSUME PagingTyped, NEW s \in P!Batch
    PROVE  /\ \A k \in 1..MaxRecords : P!At(s, k) \in 1..MaxRecords
           /\ \A k \in 1..Len(session[s]) : P!At(s, k) \in 1..Len(session[s])
           /\ \A k, l \in Nat \ {0} : P!At(s, k) = P!At(s, l) => k = l
           /\ \A q \in 1..MaxRecords : \E k \in 1..MaxRecords : P!At(s, k) = q
  <1>0. /\ Len(session[s]) \in Nat /\ Len(session[s]) <= MaxRecords /\ MaxRecords \in Nat
        /\ s \in 1..2
    BY StoresConstants DEF PagingTyped, P!Batch
  <1>00. Len(session[1]) \in Nat /\ Len(session[1]) <= MaxRecords
    BY StoresConstants DEF PagingTyped, P!Batch
  <1>01. anchor \in Nat /\ anchor <= MaxRecords /\ (s = 1 => anchor <= Len(session[s]))
    BY <1>0, <1>00 DEF PagingTyped
  <1>1. \A k : P!At(s, k) = IF anchor = 0 \/ s # 1 THEN k
                            ELSE IF k = 1 THEN anchor
                            ELSE IF k > 1 /\ k <= anchor THEN k - 1 ELSE k
    BY DEF P!At
  <1>2. \A k \in 1..MaxRecords : P!At(s, k) \in 1..MaxRecords
    BY <1>0, <1>01, <1>1
  <1>3. \A k \in 1..Len(session[s]) : P!At(s, k) \in 1..Len(session[s])
    BY <1>0, <1>01, <1>1
  <1>4. \A k, l \in Nat \ {0} : P!At(s, k) = P!At(s, l) => k = l
    BY <1>01, <1>1
  <1>5. ASSUME NEW q \in 1..MaxRecords PROVE \E k \in 1..MaxRecords : P!At(s, k) = q
    <2> DEFINE k == IF anchor = 0 \/ s # 1 THEN q
                    ELSE IF q = anchor THEN 1 ELSE IF q < anchor THEN q + 1 ELSE q
    <2>1. k \in 1..MaxRecords
      BY <1>0, <1>01
    <2>2. P!At(s, k) = q
      BY <1>01, <1>1
    <2> HIDE DEF k
    <2> QED
      BY <2>1, <2>2
  <1> QED
    BY <1>2, <1>3, <1>4, <1>5

\* What the client has of a field is its beginning.
LEMMA GotIsBeginning ==
    ASSUME PagingInv, NEW p \in P!Places, NEW f \in P!Fields
    PROVE  \E n \in Nat : got[p][f] = 1..n
  <1>1. p = <<p[1], p[2]>> /\ p[1] \in P!Batch /\ p[2] \in 1..MaxRecords
    BY DEF P!Places
  <1>2. PICK k \in 1..MaxRecords : P!At(p[1], k) = p[2]
    BY <1>1, AtIsOrder DEF PagingInv
  <1>3. place[p[1]] \in Nat /\ MaxRecords \in Nat
    BY <1>1, StoresConstants DEF PagingInv, PagingTyped
  <1>4. CASE k > place[p[1]]
    <2>1. k \in (place[p[1]] + 1)..MaxRecords
      BY <1>3, <1>4
    <2>2. got[p][f] = {}
      BY <1>1, <1>2, <2>1 DEF PagingInv, RestIsUnread
    <2>3. {} = 1..0
      OBVIOUS
    <2> QED
      BY <2>2, <2>3
  <1>5. CASE ~(k > place[p[1]])
    <2>1. k \in 1..place[p[1]]
      BY <1>3, <1>5
    <2>2. got[p][f] = P!Covered(p, f)
      BY <1>1, <1>2, <2>1 DEF PagingInv, ReadIsCovered
    <2> DEFINE cuts == {cut \in owed : cut[1] = p /\ cut[2] = f}
    <2>3. CASE cuts = {}
      <3>1. P!Covered(p, f) = 1..P!RecordAt(p)[f]
        BY <2>3 DEF P!Covered
      <3>2. P!RecordAt(p)[f] \in Nat
        <4>1. p[2] \in 1..Len(session[p[1]])
          <5>1. k \in 1..Len(session[p[1]])
            BY <1>1, <2>1, <1>3 DEF PagingInv, PagingTyped
          <5> QED
            BY <1>1, <1>2, <5>1, AtIsOrder DEF PagingInv
        <4>2. session[p[1]] \in Seq(Shapes)
          BY <1>1 DEF PagingInv, PagingTyped
        <4>3. session[p[1]][p[2]] \in Shapes
          BY <4>1, <4>2
        <4> QED
          BY <4>3, StoresConstants DEF P!RecordAt
      <3> QED
        BY <2>2, <3>1, <3>2
    <2>4. CASE cuts # {}
      <3>1. PICK c \in owed : c[1] = p /\ c[2] = f
        BY <2>4
      <3>2. cuts = {c}
        BY <3>1 DEF PagingInv, CutsAreRead
      <3>3. P!Covered(p, f) = UNION {1..cut[3] : cut \in cuts}
        BY <2>4 DEF P!Covered
      <3>4. P!Covered(p, f) = 1..c[3]
        <4> HIDE DEF cuts
        <4> QED
          BY <3>2, <3>3
      <3>5. c[3] \in Nat
        BY DEF PagingInv, PagingTyped
      <3> QED
        BY <2>2, <3>4, <3>5
    <2> QED
      BY <2>3, <2>4
  <1> QED
    BY <1>4, <1>5

\* How many records of a session a page may have, where they are in it, the page and
\* how many records it may have altogether.
Share(s, limit) == P!Least(limit, Len(session[s]) - place[s])
Before(s, limit) == IF s = 1 THEN 0 ELSE Share(1, limit)
Page(limit) == P!Candidates(1, limit) \o P!Candidates(2, limit)
Size(limit) == Share(1, limit) + Share(2, limit)

\* The candidates of a session are there, and within the page.
LEMMA SharesAreNumbers ==
    ASSUME PagingTyped, NEW limit \in Limits
    PROVE  /\ \A s \in P!Batch : /\ Share(s, limit) \in Nat
                                 /\ place[s] + Share(s, limit) <= Len(session[s])
                                 /\ place[s] \in Nat /\ Len(session[s]) \in Nat
                                 /\ Before(s, limit) \in Nat
                                 /\ Before(s, limit) + Share(s, limit) <= Size(limit)
           /\ Size(limit) \in Nat /\ 1 \in P!Batch /\ 2 \in P!Batch
           /\ limit \in Nat \ {0} /\ MaxRecords \in Nat
  <1>0. limit \in Nat \ {0} /\ MaxRecords \in Nat
    BY StoresConstants
  <1>1. 1 \in P!Batch /\ 2 \in P!Batch /\ \A s \in P!Batch : s = 1 \/ s = 2
    BY DEF P!Batch
  <1>2. \A s \in P!Batch : /\ place[s] \in Nat /\ Len(session[s]) \in Nat
                           /\ place[s] <= Len(session[s])
    BY DEF PagingTyped
  <1>3. \A s \in P!Batch : Share(s, limit) \in Nat /\ place[s] + Share(s, limit) <= Len(session[s])
    BY <1>0, <1>2 DEF Share, P!Least
  <1>4. Size(limit) \in Nat
    BY <1>1, <1>3 DEF Size
  <1>5. \A s \in P!Batch : /\ Before(s, limit) \in Nat
                           /\ Before(s, limit) + Share(s, limit) <= Size(limit)
    <2>1. Share(1, limit) \in Nat /\ Share(2, limit) \in Nat
      BY <1>1, <1>3
    <2> QED
      BY <1>1, <2>1 DEF Before, Size
  <1> QED
    BY <1>0, <1>1, <1>2, <1>3, <1>4, <1>5

\* The candidates of a page, by their numbers in it.
LEMMA PageLists ==
    ASSUME PagingTyped, NEW limit \in Limits
    PROVE  /\ DOMAIN Page(limit) = 1..Size(limit) /\ Len(Page(limit)) = Size(limit)
           /\ Size(limit) = 0 => Page(limit) = <<>>
           /\ \A s \in P!Batch : \A j \in 1..Share(s, limit) :
                  /\ Before(s, limit) + j \in 1..Size(limit)
                  /\ Page(limit)[Before(s, limit) + j] = <<s, P!At(s, place[s] + j)>>
           /\ \A i \in 1..Size(limit) : \E s \in P!Batch : \E j \in 1..Share(s, limit) :
                  i = Before(s, limit) + j
  <1> DEFINE a == Share(1, limit)
             b == Share(2, limit)
             A == P!Candidates(1, limit)
             B == P!Candidates(2, limit)
  <1>1. a \in Nat /\ b \in Nat /\ Size(limit) = a + b
    BY SharesAreNumbers DEF Size
  <1>2. A = [j \in 1..a |-> <<1, P!At(1, place[1] + j)>>]
    BY DEF P!Candidates, Share
  <1>3. B = [j \in 1..b |-> <<2, P!At(2, place[2] + j)>>]
    BY DEF P!Candidates, Share
  <1> DEFINE V == {<<s, P!At(s, k)>> : s \in P!Batch, k \in Nat}
  <1>14. place[1] \in Nat /\ place[2] \in Nat /\ 1 \in P!Batch /\ 2 \in P!Batch
    BY SharesAreNumbers
  <1>4. A \in Seq(V) /\ Len(A) = a
    <2>1. ASSUME NEW j \in 1..a PROVE <<1, P!At(1, place[1] + j)>> \in V
      <3>1. place[1] + j \in Nat
        BY <1>1, <1>14
      <3> HIDE DEF a
      <3> QED
        BY <1>14, <3>1
    <2> HIDE DEF V, a, A
    <2> QED
      BY <1>1, <1>2, <2>1
  <1>5. B \in Seq(V) /\ Len(B) = b
    <2>1. ASSUME NEW j \in 1..b PROVE <<2, P!At(2, place[2] + j)>> \in V
      <3>1. place[2] + j \in Nat
        BY <1>1, <1>14
      <3> HIDE DEF b
      <3> QED
        BY <1>14, <3>1
    <2> HIDE DEF V, b, B
    <2> QED
      BY <1>1, <1>3, <2>1
  <1>6. Page(limit) = A \o B
    BY DEF Page
  <1> HIDE DEF V, a, b, A, B
  <1>7. Page(limit) \in Seq(V) /\ Len(Page(limit)) = a + b
    BY <1>1, <1>4, <1>5, <1>6
  <1>8. DOMAIN Page(limit) = 1..Size(limit) /\ Len(Page(limit)) = Size(limit)
    BY <1>1, <1>7
  <1>9. ASSUME NEW j \in 1..a PROVE Page(limit)[j] = <<1, P!At(1, place[1] + j)>>
    <2>1. Page(limit)[j] = A[j]
      BY <1>1, <1>4, <1>5, <1>6
    <2> QED
      BY <1>2, <2>1
  <1>10. ASSUME NEW j \in 1..b PROVE Page(limit)[a + j] = <<2, P!At(2, place[2] + j)>>
    <2>1. a + j \in 1..(a + b) /\ a + j > a /\ (a + j) - a = j
      BY <1>1
    <2>2. Page(limit)[a + j] = B[j]
      BY <1>1, <1>4, <1>5, <1>6, <2>1
    <2> QED
      BY <1>3, <2>2
  <1>11. ASSUME NEW s \in P!Batch, NEW j \in 1..Share(s, limit)
         PROVE  /\ Before(s, limit) + j \in 1..Size(limit)
                /\ Page(limit)[Before(s, limit) + j] = <<s, P!At(s, place[s] + j)>>
    <2>1. CASE s = 1
      <3>1. j \in 1..a /\ Before(s, limit) + j = j
        BY <2>1, <1>1 DEF a, Before
      <3> QED
        BY <1>1, <1>9, <2>1, <3>1
    <2>2. CASE s = 2
      <3>1. j \in 1..b /\ Before(s, limit) + j = a + j
        BY <2>2, <1>1 DEF a, b, Before
      <3> QED
        BY <1>1, <1>10, <2>2, <3>1
    <2>3. s = 1 \/ s = 2
      BY DEF P!Batch
    <2> QED
      BY <2>1, <2>2, <2>3
  <1>12. ASSUME NEW i \in 1..Size(limit)
         PROVE  \E s \in P!Batch : \E j \in 1..Share(s, limit) : i = Before(s, limit) + j
    <2>1. CASE i <= a
      <3>1. 1 \in P!Batch /\ i \in 1..Share(1, limit) /\ i = Before(1, limit) + i
        BY <1>1, <2>1 DEF a, Before, P!Batch
      <3> QED
        BY <3>1
    <2>2. CASE ~(i <= a)
      <3>1. 2 \in P!Batch /\ i - a \in 1..Share(2, limit) /\ i = Before(2, limit) + (i - a)
        BY <1>1, <2>2 DEF a, b, Before, P!Batch
      <3> QED
        BY <3>1
    <2> QED
      BY <2>1, <2>2
  <1>13. Size(limit) = 0 => Page(limit) = <<>>
    BY <1>1, <1>7
  <1> QED
    BY <1>8, <1>11, <1>12, <1>13

\* They are different records, each of them there.
LEMMA PageIsGood ==
    ASSUME PagingTyped, NEW limit \in Limits
    PROVE  /\ PageOf(Page(limit), Size(limit))
           /\ \A i, j \in 1..Size(limit) : Page(limit)[i] = Page(limit)[j] => i = j
           /\ \A i \in 1..Size(limit) : Page(limit)[i] \in P!Places
  <1>1. ASSUME NEW i \in 1..Size(limit)
        PROVE  \E s \in P!Batch : \E j \in 1..Share(s, limit) :
                   /\ i = Before(s, limit) + j /\ Page(limit)[i] = <<s, P!At(s, place[s] + j)>>
    BY PageLists
  <1>2. ASSUME NEW s \in P!Batch, NEW j \in 1..Share(s, limit)
        PROVE  /\ place[s] + j \in 1..Len(session[s])
               /\ P!At(s, place[s] + j) \in 1..Len(session[s])
               /\ P!At(s, place[s] + j) \in 1..MaxRecords
    <2>0. /\ place[s] \in Nat /\ Share(s, limit) \in Nat /\ Len(session[s]) \in Nat
          /\ place[s] + Share(s, limit) <= Len(session[s])
      BY SharesAreNumbers
    <2>1. place[s] + j \in 1..Len(session[s])
      BY <2>0
    <2>2. P!At(s, place[s] + j) \in 1..Len(session[s])
      BY <2>1, AtIsOrder
    <2>3. Len(session[s]) \in Nat /\ Len(session[s]) <= MaxRecords /\ MaxRecords \in Nat
      BY StoresConstants DEF PagingTyped
    <2> QED
      BY <2>1, <2>2, <2>3
  <1>3. ASSUME NEW i \in 1..Size(limit)
        PROVE  Page(limit)[i] \in P!Places /\ P!RecordAt(Page(limit)[i]) \in [P!Fields -> Nat]
    <2>0. PICK s \in P!Batch : \E j \in 1..Share(s, limit) :
              Page(limit)[i] = <<s, P!At(s, place[s] + j)>>
      BY <1>1
    <2>1. PICK j \in 1..Share(s, limit) : Page(limit)[i] = <<s, P!At(s, place[s] + j)>>
      BY <2>0
    <2>2. session[s] \in Seq(Shapes)
      BY DEF PagingTyped
    <2>3. session[s][P!At(s, place[s] + j)] \in Shapes
      BY <1>2, <2>2
    <2>4. P!RecordAt(Page(limit)[i]) \in Shapes
      BY <2>1, <2>3 DEF P!RecordAt
    <2>5. Page(limit)[i] \in P!Places
      BY <1>2, <2>1 DEF P!Places
    <2> QED
      BY <2>4, <2>5, StoresConstants
  <1>4. ASSUME NEW i \in 1..Size(limit), NEW l \in 1..Size(limit), Page(limit)[i] = Page(limit)[l]
        PROVE  i = l
    <2>8. PICK s \in P!Batch : \E j \in 1..Share(s, limit) :
              i = Before(s, limit) + j /\ Page(limit)[i] = <<s, P!At(s, place[s] + j)>>
      BY <1>1
    <2>1. PICK j \in 1..Share(s, limit) :
              i = Before(s, limit) + j /\ Page(limit)[i] = <<s, P!At(s, place[s] + j)>>
      BY <2>8
    <2>9. PICK t \in P!Batch : \E k \in 1..Share(t, limit) :
              l = Before(t, limit) + k /\ Page(limit)[l] = <<t, P!At(t, place[t] + k)>>
      BY <1>1
    <2>2. PICK k \in 1..Share(t, limit) :
              l = Before(t, limit) + k /\ Page(limit)[l] = <<t, P!At(t, place[t] + k)>>
      BY <2>9
    <2>3. s = t /\ P!At(s, place[s] + j) = P!At(s, place[s] + k)
      BY <1>4, <2>1, <2>2
    <2>7. place[s] \in Nat /\ Share(s, limit) \in Nat /\ k \in 1..Share(s, limit)
      BY <2>3, SharesAreNumbers
    <2>4. place[s] \in Nat /\ place[s] + j \in Nat \ {0} /\ place[s] + k \in Nat \ {0}
      BY <2>7
    <2>5. place[s] + j = place[s] + k
      BY <2>3, <2>4, AtIsOrder
    <2>6. j = k
      BY <2>3, <2>4, <2>5
    <2> QED
      BY <2>1, <2>2, <2>3, <2>6
  <1> QED
    BY <1>3, <1>4, PageLists DEF PageOf

\* The invariant is what is promised: what was sent is counted once, and a page begins
\* with the first record that is not read.
LEMMA PagingPromise ==
    ASSUME PagingInv PROVE P!WholeIsRead
  <1>0. MaxRecords \in Nat
    BY StoresConstants
  <1>1. ASSUME NEW s \in P!Batch, NEW k \in 1..Len(session[s])
        PROVE  LET p == <<s, P!At(s, k)>>
               IN got[p] = IF k <= place[s] THEN [f \in P!Fields |-> P!Covered(p, f)]
                           ELSE P!Nothing
    <2> DEFINE p == <<s, P!At(s, k)>>
    <2>1. place[s] \in Nat /\ Len(session[s]) \in Nat /\ Len(session[s]) <= MaxRecords
      BY DEF PagingInv, PagingTyped
    <2>2. k \in 1..MaxRecords
      BY <1>0, <2>1
    <2>3. P!At(s, k) \in 1..MaxRecords
      BY <2>2, AtIsOrder DEF PagingInv
    <2>4. p \in P!Places
      BY <2>3 DEF P!Places
    <2>5. got[p] \in [P!Fields -> SUBSET Nat]
      BY <2>4 DEF PagingInv, PagingTyped
    <2>6. CASE k <= place[s]
      <3>1. k \in 1..place[s]
        BY <2>1, <2>6
      <3>2. \A f \in P!Fields : got[p][f] = P!Covered(p, f)
        BY <3>1 DEF PagingInv, ReadIsCovered
      <3> QED
        BY <2>5, <2>6, <3>2
    <2>7. CASE ~(k <= place[s])
      <3>1. k \in (place[s] + 1)..MaxRecords
        BY <2>1, <2>2, <2>7
      <3>2. \A f \in P!Fields : got[p][f] = {}
        BY <3>1 DEF PagingInv, RestIsUnread
      <3> QED
        BY <2>5, <2>7, <3>2 DEF P!Nothing
    <2> QED
      BY <2>6, <2>7
  <1>2. received = P!Cardinality({c \in P!Places \X P!Fields \X (1..received) :
                                    c[3] \in got[c[1]][c[2]]})
    <2> DEFINE G == {c \in P!Places \X P!Fields \X (1..received) : c[3] \in got[c[1]][c[2]]}
    <2>0. received \in Nat /\ IsFiniteSet(Gotten) /\ Cardinality(Gotten) = received
      BY DEF PagingInv, PagingTyped, AllIsCounted
    <2>1. ASSUME NEW c \in Gotten PROVE c[3] \in 1..received
      <3>1. c[1] \in P!Places /\ c[2] \in P!Fields /\ c[3] \in Nat /\ c[3] \in got[c[1]][c[2]]
        BY DEF Gotten
      <3>2. PICK n \in Nat : got[c[1]][c[2]] = 1..n
        BY <3>1, GotIsBeginning
      <3>3. Run(c[1], c[2], 0, n) \in SUBSET Gotten
        BY <3>1, <3>2 DEF Run, Gotten
      <3>4. Cardinality(Run(c[1], c[2], 0, n)) = n
        BY RunCounts
      <3>5. n <= received
        BY <2>0, <3>3, <3>4, FS_Subset
      <3> QED
        BY <2>0, <3>1, <3>2, <3>5
    <2>2. G = Gotten
      <3>1. Gotten \subseteq G
        BY <2>1 DEF Gotten
      <3>2. G \subseteq Gotten
        BY <2>0 DEF Gotten
      <3> QED
        BY <3>1, <3>2
    <2>3. \A S : P!Cardinality(S) = Cardinality(S)
      BY DEF P!Cardinality, Cardinality
    <2> QED
      BY <2>0, <2>2, <2>3
  <1>3. ASSUME NEW limit \in Limits, NEW budget \in Budgets, Page(limit) # <<>>
        PROVE  1 \in P!Taken(Page(limit), budget)
    <2>1. PageOf(Page(limit), Size(limit)) /\ Size(limit) \in Nat
      BY PageIsGood, SharesAreNumbers DEF PagingInv
    <2>2. budget \in Nat /\ budget > 0
      BY StoresConstants
    <2>3. P!Left(Page(limit), budget)[0] = budget
      BY <2>1, <2>2, LeftUnfolds
    <2>5. Size(limit) # 0
      BY <1>3, PageLists DEF PagingInv
    <2>6. 1 \in DOMAIN Page(limit)
      BY <2>1, <2>5 DEF PageOf
    <2> QED
      BY <2>2, <2>3, <2>6 DEF P!Taken, P!Included
  <1> QED
    BY <1>1, <1>2, <1>3 DEF P!WholeIsRead, Page

-----------------------------------------------------------------------------
(* The steps.                                                              *)

\* What cuts leave of a field of some length.
CutsOf(some, p, f) == {cut \in some : cut[1] = p /\ cut[2] = f}
Covers(cuts, size) == IF cuts = {} THEN 1..size ELSE UNION {1..cut[3] : cut \in cuts}

\* Covered in these terms, before and after a step.
LEMMA CoveredIs ==
    /\ \A p, f : P!Covered(p, f) = Covers(CutsOf(owed, p, f), P!RecordAt(p)[f])
    /\ \A p, f : (P!Covered(p, f))' = Covers(CutsOf(owed', p, f), (P!RecordAt(p))'[f])
    /\ anchor' = anchor => \A s, k : (P!At(s, k))' = P!At(s, k)
    /\ session' = session => \A p : (P!RecordAt(p))' = P!RecordAt(p)
  <1>1. \A p, f : P!Covered(p, f) = Covers(CutsOf(owed, p, f), P!RecordAt(p)[f])
    BY DEF P!Covered, Covers, CutsOf
  <1>2. \A p, f : (P!Covered(p, f))' = Covers(CutsOf(owed', p, f), (P!RecordAt(p))'[f])
    BY DEF P!Covered, Covers, CutsOf
  <1>3. anchor' = anchor => \A s, k : (P!At(s, k))' = P!At(s, k)
    BY DEF P!At
  <1>4. session' = session => \A p : (P!RecordAt(p))' = P!RecordAt(p)
    BY DEF P!RecordAt
  <1> QED
    BY <1>1, <1>2, <1>3, <1>4

\* Whatever part moves, the variables of Paging take a step of it or stay.
LEMMA PagingMoves ==
    ASSUME [StoresNext]_stores_vars
    PROVE  P!Next \/ UNCHANGED P!paging_vars
  BY DEF StoresNext, stores_vars, paging, P!paging_vars

\* Nothing is read at first.
LEMMA PagingInit ==
    ASSUME StoresInit PROVE PagingInv
  <1>1. P!Init
    BY DEF StoresInit
  <1>2. MaxRecords \in Nat /\ 1 \in P!Batch
    BY StoresConstants DEF P!Batch
  <1>3. ASSUME NEW s \in P!Batch
        PROVE  /\ session[s] \in Seq(Shapes) /\ Len(session[s]) \in Nat
               /\ Len(session[s]) <= MaxRecords
    <2>1. PICK n \in 0..MaxRecords : session[s] \in [1..n -> Shapes]
      BY <1>1 DEF P!Init
    <2> QED
      BY <1>2, <2>1
  <1>4. /\ place = [s \in P!Batch |-> 0] /\ got = [p \in P!Places |-> P!Nothing]
        /\ received = 0 /\ owed = {}
    BY <1>1 DEF P!Init
  <1>5. PagingTyped
    <2>1. session \in [P!Batch -> Seq(Shapes)]
      <3>1. session \in [P!Batch -> UNION {[1..n -> Shapes] : n \in 0..MaxRecords}]
        BY <1>1 DEF P!Init
      <3> QED
        BY <1>3, <3>1
    <2>2. anchor \in 0..Len(session[1])
      BY <1>1 DEF P!Init
    <2>3. got \in [P!Places -> [P!Fields -> SUBSET Nat]]
      BY <1>4 DEF P!Nothing
    <2>4. \A s \in P!Batch : place[s] <= Len(session[s])
      BY <1>3, <1>4
    <2>5. \A s \in P!Batch : Len(session[s]) <= MaxRecords
      BY <1>3
    <2> QED
      BY <1>4, <2>1, <2>2, <2>3, <2>4, <2>5 DEF PagingTyped
  <1>6. CutsAreRead
    BY <1>4 DEF CutsAreRead
  <1>7. ReadIsCovered
    BY <1>4 DEF ReadIsCovered
  <1>8. RestIsUnread
    <2> SUFFICES ASSUME NEW s \in P!Batch, NEW k \in (place[s] + 1)..MaxRecords, NEW f \in P!Fields
                 PROVE  got[<<s, P!At(s, k)>>][f] = {}
      BY DEF RestIsUnread
    <2>1. k \in 1..MaxRecords
      BY <1>2, <1>4
    <2>2. P!At(s, k) \in 1..MaxRecords
      BY <1>5, <2>1, AtIsOrder
    <2>3. <<s, P!At(s, k)>> \in P!Places
      BY <2>2 DEF P!Places
    <2> QED
      BY <1>4, <2>3 DEF P!Nothing
  <1>9. AllIsCounted
    <2>1. Gotten = {}
      BY <1>4 DEF Gotten, P!Nothing
    <2> QED
      BY <1>4, <2>1, FS_EmptySet DEF AllIsCounted
  <1> QED
    BY <1>5, <1>6, <1>7, <1>8, <1>9 DEF PagingInv

\* A session that grows keeps what was read of it.
LEMMA GrowKeeps ==
    ASSUME PagingInv, NEW s0 \in P!Batch, NEW record \in Shapes, P!Grow(s0, record)
    PROVE  PagingInv'
  <1>1. /\ session' = [session EXCEPT ![s0] = Append(@, record)] /\ Len(session[s0]) < MaxRecords
        /\ anchor' = anchor /\ place' = place /\ got' = got /\ received' = received /\ owed' = owed
    BY DEF P!Grow
  <1>0. MaxRecords \in Nat /\ 1 \in P!Batch
    BY StoresConstants DEF P!Batch
  <1>T. session \in [P!Batch -> Seq(Shapes)]
    BY DEF PagingInv, PagingTyped
  <1>2. ASSUME NEW s \in P!Batch
        PROVE  /\ session'[s] \in Seq(Shapes) /\ Len(session'[s]) <= MaxRecords
               /\ Len(session[s]) \in Nat /\ Len(session'[s]) \in Nat
               /\ Len(session[s]) <= Len(session'[s])
               /\ \A q \in 1..Len(session[s]) : session'[s][q] = session[s][q]
    <2>1. session[s] \in Seq(Shapes) /\ Len(session[s]) <= MaxRecords /\ Len(session[s]) \in Nat
      BY DEF PagingInv, PagingTyped
    <2>2. CASE s = s0
      <3>1. session'[s] = Append(session[s], record)
        BY <1>1, <1>T, <2>2
      <3> QED
        BY <1>0, <1>1, <2>1, <2>2, <3>1
    <2>3. CASE s # s0
      <3>1. session'[s] = session[s]
        BY <1>1, <1>T, <2>3
      <3> QED
        BY <2>1, <3>1
    <2> QED
      BY <2>2, <2>3
  <1>3. PagingTyped'
    <2>1. session' \in [P!Batch -> Seq(Shapes)]
      BY <1>1, <1>2, <1>T
    <2>2. anchor' \in 0..Len(session'[1])
      <3>1. anchor \in 0..Len(session[1])
        BY DEF PagingInv, PagingTyped
      <3> QED
        BY <1>0, <1>1, <1>2, <3>1
    <2>3. \A s \in P!Batch : place'[s] <= Len(session'[s])
      <3>1. \A s \in P!Batch : place[s] \in Nat /\ place[s] <= Len(session[s])
        BY DEF PagingInv, PagingTyped
      <3> QED
        BY <1>1, <1>2, <3>1
    <2>4. \A s \in P!Batch : Len(session'[s]) <= MaxRecords
      BY <1>2
    <2>5. /\ place' \in [P!Batch -> Nat] /\ got' \in [P!Places -> [P!Fields -> SUBSET Nat]]
          /\ received' \in Nat /\ owed' \subseteq P!Places \X P!Fields \X Nat
      BY <1>1 DEF PagingInv, PagingTyped
    <2> QED
      BY <2>1, <2>2, <2>3, <2>4, <2>5 DEF PagingTyped
  <1>4. \A s, k : (P!At(s, k))' = P!At(s, k)
    BY <1>1, CoveredIs
  <1>5. ASSUME NEW s \in P!Batch, NEW k \in 1..place[s]
        PROVE  session'[s][P!At(s, k)] = session[s][P!At(s, k)]
    <2>1. place[s] \in Nat /\ place[s] <= Len(session[s])
      BY DEF PagingInv, PagingTyped
    <2>2. k \in 1..Len(session[s])
      BY <1>2, <2>1
    <2>3. P!At(s, k) \in 1..Len(session[s])
      BY <2>2, AtIsOrder DEF PagingInv
    <2> QED
      BY <1>2, <2>3
  <1>6. CutsAreRead'
    <2>1. ASSUME NEW c \in owed
          PROVE  \E s \in P!Batch : \E k \in 1..place[s] : c[1] = <<s, P!At(s, k)>>
      BY DEF PagingInv, CutsAreRead
    <2>2. ASSUME NEW c \in owed PROVE (P!RecordAt(c[1]))' = P!RecordAt(c[1])
      <3>1. PICK s \in P!Batch : \E k \in 1..place[s] : c[1] = <<s, P!At(s, k)>>
        BY <2>1
      <3>2. PICK k \in 1..place[s] : c[1] = <<s, P!At(s, k)>>
        BY <3>1
      <3>3. session'[c[1][1]][c[1][2]] = session[c[1][1]][c[1][2]]
        BY <1>5, <3>2
      <3> QED
        BY <3>3 DEF P!RecordAt
    <2>3. \A c \in owed : c[3] < P!RecordAt(c[1])[c[2]]
      BY DEF PagingInv, CutsAreRead
    <2>4. \A c \in owed : c[3] < (P!RecordAt(c[1]))'[c[2]]
      BY <2>2, <2>3
    <2>5. \A c, d \in owed : c[1] = d[1] /\ c[2] = d[2] => c = d
      BY DEF PagingInv, CutsAreRead
    <2> QED
      BY <1>1, <1>4, <2>1, <2>4, <2>5 DEF CutsAreRead
  <1>7. ReadIsCovered'
    <2> SUFFICES ASSUME NEW s \in P!Batch, NEW k \in 1..place[s], NEW f \in P!Fields
                 PROVE  got[<<s, P!At(s, k)>>][f] = (P!Covered(<<s, P!At(s, k)>>, f))'
      BY <1>1, <1>4 DEF ReadIsCovered
    <2>1. got[<<s, P!At(s, k)>>][f] = P!Covered(<<s, P!At(s, k)>>, f)
      BY DEF PagingInv, ReadIsCovered
    <2>2. (P!Covered(<<s, P!At(s, k)>>, f))' = P!Covered(<<s, P!At(s, k)>>, f)
      <3>1. (P!RecordAt(<<s, P!At(s, k)>>))' = P!RecordAt(<<s, P!At(s, k)>>)
        BY <1>4, <1>5 DEF P!RecordAt
      <3> QED
        BY <1>1, <3>1, <1>4 DEF P!Covered
    <2> QED
      BY <2>1, <2>2
  <1>8. RestIsUnread'
    BY <1>1, <1>4 DEF PagingInv, RestIsUnread
  <1>9. AllIsCounted'
    BY <1>1 DEF PagingInv, AllIsCounted, Gotten
  <1> QED
    BY <1>3, <1>6, <1>7, <1>8, <1>9 DEF PagingInv

\* What a cut stands for: the field it goes on with, of which the client has what is
\* before it.
LEMMA CutMeans ==
    ASSUME PagingInv, NEW cut \in owed
    PROVE  /\ cut = <<cut[1], cut[2], cut[3]>> /\ cut[1] \in P!Places /\ cut[2] \in P!Fields
           /\ cut[3] \in Nat /\ P!RecordAt(cut[1])[cut[2]] \in Nat
           /\ cut[3] < P!RecordAt(cut[1])[cut[2]]
           /\ CutsOf(owed, cut[1], cut[2]) = {cut}
           /\ got[cut[1]][cut[2]] = 1..cut[3]
  <1>1. /\ cut = <<cut[1], cut[2], cut[3]>> /\ cut[1] \in P!Places /\ cut[2] \in P!Fields
        /\ cut[3] \in Nat
    BY DEF PagingInv, PagingTyped
  <1>2. PICK s \in P!Batch : \E k \in 1..place[s] : cut[1] = <<s, P!At(s, k)>>
    BY DEF PagingInv, CutsAreRead
  <1>3. PICK k \in 1..place[s] : cut[1] = <<s, P!At(s, k)>>
    BY <1>2
  <1>4. P!RecordAt(cut[1])[cut[2]] \in Nat
    <2>1. place[s] \in Nat /\ place[s] <= Len(session[s]) /\ Len(session[s]) \in Nat
      BY DEF PagingInv, PagingTyped
    <2>2. k \in 1..Len(session[s])
      BY <2>1
    <2>3. P!At(s, k) \in 1..Len(session[s])
      BY <2>2, AtIsOrder DEF PagingInv
    <2>4. session[s] \in Seq(Shapes)
      BY DEF PagingInv, PagingTyped
    <2>5. session[s][P!At(s, k)] \in Shapes
      BY <2>3, <2>4
    <2>6. P!RecordAt(cut[1]) \in Shapes
      BY <1>3, <2>5 DEF P!RecordAt
    <2> QED
      BY <1>1, <2>6, StoresConstants
  <1>5. cut[3] < P!RecordAt(cut[1])[cut[2]]
    BY DEF PagingInv, CutsAreRead
  <1>6. CutsOf(owed, cut[1], cut[2]) = {cut}
    BY DEF PagingInv, CutsAreRead, CutsOf
  <1>7. got[cut[1]][cut[2]] = P!Covered(cut[1], cut[2])
    BY <1>1, <1>3 DEF PagingInv, ReadIsCovered
  <1>8. P!Covered(cut[1], cut[2]) = Covers({cut}, P!RecordAt(cut[1])[cut[2]])
    BY <1>6, CoveredIs
  <1>9. Covers({cut}, P!RecordAt(cut[1])[cut[2]]) = 1..cut[3]
    BY DEF Covers
  <1> QED
    BY <1>1, <1>4, <1>5, <1>6, <1>7, <1>8, <1>9

\* A field that is read on: what comes follows what the client has.
LEMMA ReadFieldKeeps ==
    ASSUME PagingInv, NEW cut \in owed, NEW budget \in Budgets, P!ReadField(cut, budget)
    PROVE  PagingInv'
  <1> DEFINE p == cut[1]
             f == cut[2]
             o == cut[3]
             size == P!RecordAt(p)[f]
             n == P!ApplyField(P!RecordAt(p), f, o, budget)
             more == IF o + n < size THEN {<<p, f, o + n>>} ELSE {}
  <1>1. /\ cut = <<p, f, o>> /\ p \in P!Places /\ f \in P!Fields /\ o \in Nat /\ size \in Nat
        /\ o < size /\ CutsOf(owed, p, f) = {cut} /\ got[p][f] = 1..o
    BY CutMeans
  <1>2. n \in Nat /\ n > 0 /\ o + n <= size
    <2>1. budget \in Nat /\ budget > 0
      BY StoresConstants
    <2>2. n = P!Least(budget, size - o)
      BY DEF P!ApplyField
    <2> HIDE DEF n, size
    <2> QED
      BY <1>1, <2>1, <2>2 DEF P!Least
  <1>3. /\ got' = [got EXCEPT ![p][f] = @ \cup ((o + 1)..(o + n))]
        /\ received' = received + n /\ owed' = (owed \ {cut}) \cup more
        /\ session' = session /\ anchor' = anchor /\ place' = place
    BY DEF P!ReadField
  <1>T. /\ got \in [P!Places -> [P!Fields -> SUBSET Nat]] /\ received \in Nat
        /\ owed \subseteq P!Places \X P!Fields \X Nat
    BY DEF PagingInv, PagingTyped
  <1> HIDE DEF p, f, o, size, n
  <1>4. got'[p][f] = 1..(o + n)
    <2>1. got'[p][f] = got[p][f] \cup ((o + 1)..(o + n))
      BY <1>1, <1>3, <1>T
    <2>2. 1..o \cup (o + 1)..(o + n) = 1..(o + n)
      BY <1>1, <1>2
    <2> QED
      BY <1>1, <2>1, <2>2
  <1>5. \A q \in P!Places, g \in P!Fields : <<q, g>> # <<p, f>> => got'[q][g] = got[q][g]
    BY <1>1, <1>3, <1>T
  <1>6. CutsOf(owed', p, f) = more
    <2>1. \A d \in owed \ {cut} : ~(d[1] = p /\ d[2] = f)
      BY <1>1 DEF CutsOf
    <2> QED
      BY <1>3, <2>1 DEF CutsOf
  <1>7. \A q, g : <<q, g>> # <<p, f>> => CutsOf(owed', q, g) = CutsOf(owed, q, g)
    BY <1>1, <1>3 DEF CutsOf
  <1>8. \A s, k : (P!At(s, k))' = P!At(s, k)
    BY <1>3, CoveredIs
  <1>9. PagingTyped'
    <2>1. got' \in [P!Places -> [P!Fields -> SUBSET Nat]]
      BY <1>1, <1>2, <1>3, <1>T
    <2>2. received' \in Nat /\ owed' \subseteq P!Places \X P!Fields \X Nat
      BY <1>1, <1>2, <1>3, <1>T
    <2> QED
      BY <1>3, <2>1, <2>2 DEF PagingInv, PagingTyped
  <1>10. CutsAreRead'
    <2>1. ASSUME NEW c \in owed'
          PROVE  c \in owed \/ (c[1] = p /\ c[2] = f /\ c[3] = o + n /\ o + n < size)
      BY <1>3
    <2>2. \A c \in owed : \E s \in P!Batch : \E k \in 1..place[s] : c[1] = <<s, P!At(s, k)>>
      BY DEF PagingInv, CutsAreRead
    <2>3. \A c \in owed : c[3] < P!RecordAt(c[1])[c[2]]
      BY DEF PagingInv, CutsAreRead
    <2>4. \A c \in owed' : \E s \in P!Batch : \E k \in 1..place[s] : c[1] = <<s, P!At(s, k)>>
      BY <2>1, <2>2 DEF p
    <2>5. \A c \in owed' : c[3] < P!RecordAt(c[1])[c[2]]
      BY <2>1, <2>3 DEF size
    <2>6. ASSUME NEW c \in owed', NEW d \in owed', c[1] = d[1], c[2] = d[2] PROVE c = d
      <3>1. CASE <<c[1], c[2]>> = <<p, f>>
        <4>1. c \in more /\ d \in more
          BY <1>6, <2>6, <3>1 DEF CutsOf
        <4> QED
          BY <4>1
      <3>2. CASE <<c[1], c[2]>> # <<p, f>>
        <4>1. c \in owed /\ d \in owed
          BY <2>1, <2>6, <3>2
        <4> QED
          BY <2>6, <4>1 DEF PagingInv, CutsAreRead
      <3> QED
        BY <3>1, <3>2
    <2>7. \A c \in owed' : c[3] < (P!RecordAt(c[1]))'[c[2]]
      BY <1>3, <2>5 DEF P!RecordAt
    <2> QED
      BY <1>3, <1>8, <2>4, <2>6, <2>7 DEF CutsAreRead
  <1>11. ReadIsCovered'
    <2> SUFFICES ASSUME NEW s \in P!Batch, NEW k \in 1..place[s], NEW g \in P!Fields
                 PROVE  got'[<<s, P!At(s, k)>>][g] = (P!Covered(<<s, P!At(s, k)>>, g))'
      BY <1>3, <1>8 DEF ReadIsCovered
    <2> DEFINE q == <<s, P!At(s, k)>>
    <2>0. q \in P!Places
      <3>1. k \in 1..MaxRecords
        BY StoresConstants DEF PagingInv, PagingTyped
      <3> QED
        BY <3>1, AtIsOrder DEF PagingInv, P!Places
    <2>1. got[q][g] = Covers(CutsOf(owed, q, g), P!RecordAt(q)[g])
      BY CoveredIs DEF PagingInv, ReadIsCovered
    <2> HIDE DEF q
    <2> DEFINE Goal == got'[q][g] = Covers(CutsOf(owed', q, g), P!RecordAt(q)[g])
    <2>2. ASSUME <<q, g>> # <<p, f>> PROVE Goal
      <3>1. got'[q][g] = got[q][g] /\ CutsOf(owed', q, g) = CutsOf(owed, q, g)
        BY <1>5, <1>7, <2>0, <2>2
      <3>2. Goal
        BY <2>1, <3>1
      <3> QED
        BY <3>2
    <2>3. ASSUME <<q, g>> = <<p, f>> PROVE Goal
      <3>1. got'[q][g] = 1..(o + n) /\ CutsOf(owed', q, g) = more /\ P!RecordAt(q)[g] = size
        BY <1>4, <1>6, <2>3 DEF size
      <3>2. Covers(more, size) = 1..(o + n)
        <4>1. CASE o + n < size
          <5>1. more = {<<p, f, o + n>>}
            BY <4>1
          <5>2. \A d : Covers({d}, size) = 1..d[3]
            BY DEF Covers
          <5> HIDE DEF more
          <5> QED
            BY <5>1, <5>2
        <4>2. CASE ~(o + n < size)
          <5>1. more = {} /\ o + n = size
            BY <1>1, <1>2, <4>2
          <5> QED
            BY <5>1 DEF Covers
        <4> QED
          BY <4>1, <4>2
      <3> QED
        BY <3>1, <3>2
    <2>4. Goal
      BY <2>2, <2>3
    <2>5. (P!Covered(<<s, P!At(s, k)>>, g))' = Covers(CutsOf(owed', q, g), P!RecordAt(q)[g])
      BY <1>3, <1>8 DEF P!Covered, Covers, CutsOf, P!RecordAt, q
    <2> QED
      BY <2>4, <2>5 DEF q
  <1>12. RestIsUnread'
    <2> SUFFICES ASSUME NEW s \in P!Batch, NEW k \in (place[s] + 1)..MaxRecords, NEW g \in P!Fields
                 PROVE  got'[<<s, P!At(s, k)>>][g] = {}
      BY <1>3, <1>8 DEF RestIsUnread
    <2> DEFINE q == <<s, P!At(s, k)>>
    <2>0. q \in P!Places
      <3>1. k \in 1..MaxRecords
        BY StoresConstants DEF PagingInv, PagingTyped
      <3> QED
        BY <3>1, AtIsOrder DEF PagingInv, P!Places
    <2>1. got[q][g] = {}
      BY DEF PagingInv, RestIsUnread
    <2>2. p # q
      <3>0. cut \in owed
        OBVIOUS
      <3>1. PICK t \in P!Batch : \E l \in 1..place[t] : p = <<t, P!At(t, l)>>
        BY <3>0 DEF p, PagingInv, CutsAreRead
      <3>2. PICK l \in 1..place[t] : p = <<t, P!At(t, l)>>
        BY <3>1
      <3>3. place[s] \in Nat /\ place[t] \in Nat
        BY DEF PagingInv, PagingTyped
      <3>4. s = t => P!At(s, k) # P!At(s, l)
        <4> SUFFICES ASSUME s = t PROVE P!At(s, k) # P!At(s, l)
          OBVIOUS
        <4>1. k \in Nat \ {0} /\ l \in Nat \ {0} /\ k # l
          BY <3>2, <3>3
        <4> QED
          BY <4>1, AtIsOrder DEF PagingInv
      <3> QED
        BY <3>2, <3>4
    <2> HIDE DEF q
    <2> QED
      BY <1>5, <2>0, <2>1, <2>2 DEF q
  <1>13. AllIsCounted'
    <2> DEFINE new == Run(p, f, o, o + n)
    <2>1. Gotten' = Gotten \cup new
      <3>1. Gotten' = {c \in P!Places \X P!Fields \X Nat : c[3] \in got'[c[1]][c[2]]}
        BY DEF Gotten
      <3>2. ASSUME NEW c \in P!Places \X P!Fields \X Nat
            PROVE  c[3] \in got'[c[1]][c[2]] <=> c[3] \in got[c[1]][c[2]] \/ c \in new
        <4>1. c = <<c[1], c[2], c[3]>> /\ c[1] \in P!Places /\ c[2] \in P!Fields /\ c[3] \in Nat
          OBVIOUS
        <4>2. CASE <<c[1], c[2]>> = <<p, f>>
          <5>1. c \in new <=> c[3] \in (o + 1)..(o + n)
            BY <4>1, <4>2 DEF Run
          <5>2. c[3] \in 1..(o + n) <=> c[3] \in 1..o \/ c[3] \in (o + 1)..(o + n)
            BY <1>1, <1>2, <4>1
          <5> QED
            BY <1>1, <1>4, <4>2, <5>1, <5>2
        <4>3. CASE <<c[1], c[2]>> # <<p, f>>
          <5>1. c \notin new
            BY <4>1, <4>3 DEF Run
          <5> QED
            BY <1>5, <4>1, <4>3, <5>1
        <4> QED
          BY <4>2, <4>3
      <3>3. new \subseteq P!Places \X P!Fields \X Nat
        BY <1>1, <1>2 DEF Run
      <3> HIDE DEF new
      <3> QED
        BY <3>1, <3>2, <3>3 DEF Gotten
    <2>2. Gotten \cap new = {}
      BY <1>1 DEF Gotten, Run
    <2>3. IsFiniteSet(new) /\ Cardinality(new) = n
      <3>1. IsFiniteSet(new) /\ Cardinality(new) = (o + n) - o
        BY <1>1, <1>2, RunCounts
      <3> QED
        BY <1>1, <1>2, <3>1
    <2>4. IsFiniteSet(Gotten) /\ Cardinality(Gotten) = received
      BY DEF PagingInv, AllIsCounted
    <2> HIDE DEF new
    <2>5. IsFiniteSet(Gotten \cup new) /\ Cardinality(Gotten \cup new) = received + n
      BY <2>2, <2>3, <2>4, DisjointCounts
    <2> QED
      BY <1>3, <2>1, <2>5 DEF AllIsCounted
  <1> QED
    BY <1>9, <1>10, <1>11, <1>12, <1>13 DEF PagingInv

\* How much of a candidate a page has.
Part(limit, budget, i) ==
    P!ApplyAll(P!RecordAt(Page(limit)[i]), P!Left(Page(limit), budget)[i - 1])

\* No more of a field than there is, and nothing of a record that is not taken.
LEMMA PartsFit ==
    ASSUME PagingTyped, NEW limit \in Limits, NEW budget \in Budgets, NEW i \in 1..Size(limit)
    PROVE  /\ Part(limit, budget, i) \in [P!Fields -> Nat]
           /\ P!RecordAt(Page(limit)[i]) \in [P!Fields -> Nat]
           /\ \A f \in P!Fields : Part(limit, budget, i)[f] <= P!RecordAt(Page(limit)[i])[f]
           /\ i \notin P!Taken(Page(limit), budget) =>
                  \A f \in P!Fields : Part(limit, budget, i)[f] = 0
           /\ P!Left(Page(limit), budget)[i]
                  = P!Left(Page(limit), budget)[i - 1] - P!Sum3(Part(limit, budget, i))
  <1> DEFINE r == P!Left(Page(limit), budget)[i - 1]
             record == P!RecordAt(Page(limit)[i])
             x == Part(limit, budget, i)
  <1>1. PageOf(Page(limit), Size(limit)) /\ Size(limit) \in Nat /\ budget \in Nat
    BY PageIsGood, SharesAreNumbers, StoresConstants
  <1>2. record \in [P!Fields -> Nat] /\ i \in DOMAIN Page(limit)
    BY <1>1 DEF PageOf
  <1>3. P!Left(Page(limit), budget) \in [0..Size(limit) -> Nat]
    BY <1>1, LeftUnfolds
  <1>4. i - 1 \in 0..Size(limit)
    BY <1>1
  <1>5. r \in Nat
    BY <1>3, <1>4
  <1>6. P!Left(Page(limit), budget)[i] = r - P!Sum3(x)
    BY <1>1, LeftUnfolds DEF Part
  <1>7. i \notin P!Taken(Page(limit), budget) => r = 0
    BY <1>2, <1>5 DEF P!Taken, P!Included
  <1>8. x = P!ApplyAll(record, r)
    BY DEF Part
  <1> HIDE DEF r, record, x
  <1>9. /\ x \in [P!Fields -> Nat] /\ \A f \in P!Fields : x[f] <= record[f]
        /\ r = 0 => \A f \in P!Fields : x[f] = 0
    BY <1>2, <1>5, <1>8, ApplyAllFits
  <1> QED
    BY <1>2, <1>6, <1>7, <1>9 DEF r, record, x

\* The candidates of a session are next to each other.
LEMMA ShareIsRun ==
    ASSUME PagingTyped, NEW limit \in Limits, NEW s \in P!Batch, NEW i \in 1..Size(limit)
    PROVE  Page(limit)[i][1] = s
               <=> i \in (Before(s, limit) + 1)..(Before(s, limit) + Share(s, limit))
  <1>1. Before(s, limit) \in Nat /\ Share(s, limit) \in Nat /\ Size(limit) \in Nat
    BY SharesAreNumbers
  <1>2. ASSUME Page(limit)[i][1] = s
        PROVE  i \in (Before(s, limit) + 1)..(Before(s, limit) + Share(s, limit))
    <2>1. PICK t \in P!Batch : \E j \in 1..Share(t, limit) : i = Before(t, limit) + j
      BY PageLists
    <2>2. PICK j \in 1..Share(t, limit) : i = Before(t, limit) + j
      BY <2>1
    <2>3. Page(limit)[i] = <<t, P!At(t, place[t] + j)>>
      BY <2>2, PageLists
    <2>4. t = s
      BY <1>2, <2>3
    <2> QED
      BY <1>1, <2>2, <2>4
  <1>3. ASSUME i \in (Before(s, limit) + 1)..(Before(s, limit) + Share(s, limit))
        PROVE  Page(limit)[i][1] = s
    <2> DEFINE j == i - Before(s, limit)
    <2>1. j \in 1..Share(s, limit) /\ i = Before(s, limit) + j
      BY <1>1, <1>3
    <2> HIDE DEF j
    <2>2. Page(limit)[i] = <<s, P!At(s, place[s] + j)>>
      BY <2>1, PageLists
    <2> QED
      BY <2>2
  <1> QED
    BY <1>2, <1>3

\* The next page of a session starts after the records this one has of it.
LEMMA NextOffsetIs ==
    ASSUME PagingTyped, NEW limit \in Limits, NEW m \in 0..Size(limit), NEW s \in P!Batch,
           NEW d, d = P!NextOffset(s, Page(limit), 1..m)
    PROVE  /\ d \in Nat /\ place[s] <= d /\ d <= place[s] + Share(s, limit)
           /\ \A j \in 1..Share(s, limit) : place[s] + j <= d <=> Before(s, limit) + j <= m
  <1> DEFINE b == Before(s, limit)
             h == Share(s, limit)
             e == IF m < b + h THEN m ELSE b + h
             mine == {i \in 1..m : Page(limit)[i][1] = s}
  <1>1. b \in Nat /\ h \in Nat /\ Size(limit) \in Nat /\ b + h <= Size(limit) /\ place[s] \in Nat
        /\ m \in Nat /\ m <= Size(limit)
    BY SharesAreNumbers
  <1>2. mine = (b + 1)..e
    <2>1. ASSUME NEW i \in 1..m
          PROVE  Page(limit)[i][1] = s <=> i \in (b + 1)..(b + h)
      <3>1. i \in 1..Size(limit)
        BY <1>1
      <3> QED
        BY <3>1, ShareIsRun
    <2>2. mine = {i \in 1..m : i \in (b + 1)..(b + h)}
      BY <2>1
    <2> HIDE DEF mine, b, h
    <2>3. {i \in 1..m : i \in (b + 1)..(b + h)} = (b + 1)..e
      BY <1>1
    <2> QED
      BY <2>2, <2>3
  <1> HIDE DEF mine, b, h
  <1>3. e \in Nat /\ b + 1 \in Int /\ e \in Int
    BY <1>1
  <1> HIDE DEF e
  <1>4. Cardinality((b + 1)..e) = IF b + 1 > e THEN 0 ELSE e - (b + 1) + 1
    BY <1>3, FS_Interval
  <1>5. P!Cardinality(mine) = Cardinality(mine)
    BY DEF P!Cardinality, Cardinality
  <1>6. d = place[s] + (IF b + 1 > e THEN 0 ELSE e - (b + 1) + 1)
    BY <1>2, <1>4, <1>5 DEF P!NextOffset, mine
  <1>7. d \in Nat /\ place[s] <= d /\ d <= place[s] + h
    BY <1>1, <1>3, <1>6 DEF e
  <1>8. \A j \in 1..h : place[s] + j <= d <=> b + j <= m
    BY <1>1, <1>3, <1>6 DEF e
  <1> QED
    BY <1>7, <1>8 DEF b, h

\* Which records a page moves past: those it has.
LEMMA PageMoves ==
    ASSUME PagingTyped, NEW limit \in Limits, NEW m \in 0..Size(limit), NEW later,
           \A s \in P!Batch : later[s] = P!NextOffset(s, Page(limit), 1..m)
    PROVE  /\ \A s \in P!Batch : /\ later[s] \in Nat /\ place[s] <= later[s]
                                 /\ later[s] <= Len(session[s])
           /\ \A s \in P!Batch : \A k \in Nat \ {0} : \A i \in 1..m :
                  Page(limit)[i] = <<s, P!At(s, k)>> => place[s] < k /\ k <= later[s]
           /\ \A s \in P!Batch : \A k \in (place[s] + 1)..later[s] :
                  \E i \in 1..m : Page(limit)[i] = <<s, P!At(s, k)>>
  <1>1. ASSUME NEW s \in P!Batch
        PROVE  /\ later[s] \in Nat /\ place[s] <= later[s] /\ later[s] <= place[s] + Share(s, limit)
               /\ \A j \in 1..Share(s, limit) :
                      place[s] + j <= later[s] <=> Before(s, limit) + j <= m
    <2>1. later[s] = P!NextOffset(s, Page(limit), 1..m)
      OBVIOUS
    <2> QED
      BY <2>1, NextOffsetIs
  <1>2. ASSUME NEW s \in P!Batch
        PROVE  /\ place[s] \in Nat /\ Share(s, limit) \in Nat /\ Before(s, limit) \in Nat
               /\ Len(session[s]) \in Nat /\ place[s] + Share(s, limit) <= Len(session[s])
               /\ Before(s, limit) + Share(s, limit) <= Size(limit) /\ Size(limit) \in Nat
    BY SharesAreNumbers
  <1>3. ASSUME NEW s \in P!Batch
        PROVE  later[s] \in Nat /\ place[s] <= later[s] /\ later[s] <= Len(session[s])
    BY <1>1, <1>2
  <1>4. ASSUME NEW s \in P!Batch, NEW k \in Nat \ {0}, NEW i \in 1..m,
               Page(limit)[i] = <<s, P!At(s, k)>>
        PROVE  place[s] < k /\ k <= later[s]
    <2>1. i \in 1..Size(limit)
      BY <1>2
    <2>2. PICK t \in P!Batch : \E j \in 1..Share(t, limit) : i = Before(t, limit) + j
      BY <2>1, PageLists
    <2>3. PICK j \in 1..Share(t, limit) : i = Before(t, limit) + j
      BY <2>2
    <2>4. Page(limit)[i] = <<t, P!At(t, place[t] + j)>>
      BY <2>3, PageLists
    <2>5. t = s /\ P!At(s, place[s] + j) = P!At(s, k)
      BY <1>4, <2>4
    <2>6. place[s] + j \in Nat \ {0} /\ j \in 1..Share(s, limit)
      BY <1>2, <2>3, <2>5
    <2>7. place[s] + j = k
      BY <2>5, <2>6, AtIsOrder
    <2>8. Before(s, limit) + j <= m
      BY <2>3, <2>5
    <2>9. place[s] + j <= later[s]
      BY <1>1, <2>6, <2>8
    <2>10. place[s] \in Nat /\ j \in Nat \ {0}
      BY <1>2, <2>6
    <2>11. place[s] < place[s] + j
      BY <2>10
    <2> QED
      BY <2>7, <2>9, <2>11
  <1>5. ASSUME NEW s \in P!Batch, NEW k \in (place[s] + 1)..later[s]
        PROVE  \E i \in 1..m : Page(limit)[i] = <<s, P!At(s, k)>>
    <2> DEFINE j == k - place[s]
    <2>1. j \in 1..Share(s, limit) /\ place[s] + j = k /\ place[s] + j <= later[s]
      BY <1>1, <1>2
    <2> HIDE DEF j
    <2>2. Before(s, limit) + j <= m
      BY <1>1, <2>1
    <2>3. Before(s, limit) + j \in 1..m
      BY <1>2, <2>1, <2>2
    <2>4. Page(limit)[Before(s, limit) + j] = <<s, P!At(s, place[s] + j)>>
      BY <2>1, PageLists
    <2>5. Page(limit)[Before(s, limit) + j] = <<s, P!At(s, k)>>
      BY <2>1, <2>4
    <2> QED
      BY <2>3, <2>5
  <1> QED
    BY <1>3, <1>4, <1>5

\* A page: what it has of its records comes first of them, and nothing of them came before.
LEMMA ReadPagesKeeps ==
    ASSUME PagingInv, NEW limit \in Limits, NEW budget \in Budgets, P!ReadPages(limit, budget)
    PROVE  PagingInv'
  <1> DEFINE page == Page(limit)
             n == Size(limit)
             left == P!Left(page, budget)
             taken == P!Taken(page, budget)
             part(i) == Part(limit, budget, i)
             Cut(i, f) == <<page[i], f, part(i)[f]>>
             IsCut(i, f) == part(i)[f] < P!RecordAt(page[i])[f]
  <1>T. /\ PagingTyped /\ got \in [P!Places -> [P!Fields -> SUBSET Nat]] /\ received \in Nat
        /\ owed \subseteq P!Places \X P!Fields \X Nat
    BY DEF PagingInv, PagingTyped
  <1>1. n \in Nat /\ budget \in Nat /\ PageOf(page, n) /\ Len(page) = n
    BY <1>T, PageIsGood, SharesAreNumbers, StoresConstants DEF PageOf
  <1>2. PICK m \in 0..n : taken = 1..m
    BY <1>1, TakenIsPrefix
  <1>3. /\ place' = [s \in P!Batch |-> P!NextOffset(s, page, taken)]
        /\ received' = received + budget - left[n]
        /\ session' = session /\ anchor' = anchor
    BY <1>1 DEF P!ReadPages, Page
  <1>4. ASSUME NEW p \in P!Places, NEW f \in P!Fields
        PROVE  got'[p][f] = got[p][f] \cup UNION {1..part(i)[f] : i \in {j \in taken : page[j] = p}}
    <2> DEFINE parts == [i \in taken |-> P!ApplyAll(P!RecordAt(page[i]), left[i - 1])]
    <2>1. got'[p][f]
              = got[p][f] \cup UNION {1..parts[i][f] : i \in {j \in taken : page[j] = p}}
      BY DEF P!ReadPages, Page
    <2>2. \A i \in taken : parts[i] = part(i)
      BY DEF Part
    <2> HIDE DEF parts, taken, part, page
    <2>3. {1..parts[i][f] : i \in {j \in taken : page[j] = p}}
              = {1..part(i)[f] : i \in {j \in taken : page[j] = p}}
      BY <2>2
    <2> QED
      BY <2>1, <2>3
  <1>5. owed' = owed \cup {Cut(c[1], c[2]) : c \in {k \in taken \X P!Fields : IsCut(k[1], k[2])}}
    <2> DEFINE parts == [i \in taken |-> P!ApplyAll(P!RecordAt(page[i]), left[i - 1])]
    <2>1. owed' = owed \cup {<<page[c[1]], c[2], parts[c[1]][c[2]]>> :
                                c \in {k \in taken \X P!Fields :
                                    parts[k[1]][k[2]] < P!RecordAt(page[k[1]])[k[2]]}}
      BY DEF P!ReadPages, Page
    <2>2. \A i \in taken : parts[i] = part(i)
      BY DEF Part
    <2> HIDE DEF parts, taken, part, page
    <2>3. \A k \in taken \X P!Fields : parts[k[1]] = part(k[1])
      BY <2>2
    <2>4. {k \in taken \X P!Fields : parts[k[1]][k[2]] < P!RecordAt(page[k[1]])[k[2]]}
             = {k \in taken \X P!Fields : IsCut(k[1], k[2])}
      BY <2>3
    <2> HIDE DEF IsCut
    <2> QED
      BY <2>1, <2>3, <2>4
  <1>6. /\ \A i, j \in 1..n : page[i] = page[j] => i = j
        /\ \A i \in 1..n : page[i] \in P!Places
    BY <1>T, PageIsGood
  <1>7. ASSUME NEW i \in 1..n
        PROVE  /\ part(i) \in [P!Fields -> Nat] /\ P!RecordAt(page[i]) \in [P!Fields -> Nat]
               /\ \A f \in P!Fields : part(i)[f] <= P!RecordAt(page[i])[f]
               /\ i \notin 1..m => \A f \in P!Fields : part(i)[f] = 0
               /\ left[i] = left[i - 1] - P!Sum3(part(i))
    BY <1>T, <1>2, PartsFit
  <1>8. left \in [0..n -> Nat] /\ left[0] = budget
    <2> HIDE DEF page, n
    <2>1. left \in [0..n -> Nat]
      BY <1>1, LeftUnfolds
    <2>2. left[0] = budget
      BY <1>1, LeftUnfolds
    <2> QED
      BY <2>1, <2>2
  <1>9. /\ \A s \in P!Batch : /\ place'[s] \in Nat /\ place[s] <= place'[s]
                              /\ place'[s] <= Len(session[s])
        /\ \A s \in P!Batch : \A k \in Nat \ {0} : \A i \in 1..m :
               page[i] = <<s, P!At(s, k)>> => place[s] < k /\ k <= place'[s]
        /\ \A s \in P!Batch : \A k \in (place[s] + 1)..place'[s] :
               \E i \in 1..m : page[i] = <<s, P!At(s, k)>>
    <2>1. \A s \in P!Batch : place'[s] = P!NextOffset(s, Page(limit), 1..m)
      BY <1>2, <1>3
    <2> DEFINE later == place'
    <2> HIDE DEF later
    <2>2. \A s \in P!Batch : later[s] = P!NextOffset(s, Page(limit), 1..m)
      BY <2>1 DEF later
    <2> QED
      BY <1>T, <2>2, PageMoves DEF later
  <1> HIDE DEF page, n, left, taken, part
  <1>10. \A i \in 1..m : i \in 1..n
    BY <1>1
  <1>11. ASSUME NEW p \in P!Places, NEW f \in P!Fields
         PROVE  /\ \A i \in 1..m : page[i] = p => got'[p][f] = got[p][f] \cup 1..part(i)[f]
                /\ (\A i \in 1..m : page[i] # p) => got'[p][f] = got[p][f]
    <2>1. got'[p][f] = got[p][f] \cup UNION {1..part(i)[f] : i \in {j \in 1..m : page[j] = p}}
      BY <1>2, <1>4
    <2>2. ASSUME NEW i \in 1..m, page[i] = p PROVE got'[p][f] = got[p][f] \cup 1..part(i)[f]
      <3>1. {j \in 1..m : page[j] = p} = {i}
        BY <1>6, <1>10, <2>2
      <3>2. {1..part(j)[f] : j \in {i}} = {1..part(i)[f]}
        OBVIOUS
      <3>3. UNION {1..part(i)[f]} = 1..part(i)[f]
        OBVIOUS
      <3> QED
        BY <2>1, <3>1, <3>2, <3>3
    <2>3. ASSUME \A i \in 1..m : page[i] # p PROVE got'[p][f] = got[p][f]
      <3>1. {j \in 1..m : page[j] = p} = {}
        BY <2>3
      <3>2. UNION {1..part(i)[f] : i \in {}} = {}
        OBVIOUS
      <3> QED
        BY <2>1, <3>1, <3>2
    <2> QED
      BY <2>2, <2>3
  <1>12. ASSUME NEW c
         PROVE  c \in owed' <=> \/ c \in owed
                                \/ \E i \in 1..m : \E f \in P!Fields : IsCut(i, f) /\ c = Cut(i, f)
    <2> HIDE DEF IsCut, Cut
    <2>1. ASSUME c \in owed', c \notin owed
          PROVE  \E i \in 1..m : \E f \in P!Fields : IsCut(i, f) /\ c = Cut(i, f)
      <3>1. PICK k \in (1..m) \X P!Fields : IsCut(k[1], k[2]) /\ c = Cut(k[1], k[2])
        BY <1>2, <1>5, <2>1
      <3>2. k[1] \in 1..m /\ k[2] \in P!Fields
        OBVIOUS
      <3> QED
        BY <3>1, <3>2
    <2>2. ASSUME NEW i \in 1..m, NEW f \in P!Fields, IsCut(i, f), c = Cut(i, f)
          PROVE  c \in owed'
      <3> DEFINE k == <<i, f>>
      <3>1. k \in (1..m) \X P!Fields /\ k[1] = i /\ k[2] = f
        OBVIOUS
      <3> HIDE DEF k
      <3> QED
        BY <1>2, <1>5, <2>2, <3>1
    <2> QED
      BY <1>5, <2>1, <2>2
  <1>13. \A s, k : (P!At(s, k))' = P!At(s, k)
    BY <1>3, CoveredIs
  <1>14. \A c \in owed : \E s \in P!Batch : \E k \in 1..place[s] : c[1] = <<s, P!At(s, k)>>
    BY DEF PagingInv, CutsAreRead
  <1>15. ASSUME NEW c \in owed, NEW i \in 1..m PROVE c[1] # page[i]
    <2>1. PICK s \in P!Batch : \E k \in 1..place[s] : c[1] = <<s, P!At(s, k)>>
      BY <1>14
    <2>2. PICK k \in 1..place[s] : c[1] = <<s, P!At(s, k)>>
      BY <2>1
    <2>3. place[s] \in Nat
      BY <1>T DEF PagingTyped
    <2>4. k \in Nat \ {0} /\ ~(place[s] < k)
      BY <2>2, <2>3
    <2> QED
      BY <1>9, <2>2, <2>4
  <1>16. ASSUME NEW i \in 1..m
         PROVE  \E s \in P!Batch : \E k \in 1..place'[s] : page[i] = <<s, P!At(s, k)>>
    <2>1. page[i] \in P!Places
      BY <1>6, <1>10
    <2>2. /\ page[i] = <<page[i][1], page[i][2]>> /\ page[i][1] \in P!Batch
          /\ page[i][2] \in 1..MaxRecords
      BY <2>1 DEF P!Places
    <2>3. PICK k \in 1..MaxRecords : P!At(page[i][1], k) = page[i][2]
      BY <1>T, <2>2, AtIsOrder
    <2>4. k \in Nat \ {0} /\ page[i] = <<page[i][1], P!At(page[i][1], k)>>
      BY <2>2, <2>3, StoresConstants
    <2>5. k <= place'[page[i][1]] /\ place'[page[i][1]] \in Nat
      BY <1>9, <2>2, <2>4
    <2>6. k \in 1..place'[page[i][1]]
      BY <2>4, <2>5
    <2> QED
      BY <2>2, <2>4, <2>6
  <1>17. PagingTyped'
    <2>1. got' \in [P!Places -> [P!Fields -> SUBSET Nat]]
      <3>1. DOMAIN got' = P!Places /\ \A p \in P!Places : got'[p] = [f \in P!Fields |-> got'[p][f]]
        BY DEF P!ReadPages
      <3>2. got' = [p \in P!Places |-> got'[p]]
        BY DEF P!ReadPages
      <3>3. ASSUME NEW p \in P!Places, NEW f \in P!Fields PROVE got'[p][f] \in SUBSET Nat
        <4>1. got[p][f] \in SUBSET Nat
          BY <1>T
        <4>2. CASE \A i \in 1..m : page[i] # p
          BY <1>11, <4>1, <4>2
        <4>3. CASE \E i \in 1..m : page[i] = p
          <5>1. PICK i \in 1..m : page[i] = p
            BY <4>3
          <5>2. got'[p][f] = got[p][f] \cup 1..part(i)[f]
            BY <1>11, <5>1
          <5>3. part(i)[f] \in Nat
            BY <1>7, <1>10
          <5> QED
            BY <4>1, <5>2, <5>3
        <4> QED
          BY <4>2, <4>3
      <3>4. \A p \in P!Places : got'[p] \in [P!Fields -> SUBSET Nat]
        BY <3>1, <3>3
      <3> QED
        BY <3>2, <3>4
    <2>2. owed' \subseteq P!Places \X P!Fields \X Nat
      <3> SUFFICES ASSUME NEW c \in owed' PROVE c \in P!Places \X P!Fields \X Nat
        OBVIOUS
      <3>1. CASE c \in owed
        BY <1>T, <3>1
      <3>2. CASE \E i \in 1..m : \E f \in P!Fields : IsCut(i, f) /\ c = Cut(i, f)
        BY <1>6, <1>7, <1>10, <3>2
      <3> QED
        BY <1>12, <3>1, <3>2
    <2>3. received' \in Nat
      <3>1. left[n] \in Nat /\ left[n] <= left[0]
        <4>1. 0 \in 0..n /\ n \in 0..n
          BY <1>1
        <4> QED
          BY <1>1, <1>8, <4>1, LeftGoesDown DEF left
      <3> QED
        BY <1>1, <1>3, <1>8, <1>T, <3>1
    <2>4. place' \in [P!Batch -> Nat] /\ \A s \in P!Batch : place'[s] <= Len(session'[s])
      BY <1>3, <1>9
    <2> QED
      BY <1>3, <1>T, <2>1, <2>2, <2>3, <2>4 DEF PagingTyped
  <1>18. CutsAreRead'
    <2>1. ASSUME NEW c \in owed'
          PROVE  \E s \in P!Batch : \E k \in 1..place'[s] : c[1] = <<s, P!At(s, k)>>
      <3>1. CASE c \in owed
        <4>1. PICK s \in P!Batch : \E k \in 1..place[s] : c[1] = <<s, P!At(s, k)>>
          BY <1>14, <3>1
        <4>2. PICK k \in 1..place[s] : c[1] = <<s, P!At(s, k)>>
          BY <4>1
        <4>3. place[s] \in Nat /\ place'[s] \in Nat /\ place[s] <= place'[s]
          BY <1>9, <1>T DEF PagingTyped
        <4>4. k \in 1..place'[s]
          BY <4>2, <4>3
        <4> QED
          BY <4>2, <4>4
      <3>2. CASE \E i \in 1..m : \E f \in P!Fields : IsCut(i, f) /\ c = Cut(i, f)
        <4>1. PICK i \in 1..m : c[1] = page[i]
          BY <3>2
        <4> QED
          BY <1>16, <4>1
      <3> QED
        BY <1>12, <3>1, <3>2
    <2>2. ASSUME NEW c \in owed' PROVE c[3] < P!RecordAt(c[1])[c[2]]
      <3>1. CASE c \in owed
        BY <3>1 DEF PagingInv, CutsAreRead
      <3>2. CASE \E i \in 1..m : \E f \in P!Fields : IsCut(i, f) /\ c = Cut(i, f)
        BY <3>2
      <3> QED
        BY <1>12, <3>1, <3>2
    <2>3. ASSUME NEW c \in owed', NEW d \in owed', c[1] = d[1], c[2] = d[2] PROVE c = d
      <3>1. CASE c \in owed /\ d \in owed
        BY <2>3, <3>1 DEF PagingInv, CutsAreRead
      <3>2. ASSUME NEW x \in owed'
            PROVE  x \in owed \/ \E i \in 1..m : \E f \in P!Fields : x = Cut(i, f)
        BY <1>12
      <3>3. CASE c \notin owed
        <4>1. PICK i \in 1..m, f \in P!Fields : c = Cut(i, f)
          BY <3>2, <3>3
        <4>2. c[1] = page[i] /\ c[2] = f
          BY <4>1
        <4>3. d \notin owed
          BY <1>15, <2>3, <4>2
        <4>4. PICK j \in 1..m, g \in P!Fields : d = Cut(j, g)
          BY <3>2, <4>3
        <4>5. d[1] = page[j] /\ d[2] = g
          BY <4>4
        <4>6. i = j /\ f = g
          BY <1>6, <1>10, <2>3, <4>2, <4>5
        <4> QED
          BY <4>1, <4>4, <4>6
      <3>4. CASE d \notin owed
        <4>1. PICK i \in 1..m, f \in P!Fields : d = Cut(i, f)
          BY <3>2, <3>4
        <4>2. d[1] = page[i]
          BY <4>1
        <4>3. c \notin owed
          BY <1>15, <2>3, <4>2
        <4> QED
          BY <3>3, <4>3
      <3> QED
        BY <3>1, <3>3, <3>4
    <2>4. \A c \in owed' : c[3] < (P!RecordAt(c[1]))'[c[2]]
      BY <1>3, <2>2 DEF P!RecordAt
    <2> QED
      BY <1>13, <2>1, <2>3, <2>4 DEF CutsAreRead
  <1>25. ASSUME NEW i \in 1..m, NEW f \in P!Fields PROVE got[page[i]][f] = {}
    <2>1. page[i] = <<page[i][1], page[i][2]>> /\ page[i][1] \in P!Batch
          /\ page[i][2] \in 1..MaxRecords
      BY <1>6, <1>10 DEF P!Places
    <2>2. PICK k \in 1..MaxRecords : P!At(page[i][1], k) = page[i][2]
      BY <1>T, <2>1, AtIsOrder
    <2>3. k \in Nat \ {0} /\ page[i] = <<page[i][1], P!At(page[i][1], k)>>
      BY <2>1, <2>2, StoresConstants
    <2>4. place[page[i][1]] < k /\ place[page[i][1]] \in Nat
      BY <1>9, <1>T, <2>1, <2>3 DEF PagingTyped
    <2>5. k \in (place[page[i][1]] + 1)..MaxRecords
      BY <2>2, <2>4, StoresConstants
    <2> QED
      BY <2>1, <2>3, <2>5 DEF PagingInv, RestIsUnread
  <1>19. ASSUME NEW i \in 1..m, NEW f \in P!Fields
         PROVE  got'[page[i]][f] = Covers(CutsOf(owed', page[i], f), P!RecordAt(page[i])[f])
    <2> DEFINE size == P!RecordAt(page[i])[f]
    <2>1. part(i)[f] \in Nat /\ size \in Nat /\ part(i)[f] <= size /\ page[i] \in P!Places
      BY <1>6, <1>7, <1>10
    <2>2. got[page[i]][f] = {}
      BY <1>25
    <2>7. got'[page[i]][f] = got[page[i]][f] \cup 1..part(i)[f]
      BY <1>11, <2>1
    <2>3. got'[page[i]][f] = 1..part(i)[f]
      BY <2>2, <2>7
    <2>4. ASSUME NEW c PROVE c \in CutsOf(owed', page[i], f) <=> IsCut(i, f) /\ c = Cut(i, f)
      <3>1. ASSUME c \in owed', c[1] = page[i], c[2] = f PROVE IsCut(i, f) /\ c = Cut(i, f)
        <4>1. c \notin owed
          BY <1>15, <3>1
        <4>2. PICK j \in 1..m, g \in P!Fields : IsCut(j, g) /\ c = Cut(j, g)
          BY <1>12, <3>1, <4>1
        <4>3. c[1] = page[j] /\ c[2] = g
          BY <4>2
        <4>4. i = j /\ f = g
          BY <1>6, <1>10, <3>1, <4>3
        <4> QED
          BY <4>2, <4>4
      <3>2. ASSUME IsCut(i, f), c = Cut(i, f) PROVE c \in owed' /\ c[1] = page[i] /\ c[2] = f
        BY <1>12, <3>2
      <3> HIDE DEF IsCut, Cut
      <3> QED
        BY <3>1, <3>2 DEF CutsOf
    <2>5. CASE part(i)[f] < size
      <3>1. CutsOf(owed', page[i], f) = {Cut(i, f)}
        <4>1. IsCut(i, f)
          BY <2>5
        <4> HIDE DEF IsCut, Cut
        <4> QED
          BY <2>4, <4>1
      <3>2. \A d : Covers({d}, size) = 1..d[3]
        BY DEF Covers
      <3>3. Cut(i, f)[3] = part(i)[f]
        OBVIOUS
      <3> HIDE DEF Cut, size
      <3>4. Covers(CutsOf(owed', page[i], f), size) = 1..part(i)[f]
        BY <3>1, <3>2, <3>3
      <3> QED
        BY <2>3, <3>4 DEF size
    <2>6. CASE ~(part(i)[f] < size)
      <3>1. CutsOf(owed', page[i], f) = {}
        <4>1. ~IsCut(i, f)
          BY <2>6
        <4> HIDE DEF IsCut, Cut
        <4> QED
          BY <2>4, <4>1
      <3>2. size = part(i)[f]
        BY <2>1, <2>6
      <3>3. Covers({}, size) = 1..size
        BY DEF Covers
      <3> HIDE DEF size
      <3>4. Covers(CutsOf(owed', page[i], f), size) = 1..part(i)[f]
        BY <3>1, <3>2, <3>3
      <3> QED
        BY <2>3, <3>4 DEF size
    <2> QED
      BY <2>5, <2>6
  <1>20. ASSUME NEW p \in P!Places, \A i \in 1..m : page[i] # p, NEW f \in P!Fields
         PROVE  got'[p][f] = got[p][f] /\ CutsOf(owed', p, f) = CutsOf(owed, p, f)
    <2>1. got'[p][f] = got[p][f]
      BY <1>11, <1>20
    <2>2. ASSUME NEW c \in owed', c[1] = p PROVE c \in owed
      BY <1>12, <1>20, <2>2
    <2>3. owed \subseteq owed'
      BY <1>12
    <2> QED
      BY <2>1, <2>2, <2>3 DEF CutsOf
  <1>21. ASSUME NEW s \in P!Batch, NEW k \in Nat \ {0}, k <= MaxRecords
         PROVE  <<s, P!At(s, k)>> \in P!Places
    <2>1. k \in 1..MaxRecords
      BY <1>21, StoresConstants
    <2> QED
      BY <1>T, <2>1, AtIsOrder DEF P!Places
  <1>22. ReadIsCovered'
    <2> SUFFICES ASSUME NEW s \in P!Batch, NEW k \in 1..place'[s], NEW f \in P!Fields
                 PROVE  got'[<<s, P!At(s, k)>>][f] = (P!Covered(<<s, P!At(s, k)>>, f))'
      BY <1>13 DEF ReadIsCovered
    <2> DEFINE q == <<s, P!At(s, k)>>
               Goal == got'[q][f] = Covers(CutsOf(owed', q, f), P!RecordAt(q)[f])
    <2>0. /\ place[s] \in Nat /\ place'[s] \in Nat /\ place'[s] <= Len(session[s])
          /\ Len(session[s]) \in Nat /\ Len(session[s]) <= MaxRecords /\ MaxRecords \in Nat
      BY <1>9, <1>T, StoresConstants DEF PagingTyped
    <2>1. q \in P!Places
      BY <1>21, <2>0
    <2>2. ASSUME k <= place[s] PROVE Goal
      <3>1. got[q][f] = Covers(CutsOf(owed, q, f), P!RecordAt(q)[f])
        <4>1. k \in 1..place[s]
          BY <2>0, <2>2
        <4> QED
          BY <4>1, CoveredIs DEF PagingInv, ReadIsCovered
      <3>2. \A i \in 1..m : page[i] # q
        BY <1>9, <2>0, <2>2
      <3> HIDE DEF q
      <3>3. got'[q][f] = got[q][f] /\ CutsOf(owed', q, f) = CutsOf(owed, q, f)
        BY <1>20, <2>1, <3>2
      <3> QED
        BY <3>1, <3>3
    <2>3. ASSUME ~(k <= place[s]) PROVE Goal
      <3>1. k \in (place[s] + 1)..place'[s]
        BY <2>0, <2>3
      <3>2. PICK i \in 1..m : page[i] = q
        BY <1>9, <3>1
      <3> HIDE DEF q
      <3> QED
        BY <1>19, <3>2
    <2>4. Goal
      BY <2>2, <2>3
    <2>5. (P!Covered(<<s, P!At(s, k)>>, f))' = Covers(CutsOf(owed', q, f), P!RecordAt(q)[f])
      BY <1>3, <1>13 DEF P!Covered, Covers, CutsOf, P!RecordAt
    <2> QED
      BY <2>4, <2>5
  <1>23. RestIsUnread'
    <2> SUFFICES ASSUME NEW s \in P!Batch, NEW k \in (place'[s] + 1)..MaxRecords, NEW f \in P!Fields
                 PROVE  got'[<<s, P!At(s, k)>>][f] = {}
      BY <1>13 DEF RestIsUnread
    <2> DEFINE q == <<s, P!At(s, k)>>
    <2>0. place[s] \in Nat /\ place'[s] \in Nat /\ place[s] <= place'[s] /\ MaxRecords \in Nat
      BY <1>9, <1>T, StoresConstants DEF PagingTyped
    <2>1. q \in P!Places
      BY <1>21, <2>0
    <2>2. k \in (place[s] + 1)..MaxRecords /\ k \in Nat \ {0} /\ ~(k <= place'[s])
      BY <2>0
    <2>3. got[q][f] = {}
      BY <2>2 DEF PagingInv, RestIsUnread
    <2>4. \A i \in 1..m : page[i] # q
      BY <1>9, <2>2
    <2> HIDE DEF q
    <2>5. got'[q][f] = {}
      BY <1>20, <2>1, <2>3, <2>4
    <2> QED
      BY <2>5 DEF q
  <1>24. AllIsCounted'
    <2> DEFINE parts == [i \in 1..n |-> part(i)]
               new == Chars(page, parts, n)
    <2>1. /\ \A i \in 1..n : parts[i] \in [P!Fields -> Nat]
          /\ \A i \in 1..n : left[i] = left[i - 1] - P!Sum3(parts[i])
      BY <1>7
    <2>2. IsFiniteSet(new) /\ Cardinality(new) = left[0] - left[n]
      <3> HIDE DEF parts
      <3>1. PartsOf(page, parts, left, n)
        BY <1>6, <1>8, <2>1 DEF PartsOf
      <3> QED
        BY <1>1, <3>1, PageCounts
    <2>3. ASSUME NEW p, NEW f, NEW x
          PROVE  <<p, f, x>> \in new
                     <=> \E i \in 1..m : page[i] = p /\ f \in P!Fields /\ x \in 1..part(i)[f]
      <3>1. \A y, z : <<p, f, x>> \in Piece(y, z)
                     <=> y = p /\ f \in P!Fields /\ x \in 1..z[f]
        BY DEF Piece, Run, P!Fields
      <3>2. <<p, f, x>> \in new <=> \E i \in 1..n : <<p, f, x>> \in Piece(page[i], parts[i])
        BY DEF Chars
      <3>3. <<p, f, x>> \in new
                <=> \E i \in 1..n : page[i] = p /\ f \in P!Fields /\ x \in 1..part(i)[f]
        <4> HIDE DEF new
        <4> QED
          BY <3>1, <3>2
      <3>4. ASSUME NEW i \in 1..n, f \in P!Fields, x \in 1..part(i)[f] PROVE i \in 1..m
        <4> SUFFICES ASSUME i \notin 1..m PROVE FALSE
          OBVIOUS
        <4>1. part(i)[f] = 0
          BY <1>7, <3>4
        <4> QED
          BY <3>4, <4>1
      <3> HIDE DEF new, parts
      <3> QED
        BY <1>10, <3>3, <3>4
    <2>4. \A c \in new : c = <<c[1], c[2], c[3]>>
      BY DEF Chars, Piece, Run
    <2> HIDE DEF new, parts
    <2>5. Gotten' = Gotten \cup new
      <3>1. Gotten' = {c \in P!Places \X P!Fields \X Nat : c[3] \in got'[c[1]][c[2]]}
        BY DEF Gotten
      <3>2. ASSUME NEW c \in P!Places \X P!Fields \X Nat
            PROVE  c[3] \in got'[c[1]][c[2]] <=> c[3] \in got[c[1]][c[2]] \/ c \in new
        <4>1. c = <<c[1], c[2], c[3]>> /\ c[1] \in P!Places /\ c[2] \in P!Fields /\ c[3] \in Nat
          OBVIOUS
        <4>2. c \in new <=> \E i \in 1..m : page[i] = c[1] /\ c[3] \in 1..part(i)[c[2]]
          BY <2>3, <4>1
        <4>3. CASE \A i \in 1..m : page[i] # c[1]
          BY <1>11, <4>1, <4>2, <4>3
        <4>4. CASE \E i \in 1..m : page[i] = c[1]
          <5>1. PICK i \in 1..m : page[i] = c[1]
            BY <4>4
          <5>2. got'[c[1]][c[2]] = got[c[1]][c[2]] \cup 1..part(i)[c[2]]
            BY <1>11, <4>1, <5>1
          <5>3. c \in new <=> c[3] \in 1..part(i)[c[2]]
            BY <1>6, <1>10, <4>2, <5>1
          <5> QED
            BY <5>2, <5>3
        <4> QED
          BY <4>3, <4>4
      <3>3. ASSUME NEW c \in new PROVE c \in P!Places \X P!Fields \X Nat
        <4>1. c = <<c[1], c[2], c[3]>>
          BY <2>4
        <4>2. PICK i \in 1..m : page[i] = c[1] /\ c[2] \in P!Fields /\ c[3] \in 1..part(i)[c[2]]
          BY <2>3, <4>1
        <4>3. page[i] \in P!Places /\ part(i)[c[2]] \in Nat
          BY <1>6, <1>7, <1>10, <4>2
        <4>4. c[3] \in Nat
          BY <4>2, <4>3
        <4> QED
          BY <4>1, <4>2, <4>3, <4>4
      <3>4. ASSUME NEW c \in Gotten' PROVE c \in Gotten \cup new
        BY <3>1, <3>2 DEF Gotten
      <3>5. ASSUME NEW c \in Gotten \cup new PROVE c \in Gotten'
        <4>1. c \in P!Places \X P!Fields \X Nat
          BY <3>3 DEF Gotten
        <4>2. c[3] \in got[c[1]][c[2]] \/ c \in new
          BY DEF Gotten
        <4> QED
          BY <3>1, <3>2, <4>1, <4>2
      <3> QED
        BY <3>4, <3>5
    <2>6. Gotten \cap new = {}
      <3> SUFFICES ASSUME NEW c \in Gotten, c \in new PROVE FALSE
        OBVIOUS
      <3>1. c = <<c[1], c[2], c[3]>> /\ c[1] \in P!Places /\ c[2] \in P!Fields
            /\ c[3] \in got[c[1]][c[2]]
        BY DEF Gotten
      <3>2. PICK i \in 1..m : page[i] = c[1]
        BY <2>3, <3>1
      <3> QED
        BY <1>25, <3>1, <3>2
    <2>7. IsFiniteSet(Gotten) /\ Cardinality(Gotten) = received
      BY DEF PagingInv, AllIsCounted
    <2>8. /\ IsFiniteSet(Gotten \cup new)
          /\ Cardinality(Gotten \cup new) = received + (left[0] - left[n])
      BY <2>2, <2>6, <2>7, DisjointCounts
    <2>9. received + (left[0] - left[n]) = received'
      <3>1. left[n] \in Nat
        BY <1>1, <1>8
      <3> QED
        BY <1>1, <1>3, <1>8, <1>T, <3>1
    <2> QED
      BY <2>5, <2>8, <2>9 DEF AllIsCounted
  <1> QED
    BY <1>17, <1>18, <1>22, <1>23, <1>24 DEF PagingInv

\* Every action of Paging keeps the invariant, and so do the other parts.
LEMMA PagingStep ==
    ASSUME PagingInv, [StoresNext]_stores_vars
    PROVE  PagingInv'
  <1>1. CASE P!Next
    <2>1. ASSUME NEW limit \in Limits, NEW budget \in Budgets, P!ReadPages(limit, budget)
          PROVE  PagingInv'
      BY <2>1, ReadPagesKeeps
    <2>2. ASSUME NEW cut \in owed, NEW budget \in Budgets, P!ReadField(cut, budget)
          PROVE  PagingInv'
      BY <2>2, ReadFieldKeeps
    <2>3. ASSUME NEW s \in P!Batch, NEW record \in Shapes, P!Grow(s, record)
          PROVE  PagingInv'
      BY <2>3, GrowKeeps
    <2> QED
      BY <1>1, <2>1, <2>2, <2>3 DEF P!Next
  <1>2. CASE UNCHANGED P!paging_vars
    <2>1. /\ session' = session /\ anchor' = anchor /\ place' = place /\ got' = got
          /\ received' = received /\ owed' = owed
      BY <1>2 DEF P!paging_vars
    <2>2. \A s, k : (P!At(s, k))' = P!At(s, k)
      BY <2>1, CoveredIs
    <2>3. PagingTyped' /\ RestIsUnread'
      BY <2>1, <2>2 DEF PagingInv, PagingTyped, RestIsUnread
    <2>4. CutsAreRead'
      BY <2>1, <2>2 DEF PagingInv, CutsAreRead, P!RecordAt
    <2>5. ReadIsCovered'
      <3> SUFFICES ASSUME NEW s \in P!Batch, NEW k \in 1..place[s], NEW f \in P!Fields
                   PROVE  got[<<s, P!At(s, k)>>][f] = (P!Covered(<<s, P!At(s, k)>>, f))'
        BY <2>1, <2>2 DEF ReadIsCovered
      <3>1. (P!RecordAt(<<s, P!At(s, k)>>))' = P!RecordAt(<<s, P!At(s, k)>>)
        BY <2>1, <2>2 DEF P!RecordAt
      <3>2. (P!Covered(<<s, P!At(s, k)>>, f))' = P!Covered(<<s, P!At(s, k)>>, f)
        BY <2>1, <2>2, <3>1 DEF P!Covered
      <3> QED
        BY <3>2 DEF PagingInv, ReadIsCovered
    <2>6. AllIsCounted'
      BY <2>1 DEF PagingInv, AllIsCounted, Gotten
    <2> QED
      BY <2>3, <2>4, <2>5, <2>6 DEF PagingInv
  <1> QED
    BY <1>1, <1>2, PagingMoves

\* The invariant of bounded reads holds: see PagingInv.
THEOREM PagingInvariant == StoresSpec => []PagingInv
  <1>1. StoresInit => PagingInv
    BY PagingInit
  <1>2. PagingInv /\ [StoresNext]_stores_vars => PagingInv'
    BY PagingStep
  <1> QED
    BY <1>1, <1>2, PTL DEF StoresSpec

\* Following the offsets of read_session_pages and read_context, and reading each cut
\* field on with read_record, gives every character of every record, in order and once,
\* whatever the limits and budgets; and no budget is so small that a page is empty while
\* there is something to read.
THEOREM WholeAlwaysRead == StoresSpec => []WholeIsRead
  <1>1. PagingInv => WholeIsRead
    BY PagingPromise DEF WholeIsRead
  <1> QED
    BY <1>1, PagingInvariant, PTL

=============================================================================
