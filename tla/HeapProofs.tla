----------------------------- MODULE HeapProofs -----------------------------
(***************************************************************************)
(* The array of the memory backend is a heap whenever no method is at      *)
(* work, for any number of tasks and items and any sequence of calls;      *)
(* tasks are handed out in order as long as all are ready; and the array   *)
(* implements the bag of items over which the pool is specified.           *)
(*                                                                         *)
(* While an item moves, the array is a heap everywhere else, and what is   *)
(* above the moving item is not larger than what is below it.              *)
(***************************************************************************)
EXTENDS MemHeap, FiniteSetTheorems, SequenceTheorems, WellFoundedInduction, TLAPS

Sorted(q, i, j) == ~ Less(q, j, i)

\* Positions that have a parent at or below low, and need to be sorted with it.
Below(q, low) == {j \in 2 .. Len(q) : j \div 2 >= low}

Ordered(q) == \A j \in 2 .. Len(q) : Sorted(q, j \div 2, j)

\* The item at p may be smaller than its parent.
UpOrdered(q, p) ==
    /\ p \in 1 .. Len(q)
    /\ \A j \in 2 .. Len(q) : j # p => Sorted(q, j \div 2, j)
    /\ \A j \in 2 .. Len(q) : p > 1 /\ j \div 2 = p => Sorted(q, p \div 2, j)

\* From low on, the item at p may be larger than its children, and where it has
\* not moved yet, smaller than its parent.
DownOrdered(q, p, from, low) ==
    /\ p \in 1 .. Len(q) /\ from \in 1 .. p /\ low \in 1 .. from
    /\ \A j \in Below(q, low) : j \div 2 # p /\ (j = p => p # from) => Sorted(q, j \div 2, j)
    /\ \A j \in 2 .. Len(q) : p \div 2 >= low /\ j \div 2 = p => Sorted(q, p \div 2, j)

HeapInv ==
    /\ heap \in Seq(TaskId)
    /\ sift \in [way : {"none", "up", "down", "init"}, at : Nat, from : Nat]
    /\ sift.way = "none" => Ordered(heap)
    /\ sift.way = "up" => UpOrdered(heap, sift.at)
    /\ sift.way = "down" => DownOrdered(heap, sift.at, sift.from, 1)
    /\ sift.way = "init" => DownOrdered(heap, sift.at, sift.from, sift.from)

-----------------------------------------------------------------------------
\* Where the parent of a position is.
LEMMA Parents ==
  ASSUME NEW j \in Nat
  PROVE  /\ j \div 2 \in Nat /\ 2 * (j \div 2) <= j /\ j <= 2 * (j \div 2) + 1
         /\ j >= 2 => j \div 2 >= 1 /\ j \div 2 < j
  OBVIOUS

\* What an exchange does to the array.
LEMMA Swapped ==
  ASSUME NEW q \in Seq(TaskId), NEW i \in 1 .. Len(q), NEW j \in 1 .. Len(q)
  PROVE  /\ Swap(q, i, j) \in Seq(TaskId) /\ Len(Swap(q, i, j)) = Len(q)
         /\ Swap(q, i, j)[i] = q[j] /\ Swap(q, i, j)[j] = q[i]
         /\ \A k \in 1 .. Len(q) : k # i /\ k # j => Swap(q, i, j)[k] = q[k]
  BY DEF Swap

\* Sorted is a preorder of positions.
LEMMA SortedOrder ==
  ASSUME NEW q \in Seq(TaskId)
  PROVE  /\ \A i, j, k \in 1 .. Len(q) : Sorted(q, i, j) /\ Sorted(q, j, k) => Sorted(q, i, k)
         /\ \A i, j \in 1 .. Len(q) : Sorted(q, i, j) \/ Sorted(q, j, i)
         /\ \A i \in 1 .. Len(q) : Rank[q[i]] \in Nat
  BY RankAssumption DEF Sorted, Less

\* A step of up.
LEMMA UpMoves ==
  ASSUME NEW q \in Seq(TaskId), NEW p \in Nat, UpOrdered(q, p), p \div 2 >= 1,
         Less(q, p, p \div 2)
  PROVE  UpOrdered(Swap(q, p, p \div 2), p \div 2)
<1> DEFINE m == p \div 2
           r == Swap(q, p, m)
<1>1. p \in 2 .. Len(q) /\ m \in 1 .. p - 1 /\ m \in 1 .. Len(q)
  BY Parents DEF UpOrdered
<1>2. /\ r \in Seq(TaskId) /\ Len(r) = Len(q) /\ r[p] = q[m] /\ r[m] = q[p]
      /\ \A k \in 1 .. Len(q) : k # p /\ k # m => r[k] = q[k]
  BY <1>1, Swapped DEF UpOrdered
<1>3. \A j \in 2 .. Len(q) : j \div 2 \in 1 .. j - 1 /\ j \div 2 \in 1 .. Len(q)
  BY Parents
<1>4. \A i \in 1 .. Len(q) : Rank[q[i]] \in Nat
  BY SortedOrder
<1> HIDE DEF r, m
<1>5. ASSUME NEW j \in 2 .. Len(q), j # m
      PROVE  Rank[r[j \div 2]] <= Rank[r[j]]
  <2>1. CASE j = p
    BY <1>1, <1>2, <1>4, <2>1 DEF m, Less
  <2>2. CASE j # p /\ j \div 2 = p
    BY <1>1, <1>2, <1>3, <1>4, <1>5, <2>2 DEF UpOrdered, Sorted, Less, m
  <2>3. CASE j # p /\ j \div 2 = m
    <3>1. Rank[q[m]] <= Rank[q[j]] /\ Rank[q[p]] < Rank[q[m]]
      BY <1>1, <1>3, <1>4, <2>3 DEF UpOrdered, Sorted, Less, m
    <3>2. r[j \div 2] = q[p] /\ r[j] = q[j]
      BY <1>2, <1>5, <2>3
    <3> QED
      BY <1>1, <1>4, <3>1, <3>2
  <2>4. CASE j # p /\ j \div 2 # p /\ j \div 2 # m
    BY <1>1, <1>2, <1>3, <1>4, <1>5, <2>4 DEF UpOrdered, Sorted, Less
  <2> QED
    BY <2>1, <2>2, <2>3, <2>4
<1>6. ASSUME NEW j \in 2 .. Len(q), m > 1, j \div 2 = m
      PROVE  Rank[r[m \div 2]] <= Rank[r[j]]
  <2>1. m \div 2 \in 1 .. m - 1 /\ m \div 2 \in 1 .. Len(q) /\ m \in 2 .. Len(q)
    BY <1>1, <1>3, <1>6
  <2>2. Rank[q[m \div 2]] <= Rank[q[m]]
    <3>1. m # p
      BY <1>1
    <3>2. ~ (Rank[q[m]] < Rank[q[m \div 2]])
      BY <2>1, <3>1 DEF UpOrdered, Sorted, Less
    <3> QED
      BY <1>4, <2>1, <3>2
  <2>3. r[m \div 2] = q[m \div 2]
    BY <1>1, <1>2, <2>1
  <2>4. CASE j = p
    BY <1>2, <2>2, <2>3, <2>4
  <2>5. CASE j # p
    <3>1. j # m /\ j \in 1 .. Len(q)
      BY <1>3, <1>6
    <3>2. r[j] = q[j]
      BY <1>2, <2>5, <3>1
    <3>3. ~ (Rank[q[j]] < Rank[q[m]])
      BY <1>6, <2>5 DEF UpOrdered, Sorted, Less
    <3> QED
      BY <1>1, <1>4, <2>1, <2>2, <2>3, <3>1, <3>2, <3>3
  <2> QED
    BY <2>4, <2>5
<1>7. \A i \in 1 .. Len(r) : Rank[r[i]] \in Nat
  BY <1>2, SortedOrder
<1>8. UpOrdered(r, m)
  <2>1. \A j \in 2 .. Len(r) : j # m => Sorted(r, j \div 2, j)
    BY <1>2, <1>3, <1>5, <1>7 DEF Sorted, Less
  <2>2. ASSUME NEW j \in 2 .. Len(r), m > 1, j \div 2 = m
        PROVE  Sorted(r, m \div 2, j)
    <3>1. m \div 2 \in 1 .. Len(r) /\ j \in 2 .. Len(q)
      BY <1>1, <1>2, <1>3, <2>2
    <3>2. Rank[r[m \div 2]] <= Rank[r[j]]
      BY <1>6, <2>2, <3>1
    <3> QED
      BY <1>7, <3>1, <3>2 DEF Sorted, Less
  <2> QED
    BY <1>1, <1>2, <2>1, <2>2 DEF UpOrdered
<1> QED
  BY <1>8 DEF r, m

\* The end of up.
LEMMA UpEnds ==
  ASSUME NEW q \in Seq(TaskId), NEW p \in Nat, UpOrdered(q, p),
         ~(p \div 2 >= 1 /\ Less(q, p, p \div 2))
  PROVE  Ordered(q)
<1>1. \A j \in 2 .. Len(q) : j \div 2 >= 1
  BY Parents
<1> QED
  BY <1>1 DEF UpOrdered, Ordered, Sorted

\* The child that down compares with is the smaller one.
LEMMA Children ==
  ASSUME NEW q \in Seq(TaskId), NEW p \in 1 .. Len(q), 2 * p <= Len(q)
  PROVE  /\ SmallerChild(q, p) \in p + 1 .. Len(q) /\ SmallerChild(q, p) \div 2 = p
         /\ \A j \in 2 .. Len(q) : j \div 2 = p => Rank[q[SmallerChild(q, p)]] <= Rank[q[j]]
<1>1. \A i \in 1 .. Len(q) : Rank[q[i]] \in Nat
  BY SortedOrder
<1>2. \A j \in 2 .. Len(q) : j \div 2 = p => j = 2 * p \/ j = 2 * p + 1
  BY Parents
<1>3. (2 * p) \div 2 = p /\ (2 * p + 1) \div 2 = p
  OBVIOUS
<1>4. CASE 2 * p + 1 <= Len(q) /\ Less(q, 2 * p + 1, 2 * p)
  <2>1. SmallerChild(q, p) = 2 * p + 1
    BY <1>4 DEF SmallerChild
  <2>2. 2 * p \in 1 .. Len(q) /\ 2 * p + 1 \in p + 1 .. Len(q)
    BY <1>4
  <2>3. Rank[q[2 * p + 1]] <= Rank[q[2 * p]]
    BY <1>1, <1>4, <2>2 DEF Less
  <2>4. Rank[q[2 * p + 1]] <= Rank[q[2 * p + 1]]
    BY <1>1, <2>2
  <2> QED
    BY <1>2, <1>3, <2>1, <2>2, <2>3, <2>4
<1>5. CASE ~(2 * p + 1 <= Len(q) /\ Less(q, 2 * p + 1, 2 * p))
  <2>1. SmallerChild(q, p) = 2 * p
    BY <1>5 DEF SmallerChild
  <2>2. 2 * p \in p + 1 .. Len(q)
    OBVIOUS
  <2>3. 2 * p + 1 <= Len(q) => Rank[q[2 * p]] <= Rank[q[2 * p + 1]]
    BY <1>1, <1>5, <2>2 DEF Less
  <2>4. Rank[q[2 * p]] <= Rank[q[2 * p]]
    BY <1>1, <2>2
  <2> QED
    <3>1. ASSUME NEW j \in 2 .. Len(q), j \div 2 = p
          PROVE  Rank[q[2 * p]] <= Rank[q[j]]
      <4>1. j = 2 * p \/ (j = 2 * p + 1 /\ 2 * p + 1 <= Len(q))
        BY <1>2, <3>1
      <4> QED
        BY <2>3, <2>4, <4>1
    <3> QED
      BY <1>3, <2>1, <2>2, <3>1
<1> QED
  BY <1>4, <1>5

\* A step of down.
LEMMA DownMoves ==
  ASSUME NEW q \in Seq(TaskId), NEW p \in Nat, NEW from \in Nat, NEW low \in Nat,
         DownOrdered(q, p, from, low), 2 * p <= Len(q), Less(q, SmallerChild(q, p), p)
  PROVE  DownOrdered(Swap(q, p, SmallerChild(q, p)), SmallerChild(q, p), from, low)
<1> DEFINE c == SmallerChild(q, p)
           r == Swap(q, p, c)
<1>1. /\ p \in 1 .. Len(q) /\ from \in 1 .. p /\ low \in 1 .. from
      /\ c \in p + 1 .. Len(q) /\ c \div 2 = p
      /\ \A j \in 2 .. Len(q) : j \div 2 = p => Rank[q[c]] <= Rank[q[j]]
  BY Children DEF DownOrdered
<1>2. /\ r \in Seq(TaskId) /\ Len(r) = Len(q) /\ r[p] = q[c] /\ r[c] = q[p]
      /\ \A k \in 1 .. Len(q) : k # p /\ k # c => r[k] = q[k]
  <2>1. p \in 1 .. Len(q) /\ c \in 1 .. Len(q)
    BY <1>1
  <2> HIDE DEF c
  <2> QED
    BY <2>1, Swapped
<1>3. \A j \in 2 .. Len(q) : j \div 2 \in 1 .. j - 1 /\ j \div 2 \in 1 .. Len(q)
  BY Parents
<1>4. \A i \in 1 .. Len(q) : Rank[q[i]] \in Nat
  BY SortedOrder
<1>5. Rank[q[c]] < Rank[q[p]]
  BY DEF Less
<1> HIDE DEF r, c
<1>6. ASSUME NEW j \in 2 .. Len(q), j \div 2 >= low, j \div 2 # c
      PROVE  Rank[r[j \div 2]] <= Rank[r[j]]
  <2>1. CASE j = c
    BY <1>1, <1>2, <1>4, <1>5, <2>1
  <2>2. CASE j # c /\ j \div 2 = p
    BY <1>1, <1>2, <1>3, <1>4, <2>2
  <2>3. CASE j = p
    <3>1. Rank[q[p \div 2]] <= Rank[q[c]]
      BY <1>1, <1>3, <1>4, <1>6, <2>3 DEF DownOrdered, Sorted, Less
    <3>2. r[p \div 2] = q[p \div 2]
      BY <1>1, <1>2, <1>3, <2>3
    <3> QED
      BY <1>2, <2>3, <3>1, <3>2
  <2>4. CASE j # c /\ j # p /\ j \div 2 # p
    <3>1. j \in Below(q, low)
      BY <1>6 DEF Below
    <3>2. ~ (Rank[q[j]] < Rank[q[j \div 2]])
      BY <2>4, <3>1 DEF DownOrdered, Sorted, Less
    <3>3. r[j] = q[j] /\ r[j \div 2] = q[j \div 2]
      BY <1>2, <1>3, <1>6, <2>4
    <3> QED
      BY <1>3, <1>4, <3>2, <3>3
  <2> QED
    BY <2>1, <2>2, <2>3, <2>4
<1>7. ASSUME NEW j \in 2 .. Len(q), j \div 2 = c
      PROVE  Rank[r[p]] <= Rank[r[j]]
  <2>1. j # p /\ j # c /\ j \in Below(q, low) /\ j \div 2 # p
    BY <1>1, <1>3, <1>7 DEF Below
  <2>2. ~ (Rank[q[j]] < Rank[q[c]])
    BY <1>7, <2>1 DEF DownOrdered, Sorted, Less
  <2> QED
    BY <1>1, <1>2, <1>4, <2>1, <2>2
<1>8. \A i \in 1 .. Len(r) : Rank[r[i]] \in Nat
  BY <1>2, SortedOrder
<1>9. DownOrdered(r, c, from, low)
  <2>1. \A j \in Below(r, low) : j \div 2 # c => Sorted(r, j \div 2, j)
    BY <1>2, <1>3, <1>6, <1>8 DEF Below, Sorted, Less
  <2>2. \A j \in 2 .. Len(r) : j \div 2 = c => Sorted(r, c \div 2, j)
    BY <1>1, <1>2, <1>7, <1>8 DEF Sorted, Less
  <2>3. c \in 1 .. Len(r) /\ from \in 1 .. c /\ low \in 1 .. from
    BY <1>1, <1>2
  <2> QED
    BY <2>1, <2>2, <2>3 DEF DownOrdered
<1> QED
  BY <1>9 DEF r, c

\* The end of down: below low everything is sorted, but for an item that has
\* not moved and may be smaller than its parent.
LEMMA DownEnds ==
  ASSUME NEW q \in Seq(TaskId), NEW p \in Nat, NEW from \in Nat, NEW low \in Nat,
         DownOrdered(q, p, from, low), ~(2 * p <= Len(q) /\ Less(q, SmallerChild(q, p), p))
  PROVE  \A j \in Below(q, low) : (j = p => p # from) => Sorted(q, j \div 2, j)
<1>1. p \in 1 .. Len(q)
  BY DEF DownOrdered
<1>2. ASSUME NEW j \in 2 .. Len(q), j \div 2 = p
      PROVE  Sorted(q, p, j)
  <2>1. 2 * p <= Len(q)
    BY <1>2, Parents
  <2>2. ~ (Rank[q[SmallerChild(q, p)]] < Rank[q[p]])
    BY <2>1 DEF Less
  <2>3. Rank[q[SmallerChild(q, p)]] <= Rank[q[j]] /\ SmallerChild(q, p) \in 1 .. Len(q)
    BY <1>1, <1>2, <2>1, Children
  <2>4. \A i \in 1 .. Len(q) : Rank[q[i]] \in Nat
    BY SortedOrder
  <2> QED
    BY <1>1, <2>2, <2>3, <2>4 DEF Sorted, Less
<1> QED
  BY <1>2 DEF DownOrdered, Below

-----------------------------------------------------------------------------
(* The writes of the methods *)

\* Push starts with the new item out of order, if at all.
LEMMA PushStarts ==
  ASSUME NEW q \in Seq(TaskId), Ordered(q), NEW id \in TaskId
  PROVE  /\ Append(q, id) \in Seq(TaskId)
         /\ UpOrdered(Append(q, id), Len(q) + 1)
<1> DEFINE n == Len(q) + 1
           r == Append(q, id)
<1>1. r \in Seq(TaskId) /\ Len(r) = n /\ \A i \in 1 .. Len(q) : r[i] = q[i]
  OBVIOUS
<1>2. \A j \in 2 .. n : j \div 2 \in 1 .. Len(q)
  BY Parents
<1>3. n \in 1 .. Len(r) /\ \A j \in 2 .. n : j # n => j \in 2 .. Len(q)
  BY <1>1
<1> HIDE DEF r, n
<1> QED
  BY <1>1, <1>2, <1>3 DEF UpOrdered, Ordered, Sorted, Less, n, r

\* Remove starts with the last item where the removed one was.
LEMMA DeleteStarts ==
  ASSUME NEW q \in Seq(TaskId), Ordered(q), NEW i \in 1 .. Len(q)
  PROVE  LET r == Front(Swap(q, i, Len(q)))
         IN  /\ r \in Seq(TaskId)
             /\ i = Len(q) => Ordered(r)
             /\ i # Len(q) => DownOrdered(r, i, i, 1)
<1> DEFINE n == Len(q)
           s == Swap(q, i, n)
           r == Front(s)
<1>0. n \in Nat \ {0} /\ n \in 1 .. Len(q)
  OBVIOUS
<1>1. /\ s \in Seq(TaskId) /\ Len(s) = n /\ s[i] = q[n]
      /\ \A k \in 1 .. n : k # i /\ k # n => s[k] = q[k]
  BY <1>0, Swapped
<1> HIDE DEF s
<1>2. /\ r \in Seq(TaskId) /\ Len(r) = n - 1
      /\ \A k \in 1 .. n - 1 : r[k] = s[k]
  BY <1>0, <1>1 DEF Front
<1> HIDE DEF r, n
<1>3. \A j \in 2 .. n - 1 : j \div 2 \in 1 .. n - 1 /\ j \div 2 < j /\ j \in 2 .. Len(q)
  <2>1. n = Len(q) /\ Len(q) \in Nat
    BY DEF n
  <2> QED
    BY <2>1, Parents
<1>4. \A j \in 2 .. n - 1 : j # i /\ j \div 2 # i => Sorted(r, j \div 2, j)
  <2>1. \A k \in 1 .. n - 1 : k # i => r[k] = q[k]
    BY <1>0, <1>1, <1>2
  <2> QED
    BY <1>3, <2>1 DEF Ordered, Sorted, Less
<1>5. i = n => Ordered(r)
  BY <1>2, <1>3, <1>4 DEF Ordered
<1>6. ASSUME i # n
      PROVE  DownOrdered(r, i, i, 1)
  <2>1. i \in 1 .. n - 1
    BY <1>0, <1>6 DEF n
  <2>2. ASSUME NEW j \in 2 .. n - 1, i \div 2 >= 1, j \div 2 = i
        PROVE  Sorted(r, i \div 2, j)
    <3>1. i \in 2 .. n - 1 /\ i \div 2 \in 1 .. n - 1 /\ i \div 2 # i /\ j # i
      BY <1>3, <2>1, <2>2, Parents
    <3>2. Sorted(q, i \div 2, i) /\ Sorted(q, i, j)
      BY <1>3, <2>2, <3>1 DEF Ordered
    <3>3. Sorted(q, i \div 2, j)
      BY <1>3, <2>2, <3>1, <3>2, SortedOrder
    <3>4. r[i \div 2] = q[i \div 2] /\ r[j] = q[j]
      BY <1>0, <1>1, <1>2, <2>2, <3>1
    <3> QED
      BY <3>3, <3>4 DEF Sorted, Less
  <2> QED
    BY <1>0, <1>2, <1>4, <2>1, <2>2 DEF DownOrdered, Below
<1> QED
  BY <1>2, <1>5, <1>6 DEF r, s, n

\* The positions that the filter keeps, in their order.
LEMMA Filtered ==
  ASSUME heap \in Seq(TaskId), NEW ids, Filter(ids)
  PROVE  LET kept == {i \in 1 .. Len(heap) : heap[i] \in ids}
             n == Cardinality(kept)
         IN  /\ n \in Nat /\ IsFiniteSet(kept)
             /\ heap' \in Seq(TaskId) /\ Len(heap') = n
             /\ \E place \in [1 .. n -> kept] :
                   /\ \A i, j \in 1 .. n : i < j => place[i] < place[j]
                   /\ \A i \in 1 .. n : heap'[i] = heap[place[i]]
<1> DEFINE kept == {i \in 1 .. Len(heap) : heap[i] \in ids}
           n == Cardinality(kept)
<1>1. DOMAIN heap = 1 .. Len(heap)
  OBVIOUS
<1>2. PICK place \in [1 .. n -> kept] :
          /\ \A i, j \in 1 .. n : i < j => place[i] < place[j]
          /\ heap' = [i \in 1 .. n |-> heap[place[i]]]
  BY <1>1 DEF Filter
<1>3. n \in Nat /\ IsFiniteSet(kept)
  <2>1. kept \in SUBSET (1 .. Len(heap)) /\ IsFiniteSet(1 .. Len(heap))
    BY FS_Interval
  <2> QED
    BY <2>1, FS_Subset, FS_CardinalityType
<1>4. \A i \in kept : heap[i] \in TaskId
  OBVIOUS
<1> HIDE DEF kept, n
<1>5. heap' \in Seq(TaskId) /\ Len(heap') = n
  BY <1>2, <1>3, <1>4
<1>6. \A i \in 1 .. n : heap'[i] = heap[place[i]]
  BY <1>2
<1> QED
  BY <1>2, <1>3, <1>5, <1>6 DEF kept, n

\* The filter yields an array of the same kind, and heap.Init starts where the
\* last parent is.
LEMMA FilterStarts ==
  ASSUME heap \in Seq(TaskId), NEW ids, Filter(ids), InitHeap
  PROVE  /\ heap' \in Seq(TaskId)
         /\ \/ sift' = Resting /\ Ordered(heap')
            \/ \E i \in Nat : sift' = Sifting("init", i) /\ DownOrdered(heap', i, i, i)
<1>1. heap' \in Seq(TaskId)
  BY Filtered
<1>2. Len(heap') \in Nat
  BY <1>1
<1>3. CASE Len(heap') < 2
  <2>1. Ordered(heap')
    BY <1>2, <1>3 DEF Ordered
  <2> QED
    BY <1>1, <1>3, <2>1 DEF InitHeap
<1>4. CASE ~(Len(heap') < 2)
  <2>1. PICK i \in Nat : i = Len(heap') \div 2
    BY <1>2, Parents
  <2>2. i \in 1 .. Len(heap') /\ \A j \in 2 .. Len(heap') : j \div 2 <= i /\ i \div 2 < i
    BY <1>2, <1>4, <2>1
  <2>3. DownOrdered(heap', i, i, i)
    BY <2>2 DEF DownOrdered, Below
  <2>4. sift' = Sifting("init", i)
    BY <1>4, <2>1 DEF InitHeap
  <2> QED
    BY <1>1, <2>3, <2>4
<1> QED
  BY <1>3, <1>4

-----------------------------------------------------------------------------
(* The steps *)

\* What the invariant says about one loop.
LEMMA Loops ==
  ASSUME NEW way \in {"up", "down", "init"}, NEW i \in Nat
  PROVE  /\ Sifting(way, i) \in [way : {"none", "up", "down", "init"}, at : Nat, from : Nat]
         /\ Sifting(way, i).way = way /\ Sifting(way, i).at = i /\ Sifting(way, i).from = i
         /\ Resting \in [way : {"none", "up", "down", "init"}, at : Nat, from : Nat]
         /\ Resting.way = "none"
  BY DEF Sifting, Resting

\* The methods start their loops where the invariant wants them.
LEMMA MethodHeap ==
  ASSUME HeapInv, sift = Resting, Method
  PROVE  HeapInv'
<1>0. heap \in Seq(TaskId) /\ Ordered(heap)
  BY Loops DEF HeapInv, Resting, Sifting
<1>1. CASE UNCHANGED <<heap, sift>>
  BY <1>1 DEF HeapInv, Ordered, UpOrdered, DownOrdered, Below
<1>2. ASSUME NEW id \in TaskId, Push(id)
      PROVE  HeapInv'
  <2>1. UpOrdered(heap', Len(heap) + 1) /\ heap' \in Seq(TaskId)
    BY <1>0, <1>2, PushStarts DEF Push
  <2>2. sift' = Sifting("up", Len(heap) + 1) /\ Len(heap) + 1 \in Nat
    BY <1>0, <1>2 DEF Push
  <2> QED
    BY <2>1, <2>2, Loops DEF HeapInv
<1>3. ASSUME NEW i \in 1 .. Len(heap), Delete(i)
      PROVE  HeapInv'
  <2>1. /\ heap' \in Seq(TaskId) /\ i \in Nat
        /\ i = Len(heap) => Ordered(heap')
        /\ i # Len(heap) => DownOrdered(heap', i, i, 1)
    BY <1>0, <1>3, DeleteStarts DEF Delete
  <2>2. sift' = IF i = Len(heap) THEN Resting ELSE Sifting("down", i)
    BY <1>3 DEF Delete
  <2> QED
    BY <2>1, <2>2, Loops DEF HeapInv
<1>4. ASSUME NEW ids, Filter(ids), InitHeap
      PROVE  HeapInv'
  <2>1. /\ heap' \in Seq(TaskId)
        /\ \/ sift' = Resting /\ Ordered(heap')
           \/ \E i \in Nat : sift' = Sifting("init", i) /\ DownOrdered(heap', i, i, i)
    BY <1>0, <1>4, FilterStarts
  <2>2. CASE sift' = Resting /\ Ordered(heap')
    BY <2>1, <2>2, Loops DEF HeapInv
  <2>3. ASSUME NEW i \in Nat, sift' = Sifting("init", i), DownOrdered(heap', i, i, i)
        PROVE  HeapInv'
    BY <2>1, <2>3, Loops DEF HeapInv
  <2> QED
    BY <2>1, <2>2, <2>3
<1>5. CASE \E id \in TaskId, rec \in Accepted : Save(id, rec) \/ Enqueue(id, rec)
  BY <1>1, <1>2, <1>5 DEF Save, Enqueue
<1>6. CASE Dequeue
  BY <1>3, <1>6 DEF Dequeue, DequeueAt
<1>7. CASE \E id \in TaskId : Remove(id)
  <2>1. DOMAIN heap = 1 .. Len(heap)
    BY <1>0
  <2> QED
    BY <1>1, <1>3, <1>7, <2>1 DEF Remove, RemoveItem
<1>8. CASE \E b \in Batch : CancelBatch(b)
  BY <1>4, <1>8 DEF CancelBatch
<1>9. CASE \/ \E id \in TaskId : DeleteTask(id) \/ BecomeDue(id)
           \/ \E id \in TaskId, status \in Ends : UpdateStatus(id, status)
           \/ Close
  BY <1>1, <1>9 DEF DeleteTask, BecomeDue, UpdateStatus, Close
<1> QED
  BY <1>5, <1>6, <1>7, <1>8, <1>9 DEF Method

\* up carries the invariant to the place where the item comes to rest.
LEMMA UpHeap ==
  ASSUME HeapInv, Up
  PROVE  HeapInv'
<1>1. /\ heap \in Seq(TaskId) /\ sift.way = "up" /\ UpOrdered(heap, sift.at)
      /\ sift \in [way : {"none", "up", "down", "init"}, at : Nat, from : Nat]
  BY DEF HeapInv, Up
<1>2. PICK p \in Nat, m \in Nat : p = sift.at /\ m = p \div 2
  BY <1>1, Parents
<1>3. CASE m >= 1 /\ Less(heap, p, m)
  <2>1. heap' = Swap(heap, p, m) /\ sift' = [sift EXCEPT !.at = m]
    BY <1>2, <1>3 DEF Up, MoveTo
  <2>2. UpOrdered(heap', m)
    BY <1>1, <1>2, <1>3, <2>1, UpMoves
  <2>3. heap' \in Seq(TaskId)
    <3>1. p \in 1 .. Len(heap) /\ m \in 1 .. Len(heap)
      BY <1>1, <1>2, <1>3, Parents DEF UpOrdered
    <3> QED
      BY <1>1, <2>1, <3>1, Swapped
  <2> QED
    BY <1>1, <2>1, <2>2, <2>3 DEF HeapInv
<1>4. CASE ~(m >= 1 /\ Less(heap, p, m))
  <2>1. heap' = heap /\ sift' = Resting
    BY <1>2, <1>4 DEF Up
  <2>2. Ordered(heap)
    BY <1>1, <1>2, <1>4, UpEnds
  <2> QED
    BY <1>1, <2>1, <2>2, Loops DEF HeapInv
<1> QED
  BY <1>3, <1>4

\* So does down, which hands over to up or to the next round of Init.
LEMMA DownHeap ==
  ASSUME HeapInv, Down
  PROVE  HeapInv'
<1>1. PICK p \in Nat, from \in Nat : p = sift.at /\ from = sift.from
  BY DEF HeapInv
<1>2. PICK low \in Nat : low = IF sift.way = "down" THEN 1 ELSE from
  OBVIOUS
<1>3. /\ heap \in Seq(TaskId) /\ sift.way \in {"down", "init"} /\ DownOrdered(heap, p, from, low)
      /\ sift \in [way : {"none", "up", "down", "init"}, at : Nat, from : Nat]
      /\ p \in 1 .. Len(heap) /\ from \in 1 .. p
  BY <1>1, <1>2 DEF HeapInv, Down, DownOrdered
<1>4. CASE 2 * p <= Len(heap) /\ Less(heap, SmallerChild(heap, p), p)
  <2>1. PICK c \in 1 .. Len(heap) : c = SmallerChild(heap, p)
    BY <1>3, <1>4, Children
  <2>2. heap' = Swap(heap, p, c) /\ sift' = [sift EXCEPT !.at = c]
    BY <1>1, <1>4, <2>1 DEF Down, MoveTo
  <2>3. DownOrdered(heap', c, from, low)
    BY <1>3, <1>4, <2>1, <2>2, DownMoves
  <2>4. heap' \in Seq(TaskId)
    BY <1>3, <2>1, <2>2, Swapped
  <2>5. /\ sift' \in [way : {"none", "up", "down", "init"}, at : Nat, from : Nat]
        /\ sift'.way = sift.way /\ sift'.at = c /\ sift'.from = from
    BY <1>1, <1>3, <2>1, <2>2
  <2> QED
    BY <1>2, <1>3, <2>3, <2>4, <2>5 DEF HeapInv
<1>5. CASE ~(2 * p <= Len(heap) /\ Less(heap, SmallerChild(heap, p), p))
  <2>1. heap' = heap /\ sift' = AfterDown
    BY <1>1, <1>5 DEF Down
  <2>2. \A j \in Below(heap, low) : (j = p => p # from) => Sorted(heap, j \div 2, j)
    BY <1>3, <1>5, DownEnds
  <2>3. \A j \in 2 .. Len(heap) : j \div 2 \in Nat /\ j \div 2 >= 1 /\ j \div 2 < j
    BY Parents
  <2>4. CASE sift.way = "down" /\ p = from
    <3>1. sift' = Sifting("up", p)
      BY <1>1, <2>1, <2>4 DEF AfterDown
    <3>2. UpOrdered(heap, p)
      <4>1. \A j \in 2 .. Len(heap) : j # p => Sorted(heap, j \div 2, j)
        BY <1>2, <2>2, <2>3, <2>4 DEF Below
      <4>2. \A j \in 2 .. Len(heap) : p > 1 /\ j \div 2 = p => Sorted(heap, p \div 2, j)
        BY <1>2, <1>3, <2>3, <2>4 DEF DownOrdered
      <4> QED
        BY <1>3, <4>1, <4>2 DEF UpOrdered
    <3> QED
      BY <1>3, <2>1, <3>1, <3>2, Loops DEF HeapInv
  <2>5. CASE sift.way = "init" /\ from > 1
    <3>1. PICK k \in Nat : k = from - 1 /\ k >= 1
      BY <2>5
    <3>2. sift' = Sifting("init", k)
      BY <1>1, <2>1, <2>5, <3>1 DEF AfterDown
    <3>3. DownOrdered(heap, k, k, k)
      <4>1. low = from /\ k \in 1 .. Len(heap) /\ k < from
        BY <1>2, <1>3, <2>5, <3>1
      <4>2. ASSUME NEW j \in Below(heap, k), j \div 2 # k
            PROVE  Sorted(heap, j \div 2, j)
        <5>1. j \in 2 .. Len(heap) /\ j \div 2 >= from
          BY <2>3, <3>1, <4>2 DEF Below
        <5>2. j \in Below(heap, low) /\ j > from
          BY <1>3, <2>3, <4>1, <5>1 DEF Below
        <5> QED
          BY <1>3, <2>2, <5>2
      <4>3. ~ (k \div 2 >= k)
        BY <3>1, Parents
      <4> QED
        BY <3>1, <4>1, <4>2, <4>3 DEF DownOrdered
    <3> QED
      BY <1>3, <2>1, <3>2, <3>3, Loops DEF HeapInv
  <2>6. CASE ~(sift.way = "down" /\ p = from) /\ ~(sift.way = "init" /\ from > 1)
    <3>1. sift' = Resting
      BY <1>1, <2>1, <2>6 DEF AfterDown
    <3>2. low = 1
      BY <1>2, <1>3, <2>6
    <3>3. ASSUME NEW j \in 2 .. Len(heap)
          PROVE  Sorted(heap, j \div 2, j)
      <4>1. j \in Below(heap, low)
        BY <2>3, <3>2 DEF Below
      <4>2. j = p => p # from
        BY <1>3, <2>6
      <4> QED
        BY <2>2, <4>1, <4>2
    <3> QED
      BY <1>3, <2>1, <3>1, <3>3, Loops DEF HeapInv, Ordered
  <2> QED
    BY <2>4, <2>5, <2>6
<1> QED
  BY <1>4, <1>5

-----------------------------------------------------------------------------
(* The theorems *)

LEMMA AlwaysHeapInv == Spec => []HeapInv
<1>1. Init => HeapInv
  BY Loops DEF Init, HeapInv, Ordered, Resting, Sifting
<1>2. HeapInv /\ [Next]_heapVars => HeapInv'
  <2> SUFFICES ASSUME HeapInv, [Next]_heapVars PROVE HeapInv'
    OBVIOUS
  <2>1. CASE UNCHANGED heapVars
    BY <2>1 DEF heapVars, HeapInv, Ordered, UpOrdered, DownOrdered, Below
  <2> QED
    BY <2>1, MethodHeap, UpHeap, DownHeap DEF Next, Sift
<1> QED
  BY <1>1, <1>2, PTL DEF Spec

\* The array is a heap whenever no method is at work.
THEOREM ArrayIsHeap == Spec => []HeapOrdered
<1>1. HeapInv => HeapOrdered
  BY Parents DEF HeapInv, HeapOrdered, Ordered, Sorted, Resting, Sifting
<1> QED
  BY <1>1, AlwaysHeapInv, PTL

\* So nothing in it is smaller than what is at the front.
LEMMA FrontIsLeast ==
  ASSUME NEW q \in Seq(TaskId), Ordered(q), NEW j \in 1 .. Len(q)
  PROVE  Rank[q[1]] <= Rank[q[j]]
<1> DEFINE Smaller == {k \in 1 .. Len(q) : Rank[q[k]] < Rank[q[1]]}
<1>1. \A k \in 1 .. Len(q) : Rank[q[k]] \in Nat
  BY SortedOrder
<1>2. SUFFICES ASSUME Smaller # {} PROVE FALSE
  BY <1>1
<1>3. PICK k \in Smaller : \A l \in Smaller : k <= l
  <2>1. Smaller \subseteq Nat
    OBVIOUS
  <2>2. PICK less : less = {pair \in Nat \X Nat : pair[1] < pair[2]}
    OBVIOUS
  <2>3. IsWellFoundedOn(less, Nat)
    BY <2>2, NatLessThanWellFounded DEF OpToRel
  <2>4. PICK k \in Smaller : \A l \in Smaller : ~ (<<l, k>> \in less)
    BY <1>2, <2>1, <2>3, WFMin
  <2>5. ASSUME NEW l \in Smaller
        PROVE  k <= l
    <3>1. l \in Nat /\ k \in Nat
      BY <2>1
    <3>2. ~ (<<l, k>>[1] < <<l, k>>[2])
      BY <2>2, <2>4, <3>1
    <3> QED
      BY <3>1, <3>2
  <2> QED
    BY <2>5
<1>4. k \in 2 .. Len(q) /\ k \div 2 \in 1 .. Len(q) /\ k \div 2 < k
  BY <1>1, Parents
<1>5. Rank[q[k \div 2]] < Rank[q[1]]
  BY <1>1, <1>4 DEF Ordered, Sorted, Less
<1> QED
  BY <1>3, <1>4, <1>5

\* As long as every item in the array is ready, the scan of dequeue ends at the
\* front, and tasks are handed out by priority, then age.
THEOREM TasksInOrder == Spec => FirstOfReady
<1>1. ASSUME HeapInv, NEW i \in 1 .. Len(heap), sift = Resting, DequeueAt(i),
             \A k \in 1 .. Len(heap) : Ready(heap[k])
      PROVE  \A j \in 1 .. Len(heap) : Rank[heap[i]] <= Rank[heap[j]]
  <2>1. heap \in Seq(TaskId) /\ Ordered(heap)
    BY <1>1 DEF HeapInv, Resting, Sifting
  <2>2. i = 1
    BY <1>1, <2>1 DEF DequeueAt
  <2> QED
    BY <2>1, <2>2, FrontIsLeast
<1> DEFINE InOrder == \A i \in 1 .. Len(heap) :
               sift = Resting /\ DequeueAt(i) /\ (\A j \in 1 .. Len(heap) : Ready(heap[j]))
                   => \A j \in 1 .. Len(heap) : Rank[heap[i]] <= Rank[heap[j]]
<1>2. HeapInv => InOrder
  BY <1>1
<1>3. HeapInv => [InOrder]_heapVars
  BY <1>2
<1> QED
  BY <1>3, AlwaysHeapInv, PTL DEF FirstOfReady
-----------------------------------------------------------------------------
(* Counting the items *)

Positions(q, id) == {i \in 1 .. Len(q) : q[i] = id}

\* Renaming the members of a set leaves their number.
LEMMA SameNumber ==
  ASSUME NEW S, NEW T, IsFiniteSet(S), NEW f \in [S -> T],
         \A x, y \in S : f[x] = f[y] => x = y,
         \A y \in T : \E x \in S : f[x] = y
  PROVE  IsFiniteSet(T) /\ Cardinality(T) = Cardinality(S)
<1>1. f \in Bijection(S, T)
  BY DEF Bijection, Injection, Surjection, IsInjective
<1> QED
  BY <1>1, FS_Bijection DEF ExistsBijection

\* An injection between sets of one size reaches everything.
LEMMA Onto ==
  ASSUME NEW S, NEW T, IsFiniteSet(T), Cardinality(S) = Cardinality(T), NEW f \in [S -> T],
         \A x, y \in S : f[x] = f[y] => x = y
  PROVE  \A y \in T : \E x \in S : f[x] = y
<1>1. f \in Injection(S, T)
  BY DEF Injection, IsInjective
<1>2. f \in Surjection(S, T)
  BY <1>1, FS_Injection
<1> QED
  BY <1>2 DEF Surjection

\* The items of an id are the positions where it stands.
LEMMA Counted ==
  ASSUME NEW q \in Seq(TaskId)
  PROVE  /\ Items(q) = [id \in TaskId |-> Cardinality(Positions(q, id))]
         /\ Items(q) \in [TaskId -> Nat]
         /\ \A id : IsFiniteSet(Positions(q, id))
         /\ \A id \in TaskId : Items(q)[id] > 0 <=> \E i \in 1 .. Len(q) : q[i] = id
<1>1. Items(q) = [id \in TaskId |-> Cardinality(Positions(q, id))]
  <2>1. DOMAIN q = 1 .. Len(q)
    OBVIOUS
  <2> QED
    BY <2>1 DEF Items, Positions
<1>2. IsFiniteSet(1 .. Len(q))
  BY FS_Interval
<1>3. ASSUME NEW id
      PROVE  /\ IsFiniteSet(Positions(q, id)) /\ Cardinality(Positions(q, id)) \in Nat
             /\ Cardinality(Positions(q, id)) > 0 <=> \E i \in 1 .. Len(q) : q[i] = id
  <2>1. Positions(q, id) \in SUBSET (1 .. Len(q))
    BY DEF Positions
  <2>2. IsFiniteSet(Positions(q, id)) /\ Cardinality(Positions(q, id)) \in Nat
    BY <1>2, <2>1, FS_Subset, FS_CardinalityType
  <2>3. Cardinality(Positions(q, id)) = 0 <=> Positions(q, id) = {}
    BY <2>2, FS_EmptySet
  <2> QED
    BY <2>2, <2>3 DEF Positions
<1>4. Items(q) \in [TaskId -> Nat]
  BY <1>1, <1>3
<1>5. ASSUME NEW id \in TaskId
      PROVE  Items(q)[id] > 0 <=> \E i \in 1 .. Len(q) : q[i] = id
  BY <1>1, <1>3
<1> QED
  BY <1>1, <1>3, <1>4, <1>5

\* Exchanging two items changes no number.
LEMMA SwapKeepsItems ==
  ASSUME NEW q \in Seq(TaskId), NEW i \in 1 .. Len(q), NEW j \in 1 .. Len(q)
  PROVE  Items(Swap(q, i, j)) = Items(q)
<1> DEFINE r == Swap(q, i, j)
           place == [k \in 1 .. Len(q) |-> IF k = i THEN j ELSE IF k = j THEN i ELSE k]
<1>1. /\ r \in Seq(TaskId) /\ Len(r) = Len(q) /\ r[i] = q[j] /\ r[j] = q[i]
      /\ \A k \in 1 .. Len(q) : k # i /\ k # j => r[k] = q[k]
  BY Swapped
<1>2. /\ \A k \in 1 .. Len(q) :
             place[k] \in 1 .. Len(q) /\ r[k] = q[place[k]] /\ place[place[k]] = k
      /\ place \in [1 .. Len(q) -> 1 .. Len(q)]
  BY <1>1
<1> HIDE DEF r, place
<1>3. ASSUME NEW id \in TaskId
      PROVE  Cardinality(Positions(r, id)) = Cardinality(Positions(q, id))
  <2> DEFINE back == [k \in Positions(q, id) |-> place[k]]
  <2>1. back \in [Positions(q, id) -> Positions(r, id)]
    BY <1>1, <1>2 DEF Positions
  <2>2. \A k, l \in Positions(q, id) : back[k] = back[l] => k = l
    BY <1>2 DEF Positions
  <2>3. ASSUME NEW k \in Positions(r, id)
        PROVE  \E l \in Positions(q, id) : back[l] = k
    <3>1. place[k] \in Positions(q, id) /\ place[place[k]] = k
      BY <1>1, <1>2, <2>3 DEF Positions
    <3> QED
      BY <3>1
  <2>4. IsFiniteSet(Positions(q, id))
    BY Counted
  <2> HIDE DEF back
  <2> QED
    BY <2>1, <2>2, <2>3, <2>4, SameNumber
<1>4. Items(r) = Items(q)
  BY <1>1, <1>3, Counted
<1> QED
  BY <1>4 DEF r

\* Push adds one item of its task.
LEMMA PushAddsItem ==
  ASSUME NEW q \in Seq(TaskId), NEW id \in TaskId
  PROVE  Items(Append(q, id)) = [Items(q) EXCEPT ![id] = @ + 1]
<1> DEFINE n == Len(q) + 1
           r == Append(q, id)
<1>1. /\ r \in Seq(TaskId) /\ Len(r) = n /\ r[n] = id /\ \A i \in 1 .. Len(q) : r[i] = q[i]
      /\ n \in Nat /\ n \notin 1 .. Len(q) /\ 1 .. n = (1 .. Len(q)) \cup {n}
  OBVIOUS
<1> HIDE DEF n, r
<1>2. ASSUME NEW x \in TaskId
      PROVE  Cardinality(Positions(r, x)) =
                 IF x = id THEN Cardinality(Positions(q, x)) + 1 ELSE Cardinality(Positions(q, x))
  <2>0. IsFiniteSet(Positions(q, x))
    BY Counted
  <2>1. n \notin Positions(q, x)
    BY <1>1 DEF Positions
  <2>2. Positions(r, x) = IF x = id THEN Positions(q, x) \cup {n} ELSE Positions(q, x)
    BY <1>1 DEF Positions
  <2> QED
    BY <2>0, <2>1, <2>2, FS_AddElement
<1>3. Items(r) = [Items(q) EXCEPT ![id] = @ + 1]
  BY <1>1, <1>2, Counted
<1> QED
  BY <1>3 DEF r

\* Delete takes away the one item that it names.
LEMMA DeleteTakesItem ==
  ASSUME NEW q \in Seq(TaskId), NEW i \in 1 .. Len(q)
  PROVE  LET r == Front(Swap(q, i, Len(q)))
         IN  Items(r) = [Items(q) EXCEPT ![q[i]] = @ - 1]
<1> DEFINE n == Len(q)
           s == Swap(q, i, n)
           r == Front(s)
<1>1. /\ s \in Seq(TaskId) /\ Len(s) = n /\ s[n] = q[i] /\ Items(s) = Items(q)
      /\ n \in Nat \ {0} /\ q[i] \in TaskId
  BY Swapped, SwapKeepsItems
<1> HIDE DEF s, n
<1>2. r \in Seq(TaskId) /\ Len(r) = n - 1 /\ \A k \in 1 .. n - 1 : r[k] = s[k]
  BY <1>1 DEF Front
<1> HIDE DEF r
<1>3. ASSUME NEW x \in TaskId
      PROVE  Cardinality(Positions(r, x)) =
                 IF x = q[i] THEN Cardinality(Positions(s, x)) - 1 ELSE Cardinality(Positions(s, x))
  <2>1. IsFiniteSet(Positions(s, x))
    BY <1>1, Counted
  <2>2. 1 .. n = (1 .. n - 1) \cup {n} /\ n \notin 1 .. n - 1
    BY <1>1
  <2>3. CASE x = q[i]
    <3>1. n \in Positions(s, x)
      BY <1>1, <2>3 DEF Positions
    <3>2. Positions(r, x) = Positions(s, x) \ {n}
      BY <1>1, <1>2, <2>2 DEF Positions
    <3> QED
      BY <2>1, <2>3, <3>1, <3>2, FS_RemoveElement
  <2>4. CASE x # q[i]
    <3>1. Positions(r, x) = Positions(s, x)
      BY <1>1, <1>2, <2>2, <2>4 DEF Positions
    <3> QED
      BY <2>4, <3>1
  <2> QED
    BY <2>3, <2>4
<1>4. Items(r) = [Items(s) EXCEPT ![q[i]] = @ - 1]
  BY <1>1, <1>2, <1>3, Counted
<1> QED
  BY <1>1, <1>4 DEF r, s, n

\* The filter takes away all the items of the other tasks, and only those.
LEMMA FilterTakesItems ==
  ASSUME heap \in Seq(TaskId), NEW ids, Filter(ids)
  PROVE  Items(heap') = [id \in TaskId |-> IF id \in ids THEN Items(heap)[id] ELSE 0]
<1> DEFINE kept == {i \in 1 .. Len(heap) : heap[i] \in ids}
           n == Cardinality(kept)
<1>1. n \in Nat /\ IsFiniteSet(kept) /\ heap' \in Seq(TaskId) /\ Len(heap') = n
  BY Filtered
<1>2. PICK place \in [1 .. n -> kept] :
          /\ \A i, j \in 1 .. n : i < j => place[i] < place[j]
          /\ \A i \in 1 .. n : heap'[i] = heap[place[i]]
  BY Filtered
<1>3. kept \subseteq Nat
  OBVIOUS
<1>4. \A i \in kept : heap[i] \in ids
  OBVIOUS
<1>5. \A id \in ids : Positions(heap, id) \subseteq kept
  BY DEF Positions
<1> HIDE DEF kept, n
<1>6. \A i, j \in 1 .. n : place[i] = place[j] => i = j
  <2> SUFFICES ASSUME NEW i \in 1 .. n, NEW j \in 1 .. n, i < j
               PROVE  place[i] # place[j]
    BY <1>1
  <2>1. place[i] < place[j] /\ place[i] \in Nat /\ place[j] \in Nat
    BY <1>2, <1>3
  <2> QED
    BY <2>1
<1>7. \A k \in kept : \E i \in 1 .. n : place[i] = k
  <2>1. Cardinality(1 .. n) = Cardinality(kept)
    BY <1>1, FS_Interval DEF n
  <2> QED
    BY <1>1, <1>2, <1>6, <2>1, Onto
<1>8. ASSUME NEW id \in TaskId
      PROVE  Cardinality(Positions(heap', id)) =
                 IF id \in ids THEN Cardinality(Positions(heap, id)) ELSE 0
  <2>1. CASE id \in ids
    <3> DEFINE from == [i \in Positions(heap', id) |-> place[i]]
    <3>1. from \in [Positions(heap', id) -> Positions(heap, id)]
      <4>1. ASSUME NEW i \in Positions(heap', id)
            PROVE  place[i] \in 1 .. Len(heap) /\ heap[place[i]] = id
        BY <1>1, <1>2 DEF Positions, kept
      <4> QED
        BY <4>1 DEF Positions
    <3>2. \A i, j \in Positions(heap', id) : from[i] = from[j] => i = j
      BY <1>1, <1>6 DEF Positions
    <3>3. ASSUME NEW k \in Positions(heap, id)
          PROVE  \E i \in Positions(heap', id) : from[i] = k
      <4>1. PICK i \in 1 .. n : place[i] = k
        BY <1>5, <1>7, <2>1
      <4>2. i \in Positions(heap', id)
        BY <1>1, <1>2, <4>1 DEF Positions
      <4> QED
        BY <4>1, <4>2
    <3>4. IsFiniteSet(Positions(heap', id))
      BY <1>1, Counted
    <3> HIDE DEF from
    <3> QED
      BY <2>1, <3>1, <3>2, <3>3, <3>4, SameNumber
  <2>2. CASE id \notin ids
    <3>1. Positions(heap', id) = {}
      BY <1>1, <1>2, <1>4, <2>2 DEF Positions
    <3> QED
      BY <2>2, <3>1, FS_EmptySet
  <2> QED
    BY <2>1, <2>2
<1> QED
  BY <1>1, <1>8, Counted

\* The numbers of all ids add up to the length of the array.
LEMMA ItemsAddUp ==
  ASSUME NEW q \in Seq(TaskId)
  PROVE  Cardinality(UNION {{id} \X (1 .. Items(q)[id]) : id \in TaskId}) = Len(q)
<1> DEFINE n == Len(q)
           entries == UNION {{id} \X (1 .. Items(q)[id]) : id \in TaskId}
           Until(i) == {j \in 1 .. i : q[j] = q[i]}
           number == [i \in 1 .. n |-> Cardinality(Until(i))]
           entry == [i \in 1 .. n |-> <<q[i], number[i]>>]
<1>1. n \in Nat /\ \A i \in 1 .. n : q[i] \in TaskId
  OBVIOUS
<1>2. \A id \in TaskId :
          /\ IsFiniteSet(Positions(q, id))
          /\ Items(q)[id] = Cardinality(Positions(q, id)) /\ Items(q)[id] \in Nat
  BY Counted
<1>3. \A e : e \in entries <=> \E id \in TaskId : \E k \in 1 .. Items(q)[id] : e = <<id, k>>
  OBVIOUS
<1>4. ASSUME NEW i \in 1 .. n
      PROVE  IsFiniteSet(Until(i)) /\ number[i] \in 1 .. Items(q)[q[i]] /\ number[i] \in Nat
  <2>1. Until(i) \in SUBSET Positions(q, q[i]) /\ i \in Until(i)
    BY DEF Positions
  <2>2. IsFiniteSet(Until(i)) /\ Cardinality(Until(i)) <= Cardinality(Positions(q, q[i]))
    BY <1>1, <1>2, <2>1, FS_Subset
  <2>3. Cardinality(Until(i)) \in Nat /\ Cardinality(Until(i)) # 0
    BY <2>1, <2>2, FS_CardinalityType, FS_EmptySet
  <2> QED
    BY <1>1, <1>2, <2>2, <2>3
<1>5. ASSUME NEW i \in 1 .. n, NEW j \in 1 .. n, i < j, q[i] = q[j]
      PROVE  number[i] < number[j]
  <2>1. Until(i) \in SUBSET Until(j) /\ j \in Until(j) /\ j \notin Until(i)
    BY <1>5
  <2>2. /\ Cardinality(Until(i)) <= Cardinality(Until(j))
        /\ Cardinality(Until(i)) # Cardinality(Until(j))
    BY <1>4, <2>1, FS_Subset
  <2>3. Cardinality(Until(i)) \in Nat /\ Cardinality(Until(j)) \in Nat
    BY <1>4, FS_CardinalityType
  <2> QED
    BY <2>2, <2>3
<1> HIDE DEF number, entries
<1>6. entry \in [1 .. n -> entries]
  BY <1>1, <1>3, <1>4
<1>7. \A i, j \in 1 .. n : q[i] = q[j] /\ number[i] = number[j] => i = j
  <2> SUFFICES ASSUME NEW i \in 1 .. n, NEW j \in 1 .. n, i < j, q[i] = q[j]
               PROVE  number[i] # number[j]
    BY <1>1
  <2>1. number[i] < number[j] /\ number[i] \in Nat /\ number[j] \in Nat
    BY <1>4, <1>5
  <2> QED
    BY <2>1
<1>8. ASSUME NEW id \in TaskId, NEW k \in 1 .. Items(q)[id]
      PROVE  \E i \in 1 .. n : q[i] = id /\ number[i] = k
  <2> DEFINE S == Positions(q, id)
             T == 1 .. Items(q)[id]
             own == [i \in S |-> number[i]]
  <2>1. S \subseteq 1 .. n /\ \A i \in S : q[i] = id
    BY DEF Positions
  <2>2. IsFiniteSet(T) /\ Cardinality(S) = Cardinality(T)
    <3>1. PICK m \in Nat : m = Items(q)[id] /\ m = Cardinality(S)
      BY <1>2
    <3>2. IsFiniteSet(1 .. m) /\ Cardinality(1 .. m) = m
      BY FS_Interval
    <3> QED
      BY <3>1, <3>2
  <2>3. own \in [S -> T]
    BY <1>4, <2>1
  <2>4. \A i, j \in S : own[i] = own[j] => i = j
    BY <1>7, <2>1
  <2>5. \E i \in S : own[i] = k
    <3>1. k \in T
      OBVIOUS
    <3> HIDE DEF own, S, T
    <3> QED
      BY <2>2, <2>3, <2>4, <3>1, Onto
  <2> QED
    BY <2>1, <2>5
<1>9. \A i, j \in 1 .. n : entry[i] = entry[j] => i = j
  BY <1>7
<1>10. \A e \in entries : \E i \in 1 .. n : entry[i] = e
  BY <1>3, <1>8
<1> HIDE DEF entry, n
<1>11. IsFiniteSet(1 .. n) /\ Cardinality(1 .. n) = n
  BY <1>1, FS_Interval
<1>12. Cardinality(entries) = n
  BY <1>6, <1>9, <1>10, <1>11, SameNumber
<1> QED
  BY <1>12 DEF n, entries
-----------------------------------------------------------------------------
(* The refinement *)

\* The loops of container/heap only change places.
LEMMA SiftIsStutter ==
  ASSUME HeapInv, Up \/ Down
  PROVE  Items(heap') = Items(heap)
<1>1. heap \in Seq(TaskId)
  BY DEF HeapInv
<1>2. CASE heap' = heap
  BY <1>2
<1>3. CASE Up /\ heap' # heap
  <2>1. PICK p \in Nat, m \in Nat : p = sift.at /\ m = p \div 2
    BY Parents DEF HeapInv
  <2>2. heap' = Swap(heap, p, m) /\ m >= 1 /\ p \in 1 .. Len(heap)
    BY <1>3, <2>1 DEF Up, MoveTo, HeapInv, UpOrdered
  <2>3. m \in 1 .. Len(heap)
    BY <2>1, <2>2, Parents
  <2> QED
    BY <1>1, <2>2, <2>3, SwapKeepsItems
<1>4. CASE Down /\ heap' # heap
  <2>1. PICK p \in 1 .. Len(heap) : p = sift.at
    BY <1>4 DEF Down, HeapInv, DownOrdered
  <2>2. 2 * p <= Len(heap) /\ heap' = Swap(heap, p, SmallerChild(heap, p))
    BY <1>4, <2>1 DEF Down, MoveTo
  <2>3. SmallerChild(heap, p) \in 1 .. Len(heap)
    BY <1>1, <2>1, <2>2, Children
  <2> QED
    BY <1>1, <2>2, <2>3, SwapKeepsItems
<1> QED
  BY <1>2, <1>3, <1>4

\* Each method does to the bag of items what MemoryBackend says.
LEMMA MethodIsMethod ==
  ASSUME HeapInv, sift = Resting, Method
  PROVE  Bag!MemNext
<1>0. heap \in Seq(TaskId) /\ Items(heap) \in [TaskId -> Nat]
  BY Counted DEF HeapInv
<1>1. Items(heap)' = Items(heap')
  BY DEF Items
<1>2. \A id : Stored(id) <=> Bag!Stored(id)
  BY DEF Stored, Bag!Stored
<1>3. \A id : IsQueued(id) <=> Bag!IsQueued(id)
  BY DEF IsQueued, Queued, Bag!IsQueued, Bag!Queued
<1>4. Accepted \subseteq Bag!QueuedRecord /\ Ends \subseteq Bag!SettledStatuses
  BY CallerAssumption DEF Queued, SettledStatuses, Bag!QueuedRecord, Bag!Queued, Bag!SettledStatuses
<1>5. ASSUME NEW id \in TaskId, NEW rec \in Accepted, Save(id, rec)
      PROVE  Bag!MemSave(id, rec)
  BY <1>1, <1>5 DEF Save, Bag!MemSave
<1>6. ASSUME NEW id \in TaskId, NEW rec \in Accepted, Enqueue(id, rec)
      PROVE  Bag!MemEnqueue(id, rec)
  <2>1. Bag!QueueLen = Len(heap)
    BY <1>0, ItemsAddUp DEF Cardinality, Bag!QueueLen, Bag!Entries, Bag!Cardinality
  <2>2. Bag!MemAccepts
    BY <1>6, <2>1 DEF Enqueue, Bag!MemAccepts
  <2>3. Items(heap') = IF id \in inQueue THEN Items(heap) ELSE [Items(heap) EXCEPT ![id] = @ + 1]
    BY <1>0, <1>6, PushAddsItem DEF Enqueue, Push
  <2> QED
    BY <1>1, <1>6, <2>2, <2>3 DEF Enqueue, Bag!MemEnqueue
<1>7. ASSUME NEW i \in 1 .. Len(heap), DequeueAt(i)
      PROVE  Bag!MemDequeue(heap[i])
  <2>1. Items(heap)[heap[i]] > 0
    BY <1>0, Counted
  <2>2. Bag!Ready(heap[i])
    BY <1>3, <1>7, <2>1 DEF DequeueAt, Ready, Bag!Ready
  <2>3. Items(heap') = [Items(heap) EXCEPT ![heap[i]] = @ - 1]
    BY <1>0, <1>7, DeleteTakesItem DEF DequeueAt, Delete
  <2> QED
    BY <1>1, <1>7, <2>2, <2>3 DEF DequeueAt, Bag!MemDequeue
<1>8. ASSUME NEW id \in TaskId, Remove(id)
      PROVE  Bag!MemRemove(id)
  <2>1. Items(heap') = [Items(heap) EXCEPT ![id] = IF @ > 0 THEN @ - 1 ELSE 0]
    <3>1. CASE \E i \in 1 .. Len(heap) : heap[i] = id
      <4>1. PICK i \in 1 .. Len(heap) : heap[i] = id /\ Delete(i)
        <5>1. DOMAIN heap = 1 .. Len(heap)
          BY <1>0
        <5> QED
          BY <1>8, <3>1, <5>1 DEF Remove, RemoveItem
      <4>2. Items(heap)[id] > 0
        BY <1>0, <4>1, Counted
      <4>3. Items(heap') = [Items(heap) EXCEPT ![id] = @ - 1]
        BY <1>0, <4>1, DeleteTakesItem DEF Delete
      <4> QED
        BY <4>2, <4>3
    <3>2. CASE ~ \E i \in 1 .. Len(heap) : heap[i] = id
      <4>1. heap' = heap
        <5>1. DOMAIN heap = 1 .. Len(heap)
          BY <1>0
        <5> QED
          BY <1>8, <3>2, <5>1 DEF Remove, RemoveItem
      <4>2. ~ (Items(heap)[id] > 0)
        BY <1>0, <3>2, Counted
      <4> QED
        BY <1>0, <4>1, <4>2
    <3> QED
      BY <3>1, <3>2
  <2> QED
    BY <1>1, <1>3, <1>8, <2>1 DEF Remove, Bag!MemRemove
<1>9. ASSUME NEW id \in TaskId, DeleteTask(id)
      PROVE  Bag!MemDelete(id)
  BY <1>1, <1>9 DEF DeleteTask, NoTask, Bag!MemDelete, Bag!NoTask
<1>10. ASSUME NEW id \in TaskId, BecomeDue(id)
       PROVE  Bag!MemBecomeDue(id)
  BY <1>1, <1>10 DEF BecomeDue, Bag!MemBecomeDue
<1>11. ASSUME NEW id \in TaskId, NEW status \in Ends, UpdateStatus(id, status)
       PROVE  Bag!MemUpdateStatus(id, status)
  BY <1>1, <1>2, <1>11 DEF UpdateStatus, Bag!MemUpdateStatus
<1>12. ASSUME NEW b \in Batch, CancelBatch(b)
       PROVE  Bag!MemCancelBatch(b)
  <2> DEFINE cancelled == {id \in TaskId : BatchOf[id] = b /\ IsQueued(id)}
             waiting == {id \in TaskId : IsQueued(id)} \ cancelled
             remaining == {id \in TaskId : Stored(id)} \ waiting
             dropped == {id \in TaskId :
                            ~Bag!Stored(id) \/ (Bag!IsQueued(id) /\ id \notin cancelled)}
  <2>1. cancelled = {id \in TaskId : BatchOf[id] = b /\ Bag!IsQueued(id)}
    BY <1>3
  <2>2. \A id \in TaskId : id \in dropped <=> id \notin remaining
    BY <1>2, <1>3
  <2>3. waiting = {id \in dropped : Bag!IsQueued(id)}
    <3>1. \A id : id \in waiting <=> id \in TaskId /\ IsQueued(id) /\ id \notin cancelled
      OBVIOUS
    <3>2. \A id : id \in dropped /\ Bag!IsQueued(id)
                      <=> id \in TaskId /\ Bag!IsQueued(id) /\ id \notin cancelled
      <4>1. \A id : Bag!IsQueued(id) => Bag!Stored(id)
        BY DEF Bag!IsQueued, Bag!Stored, Bag!Queued
      <4> HIDE DEF cancelled
      <4> QED
        BY <4>1
    <3> HIDE DEF waiting, cancelled, dropped
    <3> QED
      BY <1>3, <3>1, <3>2
  <2>4. Filter(remaining) /\ inQueue' = Range(heap')
    BY <1>12 DEF CancelBatch
  <2>5. heap' \in Seq(TaskId)
    BY <1>0, <2>4, Filtered
  <2>6. Items(heap') = [id \in TaskId |-> IF id \in dropped THEN 0 ELSE Items(heap)[id]]
    <3>1. Items(heap') = [id \in TaskId |-> IF id \in remaining THEN Items(heap)[id] ELSE 0]
      BY <1>0, <2>4, FilterTakesItems
    <3> HIDE DEF remaining, dropped
    <3> QED
      BY <2>2, <3>1
  <2>7. inQueue' = {id \in TaskId : id \notin dropped /\ Items(heap)[id] > 0}
    <3>1. \A id : id \in Range(heap') <=> id \in TaskId /\ Items(heap')[id] > 0
      <4>1. \A id : id \in Range(heap') <=> \E i \in 1 .. Len(heap') : heap'[i] = id
        BY <2>5 DEF Range
      <4>2. \A i \in 1 .. Len(heap') : heap'[i] \in TaskId
        BY <2>5
      <4> QED
        BY <2>5, <4>1, <4>2, Counted
    <3>2. \A id \in TaskId : Items(heap')[id] > 0 <=> id \notin dropped /\ Items(heap)[id] > 0
      <4> HIDE DEF dropped
      <4> QED
        BY <2>6
    <3> QED
      BY <2>4, <3>1, <3>2
  <2>8. /\ tasks' = [id \in TaskId |->
                        IF id \in cancelled THEN [tasks[id] EXCEPT !.status = "cancelled"]
                                            ELSE tasks[id]]
        /\ unqueued' = unqueued \cup waiting
        /\ UNCHANGED closed
    BY <1>12 DEF CancelBatch
  <2> HIDE DEF cancelled, waiting, remaining
  <2> QED
    BY <1>1, <2>1, <2>3, <2>6, <2>7, <2>8 DEF Bag!MemCancelBatch
<1>13. ASSUME Close
       PROVE  Bag!MemClose
  BY <1>1, <1>13 DEF Close, Bag!MemClose
<1>14. CASE Dequeue
  <2>1. PICK i \in 1 .. Len(heap) : DequeueAt(i)
    BY <1>14 DEF Dequeue
  <2>2. heap[i] \in TaskId
    BY <1>0
  <2> QED
    BY <1>7, <2>1, <2>2 DEF Bag!MemNext
<1>15. CASE ~Dequeue
  <2>1. Bag!MemWrite
    BY <1>4, <1>5, <1>6, <1>8, <1>9, <1>10, <1>11, <1>12, <1>13, <1>15 DEF Method, Bag!MemWrite
  <2> QED
    BY <2>1 DEF Bag!MemNext
<1> QED
  BY <1>14, <1>15

\* The backend with its array implements the backend over which the pool is
\* specified: what is proved of the bag of items holds of the array, and the
\* steps that put it in order again are not seen.
THEOREM ArrayImplementsBag == Spec => ImplementsBackend
<1>1. Init => Bag!MemInit
  <2>1. ASSUME heap = <<>>
        PROVE  Items(heap) = [id \in TaskId |-> 0]
    <3>1. heap \in Seq(TaskId) /\ ~ \E i \in 1 .. Len(heap) : TRUE
      BY <2>1
    <3> QED
      BY <3>1, Counted
  <2> QED
    BY <2>1 DEF Init, NoTask, Bag!MemInit, Bag!NoTask
<1>2. HeapInv /\ [Next]_heapVars => [Bag!MemNext]_(Bag!memVars)
  <2> SUFFICES ASSUME HeapInv, [Next]_heapVars PROVE [Bag!MemNext]_(Bag!memVars)
    OBVIOUS
  <2>1. CASE UNCHANGED heapVars
    BY <2>1 DEF heapVars, Bag!memVars, Items
  <2>2. CASE sift = Resting /\ Method
    BY <2>2, MethodIsMethod
  <2>3. CASE Sift
    <3>1. Items(heap)' = Items(heap)
      BY <2>3, SiftIsStutter DEF Sift, Items
    <3> QED
      BY <2>3, <3>1 DEF Sift, Bag!memVars
  <2> QED
    BY <2>1, <2>2, <2>3 DEF Next
<1> QED
  BY <1>1, <1>2, AlwaysHeapInv, PTL DEF Spec, ImplementsBackend, Bag!MemSpec
=============================================================================
