------------------------ MODULE XmpfCoarrayMem_proof ------------------------
(***************************************************************************)
(* The memory of the coarrays of one image, by itself.  In this order: the *)
(* binary search of the sorted table; the stack of chunks that the history *)
(* and the queues of the lower layer describe; the table against the       *)
(* history; construction, unlinking and collection, each on a memory m.    *)
(* Recursive functions of the model are unfolded after a solution of their *)
(* equation is shown to exist.                                             *)
(***************************************************************************)
EXTENDS XmpfCoarray, WellFoundedInduction, TLAPS

USE ZenonT(40)

\* A set of numbers has a least one, if it has any.
LEMMA Least ==
  ASSUME NEW S \in SUBSET Nat, S # {} PROVE \E m \in S : \A k \in S : m <= k
<1>1. PICK R : R = OpToRel(<, Nat)
  OBVIOUS
<1>2. PICK m \in S : \A k \in S : <<k, m>> \notin R
  BY <1>1, NatLessThanWellFounded, WFMin
<1>3. \A k \in S : k < m => <<k, m>> \in R
  BY <1>1 DEF OpToRel
<1>4. \A k \in S : ~(k < m) /\ k \in Nat /\ m \in Nat
  BY <1>2, <1>3
<1>5. \A k \in S : m <= k
  BY <1>4, SMTT(20)
<1> QED
  BY <1>5

\* Induction up to l, with a set for the predicate.
LEMMA Induct ==
  ASSUME NEW l \in Nat, NEW P \in SUBSET (0 .. l), 0 \in P,
         \A i \in 0 .. l-1 : i \in P => i + 1 \in P
  PROVE  \A i \in 0 .. l : i \in P
<1> SUFFICES ASSUME (0 .. l) \ P # {} PROVE FALSE
  OBVIOUS
<1>a. PICK S : S = (0 .. l) \ P
  OBVIOUS
<1>b. S \in SUBSET Nat /\ S # {}
  BY <1>a, SMTT(20)
<1>1. PICK m \in (0 .. l) \ P : \A k \in (0 .. l) \ P : m <= k
  BY <1>a, <1>b, Least
<1>2. m - 1 \in 0 .. l-1 /\ m - 1 \notin (0 .. l) \ P
  BY <1>1, SMTT(20)
<1> QED
  BY <1>1, <1>2, SMTT(20)

\* The greatest of a non-empty set of numbers up to l.
LEMMA Greatest ==
  ASSUME NEW l \in Nat, NEW S \in SUBSET (0 .. l), S # {}
  PROVE  Max(S) \in S /\ \A k \in S : k <= Max(S)
<1> DEFINE T == {l - k : k \in S}
<1>a. \A k \in S : l - k \in Nat
  BY SMTT(20)
<1>1. T \in SUBSET Nat /\ T # {}
  BY <1>a
<1>2. PICK t \in T : \A u \in T : t <= u
  BY <1>1, Least
<1>3. PICK x \in S : t = l - x
  BY <1>2
<1>4. ASSUME NEW k \in S PROVE x >= k
  <2>1. l - x <= l - k
    BY <1>2, <1>3
  <2> QED
    BY <1>3, <2>1, SMTT(20)
<1>5. Max(S) \in S /\ \A k \in S : Max(S) >= k
  BY <1>3, <1>4 DEF Max
<1> QED
  BY <1>5, SMTT(20)

(***************************************************************************)
(* The binary search of _searchSortedChunkTable                            *)
(***************************************************************************)

Entries == [org : Nat, nbytes : Nat]

\* One turn of the loop of _searchSortedChunkTable, with h for the turns that follow.
Half(table, key, h, r) ==
  LET mid == (r[1] + r[2]) \div 2
  IN IF mid <= r[1] \/ table[mid + 1].org = key THEN mid
     ELSE IF key < table[mid + 1].org THEN h[<<r[1], mid>>]
     ELSE h[<<mid, r[2]>>]

Ranges(table) == (0 .. Len(table)) \X (0 .. Len(table))

\* The search ends, whatever the table: the recursion has a solution.
LEMMA Halving ==
  ASSUME NEW table, Len(table) \in Nat, NEW key
  PROVE  \E h : h = [r \in Ranges(table) |-> Half(table, key, h, r)]
<1>1. PICK l \in Nat : l = Len(table)
  OBVIOUS
<1>2. PICK S : S = Ranges(table)
  OBVIOUS
<1>3. S = (0 .. l) \X (0 .. l)
  BY <1>1, <1>2 DEF Ranges
<1> DEFINE Good(d, h) == \A r \in S : r[2] - r[1] <= d => h[r] = Half(table, key, h, r)
           P == {d \in 0 .. l : \E h : h = [r \in S |-> h[r]] /\ Good(d, h)}
<1>4. 0 \in P
  <2>1. PICK h : h = [r \in S |-> (r[1] + r[2]) \div 2]
    OBVIOUS
  <2>2. h = [r \in S |-> h[r]]
    BY <2>1
  <2>3. Good(0, h)
    <3> SUFFICES ASSUME NEW r \in S, r[2] - r[1] <= 0 PROVE h[r] = Half(table, key, h, r)
      OBVIOUS
    <3>1. PICK a \in 0 .. l, b \in 0 .. l : a = r[1] /\ b = r[2]
      BY <1>3
    <3>2. (a + b) \div 2 <= a
      BY <3>1, SMTT(20)
    <3> QED
      BY <2>1, <3>1, <3>2 DEF Half
  <2> HIDE DEF Good
  <2> QED
    BY <2>2, <2>3, SMTT(20)
<1>5. ASSUME NEW d \in 0 .. l-1, d \in P PROVE d + 1 \in P
  <2>1. PICK g : g = [r \in S |-> g[r]] /\ Good(d, g)
    BY <1>5
  <2>2. PICK h : h = [r \in S |-> IF r[2] - r[1] <= d THEN g[r] ELSE Half(table, key, g, r)]
    OBVIOUS
  <2>3. h = [r \in S |-> h[r]]
    BY <2>2
  <2>4. Good(d + 1, h)
    <3> SUFFICES ASSUME NEW r \in S, r[2] - r[1] <= d + 1 PROVE h[r] = Half(table, key, h, r)
      OBVIOUS
    <3>1. PICK a \in 0 .. l, b \in 0 .. l : a = r[1] /\ b = r[2] /\ r = <<a, b>>
      BY <1>3, SMTT(20)
    <3>2. PICK m : m = (a + b) \div 2
      OBVIOUS
    <3>3. m \in 0 .. l /\ (~(m <= a) => a < m /\ m < b)
      BY <3>2, SMTT(20)
    <3>4. h[r] = Half(table, key, g, r)
      BY <2>1, <2>2
    <3>5. <<a, m>> \in S /\ <<m, b>> \in S
      BY <1>3, <3>3
    <3>6. ~(m <= a) => m - a <= d /\ b - m <= d
      BY <3>1, <3>3, SMTT(20)
    <3>7. ~(m <= a) => h[<<a, m>>] = g[<<a, m>>] /\ h[<<m, b>>] = g[<<m, b>>]
      BY <2>2, <3>5, <3>6, SMTT(20)
    <3>8. Half(table, key, g, r) = Half(table, key, h, r)
      BY <3>1, <3>2, <3>7 DEF Half
    <3> QED
      BY <3>4, <3>8
  <2>5. d + 1 \in 0 .. l
    BY SMTT(20)
  <2> HIDE DEF Good
  <2> QED
    BY <2>3, <2>4, <2>5
<1>6. l \in P
  <2> HIDE DEF P
  <2>1. P \in SUBSET (0 .. l)
    BY DEF P
  <2>2. \A i \in 0 .. l-1 : i \in P => i + 1 \in P
    BY <1>5
  <2>3. \A i \in 0 .. l : i \in P
    BY <1>4, <2>1, <2>2, Induct
  <2> QED
    BY <2>3, SMTT(20)
<1>7. PICK h : h = [r \in S |-> h[r]] /\ Good(l, h)
  BY <1>6
<1>8. \A r \in S : r[2] - r[1] <= l
  <2> TAKE r \in S
  <2>1. PICK a \in 0 .. l, b \in 0 .. l : a = r[1] /\ b = r[2]
    BY <1>3
  <2> QED
    BY <2>1, SMTT(20)
<1>9. h = [r \in S |-> Half(table, key, h, r)]
  BY <1>7, <1>8
<1> QED
  BY <1>2, <1>9

Sorted(table) == \A i, j \in 1 .. Len(table) : i < j => table[i].org < table[j].org

\* Key is not below the entry of index x, and below the next.
Bracket(table, key, x) == table[x + 1].org <= key /\ key < table[x + 2].org

\* What _searchSortedChunkTable returns for an address between the two sentinels:
\* the index of the last entry that is not above it, and whether the address is
\* that entry's, or in that entry's chunk.
LEMMA SearchExact ==
  ASSUME NEW table \in Seq(Entries), Len(table) >= 2, Sorted(table), NEW key \in Nat,
         table[1].org <= key, key < table[Len(table)].org
  PROVE  \E x \in 0 .. Len(table) - 2 :
           /\ Bracket(table, key, x)
           /\ Search(table, key).idx = x
           /\ Search(table, key).found <=>
                \/ x > 0 /\ table[x + 1].org = key
                \/ key < table[x + 1].org + table[x + 1].nbytes
<1>1. PICK l \in Nat : l = Len(table) /\ l >= 2
  BY SMTT(20)
<1> DEFINE halve == CHOOSE h : h = [r \in Ranges(table) |-> Half(table, key, h, r)]
<1>2. halve = [r \in Ranges(table) |-> Half(table, key, halve, r)]
  BY <1>1, Halving
<1>3. /\ Search(table, key).idx = halve[<<0, Len(table) - 1>>]
      /\ Search(table, key).found =
           (\/ halve[<<0, Len(table) - 1>>] > 0
               /\ table[halve[<<0, Len(table) - 1>>] + 1].org = key
            \/ key < table[halve[<<0, Len(table) - 1>>] + 1].org
                     + table[halve[<<0, Len(table) - 1>>] + 1].nbytes)
  BY DEF Search, Half, Ranges
<1> HIDE DEF halve
<1>a. \A i \in 1 .. l : table[i] \in Entries
  BY <1>1, SMTT(20)
<1>4. \A i \in 1 .. l : table[i].org \in Nat
  BY <1>a DEF Entries
<1> DEFINE Right(a, b) == /\ halve[<<a, b>>] \in a .. b-1
                          /\ Bracket(table, key, halve[<<a, b>>])
           Fit(a, b) == a < b /\ table[a + 1].org <= key /\ key < table[b + 1].org
           P == {d \in 0 .. l : \A a, b \in 0 .. l-1 : Fit(a, b) /\ b - a <= d => Right(a, b)}
<1>5. 0 \in P
  <2>1. \A a, b \in 0 .. l-1 : ~(a < b /\ b - a <= 0)
    BY SMTT(20)
  <2>2. 0 \in 0 .. l
    BY SMTT(20)
  <2> QED
    BY <2>1, <2>2
<1>6. ASSUME NEW d \in 0 .. l-1, d \in P PROVE d + 1 \in P
  <2>1. ASSUME NEW a \in 0 .. l-1, NEW b \in 0 .. l-1, Fit(a, b), b - a <= d + 1
        PROVE  Right(a, b)
    <3>1. PICK m : m = (a + b) \div 2
      OBVIOUS
    <3>2. /\ m \in 0 .. l-1 /\ a <= m /\ m < b
          /\ (m <= a => b = a + 1 /\ m = a)
          /\ (~(m <= a) => m - a <= d /\ b - m <= d)
      BY <2>1, <3>1, SMTT(20)
    <3>3. <<a, b>> \in Ranges(table)
      BY <1>1, SMTT(20) DEF Ranges
    <3>4. halve[<<a, b>>] = IF m <= a \/ table[m + 1].org = key THEN m
                            ELSE IF key < table[m + 1].org THEN halve[<<a, m>>]
                            ELSE halve[<<m, b>>]
      BY <1>2, <3>1, <3>3 DEF Half
    <3>5. CASE m <= a
      BY <2>1, <3>2, <3>4, <3>5, SMTT(20) DEF Bracket
    <3>6. CASE ~(m <= a) /\ table[m + 1].org = key
      <4>1. table[m + 1].org < table[m + 2].org
        <5>1. m + 1 \in 1 .. Len(table) /\ m + 2 \in 1 .. Len(table) /\ m + 1 < m + 2
          BY <1>1, <3>2, SMTT(20)
        <5> QED
          BY <5>1 DEF Sorted
      <4> QED
        BY <1>4, <3>2, <3>4, <3>6, <4>1, SMTT(20) DEF Bracket
    <3>7. CASE ~(m <= a) /\ key < table[m + 1].org
      <4>1. table[m + 1].org # key
        BY <1>4, <3>2, <3>7, SMTT(20)
      <4>2. halve[<<a, b>>] = halve[<<a, m>>]
        BY <3>4, <3>7, <4>1
      <4>3. Fit(a, m) /\ m - a <= d
        BY <2>1, <3>2, <3>7, SMTT(20)
      <4>4. Right(a, m)
        <5> HIDE DEF Fit, Right
        <5> QED
          BY <1>6, <3>2, <4>3
      <4> QED
        BY <3>2, <4>2, <4>4, SMTT(20)
    <3>8. CASE ~(m <= a) /\ table[m + 1].org # key /\ ~(key < table[m + 1].org)
      <4>2. halve[<<a, b>>] = halve[<<m, b>>]
        BY <3>4, <3>8
      <4>a. table[m + 1].org \in Nat
        BY <1>4, <3>2, SMTT(20)
      <4>3. Fit(m, b) /\ b - m <= d
        BY <2>1, <3>2, <3>8, <4>a, SMTT(20)
      <4>4. Right(m, b)
        <5> HIDE DEF Fit, Right
        <5> QED
          BY <1>6, <3>2, <4>3
      <4> QED
        BY <3>2, <4>2, <4>4, SMTT(20)
    <3> QED
      BY <3>5, <3>6, <3>7, <3>8
  <2>2. d + 1 \in 0 .. l
    BY SMTT(20)
  <2> HIDE DEF Fit, Right
  <2> QED
    BY <2>1, <2>2
<1>7. l \in P
  <2> HIDE DEF P
  <2>1. P \in SUBSET (0 .. l)
    BY DEF P
  <2>2. \A i \in 0 .. l-1 : i \in P => i + 1 \in P
    BY <1>6
  <2>3. \A i \in 0 .. l : i \in P
    BY <1>5, <2>1, <2>2, Induct
  <2> QED
    BY <2>3, SMTT(20)
<1>8. Right(0, l - 1)
  <2>1. /\ 0 \in 0 .. l-1 /\ l - 1 \in 0 .. l-1 /\ (l - 1) - 0 <= l
        /\ 0 < l - 1 /\ 0 + 1 = 1 /\ (l - 1) + 1 = l
    BY <1>1, SMTT(20)
  <2>2. Fit(0, l - 1)
    BY <1>1, <2>1
  <2> HIDE DEF Fit, Right
  <2> QED
    BY <1>7, <2>1, <2>2
<1>9. PICK x : x = halve[<<0, l - 1>>]
  OBVIOUS
<1>10. x \in 0 .. l-2 /\ Bracket(table, key, x)
  BY <1>1, <1>8, <1>9, SMTT(20)
<1> QED
  BY <1>1, <1>3, <1>9, <1>10

(***************************************************************************)
(* Sequences                                                               *)
(***************************************************************************)

\* Appending an element.
LEMMA Appended ==
  ASSUME NEW S, NEW q \in Seq(S), NEW x \in S
  PROVE  /\ Append(q, x) \in Seq(S) /\ Len(Append(q, x)) = Len(q) + 1
         /\ \A i \in 1 .. Len(q) : Append(q, x)[i] = q[i]
         /\ Append(q, x)[Len(q) + 1] = x
  BY SMTT(20)

\* Dropping the last elements.
LEMMA Prefix ==
  ASSUME NEW S, NEW q \in Seq(S), NEW k \in 0 .. Len(q)
  PROVE  /\ SubSeq(q, 1, k) \in Seq(S) /\ Len(SubSeq(q, 1, k)) = k
         /\ \A i \in 1 .. k : SubSeq(q, 1, k)[i] = q[i]
  BY SMTT(20)

\* A function on 1 .. n is a sequence of length n.
LEMMA Listed ==
  ASSUME NEW S, NEW n \in Nat, NEW f \in [1 .. n -> S] PROVE f \in Seq(S) /\ Len(f) = n
  BY SMTT(20)

IsShifted(f, q, i, x) ==
  /\ f \in Seq(Entries) /\ Len(f) = Len(q) + 1
  /\ \A k \in 1 .. i-1 : f[k] = q[k]
  /\ f[i] = x
  /\ \A k \in i .. Len(q) : f[k + 1] = q[k]

\* What the shift loop of _addMemoryChunkInSortedChunkTable leaves.
LEMMA ShiftedSeq ==
  ASSUME NEW q \in Seq(Entries), NEW i \in 1 .. Len(q) + 1, NEW x \in Entries
  PROVE  IsShifted(Shifted(q, i, x), q, i, x)
<1>1. PICK n \in Nat : n = Len(q) /\ \A k \in 1 .. n : q[k] \in Entries
  BY SMTT(20)
<1>2. PICK f : f = Shifted(q, i, x)
  OBVIOUS
<1>3. f = [k \in 1 .. n + 1 |-> IF k < i THEN q[k] ELSE IF k = i THEN x ELSE q[k - 1]]
  BY <1>1, <1>2 DEF Shifted
<1>4. f \in [1 .. n + 1 -> Entries]
  BY <1>1, <1>3, SMTT(20)
<1>5. n + 1 \in Nat
  BY SMTT(20)
<1>6. f \in Seq(Entries) /\ Len(f) = n + 1
  BY <1>4, <1>5, Listed
<1>7. \A k \in 1 .. i-1 : f[k] = q[k]
  BY <1>1, <1>3, SMTT(20)
<1>8. f[i] = x
  BY <1>1, <1>3, SMTT(20)
<1>9. \A k \in i .. n : f[k + 1] = q[k]
  BY <1>1, <1>3, SMTT(20)
<1> QED
  BY <1>1, <1>2, <1>6, <1>7, <1>8, <1>9 DEF IsShifted

\* What the shift loop of _delMemoryChunkInSortedChunkTable leaves.
LEMMA OverwrittenSeq ==
  ASSUME NEW S, NEW q \in Seq(S), NEW i \in 1 .. Len(q)
  PROVE  /\ Overwritten(q, i) \in Seq(S) /\ Len(Overwritten(q, i)) = Len(q) - 1
         /\ \A k \in 1 .. i-1 : Overwritten(q, i)[k] = q[k]
         /\ \A k \in i .. Len(q) - 1 : Overwritten(q, i)[k] = q[k + 1]
<1>1. PICK n \in Nat : n = Len(q) /\ \A k \in 1 .. n : q[k] \in S
  BY SMTT(20)
<1>2. PICK f : f = Overwritten(q, i)
  OBVIOUS
<1>3. f = [k \in 1 .. n - 1 |-> IF k < i THEN q[k] ELSE q[k + 1]]
  BY <1>1, <1>2 DEF Overwritten
<1>4. f \in [1 .. n - 1 -> S]
  BY <1>1, <1>3, SMTT(20)
<1>5. n - 1 \in Nat
  BY <1>1, SMTT(20)
<1>6. f \in Seq(S) /\ Len(f) = n - 1
  BY <1>4, <1>5, Listed
<1>7. \A k \in 1 .. i-1 : f[k] = q[k]
  BY <1>1, <1>3, SMTT(20)
<1>8. \A k \in i .. n - 1 : f[k] = q[k + 1]
  BY <1>1, <1>3, SMTT(20)
<1> QED
  BY <1>1, <1>2, <1>6, <1>7, <1>8

(***************************************************************************)
(* The stack of chunks, in the history and in the queues of the lower layer *)
(***************************************************************************)

ChunkType ==
  [org : Nat, nbytes : Nat \ {0}, isGarbage : BOOLEAN, parent : 0 .. MaxDepth,
   infos : SUBSET Descriptors]

\* InStep, with the first chunk at the start of the heap, and for any two chunks.
StackOK(h, coarrays, shifts, shift) ==
  /\ Len(coarrays) = Len(h) /\ Len(shifts) = Len(h)
  /\ Len(h) = 0 => shift = 0
  /\ \A i \in 1 .. Len(h) :
       /\ coarrays[i] = h[i].org /\ h[i].nbytes <= shifts[i]
       /\ i = 1 => h[i].org = HeapStart
       /\ i < Len(h) => h[i + 1].org = h[i].org + shifts[i]
       /\ i = Len(h) => HeapStart + shift = h[i].org + shifts[i]
       /\ HeapStart <= h[i].org /\ h[i].org + shifts[i] <= HeapStart + shift
  /\ \A i, j \in 1 .. Len(h) : i < j => h[i].org + shifts[i] <= h[j].org

\* The numbers of a history and of the lower layer.
LEMMA Numbers ==
  ASSUME NEW h \in Seq(ChunkType), NEW shifts \in Seq(Nat), Len(shifts) = Len(h)
  PROVE  \A i \in 1 .. Len(h) :
           /\ h[i] \in ChunkType
           /\ h[i].org \in Nat /\ h[i].nbytes \in Nat /\ h[i].nbytes > 0
           /\ h[i].isGarbage \in BOOLEAN /\ shifts[i] \in Nat
<1>1. \A i \in 1 .. Len(h) : h[i] \in ChunkType /\ shifts[i] \in Nat
  BY SMTT(20)
<1>2. \A c \in ChunkType : c.org \in Nat /\ c.nbytes \in Nat \ {0} /\ c.isGarbage \in BOOLEAN
  BY DEF ChunkType
<1>3. \A n \in Nat \ {0} : n \in Nat /\ n > 0
  BY SMTT(20)
<1> QED
  BY <1>1, <1>2, <1>3

\* A new chunk on the top.
LEMMA StackAppend ==
  ASSUME NEW h \in Seq(ChunkType), NEW coarrays \in Seq(Nat), NEW shifts \in Seq(Nat),
         NEW shift \in Nat, StackOK(h, coarrays, shifts, shift),
         NEW c \in ChunkType, c.org = HeapStart + shift, NEW step \in Nat, c.nbytes <= step
  PROVE  StackOK(Append(h, c), Append(coarrays, c.org), Append(shifts, step), shift + step)
<1>1. PICK n \in Nat : n = Len(h) /\ n = Len(coarrays) /\ n = Len(shifts)
  BY SMTT(20) DEF StackOK
<1>2. PICK h2, c2, s2 : h2 = Append(h, c) /\ c2 = Append(coarrays, c.org) /\ s2 = Append(shifts, step)
  OBVIOUS
<1>3. c.org \in Nat /\ c.nbytes \in Nat /\ c.nbytes > 0
  BY SMTT(20) DEF ChunkType
<1>a. /\ Len(Append(h, c)) = Len(h) + 1 /\ Append(h, c)[Len(h) + 1] = c
      /\ \A i \in 1 .. Len(h) : Append(h, c)[i] = h[i]
  BY SMTT(20)
<1>4. Len(h2) = n + 1 /\ h2[n + 1] = c /\ \A i \in 1 .. n : h2[i] = h[i]
  BY <1>1, <1>2, <1>a
<1>b. /\ Len(Append(coarrays, c.org)) = Len(coarrays) + 1
      /\ Append(coarrays, c.org)[Len(coarrays) + 1] = c.org
      /\ \A i \in 1 .. Len(coarrays) : Append(coarrays, c.org)[i] = coarrays[i]
  BY <1>3, SMTT(20)
<1>5. Len(c2) = n + 1 /\ c2[n + 1] = c.org /\ \A i \in 1 .. n : c2[i] = coarrays[i]
  BY <1>1, <1>2, <1>b
<1>6. Len(s2) = n + 1 /\ s2[n + 1] = step /\ \A i \in 1 .. n : s2[i] = shifts[i]
  BY <1>1, <1>2, SMTT(20)
<1>7. \A i \in 1 .. n : h[i].org \in Nat /\ h[i].nbytes \in Nat /\ shifts[i] \in Nat
  BY <1>1, Numbers
<1>8. /\ n = 0 => shift = 0
      /\ \A i \in 1 .. n :
           /\ coarrays[i] = h[i].org /\ h[i].nbytes <= shifts[i]
           /\ i = 1 => h[i].org = HeapStart
           /\ i < n => h[i + 1].org = h[i].org + shifts[i]
           /\ i = n => HeapStart + shift = h[i].org + shifts[i]
           /\ HeapStart <= h[i].org /\ h[i].org + shifts[i] <= HeapStart + shift
      /\ \A i, j \in 1 .. n : i < j => h[i].org + shifts[i] <= h[j].org
  BY <1>1 DEF StackOK
<1>9. \A i \in 1 .. n + 1 :
        /\ c2[i] = h2[i].org /\ h2[i].nbytes <= s2[i]
        /\ i = 1 => h2[i].org = HeapStart
        /\ i < n + 1 => h2[i + 1].org = h2[i].org + s2[i]
        /\ i = n + 1 => HeapStart + (shift + step) = h2[i].org + s2[i]
        /\ HeapStart <= h2[i].org /\ h2[i].org + s2[i] <= HeapStart + (shift + step)
  <2> TAKE i \in 1 .. n + 1
  <2>1. CASE i \in 1 .. n
    <3>1. h2[i] = h[i] /\ c2[i] = coarrays[i] /\ s2[i] = shifts[i]
      BY <1>4, <1>5, <1>6, <2>1
    <3>2. i < n => i + 1 \in 1 .. n /\ h2[i + 1] = h[i + 1]
      BY <1>4, <2>1, SMTT(20)
    <3>3. i < n \/ i = n
      BY <2>1, SMTT(20)
    <3>4. i < n + 1 /\ i # n + 1
      BY <2>1, SMTT(20)
    <3>5. h2[i + 1].org = h2[i].org + s2[i]
      BY <1>4, <1>8, <2>1, <3>1, <3>2, <3>3
    <3>6. h[i].org + shifts[i] <= HeapStart + (shift + step)
      <4>1. h[i].org + shifts[i] <= HeapStart + shift /\ h[i].org \in Nat /\ shifts[i] \in Nat
        BY <1>7, <1>8, <2>1
      <4> QED
        BY <4>1, SMTT(20) DEF HeapStart
    <3> QED
      BY <1>8, <2>1, <3>1, <3>4, <3>5, <3>6
  <2>2. CASE i = n + 1
    <3>1. h2[i] = c /\ c2[i] = c.org /\ s2[i] = step
      BY <1>4, <1>5, <1>6, <2>2
    <3>2. i = 1 => n = 0
      BY <2>2, SMTT(20)
    <3>3. /\ i = 1 => c.org = HeapStart
          /\ HeapStart + (shift + step) = c.org + step
          /\ HeapStart <= c.org /\ c.org + step <= HeapStart + (shift + step)
      BY <1>8, <3>2, SMTT(20) DEF HeapStart
    <3>4. ~(i < n + 1)
      BY <2>2, SMTT(20)
    <3> QED
      BY <3>1, <3>3, <3>4
  <2> QED
    BY <2>1, <2>2, SMTT(20)
<1>10. \A i, j \in 1 .. n + 1 : i < j => h2[i].org + s2[i] <= h2[j].org
  <2> SUFFICES ASSUME NEW i \in 1 .. n + 1, NEW j \in 1 .. n + 1, i < j
               PROVE  h2[i].org + s2[i] <= h2[j].org
    OBVIOUS
  <2>1. i \in 1 .. n /\ (j \in 1 .. n \/ j = n + 1)
    BY SMTT(20)
  <2>2. h2[i] = h[i] /\ s2[i] = shifts[i]
    BY <1>4, <1>6, <2>1
  <2>3. CASE j \in 1 .. n
    BY <1>4, <1>8, <2>1, <2>2, <2>3
  <2>4. CASE j = n + 1
    BY <1>4, <1>8, <2>1, <2>2, <2>4
  <2> QED
    BY <2>1, <2>3, <2>4
<1>11. n + 1 # 0
  BY SMTT(20)
<1> QED
  BY <1>2, <1>4, <1>5, <1>6, <1>9, <1>10, <1>11 DEF StackOK

\* The oldest chunks, when the others are returned.
LEMMA StackPrefix ==
  ASSUME NEW h \in Seq(ChunkType), NEW coarrays \in Seq(Nat), NEW shifts \in Seq(Nat),
         NEW shift \in Nat, StackOK(h, coarrays, shifts, shift), NEW keep \in 0 .. Len(h) - 1
  PROVE  /\ h[keep + 1].org - HeapStart \in 0 .. shift
         /\ StackOK(SubSeq(h, 1, keep), SubSeq(coarrays, 1, keep), SubSeq(shifts, 1, keep),
                    h[keep + 1].org - HeapStart)
<1>1. PICK n \in Nat : n = Len(h) /\ n = Len(coarrays) /\ n = Len(shifts)
  BY SMTT(20) DEF StackOK
<1>2. PICK h2, c2, s2 : /\ h2 = SubSeq(h, 1, keep) /\ c2 = SubSeq(coarrays, 1, keep)
                        /\ s2 = SubSeq(shifts, 1, keep)
  OBVIOUS
<1>3. keep \in 0 .. n /\ keep \in Nat /\ keep + 1 \in 1 .. n
  BY <1>1, SMTT(20)
<1>4. Len(h2) = keep /\ \A i \in 1 .. keep : h2[i] = h[i]
  BY <1>1, <1>2, <1>3, SMTT(20)
<1>5. Len(c2) = keep /\ \A i \in 1 .. keep : c2[i] = coarrays[i]
  BY <1>1, <1>2, <1>3, SMTT(20)
<1>6. Len(s2) = keep /\ \A i \in 1 .. keep : s2[i] = shifts[i]
  BY <1>1, <1>2, <1>3, SMTT(20)
<1>7. \A i \in 1 .. n : h[i].org \in Nat /\ h[i].nbytes \in Nat /\ shifts[i] \in Nat
  BY <1>1, Numbers
<1>8. /\ \A i \in 1 .. n :
           /\ coarrays[i] = h[i].org /\ h[i].nbytes <= shifts[i]
           /\ i = 1 => h[i].org = HeapStart
           /\ i < n => h[i + 1].org = h[i].org + shifts[i]
           /\ HeapStart <= h[i].org /\ h[i].org + shifts[i] <= HeapStart + shift
      /\ \A i, j \in 1 .. n : i < j => h[i].org + shifts[i] <= h[j].org
  BY <1>1 DEF StackOK
<1>9. PICK e : e = h[keep + 1].org - HeapStart
  OBVIOUS
<1>10. e \in 0 .. shift
  <2>1. /\ h[keep + 1].org \in Nat /\ shifts[keep + 1] \in Nat /\ HeapStart <= h[keep + 1].org
        /\ h[keep + 1].org + shifts[keep + 1] <= HeapStart + shift
    BY <1>3, <1>7, <1>8
  <2> QED
    BY <1>9, <2>1, SMTT(20) DEF HeapStart
<1>11. HeapStart + e = h[keep + 1].org
  BY <1>3, <1>7, <1>9, SMTT(20) DEF HeapStart
<1>12. keep = 0 => e = 0
  BY <1>3, <1>8, <1>9, SMTT(20) DEF HeapStart
<1>13. \A i \in 1 .. keep :
        /\ c2[i] = h2[i].org /\ h2[i].nbytes <= s2[i]
        /\ i = 1 => h2[i].org = HeapStart
        /\ i < keep => h2[i + 1].org = h2[i].org + s2[i]
        /\ i = keep => HeapStart + e = h2[i].org + s2[i]
        /\ HeapStart <= h2[i].org /\ h2[i].org + s2[i] <= HeapStart + e
  <2> TAKE i \in 1 .. keep
  <2>1. i \in 1 .. n /\ i < n /\ i < keep + 1 /\ (i < keep => i + 1 \in 1 .. keep)
    BY <1>3, SMTT(20)
  <2>2. h2[i] = h[i] /\ c2[i] = coarrays[i] /\ s2[i] = shifts[i]
        /\ (i < keep => h2[i + 1] = h[i + 1])
    BY <1>4, <1>5, <1>6, <2>1
  <2> QED
    BY <1>3, <1>8, <1>11, <2>1, <2>2
<1>14. \A i, j \in 1 .. keep : i < j => h2[i].org + s2[i] <= h2[j].org
  <2> SUFFICES ASSUME NEW i \in 1 .. keep, NEW j \in 1 .. keep, i < j
               PROVE  h2[i].org + s2[i] <= h2[j].org
    OBVIOUS
  <2>1. i \in 1 .. n /\ j \in 1 .. n
    BY <1>3, SMTT(20)
  <2> QED
    BY <1>4, <1>6, <1>8, <2>1
<1> QED
  BY <1>2, <1>4, <1>5, <1>6, <1>9, <1>10, <1>12, <1>13, <1>14 DEF StackOK

\* Marks and links of the chunks do not matter.
LEMMA StackLike ==
  ASSUME NEW h, NEW h2, NEW coarrays, NEW shifts, NEW shift, Len(h) \in Nat,
         StackOK(h, coarrays, shifts, shift), Len(h2) = Len(h),
         \A i \in 1 .. Len(h) : h2[i].org = h[i].org /\ h2[i].nbytes = h[i].nbytes
  PROVE  StackOK(h2, coarrays, shifts, shift)
<1>1. PICK n \in Nat : Len(h) = n /\ Len(h2) = n
  OBVIOUS
<1>2. \A i \in 1 .. n : i < n => i + 1 \in 1 .. n
  BY SMTT(20)
<1>3. \A i \in 1 .. n : h2[i].org = h[i].org /\ h2[i].nbytes = h[i].nbytes
  BY <1>1
<1>4. /\ Len(coarrays) = n /\ Len(shifts) = n
      /\ n = 0 => shift = 0
      /\ \A i \in 1 .. n :
           /\ coarrays[i] = h[i].org /\ h[i].nbytes <= shifts[i]
           /\ i = 1 => h[i].org = HeapStart
           /\ i < n => h[i + 1].org = h[i].org + shifts[i]
           /\ i = n => HeapStart + shift = h[i].org + shifts[i]
           /\ HeapStart <= h[i].org /\ h[i].org + shifts[i] <= HeapStart + shift
      /\ \A i, j \in 1 .. n : i < j => h[i].org + shifts[i] <= h[j].org
  BY <1>1 DEF StackOK
<1>5. \A i \in 1 .. n :
        /\ coarrays[i] = h2[i].org /\ h2[i].nbytes <= shifts[i]
        /\ i = 1 => h2[i].org = HeapStart
        /\ i < n => h2[i + 1].org = h2[i].org + shifts[i]
        /\ i = n => HeapStart + shift = h2[i].org + shifts[i]
        /\ HeapStart <= h2[i].org /\ h2[i].org + shifts[i] <= HeapStart + shift
  <2> TAKE i \in 1 .. n
  <2>1. /\ h2[i].org = h[i].org /\ h2[i].nbytes = h[i].nbytes
        /\ i < n => h2[i + 1].org = h[i + 1].org
    BY <1>2, <1>3
  <2>2. /\ coarrays[i] = h[i].org /\ h[i].nbytes <= shifts[i]
        /\ i = 1 => h[i].org = HeapStart
        /\ i < n => h[i + 1].org = h[i].org + shifts[i]
        /\ i = n => HeapStart + shift = h[i].org + shifts[i]
        /\ HeapStart <= h[i].org /\ h[i].org + shifts[i] <= HeapStart + shift
    BY <1>4
  <2> QED
    BY <2>1, <2>2
<1>6. \A i, j \in 1 .. n : i < j => h2[i].org + shifts[i] <= h2[j].org
  BY <1>3, <1>4
<1> QED
  BY <1>1, <1>4, <1>5, <1>6 DEF StackOK

(***************************************************************************)
(* The sorted table and the chunks in use                                  *)
(***************************************************************************)

Same(entry, c) == entry.org = c.org /\ entry.nbytes = c.nbytes

\* Between its sentinels the table has the chunks that are not garbage, by address.
TableOK(table, room, h) ==
  /\ Len(table) >= 2 /\ Len(table) <= room
  /\ table[1].org = 0 /\ table[1].nbytes = 0
  /\ table[Len(table)].org = HeapStart + HeapSize + 1
  /\ Sorted(table)
  /\ \A x \in 2 .. Len(table) - 1 : \E i \in 1 .. Len(h) : Same(table[x], h[i]) /\ ~h[i].isGarbage
  /\ \A i \in 1 .. Len(h) : ~h[i].isGarbage => \E x \in 2 .. Len(table) - 1 : Same(table[x], h[i])

\* The numbers of a table.
LEMMA TableNumbers ==
  ASSUME NEW table \in Seq(Entries)
  PROVE  \A x \in 1 .. Len(table) : table[x].org \in Nat /\ table[x].nbytes \in Nat
<1>1. \A x \in 1 .. Len(table) : table[x] \in Entries
  BY SMTT(20)
<1> QED
  BY <1>1 DEF Entries

\* The search for an address of the heap.
LEMMA TableSearch ==
  ASSUME NEW table \in Seq(Entries), NEW room \in Nat, NEW h \in Seq(ChunkType),
         TableOK(table, room, h), NEW key \in HeapStart .. (HeapStart + HeapSize)
  PROVE  \E x \in 0 .. Len(table) - 2 :
           /\ Bracket(table, key, x)
           /\ Search(table, key).idx = x
           /\ Search(table, key).found <=> x > 0 /\ key < table[x + 1].org + table[x + 1].nbytes
<1>1. HeapSize \in Nat /\ key \in Nat /\ key > 0 /\ key < HeapStart + HeapSize + 1
  BY SizeAssumption, SMTT(20) DEF HeapStart
<1>2. table[1].org <= key /\ key < table[Len(table)].org
  <2>1. table[1].org = 0 /\ table[Len(table)].org = HeapStart + HeapSize + 1
    BY DEF TableOK
  <2> QED
    BY <1>1, <2>1, SMTT(20)
<1>3. Len(table) >= 2 /\ Sorted(table) /\ key \in Nat
  BY <1>1 DEF TableOK
<1>4. PICK x \in 0 .. Len(table) - 2 :
           /\ Bracket(table, key, x)
           /\ Search(table, key).idx = x
           /\ Search(table, key).found <=>
                \/ x > 0 /\ table[x + 1].org = key
                \/ key < table[x + 1].org + table[x + 1].nbytes
  BY <1>2, <1>3, SearchExact
<1>5. CASE x = 0
  <2>1. table[x + 1].org = 0 /\ table[x + 1].nbytes = 0
    BY <1>5, SMTT(20) DEF TableOK
  <2>2. ~(x > 0) /\ ~(key < table[x + 1].org + table[x + 1].nbytes)
    BY <1>1, <1>5, <2>1, SMTT(20)
  <2> QED
    BY <1>4, <2>2
<1>6. CASE x > 0
  <2>1. x + 1 \in 2 .. Len(table) - 1
    BY <1>3, <1>4, <1>6, SMTT(20)
  <2>2. PICK i \in 1 .. Len(h) : Same(table[x + 1], h[i])
    BY <2>1 DEF TableOK
  <2>3. h[i] \in ChunkType
    BY <2>2, SMTT(20)
  <2>4. h[i].nbytes \in Nat \ {0}
    BY <2>3 DEF ChunkType
  <2>5. table[x + 1].nbytes \in Nat /\ table[x + 1].nbytes > 0
    BY <2>2, <2>4, SMTT(20) DEF Same
  <2>6. table[x + 1].org = key => key < table[x + 1].org + table[x + 1].nbytes
    BY <1>1, <2>5, SMTT(20)
  <2> QED
    BY <1>4, <1>6, <2>6
<1> QED
  <2>1. x = 0 \/ x > 0
    BY <1>4, SMTT(20)
  <2> QED
    BY <1>5, <1>6, <2>1

\* The chunk of another address has another address.
LEMMA Apart ==
  ASSUME NEW h \in Seq(ChunkType), NEW coarrays \in Seq(Nat), NEW shifts \in Seq(Nat),
         NEW shift \in Nat, StackOK(h, coarrays, shifts, shift),
         NEW i \in 1 .. Len(h), NEW j \in 1 .. Len(h)
  PROVE  /\ i < j => h[i].org < h[j].org /\ h[i].org + h[i].nbytes <= h[j].org
         /\ h[i].org = h[j].org => i = j
<1>1. Len(shifts) = Len(h)
  BY DEF StackOK
<1>2. /\ h[i].org \in Nat /\ h[i].nbytes \in Nat /\ h[i].nbytes > 0 /\ shifts[i] \in Nat
      /\ h[j].org \in Nat /\ h[j].nbytes \in Nat /\ h[j].nbytes > 0 /\ shifts[j] \in Nat
  BY <1>1, Numbers
<1>3. /\ h[i].nbytes <= shifts[i] /\ h[j].nbytes <= shifts[j]
      /\ i < j => h[i].org + shifts[i] <= h[j].org
      /\ j < i => h[j].org + shifts[j] <= h[i].org
  BY DEF StackOK
<1>4. PICK a \in Nat, b \in Nat, s \in Nat : a = h[i].org /\ b = h[i].nbytes /\ s = shifts[i]
  BY <1>2
<1>5. PICK d \in Nat, e \in Nat, t \in Nat : d = h[j].org /\ e = h[j].nbytes /\ t = shifts[j]
  BY <1>2
<1>6. /\ b <= s /\ e <= t /\ b > 0 /\ e > 0
      /\ i < j => a + s <= d
      /\ j < i => d + t <= a
  BY <1>2, <1>3, <1>4, <1>5
<1>7. (i < j => a < d /\ a + b <= d) /\ (a = d => i = j)
  BY <1>6, SMTT(20)
<1> QED
  BY <1>4, <1>5, <1>7

\* The next address that the lower layer hands out is in no chunk of the table.
LEMMA TableFresh ==
  ASSUME NEW table \in Seq(Entries), NEW room \in Nat, NEW h \in Seq(ChunkType),
         NEW coarrays \in Seq(Nat), NEW shifts \in Seq(Nat), NEW shift \in 0 .. HeapSize,
         StackOK(h, coarrays, shifts, shift), TableOK(table, room, h)
  PROVE  LET key == HeapStart + shift IN
         \E x \in 0 .. Len(table) - 2 :
           /\ table[x + 1].org < key /\ key < table[x + 2].org
           /\ Search(table, key).idx = x /\ ~Search(table, key).found
<1>1. PICK key : key = HeapStart + shift
  OBVIOUS
<1>2. key \in HeapStart .. (HeapStart + HeapSize) /\ key \in Nat /\ key > 0 /\ shift \in Nat
  BY <1>1, SizeAssumption, SMTT(20) DEF HeapStart
<1>3. PICK x \in 0 .. Len(table) - 2 :
           /\ Bracket(table, key, x)
           /\ Search(table, key).idx = x
           /\ Search(table, key).found <=> x > 0 /\ key < table[x + 1].org + table[x + 1].nbytes
  BY <1>2, TableSearch
<1>4. key < table[x + 2].org
  BY <1>3 DEF Bracket
<1>5. CASE x = 0
  <2>1. table[x + 1].org < key
    BY <1>2, <1>5, SMTT(20) DEF TableOK
  <2>2. ~(x > 0)
    BY <1>5, SMTT(20)
  <2> QED
    BY <1>1, <1>3, <1>4, <2>1, <2>2
<1>6. CASE x > 0
  <2>1. x + 1 \in 2 .. Len(table) - 1
    BY <1>3, <1>6, SMTT(20) DEF TableOK
  <2>2. PICK i \in 1 .. Len(h) : Same(table[x + 1], h[i])
    BY <2>1 DEF TableOK
  <2>3. Len(shifts) = Len(h)
    BY DEF StackOK
  <2>4. h[i].org \in Nat /\ h[i].nbytes \in Nat /\ h[i].nbytes > 0 /\ shifts[i] \in Nat
    BY <2>3, Numbers
  <2>5. h[i].nbytes <= shifts[i] /\ h[i].org + shifts[i] <= key
    BY <1>1 DEF StackOK
  <2>6. table[x + 1].org < key /\ ~(key < table[x + 1].org + table[x + 1].nbytes)
    <3>1. PICK a \in Nat, b \in Nat, s \in Nat : a = h[i].org /\ b = h[i].nbytes /\ s = shifts[i]
      BY <2>4
    <3>2. b > 0 /\ b <= s /\ a + s <= key
      BY <2>4, <2>5, <3>1
    <3>3. a < key /\ ~(key < a + b)
      BY <1>2, <3>2, SMTT(20)
    <3> QED
      BY <2>2, <3>1, <3>3 DEF Same
  <2> QED
    BY <1>1, <1>3, <1>4, <2>6
<1> QED
  <2>1. x = 0 \/ x > 0
    BY <1>3, SMTT(20)
  <2> QED
    BY <1>5, <1>6, <2>1

\* The search for the address of a chunk in use finds its entry.
LEMMA TableBooked ==
  ASSUME NEW table \in Seq(Entries), NEW room \in Nat, NEW h \in Seq(ChunkType),
         NEW coarrays \in Seq(Nat), NEW shifts \in Seq(Nat), NEW shift \in 0 .. HeapSize,
         StackOK(h, coarrays, shifts, shift), TableOK(table, room, h),
         NEW i \in 1 .. Len(h), ~h[i].isGarbage,
         NEW key \in Nat, h[i].org <= key, key < h[i].org + h[i].nbytes
  PROVE  \E x \in 1 .. Len(table) - 2 :
           /\ Same(table[x + 1], h[i])
           /\ Search(table, key).idx = x /\ Search(table, key).found
<1>1. Len(shifts) = Len(h) /\ Sorted(table)
  BY DEF StackOK, TableOK
<1>2. h[i].org \in Nat /\ h[i].nbytes \in Nat /\ h[i].nbytes > 0 /\ shifts[i] \in Nat
  BY <1>1, Numbers
<1>3. h[i].nbytes <= shifts[i] /\ HeapStart <= h[i].org /\ h[i].org + shifts[i] <= HeapStart + shift
  BY DEF StackOK
<1>4. key \in HeapStart .. (HeapStart + HeapSize)
  <2>1. PICK a \in Nat, b \in Nat, c \in Nat : a = h[i].org /\ b = h[i].nbytes /\ c = shifts[i]
    BY <1>2
  <2>2. b <= c /\ HeapStart <= a /\ a + c <= HeapStart + shift /\ a <= key /\ key < a + b
    BY <1>3, <2>1
  <2> QED
    BY <2>2, SizeAssumption, SMTT(20) DEF HeapStart
<1>5. PICK x \in 0 .. Len(table) - 2 :
           /\ Bracket(table, key, x)
           /\ Search(table, key).idx = x
           /\ Search(table, key).found <=> x > 0 /\ key < table[x + 1].org + table[x + 1].nbytes
  BY <1>4, TableSearch
<1>6. PICK y \in 2 .. Len(table) - 1 : Same(table[y], h[i])
  BY DEF TableOK
<1>7. PICK t \in Nat : t = Len(table)
  BY SMTT(20)
<1>8. /\ y \in 1 .. t /\ x + 1 \in 1 .. t /\ x + 2 \in 1 .. t /\ y + 1 \in 1 .. t /\ y < y + 1
      /\ y \in Int /\ x \in Int /\ y >= 2
  BY <1>5, <1>6, <1>7, SMTT(20)
<1>9. /\ table[y].org \in Nat /\ table[x + 1].org \in Nat /\ table[x + 2].org \in Nat
      /\ table[y].org = h[i].org /\ table[y].nbytes = h[i].nbytes
  BY <1>6, <1>7, <1>8, TableNumbers DEF Same
<1>10. ~(x + 2 <= y)
  <2> SUFFICES ASSUME x + 2 <= y PROVE FALSE
    OBVIOUS
  <2>1. x + 2 = y \/ x + 2 < y
    BY <1>8, SMTT(20)
  <2>2. x + 2 < y => table[x + 2].org < table[y].org
    BY <1>1, <1>7, <1>8 DEF Sorted
  <2>3. key < table[x + 2].org
    BY <1>5 DEF Bracket
  <2> QED
    <3>1. PICK p \in Nat, q \in Nat : p = table[x + 2].org /\ q = table[y].org
      BY <1>9
    <3>2. q <= key /\ key < p /\ (p = q \/ p < q)
      BY <1>9, <2>1, <2>2, <2>3, <3>1
    <3> QED
      BY <3>2, SMTT(20)
<1>11. ~(y < x + 1)
  <2> SUFFICES ASSUME y < x + 1 PROVE FALSE
    OBVIOUS
  <2>1. x + 1 \in 2 .. Len(table) - 1
    BY <1>7, <1>8, SMTT(20)
  <2>2. PICK j \in 1 .. Len(h) : Same(table[x + 1], h[j])
    BY <2>1 DEF TableOK
  <2>3. table[y].org < table[x + 1].org /\ table[x + 1].org <= key
    BY <1>1, <1>5, <1>7, <1>8 DEF Sorted, Bracket
  <2>4. h[i].org < h[j].org /\ h[j].org <= key
    BY <1>9, <2>2, <2>3 DEF Same
  <2>5. shift \in Nat
    BY SizeAssumption, SMTT(20)
  <2>6. i \in Int /\ j \in Int /\ h[j].org \in Nat
    BY <1>1, Numbers, SMTT(20)
  <2>7. /\ i < j => h[i].org + h[i].nbytes <= h[j].org
        /\ j < i => h[j].org < h[i].org
    BY <2>5, Apart
  <2>8. i # j
    BY <1>2, <2>4, SMTT(20)
  <2> QED
    <3>1. PICK a \in Nat, b \in Nat, d \in Nat : a = h[i].org /\ b = h[i].nbytes /\ d = h[j].org
      BY <1>2, <2>6
    <3>2. a < d /\ d <= key /\ key < a + b /\ (i < j => a + b <= d) /\ (j < i => d < a)
      BY <2>4, <2>7, <3>1
    <3> QED
      BY <2>6, <2>8, <3>2, SMTT(20)
<1>12. y = x + 1 /\ x \in 1 .. Len(table) - 2 /\ x > 0
  BY <1>5, <1>7, <1>8, <1>10, <1>11, SMTT(20)
<1> QED
  BY <1>5, <1>6, <1>9, <1>12

\* The place after the last.
LEMMA After == \A n \in Nat : n + 1 \in 1 .. n + 1
  BY SMTT(20)

\* The places before place p.
LEMMA Before ==
  \A t, p \in Nat : p <= t => \A k \in 2 .. t : k < p => k \in 1 .. p-1 /\ k \in 2 .. t-1
  BY SMTT(20)

\* The places beyond place p, which are one further than they were.
LEMMA Beyond ==
  \A t, p \in Nat : 2 <= p => \A k \in 2 .. t :
    k > p => k - 1 \in p .. t /\ k - 1 \in 2 .. t-1 /\ (k - 1) + 1 = k
  BY SMTT(20)

\* A new entry in its place, for a new chunk on the top of the stack.
LEMMA TableAdd ==
  ASSUME NEW table \in Seq(Entries), NEW room \in Nat, NEW h \in Seq(ChunkType),
         TableOK(table, room, h), NEW c \in ChunkType, ~c.isGarbage,
         NEW x \in 0 .. Len(table) - 2, table[x + 1].org < c.org, c.org < table[x + 2].org,
         NEW room2 \in Nat, Len(table) + 1 <= room2,
         NEW e \in Entries, Same(e, c)
  PROVE  /\ Shifted(table, x + 2, e) \in Seq(Entries)
         /\ TableOK(Shifted(table, x + 2, e), room2, Append(h, c))
<1>1. PICK t \in Nat : Len(table) = t /\ t >= 2
  BY SMTT(20) DEF TableOK
<1>2. PICK n \in Nat : Len(h) = n
  BY SMTT(20)
<1>3. PICK q : q = Shifted(table, x + 2, e)
  OBVIOUS
<1>4. x \in Nat /\ x + 2 <= t /\ x + 2 \in 1 .. t + 1
  BY <1>1, SMTT(20)
<1>5. PICK p \in Nat : p = x + 2 /\ 2 <= p /\ p <= t /\ x + 1 = p - 1
  BY <1>4, SMTT(20)
<1>6. /\ q \in Seq(Entries) /\ Len(q) = t + 1
      /\ \A k \in 1 .. p-1 : q[k] = table[k]
      /\ q[p] = e
      /\ \A k \in p .. t : q[k + 1] = table[k]
  <2>1. p \in 1 .. Len(table) + 1
    BY <1>1, <1>4, <1>5
  <2>2. IsShifted(Shifted(table, p, e), table, p, e)
    BY <2>1, ShiftedSeq
  <2> QED
    BY <1>1, <1>3, <1>5, <2>2 DEF IsShifted
<1>7. \A k \in 1 .. t : table[k].org \in Nat
  BY <1>1, TableNumbers
<1>8. \A i, j \in 1 .. t : i < j => table[i].org < table[j].org
  BY <1>1 DEF TableOK, Sorted
<1>9. PICK key \in Nat : key = c.org /\ key = e.org
  BY DEF ChunkType, Same
<1>10. table[p - 1].org < key /\ key < table[p].org /\ p - 1 \in 1 .. t /\ p \in 1 .. t
  BY <1>5, <1>9, SMTT(20)
<1>11. \A i \in 1 .. p-1 : q[i].org < key /\ q[i].org \in Nat
  <2> TAKE i \in 1 .. p-1
  <2>1. i \in 1 .. t /\ (i = p - 1 \/ i < p - 1)
    BY <1>5, SMTT(20)
  <2>2. i = p - 1 \/ table[i].org < table[p - 1].org
    BY <1>8, <1>10, <2>1
  <2>3. PICK a \in Nat, b \in Nat : a = table[i].org /\ b = table[p - 1].org
    BY <1>7, <1>10, <2>1
  <2>4. a = b \/ a < b
    BY <2>2, <2>3
  <2>5. b < key
    BY <1>10, <2>3
  <2>6. a < key
    BY <2>4, <2>5, SMTT(20)
  <2> QED
    BY <1>6, <2>3, <2>6
<1>12. \A i \in p+1 .. t+1 : key < q[i].org /\ q[i].org \in Nat
  <2> TAKE i \in p+1 .. t+1
  <2>1. i - 1 \in p .. t /\ i - 1 \in 1 .. t /\ (p = i - 1 \/ p < i - 1) /\ (i - 1) + 1 = i
    BY <1>5, SMTT(20)
  <2>2. p = i - 1 \/ table[p].org < table[i - 1].org
    BY <1>8, <1>10, <2>1
  <2>3. PICK a \in Nat, b \in Nat : a = table[i - 1].org /\ b = table[p].org
    BY <1>7, <1>10, <2>1
  <2>4. a = b \/ b < a
    BY <2>2, <2>3
  <2>5. key < b
    BY <1>10, <2>3
  <2>6. key < a
    BY <2>4, <2>5, SMTT(20)
  <2>7. q[i] = table[i - 1]
    BY <1>6, <2>1
  <2> QED
    BY <2>3, <2>6, <2>7
<1>13. \A i, j \in 1 .. t+1 : i < j => q[i].org < q[j].org
  <2> SUFFICES ASSUME NEW i \in 1 .. t+1, NEW j \in 1 .. t+1, i < j PROVE q[i].org < q[j].org
    OBVIOUS
  <2>1. CASE i \in 1 .. p-1 /\ j \in 1 .. p-1
    <3>1. i \in 1 .. t /\ j \in 1 .. t
      BY <1>5, <2>1, SMTT(20)
    <3> QED
      BY <1>6, <1>8, <2>1, <3>1
  <2>2. CASE i \in 1 .. p-1 /\ j = p
    BY <1>6, <1>9, <1>11, <2>2
  <2>3. CASE i \in 1 .. p-1 /\ j \in p+1 .. t+1
    <3>1. PICK a \in Nat, b \in Nat : a = q[i].org /\ b = q[j].org /\ a < key /\ key < b
      BY <1>11, <1>12, <2>3
    <3>a. a < key /\ key < b
      BY <3>1
    <3>2. a < b
      BY <3>a, SMTT(20)
    <3> QED
      BY <3>1, <3>2
  <2>4. CASE i = p /\ j \in p+1 .. t+1
    BY <1>6, <1>9, <1>12, <2>4
  <2>5. CASE i \in p+1 .. t+1 /\ j \in p+1 .. t+1
    <3>1. /\ i - 1 \in p .. t /\ j - 1 \in p .. t /\ i - 1 \in 1 .. t /\ j - 1 \in 1 .. t
          /\ i - 1 < j - 1 /\ (i - 1) + 1 = i /\ (j - 1) + 1 = j
      BY <1>5, <2>5, SMTT(20)
    <3>2. q[i] = table[i - 1] /\ q[j] = table[j - 1]
      BY <1>6, <3>1
    <3> QED
      BY <1>8, <3>1, <3>2
  <2> QED
    BY <1>5, <2>1, <2>2, <2>3, <2>4, <2>5, SMTT(20)
<1>14. PICK h2 : h2 = Append(h, c)
  OBVIOUS
<1>15. Len(h2) = n + 1 /\ h2[n + 1] = c /\ \A i \in 1 .. n : h2[i] = h[i]
  <2>1. /\ Len(Append(h, c)) = Len(h) + 1 /\ Append(h, c)[Len(h) + 1] = c
        /\ \A i \in 1 .. Len(h) : Append(h, c)[i] = h[i]
    BY SMTT(20)
  <2> QED
    BY <1>2, <1>14, <2>1
<1>16. \A i \in 1 .. n : i \in 1 .. n + 1
  BY SMTT(20)
<1>17. \A k \in 2 .. t : \E i \in 1 .. n + 1 : Same(q[k], h2[i]) /\ ~h2[i].isGarbage
  <2> TAKE k \in 2 .. t
  <2>1. CASE k = p
    <3>1. n + 1 \in 1 .. n + 1
      BY After
    <3> QED
      BY <1>6, <1>15, <2>1, <3>1
  <2>2. CASE k < p
    <3>1. k \in 1 .. p-1 /\ k \in 2 .. t-1
      BY <1>5, <2>2, Before
    <3>2. PICK i \in 1 .. n : Same(table[k], h[i]) /\ ~h[i].isGarbage
      BY <1>1, <1>2, <3>1 DEF TableOK
    <3> QED
      BY <1>6, <1>15, <1>16, <3>1, <3>2
  <2>3. CASE k > p
    <3>1. k - 1 \in p .. t /\ k - 1 \in 2 .. t-1 /\ (k - 1) + 1 = k
      BY <1>5, <2>3, Beyond
    <3>2. PICK i \in 1 .. n : Same(table[k - 1], h[i]) /\ ~h[i].isGarbage
      BY <1>1, <1>2, <3>1 DEF TableOK
    <3>3. q[k] = table[k - 1]
      BY <1>6, <3>1
    <3> QED
      BY <1>15, <1>16, <3>2, <3>3
  <2> QED
    BY <1>5, <2>1, <2>2, <2>3, SMTT(20)
<1>18. \A i \in 1 .. n + 1 : ~h2[i].isGarbage => \E k \in 2 .. t : Same(q[k], h2[i])
  <2> SUFFICES ASSUME NEW i \in 1 .. n + 1, ~h2[i].isGarbage PROVE \E k \in 2 .. t : Same(q[k], h2[i])
    OBVIOUS
  <2>1. CASE i = n + 1
    <3>1. p \in 2 .. t
      BY <1>5, SMTT(20)
    <3> QED
      BY <1>6, <1>15, <2>1, <3>1
  <2>2. CASE i \in 1 .. n
    <3>1. PICK k \in 2 .. t-1 : Same(table[k], h[i])
      BY <1>1, <1>2, <1>15, <2>2 DEF TableOK
    <3>2. CASE k < p
      <4>1. k \in 1 .. p-1 /\ k \in 2 .. t
        BY <1>5, <3>2, SMTT(20)
      <4> QED
        BY <1>6, <1>15, <2>2, <3>1, <4>1
    <3>3. CASE ~(k < p)
      <4>1. k \in p .. t /\ k + 1 \in 2 .. t
        BY <1>5, <3>3, SMTT(20)
      <4> QED
        BY <1>6, <1>15, <2>2, <3>1, <4>1
    <3> QED
      BY <3>2, <3>3
  <2>3. i = n + 1 \/ i \in 1 .. n
    BY SMTT(20)
  <2> QED
    BY <2>1, <2>2, <2>3
<1>19. q[1].org = 0 /\ q[1].nbytes = 0
  <2>1. 1 \in 1 .. p-1
    BY <1>5, SMTT(20)
  <2> QED
    BY <1>6, <2>1 DEF TableOK
<1>20. q[t + 1].org = HeapStart + HeapSize + 1
  <2>1. t \in p .. t
    BY <1>5, SMTT(20)
  <2> QED
    BY <1>1, <1>6, <2>1 DEF TableOK
<1>21. t + 1 >= 2 /\ (t + 1) - 1 = t
  BY <1>1, SMTT(20)
<1>22. Sorted(q)
  BY <1>6, <1>13 DEF Sorted
<1>23. /\ Len(q) = t + 1 /\ Len(q) - 1 = t /\ Len(q) >= 2 /\ Len(q) <= room2
       /\ q[Len(q)].org = HeapStart + HeapSize + 1 /\ Len(h2) = n + 1
  BY <1>1, <1>6, <1>15, <1>20, <1>21
<1>24. TableOK(q, room2, h2)
  BY <1>17, <1>18, <1>19, <1>22, <1>23 DEF TableOK
<1> QED
  BY <1>3, <1>6, <1>14, <1>24

\* The entry of a chunk that becomes garbage is overwritten.
LEMMA TableDel ==
  ASSUME NEW table \in Seq(Entries), NEW room \in Nat, NEW h \in Seq(ChunkType),
         TableOK(table, room, h), NEW x \in 1 .. Len(table) - 2,
         NEW i \in 1 .. Len(h), Same(table[x + 1], h[i]),
         \A j \in 1 .. Len(h) : h[i].org = h[j].org => i = j,
         NEW room2 \in Nat, Len(table) - 1 <= room2,
         NEW h2, Len(h2) = Len(h), h2[i].isGarbage,
         \A j \in 1 .. Len(h) : h2[j].org = h[j].org /\ h2[j].nbytes = h[j].nbytes,
         \A j \in 1 .. Len(h) : j # i => h2[j].isGarbage = h[j].isGarbage
  PROVE  /\ Overwritten(table, x + 1) \in Seq(Entries)
         /\ TableOK(Overwritten(table, x + 1), room2, h2)
<1>1. PICK t \in Nat : Len(table) = t /\ t >= 2
  BY SMTT(20) DEF TableOK
<1>2. PICK n \in Nat : Len(h) = n /\ Len(h2) = n
  BY SMTT(20)
<1>3. PICK q : q = Overwritten(table, x + 1)
  OBVIOUS
<1>4. PICK p \in Nat : p = x + 1 /\ 2 <= p /\ p <= t - 1
  BY <1>1, SMTT(20)
<1>5. p \in 1 .. t
  BY <1>4, SMTT(20)
<1>6. /\ q \in Seq(Entries) /\ Len(q) = t - 1
      /\ \A k \in 1 .. p-1 : q[k] = table[k]
      /\ \A k \in p .. t-1 : q[k] = table[k + 1]
  <2>1. /\ Overwritten(table, p) \in Seq(Entries) /\ Len(Overwritten(table, p)) = Len(table) - 1
        /\ \A k \in 1 .. p-1 : Overwritten(table, p)[k] = table[k]
        /\ \A k \in p .. Len(table) - 1 : Overwritten(table, p)[k] = table[k + 1]
    BY <1>1, <1>5, OverwrittenSeq
  <2> QED
    BY <1>1, <1>3, <1>4, <2>1
<1>7. \A k \in 1 .. t : table[k].org \in Nat
  BY <1>1, TableNumbers
<1>8. \A j, k \in 1 .. t : j < k => table[j].org < table[k].org
  BY <1>1 DEF TableOK, Sorted
<1>9. \A k \in 1 .. t : k # p => table[k].org # table[p].org
  <2> SUFFICES ASSUME NEW k \in 1 .. t, k # p PROVE table[k].org # table[p].org
    OBVIOUS
  <2>1. k < p \/ p < k
    BY <1>4, SMTT(20)
  <2>2. PICK a \in Nat, b \in Nat : a = table[k].org /\ b = table[p].org
    BY <1>5, <1>7
  <2>3. a < b \/ b < a
    BY <1>5, <1>8, <2>1, <2>2
  <2>4. a # b
    BY <2>3, SMTT(20)
  <2> QED
    BY <2>2, <2>4
<1>10. table[p].org = h[i].org
  BY <1>4 DEF Same
<1>11. \A j, k \in 1 .. t-1 : j < k => q[j].org < q[k].org
  <2> SUFFICES ASSUME NEW j \in 1 .. t-1, NEW k \in 1 .. t-1, j < k PROVE q[j].org < q[k].org
    OBVIOUS
  <2>1. CASE j \in 1 .. p-1 /\ k \in 1 .. p-1
    <3>1. j \in 1 .. t /\ k \in 1 .. t
      BY SMTT(20)
    <3> QED
      BY <1>6, <1>8, <2>1, <3>1
  <2>2. CASE j \in 1 .. p-1 /\ k \in p .. t-1
    <3>1. j \in 1 .. t /\ k + 1 \in 1 .. t /\ j < k + 1
      BY SMTT(20)
    <3> QED
      BY <1>6, <1>8, <2>2, <3>1
  <2>3. CASE j \in p .. t-1 /\ k \in p .. t-1
    <3>1. j + 1 \in 1 .. t /\ k + 1 \in 1 .. t /\ j + 1 < k + 1
      BY SMTT(20)
    <3> QED
      BY <1>6, <1>8, <2>3, <3>1
  <2> QED
    BY <1>4, <2>1, <2>2, <2>3, SMTT(20)
<1>12. \A k \in 2 .. t-1 : k # p => \E j \in 1 .. n : Same(table[k], h2[j]) /\ ~h2[j].isGarbage
  <2> SUFFICES ASSUME NEW k \in 2 .. t-1, k # p
               PROVE  \E j \in 1 .. n : Same(table[k], h2[j]) /\ ~h2[j].isGarbage
    OBVIOUS
  <2>1. PICK j \in 1 .. n : Same(table[k], h[j]) /\ ~h[j].isGarbage
    BY <1>1, <1>2 DEF TableOK
  <2>2. k \in 1 .. t
    BY SMTT(20)
  <2>3. j # i
    BY <1>9, <1>10, <2>1, <2>2 DEF Same
  <2> QED
    BY <1>2, <2>1, <2>3 DEF Same
<1>13. \A k \in 2 .. t-2 : \E j \in 1 .. n : Same(q[k], h2[j]) /\ ~h2[j].isGarbage
  <2> TAKE k \in 2 .. t-2
  <2>1. CASE k < p
    <3>1. k \in 1 .. p-1 /\ k \in 2 .. t-1 /\ k # p
      BY <1>4, <2>1, SMTT(20)
    <3> QED
      BY <1>6, <1>12, <3>1
  <2>2. CASE ~(k < p)
    <3>1. k \in p .. t-1 /\ k + 1 \in 2 .. t-1 /\ k + 1 # p
      BY <1>4, <2>2, SMTT(20)
    <3> QED
      BY <1>6, <1>12, <3>1
  <2> QED
    BY <2>1, <2>2
<1>14. \A j \in 1 .. n : ~h2[j].isGarbage => \E k \in 2 .. t-2 : Same(q[k], h2[j])
  <2> SUFFICES ASSUME NEW j \in 1 .. n, ~h2[j].isGarbage PROVE \E k \in 2 .. t-2 : Same(q[k], h2[j])
    OBVIOUS
  <2>1. j # i /\ ~h[j].isGarbage
    BY <1>2
  <2>2. PICK k \in 2 .. t-1 : Same(table[k], h[j])
    BY <1>1, <1>2, <2>1 DEF TableOK
  <2>3. k # p
    BY <1>2, <1>10, <2>1, <2>2 DEF Same
  <2>4. Same(table[k], h2[j])
    BY <1>2, <2>2 DEF Same
  <2>5. CASE k < p
    <3>1. k \in 1 .. p-1 /\ k \in 2 .. t-2
      BY <1>4, <2>5, SMTT(20)
    <3> QED
      BY <1>6, <2>4, <3>1
  <2>6. CASE ~(k < p)
    <3>1. k - 1 \in p .. t-1 /\ k - 1 \in 2 .. t-2 /\ (k - 1) + 1 = k
      <4>1. PICK d \in Int : d = k /\ 2 <= d /\ d <= t - 1 /\ d # p /\ ~(d < p)
        BY <2>3, <2>6, SMTT(20)
      <4>2. d - 1 \in p .. t-1 /\ d - 1 \in 2 .. t-2 /\ (d - 1) + 1 = d
        BY <1>4, <4>1, SMTT(20)
      <4> QED
        BY <4>1, <4>2
    <3>2. q[k - 1] = table[k]
      BY <1>6, <3>1
    <3> QED
      BY <2>4, <3>1, <3>2
  <2> QED
    BY <2>5, <2>6
<1>15. q[1].org = 0 /\ q[1].nbytes = 0
  <2>1. 1 \in 1 .. p-1
    BY <1>4, SMTT(20)
  <2> QED
    BY <1>6, <2>1 DEF TableOK
<1>16. q[t - 1].org = HeapStart + HeapSize + 1
  <2>1. t - 1 \in p .. t-1 /\ (t - 1) + 1 = t
    BY <1>4, SMTT(20)
  <2>2. q[t - 1] = table[t]
    BY <1>6, <2>1
  <2> QED
    BY <1>1, <2>2 DEF TableOK
<1>17. t - 1 >= 2 /\ (t - 1) - 1 = t - 2
  BY <1>4, SMTT(20)
<1>18. Sorted(q)
  BY <1>6, <1>11 DEF Sorted
<1>19. t - 1 <= room2
  BY <1>1
<1>a. 2 .. Len(q) - 1 = 2 .. t-2
  BY <1>6, <1>17
<1>b. \A k \in 2 .. Len(q) - 1 : \E j \in 1 .. Len(h2) : Same(q[k], h2[j]) /\ ~h2[j].isGarbage
  BY <1>2, <1>13, <1>a
<1>c. \A j \in 1 .. Len(h2) : ~h2[j].isGarbage => \E k \in 2 .. Len(q) - 1 : Same(q[k], h2[j])
  BY <1>2, <1>14, <1>a
<1>20. TableOK(q, room2, h2)
  BY <1>6, <1>15, <1>16, <1>17, <1>18, <1>19, <1>b, <1>c DEF TableOK
<1> QED
  BY <1>3, <1>6, <1>20

\* The table does not depend on garbage, nor on the links of the chunks.
LEMMA TableLike ==
  ASSUME NEW table, NEW room, NEW h, NEW h2, TableOK(table, room, h),
         NEW n \in Nat, NEW l \in Nat, Len(h) = n, Len(h2) = l, l <= n,
         \A i \in 1 .. l : /\ h2[i].org = h[i].org /\ h2[i].nbytes = h[i].nbytes
                           /\ h2[i].isGarbage = h[i].isGarbage,
         \A i \in l+1 .. n : h[i].isGarbage
  PROVE  TableOK(table, room, h2)
<1>1. \A i \in 1 .. n : i \in 1 .. l \/ i \in l+1 .. n
  BY SMTT(20)
<1>2. \A i \in 1 .. l : i \in 1 .. n
  BY SMTT(20)
<1>3. \A x \in 2 .. Len(table) - 1 : \E i \in 1 .. l : Same(table[x], h2[i]) /\ ~h2[i].isGarbage
  <2> TAKE x \in 2 .. Len(table) - 1
  <2>1. PICK i \in 1 .. n : Same(table[x], h[i]) /\ ~h[i].isGarbage
    BY DEF TableOK
  <2>2. i \in 1 .. l
    BY <1>1, <2>1
  <2> QED
    BY <2>1, <2>2 DEF Same
<1>4. \A i \in 1 .. l : ~h2[i].isGarbage => \E x \in 2 .. Len(table) - 1 : Same(table[x], h2[i])
  <2> SUFFICES ASSUME NEW i \in 1 .. l, ~h2[i].isGarbage
               PROVE  \E x \in 2 .. Len(table) - 1 : Same(table[x], h2[i])
    OBVIOUS
  <2>1. i \in 1 .. n /\ ~h[i].isGarbage
    BY <1>2
  <2>2. PICK x \in 2 .. Len(table) - 1 : Same(table[x], h[i])
    BY <2>1 DEF TableOK
  <2> QED
    BY <2>2 DEF Same
<1> QED
  BY <1>3, <1>4 DEF TableOK

(***************************************************************************)
(* The operations on the memory                                            *)
(***************************************************************************)

MemType ==
  [history : Seq(ChunkType), table : Seq(Entries), room : Nat, coarrays : Seq(Nat),
   shifts : Seq(Nat), shift : 0 .. HeapSize, fatal : {"none", "heap", "pool"}]

MemOK(m) ==
  /\ m \in MemType
  /\ StackOK(m.history, m.coarrays, m.shifts, m.shift)
  /\ TableOK(m.table, m.room, m.history)

Memory(h, t, r, c, s, n, f) ==
  [history |-> h, table |-> t, room |-> r, coarrays |-> c, shifts |-> s, shift |-> n, fatal |-> f]

\* m is the memory with these fields.
Has(m, h, t, r, c, s, n, f) ==
  /\ m = Memory(h, t, r, c, s, n, f)
  /\ m.history = h /\ m.table = t /\ m.room = r /\ m.coarrays = c
  /\ m.shifts = s /\ m.shift = n /\ m.fatal = f

IsMemory(m) == Has(m, m.history, m.table, m.room, m.coarrays, m.shifts, m.shift, m.fatal)

\* The fields of a memory.
LEMMA MemoryHas ==
  ASSUME NEW h, NEW t, NEW r, NEW c, NEW s, NEW n, NEW f
  PROVE  Has(Memory(h, t, r, c, s, n, f), h, t, r, c, s, n, f)
  BY DEF Memory, Has

\* A memory is known by its fields.
LEMMA HasMemory ==
  ASSUME NEW h, NEW t, NEW r, NEW c, NEW s, NEW n, NEW f, NEW m, Has(m, h, t, r, c, s, n, f)
  PROVE  IsMemory(m)
<1>1. /\ m.history = h /\ m.table = t /\ m.room = r /\ m.coarrays = c
      /\ m.shifts = s /\ m.shift = n /\ m.fatal = f
  BY DEF Has
<1> QED
  BY <1>1 DEF IsMemory

\* The type of a memory.
LEMMA MemoryType ==
  /\ \A m \in MemType : IsMemory(m)
  /\ \A m : /\ IsMemory(m) /\ m.history \in Seq(ChunkType) /\ m.table \in Seq(Entries)
             /\ m.room \in Nat /\ m.coarrays \in Seq(Nat) /\ m.shifts \in Seq(Nat)
             /\ m.shift \in 0 .. HeapSize /\ m.fatal \in {"none", "heap", "pool"}
             => m \in MemType
<1>1. ASSUME NEW A, NEW B, NEW C, NEW D, NEW E, NEW F, NEW G,
             NEW m \in [history : A, table : B, room : C, coarrays : D, shifts : E, shift : F, fatal : G]
      PROVE  m = Memory(m.history, m.table, m.room, m.coarrays, m.shifts, m.shift, m.fatal)
  BY SMTT(20) DEF Memory
<1>2. ASSUME NEW h \in Seq(ChunkType), NEW t \in Seq(Entries), NEW r \in Nat,
             NEW c \in Seq(Nat), NEW s \in Seq(Nat), NEW n \in 0 .. HeapSize,
             NEW f \in {"none", "heap", "pool"}
      PROVE  Memory(h, t, r, c, s, n, f) \in MemType
  BY DEF Memory, MemType
<1>3. ASSUME NEW m \in MemType PROVE IsMemory(m)
  <2>1. m = Memory(m.history, m.table, m.room, m.coarrays, m.shifts, m.shift, m.fatal)
    BY <1>1 DEF MemType
  <2> QED
    BY <2>1 DEF IsMemory, Has
<1>4. ASSUME NEW m, IsMemory(m), m.history \in Seq(ChunkType), m.table \in Seq(Entries),
             m.room \in Nat, m.coarrays \in Seq(Nat), m.shifts \in Seq(Nat),
             m.shift \in 0 .. HeapSize, m.fatal \in {"none", "heap", "pool"}
      PROVE  m \in MemType
  <2>1. m = Memory(m.history, m.table, m.room, m.coarrays, m.shifts, m.shift, m.fatal)
    BY <1>4 DEF IsMemory, Has
  <2>2. Memory(m.history, m.table, m.room, m.coarrays, m.shifts, m.shift, m.fatal) \in MemType
    BY <1>2, <1>4
  <2> QED
    BY <2>1, <2>2
<1> QED
  BY <1>3, <1>4

\* A new history.
LEMMA HistorySet ==
  ASSUME NEW m, IsMemory(m), NEW u
  PROVE  Has([m EXCEPT !.history = u],
             u, m.table, m.room, m.coarrays, m.shifts, m.shift, m.fatal)
<1>1. PICK h, t, r, c, s, n, f : m = Memory(h, t, r, c, s, n, f) /\ Has(m, h, t, r, c, s, n, f)
  BY DEF IsMemory, Has
<1>2. [Memory(h, t, r, c, s, n, f) EXCEPT !.history = u] = Memory(u, t, r, c, s, n, f)
  BY SMTT(20) DEF Memory
<1>3. [m EXCEPT !.history = u] = Memory(u, t, r, c, s, n, f)
  BY <1>1, <1>2
<1>4. m.table = t /\ m.room = r /\ m.coarrays = c /\ m.shifts = s /\ m.shift = n /\ m.fatal = f
  BY <1>1 DEF Has
<1>5. Has(Memory(u, t, r, c, s, n, f), u, t, r, c, s, n, f)
  BY MemoryHas
<1> QED
  BY <1>3, <1>4, <1>5

\* A fatal error.
LEMMA FatalSet ==
  ASSUME NEW m, IsMemory(m), NEW u
  PROVE  Has([m EXCEPT !.fatal = u],
             m.history, m.table, m.room, m.coarrays, m.shifts, m.shift, u)
<1>1. PICK h, t, r, c, s, n, f : m = Memory(h, t, r, c, s, n, f) /\ Has(m, h, t, r, c, s, n, f)
  BY DEF IsMemory, Has
<1>2. [Memory(h, t, r, c, s, n, f) EXCEPT !.fatal = u] = Memory(h, t, r, c, s, n, u)
  BY SMTT(20) DEF Memory
<1>3. [m EXCEPT !.fatal = u] = Memory(h, t, r, c, s, n, u)
  BY <1>1, <1>2
<1>4. m.history = h /\ m.table = t /\ m.room = r /\ m.coarrays = c /\ m.shifts = s /\ m.shift = n
  BY <1>1 DEF Has
<1>5. Has(Memory(h, t, r, c, s, n, u), h, t, r, c, s, n, u)
  BY MemoryHas
<1> QED
  BY <1>3, <1>4, <1>5

\* A new table.
LEMMA TableSet ==
  ASSUME NEW m, IsMemory(m), NEW u, NEW v
  PROVE  Has([m EXCEPT !.room = u, !.table = v],
             m.history, v, u, m.coarrays, m.shifts, m.shift, m.fatal)
<1>1. PICK h, t, r, c, s, n, f : m = Memory(h, t, r, c, s, n, f) /\ Has(m, h, t, r, c, s, n, f)
  BY DEF IsMemory, Has
<1>2. [Memory(h, t, r, c, s, n, f) EXCEPT !.room = u] = Memory(h, t, u, c, s, n, f)
  BY SMTT(20) DEF Memory
<1>3. [Memory(h, t, u, c, s, n, f) EXCEPT !.table = v] = Memory(h, v, u, c, s, n, f)
  BY SMTT(20) DEF Memory
<1>4. [m EXCEPT !.room = u, !.table = v] =
        [[m EXCEPT !.room = u] EXCEPT !.table = v]
  BY SMTT(20)
<1>5. [m EXCEPT !.room = u, !.table = v] = Memory(h, v, u, c, s, n, f)
  BY <1>1, <1>2, <1>3, <1>4
<1>6. m.history = h /\ m.coarrays = c /\ m.shifts = s /\ m.shift = n /\ m.fatal = f
  BY <1>1 DEF Has
<1>7. Has(Memory(h, v, u, c, s, n, f), h, v, u, c, s, n, f)
  BY MemoryHas
<1> QED
  BY <1>5, <1>6, <1>7

\* A new stack of the lower layer.
LEMMA LowerSet ==
  ASSUME NEW m, IsMemory(m), NEW u, NEW v, NEW w
  PROVE  Has([m EXCEPT !.shift = u, !.shifts = v, !.coarrays = w],
             m.history, m.table, m.room, w, v, u, m.fatal)
<1>1. PICK h, t, r, c, s, n, f : m = Memory(h, t, r, c, s, n, f) /\ Has(m, h, t, r, c, s, n, f)
  BY DEF IsMemory, Has
<1>2. [Memory(h, t, r, c, s, n, f) EXCEPT !.shift = u] = Memory(h, t, r, c, s, u, f)
  BY SMTT(20) DEF Memory
<1>3. [Memory(h, t, r, c, s, u, f) EXCEPT !.shifts = v] = Memory(h, t, r, c, v, u, f)
  BY SMTT(20) DEF Memory
<1>4. [Memory(h, t, r, c, v, u, f) EXCEPT !.coarrays = w] = Memory(h, t, r, w, v, u, f)
  BY SMTT(20) DEF Memory
<1>5. [m EXCEPT !.shift = u, !.shifts = v, !.coarrays = w] =
        [[[m EXCEPT !.shift = u] EXCEPT !.shifts = v] EXCEPT !.coarrays = w]
  BY SMTT(20)
<1>6. [m EXCEPT !.shift = u, !.shifts = v, !.coarrays = w] = Memory(h, t, r, w, v, u, f)
  BY <1>1, <1>2, <1>3, <1>4, <1>5
<1>7. m.history = h /\ m.table = t /\ m.room = r /\ m.fatal = f
  BY <1>1 DEF Has
<1>8. Has(Memory(h, t, r, w, v, u, f), h, t, r, w, v, u, f)
  BY MemoryHas
<1> QED
  BY <1>6, <1>7, <1>8

NewChunk(m, nbytes, parent, info) ==
  [org |-> HeapStart + m.shift, nbytes |-> nbytes, isGarbage |-> FALSE,
   parent |-> parent, infos |-> {info}]

\* Rounding up.
LEMMA RoundedUp ==
  ASSUME NEW n \in Nat, NEW p \in Nat \ {0}
  PROVE  /\ RoundUp(n, p) \in Nat /\ n <= RoundUp(n, p)
         /\ \E k \in Nat : RoundUp(n, p) = k * p /\ (k - 1) * p < n
<1>1. PICK a \in Nat : a = n + p - 1
  BY SMTT(20)
<1>2. PICK q \in Nat, b \in 0 .. p-1 : q = a \div p /\ a = p * q + b
  <2>1. a \div p \in Nat /\ a % p \in 0 .. p-1 /\ a = p * (a \div p) + (a % p)
    BY SMTT(20)
  <2> QED
    BY <2>1
<1>3. RoundUp(n, p) = q * p
  BY <1>1, <1>2 DEF RoundUp
<1>4. PICK z \in Int : z = p * q
  BY SMTT(20)
<1>5. q * p = z /\ (q - 1) * p = z - p
  BY <1>4, SMTT(20)
<1>6. z \in Nat /\ n <= z /\ z - p < n
  BY <1>1, <1>2, <1>4, SMTT(20)
<1> QED
  BY <1>3, <1>5, <1>6

\* The length of a sequence.
LEMMA Counted == ASSUME NEW S, NEW q \in Seq(S) PROVE Len(q) \in Nat
  BY SMTT(20)

\* What _constructMemoryChunk leaves if the heap has room and the address is not booked.
LEMMA ConstructFields ==
  ASSUME NEW m, IsMemory(m), m.fatal = "none", NEW nbytes, NEW parent, NEW info,
         NEW step, step = RoundUp(nbytes, Alignment), ~(m.shift + step > HeapSize),
         NEW key, key = HeapStart + m.shift, ~Search(m.table, key).found,
         NEW x, x = Search(m.table, key).idx,
         NEW chunk, chunk = NewChunk(m, nbytes, parent, info),
         NEW room, room = IF Len(m.table) = m.room THEN 2 * m.room ELSE m.room,
         NEW e, e = [org |-> key, nbytes |-> nbytes]
  PROVE  Has(Construct(m, nbytes, parent, info), Append(m.history, chunk), Shifted(m.table, x + 2, e),
             room, Append(m.coarrays, key), Append(m.shifts, step), m.shift + step, "none")
<1>2. chunk.org = key /\ chunk.nbytes = nbytes
  BY DEF NewChunk
<1>3. PICK low : low = CoarrayMalloc(m, nbytes)
  OBVIOUS
<1>4. low = [m EXCEPT !.shift = m.shift + step, !.shifts = Append(m.shifts, step),
                      !.coarrays = Append(m.coarrays, key)]
  BY <1>3 DEF CoarrayMalloc
<1>5. Has(low, m.history, m.table, m.room, Append(m.coarrays, key), Append(m.shifts, step),
          m.shift + step, m.fatal)
  BY <1>4, LowerSet
<1>6. IsMemory(low)
  BY <1>5, HasMemory
<1>7. /\ low.history = m.history /\ low.table = m.table /\ low.room = m.room
      /\ low.coarrays = Append(m.coarrays, key) /\ low.shifts = Append(m.shifts, step)
      /\ low.shift = m.shift + step /\ low.fatal = "none"
  BY <1>5 DEF Has
<1>8. PICK m1 : m1 = [low EXCEPT !.history = Append(low.history, chunk)]
  OBVIOUS
<1>9. Has(m1, Append(low.history, chunk), low.table, low.room, low.coarrays, low.shifts, low.shift, low.fatal)
  BY <1>6, <1>8, HistorySet
<1>10. IsMemory(m1)
  BY <1>9, HasMemory
<1>11. /\ m1.history = Append(m.history, chunk) /\ m1.table = m.table /\ m1.room = m.room
       /\ m1.coarrays = Append(m.coarrays, key) /\ m1.shifts = Append(m.shifts, step)
       /\ m1.shift = m.shift + step /\ m1.fatal = "none"
  BY <1>7, <1>9 DEF Has
<1>12. Construct(m, nbytes, parent, info) = AddInTable(m1, chunk)
  BY <1>3, <1>7, <1>8 DEF Construct, NewChunk
<1>13. AddInTable(m1, chunk) = Book(m1, chunk, room)
  BY <1>11 DEF AddInTable
<1>14. Book(m1, chunk, room) = [m1 EXCEPT !.room = room, !.table = Shifted(m1.table, x + 2, e)]
  BY <1>2, <1>11 DEF Book
<1>15. Has(Book(m1, chunk, room), m1.history, Shifted(m1.table, x + 2, e), room, m1.coarrays,
           m1.shifts, m1.shift, m1.fatal)
  <2>1. Has([m1 EXCEPT !.room = room, !.table = Shifted(m1.table, x + 2, e)],
            m1.history, Shifted(m1.table, x + 2, e), room, m1.coarrays, m1.shifts, m1.shift, m1.fatal)
    BY <1>10, TableSet
  <2> QED
    BY <1>14, <2>1
<1> QED
  BY <1>11, <1>12, <1>13, <1>15

IsConstructed(m2, m, nbytes, parent, info) ==
  \/ m2 = Fail(m, "heap")
  \/ /\ MemOK(m2) /\ m2.fatal = "none"
     /\ m2.history = Append(m.history, NewChunk(m, nbytes, parent, info))

\* _constructMemoryChunk stops the program for want of memory, or adds the chunk.
LEMMA ConstructOK ==
  ASSUME NEW m, MemOK(m), m.fatal = "none", NEW nbytes \in Nat \ {0},
         NEW parent \in 0 .. MaxDepth, NEW info \in Descriptors,
         NEW m2, m2 = Construct(m, nbytes, parent, info)
  PROVE  IsConstructed(m2, m, nbytes, parent, info)
<1>1. PICK step \in Nat : step = RoundUp(nbytes, Alignment) /\ nbytes <= step
  <2>1. nbytes \in Nat /\ Alignment \in Nat \ {0}
    BY SizeAssumption
  <2> QED
    BY <2>1, RoundedUp
<1>2. CASE m.shift + step > HeapSize
  <2>1. CoarrayMalloc(m, nbytes) = Fail(m, "heap")
    BY <1>1, <1>2 DEF CoarrayMalloc
  <2>2. IsMemory(m)
    BY MemoryType DEF MemOK
  <2>3. Fail(m, "heap").fatal = "heap"
    <3>1. PICK f : f = [m EXCEPT !.fatal = "heap"]
      OBVIOUS
    <3>2. Has(f, m.history, m.table, m.room, m.coarrays, m.shifts, m.shift, "heap")
      BY <2>2, <3>1, FatalSet
    <3>3. f.fatal = "heap"
      BY <3>2 DEF Has
    <3> QED
      BY <3>1, <3>3 DEF Fail
  <2>4. "heap" # "none"
    OBVIOUS
  <2> QED
    BY <2>1, <2>3, <2>4 DEF Construct, IsConstructed
<1>3. CASE ~(m.shift + step > HeapSize)
  <2>1. /\ m \in MemType /\ m.history \in Seq(ChunkType) /\ m.table \in Seq(Entries) /\ m.room \in Nat
        /\ m.coarrays \in Seq(Nat) /\ m.shifts \in Seq(Nat) /\ m.shift \in 0 .. HeapSize
    BY DEF MemOK, MemType
  <2>2. StackOK(m.history, m.coarrays, m.shifts, m.shift) /\ TableOK(m.table, m.room, m.history)
    BY DEF MemOK
  <2>3. PICK x \in 0 .. Len(m.table) - 2 :
          /\ m.table[x + 1].org < HeapStart + m.shift /\ HeapStart + m.shift < m.table[x + 2].org
          /\ Search(m.table, HeapStart + m.shift).idx = x
          /\ ~Search(m.table, HeapStart + m.shift).found
    BY <2>1, <2>2, TableFresh
  <2>4. PICK c : c = NewChunk(m, nbytes, parent, info)
    OBVIOUS
  <2>5. PICK key \in Nat : key = HeapStart + m.shift
    BY <2>1, SizeAssumption, SMTT(20) DEF HeapStart
  <2>6. c.org = key /\ c.nbytes = nbytes /\ c.isGarbage = FALSE
    BY <2>4, <2>5 DEF NewChunk
  <2>7. c \in ChunkType
    <3>1. {info} \in SUBSET Descriptors
      OBVIOUS
    <3>2. c = [org |-> key, nbytes |-> nbytes, isGarbage |-> FALSE, parent |-> parent, infos |-> {info}]
      BY <2>4, <2>5 DEF NewChunk
    <3> QED
      BY <3>1, <3>2 DEF ChunkType
  <2>8. PICK e : e = [org |-> key, nbytes |-> nbytes]
    OBVIOUS
  <2>9. e \in Entries /\ Same(e, c)
    BY <2>6, <2>8 DEF Entries, Same
  <2>10. PICK t \in Nat : t = Len(m.table) /\ t >= 2 /\ t <= m.room
    BY <2>1, <2>2, Counted DEF TableOK
  <2>11. PICK room \in Nat : room = (IF Len(m.table) = m.room THEN 2 * m.room ELSE m.room) /\ t + 1 <= room
    <3>1. PICK y \in Nat : y = m.room /\ t <= y
      BY <2>1, <2>10
    <3>2. (IF t = y THEN 2 * y ELSE y) \in Nat /\ t + 1 <= (IF t = y THEN 2 * y ELSE y)
      BY <2>10, <3>1, SMTT(20)
    <3> QED
      BY <2>10, <3>1, <3>2
  <2>12. /\ Shifted(m.table, x + 2, e) \in Seq(Entries)
         /\ TableOK(Shifted(m.table, x + 2, e), room, Append(m.history, c))
    <3>1. /\ m.table[x + 1].org < c.org /\ c.org < m.table[x + 2].org /\ ~c.isGarbage
          /\ Len(m.table) + 1 <= room
      BY <2>3, <2>5, <2>6, <2>10, <2>11
    <3> QED
      BY <2>1, <2>2, <2>3, <2>7, <2>9, <2>11, <3>1, TableAdd
  <2>13. m.shift + step \in 0 .. HeapSize /\ m.shift \in Nat
    <3>1. PICK y \in 0 .. HeapSize : y = m.shift /\ ~(y + step > HeapSize)
      BY <1>3, <2>1
    <3>2. HeapSize \in Nat
      BY SizeAssumption
    <3>3. y + step \in 0 .. HeapSize /\ y \in Nat
      BY <1>1, <3>1, <3>2, SMTT(20)
    <3> QED
      BY <3>1, <3>3
  <2>14. StackOK(Append(m.history, c), Append(m.coarrays, c.org), Append(m.shifts, step), m.shift + step)
    <3>1. c.org = HeapStart + m.shift /\ c.nbytes <= step
      BY <1>1, <2>5, <2>6
    <3> QED
      BY <1>1, <2>1, <2>2, <2>7, <2>13, <3>1, StackAppend
  <2>15. Has(m2, Append(m.history, c), Shifted(m.table, x + 2, e), room, Append(m.coarrays, key),
             Append(m.shifts, step), m.shift + step, "none")
    <3>1. IsMemory(m)
      BY <2>1, MemoryType
    <3>2. ~Search(m.table, key).found /\ x = Search(m.table, key).idx
      BY <2>3, <2>5
    <3> QED
      BY <1>1, <1>3, <2>4, <2>5, <2>8, <2>11, <3>1, <3>2, ConstructFields
  <2>16. /\ Append(m.history, c) \in Seq(ChunkType) /\ Append(m.coarrays, c.org) \in Seq(Nat)
         /\ Append(m.shifts, step) \in Seq(Nat)
    <3>1. c.org \in Nat
      BY <2>5, <2>6
    <3> QED
      BY <1>1, <2>1, <2>7, <3>1, Appended
  <2>17. /\ m2.history = Append(m.history, c) /\ m2.table = Shifted(m.table, x + 2, e)
         /\ m2.room = room /\ m2.coarrays = Append(m.coarrays, c.org)
         /\ m2.shifts = Append(m.shifts, step) /\ m2.shift = m.shift + step /\ m2.fatal = "none"
    BY <2>6, <2>15 DEF Has
  <2>18. m2 \in MemType
    <3>1. IsMemory(m2) /\ "none" \in {"none", "heap", "pool"}
      BY <2>15, HasMemory
    <3> QED
      BY <2>11, <2>12, <2>13, <2>16, <2>17, <3>1, MemoryType
  <2>19. MemOK(m2)
    BY <2>12, <2>14, <2>17, <2>18 DEF MemOK
  <2> QED
    BY <2>4, <2>17, <2>19 DEF IsConstructed
<1> QED
  BY <1>2, <1>3
----------------------------------------------------------------------------
(* A chunk is changed in place, or unlinked *)

IsReplaced(f, q, i, x) ==
  /\ f \in Seq(ChunkType) /\ Len(f) = Len(q) /\ f[i] = x
  /\ \A j \in 1 .. Len(q) : j # i => f[j] = q[j]

\* Another chunk at one place of a history.
LEMMA Replaced ==
  ASSUME NEW q \in Seq(ChunkType), NEW i \in 1 .. Len(q), NEW x \in ChunkType
  PROVE  IsReplaced([q EXCEPT ![i] = x], q, i, x)
  BY SMTT(20) DEF IsReplaced

Chunk(n, s, g, p, f) == [org |-> n, nbytes |-> s, isGarbage |-> g, parent |-> p, infos |-> f]

Changed(c, u, v, w) == [c EXCEPT !.isGarbage = u, !.parent = v, !.infos = w]

\* What is left of a chunk that is unlinked.
Unlinked(c) == Changed(c, TRUE, 0, {})

Changes(c, d, u, v, w) == Changed(c, u, v, w) = d

\* Three fields of a chunk are set.
LEMMA ChangedChunk ==
  ASSUME NEW n, NEW s, NEW g, NEW p, NEW f, NEW u, NEW v, NEW w
  PROVE  Changes(Chunk(n, s, g, p, f), Chunk(n, s, u, v, w), u, v, w)
<1>1. ASSUME NEW d
      PROVE  Changed(d, u, v, w) =
             [[[d EXCEPT !.isGarbage = u] EXCEPT !.parent = v] EXCEPT !.infos = w]
  BY SMTT(20) DEF Changed
<1>2. [Chunk(n, s, g, p, f) EXCEPT !.isGarbage = u] = Chunk(n, s, u, p, f)
  BY SMTT(20) DEF Chunk
<1>3. [Chunk(n, s, u, p, f) EXCEPT !.parent = v] = Chunk(n, s, u, v, f)
  BY SMTT(20) DEF Chunk
<1>4. [Chunk(n, s, u, v, f) EXCEPT !.infos = w] = Chunk(n, s, u, v, w)
  BY SMTT(20) DEF Chunk
<1>5. PICK d : d = Chunk(n, s, g, p, f)
  OBVIOUS
<1>6. [d EXCEPT !.isGarbage = u] = Chunk(n, s, u, p, f)
  BY <1>2, <1>5
<1>7. Changed(d, u, v, w) = [[[d EXCEPT !.isGarbage = u] EXCEPT !.parent = v] EXCEPT !.infos = w]
  BY <1>1
<1>8. Changed(d, u, v, w) = [[Chunk(n, s, u, p, f) EXCEPT !.parent = v] EXCEPT !.infos = w]
  BY <1>6, <1>7
<1>9. Changed(d, u, v, w) = [Chunk(n, s, u, v, f) EXCEPT !.infos = w]
  BY <1>3, <1>8
<1> QED
  BY <1>4, <1>5, <1>9 DEF Changes

\* A chunk is known by its fields.
IsChunk(c) == c = Chunk(c.org, c.nbytes, c.isGarbage, c.parent, c.infos)

\* So is every element of the type.
LEMMA ChunkIs ==
  ASSUME NEW c \in ChunkType
  PROVE  IsChunk(c) /\ c.org \in Nat /\ c.nbytes \in Nat \ {0}
  BY SMTT(20) DEF IsChunk, Chunk, ChunkType

\* Their values in a chunk that is unlinked.
LEMMA UnlinkedChunk ==
  ASSUME NEW c \in ChunkType
  PROVE  /\ Unlinked(c) \in ChunkType /\ Same(Unlinked(c), c)
         /\ Unlinked(c).isGarbage /\ Unlinked(c).parent = 0 /\ Unlinked(c).infos = {}
<1>1. 0 \in 0 .. MaxDepth
  BY SizeAssumption, SMTT(20)
<1>2. IsChunk(c) /\ c.org \in Nat /\ c.nbytes \in Nat \ {0}
  BY ChunkIs
<1>3. PICK n, s, g, p, f : /\ n \in Nat /\ s \in Nat \ {0} /\ c = Chunk(n, s, g, p, f)
                          /\ c.org = n /\ c.nbytes = s
  BY <1>2 DEF IsChunk
<1>4. Unlinked(c) = Chunk(n, s, TRUE, 0, {})
  <2>1. Changes(Chunk(n, s, g, p, f), Chunk(n, s, TRUE, 0, {}), TRUE, 0, {})
    BY ChangedChunk
  <2> QED
    BY <1>3, <2>1 DEF Unlinked, Changes
<1>5. Chunk(n, s, TRUE, 0, {}) \in ChunkType
  BY <1>1, <1>3 DEF Chunk, ChunkType
<1>6. PICK u : u = Chunk(n, s, TRUE, 0, {})
  OBVIOUS
<1>7. u.org = n /\ u.nbytes = s /\ u.isGarbage /\ u.parent = 0 /\ u.infos = {}
  BY <1>6 DEF Chunk
<1>8. u = Unlinked(c)
  BY <1>4, <1>6
<1> QED
  BY <1>3, <1>5, <1>6, <1>7, <1>8 DEF Same

\* The descriptors of a chunk change.
LEMMA InfosChunk ==
  ASSUME NEW c \in ChunkType, NEW x \in SUBSET Descriptors
  PROVE  /\ [c EXCEPT !.infos = x] \in ChunkType /\ Same([c EXCEPT !.infos = x], c)
         /\ [c EXCEPT !.infos = x].isGarbage = c.isGarbage
         /\ [c EXCEPT !.infos = x].parent = c.parent /\ [c EXCEPT !.infos = x].infos = x
<1>1. ASSUME NEW I, NEW J, NEW d \in [org : Nat, nbytes : Nat \ {0}, isGarbage : BOOLEAN, parent : J,
                       infos : SUBSET I], NEW y \in SUBSET I
      PROVE  LET u == [d EXCEPT !.infos = y] IN
             /\ u \in [org : Nat, nbytes : Nat \ {0}, isGarbage : BOOLEAN, parent : J, infos : SUBSET I]
             /\ u.org = d.org /\ u.nbytes = d.nbytes /\ u.isGarbage = d.isGarbage
             /\ u.parent = d.parent /\ u.infos = y
  BY SMTT(20)
<1> QED
  BY <1>1 DEF ChunkType, Same

\* An address is that of one chunk.
LEMMA ChunkFound ==
  ASSUME NEW m, MemOK(m), NEW i \in 1 .. Len(m.history)
  PROVE  ChunkAt(m, m.history[i].org) = i
<1>1. /\ m.history \in Seq(ChunkType) /\ m.coarrays \in Seq(Nat) /\ m.shifts \in Seq(Nat)
      /\ m.shift \in 0 .. HeapSize
  BY DEF MemOK, MemType
<1>2. m.shift \in Nat
  BY <1>1, SizeAssumption, SMTT(20)
<1>3. \A j \in 1 .. Len(m.history) : m.history[j].org = m.history[i].org => j = i
  BY <1>1, <1>2, Apart DEF MemOK
<1>4. DOMAIN m.history = 1 .. Len(m.history)
  BY <1>1, SMTT(20)
<1> QED
  BY <1>3, <1>4 DEF ChunkAt

IsPlaced(m2, m, i, c) ==
  /\ MemOK(m2) /\ m2.fatal = m.fatal
  /\ m2.history = [m.history EXCEPT ![i] = c]

\* A chunk may change as long as it keeps its place.
LEMMA HistoryOK ==
  ASSUME NEW m, MemOK(m), NEW i \in 1 .. Len(m.history), NEW c \in ChunkType,
         Same(c, m.history[i]), c.isGarbage = m.history[i].isGarbage,
         NEW m2, m2 = [m EXCEPT !.history = [m.history EXCEPT ![i] = c]]
  PROVE  IsPlaced(m2, m, i, c)
<1> DEFINE h2 == [m.history EXCEPT ![i] = c]
<1>1. /\ m.history \in Seq(ChunkType) /\ m.table \in Seq(Entries) /\ m.room \in Nat
      /\ m.coarrays \in Seq(Nat) /\ m.shifts \in Seq(Nat) /\ m.shift \in 0 .. HeapSize
      /\ m.fatal \in {"none", "heap", "pool"}
  BY DEF MemOK, MemType
<1>2. PICK n \in Nat : n = Len(m.history)
  BY <1>1, Counted
<1>3. /\ h2 \in Seq(ChunkType) /\ Len(h2) = n /\ h2[i] = c
      /\ \A j \in 1 .. n : j # i => h2[j] = m.history[j]
  <2>1. IsReplaced(h2, m.history, i, c)
    BY <1>1, Replaced
  <2> QED
    BY <1>2, <2>1 DEF IsReplaced
<1>4. Has(m2, h2, m.table, m.room, m.coarrays, m.shifts, m.shift, m.fatal)
  <2>1. IsMemory(m)
    BY MemoryType DEF MemOK
  <2> QED
    BY <2>1, HistorySet
<1>5. /\ m2.history = h2 /\ m2.table = m.table /\ m2.room = m.room /\ m2.coarrays = m.coarrays
      /\ m2.shifts = m.shifts /\ m2.shift = m.shift /\ m2.fatal = m.fatal
  BY <1>4 DEF Has
<1>6. m2 \in MemType
  <2>1. IsMemory(m2)
    BY <1>4, HasMemory
  <2> HIDE DEF h2
  <2> QED
    BY <1>1, <1>3, <1>5, <2>1, MemoryType
<1> HIDE DEF h2
<1>7. \A j \in 1 .. n : /\ h2[j].org = m.history[j].org /\ h2[j].nbytes = m.history[j].nbytes
                        /\ h2[j].isGarbage = m.history[j].isGarbage
  BY <1>3 DEF Same
<1>8. StackOK(h2, m.coarrays, m.shifts, m.shift)
  <2>1. /\ StackOK(m.history, m.coarrays, m.shifts, m.shift) /\ Len(m.history) \in Nat
        /\ Len(h2) = Len(m.history)
        /\ \A j \in 1 .. Len(m.history) :
             h2[j].org = m.history[j].org /\ h2[j].nbytes = m.history[j].nbytes
    BY <1>2, <1>3, <1>7 DEF MemOK
  <2> QED
    BY <2>1, StackLike
<1>9. TableOK(m.table, m.room, h2)
  <2>1. n <= n /\ \A j \in n+1 .. n : m.history[j].isGarbage
    BY <1>2, SMTT(20)
  <2> QED
    BY <1>2, <1>3, <1>7, <2>1, TableLike DEF MemOK
<1> QED
  BY <1>5, <1>6, <1>8, <1>9 DEF MemOK, IsPlaced, h2

IsUnlinked(m2, m, i) ==
  /\ MemOK(m2) /\ m2.fatal = "none"
  /\ m2.history = [m.history EXCEPT ![i] = Unlinked(m.history[i])]

\* _unlinkMemoryChunk finds a chunk that is not garbage in the table and takes it
\* out, whatever the state of the table.
LEMMA UnlinkOK ==
  ASSUME NEW m, MemOK(m), m.fatal = "none", NEW i \in 1 .. Len(m.history), ~m.history[i].isGarbage,
         NEW m2, m2 = UnlinkChunk(m, m.history[i].org)
  PROVE  IsUnlinked(m2, m, i)
<1> DEFINE org == m.history[i].org
           h2 == [m.history EXCEPT ![i] = Unlinked(m.history[i])]
<1>1. /\ m.history \in Seq(ChunkType) /\ m.table \in Seq(Entries) /\ m.room \in Nat
      /\ m.coarrays \in Seq(Nat) /\ m.shifts \in Seq(Nat) /\ m.shift \in 0 .. HeapSize
      /\ IsMemory(m)
  BY MemoryType DEF MemOK, MemType
<1>2. PICK n \in Nat : n = Len(m.history)
  BY <1>1, Counted
<1>3. /\ m.history[i] \in ChunkType /\ org \in Nat /\ m.history[i].nbytes \in Nat /\ m.history[i].nbytes > 0
  <2>1. Len(m.shifts) = Len(m.history)
    BY DEF MemOK, StackOK
  <2> QED
    BY <1>1, <2>1, Numbers
<1>4. /\ h2 \in Seq(ChunkType) /\ Len(h2) = n /\ h2[i] = Unlinked(m.history[i])
      /\ \A j \in 1 .. n : j # i => h2[j] = m.history[j]
  <2>1. Unlinked(m.history[i]) \in ChunkType
    BY <1>3, UnlinkedChunk
  <2>2. IsReplaced(h2, m.history, i, Unlinked(m.history[i]))
    BY <1>1, <2>1, Replaced
  <2> QED
    BY <1>2, <2>2 DEF IsReplaced
<1>5. PICK m1 : m1 = UnlinkChunkBooked(m, org)
  OBVIOUS
<1>6. m1 = [m EXCEPT !.history = h2]
  <2>1. ChunkAt(m, org) = i
    BY ChunkFound
  <2>2. m1 = [m EXCEPT !.history[i] = Unlinked(m.history[i])]
    BY <1>5, <2>1 DEF UnlinkChunkBooked, Unlinked, Changed
  <2>3. ASSUME NEW u PROVE [m EXCEPT !.history[i] = u] = [m EXCEPT !.history = [m.history EXCEPT ![i] = u]]
    BY SMTT(20)
  <2> QED
    BY <2>2, <2>3
<1>7. Has(m1, h2, m.table, m.room, m.coarrays, m.shifts, m.shift, m.fatal)
  BY <1>1, <1>6, HistorySet
<1>8. /\ m1.history = h2 /\ m1.table = m.table /\ m1.room = m.room /\ m1.coarrays = m.coarrays
      /\ m1.shifts = m.shifts /\ m1.shift = m.shift /\ m1.fatal = "none"
  BY <1>7 DEF Has
<1>9. PICK x \in 1 .. Len(m.table) - 2 :
        /\ Same(m.table[x + 1], m.history[i])
        /\ Search(m.table, org).idx = x /\ Search(m.table, org).found
  <2>1. ASSUME NEW a \in Nat, NEW b \in Nat, b > 0 PROVE a <= a /\ a < a + b
    BY <2>1, SMTT(20)
  <2>2. org <= org /\ org < m.history[i].org + m.history[i].nbytes
    BY <1>3, <2>1
  <2> QED
    BY <1>1, <1>3, <2>2, TableBooked DEF MemOK
<1>10. PICK t \in Nat : t = Len(m.table) /\ t <= m.room
  BY <1>1, Counted DEF MemOK, TableOK
<1>11. PICK room \in Nat : /\ room = (IF Len(m.table) * 4 <= m.room /\ m.room > TableInitSize
                                      THEN m.room \div 2 ELSE m.room)
                           /\ t - 1 <= room
  <2>1. PICK y \in Nat : y = m.room /\ t <= y
    BY <1>1, <1>10
  <2>2. ASSUME t * 4 <= y PROVE y \div 2 \in Nat /\ t - 1 <= y \div 2
    BY <1>10, <2>1, <2>2, SMTT(20)
  <2>3. t - 1 <= y
    BY <1>10, <2>1, SMTT(20)
  <2> QED
    BY <1>10, <2>1, <2>2, <2>3
<1> HIDE DEF h2
<1>12. m2 = [m1 EXCEPT !.room = room, !.table = Overwritten(m1.table, x + 1)]
  BY <1>5, <1>8, <1>9, <1>11 DEF UnlinkChunk, DelInTable
<1>13. Has(m2, m1.history, Overwritten(m1.table, x + 1), room, m1.coarrays, m1.shifts, m1.shift, m1.fatal)
  <2>1. IsMemory(m1)
    BY <1>7, HasMemory
  <2>2. Has([m1 EXCEPT !.room = room, !.table = Overwritten(m1.table, x + 1)],
            m1.history, Overwritten(m1.table, x + 1), room, m1.coarrays, m1.shifts, m1.shift, m1.fatal)
    BY <2>1, TableSet
  <2> QED
    BY <1>12, <2>2
<1>14. /\ m2.history = h2 /\ m2.table = Overwritten(m.table, x + 1) /\ m2.room = room
       /\ m2.coarrays = m.coarrays /\ m2.shifts = m.shifts /\ m2.shift = m.shift /\ m2.fatal = "none"
  BY <1>8, <1>13 DEF Has
<1>15. \A j \in 1 .. n : h2[j].org = m.history[j].org /\ h2[j].nbytes = m.history[j].nbytes
  <2>1. h2[i].org = m.history[i].org /\ h2[i].nbytes = m.history[i].nbytes
    BY <1>3, <1>4, UnlinkedChunk DEF Same
  <2> QED
    BY <1>4, <2>1
<1>16. StackOK(h2, m.coarrays, m.shifts, m.shift)
  BY <1>2, <1>4, <1>15, StackLike DEF MemOK
<1>17. Overwritten(m.table, x + 1) \in Seq(Entries) /\ TableOK(Overwritten(m.table, x + 1), room, h2)
  <2>1. \A j \in 1 .. Len(m.history) : m.history[i].org = m.history[j].org => i = j
    <3>1. m.shift \in Nat
      BY <1>1, SizeAssumption, SMTT(20)
    <3> QED
      BY <1>1, <3>1, Apart DEF MemOK
  <2>2. h2[i].isGarbage /\ \A j \in 1 .. n : j # i => h2[j].isGarbage = m.history[j].isGarbage
    BY <1>3, <1>4, UnlinkedChunk
  <2>3. TableOK(m.table, m.room, m.history) /\ Len(m.table) - 1 <= room
    BY <1>10, <1>11 DEF MemOK
  <2>4. /\ Len(h2) = Len(m.history) /\ h2[i].isGarbage
        /\ \A j \in 1 .. Len(m.history) : j # i => h2[j].isGarbage = m.history[j].isGarbage
    BY <1>2, <1>4, <2>2
  <2>5. \A j \in 1 .. Len(m.history) : h2[j].org = m.history[j].org /\ h2[j].nbytes = m.history[j].nbytes
    BY <1>2, <1>15
  <2> QED
    BY <1>1, <1>9, <2>1, <2>3, <2>4, <2>5, TableDel, ZenonT(40)
<1>18. m2 \in MemType
  <2>1. IsMemory(m2) /\ "none" \in {"none", "heap", "pool"}
    BY <1>13, HasMemory
  <2> QED
    BY <1>1, <1>4, <1>11, <1>14, <1>17, <2>1, MemoryType
<1> QED
  BY <1>14, <1>16, <1>17, <1>18 DEF MemOK, IsUnlinked, h2

----------------------------------------------------------------------------
(* The chunks of a resource set are unlinked *)

Turn(m, mine, x, i) == IF i \in mine THEN UnlinkChunk(x, m.history[i].org) ELSE x

\* f is the state of the memory after each turn.
Traverses(f, m, mine, S) == f = [i \in S |-> IF i = 0 THEN m ELSE Turn(m, mine, f[i - 1], i)]

\* The traversal of _freeResourceSet ends: the recursion has a solution.
LEMMA Traversal ==
  ASSUME NEW m, NEW l \in Nat, NEW S, S = 0 .. l, NEW mine
  PROVE  \E f : Traverses(f, m, mine, S)
<1> DEFINE Good(d, f) == /\ f = [i \in 0 .. l |-> f[i]]
                         /\ \A i \in 0 .. l : i <= d => f[i] = (IF i = 0 THEN m ELSE Turn(m, mine, f[i - 1], i))
           P == {d \in 0 .. l : \E f : Good(d, f)}
<1>1. 0 \in P
  <2>1. PICK f : f = [i \in 0 .. l |-> m]
    OBVIOUS
  <2>2. \A i \in 0 .. l : i <= 0 => i = 0
    BY SMTT(20)
  <2>3. Good(0, f)
    BY <2>1, <2>2
  <2>4. 0 \in 0 .. l
    BY SMTT(20)
  <2> HIDE DEF Good
  <2> QED
    BY <2>3, <2>4
<1>2. ASSUME NEW d \in 0 .. l-1, d \in P PROVE d + 1 \in P
  <2>1. PICK g : Good(d, g)
    BY <1>2
  <2>2. PICK f : f = [i \in 0 .. l |-> IF i = d + 1 THEN Turn(m, mine, g[d], d + 1) ELSE g[i]]
    OBVIOUS
  <2>3. f = [i \in 0 .. l |-> f[i]]
    BY <2>2
  <2>4. ASSUME NEW i \in 0 .. l, i <= d + 1 PROVE f[i] = (IF i = 0 THEN m ELSE Turn(m, mine, f[i - 1], i))
    <3>1. /\ i # 0 => i - 1 \in 0 .. l /\ i - 1 # d + 1
          /\ i # d + 1 => i <= d
          /\ i = d + 1 => i # 0 /\ i - 1 = d
      BY <2>4, SMTT(20)
    <3>2. i # 0 => f[i - 1] = g[i - 1]
      BY <2>2, <3>1
    <3>3. i = d + 1 => f[i] = Turn(m, mine, g[i - 1], i)
      BY <2>2, <3>1
    <3>4. i # d + 1 => f[i] = g[i]
      BY <2>2
    <3> QED
      BY <2>1, <3>1, <3>2, <3>3, <3>4
  <2>5. Good(d + 1, f)
    BY <2>3, <2>4
  <2>6. d + 1 \in 0 .. l
    BY SMTT(20)
  <2> HIDE DEF Good
  <2> QED
    BY <2>5, <2>6
<1>3. l \in P
  <2> HIDE DEF P
  <2>1. P \in SUBSET (0 .. l)
    BY DEF P
  <2>2. \A i \in 0 .. l : i \in P
    BY <1>1, <1>2, <2>1, Induct
  <2> QED
    BY <2>2, SMTT(20)
<1>4. PICK f : Good(l, f)
  BY <1>3
<1>5. \A i \in 0 .. l : i <= l
  BY SMTT(20)
<1>6. f = [i \in 0 .. l |-> IF i = 0 THEN m ELSE Turn(m, mine, f[i - 1], i)]
  BY <1>4, <1>5
<1> QED
  BY <1>6 DEF Traverses

\* x is m with the chunks of mine unlinked, up to the i-th.
UnlinkedUpTo(m, mine, i, x) ==
  /\ MemOK(x) /\ x.fatal = "none" /\ Len(x.history) = Len(m.history)
  /\ \A j \in 1 .. Len(m.history) :
       x.history[j] = IF j \in mine /\ j <= i THEN Unlinked(m.history[j]) ELSE m.history[j]

\* One turn.
LEMMA TurnOK ==
  ASSUME NEW m, MemOK(m), NEW mine, \A j \in mine : ~m.history[j].isGarbage,
         NEW d \in Nat, d + 1 \in 1 .. Len(m.history), NEW x, UnlinkedUpTo(m, mine, d, x)
  PROVE  UnlinkedUpTo(m, mine, d + 1, Turn(m, mine, x, d + 1))
<1>1. PICK l \in Nat : l = Len(m.history)
  BY Counted DEF MemOK, MemType
<1>2. /\ MemOK(x) /\ x.fatal = "none" /\ Len(x.history) = l
      /\ \A j \in 1 .. l :
           x.history[j] = IF j \in mine /\ j <= d THEN Unlinked(m.history[j]) ELSE m.history[j]
  BY <1>1 DEF UnlinkedUpTo
<1>3. PICK i \in 1 .. l : i = d + 1 /\ ~(i <= d)
  BY <1>1, SMTT(20)
<1>4. x.history[i] = m.history[i]
  BY <1>2, <1>3
<1>5. \A j \in 1 .. l : j # i => (j <= i <=> j <= d)
  BY <1>1, <1>3, SMTT(20)
<1>6. i <= i
  BY <1>3, SMTT(20)
<1>7. CASE i \in mine
  <2>1. PICK y : y = UnlinkChunk(x, x.history[i].org)
    OBVIOUS
  <2>2. y = Turn(m, mine, x, i)
    BY <1>4, <1>7, <2>1 DEF Turn
  <2>3. /\ MemOK(y) /\ y.fatal = "none"
        /\ y.history = [x.history EXCEPT ![i] = Unlinked(x.history[i])]
    <3>1. i \in 1 .. Len(x.history) /\ ~x.history[i].isGarbage
      BY <1>2, <1>3, <1>4, <1>7
    <3>2. IsUnlinked(y, x, i)
      BY <1>2, <2>1, <3>1, UnlinkOK
    <3> QED
      BY <3>2 DEF IsUnlinked
  <2>4. /\ Len(y.history) = l /\ y.history[i] = Unlinked(m.history[i])
        /\ \A j \in 1 .. l : j # i => y.history[j] = x.history[j]
    <3>1. x.history \in Seq(ChunkType) /\ i \in 1 .. Len(x.history)
      BY <1>2, <1>3 DEF MemOK, MemType
    <3>2. x.history[i] \in ChunkType
      BY <3>1, SMTT(20)
    <3>3. Unlinked(x.history[i]) \in ChunkType
      BY <3>2, UnlinkedChunk
    <3>4. IsReplaced(y.history, x.history, i, Unlinked(x.history[i]))
      BY <2>3, <3>1, <3>3, Replaced
    <3> QED
      BY <1>2, <1>4, <3>4 DEF IsReplaced
  <2>5. ASSUME NEW j \in 1 .. l
        PROVE  y.history[j] = IF j \in mine /\ j <= i THEN Unlinked(m.history[j]) ELSE m.history[j]
    <3>1. CASE j = i
      BY <1>6, <1>7, <2>4, <3>1
    <3>2. CASE j # i
      BY <1>2, <1>5, <2>4, <3>2
    <3> QED
      BY <3>1, <3>2
  <2> QED
    BY <1>1, <1>3, <2>2, <2>3, <2>4, <2>5 DEF UnlinkedUpTo
<1>8. CASE i \notin mine
  <2>1. x = Turn(m, mine, x, i)
    BY <1>8 DEF Turn
  <2>2. ASSUME NEW j \in 1 .. l
        PROVE  x.history[j] = IF j \in mine /\ j <= i THEN Unlinked(m.history[j]) ELSE m.history[j]
    BY <1>2, <1>5, <1>8
  <2> QED
    BY <1>1, <1>2, <1>3, <2>1, <2>2 DEF UnlinkedUpTo
<1> QED
  BY <1>7, <1>8

\* _freeResourceSet unlinks the chunks of the set and changes no other.
LEMMA UnlinkAllOK ==
  ASSUME NEW m, MemOK(m), m.fatal = "none", NEW mine \in SUBSET (1 .. Len(m.history)),
         \A j \in mine : ~m.history[j].isGarbage
  PROVE  UnlinkedUpTo(m, mine, Len(m.history), UnlinkAll(m, mine))
<1>1. PICK l \in Nat : l = Len(m.history)
  BY Counted DEF MemOK, MemType
<1> DEFINE upto == CHOOSE f : Traverses(f, m, mine, 0 .. Len(m.history))
<1>2. upto = [i \in 0 .. Len(m.history) |-> IF i = 0 THEN m ELSE Turn(m, mine, upto[i - 1], i)]
  <2>1. 0 .. Len(m.history) = 0 .. l
    BY <1>1
  <2>2. \E f : Traverses(f, m, mine, 0 .. Len(m.history))
    BY <2>1, Traversal
  <2>3. Traverses(upto, m, mine, 0 .. Len(m.history))
    BY <2>2
  <2> HIDE DEF upto
  <2> QED
    BY <2>3 DEF Traverses
<1>3. UnlinkAll(m, mine) = upto[Len(m.history)]
  BY DEF UnlinkAll, Turn, Traverses
<1> HIDE DEF upto
<1>a. \A i \in 0 .. l : upto[i] = IF i = 0 THEN m ELSE Turn(m, mine, upto[i - 1], i)
  <2>1. upto = [i \in 0 .. l |-> IF i = 0 THEN m ELSE Turn(m, mine, upto[i - 1], i)]
    BY <1>1, <1>2
  <2> QED
    BY <2>1
<1> DEFINE P == {i \in 0 .. l : UnlinkedUpTo(m, mine, i, upto[i])}
<1>4. 0 \in P
  <2>1. 0 \in 0 .. l /\ \A j \in 1 .. l : ~(j <= 0)
    BY <1>1, SMTT(20)
  <2>2. upto[0] = m
    BY <1>a, <2>1
  <2>3. UnlinkedUpTo(m, mine, 0, m)
    BY <1>1, <2>1 DEF UnlinkedUpTo
  <2> QED
    BY <2>1, <2>2, <2>3
<1>5. ASSUME NEW d \in 0 .. l-1, d \in P PROVE d + 1 \in P
  <2>1. d \in Nat /\ d + 1 \in 1 .. l /\ d + 1 \in 0 .. l /\ d + 1 # 0 /\ d + 1 - 1 = d
    BY <1>1, SMTT(20)
  <2>2. upto[d + 1] = Turn(m, mine, upto[d], d + 1)
    <3>1. PICK e \in 0 .. l : e = d + 1 /\ e # 0 /\ e - 1 = d
      BY <2>1, SMTT(20)
    <3>2. upto[e] = Turn(m, mine, upto[e - 1], e)
      BY <1>a, <3>1
    <3> QED
      BY <3>1, <3>2
  <2>3. UnlinkedUpTo(m, mine, d, upto[d]) /\ d + 1 \in 1 .. Len(m.history)
    BY <1>1, <1>5, <2>1
  <2>4. UnlinkedUpTo(m, mine, d + 1, Turn(m, mine, upto[d], d + 1))
    BY <2>1, <2>3, TurnOK
  <2> QED
    BY <2>1, <2>2, <2>4
<1>6. l \in P
  <2> HIDE DEF P
  <2>1. P \in SUBSET (0 .. l)
    BY DEF P
  <2>2. \A i \in 0 .. l : i \in P
    BY <1>1, <1>4, <1>5, <2>1, Induct
  <2> QED
    BY <1>1, <2>2, SMTT(20)
<1> QED
  BY <1>1, <1>3, <1>6

----------------------------------------------------------------------------
(* The newest chunks are returned to the lower layer *)

\* What the shift queue sums up to without its last k shifts.
Rest(m, k) == IF k = 0 THEN m.shift ELSE m.history[Len(m.history) - k + 1].org - HeapStart

\* f is the total of the shift queue after each chunk that is returned.
Returns(f, m, S) ==
  f = [k \in S |-> IF k = 0 THEN m.shift ELSE f[k - 1] - m.shifts[Len(m.shifts) - k + 1]]

\* The shift of a chunk takes the total back to where the chunk starts.
LEMMA RestStep ==
  ASSUME NEW m, MemOK(m), NEW k \in 1 .. Len(m.history)
  PROVE  Rest(m, k) = Rest(m, k - 1) - m.shifts[Len(m.shifts) - k + 1]
<1>1. /\ m.history \in Seq(ChunkType) /\ m.shifts \in Seq(Nat) /\ m.shift \in 0 .. HeapSize
      /\ StackOK(m.history, m.coarrays, m.shifts, m.shift)
  BY DEF MemOK, MemType
<1>2. PICK l \in Nat : l = Len(m.history) /\ l = Len(m.shifts)
  BY <1>1, Counted DEF StackOK
<1>3. PICK i \in 1 .. l : /\ i = l - k + 1 /\ k # 0
                          /\ k - 1 = 0 => i = l
                          /\ k - 1 # 0 => i < l /\ i + 1 = l - (k - 1) + 1
  <2>1. k \in 1 .. l
    BY <1>2
  <2>2. /\ l - k + 1 \in 1 .. l /\ k # 0
        /\ k - 1 = 0 => l - k + 1 = l
        /\ k - 1 # 0 => l - k + 1 < l /\ l - k + 1 + 1 = l - (k - 1) + 1
    BY <1>2, <2>1, SMTT(20)
  <2> QED
    BY <2>2
<1>4. PICK a \in Nat, s \in Nat, t \in Nat : a = m.history[i].org /\ s = m.shifts[i] /\ t = m.shift
  <2>1. m.shift \in Nat
    BY <1>1, SizeAssumption, SMTT(20)
  <2> QED
    BY <1>1, <1>2, <1>3, <2>1, Numbers
<1>5. Rest(m, k) = a - HeapStart /\ m.shifts[Len(m.shifts) - k + 1] = s
  BY <1>2, <1>3, <1>4 DEF Rest
<1>6. CASE k - 1 = 0
  <2>1. HeapStart + t = a + s
    <3>1. i \in 1 .. Len(m.history) /\ i = Len(m.history)
      BY <1>2, <1>3, <1>6
    <3>2. HeapStart + m.shift = m.history[i].org + m.shifts[i]
      BY <1>1, <3>1 DEF StackOK
    <3> QED
      BY <1>4, <3>2
  <2>2. a - HeapStart = t - s
    BY <2>1, SMTT(20) DEF HeapStart
  <2>3. Rest(m, k - 1) = t
    BY <1>4, <1>6 DEF Rest
  <2> QED
    BY <1>5, <2>2, <2>3
<1>7. CASE k - 1 # 0
  <2>1. PICK b \in Nat : b = m.history[i + 1].org
    <3>1. i + 1 \in 1 .. l
      BY <1>2, <1>3, <1>7, SMTT(20)
    <3> QED
      BY <1>1, <1>2, <3>1, Numbers
  <2>2. b = a + s
    <3>1. i \in 1 .. Len(m.history) /\ i < Len(m.history)
      BY <1>2, <1>3, <1>7
    <3>2. m.history[i + 1].org = m.history[i].org + m.shifts[i]
      BY <1>1, <3>1 DEF StackOK
    <3> QED
      BY <1>4, <2>1, <3>2
  <2>3. a - HeapStart = (b - HeapStart) - s
    BY <2>2, SMTT(20) DEF HeapStart
  <2>4. Rest(m, k - 1) = b - HeapStart
    BY <1>2, <1>3, <1>7, <2>1 DEF Rest
  <2> QED
    BY <1>5, <2>3, <2>4
<1> QED
  BY <1>6, <1>7

\* What the lower layer has left after n chunks are returned.
LEMMA Returned ==
  ASSUME NEW m, MemOK(m), NEW n \in 0 .. Len(m.history), NEW S, S = 0 .. n
  PROVE  /\ \E f : Returns(f, m, S)
         /\ \A f : Returns(f, m, S) => f[n] = Rest(m, n)
<1>1. PICK l \in Nat : l = Len(m.history) /\ n \in 0 .. l
  BY Counted DEF MemOK, MemType
<1>2. \A k \in S : k # 0 => k - 1 \in S /\ Rest(m, k) = Rest(m, k - 1) - m.shifts[Len(m.shifts) - k + 1]
  <2> SUFFICES ASSUME NEW k \in S, k # 0
               PROVE  k - 1 \in S /\ Rest(m, k) = Rest(m, k - 1) - m.shifts[Len(m.shifts) - k + 1]
    OBVIOUS
  <2>1. k - 1 \in 0 .. n /\ k \in 1 .. l
    BY <1>1, SMTT(20)
  <2> QED
    BY <1>1, <2>1, RestStep
<1>3. PICK g : g = [k \in S |-> Rest(m, k)]
  OBVIOUS
<1>4. Returns(g, m, S)
  <2>1. \A k \in S : Rest(m, k) = IF k = 0 THEN m.shift ELSE g[k - 1] - m.shifts[Len(m.shifts) - k + 1]
    <3> TAKE k \in S
    <3>1. CASE k = 0
      BY <3>1 DEF Rest
    <3>2. CASE k # 0
      BY <1>2, <1>3, <3>2
    <3> QED
      BY <3>1, <3>2
  <2> QED
    BY <1>3, <2>1 DEF Returns
<1>5. ASSUME NEW f, Returns(f, m, S) PROVE f[n] = Rest(m, n)
  <2>1. \A k \in S : f[k] = IF k = 0 THEN m.shift ELSE f[k - 1] - m.shifts[Len(m.shifts) - k + 1]
    BY <1>5 DEF Returns
  <2> DEFINE P == {k \in 0 .. n : f[k] = Rest(m, k)}
  <2>2. n \in Nat /\ 0 \in 0 .. n /\ n \in 0 .. n
    BY <1>1, SMTT(20)
  <2>3. 0 \in P
    BY <2>1, <2>2 DEF Rest
  <2>4. ASSUME NEW k \in 0 .. n-1, k \in P PROVE k + 1 \in P
    <3>1. PICK e \in 0 .. n : e = k + 1 /\ e # 0 /\ e - 1 = k
      BY <2>2, SMTT(20)
    <3>2. f[e] = f[e - 1] - m.shifts[Len(m.shifts) - e + 1]
      BY <2>1, <3>1
    <3>3. f[e - 1] = Rest(m, e - 1)
      BY <2>4, <3>1
    <3>4. f[e] = Rest(m, e)
      BY <1>2, <3>1, <3>2, <3>3
    <3> QED
      BY <3>1, <3>4
  <2> HIDE DEF P
  <2>5. P \in SUBSET (0 .. n)
    BY DEF P
  <2>6. \A k \in 0 .. n : k \in P
    BY <2>2, <2>3, <2>4, <2>5, Induct
  <2> QED
    BY <2>2, <2>6 DEF P
<1> QED
  BY <1>4, <1>5

\* The fields ReturnAfter leaves.
LEMMA ReturnFields ==
  ASSUME NEW m, MemOK(m), NEW keep \in 0 .. Len(m.history), NEW n, n = Len(m.history) - keep
  PROVE  Has(ReturnAfter(m, keep), SubSeq(m.history, 1, keep), m.table, m.room,
             SubSeq(m.coarrays, 1, keep), SubSeq(m.shifts, 1, keep), Rest(m, n), m.fatal)
<1>1. PICK l \in Nat : l = Len(m.history) /\ l = Len(m.shifts) /\ l = Len(m.coarrays)
  BY Counted DEF MemOK, MemType, StackOK
<1>2. n \in 0 .. l /\ l - n = keep
  BY <1>1, SMTT(20)
<1> DEFINE left == CHOOSE f : Returns(f, m, 0 .. (Len(m.history) - keep))
<1>3. left[Len(m.history) - keep] = Rest(m, n)
  <2>1. \E f : Returns(f, m, 0 .. n)
    BY <1>1, <1>2, Returned
  <2>2. \A f : Returns(f, m, 0 .. n) => f[n] = Rest(m, n)
    BY <1>1, <1>2, Returned
  <2> QED
    BY <2>1, <2>2
<1>4. LastlyDeallocate(m, Len(m.history) - keep) =
        [m EXCEPT !.shift = left[Len(m.history) - keep],
                  !.shifts = SubSeq(m.shifts, 1, Len(m.shifts) - (Len(m.history) - keep)),
                  !.coarrays = SubSeq(m.coarrays, 1, Len(m.coarrays) - (Len(m.history) - keep))]
  BY DEF LastlyDeallocate, Returns
<1> HIDE DEF left
<1>5. PICK low : low = LastlyDeallocate(m, Len(m.history) - keep)
  OBVIOUS
<1>6. low = [m EXCEPT !.shift = Rest(m, n), !.shifts = SubSeq(m.shifts, 1, keep),
                      !.coarrays = SubSeq(m.coarrays, 1, keep)]
  <2>1. Len(m.shifts) - (Len(m.history) - keep) = keep /\ Len(m.coarrays) - (Len(m.history) - keep) = keep
    BY <1>1, <1>2
  <2> QED
    BY <1>3, <1>4, <1>5, <2>1
<1>7. Has(low, m.history, m.table, m.room,
          SubSeq(m.coarrays, 1, keep), SubSeq(m.shifts, 1, keep), Rest(m, n), m.fatal)
  <2>1. IsMemory(m)
    BY MemoryType DEF MemOK
  <2> QED
    BY <1>6, <2>1, LowerSet
<1>8. IsMemory(low)
  BY <1>7, HasMemory
<1>9. ReturnAfter(m, keep) = [low EXCEPT !.history = SubSeq(low.history, 1, keep)]
  BY <1>5 DEF ReturnAfter
<1>10. Has(ReturnAfter(m, keep), SubSeq(low.history, 1, keep), low.table, low.room,
           low.coarrays, low.shifts, low.shift, low.fatal)
  BY <1>8, <1>9, HistorySet
<1> QED
  BY <1>7, <1>10 DEF Has

\* m2 is m without its newest chunks from the first on that is followed by garbage only.
IsCollected(m2, m, keep) ==
  /\ MemOK(m2) /\ m2.fatal = m.fatal
  /\ m2.history = SubSeq(m.history, 1, keep)
  /\ keep > 0 => ~m.history[keep].isGarbage
  /\ \A i \in keep+1 .. Len(m.history) : m.history[i].isGarbage

\* What _garbageCollectMallocHistory returns is garbage, and it leaves no garbage
\* at the end of the history.
LEMMA CollectOK ==
  ASSUME NEW m, MemOK(m)
  PROVE  \E keep \in 0 .. Len(m.history) : IsCollected(Collect(m), m, keep)
<1>1. /\ m.history \in Seq(ChunkType) /\ m.table \in Seq(Entries) /\ m.room \in Nat
      /\ m.coarrays \in Seq(Nat) /\ m.shifts \in Seq(Nat) /\ m.shift \in 0 .. HeapSize
      /\ m.fatal \in {"none", "heap", "pool"} /\ IsMemory(m)
      /\ StackOK(m.history, m.coarrays, m.shifts, m.shift)
  BY MemoryType DEF MemOK, MemType
<1>2. PICK l \in Nat : l = Len(m.history) /\ l = Len(m.shifts) /\ l = Len(m.coarrays)
  BY <1>1, Counted DEF StackOK
<1>3. PICK S : S = {0} \cup {i \in DOMAIN m.history : ~m.history[i].isGarbage}
  OBVIOUS
<1>4. DOMAIN m.history = 1 .. l
  <2>1. ASSUME NEW T, NEW q \in Seq(T) PROVE DOMAIN q = 1 .. Len(q)
    BY SMTT(20)
  <2> QED
    BY <1>1, <1>2, <2>1
<1>5. S \in SUBSET (0 .. l) /\ S # {}
  <2>1. 0 \in 0 .. l /\ \A i \in 1 .. l : i \in 0 .. l
    BY <1>2, SMTT(20)
  <2> QED
    BY <1>3, <1>4, <2>1
<1>6. PICK keep \in 0 .. l : keep = Max(S) /\ keep \in S /\ \A k \in S : k <= keep
  BY <1>2, <1>5, Greatest
<1>7. keep > 0 => ~m.history[keep].isGarbage
  <2>1. ~(0 > 0)
    BY SMTT(20)
  <2> QED
    BY <1>3, <1>6, <2>1
<1>8. \A i \in keep+1 .. l : m.history[i].isGarbage
  <2>1. \A i \in keep+1 .. l : i \in 1 .. l /\ ~(i <= keep)
    BY <1>2, <1>6, SMTT(20)
  <2> QED
    BY <1>3, <1>4, <1>6, <2>1
<1>9. PICK m2 : m2 = Collect(m)
  OBVIOUS
<1>10. m2 = ReturnAfter(m, keep)
  BY <1>3, <1>6, <1>9 DEF Collect
<1>11. PICK n \in 0 .. l : n = l - keep /\ l - n = keep
  <2>1. l - keep \in 0 .. l /\ l - (l - keep) = keep
    BY <1>2, <1>6, SMTT(20)
  <2> QED
    BY <2>1
<1>12. Has(m2, SubSeq(m.history, 1, keep), m.table, m.room,
           SubSeq(m.coarrays, 1, keep), SubSeq(m.shifts, 1, keep), Rest(m, n), m.fatal)
  BY <1>2, <1>6, <1>10, <1>11, ReturnFields
<1>13. /\ m2.history = SubSeq(m.history, 1, keep) /\ m2.table = m.table /\ m2.room = m.room
       /\ m2.coarrays = SubSeq(m.coarrays, 1, keep) /\ m2.shifts = SubSeq(m.shifts, 1, keep)
       /\ m2.shift = Rest(m, n) /\ m2.fatal = m.fatal
  BY <1>12 DEF Has
<1>14. /\ m2.history \in Seq(ChunkType) /\ Len(m2.history) = keep
       /\ m2.coarrays \in Seq(Nat) /\ m2.shifts \in Seq(Nat)
       /\ \A i \in 1 .. keep : m2.history[i] = m.history[i]
  <2>1. keep \in 0 .. Len(m.history) /\ keep \in 0 .. Len(m.coarrays) /\ keep \in 0 .. Len(m.shifts)
    BY <1>2, <1>6
  <2>2. SubSeq(m.coarrays, 1, keep) \in Seq(Nat) /\ SubSeq(m.shifts, 1, keep) \in Seq(Nat)
    BY <1>1, <2>1, Prefix
  <2>3. /\ SubSeq(m.history, 1, keep) \in Seq(ChunkType) /\ Len(SubSeq(m.history, 1, keep)) = keep
        /\ \A i \in 1 .. keep : SubSeq(m.history, 1, keep)[i] = m.history[i]
    BY <1>1, <2>1, Prefix
  <2> QED
    BY <1>13, <2>2, <2>3
<1>15. Rest(m, n) \in 0 .. HeapSize /\ StackOK(m2.history, m2.coarrays, m2.shifts, Rest(m, n))
  <2>1. CASE keep = l
    <3>1. n = 0
      BY <1>2, <1>11, <2>1, SMTT(20)
    <3>2. ASSUME NEW T, NEW q \in Seq(T), Len(q) = l PROVE SubSeq(q, 1, l) = q
      BY <1>2, <3>2, SMTT(20)
    <3>3. m2.history = m.history /\ m2.coarrays = m.coarrays /\ m2.shifts = m.shifts
      BY <1>1, <1>2, <1>13, <2>1, <3>2
    <3> QED
      BY <1>1, <3>1, <3>3 DEF Rest
  <2>2. CASE keep # l
    <3>1. n # 0 /\ l - n + 1 = keep + 1 /\ keep \in 0 .. l - 1
      BY <1>2, <1>6, <1>11, <2>2, SMTT(20)
    <3>2. Rest(m, n) = m.history[keep + 1].org - HeapStart
      BY <1>2, <3>1 DEF Rest
    <3>3. m.shift \in Nat /\ \A y \in 0 .. m.shift : y \in 0 .. HeapSize
      BY <1>1, SizeAssumption, SMTT(20)
    <3>4. keep \in 0 .. Len(m.history) - 1
      BY <1>2, <3>1
    <3>5. /\ m.history[keep + 1].org - HeapStart \in 0 .. m.shift
          /\ StackOK(SubSeq(m.history, 1, keep), SubSeq(m.coarrays, 1, keep), SubSeq(m.shifts, 1, keep),
                     m.history[keep + 1].org - HeapStart)
      BY <1>1, <3>3, <3>4, StackPrefix
    <3> QED
      BY <1>13, <3>2, <3>3, <3>5
  <2> QED
    BY <2>1, <2>2
<1>16. TableOK(m2.table, m2.room, m2.history)
  <2>1. keep \in Nat /\ keep <= l
    BY <1>2, <1>6, SMTT(20)
  <2>2. \A i \in 1 .. keep : /\ m2.history[i].org = m.history[i].org
                             /\ m2.history[i].nbytes = m.history[i].nbytes
                             /\ m2.history[i].isGarbage = m.history[i].isGarbage
    BY <1>14
  <2>3. TableOK(m.table, m.room, m.history)
    BY DEF MemOK
  <2>4. TableOK(m.table, m.room, m2.history)
    BY <1>2, <1>8, <1>14, <2>1, <2>2, <2>3, TableLike
  <2> QED
    BY <1>13, <2>4
<1>17. m2 \in MemType
  <2>1. IsMemory(m2)
    BY <1>12, HasMemory
  <2>2. m2.shift \in 0 .. HeapSize /\ m2.table \in Seq(Entries) /\ m2.room \in Nat
    BY <1>1, <1>13, <1>15
  <2>3. m2.fatal \in {"none", "heap", "pool"}
    BY <1>1, <1>13
  <2> QED
    BY <1>14, <2>1, <2>2, <2>3, MemoryType
<1>18. MemOK(m2)
  BY <1>13, <1>15, <1>16, <1>17 DEF MemOK
<1>19. IsCollected(m2, m, keep)
  BY <1>2, <1>7, <1>8, <1>13, <1>18 DEF IsCollected
<1> QED
  BY <1>2, <1>6, <1>9, <1>19
=============================================================================
