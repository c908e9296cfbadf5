---------------------------- MODULE XmpLock_proof ----------------------------
(***************************************************************************)
(* The lock over GASNet, for every number of nodes, every set of locks and *)
(* every chunk by which the circular list of waiters grows: exclusion, no  *)
(* stale reply, and the abstract lock of XmpLockSpec.  First come the      *)
(* lemmas on the inductive invariant: what a push, a pop and a copy into a *)
(* larger list keep, what do_lock and do_unlock do, and that every step    *)
(* keeps it.  The hypothesis is that unlock addresses the element that was *)
(* locked, which the code grants for the first element of a lock array     *)
(* only.                                                                   *)
(***************************************************************************)
EXTENDS XmpLock, TLAPS

\* First-order steps go to Zenon; a leaf with arithmetic, records or sequences
\* in it cites SMT.
USE ZenonT(40)

\* Cell i holds a waiter.
Occupied(k, i) ==
  IF k.wait_head <= k.wait_tail
  THEN k.wait_head <= i /\ i < k.wait_tail
  ELSE k.wait_head <= i \/ i < k.wait_tail

Cells(k) == 0 .. k.wait_size-1

Lists == UNION {[0 .. s-1 -> Nodes \cup {Nobody}] : s \in 0 .. N}

LockType ==
  [islocked : BOOLEAN, wait_size : Nat, wait_head : Nat, wait_tail : Nat, wait_list : Lists]

ListInv(k) ==
  /\ k \in LockType
  /\ k.wait_size \in smaller(Chunk, N) .. N
  /\ k.wait_head \in Cells(k)
  /\ k.wait_tail \in Cells(k)
  /\ k.wait_list \in [Cells(k) -> Nodes \cup {Nobody}]
  /\ \A i \in Cells(k) : k.wait_list[i] # Nobody <=> Occupied(k, i)
  /\ \A i, j \in Cells(k) : k.wait_list[i] = k.wait_list[j] /\ k.wait_list[i] # Nobody => i = j

\* Node n is in the list.
Listed(n, k) == \E i \in Cells(k) : k.wait_list[i] = n

\* Distinct nodes that leave one node out fill fewer than N cells: the full list can
\* grow.  XmpLock_proof shows it by counting.
Fits ==
  \A s \in Nat : \A f \in [0 .. s-1 -> Nodes], o \in Nodes :
    /\ \A i, j \in 0 .. s-1 : f[i] = f[j] => i = j
    /\ \A i \in 0 .. s-1 : f[i] # o
    => s < N

\* The rank that stands for no owner is the rank of no node.
LEMMA NodeApart == \A m \in Nodes : m # Nobody
  BY SMTT(20) DEF Nodes, Nobody

(***************************************************************************)
(* Lemmas on the circular list.                                            *)
(***************************************************************************)
\* Every list that fits the nodes is one of the lists of the type.
LEMMA ListIsList ==
  ASSUME NEW s \in 1 .. N, NEW f \in [0 .. s-1 -> Nodes \cup {Nobody}]
  PROVE  f \in Lists
<1>1. s \in 0 .. N
  BY NAssumption, SMTT(20)
<1> QED
  BY <1>1 DEF Lists

\* The first list is empty and has a cell at least.
LEMMA FreshKeeps == ListInv(FreshLock) /\ ~FreshLock.islocked
                    /\ \A n \in Nodes : ~Listed(n, FreshLock)
<1> DEFINE size == smaller(Chunk, N)
<1>1. size \in 1 .. N
  BY NAssumption, ChunkAssumption, SMTT(20) DEF smaller
<1>2. [i \in 0 .. size-1 |-> Nobody] \in Lists
  BY <1>1, ListIsList, SMTT(20)
<1>3. FreshLock \in LockType
  BY <1>1, <1>2, SMTT(20) DEF FreshLock, LockType
<1> QED
  BY <1>1, <1>3, NAssumption, SMTT(20) DEF FreshLock, ListInv, Cells, Occupied, Listed, Nobody, Nodes

\* Taking the first waiter out keeps the list in order.
LEMMA PopKeeps ==
  ASSUME NEW k, ListInv(k), ~IsEmpty(k)
  PROVE  /\ ListInv(Pop(k))
         /\ Pop(k).islocked = k.islocked
         /\ k.wait_list[k.wait_head] \in Nodes
         /\ \A n \in Nodes :
              Listed(n, Pop(k)) <=> Listed(n, k) /\ n # k.wait_list[k.wait_head]
<1> DEFINE p == Pop(k)
           h == k.wait_head
<1>1. /\ k \in LockType /\ k.wait_size \in 1 .. N /\ h \in Cells(k) /\ k.wait_tail \in Cells(k)
      /\ k.wait_list \in [Cells(k) -> Nodes \cup {Nobody}]
      /\ k.wait_tail # h
  BY NAssumption, ChunkAssumption, SMTT(20) DEF ListInv, IsEmpty, smaller, Cells
<1>2. k.wait_list[h] \in Nodes
  BY <1>1, SMTT(20) DEF ListInv, Occupied, Cells
<1>3. /\ p.wait_size = k.wait_size /\ p.wait_tail = k.wait_tail /\ p.islocked = k.islocked
      /\ p.wait_head = After(k, h)
      /\ p.wait_list = [k.wait_list EXCEPT ![h] = Nobody]
  BY <1>1 DEF Pop, LockType
<1>4. p.wait_head \in Cells(p) /\ Cells(p) = Cells(k)
  BY <1>1, <1>3, SMTT(20) DEF After, Cells
<1>5. p.wait_list \in [Cells(k) -> Nodes \cup {Nobody}]
  BY <1>1, <1>3
<1>6. p \in LockType
  <2>1. p.wait_list \in Lists
    BY <1>1, <1>5, ListIsList DEF Cells
  <2>2. After(k, h) \in Nat
    BY <1>3, <1>4, SMTT(20) DEF Cells
  <2> QED
    BY <1>1, <1>3, <2>1, <2>2 DEF Pop, LockType
<1>7. \A i \in Cells(k) : p.wait_list[i] = IF i = h THEN Nobody ELSE k.wait_list[i]
  BY <1>1, <1>3
<1>8. \A i \in Cells(k) : Occupied(p, i) <=> Occupied(k, i) /\ i # h
  BY <1>1, <1>3, SMTT(20) DEF Occupied, After, Cells
<1>9. \A i \in Cells(p) : p.wait_list[i] # Nobody <=> Occupied(p, i)
  BY <1>4, <1>7, <1>8 DEF ListInv
<1>10. \A i, j \in Cells(p) : p.wait_list[i] = p.wait_list[j] /\ p.wait_list[i] # Nobody => i = j
  BY <1>4, <1>7 DEF ListInv
<1>11. ListInv(p)
  BY <1>1, <1>3, <1>4, <1>5, <1>6, <1>9, <1>10 DEF ListInv
<1>12. \A n \in Nodes : n # Nobody
  BY NodeApart
<1>13. \A n \in Nodes : Listed(n, p) <=> Listed(n, k) /\ n # k.wait_list[h]
  BY <1>1, <1>2, <1>4, <1>7, <1>12, SMTT(20) DEF Listed, ListInv
<1> QED
  BY <1>2, <1>3, <1>11, <1>13

\* The cell of a full list of s cells, with its head at h, that is copied to cell i.
From(s, h, i) == IF i < s - h THEN h + i ELSE i - (s - h)

Rotates(s, h) ==
  /\ \A i \in 0 .. s-1 : From(s, h, i) \in 0 .. s-1
  /\ \A i, j \in 0 .. s-1 : From(s, h, i) = From(s, h, j) => i = j
  /\ \A i \in 0 .. s-1 : \E j \in 0 .. s-1 : From(s, h, j) = i

\* Growing copies every cell once.
LEMMA Rotation ==
  ASSUME NEW s \in Nat, NEW h \in Nat, h < s
  PROVE  Rotates(s, h)
<1>1. \A i \in 0 .. s-1 : From(s, h, i) \in 0 .. s-1
  BY SMTT(20) DEF From
<1>2. \A i, j \in 0 .. s-1 : From(s, h, i) = From(s, h, j) => i = j
  BY SMTT(20) DEF From
<1>3. ASSUME NEW i \in 0 .. s-1 PROVE \E j \in 0 .. s-1 : From(s, h, j) = i
  <2> DEFINE j == IF i >= h THEN i - h ELSE i + (s - h)
  <2>1. j \in 0 .. s-1 /\ From(s, h, j) = i
    BY SMTT(20) DEF From
  <2> QED
    BY <2>1
<1> QED
  BY <1>1, <1>2, <1>3 DEF Rotates

\* A list that has become full is copied into a larger one with its waiters.
LEMMA GrowKeeps ==
  ASSUME NEW k \in LockType,
         NEW s \in Nat, s = k.wait_size, s < N, s >= smaller(Chunk, N),
         NEW h \in Nat, h = k.wait_head, h = k.wait_tail, h < s,
         NEW w, w = k.wait_list, w \in [0 .. s-1 -> Nodes],
         \A i, j \in 0 .. s-1 : w[i] = w[j] => i = j
  PROVE  /\ ListInv(Grow(k))
         /\ Grow(k).islocked = k.islocked
         /\ \A n \in Nodes : Listed(n, Grow(k)) <=> Listed(n, k)
<1>1. PICK size \in Nat : size = smaller(s + Chunk, N)
  BY NAssumption, ChunkAssumption, SMTT(20) DEF smaller
<1>2. s < size /\ size <= N /\ N \in Nat /\ smaller(Chunk, N) \in Nat
  BY <1>1, NAssumption, ChunkAssumption, SMTT(20) DEF smaller
<1>3. PICK v : v = [i \in 0 .. size-1 |-> IF i < s THEN w[From(s, h, i)] ELSE Nobody]
  OBVIOUS
<1>4. PICK g : g = Grow(k)
  OBVIOUS
<1>5. g = [islocked |-> k.islocked, wait_size |-> size, wait_head |-> 0, wait_tail |-> s,
           wait_list |-> v]
  <2> DEFINE u == [i \in 0 .. size-1 |->
                     CASE i < k.wait_size - k.wait_head -> k.wait_list[k.wait_head + i]
                       [] i \in k.wait_size - k.wait_head .. k.wait_size-1 ->
                            k.wait_list[i - (k.wait_size - k.wait_head)]
                       [] OTHER -> Nobody]
  <2>1. u = v
    <3>1. ASSUME NEW i \in 0 .. size-1
          PROVE  u[i] = IF i < s THEN w[From(s, h, i)] ELSE Nobody
      <4>1. i \in Nat /\ s - h \in Nat
        BY SMTT(20)
      <4>2. CASE i < s - h
        BY <4>1, <4>2, SMTT(20) DEF From
      <4>3. CASE ~(i < s - h) /\ i < s
        BY <4>1, <4>3, SMTT(20) DEF From
      <4>4. CASE ~(i < s - h) /\ ~(i < s)
        BY <4>1, <4>4, SMTT(20)
      <4>5. i < s - h => i < s
        BY <4>1, SMTT(20)
      <4> QED
        BY <4>2, <4>3, <4>4, <4>5
    <3> QED
      BY <1>3, <3>1
  <2>2. g = [k EXCEPT !.wait_size = size, !.wait_head = 0, !.wait_tail = k.wait_size, !.wait_list = u]
    BY <1>1, <1>4, Zenon DEF Grow, GrowTo
  <2> HIDE DEF u
  <2>3. g = [k EXCEPT !.wait_size = size, !.wait_head = 0, !.wait_tail = s, !.wait_list = v]
    BY <2>1, <2>2
  <2> QED
    BY <2>3 DEF LockType
<1>6. /\ \A i \in 0 .. s-1 : From(s, h, i) \in 0 .. s-1
      /\ \A i, j \in 0 .. s-1 : From(s, h, i) = From(s, h, j) => i = j
      /\ \A i \in 0 .. s-1 : \E j \in 0 .. s-1 : From(s, h, j) = i
  <2>1. Rotates(s, h)
    BY Rotation
  <2> QED
    BY <2>1 DEF Rotates
<1>7. \A n \in Nodes : n # Nobody
  BY NodeApart
<1>8. /\ \A i \in 0 .. s-1 : v[i] = w[From(s, h, i)] /\ v[i] \in Nodes
      /\ \A i \in 0 .. size-1 : ~(i < s) => v[i] = Nobody
  <2>1. ASSUME NEW i \in 0 .. s-1 PROVE v[i] = w[From(s, h, i)] /\ v[i] \in Nodes
    <3>1. i \in 0 .. size-1 /\ i < s
      BY <1>2, SMTT(20)
    <3>2. v[i] = w[From(s, h, i)]
      BY <1>3, <3>1
    <3>3. From(s, h, i) \in 0 .. s-1
      BY <1>6
    <3> QED
      BY <3>2, <3>3
  <2>2. ASSUME NEW i \in 0 .. size-1, ~(i < s) PROVE v[i] = Nobody
    BY <1>3, <2>2
  <2> QED
    BY <2>1, <2>2
<1>9. v \in [0 .. size-1 -> Nodes \cup {Nobody}]
  <2>1. ASSUME NEW i \in 0 .. size-1 PROVE v[i] \in Nodes \cup {Nobody}
    <3>1. CASE i < s
      BY <1>8, <3>1, SMTT(20)
    <3>2. CASE ~(i < s)
      BY <1>8, <3>2
    <3> QED
      BY <3>1, <3>2
  <2> QED
    BY <1>3, <2>1
<1>10. g \in LockType
  <2>1. size \in 1 .. N
    BY <1>1, <1>2, SMTT(20)
  <2>2. v \in Lists
    BY <1>9, <2>1, ListIsList
  <2>3. k.islocked \in BOOLEAN
    BY DEF LockType
  <2> QED
    BY <1>1, <1>5, <2>2, <2>3 DEF LockType
<1>11. \A i \in 0 .. size-1 : v[i] # Nobody <=> i < s
  BY <1>2, <1>7, <1>8, SMTT(20)
<1>12. \A i \in 0 .. size-1 : Occupied(g, i) <=> i < s
  BY <1>2, <1>5, SMTT(20) DEF Occupied
<1>13. \A i, j \in 0 .. size-1 : v[i] = v[j] /\ v[i] # Nobody => i = j
  <2> SUFFICES ASSUME NEW i \in 0 .. size-1, NEW j \in 0 .. size-1, v[i] = v[j], v[i] # Nobody
               PROVE  i = j
    OBVIOUS
  <2>1. i \in 0 .. s-1 /\ j \in 0 .. s-1
    BY <1>11, SMTT(20)
  <2>2. w[From(s, h, i)] = w[From(s, h, j)]
    BY <1>8, <2>1
  <2>3. From(s, h, i) = From(s, h, j)
    BY <1>6, <2>1, <2>2
  <2> QED
    BY <1>6, <2>1, <2>3
<1>14. Cells(g) = 0 .. size-1 /\ Cells(k) = 0 .. s-1
  BY <1>5 DEF Cells
<1>15. ListInv(g)
  <2>1. g.wait_size \in smaller(Chunk, N) .. N /\ g.wait_head \in Cells(g) /\ g.wait_tail \in Cells(g)
    BY <1>2, <1>5, <1>14, SMTT(20)
  <2>2. \A i \in Cells(g) : g.wait_list[i] # Nobody <=> Occupied(g, i)
    BY <1>5, <1>11, <1>12, <1>14
  <2>0. g.wait_list = v
    BY <1>5
  <2>3. g.wait_list \in [Cells(g) -> Nodes \cup {Nobody}]
    BY <1>9, <1>14, <2>0
  <2>4. \A i, j \in Cells(g) : g.wait_list[i] = g.wait_list[j] /\ g.wait_list[i] # Nobody => i = j
    BY <1>13, <1>14, <2>0
  <2> QED
    BY <1>10, <2>1, <2>2, <2>3, <2>4 DEF ListInv
<1>16. \A n \in Nodes : Listed(n, g) <=> Listed(n, k)
  <2> SUFFICES ASSUME NEW n \in Nodes
               PROVE  (\E i \in 0 .. size-1 : v[i] = n) <=> (\E i \in 0 .. s-1 : w[i] = n)
    BY <1>5, <1>14, SMTT(20) DEF Listed
  <2>1. ASSUME NEW i \in 0 .. size-1, v[i] = n PROVE \E j \in 0 .. s-1 : w[j] = n
    <3>1. i \in 0 .. s-1
      BY <1>7, <1>11, <2>1, SMTT(20)
    <3>2. From(s, h, i) \in 0 .. s-1
      BY <1>6, <3>1
    <3>3. w[From(s, h, i)] = n
      BY <1>8, <2>1, <3>1
    <3> QED
      BY <3>2, <3>3
  <2>2. ASSUME NEW i \in 0 .. s-1, w[i] = n PROVE \E j \in 0 .. size-1 : v[j] = n
    <3>1. PICK j \in 0 .. s-1 : From(s, h, j) = i
      BY <1>6
    <3>2. v[j] = n /\ j \in 0 .. size-1
      BY <1>2, <1>8, <2>2, <3>1, SMTT(20)
    <3> QED
      BY <3>2
  <2> QED
    BY <2>1, <2>2
<1> QED
  BY <1>4, <1>5, <1>15, <1>16, SMTT(20)

\* Appending a waiter keeps the list in order, and a list with room for all nodes
\* never overflows: the owner is not in it.
LEMMA PushKeeps ==
  ASSUME Fits, NEW k, ListInv(k), NEW n \in Nodes, ~Listed(n, k),
         NEW o \in Nodes, o # n, ~Listed(o, k)
  PROVE  /\ ListInv(Push(k, n))
         /\ Push(k, n).islocked = k.islocked
         /\ \A m \in Nodes : Listed(m, Push(k, n)) <=> Listed(m, k) \/ m = n
<1> DEFINE t == k.wait_tail
           a == [k EXCEPT !.wait_list[t] = n, !.wait_tail = After(k, t)]
<1>1. /\ k \in LockType /\ k.wait_size \in 1 .. N /\ k.wait_head \in Cells(k) /\ t \in Cells(k)
      /\ k.wait_size >= smaller(Chunk, N)
      /\ k.wait_list \in [Cells(k) -> Nodes \cup {Nobody}]
  BY NAssumption, ChunkAssumption, SMTT(20) DEF ListInv, smaller, Cells
<1>2. /\ a.islocked = k.islocked /\ a.wait_size = k.wait_size /\ a.wait_head = k.wait_head
      /\ a.wait_tail = After(k, t)
      /\ a.wait_list = [k.wait_list EXCEPT ![t] = n]
  BY <1>1 DEF LockType
<1>3. a.wait_tail \in Cells(k) /\ Cells(a) = Cells(k)
  BY <1>1, <1>2, SMTT(20) DEF After, Cells
<1>4. a.wait_list \in [Cells(k) -> Nodes \cup {Nobody}]
  BY <1>1, <1>2, SMTT(20)
<1>5. a \in LockType
  <2>1. a.wait_list \in Lists
    BY <1>1, <1>4, ListIsList DEF Cells
  <2>2. After(k, t) \in Nat
    BY <1>2, <1>3, SMTT(20) DEF Cells
  <2> QED
    BY <1>1, <1>2, <2>1, <2>2 DEF LockType
<1>6. \A i \in Cells(k) : a.wait_list[i] = IF i = t THEN n ELSE k.wait_list[i]
  BY <1>1, <1>2, SMTT(20)
<1>7. \A m \in Nodes : m # Nobody
  BY NodeApart
<1>8. k.wait_list[t] = Nobody
  <2>1. ~Occupied(k, t)
    BY <1>1, SMTT(20) DEF Occupied, Cells
  <2> QED
    BY <1>1, <2>1 DEF ListInv
<1>9. \A m \in Nodes : Listed(m, a) <=> Listed(m, k) \/ m = n
  BY <1>1, <1>3, <1>6, <1>7, <1>8 DEF Listed
<1>10. \A i, j \in Cells(k) : a.wait_list[i] = a.wait_list[j] /\ a.wait_list[i] # Nobody => i = j
  BY <1>1, <1>6, SMTT(20) DEF ListInv, Listed
<1>11. CASE a.wait_tail = a.wait_head
  <2>1. Push(k, n) = Grow(a)
    BY <1>11 DEF Push, Added
  <2>2. \A i \in Cells(k) : i # t => Occupied(k, i)
    BY <1>1, <1>2, <1>11, SMTT(20) DEF Occupied, After, Cells
  <2>3. \A i \in Cells(k) : a.wait_list[i] \in Nodes
    BY <1>1, <1>6, <2>2, SMTT(20) DEF ListInv
  <2>4. a.wait_list \in [Cells(a) -> Nodes]
    BY <1>3, <1>4, <2>3
  <2>5. \A i, j \in Cells(a) : a.wait_list[i] = a.wait_list[j] => i = j
    BY <1>3, <1>7, <1>10, <2>3
  <2>6. \A i \in Cells(a) : a.wait_list[i] # o
    BY <1>3, <1>6 DEF Listed
  <2>7. a.wait_size < N
    <3> DEFINE s == a.wait_size
               f == a.wait_list
    <3>1. s \in Nat /\ Cells(a) = 0 .. s-1
      BY <1>1, <1>2, SMTT(20) DEF Cells
    <3> HIDE DEF a, s, f
    <3>2. f \in [0 .. s-1 -> Nodes]
      BY <2>4, <3>1 DEF f
    <3>3. \A i, j \in 0 .. s-1 : f[i] = f[j] => i = j
      BY <2>5, <3>1 DEF f
    <3>4. \A i \in 0 .. s-1 : f[i] # o
      BY <2>6, <3>1 DEF f
    <3>5. s < N
      BY <3>1, <3>2, <3>3, <3>4 DEF Fits
    <3> QED
      BY <3>5 DEF s
  <2>8. a.wait_size < N /\ a.wait_size >= smaller(Chunk, N)
    BY <1>1, <1>2, <2>7
  <2>9. a.wait_head \in Cells(a)
    BY <1>1, <1>2, <1>3
  <2>10. /\ ListInv(Grow(a)) /\ Grow(a).islocked = a.islocked
         /\ \A m \in Nodes : Listed(m, Grow(a)) <=> Listed(m, a)
    <3>1. a.wait_size \in Nat /\ a.wait_head \in Nat /\ a.wait_head < a.wait_size
      BY <1>1, <2>9, SMTT(20) DEF Cells
    <3> HIDE DEF a
    <3> QED
      BY <1>5, <1>11, <2>4, <2>5, <2>8, <3>1, GrowKeeps DEF Cells
  <2> QED
    BY <1>2, <1>9, <2>1, <2>10
<1>12. CASE a.wait_tail # a.wait_head
  <2>1. Push(k, n) = a
    BY <1>12 DEF Push, Added
  <2>2. \A i \in Cells(k) : Occupied(a, i) <=> Occupied(k, i) \/ i = t
    BY <1>1, <1>2, <1>12, SMTT(20) DEF Occupied, After, Cells
  <2>3. \A i \in Cells(a) : a.wait_list[i] # Nobody <=> Occupied(a, i)
    BY <1>3, <1>6, <1>7, <2>2 DEF ListInv
  <2>4. ListInv(a)
    BY <1>1, <1>2, <1>3, <1>4, <1>5, <1>10, <2>3 DEF ListInv
  <2> QED
    BY <1>2, <1>9, <2>1, <2>4
<1> QED
  BY <1>11, <1>12

\* The flag of the lock is independent of its list.
LEMMA FlagKeeps ==
  ASSUME NEW k, ListInv(k), NEW b \in BOOLEAN
  PROVE  /\ ListInv([k EXCEPT !.islocked = b])
         /\ [k EXCEPT !.islocked = b].islocked = b
         /\ \A n \in Nodes : Listed(n, [k EXCEPT !.islocked = b]) <=> Listed(n, k)
<1>1. PICK f : f = [k EXCEPT !.islocked = b]
  OBVIOUS
<1>2. k \in LockType
  BY DEF ListInv
<1>3. /\ f \in LockType /\ f.islocked = b /\ f.wait_size = k.wait_size
      /\ f.wait_head = k.wait_head /\ f.wait_tail = k.wait_tail /\ f.wait_list = k.wait_list
  BY <1>1, <1>2 DEF LockType
<1>4. ListInv(f) /\ \A n \in Nodes : Listed(n, f) <=> Listed(n, k)
  BY <1>3, SMTT(20) DEF ListInv, Listed, Cells, Occupied
<1> QED
  BY <1>1, <1>3, <1>4

\* A list whose head is its tail holds nobody.
LEMMA EmptyList == ASSUME NEW k, ListInv(k), IsEmpty(k), NEW n \in Nodes PROVE ~Listed(n, k)
BY SMTT(20) DEF ListInv, IsEmpty, Listed, Occupied, Cells, Nodes, Nobody

(***************************************************************************)
(* The invariant.                                                          *)
(***************************************************************************)
Replies == {m \in net : m.type \notin Requests}

\* Node u has been told to hand its lock to node n and has not yet done so.
Handing(u, n) ==
  \/ LockHandoff(u, n) \in net
  \/ pc[u] = "unlocking" /\ local_lockstate[u] = "HANDOFF" /\ local_handoffarg[u] = n

States == {"none", "WAITING", "GRANTED", "HANDOFF", "DONE"}

TypeInv ==
  /\ pc \in [Nodes -> {"run", "lock_request", "locking", "unlock_request", "unlocking"}]
  /\ local_lockstate \in [Nodes -> States]
  /\ local_handoffarg \in [Nodes -> Nodes \cup {Nobody}]
  /\ want \in [Nodes -> Locks \cup {NoLock}]
  /\ holds \in [Nodes -> SUBSET Locks]
  /\ owner \in [Locks -> Nodes \cup {Nobody}]
  /\ lock \in [Locks -> LockType]

\* Node n owns the lock that its directive names.
OwnsWanted(n) == want[n] \in Locks /\ owner[want[n]] = n

\* What the variables that only node n and its handlers write tell each other.
NodeState(n) ==
  /\ pc[n] = "run" => \A l \in holds[n] : owner[l] = n /\ \A k \in holds[n] : k = l
  /\ pc[n] # "run" => holds[n] = {} /\ want[n] \in Locks
  /\ pc[n] = "lock_request" => local_lockstate[n] = "WAITING"
  /\ pc[n] = "locking" =>
       \/ local_lockstate[n] = "WAITING"
       \/ local_lockstate[n] = "GRANTED" /\ OwnsWanted(n)
  /\ pc[n] = "unlock_request" => local_lockstate[n] = "WAITING" /\ OwnsWanted(n)
  /\ pc[n] = "unlocking" => local_lockstate[n] \in {"WAITING", "HANDOFF", "DONE"}
  /\ pc[n] = "unlocking" /\ local_lockstate[n] = "HANDOFF" => local_handoffarg[n] \in Nodes

NodeInv == \A n \in Nodes : NodeState(n)

\* Whoever owns a lock holds it, is about to learn it, or is giving it back.
OwnerInv ==
  \A n \in Nodes, l \in Locks : owner[l] = n =>
    \/ pc[n] = "run" /\ l \in holds[n]
    \/ pc[n] \in {"locking", "unlock_request"} /\ want[n] = l
    \/ pc[n] = "unlocking" /\ want[n] = l /\ Request("UNLOCK_REQUEST", n, l) \in net

\* A waiter waits for one lock, which somebody else owns.
QueueInv ==
  \A l \in Locks :
    /\ ListInv(lock[l])
    /\ lock[l].islocked <=> owner[l] # Nobody
    /\ \A n \in Nodes : Listed(n, lock[l]) =>
         /\ pc[n] = "locking" /\ local_lockstate[n] = "WAITING" /\ want[n] = l
         /\ owner[l] \notin {n, Nobody}

LockRequestInv(m) ==
  /\ m.from \in Nodes
  /\ pc[m.from] = "locking" /\ local_lockstate[m.from] = "WAITING"
  /\ m = Request("LOCK_REQUEST", m.from, want[m.from])
  /\ \A l \in Locks : owner[l] # m.from /\ ~Listed(m.from, lock[l])

UnlockRequestInv(m) ==
  /\ m.from \in Nodes
  /\ pc[m.from] = "unlocking" /\ local_lockstate[m.from] = "WAITING"
  /\ m = Request("UNLOCK_REQUEST", m.from, want[m.from])
  /\ OwnsWanted(m.from)
  /\ \A r \in Replies : r.to # m.from

\* A reply reaches a node that waits for it, and tells it the truth.
ReplyInv(m) ==
  /\ m.to \in Nodes
  /\ local_lockstate[m.to] = "WAITING"
  /\ \/ /\ m = SetLockState(m.to, "GRANTED")
        /\ pc[m.to] = "locking" /\ OwnsWanted(m.to)
        /\ \A u \in Nodes : ~Handing(u, m.to)
     \/ m = SetLockState(m.to, "DONE") /\ pc[m.to] = "unlocking"
     \/ m.next \in Nodes /\ m = LockHandoff(m.to, m.next) /\ pc[m.to] = "unlocking"

MessageInv(m) ==
  \/ m.type = "LOCK_REQUEST" /\ LockRequestInv(m)
  \/ m.type = "UNLOCK_REQUEST" /\ UnlockRequestInv(m)
  \/ m.type \in {"SETLOCKSTATE", "LOCKHANDOFF"} /\ ReplyInv(m)

NetInv == \A m \in net : MessageInv(m)

\* No node is sent two replies at a time.
OneReply == \A m, r \in Replies : m.to = r.to => m = r

\* A lock is handed to one node by one node, and that node waits for it.
HandingInv ==
  \A u, n \in Nodes : Handing(u, n) =>
    /\ pc[n] = "locking" /\ local_lockstate[n] = "WAITING" /\ OwnsWanted(n)
    /\ \A v \in Nodes : Handing(v, n) => v = u

IInv == TypeInv /\ NodeInv /\ OwnerInv /\ QueueInv /\ NetInv /\ OneReply /\ HandingInv

(***************************************************************************)
(* What the queues say, in the forms the steps need.                       *)
(***************************************************************************)
\* A listed node is in its directive, waits for the lock, and somebody else owns it.
LEMMA Waiting ==
  ASSUME QueueInv
  PROVE  \A k \in Locks, m \in Nodes : Listed(m, lock[k]) =>
           /\ pc[m] = "locking" /\ local_lockstate[m] = "WAITING" /\ want[m] = k
           /\ owner[k] # m /\ owner[k] # Nobody
  BY SMTT(20) DEF QueueInv

\* The queues are in order after a step that leaves such nodes in them.
LEMMA QueueNext ==
  ASSUME \A k \in Locks : ListInv(lock'[k]) /\ (lock'[k].islocked <=> owner'[k] # Nobody),
         \A k \in Locks, m \in Nodes : Listed(m, lock'[k]) =>
           /\ pc'[m] = "locking" /\ local_lockstate'[m] = "WAITING" /\ want'[m] = k
           /\ owner'[k] # m /\ owner'[k] # Nobody
  PROVE  QueueInv'
  BY SMTT(20) DEF QueueInv

\* The queues stay in order when neither they nor their waiters change.
LEMMA QueueSame ==
  ASSUME QueueInv, lock' = lock, owner' = owner,
         \A m \in Nodes : pc[m] = "locking" /\ local_lockstate[m] = "WAITING" =>
           pc'[m] = pc[m] /\ local_lockstate'[m] = local_lockstate[m] /\ want'[m] = want[m]
  PROVE  QueueInv'
<1>1. \A k \in Locks, m \in Nodes : Listed(m, lock'[k]) =>
        /\ pc'[m] = "locking" /\ local_lockstate'[m] = "WAITING" /\ want'[m] = k
        /\ owner'[k] # m /\ owner'[k] # Nobody
  BY Waiting, SMTT(20)
<1>2. \A k \in Locks : ListInv(lock'[k]) /\ (lock'[k].islocked <=> owner'[k] # Nobody)
  BY SMTT(20) DEF QueueInv
<1> QED
  BY <1>1, <1>2, QueueNext

(***************************************************************************)
(* What do_lock and do_unlock do to the locks.                             *)
(***************************************************************************)
\* do_lock gives a free lock to the node, and lists the node otherwise.
LEMMA DoLock ==
  ASSUME Fits, TypeInv, QueueInv, NEW n \in Nodes, NEW l \in Locks, do_lock(n, l),
         owner[l] # n, ~Listed(n, lock[l])
  PROVE  /\ lock' \in [Locks -> LockType]
         /\ \A k \in Locks : ListInv(lock'[k]) /\ (lock'[k].islocked <=> owner'[k] # Nobody)
         /\ \A k \in Locks, m \in Nodes :
              Listed(m, lock'[k]) <=> Listed(m, lock[k]) \/ (k = l /\ m = n /\ owner[l] # Nobody)
         /\ owner' = IF owner[l] = Nobody THEN [owner EXCEPT ![l] = n] ELSE owner
         /\ LockReply(l) = IF owner[l] = Nobody THEN "GRANTED" ELSE "WAITING"
<1> DEFINE new == IF lock[l].islocked THEN Push(lock[l], n) ELSE [lock[l] EXCEPT !.islocked = TRUE]
<1>1. lock' = [lock EXCEPT ![l] = new]
  BY DEF do_lock
<1>2. /\ owner \in [Locks -> Nodes \cup {Nobody}] /\ lock \in [Locks -> LockType]
      /\ \A k \in Locks : ListInv(lock[k]) /\ (lock[k].islocked <=> owner[k] # Nobody)
  BY DEF TypeInv, QueueInv
<1>3. n # Nobody
  BY NodeApart
<1>4. /\ ListInv(new) /\ new.islocked = TRUE
      /\ \A m \in Nodes : Listed(m, new) <=> Listed(m, lock[l]) \/ (m = n /\ owner[l] # Nobody)
  <2>1. CASE lock[l].islocked
    <3>1. owner[l] \in Nodes /\ ~Listed(owner[l], lock[l])
      BY <1>2, <2>1, SMTT(20) DEF QueueInv
    <3>2. lock[l].islocked = TRUE
      BY <1>2, <2>1 DEF LockType
    <3> QED
      BY <1>2, <2>1, <3>1, <3>2, PushKeeps
  <2>2. CASE ~lock[l].islocked
    BY <1>2, <2>2, FlagKeeps
  <2> QED
    BY <2>1, <2>2
<1>5. new \in LockType
  BY <1>4 DEF ListInv
<1> HIDE DEF new
<1>6. owner' = IF owner[l] = Nobody THEN [owner EXCEPT ![l] = n] ELSE owner
  BY <1>2 DEF do_lock
<1>7. \A k \in Locks : lock'[k] = IF k = l THEN new ELSE lock[k]
  BY <1>1, <1>2
<1>8. \A k \in Locks : owner'[k] # Nobody <=> k = l \/ owner[k] # Nobody
  BY <1>2, <1>3, <1>6
<1>9. lock' \in [Locks -> LockType]
  BY <1>1, <1>2, <1>5
<1>10. \A k \in Locks : ListInv(lock'[k]) /\ (lock'[k].islocked <=> owner'[k] # Nobody)
  BY <1>2, <1>4, <1>7, <1>8
<1>11. \A k \in Locks, m \in Nodes :
         Listed(m, lock'[k]) <=> Listed(m, lock[k]) \/ (k = l /\ m = n /\ owner[l] # Nobody)
  BY <1>4, <1>7
<1> QED
  BY <1>2, <1>6, <1>9, <1>10, <1>11 DEF LockReply

\* do_unlock frees a lock that nobody waits for, and gives it to the first waiter
\* otherwise.
LEMMA DoUnlock ==
  ASSUME TypeInv, QueueInv, NEW l \in Locks, do_unlock(l), owner[l] # Nobody
  PROVE  /\ lock' \in [Locks -> LockType]
         /\ \A k \in Locks : ListInv(lock'[k]) /\ (lock'[k].islocked <=> owner'[k] # Nobody)
         /\ \/ /\ IsEmpty(lock[l])
               /\ UnlockReply(l) = "DONE"
               /\ owner' = [owner EXCEPT ![l] = Nobody]
               /\ \A k \in Locks, m \in Nodes :
                    Listed(m, lock'[k]) <=> Listed(m, lock[k]) /\ k # l
            \/ /\ ~IsEmpty(lock[l])
               /\ UnlockReply(l) = "HANDOFF"
               /\ HeadWaiter(l) \in Nodes
               /\ Listed(HeadWaiter(l), lock[l])
               /\ owner' = [owner EXCEPT ![l] = HeadWaiter(l)]
               /\ \A k \in Locks, m \in Nodes :
                    Listed(m, lock'[k]) <=> Listed(m, lock[k]) /\ (k = l => m # HeadWaiter(l))
<1> DEFINE new == IF IsEmpty(lock[l]) THEN [lock[l] EXCEPT !.islocked = FALSE] ELSE Pop(lock[l])
<1>1. lock' = [lock EXCEPT ![l] = new]
  BY DEF do_unlock, UnlockWith
<1>2. /\ owner \in [Locks -> Nodes \cup {Nobody}] /\ lock \in [Locks -> LockType]
      /\ \A k \in Locks : ListInv(lock[k]) /\ (lock[k].islocked <=> owner[k] # Nobody)
  BY DEF TypeInv, QueueInv
<1>3. \A k \in Locks : lock'[k] = IF k = l THEN new ELSE lock[k]
  BY <1>1, <1>2
<1>4. CASE IsEmpty(lock[l])
  <2>1. ListInv(new) /\ new.islocked = FALSE /\ \A m \in Nodes : ~Listed(m, new)
    BY <1>2, <1>4, FlagKeeps, EmptyList
  <2>2. owner' = [owner EXCEPT ![l] = Nobody]
    BY <1>4 DEF do_unlock, UnlockWith
  <2>3. new \in LockType
    BY <2>1 DEF ListInv
  <2> HIDE DEF new
  <2>4. lock' \in [Locks -> LockType]
    BY <1>1, <1>2, <2>3
  <2>5. \A k \in Locks : ListInv(lock'[k]) /\ (lock'[k].islocked <=> owner'[k] # Nobody)
    BY <1>2, <1>3, <2>1, <2>2
  <2>6. \A k \in Locks, m \in Nodes : Listed(m, lock'[k]) <=> Listed(m, lock[k]) /\ k # l
    BY <1>3, <2>1
  <2> QED
    BY <1>4, <2>2, <2>4, <2>5, <2>6 DEF UnlockReply
<1>5. CASE ~IsEmpty(lock[l])
  <2>1. /\ ListInv(new) /\ new.islocked = lock[l].islocked /\ HeadWaiter(l) \in Nodes
        /\ \A m \in Nodes : Listed(m, new) <=> Listed(m, lock[l]) /\ m # HeadWaiter(l)
    BY <1>2, <1>5, PopKeeps DEF HeadWaiter
  <2>2. Listed(HeadWaiter(l), lock[l])
    BY <1>2 DEF Listed, HeadWaiter, ListInv
  <2>3. owner' = [owner EXCEPT ![l] = HeadWaiter(l)]
    BY <1>5 DEF do_unlock, UnlockWith
  <2>4. new \in LockType
    BY <2>1 DEF ListInv
  <2> HIDE DEF new
  <2>5. lock' \in [Locks -> LockType]
    BY <1>1, <1>2, <2>4
  <2>6. HeadWaiter(l) # Nobody
    BY <2>1, SMTT(20) DEF Nodes, Nobody
  <2>7. \A k \in Locks : ListInv(lock'[k]) /\ (lock'[k].islocked <=> owner'[k] # Nobody)
    BY <1>2, <1>3, <2>1, <2>3, <2>6
  <2>8. \A k \in Locks, m \in Nodes :
          Listed(m, lock'[k]) <=> Listed(m, lock[k]) /\ (k = l => m # HeadWaiter(l))
    BY <1>3, <2>1
  <2> QED
    BY <1>5, <2>1, <2>2, <2>3, <2>5, <2>7, <2>8 DEF UnlockReply
<1> QED
  BY <1>4, <1>5

\* What the program must avoid: the unlock of an element other than the first.
SameElement == \A l \in Locks : Unlocks(l) = l

(***************************************************************************)
(* The steps.                                                              *)
(***************************************************************************)

\* The invariant holds before the first directive.
LEMMA InitIInv == Init => IInv
<1> SUFFICES ASSUME Init PROVE IInv
  OBVIOUS
<1>1. FreshLock \in LockType
  BY FreshKeeps DEF ListInv
<1>2. \A n \in Nodes : n # Nobody
  BY NodeApart
<1>3. TypeInv /\ NodeInv
  BY <1>1 DEF Init, TypeInv, NodeInv, NodeState, States
<1>4. OwnerInv
  BY <1>2 DEF Init, OwnerInv
<1>5. QueueInv
  BY FreshKeeps DEF Init, QueueInv
<1>6. NetInv /\ OneReply /\ HandingInv
  BY DEF Init, NetInv, OneReply, HandingInv, Handing, Replies
<1> QED
  BY <1>3, <1>4, <1>5, <1>6 DEF IInv

\* A node that locks a lock of its own.
LEMMA LockOwnIInv ==
  ASSUME Fits, IInv, NEW n \in Nodes, NEW l \in Locks, holds[n] = {}, LockOwn(n, l) PROVE IInv'
<1> USE DEF IInv
<1>1. owner[l] # n /\ \A k \in Locks : owner[k] # n /\ ~Listed(n, lock[k])
  BY DEF LockOwn, Goto, OwnerInv, QueueInv
<1>2. /\ lock' \in [Locks -> LockType]
      /\ \A k \in Locks : ListInv(lock'[k]) /\ (lock'[k].islocked <=> owner'[k] # Nobody)
      /\ \A k \in Locks, m \in Nodes :
           Listed(m, lock'[k]) <=> Listed(m, lock[k]) \/ (k = l /\ m = n /\ owner[l] # Nobody)
      /\ owner' = IF owner[l] = Nobody THEN [owner EXCEPT ![l] = n] ELSE owner
      /\ LockReply(l) = IF owner[l] = Nobody THEN "GRANTED" ELSE "WAITING"
  BY <1>1, DoLock, SMTT(20) DEF LockOwn
<1>3. /\ pc[n] = "run" /\ pc' = [pc EXCEPT ![n] = "locking"]
      /\ local_lockstate' = [local_lockstate EXCEPT ![n] = LockReply(l)]
      /\ want' = [want EXCEPT ![n] = l]
      /\ UNCHANGED <<local_handoffarg, net, holds>>
  BY DEF LockOwn, Goto
<1>4. TypeInv'
  BY <1>2, <1>3 DEF TypeInv, States
<1>5. \A m \in Nodes : m # n =>
        /\ pc'[m] = pc[m] /\ local_lockstate'[m] = local_lockstate[m] /\ want'[m] = want[m]
        /\ OwnsWanted(m)' <=> OwnsWanted(m)
        /\ \A k \in Locks : owner'[k] = m <=> owner[k] = m
  BY <1>2, <1>3, SMTT(20) DEF TypeInv, OwnsWanted, Nodes, Nobody
<1>6. /\ pc'[n] = "locking" /\ want'[n] = l
      /\ (local_lockstate'[n] = "GRANTED" /\ OwnsWanted(n)') \/ local_lockstate'[n] = "WAITING"
  BY <1>2, <1>3 DEF TypeInv, OwnsWanted
<1>7. NodeInv'
  BY <1>3, <1>5, <1>6, SMTT(20) DEF TypeInv, NodeInv, NodeState
<1>8. OwnerInv'
  BY <1>2, <1>3, SMTT(20) DEF TypeInv, OwnerInv
<1>9. QueueInv'
  BY <1>1, <1>2, <1>3, SMTT(20) DEF TypeInv, QueueInv
<1>10. \A u, m \in Nodes : Handing(u, m)' <=> Handing(u, m)
  BY <1>3 DEF Handing, TypeInv
<1>11. NetInv'
  <2> SUFFICES ASSUME NEW m \in net PROVE MessageInv(m)'
    BY <1>3 DEF NetInv
  <2>1. MessageInv(m)
    BY DEF NetInv
  <2>2. CASE m.type = "LOCK_REQUEST"
    BY <1>1, <1>2, <1>3, <1>5, <2>1, <2>2, SMTT(20) DEF MessageInv, LockRequestInv
  <2>3. CASE m.type = "UNLOCK_REQUEST"
    BY <1>3, <1>5, <2>1, <2>3 DEF MessageInv, UnlockRequestInv, Replies
  <2>4. CASE m.type \in {"SETLOCKSTATE", "LOCKHANDOFF"}
    BY <1>3, <1>5, <1>10, <2>1, <2>4 DEF MessageInv, ReplyInv
  <2> QED
    BY <2>1, <2>2, <2>3, <2>4 DEF MessageInv
<1>12. OneReply'
  BY <1>3 DEF OneReply, Replies
<1>13. HandingInv'
  BY <1>3, <1>5, <1>10, SMTT(20) DEF HandingInv
<1> QED
  BY <1>4, <1>7, <1>8, <1>9, <1>11, <1>12, <1>13

\* A node that is about to request a lock of another node.
LEMMA LockRemoteIInv ==
  ASSUME IInv, NEW n \in Nodes, NEW l \in Locks, holds[n] = {}, LockRemote(n, l) PROVE IInv'
<1> USE DEF IInv
<1>1. /\ pc[n] = "run" /\ pc' = [pc EXCEPT ![n] = "lock_request"]
      /\ local_lockstate' = [local_lockstate EXCEPT ![n] = "WAITING"]
      /\ want' = [want EXCEPT ![n] = l]
      /\ UNCHANGED <<lock, local_handoffarg, net, holds, owner>>
  BY DEF LockRemote, Goto
<1>2. TypeInv'
  BY <1>1 DEF TypeInv, States
<1>3. \A m \in Nodes : m # n =>
        /\ pc'[m] = pc[m] /\ local_lockstate'[m] = local_lockstate[m] /\ want'[m] = want[m]
        /\ OwnsWanted(m)' <=> OwnsWanted(m)
  BY <1>1 DEF TypeInv, OwnsWanted
<1>4. pc'[n] = "lock_request" /\ want'[n] = l /\ local_lockstate'[n] = "WAITING"
  BY <1>1 DEF TypeInv
<1>5. NodeInv'
  BY <1>1, <1>3, <1>4, SMTT(20) DEF NodeInv, NodeState
<1>6. OwnerInv'
  BY <1>1, <1>3, <1>4, SMTT(20) DEF OwnerInv
<1>7. QueueInv'
  BY <1>1, <1>3, <1>4, QueueSame
<1>8. \A u, m \in Nodes : Handing(u, m)' <=> Handing(u, m)
  BY <1>1, <1>3, <1>4 DEF Handing
<1>9. NetInv'
  <2> SUFFICES ASSUME NEW m \in net PROVE MessageInv(m)'
    BY <1>1 DEF NetInv
  <2>1. MessageInv(m)
    BY DEF NetInv
  <2> QED
    BY <1>1, <1>3, <1>8, <2>1 DEF MessageInv, LockRequestInv, UnlockRequestInv, ReplyInv, Replies
<1>10. OneReply'
  BY <1>1 DEF OneReply, Replies
<1>11. HandingInv'
  BY <1>1, <1>3, <1>8 DEF HandingInv
<1> QED
  BY <1>2, <1>5, <1>6, <1>7, <1>9, <1>10, <1>11

\* The request for a lock leaves.
LEMMA SendLockRequestIInv == ASSUME IInv, NEW n \in Nodes, SendLockRequest(n) PROVE IInv'
<1> USE DEF IInv
<1>0. PICK req : req = Request("LOCK_REQUEST", n, want[n])
  OBVIOUS
<1>1. /\ pc[n] = "lock_request" /\ pc' = [pc EXCEPT ![n] = "locking"]
      /\ net' = net \cup {req}
      /\ UNCHANGED <<lock, local_lockstate, local_handoffarg, want, holds, owner>>
  BY <1>0 DEF SendLockRequest, SendRequest, Goto
<1>2. TypeInv'
  BY <1>1 DEF TypeInv
<1>3. \A m \in Nodes : (m # n => pc'[m] = pc[m]) /\ (OwnsWanted(m)' <=> OwnsWanted(m))
  BY <1>1 DEF TypeInv, OwnsWanted
<1>4. /\ pc'[n] = "locking" /\ local_lockstate[n] = "WAITING"
      /\ \A k \in Locks : owner[k] # n /\ ~Listed(n, lock[k])
  BY <1>1, SMTT(20) DEF TypeInv, NodeInv, NodeState, OwnerInv, QueueInv
<1>5. req.type = "LOCK_REQUEST" /\ req.from = n
  BY <1>0 DEF Request
<1>6. NodeInv'
  BY <1>1, <1>3, <1>4, SMTT(20) DEF NodeInv, NodeState
<1>7. OwnerInv'
  BY <1>1, <1>3, <1>4 DEF OwnerInv
<1>8. QueueInv'
  BY <1>1, <1>3, <1>4, QueueSame
<1>9. Replies' = Replies
  BY <1>1, <1>5 DEF Replies, Requests
<1>10. \A u, m \in Nodes : Handing(u, m)' <=> Handing(u, m)
  BY <1>1, <1>3, <1>4, <1>5, SMTT(20) DEF Handing, LockHandoff
<1>11. NetInv'
  <2>1. MessageInv(req)'
    BY <1>1, <1>4, <1>5, <1>0 DEF MessageInv, LockRequestInv
  <2>2. ASSUME NEW m \in net PROVE MessageInv(m)'
    <3>1. MessageInv(m)
      BY DEF NetInv
    <3> QED
      BY <1>1, <1>3, <1>4, <1>9, <1>10, <3>1
         DEF MessageInv, LockRequestInv, UnlockRequestInv, ReplyInv
  <2> QED
    BY <1>1, <2>1, <2>2 DEF NetInv
<1>12. OneReply'
  BY <1>9 DEF OneReply
<1>13. HandingInv'
  BY <1>1, <1>3, <1>4, <1>10 DEF HandingInv
<1> QED
  BY <1>2, <1>6, <1>7, <1>8, <1>11, <1>12, <1>13

\* The request to unlock leaves.
LEMMA SendUnlockRequestIInv == ASSUME IInv, NEW n \in Nodes, SendUnlockRequest(n) PROVE IInv'
<1> USE DEF IInv
<1>0. PICK req : req = Request("UNLOCK_REQUEST", n, want[n])
  OBVIOUS
<1>1. /\ pc[n] = "unlock_request" /\ pc' = [pc EXCEPT ![n] = "unlocking"]
      /\ net' = net \cup {req}
      /\ UNCHANGED <<lock, local_lockstate, local_handoffarg, want, holds, owner>>
  BY <1>0 DEF SendUnlockRequest, SendRequest, Goto
<1>2. TypeInv'
  BY <1>1 DEF TypeInv
<1>3. \A m \in Nodes : (m # n => pc'[m] = pc[m]) /\ (OwnsWanted(m)' <=> OwnsWanted(m))
  BY <1>1 DEF TypeInv, OwnsWanted
<1>4. /\ pc'[n] = "unlocking" /\ local_lockstate[n] = "WAITING" /\ OwnsWanted(n)
      /\ \A r \in Replies : r.to # n
  BY <1>1, SMTT(20) DEF TypeInv, NodeInv, NodeState, NetInv, MessageInv, ReplyInv, Replies, Requests
<1>5. req.type = "UNLOCK_REQUEST" /\ req.from = n
  BY <1>0 DEF Request
<1>6. OwnerInv'
  BY <1>0, <1>1, <1>3, <1>4, SMTT(20) DEF OwnerInv
<1>7. NodeInv'
  BY <1>1, <1>3, <1>4, SMTT(20) DEF NodeInv, NodeState
<1>8. QueueInv'
  BY <1>1, <1>3, <1>4, QueueSame
<1>9. Replies' = Replies
  BY <1>1, <1>5 DEF Replies, Requests
<1>10. \A u, m \in Nodes : Handing(u, m)' <=> Handing(u, m)
  BY <1>1, <1>3, <1>4, <1>5, SMTT(20) DEF Handing, LockHandoff
<1>11. NetInv'
  <2>1. MessageInv(req)'
    BY <1>1, <1>3, <1>4, <1>5, <1>9, <1>0 DEF MessageInv, UnlockRequestInv
  <2>2. ASSUME NEW m \in net PROVE MessageInv(m)'
    <3>1. MessageInv(m)
      BY DEF NetInv
    <3> QED
      BY <1>1, <1>3, <1>4, <1>9, <1>10, <3>1
         DEF MessageInv, LockRequestInv, UnlockRequestInv, ReplyInv
  <2> QED
    BY <1>1, <2>1, <2>2 DEF NetInv
<1>12. OneReply'
  BY <1>9 DEF OneReply
<1>13. HandingInv'
  BY <1>1, <1>3, <1>4, <1>10 DEF HandingInv
<1> QED
  BY <1>2, <1>6, <1>7, <1>8, <1>11, <1>12, <1>13

\* A node learns that it has the lock.
LEMMA LockedIInv == ASSUME IInv, NEW n \in Nodes, Locked(n) PROVE IInv'
<1> USE DEF IInv
<1>1. /\ pc[n] = "locking" /\ pc' = [pc EXCEPT ![n] = "run"]
      /\ holds' = [holds EXCEPT ![n] = @ \cup {want[n]}]
      /\ want' = [want EXCEPT ![n] = NoLock]
      /\ local_lockstate[n] # "WAITING"
      /\ local_lockstate' = [local_lockstate EXCEPT ![n] = "none"]
      /\ UNCHANGED <<lock, local_handoffarg, net, owner>>
  BY DEF Locked, Goto
<1>2. want[n] \in Locks /\ owner[want[n]] = n /\ holds'[n] = {want[n]}
  BY <1>1, SMTT(20) DEF TypeInv, NodeInv, NodeState, OwnsWanted
<1>3. TypeInv'
  BY <1>1, <1>2 DEF TypeInv, States
<1>4. \A m \in Nodes : m # n =>
        /\ pc'[m] = pc[m] /\ local_lockstate'[m] = local_lockstate[m] /\ want'[m] = want[m]
        /\ holds'[m] = holds[m] /\ (OwnsWanted(m)' <=> OwnsWanted(m))
  BY <1>1 DEF TypeInv, OwnsWanted
<1>5. pc'[n] = "run" /\ local_lockstate'[n] = "none"
  BY <1>1 DEF TypeInv
<1>6. NodeInv'
  BY <1>1, <1>2, <1>4, <1>5, SMTT(20) DEF NodeInv, NodeState
<1>7. OwnerInv'
  BY <1>1, <1>2, <1>4, <1>5, SMTT(20) DEF OwnerInv
<1>8. QueueInv'
  BY <1>1, <1>4, <1>5, QueueSame
<1>9. \A u, m \in Nodes : Handing(u, m)' <=> Handing(u, m)
  BY <1>1, <1>4, <1>5 DEF Handing
<1>10. NetInv'
  <2> SUFFICES ASSUME NEW m \in net PROVE MessageInv(m)'
    BY <1>1 DEF NetInv
  <2>1. MessageInv(m)
    BY DEF NetInv
  <2> QED
    BY <1>1, <1>4, <1>9, <2>1 DEF MessageInv, LockRequestInv, UnlockRequestInv, ReplyInv, Replies
<1>11. OneReply'
  BY <1>1 DEF OneReply, Replies
<1>12. HandingInv'
  BY <1>1, <1>4, <1>9, SMTT(20) DEF HandingInv
<1> QED
  BY <1>3, <1>6, <1>7, <1>8, <1>10, <1>11, <1>12

\* A node that is about to request that its lock on another node be released.
LEMMA UnlockRemoteIInv ==
  ASSUME IInv, SameElement, NEW n \in Nodes, NEW l \in Locks, UnlockRemote(n, l) PROVE IInv'
<1> USE DEF IInv
<1>1. /\ pc[n] = "run" /\ pc' = [pc EXCEPT ![n] = "unlock_request"] /\ l \in holds[n]
      /\ local_lockstate' = [local_lockstate EXCEPT ![n] = "WAITING"]
      /\ holds' = [holds EXCEPT ![n] = @ \ {l}]
      /\ want' = [want EXCEPT ![n] = l]
      /\ UNCHANGED <<lock, local_handoffarg, net, owner>>
  BY DEF UnlockRemote, Goto, SameElement
<1>2. owner[l] = n /\ holds'[n] = {} /\ \A k \in Locks : owner[k] = n => k = l
  BY <1>1, SMTT(20) DEF TypeInv, NodeInv, NodeState, OwnerInv
<1>3. TypeInv'
  BY <1>1 DEF TypeInv, States
<1>4. \A m \in Nodes : m # n =>
        /\ pc'[m] = pc[m] /\ local_lockstate'[m] = local_lockstate[m] /\ want'[m] = want[m]
        /\ holds'[m] = holds[m] /\ (OwnsWanted(m)' <=> OwnsWanted(m))
  BY <1>1 DEF TypeInv, OwnsWanted
<1>5. /\ pc'[n] = "unlock_request" /\ local_lockstate'[n] = "WAITING" /\ want'[n] = l
      /\ OwnsWanted(n)'
  BY <1>1, <1>2 DEF TypeInv, OwnsWanted
<1>6. NodeInv'
  BY <1>1, <1>2, <1>4, <1>5, SMTT(20) DEF NodeInv, NodeState
<1>7. OwnerInv'
  BY <1>1, <1>2, <1>4, <1>5, SMTT(20) DEF OwnerInv
<1>8. QueueInv'
  BY <1>1, <1>4, <1>5, QueueSame
<1>9. \A u, m \in Nodes : Handing(u, m)' <=> Handing(u, m)
  BY <1>1, <1>4, <1>5 DEF Handing
<1>10. NetInv'
  <2> SUFFICES ASSUME NEW m \in net PROVE MessageInv(m)'
    BY <1>1 DEF NetInv
  <2>1. MessageInv(m)
    BY DEF NetInv
  <2> QED
    BY <1>1, <1>4, <1>9, <2>1 DEF MessageInv, LockRequestInv, UnlockRequestInv, ReplyInv, Replies
<1>11. OneReply'
  BY <1>1 DEF OneReply, Replies
<1>12. HandingInv'
  BY <1>1, <1>4, <1>9 DEF HandingInv
<1> QED
  BY <1>3, <1>6, <1>7, <1>8, <1>10, <1>11, <1>12

\* The lock goes from node n, which released it, to the first waiter or to nobody.
LEMMA Released ==
  ASSUME IInv, NEW n \in Nodes, NEW l \in Locks, do_unlock(l), owner[l] = n
  PROVE  /\ lock' \in [Locks -> LockType] /\ owner' \in [Locks -> Nodes \cup {Nobody}]
         /\ \A k \in Locks : ListInv(lock'[k]) /\ (lock'[k].islocked <=> owner'[k] # Nobody)
         /\ \A k \in Locks, m \in Nodes :
              Listed(m, lock'[k]) => Listed(m, lock[k]) /\ owner'[k] \notin {m, Nobody}
         /\ owner'[l] # n
         /\ \A k \in Locks : k # l => owner'[k] = owner[k]
         /\ \/ IsEmpty(lock[l]) /\ owner'[l] = Nobody /\ UnlockReply(l) = "DONE"
            \/ /\ ~IsEmpty(lock[l]) /\ owner'[l] = HeadWaiter(l) /\ UnlockReply(l) = "HANDOFF"
               /\ HeadWaiter(l) \in Nodes
               /\ pc[HeadWaiter(l)] = "locking" /\ local_lockstate[HeadWaiter(l)] = "WAITING"
               /\ want[HeadWaiter(l)] = l
               /\ \A k \in Locks : owner[k] # HeadWaiter(l)
               /\ \E k \in Locks : Listed(HeadWaiter(l), lock[k])
<1> USE DEF IInv
<1>1. \A m \in Nodes : m # Nobody
  BY NodeApart
<1>2. \A k \in Locks, m \in Nodes : Listed(m, lock[k]) =>
        /\ pc[m] = "locking" /\ local_lockstate[m] = "WAITING" /\ want[m] = k
        /\ owner[k] # m /\ owner[k] # Nobody
  BY SMTT(20) DEF QueueInv
<1>3. owner \in [Locks -> Nodes \cup {Nobody}]
  BY DEF TypeInv
<1>4. owner[l] # Nobody
  BY <1>1
<1>5. CASE IsEmpty(lock[l])
  <2>1. /\ lock' \in [Locks -> LockType]
        /\ \A k \in Locks : ListInv(lock'[k]) /\ (lock'[k].islocked <=> owner'[k] # Nobody)
        /\ UnlockReply(l) = "DONE" /\ owner' = [owner EXCEPT ![l] = Nobody]
        /\ \A k \in Locks, m \in Nodes : Listed(m, lock'[k]) <=> Listed(m, lock[k]) /\ k # l
    BY <1>4, <1>5, DoUnlock
  <2> QED
    BY <1>1, <1>2, <1>3, <1>5, <2>1, SMTT(20)
<1>6. CASE ~IsEmpty(lock[l])
  <2>1. PICK next : next = HeadWaiter(l)
    OBVIOUS
  <2>2. /\ lock' \in [Locks -> LockType]
        /\ \A k \in Locks : ListInv(lock'[k]) /\ (lock'[k].islocked <=> owner'[k] # Nobody)
        /\ UnlockReply(l) = "HANDOFF" /\ next \in Nodes /\ Listed(next, lock[l])
        /\ owner' = [owner EXCEPT ![l] = next]
        /\ \A k \in Locks, m \in Nodes :
             Listed(m, lock'[k]) <=> Listed(m, lock[k]) /\ (k = l => m # next)
    BY <1>4, <1>6, <2>1, DoUnlock
  <2>3. next # n /\ pc[next] = "locking" /\ local_lockstate[next] = "WAITING" /\ want[next] = l
    BY <1>2, <2>2, SMTT(20)
  <2>4. \A k \in Locks : owner[k] # next
    BY <2>2, <2>3 DEF OwnerInv
  <2>5. \A k \in Locks, m \in Nodes :
          Listed(m, lock'[k]) => Listed(m, lock[k]) /\ owner'[k] # m /\ owner'[k] # Nobody
    BY <1>1, <1>2, <1>3, <2>2, SMTT(20)
  <2>6. owner' \in [Locks -> Nodes \cup {Nobody}] /\ owner'[l] = next
    BY <1>3, <2>2
  <2>7. \A k \in Locks : k # l => owner'[k] = owner[k]
    BY <1>3, <2>2
  <2> QED
    BY <1>6, <2>1, <2>2, <2>3, <2>4, <2>5, <2>6, <2>7, SMTT(20)
<1> QED
  BY <1>5, <1>6


\* A node releases a lock of its own: the first waiter becomes the owner at once.
LEMMA UnlockOwnIInv ==
  ASSUME IInv, SameElement, NEW n \in Nodes, NEW l \in Locks, UnlockOwn(n, l) PROVE IInv'
<1> USE DEF IInv
<1>1. /\ pc[n] = "run" /\ pc' = [pc EXCEPT ![n] = "unlocking"] /\ l \in holds[n]
      /\ do_unlock(l)
      /\ local_lockstate' = [local_lockstate EXCEPT ![n] = UnlockReply(l)]
      /\ local_handoffarg' =
           [local_handoffarg EXCEPT ![n] = IF IsEmpty(lock[l]) THEN @ ELSE HeadWaiter(l)]
      /\ holds' = [holds EXCEPT ![n] = @ \ {l}]
      /\ want' = [want EXCEPT ![n] = l]
      /\ net' = net
  BY DEF UnlockOwn, Goto, SameElement
<1>2. owner[l] = n /\ holds'[n] = {} /\ \A k \in Locks : owner[k] = n => k = l
  BY <1>1, SMTT(20) DEF TypeInv, NodeInv, NodeState, OwnerInv
<1>3. PICK next : next = owner'[l]
  OBVIOUS
<1>4. PICK reply : reply = UnlockReply(l)
  OBVIOUS
<1>5. /\ lock' \in [Locks -> LockType] /\ owner' \in [Locks -> Nodes \cup {Nobody}]
      /\ \A k \in Locks : ListInv(lock'[k]) /\ (lock'[k].islocked <=> owner'[k] # Nobody)
      /\ \A k \in Locks, m \in Nodes :
           Listed(m, lock'[k]) => Listed(m, lock[k]) /\ owner'[k] \notin {m, Nobody}
      /\ \A k \in Locks : k # l => owner'[k] = owner[k]
      /\ next # n
      /\ \/ next = Nobody /\ reply = "DONE" /\ local_handoffarg' = local_handoffarg
         \/ /\ next \in Nodes /\ reply = "HANDOFF"
            /\ local_handoffarg' = [local_handoffarg EXCEPT ![n] = next]
            /\ pc[next] = "locking" /\ local_lockstate[next] = "WAITING" /\ want[next] = l
            /\ \A k \in Locks : owner[k] # next
            /\ \E k \in Locks : Listed(next, lock[k])
  <2>1. /\ lock' \in [Locks -> LockType] /\ owner' \in [Locks -> Nodes \cup {Nobody}]
        /\ \A k \in Locks : ListInv(lock'[k]) /\ (lock'[k].islocked <=> owner'[k] # Nobody)
        /\ \A k \in Locks, m \in Nodes :
             Listed(m, lock'[k]) => Listed(m, lock[k]) /\ owner'[k] \notin {m, Nobody}
        /\ next # n
        /\ \A k \in Locks : k # l => owner'[k] = owner[k]
        /\ \/ IsEmpty(lock[l]) /\ next = Nobody /\ reply = "DONE"
           \/ /\ ~IsEmpty(lock[l]) /\ next = HeadWaiter(l) /\ reply = "HANDOFF"
              /\ next \in Nodes
              /\ pc[next] = "locking" /\ local_lockstate[next] = "WAITING" /\ want[next] = l
              /\ \A k \in Locks : owner[k] # next
              /\ \E k \in Locks : Listed(next, lock[k])
    BY <1>1, <1>2, <1>3, <1>4, Released, SMTT(20)
  <2>2. IsEmpty(lock[l]) => local_handoffarg' = local_handoffarg
    BY <1>1 DEF TypeInv
  <2>3. ~IsEmpty(lock[l]) => local_handoffarg' = [local_handoffarg EXCEPT ![n] = HeadWaiter(l)]
    BY <1>1
  <2> QED
    BY <2>1, <2>2, <2>3
<1>6. \A m \in Nodes : m # Nobody
  BY NodeApart
<1>7. TypeInv'
  BY <1>1, <1>4, <1>5, SMTT(20) DEF TypeInv, States
<1>8. \A m \in Nodes : m # n =>
        /\ pc'[m] = pc[m] /\ local_lockstate'[m] = local_lockstate[m] /\ want'[m] = want[m]
        /\ holds'[m] = holds[m] /\ local_handoffarg'[m] = local_handoffarg[m]
  BY <1>1, <1>5 DEF TypeInv
<1>own. /\ \A k \in Locks : k # l => owner'[k] = owner[k]
        /\ next = Nobody \/ (want[next] = l /\ \A k \in Locks : owner[k] # next)
  BY <1>5
<1>9. \A m \in Nodes : m # n => (OwnsWanted(m)' <=> OwnsWanted(m) \/ m = next)
  <2> TAKE m \in Nodes
  <2> HAVE m # n
  <2>1. want'[m] = want[m] /\ m # Nobody
    BY <1>6, <1>8
  <2>2. CASE want[m] = l
    <3>1. ~OwnsWanted(m) /\ (OwnsWanted(m)' <=> next = m)
      BY <1>2, <1>3, <2>1, <2>2 DEF OwnsWanted
    <3> QED
      BY <3>1
  <2>3. CASE want[m] # l
    <3>1. m # next
      BY <1>own, <2>1, <2>3
    <3> QED
      BY <1>own, <2>1, <2>3, <3>1 DEF OwnsWanted
  <2> QED
    BY <2>2, <2>3
<1>10. /\ pc'[n] = "unlocking" /\ local_lockstate'[n] = reply /\ want'[n] = l
       /\ reply = "HANDOFF" => local_handoffarg'[n] = next
  BY <1>1, <1>4, <1>5, <1>6 DEF TypeInv
<1>11. \A m \in Nodes : m # n => NodeState(m)'
  <2> TAKE m \in Nodes
  <2> HAVE m # n
  <2>1. NodeState(m) /\ \A k \in holds[m] : k \in Locks /\ owner'[k] = owner[k]
    <3>1. NodeState(m)
      BY DEF NodeInv
    <3>2. ASSUME NEW k \in holds[m] PROVE k \in Locks /\ owner[k] = m
      BY <3>1, <3>2 DEF NodeState, TypeInv
    <3> QED
      BY <1>2, <1>own, <3>1, <3>2
  <2> QED
    BY <1>8, <1>9, <2>1 DEF NodeState
<1>12. NodeInv'
  <2>1. /\ reply = "DONE" \/ reply = "HANDOFF"
        /\ reply = "HANDOFF" => next \in Nodes
    BY <1>5
  <2>2. "unlocking" \notin {"run", "lock_request", "locking", "unlock_request"}
    OBVIOUS
  <2>3. NodeState(n)'
    BY <1>2, <1>10, <2>1, <2>2 DEF NodeState
  <2> QED
    BY <1>11, <2>3 DEF NodeInv
<1>13. OwnerInv'
  <2> SUFFICES ASSUME NEW m \in Nodes, NEW k \in Locks, owner'[k] = m
               PROVE  \/ pc'[m] = "run" /\ k \in holds'[m]
                      \/ pc'[m] \in {"locking", "unlock_request"} /\ want'[m] = k
                      \/ pc'[m] = "unlocking" /\ want'[m] = k /\ Request("UNLOCK_REQUEST", m, k) \in net'
    BY DEF OwnerInv
  <2>1. CASE k = l
    BY <1>3, <1>5, <1>6, <1>8, <2>1
  <2>2. CASE k # l
    BY <1>1, <1>2, <1>5, <1>8, <2>2, SMTT(20) DEF OwnerInv
  <2> QED
    BY <2>1, <2>2
<1>14. QueueInv'
  <2>1. \A k \in Locks, m \in Nodes : Listed(m, lock[k]) =>
          pc[m] = "locking" /\ local_lockstate[m] = "WAITING" /\ want[m] = k
    BY Waiting
  <2>2. pc[n] # "locking"
    BY <1>1
  <2>3. \A k \in Locks, m \in Nodes : Listed(m, lock'[k]) =>
          /\ pc'[m] = "locking" /\ local_lockstate'[m] = "WAITING" /\ want'[m] = k
          /\ owner'[k] # m /\ owner'[k] # Nobody
    <3> TAKE k \in Locks, m \in Nodes
    <3> HAVE Listed(m, lock'[k])
    <3>1. Listed(m, lock[k]) /\ owner'[k] # m /\ owner'[k] # Nobody
      BY <1>5
    <3>2. pc[m] = "locking" /\ local_lockstate[m] = "WAITING" /\ want[m] = k
      BY <2>1, <3>1
    <3> QED
      BY <1>8, <2>2, <3>1, <3>2
  <2> QED
    BY <1>5, <2>3, QueueNext
<1>15. \A m \in Replies : m.to \in Nodes \ {n, next}
  <2> TAKE m \in Replies
  <2>1. ReplyInv(m) /\ m.to \in Nodes /\ m.to # n
    BY <1>1 DEF NetInv, MessageInv, ReplyInv, Replies, Requests
  <2> QED
    BY <1>5, <1>6, <2>1, SMTT(20) DEF ReplyInv, OwnsWanted
<1>16. \A u, m \in Nodes : Handing(u, m)' <=> Handing(u, m) \/ (u = n /\ m = next)
  <2> TAKE u, m \in Nodes
  <2>1. ~Handing(n, m)
    BY <1>1, <1>15, SMTT(20) DEF Handing, LockHandoff, Replies, Requests
  <2>2. LockHandoff(n, m) \notin net'
    BY <1>1, <2>1 DEF Handing
  <2> QED
    BY <1>1, <1>5, <1>6, <1>8, <1>10, <2>1, <2>2, SMTT(20) DEF Handing
<1>net. net' = net
  BY <1>1
<1>17. Replies' = Replies
  BY <1>net DEF Replies
<1>18. NetInv'
  <2> SUFFICES ASSUME NEW m \in net PROVE MessageInv(m)'
    BY <1>net DEF NetInv
  <2>1. MessageInv(m)
    BY DEF NetInv
  <2>2. CASE m.type = "LOCK_REQUEST" /\ LockRequestInv(m)
    <3>1. m.from # n /\ m.from # next
      BY <1>1, <1>5, <1>6, <2>2, SMTT(20) DEF LockRequestInv
    <3>2. ASSUME NEW k \in Locks PROVE owner'[k] # m.from /\ ~Listed(m.from, lock'[k])
      <4>1. m.from \in Nodes /\ owner[k] # m.from /\ ~Listed(m.from, lock[k])
        BY <2>2 DEF LockRequestInv
      <4>2. ~Listed(m.from, lock'[k])
        BY <1>5, <4>1
      <4>3. owner'[k] # m.from
        BY <1>3, <1>own, <3>1, <4>1
      <4> QED
        BY <4>2, <4>3
    <3>3. LockRequestInv(m)'
      BY <1>8, <2>2, <3>1, <3>2 DEF LockRequestInv
    <3> QED
      BY <2>2, <3>3 DEF MessageInv
  <2>3. CASE m.type = "UNLOCK_REQUEST" /\ UnlockRequestInv(m)
    <3>1. m.from # n
      BY <1>1, <2>3 DEF UnlockRequestInv
    <3> QED
      BY <1>8, <1>9, <1>17, <2>3, <3>1 DEF MessageInv, UnlockRequestInv
  <2>4. CASE m.type \in {"SETLOCKSTATE", "LOCKHANDOFF"} /\ ReplyInv(m)
    <3>1. m.to \in Nodes \ {n, next}
      BY <1>15, <2>4 DEF Replies, Requests
    <3> QED
      BY <1>8, <1>9, <1>16, <2>4, <3>1 DEF MessageInv, ReplyInv
  <2> QED
    BY <2>1, <2>2, <2>3, <2>4 DEF MessageInv
<1>19. OneReply'
  BY <1>17 DEF OneReply
<1>20. HandingInv'
  <2>1. \A u, m \in Nodes : Handing(u, m) => m # n /\ m # next
    BY <1>1, <1>5, <1>6, SMTT(20) DEF HandingInv, OwnsWanted
  <2> QED
    BY <1>5, <1>6, <1>8, <1>9, <1>16, <2>1, SMTT(20) DEF HandingInv
<1> QED
  BY <1>7, <1>12, <1>13, <1>14, <1>18, <1>19, <1>20


\* The end of an unlock: the waiter that became the owner, if any, is told so.
LEMMA UnlockedIInv == ASSUME IInv, NEW n \in Nodes, Unlocked(n) PROVE IInv'
<1> USE DEF IInv
<1>1. PICK next : next = local_handoffarg[n]
  OBVIOUS
<1>2. PICK grant : grant = SetLockState(next, "GRANTED")
  OBVIOUS
<1>3. PICK handoff \in BOOLEAN : handoff <=> local_lockstate[n] = "HANDOFF"
  OBVIOUS
<1>4. /\ pc[n] = "unlocking" /\ pc' = [pc EXCEPT ![n] = "run"]
      /\ local_lockstate[n] # "WAITING" /\ holds[n] = {}
      /\ want' = [want EXCEPT ![n] = NoLock]
      /\ local_handoffarg' = [local_handoffarg EXCEPT ![n] = Nobody]
      /\ UNCHANGED <<lock, holds, owner>>
  BY DEF Unlocked, UnlockedSending, Goto, NodeInv, NodeState
<1>5. handoff =>
        /\ next \in Nodes /\ next # n
        /\ Handing(n, next) /\ pc[next] = "locking" /\ local_lockstate[next] = "WAITING"
        /\ OwnsWanted(next) /\ \A u \in Nodes : Handing(u, next) => u = n
  <2> SUFFICES ASSUME handoff PROVE /\ next \in Nodes /\ Handing(n, next)
                                    /\ pc[next] = "locking"
    BY <1>4 DEF HandingInv
  <2>1. next \in Nodes /\ Handing(n, next)
    BY <1>1, <1>3, <1>4 DEF NodeInv, NodeState, Handing
  <2> QED
    BY <2>1 DEF HandingInv
<1>6. /\ local_lockstate' = [local_lockstate EXCEPT ![n] = "none"]
      /\ net' = IF handoff THEN net \cup {grant} ELSE net
  BY <1>1, <1>2, <1>3, <1>5 DEF Unlocked, UnlockedSending
<1>7. TypeInv'
  BY <1>4, <1>6 DEF TypeInv, States
<1>8. \A m \in Nodes : m # n =>
        /\ pc'[m] = pc[m] /\ local_lockstate'[m] = local_lockstate[m] /\ want'[m] = want[m]
        /\ local_handoffarg'[m] = local_handoffarg[m]
        /\ (OwnsWanted(m)' <=> OwnsWanted(m))
  BY <1>4, <1>6 DEF TypeInv, OwnsWanted
<1>9. pc'[n] = "run"
  BY <1>4 DEF TypeInv
<1>10. NodeInv'
  BY <1>4, <1>8, <1>9, SMTT(20) DEF NodeInv, NodeState
<1>11. \A k \in Locks : owner[k] # n
  <2> SUFFICES ASSUME NEW k \in Locks, owner[k] = n PROVE FALSE
    OBVIOUS
  <2>1. PICK req : req = Request("UNLOCK_REQUEST", n, k)
    OBVIOUS
  <2>2. req \in net /\ req.type = "UNLOCK_REQUEST" /\ req.from = n
    BY <1>4, <2>1 DEF OwnerInv, Request
  <2> QED
    BY <1>4, <2>2 DEF NetInv, MessageInv, UnlockRequestInv
<1>12. OwnerInv'
  BY <1>4, <1>6, <1>8, <1>11, SMTT(20) DEF OwnerInv
<1>13. QueueInv'
  BY <1>4, <1>8, SMTT(20) DEF QueueInv
<1>14. grant.type = "SETLOCKSTATE" /\ grant.to = next
  BY <1>2 DEF SetLockState
<1>15. Replies' = IF handoff THEN Replies \cup {grant} ELSE Replies
  BY <1>6, <1>14 DEF Replies, Requests
<1>16. \A r \in Replies : r.to \in Nodes /\ r.to # n /\ (handoff => r.to # next)
  <2> TAKE r \in Replies
  <2>1. ReplyInv(r) /\ r.to \in Nodes /\ r.to # n
    BY <1>4 DEF NetInv, MessageInv, ReplyInv, Replies, Requests
  <2> QED
    BY <1>5, <2>1 DEF ReplyInv
<1>17. \A u, m \in Nodes : Handing(u, m)' <=> Handing(u, m) /\ u # n
  <2> TAKE u, m \in Nodes
  <2>1. LockHandoff(n, m) \notin net
    BY <1>16, SMTT(20) DEF LockHandoff, Replies, Requests
  <2>2. LockHandoff(u, m) # grant
    BY <1>14, SMTT(20) DEF LockHandoff
  <2> QED
    BY <1>6, <1>8, <1>9, <2>1, <2>2 DEF Handing
<1>18. NetInv'
  <2>1. handoff => MessageInv(grant)'
    BY <1>2, <1>5, <1>8, <1>14, <1>17 DEF MessageInv, ReplyInv
  <2>2. ASSUME NEW m \in net PROVE MessageInv(m)'
    <3>1. MessageInv(m)
      BY DEF NetInv
    <3>2. CASE m.type = "LOCK_REQUEST" /\ LockRequestInv(m)
      BY <1>4, <1>8, <3>2 DEF MessageInv, LockRequestInv
    <3>3. CASE m.type = "UNLOCK_REQUEST" /\ UnlockRequestInv(m)
      <4>1. m.from # n /\ (handoff => m.from # next)
        BY <1>4, <1>5, <3>3 DEF UnlockRequestInv
      <4> QED
        BY <1>8, <1>14, <1>15, <3>3, <4>1 DEF MessageInv, UnlockRequestInv
    <3>4. CASE m.type \in {"SETLOCKSTATE", "LOCKHANDOFF"} /\ ReplyInv(m)
      <4>1. m.to # n
        BY <1>4, <3>4 DEF ReplyInv
      <4> QED
        BY <1>8, <1>17, <3>4, <4>1 DEF MessageInv, ReplyInv
    <3> QED
      BY <3>1, <3>2, <3>3, <3>4 DEF MessageInv
  <2> QED
    BY <1>6, <2>1, <2>2 DEF NetInv
<1>19. OneReply'
  BY <1>14, <1>15, <1>16 DEF OneReply
<1>20. HandingInv'
  BY <1>4, <1>8, <1>17 DEF HandingInv
<1> QED
  BY <1>7, <1>10, <1>12, <1>13, <1>18, <1>19, <1>20

\* A node takes in a grant or the news that its lock is free.
LEMMA HandleSetLockStateIInv ==
  ASSUME IInv, NEW n \in Nodes, HandleSetLockState(n) PROVE IInv'
<1> USE DEF IInv
<1>1. PICK r \in net :
        /\ r.type = "SETLOCKSTATE" /\ r.to = n
        /\ net' = net \ {r}
        /\ local_lockstate' = [local_lockstate EXCEPT ![n] = r.state]
        /\ UNCHANGED <<pc, lock, local_handoffarg, want, holds, owner>>
  BY DEF HandleSetLockState
<1>2. /\ r \in Replies /\ ReplyInv(r) /\ local_lockstate[n] = "WAITING"
      /\ \/ r.state = "GRANTED" /\ pc[n] = "locking" /\ OwnsWanted(n)
         \/ r.state = "DONE" /\ pc[n] = "unlocking"
  BY <1>1, SMTT(20) DEF NetInv, MessageInv, ReplyInv, Replies, Requests, SetLockState, LockHandoff
<1>3. TypeInv'
  BY <1>1, <1>2 DEF TypeInv, States
<1>4. /\ \A m \in Nodes : m # n => local_lockstate'[m] = local_lockstate[m]
      /\ \A m \in Nodes : OwnsWanted(m)' <=> OwnsWanted(m)
      /\ local_lockstate'[n] = r.state
  BY <1>1 DEF TypeInv, OwnsWanted
<1>5. NodeInv'
  <2> SUFFICES ASSUME NEW m \in Nodes PROVE NodeState(m)'
    BY DEF NodeInv
  <2>1. NodeState(m)
    BY DEF NodeInv
  <2>2. CASE m = n
    BY <1>1, <1>2, <1>4, <2>1, <2>2 DEF NodeState
  <2>3. CASE m # n
    BY <1>1, <1>4, <2>1, <2>3 DEF NodeState
  <2> QED
    BY <2>2, <2>3
<1>6. OwnerInv'
  <2>1. \A m \in Nodes, k \in Locks :
          Request("UNLOCK_REQUEST", m, k) \in net => Request("UNLOCK_REQUEST", m, k) \in net'
    <3>1. r.type = "SETLOCKSTATE" /\ \A m, k : Request("UNLOCK_REQUEST", m, k).type = "UNLOCK_REQUEST"
      BY <1>1 DEF Request
    <3>2. \A m, k : Request("UNLOCK_REQUEST", m, k) # r
      BY <3>1
    <3> QED
      BY <1>1, <3>2
  <2> QED
    BY <1>1, <2>1, SMTT(20) DEF OwnerInv
<1>7. \A m \in Replies' : m \in Replies /\ m.to # n
  BY <1>1, <1>2 DEF OneReply, Replies
<1>8. QueueInv'
  <2>1. \A k \in Locks : ~Listed(n, lock[k])
    BY <1>2, SMTT(20) DEF QueueInv, OwnsWanted
  <2> QED
    BY <1>1, <1>4, <2>1, SMTT(20) DEF QueueInv
<1>9. \A u, m \in Nodes : Handing(u, m)' <=> Handing(u, m)
  <2> TAKE u, m \in Nodes
  <2>1. LockHandoff(u, m) # r
    BY <1>1, SMTT(20) DEF LockHandoff
  <2> QED
    BY <1>1, <1>2, <1>4, <2>1 DEF Handing
<1>10. NetInv'
  <2> SUFFICES ASSUME NEW m \in net' PROVE MessageInv(m)'
    BY DEF NetInv
  <2>1. m \in net /\ MessageInv(m)
    BY <1>1 DEF NetInv
  <2>2. CASE m.type = "LOCK_REQUEST" /\ LockRequestInv(m)
    <3>1. m.from # n
      BY <1>2, <2>2 DEF LockRequestInv, OwnsWanted
    <3> QED
      BY <1>1, <1>4, <2>2, <3>1 DEF MessageInv, LockRequestInv
  <2>3. CASE m.type = "UNLOCK_REQUEST" /\ UnlockRequestInv(m)
    <3>1. m.from # n
      BY <1>1, <1>2, <2>3 DEF UnlockRequestInv
    <3> QED
      BY <1>1, <1>4, <1>7, <2>3, <3>1 DEF MessageInv, UnlockRequestInv
  <2>4. CASE m.type \in {"SETLOCKSTATE", "LOCKHANDOFF"} /\ ReplyInv(m)
    <3>1. m.to # n
      BY <1>7, <2>4 DEF Replies, Requests
    <3> QED
      BY <1>1, <1>4, <1>9, <2>4, <3>1 DEF MessageInv, ReplyInv
  <2> QED
    BY <2>1, <2>2, <2>3, <2>4 DEF MessageInv
<1>11. OneReply'
  BY <1>7 DEF OneReply
<1>12. HandingInv'
  <2>1. \A u \in Nodes : ~Handing(u, n)
    BY <1>1, <1>2 DEF ReplyInv, HandingInv
  <2> QED
    BY <1>1, <1>4, <1>9, <2>1, SMTT(20) DEF HandingInv
<1> QED
  BY <1>3, <1>5, <1>6, <1>8, <1>10, <1>11, <1>12


\* A node is told to whom it has to hand the lock.
LEMMA HandleLockHandoffIInv ==
  ASSUME IInv, NEW n \in Nodes, HandleLockHandoff(n) PROVE IInv'
<1> USE DEF IInv
<1>1. PICK r \in net :
        /\ r.type = "LOCKHANDOFF" /\ r.to = n
        /\ net' = net \ {r}
        /\ local_handoffarg' = [local_handoffarg EXCEPT ![n] = r.next]
        /\ local_lockstate' = [local_lockstate EXCEPT ![n] = "HANDOFF"]
        /\ UNCHANGED <<pc, lock, want, holds, owner>>
  BY DEF HandleLockHandoff
<1>2. /\ r \in Replies /\ ReplyInv(r) /\ local_lockstate[n] = "WAITING"
      /\ r.next \in Nodes /\ r = LockHandoff(n, r.next) /\ pc[n] = "unlocking"
  BY <1>1 DEF NetInv, MessageInv, ReplyInv, Replies, Requests, SetLockState, LockHandoff
<1>3. TypeInv'
  BY <1>1, <1>2 DEF TypeInv, States
<1>4. /\ \A m \in Nodes : m # n => /\ local_lockstate'[m] = local_lockstate[m]
                                   /\ local_handoffarg'[m] = local_handoffarg[m]
      /\ \A m \in Nodes : OwnsWanted(m)' <=> OwnsWanted(m)
      /\ local_lockstate'[n] = "HANDOFF" /\ local_handoffarg'[n] = r.next
  BY <1>1 DEF TypeInv, OwnsWanted
<1>5. NodeInv'
  <2> SUFFICES ASSUME NEW m \in Nodes PROVE NodeState(m)'
    BY DEF NodeInv
  <2>1. NodeState(m)
    BY DEF NodeInv
  <2>2. CASE m = n
    BY <1>1, <1>2, <1>4, <2>1, <2>2 DEF NodeState
  <2>3. CASE m # n
    BY <1>1, <1>4, <2>1, <2>3 DEF NodeState
  <2> QED
    BY <2>2, <2>3
<1>6. OwnerInv'
  <2>1. \A m \in Nodes, k \in Locks :
          Request("UNLOCK_REQUEST", m, k) \in net => Request("UNLOCK_REQUEST", m, k) \in net'
    <3>1. r.type = "LOCKHANDOFF" /\ \A m, k : Request("UNLOCK_REQUEST", m, k).type = "UNLOCK_REQUEST"
      BY <1>1 DEF Request
    <3>2. \A m, k : Request("UNLOCK_REQUEST", m, k) # r
      BY <3>1
    <3> QED
      BY <1>1, <3>2
  <2> QED
    BY <1>1, <2>1 DEF OwnerInv
<1>7. \A m \in Replies' : m \in Replies /\ m.to # n
  BY <1>1, <1>2 DEF OneReply, Replies
<1>8. QueueInv'
  BY <1>1, <1>2, <1>4, QueueSame
<1>9. \A u, m \in Nodes : Handing(u, m)' <=> Handing(u, m)
  <2> TAKE u, m \in Nodes
  <2>1. CASE u # n
    <3>1. LockHandoff(u, m) # r
      BY <1>1, <2>1, SMTT(20) DEF LockHandoff
    <3> QED
      BY <1>1, <1>4, <2>1, <3>1 DEF Handing
  <2>2. CASE u = n
    <3>1. Handing(n, m) <=> LockHandoff(n, m) \in net
      BY <1>2 DEF Handing
    <3>2. LockHandoff(n, m) \in net => LockHandoff(n, m) = r
      BY <1>1, <1>2, SMTT(20) DEF OneReply, Replies, Requests, LockHandoff
    <3>3. LockHandoff(n, m) = r <=> m = r.next
      BY <1>2, SMTT(20) DEF LockHandoff
    <3>4. LockHandoff(n, m) \notin net'
      BY <1>1, <3>2
    <3>5. Handing(n, m)' <=> m = r.next
      BY <1>1, <1>2, <1>4, <3>4 DEF Handing
    <3> QED
      BY <1>1, <2>2, <3>1, <3>2, <3>3, <3>5
  <2> QED
    BY <2>1, <2>2
<1>10. NetInv'
  <2> SUFFICES ASSUME NEW m \in net' PROVE MessageInv(m)'
    BY DEF NetInv
  <2>1. m \in net /\ MessageInv(m)
    BY <1>1 DEF NetInv
  <2>2. CASE m.type = "LOCK_REQUEST" /\ LockRequestInv(m)
    <3>1. m.from # n
      BY <1>2, <2>2 DEF LockRequestInv
    <3> QED
      BY <1>1, <1>4, <2>2, <3>1 DEF MessageInv, LockRequestInv
  <2>3. CASE m.type = "UNLOCK_REQUEST" /\ UnlockRequestInv(m)
    <3>1. m.from # n
      BY <1>1, <1>2, <2>3 DEF UnlockRequestInv
    <3> QED
      BY <1>1, <1>4, <1>7, <2>3, <3>1 DEF MessageInv, UnlockRequestInv
  <2>4. CASE m.type \in {"SETLOCKSTATE", "LOCKHANDOFF"} /\ ReplyInv(m)
    <3>1. m.to # n
      BY <1>7, <2>4 DEF Replies, Requests
    <3> QED
      BY <1>1, <1>4, <1>9, <2>4, <3>1 DEF MessageInv, ReplyInv
  <2> QED
    BY <2>1, <2>2, <2>3, <2>4 DEF MessageInv
<1>11. OneReply'
  BY <1>7 DEF OneReply
<1>12. HandingInv'
  BY <1>1, <1>2, <1>4, <1>9, SMTT(20) DEF HandingInv
<1> QED
  BY <1>3, <1>5, <1>6, <1>8, <1>10, <1>11, <1>12

\* The node that has the lock grants it to node n, or puts n in the list.
LEMMA HandleLockRequestIInv ==
  ASSUME Fits, IInv, NEW n \in Nodes, HandleLockRequest(n) PROVE IInv'
<1> USE DEF IInv
<1>0. PICK req \in net :
        /\ req.type = "LOCK_REQUEST" /\ req.from = n
        /\ do_lock(n, req.lock)
        /\ net' = (net \ {req}) \cup
             {SetLockState(n, state) : state \in {LockReply(req.lock)} \cap {"GRANTED"}}
        /\ UNCHANGED <<pc, local_lockstate, local_handoffarg, want, holds>>
  BY DEF HandleLockRequest, HandleLockRequestSending
<1>1. PICK l : l = want[n]
  OBVIOUS
<1>2. /\ pc[n] = "locking" /\ local_lockstate[n] = "WAITING" /\ l \in Locks
      /\ req = Request("LOCK_REQUEST", n, l) /\ req.lock = l
      /\ \A k \in Locks : owner[k] # n /\ ~Listed(n, lock[k])
  <2>1. LockRequestInv(req)
    BY <1>0 DEF NetInv, MessageInv
  <2>2. req = Request("LOCK_REQUEST", n, l) /\ pc[n] = "locking" /\ local_lockstate[n] = "WAITING"
    BY <1>0, <1>1, <2>1 DEF LockRequestInv
  <2>3. req.lock = l
    BY <2>2 DEF Request
  <2> QED
    BY <1>0, <1>1, <2>1, <2>2, <2>3, SMTT(20) DEF LockRequestInv, NodeInv, NodeState
<1>same. UNCHANGED <<pc, local_lockstate, local_handoffarg, want, holds>>
  BY <1>0
<1>lock. do_lock(n, l)
  BY <1>0, <1>2
<1>3. PICK free \in BOOLEAN : free <=> owner[l] = Nobody
  OBVIOUS
<1>4. PICK grant : grant = SetLockState(n, "GRANTED")
  OBVIOUS
<1>5. /\ lock' \in [Locks -> LockType]
      /\ \A k \in Locks : ListInv(lock'[k]) /\ (lock'[k].islocked <=> owner'[k] # Nobody)
      /\ \A k \in Locks, m \in Nodes :
           Listed(m, lock'[k]) <=> Listed(m, lock[k]) \/ (k = l /\ m = n /\ ~free)
      /\ owner' = IF free THEN [owner EXCEPT ![l] = n] ELSE owner
      /\ LockReply(l) = IF free THEN "GRANTED" ELSE "WAITING"
  BY <1>2, <1>3, <1>lock, DoLock, SMTT(20)
<1>6. net' = IF free THEN (net \ {req}) \cup {grant} ELSE net \ {req}
  BY <1>0, <1>2, <1>4, <1>5
<1>7. \A m \in Nodes : m # Nobody
  BY NodeApart
<1>8. TypeInv'
  BY <1>0, <1>5 DEF TypeInv
<1>9. \A m \in Nodes : m # n =>
        (OwnsWanted(m)' <=> OwnsWanted(m)) /\ \A k \in Locks : owner'[k] = m <=> owner[k] = m
  BY <1>same, <1>3, <1>5, <1>7, SMTT(20) DEF TypeInv, OwnsWanted
<1>10. /\ ~OwnsWanted(n) /\ (free => OwnsWanted(n)')
       /\ \A k \in Locks : owner'[k] = n => k = l
       /\ ~free => owner'[l] # n /\ owner'[l] # Nobody
  BY <1>same, <1>1, <1>2, <1>3, <1>5, SMTT(20) DEF TypeInv, OwnsWanted
<1>11. NodeInv'
  <2> SUFFICES ASSUME NEW m \in Nodes PROVE NodeState(m)'
    BY DEF NodeInv
  <2>1. NodeState(m) /\ holds[m] \subseteq Locks
    BY DEF NodeInv, TypeInv
  <2>2. CASE m = n
    BY <1>same, <1>2, <2>1, <2>2 DEF NodeState
  <2>3. CASE m # n
    BY <1>same, <1>9, <2>1, <2>3 DEF NodeState
  <2> QED
    BY <2>2, <2>3
<1>12. OwnerInv'
  <2>1. \A m \in Nodes, k \in Locks :
          Request("UNLOCK_REQUEST", m, k) \in net => Request("UNLOCK_REQUEST", m, k) \in net'
    <3>1. \A m, k : Request("UNLOCK_REQUEST", m, k).type = "UNLOCK_REQUEST"
      BY DEF Request
    <3>2. \A m, k : Request("UNLOCK_REQUEST", m, k) # req
      BY <1>0, <3>1
    <3> QED
      BY <1>0, <3>2
  <2> QED
    BY <1>same, <1>1, <1>2, <1>9, <1>10, <2>1, SMTT(20) DEF OwnerInv
<1>13. QueueInv'
  <2>0. \A k \in Locks : ListInv(lock'[k]) /\ (lock'[k].islocked <=> owner'[k] # Nobody)
    BY <1>5
  <2> SUFFICES \A k \in Locks, m \in Nodes : Listed(m, lock'[k]) =>
                 /\ pc'[m] = "locking" /\ local_lockstate'[m] = "WAITING" /\ want'[m] = k
                 /\ owner'[k] # m /\ owner'[k] # Nobody
    BY <2>0, QueueNext
  <2> TAKE k \in Locks, m \in Nodes
  <2> HAVE Listed(m, lock'[k])
  <2>1. CASE k = l /\ m = n /\ ~free
    BY <1>same, <1>1, <1>2, <1>10, <2>1
  <2>2. CASE Listed(m, lock[k])
    <3>0. \A q \in Locks, p \in Nodes : Listed(p, lock[q]) =>
            /\ pc[p] = "locking" /\ local_lockstate[p] = "WAITING" /\ want[p] = q
            /\ owner[q] # p /\ owner[q] # Nobody
      BY Waiting
    <3>1. /\ pc[m] = "locking" /\ local_lockstate[m] = "WAITING" /\ want[m] = k
          /\ owner[k] # m /\ owner[k] # Nobody
      BY <2>2, <3>0
    <3>2. m # n
      <4> SUFFICES ASSUME m = n PROVE FALSE
        OBVIOUS
      <4> QED
        BY <1>2, <2>2
    <3> QED
      BY <1>same, <1>3, <1>5, <1>9, <3>1, <3>2 DEF TypeInv
  <2> QED
    BY <1>5, <2>1, <2>2
<1>14. \A r \in Replies : r.to \in Nodes /\ r.to # n
  <2> TAKE r \in Replies
  <2>1. ReplyInv(r)
    BY DEF NetInv, MessageInv, Replies, Requests
  <2> QED
    BY <1>2, <1>10, <2>1 DEF ReplyInv
<1>15. grant.type = "SETLOCKSTATE" /\ grant.to = n
  BY <1>4 DEF SetLockState
<1>16. Replies' = IF free THEN Replies \cup {grant} ELSE Replies
  BY <1>0, <1>6, <1>15 DEF Replies, Requests
<1>17. \A u, m \in Nodes : Handing(u, m)' <=> Handing(u, m)
  <2> TAKE u, m \in Nodes
  <2>1. LockHandoff(u, m) # grant /\ LockHandoff(u, m) # req
    BY <1>0, <1>15, SMTT(20) DEF LockHandoff
  <2> QED
    BY <1>0, <1>6, <2>1 DEF Handing
<1>18. \A u \in Nodes : ~Handing(u, n)
  BY <1>10 DEF HandingInv
<1>19. NetInv'
  <2>1. free => MessageInv(grant)'
    BY <1>0, <1>2, <1>4, <1>10, <1>15, <1>17, <1>18 DEF MessageInv, ReplyInv
  <2>2. ASSUME NEW m \in net, m # req PROVE MessageInv(m)'
    <3>1. MessageInv(m)
      BY DEF NetInv
    <3>2. CASE m.type = "LOCK_REQUEST" /\ LockRequestInv(m)
      <4>1. m.from # n
        BY <1>1, <1>2, <2>2, <3>2 DEF LockRequestInv
      <4> QED
        BY <1>same, <1>5, <1>9, <3>2, <4>1, SMTT(20) DEF MessageInv, LockRequestInv
    <3>3. CASE m.type = "UNLOCK_REQUEST" /\ UnlockRequestInv(m)
      <4>1. m.from # n
        BY <1>2, <3>3 DEF UnlockRequestInv
      <4> QED
        BY <1>0, <1>9, <1>15, <1>16, <3>3, <4>1 DEF MessageInv, UnlockRequestInv
    <3>4. CASE m.type \in {"SETLOCKSTATE", "LOCKHANDOFF"} /\ ReplyInv(m)
      <4>1. m.to # n
        BY <1>14, <3>4 DEF Replies, Requests
      <4> QED
        BY <1>0, <1>9, <1>17, <3>4, <4>1 DEF MessageInv, ReplyInv
    <3> QED
      BY <3>1, <3>2, <3>3, <3>4 DEF MessageInv
  <2> QED
    BY <1>6, <2>1, <2>2 DEF NetInv
<1>20. OneReply'
  BY <1>14, <1>15, <1>16 DEF OneReply
<1>21. HandingInv'
  BY <1>same, <1>9, <1>17, <1>18, SMTT(20) DEF HandingInv
<1> QED
  BY <1>8, <1>11, <1>12, <1>13, <1>19, <1>20, <1>21


\* The node that has the lock frees it for node n, or tells n who is next.
LEMMA HandleUnlockRequestIInv ==
  ASSUME IInv, NEW n \in Nodes, HandleUnlockRequest(n) PROVE IInv'
<1> USE DEF IInv
<1>0. PICK req \in net :
        /\ req.type = "UNLOCK_REQUEST" /\ req.from = n
        /\ do_unlock(req.lock)
        /\ net' = (net \ {req}) \cup
             (IF IsEmpty(lock[req.lock])
              THEN {SetLockState(n, UnlockReply(req.lock))}
              ELSE {LockHandoff(n, HeadWaiter(req.lock))})
        /\ UNCHANGED <<pc, local_lockstate, local_handoffarg, want, holds>>
  BY DEF HandleUnlockRequest
<1>1. PICK l : l = want[n]
  OBVIOUS
<1>2. /\ pc[n] = "unlocking" /\ local_lockstate[n] = "WAITING" /\ l \in Locks
      /\ req = Request("UNLOCK_REQUEST", n, l) /\ req.lock = l
      /\ owner[l] = n /\ \A r \in Replies : r.to # n
  <2>1. UnlockRequestInv(req)
    BY <1>0 DEF NetInv, MessageInv
  <2>2. /\ req = Request("UNLOCK_REQUEST", n, l) /\ pc[n] = "unlocking"
        /\ local_lockstate[n] = "WAITING"
        /\ owner[l] = n /\ l \in Locks /\ \A r \in Replies : r.to # n
    BY <1>0, <1>1, <2>1 DEF UnlockRequestInv, OwnsWanted
  <2>3. req.lock = l
    BY <2>2 DEF Request
  <2> QED
    BY <2>2, <2>3
<1>same. UNCHANGED <<pc, local_lockstate, local_handoffarg, want, holds>>
  BY <1>0
<1>unlock. do_unlock(l)
  BY <1>0, <1>2
<1>3. \A k \in Locks : owner[k] = n => k = l
  BY <1>1, <1>2 DEF OwnerInv
<1>4. PICK next : next = owner'[l]
  OBVIOUS
<1>5. PICK reply : reply = IF next = Nobody THEN SetLockState(n, "DONE") ELSE LockHandoff(n, next)
  OBVIOUS
<1>6. \A m \in Nodes : m # Nobody
  BY NodeApart
<1>7. /\ lock' \in [Locks -> LockType] /\ owner' \in [Locks -> Nodes \cup {Nobody}]
      /\ \A k \in Locks : ListInv(lock'[k]) /\ (lock'[k].islocked <=> owner'[k] # Nobody)
      /\ \A k \in Locks, m \in Nodes :
           Listed(m, lock'[k]) => Listed(m, lock[k]) /\ owner'[k] \notin {m, Nobody}
      /\ \A k \in Locks : k # l => owner'[k] = owner[k]
      /\ next # n
      /\ \/ IsEmpty(lock[l]) /\ next = Nobody /\ UnlockReply(l) = "DONE"
         \/ /\ ~IsEmpty(lock[l]) /\ next = HeadWaiter(l)
            /\ next \in Nodes
            /\ pc[next] = "locking" /\ local_lockstate[next] = "WAITING" /\ want[next] = l
            /\ \A k \in Locks : owner[k] # next
            /\ \E k \in Locks : Listed(next, lock[k])
  BY <1>2, <1>4, <1>unlock, Released, SMTT(20)
<1>own. /\ \A k \in Locks : k # l => owner'[k] = owner[k]
        /\ next # n
        /\ next # Nobody =>
             /\ next \in Nodes /\ pc[next] = "locking" /\ local_lockstate[next] = "WAITING"
             /\ want[next] = l /\ \A k \in Locks : owner[k] # next
  BY <1>7
<1>list. \A k \in Locks, m \in Nodes : Listed(m, lock'[k]) => Listed(m, lock[k])
  BY <1>7
<1>8. net' = (net \ {req}) \cup {reply}
  BY <1>0, <1>2, <1>5, <1>6, <1>7
<1>9. TypeInv'
  BY <1>0, <1>7 DEF TypeInv
<1>10. \A m \in Nodes : m # n => (OwnsWanted(m)' <=> OwnsWanted(m) \/ m = next)
  BY <1>same, <1>2, <1>4, <1>6, <1>own, SMTT(20) DEF OwnsWanted
<1>11. NodeInv'
  <2> SUFFICES ASSUME NEW m \in Nodes PROVE NodeState(m)'
    BY DEF NodeInv
  <2>1. NodeState(m) /\ \A k \in holds[m] : k \in Locks /\ (pc[m] = "run" => owner[k] = m)
    BY DEF NodeInv, NodeState, TypeInv
  <2>2. CASE m = n
    BY <1>0, <1>2, <2>1, <2>2 DEF NodeState
  <2>3. CASE m # n
    BY <1>same, <1>2, <1>own, <1>10, <2>1, <2>3, SMTT(20) DEF NodeState
  <2> QED
    BY <2>2, <2>3
<1>12. OwnerInv'
  <2>1. \A m \in Nodes, k \in Locks :
          /\ m # n /\ Request("UNLOCK_REQUEST", m, k) \in net
          => Request("UNLOCK_REQUEST", m, k) \in net'
    <3>1. \A m, k : Request("UNLOCK_REQUEST", m, k).from = m
      BY DEF Request
    <3>2. \A m, k : m # n => Request("UNLOCK_REQUEST", m, k) # req
      BY <1>0, <3>1
    <3> QED
      BY <1>8, <3>2
  <2> SUFFICES ASSUME NEW m \in Nodes, NEW k \in Locks, owner'[k] = m
               PROVE  \/ pc[m] = "run" /\ k \in holds[m]
                      \/ pc[m] \in {"locking", "unlock_request"} /\ want[m] = k
                      \/ pc[m] = "unlocking" /\ want[m] = k /\ Request("UNLOCK_REQUEST", m, k) \in net'
    BY <1>same DEF OwnerInv
  <2>2. CASE k = l
    BY <1>4, <1>6, <1>7, <2>2
  <2>3. CASE k # l
    <3>1. owner[k] = m /\ m # n
      BY <1>3, <1>7, <2>3
    <3> QED
      BY <2>1, <3>1 DEF OwnerInv
  <2> QED
    BY <2>2, <2>3
<1>13. QueueInv'
  <2>1. \A k \in Locks, m \in Nodes : Listed(m, lock[k]) =>
          pc[m] = "locking" /\ local_lockstate[m] = "WAITING" /\ want[m] = k
    BY Waiting
  <2>2. \A k \in Locks, m \in Nodes : Listed(m, lock'[k]) =>
          /\ pc'[m] = "locking" /\ local_lockstate'[m] = "WAITING" /\ want'[m] = k
          /\ owner'[k] # m /\ owner'[k] # Nobody
    <3> TAKE k \in Locks, m \in Nodes
    <3> HAVE Listed(m, lock'[k])
    <3>1. Listed(m, lock[k]) /\ owner'[k] # m /\ owner'[k] # Nobody
      BY <1>7
    <3>2. pc[m] = "locking" /\ local_lockstate[m] = "WAITING" /\ want[m] = k
      BY <2>1, <3>1
    <3> QED
      BY <1>same, <3>1, <3>2
  <2> QED
    BY <1>7, <2>2, QueueNext
<1>14. \A r \in Replies : r.to \in Nodes /\ r.to # n /\ r.to # next
  <2> TAKE r \in Replies
  <2>1. ReplyInv(r) /\ r.to \in Nodes /\ r.to # n
    <3>1. ReplyInv(r)
      BY DEF NetInv, MessageInv, Replies, Requests
    <3> QED
      BY <1>2, <3>1 DEF ReplyInv
  <2>2. CASE r.to # next
    BY <2>1, <2>2
  <2>3. CASE r.to = next
    <3>1. next # Nobody
      BY <1>6, <2>1, <2>3
    <3>2. pc[next] = "locking" /\ ~OwnsWanted(next)
      BY <1>own, <3>1 DEF OwnsWanted
    <3> QED
      BY <2>1, <2>3, <3>2 DEF ReplyInv
  <2> QED
    BY <2>2, <2>3
<1>15. reply.to = n /\ reply.type \in {"SETLOCKSTATE", "LOCKHANDOFF"}
  BY <1>5 DEF SetLockState, LockHandoff
<1>16. Replies' = Replies \cup {reply}
  BY <1>0, <1>8, <1>15 DEF Replies, Requests
<1>17. \A u, m \in Nodes : Handing(u, m)' <=> Handing(u, m) \/ (u = n /\ m = next)
  <2> TAKE u, m \in Nodes
  <2>1. LockHandoff(u, m) # req /\ (u = n => LockHandoff(u, m) \notin net)
    BY <1>0, <1>2, SMTT(20) DEF LockHandoff, Replies, Requests
  <2>2. LockHandoff(u, m) = reply <=> u = n /\ m = next
    BY <1>5, <1>6 DEF LockHandoff, SetLockState
  <2> QED
    BY <1>0, <1>2, <1>8, <2>1, <2>2 DEF Handing
<1>18. NetInv'
  <2>1. MessageInv(reply)'
    <3>1. ReplyInv(reply)'
      <4>1. CASE next = Nobody
        BY <1>0, <1>2, <1>5, <1>15, <4>1 DEF ReplyInv
      <4>2. CASE next # Nobody
        <5>1. reply = LockHandoff(n, next) /\ reply.next = next /\ next \in Nodes
          BY <1>5, <1>7, <4>2 DEF LockHandoff
        <5> QED
          BY <1>0, <1>2, <1>15, <5>1 DEF ReplyInv
      <4> QED
        BY <4>1, <4>2
    <3> QED
      BY <1>15, <3>1 DEF MessageInv
  <2>2. ASSUME NEW m \in net, m # req PROVE MessageInv(m)'
    <3>1. MessageInv(m)
      BY DEF NetInv
    <3>2. CASE m.type = "LOCK_REQUEST" /\ LockRequestInv(m)
      <4>1. m.from # n /\ m.from # next
        BY <1>2, <1>6, <1>7, <3>2 DEF LockRequestInv
      <4> QED
        BY <1>same, <1>4, <1>own, <1>list, <3>2, <4>1, SMTT(20) DEF MessageInv, LockRequestInv
    <3>3. CASE m.type = "UNLOCK_REQUEST" /\ UnlockRequestInv(m)
      <4>1. m.from # n
        BY <1>1, <1>2, <2>2, <3>3 DEF UnlockRequestInv
      <4> QED
        BY <1>0, <1>10, <1>15, <1>16, <3>3, <4>1 DEF MessageInv, UnlockRequestInv
    <3>4. CASE m.type \in {"SETLOCKSTATE", "LOCKHANDOFF"} /\ ReplyInv(m)
      <4>1. m.to # n /\ m.to # next
        BY <1>14, <3>4 DEF Replies, Requests
      <4> QED
        BY <1>0, <1>10, <1>17, <3>4, <4>1 DEF MessageInv, ReplyInv
    <3> QED
      BY <3>1, <3>2, <3>3, <3>4 DEF MessageInv
  <2> QED
    BY <1>8, <2>1, <2>2 DEF NetInv
<1>19. OneReply'
  BY <1>14, <1>15, <1>16 DEF OneReply
<1>20. HandingInv'
  <2>1. \A u, m \in Nodes : Handing(u, m) => m # n /\ m # next
    <3>1. next # Nobody => ~OwnsWanted(next)
      BY <1>own DEF OwnsWanted
    <3>2. \A u, m \in Nodes : Handing(u, m) => pc[m] = "locking" /\ OwnsWanted(m)
      BY DEF HandingInv
    <3> QED
      BY <1>2, <1>6, <3>1, <3>2
  <2> QED
    BY <1>same, <1>6, <1>own, <1>10, <1>17, <2>1, SMTT(20) DEF HandingInv
<1> QED
  BY <1>9, <1>11, <1>12, <1>13, <1>18, <1>19, <1>20

\* Every step of the locks keeps the invariant.
LEMMA NextIInv == ASSUME Fits, SameElement, IInv, [Next]_vars PROVE IInv'
<1>1. ASSUME NEW n \in Nodes, holds[n] = {}, NEW l \in Locks, LockOwn(n, l) \/ LockRemote(n, l)
      PROVE  IInv'
  BY <1>1, LockOwnIInv, LockRemoteIInv
<1>2. ASSUME NEW n \in Nodes, Unlock(n) PROVE IInv'
  BY <1>2, UnlockOwnIInv, UnlockRemoteIInv DEF Unlock
<1>3. ASSUME NEW n \in Nodes, Continue(n) PROVE IInv'
  BY <1>3, SendLockRequestIInv, SendUnlockRequestIInv, LockedIInv, UnlockedIInv DEF Continue
<1>4. ASSUME NEW n \in Nodes, Handlers(n) PROVE IInv'
  BY <1>4, HandleLockRequestIInv, HandleUnlockRequestIInv, HandleSetLockStateIInv,
     HandleLockHandoffIInv DEF Handlers
<1>5. CASE UNCHANGED vars
  <2> USE <1>5 DEF vars, IInv
  <2>1. TypeInv' /\ OwnerInv' /\ QueueInv'
    <3>1. TypeInv'
      BY DEF TypeInv
    <3>2. OwnerInv'
      BY DEF OwnerInv
    <3>3. QueueInv'
      BY QueueSame
    <3> QED
      BY <3>1, <3>2, <3>3
  <2>2. NodeInv'
    BY DEF NodeInv, NodeState, OwnsWanted
  <2>3. \A u, n \in Nodes : Handing(u, n)' <=> Handing(u, n)
    BY DEF Handing
  <2>4. ASSUME NEW m \in net PROVE MessageInv(m)'
    <3>1. MessageInv(m)
      BY DEF NetInv
    <3>2. LockRequestInv(m)' <=> LockRequestInv(m)
      BY DEF LockRequestInv
    <3>3. UnlockRequestInv(m)' <=> UnlockRequestInv(m)
      BY DEF UnlockRequestInv, OwnsWanted, Replies
    <3>4. ReplyInv(m)' <=> ReplyInv(m)
      BY <2>3 DEF ReplyInv, OwnsWanted
    <3> QED
      BY <3>1, <3>2, <3>3, <3>4 DEF MessageInv
  <2>5. NetInv'
    BY <2>4 DEF NetInv
  <2>6. OneReply' /\ HandingInv'
    BY <2>3 DEF OneReply, Replies, HandingInv, OwnsWanted
  <2> QED
    BY <2>1, <2>2, <2>5, <2>6
<1> QED
  BY <1>1, <1>2, <1>3, <1>4, <1>5 DEF Next

(***************************************************************************)
(* The circular list is a queue in the order of arrival.                   *)
(***************************************************************************)
Entries == Nodes \cup {Nobody}

\* The waiters of a list are a sequence as long as the list is filled, with the first
\* waiter at the head.
LEMMA WaitersAre ==
  ASSUME NEW k, ListInv(k)
  PROVE  /\ Length(k) \in Nat /\ Length(k) < k.wait_size
         /\ Waiters(k) \in Seq(Entries) /\ Len(Waiters(k)) = Length(k)
         /\ \A i \in 1 .. Length(k) : /\ Wrap(k, k.wait_head + i - 1) \in Cells(k)
                                      /\ Waiters(k)[i] = k.wait_list[Wrap(k, k.wait_head + i - 1)]
         /\ IsEmpty(k) <=> Waiters(k) = << >>
         /\ ~IsEmpty(k) => Head(Waiters(k)) = k.wait_list[k.wait_head]
<1>1. /\ k.wait_size \in 1 .. N /\ k.wait_head \in Cells(k) /\ k.wait_tail \in Cells(k)
      /\ k.wait_list \in [Cells(k) -> Entries]
  BY NAssumption, ChunkAssumption, SMTT(20) DEF ListInv, smaller, Cells, Entries
<1>2. PICK s, h, t : s = k.wait_size /\ h = k.wait_head /\ t = k.wait_tail
  OBVIOUS
<1>3. s \in Nat /\ s > 0 /\ h \in 0 .. s-1 /\ t \in 0 .. s-1
  BY <1>1, <1>2, NAssumption, SMTT(20) DEF Cells
<1>4. Length(k) = IF h <= t THEN t - h ELSE t + s - h
  BY <1>2 DEF Length
<1>5. Length(k) \in Nat /\ Length(k) < s
  BY <1>3, <1>4, SMTT(20)
<1>6. PICK length \in Nat : length = Length(k)
  BY <1>5
<1>7. \A i \in 1 .. length : Wrap(k, h + i - 1) \in 0 .. s-1
  BY <1>2, <1>3, <1>5, <1>6, SMTT(20) DEF Wrap
<1>8. Waiters(k) = [i \in 1 .. length |-> k.wait_list[Wrap(k, h + i - 1)]]
  BY <1>2, <1>6 DEF Waiters
<1>9. Waiters(k) \in Seq(Entries) /\ Len(Waiters(k)) = length
  BY <1>1, <1>2, <1>7, <1>8, SMTT(20) DEF Cells
<1>10. h = t <=> length = 0
  BY <1>3, <1>4, <1>6, SMTT(20)
<1>11. Waiters(k) = << >> <=> length = 0
  BY <1>9, SMTT(20)
<1>12. length # 0 => Head(Waiters(k)) = k.wait_list[h]
  BY <1>2, <1>3, <1>8, <1>9, SMTT(20) DEF Wrap
<1> QED
  BY <1>2, <1>5, <1>6, <1>7, <1>8, <1>9, <1>10, <1>11, <1>12 DEF IsEmpty, Cells

\* Popping takes the first waiter out.
LEMMA WaitersPop ==
  ASSUME NEW k, ListInv(k), ~IsEmpty(k) PROVE Waiters(Pop(k)) = Tail(Waiters(k))
<1>1. PICK p : p = Pop(k)
  OBVIOUS
<1>2. PICK s, h, t : s = k.wait_size /\ h = k.wait_head /\ t = k.wait_tail
  OBVIOUS
<1>3. /\ k \in LockType /\ s \in Nat /\ s > 0 /\ h \in 0 .. s-1 /\ t \in 0 .. s-1 /\ h # t
      /\ k.wait_list \in [0 .. s-1 -> Entries]
  BY <1>2, NAssumption, ChunkAssumption, SMTT(20) DEF ListInv, smaller, Cells, Entries, IsEmpty
<1>4. /\ p.wait_size = s /\ p.wait_tail = t /\ p.wait_head = IF h + 1 = s THEN 0 ELSE h + 1
      /\ p.wait_list = [k.wait_list EXCEPT ![h] = Nobody]
  BY <1>1, <1>2, <1>3 DEF Pop, LockType, After
<1>5. ListInv(p)
  BY <1>1, PopKeeps
<1>6. Length(p) = Length(k) - 1 /\ Length(k) \in Nat /\ Length(k) > 0 /\ Length(k) < s
  <2>1. PICK g : g = IF h + 1 = s THEN 0 ELSE h + 1
    OBVIOUS
  <2>2. /\ Length(k) = IF t >= h THEN t - h ELSE t + s - h
        /\ Length(p) = IF t >= g THEN t - g ELSE t + s - g
    BY <1>2, <1>4, <2>1 DEF Length
  <2>3. s \in Nat /\ h \in 0 .. s-1 /\ t \in 0 .. s-1 /\ h # t
    BY <1>3
  <2>4. CASE t >= h
    <3>1. h + 1 # s /\ t >= h + 1
      BY <2>3, <2>4, SMTT(20)
    <3>2. Length(k) = t - h /\ Length(p) = t - (h + 1)
      BY <2>1, <2>2, <2>4, <3>1
    <3> QED
      BY <2>3, <3>1, <3>2, SMTT(20)
  <2>5. CASE ~(t >= h) /\ h + 1 = s
    <3>1. t >= 0
      BY <2>3, SMTT(20)
    <3>2. Length(k) = t + s - h /\ Length(p) = t - 0
      BY <2>1, <2>2, <2>5, <3>1
    <3> QED
      BY <2>3, <2>5, <3>2, SMTT(20)
  <2>6. CASE ~(t >= h) /\ h + 1 # s
    <3>1. ~(t >= h + 1)
      BY <2>3, <2>6, SMTT(20)
    <3>2. Length(k) = t + s - h /\ Length(p) = t + s - (h + 1)
      BY <2>1, <2>2, <2>6, <3>1
    <3> QED
      BY <2>3, <2>6, <3>2, SMTT(20)
  <2> QED
    BY <2>4, <2>5, <2>6
<1>7. ASSUME NEW i \in Nat, i > 0, i <= Length(p)
      PROVE  /\ Wrap(p, p.wait_head + i - 1) = Wrap(k, h + (i + 1) - 1)
             /\ Wrap(k, h + (i + 1) - 1) \in 0 .. s-1
             /\ Wrap(k, h + (i + 1) - 1) # h
  <2>1. PICK g \in Nat : g = p.wait_head /\ g = IF h + 1 = s THEN 0 ELSE h + 1
    BY <1>3, <1>4, SMTT(20)
  <2>2. /\ Wrap(p, p.wait_head + i - 1) = IF g + i - 1 < s THEN g + i - 1 ELSE g + i - 1 - s
        /\ Wrap(k, h + (i + 1) - 1) = IF h + i < s THEN h + i ELSE h + i - s
    BY <1>2, <1>3, <1>4, <2>1, SMTT(20) DEF Wrap
  <2>3. i < s
    BY <1>3, <1>6, <1>7, SMTT(20)
  <2>4. PICK x, y : x = Wrap(p, p.wait_head + i - 1) /\ y = Wrap(k, h + (i + 1) - 1)
    OBVIOUS
  <2>5. /\ s \in Nat /\ h \in Nat /\ h < s
        /\ x = IF g + i - 1 < s THEN g + i - 1 ELSE g + i - 1 - s
        /\ y = IF h + i < s THEN h + i ELSE h + i - s
    BY <1>3, <2>2, <2>4, SMTT(20)
  <2>6. x = y /\ y \in 0 .. s-1 /\ y # h
    <3>1. CASE h + 1 = s
      BY <1>7, <2>1, <2>3, <2>5, <3>1, SMTT(20)
    <3>2. CASE h + 1 # s
      BY <1>7, <2>1, <2>3, <2>5, <3>2, SMTT(20)
    <3> QED
      BY <3>1, <3>2
  <2> QED
    BY <2>4, <2>6
<1>8. ASSUME NEW i \in 1 .. Length(p) PROVE Waiters(p)[i] = Waiters(k)[i + 1]
  <2>1. i \in Nat /\ i > 0 /\ i <= Length(p) /\ i + 1 \in 1 .. Length(k)
    BY <1>6, SMTT(20)
  <2>2. PICK j \in 0 .. s-1 : j = Wrap(k, h + (i + 1) - 1) /\ j = Wrap(p, p.wait_head + i - 1) /\ j # h
    BY <1>7, <2>1
  <2>3. Waiters(p)[i] = p.wait_list[j]
    BY <1>5, <2>2, WaitersAre, SMTT(20)
  <2>4. Waiters(k)[i + 1] = k.wait_list[j]
    BY <1>2, <2>1, <2>2, WaitersAre
  <2> QED
    BY <1>3, <1>4, <2>2, <2>3, <2>4
<1>9. Waiters(p) = Tail(Waiters(k))
  <2>1. /\ Waiters(k) \in Seq(Entries) /\ Waiters(k) # << >> /\ Len(Waiters(k)) = Length(k)
        /\ Waiters(p) \in Seq(Entries) /\ Len(Waiters(p)) = Length(p)
    BY <1>5, WaitersAre
  <2>2. /\ Tail(Waiters(k)) \in Seq(Entries) /\ Len(Tail(Waiters(k))) = Length(p)
        /\ \A i \in 1 .. Length(p) : Tail(Waiters(k))[i] = Waiters(k)[i + 1]
    BY <1>6, <2>1, SMTT(20)
  <2> QED
    BY <1>8, <2>1, <2>2, SMTT(20)
<1> QED
  BY <1>1, <1>9

\* A list of the same size, or a larger one with its head at 0, is a queue with the new
\* waiter at its end if its cells in order are the old ones and the new waiter.
LEMMA WaitersAppend ==
  ASSUME NEW k, ListInv(k), NEW p, ListInv(p), NEW n \in Nodes,
         Length(p) = Length(k) + 1,
         \A i \in 1 .. Length(k) :
           p.wait_list[Wrap(p, p.wait_head + i - 1)] = k.wait_list[Wrap(k, k.wait_head + i - 1)],
         p.wait_list[Wrap(p, p.wait_head + Length(k))] = n
  PROVE  Waiters(p) = Append(Waiters(k), n)
<1>1. PICK length \in Nat : length = Length(k)
  BY WaitersAre
<1>2. /\ Waiters(k) \in Seq(Entries) /\ Len(Waiters(k)) = length
      /\ \A i \in 1 .. length : Waiters(k)[i] = k.wait_list[Wrap(k, k.wait_head + i - 1)]
  BY <1>1, WaitersAre
<1>3. /\ Waiters(p) \in Seq(Entries) /\ Len(Waiters(p)) = length + 1
      /\ \A i \in 1 .. length + 1 : Waiters(p)[i] = p.wait_list[Wrap(p, p.wait_head + i - 1)]
  BY <1>1, WaitersAre, SMTT(20)
<1>4. \A i \in 1 .. length : Waiters(p)[i] = Waiters(k)[i]
  BY <1>1, <1>2, <1>3, SMTT(20)
<1>5. Waiters(p)[length + 1] = n
  <2>1. p.wait_head \in Int
    BY NAssumption, SMTT(20) DEF ListInv, Cells
  <2>2. p.wait_head + (length + 1) - 1 = p.wait_head + length
    BY <2>1, SMTT(20)
  <2> QED
    BY <1>1, <1>3, <2>2, SMTT(20)
<1>6. n \in Entries
  BY DEF Entries
<1>7. /\ Append(Waiters(k), n) \in Seq(Entries) /\ Len(Append(Waiters(k), n)) = length + 1
      /\ \A i \in 1 .. length : Append(Waiters(k), n)[i] = Waiters(k)[i]
      /\ Append(Waiters(k), n)[length + 1] = n
  BY <1>2, <1>6, SMTT(20)
<1>8. \A i \in 1 .. length + 1 : Waiters(p)[i] = Append(Waiters(k), n)[i]
  BY <1>4, <1>5, <1>7, SMTT(20)
<1> QED
  BY <1>3, <1>7, <1>8, SMTT(20)


\* Pushing appends a waiter, whether or not the list has to grow.
LEMMA WaitersPush ==
  ASSUME Fits, NEW k, ListInv(k), NEW n \in Nodes, ~Listed(n, k),
         NEW o \in Nodes, o # n, ~Listed(o, k)
  PROVE  Waiters(Push(k, n)) = Append(Waiters(k), n)
<1>1. PICK s, h, t, w : s = k.wait_size /\ h = k.wait_head /\ t = k.wait_tail /\ w = k.wait_list
  OBVIOUS
<1>2. /\ k \in LockType /\ s \in Nat /\ s > 0 /\ h \in 0 .. s-1 /\ t \in 0 .. s-1
      /\ w \in [0 .. s-1 -> Entries]
  BY <1>1, NAssumption, ChunkAssumption, SMTT(20) DEF ListInv, smaller, Cells, Entries
<1>3. PICK u : u = IF t + 1 = s THEN 0 ELSE t + 1
  OBVIOUS
<1>4. PICK v : v = [w EXCEPT ![t] = n]
  OBVIOUS
<1>5. PICK a : a = [k EXCEPT !.wait_list[k.wait_tail] = n, !.wait_tail = After(k, k.wait_tail)]
  OBVIOUS
<1>6. /\ a.wait_size = s /\ a.wait_head = h /\ a.wait_tail = u /\ a.wait_list = v
      /\ a = [islocked |-> k.islocked, wait_size |-> s, wait_head |-> h, wait_tail |-> u,
              wait_list |-> v]
  <2>1. k = [islocked |-> k.islocked, wait_size |-> s, wait_head |-> h, wait_tail |-> t,
             wait_list |-> w]
    BY <1>1, <1>2 DEF LockType
  <2>2. After(k, k.wait_tail) = u
    BY <1>1, <1>3 DEF After
  <2> QED
    BY <1>1, <1>4, <1>5, <2>1, <2>2
<1>7. PICK p : p = Push(k, n)
  OBVIOUS
<1>8. p = IF u = h THEN Grow(a) ELSE a
  BY <1>5, <1>6, <1>7 DEF Push, Added
<1>9. ListInv(p)
  BY <1>7, PushKeeps
<1>10. PICK length \in Nat : length = Length(k) /\ length = IF h <= t THEN t - h ELSE t + s - h
  BY <1>1, <1>2, SMTT(20) DEF Length
<1>11. ASSUME NEW i \in Nat, i < length
       PROVE  (IF h + i < s THEN h + i ELSE h + i - s) \in (0 .. s-1) \ {t}
  BY <1>2, <1>10, <1>11, SMTT(20)
<1>12. t = (IF h + length < s THEN h + length ELSE h + length - s) /\ v[t] = n
  BY <1>2, <1>4, <1>10, SMTT(20)
<1>13. ASSUME NEW i \in 1 .. length
       PROVE  \E j \in (0 .. s-1) \ {t} :
                /\ j = (IF h + i - 1 < s THEN h + i - 1 ELSE h + i - 1 - s)
                /\ j = Wrap(k, k.wait_head + i - 1)
                /\ v[j] = k.wait_list[Wrap(k, k.wait_head + i - 1)]
  <2>1. PICK j : j = IF h + i - 1 < s THEN h + i - 1 ELSE h + i - 1 - s
    OBVIOUS
  <2>2. PICK e \in Nat : e = i - 1 /\ e < length
    BY <1>10, SMTT(20)
  <2>3. j \in (0 .. s-1) \ {t}
    BY <1>2, <1>11, <2>1, <2>2
  <2>4. j = Wrap(k, k.wait_head + i - 1)
    BY <1>1, <1>2, <2>1, SMTT(20) DEF Wrap
  <2> QED
    BY <1>1, <1>2, <1>4, <2>1, <2>3, <2>4, SMTT(20)
<1>14. CASE u # h
  <2>1. Length(p) = length + 1
    BY <1>2, <1>3, <1>6, <1>8, <1>10, <1>14, SMTT(20) DEF Length
  <2>2. ASSUME NEW i \in 1 .. length
        PROVE  p.wait_list[Wrap(p, p.wait_head + i - 1)] = k.wait_list[Wrap(k, k.wait_head + i - 1)]
    <3>1. PICK j : /\ j = (IF h + i - 1 < s THEN h + i - 1 ELSE h + i - 1 - s)
                   /\ v[j] = k.wait_list[Wrap(k, k.wait_head + i - 1)]
      BY <1>13
    <3>2. Wrap(p, p.wait_head + i - 1) = j /\ p.wait_list = v
      BY <1>2, <1>6, <1>8, <1>14, <3>1, SMTT(20) DEF Wrap
    <3> QED
      BY <3>1, <3>2
  <2>3. p.wait_list[Wrap(p, p.wait_head + length)] = n
    BY <1>2, <1>6, <1>8, <1>12, <1>14, SMTT(20) DEF Wrap
  <2> QED
    BY <1>7, <1>9, <1>10, <2>1, <2>2, <2>3, WaitersAppend
<1>15. CASE u = h
  <2>1. length + 1 = s
    BY <1>2, <1>3, <1>10, <1>15, SMTT(20)
  <2>2. PICK size : size = smaller(s + Chunk, N)
    OBVIOUS
  <2>3. PICK g : g = [i \in 0 .. size-1 |->
                        CASE i < s - h           -> v[h + i]
                          [] i \in s - h .. s-1  -> v[i - (s - h)]
                          [] OTHER               -> Nobody]
    OBVIOUS
  <2>4. p = [a EXCEPT !.wait_size = size, !.wait_head = 0, !.wait_tail = s, !.wait_list = g]
    BY <1>6, <1>8, <1>15, <2>2, <2>3, SMTT(20) DEF Grow, GrowTo
  <2>5. p.wait_size = size /\ p.wait_head = 0 /\ p.wait_tail = s /\ p.wait_list = g
    BY <1>6, <2>4
  <2>6. size \in Nat /\ s < size
    BY <1>9, <2>5, NAssumption, SMTT(20) DEF ListInv, Cells, smaller
  <2>7. Length(p) = length + 1
    BY <1>2, <2>1, <2>5, SMTT(20) DEF Length
  <2>8. ASSUME NEW e \in Nat, e < s
        PROVE  g[e] = v[IF h + e < s THEN h + e ELSE h + e - s]
    <3>1. e \in 0 .. size-1
      BY <1>2, <2>6, <2>8, SMTT(20)
    <3>2. CASE e < s - h
      BY <1>2, <2>3, <3>1, <3>2, SMTT(20)
    <3>3. CASE ~(e < s - h)
      <4>1. e \in s - h .. s-1 /\ h + e - s = e - (s - h) /\ ~(h + e < s)
        BY <1>2, <2>8, <3>3, SMTT(20)
      <4>2. g[e] = v[e - (s - h)]
        BY <2>3, <3>1, <3>3, <4>1, SMTT(20)
      <4> QED
        BY <4>1, <4>2
    <3> QED
      BY <3>2, <3>3
  <2>9. ASSUME NEW i \in 1 .. length
        PROVE  p.wait_list[Wrap(p, p.wait_head + i - 1)] = k.wait_list[Wrap(k, k.wait_head + i - 1)]
    <3>1. PICK j : /\ j = (IF h + i - 1 < s THEN h + i - 1 ELSE h + i - 1 - s)
                   /\ v[j] = k.wait_list[Wrap(k, k.wait_head + i - 1)]
      BY <1>13
    <3>2. PICK e \in Nat : e = i - 1 /\ e < s
      BY <2>1, SMTT(20)
    <3>3. Wrap(p, p.wait_head + i - 1) = e
      BY <2>5, <2>6, <1>2, <3>2, SMTT(20) DEF Wrap
    <3>4. g[e] = v[j]
      <4>1. j = IF h + e < s THEN h + e ELSE h + e - s
        BY <1>2, <3>1, <3>2, SMTT(20)
      <4> QED
        BY <2>8, <3>2, <4>1
    <3> QED
      BY <2>5, <3>1, <3>3, <3>4
  <2>10. p.wait_list[Wrap(p, p.wait_head + length)] = n
    <3>1. Wrap(p, p.wait_head + length) = length /\ length < s
      BY <1>2, <2>1, <2>5, <2>6, SMTT(20) DEF Wrap
    <3> QED
      BY <1>12, <2>5, <2>8, <3>1, SMTT(20)
  <2> QED
    BY <1>7, <1>9, <1>10, <2>7, <2>9, <2>10, WaitersAppend
<1> QED
  BY <1>14, <1>15


\* do_lock takes a free lock or joins the queue.
LEMMA DoLockRefines ==
  ASSUME Fits, IInv, NEW n \in Nodes, NEW l \in Locks, do_lock(n, l),
         owner[l] # n, ~Listed(n, lock[l])
  PROVE  Abstract!Next
<1>1. /\ owner \in [Locks -> Nodes \cup {Nobody}] /\ lock \in [Locks -> LockType]
      /\ \A k \in Locks : ListInv(lock[k]) /\ (lock[k].islocked <=> owner[k] # Nobody)
  BY DEF IInv, TypeInv, QueueInv
<1>2. CASE owner[l] = Nobody
  <2>1. lock' = [lock EXCEPT ![l] = [lock[l] EXCEPT !.islocked = TRUE]]
        /\ owner' = [owner EXCEPT ![l] = n]
    BY <1>1, <1>2 DEF do_lock
  <2>2. \A k \in Locks : Waiters(lock'[k]) = Waiters(lock[k])
    <3>1. PICK a : a = [lock[l] EXCEPT !.islocked = TRUE]
      OBVIOUS
    <3>2. /\ a.wait_size = lock[l].wait_size /\ a.wait_head = lock[l].wait_head
          /\ a.wait_tail = lock[l].wait_tail /\ a.wait_list = lock[l].wait_list
      BY <1>1, <3>1 DEF LockType
    <3>3. Waiters(a) = Waiters(lock[l])
      BY <3>2 DEF Waiters, Length, Wrap
    <3> QED
      BY <1>1, <2>1, <3>1, <3>3, SMTT(20)
  <2> QED
    BY <1>2, <2>1, <2>2 DEF Abstract!Next, Abstract!Acquire
<1>3. CASE owner[l] # Nobody
  <2>1. lock' = [lock EXCEPT ![l] = Push(lock[l], n)] /\ owner' = owner
    BY <1>1, <1>3 DEF do_lock
  <2>2. owner[l] \in Nodes /\ ~Listed(owner[l], lock[l])
    BY <1>1, <1>3, SMTT(20) DEF IInv, QueueInv
  <2>3. Waiters(Push(lock[l], n)) = Append(Waiters(lock[l]), n)
    BY <1>1, <2>2, WaitersPush
  <2>4. \A k \in Locks : Waiters(lock'[k]) =
          IF k = l THEN Append(Waiters(lock[l]), n) ELSE Waiters(lock[k])
    BY <1>1, <2>1, <2>3
  <2>5. [k \in Locks |-> Waiters(lock'[k])] =
          [[k \in Locks |-> Waiters(lock[k])] EXCEPT ![l] = Append(@, n)]
    BY <2>4
  <2> QED
    BY <1>3, <2>1, <2>5 DEF Abstract!Next, Abstract!Wait
<1> QED
  BY <1>2, <1>3

\* do_unlock is a release by the owner.
LEMMA DoUnlockRefines ==
  ASSUME IInv, NEW n \in Nodes, NEW l \in Locks, do_unlock(l), owner[l] = n
  PROVE  Abstract!Next
<1>1. /\ lock \in [Locks -> LockType] /\ \A k \in Locks : ListInv(lock[k])
  BY DEF IInv, TypeInv, QueueInv
<1>2. CASE IsEmpty(lock[l])
  <2>1. /\ lock' = [lock EXCEPT ![l] = [lock[l] EXCEPT !.islocked = FALSE]]
        /\ owner' = [owner EXCEPT ![l] = Nobody]
    BY <1>2 DEF do_unlock, UnlockWith
  <2>2. \A k \in Locks : Waiters(lock'[k]) = Waiters(lock[k])
    <3>1. PICK a : a = [lock[l] EXCEPT !.islocked = FALSE]
      OBVIOUS
    <3>2. /\ a.wait_size = lock[l].wait_size /\ a.wait_head = lock[l].wait_head
          /\ a.wait_tail = lock[l].wait_tail /\ a.wait_list = lock[l].wait_list
      BY <1>1, <3>1 DEF LockType
    <3>3. Waiters(a) = Waiters(lock[l])
      BY <3>2 DEF Waiters, Length, Wrap
    <3> QED
      BY <1>1, <2>1, <3>1, <3>3
  <2>3. Waiters(lock[l]) = << >>
    BY <1>1, <1>2, WaitersAre
  <2> QED
    BY <2>1, <2>2, <2>3 DEF Abstract!Next, Abstract!Release
<1>3. CASE ~IsEmpty(lock[l])
  <2>1. /\ lock' = [lock EXCEPT ![l] = Pop(lock[l])]
        /\ owner' = [owner EXCEPT ![l] = HeadWaiter(l)]
    BY <1>3 DEF do_unlock, UnlockWith
  <2>2. Waiters(lock[l]) # << >> /\ Head(Waiters(lock[l])) = HeadWaiter(l)
    BY <1>1, <1>3, WaitersAre DEF HeadWaiter
  <2>3. Waiters(Pop(lock[l])) = Tail(Waiters(lock[l]))
    BY <1>1, <1>3, WaitersPop
  <2>4. \A k \in Locks : Waiters(lock'[k]) =
          IF k = l THEN Tail(Waiters(lock[l])) ELSE Waiters(lock[k])
    BY <1>1, <2>1, <2>3
  <2>5. [k \in Locks |-> Waiters(lock'[k])] =
          [[k \in Locks |-> Waiters(lock[k])] EXCEPT ![l] = Tail(@)]
    BY <2>4
  <2> QED
    BY <2>1, <2>2, <2>5 DEF Abstract!Next, Abstract!Release
<1> QED
  BY <1>2, <1>3

\* Every step is a step of the abstract lock or leaves it alone.
LEMMA NextRefines ==
  ASSUME Fits, SameElement, IInv, [Next]_vars PROVE [Abstract!Next]_(Abstract!vars)
<1>1. ASSUME UNCHANGED <<lock, owner>> PROVE UNCHANGED Abstract!vars
  BY <1>1 DEF Abstract!vars
<1>2. ASSUME NEW n \in Nodes, holds[n] = {}, NEW l \in Locks, LockOwn(n, l) PROVE Abstract!Next
  <2>1. owner[l] # n /\ ~Listed(n, lock[l])
    BY <1>2, SMTT(20) DEF LockOwn, Goto, IInv, OwnerInv, QueueInv
  <2> QED
    BY <1>2, <2>1, DoLockRefines DEF LockOwn
<1>3. ASSUME NEW n \in Nodes, NEW l \in Locks, UnlockOwn(n, l) PROVE Abstract!Next
  <2>1. owner[l] = n /\ do_unlock(l)
    BY <1>3, SMTT(20) DEF UnlockOwn, Goto, IInv, NodeInv, NodeState, SameElement
  <2> QED
    BY <2>1, DoUnlockRefines
<1>4. ASSUME NEW n \in Nodes, HandleLockRequest(n) PROVE Abstract!Next
  <2>1. PICK req \in net : req.type = "LOCK_REQUEST" /\ req.from = n /\ do_lock(n, req.lock)
    BY <1>4 DEF HandleLockRequest, HandleLockRequestSending
  <2>2. LockRequestInv(req)
    BY <2>1 DEF IInv, NetInv, MessageInv
  <2>3. PICK l : l = want[n]
    OBVIOUS
  <2>4. l \in Locks /\ req = Request("LOCK_REQUEST", n, l)
    BY <2>1, <2>2, <2>3 DEF LockRequestInv, IInv, NodeInv, NodeState
  <2>5. req.lock = l
    BY <2>4 DEF Request
  <2>6. owner[l] # n /\ ~Listed(n, lock[l])
    BY <2>1, <2>2, <2>4 DEF LockRequestInv
  <2> QED
    BY <2>1, <2>4, <2>5, <2>6, DoLockRefines
<1>5. ASSUME NEW n \in Nodes, HandleUnlockRequest(n) PROVE Abstract!Next
  <2>1. PICK req \in net : req.type = "UNLOCK_REQUEST" /\ req.from = n /\ do_unlock(req.lock)
    BY <1>5 DEF HandleUnlockRequest
  <2>2. UnlockRequestInv(req)
    BY <2>1 DEF IInv, NetInv, MessageInv
  <2>3. PICK l : l = want[n]
    OBVIOUS
  <2>4. l \in Locks /\ owner[l] = n /\ req = Request("UNLOCK_REQUEST", n, l)
    BY <2>1, <2>2, <2>3 DEF UnlockRequestInv, OwnsWanted
  <2>5. req.lock = l
    BY <2>4 DEF Request
  <2> QED
    BY <2>1, <2>4, <2>5, DoUnlockRefines
<1>6. ASSUME NEW n \in Nodes, NEW l \in Locks, LockRemote(n, l) \/ UnlockRemote(n, l)
      PROVE  UNCHANGED <<lock, owner>>
  BY <1>6 DEF LockRemote, UnlockRemote
<1>7. ASSUME NEW n \in Nodes,
             Continue(n) \/ HandleSetLockState(n) \/ HandleLockHandoff(n)
      PROVE  UNCHANGED <<lock, owner>>
  BY <1>7 DEF Continue, SendLockRequest, SendUnlockRequest, SendRequest, Locked, Unlocked,
     UnlockedSending, HandleSetLockState, HandleLockHandoff
<1>8. UNCHANGED vars => UNCHANGED <<lock, owner>>
  BY DEF vars
<1> QED
  BY <1>1, <1>2, <1>3, <1>4, <1>5, <1>6, <1>7, <1>8, SMTT(20) DEF Next, Unlock, Handlers


(***************************************************************************)
(* The list can grow when it is full: a count of the nodes.                *)
(***************************************************************************)
Counting == INSTANCE FiniteSetTheorems

\* Distinct nodes fill a list of s cells, and one node is not among them: s is less
\* than the number of nodes, so that a list that is full can grow.
LEMMA Pigeonhole == Fits
<1> SUFFICES ASSUME NEW s \in Nat, NEW f \in [0 .. s-1 -> Nodes], NEW o \in Nodes,
                    \A i, j \in 0 .. s-1 : f[i] = f[j] => i = j,
                    \A i \in 0 .. s-1 : f[i] # o
             PROVE  s < N
  BY DEF Fits
<1>1. Counting!IsFiniteSet(Nodes) /\ Counting!Cardinality(Nodes) = N
  BY NAssumption, Counting!FS_Interval, SMTT(20) DEF Nodes
<1>2. Counting!IsFiniteSet(Nodes \ {o}) /\ Counting!Cardinality(Nodes \ {o}) = N - 1
  BY <1>1, Counting!FS_RemoveElement
<1>3. Counting!IsFiniteSet(0 .. s-1) /\ Counting!Cardinality(0 .. s-1) = s
  BY Counting!FS_Interval, SMTT(20)
<1>4. f \in Counting!Injection(0 .. s-1, Nodes \ {o})
  BY DEF Counting!Injection, Counting!IsInjective
<1>5. Counting!Cardinality(0 .. s-1) <= Counting!Cardinality(Nodes \ {o})
  BY <1>2, <1>3, <1>4, Counting!FS_Injection DEF Counting!ExistsInjection
<1> QED
  BY <1>2, <1>3, <1>5, NAssumption, SMTT(20)

\* The invariant holds in every state.
LEMMA SpecIInv == ASSUME SameElement PROVE Spec => []IInv
<1> QED
  BY Pigeonhole, InitIInv, NextIInv, PTL DEF Spec

(***************************************************************************)
(* The theorems.                                                           *)
(***************************************************************************)
\* The list of waiters of xmp_lock_unlock_gasnet.c never overflows and every message
\* is for a node, whatever the number of nodes and the chunk.
THEOREM TypeCorrect == ASSUME SameElement PROVE Spec => []TypeOK
<1>1. IInv => TypeOK
  <2> SUFFICES ASSUME IInv PROVE TypeOK
    OBVIOUS
  <2>1. \A l \in Locks : ListInv(lock[l])
    BY DEF IInv, QueueInv
  <2>2. \A l \in Locks :
          LET k == lock[l]
          IN  /\ k.islocked \in BOOLEAN
              /\ k.wait_size \in smaller(Chunk, N) .. N
              /\ k.wait_head \in 0 .. k.wait_size-1
              /\ k.wait_tail \in 0 .. k.wait_size-1
              /\ k.wait_list \in [0 .. k.wait_size-1 -> Nodes \cup {Nobody}]
    BY <2>1 DEF ListInv, LockType, Cells
  <2>3. ASSUME NEW m \in net PROVE m.to \in Nodes /\ (m.type \in Requests => m.lock \in Locks)
    <3>1. MessageInv(m)
      BY DEF IInv, NetInv
    <3>2. ASSUME NEW type, NEW n \in Nodes, m = Request(type, n, want[n]), want[n] \in Locks
          PROVE  m.to \in Nodes /\ m.lock \in Locks
      BY <3>2, LocksAssumption DEF Request
    <3>3. \A n \in Nodes : pc[n] # "run" => want[n] \in Locks
      BY DEF IInv, NodeInv, NodeState
    <3> QED
      BY <3>1, <3>2, <3>3 DEF MessageInv, LockRequestInv, UnlockRequestInv, ReplyInv, Requests
  <2> QED
    BY <2>2, <2>3 DEF TypeOK, IInv, TypeInv, States
<1> QED
  BY <1>1, SpecIInv, PTL

\* No two nodes hold a lock of xmp_lock_unlock_gasnet.c at a time, whatever requests,
\* grants and hand-offs are under way.
THEOREM LockExcludes == ASSUME SameElement PROVE Spec => []MutualExclusion
<1>1. IInv => MutualExclusion
  <2> SUFFICES ASSUME IInv, NEW n \in Nodes, NEW m \in Nodes, n # m,
                      NEW l \in holds[n], l \in holds[m]
               PROVE  FALSE
    BY DEF MutualExclusion
  <2> QED
    BY SMTT(20) DEF IInv, NodeInv, NodeState
<1> QED
  BY <1>1, SpecIInv, PTL

\* A reply or grant of xmp_lock_unlock_gasnet.c never reaches a node that does not
\* wait for it, although a node has one local_lockstate for all its locks.
THEOREM RepliesAwaited == ASSUME SameElement PROVE Spec => []NoStaleReply
<1>1. IInv => NoStaleReply
  BY DEF IInv, NetInv, MessageInv, ReplyInv, NoStaleReply, Requests
<1> QED
  BY <1>1, SpecIInv, PTL

\* The lists of waiters and the messages of xmp_lock_unlock_gasnet.c implement a lock
\* whose waiters get it in the order of arrival, for every number of nodes and chunk.
THEOREM LockImplements == ASSUME SameElement PROVE Spec => ImplementsLock
<1>1. Init => Abstract!Init
  <2> SUFFICES ASSUME Init PROVE Abstract!Init
    OBVIOUS
  <2>1. Waiters(FreshLock) = << >>
    BY FreshKeeps, WaitersAre DEF FreshLock, IsEmpty
  <2>2. \A l \in Locks : lock[l] = FreshLock
    BY DEF Init
  <2> QED
    BY <2>1, <2>2 DEF Init, Abstract!Init
<1> QED
  BY <1>1, Pigeonhole, NextRefines, SpecIInv, PTL DEF Spec, ImplementsLock, Abstract!Spec
=============================================================================
