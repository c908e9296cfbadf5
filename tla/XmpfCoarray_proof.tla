-------------------------- MODULE XmpfCoarray_proof --------------------------
(***************************************************************************)
(* The memory of the coarrays of one image is managed correctly for every  *)
(* program, every set of sizes and every heap.  In this order: who holds a *)
(* chunk; one lemma for each operation, and the invariant Inv; what Inv    *)
(* implies; the static pool.                                               *)
(***************************************************************************)
EXTENDS XmpfCoarrayMem_proof

USE ZenonT(40)

----------------------------------------------------------------------------
(* Chunks and descriptors *)

\* What holds a chunk that is not garbage: the coarray whose address it is, the
\* static coarrays, dummy arguments only, or a descriptor that a DEALLOCATE in
\* another procedure left; or it is in no set and had a coarray of a procedure.
Holder(k, dsc) ==
  \/ \E c \in Coarrays : dsc[c] = k.org /\ k.infos \ {Dummy} = {c} /\ k.parent \in {0, c[1]}
  \/ k.infos \ {Dummy} = {Static} /\ k.parent = 0
  \/ k.infos = {Dummy}
  \/ k.infos \ {Dummy} = {Left}
  \/ \E c \in Coarrays : k.infos \ {Dummy} = {c} /\ k.parent = 0 /\ c[1] # 0

Reason(k, dsc, dep) ==
  /\ k.isGarbage => k.parent = 0
  /\ ~k.isGarbage => k.parent <= dep /\ Holder(k, dsc)

AllHeld(h, dsc, dep) == \A i \in 1 .. Len(h) : Reason(h[i], dsc, dep)

TopHeld(h) == Len(h) > 0 => ~h[Len(h)].isGarbage

Keeps(k, c, org) == k.org = org /\ ~k.isGarbage /\ k.infos \ {Dummy} = {c} /\ k.parent \in {0, c[1]}

AllKept(h, dsc) == \A c \in Coarrays : dsc[c] # 0 => \E i \in 1 .. Len(h) : Keeps(h[i], c, dsc[c])

\* The memory and the descriptors dsc, with dep procedures entered.
Good(m, dsc, dep) ==
  /\ MemOK(m)
  /\ AllHeld(m.history, dsc, dep)
  /\ TopHeld(m.history)
  /\ m.fatal = "none" => AllKept(m.history, dsc)

\* The same, and the pool of the static coarrays was not too small.
Calm(m, dsc, dep) == Good(m, dsc, dep) /\ m.fatal # "pool"

\* The names of descriptors.
LEMMA Names ==
  /\ Static # Dummy /\ Left # Dummy
  /\ \A c \in Coarrays : c # Dummy /\ c # Static /\ {c} \ {Dummy} = {c} /\ c[1] \in 0 .. MaxDepth
  /\ {Static} \ {Dummy} = {Static}
<1>1. Static # Dummy /\ Left # Dummy
  BY SMTT(20) DEF Static, Dummy, Left
<1>2. ASSUME NEW c \in Coarrays PROVE c # Dummy /\ c # Static /\ c[1] \in 0 .. MaxDepth
  <2>1. CASE \E v \in Saved : c = <<0, v>>
    <3>1. PICK v \in Saved : c = <<0, v>>
      BY <2>1
    <3>2. v # "static" /\ v # "dummy"
      BY NameAssumption
    <3>3. c # Dummy /\ c # Static
      BY <3>1, <3>2, SMTT(20) DEF Static, Dummy
    <3>4. c[1] = 0
      BY <3>1
    <3>5. 0 \in 0 .. MaxDepth
      BY SizeAssumption, SMTT(20)
    <3> QED
      BY <3>3, <3>4, <3>5
  <2>2. CASE c \in (1 .. MaxDepth) \X Local
    <3>1. PICK d \in 1 .. MaxDepth, v \in Local : c = <<d, v>>
      BY <2>2, SMTT(20)
    <3>2. d # 0 /\ d \in 0 .. MaxDepth
      BY <3>1, SizeAssumption, SMTT(20)
    <3>3. c # Dummy /\ c # Static
      BY <3>1, <3>2, SMTT(20) DEF Static, Dummy
    <3>4. c[1] = d
      BY <3>1
    <3> QED
      BY <3>2, <3>3, <3>4
  <2> QED
    BY <2>1, <2>2 DEF Coarrays
<1> QED
  BY <1>1, <1>2

\* A fatal error changes nothing else.
LEMMA FailGood ==
  ASSUME NEW m, NEW dsc, NEW dep, MemOK(m), AllHeld(m.history, dsc, dep), TopHeld(m.history),
         NEW why \in {"heap", "pool"}
  PROVE  Good(Fail(m, why), dsc, dep) /\ Fail(m, why).fatal = why
<1>1. IsMemory(m) /\ m \in MemType
  BY MemoryType DEF MemOK
<1>2. PICK m2 : m2 = Fail(m, why)
  OBVIOUS
<1>3. Has(m2, m.history, m.table, m.room, m.coarrays, m.shifts, m.shift, why)
  BY <1>1, <1>2, FatalSet DEF Fail
<1>4. /\ m2.history = m.history /\ m2.table = m.table /\ m2.room = m.room /\ m2.coarrays = m.coarrays
      /\ m2.shifts = m.shifts /\ m2.shift = m.shift /\ m2.fatal = why
  BY <1>3 DEF Has
<1>5. m2 \in MemType
  <2>1. IsMemory(m2)
    BY <1>3, HasMemory
  <2>2. /\ m.history \in Seq(ChunkType) /\ m.table \in Seq(Entries) /\ m.room \in Nat
        /\ m.coarrays \in Seq(Nat) /\ m.shifts \in Seq(Nat) /\ m.shift \in 0 .. HeapSize
    BY <1>1 DEF MemType
  <2>3. why \in {"none", "heap", "pool"} /\ why # "none"
    OBVIOUS
  <2> QED
    BY <1>4, <2>1, <2>2, <2>3, MemoryType
<1>6. MemOK(m2)
  BY <1>4, <1>5 DEF MemOK
<1>7. why # "none"
  OBVIOUS
<1> QED
  BY <1>2, <1>4, <1>6, <1>7 DEF Good

\* A collection leaves what is in use.
LEMMA CollectGood ==
  ASSUME NEW m, NEW dsc, NEW dep, MemOK(m), AllHeld(m.history, dsc, dep), AllKept(m.history, dsc)
  PROVE  Good(Collect(m), dsc, dep) /\ Collect(m).fatal = m.fatal
<1>1. PICK m2 : m2 = Collect(m)
  OBVIOUS
<1>2. PICK keep \in 0 .. Len(m.history) : IsCollected(m2, m, keep)
  BY <1>1, CollectOK
<1>3. m.history \in Seq(ChunkType)
  BY DEF MemOK, MemType
<1>4. PICK l \in Nat : l = Len(m.history) /\ keep \in 0 .. l
  BY <1>2, <1>3, Counted
<1>5. /\ MemOK(m2)
      /\ keep > 0 => ~m.history[keep].isGarbage
      /\ \A i \in keep+1 .. l : m.history[i].isGarbage
      /\ m2.history = SubSeq(m.history, 1, keep)
  <2>1. \A i \in keep+1 .. Len(m.history) : m.history[i].isGarbage
    BY <1>2 DEF IsCollected
  <2>2. \A i \in keep+1 .. l : m.history[i].isGarbage
    BY <1>4, <2>1
  <2> QED
    BY <1>2, <2>2 DEF IsCollected
<1>6. Len(m2.history) = keep /\ \A i \in 1 .. keep : m2.history[i] = m.history[i]
  <2>1. /\ Len(SubSeq(m.history, 1, keep)) = keep
        /\ \A i \in 1 .. keep : SubSeq(m.history, 1, keep)[i] = m.history[i]
    BY <1>2, <1>3, Prefix
  <2> QED
    BY <1>5, <2>1
<1>7. /\ \A i \in 1 .. keep : i \in 1 .. l
      /\ \A i \in 1 .. l : i \in 1 .. keep \/ i \in keep+1 .. l
      /\ keep > 0 => keep \in 1 .. keep
  BY <1>4, SMTT(20)
<1>8. AllHeld(m2.history, dsc, dep)
  BY <1>4, <1>6, <1>7 DEF AllHeld
<1>9. TopHeld(m2.history)
  BY <1>5, <1>6, <1>7 DEF TopHeld
<1>10. AllKept(m2.history, dsc)
  <2> SUFFICES ASSUME NEW c \in Coarrays, dsc[c] # 0
               PROVE  \E i \in 1 .. Len(m2.history) : Keeps(m2.history[i], c, dsc[c])
    BY DEF AllKept
  <2>1. PICK i \in 1 .. l : Keeps(m.history[i], c, dsc[c])
    BY <1>4 DEF AllKept
  <2>2. ~m.history[i].isGarbage
    BY <2>1 DEF Keeps
  <2>3. i \in 1 .. keep
    BY <1>5, <1>7, <2>2
  <2>4. Keeps(m2.history[i], c, dsc[c])
    BY <1>6, <2>1, <2>3
  <2> QED
    BY <1>6, <2>3, <2>4
<1>11. m2.fatal = m.fatal
  BY <1>2 DEF IsCollected
<1> QED
  BY <1>1, <1>5, <1>8, <1>9, <1>10, <1>11 DEF Good

\* Where the chunks of a history start.
LEMMA Origins ==
  ASSUME NEW m, MemOK(m), NEW i \in 1 .. Len(m.history)
  PROVE  /\ m.history[i] \in ChunkType /\ m.history[i].org \in Nat /\ m.history[i].org # 0
         /\ \A j \in 1 .. Len(m.history) : m.history[i].org = m.history[j].org => i = j
         /\ m.history[i].parent \in 0 .. MaxDepth
         /\ m.history[i].infos \in SUBSET Descriptors
<1>1. /\ m.history \in Seq(ChunkType) /\ m.coarrays \in Seq(Nat) /\ m.shifts \in Seq(Nat)
      /\ m.shift \in 0 .. HeapSize /\ StackOK(m.history, m.coarrays, m.shifts, m.shift)
      /\ Len(m.shifts) = Len(m.history)
  BY DEF MemOK, MemType, StackOK
<1>2. m.history[i] \in ChunkType /\ m.history[i].org \in Nat
  BY <1>1, Numbers
<1>3. HeapStart <= m.history[i].org
  BY <1>1 DEF StackOK
<1>4. m.history[i].org # 0
  <2>1. ~(1 <= 0)
    BY SMTT(20)
  <2> QED
    BY <1>3, <2>1 DEF HeapStart
<1>5. m.shift \in Nat
  BY <1>1, SizeAssumption, SMTT(20)
<1>6. \A j \in 1 .. Len(m.history) : m.history[i].org = m.history[j].org => i = j
  BY <1>1, <1>5, Apart
<1>7. /\ m.history[i].parent \in 0 .. MaxDepth
      /\ m.history[i].infos \in SUBSET Descriptors
  BY <1>2 DEF ChunkType
<1> QED
  BY <1>2, <1>4, <1>6, <1>7

IsAppended(f, q, x) ==
  /\ Len(f) = Len(q) + 1 /\ f[Len(q) + 1] = x
  /\ \A i \in 1 .. Len(q) : f[i] = q[i]

\* One more chunk at the end of a history.
LEMMA AppendedChunk ==
  ASSUME NEW q \in Seq(ChunkType), NEW x \in ChunkType
  PROVE  IsAppended(Append(q, x), q, x)
  BY SMTT(20) DEF IsAppended

\* A chunk of its own for a coarray, or for the static coarrays.
LEMMA NewGood ==
  ASSUME NEW m, NEW dsc, NEW dsc2, NEW dep, Good(m, dsc, dep), m.fatal = "none",
         NEW nbytes \in Nat \ {0}, NEW parent \in 0 .. MaxDepth, parent <= dep,
         NEW info \in Descriptors,
         NEW k, k = NewChunk(m, nbytes, parent, info), Holder(k, dsc2),
         \A c \in Coarrays : dsc[c] # 0 => dsc2[c] = dsc[c],
         \A c \in Coarrays : dsc2[c] # dsc[c] => Keeps(k, c, dsc2[c])
  PROVE  Calm(Construct(m, nbytes, parent, info), dsc2, dep)
<1>1. PICK m2 : m2 = Construct(m, nbytes, parent, info)
  OBVIOUS
<1>2. /\ MemOK(m) /\ AllHeld(m.history, dsc, dep) /\ TopHeld(m.history) /\ AllKept(m.history, dsc)
      /\ m.history \in Seq(ChunkType)
  BY DEF Good, MemOK, MemType
<1>3. AllHeld(m.history, dsc2, dep)
  <2> SUFFICES ASSUME NEW i \in 1 .. Len(m.history), ~m.history[i].isGarbage, Holder(m.history[i], dsc)
               PROVE  Holder(m.history[i], dsc2)
    BY <1>2 DEF AllHeld, Reason
  <2>1. m.history[i].org # 0
    BY <1>2, Origins
  <2> QED
    BY <2>1 DEF Holder
<1>4. CASE m2 = Fail(m, "heap")
  <2>1. "heap" \in {"heap", "pool"} /\ "heap" # "pool"
    OBVIOUS
  <2>2. Good(Fail(m, "heap"), dsc2, dep) /\ Fail(m, "heap").fatal = "heap"
    BY <1>2, <1>3, <2>1, FailGood
  <2> QED
    BY <1>1, <1>4, <2>1, <2>2 DEF Calm
<1>5. CASE /\ MemOK(m2) /\ m2.fatal = "none"
           /\ m2.history = Append(m.history, NewChunk(m, nbytes, parent, info))
  <2>1. PICK l \in Nat : l = Len(m.history)
    BY <1>2, Counted
  <2>2. k \in ChunkType /\ k.org = HeapStart + m.shift /\ ~k.isGarbage /\ k.parent = parent
    <3>1. k.org = HeapStart + m.shift /\ ~k.isGarbage /\ k.parent = parent /\ k.nbytes = nbytes /\ k.infos = {info}
      BY DEF NewChunk
    <3>2. HeapStart + m.shift \in Nat
      <4>1. m.shift \in 0 .. HeapSize
        BY <1>2 DEF MemOK, MemType
      <4> QED
        BY <4>1, SizeAssumption, SMTT(20) DEF HeapStart
    <3>3. k \in ChunkType
      BY <3>2 DEF NewChunk, ChunkType
    <3> QED
      BY <3>1, <3>3
  <2>3. /\ Len(m2.history) = l + 1 /\ m2.history[l + 1] = k
        /\ \A i \in 1 .. l : m2.history[i] = m.history[i]
    <3>1. /\ Len(Append(m.history, k)) = Len(m.history) + 1 /\ Append(m.history, k)[Len(m.history) + 1] = k
          /\ \A i \in 1 .. Len(m.history) : Append(m.history, k)[i] = m.history[i]
      <4>1. IsAppended(Append(m.history, k), m.history, k)
        BY <1>2, <2>2, AppendedChunk
      <4> QED
        BY <4>1 DEF IsAppended
    <3>2. m2.history = Append(m.history, k)
      BY <1>5
    <3>3. /\ Len(Append(m.history, k)) = l + 1 /\ Append(m.history, k)[l + 1] = k
          /\ \A i \in 1 .. l : Append(m.history, k)[i] = m.history[i]
      BY <2>1, <3>1
    <3> QED
      BY <3>2, <3>3
  <2>4. /\ \A i \in 1 .. l + 1 : i \in 1 .. l \/ i = l + 1
        /\ \A i \in 1 .. l : i \in 1 .. l + 1
        /\ l + 1 \in 1 .. l + 1
    BY <2>1, SMTT(20)
  <2>5. Reason(k, dsc2, dep)
    BY <2>2 DEF Reason
  <2>6. AllHeld(m2.history, dsc2, dep)
    BY <1>3, <2>1, <2>3, <2>4, <2>5 DEF AllHeld
  <2>7. TopHeld(m2.history)
    BY <2>2, <2>3 DEF TopHeld
  <2>8. AllKept(m2.history, dsc2)
    <3> SUFFICES ASSUME NEW c \in Coarrays, dsc2[c] # 0
                 PROVE  \E i \in 1 .. l + 1 : Keeps(m2.history[i], c, dsc2[c])
      BY <2>3 DEF AllKept
    <3>1. CASE dsc2[c] # dsc[c]
      BY <2>3, <2>4, <3>1
    <3>2. CASE dsc2[c] = dsc[c]
      <4>1. PICK i \in 1 .. l : Keeps(m.history[i], c, dsc[c])
        BY <1>2, <2>1, <3>2 DEF AllKept
      <4> QED
        BY <2>3, <2>4, <3>2, <4>1
    <3> QED
      BY <3>1, <3>2
  <2> QED
    BY <1>1, <1>5, <2>6, <2>7, <2>8 DEF Good, Calm
<1>6. \/ m2 = Fail(m, "heap")
      \/ /\ MemOK(m2) /\ m2.fatal = "none"
         /\ m2.history = Append(m.history, NewChunk(m, nbytes, parent, info))
  <2>1. IsConstructed(m2, m, nbytes, parent, info)
    BY <1>1, <1>2, ConstructOK
  <2> QED
    BY <2>1 DEF IsConstructed
<1> QED
  BY <1>4, <1>5, <1>6

\* The chunk of coarray c changes, and c loses its address.
Frees(m, dsc, dep, c, i, dsc2, h2) ==
  /\ MemOK(m) /\ AllHeld(m.history, dsc, dep) /\ AllKept(m.history, dsc)
  /\ c \in Coarrays /\ dsc[c] # 0 /\ i \in 1 .. Len(m.history) /\ Keeps(m.history[i], c, dsc[c])
  /\ dsc \in [Coarrays -> Nat] /\ dsc2 = [dsc EXCEPT ![c] = 0]
  /\ Len(h2) = Len(m.history) /\ Reason(h2[i], dsc2, dep)
  /\ \A j \in 1 .. Len(m.history) : j # i => h2[j] = m.history[j]

\* The other chunks and coarrays are as before.
LEMMA OneFreed ==
  ASSUME NEW m, NEW dsc, NEW dep, NEW c, NEW i, NEW dsc2, NEW h2, Frees(m, dsc, dep, c, i, dsc2, h2)
  PROVE  AllHeld(h2, dsc2, dep) /\ AllKept(h2, dsc2)
<1>a. /\ MemOK(m) /\ AllHeld(m.history, dsc, dep) /\ AllKept(m.history, dsc)
      /\ c \in Coarrays /\ dsc[c] # 0 /\ i \in 1 .. Len(m.history) /\ Keeps(m.history[i], c, dsc[c])
      /\ Len(h2) = Len(m.history) /\ Reason(h2[i], dsc2, dep)
      /\ \A j \in 1 .. Len(m.history) : j # i => h2[j] = m.history[j]
  BY DEF Frees
<1>1. dsc2[c] = 0 /\ \A d \in Coarrays : d # c => dsc2[d] = dsc[d]
  BY DEF Frees
<1>2. m.history[i].org = dsc[c] /\ m.history[i].infos \ {Dummy} = {c}
  BY <1>a DEF Keeps
<1>3. ASSUME NEW j \in 1 .. Len(m.history), j # i PROVE Reason(m.history[j], dsc2, dep)
  <2>1. Reason(m.history[j], dsc, dep)
    BY <1>a DEF AllHeld
  <2>2. m.history[j].org # dsc[c]
    BY <1>a, <1>2, <1>3, Origins
  <2>3. Holder(m.history[j], dsc) => Holder(m.history[j], dsc2)
    BY <1>1, <2>2 DEF Holder
  <2> QED
    BY <2>1, <2>3 DEF Reason
<1>4. AllHeld(h2, dsc2, dep)
  BY <1>a, <1>3 DEF AllHeld
<1>5. AllKept(h2, dsc2)
  <2> SUFFICES ASSUME NEW d \in Coarrays, dsc2[d] # 0
               PROVE  \E j \in 1 .. Len(m.history) : Keeps(h2[j], d, dsc2[d])
    BY <1>a DEF AllKept
  <2>1. d # c /\ dsc2[d] = dsc[d]
    BY <1>1
  <2>2. PICK j \in 1 .. Len(m.history) : Keeps(m.history[j], d, dsc[d])
    BY <1>a, <2>1 DEF AllKept
  <2>3. j # i
    BY <1>2, <2>1, <2>2 DEF Keeps
  <2> QED
    BY <1>a, <2>1, <2>2, <2>3
<1> QED
  BY <1>4, <1>5

\* What xmpf_coarray_free_ leaves of the descriptors of the chunk of c: all but c, or
\* one that c has lost and those of dummy arguments.
Remains(x, infos, c) ==
  \/ x = infos \ {c}
  \/ x \in SUBSET {Dummy, Left} /\ Left \in x

\* xmpf_coarray_free_: the chunk is unlinked unless another descriptor holds it.
LEMMA FreeGood ==
  ASSUME NEW m, NEW dsc \in [Coarrays -> Nat], NEW dep, Good(m, dsc, dep), m.fatal = "none",
         NEW c \in Coarrays, dsc[c] # 0,
         NEW i, i = ChunkAt(m, dsc[c]),
         NEW x, Remains(x, m.history[i].infos, c),
         NEW u, u = [m EXCEPT !.history[i].infos = x],
         NEW m2, m2 = IF x = {} THEN Collect(UnlinkChunk(u, dsc[c])) ELSE u
  PROVE  Calm(m2, [dsc EXCEPT ![c] = 0], dep)
<1>1. /\ MemOK(m) /\ AllHeld(m.history, dsc, dep) /\ TopHeld(m.history) /\ AllKept(m.history, dsc)
      /\ m.history \in Seq(ChunkType)
  BY DEF Good, MemOK, MemType
<1>2. i \in 1 .. Len(m.history) /\ Keeps(m.history[i], c, dsc[c])
  <2>1. PICK j \in 1 .. Len(m.history) : Keeps(m.history[j], c, dsc[c])
    BY <1>1 DEF AllKept
  <2>2. m.history[j].org = dsc[c]
    BY <2>1 DEF Keeps
  <2>3. ChunkAt(m, m.history[j].org) = j
    BY <1>1, ChunkFound
  <2> QED
    BY <2>1, <2>2, <2>3
<1>3. PICK l \in Nat : l = Len(m.history)
  BY <1>1, Counted
<1>4. PICK k : k = [m.history[i] EXCEPT !.infos = x]
  OBVIOUS
<1>5. u = [m EXCEPT !.history = [m.history EXCEPT ![i] = k]]
  <2>1. ASSUME NEW n, NEW j, NEW y
        PROVE  [n EXCEPT !.history[j].infos = y] =
               [n EXCEPT !.history = [n.history EXCEPT ![j] = [n.history[j] EXCEPT !.infos = y]]]
    BY SMTT(20)
  <2> QED
    BY <1>4, <2>1
<1>6. /\ m.history[i] \in ChunkType /\ k \in ChunkType /\ Same(k, m.history[i])
      /\ k.isGarbage = m.history[i].isGarbage /\ k.parent = m.history[i].parent /\ k.infos = x
  <2>1. m.history[i] \in ChunkType /\ x \in SUBSET Descriptors
    <3>1. m.history[i] \in ChunkType /\ m.history[i].infos \in SUBSET Descriptors
      BY <1>1, <1>2, Origins
    <3>2. {Dummy, Left} \in SUBSET Descriptors
      BY DEF Descriptors
    <3> QED
      BY <3>1, <3>2 DEF Remains
  <2> QED
    BY <1>4, <2>1, InfosChunk
<1>7. MemOK(u) /\ u.fatal = "none" /\ u.history = [m.history EXCEPT ![i] = k]
  <2>1. IsPlaced(u, m, i, k)
    BY <1>1, <1>2, <1>5, <1>6, HistoryOK
  <2> QED
    BY <2>1 DEF IsPlaced
<1>8. IsReplaced(u.history, m.history, i, k)
  <2>1. IsReplaced([m.history EXCEPT ![i] = k], m.history, i, k)
    BY <1>1, <1>2, <1>6, Replaced
  <2> QED
    BY <1>7, <2>1
<1>9. /\ Len(u.history) = Len(m.history) /\ u.history[i] = k
       /\ \A j \in 1 .. Len(m.history) : j # i => u.history[j] = m.history[j]
  BY <1>8 DEF IsReplaced
<1>10. k.org = dsc[c] /\ ~k.isGarbage
  BY <1>2, <1>6 DEF Keeps, Same
<1>11. PICK dsc2 : dsc2 = [dsc EXCEPT ![c] = 0]
  OBVIOUS
<1>12. CASE x = {}
  <2>1. PICK y : y = UnlinkChunk(u, u.history[i].org)
    OBVIOUS
  <2>2. m2 = Collect(y)
    BY <1>9, <1>10, <1>12, <2>1
  <2>3. IsUnlinked(y, u, i)
    <3>1. i \in 1 .. Len(u.history) /\ ~u.history[i].isGarbage
      BY <1>2, <1>9, <1>10
    <3>2. MemOK(u) /\ u.fatal = "none"
      BY <1>7
    <3> QED
      BY <2>1, <3>1, <3>2, UnlinkOK
  <2>4. IsReplaced(y.history, u.history, i, Unlinked(k))
    <3>1. u.history \in Seq(ChunkType) /\ Unlinked(k) \in ChunkType /\ i \in 1 .. Len(u.history)
      BY <1>2, <1>6, <1>8, <1>9, UnlinkedChunk DEF IsReplaced
    <3>2. y.history = [u.history EXCEPT ![i] = Unlinked(k)]
      BY <1>9, <2>3 DEF IsUnlinked
    <3>3. IsReplaced([u.history EXCEPT ![i] = Unlinked(k)], u.history, i, Unlinked(k))
      BY <3>1, Replaced
    <3> QED
      BY <3>2, <3>3
  <2>5. /\ Len(y.history) = Len(m.history) /\ y.history[i] = Unlinked(k)
        /\ \A j \in 1 .. Len(m.history) : j # i => y.history[j] = m.history[j]
    BY <1>9, <2>4 DEF IsReplaced
  <2>6. Reason(y.history[i], dsc2, dep)
    BY <1>6, <2>5, UnlinkedChunk DEF Reason
  <2>7. AllHeld(y.history, dsc2, dep) /\ AllKept(y.history, dsc2)
    <3>1. Frees(m, dsc, dep, c, i, dsc2, y.history)
      BY <1>1, <1>2, <1>11, <2>5, <2>6 DEF Frees
    <3> QED
      BY <3>1, OneFreed
  <2>8. MemOK(y)
    BY <2>3 DEF IsUnlinked
  <2>9. Good(Collect(y), dsc2, dep) /\ Collect(y).fatal = y.fatal
    BY <2>7, <2>8, CollectGood
  <2>10. y.fatal = "none"
    BY <2>3 DEF IsUnlinked
  <2>11. Calm(Collect(y), dsc2, dep)
    BY <2>9, <2>10 DEF Calm
  <2> QED
    BY <1>11, <2>2, <2>11
<1>13. CASE x # {}
  <2>1. m2 = u
    BY <1>13
  <2>2. x = {Dummy} \/ x \ {Dummy} = {Left}
    <3>1. CASE x = m.history[i].infos \ {c}
      BY <1>2, <1>13, <3>1 DEF Keeps
    <3>2. CASE x \in SUBSET {Dummy, Left} /\ Left \in x
      BY <3>2, Names
    <3> QED
      BY <3>1, <3>2 DEF Remains
  <2>3. Reason(k, dsc2, dep)
    <3>1. k.parent <= dep
      BY <1>1, <1>2, <1>6 DEF AllHeld, Reason, Keeps
    <3> QED
      BY <1>6, <1>10, <2>2, <3>1 DEF Reason, Holder
  <2>4. AllHeld(u.history, dsc2, dep) /\ AllKept(u.history, dsc2)
    <3>1. Frees(m, dsc, dep, c, i, dsc2, u.history)
      BY <1>1, <1>2, <1>9, <1>11, <2>3 DEF Frees
    <3> QED
      BY <3>1, OneFreed
  <2>5. TopHeld(u.history)
    <3>1. l > 0 => l \in 1 .. l
      BY SMTT(20)
    <3>2. l > 0 => ~m.history[l].isGarbage
      BY <1>1, <1>3 DEF TopHeld
    <3>3. l > 0 => ~u.history[l].isGarbage
      BY <1>3, <1>9, <1>10, <3>1, <3>2
    <3> QED
      BY <1>3, <1>9, <3>3 DEF TopHeld
  <2> QED
    <3>1. Good(u, dsc2, dep)
      BY <1>7, <2>4, <2>5 DEF Good
    <3> QED
      BY <1>7, <1>11, <2>1, <3>1 DEF Calm
<1> QED
  BY <1>12, <1>13

\* The chunk that xmpf_coarray_free_ reaches from a coarray is the coarray's.
LEMMA OwnChunk ==
  ASSUME NEW m, NEW dsc, MemOK(m), AllKept(m.history, dsc), NEW c \in Coarrays, dsc[c] # 0,
         NEW i, i = ChunkAt(m, dsc[c])
  PROVE  m.history[i].infos \ {Dummy} = {c}
<1>1. PICK j \in 1 .. Len(m.history) : Keeps(m.history[j], c, dsc[c])
  BY DEF AllKept
<1>2. m.history[j].org = dsc[c] /\ m.history[j].infos \ {Dummy} = {c}
  BY <1>1 DEF Keeps
<1>3. ChunkAt(m, m.history[j].org) = j
  BY ChunkFound
<1> QED
  BY <1>2, <1>3

\* A descriptor is added to those of a chunk.
LEMMA Linked ==
  ASSUME NEW n, NEW j, NEW d
  PROVE  [n EXCEPT !.history[j].infos = @ \cup {d}] =
         [n EXCEPT !.history = [n.history EXCEPT ![j] =
            [n.history[j] EXCEPT !.infos = n.history[j].infos \cup {d}]]]
  BY SMTT(20)

\* The last of l positions is one of them.
LEMMA LastPosition == \A l \in Nat : l > 0 => l \in 1 .. l
  BY SMTT(20)

\* xmpf_coarray_find_descptr_: the dummy argument is linked to the chunk it is found in.
LEMMA FindGood ==
  ASSUME NEW m, NEW dsc, NEW dep, Good(m, dsc, dep), m.fatal = "none",
         NEW a \in HeapStart .. (HeapStart + HeapSize),
         NEW s, s = Search(m.table, a),
         NEW m2, m2 = IF s.found
                      THEN [m EXCEPT !.history[ChunkAt(m, m.table[s.idx + 1].org)].infos = @ \cup {Dummy}]
                      ELSE m
  PROVE  Calm(m2, dsc, dep)
<1>1. /\ MemOK(m) /\ AllHeld(m.history, dsc, dep) /\ TopHeld(m.history) /\ AllKept(m.history, dsc)
      /\ m.history \in Seq(ChunkType) /\ m.table \in Seq(Entries) /\ m.room \in Nat
      /\ TableOK(m.table, m.room, m.history)
  BY DEF Good, MemOK, MemType
<1>2. CASE ~s.found
  BY <1>2 DEF Calm
<1>3. CASE s.found
  <2>1. PICK x \in 0 .. Len(m.table) - 2 : s.idx = x /\ x > 0
    <3>1. PICK x \in 0 .. Len(m.table) - 2 :
            /\ Bracket(m.table, a, x)
            /\ Search(m.table, a).idx = x
            /\ Search(m.table, a).found <=> x > 0 /\ a < m.table[x + 1].org + m.table[x + 1].nbytes
      BY <1>1, TableSearch
    <3> QED
      BY <1>3, <3>1
  <2>2. PICK i \in 1 .. Len(m.history) : Same(m.table[x + 1], m.history[i]) /\ ~m.history[i].isGarbage
    <3>1. PICK t \in Nat : t = Len(m.table)
      BY <1>1, Counted
    <3>2. x \in 0 .. t - 2
      BY <2>1, <3>1, ZenonT(40)
    <3>3. x + 1 \in 2 .. t - 1
      BY <2>1, <3>2, SMTT(20)
    <3> QED
      BY <1>1, <3>1, <3>3 DEF TableOK
  <2>3. ChunkAt(m, m.table[s.idx + 1].org) = i
    <3>1. m.table[s.idx + 1].org = m.history[i].org
      BY <2>1, <2>2 DEF Same
    <3>2. ChunkAt(m, m.history[i].org) = i
      BY <1>1, ChunkFound
    <3> QED
      BY <3>1, <3>2
  <2>4. PICK k : k = [m.history[i] EXCEPT !.infos = m.history[i].infos \cup {Dummy}]
    OBVIOUS
  <2>5. m2 = [m EXCEPT !.history = [m.history EXCEPT ![i] = k]]
    <3>2. m2 = [m EXCEPT !.history[i].infos = @ \cup {Dummy}]
      BY <1>3, <2>3
    <3>3. [m EXCEPT !.history[i].infos = @ \cup {Dummy}] =
            [m EXCEPT !.history = [m.history EXCEPT ![i] =
               [m.history[i] EXCEPT !.infos = m.history[i].infos \cup {Dummy}]]]
      BY ONLY Linked
    <3> QED
      BY <2>4, <3>2, <3>3
  <2>6. /\ m.history[i] \in ChunkType /\ k \in ChunkType /\ Same(k, m.history[i])
        /\ k.isGarbage = m.history[i].isGarbage /\ k.parent = m.history[i].parent
        /\ k.infos = m.history[i].infos \cup {Dummy}
    <3>1. m.history[i] \in ChunkType /\ m.history[i].infos \in SUBSET Descriptors
      BY <1>1, <2>2, Origins
    <3>2. m.history[i].infos \cup {Dummy} \in SUBSET Descriptors
      BY <3>1 DEF Descriptors
    <3> QED
      BY <2>4, <3>1, <3>2, InfosChunk
  <2>7. MemOK(m2) /\ m2.fatal = "none" /\ m2.history = [m.history EXCEPT ![i] = k]
    <3>1. IsPlaced(m2, m, i, k)
      BY <1>1, <2>2, <2>5, <2>6, HistoryOK
    <3> QED
      BY <3>1 DEF IsPlaced
  <2>8. /\ Len(m2.history) = Len(m.history) /\ m2.history[i] = k
        /\ \A j \in 1 .. Len(m.history) : j # i => m2.history[j] = m.history[j]
    <3>1. IsReplaced([m.history EXCEPT ![i] = k], m.history, i, k)
      BY <1>1, <2>2, <2>6, Replaced
    <3>2. IsReplaced(m2.history, m.history, i, k)
      BY <2>7, <3>1
    <3> QED
      BY <3>2 DEF IsReplaced
  <2>9. k.org = m.history[i].org /\ k.infos \ {Dummy} = m.history[i].infos \ {Dummy}
    BY <2>6 DEF Same
  <2>10. Reason(k, dsc, dep)
    <3>1. Reason(m.history[i], dsc, dep)
      BY <1>1, <2>2 DEF AllHeld
    <3>2. Holder(m.history[i], dsc) => Holder(k, dsc)
      <4>1. m.history[i].infos = {Dummy} => k.infos = {Dummy}
        BY <2>6
      <4> QED
        BY <2>6, <2>9, <4>1 DEF Holder
    <3> QED
      BY <2>6, <3>1, <3>2 DEF Reason
  <2>11. AllHeld(m2.history, dsc, dep)
    BY <1>1, <2>8, <2>10 DEF AllHeld
  <2>12. AllKept(m2.history, dsc)
    <3>1. ASSUME NEW c, Keeps(m.history[i], c, dsc[c]) PROVE Keeps(k, c, dsc[c])
      BY <2>6, <2>9, <3>1 DEF Keeps
    <3> SUFFICES ASSUME NEW c \in Coarrays, dsc[c] # 0
                 PROVE  \E j \in 1 .. Len(m.history) : Keeps(m2.history[j], c, dsc[c])
      BY <2>8 DEF AllKept
    <3>2. PICK j \in 1 .. Len(m.history) : Keeps(m.history[j], c, dsc[c])
      BY <1>1 DEF AllKept
    <3> QED
      BY <2>8, <3>1, <3>2
  <2>13. TopHeld(m2.history)
    <3>1. PICK l \in Nat : l = Len(m.history)
      BY <1>1, Counted
    <3>2. l > 0 => l \in 1 .. l
      BY <3>1, LastPosition
    <3>3. l > 0 => ~m.history[l].isGarbage
      BY <1>1, <3>1 DEF TopHeld
    <3>4. l > 0 => ~m2.history[l].isGarbage
      <4>1. CASE l = i
        <5>1. m2.history[l] = k /\ ~k.isGarbage
          BY <2>2, <2>6, <2>8, <4>1
        <5> QED
          BY <5>1
      <4>2. CASE l # i
        BY <2>8, <3>1, <3>2, <3>3, <4>2
      <4> QED
        BY <4>1, <4>2
    <3> QED
      BY <2>8, <3>1, <3>4 DEF TopHeld
  <2> QED
    <3>1. Good(m2, dsc, dep)
      BY <2>7, <2>11, <2>12, <2>13 DEF Good
    <3> QED
      BY <2>7, <3>1 DEF Calm
<1> QED
  BY <1>2, <1>3

\* xmpf_coarray_epilog_: the chunks of the innermost procedure are unlinked.
LEMMA EpilogGood ==
  ASSUME NEW m, NEW dsc \in [Coarrays -> Nat], NEW dep \in 1 .. MaxDepth, Good(m, dsc, dep), m.fatal = "none",
         NEW mine, mine = {i \in DOMAIN m.history : m.history[i].parent = dep},
         NEW m2, m2 = IF mine = {} THEN m ELSE Collect(UnlinkAll(m, mine)),
         NEW dsc2, dsc2 = [c \in Coarrays |-> IF c[1] = dep THEN 0 ELSE dsc[c]]
  PROVE  Calm(m2, dsc2, dep - 1)
<1>1. /\ MemOK(m) /\ AllHeld(m.history, dsc, dep) /\ TopHeld(m.history) /\ AllKept(m.history, dsc)
      /\ m.history \in Seq(ChunkType)
  BY DEF Good, MemOK, MemType
<1>2. PICK l \in Nat : l = Len(m.history)
  BY <1>1, Counted
<1>3. mine = {i \in 1 .. l : m.history[i].parent = dep}
  <2>1. ASSUME NEW T, NEW q \in Seq(T) PROVE DOMAIN q = 1 .. Len(q)
    BY SMTT(20)
  <2>2. DOMAIN m.history = 1 .. l
    BY <1>1, <1>2, <2>1
  <2> QED
    BY <2>2
<1>4. dep # 0
  BY SizeAssumption, SMTT(20)
<1>5. \A i \in mine : ~m.history[i].isGarbage
  BY <1>1, <1>2, <1>3, <1>4 DEF AllHeld, Reason
<1>6. ASSUME NEW i \in 1 .. l, i \notin mine PROVE Reason(m.history[i], dsc2, dep - 1)
  <2>1. Reason(m.history[i], dsc, dep) /\ m.history[i].parent # dep
    BY <1>1, <1>2, <1>3, <1>6 DEF AllHeld
  <2>2. m.history[i].parent <= dep => m.history[i].parent <= dep - 1
    <3>1. PICK p \in 0 .. MaxDepth : p = m.history[i].parent
      BY <1>1, <1>2, Origins
    <3>2. p # dep /\ MaxDepth \in Nat
      BY <2>1, <3>1, SizeAssumption
    <3>3. p <= dep => p <= dep - 1
      BY <3>2, SMTT(20)
    <3> QED
      BY <3>1, <3>3
  <2>3. Holder(m.history[i], dsc) => Holder(m.history[i], dsc2)
    <3>1. ASSUME NEW c \in Coarrays, dsc[c] = m.history[i].org, m.history[i].infos \ {Dummy} = {c},
                 m.history[i].parent \in {0, c[1]}
          PROVE  Holder(m.history[i], dsc2)
      <4>1. CASE c[1] = dep
        BY <1>4, <2>1, <3>1, <4>1 DEF Holder
      <4>2. CASE c[1] # dep
        BY <3>1, <4>2 DEF Holder
      <4> QED
        BY <4>1, <4>2
    <3> QED
      BY <3>1 DEF Holder
  <2> QED
    BY <2>1, <2>2, <2>3 DEF Reason
<1>7. ASSUME NEW c \in Coarrays, dsc2[c] # 0
      PROVE  \E i \in 1 .. l : i \notin mine /\ Keeps(m.history[i], c, dsc2[c])
  <2>1. c[1] # dep /\ dsc2[c] = dsc[c]
    BY <1>7
  <2>2. PICK i \in 1 .. l : Keeps(m.history[i], c, dsc[c])
    BY <1>1, <1>2, <1>7, <2>1 DEF AllKept
  <2>3. i \notin mine
    BY <1>3, <1>4, <2>1, <2>2 DEF Keeps
  <2> QED
    BY <2>1, <2>2, <2>3
<1>8. CASE mine = {}
  <2>1. AllHeld(m.history, dsc2, dep - 1)
    BY <1>2, <1>6, <1>8 DEF AllHeld
  <2>2. AllKept(m.history, dsc2)
    BY <1>2, <1>7 DEF AllKept
  <2> QED
    <3>1. Good(m, dsc2, dep - 1)
      BY <1>1, <2>1, <2>2 DEF Good
    <3> QED
      BY <1>8, <3>1 DEF Calm
<1>9. CASE mine # {}
  <2>1. PICK u : u = UnlinkAll(m, mine)
    OBVIOUS
  <2>2. UnlinkedUpTo(m, mine, Len(m.history), u)
    <3>1. mine \in SUBSET (1 .. Len(m.history))
      BY <1>2, <1>3
    <3> QED
      BY <1>1, <1>5, <2>1, <3>1, UnlinkAllOK
  <2>3. /\ MemOK(u) /\ u.fatal = "none" /\ Len(u.history) = l
        /\ \A j \in 1 .. l : u.history[j] = IF j \in mine THEN Unlinked(m.history[j]) ELSE m.history[j]
    <3>1. \A j \in 1 .. l : j <= l
      BY SMTT(20)
    <3> QED
      BY <1>2, <2>2, <3>1 DEF UnlinkedUpTo
  <2>4. AllHeld(u.history, dsc2, dep - 1)
    <3>1. ASSUME NEW j \in 1 .. l PROVE Reason(u.history[j], dsc2, dep - 1)
      <4>1. CASE j \in mine
        <5>1. m.history[j] \in ChunkType
          BY <1>1, <1>2, Origins
        <5>2. u.history[j] = Unlinked(m.history[j])
          BY <2>3, <4>1
        <5>3. Unlinked(m.history[j]).isGarbage /\ Unlinked(m.history[j]).parent = 0
          BY <5>1, UnlinkedChunk
        <5> QED
          BY <5>2, <5>3 DEF Reason
      <4>2. CASE j \notin mine
        BY <1>6, <2>3, <4>2
      <4> QED
        BY <4>1, <4>2
    <3> QED
      BY <2>3, <3>1 DEF AllHeld
  <2>5. AllKept(u.history, dsc2)
    <3> SUFFICES ASSUME NEW c \in Coarrays, dsc2[c] # 0
                 PROVE  \E j \in 1 .. l : Keeps(u.history[j], c, dsc2[c])
      BY <2>3 DEF AllKept
    <3>1. PICK i \in 1 .. l : i \notin mine /\ Keeps(m.history[i], c, dsc2[c])
      BY <1>7
    <3> QED
      BY <2>3, <3>1
  <2>6. Good(Collect(u), dsc2, dep - 1) /\ Collect(u).fatal = u.fatal
    BY <2>3, <2>4, <2>5, CollectGood
  <2>7. Calm(Collect(u), dsc2, dep - 1)
    BY <2>3, <2>6 DEF Calm
  <2> QED
    BY <1>9, <2>1, <2>7
<1> QED
  BY <1>8, <1>9

----------------------------------------------------------------------------
(* The inductive invariant *)

Pools == [total : Nat, current : Nat, org : Nat]

Inv ==
  /\ phase \in {"count", "static", "run"}
  /\ statics \in StaticLists /\ done \in 0 .. Len(statics)
  /\ pool \in Pools
  /\ depth \in 0 .. MaxDepth
  /\ desc \in [Coarrays -> 0 .. HeapStart + HeapSize]
  /\ Good(mem, desc, depth)

\* A list of static coarrays is a sequence of sizes.
LEMMA StaticList ==
  /\ \A s \in StaticLists : s \in Seq(StaticSizes)
  /\ << >> \in StaticLists /\ Len(<< >>) = 0
<1>1. ASSUME NEW s \in StaticLists PROVE s \in Seq(StaticSizes)
  <2>1. PICK n \in 0 .. MaxStatics : s \in [1 .. n -> StaticSizes]
    BY DEF StaticLists
  <2>2. n \in Nat
    BY <2>1, SMTT(20)
  <2> QED
    BY <2>1, <2>2, Listed
<1>2. << >> \in StaticLists
  <2>1. 0 \in 0 .. MaxStatics
    BY SizeAssumption, SMTT(20)
  <2>2. << >> \in [1 .. 0 -> StaticSizes]
    BY SMTT(20)
  <2> QED
    BY <2>1, <2>2 DEF StaticLists
<1>3. Len(<< >>) = 0
  BY SMTT(20)
<1> QED
  BY <1>1, <1>2, <1>3

\* The share of a static coarray that is next in a traversal.
LEMMA NextStatic ==
  ASSUME NEW s \in StaticLists, NEW d \in 0 .. Len(s), d < Len(s)
  PROVE  s[d + 1] \in Nat /\ d + 1 \in 0 .. Len(s)
<1>1. s \in Seq(StaticSizes)
  BY StaticList
<1>2. PICK l \in Nat : l = Len(s)
  BY <1>1, Counted
<1>3. d \in 0 .. l /\ d < l
  BY <1>2
<1>4. d + 1 \in 1 .. l /\ d + 1 \in 0 .. l
  BY <1>2, <1>3, SMTT(20)
<1>5. ASSUME NEW T, NEW q \in Seq(T), NEW i \in 1 .. Len(q) PROVE q[i] \in T
  BY SMTT(20)
<1> QED
  BY <1>1, <1>2, <1>4, <1>5, SizeAssumption

\* What _roundUpMalloc returns.
LEMMA Share ==
  ASSUME NEW n \in Nat PROVE RoundUpMalloc(n) \in Nat \ {0} /\ n <= RoundUpMalloc(n)
<1>1. Unit \in Nat \ {0}
  BY SizeAssumption
<1>2. CASE n > 0
  <2>1. RoundUp(n, Unit) \in Nat /\ n <= RoundUp(n, Unit)
    BY <1>1, RoundedUp
  <2>2. PICK r : r = RoundUp(n, Unit)
    OBVIOUS
  <2>3. r \in Nat \ {0} /\ n <= r
    BY <1>2, <2>1, <2>2, SMTT(20)
  <2> QED
    BY <1>2, <2>2, <2>3 DEF RoundUpMalloc
<1>3. CASE ~(n > 0)
  <2>1. n <= Unit
    BY <1>1, <1>3, SMTT(20)
  <2> QED
    BY <1>1, <1>3, <2>1 DEF RoundUpMalloc
<1> QED
  BY <1>2, <1>3

\* The memory at the start.
LEMMA StartGood ==
  ASSUME NEW m, m = Memory(<< >>, Sentinels, TableInitSize, << >>, << >>, 0, "none"),
         NEW dsc, \A c \in Coarrays : dsc[c] = 0, NEW dep
  PROVE  Good(m, dsc, dep)
<1>1. Has(m, << >>, Sentinels, TableInitSize, << >>, << >>, 0, "none")
  BY MemoryHas
<1>2. /\ m.history = << >> /\ m.table = Sentinels /\ m.room = TableInitSize /\ m.coarrays = << >>
      /\ m.shifts = << >> /\ m.shift = 0 /\ m.fatal = "none"
  BY <1>1 DEF Has
<1>3. /\ \A T : << >> \in Seq(T)
      /\ Len(<< >>) = 0
      /\ \A i \in 1 .. 0 : FALSE
  BY SMTT(20)
<1>4. PICK e : e = HeapStart + HeapSize + 1
  OBVIOUS
<1>5. e \in Nat /\ 0 < e /\ 0 \in 0 .. HeapSize
  BY <1>4, SizeAssumption, SMTT(20) DEF HeapStart
<1>6. PICK a, b : a = [org |-> 0, nbytes |-> 0] /\ b = [org |-> e, nbytes |-> 0]
  OBVIOUS
<1>7. a \in Entries /\ b \in Entries /\ a.org = 0 /\ a.nbytes = 0 /\ b.org = e
  <2>1. 0 \in Nat
    BY SMTT(20)
  <2> QED
    BY <1>5, <1>6, <2>1 DEF Entries
<1>8. Sentinels = <<a, b>>
  BY <1>4, <1>6 DEF Sentinels
<1>9. /\ Sentinels \in Seq(Entries) /\ Len(Sentinels) = 2 /\ Sentinels[1] = a /\ Sentinels[2] = b
  <2>1. ASSUME NEW T, NEW x \in T, NEW y \in T
        PROVE  <<x, y>> \in Seq(T) /\ Len(<<x, y>>) = 2 /\ <<x, y>>[1] = x /\ <<x, y>>[2] = y
    BY SMTT(20)
  <2> QED
    BY <1>7, <1>8, <2>1
<1>10. TableOK(Sentinels, TableInitSize, << >>)
  <2>1. \A i, j \in 1 .. 2 : i < j => i = 1 /\ j = 2
    BY SMTT(20)
  <2>2. Sorted(Sentinels)
    BY <1>5, <1>7, <1>9, <2>1 DEF Sorted
  <2>3. 2 >= 2 /\ 2 <= TableInitSize /\ \A x \in 2 .. 2 - 1 : FALSE
    BY SizeAssumption, SMTT(20)
  <2> QED
    BY <1>3, <1>4, <1>7, <1>9, <2>2, <2>3 DEF TableOK
<1>11. StackOK(<< >>, << >>, << >>, 0)
  BY <1>3 DEF StackOK
<1>12. m \in MemType
  <2>1. IsMemory(m)
    BY <1>1, HasMemory
  <2>2. TableInitSize \in Nat /\ "none" \in {"none", "heap", "pool"}
    BY SizeAssumption
  <2> QED
    BY <1>2, <1>3, <1>5, <1>9, <2>1, <2>2, MemoryType
<1>13. MemOK(m)
  BY <1>2, <1>10, <1>11, <1>12 DEF MemOK
<1>14. AllHeld(m.history, dsc, dep)
  BY <1>2, <1>3 DEF AllHeld
<1>15. TopHeld(m.history)
  <2>1. ~(0 > 0)
    BY SMTT(20)
  <2> QED
    BY <1>2, <1>3, <2>1 DEF TopHeld
<1>16. AllKept(m.history, dsc)
  BY DEF AllKept
<1> QED
  BY <1>13, <1>14, <1>15, <1>16 DEF Good

\* The invariant holds at the start.
LEMMA InitInv == Init => Inv
<1> SUFFICES ASSUME Init PROVE Inv
  OBVIOUS
<1>1. mem = Memory(<< >>, Sentinels, TableInitSize, << >>, << >>, 0, "none")
  BY DEF Init, Memory
<1>2. desc = [c \in Coarrays |-> 0]
  BY DEF Init
<1>3. Good(mem, desc, depth)
  BY <1>1, <1>2, StartGood
<1>4. 0 \in 0 .. MaxDepth /\ 0 \in 0 .. HeapStart + HeapSize /\ 0 \in Nat
  BY SizeAssumption, SMTT(20) DEF HeapStart
<1>5. statics \in StaticLists /\ 0 \in 0 .. Len(statics)
  <2>1. statics \in StaticLists
    BY DEF Init
  <2>2. Len(statics) \in Nat
    BY <2>1, StaticList, Counted
  <2>3. \A l \in Nat : 0 \in 0 .. l
    BY SMTT(20)
  <2> QED
    BY <2>1, <2>2, <2>3
<1>6. pool \in Pools /\ phase = "count" /\ done = 0 /\ depth = 0
  BY <1>4 DEF Init, Pools
<1>7. desc \in [Coarrays -> 0 .. HeapStart + HeapSize]
  BY <1>2, <1>4
<1> QED
  BY <1>3, <1>4, <1>5, <1>6, <1>7 DEF Inv

\* A procedure is entered.
LEMMA PrologGood ==
  ASSUME NEW m, NEW dsc, NEW dep \in 0 .. MaxDepth, Good(m, dsc, dep) PROVE Good(m, dsc, dep + 1)
<1>1. MemOK(m) /\ AllHeld(m.history, dsc, dep)
  BY DEF Good
<1>2. ASSUME NEW i \in 1 .. Len(m.history) PROVE Reason(m.history[i], dsc, dep + 1)
  <2>1. Reason(m.history[i], dsc, dep)
    BY <1>1 DEF AllHeld
  <2>2. PICK p \in 0 .. MaxDepth : p = m.history[i].parent
    BY <1>1, Origins
  <2>3. p <= dep => p <= dep + 1
    BY SizeAssumption, SMTT(20)
  <2> QED
    BY <2>1, <2>2, <2>3 DEF Reason
<1> QED
  BY <1>2 DEF Good, AllHeld

\* The next address of the heap.
LEMMA NextAddress ==
  ASSUME NEW m, MemOK(m)
  PROVE  /\ HeapStart + m.shift \in 0 .. HeapStart + HeapSize
         /\ HeapStart + m.shift \in Nat /\ HeapStart + m.shift # 0
<1>1. PICK s \in 0 .. HeapSize : s = m.shift
  BY DEF MemOK, MemType
<1>2. HeapSize \in Nat
  BY SizeAssumption
<1>3. HeapStart + s \in 0 .. HeapStart + HeapSize /\ HeapStart + s \in Nat /\ HeapStart + s # 0
  BY <1>2, SMTT(20) DEF HeapStart
<1> QED
  BY <1>1, <1>3

\* A chunk for static coarrays: the descriptors do not change.
LEMMA StaticGood ==
  ASSUME NEW m, NEW dsc, NEW dep \in 0 .. MaxDepth, Good(m, dsc, dep), m.fatal = "none",
         NEW nbytes \in Nat \ {0}
  PROVE  Calm(Construct(m, nbytes, 0, Static), dsc, dep)
<1>1. PICK k : k = NewChunk(m, nbytes, 0, Static)
  OBVIOUS
<1>2. k.infos = {Static} /\ k.parent = 0
  BY <1>1 DEF NewChunk
<1>3. Holder(k, dsc)
  BY <1>2, Names DEF Holder
<1>4. 0 <= dep /\ 0 \in 0 .. MaxDepth
  BY SizeAssumption, SMTT(20)
<1>5. Static \in Descriptors
  BY DEF Descriptors
<1> QED
  BY <1>1, <1>3, <1>4, <1>5, NewGood

\* A chunk for coarray c, in the set of its procedure or in none.
LEMMA MallocGood ==
  ASSUME NEW m, NEW dsc \in [Coarrays -> Nat], NEW dep, Good(m, dsc, dep), m.fatal = "none",
         NEW nbytes \in Nat \ {0}, NEW c \in Coarrays, dsc[c] = 0,
         NEW tag \in {0, c[1]}, tag <= dep,
         NEW dsc2, dsc2 = [dsc EXCEPT ![c] = HeapStart + m.shift]
  PROVE  Calm(Construct(m, nbytes, tag, c), dsc2, dep)
<1>1. PICK k : k = NewChunk(m, nbytes, tag, c)
  OBVIOUS
<1>2. k.org = HeapStart + m.shift /\ k.infos = {c} /\ k.parent \in {0, c[1]} /\ ~k.isGarbage
  BY <1>1 DEF NewChunk
<1>3. tag \in 0 .. MaxDepth /\ k.infos \ {Dummy} = {c} /\ c \in Descriptors
  <2>1. 0 \in 0 .. MaxDepth
    BY SizeAssumption, SMTT(20)
  <2> QED
    BY <1>2, <2>1, Names DEF Descriptors
<1>4. dsc2[c] = HeapStart + m.shift /\ \A d \in Coarrays : d # c => dsc2[d] = dsc[d]
  OBVIOUS
<1>5. Holder(k, dsc2)
  BY <1>2, <1>3, <1>4 DEF Holder
<1>6. Keeps(k, c, dsc2[c])
  BY <1>2, <1>3, <1>4 DEF Keeps
<1>7. /\ \A d \in Coarrays : dsc[d] # 0 => dsc2[d] = dsc[d]
      /\ \A d \in Coarrays : dsc2[d] # dsc[d] => Keeps(k, d, dsc2[d])
  BY <1>4, <1>6
<1> QED
  BY <1>1, <1>3, <1>5, <1>7, NewGood

\* An address in a chunk is one of the heap.
LEMMA HeapAddress ==
  ASSUME NEW m, MemOK(m), NEW i \in 1 .. Len(m.history),
         NEW a \in m.history[i].org .. (m.history[i].org + m.history[i].nbytes - 1)
  PROVE  a \in HeapStart .. (HeapStart + HeapSize)
<1>1. /\ m.history \in Seq(ChunkType) /\ m.shifts \in Seq(Nat) /\ m.shift \in 0 .. HeapSize
      /\ StackOK(m.history, m.coarrays, m.shifts, m.shift) /\ Len(m.shifts) = Len(m.history)
  BY DEF MemOK, MemType, StackOK
<1>2. PICK o \in Nat, n \in Nat, s \in Nat, t \in 0 .. HeapSize :
        o = m.history[i].org /\ n = m.history[i].nbytes /\ s = m.shifts[i] /\ t = m.shift
  BY <1>1, Numbers
<1>3. HeapStart <= o /\ o + s <= HeapStart + t /\ n <= s /\ a \in o .. (o + n - 1) /\ HeapSize \in Nat
  BY <1>1, <1>2, SizeAssumption DEF StackOK
<1> QED
  BY <1>3, SMTT(20) DEF HeapStart

\* A step of the program, after the start-up.
ProgramStep ==
  \/ Prolog \/ Epilog
  \/ \E c \in Coarrays : Free(c) \/ FreeDummy(c) \/ \E n \in Sizes : Malloc(c, n)
  \/ \E a \in DataAddresses : FindDescptr(a)

\* The program keeps the invariant, and only the heap can fail it.
LEMMA ProgramInv == ASSUME Inv, ProgramStep PROVE Inv' /\ mem'.fatal # "pool"
<1>1. /\ phase \in {"count", "static", "run"}
      /\ statics \in StaticLists /\ done \in 0 .. Len(statics)
      /\ pool \in Pools /\ depth \in 0 .. MaxDepth
      /\ desc \in [Coarrays -> 0 .. HeapStart + HeapSize]
      /\ Good(mem, desc, depth)
  BY DEF Inv
<1>2. MemOK(mem)
  BY <1>1 DEF Good
<1>3. desc \in [Coarrays -> Nat]
  <2>1. \A x \in 0 .. HeapStart + HeapSize : x \in Nat
    BY SizeAssumption, SMTT(20) DEF HeapStart
  <2> QED
    BY <1>1, <2>1
<1> DEFINE Still == UNCHANGED <<phase, statics, done, pool>>
<1>4. ASSUME Still, depth' \in 0 .. MaxDepth, desc' \in [Coarrays -> 0 .. HeapStart + HeapSize],
             Calm(mem', desc', depth')
      PROVE  Inv' /\ mem'.fatal # "pool"
  BY <1>1, <1>4 DEF Inv, Calm
<1>5. CASE Prolog
  <2>1. /\ Still /\ mem.fatal = "none" /\ depth < MaxDepth
        /\ depth' = depth + 1 /\ mem' = mem /\ desc' = desc
    BY <1>5 DEF Prolog, Program, Running
  <2>2. depth' \in 0 .. MaxDepth
    <3>1. MaxDepth \in Nat
      BY SizeAssumption
    <3>2. ASSUME NEW d \in 0 .. MaxDepth, d < MaxDepth PROVE d + 1 \in 0 .. MaxDepth
      BY <3>1, <3>2, SMTT(20)
    <3> QED
      BY <1>1, <2>1, <3>2
  <2>3. Calm(mem, desc, depth + 1)
    BY <1>1, <2>1, PrologGood DEF Calm
  <2> QED
    BY <1>1, <1>4, <2>1, <2>2, <2>3
<1>6. CASE Epilog
  <2>1. /\ Still /\ mem.fatal = "none" /\ depth > 0 /\ depth' = depth - 1
        /\ mem' = IF ResourceSet = {} THEN mem ELSE Collect(UnlinkAll(mem, ResourceSet))
        /\ desc' = [c \in Coarrays |-> IF c[1] = depth THEN 0 ELSE desc[c]]
    BY <1>6 DEF Epilog, EpilogFreeing, Program, Running
  <2>2. depth \in 1 .. MaxDepth /\ depth - 1 \in 0 .. MaxDepth
    <3>1. ASSUME NEW d \in 0 .. MaxDepth, d > 0 PROVE d \in 1 .. MaxDepth /\ d - 1 \in 0 .. MaxDepth
      BY <3>1, SizeAssumption, SMTT(20)
    <3> QED
      BY <1>1, <2>1, <3>1
  <2>3. Calm(mem', desc', depth - 1)
    <3>1. ResourceSet = {i \in DOMAIN mem.history : mem.history[i].parent = depth}
      BY DEF ResourceSet
    <3> QED
      BY <1>1, <1>3, <2>1, <2>2, <3>1, EpilogGood
  <2>4. desc' \in [Coarrays -> 0 .. HeapStart + HeapSize]
    <3>1. 0 \in 0 .. HeapStart + HeapSize
      BY SizeAssumption, SMTT(20) DEF HeapStart
    <3> QED
      BY <1>1, <2>1, <3>1
  <2> QED
    BY <1>4, <2>1, <2>2, <2>3, <2>4
<1>7. ASSUME NEW c \in Coarrays, Free(c) \/ FreeDummy(c) PROVE Inv' /\ mem'.fatal # "pool"
  <2>1. PICK i : i = ChunkAt(mem, desc[c])
    OBVIOUS
  <2>2. /\ Still /\ mem.fatal = "none" /\ desc[c] # 0
        /\ \E x : FreeInfo(c, x) /\ Remains(x, mem.history[i].infos, c)
    <3>1. CASE Free(c)
      <4>1. /\ Still /\ mem.fatal = "none" /\ desc[c] # 0
            /\ FreeInfo(c, mem.history[i].infos \ {c})
        BY <2>1, <3>1 DEF Free, Infos, Program, Running
      <4>2. Remains(mem.history[i].infos \ {c}, mem.history[i].infos, c)
        BY DEF Remains
      <4> QED
        BY <4>1, <4>2
    <3>2. CASE FreeDummy(c)
      <4>1. /\ Still /\ mem.fatal = "none" /\ desc[c] # 0
            /\ \E y \in SUBSET {Dummy} :
                 FreeInfo(c, (mem.history[i].infos \ {c, Dummy}) \cup y \cup {Left})
        BY <2>1, <3>2 DEF FreeDummy, Infos, Program, Running
      <4>2. PICK y \in SUBSET {Dummy} :
              FreeInfo(c, (mem.history[i].infos \ {c, Dummy}) \cup y \cup {Left})
        BY <4>1
      <4>3. AllKept(mem.history, desc)
        BY <1>1, <4>1 DEF Good
      <4>4. mem.history[i].infos \ {Dummy} = {c}
        BY <1>2, <2>1, <4>1, <4>3, OwnChunk
      <4>5. PICK x : x = (mem.history[i].infos \ {c, Dummy}) \cup y \cup {Left}
        OBVIOUS
      <4>6. x \in SUBSET {Dummy, Left} /\ Left \in x
        BY <4>4, <4>5
      <4>7. Remains(x, mem.history[i].infos, c)
        BY <4>6 DEF Remains
      <4> QED
        BY <4>1, <4>2, <4>5, <4>7
    <3> QED
      BY <1>7, <3>1, <3>2
  <2>3. PICK x : FreeInfo(c, x) /\ Remains(x, mem.history[i].infos, c)
    BY <2>2
  <2>4. PICK u : u = [mem EXCEPT !.history[i].infos = x]
    OBVIOUS
  <2>5. /\ depth' = depth /\ desc' = [desc EXCEPT ![c] = 0]
        /\ mem' = IF x = {} THEN Collect(UnlinkChunk(u, desc[c])) ELSE u
    BY <2>1, <2>3, <2>4 DEF FreeInfo
  <2>6. Calm(mem', [desc EXCEPT ![c] = 0], depth)
    BY <1>1, <1>3, <2>1, <2>2, <2>3, <2>4, <2>5, FreeGood
  <2>7. desc' \in [Coarrays -> 0 .. HeapStart + HeapSize]
    <3>1. 0 \in 0 .. HeapStart + HeapSize
      BY SizeAssumption, SMTT(20) DEF HeapStart
    <3> QED
      BY <1>1, <2>5, <3>1
  <2> QED
    BY <1>1, <1>4, <2>2, <2>5, <2>6, <2>7
<1>8. ASSUME NEW c \in Coarrays, NEW n \in Sizes, Malloc(c, n) PROVE Inv' /\ mem'.fatal # "pool"
  <2>1. PICK r \in Nat \ {0} : r = RoundUpMalloc(n)
    <3>1. n \in Nat
      BY SizeAssumption
    <3> QED
      BY <3>1, Share
  <2>2. PICK tag : tag = IF c[1] = depth THEN depth ELSE 0
    OBVIOUS
  <2>3. tag \in {0, c[1]} /\ tag <= depth
    <3>1. \A d \in 0 .. MaxDepth : 0 <= d /\ d <= d
      BY SizeAssumption, SMTT(20)
    <3> QED
      BY <1>1, <2>2, <3>1
  <2>4. /\ Still /\ mem.fatal = "none" /\ desc[c] = 0 /\ depth' = depth
        /\ mem' = Construct(mem, r, tag, c)
        /\ desc' = [desc EXCEPT ![c] = HeapStart + mem.shift]
    BY <1>8, <2>1, <2>2 DEF Malloc, MallocInto, Program, Running
  <2>5. Calm(Construct(mem, r, tag, c), desc', depth)
    BY <1>1, <1>3, <2>3, <2>4, MallocGood
  <2>6. desc' \in [Coarrays -> 0 .. HeapStart + HeapSize]
    BY <1>1, <1>2, <2>4, NextAddress
  <2> QED
    BY <1>1, <1>4, <2>4, <2>5, <2>6
<1>9. ASSUME NEW a \in DataAddresses, FindDescptr(a) PROVE Inv' /\ mem'.fatal # "pool"
  <2>1. PICK s : s = Search(mem.table, a)
    OBVIOUS
  <2>2. /\ Still /\ mem.fatal = "none" /\ depth' = depth /\ desc' = desc
        /\ mem' = IF s.found
                  THEN [mem EXCEPT !.history[ChunkAt(mem, mem.table[s.idx + 1].org)].infos = @ \cup {Dummy}]
                  ELSE mem
    BY <1>9, <2>1 DEF FindDescptr, Program, Running
  <2>3. a \in HeapStart .. (HeapStart + HeapSize)
    <3>1. DOMAIN mem.history = 1 .. Len(mem.history)
      <4>1. ASSUME NEW T, NEW q \in Seq(T) PROVE DOMAIN q = 1 .. Len(q)
        BY SMTT(20)
      <4> QED
        BY <1>2, <4>1 DEF MemOK, MemType
    <3>2. PICK i \in 1 .. Len(mem.history) :
            a \in mem.history[i].org .. (mem.history[i].org + mem.history[i].nbytes - 1)
      BY <1>9, <3>1 DEF DataAddresses
    <3> QED
      BY <1>2, <3>2, HeapAddress
  <2>4. Calm(mem', desc, depth)
    BY <1>1, <2>1, <2>2, <2>3, FindGood
  <2> QED
    BY <1>1, <1>4, <2>2, <2>4
<1> QED
  BY <1>5, <1>6, <1>7, <1>8, <1>9 DEF ProgramStep

\* Every step keeps the invariant.
LEMMA NextInv == Inv /\ [Next]_vars => Inv'
<1> SUFFICES ASSUME Inv, [Next]_vars PROVE Inv'
  OBVIOUS
<1>1. /\ phase \in {"count", "static", "run"}
      /\ statics \in StaticLists /\ done \in 0 .. Len(statics)
      /\ pool \in Pools /\ depth \in 0 .. MaxDepth
      /\ desc \in [Coarrays -> 0 .. HeapStart + HeapSize]
      /\ Good(mem, desc, depth)
  BY DEF Inv
<1>2. MemOK(mem)
  BY <1>1 DEF Good
<1>3. Len(statics) \in Nat /\ 0 \in 0 .. Len(statics)
  <2>1. Len(statics) \in Nat
    BY <1>1, StaticList, Counted
  <2>2. \A l \in Nat : 0 \in 0 .. l
    BY SMTT(20)
  <2> QED
    BY <2>1, <2>2
<1>4. CASE CountSize
  <2>1. /\ done < Len(statics) /\ done' = done + 1
        /\ UNCHANGED <<phase, statics, mem, depth, desc>>
        /\ pool' = [pool EXCEPT !.total = pool.total + RoundUpMalloc(statics[done + 1])] \/ pool' = pool
    BY <1>4 DEF CountSize, CountIf
  <2>2. statics[done + 1] \in Nat /\ done + 1 \in 0 .. Len(statics)
    BY <1>1, <2>1, NextStatic
  <2>3. PICK r \in Nat : r = RoundUpMalloc(statics[done + 1])
    BY <2>2, Share
  <2>4. pool' \in Pools
    <3>1. ASSUME NEW p \in Pools, NEW x \in Nat PROVE [p EXCEPT !.total = p.total + x] \in Pools
      BY SMTT(20) DEF Pools
    <3> QED
      BY <1>1, <2>1, <2>3, <3>1
  <2> QED
    BY <1>1, <2>1, <2>2, <2>4 DEF Inv
<1>5. CASE MallocPool
  <2>1. PICK total : total = pool.total + SystemSize
    OBVIOUS
  <2>2. /\ mem.fatal = "none" /\ phase' = "static" /\ done' = 0 /\ UNCHANGED <<statics, depth, desc>>
        /\ mem' = Construct(mem, RoundUpMalloc(total), 0, Static)
        /\ pool' = [total |-> total, current |-> HeapStart + mem.shift + SystemSize,
                    org |-> HeapStart + mem.shift]
    BY <1>5, <2>1 DEF MallocPool, Running
  <2>3. total \in Nat
    <3>1. PICK x \in Nat : x = pool.total
      BY <1>1 DEF Pools
    <3>2. x + SystemSize \in Nat
      BY SizeAssumption, SMTT(20)
    <3> QED
      BY <2>1, <3>1, <3>2
  <2>4. Good(mem', desc', depth')
    <3>1. RoundUpMalloc(total) \in Nat \ {0}
      BY <2>3, Share
    <3>2. Good(Construct(mem, RoundUpMalloc(total), 0, Static), desc, depth)
      BY <1>1, <2>2, <3>1, StaticGood DEF Calm
    <3> QED
      BY <2>2, <3>2
  <2>5. pool' \in Pools
    <3>1. PICK y \in Nat : y = HeapStart + mem.shift
      BY <1>2, NextAddress
    <3>2. y + SystemSize \in Nat
      BY SizeAssumption, SMTT(20)
    <3> QED
      BY <2>2, <2>3, <3>1, <3>2 DEF Pools
  <2> QED
    BY <1>1, <1>3, <2>2, <2>4, <2>5 DEF Inv
<1>6. CASE AllocStatic
  <2>1. /\ mem.fatal = "none" /\ done < Len(statics) /\ done' = done + 1
        /\ UNCHANGED <<phase, statics, depth, desc>>
    BY <1>6 DEF AllocStatic, Running
  <2>2. statics[done + 1] \in Nat /\ done + 1 \in 0 .. Len(statics)
    BY <1>1, <2>1, NextStatic
  <2>3. PICK nbytes \in Nat : nbytes = statics[done + 1]
    BY <2>2
  <2>4. PICK share \in Nat : share = RoundUpMalloc(nbytes)
    BY Share
  <2>5. Good(mem', desc', depth') /\ pool' \in Pools
    <3>1. CASE nbytes > Threshold
      <4>1. mem' = Construct(mem, nbytes, 0, Static) /\ pool' = pool
        BY <1>6, <2>3, <3>1 DEF AllocStatic
      <4>2. nbytes \in Nat \ {0}
        BY <3>1, SizeAssumption, SMTT(20)
      <4>3. Good(Construct(mem, nbytes, 0, Static), desc, depth)
        BY <1>1, <2>1, <4>2, StaticGood DEF Calm
      <4> QED
        BY <1>1, <2>1, <4>1, <4>3
    <3>2. CASE ~(nbytes > Threshold)
      <4>1. /\ mem' = mem \/ mem' = Fail(mem, "pool")
            /\ pool' = [pool EXCEPT !.current = pool.current + share]
        BY <1>6, <2>3, <2>4, <3>2 DEF AllocStatic
      <4>2. ASSUME NEW p \in Pools, NEW x \in Nat PROVE [p EXCEPT !.current = p.current + x] \in Pools
        BY SMTT(20) DEF Pools
      <4>3. Good(Fail(mem, "pool"), desc, depth)
        BY <1>1, FailGood DEF Good
      <4>4. Good(mem', desc, depth)
        BY <1>1, <4>1, <4>3
      <4>5. pool' \in Pools
        BY <1>1, <4>1, <4>2
      <4> QED
        BY <2>1, <4>4, <4>5
    <3> QED
      BY <3>1, <3>2
  <2> QED
    BY <1>1, <2>1, <2>2, <2>5 DEF Inv
<1>7. CASE StartProgram
  <2>1. /\ phase' = "run" /\ statics' = << >> /\ done' = 0
        /\ pool' = [total |-> 0, current |-> 0, org |-> 0]
        /\ UNCHANGED <<mem, depth, desc>>
    BY <1>7 DEF StartProgram
  <2>2. statics' \in StaticLists /\ Len(statics') = 0
    BY <2>1, StaticList
  <2>3. 0 \in 0 .. 0 /\ 0 \in Nat
    BY SMTT(20)
  <2>4. pool' \in Pools
    BY <2>1, <2>3 DEF Pools
  <2> QED
    BY <1>1, <2>1, <2>2, <2>3, <2>4 DEF Inv
<1>8. CASE ProgramStep
  BY <1>8, ProgramInv
<1>9. CASE UNCHANGED vars
  BY <1>1, <1>9 DEF vars, Inv
<1> QED
  BY <1>4, <1>5, <1>6, <1>7, <1>8, <1>9 DEF Next, ProgramStep

\* Every reachable state satisfies the invariant.
THEOREM InvHolds == Spec => []Inv
  BY InitInv, NextInv, PTL DEF Spec

----------------------------------------------------------------------------
(* What the invariant implies *)

\* A chunk of the history, as an element of Chunks.
LEMMA InHistory ==
  ASSUME MemOK(mem) PROVE \A k \in Chunks : \E i \in 1 .. Len(mem.history) : k = mem.history[i]
<1>1. ASSUME NEW T, NEW q \in Seq(T) PROVE DOMAIN q = 1 .. Len(q)
  BY SMTT(20)
<1>2. DOMAIN mem.history = 1 .. Len(mem.history)
  BY <1>1 DEF MemOK, MemType
<1> QED
  BY <1>2 DEF Chunks

\* The other way round.
LEMMA IsChunkOf ==
  ASSUME MemOK(mem), NEW i \in 1 .. Len(mem.history) PROVE mem.history[i] \in Chunks
<1>1. ASSUME NEW T, NEW q \in Seq(T) PROVE DOMAIN q = 1 .. Len(q)
  BY SMTT(20)
<1>2. DOMAIN mem.history = 1 .. Len(mem.history)
  BY <1>1 DEF MemOK, MemType
<1> QED
  BY <1>2 DEF Chunks

\* Every variable has its type: the bookkeeping of a chunk stays well formed and the
\* lower layer never hands out more than the heap, whatever the sizes asked for.
THEOREM TypeCorrect == Spec => []TypeOK
<1>1. Inv => TypeOK
  <2> SUFFICES ASSUME Inv PROVE TypeOK
    OBVIOUS
  <2>1. MemOK(mem)
    BY DEF Inv, Good
  <2>2. ASSUME NEW k \in Chunks PROVE k \in ChunkType
    <3>1. PICK i \in 1 .. Len(mem.history) : k = mem.history[i]
      BY <2>1, InHistory
    <3> QED
      BY <2>1, <3>1, Origins
  <2>3. mem.shift \in 0 .. HeapSize
    BY <2>1 DEF MemOK, MemType
  <2> QED
    BY <2>2, <2>3 DEF Inv, TypeOK, ChunkType, Pools
<1> QED
  BY <1>1, InvHolds, PTL

\* The history of libxmpf and the two queues of libxmp describe one stack of
\* adjacent chunks: _XMP_coarray_lastly_deallocate pops the chunk libxmpf frees.
THEOREM HistoryInStep == Spec => []InStep
<1>1. Inv => InStep
  <2> SUFFICES ASSUME Inv PROVE InStep
    OBVIOUS
  <2>1. /\ mem.history \in Seq(ChunkType)
        /\ StackOK(mem.history, mem.coarrays, mem.shifts, mem.shift)
    BY DEF Inv, Good, MemOK, MemType
  <2>2. PICK n \in Nat : n = Len(mem.history)
    BY <2>1, Counted
  <2>3. \A i \in 1 .. n : ~(i < n) => i = n
    BY <2>2, SMTT(20)
  <2> QED
    BY <2>1, <2>2, <2>3 DEF InStep, StackOK
<1> QED
  BY <1>1, InvHolds, PTL

\* No deallocation, procedure exit or collection takes the chunk of a coarray that
\* is still allocated, or links another coarray to it.
THEOREM AllocatedKept == Spec => []AllocatedIsKept
<1>1. Inv => AllocatedIsKept
  <2> SUFFICES ASSUME Inv, Running, NEW c \in Allocated
               PROVE  \E k \in Chunks : k.org = desc[c] /\ ~k.isGarbage /\ k.infos \ {Dummy} = {c}
    BY DEF AllocatedIsKept
  <2>1. MemOK(mem) /\ AllKept(mem.history, desc)
    BY DEF Inv, Good, Running
  <2>2. c \in Coarrays /\ desc[c] # 0
    BY DEF Allocated
  <2>3. PICK i \in 1 .. Len(mem.history) : Keeps(mem.history[i], c, desc[c])
    BY <2>1, <2>2 DEF AllKept
  <2>4. mem.history[i] \in Chunks
    BY <2>1, IsChunkOf
  <2> QED
    BY <2>3, <2>4 DEF Keeps
<1> QED
  BY <1>1, InvHolds, PTL

\* The binary search of the sorted table answers exactly, for every address of the
\* heap, and the table never outgrows the memory allocated for it.
THEOREM LookupExact == Spec => []LookupIsExact
<1>1. Inv => LookupIsExact
  <2> SUFFICES ASSUME Inv PROVE LookupIsExact
    OBVIOUS
  <2>1. /\ MemOK(mem) /\ mem.history \in Seq(ChunkType) /\ mem.table \in Seq(Entries) /\ mem.room \in Nat
        /\ mem.coarrays \in Seq(Nat) /\ mem.shifts \in Seq(Nat) /\ mem.shift \in 0 .. HeapSize
        /\ StackOK(mem.history, mem.coarrays, mem.shifts, mem.shift)
        /\ TableOK(mem.table, mem.room, mem.history)
        /\ Len(mem.shifts) = Len(mem.history)
    BY DEF Inv, Good, MemOK, MemType, StackOK
  <2>2. ASSUME NEW a \in HeapStart .. (HeapStart + HeapSize)
        PROVE  LET s == Search(mem.table, a)
                   home == {k \in Chunks : ~k.isGarbage /\ a \in k.org .. (k.org + k.nbytes - 1)}
               IN /\ s.found <=> home # {}
                  /\ s.found => \A k \in home : mem.table[s.idx + 1].org = k.org
    <3> DEFINE s == Search(mem.table, a)
               home == {k \in Chunks : ~k.isGarbage /\ a \in k.org .. (k.org + k.nbytes - 1)}
    <3> HIDE DEF s, home
    <3>1. s = Search(mem.table, a)
      BY DEF s
    <3>2. home = {k \in Chunks : ~k.isGarbage /\ a \in k.org .. (k.org + k.nbytes - 1)}
      BY DEF home
    <3>3. PICK x \in 0 .. Len(mem.table) - 2 :
            /\ Bracket(mem.table, a, x)
            /\ Search(mem.table, a).idx = x
            /\ Search(mem.table, a).found <=> x > 0 /\ a < mem.table[x + 1].org + mem.table[x + 1].nbytes
      BY <2>1, TableSearch
    <3>4. a \in Nat
      BY SizeAssumption, SMTT(20) DEF HeapStart
    <3>5. ASSUME s.found PROVE home # {}
      <4>1. x > 0 /\ a < mem.table[x + 1].org + mem.table[x + 1].nbytes /\ mem.table[x + 1].org <= a
        BY <3>1, <3>3, <3>5 DEF Bracket
      <4>2. PICK i \in 1 .. Len(mem.history) :
              Same(mem.table[x + 1], mem.history[i]) /\ ~mem.history[i].isGarbage
        <5>1. PICK t \in Nat : t = Len(mem.table)
          BY <2>1, Counted
        <5>2. x \in 0 .. t - 2
          BY <3>3, <5>1
        <5>3. x + 1 \in 2 .. t - 1
          BY <4>1, <5>2, SMTT(20)
        <5> QED
          BY <2>1, <5>1, <5>3 DEF TableOK
      <4>3. PICK o \in Nat, n \in Nat : o = mem.history[i].org /\ n = mem.history[i].nbytes
        BY <2>1, Numbers
      <4>4. o <= a /\ a < o + n
        BY <4>1, <4>2, <4>3 DEF Same
      <4>5. a \in o .. (o + n - 1)
        BY <3>4, <4>4, SMTT(20)
      <4>6. mem.history[i] \in Chunks
        BY <2>1, IsChunkOf
      <4> QED
        BY <3>2, <4>2, <4>3, <4>5, <4>6
    <3>6. ASSUME NEW k \in home PROVE s.found /\ mem.table[s.idx + 1].org = k.org
      <4>1. k \in Chunks /\ ~k.isGarbage /\ a \in k.org .. (k.org + k.nbytes - 1)
        BY <3>2, <3>6
      <4>2. PICK i \in 1 .. Len(mem.history) : k = mem.history[i]
        BY <2>1, <4>1, InHistory
      <4>3. PICK o \in Nat, n \in Nat : o = k.org /\ n = k.nbytes
        BY <2>1, <4>2, Numbers
      <4>4. a \in o .. (o + n - 1)
        BY <4>1, <4>3
      <4>5. o <= a /\ a < o + n
        BY <4>4, SMTT(20)
      <4>6. mem.history[i].org <= a /\ a < mem.history[i].org + mem.history[i].nbytes
            /\ ~mem.history[i].isGarbage
        BY <4>1, <4>2, <4>3, <4>5
      <4>7. PICK y \in 1 .. Len(mem.table) - 2 :
              /\ Same(mem.table[y + 1], mem.history[i])
              /\ Search(mem.table, a).idx = y /\ Search(mem.table, a).found
        BY <2>1, <3>4, <4>6, TableBooked
      <4> QED
        BY <3>1, <4>2, <4>7 DEF Same
    <3>7. /\ s.found <=> home # {}
          /\ s.found => \A k \in home : mem.table[s.idx + 1].org = k.org
      BY <3>5, <3>6
    <3> QED
      BY <3>7 DEF s, home
  <2>3. Len(mem.table) <= mem.room
    BY <2>1 DEF TableOK
  <2> QED
    BY <2>2, <2>3 DEF LookupIsExact
<1> QED
  BY <1>1, InvHolds, PTL

\* A chunk in use is held by a static coarray, a dummy argument or the coarray
\* allocated in it, unless that coarray was deallocated by way of a dummy argument
\* or allocated by a procedure inside its own; no chunk in the set of a procedure
\* outlives it, and garbage at the end of the history is always returned.
THEOREM HeldReasoned == Spec => []HeldForAReason
<1>1. Inv => HeldForAReason
  <2> SUFFICES ASSUME Inv PROVE HeldForAReason
    OBVIOUS
  <2> DEFINE Reached(k) ==
        \/ k.infos \cap {Static, Dummy} # {}
        \/ \E c \in k.infos \cap Allocated : desc[c] = k.org
        \/ Left \in k.infos
        \/ k.parent = 0 /\ \E c \in k.infos : c[1] > 0
  <2>1. /\ MemOK(mem) /\ AllHeld(mem.history, desc, depth) /\ TopHeld(mem.history)
        /\ mem.history \in Seq(ChunkType)
    BY DEF Inv, Good, MemOK, MemType
  <2>2. ASSUME NEW k \in Chunks, ~k.isGarbage
        PROVE  Reached(k) /\ k.parent <= depth
    <3>1. PICK i \in 1 .. Len(mem.history) : k = mem.history[i]
      BY <2>1, InHistory
    <3>2. k.parent <= depth /\ Holder(k, desc) /\ k.org # 0
      BY <2>1, <2>2, <3>1, Origins DEF AllHeld, Reason
    <3>3. ASSUME NEW c \in Coarrays, desc[c] = k.org, k.infos \ {Dummy} = {c} PROVE Reached(k)
      <4>1. c \in Allocated /\ c \in k.infos
        BY <3>2, <3>3 DEF Allocated
      <4> QED
        BY <3>3, <4>1
    <3>4. ASSUME k.infos \ {Dummy} = {Static} \/ k.infos = {Dummy} \/ k.infos \ {Dummy} = {Left}
          PROVE  Reached(k)
      BY <3>4
    <3>5. ASSUME NEW c \in Coarrays, k.infos \ {Dummy} = {c}, k.parent = 0, c[1] # 0 PROVE Reached(k)
      <4>1. \A d \in 0 .. MaxDepth : d # 0 => d > 0
        BY SizeAssumption, SMTT(20)
      <4>2. c[1] > 0 /\ c \in k.infos
        BY <3>5, <4>1, Names
      <4> QED
        BY <3>5, <4>2
    <3> QED
      BY <3>2, <3>3, <3>4, <3>5 DEF Holder
  <2>3. mem.history # << >> => ~mem.history[Len(mem.history)].isGarbage
    <3>1. ASSUME NEW T, NEW q \in Seq(T), q # << >> PROVE Len(q) > 0
      BY <3>1, SMTT(20)
    <3> QED
      BY <2>1, <3>1 DEF TopHeld
  <2> QED
    BY <2>2, <2>3 DEF HeldForAReason
<1> QED
  BY <1>1, InvHolds, PTL

----------------------------------------------------------------------------
(* The static pool: what the first traversal counts suffices for the second *)

\* The threshold is a multiple of the unit, as it is by default.
Aligned == \E k \in Nat \ {0} : Threshold = k * Unit

\* The first traversal compares the rounded size with the threshold, the second one
\* the size as it is: with an aligned threshold both take the same branch.
LEMMA SameTest ==
  ASSUME Aligned, NEW n \in Nat PROVE RoundUpMalloc(n) <= Threshold <=> n <= Threshold
<1>1. PICK k \in Nat \ {0} : Threshold = k * Unit
  BY DEF Aligned
<1>2. Unit \in Nat \ {0} /\ Threshold \in Nat
  BY SizeAssumption
<1>3. PICK u \in Nat \ {0} : u = Unit
  BY <1>2
<1>4. PICK t \in Nat : t = Threshold
  BY <1>2
<1>5. t = k * u
  BY <1>1, <1>3, <1>4
<1>6. ASSUME NEW a \in Nat, NEW b \in Nat, NEW v \in Nat \ {0} PROVE (a - 1) * v < b * v => a * v <= b * v
  <2>1. CASE a <= b
    <3>1. PICK d \in Nat : b = a + d
      BY <2>1, SMTT(20)
    <3>2. (a + d) * v = a * v + d * v /\ d * v \in Nat /\ a * v \in Nat
      BY SMTT(20)
    <3> QED
      BY <3>1, <3>2, SMTT(20)
  <2>2. CASE ~(a <= b)
    <3>1. PICK d \in Nat : a - 1 = b + d
      BY <2>2, SMTT(20)
    <3>2. (b + d) * v = b * v + d * v /\ d * v \in Nat /\ b * v \in Nat
      BY SMTT(20)
    <3> QED
      BY <3>1, <3>2, SMTT(20)
  <2> QED
    BY <2>1, <2>2
<1>7. CASE n > 0
  <2>1. PICK r \in Nat : r = RoundUp(n, u)
    BY RoundedUp
  <2>2. n <= r /\ \E q \in Nat : r = q * u /\ (q - 1) * u < n
    BY <2>1, RoundedUp
  <2>3. PICK q \in Nat : r = q * u /\ (q - 1) * u < n
    BY <2>2
  <2>4. n <= t => (q - 1) * u < k * u
    <3>1. PICK x \in Int : x = (q - 1) * u
      BY SMTT(20)
    <3>2. n <= t => x < t
      BY <2>3, <3>1, SMTT(20)
    <3> QED
      BY <1>5, <3>1, <3>2
  <2>5. n <= t => r <= t
    BY <1>5, <1>6, <2>3, <2>4
  <2>6. r <= t => n <= t
    BY <2>2, SMTT(20)
  <2> QED
    BY <1>3, <1>4, <1>7, <2>1, <2>5, <2>6 DEF RoundUpMalloc
<1>8. CASE ~(n > 0)
  <2>1. n <= t
    BY <1>8, SMTT(20)
  <2>2. u <= t
    <3>1. PICK d \in Nat : k = d + 1
      BY SMTT(20)
    <3>2. (d + 1) * u = d * u + u /\ d * u \in Nat
      BY SMTT(20)
    <3> QED
      BY <1>5, <3>1, <3>2, SMTT(20)
  <2> QED
    BY <1>3, <1>4, <1>8, <2>1, <2>2 DEF RoundUpMalloc
<1> QED
  BY <1>7, <1>8

\* f[k] is the sum of the first k values of v.
IsSum(f, l, v) ==
  /\ f \in [0 .. l -> Nat]
  /\ f[0] = 0
  /\ \A k \in 0 .. l-1 : f[k + 1] = f[k] + v[k + 1]

\* There are such sums.
LEMMA Summed ==
  ASSUME NEW l \in Nat, NEW v \in [1 .. l -> Nat] PROVE \E f : IsSum(f, l, v)
<1>1. PICK P : P = {k \in 0 .. l : \E f : IsSum(f, k, v)}
  OBVIOUS
<1>2. P \in SUBSET (0 .. l)
  BY <1>1
<1>3. 0 \in P
  <2>1. PICK f : f = [k \in 0 .. 0 |-> 0]
    OBVIOUS
  <2>2. f \in [0 .. 0 -> Nat] /\ f[0] = 0 /\ 0 .. 0-1 = {} /\ 0 \in 0 .. l
    BY <2>1, SMTT(20)
  <2>3. IsSum(f, 0, v)
    BY <2>2 DEF IsSum
  <2> QED
    BY <1>1, <2>2, <2>3
<1>4. ASSUME NEW i \in 0 .. l-1, i \in P PROVE i + 1 \in P
  <2>1. PICK f : IsSum(f, i, v)
    BY <1>1, <1>4
  <2>2. i \in Nat /\ i + 1 \in 1 .. l /\ i + 1 \in 0 .. l
    BY <1>4, SMTT(20)
  <2>3. PICK x \in Nat : x = v[i + 1]
    BY <2>2
  <2>4. PICK g : g = [k \in 0 .. i+1 |-> IF k <= i THEN f[k] ELSE f[i] + x]
    OBVIOUS
  <2>5. f \in [0 .. i -> Nat]
    BY <2>1 DEF IsSum
  <2>6. g \in [0 .. i+1 -> Nat] /\ g[0] = f[0]
    <3>1. 0 \in 0 .. i+1 /\ 0 <= i /\ i \in 0 .. i
      BY <2>2, SMTT(20)
    <3>2. ASSUME NEW k \in 0 .. i+1, k <= i PROVE k \in 0 .. i
      BY <2>2, <3>2, SMTT(20)
    <3>3. ASSUME NEW y \in Nat PROVE y + x \in Nat
      BY SMTT(20)
    <3>4. f[i] + x \in Nat
      BY <2>5, <3>1, <3>3
    <3> QED
      BY <2>4, <2>5, <3>1, <3>2, <3>4
  <2>7. ASSUME NEW k \in 0 .. (i+1)-1 PROVE g[k + 1] = g[k] + v[k + 1]
    <3>1. k \in 0 .. i+1 /\ k + 1 \in 0 .. i+1 /\ k <= i
      BY <2>2, <2>7, SMTT(20)
    <3>2. CASE k = i
      <4>1. ~(k + 1 <= i)
        BY <2>2, <3>2, SMTT(20)
      <4>2. g[k + 1] = f[i] + x /\ g[k] = f[i]
        BY <2>4, <3>1, <3>2, <4>1
      <4> QED
        BY <2>3, <3>2, <4>2
    <3>3. CASE k # i
      <4>1. k + 1 <= i /\ k \in 0 .. i-1
        BY <2>2, <2>7, <3>3, SMTT(20)
      <4>2. g[k + 1] = f[k + 1] /\ g[k] = f[k]
        BY <2>4, <3>1, <4>1
      <4> QED
        BY <2>1, <4>1, <4>2 DEF IsSum
    <3> QED
      BY <3>2, <3>3
  <2>8. IsSum(g, i + 1, v)
    BY <2>1, <2>6, <2>7 DEF IsSum
  <2> QED
    BY <1>1, <2>2, <2>8
<1>5. l \in P
  <2>1. l \in 0 .. l
    BY SMTT(20)
  <2> QED
    BY <1>2, <1>3, <1>4, <2>1, Induct
<1> QED
  BY <1>1, <1>5

\* A sum of a part is no more than the sum of all.
LEMMA SumsGrow ==
  ASSUME NEW l \in Nat, NEW v \in [1 .. l -> Nat], NEW f, IsSum(f, l, v), NEW i \in 0 .. l
  PROVE  f[i] <= f[l]
<1>1. f \in [0 .. l -> Nat] /\ \A k \in 0 .. l-1 : f[k + 1] = f[k] + v[k + 1]
  BY DEF IsSum
<1>2. PICK P : P = {k \in 0 .. l : \A j \in 0 .. k : f[j] <= f[k]}
  OBVIOUS
<1>3. P \in SUBSET (0 .. l)
  BY <1>2
<1>4. 0 \in P
  <2>1. 0 \in 0 .. l /\ \A j \in 0 .. 0 : j = 0
    BY SMTT(20)
  <2>2. f[0] <= f[0]
    <3>1. ASSUME NEW x \in Nat PROVE x <= x
      BY SMTT(20)
    <3> QED
      BY <1>1, <2>1, <3>1
  <2> QED
    BY <1>2, <2>1, <2>2
<1>5. ASSUME NEW k \in 0 .. l-1, k \in P PROVE k + 1 \in P
  <2>1. k \in 0 .. l /\ k + 1 \in 0 .. l /\ k + 1 \in 1 .. l
    BY <1>5, SMTT(20)
  <2>2. PICK a \in Nat, b \in Nat, x \in Nat : a = f[k] /\ b = f[k + 1] /\ x = v[k + 1]
    BY <1>1, <2>1
  <2>3. b = a + x
    BY <1>1, <2>2
  <2>4. ASSUME NEW j \in 0 .. k+1 PROVE f[j] <= f[k + 1]
    <3>1. j \in 0 .. l /\ (j \in 0 .. k \/ j = k + 1)
      BY <2>1, <2>4, SMTT(20)
    <3>2. PICK y \in Nat : y = f[j]
      BY <1>1, <3>1
    <3>3. y <= a \/ y = b
      BY <1>2, <1>5, <2>2, <3>1, <3>2
    <3>4. y <= b
      BY <2>3, <3>3, SMTT(20)
    <3> QED
      BY <2>2, <3>2, <3>4
  <2> QED
    BY <1>2, <2>1, <2>4
<1>6. l \in P
  <2>1. l \in 0 .. l
    BY SMTT(20)
  <2> QED
    BY <1>3, <1>4, <1>5, <2>1, Induct
<1> QED
  BY <1>2, <1>6

\* The part of the pool for a static coarray of n bytes.
Part(n) == IF n <= Threshold THEN RoundUpMalloc(n) ELSE 0

Parts(s) == [k \in 1 .. Len(s) |-> Part(s[k])]

\* Parts are sizes.
LEMMA PartsType ==
  ASSUME NEW s \in StaticLists PROVE Len(s) \in Nat /\ Parts(s) \in [1 .. Len(s) -> Nat]
<1>1. s \in Seq(StaticSizes)
  BY StaticList
<1>2. Len(s) \in Nat
  BY <1>1, Counted
<1>3. ASSUME NEW T, NEW q \in Seq(T), NEW i \in 1 .. Len(q) PROVE q[i] \in T
  BY SMTT(20)
<1>4. ASSUME NEW i \in 1 .. Len(s) PROVE Part(s[i]) \in Nat
  <2>1. s[i] \in Nat
    BY <1>1, <1>3, SizeAssumption
  <2>2. RoundUpMalloc(s[i]) \in Nat
    BY <2>1, Share
  <2>3. 0 \in Nat
    BY SMTT(20)
  <2> QED
    BY <2>2, <2>3 DEF Part
<1> QED
  BY <1>2, <1>4 DEF Parts

\* What is counted until now, and what is used until now of what was counted.
PoolInv ==
  /\ mem.fatal # "pool"
  /\ phase # "run" =>
       \E f : /\ IsSum(f, Len(statics), Parts(statics))
              /\ phase = "count" => pool.total = f[done]
              /\ phase = "static" => /\ pool.total = f[Len(statics)] + SystemSize
                                     /\ pool.current = pool.org + (SystemSize + f[done])

\* Before the traversals nothing is counted.
LEMMA InitPool == Init => PoolInv
<1> SUFFICES ASSUME Init PROVE PoolInv
  OBVIOUS
<1>1. /\ statics \in StaticLists /\ mem.fatal = "none" /\ pool.total = 0 /\ done = 0
      /\ phase = "count"
  BY DEF Init
<1>2. PICK f : IsSum(f, Len(statics), Parts(statics))
  BY <1>1, PartsType, Summed
<1>3. f[0] = 0
  BY <1>2 DEF IsSum
<1> QED
  BY <1>1, <1>2, <1>3 DEF PoolInv

\* The next coarray of a traversal adds its part to the sum.
LEMMA NextSum ==
  ASSUME NEW s \in StaticLists, NEW d \in 0 .. Len(s), d < Len(s),
         NEW f, IsSum(f, Len(s), Parts(s))
  PROVE  f[d] \in Nat /\ f[d + 1] = f[d] + Part(s[d + 1]) /\ f[d + 1] <= f[Len(s)]
         /\ f[Len(s)] \in Nat
<1>1. PICK l \in Nat : l = Len(s)
  BY PartsType
<1>2. d \in 0 .. l-1 /\ d + 1 \in 0 .. l /\ d + 1 \in 1 .. l /\ l \in 0 .. l
  <2>1. d \in 0 .. l /\ d < l
    BY <1>1
  <2> QED
    BY <2>1, SMTT(20)
<1>3. f \in [0 .. l -> Nat] /\ f[d + 1] = f[d] + Parts(s)[d + 1]
  BY <1>1, <1>2 DEF IsSum
<1>4. Parts(s)[d + 1] = Part(s[d + 1])
  BY <1>1, <1>2 DEF Parts
<1>5. f[d + 1] <= f[l]
  BY <1>1, <1>2, PartsType, SumsGrow
<1> QED
  BY <1>1, <1>2, <1>3, <1>4, <1>5

\* Every step keeps the sums, if both traversals take the same coarrays for small.
LEMMA NextPool == ASSUME Aligned, Inv, PoolInv, [Next]_vars PROVE PoolInv'
<1>1. /\ statics \in StaticLists /\ done \in 0 .. Len(statics) /\ pool \in Pools
      /\ depth \in 0 .. MaxDepth /\ Good(mem, desc, depth) /\ MemOK(mem)
  BY DEF Inv, Good
<1>2. /\ mem.fatal # "pool"
      /\ phase # "run" =>
           \E f : /\ IsSum(f, Len(statics), Parts(statics))
                  /\ phase = "count" => pool.total = f[done]
                  /\ phase = "static" => /\ pool.total = f[Len(statics)] + SystemSize
                                         /\ pool.current = pool.org + (SystemSize + f[done])
  BY DEF PoolInv
<1>3. CASE CountSize
  <2>1. /\ phase = "count" /\ phase' = "count" /\ done < Len(statics) /\ done' = done + 1
        /\ statics' = statics /\ mem' = mem
        /\ pool' = IF RoundUpMalloc(statics[done + 1]) <= Threshold
                   THEN [pool EXCEPT !.total = pool.total + RoundUpMalloc(statics[done + 1])] ELSE pool
    BY <1>3 DEF CountSize, CountIf
  <2>2. PICK f : IsSum(f, Len(statics), Parts(statics)) /\ pool.total = f[done]
    BY <1>2, <2>1
  <2>3. PICK n \in Nat : n = statics[done + 1]
    BY <1>1, <2>1, NextStatic
  <2>4. f[done] \in Nat /\ f[done + 1] = f[done] + Part(n)
    BY <1>1, <2>1, <2>2, <2>3, NextSum
  <2>5. RoundUpMalloc(n) <= Threshold <=> n <= Threshold
    BY SameTest
  <2>6. pool'.total = f[done + 1]
    <3>1. CASE n <= Threshold
      <4>1. pool' = [pool EXCEPT !.total = pool.total + RoundUpMalloc(n)]
        BY <2>1, <2>3, <2>5, <3>1
      <4>2. pool'.total = pool.total + RoundUpMalloc(n)
        BY <1>1, <4>1 DEF Pools
      <4> QED
        BY <2>2, <2>4, <3>1, <4>2 DEF Part
    <3>2. CASE ~(n <= Threshold)
      <4>1. pool' = pool
        BY <2>1, <2>3, <2>5, <3>2
      <4>2. ASSUME NEW x \in Nat PROVE x + 0 = x
        BY SMTT(20)
      <4>3. f[done + 1] = f[done]
        BY <2>4, <3>2, <4>2 DEF Part
      <4> QED
        BY <2>2, <4>1, <4>3
    <3> QED
      BY <3>1, <3>2
  <2> QED
    BY <1>2, <2>1, <2>2, <2>6 DEF PoolInv
<1>4. CASE MallocPool
  <2>1. PICK total : total = pool.total + SystemSize
    OBVIOUS
  <2>2. /\ mem.fatal = "none" /\ phase = "count" /\ phase' = "static" /\ done = Len(statics)
        /\ done' = 0 /\ statics' = statics
        /\ mem' = Construct(mem, RoundUpMalloc(total), 0, Static)
        /\ pool' = [total |-> total, current |-> HeapStart + mem.shift + SystemSize,
                    org |-> HeapStart + mem.shift]
    BY <1>4, <2>1 DEF MallocPool, Running
  <2>3. PICK f : IsSum(f, Len(statics), Parts(statics)) /\ pool.total = f[Len(statics)]
    BY <1>2, <2>2
  <2>4. total \in Nat
    <3>1. PICK x \in Nat : x = pool.total
      BY <1>1 DEF Pools
    <3>2. x + SystemSize \in Nat
      BY SizeAssumption, SMTT(20)
    <3> QED
      BY <2>1, <3>1, <3>2
  <2>5. mem'.fatal # "pool"
    <3>1. RoundUpMalloc(total) \in Nat \ {0}
      BY <2>4, Share
    <3>2. Calm(Construct(mem, RoundUpMalloc(total), 0, Static), desc, depth)
      BY <1>1, <2>2, <3>1, StaticGood
    <3> QED
      BY <2>2, <3>2 DEF Calm
  <2>6. pool'.current = pool'.org + (SystemSize + f[0])
    <3>1. PICK y \in Nat : y = HeapStart + mem.shift
      BY <1>1, NextAddress
    <3>2. y + SystemSize = y + (SystemSize + 0)
      BY SizeAssumption, SMTT(20)
    <3>3. f[0] = 0
      BY <2>3 DEF IsSum
    <3>4. pool'.current = y + SystemSize /\ pool'.org = y
      BY <2>2, <3>1
    <3> QED
      BY <3>2, <3>3, <3>4
  <2>7. pool'.total = f[Len(statics)] + SystemSize
    BY <2>1, <2>2, <2>3
  <2> QED
    BY <2>2, <2>3, <2>5, <2>6, <2>7 DEF PoolInv
<1>5. CASE AllocStatic
  <2>1. /\ mem.fatal = "none" /\ phase = "static" /\ phase' = "static" /\ done < Len(statics)
        /\ done' = done + 1 /\ statics' = statics
    BY <1>5 DEF AllocStatic, Running
  <2>2. PICK f : /\ IsSum(f, Len(statics), Parts(statics))
                 /\ pool.total = f[Len(statics)] + SystemSize
                 /\ pool.current = pool.org + (SystemSize + f[done])
    BY <1>2, <2>1
  <2>3. PICK n \in Nat : n = statics[done + 1]
    BY <1>1, <2>1, NextStatic
  <2>4. PICK share \in Nat : share = RoundUpMalloc(n)
    BY Share
  <2>5. f[done] \in Nat /\ f[done + 1] = f[done] + Part(n) /\ f[done + 1] <= f[Len(statics)]
        /\ f[Len(statics)] \in Nat
    BY <1>1, <2>1, <2>2, <2>3, NextSum
  <2>6. PICK a \in Nat, z \in Nat : a = f[done] /\ z = f[Len(statics)]
    BY <2>5
  <2>7. PICK o \in Nat : o = pool.org
    BY <1>1 DEF Pools
  <2>8. /\ mem'.fatal # "pool"
        /\ pool'.total = pool.total /\ pool'.org = pool.org
        /\ pool'.current = pool'.org + (SystemSize + f[done + 1])
    <3>1. CASE n > Threshold
      <4>1. mem' = Construct(mem, n, 0, Static) /\ pool' = pool
        BY <1>5, <2>3, <3>1 DEF AllocStatic
      <4>2. n \in Nat \ {0} /\ ~(n <= Threshold)
        BY <3>1, SizeAssumption, SMTT(20)
      <4>3. Calm(Construct(mem, n, 0, Static), desc, depth)
        BY <1>1, <2>1, <4>2, StaticGood
      <4>4. a + 0 = a
        BY SMTT(20)
      <4>5. f[done + 1] = f[done]
        BY <2>5, <2>6, <4>2, <4>4 DEF Part
      <4> QED
        BY <2>2, <4>1, <4>3, <4>5 DEF Calm
    <3>2. CASE ~(n > Threshold)
      <4>1. n <= Threshold
        BY <3>2, SizeAssumption, SMTT(20)
      <4>2. f[done + 1] = a + share /\ a + share <= z
        BY <2>4, <2>5, <2>6, <4>1 DEF Part
      <4>3. /\ mem' = IF pool.current + share > pool.org + pool.total THEN Fail(mem, "pool") ELSE mem
            /\ pool' = [pool EXCEPT !.current = pool.current + share]
        BY <1>5, <2>3, <2>4, <3>2 DEF AllocStatic
      <4>4. pool.current = o + (SystemSize + a) /\ pool.total = z + SystemSize
        BY <2>2, <2>6, <2>7
      <4>5. PICK y \in Nat : y = SystemSize
        BY SizeAssumption
      <4>6. /\ ~((o + (y + a)) + share > o + (z + y))
            /\ (o + (y + a)) + share = o + (y + (a + share))
        BY <4>2, SMTT(20)
      <4>7. mem' = mem
        BY <2>7, <4>3, <4>4, <4>5, <4>6
      <4>8. /\ pool'.total = pool.total /\ pool'.org = pool.org
            /\ pool'.current = pool.current + share
        BY <1>1, <4>3 DEF Pools
      <4>9. pool'.current = o + (SystemSize + f[done + 1])
        BY <4>2, <4>4, <4>5, <4>6, <4>8
      <4> QED
        BY <1>2, <2>7, <4>7, <4>8, <4>9
    <3> QED
      BY <3>1, <3>2
  <2> QED
    BY <2>1, <2>2, <2>8 DEF PoolInv
<1>6. CASE StartProgram
  BY <1>2, <1>6 DEF StartProgram, PoolInv
<1>7. CASE ProgramStep
  <2>1. phase' = "run"
    BY <1>7 DEF ProgramStep, Prolog, Epilog, EpilogFreeing, Free, FreeDummy, Malloc, MallocInto, FindDescptr, Program
  <2>2. mem'.fatal # "pool"
    BY <1>7, ProgramInv
  <2> QED
    BY <2>1, <2>2 DEF PoolInv
<1>8. CASE UNCHANGED vars
  BY <1>2, <1>8 DEF vars, PoolInv
<1> QED
  BY <1>3, <1>4, <1>5, <1>6, <1>7, <1>8 DEF Next, ProgramStep

\* Whatever the threshold, no chunk is entered twice in the sorted table or removed
\* twice from it: of the fatal errors only the heap's and the pool's can occur.
THEOREM TableNeverFails == Spec => [](mem.fatal \in {"none", "heap", "pool"})
<1>1. Inv => mem.fatal \in {"none", "heap", "pool"}
  BY DEF Inv, Good, MemOK, MemType
<1> QED
  BY <1>1, InvHolds, PTL

\* With a threshold that is a multiple of the unit, the checks for internal errors
\* never fire, whatever the sizes: the pool suffices for the static coarrays, and no
\* chunk is entered twice in the table or removed twice from it.
THEOREM NoErrorIfAligned == Spec => [](Aligned => NoInternalError)
<1>1. Init => (Aligned => PoolInv)
  BY InitPool
<1>2. (Aligned => PoolInv) /\ Inv /\ [Next]_vars => (Aligned => PoolInv)'
  <2>1. Aligned' <=> Aligned
    BY DEF Aligned
  <2> QED
    BY <2>1, NextPool
<1>3. Inv /\ (Aligned => PoolInv) => (Aligned => NoInternalError)
  <2> SUFFICES ASSUME Inv, PoolInv PROVE NoInternalError
    OBVIOUS
  <2>1. mem.fatal \in {"none", "heap", "pool"} /\ mem.fatal # "pool"
    BY DEF Inv, Good, MemOK, MemType, PoolInv
  <2> QED
    BY <2>1 DEF NoInternalError
<1> QED
  BY <1>1, <1>2, <1>3, InvHolds, PTL DEF Spec

=============================================================================
