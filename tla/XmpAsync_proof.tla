---------------------------- MODULE XmpAsync_proof ----------------------------
(***************************************************************************)
(* Asynchronous communication, for every set of async ids, every size of   *)
(* the table of descriptors and every number of communications and node    *)
(* sets: the lookup finds the work of each id, node sets are finalized     *)
(* once, and nothing in flight is dropped.                                 *)
(***************************************************************************)
EXTENDS XmpAsync, TLAPS

Slots == 0 .. TableSize - 1

Labels == {"idle", "open", "task", "finalize", "start", "wait", "end"}

EntryType ==
  [id : Nat, used : BOOLEAN, reqs : Seq(Comms \cup {0}), nodes : Seq(NodeSets),
   gmove : Comms \cup {0}, mode : {"normal", "inout"}]

\* Between xmpc_init_async and xmpc_start_async.
Inside == pc \in {"open", "task", "finalize", "start"}

\* An entry as initialize_async leaves it.
Empty(e) == e.reqs = << >> /\ e.nodes = << >> /\ e.gmove = 0 /\ e.mode = "normal"

\* The chain of slot h: a slot out of use is alone and empty, behind a slot are only
\* entries in use, all of them of ids of the slot, and no id is there twice.
ChainOK(h, chain) ==
  /\ chain \in Seq(EntryType) /\ Len(chain) >= 1
  /\ ~chain[1].used => Len(chain) = 1 /\ Empty(chain[1])
  /\ \A i \in 1 .. Len(chain) :
      /\ i # 1 => chain[i].used
      /\ chain[i].used => chain[i].id \in Ids /\ Slot(chain[i].id) = h
  /\ \A i, j \in 1 .. Len(chain) : chain[i].id = chain[j].id => i = j

----------------------------------------------------------------------------
(* Chains.                                                                  *)

\* An id has a slot of the table.
LEMMA SlotIs == ASSUME NEW id \in Ids PROVE Slot(id) \in Slots
BY SizeAssumption DEF Slot, Slots

\* The first of one position.
LEMMA OneMin == ASSUME NEW k \in Int PROVE Min({k}) = k
BY DEF Min

\* Entry e is in use under an id of slot h.
UsedIn(h, e) == e \in EntryType /\ e.used /\ e.id \in Ids /\ Slot(e.id) = h

\* Chain d is chain c with entry e at position k.
Put(c, k, e, d) ==
  /\ Len(d) = Len(c) /\ d[k] = e
  /\ \A i \in 1 .. Len(c) : i # k => d[i] = c[i]

\* Chain d is chain c and entry e behind it.
Added(c, e, d) ==
  /\ Len(d) = Len(c) + 1 /\ d[Len(c) + 1] = e
  /\ \A i \in 1 .. Len(c) : d[i] = c[i]

\* Chain d is chain c without the entry at position k.
Dropped(c, k, d) ==
  /\ d \in Seq(EntryType) /\ Len(d) = Len(c) - 1
  /\ \A i \in 1 .. Len(d) : d[i] = c[IF i < k THEN i ELSE i + 1]

\* The value of one entry of a chain is replaced, under its id or in a slot alone.
LEMMA PutChain ==
  ASSUME NEW h, NEW c, ChainOK(h, c), NEW k \in 1 .. Len(c), NEW e, UsedIn(h, e),
         e.id = c[k].id \/ Len(c) = 1, NEW d, d = [c EXCEPT ![k] = e]
  PROVE  ChainOK(h, d) /\ Put(c, k, e, d)
<1> USE DEF UsedIn
<1>1. PICK n \in Nat : n = Len(c) /\ n >= 1
  BY DEF ChainOK
<1>2. c \in Seq(EntryType) /\ DOMAIN c = 1 .. n
  BY <1>1 DEF ChainOK
<1>3. d \in Seq(EntryType) /\ Len(d) = n
  BY <1>1, <1>2
<1>4. d[k] = e /\ \A i \in 1 .. n : i # k => d[i] = c[i]
  BY <1>1, <1>2
<1>5. ~d[1].used => Len(d) = 1 /\ Empty(d[1])
  <2>1. 1 \in 1 .. n
    BY <1>1
  <2>2. CASE k = 1
    BY <1>4, <2>2
  <2>3. CASE k # 1
    <3>1. d[1] = c[1]
      BY <1>4, <2>1, <2>3
    <3> QED BY <1>1, <1>3, <3>1 DEF ChainOK
  <2> QED BY <2>2, <2>3
<1>6. \A i \in 1 .. n : /\ i # 1 => d[i].used
                        /\ d[i].used => d[i].id \in Ids /\ Slot(d[i].id) = h
  BY <1>1, <1>4 DEF ChainOK
<1>7. \A i, j \in 1 .. n : d[i].id = d[j].id => i = j
  BY <1>1, <1>4 DEF ChainOK
<1> QED BY <1>1, <1>3, <1>4, <1>5, <1>6, <1>7 DEF ChainOK, Put

\* xmpc_init_async puts an entry for a new id behind the others of its slot.
LEMMA AppendChain ==
  ASSUME NEW h, NEW c, ChainOK(h, c), c[1].used, NEW e, UsedIn(h, e),
         \A i \in 1 .. Len(c) : c[i].id # e.id, NEW d, d = Append(c, e)
  PROVE  ChainOK(h, d) /\ Added(c, e, d)
<1> USE DEF UsedIn
<1>1. PICK n \in Nat : n = Len(c) /\ n >= 1
  BY DEF ChainOK
<1>2. c \in Seq(EntryType)
  BY DEF ChainOK
<1>3. d \in Seq(EntryType) /\ Len(d) = n + 1 /\ d[n + 1] = e /\ \A i \in 1 .. n : d[i] = c[i]
  BY <1>1, <1>2
<1>4. \A i \in 1 .. n + 1 : i \in 1 .. n \/ i = n + 1
  BY <1>1
<1>5. d[1].used
  BY <1>1, <1>3
<1>6. \A i \in 1 .. n + 1 : /\ i # 1 => d[i].used
                            /\ d[i].used => d[i].id \in Ids /\ Slot(d[i].id) = h
  BY <1>1, <1>3, <1>4 DEF ChainOK
<1>7. \A i, j \in 1 .. n + 1 : d[i].id = d[j].id => i = j
  BY <1>1, <1>3, <1>4 DEF ChainOK
<1> QED BY <1>1, <1>3, <1>5, <1>6, <1>7 DEF ChainOK, Added

\* xmpc_end_async takes the entry at position k out of a chain of several.
LEMMA DropChain ==
  ASSUME NEW h, NEW c, ChainOK(h, c), NEW k \in 1 .. Len(c), Len(c) > 1,
         NEW d, Dropped(c, k, d)
  PROVE  ChainOK(h, d)
<1> USE DEF Dropped
<1>1. PICK n \in Nat : n = Len(c) /\ n > 1 /\ Len(d) = n - 1
  BY DEF ChainOK
<1>2. \A i \in 1 .. n : c[i].used
  BY <1>1 DEF ChainOK
<1>3. ASSUME NEW i \in 1 .. n - 1
      PROVE  \E a \in 1 .. n : d[i] = c[a] /\ a = (IF i < k THEN i ELSE i + 1)
  <2>1. i \in 1 .. Len(d) /\ i \in 1 .. n /\ i + 1 \in 1 .. n
    BY <1>1
  <2>2. CASE i < k
    BY <2>1, <2>2
  <2>3. CASE ~(i < k)
    BY <2>1, <2>3
  <2> QED BY <2>2, <2>3
<1>4. \A i \in 1 .. n - 1 : d[i].used /\ d[i].id \in Ids /\ Slot(d[i].id) = h
  BY <1>1, <1>2, <1>3 DEF ChainOK
<1>5. ASSUME NEW i \in 1 .. n - 1, NEW j \in 1 .. n - 1, d[i].id = d[j].id PROVE i = j
  <2>1. PICK a \in 1 .. n : d[i] = c[a] /\ a = (IF i < k THEN i ELSE i + 1)
    BY <1>3
  <2>2. PICK b \in 1 .. n : d[j] = c[b] /\ b = (IF j < k THEN j ELSE j + 1)
    BY <1>3
  <2>3. a = b
    BY <1>1, <1>5, <2>1, <2>2 DEF ChainOK
  <2> QED BY <1>1, <2>1, <2>2, <2>3
<1>6. d[1].used
  BY <1>1, <1>4
<1> QED BY <1>1, <1>4, <1>5, <1>6 DEF ChainOK

\* What is left of a chain without the entry at position k.
LEMMA UnlinkedIs ==
  ASSUME NEW c \in Seq(EntryType), NEW k \in 1 .. Len(c), NEW d, d = Unlinked(c, k)
  PROVE  Dropped(c, k, d)
<1>1. PICK n \in Nat : n = Len(c) /\ k \in 1 .. n
  OBVIOUS
<1>2. d = [i \in 1 .. n - 1 |-> c[IF i < k THEN i ELSE i + 1]]
  BY <1>1 DEF Unlinked
<1>3. \A i \in 1 .. n - 1 : c[IF i < k THEN i ELSE i + 1] \in EntryType
  BY <1>1
<1>4. n - 1 \in Nat
  BY <1>1
<1>5. d \in Seq(EntryType) /\ Len(d) = n - 1
  BY <1>2, <1>3, <1>4
<1> QED BY <1>1, <1>2, <1>5 DEF Dropped

\* What is left of a chain without the entry in the slot.
LEMMA TailIs ==
  ASSUME NEW c \in Seq(EntryType), Len(c) > 1, NEW d, d = Tail(c)
  PROVE  Dropped(c, 1, d)
<1>1. PICK n \in Nat : n = Len(c) /\ n > 1
  OBVIOUS
<1>2. d \in Seq(EntryType) /\ Len(d) = n - 1 /\ \A i \in 1 .. n - 1 : d[i] = c[i + 1]
  BY <1>1
<1>3. \A i \in 1 .. n - 1 : ~(i < 1)
  BY <1>1
<1> QED BY <1>1, <1>2, <1>3 DEF Dropped

\* initialize_async on an entry that is alone in its slot.
LEMMA ResetChain ==
  ASSUME NEW h, NEW e \in EntryType, NEW d, d = <<Reset(e)>>
  PROVE  ChainOK(h, d) /\ Len(d) = 1 /\ d[1] \in EntryType /\ ~d[1].used /\ Empty(d[1])
<1>1. Reset(e) \in EntryType /\ ~Reset(e).used /\ Empty(Reset(e))
  BY DEF Reset, Entry, EntryType, Empty
<1>2. d \in Seq(EntryType) /\ Len(d) = 1 /\ d[1] = Reset(e) /\ 1 .. Len(d) = {1}
  BY <1>1
<1> QED BY <1>1, <1>2 DEF ChainOK

----------------------------------------------------------------------------
(* The table.                                                               *)

TabInv == tab \in [Slots -> Seq(EntryType)] /\ \A h \in Slots : ChainOK(h, tab[h])

EntriesIn(t) == UNION {Range(t[h]) : h \in DOMAIN t}

\* Entry e stands at a position of table t.
Stands(e, t) == \E h \in Slots : \E i \in 1 .. Len(t[h]) : e = t[h][i]

\* The entries of a table are what stands at its positions.
LEMMA EntriesOf ==
  ASSUME NEW t \in [Slots -> Seq(EntryType)] PROVE \A e : e \in EntriesIn(t) <=> Stands(e, t)
<1>1. \A h \in Slots : DOMAIN t[h] = 1 .. Len(t[h])
  OBVIOUS
<1>2. \A e : \A h \in Slots : e \in Range(t[h]) <=> \E i \in 1 .. Len(t[h]) : e = t[h][i]
  BY <1>1 DEF Range
<1>3. DOMAIN t = Slots
  OBVIOUS
<1>4. \A e : e \in EntriesIn(t) <=> \E h \in Slots : e \in Range(t[h])
  BY <1>3, Zenon DEF EntriesIn
<1> QED BY <1>2, <1>4, Zenon DEF Stands

\* Every position holds an entry.
LEMMA EntriesAre == ASSUME TabInv PROVE \A e : e \in Entries <=> Stands(e, tab)
<1>1. tab \in [Slots -> Seq(EntryType)] /\ Entries = EntriesIn(tab)
  BY DEF TabInv, Entries, EntriesIn
<1> QED BY <1>1, EntriesOf, Zenon

\* The same after a step.
LEMMA EntriesAreNext == ASSUME TabInv' PROVE \A e : e \in Entries' <=> Stands(e, tab')
<1>1. tab' \in [Slots -> Seq(EntryType)] /\ Entries' = EntriesIn(tab')
  BY DEF TabInv, Entries, EntriesIn
<1> QED BY <1>1, EntriesOf, Zenon

\* An entry has its fields; one in use has an id of its own, one out of use is empty.
LEMMA EntryIs ==
  ASSUME TabInv, NEW e \in Entries
  PROVE  /\ e \in EntryType
         /\ e.used => e.id \in Ids
         /\ ~e.used => Empty(e)
<1>1. PICK h \in Slots : \E i \in 1 .. Len(tab[h]) : e = tab[h][i]
  BY EntriesAre, Zenon DEF Stands
<1>2. PICK i \in 1 .. Len(tab[h]) : e = tab[h][i]
  BY <1>1
<1>3. PICK c : c = tab[h]
  OBVIOUS
<1>4. ChainOK(h, c) /\ i \in 1 .. Len(c) /\ e = c[i]
  BY <1>2, <1>3 DEF TabInv
<1> QED BY <1>4 DEF ChainOK

\* An id in use is at one position of the table.
LEMMA OnePlace ==
  ASSUME TabInv, NEW h \in Slots, NEW i \in 1 .. Len(tab[h]),
         NEW g \in Slots, NEW k \in 1 .. Len(tab[g]),
         tab[h][i].used, tab[g][k].used, tab[h][i].id = tab[g][k].id
  PROVE  h = g /\ i = k
<1>1. ChainOK(h, tab[h]) /\ ChainOK(g, tab[g])
  BY DEF TabInv
<1>2. Slot(tab[h][i].id) = h
  BY <1>1, Zenon DEF ChainOK
<1>3. Slot(tab[g][k].id) = g
  BY <1>1, Zenon DEF ChainOK
<1>4. h = g
  BY <1>2, <1>3
<1> QED BY <1>1, <1>4, Zenon DEF ChainOK

\* Two entries in use have different ids.
LEMMA UsedOnce ==
  ASSUME TabInv, NEW e \in Entries, NEW f \in Entries, e.used, f.used, e.id = f.id
  PROVE  e = f
<1>1. PICK h \in Slots : \E i \in 1 .. Len(tab[h]) : e = tab[h][i]
  BY EntriesAre, Zenon DEF Stands
<1>2. PICK i \in 1 .. Len(tab[h]) : e = tab[h][i]
  BY <1>1
<1>3. PICK g \in Slots : \E k \in 1 .. Len(tab[g]) : f = tab[g][k]
  BY EntriesAre, Zenon DEF Stands
<1>4. PICK k \in 1 .. Len(tab[g]) : f = tab[g][k]
  BY <1>3
<1> QED BY <1>2, <1>4, OnePlace, Zenon

\* A step that changes the chain of one slot.
LEMMA TabChange ==
  ASSUME TabInv, NEW s \in Slots, NEW d, ChainOK(s, d), tab' = [tab EXCEPT ![s] = d]
  PROVE  TabInv' /\ tab'[s] = d /\ \A h \in Slots : h # s => tab'[h] = tab[h]
<1>1. d \in Seq(EntryType)
  BY DEF ChainOK
<1>2. tab' \in [Slots -> Seq(EntryType)] /\ tab'[s] = d /\ \A h \in Slots : h # s => tab'[h] = tab[h]
  BY <1>1 DEF TabInv
<1>3. \A h \in Slots : ChainOK(h, tab'[h])
  BY <1>2, Zenon DEF TabInv
<1>4. TabInv'
  BY <1>2, <1>3, Zenon DEF TabInv, ChainOK, Empty, Slot
<1> QED BY <1>2, <1>4

\* A step that leaves the table alone.
LEMMA TabSame == ASSUME TabInv, tab' = tab PROVE TabInv' /\ Entries' = Entries
BY Zenon DEF TabInv, Entries

\* One entry is replaced: the others stay, and none of them has its id.
LEMMA PutEntries ==
  ASSUME TabInv, NEW s \in Slots, NEW k \in 1 .. Len(tab[s]), NEW e,
         UsedIn(s, e), e.id = tab[s][k].id \/ Len(tab[s]) = 1,
         tab' = [tab EXCEPT ![s] = [tab[s] EXCEPT ![k] = e]]
  PROVE  /\ TabInv' /\ Len(tab'[s]) = Len(tab[s]) /\ tab'[s][k] = e /\ e \in Entries'
         /\ \A f \in Entries' : f = e \/ (f \in Entries /\ (f.used => f.id # e.id))
         /\ \A f \in Entries : f = tab[s][k] \/ f \in Entries'
<1>1. PICK c : c = tab[s]
  OBVIOUS
<1>2. PICK d : d = [c EXCEPT ![k] = e]
  BY Zenon
<1>3. ChainOK(s, c) /\ k \in 1 .. Len(c) /\ (e.id = c[k].id \/ Len(c) = 1)
  BY <1>1 DEF TabInv
<1>4. ChainOK(s, d) /\ Put(c, k, e, d)
  BY <1>2, <1>3, PutChain, Zenon
<1>5. TabInv' /\ tab'[s] = d /\ \A h \in Slots : h # s => tab'[h] = tab[h]
  <2>1. tab' = [tab EXCEPT ![s] = d]
    BY <1>1, <1>2
  <2> QED BY <1>4, <2>1, TabChange, Zenon
<1>6. e \in Entries'
  BY <1>3, <1>4, <1>5, EntriesAreNext DEF Stands, Put
<1>7. ASSUME NEW f \in Entries', f # e PROVE f \in Entries /\ (f.used => f.id # e.id)
  <2>1. PICK h \in Slots : \E i \in 1 .. Len(tab'[h]) : f = tab'[h][i]
    BY <1>5, EntriesAreNext DEF Stands
  <2>2. PICK i \in 1 .. Len(tab'[h]) : f = tab'[h][i]
    BY <2>1
  <2>3. CASE h # s
    <3>1. i \in 1 .. Len(tab[h]) /\ f = tab[h][i] /\ ChainOK(h, tab[h])
      BY <1>5, <2>2, <2>3, Zenon DEF TabInv
    <3>2. f.used => Slot(f.id) = h
      BY <3>1, Zenon DEF ChainOK
    <3> QED BY <2>3, <3>1, <3>2, EntriesAre, Zenon DEF Stands, UsedIn
  <2>4. CASE h = s
    <3>1. i \in 1 .. Len(c) /\ f = d[i]
      BY <1>4, <1>5, <2>2, <2>4, Zenon DEF Put
    <3>2. i # k /\ f = c[i]
      BY <1>4, <1>7, <3>1, Zenon DEF Put
    <3>3. f \in Entries
      BY <1>1, <3>1, <3>2, EntriesAre, Zenon DEF Stands
    <3>4. Len(c) # 1
      <4> SUFFICES ASSUME Len(c) = 1 PROVE FALSE
        OBVIOUS
      <4>1. k \in 1 .. 1 /\ i \in 1 .. 1
        BY <1>3, <3>1, Zenon
      <4> QED BY <3>2, <4>1
    <3>5. c[i].id # c[k].id
      BY <1>3, <3>1, <3>2, Zenon DEF ChainOK
    <3> QED BY <1>3, <3>2, <3>3, <3>4, <3>5, Zenon
  <2> QED BY <2>3, <2>4
<1>8. ASSUME NEW f \in Entries, f # tab[s][k] PROVE f \in Entries'
  <2>1. PICK h \in Slots : \E i \in 1 .. Len(tab[h]) : f = tab[h][i]
    BY EntriesAre DEF Stands
  <2>2. PICK i \in 1 .. Len(tab[h]) : f = tab[h][i]
    BY <2>1
  <2>3. i \in 1 .. Len(tab'[h]) /\ f = tab'[h][i]
    <3>1. CASE h # s
      BY <1>5, <2>2, <3>1, Zenon
    <3>2. CASE h = s
      <4>1. i \in 1 .. Len(c) /\ f = c[i] /\ i # k
        BY <1>1, <1>8, <2>2, <3>2, Zenon
      <4>2. f = d[i] /\ i \in 1 .. Len(d)
        BY <1>4, <4>1, Zenon DEF Put
      <4>3. tab'[h] = d
        BY <1>5, <3>2
      <4> QED BY <4>2, <4>3
    <3> QED BY <3>1, <3>2
  <2> QED BY <1>5, <2>3, EntriesAreNext, Zenon DEF Stands
<1>9. Len(tab'[s]) = Len(tab[s]) /\ tab'[s][k] = e
  BY <1>1, <1>4, <1>5 DEF Put
<1>10. \A f \in Entries' : f = e \/ (f \in Entries /\ (f.used => f.id # e.id))
  BY <1>7, Zenon
<1>11. \A f \in Entries : f = tab[s][k] \/ f \in Entries'
  BY <1>8, Zenon
<1>12. TabInv'
  BY <1>5, Zenon
<1> QED BY <1>6, <1>9, <1>10, <1>11, <1>12, Zenon

\* An entry is added, and no other has its id.
LEMMA AppendEntries ==
  ASSUME TabInv, NEW s \in Slots, tab[s][1].used, NEW e, UsedIn(s, e),
         \A i \in 1 .. Len(tab[s]) : tab[s][i].id # e.id,
         tab' = [tab EXCEPT ![s] = Append(tab[s], e)]
  PROVE  /\ TabInv' /\ Len(tab'[s]) = Len(tab[s]) + 1 /\ tab'[s][Len(tab[s]) + 1] = e
         /\ e \in Entries'
         /\ \A f \in Entries' : f = e \/ (f \in Entries /\ (f.used => f.id # e.id))
         /\ \A f \in Entries : f \in Entries'
<1>1. PICK c : c = tab[s]
  OBVIOUS
<1>2. PICK d : d = Append(c, e)
  BY Zenon
<1>3. ChainOK(s, c) /\ c[1].used /\ \A i \in 1 .. Len(c) : c[i].id # e.id
  BY <1>1 DEF TabInv
<1>4. ChainOK(s, d) /\ Added(c, e, d)
  BY <1>2, <1>3, AppendChain, Zenon
<1>5. TabInv' /\ tab'[s] = d /\ \A h \in Slots : h # s => tab'[h] = tab[h]
  <2>1. tab' = [tab EXCEPT ![s] = d]
    BY <1>1, <1>2
  <2> QED BY <1>4, <2>1, TabChange, Zenon
<1>6. /\ Len(c) + 1 \in 1 .. Len(d) /\ \A i \in 1 .. Len(c) : i \in 1 .. Len(d)
      /\ \A i \in 1 .. Len(d) : i \in 1 .. Len(c) \/ i = Len(c) + 1
  <2>1. Len(c) \in Nat
    BY <1>3 DEF ChainOK
  <2> QED BY <1>4, <2>1 DEF Added
<1>7. e \in Entries'
  BY <1>4, <1>5, <1>6, EntriesAreNext, Zenon DEF Stands, Added
<1>8. ASSUME NEW f \in Entries', f # e PROVE f \in Entries /\ (f.used => f.id # e.id)
  <2>1. PICK h \in Slots : \E i \in 1 .. Len(tab'[h]) : f = tab'[h][i]
    BY <1>5, EntriesAreNext DEF Stands
  <2>2. PICK i \in 1 .. Len(tab'[h]) : f = tab'[h][i]
    BY <2>1
  <2>3. CASE h # s
    <3>1. i \in 1 .. Len(tab[h]) /\ f = tab[h][i] /\ ChainOK(h, tab[h])
      BY <1>5, <2>2, <2>3, Zenon DEF TabInv
    <3>2. f.used => Slot(f.id) = h
      BY <3>1, Zenon DEF ChainOK
    <3> QED BY <2>3, <3>1, <3>2, EntriesAre, Zenon DEF Stands, UsedIn
  <2>4. CASE h = s
    <3>1. i \in 1 .. Len(c) /\ f = c[i]
      BY <1>4, <1>5, <1>6, <1>8, <2>2, <2>4 DEF Added
    <3> QED BY <1>1, <1>3, <3>1, EntriesAre DEF Stands
  <2> QED BY <2>3, <2>4
<1>9. ASSUME NEW f \in Entries PROVE f \in Entries'
  <2>1. PICK h \in Slots : \E i \in 1 .. Len(tab[h]) : f = tab[h][i]
    BY EntriesAre, ZenonT(40) DEF Stands
  <2>2. PICK i \in 1 .. Len(tab[h]) : f = tab[h][i]
    BY <2>1
  <2>3. i \in 1 .. Len(tab'[h]) /\ f = tab'[h][i]
    <3>1. CASE h # s
      BY <1>5, <2>2, <3>1, Zenon
    <3>2. CASE h = s
      <4>1. i \in 1 .. Len(c) /\ f = c[i]
        BY <1>1, <2>2, <3>2, Zenon
      <4>2. f = d[i] /\ i \in 1 .. Len(d)
        BY <1>4, <1>6, <4>1, Zenon DEF Added
      <4>3. tab'[h] = d
        BY <1>5, <3>2
      <4> QED BY <4>2, <4>3
    <3> QED BY <3>1, <3>2
  <2> QED BY <1>5, <2>3, EntriesAreNext, Zenon DEF Stands
<1>10. Len(tab'[s]) = Len(tab[s]) + 1 /\ tab'[s][Len(tab[s]) + 1] = e
  BY <1>1, <1>4, <1>5 DEF Added
<1>11. \A f \in Entries' : f = e \/ (f \in Entries /\ (f.used => f.id # e.id))
  BY <1>8, Zenon
<1>12. \A f \in Entries : f \in Entries'
  BY <1>9, Zenon
<1>13. TabInv'
  BY <1>5, Zenon
<1> QED BY <1>7, <1>10, <1>11, <1>12, <1>13, Zenon

\* An entry in use is in the chain of the slot of its id.
LEMMA InChain ==
  ASSUME TabInv, NEW e \in Entries, e.used
  PROVE  \E k \in 1 .. Len(tab[Slot(e.id)]) : tab[Slot(e.id)][k] = e
<1>1. PICK h \in Slots : \E i \in 1 .. Len(tab[h]) : e = tab[h][i]
  BY EntriesAre, Zenon DEF Stands
<1>2. PICK i \in 1 .. Len(tab[h]) : e = tab[h][i]
  BY <1>1
<1>3. ChainOK(h, tab[h])
  BY DEF TabInv
<1>4. Slot(e.id) = h
  BY <1>2, <1>3, Zenon DEF ChainOK
<1> QED BY <1>2, <1>4, Zenon

\* The loop of _XMP_get_async stops at the only entry of the id.
LEMMA Lookup ==
  ASSUME TabInv, NEW id \in Ids, NEW k \in 1 .. Len(tab[Slot(id)]), tab[Slot(id)][k].id = id
  PROVE  /\ Positions(id) = {k} /\ Min(Positions(id)) = k
         /\ Get(id) = <<tab[Slot(id)][k]>> /\ tab[Slot(id)][k] \in Entries
<1>1. Slot(id) \in Slots
  BY SlotIs
<1>2. PICK c : c = tab[Slot(id)]
  OBVIOUS
<1>3. ChainOK(Slot(id), c) /\ k \in 1 .. Len(c) /\ c[k].id = id
  BY <1>1, <1>2 DEF TabInv
<1>4. DOMAIN c = 1 .. Len(c)
  BY <1>3 DEF ChainOK
<1>5. Positions(id) = {i \in 1 .. Len(c) : c[i].id = id}
  BY <1>2, <1>4 DEF Positions
<1>6. \A i \in 1 .. Len(c) : c[i].id = id <=> i = k
  BY <1>3, Zenon DEF ChainOK
<1>7. Positions(id) = {k}
  BY <1>3, <1>5, <1>6, Zenon
<1>8. Min(Positions(id)) = k
  BY <1>7, OneMin
<1>9. Positions(id) # {}
  BY <1>7
<1>10. c[k] \in Entries
  BY <1>1, <1>2, <1>3, EntriesAre, Zenon DEF Stands
<1> QED BY <1>2, <1>7, <1>8, <1>9, <1>10, Zenon DEF Get

\* _XMP_get_async returns the entry of the id, NULL when there is none.
LEMMA GetIs ==
  ASSUME TabInv, NEW id \in Ids
  PROVE  \/ /\ Positions(id) = {} /\ Get(id) = << >>
            /\ \A e \in Entries : e.used => e.id # id
         \/ \E k \in 1 .. Len(tab[Slot(id)]) :
              /\ tab[Slot(id)][k] \in Entries /\ tab[Slot(id)][k].id = id
              /\ Positions(id) = {k} /\ Min(Positions(id)) = k /\ Get(id) = <<tab[Slot(id)][k]>>
              /\ tab[Slot(id)][1].used => tab[Slot(id)][k].used
              /\ \A f \in Entries : f.used /\ f.id = id => f = tab[Slot(id)][k]
<1>1. Slot(id) \in Slots
  BY SlotIs
<1>2. ChainOK(Slot(id), tab[Slot(id)])
  BY <1>1 DEF TabInv
<1>3. CASE \E k \in 1 .. Len(tab[Slot(id)]) : tab[Slot(id)][k].id = id
  <2>1. PICK k \in 1 .. Len(tab[Slot(id)]) : tab[Slot(id)][k].id = id
    BY <1>3
  <2>2. /\ Positions(id) = {k} /\ Min(Positions(id)) = k
        /\ Get(id) = <<tab[Slot(id)][k]>> /\ tab[Slot(id)][k] \in Entries
    BY <2>1, Lookup, Zenon
  <2>3. tab[Slot(id)][1].used => tab[Slot(id)][k].used
    BY <1>2, Zenon DEF ChainOK
  <2>4. ASSUME NEW f \in Entries, f.used, f.id = id PROVE f = tab[Slot(id)][k]
    <3>1. PICK i \in 1 .. Len(tab[Slot(id)]) : tab[Slot(id)][i] = f
      BY <2>4, InChain, Zenon
    <3>2. i = k
      BY <1>2, <2>1, <2>4, <3>1, Zenon DEF ChainOK
    <3> QED BY <3>1, <3>2
  <2> QED BY <2>1, <2>2, <2>3, <2>4, Zenon
<1>4. CASE \A k \in 1 .. Len(tab[Slot(id)]) : tab[Slot(id)][k].id # id
  <2>1. DOMAIN tab[Slot(id)] = 1 .. Len(tab[Slot(id)])
    BY <1>2 DEF ChainOK
  <2>2. Positions(id) = {}
    BY <1>4, <2>1 DEF Positions
  <2>3. Get(id) = << >>
    BY <2>2 DEF Get
  <2>4. ASSUME NEW e \in Entries, e.used PROVE e.id # id
    <3> SUFFICES ASSUME e.id = id PROVE FALSE
      OBVIOUS
    <3>1. PICK i \in 1 .. Len(tab[Slot(id)]) : tab[Slot(id)][i] = e
      BY <2>4, InChain, Zenon
    <3> QED BY <1>4, <3>1, Zenon
  <2> QED BY <2>2, <2>3, <2>4, Zenon
<1> QED BY <1>3, <1>4

\* What initialize_async finalizes are the node sets kept by the entry of the id.
LEMMA ReleasedIs ==
  ASSUME TabInv, NEW id \in Ids
  PROVE  \A n : n \in Released(id) <=> \E e \in Entries : e.used /\ e.id = id /\ n \in Range(e.nodes)
<1>1. Slot(id) \in Slots
  BY SlotIs
<1>2. ChainOK(Slot(id), tab[Slot(id)])
  BY <1>1 DEF TabInv
<1>3. CASE ~tab[Slot(id)][1].used
  <2>1. Released(id) = {}
    BY <1>3 DEF Released
  <2>2. ASSUME NEW e \in Entries, e.used, e.id = id PROVE FALSE
    <3>1. PICK i \in 1 .. Len(tab[Slot(id)]) : tab[Slot(id)][i] = e
      BY <2>2, InChain, Zenon
    <3>2. Len(tab[Slot(id)]) = 1
      BY <1>2, <1>3, Zenon DEF ChainOK
    <3>3. i = 1
      BY <3>1, <3>2
    <3> QED BY <1>3, <2>2, <3>1, <3>3, Zenon
  <2> QED BY <2>1, <2>2, Zenon
<1>4. CASE tab[Slot(id)][1].used
  <2>1. Released(id) = UNION {Range(e.nodes) : e \in Range(Get(id))}
    BY <1>4, Zenon DEF Released
  <2>2. CASE Get(id) = << >> /\ \A e \in Entries : e.used => e.id # id
    <3>1. Range(<< >>) = {}
      BY DEF Range
    <3>2. Released(id) = {}
      BY <2>1, <2>2, <3>1
    <3> QED BY <2>2, <3>2, Zenon
  <2>3. ASSUME NEW e \in Entries, Get(id) = <<e>>, e.id = id, e.used,
               \A f \in Entries : f.used /\ f.id = id => f = e
        PROVE  \A n : n \in Released(id) <=>
                       \E f \in Entries : f.used /\ f.id = id /\ n \in Range(f.nodes)
    <3>1. Range(<<e>>) = {e}
      BY DEF Range
    <3>2. \A n : n \in Released(id) <=> \E f \in {e} : n \in Range(f.nodes)
      BY <2>1, <2>3, <3>1
    <3>3. \A n : n \in Released(id) <=> n \in Range(e.nodes)
      BY <3>2, Zenon
    <3> QED BY <2>3, <3>3, Zenon
  <2>4. CASE \E k \in 1 .. Len(tab[Slot(id)]) :
              /\ tab[Slot(id)][k] \in Entries /\ tab[Slot(id)][k].id = id
              /\ Get(id) = <<tab[Slot(id)][k]>> /\ tab[Slot(id)][k].used
              /\ \A f \in Entries : f.used /\ f.id = id => f = tab[Slot(id)][k]
    BY <2>3, <2>4, Zenon
  <2> QED BY <1>4, <2>2, <2>4, GetIs, ZenonT(40)
<1> QED BY <1>3, <1>4, Zenon

\* Nothing is in use under the ids of a slot out of use.
LEMMA FreeSlot ==
  ASSUME TabInv, NEW id \in Ids, ~tab[Slot(id)][1].used, NEW e \in Entries, e.used
  PROVE  e.id # id
<1> SUFFICES ASSUME e.id = id PROVE FALSE
  OBVIOUS
<1>1. PICK i \in 1 .. Len(tab[Slot(id)]) : tab[Slot(id)][i] = e
  BY InChain, Zenon
<1>2. Slot(id) \in Slots
  BY SlotIs
<1>3. Len(tab[Slot(id)]) = 1
  BY <1>2, Zenon DEF TabInv, ChainOK
<1>4. i = 1
  BY <1>1, <1>3
<1> QED BY <1>1, <1>4, Zenon

\* The entries after one has left a chain.
LEMMA DropEntries ==
  ASSUME TabInv, NEW s \in Slots, NEW k \in 1 .. Len(tab[s]), Len(tab[s]) > 1,
         tab[s][k].used, NEW d, Dropped(tab[s], k, d), tab' = [tab EXCEPT ![s] = d]
  PROVE  /\ TabInv'
         /\ \A f \in Entries' : f \in Entries /\ (f.used => f.id # tab[s][k].id)
         /\ \A f \in Entries : f \in Entries' \/ f = tab[s][k]
<1>1. PICK c : c = tab[s]
  OBVIOUS
<1>2. PICK n \in Nat : n = Len(c)
  BY <1>1 DEF TabInv
<1>3. ChainOK(s, c) /\ k \in 1 .. n /\ n > 1 /\ Dropped(c, k, d) /\ c[k].used
  BY <1>1, <1>2 DEF TabInv
<1>4. ChainOK(s, d)
  BY <1>2, <1>3, DropChain
<1>5. TabInv' /\ tab'[s] = d /\ \A h \in Slots : h # s => tab'[h] = tab[h]
  BY <1>4, TabChange, Zenon
<1>6. Slot(c[k].id) = s
  BY <1>2, <1>3, Zenon DEF ChainOK
<1>7. ASSUME NEW f \in Entries' PROVE f \in Entries /\ (f.used => f.id # tab[s][k].id)
  <2>1. PICK h \in Slots : \E i \in 1 .. Len(tab'[h]) : f = tab'[h][i]
    BY <1>5, EntriesAreNext DEF Stands
  <2>2. PICK i \in 1 .. Len(tab'[h]) : f = tab'[h][i]
    BY <2>1
  <2>3. CASE h # s
    <3>1. i \in 1 .. Len(tab[h]) /\ f = tab[h][i] /\ ChainOK(h, tab[h])
      BY <1>5, <2>2, <2>3, Zenon DEF TabInv
    <3>2. f.used => Slot(f.id) = h
      BY <3>1, Zenon DEF ChainOK
    <3> QED BY <1>1, <1>6, <2>3, <3>1, <3>2, EntriesAre, Zenon DEF Stands
  <2>4. CASE h = s
    <3>1. tab'[h] = d
      BY <1>5, <2>4
    <3>2. i \in 1 .. Len(d) /\ f = d[i] /\ Len(d) = n - 1
      BY <1>2, <1>3, <2>2, <3>1 DEF Dropped
    <3>3. PICK a : a = IF i < k THEN i ELSE i + 1
      OBVIOUS
    <3>4. f = c[a]
      BY <1>3, <3>2, <3>3, Zenon DEF Dropped
    <3>5. a \in 1 .. n /\ a # k
      BY <1>2, <1>3, <3>2, <3>3
    <3>6. c[a].id # c[k].id
      BY <1>2, <1>3, <3>5, Zenon DEF ChainOK
    <3> QED BY <1>1, <1>2, <3>4, <3>5, <3>6, EntriesAre, Zenon DEF Stands
  <2> QED BY <2>3, <2>4
<1>8. ASSUME NEW f \in Entries, f # tab[s][k] PROVE f \in Entries'
  <2>1. PICK h \in Slots : \E i \in 1 .. Len(tab[h]) : f = tab[h][i]
    BY EntriesAre, Zenon DEF Stands
  <2>2. PICK i \in 1 .. Len(tab[h]) : f = tab[h][i]
    BY <2>1
  <2>3. \E j \in 1 .. Len(tab'[h]) : f = tab'[h][j]
    <3>1. CASE h # s
      BY <1>5, <2>2, <3>1, Zenon
    <3>2. CASE h = s
      <4>1. i \in 1 .. n /\ f = c[i] /\ i # k
        BY <1>1, <1>2, <1>8, <2>2, <3>2, Zenon
      <4>2. PICK j : j = IF i < k THEN i ELSE i - 1
        OBVIOUS
      <4>3. j \in 1 .. n - 1 /\ i = (IF j < k THEN j ELSE j + 1) /\ Len(d) = n - 1
        BY <1>2, <1>3, <4>1, <4>2 DEF Dropped
      <4>4. f = d[j] /\ j \in 1 .. Len(d)
        BY <1>3, <4>1, <4>3, Zenon DEF Dropped
      <4>5. tab'[h] = d
        BY <1>5, <3>2
      <4> QED BY <4>4, <4>5
    <3> QED BY <3>1, <3>2
  <2> QED BY <1>5, <2>3, EntriesAreNext, Zenon DEF Stands
<1>9. \A f \in Entries' : f \in Entries /\ (f.used => f.id # tab[s][k].id)
  BY <1>7, Zenon
<1>10. \A f \in Entries : f \in Entries' \/ f = tab[s][k]
  BY <1>8, Zenon
<1> QED BY <1>5, <1>9, <1>10, Zenon

\* The entry of a slot is taken out of use.
LEMMA ResetEntries ==
  ASSUME TabInv, NEW s \in Slots, Len(tab[s]) = 1, tab[s][1].used,
         tab' = [tab EXCEPT ![s] = <<Reset(tab[s][1])>>]
  PROVE  /\ TabInv'
         /\ \A f \in Entries' : (f \in Entries /\ (f.used => f.id # tab[s][1].id))
                                 \/ (~f.used /\ Empty(f))
         /\ \A f \in Entries : f \in Entries' \/ f = tab[s][1]
<1>1. ChainOK(s, tab[s]) /\ 1 .. Len(tab[s]) = {1}
  BY DEF TabInv
<1>2. tab[s][1] \in EntryType /\ Slot(tab[s][1].id) = s
  BY <1>1 DEF ChainOK
<1>3. PICK d : d = <<Reset(tab[s][1])>>
  BY Zenon
<1>4. ChainOK(s, d) /\ Len(d) = 1 /\ ~d[1].used /\ Empty(d[1])
  BY <1>2, <1>3, ResetChain, Zenon
<1>5. TabInv' /\ tab'[s] = d /\ \A h \in Slots : h # s => tab'[h] = tab[h]
  <2>1. tab' = [tab EXCEPT ![s] = d]
    BY <1>3
  <2> QED BY <1>4, <2>1, TabChange, Zenon
<1>6. ASSUME NEW f \in Entries'
      PROVE  \/ f \in Entries /\ (f.used => f.id # tab[s][1].id)
             \/ ~f.used /\ Empty(f)
  <2>1. PICK h \in Slots : \E i \in 1 .. Len(tab'[h]) : f = tab'[h][i]
    BY <1>5, EntriesAreNext DEF Stands
  <2>2. PICK i \in 1 .. Len(tab'[h]) : f = tab'[h][i]
    BY <2>1
  <2>3. CASE h # s
    <3>1. i \in 1 .. Len(tab[h]) /\ f = tab[h][i] /\ ChainOK(h, tab[h])
      BY <1>5, <2>2, <2>3, Zenon DEF TabInv
    <3>2. f.used => Slot(f.id) = h
      BY <3>1, Zenon DEF ChainOK
    <3>3. f \in Entries
      BY <3>1, EntriesAre, Zenon DEF Stands
    <3> QED BY <1>2, <2>3, <3>2, <3>3, Zenon
  <2>4. CASE h = s
    <3>1. tab'[h] = d
      BY <1>5, <2>4
    <3>2. i = 1
      BY <1>4, <2>2, <3>1
    <3>3. f = d[1]
      BY <2>2, <3>1, <3>2, Zenon
    <3> QED BY <1>4, <3>3, Zenon
  <2> QED BY <2>3, <2>4
<1>7. ASSUME NEW f \in Entries, f # tab[s][1] PROVE f \in Entries'
  <2>1. PICK h \in Slots : \E i \in 1 .. Len(tab[h]) : f = tab[h][i]
    BY EntriesAre DEF Stands
  <2>2. PICK i \in 1 .. Len(tab[h]) : f = tab[h][i]
    BY <2>1
  <2>3. h # s
    BY <1>1, <1>7, <2>2, Zenon
  <2>4. i \in 1 .. Len(tab'[h]) /\ f = tab'[h][i]
    BY <1>5, <2>2, <2>3, Zenon
  <2> QED BY <1>5, <2>4, EntriesAreNext, Zenon DEF Stands
<1>8. \A f \in Entries' : (f \in Entries /\ (f.used => f.id # tab[s][1].id))
                            \/ (~f.used /\ Empty(f))
  BY <1>6, Zenon
<1>9. \A f \in Entries : f \in Entries' \/ f = tab[s][1]
  BY <1>7, Zenon
<1>10. TabInv'
  BY <1>5
<1> QED BY <1>8, <1>9, <1>10, Zenon

\* xmpc_end_async takes the entry of the id away and leaves the others.
LEMMA EndEntries ==
  ASSUME TabInv, NEW id \in Ids,
         tab' = [tab EXCEPT ![Slot(id)] = Ended(tab[Slot(id)], id)]
  PROVE  /\ TabInv'
         /\ \A f \in Entries' : (f \in Entries /\ (f.used => f.id # id))
                                 \/ (~f.used /\ Empty(f))
         /\ \A f \in Entries : f \in Entries' \/ (f.used /\ f.id = id)
<1>1. PICK s \in Slots : s = Slot(id)
  BY SlotIs
<1>2. PICK c : c = tab[s]
  OBVIOUS
<1>3. ChainOK(s, c) /\ tab \in [Slots -> Seq(EntryType)]
  BY <1>2 DEF TabInv
<1>4. Ended(c, id) = IF ~c[1].used \/ Positions(id) = {} THEN c
                     ELSE IF Min(Positions(id)) = 1
                     THEN (IF Len(c) = 1 THEN <<Reset(c[1])>> ELSE Tail(c))
                     ELSE Unlinked(c, Min(Positions(id)))
  BY <1>1, <1>2, Zenon DEF Ended, EndIn, Positions
<1>5. tab' = [tab EXCEPT ![s] = Ended(c, id)]
  BY <1>1, <1>2
<1>6. CASE ~c[1].used \/ Positions(id) = {}
  <2>1. Ended(c, id) = c
    BY <1>4, <1>6
  <2>2. tab' = tab
    BY <1>2, <1>3, <1>5, <2>1
  <2>3. TabInv' /\ Entries' = Entries
    BY <2>2, TabSame, Zenon
  <2>4. \A f \in Entries : f.used => f.id # id
    <3>1. CASE ~c[1].used
      BY <1>1, <1>2, <3>1, FreeSlot, Zenon
    <3>2. CASE Positions(id) = {}
      <4>1. \A k : Positions(id) # {k}
        BY <3>2
      <4> QED BY <4>1, GetIs, Zenon
    <3> QED BY <1>6, <3>1, <3>2
  <2>5. \A f \in Entries' : f \in Entries /\ (f.used => f.id # id)
    BY <2>3, <2>4
  <2>6. \A f \in Entries : f \in Entries'
    BY <2>3
  <2> QED BY <2>3, <2>5, <2>6, Zenon
<1>7. CASE c[1].used /\ Positions(id) # {}
  <2>1. PICK k \in 1 .. Len(tab[Slot(id)]) :
          /\ Min(Positions(id)) = k /\ tab[Slot(id)][k].id = id
          /\ tab[Slot(id)][1].used => tab[Slot(id)][k].used
    BY <1>7, GetIs, Zenon
  <2>2. k \in 1 .. Len(c) /\ Min(Positions(id)) = k /\ c[k].used /\ c[k].id = id
    BY <1>1, <1>2, <1>7, <2>1, Zenon
  <2>3. c \in Seq(EntryType)
    BY <1>3 DEF ChainOK
  <2>4. PICK n \in Nat : n = Len(c) /\ k \in 1 .. n
    BY <2>2, <2>3
  <2>5. CASE n = 1
    <3>1. k = 1 /\ Len(c) = 1
      BY <2>4, <2>5
    <3>2. Ended(c, id) = <<Reset(c[1])>>
      BY <1>4, <1>7, <2>2, <3>1
    <3>3. tab' = [tab EXCEPT ![s] = <<Reset(tab[s][1])>>]
      BY <1>2, <1>5, <3>2, Zenon
    <3>4. /\ TabInv'
          /\ \A f \in Entries' : (f \in Entries /\ (f.used => f.id # c[1].id))
                                  \/ (~f.used /\ Empty(f))
          /\ \A f \in Entries : f \in Entries' \/ f = c[1]
      BY <1>2, <1>7, <3>1, <3>3, ResetEntries, Zenon
    <3>5. c[1].used /\ c[1].id = id
      BY <2>2, <3>1
    <3> QED BY <3>4, <3>5, Zenon
  <2>6. CASE n # 1
    <3>1. n > 1 /\ Len(c) # 1 /\ Len(c) > 1
      BY <2>4, <2>6
    <3>2. PICK d : d = Ended(c, id)
      OBVIOUS
    <3>3. Dropped(c, k, d)
      <4>1. CASE k = 1
        <5>1. d = Tail(c)
          BY <1>4, <1>7, <2>2, <3>1, <3>2, <4>1
        <5> QED BY <2>3, <3>1, <4>1, <5>1, TailIs, Zenon
      <4>2. CASE k # 1
        <5>1. d = Unlinked(c, k)
          BY <1>4, <1>7, <2>2, <3>2, <4>2
        <5> QED BY <2>2, <2>3, <4>2, <5>1, UnlinkedIs, Zenon
      <4> QED BY <4>1, <4>2
    <3>4. k \in 1 .. Len(tab[s]) /\ Len(tab[s]) > 1 /\ tab[s][k].used /\ Dropped(tab[s], k, d)
      BY <1>2, <2>2, <3>1, <3>3, Zenon
    <3>5. tab' = [tab EXCEPT ![s] = d]
      BY <1>5, <3>2, Zenon
    <3>6. /\ TabInv'
          /\ \A f \in Entries' : f \in Entries /\ (f.used => f.id # tab[s][k].id)
          /\ \A f \in Entries : f \in Entries' \/ f = tab[s][k]
      BY <3>4, <3>5, DropEntries, Zenon
    <3>7. tab[s][k].used /\ tab[s][k].id = id
      BY <1>2, <2>2, Zenon
    <3>8. \A f \in Entries' : f \in Entries /\ (f.used => f.id # id)
      BY <3>6, <3>7
    <3>9. \A f \in Entries : f \in Entries' \/ (f.used /\ f.id = id)
      BY <3>6, <3>7
    <3> QED BY <3>6, <3>8, <3>9, Zenon
  <2> QED BY <2>5, <2>6
<1> QED BY <1>6, <1>7

----------------------------------------------------------------------------
(* The inductive invariant.                                                 *)

\* Labels match the flag _xmp_is_async and the node set of the on clause.
TypeInv ==
  /\ pc \in Labels /\ comm \in [Comms -> CommStates] /\ issued \in [Ids -> SUBSET Comms]
  /\ nodes \subseteq NodeSets /\ cur \in NodeSets \cup {0}
  /\ cur # 0 <=> pc \in {"task", "finalize"}
  /\ is_async \in BOOLEAN /\ (is_async <=> Inside)

\* _tmp_async is the entry of the directive.
TmpInv ==
  IF Inside THEN \E h \in Slots : \E i \in 1 .. Len(tab[h]) : tmp = <<h, i>> /\ tab[h][i].used
            ELSE tmp = << >>

\* An entry accounts for what its id has issued.  MPI_Waitall sees all of it, but for a
\* gmove in or out; only the gmove of an entry can be waiting to be unpacked.
EntryOK(e) ==
  /\ e.used => issued[e.id] = Recorded(e)
  /\ e.mode = "normal" =>
      /\ Recorded(e) = Range(e.reqs)
      /\ \A c \in Recorded(e) : comm[c] \in {"moving", "packed"} => c = e.gmove
  /\ e.mode = "inout" => Recorded(e) = {e.gmove} /\ comm[e.gmove] \in {"pending", "done"}

IssuedInv ==
  /\ \A e \in Entries : EntryOK(e)
  /\ \A id \in Ids : issued[id] # {} => \E e \in Entries : e.used /\ e.id = id
  /\ \A a, b \in Ids : \A c : c \in issued[a] /\ c \in issued[b] => a = b
  /\ \A id \in Ids : \A c \in issued[id] : comm[c] # "free"

\* When wait_async or xmp_test_async goes on to xmpc_end_async, all is done.
WaitInv ==
  /\ pc \in {"wait", "end"} => waiting \in Ids
  /\ pc = "end" => \A c \in issued[waiting] : comm[c] = "done"

Kept(e) == Range(e.nodes)

HeldInv ==
  /\ \A e \in Entries : \A n \in Kept(e) : n \in nodes /\ n # cur
  /\ \A n \in nodes : n = cur \/ \E e \in Entries : n \in Kept(e)
  /\ cur # 0 => cur \in nodes
  /\ \A e \in Entries : \A j, l \in DOMAIN e.nodes : e.nodes[j] = e.nodes[l] => j = l
  /\ \A e, f \in Entries : \A n : e.used /\ f.used /\ n \in Kept(e) /\ n \in Kept(f) => e.id = f.id

IInv == TabInv /\ TypeInv /\ TmpInv /\ IssuedInv /\ WaitInv /\ HeldInv

\* What an entry accounts for are communications.
LEMMA RecordedIs ==
  ASSUME NEW e \in EntryType
  PROVE  /\ Recorded(e) \subseteq Comms
         /\ Empty(e) => Recorded(e) = {} /\ Range(e.reqs) = {} /\ Kept(e) = {}
<1>1. e.reqs \in Seq(Comms \cup {0}) /\ e.gmove \in Comms \cup {0}
  BY DEF EntryType
<1>2. Range(e.reqs) \subseteq Comms \cup {0}
  BY <1>1 DEF Range
<1>3. Range(<< >>) = {}
  BY DEF Range
<1> QED BY <1>1, <1>2, <1>3 DEF Recorded, Empty, Kept

\* The state of communication c goes on, but not back to "free" or into a gmove.
Onward(c) ==
  /\ comm'[c] \in {"moving", "packed"} => comm[c] \in {"moving", "packed"}
  /\ comm[c] \in {"pending", "done"} => comm'[c] \in {"pending", "done"}

\* An entry still accounts for the work of its id.
LEMMA EntryKept ==
  ASSUME NEW e, EntryOK(e), e.used => issued'[e.id] = issued[e.id],
         \A c \in Recorded(e) : Onward(c)
  PROVE  EntryOK(e)'
<1>1. Recorded(e)' = Recorded(e) /\ Range(e.reqs)' = Range(e.reqs)
  BY DEF Recorded
<1>2. e.used => issued'[e.id] = Recorded(e)
  BY DEF EntryOK
<1>3. ASSUME e.mode = "normal"
      PROVE  /\ Recorded(e) = Range(e.reqs)
             /\ \A c \in Recorded(e) : comm'[c] \in {"moving", "packed"} => c = e.gmove
  BY <1>3, Zenon DEF EntryOK, Onward
<1>4. ASSUME e.mode = "inout"
      PROVE  Recorded(e) = {e.gmove} /\ comm'[e.gmove] \in {"pending", "done"}
  BY <1>4, Zenon DEF EntryOK, Onward
<1> QED BY <1>1, <1>2, <1>3, <1>4, Zenon DEF EntryOK

\* An entry as initialize_async or xmpc_init_async leaves it accounts for nothing.
LEMMA EmptyOK ==
  ASSUME NEW e \in EntryType, Empty(e), e.used => issued'[e.id] = {}
  PROVE  EntryOK(e)'
<1>1. Recorded(e) = {} /\ Range(e.reqs) = {} /\ e.mode = "normal"
  BY RecordedIs DEF Empty
<1>2. "normal" # "inout"
  OBVIOUS
<1> QED BY <1>1, <1>2, Zenon DEF EntryOK, Recorded

\* A step that starts no communication and ends none.
LEMMA IssuedKept ==
  ASSUME TabInv, IssuedInv, Entries' = Entries, issued' = issued, issued \in [Ids -> SUBSET Comms],
         \A c \in Comms : Onward(c) /\ (comm[c] # "free" => comm'[c] # "free")
  PROVE  IssuedInv'
<1>1. ASSUME NEW e \in Entries PROVE EntryOK(e)'
  <2>1. \A c \in Recorded(e) : Onward(c)
    BY EntryIs, RecordedIs, Zenon
  <2> QED BY <2>1, EntryKept, Zenon DEF IssuedInv
<1>2. \A id \in Ids : issued'[id] # {} => \E e \in Entries : e.used /\ e.id = id
  BY Zenon DEF IssuedInv
<1>3. \A a, b \in Ids : \A c : c \in issued'[a] /\ c \in issued'[b] => a = b
  BY Zenon DEF IssuedInv
<1>4. \A id \in Ids : \A c \in issued'[id] : comm'[c] # "free"
  BY DEF IssuedInv
<1> QED BY <1>1, <1>2, <1>3, <1>4, Zenon DEF IssuedInv

\* A step that neither keeps nor finalizes a node set.
LEMMA HeldSame ==
  ASSUME HeldInv, Entries' = Entries, nodes' = nodes, cur' = cur PROVE HeldInv'
BY Zenon DEF HeldInv, Kept

----------------------------------------------------------------------------
(* Steps that leave the table alone.                                        *)

\* What stays when the table and the ids are left alone.
LEMMA QuietStep ==
  ASSUME IInv, tab' = tab, tmp' = tmp, issued' = issued, Inside' <=> Inside,
         \A c \in Comms : Onward(c) /\ (comm[c] # "free" => comm'[c] # "free")
  PROVE  TabInv' /\ Entries' = Entries /\ TmpInv' /\ IssuedInv'
<1>1. TabInv' /\ Entries' = Entries
  BY TabSame, Zenon DEF IInv
<1>2. TmpInv'
  BY Zenon DEF IInv, TmpInv
<1>3. IssuedInv'
  BY <1>1, IssuedKept, Zenon DEF IInv, TypeInv
<1> QED BY <1>1, <1>2, <1>3

\* No communication changes its state.
LEMMA CommSame ==
  ASSUME comm' = comm
  PROVE  \A c \in Comms : Onward(c) /\ (comm[c] # "free" => comm'[c] # "free")
BY Zenon DEF Onward

\* _XMP_exec_task_NODES_PART creates a node set that no entry keeps.
LEMMA ExecTaskStep == ASSUME IInv, ExecTask PROVE IInv'
<1>1. /\ pc = "open" /\ pc' = "task" /\ cur' \in NodeSets \ nodes /\ nodes' = nodes \cup {cur'}
      /\ tab' = tab /\ tmp' = tmp /\ is_async' = is_async /\ waiting' = waiting
      /\ comm' = comm /\ issued' = issued
  BY DEF ExecTask
<1>2. Inside' <=> Inside
  BY <1>1 DEF Inside
<1>3. TabInv' /\ Entries' = Entries /\ TmpInv' /\ IssuedInv'
  BY <1>1, <1>2, CommSame, QuietStep
<1>4. cur' \in NodeSets \ nodes
  BY <1>1
<1>5. TypeInv'
  <2>1. cur' # 0
    BY <1>4, SizeAssumption DEF NodeSets
  <2> QED BY <1>1, <1>2, <1>4, <2>1 DEF IInv, TypeInv, Labels, Inside
<1>6. WaitInv'
  BY <1>1 DEF WaitInv
<1>7. HeldInv'
  <2>1. cur = 0 /\ nodes \subseteq NodeSets /\ 0 \notin NodeSets
    BY <1>1 DEF IInv, TypeInv, NodeSets
  <2>2. \A e \in Entries' : \A n \in Kept(e) : n \in nodes' /\ n # cur'
    BY <1>1, <1>3, <1>4, Zenon DEF IInv, HeldInv
  <2>3. \A n \in nodes' : n = cur' \/ \E e \in Entries' : n \in Kept(e)
    BY <1>1, <1>3, <2>1, Zenon DEF IInv, HeldInv
  <2>4. cur' \in nodes'
    BY <1>1
  <2> QED BY <1>3, <2>2, <2>3, <2>4, Zenon DEF IInv, HeldInv, Kept
<1> QED BY <1>3, <1>5, <1>6, <1>7 DEF IInv

\* A step of the program that changes its label only, or the flag and the entry too.
LEMMA LabelStep ==
  ASSUME IInv, tab' = tab, comm' = comm, issued' = issued, nodes' = nodes, cur' = cur,
         TypeInv', TmpInv', WaitInv'
  PROVE  IInv'
<1>1. TabInv' /\ Entries' = Entries
  BY TabSame, Zenon DEF IInv
<1>2. IssuedInv'
  BY <1>1, CommSame, IssuedKept, Zenon DEF IInv, TypeInv
<1>3. HeldInv'
  BY <1>1, HeldSame, Zenon DEF IInv
<1> QED BY <1>1, <1>2, <1>3 DEF IInv

\* The node takes no part in the communication.
LEMMA NotMemberStep == ASSUME IInv, NotMember PROVE IInv'
<1>1. /\ pc \in {"open", "task"} /\ pc' = (IF pc = "task" THEN "finalize" ELSE "start")
      /\ tab' = tab /\ tmp' = tmp /\ is_async' = is_async /\ waiting' = waiting
      /\ comm' = comm /\ issued' = issued /\ nodes' = nodes /\ cur' = cur
  BY DEF NotMember, AfterComm
<1>2. Inside /\ Inside'
  BY <1>1 DEF Inside
<1>3. TypeInv'
  BY <1>1, <1>2 DEF IInv, TypeInv, Labels
<1>4. TmpInv'
  BY <1>1, <1>2, Zenon DEF IInv, TmpInv
<1>5. WaitInv'
  BY <1>1 DEF WaitInv
<1> QED BY <1>1, <1>3, <1>4, <1>5, LabelStep

\* xmpc_start_async ends the directive.
LEMMA StartAsyncStep == ASSUME IInv, StartAsync PROVE IInv'
<1>1. /\ pc = "start" /\ pc' = "idle" /\ tmp' = << >> /\ is_async' = FALSE
      /\ tab' = tab /\ waiting' = waiting
      /\ comm' = comm /\ issued' = issued /\ nodes' = nodes /\ cur' = cur
  BY DEF StartAsync
<1>2. ~Inside'
  BY <1>1 DEF Inside
<1>3. TypeInv'
  BY <1>1, <1>2, Zenon DEF IInv, TypeInv, Labels
<1>4. TmpInv'
  BY <1>1, <1>2, Zenon DEF TmpInv
<1>5. WaitInv'
  BY <1>1 DEF WaitInv
<1> QED BY <1>1, <1>3, <1>4, <1>5, LabelStep

\* MPI completes a request.
LEMMA CompleteStep == ASSUME IInv, NEW c \in Comms, Complete(c) PROVE IInv'
<1>1. /\ comm[c] \in {"pending", "moving"}
      /\ comm' = [comm EXCEPT ![c] = IF comm[c] = "moving" THEN "packed" ELSE "done"]
      /\ tab' = tab /\ tmp' = tmp /\ is_async' = is_async /\ pc' = pc /\ waiting' = waiting
      /\ issued' = issued /\ nodes' = nodes /\ cur' = cur
  BY DEF Complete
<1>2. comm \in [Comms -> CommStates]
  BY DEF IInv, TypeInv
<1>3. comm'[c] = (IF comm[c] = "moving" THEN "packed" ELSE "done") /\ \A d \in Comms \ {c} : comm'[d] = comm[d]
  BY <1>1, <1>2
<1>4. \A d \in Comms : Onward(d) /\ (comm[d] # "free" => comm'[d] # "free")
  BY <1>1, <1>3 DEF Onward
<1>5. Inside' <=> Inside
  BY <1>1 DEF Inside
<1>6. TabInv' /\ Entries' = Entries /\ TmpInv' /\ IssuedInv'
  BY <1>1, <1>4, <1>5, QuietStep, Zenon
<1>7. TypeInv'
  BY <1>1, <1>5 DEF IInv, TypeInv, CommStates
<1>8. WaitInv'
  <2>1. pc = "end" => \A d \in issued[waiting] : d \in Comms /\ comm[d] = "done"
    BY DEF IInv, TypeInv, WaitInv
  <2>2. \A d \in Comms : comm[d] = "done" => comm'[d] = "done"
    BY <1>1, <1>3
  <2> QED BY <1>1, <2>1, <2>2 DEF IInv, WaitInv
<1>9. HeldInv'
  BY <1>1, <1>6, HeldSame, Zenon DEF IInv
<1> QED BY <1>6, <1>7, <1>8, <1>9 DEF IInv

\* The entry that _XMP_get_async finds accounts for all the id has issued.
LEMMA FoundIs ==
  ASSUME IInv, NEW id \in Ids, NEW e \in Range(Get(id))
  PROVE  e \in Entries /\ issued[id] = Recorded(e)
<1>1. TabInv /\ IssuedInv
  BY DEF IInv
<1>2. Get(id) # << >>
  BY DEF Range
<1>3. PICK g \in Entries : /\ Get(id) = <<g>> /\ g.id = id
                         /\ \A f \in Entries : f.used /\ f.id = id => f = g
  BY <1>1, <1>2, GetIs, ZenonT(40)
<1>4. e = g
  BY <1>3 DEF Range
<1>5. CASE g.used
  BY <1>1, <1>3, <1>4, <1>5, Zenon DEF IssuedInv, EntryOK
<1>6. CASE ~g.used
  <2>1. g \in EntryType /\ Empty(g)
    BY <1>1, <1>6, EntryIs, Zenon
  <2>2. Recorded(g) = {}
    BY <2>1, RecordedIs, Zenon
  <2>3. issued[id] = {}
    BY <1>1, <1>3, <1>6, Zenon DEF IssuedInv
  <2> QED BY <1>3, <1>4, <2>2, <2>3
<1> QED BY <1>5, <1>6

\* Where it finds none, the id has issued nothing.
LEMMA NotFoundIs == ASSUME IInv, NEW id \in Ids, Get(id) = << >> PROVE issued[id] = {}
<1>1. TabInv /\ IssuedInv
  BY DEF IInv
<1>2. \A x : <<x>> # << >>
  OBVIOUS
<1>3. \A x : Get(id) # <<x>>
  BY <1>2
<1>4. \A e \in Entries : e.used => e.id # id
  BY <1>1, <1>3, GetIs, Zenon
<1> QED BY <1>1, <1>4, Zenon DEF IssuedInv

\* After MPI_Waitall and the unpacking of its gmove, the work of an id is done.
LEMMA UnpackedIs ==
  ASSUME IInv, NEW id \in Ids, NEW e \in Range(Get(id)), e.mode = "normal", AllArrived(e)
  PROVE  /\ \A c \in issued[id] : Unpack(e)[c] = "done"
         /\ Unpack(e) \in [Comms -> CommStates]
<1>1. e \in Entries /\ issued[id] = Recorded(e)
  BY FoundIs
<1>2. e \in EntryType /\ EntryOK(e) /\ comm \in [Comms -> CommStates]
  BY <1>1, EntryIs, Zenon DEF IInv, IssuedInv, TypeInv
<1>3. ASSUME NEW c \in issued[id] PROVE Unpack(e)[c] = "done"
  <2>1. c \in Recorded(e) /\ c \in Range(e.reqs) /\ c \in Comms
    BY <1>1, <1>2, <1>3, RecordedIs, Zenon DEF EntryOK
  <2>2. comm[c] \in {"packed", "done"}
    BY <2>1 DEF Range, AllArrived, Arrived
  <2>3. comm[c] = "packed" => c = e.gmove
    BY <1>2, <2>1, Zenon DEF EntryOK
  <2> QED BY <2>1, <2>2, <2>3 DEF Unpack
<1>4. Unpack(e) \in [Comms -> CommStates]
  BY <1>2 DEF Unpack, CommStates
<1> QED BY <1>3, <1>4

\* So is that of a gmove in or out that the images have agreed is over.
LEMMA SyncedIs ==
  ASSUME IInv, NEW id \in Ids, NEW e \in Range(Get(id)), e.mode # "normal", Arrived(e.gmove)
  PROVE  \A c \in issued[id] : comm[c] = "done"
<1>1. e \in Entries /\ issued[id] = Recorded(e)
  BY FoundIs
<1>2. e \in EntryType /\ EntryOK(e)
  BY <1>1, EntryIs, Zenon DEF IInv, IssuedInv
<1>3. e.mode = "inout"
  BY <1>2 DEF EntryType
<1>4. Recorded(e) = {e.gmove} /\ comm[e.gmove] \in {"pending", "done"}
  BY <1>2, <1>3, Zenon DEF EntryOK
<1>5. comm[e.gmove] = "done"
  BY <1>4 DEF Arrived
<1> QED BY <1>1, <1>4, <1>5

\* The program comes to xmpc_end_async with the work of the id done.
LEMMA EndReached ==
  ASSUME IInv, NEW id \in Ids, ~Inside, pc' = "end", waiting' = id, tab' = tab, tmp' = tmp,
         is_async' = is_async, nodes' = nodes, cur' = cur, issued' = issued,
         comm' = comm \/ \E e : comm' = Unpack(e), comm' \in [Comms -> CommStates],
         \A c \in issued[id] : comm'[c] = "done"
  PROVE  IInv'
<1>1. ~Inside'
  BY DEF Inside
<1>2. \A c \in Comms : Onward(c) /\ (comm[c] # "free" => comm'[c] # "free")
  <2>1. CASE comm' = comm
    BY <2>1, CommSame, Zenon
  <2>2. CASE \E e : comm' = Unpack(e)
    <3>1. PICK e : comm' = Unpack(e)
      BY <2>2
    <3>2. \A c \in Comms : comm'[c] = IF c = e.gmove /\ comm[c] = "packed" THEN "done" ELSE comm[c]
      BY <3>1 DEF Unpack
    <3> QED BY <3>2 DEF Onward
  <2> QED BY <2>1, <2>2
<1>3. TabInv' /\ Entries' = Entries /\ TmpInv' /\ IssuedInv'
  BY <1>1, <1>2, QuietStep
<1>4. TypeInv'
  <2>1. cur = 0
    BY DEF IInv, TypeInv, Inside
  <2>2. issued' \in [Ids -> SUBSET Comms] /\ nodes' \subseteq NodeSets /\ cur' = 0
    BY <2>1 DEF IInv, TypeInv
  <2>3. is_async' \in BOOLEAN /\ (is_async' <=> Inside')
    BY <1>1 DEF IInv, TypeInv
  <2> QED BY <2>2, <2>3 DEF TypeInv, Labels
<1>5. WaitInv'
  BY DEF WaitInv
<1>6. HeldInv'
  BY <1>3, HeldSame, Zenon DEF IInv
<1> QED BY <1>3, <1>4, <1>5, <1>6 DEF IInv

\* _XMP_wait_async__
LEMMA WaitAsyncStep == ASSUME IInv, WaitAsync PROVE IInv'
<1>1. /\ pc = "wait" /\ pc' = "end" /\ tab' = tab /\ tmp' = tmp /\ is_async' = is_async
      /\ waiting' = waiting /\ nodes' = nodes /\ cur' = cur /\ issued' = issued
  BY DEF WaitAsync, WaitFor
<1>2. waiting \in Ids /\ ~Inside /\ comm \in [Comms -> CommStates]
  BY <1>1 DEF IInv, WaitInv, TypeInv, Inside
<1>3. CASE Get(waiting) = << >> /\ comm' = comm
  <2>1. issued[waiting] = {}
    BY <1>2, <1>3, NotFoundIs
  <2> QED BY <1>1, <1>2, <1>3, <2>1, EndReached
<1>4. ASSUME NEW e \in Range(Get(waiting)), e.mode = "normal", AllArrived(e), comm' = Unpack(e)
      PROVE  IInv'
  <2>1. (\A c \in issued[waiting] : comm'[c] = "done") /\ comm' \in [Comms -> CommStates]
    BY <1>2, <1>4, UnpackedIs
  <2> QED BY <1>1, <1>2, <1>4, <2>1, EndReached
<1>5. ASSUME NEW e \in Range(Get(waiting)), e.mode # "normal", Arrived(e.gmove), comm' = comm
      PROVE  IInv'
  <2>1. \A c \in issued[waiting] : comm'[c] = "done"
    BY <1>2, <1>5, SyncedIs
  <2> QED BY <1>1, <1>2, <1>5, <2>1, EndReached
<1> QED BY <1>3, <1>4, <1>5, Zenon DEF WaitAsync, WaitFor

\* xmp_test_async_ that returns 1
LEMMA TestAsyncStep == ASSUME IInv, NEW id \in Ids, TestAsync(id) PROVE IInv'
<1>1. /\ pc = "idle" /\ pc' = "end" /\ tab' = tab /\ tmp' = tmp /\ is_async' = is_async
      /\ waiting' = id /\ nodes' = nodes /\ cur' = cur /\ issued' = issued
  BY DEF TestAsync
<1>2. ~Inside
  BY <1>1 DEF Inside
<1>3. PICK e \in Range(Get(id)) : e.mode = "normal" /\ AllArrived(e) /\ comm' = Unpack(e)
  BY DEF TestAsync
<1>4. (\A c \in issued[id] : comm'[c] = "done") /\ comm' \in [Comms -> CommStates]
  BY <1>3, UnpackedIs
<1> QED BY <1>1, <1>2, <1>3, <1>4, EndReached

\* The node enters wait_async, or has nothing to wait for.
LEMMA BeginWaitStep == ASSUME IInv, NEW id \in Ids, BeginWait(id) PROVE IInv'
<1>1. /\ pc = "idle" /\ tab' = tab /\ tmp' = tmp /\ is_async' = is_async
      /\ waiting' = id /\ comm' = comm /\ nodes' = nodes /\ cur' = cur /\ issued' = issued
      /\ pc' = "wait" \/ (pc' = "end" /\ issued[id] = {})
  BY DEF BeginWait
<1>2. ~Inside /\ ~Inside'
  BY <1>1 DEF Inside
<1>3. TypeInv'
  BY <1>1, <1>2 DEF IInv, TypeInv, Labels
<1>4. TmpInv'
  BY <1>1, <1>2, Zenon DEF IInv, TmpInv
<1>5. WaitInv'
  BY <1>1 DEF WaitInv
<1> QED BY <1>1, <1>3, <1>4, <1>5, LabelStep

----------------------------------------------------------------------------
(* xmpc_init_async.                                                         *)

\* An entry that keeps no node set has come, and only such entries have gone.
LEMMA HeldAdd ==
  ASSUME HeldInv, NEW e, e.nodes = << >>, nodes' = nodes, cur' = cur,
         \A f \in Entries' : f = e \/ f \in Entries,
         \A f \in Entries : f \in Entries' \/ Kept(f) = {}
  PROVE  HeldInv'
<1>1. Kept(e) = {} /\ DOMAIN e.nodes = {}
  BY DEF Kept, Range
<1>2. \A f \in Entries' : \A n \in Kept(f) : n \in nodes /\ n # cur
  BY <1>1, Zenon DEF HeldInv
<1>3. \A n \in nodes : n = cur \/ \E f \in Entries' : n \in Kept(f)
  BY Zenon DEF HeldInv
<1>4. \A f \in Entries' : \A j, l \in DOMAIN f.nodes : f.nodes[j] = f.nodes[l] => j = l
  BY <1>1, Zenon DEF HeldInv
<1>5. \A f, g \in Entries' : \A n : f.used /\ g.used /\ n \in Kept(f) /\ n \in Kept(g) => f.id = g.id
  BY <1>1, Zenon DEF HeldInv
<1> QED BY <1>2, <1>3, <1>4, <1>5, Zenon DEF HeldInv, Kept

\* A directive starts with an entry for an id that had none in use.
LEMMA NewEntry ==
  ASSUME IInv, NEW id \in Ids, NEW e \in EntryType, e.used, e.id = id, Empty(e),
         pc = "idle", pc' = "open", is_async' = TRUE,
         comm' = comm, nodes' = nodes, cur' = cur, issued' = issued,
         TabInv', TmpInv', e \in Entries',
         \A f \in Entries' : f = e \/ (f \in Entries /\ (f.used => f.id # id)),
         \A f \in Entries : f \in Entries' \/ ~f.used,
         \A f \in Entries : f.used => f.id # id
  PROVE  IInv'
<1>1. issued[id] = {}
  BY Zenon DEF IInv, IssuedInv
<1>2. TypeInv'
  <2>1. Inside' /\ cur = 0
    BY DEF Inside, IInv, TypeInv
  <2> QED BY <2>1 DEF IInv, TypeInv, Labels
<1>3. IssuedInv'
  <2>1. ASSUME NEW f \in Entries' PROVE EntryOK(f)'
    <3>1. CASE f = e
      BY <1>1, <3>1, EmptyOK, Zenon
    <3>2. CASE f \in Entries
      <4>1. EntryOK(f) /\ f \in EntryType
        BY <3>2, EntryIs, Zenon DEF IInv, IssuedInv
      <4>2. \A c \in Recorded(f) : Onward(c)
        BY <4>1, CommSame, RecordedIs, Zenon
      <4> QED BY <4>1, <4>2, EntryKept, Zenon
    <3> QED BY <3>1, <3>2
  <2>2. \A i \in Ids : issued'[i] # {} => \E f \in Entries' : f.used /\ f.id = i
    BY Zenon DEF IInv, IssuedInv
  <2>3. /\ \A a, b \in Ids : \A c : c \in issued'[a] /\ c \in issued'[b] => a = b
        /\ \A i \in Ids : \A c \in issued'[i] : comm'[c] # "free"
    BY Zenon DEF IInv, IssuedInv
  <2> QED BY <2>1, <2>2, <2>3, Zenon DEF IssuedInv
<1>4. WaitInv'
  BY DEF WaitInv
<1>5. HeldInv'
  <2>1. \A f \in Entries : f \in Entries' \/ Kept(f) = {}
    BY EntryIs, RecordedIs, Zenon DEF IInv
  <2>2. e.nodes = << >> /\ \A f \in Entries' : f = e \/ f \in Entries
    BY DEF Empty
  <2> QED BY <2>1, <2>2, HeldAdd, Zenon DEF IInv
<1> QED BY <1>2, <1>3, <1>4, <1>5 DEF IInv

\* xmpc_init_async for an id in a slot out of use
LEMMA InitFresh ==
  ASSUME IInv, NEW id \in Ids, InitAsync(id), ~tab[Slot(id)][1].used
  PROVE  IInv'
<1>1. PICK s \in Slots : s = Slot(id)
  BY SlotIs
<1>2. /\ pc = "idle" /\ pc' = "open" /\ is_async' = TRUE /\ waiting' = waiting
      /\ comm' = comm /\ nodes' = nodes /\ cur' = cur /\ issued' = issued
      /\ tab' = [tab EXCEPT ![s][1].id = id, ![s][1].used = TRUE]
      /\ tmp' = <<s, 1>>
  BY <1>1 DEF InitAsync
<1>3. TabInv
  BY DEF IInv
<1>4. ChainOK(s, tab[s]) /\ tab \in [Slots -> Seq(EntryType)] /\ ~tab[s][1].used
  BY <1>1, <1>3 DEF TabInv
<1>5. Len(tab[s]) = 1 /\ Empty(tab[s][1]) /\ tab[s][1] \in EntryType /\ 1 \in 1 .. Len(tab[s])
  BY <1>4 DEF ChainOK
<1>6. PICK e : e = [tab[s][1] EXCEPT !.id = id, !.used = TRUE]
  OBVIOUS
<1>7. e \in EntryType /\ e.used /\ e.id = id /\ Empty(e)
  BY <1>5, <1>6, SizeAssumption, Zenon DEF EntryType, Empty
<1>8. tab' = [tab EXCEPT ![s] = [tab[s] EXCEPT ![1] = e]]
  BY <1>2, <1>4, <1>5, <1>6, Zenon
<1>9. UsedIn(s, e)
  BY <1>1, <1>7 DEF UsedIn
<1>10. /\ TabInv' /\ Len(tab'[s]) = Len(tab[s]) /\ tab'[s][1] = e /\ e \in Entries'
       /\ \A f \in Entries' : f = e \/ (f \in Entries /\ (f.used => f.id # e.id))
       /\ \A f \in Entries : f = tab[s][1] \/ f \in Entries'
  BY <1>3, <1>5, <1>8, <1>9, PutEntries, Zenon
<1>11. \A f \in Entries : f.used => f.id # id
  BY <1>3, FreeSlot, Zenon
<1>12. \A f \in Entries : f \in Entries' \/ ~f.used
  BY <1>4, <1>10
<1>13. TmpInv'
  <2>1. 1 \in 1 .. Len(tab'[s]) /\ tab'[s][1].used
    BY <1>5, <1>7, <1>10
  <2> QED BY <1>2, <2>1, Zenon DEF TmpInv, Inside
<1> QED BY <1>2, <1>7, <1>10, <1>11, <1>12, <1>13, NewEntry

\* xmpc_init_async for an id that has an entry
LEMMA InitFound ==
  ASSUME IInv, NEW id \in Ids, InitAsync(id), tab[Slot(id)][1].used, Positions(id) # {}
  PROVE  IInv'
<1>1. Slot(id) \in Slots /\ TabInv
  BY SlotIs DEF IInv
<1>2. /\ pc = "idle" /\ pc' = "open" /\ is_async' = TRUE /\ waiting' = waiting
      /\ comm' = comm /\ nodes' = nodes /\ cur' = cur /\ issued' = issued /\ tab' = tab
      /\ tmp' = <<Slot(id), Min(Positions(id))>>
  BY DEF InitAsync
<1>3. PICK k \in 1 .. Len(tab[Slot(id)]) : Min(Positions(id)) = k /\ tab[Slot(id)][k].used
  BY <1>1, GetIs, Zenon
<1>4. TabInv' /\ Entries' = Entries
  BY <1>1, <1>2, TabSame, Zenon
<1>5. Inside' /\ cur = 0
  BY <1>2 DEF Inside, IInv, TypeInv
<1>6. TypeInv'
  BY <1>2, <1>5 DEF IInv, TypeInv, Labels
<1>7. TmpInv'
  <2>1. tmp' = <<Slot(id), k>>
    BY <1>2, <1>3
  <2>2. \E i \in 1 .. Len(tab[Slot(id)]) : tmp' = <<Slot(id), i>> /\ tab[Slot(id)][i].used
    BY <1>3, <2>1, Zenon
  <2>3. \E h \in Slots : \E i \in 1 .. Len(tab[h]) : tmp' = <<h, i>> /\ tab[h][i].used
    BY <1>1, <2>2, Zenon
  <2> QED BY <1>2, <1>5, <2>3, Zenon DEF TmpInv
<1>8. IssuedInv'
  <2>1. \A c \in Comms : Onward(c) /\ (comm[c] # "free" => comm'[c] # "free")
    BY <1>2, CommSame, Zenon
  <2>2. IssuedInv /\ issued \in [Ids -> SUBSET Comms]
    BY DEF IInv, TypeInv
  <2> QED BY <1>1, <1>2, <1>4, <2>1, <2>2, IssuedKept, Zenon
<1>9. WaitInv'
  BY <1>2 DEF WaitInv
<1>10. HeldInv'
  BY <1>2, <1>4, HeldSame, Zenon DEF IInv
<1> QED BY <1>4, <1>6, <1>7, <1>8, <1>9, <1>10 DEF IInv

\* xmpc_init_async for an id that joins the chain of others
LEMMA InitChained ==
  ASSUME IInv, NEW id \in Ids, InitAsync(id), tab[Slot(id)][1].used, Positions(id) = {}
  PROVE  IInv'
<1>1. PICK s \in Slots : s = Slot(id)
  BY SlotIs
<1>2. PICK e : e = Entry(id, TRUE)
  BY Zenon
<1>3. /\ pc = "idle" /\ pc' = "open" /\ is_async' = TRUE /\ waiting' = waiting
      /\ comm' = comm /\ nodes' = nodes /\ cur' = cur /\ issued' = issued
      /\ tab' = [tab EXCEPT ![s] = Append(tab[s], e)]
      /\ tmp' = <<s, Len(tab[s]) + 1>>
  BY <1>1, <1>2, Zenon DEF InitAsync
<1>4. e \in EntryType /\ e.used /\ e.id = id /\ Empty(e)
  BY <1>2, SizeAssumption DEF Entry, EntryType, Empty
<1>5. UsedIn(s, e)
  BY <1>1, <1>4 DEF UsedIn
<1>6. TabInv /\ tab[s][1].used
  BY <1>1 DEF IInv
<1>7. tab[s] \in Seq(EntryType)
  BY <1>6 DEF TabInv
<1>8. \A i \in 1 .. Len(tab[s]) : tab[s][i].id # e.id
  BY <1>1, <1>4, <1>7 DEF Positions
<1>9. /\ TabInv' /\ Len(tab'[s]) = Len(tab[s]) + 1 /\ tab'[s][Len(tab[s]) + 1] = e
      /\ e \in Entries'
      /\ \A f \in Entries' : f = e \/ (f \in Entries /\ (f.used => f.id # e.id))
      /\ \A f \in Entries : f \in Entries'
  BY <1>3, <1>5, <1>6, <1>8, AppendEntries, Zenon
<1>10. \A f \in Entries : f.used => f.id # id
  <2> SUFFICES ASSUME NEW f \in Entries, f.used, f.id = id PROVE FALSE
    OBVIOUS
  <2>1. PICK k \in 1 .. Len(tab[s]) : tab[s][k] = f
    BY <1>1, <1>6, InChain, Zenon
  <2> QED BY <1>4, <1>8, <2>1
<1>11. TmpInv'
  <2>1. PICK n \in Nat : n = Len(tab[s])
    BY <1>7
  <2>2. n + 1 \in 1 .. Len(tab'[s]) /\ tab'[s][n + 1].used /\ tmp' = <<s, n + 1>>
    BY <1>3, <1>4, <1>9, <2>1
  <2>3. Inside'
    BY <1>3 DEF Inside
  <2> QED BY <2>2, <2>3 DEF TmpInv
<1> QED BY <1>3, <1>4, <1>9, <1>10, <1>11, NewEntry

\* xmpc_init_async
LEMMA InitAsyncStep == ASSUME IInv, NEW id \in Ids, InitAsync(id) PROVE IInv'
BY InitFresh, InitFound, InitChained, Zenon

----------------------------------------------------------------------------
(* xmpc_end_async.                                                          *)

\* The entry of an id goes, and with it its node sets and its communications.
LEMMA EndAsyncStep == ASSUME IInv, EndAsync PROVE IInv'
<1>1. PICK id \in Ids : id = waiting
  BY DEF IInv, WaitInv, EndAsync
<1>2. /\ pc = "end" /\ pc' = "idle" /\ tmp' = tmp /\ is_async' = is_async /\ cur' = cur
      /\ tab' = [tab EXCEPT ![Slot(id)] = Ended(tab[Slot(id)], id)]
      /\ nodes' = nodes \ Released(id)
      /\ comm' = [c \in Comms |-> IF c \in issued[id] THEN "free" ELSE comm[c]]
      /\ issued' = [issued EXCEPT ![id] = {}]
  BY <1>1 DEF EndAsync
<1>3. TabInv /\ IssuedInv /\ HeldInv /\ TypeInv
  BY DEF IInv
<1>4. /\ TabInv'
      /\ \A f \in Entries' : (f \in Entries /\ (f.used => f.id # id)) \/ (~f.used /\ Empty(f))
      /\ \A f \in Entries : f \in Entries' \/ (f.used /\ f.id = id)
  BY <1>2, <1>3, EndEntries, Zenon
<1>5. /\ comm \in [Comms -> CommStates] /\ issued \in [Ids -> SUBSET Comms]
      /\ issued'[id] = {} /\ \A i \in Ids : i # id => issued'[i] = issued[i]
      /\ \A c \in Comms : c \notin issued[id] => comm'[c] = comm[c]
  BY <1>2, <1>3 DEF TypeInv
<1>6. ~Inside /\ ~Inside'
  BY <1>2 DEF Inside
<1>7. TypeInv'
  <2>1. comm' \in [Comms -> CommStates]
    BY <1>2, <1>5 DEF CommStates
  <2>2. issued' \in [Ids -> SUBSET Comms]
    BY <1>2, <1>5
  <2> QED BY <1>2, <1>3, <1>6, <2>1, <2>2 DEF TypeInv, Labels
<1>8. TmpInv'
  BY <1>2, <1>6, Zenon DEF IInv, TmpInv
<1>9. IssuedInv'
  <2>1. ASSUME NEW f \in Entries' PROVE EntryOK(f)'
    <3>1. CASE f \in Entries /\ f.used /\ f.id # id
      <4>1. f \in EntryType /\ f.id \in Ids /\ EntryOK(f)
        BY <1>3, <3>1, EntryIs, Zenon DEF IssuedInv
      <4>2. issued'[f.id] = issued[f.id] /\ issued[f.id] = Recorded(f)
        BY <1>5, <3>1, <4>1, Zenon DEF EntryOK
      <4>3. \A c \in Recorded(f) : c \in Comms /\ c \notin issued[id]
        BY <1>3, <3>1, <4>1, <4>2, RecordedIs, Zenon DEF IssuedInv
      <4>4. \A c \in Recorded(f) : comm'[c] = comm[c]
        BY <1>5, <4>3, Zenon
      <4>5. \A c \in Recorded(f) : Onward(c)
        BY <4>4 DEF Onward
      <4> QED BY <4>1, <4>2, <4>5, EntryKept, Zenon
    <3>2. CASE ~f.used
      <4>1. f \in EntryType /\ Empty(f)
        <5>1. CASE f \in Entries
          BY <1>3, <3>2, <5>1, EntryIs, Zenon
        <5>2. CASE f \notin Entries
          <6>1. Empty(f)
            BY <1>4, <5>2, Zenon
          <6>2. Stands(f, tab')
            BY <1>4, EntriesAreNext, Zenon
          <6> QED BY <1>4, <6>1, <6>2 DEF Stands, TabInv
        <5> QED BY <5>1, <5>2
      <4> QED BY <3>2, <4>1, EmptyOK, Zenon
    <3> QED BY <1>4, <3>1, <3>2, Zenon
  <2>2. \A i \in Ids : issued'[i] # {} => \E f \in Entries' : f.used /\ f.id = i
    <3> SUFFICES ASSUME NEW i \in Ids, issued'[i] # {} PROVE \E f \in Entries' : f.used /\ f.id = i
      OBVIOUS
    <3>1. i # id /\ issued[i] # {}
      BY <1>5
    <3>2. PICK f \in Entries : f.used /\ f.id = i
      BY <1>3, <3>1, Zenon DEF IssuedInv
    <3> QED BY <1>4, <3>1, <3>2, Zenon
  <2>3. \A i \in Ids : \A c \in issued'[i] : c \in issued[i] /\ i # id
    BY <1>5
  <2>4. \A a, b \in Ids : \A c : c \in issued'[a] /\ c \in issued'[b] => a = b
    BY <1>3, <2>3, Zenon DEF IssuedInv
  <2>5. \A i \in Ids : \A c \in issued'[i] : comm'[c] # "free"
    <3> SUFFICES ASSUME NEW i \in Ids, NEW c \in issued'[i] PROVE comm'[c] # "free"
      OBVIOUS
    <3>1. c \in issued[i] /\ i # id
      BY <2>3, Zenon
    <3>2. c \notin issued[id] /\ comm[c] # "free"
      BY <1>3, <3>1, Zenon DEF IssuedInv
    <3>3. c \in Comms
      BY <1>5, <3>1
    <3>4. comm'[c] = comm[c]
      BY <1>5, <3>2, <3>3, Zenon
    <3> QED BY <3>2, <3>4
  <2> QED BY <2>1, <2>2, <2>4, <2>5, Zenon DEF IssuedInv
<1>10. WaitInv'
  BY <1>2 DEF WaitInv
<1>11. HeldInv'
  <2>0. cur' = 0 /\ cur = 0
    BY <1>2, <1>3 DEF TypeInv
  <2>1. \A f \in Entries' : (f \in Entries /\ (f.used => f.id # id)) \/ Kept(f) = {}
    <3>1. ASSUME NEW f, Empty(f) PROVE Kept(f) = {}
      BY <3>1 DEF Empty, Kept, Range
    <3> QED BY <1>4, <3>1, Zenon
  <2>2. \A f \in Entries : f.used \/ Kept(f) = {}
    BY <1>3, EntryIs, RecordedIs, Zenon
  <2>3. \A n : n \in Released(id) <=> \E e \in Entries : e.used /\ e.id = id /\ n \in Kept(e)
    BY <1>3, ReleasedIs, Zenon DEF Kept
  <2>4. \A f \in Entries' : \A n \in Kept(f) : n \in nodes' /\ n # cur'
    <3> SUFFICES ASSUME NEW f \in Entries', NEW n \in Kept(f) PROVE n \in nodes' /\ n # cur'
      OBVIOUS
    <3>1. f \in Entries /\ f.used /\ f.id # id
      BY <2>1, <2>2, Zenon
    <3>2. n \in nodes /\ n # cur
      BY <1>3, <3>1, Zenon DEF HeldInv
    <3>3. n \notin Released(id)
      BY <1>3, <2>3, <3>1, Zenon DEF HeldInv
    <3> QED BY <1>2, <3>2, <3>3
  <2>5. \A n \in nodes' : n = cur' \/ \E f \in Entries' : n \in Kept(f)
    <3> SUFFICES ASSUME NEW n \in nodes' PROVE n = cur' \/ \E f \in Entries' : n \in Kept(f)
      OBVIOUS
    <3>1. n \in nodes /\ n \notin Released(id)
      BY <1>2
    <3>2. CASE n = cur
      BY <1>2, <3>2
    <3>3. CASE \E f \in Entries : n \in Kept(f)
      BY <1>4, <2>3, <3>1, <3>3, Zenon
    <3> QED BY <1>3, <3>1, <3>2, <3>3, Zenon DEF HeldInv
  <2>6. \A f \in Entries' : \A j, l \in DOMAIN f.nodes : f.nodes[j] = f.nodes[l] => j = l
    <3>1. ASSUME NEW f, Empty(f) PROVE DOMAIN f.nodes = {}
      BY <3>1 DEF Empty
    <3> QED BY <1>3, <1>4, <3>1, Zenon DEF HeldInv
  <2>7. \A e, f \in Entries' : \A n : e.used /\ f.used /\ n \in Kept(e) /\ n \in Kept(f) => e.id = f.id
    BY <1>3, <1>4, Zenon DEF HeldInv
  <2> QED BY <2>0, <2>4, <2>5, <2>6, <2>7, Zenon DEF HeldInv, Kept
<1> QED BY <1>4, <1>7, <1>8, <1>9, <1>10, <1>11 DEF IInv

----------------------------------------------------------------------------
(* The body of the directive.                                               *)

\* What is in a sequence after one more element.
LEMMA AppendSet ==
  ASSUME NEW S, NEW s \in Seq(S), NEW x \in S
  PROVE  Range(Append(s, x)) = Range(s) \cup {x}
<1>1. PICK n \in Nat : n = Len(s)
  OBVIOUS
<1>2. DOMAIN s = 1 .. n /\ DOMAIN Append(s, x) = 1 .. n + 1
  BY <1>1
<1>3. Append(s, x)[n + 1] = x /\ \A i \in 1 .. n : Append(s, x)[i] = s[i]
  BY <1>1
<1>4. 1 .. n + 1 = (1 .. n) \cup {n + 1}
  OBVIOUS
<1> QED BY <1>2, <1>3, <1>4 DEF Range

\* A node set that was in no list is now in the list of one entry once.
LEMMA FinalizeTaskStep == ASSUME IInv, FinalizeTask PROVE IInv'
<1>1. /\ pc = "finalize" /\ pc' = "start" /\ cur' = 0
      /\ tab' = [tab EXCEPT ![tmp[1]][tmp[2]].nodes = Append(@, cur)]
      /\ tmp' = tmp /\ is_async' = is_async /\ waiting' = waiting
      /\ comm' = comm /\ nodes' = nodes /\ issued' = issued
  BY DEF FinalizeTask, FinalizeTaskWith
<1>2. TabInv /\ IssuedInv /\ HeldInv /\ TypeInv /\ TmpInv
  BY DEF IInv
<1>3. Inside /\ Inside'
  BY <1>1 DEF Inside
<1>4. PICK s \in Slots : \E k \in 1 .. Len(tab[s]) : tmp = <<s, k>> /\ tab[s][k].used
  BY <1>2, <1>3, Zenon DEF TmpInv
<1>5. PICK k \in 1 .. Len(tab[s]) : tmp = <<s, k>> /\ tab[s][k].used
  BY <1>4
<1>6. PICK o : o = tab[s][k]
  OBVIOUS
<1>7. ChainOK(s, tab[s]) /\ tab \in [Slots -> Seq(EntryType)]
  BY <1>2 DEF TabInv
<1>8. o \in EntryType /\ o.used /\ o.id \in Ids /\ Slot(o.id) = s
  BY <1>5, <1>6, <1>7 DEF ChainOK
<1>9. o \in Entries
  BY <1>2, <1>6, EntriesAre, Zenon DEF Stands
<1>10. cur \in NodeSets /\ cur # 0 /\ cur \in nodes
  BY <1>1, <1>2 DEF TypeInv, HeldInv
<1>11. PICK e : e = [o EXCEPT !.nodes = Append(o.nodes, cur)]
  BY Zenon
<1>12. o.nodes \in Seq(NodeSets) /\ Append(o.nodes, cur) \in Seq(NodeSets)
  BY <1>8, <1>10 DEF EntryType
<1>13. /\ e \in EntryType /\ e.used /\ e.id = o.id /\ e.nodes = Append(o.nodes, cur)
       /\ e.reqs = o.reqs /\ e.gmove = o.gmove /\ e.mode = o.mode
  BY <1>8, <1>11, <1>12, Zenon DEF EntryType
<1>14. tab' = [tab EXCEPT ![s] = [tab[s] EXCEPT ![k] = e]]
  BY <1>1, <1>5, <1>6, <1>7, <1>11
<1>15. UsedIn(s, e) /\ e.id = tab[s][k].id
  BY <1>6, <1>8, <1>13 DEF UsedIn
<1>16. /\ TabInv' /\ Len(tab'[s]) = Len(tab[s]) /\ tab'[s][k] = e /\ e \in Entries'
       /\ \A f \in Entries' : f = e \/ (f \in Entries /\ (f.used => f.id # e.id))
       /\ \A f \in Entries : f = tab[s][k] \/ f \in Entries'
  BY <1>2, <1>14, <1>15, PutEntries, Zenon
<1>17. /\ \A f \in Entries' : f = e \/ (f \in Entries /\ (f.used => f.id # o.id))
       /\ \A f \in Entries : f = o \/ f \in Entries'
  BY <1>6, <1>13, <1>16
<1>18. TypeInv'
  BY <1>1, <1>2, <1>3 DEF TypeInv, Labels
<1>19. TmpInv'
  <2>1. k \in 1 .. Len(tab'[s]) /\ tab'[s][k].used /\ tmp' = <<s, k>>
    BY <1>1, <1>5, <1>13, <1>16
  <2> QED BY <1>3, <2>1, Zenon DEF TmpInv
<1>20. Recorded(e) = Recorded(o)
  BY <1>13 DEF Recorded
<1>21. IssuedInv'
  <2>1. ASSUME NEW f \in Entries' PROVE EntryOK(f)'
    <3>1. CASE f \in Entries
      <4>1. EntryOK(f) /\ f \in EntryType
        BY <1>2, <3>1, EntryIs, Zenon DEF IssuedInv
      <4>2. \A c \in Recorded(f) : Onward(c)
        BY <1>1, <4>1, CommSame, RecordedIs, Zenon
      <4> QED BY <1>1, <4>1, <4>2, EntryKept, Zenon
    <3>2. CASE f = e
      <4>1. EntryOK(o)
        BY <1>2, <1>9, Zenon DEF IssuedInv
      <4>2. EntryOK(e)
        BY <1>8, <1>13, <1>20, <4>1 DEF EntryOK
      <4>3. \A c \in Recorded(e) : Onward(c)
        BY <1>1, <1>13, CommSame, RecordedIs, Zenon
      <4> QED BY <1>1, <3>2, <4>2, <4>3, EntryKept, Zenon
    <3> QED BY <1>17, <3>1, <3>2, Zenon
  <2>2. \A i \in Ids : issued'[i] # {} => \E f \in Entries' : f.used /\ f.id = i
    BY <1>1, <1>2, <1>13, <1>16, <1>17, ZenonT(40) DEF IssuedInv
  <2>3. /\ \A a, b \in Ids : \A c : c \in issued'[a] /\ c \in issued'[b] => a = b
        /\ \A i \in Ids : \A c \in issued'[i] : comm'[c] # "free"
    BY <1>1, <1>2, Zenon DEF IssuedInv
  <2> QED BY <2>1, <2>2, <2>3, Zenon DEF IssuedInv
<1>22. WaitInv'
  BY <1>1 DEF WaitInv
<1>23. HeldInv'
  <2>1. Kept(e) = Kept(o) \cup {cur}
    BY <1>10, <1>12, <1>13, AppendSet DEF Kept
  <2>2. 0 \notin nodes
    BY <1>2, SizeAssumption DEF TypeInv, NodeSets
  <2>3. \A f \in Entries : \A n \in Kept(f) : n \in nodes /\ n # cur
    BY <1>2, Zenon DEF HeldInv
  <2>4. \A f \in Entries' : \A n \in Kept(f) : n \in nodes' /\ n # cur'
    BY <1>1, <1>9, <1>10, <1>17, <2>1, <2>2, <2>3
  <2>5. \A n \in nodes' : n = cur' \/ \E f \in Entries' : n \in Kept(f)
    <3> SUFFICES ASSUME NEW n \in nodes' PROVE \E f \in Entries' : n \in Kept(f)
      OBVIOUS
    <3>1. n = cur \/ \E f \in Entries : n \in Kept(f)
      BY <1>1, <1>2, Zenon DEF HeldInv
    <3> QED BY <1>16, <1>17, <2>1, <3>1
  <2>6. \A f \in Entries' : \A j, l \in DOMAIN f.nodes : f.nodes[j] = f.nodes[l] => j = l
    <3>1. \A j, l \in DOMAIN o.nodes : o.nodes[j] = o.nodes[l] => j = l
      BY <1>2, <1>9, Zenon DEF HeldInv
    <3>2. \A j \in DOMAIN o.nodes : o.nodes[j] # cur
      BY <1>9, <2>3 DEF Kept, Range
    <3>3. PICK n \in Nat : n = Len(o.nodes)
      BY <1>12
    <3>4. DOMAIN o.nodes = 1 .. n /\ DOMAIN e.nodes = 1 .. n + 1
      BY <1>12, <1>13, <3>3
    <3>5. e.nodes[n + 1] = cur /\ \A j \in 1 .. n : e.nodes[j] = o.nodes[j]
      BY <1>12, <1>13, <3>3
    <3>6. \A j, l \in DOMAIN e.nodes : e.nodes[j] = e.nodes[l] => j = l
      BY <3>1, <3>2, <3>4, <3>5
    <3> QED BY <1>2, <1>17, <3>6, Zenon DEF HeldInv
  <2>7. \A f, g \in Entries : \A n : f.used /\ g.used /\ n \in Kept(f) /\ n \in Kept(g) => f.id = g.id
    BY <1>2, Zenon DEF HeldInv
  <2>8. \A f \in Entries : \A n : f.used /\ n \in Kept(f) /\ n \in Kept(e) => f.id = o.id
    BY <1>8, <1>9, <2>1, <2>3, <2>7
  <2>9. \A f, g \in Entries' : \A n : f.used /\ g.used /\ n \in Kept(f) /\ n \in Kept(g) => f.id = g.id
    BY <1>13, <1>17, <2>7, <2>8, Zenon
  <2> QED BY <1>1, <2>4, <2>5, <2>6, <2>9, Zenon DEF HeldInv, Kept
<1> QED BY <1>16, <1>18, <1>19, <1>21, <1>22, <1>23 DEF IInv

\* Communication c, until now free, is recorded in entry e, which was o.
Records(kind, c, o, e) ==
  /\ e.reqs = Append(o.reqs, IF kind = "inout" THEN 0 ELSE c)
  /\ e.gmove = IF kind = "collective" THEN o.gmove ELSE c
  /\ e.mode = IF kind = "inout" THEN "inout" ELSE o.mode
  /\ kind # "collective" => o.gmove = 0
  /\ kind = "inout" => o.reqs = << >>
  /\ o.mode = "normal"

\* The entry accounts for what it did and for c.
LEMMA RecordsIs ==
  ASSUME NEW kind \in Kinds, NEW c \in Comms, NEW o \in EntryType, NEW e, Records(kind, c, o, e)
  PROVE  /\ Recorded(e) = Recorded(o) \cup {c}
         /\ kind # "inout" => Range(e.reqs) = Range(o.reqs) \cup {c}
<1>1. o.reqs \in Seq(Comms \cup {0}) /\ c # 0 /\ c \in Comms \cup {0}
  BY SizeAssumption DEF EntryType, Comms
<1>2. CASE kind = "inout"
  <2>1. Range(e.reqs) = Range(o.reqs) \cup {0} /\ Range(o.reqs) = {}
    <3>1. Range(Append(o.reqs, 0)) = Range(o.reqs) \cup {0}
      BY <1>1, AppendSet
    <3>2. Range(<< >>) = {}
      BY DEF Range
    <3> QED BY <1>2, <3>1, <3>2 DEF Records
  <2>2. e.gmove = c /\ o.gmove = 0
    BY <1>2 DEF Records
  <2> QED BY <1>1, <1>2, <2>1, <2>2 DEF Recorded
<1>3. CASE kind # "inout"
  <2>1. Range(e.reqs) = Range(o.reqs) \cup {c}
    <3>1. Range(Append(o.reqs, c)) = Range(o.reqs) \cup {c}
      BY <1>1, AppendSet
    <3> QED BY <1>3, <3>1 DEF Records
  <2>2. (e.gmove = c /\ o.gmove = 0) \/ e.gmove = o.gmove
    BY DEF Records
  <2> QED BY <1>1, <2>1, <2>2 DEF Recorded
<1> QED BY <1>2, <1>3

\* It goes on accounting for all that its id has issued.
LEMMA RecordsOK ==
  ASSUME NEW kind \in Kinds, NEW c \in Comms, NEW o \in EntryType, NEW e, Records(kind, c, o, e),
         EntryOK(o), o.used, e.id = o.id,
         issued'[o.id] = issued[o.id] \cup {c},
         comm'[c] = (IF kind = "gmove" THEN "moving" ELSE "pending"),
         \A d \in Recorded(o) : d # c /\ comm'[d] = comm[d]
  PROVE  EntryOK(e)'
<1>1. /\ Recorded(e) = Recorded(o) \cup {c}
      /\ kind # "inout" => Range(e.reqs) = Range(o.reqs) \cup {c}
  BY RecordsIs
<1>2. Recorded(e)' = Recorded(e) /\ Range(e.reqs)' = Range(e.reqs)
  BY DEF Recorded
<1>3. issued'[e.id] = Recorded(e)
  BY <1>1 DEF EntryOK
<1>4. o.mode = "normal"
  BY DEF Records
<1>5. /\ Recorded(o) = Range(o.reqs)
      /\ \A d \in Recorded(o) : comm[d] \in {"moving", "packed"} => d = o.gmove
  BY <1>4, Zenon DEF EntryOK
<1>6. ASSUME e.mode = "normal"
      PROVE  /\ Recorded(e) = Range(e.reqs)
             /\ \A d \in Recorded(e) : comm'[d] \in {"moving", "packed"} => d = e.gmove
  <2>1. kind # "inout"
    BY <1>6 DEF Records
  <2>2. Recorded(e) = Range(e.reqs)
    BY <1>1, <1>5, <2>1, Zenon
  <2>3. comm'[c] \in {"moving", "packed"} => c = e.gmove
    BY DEF Records, Kinds
  <2>4. ASSUME NEW d \in Recorded(o), comm'[d] \in {"moving", "packed"} PROVE d = e.gmove
    <3>1. d = o.gmove /\ d # 0
      BY <1>5, <2>4 DEF Recorded
    <3> QED BY <3>1 DEF Records
  <2> QED BY <1>1, <2>2, <2>3, <2>4
<1>7. ASSUME e.mode = "inout"
      PROVE  Recorded(e) = {e.gmove} /\ comm'[e.gmove] \in {"pending", "done"}
  <2>1. kind = "inout" /\ e.gmove = c /\ o.reqs = << >>
    BY <1>4, <1>7 DEF Records
  <2>2. Recorded(o) = {}
    BY <1>5, <2>1 DEF Range
  <2> QED BY <1>1, <2>1, <2>2
<1> QED BY <1>2, <1>3, <1>6, <1>7, Zenon DEF EntryOK

\* The async branch of a communication
LEMMA IssueStep == ASSUME IInv, NEW kind \in Kinds, Issue(kind) PROVE IInv'
<1>1. PICK c \in Comms :
        /\ comm[c] = "free"
        /\ comm' = [comm EXCEPT ![c] = IF kind = "gmove" THEN "moving" ELSE "pending"]
        /\ issued' = [issued EXCEPT ![Current.id] = @ \cup {c}]
        /\ tab' = [tab EXCEPT ![tmp[1]][tmp[2]] = WithComm(@, kind, c)]
  BY Zenon DEF Issue
<1>2. /\ pc \in {"open", "task"} /\ pc' = (IF pc = "task" THEN "finalize" ELSE "start")
      /\ tmp' = tmp /\ is_async' = is_async /\ waiting' = waiting /\ nodes' = nodes /\ cur' = cur
      /\ Separate(kind)
  BY DEF Issue, AfterComm
<1>3. TabInv /\ IssuedInv /\ HeldInv /\ TypeInv /\ TmpInv
  BY DEF IInv
<1>4. Inside /\ Inside'
  BY <1>2 DEF Inside
<1>5. PICK s \in Slots : \E k \in 1 .. Len(tab[s]) : tmp = <<s, k>> /\ tab[s][k].used
  BY <1>3, <1>4, Zenon DEF TmpInv
<1>6. PICK k \in 1 .. Len(tab[s]) : tmp = <<s, k>> /\ tab[s][k].used
  BY <1>5
<1>7. PICK o : o = tab[s][k]
  OBVIOUS
<1>8. Current = o
  BY <1>6, <1>7 DEF Current
<1>9. ChainOK(s, tab[s]) /\ tab \in [Slots -> Seq(EntryType)]
  BY <1>3 DEF TabInv
<1>10. o \in EntryType /\ o.used /\ o.id \in Ids /\ Slot(o.id) = s
  BY <1>6, <1>7, <1>9 DEF ChainOK
<1>11. o \in Entries
  BY <1>3, <1>7, EntriesAre, Zenon DEF Stands
<1>12. PICK e : e = WithComm(o, kind, c)
  OBVIOUS
<1>13. o.reqs \in Seq(Comms \cup {0}) /\ o.gmove \in Comms \cup {0} /\ o.mode \in {"normal", "inout"}
  BY <1>10 DEF EntryType
<1>14. Append(o.reqs, IF kind = "inout" THEN 0 ELSE c) \in Seq(Comms \cup {0})
  BY <1>13
<1>15. e \in EntryType /\ e.used /\ e.id = o.id /\ e.nodes = o.nodes
  BY <1>10, <1>12, <1>13, <1>14, Zenon DEF EntryType, WithComm
<1>16. Records(kind, c, o, e)
  <2>1. /\ e.reqs = Append(o.reqs, IF kind = "inout" THEN 0 ELSE c)
        /\ e.gmove = IF kind = "collective" THEN o.gmove ELSE c
        /\ e.mode = IF kind = "inout" THEN "inout" ELSE o.mode
    BY <1>10, <1>12 DEF EntryType, WithComm
  <2>2. /\ kind # "collective" => o.gmove = 0
        /\ kind = "inout" => o.reqs = << >>
        /\ o.mode = "normal"
    BY <1>2, <1>8 DEF Separate
  <2> QED BY <2>1, <2>2, Zenon DEF Records
<1>17. tab' = [tab EXCEPT ![s] = [tab[s] EXCEPT ![k] = e]]
  BY <1>1, <1>6, <1>7, <1>9, <1>12
<1>18. UsedIn(s, e) /\ e.id = tab[s][k].id
  BY <1>7, <1>10, <1>15 DEF UsedIn
<1>19. /\ TabInv' /\ Len(tab'[s]) = Len(tab[s]) /\ tab'[s][k] = e /\ e \in Entries'
       /\ \A f \in Entries' : f = e \/ (f \in Entries /\ (f.used => f.id # e.id))
       /\ \A f \in Entries : f = tab[s][k] \/ f \in Entries'
  BY <1>3, <1>17, <1>18, PutEntries, Zenon
<1>20. /\ \A f \in Entries' : f = e \/ (f \in Entries /\ (f.used => f.id # o.id))
       /\ \A f \in Entries : f = o \/ f \in Entries'
  BY <1>7, <1>15, <1>19
<1>21. /\ comm \in [Comms -> CommStates] /\ issued \in [Ids -> SUBSET Comms]
       /\ comm'[c] = (IF kind = "gmove" THEN "moving" ELSE "pending")
       /\ \A d \in Comms : d # c => comm'[d] = comm[d]
       /\ issued'[o.id] = issued[o.id] \cup {c}
       /\ \A i \in Ids : i # o.id => issued'[i] = issued[i]
  BY <1>1, <1>3, <1>8, <1>10 DEF TypeInv
<1>22. \A i \in Ids : c \notin issued[i]
  BY <1>1, <1>3, Zenon DEF IssuedInv
<1>23. TypeInv'
  <2>1. comm' \in [Comms -> CommStates]
    BY <1>1, <1>21 DEF CommStates
  <2>2. issued' \in [Ids -> SUBSET Comms]
    BY <1>1, <1>8, <1>21, Zenon
  <2> QED BY <1>2, <1>3, <1>4, <2>1, <2>2 DEF TypeInv, Labels
<1>24. TmpInv'
  <2>1. k \in 1 .. Len(tab'[s]) /\ tab'[s][k].used /\ tmp' = <<s, k>>
    BY <1>2, <1>6, <1>15, <1>19
  <2> QED BY <1>4, <2>1, Zenon DEF TmpInv
<1>25. IssuedInv'
  <2>0. ASSUME NEW f \in Entries, f.used
        PROVE  /\ f \in EntryType /\ f.id \in Ids /\ EntryOK(f) /\ issued[f.id] = Recorded(f)
               /\ \A d \in Recorded(f) : d \in Comms /\ d # c /\ comm'[d] = comm[d]
    <3>1. f \in EntryType /\ f.id \in Ids /\ EntryOK(f)
      BY <1>3, <2>0, EntryIs, Zenon DEF IssuedInv
    <3>2. issued[f.id] = Recorded(f) /\ Recorded(f) \subseteq Comms
      BY <2>0, <3>1, RecordedIs, Zenon DEF EntryOK
    <3>3. \A d \in Recorded(f) : d \in Comms /\ d # c
      BY <1>22, <3>1, <3>2
    <3> QED BY <1>21, <3>1, <3>2, <3>3, Zenon
  <2>1. ASSUME NEW f \in Entries' PROVE EntryOK(f)'
    <3>1. CASE f = e
      <4>1. EntryOK(o) /\ \A d \in Recorded(o) : d # c /\ comm'[d] = comm[d]
        BY <1>10, <1>11, <2>0, ZenonT(40)
      <4>2. EntryOK(e)'
        BY <1>10, <1>15, <1>16, <1>21, <4>1, RecordsOK
      <4> QED BY <3>1, <4>2, Zenon
    <3>2. CASE f \in Entries /\ f.used /\ f.id # o.id
      <4>1. f.id \in Ids /\ EntryOK(f) /\ \A d \in Recorded(f) : comm'[d] = comm[d]
        BY <2>0, <3>2, Zenon
      <4>2. issued'[f.id] = issued[f.id]
        BY <1>21, <3>2, <4>1, Zenon
      <4>3. \A d \in Recorded(f) : Onward(d)
        BY <4>1 DEF Onward
      <4> QED BY <4>1, <4>2, <4>3, EntryKept, Zenon
    <3>3. CASE f \in Entries /\ ~f.used
      BY <1>3, <3>3, EntryIs, EmptyOK, Zenon
    <3> QED BY <1>20, <3>1, <3>2, <3>3, Zenon
  <2>2. \A i \in Ids : issued'[i] # {} => \E f \in Entries' : f.used /\ f.id = i
    <3> SUFFICES ASSUME NEW i \in Ids, issued'[i] # {} PROVE \E f \in Entries' : f.used /\ f.id = i
      OBVIOUS
    <3>1. CASE i = o.id
      BY <1>15, <1>19, <3>1
    <3>2. CASE i # o.id
      <4>1. PICK f \in Entries : f.used /\ f.id = i
        BY <1>3, <1>21, <3>2, Zenon DEF IssuedInv
      <4> QED BY <1>20, <3>2, <4>1, Zenon
    <3> QED BY <3>1, <3>2
  <2>3. \A i \in Ids : \A d \in issued'[i] : d \in issued[i] \/ (d = c /\ i = o.id)
    BY <1>21
  <2>4. \A a, b \in Ids : \A d : d \in issued'[a] /\ d \in issued'[b] => a = b
    <3>1. \A a, b \in Ids : \A d : d \in issued[a] /\ d \in issued[b] => a = b
      BY <1>3, Zenon DEF IssuedInv
    <3> QED BY <1>22, <2>3, <3>1
  <2>5. \A i \in Ids : \A d \in issued'[i] : comm'[d] # "free"
    <3> SUFFICES ASSUME NEW i \in Ids, NEW d \in issued'[i] PROVE comm'[d] # "free"
      OBVIOUS
    <3>1. CASE d = c
      BY <1>21, <3>1
    <3>2. CASE d # c
      <4>1. d \in issued[i] /\ d \in Comms
        BY <1>21, <2>3, <3>2
      <4>2. comm'[d] = comm[d] /\ comm[d] # "free"
        BY <1>3, <1>21, <3>2, <4>1, Zenon DEF IssuedInv
      <4> QED BY <4>2
    <3> QED BY <3>1, <3>2
  <2> QED BY <2>1, <2>2, <2>4, <2>5, Zenon DEF IssuedInv
<1>26. WaitInv'
  BY <1>2 DEF WaitInv
<1>27. HeldInv'
  <2>1. Kept(e) = Kept(o)
    BY <1>15 DEF Kept
  <2>2. \A f \in Entries' : \A n \in Kept(f) : n \in nodes' /\ n # cur'
    BY <1>2, <1>3, <1>11, <1>20, <2>1 DEF HeldInv
  <2>3. \A n \in nodes' : n = cur' \/ \E f \in Entries' : n \in Kept(f)
    <3> SUFFICES ASSUME NEW n \in nodes' PROVE n = cur' \/ \E f \in Entries' : n \in Kept(f)
      OBVIOUS
    <3>1. n = cur' \/ \E f \in Entries : n \in Kept(f)
      BY <1>2, <1>3, Zenon DEF HeldInv
    <3> QED BY <1>19, <1>20, <2>1, <3>1
  <2>4. \A f \in Entries' : \A j, l \in DOMAIN f.nodes : f.nodes[j] = f.nodes[l] => j = l
    <3>1. \A j, l \in DOMAIN o.nodes : o.nodes[j] = o.nodes[l] => j = l
      BY <1>3, <1>11, Zenon DEF HeldInv
    <3>2. \A j, l \in DOMAIN e.nodes : e.nodes[j] = e.nodes[l] => j = l
      BY <1>15, <3>1
    <3> QED BY <1>3, <1>20, <3>2, Zenon DEF HeldInv
  <2>5. \A f, g \in Entries : \A n : f.used /\ g.used /\ n \in Kept(f) /\ n \in Kept(g) => f.id = g.id
    BY <1>3, Zenon DEF HeldInv
  <2>6. \A f, g \in Entries' : \A n : f.used /\ g.used /\ n \in Kept(f) /\ n \in Kept(g) => f.id = g.id
    BY <1>10, <1>11, <1>15, <1>20, <2>1, <2>5
  <2>7. cur' # 0 => cur' \in nodes'
    BY <1>2, <1>3 DEF HeldInv
  <2> QED BY <2>2, <2>3, <2>4, <2>6, <2>7, Zenon DEF HeldInv, Kept
<1> QED BY <1>19, <1>23, <1>24, <1>25, <1>26, <1>27 DEF IInv

----------------------------------------------------------------------------
(* The inductive invariant holds.                                           *)

\* The table _XMP_initialize_async_comm_tab sets up
LEMMA InitIInv == Init => IInv
<1> SUFFICES ASSUME Init PROVE IInv
  OBVIOUS
<1>1. PICK e : e = Entry(0, FALSE)
  BY Zenon
<1>2. /\ tab = [h \in Slots |-> <<e>>] /\ tmp = << >> /\ is_async = FALSE /\ pc = "idle"
      /\ comm = [c \in Comms |-> "free"] /\ nodes = {} /\ cur = 0 /\ issued = [id \in Ids |-> {}]
  BY <1>1 DEF Init, Slots
<1>3. e \in EntryType /\ ~e.used /\ Empty(e)
  BY <1>1 DEF Entry, EntryType, Empty
<1>4. TabInv
  <2>1. <<e>> \in Seq(EntryType) /\ Len(<<e>>) = 1 /\ <<e>>[1] = e
    BY <1>3
  <2>2. \A i \in 1 .. Len(<<e>>) : i = 1
    BY <2>1
  <2>3. \A h \in Slots : ChainOK(h, <<e>>)
    BY <1>3, <2>1, <2>2 DEF ChainOK
  <2> QED BY <1>2, <2>1, <2>3 DEF TabInv
<1>5. \A f \in Entries : f = e
  <2>1. \A h \in Slots : tab[h] = <<e>>
    BY <1>2
  <2>2. \A f : Stands(f, tab) => f = e
    BY <2>1 DEF Stands
  <2> QED BY <1>4, <2>2, EntriesAre, Zenon
<1>6. Recorded(e) = {} /\ Range(e.reqs) = {} /\ Kept(e) = {} /\ e.nodes = << >> /\ e.mode = "normal"
  BY <1>3, RecordedIs DEF Empty
<1>7. ~Inside
  BY <1>2 DEF Inside
<1>8. TypeInv
  BY <1>2, <1>7, Zenon DEF TypeInv, Labels, CommStates
<1>9. TmpInv
  BY <1>2, <1>7 DEF TmpInv
<1>10. IssuedInv
  <2>1. \A id \in Ids : issued[id] = {}
    BY <1>2
  <2>2. EntryOK(e)
    BY <1>3, <1>6 DEF EntryOK
  <2> QED BY <1>5, <2>1, <2>2, Zenon DEF IssuedInv
<1>11. WaitInv
  BY <1>2 DEF WaitInv
<1>12. HeldInv
  <2>1. DOMAIN e.nodes = {}
    BY <1>6
  <2> QED BY <1>2, <1>5, <1>6, <2>1 DEF HeldInv
<1> QED BY <1>4, <1>8, <1>9, <1>10, <1>11, <1>12 DEF IInv

\* A step of anything else
LEMMA StutterIInv == ASSUME IInv, vars' = vars PROVE IInv'
<1>1. /\ tab' = tab /\ tmp' = tmp /\ is_async' = is_async /\ pc' = pc /\ waiting' = waiting
      /\ comm' = comm /\ nodes' = nodes /\ cur' = cur /\ issued' = issued
  BY DEF vars
<1>2. Inside' <=> Inside
  BY <1>1 DEF Inside
<1>3. TypeInv'
  BY <1>1, <1>2 DEF IInv, TypeInv
<1>4. TmpInv'
  BY <1>1, <1>2, Zenon DEF IInv, TmpInv
<1>5. WaitInv'
  BY <1>1 DEF IInv, WaitInv
<1> QED BY <1>1, <1>3, <1>4, <1>5, LabelStep

\* Every step of the program, of wait_async and of MPI
LEMMA NextIInv == ASSUME IInv, [Next]_vars PROVE IInv'
<1>1. CASE Directive
  BY <1>1, ExecTaskStep, NotMemberStep, FinalizeTaskStep, StartAsyncStep, IssueStep, Zenon
     DEF Directive
<1>2. CASE \E id \in Ids : InitAsync(id) \/ BeginWait(id) \/ TestAsync(id)
  BY <1>2, InitAsyncStep, BeginWaitStep, TestAsyncStep, Zenon
<1>3. CASE WaitAsync \/ EndAsync
  BY <1>3, WaitAsyncStep, EndAsyncStep, Zenon
<1>4. CASE \E c \in Comms : Complete(c)
  BY <1>4, CompleteStep, Zenon
<1>5. CASE UNCHANGED vars
  BY <1>5, StutterIInv, Zenon
<1> QED BY <1>1, <1>2, <1>3, <1>4, <1>5, Zenon DEF Next

\* In every execution the table is in order.
LEMMA Invariance == Spec => []IInv
BY InitIInv, NextIInv, PTL DEF Spec

----------------------------------------------------------------------------
(* What the invariant says of the system.                                   *)

\* An entry keeps its type, and _xmp_is_async and _tmp_async are set exactly between
\* xmpc_init_async and xmpc_start_async, for every number of ids, slots and requests.
THEOREM TypeCorrect == Spec => []TypeOK
<1>1. IInv => TypeOK
  <2> SUFFICES ASSUME IInv PROVE TypeOK
    OBVIOUS
  <2>1. \A e \in Entries : e.used \in BOOLEAN /\ e.gmove \in Comms \cup {0}
    <3>1. \A e \in EntryType : e.used \in BOOLEAN /\ e.gmove \in Comms \cup {0}
      BY DEF EntryType
    <3> QED BY <3>1, EntryIs, Zenon DEF IInv
  <2>2. tmp # << >> <=> Inside
    <3>1. \A h, i : <<h, i>> # << >>
      OBVIOUS
    <3> QED BY <3>1, Zenon DEF IInv, TmpInv
  <2>3. is_async <=> Inside
    BY DEF IInv, TypeInv
  <2>4. tmp # << >> <=> is_async
    BY <2>2, <2>3
  <2> QED BY <2>1, <2>3, <2>4 DEF IInv, TypeInv, TypeOK, Labels, Inside
<1> QED BY Invariance, <1>1, PTL

\* _XMP_get_async finds for each id exactly the communications started under it, in
\* whatever order ids that share a slot of the table come and go, and nothing hangs
\* behind a slot out of use.
THEOREM LookupCorrect == Spec => []LookupFindsWork
<1>1. IInv => LookupFindsWork
  <2> SUFFICES ASSUME IInv PROVE LookupFindsWork
    OBVIOUS
  <2>1. ASSUME NEW id \in Ids PROVE issued[id] = UNION {Recorded(e) : e \in Range(Get(id))}
    <3>1. CASE Get(id) = << >>
      <4>1. issued[id] = {}
        BY <3>1, NotFoundIs, Zenon
      <4>2. Range(Get(id)) = {}
        BY <3>1 DEF Range
      <4> QED BY <4>1, <4>2
    <3>2. CASE Get(id) # << >>
      <4>1. PICK e : Get(id) = <<e>>
        BY <3>2, GetIs, Zenon DEF IInv
      <4>2. Range(Get(id)) = {e}
        BY <4>1 DEF Range
      <4>3. issued[id] = Recorded(e)
        BY <4>2, FoundIs
      <4> QED BY <4>2, <4>3
    <3> QED BY <3>1, <3>2
  <2>2. \A h \in DOMAIN tab : ~tab[h][1].used => Len(tab[h]) = 1
    BY DEF IInv, TabInv, ChainOK
  <2> QED BY <2>1, <2>2 DEF LookupFindsWork
<1> QED BY Invariance, <1>1, PTL

\* A node set created for an on clause is either the current one or in the list of
\* exactly one entry, once: xmpc_end_async finalizes it exactly once.
THEOREM NodeSetsHeldOnce == Spec => []NodeSetsHeld
<1>1. IInv => NodeSetsHeld
  <2> SUFFICES ASSUME IInv PROVE NodeSetsHeld
    OBVIOUS
  <2>1. TabInv /\ HeldInv /\ tab \in [Slots -> Seq(EntryType)] /\ 0 \notin nodes
    BY SizeAssumption DEF IInv, TabInv, TypeInv, NodeSets
  <2>2. nodes = (UNION {Range(e.nodes) : e \in Entries}) \cup ({cur} \ {0})
    <3>1. \A n \in nodes : n # 0 /\ (n = cur \/ \E e \in Entries : n \in Range(e.nodes))
      BY <2>1, Zenon DEF HeldInv, Kept
    <3>2. (cur # 0 => cur \in nodes) /\ \A e \in Entries : \A n \in Range(e.nodes) : n \in nodes
      BY <2>1, Zenon DEF HeldInv, Kept
    <3> DEFINE U == UNION {Range(e.nodes) : e \in Entries}
    <3>3. \A n : n \in U <=> \E e \in Entries : n \in Range(e.nodes)
      BY Zenon
    <3> HIDE DEF U
    <3>4. nodes = U \cup ({cur} \ {0})
      BY <3>1, <3>2, <3>3
    <3> QED BY <3>4 DEF U
  <2>3. \A e \in Entries : cur \notin Range(e.nodes)
    BY <2>1, Zenon DEF HeldInv, Kept
  <2>4. ASSUME NEW h \in DOMAIN tab, NEW g \in DOMAIN tab,
               NEW i \in DOMAIN tab[h], NEW k \in DOMAIN tab[g],
               NEW j \in DOMAIN tab[h][i].nodes, NEW l \in DOMAIN tab[g][k].nodes,
               tab[h][i].nodes[j] = tab[g][k].nodes[l]
        PROVE  <<h, i, j>> = <<g, k, l>>
    <3>1. h \in Slots /\ g \in Slots /\ i \in 1 .. Len(tab[h]) /\ k \in 1 .. Len(tab[g])
      BY <2>1
    <3>2. PICK e : e = tab[h][i]
      OBVIOUS
    <3>3. PICK f : f = tab[g][k]
      OBVIOUS
    <3>4. e \in Entries /\ f \in Entries
      BY <2>1, <3>1, <3>2, <3>3, EntriesAre, Zenon DEF Stands
    <3>5. PICK n : n = e.nodes[j]
      OBVIOUS
    <3>6. n \in Kept(e) /\ n \in Kept(f)
      BY <2>4, <3>2, <3>3, <3>5 DEF Kept, Range
    <3>7. e.used /\ f.used
      BY <2>1, <3>4, <3>6, EntryIs, RecordedIs
    <3>8. e.id = f.id
      BY <2>1, <3>4, <3>6, <3>7, Zenon DEF HeldInv
    <3>9. tab[h][i].used /\ tab[g][k].used /\ tab[h][i].id = tab[g][k].id
      BY <3>2, <3>3, <3>7, <3>8
    <3>10. h = g /\ i = k
      BY <2>1, <3>1, <3>9, OnePlace, Zenon
    <3>11. e = f /\ j \in DOMAIN e.nodes /\ l \in DOMAIN e.nodes /\ e.nodes[j] = e.nodes[l]
      BY <2>4, <3>2, <3>3, <3>10
    <3>12. j = l
      BY <2>1, <3>4, <3>11, Zenon DEF HeldInv
    <3> QED BY <3>10, <3>12
  <2> QED BY <2>2, <2>3, <2>4, Zenon DEF NodeSetsHeld
<1> QED BY Invariance, <1>1, PTL

\* wait_async and xmp_test_async never drop a communication that is in flight or
\* whose data is still in the receive buffer.
THEOREM NothingDropped == Spec => DroppedOnlyWhenDone
<1> DEFINE Kind(id) == \A c \in issued[id] : c \notin issued'[id] => comm[c] = "done"
<1>1. ASSUME IInv, [Next]_vars, NEW id \in Ids PROVE Kind(id)
  <2>1. CASE EndAsync
    <3>1. pc = "end" /\ issued' = [issued EXCEPT ![waiting] = {}]
      BY <2>1 DEF EndAsync
    <3>2. issued \in [Ids -> SUBSET Comms] /\ \A c \in issued[waiting] : comm[c] = "done"
      BY <1>1, <3>1 DEF IInv, TypeInv, WaitInv
    <3> QED BY <3>1, <3>2
  <2>2. CASE \E kind \in Kinds : Issue(kind)
    <3>1. PICK c \in Comms : issued' = [issued EXCEPT ![Current.id] = issued[Current.id] \cup {c}]
      BY <2>2, Zenon DEF Issue
    <3>2. issued \in [Ids -> SUBSET Comms]
      BY <1>1 DEF IInv, TypeInv
    <3> QED BY <3>1, <3>2
  <2>3. CASE issued' = issued
    BY <2>3
  <2>4. EndAsync \/ (\E kind \in Kinds : Issue(kind)) \/ issued' = issued
    <3>1. CASE ExecTask \/ NotMember \/ FinalizeTask \/ StartAsync
      BY <3>1 DEF ExecTask, NotMember, FinalizeTask, FinalizeTaskWith, StartAsync
    <3>2. ASSUME NEW i \in Ids, InitAsync(i) \/ BeginWait(i) \/ TestAsync(i) PROVE issued' = issued
      BY <3>2, Zenon DEF InitAsync, BeginWait, TestAsync
    <3>3. CASE WaitAsync
      BY <3>3 DEF WaitAsync, WaitFor
    <3>4. ASSUME NEW c \in Comms, Complete(c) PROVE issued' = issued
      BY <3>4 DEF Complete
    <3>5. CASE UNCHANGED vars
      BY <3>5 DEF vars
    <3> QED BY <1>1, <3>1, <3>2, <3>3, <3>4, <3>5, Zenon DEF Next, Directive
  <2> QED BY <2>1, <2>2, <2>3, <2>4
<1>2. IInv /\ [Next]_vars =>
        [\A id \in Ids : \A c \in issued[id] : c \notin issued'[id] => comm[c] = "done"]_vars
  BY <1>1
<1> QED BY Invariance, <1>2, PTL DEF Spec, DroppedOnlyWhenDone
=============================================================================
