---------------------------- MODULE XmpfCoarray ----------------------------
(***************************************************************************)
(* Memory of the coarrays of one Fortran image: the static pool and the    *)
(* ALLOCATE / DEALLOCATE run time of libxmpf (xmpf_coarray_alloc.c) on top *)
(* of the stack allocator of libxmp (xmp_coarray.c and its MPI and GASNet  *)
(* transports).  The lower layer can only give back what it handed out     *)
(* last, so libxmpf marks a freed chunk as garbage and returns it when     *)
(* everything allocated after it is garbage too; a table sorted by address *)
(* finds the chunk of a dummy argument.  A chunk is identified by its      *)
(* address.  The resource set a chunk belongs to and the descriptor that a *)
(* statement passes are chosen by the translator (XMPtransCoarrayRun).     *)
(* The registered-memory variants (regmem) are left out, and so is an      *)
(* ALLOCATE of a dummy argument, which STATUS-CAF.md:70-71 forbids: its    *)
(* chunk would be in the set of the callee and be freed at the callee's    *)
(* exit.                                                                   *)
(***************************************************************************)
EXTENDS Integers, Sequences, FiniteSetsExt

CONSTANTS
    Saved,         \* allocatable coarrays of modules
    Local,         \* allocatable coarrays declared in a procedure
    MaxDepth,      \* bound on nested procedure calls
    Sizes,         \* sizes in bytes an ALLOCATE may ask for, below 4 GiB
    StaticSizes,   \* sizes in bytes of static coarrays
    MaxStatics,    \* bound on the number of static coarrays
    SystemSize,    \* rounded size of local buffer and control data
    Unit,          \* MALLOC_UNIT
    Alignment,     \* _XMP_GASNET_ALIGNMENT, _XMP_MPI_ALIGNMENT
    Threshold,     \* _XMPF_poolThreshold
    TableInitSize, \* _SortedChunkTableInitSize
    HeapSize       \* size of the one-sided heap

ASSUME SizeAssumption ==
    /\ Sizes \subseteq Nat /\ StaticSizes \subseteq Nat
    /\ {Unit, Alignment} \subseteq Nat \ {0}
    /\ {Threshold, HeapSize, MaxDepth, MaxStatics, SystemSize} \subseteq Nat
    /\ TableInitSize \in Nat /\ TableInitSize >= 2

\* The names of the descriptors below are no names of coarrays.
ASSUME NameAssumption == {"static", "dummy", "left"} \cap Saved = {}

VARIABLES
    phase,   \* "count", "static" or "run"
    statics, \* sizes of the static coarrays, in the order of the traversals
    done,    \* how many of them the current traversal has seen
    pool,    \* pool_totalSize, pool_currentAddr and the address of pool_chunk
    mem,     \* chunks, sorted table, lower layer; see Init
    depth,   \* procedures entered and not left
    desc     \* coarray -> address of its chunk, 0 when not allocated

vars == <<phase, statics, done, pool, mem, depth, desc>>

RoundUp(n, p) == ((n + p - 1) \div p) * p

RoundUpMalloc(n) == IF n > 0 THEN RoundUp(n, Unit) ELSE Unit

Coarrays == {<<0, v>> : v \in Saved} \cup ((1 .. MaxDepth) \X Local)

\* Descriptors that are not those of an allocatable coarray.  Left is one that its
\* coarray has lost: the coarray was deallocated by way of a dummy argument.
Static == <<0, "static">>
Dummy == <<0, "dummy">>
Left == <<0, "left">>
Descriptors == Coarrays \cup {Static, Dummy, Left}

HeapStart == 1

Sentinels == << [org |-> 0, nbytes |-> 0], [org |-> HeapStart + HeapSize + 1, nbytes |-> 0] >>

StaticLists == UNION {[1 .. n -> StaticSizes] : n \in 0 .. MaxStatics}

Init ==
    /\ phase = "count"
    /\ statics \in StaticLists
    /\ done = 0
    /\ pool = [total |-> 0, current |-> 0, org |-> 0]
    /\ mem = [history  |-> << >>,          \* _mallocStack, oldest first
              table    |-> Sentinels,      \* _sortedChunkTable
              room     |-> TableInitSize,  \* _sortedChunkTableMallocSize
              coarrays |-> << >>,          \* _coarray_queue
              shifts   |-> << >>,          \* _shift_queue
              shift    |-> 0,              \* total of the shift queue
              fatal    |-> "none"]
    /\ depth = 0
    /\ desc = [c \in Coarrays |-> 0]

Fail(m, why) == [m EXCEPT !.fatal = why]

----------------------------------------------------------------------------
(* The table of chunks sorted by address.  Indices are the code's, from 0. *)

\* _searchSortedChunkTable: the last entry not above key, found if key is in its chunk.
Search(table, key) ==
    LET entry(i) == table[i + 1]
        halve[r \in (0 .. Len(table)) \X (0 .. Len(table))] ==
            LET mid == (r[1] + r[2]) \div 2
            IN IF mid <= r[1] \/ entry(mid).org = key THEN mid
               ELSE IF key < entry(mid).org THEN halve[<<r[1], mid>>]
               ELSE halve[<<mid, r[2]>>]
        idx == halve[<<0, Len(table) - 1>>]
    IN [idx   |-> idx,
        found |-> \/ idx > 0 /\ entry(idx).org = key
                  \/ key < entry(idx).org + entry(idx).nbytes]

\* The entries from position i on shifted up, and x in the gap.
Shifted(q, i, x) ==
    [k \in 1 .. Len(q) + 1 |-> IF k < i THEN q[k] ELSE IF k = i THEN x ELSE q[k - 1]]

\* Position i overwritten by the entries after it.
Overwritten(q, i) == [k \in 1 .. Len(q) - 1 |-> IF k < i THEN q[k] ELSE q[k + 1]]

Book(m, chunk, room) ==
    LET s == Search(m.table, chunk.org)
    IN IF s.found THEN Fail(m, "booked")
       ELSE [m EXCEPT !.room = room,
                      !.table = Shifted(@, s.idx + 2, [org |-> chunk.org, nbytes |-> chunk.nbytes])]

AddInTable(m, chunk) ==
    Book(m, chunk, IF Len(m.table) = m.room THEN 2 * m.room ELSE m.room)

DelInTable(m, org) ==
    LET s == Search(m.table, org)
        room == IF Len(m.table) * 4 <= m.room /\ m.room > TableInitSize
                THEN m.room \div 2 ELSE m.room
    IN IF ~s.found THEN Fail(m, "unbooked")
       ELSE [m EXCEPT !.room = room, !.table = Overwritten(@, s.idx + 1)]

----------------------------------------------------------------------------
(* Chunks *)

\* _XMP_gasnet_coarray_malloc: the lower layer takes the next bytes of the heap.
CoarrayMalloc(m, nbytes) ==
    LET step == RoundUp(nbytes, Alignment)
    IN IF m.shift + step > HeapSize THEN Fail(m, "heap")
       ELSE [m EXCEPT !.shift = @ + step,
                      !.shifts = Append(@, step),
                      !.coarrays = Append(@, HeapStart + m.shift)]

\* _constructMemoryChunk: lower layer, history, table.
Construct(m, nbytes, parent, info) ==
    LET low   == CoarrayMalloc(m, nbytes)
        chunk == [org |-> HeapStart + m.shift, nbytes |-> nbytes, isGarbage |-> FALSE,
                  parent |-> parent, infos |-> {info}]
    IN IF low.fatal # "none" THEN low
       ELSE AddInTable([low EXCEPT !.history = Append(@, chunk)], chunk)

ChunkAt(m, org) == CHOOSE i \in DOMAIN m.history : m.history[i].org = org

\* A deallocation that forgets the table.  Descriptors still linked to the chunk
\* are dropped: nothing reaches them before _freeMemoryChunk frees them with it.
UnlinkChunkBooked(m, org) ==
    LET i == ChunkAt(m, org)
    IN [m EXCEPT !.history[i] =
          [m.history[i] EXCEPT !.isGarbage = TRUE, !.parent = 0, !.infos = {}]]

\* _unlinkMemoryChunk
UnlinkChunk(m, org) == DelInTable(UnlinkChunkBooked(m, org), org)

\* _XMP_coarray_lastly_deallocate, n times: both queues lose their last entry, and
\* the total of the shift queue shrinks by the shift that is popped.
LastlyDeallocate(m, n) ==
    LET left[k \in 0 .. n] == IF k = 0 THEN m.shift
                              ELSE left[k - 1] - m.shifts[Len(m.shifts) - k + 1]
    IN [m EXCEPT !.shift = left[n],
                 !.shifts = SubSeq(@, 1, Len(@) - n),
                 !.coarrays = SubSeq(@, 1, Len(@) - n)]

\* _freeMemoryChunk for the chunks after the keep oldest ones, newest first.
ReturnAfter(m, keep) ==
    [LastlyDeallocate(m, Len(m.history) - keep) EXCEPT !.history = SubSeq(@, 1, keep)]

\* A collection that frees garbage wherever it is in the history.
CollectAnywhere(m) ==
    LET live == SelectSeq(m.history, LAMBDA c : ~c.isGarbage)
    IN [ReturnAfter(m, Len(live)) EXCEPT !.history = live]

\* _garbageCollectMallocHistory: from the newest chunk, while it is garbage.
Collect(m) ==
    ReturnAfter(m, Max({0} \cup {i \in DOMAIN m.history : ~m.history[i].isGarbage}))

----------------------------------------------------------------------------
(* Start-up: both traversals of the static coarrays, the pool in between *)

Running == mem.fatal = "none"

CountIf(small) ==
    /\ Running
    /\ phase = "count" /\ done < Len(statics)
    /\ done' = done + 1
    /\ pool' = IF small THEN [pool EXCEPT !.total = @ + RoundUpMalloc(statics[done + 1])]
               ELSE pool
    /\ UNCHANGED <<phase, statics, mem, depth, desc>>

\* A count that leaves out what is as large as the threshold.
CountSizeBelow == CountIf(RoundUpMalloc(statics[done + 1]) < Threshold)

\* xmpf_coarray_count_size_
CountSize == CountIf(RoundUpMalloc(statics[done + 1]) <= Threshold)

\* xmpf_coarray_malloc_pool_, with its shares for the local buffer and control data.
MallocPool ==
    /\ Running
    /\ phase = "count" /\ done = Len(statics)
    /\ LET total == pool.total + SystemSize
       IN /\ mem' = Construct(mem, RoundUpMalloc(total), 0, Static)
          /\ pool' = [total |-> total, current |-> HeapStart + mem.shift + SystemSize,
                      org |-> HeapStart + mem.shift]
    /\ phase' = "static" /\ done' = 0
    /\ UNCHANGED <<statics, depth, desc>>

\* xmpf_coarray_alloc_static_: a chunk of its own, or a share of the pool.
AllocStatic ==
    /\ Running
    /\ phase = "static" /\ done < Len(statics)
    /\ done' = done + 1
    /\ LET nbytes == statics[done + 1]
           share  == RoundUpMalloc(nbytes)
       IN IF nbytes > Threshold
          THEN /\ mem' = Construct(mem, nbytes, 0, Static)
               /\ UNCHANGED pool
          ELSE /\ mem' = IF pool.current + share > pool.org + pool.total
                         THEN Fail(mem, "pool") ELSE mem
               /\ pool' = [pool EXCEPT !.current = @ + share]
    /\ UNCHANGED <<phase, statics, depth, desc>>

\* Nothing reads the data of the traversals any more; it is reset to keep states few.
StartProgram ==
    /\ Running
    /\ phase = "static" /\ done = Len(statics)
    /\ phase' = "run"
    /\ statics' = << >> /\ done' = 0
    /\ pool' = [total |-> 0, current |-> 0, org |-> 0]
    /\ UNCHANGED <<mem, depth, desc>>

----------------------------------------------------------------------------
(* The program: procedure entry and exit, ALLOCATE, DEALLOCATE, dummies *)

Program ==
    /\ Running
    /\ phase = "run"
    /\ UNCHANGED <<phase, statics, done, pool>>

\* xmpf_coarray_prolog_
Prolog ==
    /\ Program
    /\ depth < MaxDepth
    /\ depth' = depth + 1
    /\ UNCHANGED <<mem, desc>>

MallocInto(parent, c, nbytes) ==
    /\ Program
    /\ c[1] <= depth /\ desc[c] = 0
    /\ mem' = Construct(mem, RoundUpMalloc(nbytes), parent, c)
    /\ desc' = [desc EXCEPT ![c] = HeapStart + mem.shift]
    /\ UNCHANGED depth

\* A translator that does not ask whose the coarray is.
MallocTagged(c, nbytes) == MallocInto(depth, c, nbytes)

\* ALLOCATE: the tag is that of the running procedure if it declares the coarray,
\* and NULL for the coarray of a module or of the procedure that contains it.
Malloc(c, nbytes) == MallocInto(IF c[1] = depth THEN depth ELSE 0, c, nbytes)

\* Descriptors of the chunk of c.
Infos(c) == mem.history[ChunkAt(mem, desc[c])].infos

\* xmpf_coarray_free_ with a descriptor of the chunk of c, which leaves it the others.
FreeInfo(c, others) ==
    /\ LET unlinked == [mem EXCEPT !.history[ChunkAt(mem, desc[c])].infos = others]
       IN mem' = IF others = {} THEN Collect(UnlinkChunk(unlinked, desc[c])) ELSE unlinked
    /\ desc' = [desc EXCEPT ![c] = 0]
    /\ UNCHANGED depth

\* DEALLOCATE of c by its name, in its own procedure or in one that sees it.
Free(c) ==
    /\ Program
    /\ c[1] <= depth /\ desc[c] # 0
    /\ FreeInfo(c, Infos(c) \ {c})

\* DEALLOCATE of a dummy argument that is c in a caller: the descriptor is the one
\* find_descptr made for the callee, and c stays linked without being allocated.
\* The chunk may have descriptors of other dummy arguments.
FreeDummy(c) ==
    /\ Program
    /\ c[1] < depth /\ desc[c] # 0 /\ Dummy \in Infos(c)
    /\ \E others \in SUBSET {Dummy} : FreeInfo(c, (Infos(c) \ {c, Dummy}) \cup others \cup {Left})

\* xmpf_coarray_find_descptr_: a dummy argument that starts at addr.
FindDescptr(addr) ==
    /\ Program
    /\ depth > 0
    /\ LET s == Search(mem.table, addr)
       IN mem' = IF s.found
                 THEN [mem EXCEPT !.history[ChunkAt(mem, mem.table[s.idx + 1].org)].infos = @ \cup {Dummy}]
                 ELSE mem
    /\ UNCHANGED <<depth, desc>>

\* Chunks of the resource set of the innermost procedure, by their place in the history.
ResourceSet == {i \in DOMAIN mem.history : mem.history[i].parent = depth}

\* _freeResourceSet: its chunks are unlinked in the order of their allocation.
UnlinkAll(m, mine) ==
    LET upto[i \in 0 .. Len(m.history)] ==
            IF i = 0 THEN m
            ELSE IF i \in mine THEN UnlinkChunk(upto[i - 1], m.history[i].org)
            ELSE upto[i - 1]
    IN upto[Len(m.history)]

EpilogFreeing(mine) ==
    /\ Program
    /\ depth > 0
    /\ depth' = depth - 1
    /\ mem' = IF mine = {} THEN mem ELSE Collect(UnlinkAll(mem, mine))
    /\ desc' = [c \in Coarrays |-> IF c[1] = depth THEN 0 ELSE desc[c]]

\* A procedure exit whose list traversal loses its place after the first chunk.
EpilogFirst == EpilogFreeing({i \in ResourceSet : \A j \in ResourceSet : i <= j})

\* xmpf_coarray_epilog_
Epilog == EpilogFreeing(ResourceSet)

Allocated == {c \in Coarrays : desc[c] # 0}

\* Addresses of coarray data the program can pass to a procedure.
DataAddresses ==
    UNION {mem.history[i].org .. (mem.history[i].org + mem.history[i].nbytes - 1) :
             i \in {j \in DOMAIN mem.history :
                      \/ Static \in mem.history[j].infos
                      \/ \E c \in Allocated : desc[c] = mem.history[j].org}}

Next ==
    \/ CountSize \/ MallocPool \/ AllocStatic \/ StartProgram
    \/ Prolog \/ Epilog
    \/ \E c \in Coarrays : Free(c) \/ FreeDummy(c) \/ \E n \in Sizes : Malloc(c, n)
    \/ \E a \in DataAddresses : FindDescptr(a)

Spec == Init /\ [][Next]_vars

----------------------------------------------------------------------------
(* Properties *)

Chunks == {mem.history[i] : i \in DOMAIN mem.history}

\* Every variable has its type.
TypeOK ==
    /\ phase \in {"count", "static", "run"}
    /\ statics \in StaticLists /\ done \in 0 .. Len(statics)
    /\ pool \in [total : Nat, current : Nat, org : Nat]
    /\ depth \in 0 .. MaxDepth
    /\ desc \in [Coarrays -> 0 .. HeapStart + HeapSize]
    /\ Chunks \subseteq [org : Nat, nbytes : Nat \ {0}, isGarbage : BOOLEAN, parent : 0 .. MaxDepth,
                        infos : SUBSET Descriptors]
    /\ mem.shift \in 0 .. HeapSize

\* The history of libxmpf and the queues of the lower layer describe the same
\* stack: what _XMP_coarray_lastly_deallocate pops is the chunk libxmpf frees,
\* and the chunks lie one after the other in the heap, so that none overlaps.
InStep ==
    LET n == Len(mem.history)
        end(i) == mem.history[i].org + mem.shifts[i]
    IN /\ Len(mem.coarrays) = n /\ Len(mem.shifts) = n
       /\ \A i \in 1 .. n : /\ mem.coarrays[i] = mem.history[i].org
                            /\ mem.history[i].nbytes <= mem.shifts[i]
                            /\ IF i < n THEN mem.history[i + 1].org = end(i)
                               ELSE HeapStart + mem.shift = end(i)

\* A coarray that is allocated keeps its memory, whichever procedure allocated it
\* and whichever returns: its chunk is in the history, is no garbage, has the
\* coarray's descriptor and no other coarray's.
AllocatedIsKept ==
    Running => \A c \in Allocated : \E k \in Chunks :
        k.org = desc[c] /\ ~k.isGarbage /\ k.infos \ {Dummy} = {c}

\* The sorted table fits the memory that is doubled and halved for it, and the
\* lookup of find_descptr answers for every address of the heap: the chunk that
\* contains it if that chunk is not garbage, nothing otherwise.
LookupIsExact ==
    /\ Len(mem.table) <= mem.room
    /\ Running => \A a \in HeapStart .. (HeapStart + HeapSize) :
         LET s == Search(mem.table, a)
             home == {k \in Chunks : ~k.isGarbage /\ a \in k.org .. (k.org + k.nbytes - 1)}
         IN /\ s.found <=> home # {}
            /\ s.found => \A k \in home : mem.table[s.idx + 1].org = k.org

\* A chunk that is not garbage is held by a static coarray, by a dummy argument or
\* by the coarray allocated in it, and one in the set of a procedure is not held
\* beyond the procedure's exit; garbage stays only below a chunk that is in use.
\* The code has two leaks, and they are the only ones: a coarray deallocated by way
\* of a dummy argument, and a coarray of a procedure that a procedure contained in
\* it allocated, whose chunk is in no set and outlives the procedure although
\* STATUS-CAF.md:65-67 promises its deallocation at the end of the scope.
HeldForAReason ==
    /\ \A k \in Chunks : ~k.isGarbage =>
         /\ \/ k.infos \cap {Static, Dummy} # {}
            \/ \E c \in k.infos \cap Allocated : desc[c] = k.org
            \/ Left \in k.infos
            \/ k.parent = 0 /\ \E c \in k.infos : c[1] > 0
         /\ k.parent <= depth
    /\ mem.history # << >> => ~mem.history[Len(mem.history)].isGarbage

\* The checks for internal errors never fire: the pool suffices for the static
\* coarrays, no chunk is entered twice in the table or removed twice from it.
NoInternalError == mem.fatal \in {"none", "heap"}
=============================================================================
