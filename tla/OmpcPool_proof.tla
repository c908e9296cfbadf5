--------------------------- MODULE OmpcPool_proof ---------------------------
(***************************************************************************)
(* The processor pool for every number of processors and every depth of    *)
(* nesting.  First the processors: the number of thread structures is      *)
(* bounded, a processor is started once per use, and no wake-up is lost.   *)
(* Then the teams: no thread structure in use is on a free list, a region  *)
(* ends when its team has left it, and the members of a team have numbers  *)
(* of their own.                                                           *)
(***************************************************************************)
EXTENDS OmpcPool, TLAPS

\* First-order steps go to Zenon; a leaf with arithmetic, records or sequences in it
\* cites SMT.
USE ZenonT(40)

Starting == {"create", "waitprocs"}
Waiting == {"spin", "mutex", "recheck", "asleep"}
Leaving == {"freethr", "freeproc", "signal"}
Forking == {"getproc", "assign", "bcast", "alloc"}
Labels == Starting \cup {"unborn", "register", "body", "join"} \cup Waiting \cup Leaving \cup Forking

Frames == [cthd : Structs, tp : Structs \cup {NULL}, in_parallel : {0, 1}]
Flags == [me : Structs, i : Procs, tp : Structs \cup {NULL}]

TypeInv ==
  /\ counter \in 1 .. N /\ created \in 1 .. N /\ last_used \in Procs
  /\ proc_lock \in Procs \cup {NULL} /\ proc_mutex \in Procs \cup {NULL}
  /\ is_used \in [Procs -> BOOLEAN]
  /\ thr \in [Procs -> Structs \cup {NULL}]
  /\ free_thr \in [Procs -> Seq(Structs)]
  /\ mallocs \in [Procs -> 0 .. MaxDepth+1]
  /\ parent \in [Structs -> Structs \cup {NULL}]
  /\ num \in [Structs -> Procs] /\ num_thds \in [Structs -> 0 .. N]
  /\ in_parallel \in [Structs -> {0, 1}]
  /\ arrived \in [Structs -> SUBSET Procs]
  /\ pc \in [Procs -> Labels]
  /\ frames \in [Procs -> Seq(Frames)]
  /\ proclist \in [Procs -> Seq(Procs)]
  /\ max_thds \in [Procs -> 1 .. N] /\ i \in [Procs -> 1 .. N]
  /\ flag \in [Procs -> Flags \cup {NULL}]

\* The structures that were allocated for p.
Own(p) == {p} \X (1 .. mallocs[p])

\* A processor's entry, its free list and the frames of its regions hold structures
\* that were allocated for it.
OwnInv(p) ==
  /\ Elements(free_thr[p]) \subseteq Own(p)
  /\ thr[p] # NULL => thr[p] \in Own(p)
  /\ \A k \in 1 .. Len(frames[p]) :
       /\ frames[p][k].cthd \in Own(p)
       /\ k > 1 \/ pc[p] \in {"body", "join"} => frames[p][k].tp \in Own(p)
  /\ pc[p] = "freethr" => flag[p].me \in Own(p)

\* The structures of p that are not on its free list: one per region that it is the
\* master of, and the one that it executes in.
InUse(p) ==
  IF pc[p] = "freethr" THEN 1
  ELSE IF thr[p] = NULL THEN 0
  ELSE IF pc[p] \in Forking \cup {"join"} THEN Len(frames[p])
  ELSE Len(frames[p]) + 1

CountInv(p) ==
  /\ mallocs[p] = Len(free_thr[p]) + InUse(p)
  /\ Len(frames[p]) <= MaxDepth

\* What the place of a processor says of its fields.
PlaceInv(p) ==
  /\ p = 0 => pc[p] \in Starting \cup Forking \cup {"body", "join"}
  /\ pc[p] \in Starting => p = 0
  /\ pc[p] \in Forking \cup {"join"} => frames[p] # <<>>
  /\ pc[p] \notin Forking \cup {"join", "body"} => frames[p] = <<>>
  /\ pc[p] \in Forking \cup {"join", "body"} => thr[p] # NULL
  /\ pc[p] \in Starting \cup {"unborn", "register", "freethr", "freeproc"} => thr[p] = NULL
  /\ pc[p] \in Leaving => flag[p] \in Flags
  /\ pc[p] = "unborn" <=> p >= counter
  /\ pc[p] = "register" => proc_lock = p
  /\ pc[p] \in {"unborn", "register"} => ~is_used[p]
  /\ ~is_used[p] => thr[p] = NULL /\ pc[p] \in Waiting \cup {"signal", "unborn", "register"}

\* Until the master has seen all processors, none of them has work.
StartInv ==
  IF pc[0] \in Starting
  THEN \A p \in Procs \ {0} : pc[p] \in Waiting \cup {"unborn", "register"} /\ thr[p] = NULL
  ELSE counter = N

\* The list of processors that a master has taken and not yet started.
ListInv(p) ==
  /\ pc[p] \notin {"getproc", "assign"} => proclist[p] = <<>>
  /\ pc[p] = "getproc" => i[p] <= max_thds[p] /\ Len(proclist[p]) = i[p] - 1
  /\ pc[p] = "assign" => Len(proclist[p]) = num_thds[Frame(p).cthd] - i[p]
  /\ \A a, b \in 1 .. Len(proclist[p]) : proclist[p][a] = proclist[p][b] => a = b

\* A sleeper with work is woken by a master that has started somebody and has still to
\* broadcast.
Wakes(p, q) ==
  /\ pc[p] = "bcast" \/ (pc[p] = "assign" /\ i[p] > 1)
  /\ Frame(p).cthd = parent[thr[q]]

WakeInv == \A q \in Procs : pc[q] = "asleep" /\ thr[q] # NULL => \E p \in Procs : Wakes(p, q)

ProcInv(p) == OwnInv(p) /\ CountInv(p) /\ PlaceInv(p) /\ ListInv(p)

IInv == TypeInv /\ (\A p \in Procs : ProcInv(p)) /\ StartInv /\ StartedOnce /\ WakeInv

----------------------------------------------------------------------------
(* Lists: the code adds and removes at the head.                            *)

\* The length of a list.
LEMMA LenIs ==
  ASSUME NEW S, NEW s \in Seq(S)
  PROVE  /\ Len(s) \in Nat /\ DOMAIN s = 1 .. Len(s) /\ Elements(s) \subseteq S
         /\ Len(s) = 0 <=> s = <<>>
         /\ Len(s) > 0 <=> s # <<>>
BY SMTT(20) DEF Elements

\* One structure more on the list, one less in use.
LEMMA PlusOne ==
  ASSUME NEW a \in Nat, NEW b \in Nat
  PROVE  a + b + 1 = a + (b + 1) /\ (a + 1) + b = a + (b + 1)
BY SMTT(20)

\* What a list is after an entry is put in front, as ompc_free_thread does.
LEMMA PushFront ==
  ASSUME NEW S, NEW s \in Seq(S), NEW x \in S
  PROVE  /\ <<x>> \o s \in Seq(S) /\ Len(<<x>> \o s) = Len(s) + 1
         /\ <<x>> \o s # <<>>
         /\ Head(<<x>> \o s) = x /\ (<<x>> \o s)[1] = x
         /\ \A k \in 1 .. Len(s) : (<<x>> \o s)[k + 1] = s[k]
         /\ Elements(<<x>> \o s) = {x} \cup Elements(s)
<1>1. PICK r : r = <<x>> \o s
  OBVIOUS
<1>2. /\ r \in Seq(S) /\ Len(r) = Len(s) + 1 /\ r # <<>> /\ Head(r) = x /\ r[1] = x
      /\ \A k \in 1 .. Len(s) : r[k + 1] = s[k]
  BY <1>1, SMTT(20)
<1>3. DOMAIN r = 1 .. Len(s) + 1 /\ DOMAIN s = 1 .. Len(s) /\ Len(s) \in Nat
  BY <1>2, SMTT(20)
<1>4. \A k \in DOMAIN r : k = 1 \/ (k - 1 \in DOMAIN s /\ r[k] = s[k - 1])
  <2> SUFFICES ASSUME NEW k \in DOMAIN r, k # 1 PROVE k - 1 \in DOMAIN s /\ r[k] = s[k - 1]
    OBVIOUS
  <2>1. k - 1 \in 1 .. Len(s) /\ (k - 1) + 1 = k
    BY <1>3, SMTT(20)
  <2> QED BY <1>2, <1>3, <2>1
<1>5. \A k \in DOMAIN s : k + 1 \in DOMAIN r /\ r[k + 1] = s[k]
  BY <1>2, <1>3, SMTT(20)
<1>6. 1 \in DOMAIN r
  BY <1>3, SMTT(20)
<1>7. Elements(r) = {x} \cup Elements(s)
  <2>1. ASSUME NEW y \in Elements(r) PROVE y \in {x} \cup Elements(s)
    <3>1. PICK k \in DOMAIN r : y = r[k]
      BY <2>1 DEF Elements
    <3> QED BY <1>2, <1>4, <3>1 DEF Elements
  <2>2. ASSUME NEW y \in Elements(s) PROVE y \in Elements(r)
    <3>1. PICK k \in DOMAIN s : y = s[k]
      BY <2>2 DEF Elements
    <3> QED BY <1>5, <3>1 DEF Elements
  <2>3. x \in Elements(r)
    BY <1>2, <1>6 DEF Elements
  <2> QED BY <2>1, <2>2, <2>3
<1> QED BY <1>1, <1>2, <1>7

\* What a list is after its head is taken, as ompc_alloc_thread does.
LEMMA TakeFront ==
  ASSUME NEW S, NEW s \in Seq(S), s # <<>>
  PROVE  /\ Tail(s) \in Seq(S) /\ Len(Tail(s)) = Len(s) - 1 /\ Len(s) > 0
         /\ Head(s) \in S /\ Head(s) = s[1] /\ Head(s) \in Elements(s)
         /\ \A k \in 1 .. Len(Tail(s)) : Tail(s)[k] = s[k + 1]
         /\ Elements(Tail(s)) \subseteq Elements(s)
BY SMTT(20) DEF Elements

----------------------------------------------------------------------------
(* What a step leaves alone.                                                *)

\* A step that touches nothing of processor p.
Same(p) ==
  /\ thr'[p] = thr[p] /\ free_thr'[p] = free_thr[p] /\ mallocs'[p] = mallocs[p]
  /\ frames'[p] = frames[p] /\ pc'[p] = pc[p] /\ flag'[p] = flag[p]
  /\ proclist'[p] = proclist[p] /\ i'[p] = i[p] /\ max_thds'[p] = max_thds[p]
  /\ is_used'[p] = is_used[p]

\* A processor keeps its invariant through the steps of others.
LEMMA SameInv ==
  ASSUME NEW p \in Procs, ProcInv(p), Same(p),
         counter' = counter, proc_lock' = proc_lock, num_thds' = num_thds
  PROVE  ProcInv(p)'
<1>1. OwnInv(p)'
  BY SMTT(20) DEF ProcInv, Same, OwnInv, Own, Elements
<1>2. CountInv(p)'
  BY DEF ProcInv, Same, CountInv, InUse
<1>3. PlaceInv(p)'
  BY DEF ProcInv, Same, PlaceInv
<1>4. ListInv(p)'
  BY DEF ProcInv, Same, ListInv, Frame
<1> QED BY <1>1, <1>2, <1>3, <1>4 DEF ProcInv

\* A processor keeps its structures while its lists stay the same, wherever it goes.
LEMMA OwnKept ==
  ASSUME NEW p \in Procs, OwnInv(p), free_thr'[p] = free_thr[p], mallocs'[p] = mallocs[p],
         thr'[p] = thr[p], frames'[p] = frames[p], flag'[p] = flag[p],
         pc'[p] \in {"body", "join", "freethr"} => pc[p] = pc'[p] \/ frames[p] = <<>>,
         pc'[p] = "freethr" => pc[p] = "freethr"
  PROVE  OwnInv(p)'
<1>1. Own(p)' = Own(p) /\ Elements(free_thr[p])' = Elements(free_thr[p])
  BY DEF Own, Elements
<1>2. frames[p] = <<>> => 1 .. Len(frames[p]) = {}
  BY SMTT(20)
<1> QED BY <1>1, <1>2 DEF OwnInv

\* A processor that is the master of no region.
LEMMA OwnFresh ==
  ASSUME NEW p \in Procs, frames'[p] = <<>>, pc'[p] # "freethr",
         Elements(free_thr[p])' \subseteq Own(p)', thr'[p] # NULL => thr'[p] \in Own(p)'
  PROVE  OwnInv(p)'
<1>1. \A k : k \notin 1 .. Len(frames'[p])
  BY SMTT(20)
<1> QED BY <1>1 DEF OwnInv

\* The number of structures of a processor.
LEMMA CountKept ==
  ASSUME NEW p \in Procs, CountInv(p), free_thr'[p] = free_thr[p], mallocs'[p] = mallocs[p],
         frames'[p] = frames[p], thr'[p] = thr[p],
         pc'[p] = "freethr" <=> pc[p] = "freethr",
         pc'[p] \in Forking \cup {"join"} <=> pc[p] \in Forking \cup {"join"}
  PROVE  CountInv(p)'
<1>1. InUse(p)' = InUse(p)
  BY DEF InUse
<1> QED BY <1>1 DEF CountInv

\* Places with the same demands on the fields of a processor.
Alike(l, m) ==
  \/ l \in Waiting /\ m \in Waiting
  \/ l \in Starting /\ m \in Starting
  \/ l \in Forking /\ m \in Forking

\* A processor that goes from one such place to another.
LEMMA PlaceKept ==
  ASSUME NEW p \in Procs, PlaceInv(p), thr'[p] = thr[p], frames'[p] = frames[p], flag'[p] = flag[p],
         is_used'[p] = is_used[p], counter' = counter, proc_lock' = proc_lock, Alike(pc[p], pc'[p])
  PROVE  PlaceInv(p)'
<1>1. CASE pc[p] \in Waiting /\ pc'[p] \in Waiting
  BY <1>1 DEF PlaceInv, Waiting, Starting, Forking, Leaving
<1>2. CASE pc[p] \in Starting /\ pc'[p] \in Starting
  BY <1>2 DEF PlaceInv, Waiting, Starting, Forking, Leaving
<1>3. CASE pc[p] \in Forking /\ pc'[p] \in Forking
  BY <1>3 DEF PlaceInv, Waiting, Starting, Forking, Leaving
<1> QED BY <1>1, <1>2, <1>3 DEF Alike

\* A processor that is not collecting or starting slaves has nobody on its list.
LEMMA ListEmpty ==
  ASSUME NEW p \in Procs, pc'[p] \notin {"getproc", "assign"}, proclist'[p] = <<>>
  PROVE  ListInv(p)'
<1>1. \A k : k \notin 1 .. Len(proclist'[p])
  BY SMTT(20)
<1> QED BY <1>1 DEF ListInv

\* When a processor is past start-up and has work, all processors are there.
LEMMA StartedUp ==
  ASSUME IInv, NEW p \in Procs, pc[p] \notin Starting \cup Waiting \cup {"unborn", "register"}
  PROVE  0 \in Procs /\ pc[0] \notin Starting /\ counter = N
<1>1. pc[0] \notin Starting
  BY DEF IInv, StartInv
<1>2. 0 \in Procs
  BY NAssumption, SMTT(20) DEF Procs
<1> QED BY <1>1, <1>2 DEF IInv, StartInv

\* Start-up is over once.
LEMMA StartKept ==
  ASSUME IInv, NEW p \in Procs, pc[p] \notin Starting \cup Waiting \cup {"unborn", "register"},
         counter' = counter, pc'[0] \in Starting => pc[0] \in Starting
  PROVE  StartInv'
<1>1. pc[0] \notin Starting /\ counter = N
  BY StartedUp
<1> QED BY <1>1 DEF StartInv

\* Lists stay what they are while the processors on them only move among the places
\* where a free processor may be.
LEMMA StartedKept ==
  ASSUME TypeInv, StartedOnce, proclist' = proclist,
         \A q \in Procs : pc[q] \in Waiting \cup {"signal"} /\ thr[q] = NULL /\ is_used[q] =>
           thr'[q] = NULL /\ is_used'[q] /\ pc'[q] \in Waiting \cup {"signal"}
  PROVE  StartedOnce'
BY DEF StartedOnce, Waiting

\* Nobody falls asleep with work, and a master that has to broadcast still has to.
LEMMA WakeKept ==
  ASSUME WakeInv,
         \A q \in Procs : pc'[q] = "asleep" /\ thr'[q] # NULL =>
           pc[q] = "asleep" /\ thr'[q] = thr[q] /\ parent'[thr[q]] = parent[thr[q]],
         \A p \in Procs : pc[p] \in {"assign", "bcast"} =>
           pc'[p] = pc[p] /\ frames'[p] = frames[p] /\ i'[p] = i[p]
  PROVE  WakeInv'
BY SMTT(20) DEF WakeInv, Wakes, Frame

----------------------------------------------------------------------------
(* One lemma per step.                                                      *)

\* The initial states.
LEMMA InitIInv == Init => IInv
<1> SUFFICES ASSUME Init PROVE IInv
  OBVIOUS
<1>1. 0 \in Procs /\ Procs \subseteq Nat
  BY NAssumption, SMTT(20) DEF Procs
<1>2. TypeInv
  BY <1>1, NAssumption, MaxDepthAssumption, SMTT(20) DEF Init, TypeInv, Labels, Starting
<1>3. \A p \in Procs : proclist[p] = <<>> /\ Elements(proclist[p]) = {}
  BY SMTT(20) DEF Init, Elements
<1>4. ASSUME NEW p \in Procs PROVE ProcInv(p)
  <2>1. /\ free_thr[p] = <<>> /\ frames[p] = <<>> /\ proclist[p] = <<>> /\ thr[p] = NULL
        /\ mallocs[p] = 0 /\ pc[p] = (IF p = 0 THEN "create" ELSE "unborn")
        /\ counter = 1
    BY DEF Init
  <2>a. p = 0 <=> is_used[p]
    BY Zenon DEF Init
  <2>b. p \in Nat /\ (p # 0 <=> p >= 1)
    BY <1>1, SMTT(20)
  <2>2. OwnInv(p)
    BY <2>1, SMTT(20) DEF OwnInv, Elements
  <2>3. CountInv(p)
    BY <2>1, MaxDepthAssumption, SMTT(20) DEF CountInv, InUse
  <2>4. PlaceInv(p)
    BY <2>1, <2>a, <2>b DEF PlaceInv, Starting, Forking, Leaving, Waiting
  <2>5. ListInv(p)
    BY <2>1, SMTT(20) DEF ListInv
  <2> QED BY <2>2, <2>3, <2>4, <2>5 DEF ProcInv
<1>5. StartInv
  BY <1>1 DEF Init, StartInv, Starting
<1>6. StartedOnce
  BY <1>3 DEF StartedOnce
<1>7. WakeInv
  BY DEF Init, WakeInv
<1> QED BY <1>2, <1>4, <1>5, <1>6, <1>7 DEF IInv

\* A step in which processor p only goes from one place to another.
Moves(p, l) ==
  /\ pc' = [pc EXCEPT ![p] = l]
  /\ UNCHANGED <<pool, thr, heap, arrived, locals>>
  /\ proc_mutex' \in Procs \cup {NULL}

\* A step of start-up or of the wait loop.
LEMMA MoveInv ==
  ASSUME IInv, NEW p \in Procs, NEW l \in Labels, Moves(p, l), Alike(pc[p], l), l \notin Forking,
         l = "asleep" => thr[p] = NULL
  PROVE  IInv'
<1>1. /\ pc' = [pc EXCEPT ![p] = l] /\ proc_mutex' \in Procs \cup {NULL}
      /\ UNCHANGED <<counter, created, proc_lock, is_used, last_used, thr, free_thr, mallocs, parent,
                     num, num_thds, in_parallel, arrived, frames, proclist, max_thds, i, flag>>
  BY DEF Moves, pool, heap, locals
<1>2. TypeInv /\ pc \in [Procs -> Labels] /\ ProcInv(p) /\ StartInv
  BY DEF IInv, TypeInv
<1>3. TypeInv'
  BY <1>1, <1>2 DEF TypeInv
<1>4. pc'[p] = l /\ \A q \in Procs \ {p} : pc'[q] = pc[q]
  BY <1>1, <1>2
<1>5. \A q \in Procs \ {p} : ProcInv(q)'
  <2>1. \A q \in Procs \ {p} : Same(q)
    BY <1>1, <1>4 DEF Same
  <2> QED BY <1>1, <2>1, SameInv DEF IInv
<1>6. OwnInv(p)'
  BY <1>1, <1>2, <1>4, OwnKept DEF ProcInv, Alike, Waiting, Starting
<1>7. CountInv(p)'
  BY <1>1, <1>2, <1>4, CountKept DEF ProcInv, Alike, Waiting, Starting, Forking
<1>8. PlaceInv(p)'
  BY <1>1, <1>2, <1>4, PlaceKept DEF ProcInv
<1>9. ListInv(p)'
  <2>1. pc[p] \notin {"getproc", "assign"} /\ l \notin {"getproc", "assign"}
    BY DEF Alike, Waiting, Starting, Forking
  <2>2. proclist[p] = <<>>
    BY <1>2, <2>1 DEF ProcInv, ListInv
  <2> QED BY <1>1, <1>4, <2>1, <2>2, ListEmpty
<1>10. StartInv'
  <2>1. pc[p] \in Starting <=> pc'[p] \in Starting
    BY <1>4 DEF Alike, Waiting, Starting
  <2>2. pc[0] \in Starting <=> pc'[0] \in Starting
    <3>1. 0 \in Procs
      BY NAssumption, SMTT(20) DEF Procs
    <3> QED BY <1>4, <2>1, <3>1
  <2>3. pc[p] \in Waiting => pc'[p] \in Waiting
    BY <1>4 DEF Alike, Waiting, Starting
  <2>4. pc[p] \in Starting => p = 0
    BY <1>2 DEF ProcInv, PlaceInv
  <2> QED BY <1>1, <1>2, <1>4, <2>2, <2>3, <2>4 DEF StartInv, Alike
<1>11. StartedOnce'
  BY <1>1, <1>2, <1>4, StartedKept DEF IInv, Alike, Waiting, Starting
<1>12. WakeInv'
  BY <1>1, <1>2, <1>4, WakeKept DEF IInv, Alike, Waiting, Starting
<1> QED BY <1>3, <1>5, <1>6, <1>7, <1>8, <1>9, <1>10, <1>11, <1>12 DEF IInv, ProcInv

\* Start-up up to the wait for the slaves, and the slave's wait loop without work.
LEMMA CreateDoneInv == ASSUME IInv, CreateDone PROVE IInv'
<1>1. 0 \in Procs
  BY NAssumption, SMTT(20) DEF Procs
<1>2. Moves(0, "waitprocs")
  BY DEF CreateDone, Goto, Moves, IInv, TypeInv
<1> QED BY <1>1, <1>2, MoveInv DEF CreateDone, Alike, Starting, Forking, Labels

\* The slave takes ompc_proc_mutex before it looks at cproc->thr again.
LEMMA WaitLockInv == ASSUME IInv, NEW p \in Procs, WaitLock(p) PROVE IInv'
<1>1. Moves(p, "recheck")
  BY DEF WaitLock, Goto, Moves
<1> QED BY <1>1, MoveInv DEF WaitLock, Alike, Waiting, Forking, Labels

\* The slave sleeps only if it has no thread.
LEMMA RecheckInv == ASSUME IInv, NEW p \in Procs, Recheck(p) PROVE IInv'
<1>1. CASE thr[p] # NULL
  <2>1. Moves(p, "spin")
    BY <1>1 DEF Recheck, Look, Goto, Moves
  <2> QED BY <2>1, MoveInv DEF Recheck, Look, Alike, Waiting, Forking, Labels
<1>2. CASE thr[p] = NULL
  <2>1. Moves(p, "asleep")
    BY <1>2 DEF Recheck, Look, Goto, Moves
  <2> QED BY <1>2, <2>1, MoveInv DEF Recheck, Look, Alike, Waiting, Forking, Labels
<1> QED BY <1>1, <1>2

\* A spurious return of pthread_cond_wait sends the slave back to the mutex.
LEMMA SpuriousWakeInv == ASSUME IInv, NEW p \in Procs, SpuriousWake(p) PROVE IInv'
<1>1. Moves(p, "mutex")
  BY DEF SpuriousWake, Goto, Moves, IInv, TypeInv
<1> QED BY <1>1, MoveInv DEF SpuriousWake, Alike, Waiting, Forking, Labels

\* pthread_create: the new processor has not registered yet.
LEMMA CreateSlaveInv == ASSUME IInv, CreateSlave PROVE IInv'
<1>1. /\ created < N /\ created' = created + 1
      /\ UNCHANGED <<counter, proc_lock, is_used, last_used, proc_mutex, thr, free_thr, mallocs, parent,
                     num, num_thds, in_parallel, arrived, pc, frames, proclist, max_thds, i, flag>>
  BY DEF CreateSlave, heap, locals
<1>2. TypeInv'
  <2>1. TypeInv /\ created \in 1 .. N
    BY DEF IInv, TypeInv
  <2>2. created' \in 1 .. N
    BY <1>1, <2>1, NAssumption, SMTT(20)
  <2> QED BY <1>1, <2>1, <2>2 DEF TypeInv
<1>3. \A q \in Procs : ProcInv(q)'
  BY <1>1, SameInv DEF IInv, Same
<1>4. StartInv'
  BY <1>1 DEF IInv, StartInv
<1>5. StartedOnce'
  BY <1>1 DEF IInv, StartedOnce
<1>6. WakeInv'
  BY <1>1, WakeKept DEF IInv
<1> QED BY <1>2, <1>3, <1>4, <1>5, <1>6 DEF IInv

\* A slave registers under ompc_proc_lock_obj: nobody else does at that time.
LEMMA NewProcInv == ASSUME IInv, NEW p \in Procs, NewProc(p) PROVE IInv'
<1>1. /\ pc[p] = "unborn" /\ p = counter /\ counter < created /\ proc_lock = NULL
      /\ proc_lock' = p /\ counter' = counter + 1 /\ pc' = [pc EXCEPT ![p] = "register"]
      /\ UNCHANGED <<created, is_used, last_used, proc_mutex, thr, free_thr, mallocs, parent, num,
                     num_thds, in_parallel, arrived, frames, proclist, max_thds, i, flag>>
  BY DEF NewProc, Enter, Goto, heap, locals
<1>2. TypeInv /\ pc \in [Procs -> Labels] /\ counter \in Nat /\ created \in Nat /\ created <= N
  <2>1. TypeInv /\ pc \in [Procs -> Labels] /\ counter \in 1 .. N /\ created \in 1 .. N
    BY DEF IInv, TypeInv
  <2> QED BY <2>1, NAssumption, SMTT(20)
<1>3. TypeInv'
  <2>1. counter' \in 1 .. N
    BY <1>1, <1>2, NAssumption, SMTT(20)
  <2>2. pc' \in [Procs -> Labels]
    BY <1>1, <1>2 DEF Labels
  <2> QED BY <1>1, <1>2, <2>1, <2>2 DEF TypeInv
<1>4. pc'[p] = "register" /\ \A q \in Procs \ {p} : pc'[q] = pc[q]
  BY <1>1, <1>2
<1>5. Procs \subseteq Nat /\ NULL \notin Procs
  BY NAssumption, NullAssumption, SMTT(20) DEF Procs
<1>6. ASSUME NEW q \in Procs PROVE ProcInv(q)'
  <2>1. ProcInv(q)
    BY DEF IInv
  <2>2. OwnInv(q)'
    BY <1>1, <1>4, <2>1, SMTT(20) DEF ProcInv, OwnInv, Own, Elements
  <2>3. CountInv(q)'
    BY <1>1, <1>4, <2>1 DEF ProcInv, CountInv, InUse, Forking
  <2>4. q >= counter' <=> q >= counter /\ q # p
    BY <1>1, <1>2, <1>5, SMTT(20)
  <2>5. PlaceInv(q)'
    <3>1. CASE q = p
      BY <1>1, <1>4, <2>1, <2>4, <3>1 DEF ProcInv, PlaceInv, Starting, Forking, Leaving, Waiting
    <3>2. CASE q # p
      BY <1>1, <1>4, <1>5, <2>1, <2>4, <3>2 DEF ProcInv, PlaceInv
    <3> QED BY <3>1, <3>2
  <2>6. ListInv(q)'
    BY <1>1, <1>4, <2>1 DEF ProcInv, ListInv, Frame
  <2> QED BY <2>2, <2>3, <2>5, <2>6 DEF ProcInv
<1>7. StartInv'
  <2>1. 0 \in Procs /\ p # 0 /\ pc[0] \in Starting
    <3>1. 0 \in Procs
      BY NAssumption, SMTT(20) DEF Procs
    <3>2. counter # N
      BY <1>1, <1>2, NAssumption, SMTT(20)
    <3>3. ProcInv(0) /\ StartInv
      BY <3>1 DEF IInv
    <3> QED BY <1>1, <3>1, <3>2, <3>3 DEF StartInv, ProcInv, PlaceInv, Starting, Forking
  <2> QED BY <1>1, <1>4, <2>1 DEF IInv, StartInv
<1>8. StartedOnce'
  BY <1>1, <1>2, <1>4, StartedKept DEF IInv, Waiting
<1>9. WakeInv'
  BY <1>1, <1>4, WakeKept DEF IInv
<1> QED BY <1>3, <1>6, <1>7, <1>8, <1>9 DEF IInv

\* The slave has registered and gives up ompc_proc_lock_obj.
LEMMA NewProcDoneInv == ASSUME IInv, NEW p \in Procs, NewProcDone(p) PROVE IInv'
<1>1. /\ pc[p] = "register" /\ thr' = [thr EXCEPT ![p] = NULL] /\ proc_lock' = NULL
      /\ pc' = [pc EXCEPT ![p] = "spin"]
      /\ UNCHANGED <<counter, created, is_used, last_used, proc_mutex, free_thr, mallocs, parent, num,
                     num_thds, in_parallel, arrived, frames, proclist, max_thds, i, flag>>
  BY DEF NewProcDone, Goto, heap, locals
<1>2. TypeInv /\ pc \in [Procs -> Labels] /\ ProcInv(p)
  BY DEF IInv, TypeInv
<1>3. thr[p] = NULL /\ thr' = thr /\ proc_lock = p
  <2>1. thr[p] = NULL /\ proc_lock = p
    BY <1>1, <1>2 DEF ProcInv, PlaceInv
  <2>2. thr \in [Procs -> Structs \cup {NULL}]
    BY <1>2 DEF TypeInv
  <2> QED BY <1>1, <2>1, <2>2
<1>4. TypeInv'
  BY <1>1, <1>2, <1>3 DEF TypeInv, Labels, Waiting
<1>5. pc'[p] = "spin" /\ \A q \in Procs \ {p} : pc'[q] = pc[q]
  BY <1>1, <1>2
<1>6. ASSUME NEW q \in Procs PROVE ProcInv(q)'
  <2>1. ProcInv(q)
    BY DEF IInv
  <2>2. OwnInv(q)'
    BY <1>1, <1>3, <1>5, <2>1, SMTT(20) DEF ProcInv, OwnInv, Own, Elements
  <2>3. CountInv(q)'
    BY <1>1, <1>3, <1>5, <2>1 DEF ProcInv, CountInv, InUse, Forking
  <2>4. PlaceInv(q)'
    <3>1. CASE q = p
      BY <1>1, <1>3, <1>5, <2>1, <3>1 DEF ProcInv, PlaceInv, Starting, Forking, Leaving, Waiting
    <3>2. CASE q # p
      BY <1>1, <1>3, <1>5, <2>1, <3>2 DEF ProcInv, PlaceInv
    <3> QED BY <3>1, <3>2
  <2>5. ListInv(q)'
    BY <1>1, <1>5, <2>1 DEF ProcInv, ListInv, Frame
  <2> QED BY <2>2, <2>3, <2>4, <2>5 DEF ProcInv
<1>7. StartInv'
  BY <1>1, <1>2, <1>5, SMTT(20) DEF IInv, StartInv, ProcInv, PlaceInv, Starting, Forking, Waiting
<1>8. StartedOnce'
  BY <1>1, <1>2, <1>3, <1>5, StartedKept DEF IInv, Waiting
<1>9. WakeInv'
  BY <1>1, <1>3, <1>5, WakeKept DEF IInv
<1> QED BY <1>4, <1>6, <1>7, <1>8, <1>9 DEF IInv

\* The slave sees its thread, or stops spinning.
LEMMA SpinInv == ASSUME IInv, NEW p \in Procs, Spin(p) PROVE IInv'
<1>1. CASE thr[p] = NULL
  <2>1. Moves(p, "mutex")
    BY <1>1 DEF Spin, Goto, Moves, IInv, TypeInv
  <2> QED BY <2>1, MoveInv DEF Spin, Alike, Waiting, Forking, Labels
<1>2. CASE thr[p] # NULL
  <2>1. /\ pc[p] = "spin" /\ pc' = [pc EXCEPT ![p] = "body"]
        /\ UNCHANGED <<counter, created, proc_lock, is_used, last_used, proc_mutex, thr, free_thr, mallocs,
                     parent, num, num_thds, in_parallel, arrived, frames, proclist, max_thds, i, flag>>
    BY <1>2 DEF Spin, Goto, pool, heap, locals
  <2>2. TypeInv /\ pc \in [Procs -> Labels] /\ ProcInv(p) /\ StartInv
    BY DEF IInv, TypeInv
  <2>3. TypeInv'
    BY <2>1, <2>2 DEF TypeInv, Labels
  <2>4. pc'[p] = "body" /\ \A q \in Procs \ {p} : pc'[q] = pc[q]
    BY <2>1, <2>2
  <2>5. \A q \in Procs \ {p} : ProcInv(q)'
    <3>1. \A q \in Procs \ {p} : Same(q)
      BY <2>1, <2>4 DEF Same
    <3> QED BY <2>1, <3>1, SameInv DEF IInv
  <2>6. frames[p] = <<>> /\ Len(frames[p]) = 0 /\ p # 0
    BY <2>1, <2>2 DEF ProcInv, PlaceInv, Starting, Forking
  <2>7. OwnInv(p)'
    BY <2>1, <2>2, <2>4, <2>6, SMTT(20) DEF ProcInv, OwnInv, Own, Elements
  <2>8. CountInv(p)'
    BY <2>1, <2>2, <2>4 DEF ProcInv, CountInv, InUse, Forking
  <2>9. PlaceInv(p)'
    BY <1>2, <2>1, <2>2, <2>4, <2>6 DEF ProcInv, PlaceInv, Starting, Forking, Leaving, Waiting
  <2>10. ListInv(p)'
    BY <2>1, <2>2, <2>4 DEF ProcInv, ListInv
  <2>11. StartInv'
    BY <1>2, <2>1, <2>2, <2>4, <2>6, SMTT(20) DEF StartInv, Starting, Waiting
  <2>12. StartedOnce'
    BY <1>2, <2>1, <2>2, <2>4, StartedKept DEF IInv
  <2>13. WakeInv'
    BY <2>1, <2>4, WakeKept DEF IInv
  <2> QED BY <2>3, <2>5, <2>7, <2>8, <2>9, <2>10, <2>11, <2>12, <2>13 DEF IInv, ProcInv
<1> QED BY <1>1, <1>2

----------------------------------------------------------------------------
(* The thread structures of different processors are different.             *)

\* A structure belongs to one processor.
LEMMA OwnApart ==
  ASSUME NEW p \in Procs, NEW q \in Procs, p # q, NEW k, NEW m
  PROVE  ({p} \X (1 .. k)) \cap ({q} \X (1 .. m)) = {}
OBVIOUS

\* What ompc_alloc_thread(q) does to the list of q and to the structure s it returns.
Takes(q, s, par) ==
  /\ s \in Structs /\ s \in Own(q)' /\ Own(q) \subseteq Own(q)'
  /\ free_thr' \in [Procs -> Seq(Structs)] /\ mallocs' \in [Procs -> 0 .. MaxDepth+1]
  /\ parent' \in [Structs -> Structs \cup {NULL}] /\ num' \in [Structs -> Procs]
  /\ num_thds' = num_thds /\ in_parallel' \in [Structs -> {0, 1}]
  /\ Elements(free_thr'[q]) \subseteq Own(q)'
  /\ mallocs'[q] = Len(free_thr'[q]) + InUse(q) + 1
  /\ \A r \in Procs \ {q} : free_thr'[r] = free_thr[r] /\ mallocs'[r] = mallocs[r]
  /\ \A t \in Structs \ {s} : parent'[t] = parent[t]
  /\ parent'[s] = par

\* There is room for a structure below the bound on the depth of nesting.
LEMMA Taken ==
  ASSUME TypeInv, NEW q \in Procs, OwnInv(q), CountInv(q), InUse(q) <= MaxDepth,
         NEW s, NEW par \in Structs \cup {NULL}, NEW n \in Procs, NEW inp \in {0, 1},
         TakeThread(q, s, par, n, inp)
  PROVE  Takes(q, s, par)
<1>1. /\ s = AllocThread(q)
      /\ free_thr' = [free_thr EXCEPT ![q] = IF @ # <<>> THEN Tail(@) ELSE @]
      /\ mallocs' = [mallocs EXCEPT ![q] = IF free_thr[q] # <<>> THEN @ ELSE @ + 1]
      /\ parent' = [parent EXCEPT ![s] = par] /\ num' = [num EXCEPT ![s] = n]
      /\ in_parallel' = [in_parallel EXCEPT ![s] = inp] /\ num_thds' = num_thds
  BY DEF TakeThread
<1>2. /\ free_thr \in [Procs -> Seq(Structs)] /\ mallocs \in [Procs -> 0 .. MaxDepth+1]
      /\ parent \in [Structs -> Structs \cup {NULL}] /\ num \in [Structs -> Procs]
      /\ in_parallel \in [Structs -> {0, 1}] /\ frames \in [Procs -> Seq(Frames)]
  BY DEF TypeInv
<1>3. InUse(q) \in Nat
  <2>1. Len(frames[q]) \in Nat
    BY <1>2, LenIs
  <2> QED BY <2>1, SMTT(20) DEF InUse
<1>4. mallocs[q] \in Nat /\ mallocs[q] = Len(free_thr[q]) + InUse(q) /\ Elements(free_thr[q]) \subseteq Own(q)
  BY <1>2, MaxDepthAssumption, SMTT(20) DEF CountInv, OwnInv
<1>5. /\ s \in Structs /\ s \in {q} \X (1 .. mallocs'[q]) /\ mallocs'[q] >= mallocs[q]
      /\ mallocs'[q] \in 0 .. MaxDepth+1 /\ free_thr'[q] \in Seq(Structs)
      /\ Elements(free_thr'[q]) \subseteq Own(q)
      /\ mallocs'[q] = Len(free_thr'[q]) + InUse(q) + 1
  <2>1. CASE free_thr[q] = <<>>
    <3>1. free_thr'[q] = <<>> /\ mallocs'[q] = mallocs[q] + 1 /\ s = <<q, mallocs[q] + 1>>
      BY <1>1, <1>2, <2>1 DEF AllocThread
    <3>2. Len(free_thr[q]) = 0 /\ Elements(free_thr'[q]) = {}
      BY <2>1, <3>1, SMTT(20) DEF Elements
    <3>3. mallocs[q] <= MaxDepth
      BY <1>3, <1>4, <3>2, SMTT(20)
    <3> QED BY <1>3, <1>4, <2>1, <3>1, <3>2, <3>3, MaxDepthAssumption, SMTT(20) DEF Structs
  <2>2. CASE free_thr[q] # <<>>
    <3>1. free_thr'[q] = Tail(free_thr[q]) /\ mallocs'[q] = mallocs[q] /\ s = Head(free_thr[q])
      BY <1>1, <1>2, <2>2 DEF AllocThread
    <3>2. /\ Tail(free_thr[q]) \in Seq(Structs) /\ Len(Tail(free_thr[q])) = Len(free_thr[q]) - 1
          /\ s \in Structs /\ s \in Elements(free_thr[q])
          /\ Elements(Tail(free_thr[q])) \subseteq Elements(free_thr[q])
      BY <1>2, <2>2, <3>1, TakeFront
    <3>3. Len(free_thr[q]) \in Nat
      BY <1>2, LenIs
    <3>4. s \in {q} \X (1 .. mallocs'[q]) /\ Elements(free_thr'[q]) \subseteq Own(q)
      BY <1>4, <3>1, <3>2 DEF Own
    <3>5. mallocs'[q] = Len(free_thr'[q]) + InUse(q) + 1
      BY <1>3, <1>4, <3>1, <3>2, <3>3, SMTT(20)
    <3>6. mallocs'[q] \in 0 .. MaxDepth+1 /\ mallocs'[q] >= mallocs[q]
      BY <1>2, <1>4, <3>1, SMTT(20)
    <3> QED BY <3>1, <3>2, <3>4, <3>5, <3>6
  <2> QED BY <2>1, <2>2
<1>6. Own(q) \subseteq Own(q)' /\ s \in Own(q)'
  <2>1. 1 .. mallocs[q] \subseteq 1 .. mallocs'[q]
    BY <1>4, <1>5, MaxDepthAssumption, SMTT(20)
  <2>2. Own(q) = {q} \X (1 .. mallocs[q]) /\ Own(q)' = {q} \X (1 .. mallocs'[q])
    BY DEF Own
  <2> QED BY <1>5, <2>1, <2>2
<1>7. free_thr' \in [Procs -> Seq(Structs)] /\ mallocs' \in [Procs -> 0 .. MaxDepth+1]
  BY <1>1, <1>2, <1>5
<1>8. /\ parent' \in [Structs -> Structs \cup {NULL}] /\ num' \in [Structs -> Procs]
      /\ in_parallel' \in [Structs -> {0, 1}] /\ parent'[s] = par
      /\ \A t \in Structs \ {s} : parent'[t] = parent[t]
  BY <1>1, <1>2, <1>5
<1>9. \A r \in Procs \ {q} : free_thr'[r] = free_thr[r] /\ mallocs'[r] = mallocs[r]
  BY <1>1, <1>2
<1>10. Elements(free_thr'[q]) \subseteq Own(q)'
  BY <1>5, <1>6
<1> QED BY <1>1, <1>5, <1>6, <1>7, <1>8, <1>9, <1>10 DEF Takes

----------------------------------------------------------------------------
(* The slave gives its structure and itself back.                           *)

\* The slave leaves its thread structure: p->thr is NULL before the structure is freed.
LEMMA FinishInv == ASSUME IInv, NEW p \in Procs, Finish(p) PROVE IInv'
<1>1. /\ pc[p] = "body" /\ p # 0 /\ frames[p] = <<>>
      /\ flag' = [flag EXCEPT ![p] = [me |-> thr[p], i |-> num[thr[p]], tp |-> parent[thr[p]]]]
      /\ thr' = [thr EXCEPT ![p] = NULL] /\ pc' = [pc EXCEPT ![p] = "freethr"]
      /\ UNCHANGED <<counter, created, proc_lock, is_used, last_used, proc_mutex, free_thr, mallocs, parent,
                     num, num_thds, in_parallel, arrived, frames, proclist, max_thds, i>>
  BY DEF Finish, Leave, Goto, pool, heap
<1>2. /\ TypeInv /\ pc \in [Procs -> Labels] /\ thr \in [Procs -> Structs \cup {NULL}]
      /\ flag \in [Procs -> Flags \cup {NULL}] /\ num \in [Structs -> Procs]
      /\ parent \in [Structs -> Structs \cup {NULL}] /\ ProcInv(p) /\ StartInv
  BY DEF IInv, TypeInv
<1>3. thr[p] # NULL /\ thr[p] \in Structs /\ thr[p] \in Own(p) /\ is_used[p]
  <2>1. thr[p] # NULL /\ is_used[p]
    BY <1>1, <1>2 DEF ProcInv, PlaceInv, Forking, Waiting
  <2> QED BY <1>2, <2>1 DEF ProcInv, OwnInv
<1>4. /\ pc'[p] = "freethr" /\ thr'[p] = NULL
      /\ flag'[p] = [me |-> thr[p], i |-> num[thr[p]], tp |-> parent[thr[p]]]
      /\ \A q \in Procs \ {p} : pc'[q] = pc[q] /\ thr'[q] = thr[q] /\ flag'[q] = flag[q]
  BY <1>1, <1>2
<1>5. flag'[p] \in Flags /\ flag'[p].me = thr[p]
  BY <1>2, <1>3, <1>4, SMTT(20) DEF Flags
<1>6. TypeInv'
  <2>1. pc' \in [Procs -> Labels] /\ thr' \in [Procs -> Structs \cup {NULL}]
    BY <1>1, <1>2 DEF Labels, Leaving
  <2>2. flag' \in [Procs -> Flags \cup {NULL}]
    BY <1>1, <1>2, <1>4, <1>5
  <2> QED BY <1>1, <1>2, <2>1, <2>2 DEF TypeInv
<1>7. \A q \in Procs \ {p} : ProcInv(q)'
  <2>1. \A q \in Procs \ {p} : Same(q)
    BY <1>1, <1>4 DEF Same
  <2> QED BY <1>1, <2>1, SameInv DEF IInv
<1>8. OwnInv(p)'
  BY <1>1, <1>2, <1>3, <1>4, <1>5, SMTT(20) DEF ProcInv, OwnInv, Own, Elements
<1>9. CountInv(p)'
  BY <1>1, <1>2, <1>3, <1>4, SMTT(20) DEF ProcInv, CountInv, InUse, Forking
<1>10. PlaceInv(p)'
  BY <1>1, <1>2, <1>3, <1>4, <1>5 DEF ProcInv, PlaceInv, Starting, Forking, Leaving, Waiting
<1>11. ListInv(p)'
  BY <1>1, <1>2, <1>4 DEF ProcInv, ListInv
<1>12. StartInv'
  BY <1>1, <1>2, <1>4, SMTT(20) DEF StartInv, Starting, Waiting
<1>13. StartedOnce'
  BY <1>1, <1>2, <1>4, StartedKept DEF IInv, Waiting
<1>14. WakeInv'
  BY <1>1, <1>4, WakeKept DEF IInv
<1> QED BY <1>6, <1>7, <1>8, <1>9, <1>10, <1>11, <1>12, <1>13, <1>14 DEF IInv, ProcInv

\* The structure goes to the list of the processor it was taken from.
LEMMA FreeMeInv == ASSUME IInv, NEW p \in Procs, FreeMe(p) PROVE IInv'
<1>1. /\ pc[p] = "freethr" /\ free_thr' = [free_thr EXCEPT ![p] = <<flag[p].me>> \o @]
      /\ pc' = [pc EXCEPT ![p] = "freeproc"]
      /\ UNCHANGED <<counter, created, proc_lock, is_used, last_used, proc_mutex, thr, mallocs, parent,
                     num, num_thds, in_parallel, arrived, frames, proclist, max_thds, i, flag>>
  BY DEF FreeMe, FreeThread, Goto, pool, locals
<1>2. /\ TypeInv /\ pc \in [Procs -> Labels] /\ free_thr \in [Procs -> Seq(Structs)]
      /\ ProcInv(p) /\ StartInv
  BY DEF IInv, TypeInv
<1>3. flag[p] \in Flags /\ flag[p].me \in Structs /\ flag[p].me \in Own(p) /\ thr[p] = NULL
  BY <1>1, <1>2 DEF ProcInv, PlaceInv, OwnInv, Leaving, Flags
<1>4. /\ pc'[p] = "freeproc" /\ free_thr'[p] = <<flag[p].me>> \o free_thr[p]
      /\ \A q \in Procs \ {p} : pc'[q] = pc[q] /\ free_thr'[q] = free_thr[q]
  BY <1>1, <1>2
<1>5. /\ free_thr'[p] \in Seq(Structs) /\ Len(free_thr'[p]) = Len(free_thr[p]) + 1
      /\ Elements(free_thr'[p]) = {flag[p].me} \cup Elements(free_thr[p])
      /\ Len(free_thr[p]) \in Nat
  BY <1>2, <1>3, <1>4, PushFront, LenIs, SMTT(20)
<1>6. TypeInv'
  <2>1. pc' \in [Procs -> Labels]
    BY <1>1, <1>2 DEF Labels, Leaving
  <2>2. free_thr' \in [Procs -> Seq(Structs)]
    BY <1>1, <1>2, <1>4, <1>5
  <2> QED BY <1>1, <1>2, <2>1, <2>2 DEF TypeInv
<1>7. \A q \in Procs \ {p} : ProcInv(q)'
  <2>1. \A q \in Procs \ {p} : Same(q)
    BY <1>1, <1>4 DEF Same
  <2> QED BY <1>1, <2>1, SameInv DEF IInv
<1>8. OwnInv(p)'
  <2>1. Own(p)' = Own(p) /\ Elements(free_thr'[p]) \subseteq Own(p)
    BY <1>1, <1>2, <1>3, <1>5 DEF ProcInv, OwnInv, Own
  <2>2. Len(frames[p]) = 0
    BY <1>1, <1>2, SMTT(20) DEF ProcInv, PlaceInv, Forking
  <2> QED BY <1>1, <1>3, <1>4, <2>1, <2>2, SMTT(20) DEF OwnInv, Elements
<1>9. CountInv(p)'
  BY <1>1, <1>2, <1>3, <1>4, <1>5, SMTT(20) DEF ProcInv, CountInv, InUse
<1>10. PlaceInv(p)'
  BY <1>1, <1>2, <1>3, <1>4 DEF ProcInv, PlaceInv, Starting, Forking, Leaving, Waiting
<1>11. ListInv(p)'
  BY <1>1, <1>2, <1>4 DEF ProcInv, ListInv
<1>12. StartInv'
  BY <1>1, <1>2, <1>4, SMTT(20) DEF StartInv, Starting, Waiting
<1>13. StartedOnce'
  BY <1>1, <1>2, <1>4, StartedKept DEF IInv, Waiting
<1>14. WakeInv'
  BY <1>1, <1>4, WakeKept DEF IInv
<1> QED BY <1>6, <1>7, <1>8, <1>9, <1>10, <1>11, <1>12, <1>13, <1>14 DEF IInv, ProcInv

\* The processor goes back to the pool: nobody has it on a list.
LEMMA FreeProcInv == ASSUME IInv, NEW p \in Procs, FreeProc(p) PROVE IInv'
<1>1. /\ pc[p] = "freeproc" /\ is_used' = [is_used EXCEPT ![p] = FALSE]
      /\ pc' = [pc EXCEPT ![p] = "signal"]
      /\ UNCHANGED <<counter, created, proc_lock, last_used, proc_mutex, thr, free_thr, mallocs, parent,
                     num, num_thds, in_parallel, arrived, frames, proclist, max_thds, i, flag>>
  BY DEF FreeProc, Goto, heap, locals
<1>2. TypeInv /\ pc \in [Procs -> Labels] /\ is_used \in [Procs -> BOOLEAN] /\ ProcInv(p) /\ StartInv
  BY DEF IInv, TypeInv
<1>3. /\ pc'[p] = "signal" /\ ~is_used'[p]
      /\ \A q \in Procs \ {p} : pc'[q] = pc[q] /\ is_used'[q] = is_used[q]
  BY <1>1, <1>2
<1>4. TypeInv'
  <2>1. pc' \in [Procs -> Labels]
    BY <1>1, <1>2 DEF Labels, Leaving
  <2>2. is_used' \in [Procs -> BOOLEAN]
    BY <1>1, <1>2
  <2> QED BY <1>1, <1>2, <2>1, <2>2 DEF TypeInv
<1>5. \A q \in Procs \ {p} : ProcInv(q)'
  <2>1. \A q \in Procs \ {p} : Same(q)
    BY <1>1, <1>3 DEF Same
  <2> QED BY <1>1, <2>1, SameInv DEF IInv
<1>6. OwnInv(p)'
  BY <1>1, <1>2, <1>3, SMTT(20) DEF ProcInv, OwnInv, Own, Elements
<1>7. CountInv(p)'
  BY <1>1, <1>2, <1>3 DEF ProcInv, CountInv, InUse, PlaceInv
<1>8. PlaceInv(p)'
  BY <1>1, <1>2, <1>3 DEF ProcInv, PlaceInv, Starting, Forking, Leaving, Waiting
<1>9. ListInv(p)'
  BY <1>1, <1>2, <1>3 DEF ProcInv, ListInv
<1>10. StartInv'
  BY <1>1, <1>2, <1>3, SMTT(20) DEF StartInv, Starting, Waiting
<1>11. StartedOnce'
  BY <1>1, <1>2, <1>3, StartedKept DEF IInv, Waiting
<1>12. WakeInv'
  BY <1>1, <1>3, WakeKept DEF IInv
<1> QED BY <1>4, <1>5, <1>6, <1>7, <1>8, <1>9, <1>10, <1>11, <1>12 DEF IInv, ProcInv

\* The slave raises its flag, and may have been taken and started again before.
LEMMA SignalInv == ASSUME IInv, NEW p \in Procs, Signal(p) PROVE IInv'
<1>1. /\ pc[p] = "signal" /\ arrived' = [arrived EXCEPT ![flag[p].tp] = @ \cup {flag[p].i}]
      /\ flag' = [flag EXCEPT ![p] = NULL] /\ pc' = [pc EXCEPT ![p] = "spin"]
      /\ UNCHANGED <<counter, created, proc_lock, is_used, last_used, proc_mutex, thr, free_thr, mallocs,
                     parent, num, num_thds, in_parallel, frames, proclist, max_thds, i>>
  BY DEF Signal, Goto, pool, heap
<1>2. /\ TypeInv /\ pc \in [Procs -> Labels] /\ flag \in [Procs -> Flags \cup {NULL}]
      /\ arrived \in [Structs -> SUBSET Procs] /\ ProcInv(p) /\ StartInv
  BY DEF IInv, TypeInv
<1>3. flag[p] \in Flags /\ flag[p].i \in Procs
  BY <1>1, <1>2 DEF ProcInv, PlaceInv, Leaving, Flags
<1>4. /\ pc'[p] = "spin" /\ flag'[p] = NULL
      /\ \A q \in Procs \ {p} : pc'[q] = pc[q] /\ flag'[q] = flag[q]
  BY <1>1, <1>2
<1>5. TypeInv'
  <2>1. pc' \in [Procs -> Labels] /\ flag' \in [Procs -> Flags \cup {NULL}]
    BY <1>1, <1>2 DEF Labels, Waiting
  <2>2. arrived' \in [Structs -> SUBSET Procs]
    BY <1>1, <1>2, <1>3
  <2> QED BY <1>1, <1>2, <2>1, <2>2 DEF TypeInv
<1>6. \A q \in Procs \ {p} : ProcInv(q)'
  <2>1. \A q \in Procs \ {p} : Same(q)
    BY <1>1, <1>4 DEF Same
  <2> QED BY <1>1, <2>1, SameInv DEF IInv
<1>7. OwnInv(p)'
  BY <1>1, <1>2, <1>4, SMTT(20) DEF ProcInv, OwnInv, Own, Elements
<1>8. CountInv(p)'
  BY <1>1, <1>2, <1>4 DEF ProcInv, CountInv, InUse, Forking
<1>9. PlaceInv(p)'
  BY <1>1, <1>2, <1>4 DEF ProcInv, PlaceInv, Starting, Forking, Leaving, Waiting
<1>10. ListInv(p)'
  BY <1>1, <1>2, <1>4 DEF ProcInv, ListInv
<1>11. StartInv'
  BY <1>1, <1>2, <1>4, SMTT(20) DEF StartInv, Starting, Waiting
<1>12. StartedOnce'
  BY <1>1, <1>2, <1>4, StartedKept DEF IInv, Waiting
<1>13. WakeInv'
  BY <1>1, <1>4, WakeKept DEF IInv
<1> QED BY <1>5, <1>6, <1>7, <1>8, <1>9, <1>10, <1>11, <1>12, <1>13 DEF IInv, ProcInv

\* A structure that is taken for q is not the one in which another processor executes.
LEMMA ParentKept ==
  ASSUME TypeInv, NEW q \in Procs, NEW r \in Procs, q # r, OwnInv(r), thr[r] # NULL,
         NEW s, s \in Own(q)', \A t \in Structs \ {s} : parent'[t] = parent[t]
  PROVE  parent'[thr[r]] = parent[thr[r]]
<1>1. thr[r] \in Structs /\ thr[r] \in {r} \X (1 .. mallocs[r])
  BY DEF TypeInv, OwnInv, Own
<1>2. s \in {q} \X (1 .. mallocs'[q])
  BY DEF Own
<1>3. thr[r] # s
  BY <1>1, <1>2, OwnApart
<1> QED BY <1>1, <1>3

\* The root thread is allocated when all slaves are counted.
LEMMA WaitProcsInv == ASSUME IInv, WaitProcs PROVE IInv'
<1>1. /\ pc[0] = "waitprocs" /\ counter = N /\ pc' = [pc EXCEPT ![0] = "body"]
      /\ UNCHANGED <<counter, created, proc_lock, is_used, last_used, proc_mutex, arrived,
                     frames, proclist, max_thds, i, flag>>
  BY DEF WaitProcs, Goto, pool, locals
<1>2. PICK s \in Structs : TakeThread(0, s, NULL, 0, 0) /\ thr' = [thr EXCEPT ![0] = s]
  BY DEF WaitProcs
<1>3. 0 \in Procs /\ TypeInv /\ ProcInv(0) /\ StartInv /\ s # NULL
  BY NAssumption, NullAssumption, SMTT(20) DEF IInv, Procs
<1>4. pc \in [Procs -> Labels] /\ thr \in [Procs -> Structs \cup {NULL}]
  BY <1>3 DEF TypeInv
<1>5. thr[0] = NULL /\ frames[0] = <<>> /\ Len(frames[0]) = 0 /\ InUse(0) = 0
  BY <1>1, <1>3 DEF ProcInv, PlaceInv, Starting, Forking, InUse
<1>6. /\ s \in Own(0)' /\ Own(0) \subseteq Own(0)'
      /\ free_thr' \in [Procs -> Seq(Structs)] /\ mallocs' \in [Procs -> 0 .. MaxDepth+1]
      /\ parent' \in [Structs -> Structs \cup {NULL}] /\ num' \in [Structs -> Procs]
      /\ num_thds' = num_thds /\ in_parallel' \in [Structs -> {0, 1}]
      /\ Elements(free_thr'[0]) \subseteq Own(0)'
      /\ mallocs'[0] = Len(free_thr'[0]) + InUse(0) + 1
      /\ \A r \in Procs \ {0} : free_thr'[r] = free_thr[r] /\ mallocs'[r] = mallocs[r]
      /\ \A t \in Structs \ {s} : parent'[t] = parent[t]
  <2>1. InUse(0) <= MaxDepth
    BY <1>5, MaxDepthAssumption, SMTT(20)
  <2>2. OwnInv(0) /\ CountInv(0)
    BY <1>3 DEF ProcInv
  <2>3. Takes(0, s, NULL)
    BY <1>2, <1>3, <2>1, <2>2, Taken
  <2> QED BY <2>3 DEF Takes
<1>7. /\ pc'[0] = "body" /\ thr'[0] = s
      /\ \A q \in Procs \ {0} : pc'[q] = pc[q] /\ thr'[q] = thr[q]
  BY <1>1, <1>2, <1>3, <1>4
<1>8. TypeInv'
  <2>1. pc' \in [Procs -> Labels]
    BY <1>1, <1>4 DEF Labels
  <2>2. thr' \in [Procs -> Structs \cup {NULL}]
    BY <1>2, <1>4
  <2> QED BY <1>1, <1>3, <1>6, <2>1, <2>2 DEF TypeInv
<1>9. \A q \in Procs \ {0} : ProcInv(q)'
  <2>1. \A q \in Procs \ {0} : Same(q)
    BY <1>1, <1>6, <1>7 DEF Same
  <2> QED BY <1>1, <1>6, <2>1, SameInv DEF IInv
<1>10. OwnInv(0)'
  BY <1>1, <1>5, <1>6, <1>7, SMTT(20) DEF OwnInv, Elements
<1>11. CountInv(0)'
  BY <1>1, <1>3, <1>5, <1>6, <1>7, MaxDepthAssumption, SMTT(20) DEF CountInv, InUse, Forking
<1>12. PlaceInv(0)'
  BY <1>1, <1>3, <1>5, <1>7 DEF ProcInv, PlaceInv, Starting, Forking, Leaving, Waiting
<1>13. ListInv(0)'
  BY <1>1, <1>3, <1>7 DEF ProcInv, ListInv
<1>14. StartInv'
  BY <1>1, <1>7 DEF StartInv, Starting
<1>15. StartedOnce'
  BY <1>1, <1>3, <1>7, StartedKept DEF IInv, Waiting
<1>16. WakeInv'
  <2>1. ASSUME NEW q \in Procs, pc'[q] = "asleep", thr'[q] # NULL
        PROVE  pc[q] = "asleep" /\ thr'[q] = thr[q] /\ parent'[thr[q]] = parent[thr[q]]
    <3>1. q # 0 /\ pc[q] = "asleep" /\ thr'[q] = thr[q] /\ OwnInv(q)
      BY <1>7, <2>1 DEF IInv, ProcInv
    <3> QED BY <1>3, <1>6, <2>1, <3>1, ParentKept
  <2>2. \A p \in Procs : pc[p] \in {"assign", "bcast"} =>
          pc'[p] = pc[p] /\ frames'[p] = frames[p] /\ i'[p] = i[p]
    BY <1>1, <1>7
  <2> QED BY <2>1, <2>2, WakeKept DEF IInv
<1> QED BY <1>8, <1>9, <1>10, <1>11, <1>12, <1>13, <1>14, <1>15, <1>16 DEF IInv, ProcInv

\* The master has started its slaves; if there are any it goes on to wake them.
LEMMA AssignDoneInv == ASSUME IInv, NEW p \in Procs, AssignDone(p) PROVE IInv'
<1>1. /\ pc[p] = "assign" /\ i[p] = num_thds[Frame(p).cthd]
      /\ pc' = [pc EXCEPT ![p] = IF num_thds[Frame(p).cthd] > 1 THEN "bcast" ELSE "alloc"]
      /\ UNCHANGED <<counter, created, proc_lock, is_used, last_used, proc_mutex, thr, free_thr, mallocs,
                     parent, num, num_thds, in_parallel, arrived, frames, proclist, max_thds, i, flag>>
  BY DEF AssignDone, Goto, pool, heap, locals
<1>2. TypeInv /\ pc \in [Procs -> Labels] /\ i \in [Procs -> 1 .. N] /\ ProcInv(p) /\ StartInv
      /\ proclist \in [Procs -> Seq(Procs)]
  BY DEF IInv, TypeInv
<1>3. /\ pc'[p] = (IF num_thds[Frame(p).cthd] > 1 THEN "bcast" ELSE "alloc")
      /\ pc'[p] \in {"bcast", "alloc"}
      /\ \A q \in Procs \ {p} : pc'[q] = pc[q]
  BY <1>1, <1>2
<1>4. TypeInv'
  <2>1. pc' \in [Procs -> Labels]
    BY <1>1, <1>2 DEF Labels, Forking
  <2> QED BY <1>1, <1>2, <2>1 DEF TypeInv
<1>5. \A q \in Procs \ {p} : ProcInv(q)'
  <2>1. \A q \in Procs \ {p} : Same(q)
    BY <1>1, <1>3 DEF Same
  <2> QED BY <1>1, <2>1, SameInv DEF IInv
<1>6. OwnInv(p)'
  BY <1>1, <1>2, <1>3, OwnKept DEF ProcInv
<1>7. CountInv(p)'
  BY <1>1, <1>2, <1>3, CountKept DEF ProcInv, Forking
<1>8. PlaceInv(p)'
  BY <1>1, <1>2, <1>3, PlaceKept DEF ProcInv, Alike, Forking
<1>9. ListInv(p)'
  <2>1. Len(proclist[p]) = 0
    BY <1>1, <1>2, NAssumption, SMTT(20) DEF ProcInv, ListInv
  <2>2. proclist[p] = <<>>
    BY <1>2, <2>1, LenIs, SMTT(20)
  <2> QED BY <1>1, <1>3, <2>2, ListEmpty
<1>10. StartInv'
  BY <1>1, <1>2, <1>3, SMTT(20) DEF StartInv, Starting, Waiting
<1>11. StartedOnce'
  BY <1>1, <1>2, <1>3, StartedKept DEF IInv, Waiting
<1>12. WakeInv'
  <2> SUFFICES ASSUME NEW q \in Procs, pc'[q] = "asleep", thr'[q] # NULL
               PROVE  \E y \in Procs : Wakes(y, q)'
    BY DEF WakeInv
  <2>1. PICK y \in Procs : Wakes(y, q)
    BY <1>1, <1>3 DEF IInv, WakeInv
  <2>2. Wakes(y, q)'
    BY <1>1, <1>3, <2>1 DEF Wakes, Frame
  <2> QED BY <2>2
<1> QED BY <1>4, <1>5, <1>6, <1>7, <1>8, <1>9, <1>10, <1>11, <1>12 DEF IInv, ProcInv

\* After the broadcast nobody sleeps.
LEMMA BroadcastInv == ASSUME IInv, NEW p \in Procs, Broadcast(p) PROVE IInv'
<1>1. /\ pc[p] = "bcast"
      /\ pc' = [q \in Procs |-> IF q = p THEN "alloc" ELSE IF pc[q] = "asleep" THEN "mutex" ELSE pc[q]]
      /\ UNCHANGED <<counter, created, proc_lock, is_used, last_used, proc_mutex, thr, free_thr, mallocs,
                     parent, num, num_thds, in_parallel, arrived, frames, proclist, max_thds, i, flag>>
  BY DEF Broadcast, pool, heap, locals
<1>2. TypeInv /\ pc \in [Procs -> Labels] /\ StartInv
  BY DEF IInv, TypeInv
<1>3. /\ pc'[p] = "alloc"
      /\ \A q \in Procs \ {p} : pc'[q] = IF pc[q] = "asleep" THEN "mutex" ELSE pc[q]
  BY <1>1, <1>2
<1>4. TypeInv'
  <2>1. pc' \in [Procs -> Labels]
    BY <1>1, <1>2 DEF Labels, Forking, Waiting
  <2> QED BY <1>1, <1>2, <2>1 DEF TypeInv
<1>5. ASSUME NEW q \in Procs PROVE ProcInv(q)'
  <2>1. ProcInv(q)
    BY DEF IInv
  <2>2. CASE q # p /\ pc[q] # "asleep"
    BY <1>1, <1>3, <2>1, <2>2, SameInv DEF Same
  <2>3. CASE q = p \/ pc[q] = "asleep"
    <3>1. /\ (pc[q] = "bcast" /\ pc'[q] = "alloc") \/ (pc[q] = "asleep" /\ pc'[q] = "mutex")
          /\ proclist[q] = <<>>
      BY <1>1, <1>3, <2>1, <2>3 DEF ProcInv, ListInv
    <3>2. OwnInv(q)'
      BY <1>1, <2>1, <3>1, OwnKept DEF ProcInv
    <3>3. CountInv(q)'
      BY <1>1, <2>1, <3>1, CountKept DEF ProcInv, Forking
    <3>4. PlaceInv(q)'
      BY <1>1, <2>1, <3>1, PlaceKept DEF ProcInv, Alike, Forking, Waiting
    <3>5. ListInv(q)'
      BY <1>1, <3>1, ListEmpty
    <3> QED BY <3>2, <3>3, <3>4, <3>5 DEF ProcInv
  <2> QED BY <2>2, <2>3
<1>6. StartInv'
  <2>1. 0 \in Procs
    BY NAssumption, SMTT(20) DEF Procs
  <2>2. pc'[0] \in Starting => pc[0] \in Starting
    BY <1>3, <2>1 DEF Starting
  <2> QED BY <1>1, <2>2, StartKept DEF Starting, Waiting
<1>7. StartedOnce'
  BY <1>1, <1>2, <1>3, StartedKept DEF IInv, Waiting
<1>8. WakeInv'
  BY <1>1, <1>3 DEF WakeInv
<1> QED BY <1>4, <1>5, <1>6, <1>7, <1>8 DEF IInv

\* A thread becomes the master of a region.
LEMMA DoParallelInv ==
  ASSUME IInv, NEW p \in Procs, NEW cond \in {0, 1}, NEW nthds \in 1 .. N, DoParallel(p, cond, nthds)
  PROVE  IInv'
<1>1. /\ TypeInv /\ ProcInv(p) /\ StartInv
      /\ pc \in [Procs -> Labels] /\ thr \in [Procs -> Structs \cup {NULL}]
      /\ frames \in [Procs -> Seq(Frames)] /\ in_parallel \in [Structs -> {0, 1}]
      /\ max_thds \in [Procs -> 1 .. N] /\ i \in [Procs -> 1 .. N]
      /\ proclist \in [Procs -> Seq(Procs)]
  BY DEF IInv, TypeInv
<1>x. PICK x : x = IF cond = 0 THEN in_parallel[thr[p]] ELSE 1
  OBVIOUS
<1>2. PICK n \in 1 .. N : Begin(p, n, x)
  <2>1. 1 \in 1 .. N
    BY NAssumption, SMTT(20)
  <2> QED BY <1>x, <2>1 DEF DoParallel
<1>3. /\ pc[p] = "body" /\ Len(frames[p]) < MaxDepth
      /\ max_thds' = [max_thds EXCEPT ![p] = n]
      /\ frames' = [frames EXCEPT ![p] = <<[cthd |-> thr[p], tp |-> NULL, in_parallel |-> x]>> \o @]
      /\ i' = [i EXCEPT ![p] = 1] /\ proclist' = [proclist EXCEPT ![p] = <<>>]
      /\ pc' = [pc EXCEPT ![p] = "getproc"]
      /\ UNCHANGED <<counter, created, proc_lock, is_used, last_used, proc_mutex, thr, free_thr, mallocs,
                     parent, num, num_thds, in_parallel, arrived, flag>>
  BY <1>2 DEF Begin, Goto, pool, heap
<1>4. thr[p] # NULL /\ thr[p] \in Structs /\ thr[p] \in Own(p) /\ proclist[p] = <<>>
  BY <1>1, <1>3 DEF ProcInv, PlaceInv, OwnInv, ListInv
<1>5. PICK f : f = [cthd |-> thr[p], tp |-> NULL, in_parallel |-> x]
  OBVIOUS
<1>6. f \in Frames /\ f.cthd = thr[p]
  BY <1>1, <1>x, <1>4, <1>5 DEF Frames
<1>7. /\ pc'[p] = "getproc" /\ i'[p] = 1 /\ max_thds'[p] = n /\ proclist'[p] = <<>>
      /\ frames'[p] = <<f>> \o frames[p]
  BY <1>1, <1>3, <1>5
<1>8. \A q \in Procs \ {p} : /\ pc'[q] = pc[q] /\ i'[q] = i[q] /\ max_thds'[q] = max_thds[q]
                             /\ proclist'[q] = proclist[q] /\ frames'[q] = frames[q]
  BY <1>1, <1>3
<1>9. /\ frames'[p] \in Seq(Frames) /\ Len(frames'[p]) = Len(frames[p]) + 1 /\ frames'[p] # <<>>
      /\ frames'[p][1] = f /\ \A k \in 1 .. Len(frames[p]) : frames'[p][k + 1] = frames[p][k]
      /\ Len(frames[p]) \in Nat
  BY <1>1, <1>6, <1>7, PushFront, LenIs, SMTT(20)
<1>10. TypeInv'
  <2>1. pc' \in [Procs -> Labels]
    BY <1>1, <1>3 DEF Labels, Forking
  <2>2. max_thds' \in [Procs -> 1 .. N] /\ i' \in [Procs -> 1 .. N]
    BY <1>1, <1>3, NAssumption, SMTT(20)
  <2>3. frames' \in [Procs -> Seq(Frames)]
    BY <1>1, <1>3, <1>7, <1>9
  <2>4. proclist' \in [Procs -> Seq(Procs)]
    BY <1>1, <1>3, <1>4, <1>7
  <2> QED BY <1>1, <1>3, <2>1, <2>2, <2>3, <2>4 DEF TypeInv
<1>11. \A q \in Procs \ {p} : ProcInv(q)'
  <2>1. \A q \in Procs \ {p} : Same(q)
    BY <1>3, <1>8 DEF Same
  <2> QED BY <1>3, <2>1, SameInv DEF IInv
<1>12. OwnInv(p)'
  <2>1. Own(p)' = Own(p) /\ Elements(free_thr[p])' \subseteq Own(p)
    <3>1. Own(p)' = Own(p) /\ Elements(free_thr[p])' = Elements(free_thr[p])
      BY <1>3 DEF Own, Elements
    <3> QED BY <1>1, <3>1 DEF ProcInv, OwnInv
  <2>2. ASSUME NEW k \in 1 .. Len(frames'[p])
        PROVE  frames'[p][k].cthd \in Own(p) /\ (k > 1 => frames'[p][k].tp \in Own(p))
    <3>1. CASE k = 1
      BY <1>4, <1>6, <1>9, <3>1, SMTT(20)
    <3>2. CASE k # 1
      <4>1. k - 1 \in 1 .. Len(frames[p]) /\ frames'[p][k] = frames[p][k - 1]
        BY <1>9, <3>2, SMTT(20)
      <4> QED BY <1>1, <1>3, <4>1 DEF ProcInv, OwnInv
    <3> QED BY <3>1, <3>2
  <2> QED BY <1>3, <1>4, <1>7, <2>1, <2>2 DEF OwnInv
<1>13. CountInv(p)'
  <2>1. InUse(p) = Len(frames[p]) + 1 /\ InUse(p)' = Len(frames'[p])
    BY <1>3, <1>4, <1>7 DEF InUse, Forking
  <2>2. mallocs[p] = Len(free_thr[p]) + InUse(p) /\ Len(frames[p]) < MaxDepth
    BY <1>1, <1>3 DEF ProcInv, CountInv
  <2>3. Len(frames'[p]) = Len(frames[p]) + 1 /\ Len(frames[p]) \in Nat
    BY <1>9
  <2>4. Len(frames'[p]) <= MaxDepth
    BY <2>2, <2>3, MaxDepthAssumption, SMTT(20)
  <2> QED BY <1>3, <2>1, <2>2, <2>3, <2>4 DEF CountInv
<1>14. PlaceInv(p)'
  BY <1>1, <1>3, <1>7, <1>9 DEF ProcInv, PlaceInv, Starting, Forking, Leaving, Waiting
<1>15. ListInv(p)'
  BY <1>3, <1>7, SMTT(20) DEF ListInv
<1>16. StartInv'
  BY <1>1, <1>3, <1>7, <1>8, StartKept, StartedUp DEF Starting, Waiting
<1>17. StartedOnce'
  <2>1. proclist' = proclist
    BY <1>1, <1>3, <1>4
  <2> QED BY <1>1, <1>3, <1>7, <1>8, <2>1, StartedKept DEF IInv, Waiting
<1>18. WakeInv'
  BY <1>3, <1>7, <1>8, WakeKept DEF IInv
<1> QED BY <1>10, <1>11, <1>12, <1>13, <1>14, <1>15, <1>16, <1>17, <1>18 DEF IInv, ProcInv

\* ompc_get_proc marks a processor that is free, wherever its search starts.
LEMMA GetsFree ==
  ASSUME IInv, NEW p \in Procs, GetProc(p)
  PROVE  \E q \in Procs : /\ ~is_used[q] /\ is_used' = [is_used EXCEPT ![q] = TRUE]
                          /\ last_used' \in Procs /\ proclist' = [proclist EXCEPT ![p] = <<q>> \o @]
<1>1. last_used \in Procs /\ max_thds \in [Procs -> 1 .. N] /\ i \in [Procs -> 1 .. N]
  BY DEF IInv, TypeInv
<1>2. i[p] < max_thds[p]
  BY DEF GetProc
<1>3. PICK k \in 0 .. N :
        /\ ~is_used[Probe(i[p], k)]
        /\ is_used' = [is_used EXCEPT ![Probe(i[p], k)] = TRUE]
        /\ last_used' = IF k = 0 THEN last_used ELSE Probe(i[p], k)
        /\ proclist' = [proclist EXCEPT ![p] = <<Probe(i[p], k)>> \o @]
  BY DEF GetProc
<1>4. PICK q : q = Probe(i[p], k)
  OBVIOUS
<1>5. q \in Procs
  <2>1. i[p] \in 1 .. N /\ max_thds[p] \in 1 .. N
    BY <1>1
  <2>2. CASE k = 0
    BY <1>2, <1>4, <2>1, <2>2, NAssumption, SMTT(20) DEF Probe, Procs
  <2>3. CASE k # 0
    <3>1. q = (last_used + k) % N /\ last_used + k \in Nat
      BY <1>1, <1>4, <2>3, NAssumption, SMTT(20) DEF Probe, Procs
    <3> QED BY <3>1, NAssumption, SMTT(20) DEF Procs
  <2> QED BY <2>2, <2>3
<1>6. /\ ~is_used[q] /\ is_used' = [is_used EXCEPT ![q] = TRUE]
      /\ last_used' \in Procs /\ proclist' = [proclist EXCEPT ![p] = <<q>> \o @]
  BY <1>1, <1>3, <1>4, <1>5
<1> QED BY <1>5, <1>6

\* The processor that ompc_get_proc returns is free, registered and on no list.
LEMMA GetProcInv == ASSUME IInv, NEW p \in Procs, GetProc(p) PROVE IInv'
<1>1. /\ TypeInv /\ ProcInv(p) /\ StartInv /\ StartedOnce
      /\ pc \in [Procs -> Labels] /\ is_used \in [Procs -> BOOLEAN] /\ last_used \in Procs
      /\ max_thds \in [Procs -> 1 .. N] /\ i \in [Procs -> 1 .. N]
      /\ proclist \in [Procs -> Seq(Procs)]
  BY DEF IInv, TypeInv
<1>2. /\ pc[p] = "getproc" /\ i[p] < max_thds[p] /\ proc_lock = NULL
      /\ i' = [i EXCEPT ![p] = @ + 1]
      /\ UNCHANGED <<counter, created, proc_lock, proc_mutex, thr, free_thr, mallocs, parent, num,
                     num_thds, in_parallel, arrived, pc, frames, max_thds, flag>>
  BY DEF GetProc, heap
<1>3. PICK q \in Procs : /\ ~is_used[q] /\ is_used' = [is_used EXCEPT ![q] = TRUE]
                         /\ last_used' \in Procs /\ proclist' = [proclist EXCEPT ![p] = <<q>> \o @]
  BY GetsFree
<1>4. q \in Procs
  OBVIOUS
<1>5. counter = N /\ pc[0] \notin Starting
  BY <1>1, <1>2 DEF StartInv, Starting, Waiting
<1>6. ProcInv(q) /\ thr[q] = NULL /\ pc[q] \in Waiting \cup {"signal"} /\ q # p
  <2>1. ProcInv(q)
    BY <1>4 DEF IInv
  <2>2. ~(q >= counter)
    BY <1>4, <1>5, NAssumption, SMTT(20) DEF Procs
  <2>3. proc_lock # q
    BY <1>2, <1>4, NullAssumption
  <2>4. thr[q] = NULL /\ pc[q] \in Waiting \cup {"signal"}
    BY <1>3, <2>1, <2>2, <2>3 DEF ProcInv, PlaceInv
  <2> QED BY <1>2, <2>1, <2>4 DEF Waiting
<1>7. \A r \in Procs : q \notin Elements(proclist[r])
  BY <1>1, <1>3, <1>4 DEF StartedOnce
<1>8. /\ i'[p] = i[p] + 1 /\ proclist'[p] = <<q>> \o proclist[p] /\ is_used'[q]
      /\ \A r \in Procs \ {p} : i'[r] = i[r] /\ proclist'[r] = proclist[r]
      /\ \A r \in Procs \ {q} : is_used'[r] = is_used[r]
  BY <1>1, <1>2, <1>3, <1>4
<1>9. /\ proclist'[p] \in Seq(Procs) /\ Len(proclist'[p]) = Len(proclist[p]) + 1
      /\ proclist'[p][1] = q /\ \A m \in 1 .. Len(proclist[p]) : proclist'[p][m + 1] = proclist[p][m]
      /\ Elements(proclist'[p]) = {q} \cup Elements(proclist[p])
      /\ Len(proclist[p]) \in Nat
  BY <1>1, <1>4, <1>8, PushFront, LenIs, SMTT(20)
<1>10. TypeInv'
  <2>1. is_used' \in [Procs -> BOOLEAN]
    BY <1>1, <1>3
  <2>2. i' \in [Procs -> 1 .. N]
    <3>1. i[p] + 1 \in 1 .. N
      BY <1>1, <1>2, NAssumption, SMTT(20)
    <3> QED BY <1>1, <1>2, <3>1
  <2>3. proclist' \in [Procs -> Seq(Procs)]
    BY <1>1, <1>3, <1>8, <1>9
  <2> QED BY <1>1, <1>2, <1>3, <2>1, <2>2, <2>3 DEF TypeInv
<1>11. \A r \in Procs \ {p, q} : ProcInv(r)'
  <2>1. \A r \in Procs \ {p, q} : Same(r)
    BY <1>2, <1>8 DEF Same
  <2> QED BY <1>2, <2>1, SameInv DEF IInv
<1>12. ProcInv(q)'
  <2>1. OwnInv(q)'
    BY <1>2, <1>4, <1>6, OwnKept DEF ProcInv
  <2>2. CountInv(q)'
    BY <1>2, <1>4, <1>6, CountKept DEF ProcInv
  <2>3. PlaceInv(q)'
    BY <1>2, <1>6, <1>8 DEF ProcInv, PlaceInv, Waiting, Starting, Forking, Leaving
  <2>4. ListInv(q)'
    <3>1. pc[q] \notin {"getproc", "assign"}
      BY <1>6 DEF Waiting
    <3>2. proclist[q] = <<>>
      BY <1>6, <3>1 DEF ProcInv, ListInv
    <3> QED BY <1>2, <1>4, <1>6, <1>8, <3>1, <3>2, ListEmpty
  <2> QED BY <2>1, <2>2, <2>3, <2>4 DEF ProcInv
<1>13. ProcInv(p)'
  <2>1. OwnInv(p)'
    BY <1>1, <1>2, OwnKept DEF ProcInv
  <2>2. CountInv(p)'
    BY <1>1, <1>2, CountKept DEF ProcInv
  <2>3. PlaceInv(p)'
    BY <1>1, <1>2, <1>6, <1>8, PlaceKept DEF ProcInv, Alike, Forking
  <2>4. ListInv(p)'
    <3>1. i'[p] <= max_thds'[p] /\ Len(proclist'[p]) = i'[p] - 1
      <4>1. /\ i[p] \in 1 .. N /\ max_thds[p] \in 1 .. N /\ i[p] < max_thds[p]
            /\ Len(proclist[p]) = i[p] - 1
        BY <1>1, <1>2 DEF ProcInv, ListInv
      <4>2. i[p] + 1 <= max_thds[p] /\ Len(proclist[p]) + 1 = (i[p] + 1) - 1
        BY <4>1, NAssumption, SMTT(20)
      <4> QED BY <1>2, <1>8, <1>9, <4>2
    <3>2. ASSUME NEW a \in 1 .. Len(proclist'[p]), NEW b \in 1 .. Len(proclist'[p]),
                 proclist'[p][a] = proclist'[p][b]
          PROVE  a = b
      <4>1. \A m \in 1 .. Len(proclist[p]) : proclist[p][m] \in Elements(proclist[p]) /\ proclist[p][m] # q
        <5>1. DOMAIN proclist[p] = 1 .. Len(proclist[p])
          BY <1>1, LenIs
        <5> QED BY <1>7, <5>1 DEF Elements
      <4>2. \A m \in 1 .. Len(proclist'[p]) : m # 1 =>
              m - 1 \in 1 .. Len(proclist[p]) /\ proclist'[p][m] = proclist[p][m - 1]
        <5> SUFFICES ASSUME NEW m \in 1 .. Len(proclist'[p]), m # 1
                     PROVE  m - 1 \in 1 .. Len(proclist[p]) /\ proclist'[p][m] = proclist[p][m - 1]
          OBVIOUS
        <5>0. Len(proclist'[p]) = Len(proclist[p]) + 1 /\ Len(proclist[p]) \in Nat
          BY <1>9
        <5>1. m - 1 \in 1 .. Len(proclist[p]) /\ (m - 1) + 1 = m
          BY <5>0, SMTT(20)
        <5> QED BY <1>9, <5>1
      <4>3. CASE a = 1 \/ b = 1
        <5>1. \A m \in 1 .. Len(proclist'[p]) : m # 1 => proclist'[p][m] # q
          BY <4>1, <4>2
        <5> QED BY <1>9, <3>2, <4>3, <5>1
      <4>4. CASE a # 1 /\ b # 1
        <5>0. proclist[p][a - 1] = proclist[p][b - 1]
          BY <3>2, <4>2, <4>4
        <5>1. a - 1 = b - 1
          BY <1>1, <4>2, <4>4, <5>0 DEF ProcInv, ListInv
        <5> QED BY <1>9, <5>1, SMTT(20)
      <4> QED BY <4>3, <4>4
    <3> QED BY <1>2, <3>1, <3>2 DEF ListInv
  <2> QED BY <2>1, <2>2, <2>3, <2>4 DEF ProcInv
<1>14. StartInv'
  BY <1>1, <1>2 DEF StartInv
<1>15. StartedOnce'
  <2> SUFFICES ASSUME NEW r \in Procs, NEW x \in Procs, x \in Elements(proclist'[r])
               PROVE  /\ thr'[x] = NULL /\ is_used'[x]
                      /\ pc'[x] \in {"spin", "mutex", "recheck", "asleep", "signal"}
                      /\ \A z \in Procs \ {r} : x \notin Elements(proclist'[z])
    BY DEF StartedOnce, Elements
  <2>1. \A z \in Procs : Elements(proclist'[z]) =
          IF z = p THEN {q} \cup Elements(proclist[z]) ELSE Elements(proclist[z])
    BY <1>8, <1>9
  <2>2. CASE x = q
    <3>1. r = p
      BY <1>7, <2>1, <2>2
    <3> QED BY <1>2, <1>6, <1>7, <1>8, <2>1, <2>2, <3>1 DEF Waiting
  <2>3. CASE x # q
    <3>1. x \in Elements(proclist[r])
      BY <2>1, <2>3
    <3>2. /\ thr[x] = NULL /\ is_used[x] /\ pc[x] \in {"spin", "mutex", "recheck", "asleep", "signal"}
          /\ \A z \in Procs \ {r} : x \notin Elements(proclist[z])
      BY <1>1, <3>1 DEF StartedOnce
    <3> QED BY <1>2, <1>8, <2>1, <2>3, <3>2
  <2> QED BY <2>2, <2>3
<1>16. WakeInv'
  <2>1. \A r \in Procs : pc[r] \in {"assign", "bcast"} =>
          pc'[r] = pc[r] /\ frames'[r] = frames[r] /\ i'[r] = i[r]
    BY <1>2, <1>8
  <2> QED BY <1>2, <2>1, WakeKept DEF IInv
<1> QED BY <1>10, <1>11, <1>12, <1>13, <1>14, <1>15, <1>16 DEF IInv

\* The head of a stack of frames.
LEMMA FrameIsFirst ==
  ASSUME TypeInv, NEW p \in Procs, frames[p] # <<>>
  PROVE  /\ Frame(p) = frames[p][1] /\ Frame(p) \in Frames /\ 1 \in 1 .. Len(frames[p])
         /\ Frame(p).cthd \in Structs /\ Frame(p).in_parallel \in {0, 1}
<1>1. frames[p] \in Seq(Frames)
  BY DEF TypeInv
<1>2. Head(frames[p]) = frames[p][1] /\ Head(frames[p]) \in Frames /\ Len(frames[p]) > 0
      /\ Len(frames[p]) \in Nat
  BY <1>1, TakeFront, LenIs
<1> QED BY <1>2, SMTT(20) DEF Frame, Frames

\* The parent structure belongs to the master, so other masters keep their count.
LEMMA InitParentInv == ASSUME IInv, NEW p \in Procs, InitParent(p) PROVE IInv'
<1>1. /\ TypeInv /\ ProcInv(p) /\ StartInv
      /\ pc \in [Procs -> Labels] /\ num_thds \in [Structs -> 0 .. N]
      /\ arrived \in [Structs -> SUBSET Procs] /\ i \in [Procs -> 1 .. N]
  BY DEF IInv, TypeInv
<1>2. /\ pc[p] = "getproc"
      /\ num_thds' = [num_thds EXCEPT ![Frame(p).cthd] = i[p]]
      /\ arrived' = [arrived EXCEPT ![Frame(p).cthd] = {}]
      /\ i' = [i EXCEPT ![p] = 1] /\ pc' = [pc EXCEPT ![p] = "assign"]
      /\ UNCHANGED <<counter, created, proc_lock, is_used, last_used, proc_mutex, thr, free_thr, mallocs,
                     parent, num, in_parallel, frames, proclist, max_thds, flag>>
  BY DEF InitParent, Goto, pool
<1>3. frames[p] # <<>>
  BY <1>1, <1>2 DEF ProcInv, PlaceInv, Forking
<1>4. Frame(p) = frames[p][1] /\ Frame(p).cthd \in Structs /\ Frame(p).cthd \in Own(p)
  <2>1. Frame(p) = frames[p][1] /\ Frame(p).cthd \in Structs /\ 1 \in 1 .. Len(frames[p])
    BY <1>1, <1>3, FrameIsFirst
  <2> QED BY <1>1, <2>1 DEF ProcInv, OwnInv
<1>5. /\ pc'[p] = "assign" /\ i'[p] = 1 /\ num_thds'[Frame(p).cthd] = i[p]
      /\ \A q \in Procs \ {p} : pc'[q] = pc[q] /\ i'[q] = i[q]
      /\ \A s \in Structs : s # Frame(p).cthd => num_thds'[s] = num_thds[s]
  BY <1>1, <1>2, <1>4
<1>6. TypeInv'
  <2>1. pc' \in [Procs -> Labels]
    BY <1>1, <1>2 DEF Labels, Forking
  <2>2. i' \in [Procs -> 1 .. N]
    BY <1>1, <1>2, NAssumption, SMTT(20)
  <2>3. i[p] \in 0 .. N
    BY <1>1, NAssumption, SMTT(20)
  <2>4. num_thds' \in [Structs -> 0 .. N]
    BY <1>1, <1>2, <2>3
  <2>5. arrived' \in [Structs -> SUBSET Procs]
    BY <1>1, <1>2
  <2> QED BY <1>1, <1>2, <2>1, <2>2, <2>4, <2>5 DEF TypeInv
<1>7. ASSUME NEW q \in Procs PROVE OwnInv(q)' /\ CountInv(q)' /\ PlaceInv(q)'
  <2>1. ProcInv(q)
    BY DEF IInv
  <2>2. pc'[q] = pc[q] \/ (pc[q] = "getproc" /\ pc'[q] = "assign")
    BY <1>2, <1>5
  <2>3. OwnInv(q)'
    BY <1>2, <2>1, <2>2, OwnKept DEF ProcInv
  <2>4. CountInv(q)'
    BY <1>2, <2>1, <2>2, CountKept DEF ProcInv, Forking
  <2>5. PlaceInv(q)'
    <3>1. CASE pc'[q] = pc[q]
      BY <1>2, <2>1, <3>1 DEF ProcInv, PlaceInv
    <3>2. CASE pc[q] = "getproc" /\ pc'[q] = "assign"
      BY <1>2, <2>1, <3>2, PlaceKept DEF ProcInv, Alike, Forking
    <3> QED BY <2>2, <3>1, <3>2
  <2> QED BY <2>3, <2>4, <2>5
<1>8. ASSUME NEW q \in Procs PROVE ListInv(q)'
  <2>1. ListInv(q) /\ OwnInv(q) /\ PlaceInv(q)
    BY DEF IInv, ProcInv
  <2>2. CASE q = p
    <3>1. Len(proclist[p]) = i[p] - 1
      BY <1>2, <2>1, <2>2 DEF ListInv
    <3>2. Frame(p)' = Frame(p) /\ proclist'[p] = proclist[p]
      BY <1>2 DEF Frame
    <3>3. Len(proclist'[p]) = num_thds'[Frame(p)'.cthd] - i'[p]
      <4>1. num_thds'[Frame(p)'.cthd] = i[p]
        BY <1>5, <3>2
      <4>2. Len(proclist'[p]) = i[p] - 1 /\ i'[p] = 1
        BY <1>5, <3>1, <3>2
      <4> QED BY <4>1, <4>2, SMTT(20)
    <3>4. \A a, b \in 1 .. Len(proclist[p]) : proclist[p][a] = proclist[p][b] => a = b
      BY <2>1, <2>2 DEF ListInv
    <3>5. pc'[p] = "assign"
      BY <1>5
    <3>6. ListInv(p)'
      BY <3>2, <3>3, <3>4, <3>5 DEF ListInv
    <3> QED BY <2>2, <3>6
  <2>3. CASE q # p /\ pc[q] = "assign"
    <3>1. frames[q] # <<>>
      BY <2>1, <2>3 DEF PlaceInv, Forking
    <3>2. Frame(q) = frames[q][1] /\ Frame(q).cthd \in Structs /\ 1 \in 1 .. Len(frames[q])
      BY <1>1, <3>1, FrameIsFirst
    <3>3. Frame(q).cthd \in {q} \X (1 .. mallocs[q]) /\ Frame(p).cthd \in {p} \X (1 .. mallocs[p])
      BY <1>4, <2>1, <3>2 DEF OwnInv, Own
    <3>4. Frame(q).cthd # Frame(p).cthd
      BY <2>3, <3>3, OwnApart
    <3>5. num_thds'[Frame(q).cthd] = num_thds[Frame(q).cthd]
      BY <1>5, <3>2, <3>4
    <3> QED BY <1>2, <1>5, <2>1, <2>3, <3>5 DEF ListInv, Frame
  <2>4. CASE q # p /\ pc[q] # "assign"
    BY <1>2, <1>5, <2>1, <2>4 DEF ListInv
  <2> QED BY <2>2, <2>3, <2>4
<1>9. StartInv'
  BY <1>2, <1>5, StartKept, StartedUp DEF Starting, Waiting
<1>10. StartedOnce'
  BY <1>1, <1>2, <1>5, StartedKept DEF IInv, Waiting
<1>11. WakeInv'
  BY <1>2, <1>5, WakeKept DEF IInv
<1> QED BY <1>6, <1>7, <1>8, <1>9, <1>10, <1>11 DEF IInv, ProcInv

\* The processor q at the head of the list is idle, and gets structure s.
Assigned(p, q, s) ==
  /\ pc[p] = "assign" /\ i[p] < num_thds[Frame(p).cthd]
  /\ TakeThread(q, s, Frame(p).cthd, i[p], Frame(p).in_parallel)
  /\ thr' = [thr EXCEPT ![q] = s]
  /\ proclist' = [proclist EXCEPT ![p] = Tail(@)] /\ i' = [i EXCEPT ![p] = @ + 1]
  /\ UNCHANGED <<counter, created, proc_lock, is_used, last_used, proc_mutex, arrived, pc,
                 frames, max_thds, flag>>
  /\ frames[p] # <<>> /\ Frame(p).cthd \in Structs
  /\ num_thds[Frame(p).cthd] \in 0 .. N /\ i[p] \in 1 .. N
  /\ i[p] + 1 \in 1 .. N
  /\ proclist[p] \in Seq(Procs) /\ proclist[p] # <<>>
  /\ Len(proclist[p]) = num_thds[Frame(p).cthd] - i[p] /\ Len(proclist[p]) \in Nat
  /\ q = Head(proclist[p])
  /\ thr[q] = NULL /\ is_used[q] /\ pc[q] \in {"spin", "mutex", "recheck", "asleep", "signal"}
  /\ \A r \in Procs \ {p} : q \notin Elements(proclist[r])
  /\ q # p /\ ProcInv(q) /\ frames[q] = <<>> /\ Len(frames[q]) = 0 /\ InUse(q) = 0
  /\ Takes(q, s, Frame(p).cthd)

\* There is a processor on the list for every number that is left.
LEMMA Assigns ==
  ASSUME IInv, NEW p \in Procs, Assign(p)
  PROVE  \E q \in Procs, s \in Structs : Assigned(p, q, s)
<1>1. /\ TypeInv /\ ProcInv(p) /\ StartInv /\ StartedOnce
      /\ thr \in [Procs -> Structs \cup {NULL}] /\ num_thds \in [Structs -> 0 .. N]
      /\ i \in [Procs -> 1 .. N] /\ proclist \in [Procs -> Seq(Procs)]
  BY DEF IInv, TypeInv
<1>2. PICK q : q = Head(proclist[p])
  OBVIOUS
<1>3. PICK s : s = AllocThread(q)
  OBVIOUS
<1>4. /\ pc[p] = "assign" /\ i[p] < num_thds[Frame(p).cthd]
      /\ TakeThread(q, s, Frame(p).cthd, i[p], Frame(p).in_parallel)
      /\ thr' = [thr EXCEPT ![q] = s]
      /\ proclist' = [proclist EXCEPT ![p] = Tail(@)] /\ i' = [i EXCEPT ![p] = @ + 1]
      /\ UNCHANGED <<counter, created, proc_lock, is_used, last_used, proc_mutex, arrived, pc,
                     frames, max_thds, flag>>
  BY <1>2, <1>3 DEF Assign, AssignAs, pool
<1>5. /\ frames[p] # <<>> /\ Frame(p).cthd \in Structs /\ Frame(p).in_parallel \in {0, 1}
      /\ num_thds[Frame(p).cthd] \in 0 .. N /\ i[p] \in 1 .. N
  <2>1. frames[p] # <<>>
    BY <1>1, <1>4 DEF ProcInv, PlaceInv, Forking
  <2>2. Frame(p).cthd \in Structs /\ Frame(p).in_parallel \in {0, 1}
    BY <1>1, <2>1, FrameIsFirst
  <2> QED BY <1>1, <2>1, <2>2
<1>6. i[p] \in Procs /\ i[p] + 1 \in 1 .. N
  <2>1. /\ i[p] < num_thds[Frame(p).cthd] /\ num_thds[Frame(p).cthd] \in 0 .. N
        /\ i[p] \in 1 .. N
    BY <1>4, <1>5
  <2> QED BY <2>1, NAssumption, SMTT(20) DEF Procs
<1>7. /\ proclist[p] \in Seq(Procs) /\ proclist[p] # <<>>
      /\ Len(proclist[p]) = num_thds[Frame(p).cthd] - i[p] /\ Len(proclist[p]) \in Nat
  <2>1. Len(proclist[p]) = num_thds[Frame(p).cthd] - i[p] /\ proclist[p] \in Seq(Procs)
    BY <1>1, <1>4 DEF ProcInv, ListInv
  <2>2. Len(proclist[p]) > 0
    <3>1. /\ i[p] < num_thds[Frame(p).cthd] /\ num_thds[Frame(p).cthd] \in 0 .. N
          /\ i[p] \in 1 .. N
      BY <1>4, <1>5
    <3> QED BY <2>1, <3>1, NAssumption, SMTT(20)
  <2> QED BY <2>1, <2>2, LenIs
<1>8. /\ Tail(proclist[p]) \in Seq(Procs) /\ Len(Tail(proclist[p])) = Len(proclist[p]) - 1
      /\ q \in Procs /\ q = proclist[p][1] /\ q \in Elements(proclist[p])
      /\ \A k \in 1 .. Len(Tail(proclist[p])) : Tail(proclist[p])[k] = proclist[p][k + 1]
      /\ Elements(Tail(proclist[p])) \subseteq Elements(proclist[p])
  BY <1>2, <1>7, TakeFront
<1>9. /\ thr[q] = NULL /\ is_used[q] /\ pc[q] \in {"spin", "mutex", "recheck", "asleep", "signal"}
      /\ \A r \in Procs \ {p} : q \notin Elements(proclist[r])
  BY <1>1, <1>8 DEF StartedOnce
<1>10. q # p /\ ProcInv(q) /\ frames[q] = <<>> /\ Len(frames[q]) = 0 /\ InUse(q) = 0
  <2>1. q # p /\ ProcInv(q)
    BY <1>4, <1>8, <1>9 DEF IInv
  <2> QED BY <1>9, <2>1 DEF ProcInv, PlaceInv, Forking, InUse
<1>11. Takes(q, s, Frame(p).cthd)
  <2>1. InUse(q) <= MaxDepth
    BY <1>10, MaxDepthAssumption, SMTT(20)
  <2>2. OwnInv(q) /\ CountInv(q) /\ Frame(p).cthd \in Structs \cup {NULL}
    BY <1>5, <1>10 DEF ProcInv
  <2> QED BY <1>1, <1>4, <1>5, <1>6, <1>8, <2>1, <2>2, Taken
<1>12. Assigned(p, q, s)
  BY <1>2, <1>4, <1>5, <1>6, <1>7, <1>9, <1>10, <1>11 DEF Assigned
<1>13. q \in Procs /\ s \in Structs
  BY <1>8, <1>11 DEF Takes
<1> QED BY <1>12, <1>13

\* The processor at the head of the list gets its thread: it is on no list any more, and
\* its master will wake it.
LEMMA AssignInv == ASSUME IInv, NEW p \in Procs, Assign(p) PROVE IInv'
<1>1. /\ TypeInv /\ ProcInv(p) /\ StartInv /\ StartedOnce
      /\ thr \in [Procs -> Structs \cup {NULL}] /\ num_thds \in [Structs -> 0 .. N]
      /\ i \in [Procs -> 1 .. N] /\ proclist \in [Procs -> Seq(Procs)]
  BY DEF IInv, TypeInv
<1>2. PICK q \in Procs, s \in Structs : Assigned(p, q, s)
  BY Assigns
<1>4. /\ pc[p] = "assign" /\ i[p] < num_thds[Frame(p).cthd]
      /\ TakeThread(q, s, Frame(p).cthd, i[p], Frame(p).in_parallel)
      /\ thr' = [thr EXCEPT ![q] = s]
      /\ proclist' = [proclist EXCEPT ![p] = Tail(@)] /\ i' = [i EXCEPT ![p] = @ + 1]
      /\ UNCHANGED <<counter, created, proc_lock, is_used, last_used, proc_mutex, arrived, pc,
                     frames, max_thds, flag>>
  BY <1>2 DEF Assigned
<1>5. /\ frames[p] # <<>> /\ Frame(p).cthd \in Structs
      /\ num_thds[Frame(p).cthd] \in 0 .. N /\ i[p] \in 1 .. N
  BY <1>2 DEF Assigned
<1>6. i[p] + 1 \in 1 .. N
  BY <1>2 DEF Assigned
<1>7. /\ proclist[p] \in Seq(Procs) /\ proclist[p] # <<>>
      /\ Len(proclist[p]) = num_thds[Frame(p).cthd] - i[p] /\ Len(proclist[p]) \in Nat
  BY <1>2 DEF Assigned
<1>8. /\ Tail(proclist[p]) \in Seq(Procs) /\ Len(Tail(proclist[p])) = Len(proclist[p]) - 1
      /\ q \in Procs /\ q = proclist[p][1] /\ q \in Elements(proclist[p])
      /\ \A k \in 1 .. Len(Tail(proclist[p])) : Tail(proclist[p])[k] = proclist[p][k + 1]
      /\ Elements(Tail(proclist[p])) \subseteq Elements(proclist[p])
  <2>1. q = Head(proclist[p])
    BY <1>2 DEF Assigned
  <2> QED BY <1>7, <2>1, TakeFront
<1>9. /\ thr[q] = NULL /\ is_used[q] /\ pc[q] \in {"spin", "mutex", "recheck", "asleep", "signal"}
      /\ \A r \in Procs \ {p} : q \notin Elements(proclist[r])
  BY <1>2 DEF Assigned
<1>10. q # p /\ ProcInv(q) /\ frames[q] = <<>> /\ Len(frames[q]) = 0 /\ InUse(q) = 0
  BY <1>2 DEF Assigned
<1>11. /\ s \in Structs /\ s \in Own(q)' /\ Own(q) \subseteq Own(q)'
       /\ free_thr' \in [Procs -> Seq(Structs)] /\ mallocs' \in [Procs -> 0 .. MaxDepth+1]
       /\ parent' \in [Structs -> Structs \cup {NULL}] /\ num' \in [Structs -> Procs]
       /\ num_thds' = num_thds /\ in_parallel' \in [Structs -> {0, 1}]
       /\ Elements(free_thr'[q]) \subseteq Own(q)'
       /\ mallocs'[q] = Len(free_thr'[q]) + InUse(q) + 1
       /\ \A r \in Procs \ {q} : free_thr'[r] = free_thr[r] /\ mallocs'[r] = mallocs[r]
       /\ \A t \in Structs \ {s} : parent'[t] = parent[t]
       /\ parent'[s] = Frame(p).cthd
  BY <1>2 DEF Assigned, Takes
<1>12. s # NULL
  BY <1>11, NullAssumption
<1>13. /\ thr'[q] = s /\ i'[p] = i[p] + 1 /\ proclist'[p] = Tail(proclist[p])
       /\ \A r \in Procs \ {q} : thr'[r] = thr[r]
       /\ \A r \in Procs \ {p} : i'[r] = i[r] /\ proclist'[r] = proclist[r]
  BY <1>1, <1>4, <1>8
<1>14. TypeInv'
  <2>1. thr' \in [Procs -> Structs \cup {NULL}]
    BY <1>1, <1>4, <1>11
  <2>2. i' \in [Procs -> 1 .. N]
    BY <1>1, <1>4, <1>6
  <2>3. proclist' \in [Procs -> Seq(Procs)]
    BY <1>1, <1>4, <1>8
  <2> QED BY <1>1, <1>4, <1>11, <2>1, <2>2, <2>3 DEF TypeInv
<1>15. \A r \in Procs \ {p, q} : ProcInv(r)'
  <2>1. \A r \in Procs \ {p, q} : Same(r)
    BY <1>4, <1>11, <1>13 DEF Same
  <2> QED BY <1>4, <1>11, <2>1, SameInv DEF IInv
<1>16. ProcInv(q)'
  <2>0. frames'[q] = <<>> /\ pc'[q] # "freethr" /\ Len(frames'[q]) = 0
    BY <1>4, <1>9, <1>10
  <2>1. OwnInv(q)'
    <3>1. Elements(free_thr[q])' \subseteq Own(q)' /\ thr'[q] \in Own(q)'
      BY <1>11, <1>13 DEF Elements
    <3> QED BY <1>8, <2>0, <3>1, OwnFresh
  <2>2. CountInv(q)'
    <3>1. InUse(q)' = Len(frames'[q]) + 1
      BY <1>4, <1>9, <1>12, <1>13, <2>0 DEF InUse, Forking
    <3>2. mallocs'[q] = Len(free_thr'[q]) + InUse(q)' /\ Len(frames'[q]) <= MaxDepth
      <4>1. mallocs'[q] = Len(free_thr'[q]) + 0 + 1 /\ free_thr'[q] \in Seq(Structs)
        BY <1>8, <1>10, <1>11
      <4> QED BY <2>0, <3>1, <4>1, MaxDepthAssumption, SMTT(20)
    <3> QED BY <3>2 DEF CountInv
  <2>3. PlaceInv(q)'
    BY <1>4, <1>9, <1>10, <1>13 DEF ProcInv, PlaceInv, Starting, Forking, Leaving, Waiting
  <2>4. ListInv(q)'
    <3>1. pc[q] \notin {"getproc", "assign"}
      BY <1>9
    <3>2. proclist[q] = <<>>
      BY <1>10, <3>1 DEF ProcInv, ListInv
    <3>3. proclist'[q] = <<>> /\ pc'[q] = pc[q]
      BY <1>4, <1>8, <1>10, <1>13, <3>2
    <3> QED BY <1>8, <3>1, <3>3, ListEmpty
  <2> QED BY <2>1, <2>2, <2>3, <2>4 DEF ProcInv
<1>17. \A a, b \in 1 .. Len(proclist[p]) : proclist[p][a] = proclist[p][b] => a = b
  BY <1>1 DEF ProcInv, ListInv
<1>18. ProcInv(p)'
  <2>1. free_thr'[p] = free_thr[p] /\ mallocs'[p] = mallocs[p] /\ thr'[p] = thr[p]
    BY <1>10, <1>11, <1>13
  <2>2. OwnInv(p)'
    BY <1>1, <1>4, <2>1 DEF ProcInv, OwnInv, Own, Elements
  <2>3. CountInv(p)'
    BY <1>1, <1>4, <2>1 DEF ProcInv, CountInv, InUse
  <2>4. PlaceInv(p)'
    BY <1>1, <1>4, <2>1 DEF ProcInv, PlaceInv
  <2>5. ListInv(p)'
    <3>1. Len(proclist'[p]) = num_thds'[Frame(p).cthd] - i'[p]
      <4>1. PICK m : m = num_thds[Frame(p).cthd]
        OBVIOUS
      <4>2. /\ m \in 0 .. N /\ i[p] \in 1 .. N /\ Len(proclist[p]) = m - i[p]
            /\ Len(proclist'[p]) = Len(proclist[p]) - 1 /\ i'[p] = i[p] + 1
        BY <1>5, <1>7, <1>8, <1>13, <4>1
      <4>3. Len(proclist'[p]) = m - i'[p]
        BY <4>2, NAssumption, SMTT(20)
      <4> QED BY <1>11, <4>1, <4>3
    <3>2. ASSUME NEW a \in 1 .. Len(proclist'[p]), NEW b \in 1 .. Len(proclist'[p]),
                 proclist'[p][a] = proclist'[p][b]
          PROVE  a = b
      <4>1. a + 1 \in 1 .. Len(proclist[p]) /\ b + 1 \in 1 .. Len(proclist[p])
        BY <1>7, <1>8, <1>13, SMTT(20)
      <4>2. proclist[p][a + 1] = proclist[p][b + 1]
        BY <1>8, <1>13, <3>2
      <4>3. a + 1 = b + 1
        BY <1>17, <4>1, <4>2
      <4> QED BY <1>7, <1>8, <1>13, <4>3, SMTT(20)
    <3> QED BY <1>4, <3>1, <3>2 DEF ListInv, Frame
  <2> QED BY <2>2, <2>3, <2>4, <2>5 DEF ProcInv
<1>19. StartInv'
  BY <1>1, <1>4 DEF StartInv, Starting, Waiting
<1>20. StartedOnce'
  <2> SUFFICES ASSUME NEW r \in Procs, NEW x \in Procs, x \in Elements(proclist'[r])
               PROVE  /\ thr'[x] = NULL /\ is_used'[x]
                      /\ pc'[x] \in {"spin", "mutex", "recheck", "asleep", "signal"}
                      /\ \A z \in Procs \ {r} : x \notin Elements(proclist'[z])
    BY DEF StartedOnce, Elements
  <2>1. \A z \in Procs : Elements(proclist'[z]) \subseteq Elements(proclist[z])
    BY <1>8, <1>13
  <2>2. q \notin Elements(proclist'[p])
    <3>1. DOMAIN Tail(proclist[p]) = 1 .. Len(Tail(proclist[p]))
      BY <1>8, LenIs
    <3>2. \A k \in 1 .. Len(Tail(proclist[p])) : k + 1 \in 1 .. Len(proclist[p]) /\ k + 1 # 1
      BY <1>7, <1>8, SMTT(20)
    <3>3. 1 \in 1 .. Len(proclist[p])
      <4>1. Len(proclist[p]) > 0
        BY <1>7, LenIs
      <4> QED BY <1>7, <4>1, SMTT(20)
    <3>4. \A k \in 1 .. Len(Tail(proclist[p])) : Tail(proclist[p])[k] # q
      BY <1>8, <1>17, <3>2, <3>3
    <3> QED BY <1>13, <3>1, <3>4 DEF Elements
  <2>3. x # q
    BY <1>9, <1>13, <2>2
  <2>4. x \in Elements(proclist[r])
    BY <2>1
  <2>5. /\ thr[x] = NULL /\ is_used[x] /\ pc[x] \in {"spin", "mutex", "recheck", "asleep", "signal"}
        /\ \A z \in Procs \ {r} : x \notin Elements(proclist[z])
    BY <1>1, <2>4 DEF StartedOnce
  <2> QED BY <1>4, <1>13, <2>1, <2>3, <2>5
<1>21. WakeInv'
  <2> SUFFICES ASSUME NEW x \in Procs, pc'[x] = "asleep", thr'[x] # NULL
               PROVE  \E y \in Procs : Wakes(y, x)'
    BY DEF WakeInv
  <2>1. i'[p] > 1 /\ pc'[p] = "assign" /\ frames'[p] = frames[p]
    <3>1. i'[p] = i[p] + 1 /\ i[p] \in 1 .. N
      BY <1>5, <1>13
    <3>2. i'[p] > 1
      BY <3>1, NAssumption, SMTT(20)
    <3> QED BY <1>4, <3>2
  <2>2. CASE x = q
    <3>a. Frame(p)' = Frame(p)
      BY <2>1 DEF Frame
    <3>b. thr'[x] = s
      BY <1>13, <2>2
    <3>c. parent'[s] = Frame(p).cthd
      BY <1>11
    <3>1. parent'[thr'[x]] = Frame(p).cthd /\ Frame(p)' = Frame(p)
      BY <3>a, <3>b, <3>c
    <3>2. Wakes(p, x)'
      BY <2>1, <3>1 DEF Wakes
    <3> QED BY <3>2
  <2>3. CASE x # q
    <3>1. thr'[x] = thr[x] /\ thr[x] # NULL /\ pc[x] = "asleep" /\ OwnInv(x)
      BY <1>4, <1>13, <2>3 DEF IInv, ProcInv
    <3>2. parent'[thr[x]] = parent[thr[x]]
      <4>1. TypeInv /\ q \in Procs /\ s \in Own(q)' /\ \A t \in Structs \ {s} : parent'[t] = parent[t]
        <5>1. TypeInv /\ q \in Procs
          BY <1>1, <1>8
        <5>2. s \in Own(q)' /\ \A t \in Structs \ {s} : parent'[t] = parent[t]
          BY <1>11
        <5> QED BY <5>1, <5>2
      <4> QED BY <2>3, <3>1, <4>1, ParentKept
    <3>3. PICK y \in Procs : Wakes(y, x)
      BY <3>1 DEF IInv, WakeInv
    <3>4. Wakes(y, x)'
      BY <1>4, <1>13, <2>1, <3>1, <3>2, <3>3 DEF Wakes, Frame
    <3> QED BY <3>4
  <2> QED BY <2>2, <2>3
<1> QED BY <1>14, <1>15, <1>16, <1>18, <1>19, <1>20, <1>21 DEF IInv

\* The master's own structure: its depth of nesting bounds what it has allocated.
LEMMA AllocMasterInv == ASSUME IInv, NEW p \in Procs, AllocMaster(p) PROVE IInv'
<1>1. /\ TypeInv /\ ProcInv(p) /\ StartInv
      /\ pc \in [Procs -> Labels] /\ thr \in [Procs -> Structs \cup {NULL}]
      /\ frames \in [Procs -> Seq(Frames)]
  BY DEF IInv, TypeInv
<1>2. PICK s : s = AllocThread(p)
  OBVIOUS
<1>3. /\ pc[p] = "alloc" /\ TakeThread(p, s, Frame(p).cthd, 0, Frame(p).in_parallel)
      /\ thr' = [thr EXCEPT ![p] = s]
      /\ frames' = [frames EXCEPT ![p] = <<[Frame(p) EXCEPT !.tp = s]>> \o Tail(@)]
      /\ pc' = [pc EXCEPT ![p] = "body"]
      /\ UNCHANGED <<counter, created, proc_lock, is_used, last_used, proc_mutex, arrived,
                     proclist, max_thds, i, flag>>
  BY <1>2 DEF AllocMaster, Goto, pool
<1>4. frames[p] # <<>> /\ thr[p] # NULL /\ InUse(p) = Len(frames[p]) /\ InUse(p) <= MaxDepth
  BY <1>1, <1>3 DEF ProcInv, PlaceInv, CountInv, InUse, Forking
<1>5. /\ Frame(p) = frames[p][1] /\ Frame(p) \in Frames /\ 1 \in 1 .. Len(frames[p])
      /\ Frame(p).cthd \in Structs /\ Frame(p).in_parallel \in {0, 1}
  BY <1>1, <1>4, FrameIsFirst
<1>6. /\ s \in Structs /\ s \in Own(p)' /\ Own(p) \subseteq Own(p)'
      /\ free_thr' \in [Procs -> Seq(Structs)] /\ mallocs' \in [Procs -> 0 .. MaxDepth+1]
      /\ parent' \in [Structs -> Structs \cup {NULL}] /\ num' \in [Structs -> Procs]
      /\ num_thds' = num_thds /\ in_parallel' \in [Structs -> {0, 1}]
      /\ Elements(free_thr'[p]) \subseteq Own(p)'
      /\ mallocs'[p] = Len(free_thr'[p]) + InUse(p) + 1
      /\ \A r \in Procs \ {p} : free_thr'[r] = free_thr[r] /\ mallocs'[r] = mallocs[r]
      /\ \A t \in Structs \ {s} : parent'[t] = parent[t]
      /\ parent'[s] = Frame(p).cthd
  <2>1. 0 \in Procs
    BY NAssumption, SMTT(20) DEF Procs
  <2>2. OwnInv(p) /\ CountInv(p) /\ Frame(p).cthd \in Structs \cup {NULL}
    BY <1>1, <1>5 DEF ProcInv
  <2>3. Takes(p, s, Frame(p).cthd)
    BY <1>1, <1>3, <1>4, <1>5, <2>1, <2>2, Taken
  <2> QED BY <2>3 DEF Takes
<1>7. s # NULL
  BY <1>6, NullAssumption
<1>8. PICK f : f = [Frame(p) EXCEPT !.tp = s]
  OBVIOUS
<1>9. f \in Frames /\ f.cthd = Frame(p).cthd /\ f.tp = s
  BY <1>5, <1>6, <1>8 DEF Frames
<1>10. PICK g : g = Tail(frames[p])
  OBVIOUS
<1>11. /\ g \in Seq(Frames) /\ Len(g) = Len(frames[p]) - 1 /\ Len(frames[p]) \in Nat /\ Len(g) \in Nat
       /\ \A k \in 1 .. Len(g) : g[k] = frames[p][k + 1]
  BY <1>1, <1>4, <1>10, TakeFront, LenIs, SMTT(20)
<1>12. /\ pc'[p] = "body" /\ thr'[p] = s /\ frames'[p] = <<f>> \o g
       /\ \A q \in Procs \ {p} : pc'[q] = pc[q] /\ thr'[q] = thr[q] /\ frames'[q] = frames[q]
  BY <1>1, <1>3, <1>8, <1>10
<1>13. /\ frames'[p] \in Seq(Frames) /\ Len(frames'[p]) = Len(g) + 1 /\ frames'[p][1] = f
       /\ \A k \in 1 .. Len(g) : frames'[p][k + 1] = g[k]
  BY <1>9, <1>11, <1>12, PushFront, SMTT(20)
<1>14. Len(frames'[p]) = Len(frames[p])
  BY <1>11, <1>13, SMTT(20)
<1>15. TypeInv'
  <2>1. pc' \in [Procs -> Labels]
    BY <1>1, <1>3 DEF Labels
  <2>2. thr' \in [Procs -> Structs \cup {NULL}]
    BY <1>1, <1>3, <1>6
  <2>3. frames' \in [Procs -> Seq(Frames)]
    BY <1>1, <1>3, <1>12, <1>13
  <2> QED BY <1>1, <1>3, <1>6, <2>1, <2>2, <2>3 DEF TypeInv
<1>16. \A q \in Procs \ {p} : ProcInv(q)'
  <2>1. \A q \in Procs \ {p} : Same(q)
    BY <1>3, <1>6, <1>12 DEF Same
  <2> QED BY <1>3, <1>6, <2>1, SameInv DEF IInv
<1>17. OwnInv(p)'
  <2>1. ASSUME NEW k \in 1 .. Len(frames'[p])
        PROVE  frames'[p][k].cthd \in Own(p)' /\ frames'[p][k].tp \in Own(p)'
    <3>1. CASE k = 1
      BY <1>1, <1>5, <1>6, <1>9, <1>13, <3>1 DEF ProcInv, OwnInv
    <3>2. CASE k # 1
      <4>1. k - 1 \in 1 .. Len(g) /\ (k - 1) + 1 = k /\ k \in 1 .. Len(frames[p]) /\ k > 1
        BY <1>11, <1>13, <3>2, SMTT(20)
      <4>2. frames'[p][k] = frames[p][k]
        BY <1>11, <1>13, <4>1
      <4> QED BY <1>1, <1>6, <4>1, <4>2 DEF ProcInv, OwnInv
    <3> QED BY <3>1, <3>2
  <2> QED BY <1>6, <1>12, <2>1 DEF OwnInv, Elements
<1>18. CountInv(p)'
  <2>1. InUse(p)' = Len(frames'[p]) + 1
    BY <1>7, <1>12 DEF InUse, Forking
  <2>2. mallocs'[p] = Len(free_thr'[p]) + Len(frames'[p]) + 1 /\ free_thr'[p] \in Seq(Structs)
    BY <1>4, <1>6, <1>14
  <2>3. Len(frames'[p]) <= MaxDepth /\ Len(frames'[p]) \in Nat /\ Len(free_thr'[p]) \in Nat
    BY <1>4, <1>11, <1>14, <2>2, LenIs
  <2>4. mallocs'[p] = Len(free_thr'[p]) + InUse(p)'
    BY <2>1, <2>2, <2>3, PlusOne
  <2> QED BY <2>3, <2>4 DEF CountInv
<1>19. PlaceInv(p)'
  BY <1>1, <1>3, <1>7, <1>12 DEF ProcInv, PlaceInv, Starting, Forking, Leaving, Waiting
<1>20. ListInv(p)'
  BY <1>1, <1>3, <1>12 DEF ProcInv, ListInv
<1>21. StartInv'
  BY <1>3, <1>12, StartKept, StartedUp DEF Starting, Waiting
<1>22. StartedOnce'
  BY <1>1, <1>3, <1>12, StartedKept DEF IInv, Waiting
<1>23. WakeInv'
  <2>1. ASSUME NEW q \in Procs, pc'[q] = "asleep", thr'[q] # NULL
        PROVE  pc[q] = "asleep" /\ thr'[q] = thr[q] /\ parent'[thr[q]] = parent[thr[q]]
    <3>1. q # p /\ pc[q] = "asleep" /\ thr'[q] = thr[q] /\ OwnInv(q)
      BY <1>12, <2>1 DEF IInv, ProcInv
    <3> QED BY <1>1, <1>6, <2>1, <3>1, ParentKept
  <2>2. \A q \in Procs : pc[q] \in {"assign", "bcast"} =>
          pc'[q] = pc[q] /\ frames'[q] = frames[q] /\ i'[q] = i[q]
    BY <1>3, <1>12
  <2> QED BY <2>1, <2>2, WakeKept DEF IInv
<1> QED BY <1>15, <1>16, <1>17, <1>18, <1>19, <1>20, <1>21, <1>22, <1>23 DEF IInv, ProcInv

\* The master frees the structure in which it executed the region.
LEMMA ReturnInv == ASSUME IInv, NEW p \in Procs, Return(p) PROVE IInv'
<1>1. /\ TypeInv /\ ProcInv(p) /\ StartInv
      /\ pc \in [Procs -> Labels] /\ free_thr \in [Procs -> Seq(Structs)]
      /\ mallocs \in [Procs -> 0 .. MaxDepth+1]
  BY DEF IInv, TypeInv
<1>2. PICK s : s = Frame(p).tp
  OBVIOUS
<1>3. /\ pc[p] = "body" /\ frames[p] # <<>> /\ free_thr' = [free_thr EXCEPT ![p] = <<s>> \o @]
      /\ pc' = [pc EXCEPT ![p] = "join"]
      /\ UNCHANGED <<counter, created, proc_lock, is_used, last_used, proc_mutex, thr, mallocs, parent,
                     num, num_thds, in_parallel, arrived, frames, proclist, max_thds, i, flag>>
  BY <1>2 DEF Return, FreeThread, Goto, pool, locals
<1>4. s \in Own(p)
  <2>1. Frame(p) = frames[p][1] /\ 1 \in 1 .. Len(frames[p])
    BY <1>1, <1>3, FrameIsFirst
  <2> QED BY <1>1, <1>2, <1>3, <2>1 DEF ProcInv, OwnInv
<1>5. s \in Structs
  <2>1. 1 .. mallocs[p] \subseteq 1 .. MaxDepth+1
    BY <1>1, MaxDepthAssumption, SMTT(20)
  <2> QED BY <1>4, <2>1 DEF Own, Structs
<1>6. /\ pc'[p] = "join" /\ free_thr'[p] = <<s>> \o free_thr[p]
      /\ \A q \in Procs \ {p} : pc'[q] = pc[q] /\ free_thr'[q] = free_thr[q]
  BY <1>1, <1>3
<1>7. /\ free_thr'[p] \in Seq(Structs) /\ Len(free_thr'[p]) = Len(free_thr[p]) + 1
      /\ Elements(free_thr'[p]) = {s} \cup Elements(free_thr[p]) /\ Len(free_thr[p]) \in Nat
      /\ Len(frames[p]) \in Nat
  <2>1. frames[p] \in Seq(Frames)
    BY <1>1 DEF TypeInv
  <2> QED BY <1>1, <1>5, <1>6, <2>1, PushFront, LenIs, SMTT(20)
<1>8. TypeInv'
  <2>1. pc' \in [Procs -> Labels]
    BY <1>1, <1>3 DEF Labels
  <2>2. free_thr' \in [Procs -> Seq(Structs)]
    BY <1>1, <1>3, <1>6, <1>7
  <2> QED BY <1>1, <1>3, <2>1, <2>2 DEF TypeInv
<1>9. \A q \in Procs \ {p} : ProcInv(q)'
  <2>1. \A q \in Procs \ {p} : Same(q)
    BY <1>3, <1>6 DEF Same
  <2> QED BY <1>3, <2>1, SameInv DEF IInv
<1>10. OwnInv(p)'
  <2>1. Own(p)' = Own(p) /\ Elements(free_thr'[p]) \subseteq Own(p)
    BY <1>1, <1>3, <1>4, <1>7 DEF ProcInv, OwnInv, Own
  <2>2. Elements(free_thr[p])' \subseteq Own(p)'
    BY <2>1 DEF Elements
  <2>3. thr[p] # NULL => thr[p] \in Own(p)
    BY <1>1 DEF ProcInv, OwnInv
  <2>4. \A k \in 1 .. Len(frames[p]) : frames[p][k].cthd \in Own(p) /\ frames[p][k].tp \in Own(p)
    BY <1>1, <1>3 DEF ProcInv, OwnInv
  <2> QED BY <1>3, <1>6, <2>1, <2>2, <2>3, <2>4 DEF OwnInv
<1>11. CountInv(p)'
  <2>1. thr[p] # NULL
    BY <1>1, <1>3 DEF ProcInv, PlaceInv
  <2>2. InUse(p) = Len(frames[p]) + 1 /\ InUse(p)' = Len(frames[p])
    BY <1>3, <1>6, <2>1 DEF InUse, Forking
  <2>3. mallocs[p] = Len(free_thr[p]) + InUse(p) /\ Len(frames[p]) <= MaxDepth
    BY <1>1 DEF ProcInv, CountInv
  <2>4. mallocs[p] = Len(free_thr'[p]) + InUse(p)'
    BY <1>7, <2>2, <2>3, PlusOne
  <2> QED BY <1>3, <2>3, <2>4 DEF CountInv
<1>12. PlaceInv(p)'
  BY <1>1, <1>3, <1>6 DEF ProcInv, PlaceInv, Starting, Forking, Leaving, Waiting
<1>13. ListInv(p)'
  BY <1>1, <1>3, <1>6 DEF ProcInv, ListInv
<1>14. StartInv'
  BY <1>3, <1>6, StartKept, StartedUp DEF Starting, Waiting
<1>15. StartedOnce'
  BY <1>1, <1>3, <1>6, StartedKept DEF IInv, Waiting
<1>16. WakeInv'
  BY <1>3, <1>6, WakeKept DEF IInv
<1> QED BY <1>8, <1>9, <1>10, <1>11, <1>12, <1>13, <1>14, <1>15, <1>16 DEF IInv, ProcInv

\* The master goes back to the structure that it had before the region.
LEMMA JoinInv == ASSUME IInv, NEW p \in Procs, Join(p) PROVE IInv'
<1>1. /\ TypeInv /\ ProcInv(p) /\ StartInv
      /\ pc \in [Procs -> Labels] /\ thr \in [Procs -> Structs \cup {NULL}]
      /\ frames \in [Procs -> Seq(Frames)]
  BY DEF IInv, TypeInv
<1>2. PICK s : s = Frame(p).cthd
  OBVIOUS
<1>3. /\ pc[p] = "join" /\ thr' = [thr EXCEPT ![p] = s]
      /\ frames' = [frames EXCEPT ![p] = Tail(@)] /\ pc' = [pc EXCEPT ![p] = "body"]
      /\ UNCHANGED <<counter, created, proc_lock, is_used, last_used, proc_mutex, free_thr, mallocs, parent,
                     num, num_thds, in_parallel, arrived, proclist, max_thds, i, flag>>
  BY <1>2 DEF Join, JoinAfter, Goto, pool, heap
<1>4. frames[p] # <<>> /\ thr[p] # NULL
  BY <1>1, <1>3 DEF ProcInv, PlaceInv
<1>5. s \in Structs /\ s \in Own(p) /\ s # NULL
  <2>1. Frame(p) = frames[p][1] /\ 1 \in 1 .. Len(frames[p]) /\ Frame(p).cthd \in Structs
    BY <1>1, <1>4, FrameIsFirst
  <2> QED BY <1>1, <1>2, <2>1, NullAssumption DEF ProcInv, OwnInv
<1>6. /\ pc'[p] = "body" /\ thr'[p] = s /\ frames'[p] = Tail(frames[p])
      /\ \A q \in Procs \ {p} : pc'[q] = pc[q] /\ thr'[q] = thr[q] /\ frames'[q] = frames[q]
  BY <1>1, <1>3
<1>7. /\ frames'[p] \in Seq(Frames) /\ Len(frames'[p]) = Len(frames[p]) - 1 /\ Len(frames[p]) \in Nat
      /\ Len(frames[p]) > 0
      /\ \A k \in 1 .. Len(frames'[p]) : frames'[p][k] = frames[p][k + 1]
  BY <1>1, <1>4, <1>6, TakeFront, LenIs, SMTT(20)
<1>8. TypeInv'
  <2>1. pc' \in [Procs -> Labels]
    BY <1>1, <1>3 DEF Labels
  <2>2. thr' \in [Procs -> Structs \cup {NULL}]
    BY <1>1, <1>3, <1>5
  <2>3. frames' \in [Procs -> Seq(Frames)]
    BY <1>1, <1>3, <1>6, <1>7
  <2> QED BY <1>1, <1>3, <2>1, <2>2, <2>3 DEF TypeInv
<1>9. \A q \in Procs \ {p} : ProcInv(q)'
  <2>1. \A q \in Procs \ {p} : Same(q)
    BY <1>3, <1>6 DEF Same
  <2> QED BY <1>3, <2>1, SameInv DEF IInv
<1>10. OwnInv(p)'
  <2>1. Own(p)' = Own(p) /\ Elements(free_thr[p])' \subseteq Own(p)
    BY <1>1, <1>3 DEF ProcInv, OwnInv, Own, Elements
  <2>2. ASSUME NEW k \in 1 .. Len(frames'[p])
        PROVE  frames'[p][k].cthd \in Own(p) /\ frames'[p][k].tp \in Own(p)
    <3>1. k + 1 \in 1 .. Len(frames[p]) /\ k + 1 > 1 /\ frames'[p][k] = frames[p][k + 1]
      BY <1>7, SMTT(20)
    <3> QED BY <1>1, <3>1 DEF ProcInv, OwnInv
  <2> QED BY <1>5, <1>6, <2>1, <2>2 DEF OwnInv
<1>11. CountInv(p)'
  <2>1. InUse(p) = Len(frames[p])
    BY <1>3, <1>4 DEF InUse
  <2>2. InUse(p)' = Len(frames'[p]) + 1
    BY <1>5, <1>6 DEF InUse, Forking
  <2>3. Len(frames[p]) <= MaxDepth /\ mallocs[p] = Len(free_thr[p]) + InUse(p)
    BY <1>1 DEF ProcInv, CountInv
  <2> QED BY <1>3, <1>7, <2>1, <2>2, <2>3, MaxDepthAssumption, SMTT(20) DEF CountInv
<1>12. PlaceInv(p)'
  BY <1>1, <1>3, <1>5, <1>6 DEF ProcInv, PlaceInv, Starting, Forking, Leaving, Waiting
<1>13. ListInv(p)'
  BY <1>1, <1>3, <1>6 DEF ProcInv, ListInv
<1>14. StartInv'
  BY <1>3, <1>6, StartKept, StartedUp DEF Starting, Waiting
<1>15. StartedOnce'
  BY <1>1, <1>3, <1>6, StartedKept DEF IInv, Waiting
<1>16. WakeInv'
  BY <1>3, <1>6, WakeKept DEF IInv
<1> QED BY <1>8, <1>9, <1>10, <1>11, <1>12, <1>13, <1>14, <1>15, <1>16 DEF IInv, ProcInv

----------------------------------------------------------------------------
(* The theorems.                                                            *)

\* A step that changes nothing keeps the invariant.
LEMMA StutterInv == ASSUME IInv, UNCHANGED vars PROVE IInv'
<1>1. /\ proc_mutex' = proc_mutex
      /\ UNCHANGED <<counter, created, proc_lock, is_used, last_used, proc_mutex, thr, free_thr, mallocs,
                     parent, num, num_thds, in_parallel, arrived, pc, frames, proclist, max_thds, i, flag>>
  BY DEF vars, pool, heap, locals
<1>2. TypeInv'
  BY <1>1 DEF IInv, TypeInv
<1>3. \A q \in Procs : ProcInv(q)'
  BY <1>1, SameInv DEF IInv, Same
<1>4. StartInv' /\ StartedOnce'
  BY <1>1 DEF IInv, StartInv, StartedOnce
<1>5. WakeInv'
  BY <1>1, WakeKept DEF IInv
<1> QED BY <1>2, <1>3, <1>4, <1>5 DEF IInv

\* Every step of the pool keeps the invariant.
LEMMA NextIInv == IInv /\ [Next]_vars => IInv'
<1> SUFFICES ASSUME IInv, [Next]_vars PROVE IInv'
  OBVIOUS
<1>1. CASE Startup
  BY <1>1, CreateSlaveInv, CreateDoneInv, WaitProcsInv DEF Startup
<1>2. ASSUME NEW p \in Procs, Runtime(p) PROVE IInv'
  BY <1>2, NewProcInv, NewProcDoneInv, SpinInv, WaitLockInv, RecheckInv, FreeMeInv, FreeProcInv,
     SignalInv, GetProcInv, InitParentInv, AssignInv, AssignDoneInv, BroadcastInv, AllocMasterInv,
     JoinInv DEF Runtime
<1>3. ASSUME NEW p \in Procs, SpuriousWake(p) \/ Finish(p) \/ Return(p) PROVE IInv'
  BY <1>3, SpuriousWakeInv, FinishInv, ReturnInv
<1>4. ASSUME NEW p \in Procs, NEW cond \in {0, 1}, NEW nthds \in 1 .. N, DoParallel(p, cond, nthds)
      PROVE  IInv'
  BY <1>4, DoParallelInv
<1>5. CASE UNCHANGED vars
  BY <1>5, StutterInv
<1> QED BY <1>1, <1>2, <1>3, <1>4, <1>5 DEF Next

\* The invariant holds in every state.
LEMMA Invariance == Spec => []IInv
BY InitIInv, NextIInv, PTL DEF Spec

\* Thread structures are allocated only when the free list of a processor is empty, so
\* their number is bounded by the depth of nesting, and every list holds what it should.
THEOREM TypeCorrect == Spec => []TypeOK
<1>1. IInv => TypeOK
  <2> SUFFICES ASSUME IInv PROVE TypeOK
    OBVIOUS
  <2>1. TypeInv /\ \A p \in Procs : OwnInv(p)
    BY DEF IInv, ProcInv
  <2>2. \A p \in Procs : Elements(free_thr[p]) \subseteq {p} \X (1 .. mallocs[p])
    BY <2>1 DEF OwnInv, Own
  <2>3. \A p \in Procs : Elements(proclist[p]) \subseteq Procs
    BY <2>1, LenIs DEF TypeInv
  <2> QED BY <2>1, <2>2, <2>3 DEF TypeInv, TypeOK
<1> QED BY <1>1, Invariance, PTL

\* A processor is started once per use, for any number of masters that compete for the
\* processors: the one at the head of a list is idle and on no other list.
THEOREM StartsOnce == Spec => []StartedOnce
<1>1. IInv => StartedOnce
  BY DEF IInv
<1> QED BY <1>1, Invariance, PTL

\* A processor that sleeps although it has a thread is about to be woken: no start is
\* lost between the check of cproc->thr and pthread_cond_wait.
THEOREM WakeupKept == Spec => []NoLostWakeup
<1>1. IInv => NoLostWakeup
  BY DEF IInv, WakeInv, Wakes, NoLostWakeup
<1> QED BY <1>1, Invariance, PTL

----------------------------------------------------------------------------
(* The teams.                                                               *)

Cthd(p, k) == frames[p][k].cthd

\* The structure that is the master's own in its k-th region from the innermost.
Above(p, k) == IF k = 1 THEN thr[p] ELSE Cthd(p, k - 1)

\* In a region its master has number 0 and the structure it forked from as parent.
ChainInv(p) ==
  /\ pc[p] \in Forking => thr[p] = Cthd(p, 1)
  /\ \A k \in 1 .. Len(frames[p]) : k > 1 \/ pc[p] \in {"body", "join"} =>
       /\ frames[p][k].tp = Above(p, k)
       /\ parent[Above(p, k)] = Cthd(p, k)
       /\ num[Above(p, k)] = 0

\* Processor p uses structure s: it forked from it, executes in it or is about to free it.
Held(p, s) ==
  \/ \E k \in 1 .. Len(frames[p]) : Cthd(p, k) = s
  \/ thr[p] = s /\ s # NULL /\ pc[p] \notin Forking \cup {"join"}
  \/ pc[p] = "freethr" /\ flag[p].me = s

\* No entry of a list is on it twice.
Once(l) == \A j, k \in 1 .. Len(l) : l[j] = l[k] => j = k

\* No structure is used twice, and none in use is free.
CthdOnce(p) == \A j, k \in 1 .. Len(frames[p]) : Cthd(p, j) = Cthd(p, k) => j = k
ThrApart(p) == pc[p] = "body" => \A k \in 1 .. Len(frames[p]) : Cthd(p, k) # thr[p]
FreeOnce(p) == Once(free_thr[p])
HeldApart(p) == \A s \in Structs : Held(p, s) => s \notin Elements(free_thr[p])
DistinctInv(p) == CthdOnce(p) /\ ThrApart(p) /\ FreeOnce(p) /\ HeldApart(p)

\* A slave has a flag to raise only on its way out of a region.
FlagInv(p) == pc[p] \notin Leaving => flag[p] = NULL

ShapeInv(p) == ChainInv(p) /\ DistinctInv(p) /\ FlagInv(p)

\* The structure that a processor was started with.
Base(p) == IF frames[p] = <<>> THEN thr[p] ELSE Cthd(p, Len(frames[p]))

\* What a slave has to do with a team: a region to execute, a flag to raise.  It may
\* have both, of different teams, because it is given back before it raises the flag.
Roles == {"job", "debt"}
On(q, r) == IF r = "job" THEN q # 0 /\ thr[q] # NULL ELSE pc[q] \in Leaving
Team(q, r) == IF r = "job" THEN parent[Base(q)] ELSE flag[q].tp
Nr(q, r) == IF r = "job" THEN num[Base(q)] ELSE flag[q].i

\* Number n of the team with parent structure c has been started and not joined.
Open(c, n) ==
  \E p \in Procs : \E k \in 1 .. Len(frames[p]) :
    /\ Cthd(p, k) = c
    /\ k = 1 => pc[p] # "getproc" /\ (pc[p] = "assign" => n < i[p])

Valid(c, n) == c \in Structs /\ Open(c, n) /\ n \in 1 .. num_thds[c] - 1 /\ n \notin arrived[c]

\* Every slave belongs to a team whose master still waits for its flag.
MemberInv == \A q \in Procs, r \in Roles : On(q, r) => Valid(Team(q, r), Nr(q, r))

\* No number of a team is given twice.
UniqueInv ==
  \A q1, q2 \in Procs, r1, r2 \in Roles :
    On(q1, r1) /\ On(q2, r2) /\ Team(q1, r1) = Team(q2, r2) /\ Nr(q1, r1) = Nr(q2, r2) =>
      q1 = q2 /\ r1 = r2

\* While a master starts its team, only those it has started have raised flags.
ArrivedInv ==
  \A p \in Procs : pc[p] = "assign" => \A n \in arrived[Cthd(p, 1)] : n < i[p]

\* The initial thread is in no team.
RootInv == thr[0] # NULL => parent[Base(0)] = NULL

TInv ==
  /\ \A p \in Procs : ShapeInv(p)
  /\ MemberInv /\ UniqueInv /\ ArrivedInv /\ RootInv

----------------------------------------------------------------------------
(* Structures in use.                                                       *)

\* What a processor uses was allocated for it.
LEMMA HeldOwn ==
  ASSUME NEW p \in Procs, OwnInv(p), NEW s, Held(p, s)
  PROVE  s \in Own(p)
<1>1. CASE \E k \in 1 .. Len(frames[p]) : Cthd(p, k) = s
  BY <1>1 DEF OwnInv, Cthd
<1>2. CASE thr[p] = s /\ s # NULL
  BY <1>2 DEF OwnInv
<1>3. CASE pc[p] = "freethr" /\ flag[p].me = s
  BY <1>3 DEF OwnInv
<1> QED BY <1>1, <1>2, <1>3 DEF Held

\* No structure was allocated for two processors, whatever they allocate.
LEMMA OwnOne ==
  ASSUME NEW p \in Procs, NEW q \in Procs, NEW k, NEW m, NEW s,
         s \in {p} \X (1 .. k), s \in {q} \X (1 .. m)
  PROVE  p = q
BY OwnApart

\* The structures of a processor are structures.
LEMMA OwnStruct ==
  ASSUME TypeInv, NEW p \in Procs, NEW s \in Own(p)
  PROVE  s \in Structs /\ s # NULL
<1>1. mallocs[p] \in 0 .. MaxDepth+1
  BY DEF TypeInv
<1>2. 1 .. mallocs[p] \subseteq 1 .. MaxDepth+1
  BY <1>1, MaxDepthAssumption, SMTT(20)
<1> QED BY <1>2, NullAssumption DEF Own, Structs

\* A structure that was forked from belongs to one frame of one processor.
LEMMA FrameOne ==
  ASSUME IInv, TInv, NEW p \in Procs, NEW q \in Procs
  PROVE  \A j \in 1 .. Len(frames[p]), k \in 1 .. Len(frames[q]) :
           Cthd(p, j) = Cthd(q, k) => p = q /\ j = k
<1> SUFFICES ASSUME NEW j \in 1 .. Len(frames[p]), NEW k \in 1 .. Len(frames[q]), Cthd(p, j) = Cthd(q, k)
             PROVE  p = q /\ j = k
  OBVIOUS
<1>1. OwnInv(p) /\ OwnInv(q) /\ DistinctInv(p)
  BY DEF IInv, ProcInv, TInv, ShapeInv
<1>2. Cthd(p, j) \in Own(p) /\ Cthd(q, k) \in Own(q)
  BY <1>1 DEF OwnInv, Cthd
<1>3. p = q
  BY <1>2, OwnOne DEF Own
<1> QED BY <1>1, <1>3 DEF DistinctInv, CthdOnce

\* The structure that a processor was started with is in use.
LEMMA BaseHeld ==
  ASSUME TypeInv, NEW p \in Procs, PlaceInv(p), thr[p] # NULL
  PROVE  Held(p, Base(p))
<1>1. CASE frames[p] = <<>>
  BY <1>1 DEF PlaceInv, Base, Held
<1>2. CASE frames[p] # <<>>
  <2>1. frames[p] \in Seq(Frames)
    BY DEF TypeInv
  <2>2. Len(frames[p]) \in Nat /\ Len(frames[p]) > 0
    BY <1>2, <2>1, LenIs
  <2>3. Len(frames[p]) \in 1 .. Len(frames[p])
    BY <2>2, SMTT(20)
  <2> QED BY <1>2, <2>3 DEF Base, Held
<1> QED BY <1>1, <1>2

----------------------------------------------------------------------------
(* What a step leaves alone.                                                *)

\* A processor whose structures a step does not touch.
LEMMA ChainKept ==
  ASSUME NEW p \in Procs, OwnInv(p), PlaceInv(p), ChainInv(p), thr'[p] = thr[p], frames'[p] = frames[p],
         \A s \in Own(p) : parent'[s] = parent[s] /\ num'[s] = num[s],
         pc'[p] \in Forking => pc[p] \in Forking,
         pc'[p] \in {"body", "join"} => pc[p] \in {"body", "join"} \/ frames[p] = <<>>
  PROVE  ChainInv(p)'
<1>1. \A k : Cthd(p, k)' = Cthd(p, k) /\ Above(p, k)' = Above(p, k)
  BY DEF Cthd, Above
<1>2. ASSUME NEW k \in 1 .. Len(frames'[p]), k > 1 \/ pc'[p] \in {"body", "join"}
      PROVE  /\ frames'[p][k].tp = Above(p, k)
             /\ parent'[Above(p, k)] = Cthd(p, k)
             /\ num'[Above(p, k)] = 0
  <2>1. k \in 1 .. Len(frames[p])
    BY <1>2
  <2>2. k > 1 \/ pc[p] \in {"body", "join"}
    <3>1. frames[p] # <<>>
      BY <2>1, SMTT(20)
    <3> QED BY <1>2, <3>1
  <2>3. /\ frames[p][k].tp = Above(p, k) /\ parent[Above(p, k)] = Cthd(p, k)
        /\ num[Above(p, k)] = 0 /\ frames[p][k].tp \in Own(p)
    BY <2>1, <2>2 DEF ChainInv, OwnInv
  <2> QED BY <2>3
<1> QED BY <1>1, <1>2 DEF ChainInv

\* The same for the structures in use.
LEMMA DistinctKept ==
  ASSUME NEW p \in Procs, DistinctInv(p), thr'[p] = thr[p], frames'[p] = frames[p],
         free_thr'[p] = free_thr[p],
         pc'[p] = "freethr" => pc[p] = "freethr" /\ flag'[p] = flag[p],
         pc'[p] \notin Forking \cup {"join"} => pc[p] \notin Forking \cup {"join"},
         pc'[p] = "body" => pc[p] = "body" \/ frames[p] = <<>>
  PROVE  DistinctInv(p)'
<1>1. \A k : Cthd(p, k)' = Cthd(p, k)
  BY DEF Cthd
<1>2. Elements(free_thr[p])' = Elements(free_thr[p])
  BY DEF Elements
<1>3. \A s : Held(p, s)' => Held(p, s)
  BY <1>1 DEF Held
<1>4. ThrApart(p)'
  <2>1. frames[p] = <<>> => 1 .. Len(frames[p]) = {}
    BY SMTT(20)
  <2>2. pc'[p] = "body" => \A k \in 1 .. Len(frames[p]) : Cthd(p, k) # thr[p]
    BY <2>1 DEF DistinctInv, ThrApart
  <2> QED BY <1>1, <2>2 DEF ThrApart
<1>5. HeldApart(p)'
  BY <1>2, <1>3 DEF DistinctInv, HeldApart
<1>6. CthdOnce(p)'
  BY DEF DistinctInv, CthdOnce, Cthd
<1>7. FreeOnce(p)'
  BY DEF DistinctInv, FreeOnce
<1> QED BY <1>4, <1>5, <1>6, <1>7 DEF DistinctInv

\* A processor of which a step touches nothing, and that is where it was.
LEMMA ShapeKept ==
  ASSUME NEW p \in Procs, OwnInv(p), PlaceInv(p), ShapeInv(p), Same(p),
         \A s \in Own(p) : parent'[s] = parent[s] /\ num'[s] = num[s]
  PROVE  ShapeInv(p)'
<1>1. ChainInv(p)'
  BY ChainKept DEF ShapeInv, Same
<1>2. DistinctInv(p)'
  BY DistinctKept DEF ShapeInv, Same
<1>3. FlagInv(p)'
  BY DEF ShapeInv, Same, FlagInv
<1> QED BY <1>1, <1>2, <1>3 DEF ShapeInv

\* A slave's place in its teams.
Kept(q) ==
  \A r \in Roles : On(q, r)' =>
    On(q, r) /\ Team(q, r)' = Team(q, r) /\ Nr(q, r)' = Nr(q, r)

\* A step that leaves a slave's structures and flag alone.
LEMMA KeptIf ==
  ASSUME NEW q \in Procs,
         thr'[q] # NULL => /\ thr[q] # NULL /\ Base(q)' = Base(q)
                           /\ parent'[Base(q)] = parent[Base(q)] /\ num'[Base(q)] = num[Base(q)],
         pc'[q] \in Leaving => pc[q] \in Leaving /\ flag'[q] = flag[q]
  PROVE  Kept(q)
<1>1. On(q, "job")' => On(q, "job") /\ Team(q, "job")' = Team(q, "job") /\ Nr(q, "job")' = Nr(q, "job")
  BY DEF On, Team, Nr
<1>2. On(q, "debt")' => On(q, "debt") /\ Team(q, "debt")' = Team(q, "debt") /\ Nr(q, "debt")' = Nr(q, "debt")
  BY DEF On, Team, Nr
<1> QED BY <1>1, <1>2 DEF Kept, Roles

\* A team that a slave is a member of goes on.
GoesOn(q, r) ==
  \A c, n : c = Team(q, r) /\ n = Nr(q, r) /\ Valid(c, n) => Valid(c, n)'

\* A step that gives nobody a new place in a team.
LEMMA MembersKept ==
  ASSUME MemberInv, UniqueInv, \A q \in Procs : Kept(q),
         \A q \in Procs, r \in Roles : On(q, r)' /\ On(q, r) => GoesOn(q, r)
  PROVE  MemberInv' /\ UniqueInv'
<1>1. ASSUME NEW q \in Procs, NEW r \in Roles, On(q, r)'
      PROVE  /\ On(q, r) /\ Team(q, r)' = Team(q, r) /\ Nr(q, r)' = Nr(q, r)
             /\ Valid(Team(q, r), Nr(q, r))'
  <2>1. On(q, r) /\ Team(q, r)' = Team(q, r) /\ Nr(q, r)' = Nr(q, r)
    BY <1>1 DEF Kept
  <2>2. PICK c : c = Team(q, r)
    OBVIOUS
  <2>3. PICK n : n = Nr(q, r)
    OBVIOUS
  <2>4. Valid(c, n)
    BY <2>1, <2>2, <2>3 DEF MemberInv
  <2>5. Valid(c, n)'
    BY <1>1, <2>1, <2>2, <2>3, <2>4 DEF GoesOn
  <2>6. c = Team(q, r)' /\ n = Nr(q, r)'
    BY <2>1, <2>2, <2>3
  <2>7. Valid(Team(q, r), Nr(q, r))'
    BY <2>5, <2>6 DEF Valid, Open
  <2> QED BY <2>1, <2>7
<1>2. MemberInv'
  BY <1>1 DEF MemberInv
<1>3. UniqueInv'
  <2> SUFFICES ASSUME NEW q1 \in Procs, NEW q2 \in Procs, NEW r1 \in Roles, NEW r2 \in Roles,
                      On(q1, r1)', On(q2, r2)', Team(q1, r1)' = Team(q2, r2)', Nr(q1, r1)' = Nr(q2, r2)'
               PROVE  q1 = q2 /\ r1 = r2
    BY DEF UniqueInv
  <2>1. On(q1, r1) /\ Team(q1, r1)' = Team(q1, r1) /\ Nr(q1, r1)' = Nr(q1, r1)
    BY <1>1
  <2>2. On(q2, r2) /\ Team(q2, r2)' = Team(q2, r2) /\ Nr(q2, r2)' = Nr(q2, r2)
    BY <1>1
  <2>3. Team(q1, r1) = Team(q2, r2) /\ Nr(q1, r1) = Nr(q2, r2)
    BY <2>1, <2>2
  <2> QED BY <2>1, <2>2, <2>3 DEF UniqueInv
<1> QED BY <1>2, <1>3

\* A team stays open while nobody pushes or pops a frame.
LEMMA OpenKept ==
  ASSUME NEW c, NEW n, Open(c, n), frames' = frames,
         \A q \in Procs : pc[q] # "getproc" =>
           pc'[q] # "getproc" /\ (pc'[q] = "assign" => pc[q] = "assign" /\ (n < i[q] => n < i'[q]))
  PROVE  Open(c, n)'
<1>1. PICK q \in Procs : \E k \in 1 .. Len(frames[q]) :
        Cthd(q, k) = c /\ (k = 1 => pc[q] # "getproc" /\ (pc[q] = "assign" => n < i[q]))
  BY DEF Open
<1>2. PICK k \in 1 .. Len(frames[q]) :
        Cthd(q, k) = c /\ (k = 1 => pc[q] # "getproc" /\ (pc[q] = "assign" => n < i[q]))
  BY <1>1
<1>3. k \in 1 .. Len(frames'[q]) /\ Cthd(q, k)' = c
  BY <1>2 DEF Cthd
<1>4. k = 1 => pc'[q] # "getproc" /\ (pc'[q] = "assign" => n < i'[q])
  BY <1>2
<1> QED BY <1>3, <1>4 DEF Open

\* The head of a list of different entries is not in its tail.
LEMMA TakeOnce ==
  ASSUME NEW S, NEW l \in Seq(S), l # <<>>, Once(l)
  PROVE  /\ Head(l) \in Elements(l) /\ Head(l) \notin Elements(Tail(l))
         /\ Elements(Tail(l)) \subseteq Elements(l)
         /\ Once(Tail(l))
<1>1. /\ Tail(l) \in Seq(S) /\ Len(Tail(l)) = Len(l) - 1 /\ Len(l) > 0 /\ Head(l) = l[1]
      /\ Head(l) \in Elements(l) /\ Elements(Tail(l)) \subseteq Elements(l)
      /\ \A k \in 1 .. Len(Tail(l)) : Tail(l)[k] = l[k + 1]
  BY TakeFront
<1>2. Len(l) \in Nat /\ DOMAIN Tail(l) = 1 .. Len(Tail(l))
  BY <1>1, LenIs
<1>3. /\ \A k \in 1 .. Len(Tail(l)) : k + 1 \in 1 .. Len(l) /\ k + 1 # 1 /\ k \in Int
      /\ 1 \in 1 .. Len(l) 
  BY <1>1, <1>2, SMTT(20)
<1>4. Head(l) \notin Elements(Tail(l))
  <2>1. \A k \in 1 .. Len(Tail(l)) : Tail(l)[k] # Head(l)
    BY <1>1, <1>3 DEF Once
  <2> QED BY <1>2, <2>1 DEF Elements
<1>5. ASSUME NEW j \in 1 .. Len(Tail(l)), NEW k \in 1 .. Len(Tail(l)), Tail(l)[j] = Tail(l)[k]
      PROVE  j = k
  <2>0. l[j + 1] = l[k + 1] /\ j + 1 \in 1 .. Len(l) /\ k + 1 \in 1 .. Len(l)
    <3>1. Tail(l)[j] = l[j + 1] /\ Tail(l)[k] = l[k + 1]
      BY <1>1
    <3> QED BY <1>3, <1>5, <3>1
  <2>1. j + 1 = k + 1
    BY <2>0 DEF Once
  <2>2. j \in Int /\ k \in Int
    BY <1>3
  <2> QED BY <2>1, <2>2, SMTT(20)
<1> QED BY <1>1, <1>4, <1>5 DEF Once

\* A list of different entries, with another one in front.
LEMMA PushOnce ==
  ASSUME NEW S, NEW l \in Seq(S), NEW x \in S, x \notin Elements(l),
         Once(l), NEW r, r = <<x>> \o l
  PROVE  /\ Once(r)
         /\ Elements(r) = {x} \cup Elements(l)
<1>1. /\ r \in Seq(S) /\ Len(r) = Len(l) + 1 /\ r[1] = x
      /\ \A k \in 1 .. Len(l) : r[k + 1] = l[k]
      /\ Elements(r) = {x} \cup Elements(l)
  <2>1. r \in Seq(S) /\ Len(r) = Len(l) + 1 /\ r[1] = x
    BY SMTT(20)
  <2>2. \A k \in 1 .. Len(l) : r[k + 1] = l[k]
    BY SMTT(20)
  <2>3. Elements(r) = {x} \cup Elements(l)
    <3>1. Elements(<<x>> \o l) = {x} \cup Elements(l)
      BY PushFront
    <3> QED BY <3>1
  <2> QED BY <2>1, <2>2, <2>3
<1>2. Len(l) \in Nat /\ DOMAIN l = 1 .. Len(l)
  BY LenIs
<1>3. \A k \in 1 .. Len(r) : k # 1 => k - 1 \in 1 .. Len(l) /\ (k - 1) + 1 = k /\ k \in Int
  BY <1>1, <1>2, SMTT(20)
<1>4. \A k \in 1 .. Len(r) : k # 1 => r[k] = l[k - 1] /\ r[k] # x
  <2> SUFFICES ASSUME NEW k \in 1 .. Len(r), k # 1 PROVE r[k] = l[k - 1] /\ r[k] # x
    OBVIOUS
  <2>1. k - 1 \in 1 .. Len(l) /\ (k - 1) + 1 = k
    BY <1>3
  <2>2. r[k] = l[k - 1]
    BY <1>1, <2>1
  <2>3. l[k - 1] \in Elements(l)
    BY <1>2, <2>1 DEF Elements
  <2> QED BY <2>2, <2>3
<1>5. ASSUME NEW j \in 1 .. Len(r), NEW k \in 1 .. Len(r), r[j] = r[k] PROVE j = k
  <2>1. CASE j = 1 \/ k = 1
    BY <1>1, <1>4, <1>5, <2>1
  <2>2. CASE j # 1 /\ k # 1
    <3>0. l[j - 1] = l[k - 1] /\ j - 1 \in 1 .. Len(l) /\ k - 1 \in 1 .. Len(l)
      <4>1. r[j] = l[j - 1] /\ r[k] = l[k - 1]
        BY <1>4, <2>2
      <4> QED BY <1>3, <1>5, <2>2, <4>1
    <3>1. j - 1 = k - 1
      BY <3>0 DEF Once
    <3>2. j \in Int /\ k \in Int
      BY <1>3, <2>2
    <3> QED BY <3>1, <3>2, SMTT(20)
  <2> QED BY <2>1, <2>2
<1> QED BY <1>1, <1>5 DEF Once

\* The structure that ompc_alloc_thread(q) returns is used by nobody, and is off the list.
Unused(q, s, par, n) ==
  /\ \A r \in Procs : ~Held(r, s)
  /\ FreeOnce(q)' /\ s \notin Elements(free_thr[q])'
  /\ Elements(free_thr[q])' \subseteq Elements(free_thr[q])
  /\ \A t \in Structs \ {s} : parent'[t] = parent[t] /\ num'[t] = num[t]
  /\ parent'[s] = par /\ num'[s] = n

\* The list has no structure twice, and none that is in use.
LEMMA Fresh ==
  ASSUME TypeInv, NEW q \in Procs, \A r \in Procs : OwnInv(r), DistinctInv(q), NEW s \in Structs, s \in Own(q)',
         NEW par, NEW n, NEW inp, TakeThread(q, s, par, n, inp)
  PROVE  Unused(q, s, par, n)
<1>1. /\ s = AllocThread(q)
      /\ free_thr' = [free_thr EXCEPT ![q] = IF @ # <<>> THEN Tail(@) ELSE @]
      /\ parent' = [parent EXCEPT ![s] = par] /\ num' = [num EXCEPT ![s] = n]
  BY DEF TakeThread
<1>2. /\ free_thr \in [Procs -> Seq(Structs)] /\ mallocs \in [Procs -> 0 .. MaxDepth+1]
      /\ parent \in [Structs -> Structs \cup {NULL}] /\ num \in [Structs -> Procs]
  BY DEF TypeInv
<1>3. /\ \A t \in Structs \ {s} : parent'[t] = parent[t] /\ num'[t] = num[t]
      /\ parent'[s] = par /\ num'[s] = n
  BY <1>1, <1>2
<1>4. ASSUME NEW r \in Procs, r # q PROVE ~Held(r, s)
  <2>1. Held(r, s) => s \in Own(r)
    BY HeldOwn
  <2>2. s \in Own(r) => r = q
    BY OwnOne DEF Own
  <2> QED BY <1>4, <2>1, <2>2
<1>5. /\ ~Held(q, s) /\ FreeOnce(q)' /\ s \notin Elements(free_thr[q])'
      /\ Elements(free_thr[q])' \subseteq Elements(free_thr[q])
  <2>1. CASE free_thr[q] = <<>>
    <3>1. free_thr'[q] = <<>> /\ s = <<q, mallocs[q] + 1>>
      BY <1>1, <1>2, <2>1 DEF AllocThread
    <3>2. mallocs[q] + 1 \notin 1 .. mallocs[q]
      BY <1>2, MaxDepthAssumption, SMTT(20)
    <3>3. s \notin Own(q)
      BY <3>1, <3>2 DEF Own
    <3>4. ~Held(q, s)
      BY <3>3, HeldOwn
    <3>5. Elements(free_thr'[q]) = {} /\ \A k : k \notin 1 .. Len(free_thr'[q])
      BY <3>1, SMTT(20) DEF Elements
    <3>6. Elements(free_thr[q])' = Elements(free_thr'[q])
      BY DEF Elements
    <3> QED BY <3>4, <3>5, <3>6 DEF FreeOnce, Once
  <2>2. CASE free_thr[q] # <<>>
    <3>1. PICK l : l = free_thr[q]
      OBVIOUS
    <3>2. free_thr'[q] = Tail(l) /\ s = Head(l) /\ l \in Seq(Structs) /\ l # <<>>
      BY <1>1, <1>2, <2>2, <3>1 DEF AllocThread
    <3>3. Once(l)
      BY <3>1 DEF DistinctInv, FreeOnce
    <3>4. /\ s \in Elements(l) /\ s \notin Elements(Tail(l)) /\ Elements(Tail(l)) \subseteq Elements(l)
          /\ Once(Tail(l))
      BY <3>2, <3>3, TakeOnce
    <3>5. Elements(free_thr[q])' = Elements(Tail(l)) /\ Elements(free_thr[q]) = Elements(l)
      BY <3>1, <3>2 DEF Elements
    <3>6. ~Held(q, s)
      BY <3>4, <3>5 DEF DistinctInv, HeldApart
    <3>7. FreeOnce(q)'
      BY <3>2, <3>4 DEF FreeOnce
    <3> QED BY <3>4, <3>5, <3>6, <3>7
  <2> QED BY <2>1, <2>2
<1> QED BY <1>3, <1>4, <1>5 DEF Unused

\* What ompc_free_thread does to the list: a structure in use was not on it.
LEMMA Freed ==
  ASSUME NEW p \in Procs, DistinctInv(p), free_thr \in [Procs -> Seq(Structs)],
         NEW s \in Structs, Held(p, s), free_thr'[p] = <<s>> \o free_thr[p]
  PROVE  FreeOnce(p)' /\ Elements(free_thr[p])' = {s} \cup Elements(free_thr[p])
<1>1. PICK l : l = free_thr[p]
  OBVIOUS
<1>2. PICK m : m = <<s>> \o l
  OBVIOUS
<1>3. l \in Seq(Structs) /\ s \notin Elements(l) /\ Once(l)
  BY <1>1 DEF DistinctInv, FreeOnce, HeldApart
<1>4. Once(m) /\ Elements(m) = {s} \cup Elements(l)
  BY <1>2, <1>3, PushOnce
<1>5. free_thr'[p] = m
  BY <1>1, <1>2
<1>6. FreeOnce(p)'
  BY <1>4, <1>5 DEF FreeOnce
<1>7. Elements(free_thr[p])' = Elements(m) /\ Elements(free_thr[p]) = Elements(l)
  BY <1>1, <1>5 DEF Elements
<1> QED BY <1>4, <1>6, <1>7

\* The teams, in a step that starts, ends and changes none.
LEMMA TeamsKept ==
  ASSUME TInv, thr' = thr, frames' = frames, parent' = parent, num' = num, num_thds' = num_thds,
         arrived' = arrived, flag' = flag,
         \A q \in Procs : /\ pc'[q] \in Leaving => pc[q] \in Leaving
                          /\ pc'[q] = "getproc" => pc[q] = "getproc"
                          /\ pc'[q] = "assign" => pc[q] = "assign" /\ i'[q] = i[q]
  PROVE  MemberInv' /\ UniqueInv' /\ ArrivedInv' /\ RootInv'
<1>1. ASSUME NEW q \in Procs PROVE Kept(q)
  <2>1. Base(q)' = Base(q)
    BY DEF Base, Cthd
  <2> QED BY <2>1, KeptIf
<1>2. ASSUME NEW c, NEW n, Valid(c, n) PROVE Valid(c, n)'
  <2>1. Open(c, n)'
    BY <1>2, OpenKept DEF Valid
  <2> QED BY <1>2, <2>1 DEF Valid
<1>3. MemberInv' /\ UniqueInv'
  BY <1>1, <1>2, MembersKept DEF TInv, GoesOn
<1>4. ArrivedInv'
  BY DEF TInv, ArrivedInv, Cthd
<1>5. RootInv'
  BY DEF TInv, RootInv, Base, Cthd
<1> QED BY <1>3, <1>4, <1>5

----------------------------------------------------------------------------
(* Steps that do not concern the teams.                                     *)

\* A processor that stays in the program, in the wait loop, in a fork or on its way out.
QuietMove(q) ==
  /\ pc'[q] \in Leaving <=> pc[q] \in Leaving
  /\ pc'[q] = "freethr" => pc[q] = "freethr"
  /\ pc'[q] \in Forking <=> pc[q] \in Forking
  /\ pc'[q] = "join" <=> pc[q] = "join"
  /\ pc'[q] = "body" => pc[q] = "body" \/ frames[q] = <<>>
  /\ pc'[q] = "getproc" => pc[q] = "getproc"
  /\ pc'[q] = "assign" => pc[q] = "assign" /\ i'[q] = i[q]

\* A step of start-up, of the wait loop or of a fork that changes no structure.
LEMMA Quiet ==
  ASSUME IInv, TInv, \A q \in Procs : QuietMove(q),
         UNCHANGED <<thr, frames, free_thr, parent, num, num_thds, arrived, flag>>
  PROVE  TInv'
<1>0. /\ thr' = thr /\ frames' = frames /\ free_thr' = free_thr /\ parent' = parent /\ num' = num
      /\ num_thds' = num_thds /\ arrived' = arrived /\ flag' = flag
  OBVIOUS
<1>1. ASSUME NEW q \in Procs PROVE ShapeInv(q)'
  <2>1. OwnInv(q) /\ PlaceInv(q) /\ ShapeInv(q) /\ QuietMove(q)
    BY DEF IInv, ProcInv, TInv
  <2>2. ChainInv(q)'
    BY <1>0, <2>1, ChainKept DEF ShapeInv, QuietMove
  <2>3. DistinctInv(q)'
    BY <1>0, <2>1, DistinctKept DEF ShapeInv, QuietMove
  <2>4. FlagInv(q)'
    BY <1>0, <2>1 DEF ShapeInv, FlagInv, QuietMove
  <2> QED BY <2>2, <2>3, <2>4 DEF ShapeInv
<1>2. MemberInv' /\ UniqueInv' /\ ArrivedInv' /\ RootInv'
  <2>1. \A q \in Procs :
          /\ pc'[q] \in Leaving => pc[q] \in Leaving
          /\ pc'[q] = "getproc" => pc[q] = "getproc"
          /\ pc'[q] = "assign" => pc[q] = "assign" /\ i'[q] = i[q]
    BY DEF QuietMove
  <2> QED BY <1>0, <2>1, TeamsKept
<1> QED BY <1>1, <1>2 DEF TInv

\* One processor moves, quietly.
LEMMA QuietOne ==
  ASSUME IInv, TInv, NEW p \in Procs, NEW l, pc' = [pc EXCEPT ![p] = l], i' = i,
         l \in Leaving <=> pc[p] \in Leaving,
         l = "freethr" => pc[p] = "freethr",
         l \in Forking <=> pc[p] \in Forking,
         l = "join" <=> pc[p] = "join",
         l = "body" => pc[p] = "body" \/ frames[p] = <<>>,
         l = "getproc" => pc[p] = "getproc",
         l = "assign" => pc[p] = "assign",
         UNCHANGED <<thr, frames, free_thr, parent, num, num_thds, arrived, flag>>
  PROVE  TInv'
<1>1. pc \in [Procs -> Labels]
  BY DEF IInv, TypeInv
<1>2. pc'[p] = l /\ \A q \in Procs \ {p} : pc'[q] = pc[q]
  BY <1>1
<1>3. QuietMove(p)
  BY <1>2 DEF QuietMove
<1>4. \A q \in Procs \ {p} : QuietMove(q)
  BY <1>2 DEF QuietMove
<1> QED BY <1>3, <1>4, Quiet

\* Start-up, up to the wait for the slaves.
LEMMA StartupT ==
  ASSUME IInv, TInv, CreateSlave \/ CreateDone
  PROVE  TInv'
<1>1. CASE CreateSlave
  <2>1. UNCHANGED <<thr, frames, free_thr, parent, num, num_thds, arrived, flag, pc, i>>
    BY <1>1 DEF CreateSlave, heap, locals
  <2> QED BY <2>1, Quiet DEF QuietMove
<1>2. CASE CreateDone
  <2>1. /\ pc[0] = "create" /\ pc' = [pc EXCEPT ![0] = "waitprocs"]
        /\ UNCHANGED <<thr, frames, free_thr, parent, num, num_thds, arrived, flag, i>>
    BY <1>2 DEF CreateDone, Goto, heap, locals
  <2>2. 0 \in Procs
    BY NAssumption, SMTT(20) DEF Procs
  <2> QED BY <2>1, <2>2, QuietOne DEF Leaving, Forking
<1> QED BY <1>1, <1>2

\* The steps of a slave outside a region.
LEMMA SlaveT ==
  ASSUME IInv, TInv, NEW p \in Procs,
         \/ NewProc(p) \/ NewProcDone(p) \/ Spin(p) \/ WaitLock(p) \/ Recheck(p)
         \/ SpuriousWake(p) \/ FreeProc(p)
  PROVE  TInv'
<1>0. PlaceInv(p) /\ thr \in [Procs -> Structs \cup {NULL}]
  BY DEF IInv, ProcInv, TypeInv
<1>1. CASE NewProc(p)
  <2>1. /\ pc[p] = "unborn" /\ pc' = [pc EXCEPT ![p] = "register"]
        /\ UNCHANGED <<thr, frames, free_thr, parent, num, num_thds, arrived, flag, i>>
    BY <1>1 DEF NewProc, Enter, Goto, heap, locals
  <2> QED BY <2>1, QuietOne DEF Leaving, Forking
<1>2. CASE NewProcDone(p)
  <2>1. /\ pc[p] = "register" /\ pc' = [pc EXCEPT ![p] = "spin"] /\ thr' = [thr EXCEPT ![p] = NULL]
        /\ UNCHANGED <<frames, free_thr, parent, num, num_thds, arrived, flag, i>>
    BY <1>2 DEF NewProcDone, Goto, heap, locals
  <2>2. thr' = thr
    <3>1. thr[p] = NULL
      BY <1>0, <2>1 DEF PlaceInv
    <3> QED BY <1>0, <2>1, <3>1
  <2> QED BY <2>1, <2>2, QuietOne DEF Leaving, Forking
<1>3. CASE Spin(p)
  <2>1. /\ pc[p] = "spin" /\ pc' = [pc EXCEPT ![p] = IF thr[p] # NULL THEN "body" ELSE "mutex"]
        /\ UNCHANGED <<thr, frames, free_thr, parent, num, num_thds, arrived, flag, i>>
    BY <1>3 DEF Spin, Goto, heap, locals
  <2>2. frames[p] = <<>>
    BY <1>0, <2>1 DEF PlaceInv, Forking
  <2>3. CASE thr[p] # NULL
    BY <2>1, <2>2, <2>3, QuietOne DEF Leaving, Forking
  <2>4. CASE thr[p] = NULL
    BY <2>1, <2>2, <2>4, QuietOne DEF Leaving, Forking
  <2> QED BY <2>3, <2>4
<1>4. CASE WaitLock(p)
  <2>1. /\ pc[p] = "mutex" /\ pc' = [pc EXCEPT ![p] = "recheck"]
        /\ UNCHANGED <<thr, frames, free_thr, parent, num, num_thds, arrived, flag, i>>
    BY <1>4 DEF WaitLock, Goto, heap, locals
  <2> QED BY <2>1, QuietOne DEF Leaving, Forking
<1>5. CASE Recheck(p)
  <2>1. /\ pc[p] = "recheck" /\ pc' = [pc EXCEPT ![p] = IF thr[p] # NULL THEN "spin" ELSE "asleep"]
        /\ UNCHANGED <<thr, frames, free_thr, parent, num, num_thds, arrived, flag, i>>
    BY <1>5 DEF Recheck, Look, Goto, heap, locals
  <2>2. CASE thr[p] # NULL
    BY <2>1, <2>2, QuietOne DEF Leaving, Forking
  <2>3. CASE thr[p] = NULL
    BY <2>1, <2>3, QuietOne DEF Leaving, Forking
  <2> QED BY <2>2, <2>3
<1>6. CASE SpuriousWake(p)
  <2>1. /\ pc[p] = "asleep" /\ pc' = [pc EXCEPT ![p] = "mutex"]
        /\ UNCHANGED <<thr, frames, free_thr, parent, num, num_thds, arrived, flag, i>>
    BY <1>6 DEF SpuriousWake, Goto, heap, locals
  <2> QED BY <2>1, QuietOne DEF Leaving, Forking
<1>7. CASE FreeProc(p)
  <2>1. /\ pc[p] = "freeproc" /\ pc' = [pc EXCEPT ![p] = "signal"]
        /\ UNCHANGED <<thr, frames, free_thr, parent, num, num_thds, arrived, flag, i>>
    BY <1>7 DEF FreeProc, Goto, heap, locals
  <2> QED BY <2>1, QuietOne DEF Leaving, Forking
<1> QED BY <1>1, <1>2, <1>3, <1>4, <1>5, <1>6, <1>7

\* A master takes processors from the pool, and wakes those that it has started.
LEMMA MasterT ==
  ASSUME IInv, TInv, NEW p \in Procs, GetProc(p) \/ AssignDone(p) \/ Broadcast(p)
  PROVE  TInv'
<1>0. i \in [Procs -> 1 .. N] /\ pc \in [Procs -> Labels]
  BY DEF IInv, TypeInv
<1>1. CASE GetProc(p)
  <2>1. /\ pc[p] = "getproc" /\ i' = [i EXCEPT ![p] = @ + 1]
        /\ UNCHANGED <<thr, frames, free_thr, parent, num, num_thds, arrived, flag, pc>>
    BY <1>1 DEF GetProc, heap
  <2>2. \A q \in Procs \ {p} : i'[q] = i[q]
    BY <1>0, <2>1
  <2>3. \A q \in Procs : QuietMove(q)
    BY <2>1, <2>2 DEF QuietMove
  <2> QED BY <2>1, <2>3, Quiet
<1>2. CASE AssignDone(p)
  <2>1. /\ pc[p] = "assign"
        /\ pc' = [pc EXCEPT ![p] = IF num_thds[Frame(p).cthd] > 1 THEN "bcast" ELSE "alloc"]
        /\ UNCHANGED <<thr, frames, free_thr, parent, num, num_thds, arrived, flag, i>>
    BY <1>2 DEF AssignDone, Goto, heap, locals
  <2>2. CASE num_thds[Frame(p).cthd] > 1
    BY <2>1, <2>2, QuietOne DEF Leaving, Forking
  <2>3. CASE ~(num_thds[Frame(p).cthd] > 1)
    BY <2>1, <2>3, QuietOne DEF Leaving, Forking
  <2> QED BY <2>2, <2>3
<1>3. CASE Broadcast(p)
  <2>1. /\ pc[p] = "bcast"
        /\ pc' = [q \in Procs |-> IF q = p THEN "alloc" ELSE IF pc[q] = "asleep" THEN "mutex" ELSE pc[q]]
        /\ UNCHANGED <<thr, frames, free_thr, parent, num, num_thds, arrived, flag, i>>
    BY <1>3 DEF Broadcast, heap, locals
  <2>2. ASSUME NEW q \in Procs PROVE QuietMove(q)
    <3>1. \/ pc'[q] = pc[q]
          \/ pc[q] = "bcast" /\ pc'[q] = "alloc"
          \/ pc[q] = "asleep" /\ pc'[q] = "mutex"
      <4>1. pc'[q] = IF q = p THEN "alloc" ELSE IF pc[q] = "asleep" THEN "mutex" ELSE pc[q]
        BY <2>1
      <4>2. CASE q = p
        BY <2>1, <4>1, <4>2
      <4>3. CASE q # p
        BY <4>1, <4>3
      <4> QED BY <4>2, <4>3
    <3>2. CASE pc'[q] = pc[q]
      BY <2>1, <3>2 DEF QuietMove
    <3>3. CASE pc[q] = "bcast" /\ pc'[q] = "alloc"
      BY <3>3 DEF QuietMove, Leaving, Forking
    <3>4. CASE pc[q] = "asleep" /\ pc'[q] = "mutex"
      BY <3>4 DEF QuietMove, Leaving, Forking
    <3> QED BY <3>1, <3>2, <3>3, <3>4
  <2> QED BY <2>1, <2>2, Quiet
<1> QED BY <1>1, <1>2, <1>3

----------------------------------------------------------------------------
(* Steps that do.                                                           *)

\* The initial states.
LEMMA InitTInv == Init => TInv
<1> SUFFICES ASSUME Init PROVE TInv
  OBVIOUS
<1>0. 0 \in Procs
  BY NAssumption, SMTT(20) DEF Procs
<1>1. \A p \in Procs : /\ thr[p] = NULL /\ frames[p] = <<>> /\ free_thr[p] = <<>> /\ flag[p] = NULL
                       /\ pc[p] \in {"create", "unborn"}
  BY DEF Init
<1>2. \A k : k \notin 1 .. Len(<<>>)
  BY SMTT(20)
<1>3. ASSUME NEW p \in Procs PROVE ShapeInv(p)
  <2>1. ChainInv(p)
    BY <1>1, <1>2 DEF ChainInv, Forking
  <2>2. CthdOnce(p) /\ ThrApart(p) /\ FreeOnce(p)
    BY <1>1, <1>2 DEF CthdOnce, ThrApart, FreeOnce, Once
  <2>3. HeldApart(p)
    BY <1>1, <1>2 DEF HeldApart, Held
  <2>4. FlagInv(p)
    BY <1>1 DEF FlagInv
  <2> QED BY <2>1, <2>2, <2>3, <2>4 DEF ShapeInv, DistinctInv
<1>4. \A q \in Procs, r \in Roles : ~On(q, r)
  BY <1>1 DEF On, Leaving
<1>5. MemberInv /\ UniqueInv
  BY <1>4 DEF MemberInv, UniqueInv
<1>6. ArrivedInv
  BY <1>1 DEF ArrivedInv
<1>7. RootInv
  BY <1>0, <1>1 DEF RootInv
<1> QED BY <1>3, <1>5, <1>6, <1>7 DEF TInv

\* The other processors, in a step that concerns the structures of one.
LEMMA OthersShape ==
  ASSUME IInv, TInv, NEW p \in Procs, \A q \in Procs \ {p} : Same(q),
         NEW s, s \notin Structs \/ s \in Own(p)' \/ s \in Own(p),
         \A t \in Structs \ {s} : parent'[t] = parent[t] /\ num'[t] = num[t]
  PROVE  \A q \in Procs \ {p} : ShapeInv(q)'
<1> SUFFICES ASSUME NEW q \in Procs \ {p} PROVE ShapeInv(q)'
  OBVIOUS
<1>1. OwnInv(q) /\ PlaceInv(q) /\ ShapeInv(q) /\ TypeInv
  BY DEF IInv, ProcInv, TInv
<1>2. ASSUME NEW t \in Own(q) PROVE parent'[t] = parent[t] /\ num'[t] = num[t]
  <2>1. t \in Structs
    BY <1>1, OwnStruct
  <2>2. t \notin Own(p) /\ t \notin Own(p)'
    BY OwnOne DEF Own
  <2> QED BY <2>1, <2>2
<1> QED BY <1>1, <1>2, ShapeKept

\* A processor that is the master of no region.
LEMMA NoFrames ==
  ASSUME NEW p \in Procs, frames'[p] = <<>>, pc'[p] \notin Forking
  PROVE  /\ ChainInv(p)' /\ CthdOnce(p)' /\ ThrApart(p)'
         /\ \A s : Held(p, s)' => \/ thr'[p] = s /\ s # NULL
                                  \/ pc'[p] = "freethr" /\ flag'[p].me = s
<1>1. \A k : k \notin 1 .. Len(frames'[p])
  BY SMTT(20)
<1>2. ChainInv(p)'
  BY <1>1 DEF ChainInv
<1>3. CthdOnce(p)' /\ ThrApart(p)'
  BY <1>1 DEF CthdOnce, ThrApart
<1>4. \A s : Held(p, s)' => (thr'[p] = s /\ s # NULL) \/ (pc'[p] = "freethr" /\ flag'[p].me = s)
  BY <1>1 DEF Held
<1> QED BY <1>2, <1>3, <1>4

\* The initial thread gets its structure: nobody has started a region.
LEMMA WaitProcsT == ASSUME IInv, IInv', TInv, WaitProcs PROVE TInv'
<1>1. /\ pc[0] = "waitprocs" /\ pc' = [pc EXCEPT ![0] = "body"]
      /\ UNCHANGED <<is_used, frames, proclist, max_thds, i, flag, arrived>>
  BY DEF WaitProcs, Goto, pool, locals
<1>2. PICK s \in Structs : TakeThread(0, s, NULL, 0, 0) /\ thr' = [thr EXCEPT ![0] = s]
  BY DEF WaitProcs
<1>3. /\ 0 \in Procs /\ TypeInv /\ s # NULL /\ OwnInv(0)' /\ PlaceInv(0) /\ ShapeInv(0)
      /\ \A r \in Procs : OwnInv(r)
  <2>1. 0 \in Procs
    BY NAssumption, SMTT(20) DEF Procs
  <2> QED BY <2>1, NullAssumption DEF IInv, ProcInv, TInv
<1>4. /\ pc \in [Procs -> Labels] /\ thr \in [Procs -> Structs \cup {NULL}]
      /\ free_thr \in [Procs -> Seq(Structs)] /\ mallocs \in [Procs -> 0 .. MaxDepth+1]
  BY <1>3 DEF TypeInv
<1>5. /\ pc'[0] = "body" /\ thr'[0] = s /\ frames'[0] = <<>> /\ flag'[0] = NULL
      /\ \A q \in Procs \ {0} : pc'[q] = pc[q] /\ thr'[q] = thr[q]
  <2>1. frames[0] = <<>>
    BY <1>1, <1>3 DEF PlaceInv, Forking
  <2>2. flag[0] = NULL
    BY <1>1, <1>3 DEF ShapeInv, FlagInv, Leaving
  <2> QED BY <1>1, <1>2, <1>3, <1>4, <2>1, <2>2
<1>6. s \in Own(0)'
  BY <1>3, <1>5 DEF OwnInv
<1>7. /\ FreeOnce(0)' /\ s \notin Elements(free_thr[0])'
      /\ \A t \in Structs \ {s} : parent'[t] = parent[t] /\ num'[t] = num[t]
      /\ parent'[s] = NULL
  <2>1. DistinctInv(0) /\ TakeThread(0, s, NULL, 0, 0)
    BY <1>2, <1>3 DEF ShapeInv
  <2>2. Unused(0, s, NULL, 0)
    BY <1>3, <1>6, <2>1, Fresh
  <2> QED BY <2>2 DEF Unused
<1>8. \A q \in Procs \ {0} : ShapeInv(q)'
  <2>1. \A q \in Procs \ {0} : free_thr'[q] = free_thr[q] /\ mallocs'[q] = mallocs[q]
    BY <1>2, <1>3, <1>4 DEF TakeThread
  <2>2. \A q \in Procs \ {0} : Same(q)
    BY <1>1, <1>5, <2>1 DEF Same
  <2> QED BY <1>3, <1>6, <1>7, <2>2, OthersShape
<1>9. ShapeInv(0)'
  <2>1. /\ ChainInv(0)' /\ CthdOnce(0)' /\ ThrApart(0)'
        /\ \A t : Held(0, t)' => t = s
    BY <1>3, <1>5, NoFrames DEF Forking
  <2>2. HeldApart(0)'
    BY <1>7, <2>1 DEF HeldApart
  <2>3. FlagInv(0)'
    BY <1>5 DEF FlagInv
  <2> QED BY <1>7, <2>1, <2>2, <2>3 DEF ShapeInv, DistinctInv
<1>10. \A q \in Procs, r \in Roles : ~On(q, r)'
  <2>1. \A q \in Procs \ {0} : pc[q] \in Waiting \cup {"unborn", "register"} /\ thr[q] = NULL
    BY <1>1 DEF IInv, StartInv, Starting
  <2>2. ASSUME NEW q \in Procs PROVE ~On(q, "job")'
    BY <1>5, <2>1 DEF On
  <2>3. ASSUME NEW q \in Procs PROVE ~On(q, "debt")'
    BY <1>5, <2>1 DEF On, Leaving, Waiting
  <2> QED BY <2>2, <2>3 DEF Roles
<1>11. MemberInv' /\ UniqueInv'
  BY <1>10 DEF MemberInv, UniqueInv
<1>12. ArrivedInv'
  BY <1>1, <1>5 DEF TInv, ArrivedInv, Cthd
<1>13. RootInv'
  BY <1>5, <1>7 DEF RootInv, Base
<1> QED BY <1>3, <1>8, <1>9, <1>11, <1>12, <1>13 DEF TInv

\* The place in a team that a slave had as r0, when p leaves its region.
Before(p, q, r, r0) ==
  /\ On(q, r0) /\ Team(q, r)' = Team(q, r0) /\ Nr(q, r)' = Nr(q, r0)
  /\ q = p => r = "debt"
  /\ q # p => r0 = r

\* The slave leaves the region: its place in the team is now the flag it has to raise.
LEMMA FinishT == ASSUME IInv, TInv, NEW p \in Procs, Finish(p) PROVE TInv'
<1>1. /\ pc[p] = "body" /\ p # 0 /\ frames[p] = <<>>
      /\ flag' = [flag EXCEPT ![p] = [me |-> thr[p], i |-> num[thr[p]], tp |-> parent[thr[p]]]]
      /\ thr' = [thr EXCEPT ![p] = NULL] /\ pc' = [pc EXCEPT ![p] = "freethr"]
  BY DEF Finish, Leave, Goto
<1>2. /\ free_thr' = free_thr /\ mallocs' = mallocs /\ parent' = parent /\ num' = num /\ num_thds' = num_thds
      /\ arrived' = arrived /\ frames' = frames /\ proclist' = proclist /\ max_thds' = max_thds /\ i' = i
      /\ is_used' = is_used
  BY DEF Finish, Leave, pool, heap
<1>3. /\ TypeInv /\ pc \in [Procs -> Labels] /\ thr \in [Procs -> Structs \cup {NULL}]
      /\ flag \in [Procs -> Flags \cup {NULL}]
  BY DEF IInv, TypeInv
<1>4. ProcInv(p) /\ OwnInv(p) /\ PlaceInv(p) /\ ShapeInv(p)
  BY DEF IInv, ProcInv, TInv
<1>5. thr[p] # NULL /\ thr[p] \in Structs
  <2>1. thr[p] # NULL
    BY <1>1, <1>4 DEF PlaceInv
  <2> QED BY <1>3, <2>1
<1>6. /\ pc'[p] = "freethr" /\ thr'[p] = NULL
      /\ flag'[p] = [me |-> thr[p], i |-> num[thr[p]], tp |-> parent[thr[p]]]
      /\ \A q \in Procs \ {p} : pc'[q] = pc[q] /\ thr'[q] = thr[q] /\ flag'[q] = flag[q]
  BY <1>1, <1>3
<1>6a. flag'[p].me = thr[p] /\ flag'[p].tp = parent[thr[p]] /\ flag'[p].i = num[thr[p]]
  <2>1. flag'[p] = [me |-> thr[p], i |-> num[thr[p]], tp |-> parent[thr[p]]]
    BY <1>6
  <2> QED BY <2>1, SMTT(20)
<1>7. \A q \in Procs \ {p} : ShapeInv(q)'
  <2>1. \A q \in Procs \ {p} : Same(q)
    BY <1>2, <1>6 DEF Same
  <2>2. \A t \in Structs \ {NULL} : parent'[t] = parent[t] /\ num'[t] = num[t]
    BY <1>2
  <2> QED BY <2>1, <2>2, OthersShape, NullAssumption
<1>8. ShapeInv(p)'
  <2>1. /\ ChainInv(p)' /\ CthdOnce(p)' /\ ThrApart(p)'
        /\ \A s : Held(p, s)' => s = thr[p]
    <3>1. frames'[p] = <<>> /\ pc'[p] \notin Forking
      BY <1>1, <1>2, <1>6 DEF Forking
    <3>2. /\ ChainInv(p)' /\ CthdOnce(p)' /\ ThrApart(p)'
          /\ \A s : Held(p, s)' => (thr'[p] = s /\ s # NULL) \/ (pc'[p] = "freethr" /\ flag'[p].me = s)
      BY <3>1, NoFrames
    <3> QED BY <1>6, <1>6a, <3>2
  <2>2. FreeOnce(p)'
    BY <1>2, <1>4 DEF ShapeInv, DistinctInv, FreeOnce
  <2>3. HeldApart(p)'
    <3>1. Held(p, thr[p])
      BY <1>1, <1>5 DEF Held, Forking
    <3>2. thr[p] \notin Elements(free_thr[p])
      BY <1>4, <1>5, <3>1 DEF ShapeInv, DistinctInv, HeldApart
    <3>3. Elements(free_thr[p])' = Elements(free_thr[p])
      BY <1>2
    <3> QED BY <2>1, <3>2, <3>3 DEF HeldApart
  <2>4. FlagInv(p)'
    BY <1>6 DEF FlagInv, Leaving
  <2> QED BY <2>1, <2>2, <2>3, <2>4 DEF ShapeInv, DistinctInv
<1>9. ASSUME NEW q \in Procs, q # p PROVE Kept(q)
  <2>1. Base(q)' = Base(q) /\ thr'[q] = thr[q] /\ flag'[q] = flag[q] /\ pc'[q] = pc[q]
    BY <1>2, <1>6, <1>9 DEF Base, Cthd
  <2> QED BY <1>2, <2>1, KeptIf
<1>10. /\ On(p, "job") /\ ~On(p, "job")' /\ Team(p, "debt")' = Team(p, "job")
       /\ Nr(p, "debt")' = Nr(p, "job")
  <2>1. Base(p) = thr[p]
    BY <1>1 DEF Base
  <2>2. On(p, "job") /\ ~On(p, "job")'
    BY <1>1, <1>5, <1>6 DEF On
  <2>3. Team(p, "job") = parent[thr[p]] /\ Nr(p, "job") = num[thr[p]]
    BY <2>1 DEF Team, Nr
  <2>4. Team(p, "debt")' = flag'[p].tp /\ Nr(p, "debt")' = flag'[p].i
    BY DEF Team, Nr
  <2> QED BY <1>6a, <2>2, <2>3, <2>4
<1>11. ASSUME NEW q \in Procs, NEW r \in Roles, On(q, r)'
       PROVE  \E r0 \in Roles : Before(p, q, r, r0)
  <2>1. CASE q # p
    BY <1>9, <1>11, <2>1 DEF Kept, Before
  <2>2. CASE q = p
    <3>1. r = "debt"
      BY <1>10, <1>11, <2>2 DEF Roles
    <3>2. Before(p, q, r, "job")
      BY <1>10, <2>2, <3>1 DEF Before
    <3> QED BY <3>2 DEF Roles
  <2> QED BY <2>1, <2>2
<1>12. ASSUME NEW c, NEW n, Valid(c, n) PROVE Valid(c, n)'
  <2>1. \A q \in Procs : pc[q] # "getproc" => pc'[q] # "getproc" /\ (pc'[q] = "assign" => pc[q] = "assign")
    BY <1>1, <1>6
  <2>2. Open(c, n)'
    BY <1>2, <1>12, <2>1, OpenKept DEF Valid
  <2> QED BY <1>2, <1>12, <2>2 DEF Valid
<1>13. MemberInv'
  <2> SUFFICES ASSUME NEW q \in Procs, NEW r \in Roles, On(q, r)'
               PROVE  Valid(Team(q, r), Nr(q, r))'
    BY DEF MemberInv
  <2>0. PICK r0 \in Roles : Before(p, q, r, r0)
    BY <1>11
  <2>1. On(q, r0) /\ Team(q, r)' = Team(q, r0) /\ Nr(q, r)' = Nr(q, r0)
    BY <2>0 DEF Before
  <2>2. PICK c : c = Team(q, r0)
    OBVIOUS
  <2>3. PICK n : n = Nr(q, r0)
    OBVIOUS
  <2>4. Valid(c, n)
    BY <2>1, <2>2, <2>3 DEF TInv, MemberInv
  <2>5. Valid(c, n)' /\ c = Team(q, r)' /\ n = Nr(q, r)'
    BY <1>12, <2>1, <2>2, <2>3, <2>4
  <2> QED BY <2>5 DEF Valid, Open
<1>14. UniqueInv'
  <2> SUFFICES ASSUME NEW q1 \in Procs, NEW q2 \in Procs, NEW r1 \in Roles, NEW r2 \in Roles,
                      On(q1, r1)', On(q2, r2)', Team(q1, r1)' = Team(q2, r2)', Nr(q1, r1)' = Nr(q2, r2)'
               PROVE  q1 = q2 /\ r1 = r2
    BY DEF UniqueInv
  <2>1. PICK s1 \in Roles : Before(p, q1, r1, s1)
    BY <1>11
  <2>2. PICK s2 \in Roles : Before(p, q2, r2, s2)
    BY <1>11
  <2>3. On(q1, s1) /\ On(q2, s2) /\ Team(q1, s1) = Team(q2, s2) /\ Nr(q1, s1) = Nr(q2, s2)
    BY <2>1, <2>2 DEF Before
  <2>4. q1 = q2 /\ s1 = s2
    BY <2>3 DEF TInv, UniqueInv
  <2> QED BY <2>1, <2>2, <2>4 DEF Before
<1>15. ArrivedInv'
  <2>1. \A q \in Procs : pc'[q] = "assign" => pc[q] = "assign"
    BY <1>6
  <2> QED BY <1>2, <2>1 DEF TInv, ArrivedInv, Cthd
<1>16. RootInv'
  <2>1. 0 \in Procs
    BY NAssumption, SMTT(20) DEF Procs
  <2>2. thr'[0] = thr[0]
    BY <1>1, <1>6, <2>1
  <2> QED BY <1>2, <2>2 DEF TInv, RootInv, Base, Cthd
<1> QED BY <1>7, <1>8, <1>13, <1>14, <1>15, <1>16 DEF TInv

\* The slave frees the structure that it executed in, which is not free yet.
LEMMA FreeMeT == ASSUME IInv, TInv, NEW p \in Procs, FreeMe(p) PROVE TInv'
<1>1. /\ pc[p] = "freethr" /\ free_thr' = [free_thr EXCEPT ![p] = <<flag[p].me>> \o @]
      /\ pc' = [pc EXCEPT ![p] = "freeproc"]
  BY DEF FreeMe, FreeThread, Goto
<1>2. /\ thr' = thr /\ mallocs' = mallocs /\ parent' = parent /\ num' = num /\ num_thds' = num_thds
      /\ arrived' = arrived /\ frames' = frames /\ proclist' = proclist /\ max_thds' = max_thds /\ i' = i
      /\ flag' = flag /\ is_used' = is_used
  BY DEF FreeMe, FreeThread, pool, locals
<1>3. TypeInv /\ pc \in [Procs -> Labels] /\ free_thr \in [Procs -> Seq(Structs)]
  BY DEF IInv, TypeInv
<1>4. OwnInv(p) /\ PlaceInv(p) /\ ShapeInv(p)
  BY DEF IInv, ProcInv, TInv
<1>5. frames[p] = <<>> /\ thr[p] = NULL /\ flag[p].me \in Structs /\ Held(p, flag[p].me)
  <2>1. frames[p] = <<>> /\ thr[p] = NULL
    BY <1>1, <1>4 DEF PlaceInv, Forking
  <2>2. flag[p].me \in Own(p)
    BY <1>1, <1>4 DEF OwnInv
  <2>3. flag[p].me \in Structs
    BY <1>3, <2>2, OwnStruct
  <2> QED BY <1>1, <2>1, <2>3 DEF Held
<1>6. /\ pc'[p] = "freeproc" /\ free_thr'[p] = <<flag[p].me>> \o free_thr[p]
      /\ \A q \in Procs \ {p} : pc'[q] = pc[q] /\ free_thr'[q] = free_thr[q]
  BY <1>1, <1>3
<1>7. \A q \in Procs \ {p} : ShapeInv(q)'
  <2>1. \A q \in Procs \ {p} : Same(q)
    BY <1>2, <1>6 DEF Same
  <2>2. \A t \in Structs \ {NULL} : parent'[t] = parent[t] /\ num'[t] = num[t]
    BY <1>2
  <2> QED BY <2>1, <2>2, OthersShape, NullAssumption
<1>8. ShapeInv(p)'
  <2>1. /\ ChainInv(p)' /\ CthdOnce(p)' /\ ThrApart(p)' /\ \A s : ~Held(p, s)'
    <3>1. frames'[p] = <<>> /\ pc'[p] \notin Forking
      BY <1>2, <1>5, <1>6 DEF Forking
    <3>2. /\ ChainInv(p)' /\ CthdOnce(p)' /\ ThrApart(p)'
          /\ \A s : Held(p, s)' => (thr'[p] = s /\ s # NULL) \/ (pc'[p] = "freethr" /\ flag'[p].me = s)
      BY <3>1, NoFrames
    <3> QED BY <1>2, <1>5, <1>6, <3>2
  <2>2. FreeOnce(p)'
    BY <1>3, <1>4, <1>5, <1>6, Freed DEF ShapeInv
  <2>3. HeldApart(p)'
    BY <2>1 DEF HeldApart
  <2>4. FlagInv(p)'
    BY <1>6 DEF FlagInv, Leaving
  <2> QED BY <2>1, <2>2, <2>3, <2>4 DEF ShapeInv, DistinctInv
<1>9. MemberInv' /\ UniqueInv' /\ ArrivedInv' /\ RootInv'
  <2>1. \A q \in Procs :
          /\ pc'[q] \in Leaving => pc[q] \in Leaving
          /\ pc'[q] = "getproc" => pc[q] = "getproc"
          /\ pc'[q] = "assign" => pc[q] = "assign" /\ i'[q] = i[q]
    BY <1>1, <1>2, <1>6 DEF Leaving
  <2> QED BY <1>2, <2>1, TeamsKept
<1> QED BY <1>7, <1>8, <1>9 DEF TInv

\* The master frees the structure that it executed in, which is not free yet.
LEMMA ReturnT == ASSUME IInv, TInv, NEW p \in Procs, Return(p) PROVE TInv'
<1>1. /\ pc[p] = "body" /\ frames[p] # <<>> /\ free_thr' = [free_thr EXCEPT ![p] = <<Frame(p).tp>> \o @]
      /\ pc' = [pc EXCEPT ![p] = "join"]
  BY DEF Return, FreeThread, Goto
<1>2. /\ thr' = thr /\ mallocs' = mallocs /\ parent' = parent /\ num' = num /\ num_thds' = num_thds
      /\ arrived' = arrived /\ frames' = frames /\ proclist' = proclist /\ max_thds' = max_thds /\ i' = i
      /\ flag' = flag /\ is_used' = is_used
  BY DEF Return, FreeThread, pool, locals
<1>3. /\ TypeInv /\ pc \in [Procs -> Labels] /\ free_thr \in [Procs -> Seq(Structs)]
      /\ thr \in [Procs -> Structs \cup {NULL}]
  BY DEF IInv, TypeInv
<1>4. OwnInv(p) /\ PlaceInv(p) /\ ShapeInv(p) /\ ChainInv(p) /\ DistinctInv(p)
  BY DEF IInv, ProcInv, TInv, ShapeInv
<1>5. Frame(p).tp = thr[p] /\ thr[p] \in Structs /\ Held(p, thr[p])
  <2>1. Frame(p) = frames[p][1] /\ 1 \in 1 .. Len(frames[p])
    BY <1>1, <1>3, FrameIsFirst
  <2>2. Frame(p).tp = thr[p]
    BY <1>1, <1>4, <2>1 DEF ChainInv, Above
  <2>3. thr[p] # NULL
    BY <1>1, <1>4 DEF PlaceInv
  <2>4. thr[p] \in Structs
    BY <1>3, <2>3
  <2> QED BY <1>1, <2>2, <2>3, <2>4 DEF Held, Forking
<1>6. /\ pc'[p] = "join" /\ free_thr'[p] = <<thr[p]>> \o free_thr[p]
      /\ \A q \in Procs \ {p} : pc'[q] = pc[q] /\ free_thr'[q] = free_thr[q]
  BY <1>1, <1>3, <1>5
<1>7. \A q \in Procs \ {p} : ShapeInv(q)'
  <2>1. \A q \in Procs \ {p} : Same(q)
    BY <1>2, <1>6 DEF Same
  <2>2. \A t \in Structs \ {NULL} : parent'[t] = parent[t] /\ num'[t] = num[t]
    BY <1>2
  <2> QED BY <2>1, <2>2, OthersShape, NullAssumption
<1>8. ShapeInv(p)'
  <2>1. ChainInv(p)'
    BY <1>1, <1>2, <1>4, <1>6, ChainKept DEF Forking
  <2>2. CthdOnce(p)' /\ ThrApart(p)'
    BY <1>2, <1>4, <1>6 DEF DistinctInv, CthdOnce, ThrApart, Cthd
  <2>3. FreeOnce(p)' /\ Elements(free_thr[p])' = {thr[p]} \cup Elements(free_thr[p])
    BY <1>3, <1>4, <1>5, <1>6, Freed
  <2>4. HeldApart(p)'
    <3> SUFFICES ASSUME NEW s \in Structs, Held(p, s)' PROVE s \notin Elements(free_thr[p])'
      BY DEF HeldApart
    <3>1. PICK k \in 1 .. Len(frames[p]) : Cthd(p, k) = s
      BY <1>2, <1>6 DEF Held, Cthd
    <3>2. s # thr[p]
      BY <1>1, <1>4, <3>1 DEF DistinctInv, ThrApart
    <3>3. s \notin Elements(free_thr[p])
      BY <1>4, <3>1 DEF DistinctInv, HeldApart, Held
    <3> QED BY <2>3, <3>2, <3>3
  <2>5. FlagInv(p)'
    BY <1>1, <1>2, <1>4, <1>6 DEF ShapeInv, FlagInv, Leaving
  <2> QED BY <2>1, <2>2, <2>3, <2>4, <2>5 DEF ShapeInv, DistinctInv
<1>9. MemberInv' /\ UniqueInv' /\ ArrivedInv' /\ RootInv'
  <2>1. \A q \in Procs :
          /\ pc'[q] \in Leaving => pc[q] \in Leaving
          /\ pc'[q] = "getproc" => pc[q] = "getproc"
          /\ pc'[q] = "assign" => pc[q] = "assign" /\ i'[q] = i[q]
    BY <1>1, <1>2, <1>6 DEF Leaving
  <2> QED BY <1>2, <2>1, TeamsKept
<1> QED BY <1>7, <1>8, <1>9 DEF TInv

\* Who starts a team is the master of the frame that it belongs to.
LEMMA OpenFrame ==
  ASSUME IInv, TInv, NEW p \in Procs, NEW k \in 1 .. Len(frames[p]), NEW n, Open(Cthd(p, k), n)
  PROVE  k = 1 => pc[p] # "getproc" /\ (pc[p] = "assign" => n < i[p])
<1>1. PICK q \in Procs : \E j \in 1 .. Len(frames[q]) :
        Cthd(q, j) = Cthd(p, k) /\ (j = 1 => pc[q] # "getproc" /\ (pc[q] = "assign" => n < i[q]))
  BY DEF Open
<1>2. PICK j \in 1 .. Len(frames[q]) :
        Cthd(q, j) = Cthd(p, k) /\ (j = 1 => pc[q] # "getproc" /\ (pc[q] = "assign" => n < i[q]))
  BY <1>1
<1>3. \A a \in 1 .. Len(frames[q]), b \in 1 .. Len(frames[p]) : Cthd(q, a) = Cthd(p, b) => q = p /\ a = b
  BY FrameOne
<1>4. Cthd(q, j) = Cthd(p, k)
  BY <1>2
<1>5. q = p /\ j = k
  BY <1>3, <1>4
<1> QED BY <1>2, <1>5

\* The slave raises its flag: nobody else of the team has its number.
LEMMA SignalT == ASSUME IInv, TInv, NEW p \in Procs, Signal(p) PROVE TInv'
<1>0. PICK c : c = flag[p].tp
  OBVIOUS
<1>0a. PICK n : n = flag[p].i
  OBVIOUS
<1>1. /\ pc[p] = "signal" /\ arrived' = [arrived EXCEPT ![c] = @ \cup {n}]
      /\ flag' = [flag EXCEPT ![p] = NULL] /\ pc' = [pc EXCEPT ![p] = "spin"]
  BY <1>0, <1>0a DEF Signal, Goto
<1>2. /\ thr' = thr /\ mallocs' = mallocs /\ free_thr' = free_thr /\ parent' = parent /\ num' = num
      /\ num_thds' = num_thds /\ frames' = frames /\ proclist' = proclist /\ max_thds' = max_thds
      /\ i' = i /\ is_used' = is_used
  BY DEF Signal, pool, heap
<1>3. /\ pc \in [Procs -> Labels] /\ flag \in [Procs -> Flags \cup {NULL}]
      /\ arrived \in [Structs -> SUBSET Procs]
  BY DEF IInv, TypeInv
<1>4. /\ pc'[p] = "spin" /\ flag'[p] = NULL
      /\ \A q \in Procs \ {p} : pc'[q] = pc[q] /\ flag'[q] = flag[q]
  BY <1>1, <1>3
<1>5. On(p, "debt") /\ Team(p, "debt") = c /\ Nr(p, "debt") = n /\ ~On(p, "debt")'
  BY <1>0, <1>0a, <1>1, <1>4 DEF On, Team, Nr, Leaving
<1>6. Valid(c, n)
  <2>1. Valid(Team(p, "debt"), Nr(p, "debt"))
    BY <1>5 DEF TInv, MemberInv, Roles
  <2> QED BY <1>5, <2>1
<1>7. c \in Structs /\ arrived'[c] = arrived[c] \cup {n} /\ \A t \in Structs \ {c} : arrived'[t] = arrived[t]
  <2>1. c \in Structs
    BY <1>6 DEF Valid
  <2> QED BY <1>1, <1>3, <2>1
<1>8. \A q \in Procs \ {p} : ShapeInv(q)'
  <2>1. \A q \in Procs \ {p} : Same(q)
    BY <1>2, <1>4 DEF Same
  <2>2. \A t \in Structs \ {NULL} : parent'[t] = parent[t] /\ num'[t] = num[t]
    BY <1>2
  <2> QED BY <2>1, <2>2, OthersShape, NullAssumption
<1>9. ShapeInv(p)'
  <2>0. OwnInv(p) /\ PlaceInv(p) /\ ShapeInv(p)
    BY DEF IInv, ProcInv, TInv
  <2>1. ChainInv(p)'
    BY <1>2, <1>4, <2>0, ChainKept DEF ShapeInv, Forking
  <2>2. DistinctInv(p)'
    BY <1>1, <1>2, <1>4, <2>0, DistinctKept DEF ShapeInv, Forking
  <2>3. FlagInv(p)'
    BY <1>4 DEF FlagInv
  <2> QED BY <2>1, <2>2, <2>3 DEF ShapeInv
<1>10. ASSUME NEW q \in Procs PROVE Kept(q)
  <2>1. Base(q)' = Base(q)
    BY <1>2 DEF Base, Cthd
  <2>2. pc'[q] \in Leaving => pc[q] \in Leaving /\ flag'[q] = flag[q]
    BY <1>4 DEF Leaving
  <2> QED BY <1>2, <2>1, <2>2, KeptIf
<1>11. ASSUME NEW d, NEW m, Valid(d, m), d # c \/ m # n PROVE Valid(d, m)'
  <2>1. \A q \in Procs : pc[q] # "getproc" => pc'[q] # "getproc" /\ (pc'[q] = "assign" => pc[q] = "assign")
    BY <1>4
  <2>2. Open(d, m)'
    BY <1>2, <1>11, <2>1, OpenKept DEF Valid
  <2>3. m \notin arrived'[d]
    <3>1. CASE d = c
      <4>1. m # n /\ m \notin arrived[c]
        BY <1>11, <3>1 DEF Valid
      <4> QED BY <1>7, <3>1, <4>1
    <3>2. CASE d # c
      BY <1>7, <1>11, <3>2 DEF Valid
    <3> QED BY <3>1, <3>2
  <2> QED BY <1>2, <1>11, <2>2, <2>3 DEF Valid
<1>12. ASSUME NEW q \in Procs, NEW r \in Roles, On(q, r)' PROVE GoesOn(q, r)
  <2>1. On(q, r)
    BY <1>10, <1>12 DEF Kept
  <2>2. Team(q, r) # c \/ Nr(q, r) # n
    <3> SUFFICES ASSUME Team(q, r) = c, Nr(q, r) = n PROVE FALSE
      OBVIOUS
    <3>1. "debt" \in Roles
      BY DEF Roles
    <3>2. Team(q, r) = Team(p, "debt") /\ Nr(q, r) = Nr(p, "debt")
      BY <1>5
    <3>3. q = p /\ r = "debt"
      BY <1>5, <2>1, <3>1, <3>2 DEF TInv, UniqueInv
    <3> QED BY <1>5, <1>12, <3>3
  <2> QED BY <1>11, <2>2 DEF GoesOn
<1>13. MemberInv' /\ UniqueInv'
  BY <1>10, <1>12, MembersKept DEF TInv
<1>14. ArrivedInv'
  <2> SUFFICES ASSUME NEW a \in Procs, pc'[a] = "assign", NEW m \in arrived'[Cthd(a, 1)]
               PROVE  m < i[a]
    BY <1>2 DEF ArrivedInv, Cthd
  <2>1. pc[a] = "assign"
    BY <1>4
  <2>2. m \in arrived[Cthd(a, 1)] => m < i[a]
    BY <2>1 DEF TInv, ArrivedInv
  <2>3. 1 \in 1 .. Len(frames[a]) /\ Cthd(a, 1) \in Structs
    <3>1. TypeInv /\ PlaceInv(a)
      BY DEF IInv, ProcInv
    <3>2. frames[a] # <<>>
      BY <2>1, <3>1 DEF PlaceInv, Forking
    <3> QED BY <3>1, <3>2, FrameIsFirst DEF Cthd
  <2>4. Cthd(a, 1) = c => n < i[a]
    <3>1. Open(c, n)
      BY <1>6 DEF Valid
    <3> QED BY <2>1, <2>3, <3>1, OpenFrame
  <2> QED BY <1>7, <2>2, <2>3, <2>4
<1>15. RootInv'
  BY <1>2 DEF TInv, RootInv, Base, Cthd
<1> QED BY <1>8, <1>9, <1>13, <1>14, <1>15 DEF TInv

\* A team stays open while its master keeps the frame, wherever on its stack.
LEMMA OpenShift ==
  ASSUME NEW p \in Procs, NEW c, NEW n, Open(c, n),
         \A q \in Procs \ {p} : frames'[q] = frames[q] /\ pc'[q] = pc[q] /\ i'[q] = i[q],
         \A k \in 1 .. Len(frames[p]) :
           Cthd(p, k) = c /\ (k = 1 => pc[p] # "getproc" /\ (pc[p] = "assign" => n < i[p])) =>
             \E j \in 1 .. Len(frames'[p]) :
               frames'[p][j].cthd = c /\ (j = 1 => pc'[p] # "getproc" /\ (pc'[p] = "assign" => n < i'[p]))
  PROVE  Open(c, n)'
<1>1. PICK q \in Procs : \E k \in 1 .. Len(frames[q]) :
        Cthd(q, k) = c /\ (k = 1 => pc[q] # "getproc" /\ (pc[q] = "assign" => n < i[q]))
  BY DEF Open
<1>2. PICK k \in 1 .. Len(frames[q]) :
        Cthd(q, k) = c /\ (k = 1 => pc[q] # "getproc" /\ (pc[q] = "assign" => n < i[q]))
  BY <1>1
<1>3. CASE q = p
  BY <1>2, <1>3 DEF Open, Cthd
<1>4. CASE q # p
  <2>1. frames'[q] = frames[q] /\ pc'[q] = pc[q] /\ i'[q] = i[q]
    BY <1>4
  <2> QED BY <1>2, <2>1 DEF Open, Cthd
<1> QED BY <1>3, <1>4

\* What the start of a region does: a frame in front of the others of the master.
Pushed(p, x, n) ==
  /\ pc[p] = "body" /\ pc'[p] = "getproc" /\ max_thds'[p] = n
  /\ thr' = thr /\ free_thr' = free_thr /\ mallocs' = mallocs /\ parent' = parent /\ num' = num
  /\ num_thds' = num_thds /\ arrived' = arrived /\ flag' = flag /\ is_used' = is_used
  /\ in_parallel' = in_parallel
  /\ \A q \in Procs \ {p} : /\ pc'[q] = pc[q] /\ frames'[q] = frames[q] /\ i'[q] = i[q]
                            /\ max_thds'[q] = max_thds[q] /\ proclist'[q] = proclist[q]
  /\ frames'[p] # <<>> /\ Cthd(p, 1)' = thr[p] /\ frames'[p][1].in_parallel = x
  /\ \A k \in 1 .. Len(frames'[p]) : k # 1 =>
       /\ k - 1 \in 1 .. Len(frames[p]) /\ frames'[p][k] = frames[p][k - 1]
       /\ Cthd(p, k)' = Cthd(p, k - 1) /\ Above(p, k)' = Above(p, k - 1)
  /\ \A k \in 1 .. Len(frames[p]) :
       k + 1 \in 1 .. Len(frames'[p]) /\ k + 1 # 1 /\ frames'[p][k + 1] = frames[p][k]
  /\ \A q \in Procs : Base(q)' = Base(q)

\* ompc_do_parallel_main pushes a frame.
LEMMA Pushes ==
  ASSUME IInv, NEW p \in Procs, NEW cond \in {0, 1}, NEW nthds \in 1 .. N, DoParallel(p, cond, nthds)
  PROVE  Pushed(p, IF cond = 0 THEN in_parallel[thr[p]] ELSE 1, IF Serialized(p, cond) THEN 1 ELSE nthds)
<1>a. PICK n : n = IF Serialized(p, cond) THEN 1 ELSE nthds
  OBVIOUS
<1>b. PICK x : x = IF cond = 0 THEN in_parallel[thr[p]] ELSE 1
  OBVIOUS
<1>c. PICK f : f = [cthd |-> thr[p], tp |-> NULL, in_parallel |-> x]
  OBVIOUS
<1>d. PICK m : m = Len(frames[p])
  OBVIOUS
<1>1. /\ pc[p] = "body" /\ frames' = [frames EXCEPT ![p] = <<f>> \o @]
      /\ max_thds' = [max_thds EXCEPT ![p] = n] /\ proclist' = [proclist EXCEPT ![p] = <<>>]
      /\ i' = [i EXCEPT ![p] = 1] /\ pc' = [pc EXCEPT ![p] = "getproc"]
  BY <1>a, <1>b, <1>c DEF DoParallel, Begin, Goto
<1>2. /\ thr' = thr /\ free_thr' = free_thr /\ mallocs' = mallocs /\ parent' = parent /\ num' = num
      /\ num_thds' = num_thds /\ arrived' = arrived /\ flag' = flag /\ is_used' = is_used /\ in_parallel' = in_parallel
  BY DEF DoParallel, Begin, pool, heap
<1>3. /\ TypeInv /\ pc \in [Procs -> Labels] /\ thr \in [Procs -> Structs \cup {NULL}]
      /\ frames \in [Procs -> Seq(Frames)] /\ in_parallel \in [Structs -> {0, 1}]
      /\ max_thds \in [Procs -> 1 .. N] /\ i \in [Procs -> 1 .. N] /\ proclist \in [Procs -> Seq(Procs)]
  BY DEF IInv, TypeInv
<1>4. thr[p] # NULL /\ thr[p] \in Structs
  <2>1. thr[p] # NULL
    BY <1>1 DEF IInv, ProcInv, PlaceInv
  <2> QED BY <1>3, <2>1
<1>5. f \in Frames /\ f.cthd = thr[p] /\ f.in_parallel = x
  <2>1. x \in {0, 1}
    BY <1>b, <1>3, <1>4
  <2>2. f = [cthd |-> thr[p], tp |-> NULL, in_parallel |-> x] /\ thr[p] \in Structs
    BY <1>c, <1>4
  <2> QED BY <2>1, <2>2, SMTT(20) DEF Frames
<1>6. /\ pc'[p] = "getproc" /\ frames'[p] = <<f>> \o frames[p] /\ max_thds'[p] = n
      /\ \A q \in Procs \ {p} : /\ pc'[q] = pc[q] /\ frames'[q] = frames[q] /\ i'[q] = i[q]
                                /\ max_thds'[q] = max_thds[q] /\ proclist'[q] = proclist[q]
  BY <1>1, <1>3
<1>7. /\ m \in Nat /\ Len(frames'[p]) = m + 1 /\ frames'[p][1] = f /\ frames'[p] # <<>>
      /\ \A k \in 1 .. m : frames'[p][k + 1] = frames[p][k]
      /\ m = 0 <=> frames[p] = <<>>
  <2>1. frames[p] \in Seq(Frames)
    BY <1>3
  <2>2. m \in Nat /\ (m = 0 <=> frames[p] = <<>>)
    BY <1>d, <2>1, LenIs
  <2>3. PICK l : l = frames[p]
    OBVIOUS
  <2>4. PICK g : g = <<f>> \o l
    OBVIOUS
  <2>5. l \in Seq(Frames) /\ m = Len(l) /\ f \in Frames
    BY <1>d, <1>5, <2>1, <2>3
  <2>6. Len(g) = m + 1 /\ g[1] = f /\ g # <<>> /\ \A k \in 1 .. m : g[k + 1] = l[k]
    BY <2>4, <2>5, SMTT(20)
  <2>7. frames'[p] = g
    BY <1>6, <2>3, <2>4
  <2> QED BY <2>2, <2>3, <2>6, <2>7
<1>8. \A k \in 1 .. Len(frames'[p]) : k # 1 =>
        /\ k - 1 \in 1 .. m /\ frames'[p][k] = frames[p][k - 1]
        /\ Cthd(p, k)' = Cthd(p, k - 1) /\ Above(p, k)' = Above(p, k - 1)
  <2> SUFFICES ASSUME NEW k \in 1 .. Len(frames'[p]), k # 1
               PROVE  /\ k - 1 \in 1 .. m /\ frames'[p][k] = frames[p][k - 1]
                      /\ Cthd(p, k)' = Cthd(p, k - 1) /\ Above(p, k)' = Above(p, k - 1)
    OBVIOUS
  <2>1. k - 1 \in 1 .. m /\ (k - 1) + 1 = k
    BY <1>7, SMTT(20)
  <2>2. frames'[p][k] = frames[p][k - 1]
    BY <1>7, <2>1
  <2>3. Cthd(p, k)' = Cthd(p, k - 1)
    BY <2>2 DEF Cthd
  <2>4. Above(p, k)' = frames'[p][k - 1].cthd
    BY <2>1 DEF Above, Cthd
  <2>5. Above(p, k)' = Above(p, k - 1)
    <3>1. CASE k - 1 = 1
      <4>1. frames'[p][k - 1].cthd = thr[p]
        BY <1>5, <1>7, <3>1
      <4> QED BY <2>4, <3>1, <4>1 DEF Above
    <3>2. CASE k - 1 # 1
      <4>0. m \in Nat
        BY <1>7
      <4>1. k - 2 \in 1 .. m /\ (k - 2) + 1 = k - 1 /\ (k - 1) - 1 = k - 2
        BY <2>1, <3>2, <4>0, SMTT(20)
      <4>2. frames'[p][k - 1] = frames[p][k - 2]
        BY <1>7, <4>1
      <4>3. Above(p, k - 1) = Cthd(p, k - 2)
        BY <3>2, <4>1 DEF Above
      <4> QED BY <2>4, <4>2, <4>3 DEF Cthd
    <3> QED BY <3>1, <3>2
  <2> QED BY <2>1, <2>2, <2>3, <2>5
<1>9. \A k \in 1 .. Len(frames[p]) :
        k + 1 \in 1 .. Len(frames'[p]) /\ k + 1 # 1 /\ frames'[p][k + 1] = frames[p][k]
  <2> SUFFICES ASSUME NEW k \in 1 .. Len(frames[p])
               PROVE  k + 1 \in 1 .. Len(frames'[p]) /\ k + 1 # 1 /\ frames'[p][k + 1] = frames[p][k]
    OBVIOUS
  <2>1. k \in 1 .. m /\ k + 1 \in 1 .. Len(frames'[p]) /\ k + 1 # 1
    BY <1>d, <1>7, SMTT(20)
  <2> QED BY <1>7, <2>1
<1>10. ASSUME NEW q \in Procs PROVE Base(q)' = Base(q)
  <2>1. CASE q # p
    BY <1>2, <1>6, <2>1 DEF Base, Cthd
  <2>2. CASE q = p
    <3>1. Base(p)' = frames'[p][m + 1].cthd
      BY <1>7 DEF Base, Cthd
    <3>2. CASE m = 0
      <4>1. m + 1 = 1
        BY <3>2, SMTT(20)
      <4> QED BY <1>5, <1>7, <2>2, <3>1, <3>2, <4>1 DEF Base
    <3>3. CASE m # 0
      <4>1. m \in 1 .. m
        BY <1>7, <3>3, SMTT(20)
      <4> QED BY <1>d, <1>7, <2>2, <3>1, <3>3, <4>1 DEF Base, Cthd
    <3> QED BY <3>2, <3>3
  <2> QED BY <2>1, <2>2
<1>11. Cthd(p, 1)' = thr[p] /\ frames'[p][1].in_parallel = x
  BY <1>5, <1>7 DEF Cthd
<1>12. Pushed(p, x, n)
  BY <1>d, <1>1, <1>2, <1>6, <1>7, <1>8, <1>9, <1>10, <1>11 DEF Pushed
<1> QED BY <1>a, <1>b, <1>12

\* A thread becomes the master of a region: its structure is the parent of the team to come.
LEMMA DoParallelT ==
  ASSUME IInv, TInv, NEW p \in Procs, NEW cond \in {0, 1}, NEW nthds \in 1 .. N, DoParallel(p, cond, nthds)
  PROVE  TInv'
<1>1. PICK x, n : Pushed(p, x, n)
  BY Pushes
<1>2. /\ thr' = thr /\ free_thr' = free_thr /\ mallocs' = mallocs /\ parent' = parent /\ num' = num
      /\ num_thds' = num_thds /\ arrived' = arrived /\ flag' = flag /\ is_used' = is_used
  BY <1>1 DEF Pushed
<1>3. /\ pc[p] = "body" /\ pc'[p] = "getproc"
      /\ \A q \in Procs \ {p} : /\ pc'[q] = pc[q] /\ frames'[q] = frames[q] /\ i'[q] = i[q]
                                /\ max_thds'[q] = max_thds[q] /\ proclist'[q] = proclist[q]
  BY <1>1 DEF Pushed
<1>4. /\ OwnInv(p) /\ PlaceInv(p) /\ ShapeInv(p) /\ ChainInv(p) /\ DistinctInv(p) /\ FlagInv(p)
      /\ thr[p] # NULL
  <2>1. OwnInv(p) /\ PlaceInv(p) /\ ShapeInv(p) /\ ChainInv(p) /\ DistinctInv(p) /\ FlagInv(p)
    BY DEF IInv, ProcInv, TInv, ShapeInv
  <2>2. thr[p] # NULL
    BY <1>3, <2>1 DEF PlaceInv
  <2> QED BY <2>1, <2>2
<1>5. Cthd(p, 1)' = thr[p]
  BY <1>1 DEF Pushed
<1>6. \A k \in 1 .. Len(frames'[p]) : k # 1 =>
        /\ k - 1 \in 1 .. Len(frames[p]) /\ frames'[p][k] = frames[p][k - 1]
        /\ Cthd(p, k)' = Cthd(p, k - 1) /\ Above(p, k)' = Above(p, k - 1)
  BY <1>1 DEF Pushed
<1>7. \A q \in Procs \ {p} : ShapeInv(q)'
  <2>1. \A q \in Procs \ {p} : Same(q)
    BY <1>2, <1>3 DEF Same
  <2>2. \A t \in Structs \ {NULL} : parent'[t] = parent[t] /\ num'[t] = num[t]
    BY <1>2
  <2> QED BY <2>1, <2>2, OthersShape, NullAssumption
<1>8. ChainInv(p)'
  <2>1. thr'[p] = Cthd(p, 1)'
    BY <1>2, <1>5 DEF Cthd
  <2>2. ASSUME NEW k \in 1 .. Len(frames'[p]), k > 1
        PROVE  /\ frames'[p][k].tp = Above(p, k)' /\ parent'[Above(p, k)'] = Cthd(p, k)'
               /\ num'[Above(p, k)'] = 0
    <3>1. k # 1
      BY <2>2, SMTT(20)
    <3>2. /\ k - 1 \in 1 .. Len(frames[p]) /\ frames'[p][k] = frames[p][k - 1]
          /\ Cthd(p, k)' = Cthd(p, k - 1) /\ Above(p, k)' = Above(p, k - 1)
      BY <1>6, <3>1
    <3>3. /\ frames[p][k - 1].tp = Above(p, k - 1) /\ parent[Above(p, k - 1)] = Cthd(p, k - 1)
          /\ num[Above(p, k - 1)] = 0
      BY <1>3, <1>4, <3>2 DEF ChainInv
    <3> QED BY <1>2, <3>2, <3>3
  <2> QED BY <1>3, <2>1, <2>2 DEF ChainInv
<1>9. ASSUME NEW k \in 1 .. Len(frames'[p]) PROVE Held(p, Cthd(p, k)')
  <2>1. CASE k = 1
    BY <1>3, <1>4, <1>5, <2>1 DEF Cthd, Held, Forking
  <2>2. CASE k # 1
    BY <1>6, <2>2 DEF Held
  <2> QED BY <2>1, <2>2
<1>10. CthdOnce(p)'
  <2> SUFFICES ASSUME NEW j \in 1 .. Len(frames'[p]), NEW k \in 1 .. Len(frames'[p]), Cthd(p, j)' = Cthd(p, k)'
               PROVE  j = k
    BY DEF CthdOnce
  <2>0. Cthd(p, 1)' = thr[p]
    BY <1>5 DEF Cthd
  <2>1. \A a \in 1 .. Len(frames'[p]) : a # 1 => Cthd(p, a)' # thr[p]
    BY <1>3, <1>4, <1>6 DEF DistinctInv, ThrApart
  <2>2. CASE j # 1 /\ k # 1
    <3>1. j - 1 \in 1 .. Len(frames[p]) /\ k - 1 \in 1 .. Len(frames[p]) /\ Cthd(p, j - 1) = Cthd(p, k - 1)
      BY <1>6, <2>2
    <3>2. j - 1 = k - 1
      BY <1>4, <3>1 DEF DistinctInv, CthdOnce
    <3>3. j \in Int /\ k \in Int
      BY <1>5, SMTT(20)
    <3> QED BY <3>2, <3>3, SMTT(20)
  <2> QED BY <2>0, <2>1, <2>2
<1>11. ShapeInv(p)'
  <2>1. ThrApart(p)' /\ FreeOnce(p)'
    BY <1>2, <1>4, <1>3 DEF ThrApart, DistinctInv, FreeOnce
  <2>2. HeldApart(p)'
    <3>1. ASSUME NEW s, Held(p, s)' PROVE Held(p, s)
      <4>1. PICK k \in 1 .. Len(frames'[p]) : Cthd(p, k)' = s
        BY <1>3, <3>1 DEF Held, Forking
      <4> QED BY <1>9, <4>1
    <3>2. Elements(free_thr[p])' = Elements(free_thr[p])
      BY <1>2
    <3> QED BY <1>4, <3>1, <3>2 DEF DistinctInv, HeldApart
  <2>3. FlagInv(p)'
    BY <1>3, <1>2, <1>4 DEF FlagInv, Leaving
  <2> QED BY <1>8, <1>10, <2>1, <2>2, <2>3 DEF ShapeInv, DistinctInv
<1>12. \A q \in Procs : Base(q)' = Base(q)
  BY <1>1 DEF Pushed
<1>13. ASSUME NEW q \in Procs PROVE Kept(q)
  <2>1. pc'[q] \in Leaving => pc[q] \in Leaving
    BY <1>3 DEF Leaving
  <2> QED BY <1>2, <1>12, <2>1, KeptIf
<1>14. ASSUME NEW c, NEW l, Valid(c, l) PROVE Valid(c, l)'
  <2>1. ASSUME NEW k \in 1 .. Len(frames[p]), Cthd(p, k) = c
        PROVE  \E j \in 1 .. Len(frames'[p]) : frames'[p][j].cthd = c /\ j # 1
    <3>1. k + 1 \in 1 .. Len(frames'[p]) /\ k + 1 # 1 /\ frames'[p][k + 1] = frames[p][k]
      BY <1>1 DEF Pushed
    <3> QED BY <2>1, <3>1 DEF Cthd
  <2>2. Open(c, l)'
    BY <1>3, <1>14, <2>1, OpenShift DEF Valid
  <2> QED BY <1>2, <1>14, <2>2 DEF Valid
<1>15. MemberInv' /\ UniqueInv'
  BY <1>13, <1>14, MembersKept DEF TInv, GoesOn
<1>16. ArrivedInv'
  <2>1. \A q \in Procs : pc'[q] = "assign" => pc[q] = "assign" /\ Cthd(q, 1)' = Cthd(q, 1) /\ i'[q] = i[q]
    BY <1>3 DEF Cthd
  <2> QED BY <1>2, <2>1 DEF TInv, ArrivedInv
<1>17. RootInv'
  <2>1. 0 \in Procs
    BY NAssumption, SMTT(20) DEF Procs
  <2> QED BY <1>2, <1>12, <2>1 DEF TInv, RootInv
<1> QED BY <1>7, <1>11, <1>15, <1>16, <1>17 DEF TInv

\* The parent structure is initialised: no member of an earlier team is left.
LEMMA InitParentT == ASSUME IInv, TInv, NEW p \in Procs, InitParent(p) PROVE TInv'
<1>0. PICK c0 : c0 = Frame(p).cthd
  OBVIOUS
<1>1. /\ pc[p] = "getproc" /\ num_thds' = [num_thds EXCEPT ![c0] = i[p]]
      /\ arrived' = [arrived EXCEPT ![c0] = {}]
      /\ i' = [i EXCEPT ![p] = 1] /\ pc' = [pc EXCEPT ![p] = "assign"]
  BY <1>0 DEF InitParent, Goto
<1>2. /\ thr' = thr /\ mallocs' = mallocs /\ free_thr' = free_thr /\ parent' = parent /\ num' = num
      /\ frames' = frames /\ proclist' = proclist /\ max_thds' = max_thds
      /\ flag' = flag /\ is_used' = is_used
  BY DEF InitParent, pool
<1>3. /\ TypeInv /\ pc \in [Procs -> Labels] /\ num_thds \in [Structs -> 0 .. N]
      /\ arrived \in [Structs -> SUBSET Procs] /\ i \in [Procs -> 1 .. N]
  BY DEF IInv, TypeInv
<1>4. OwnInv(p) /\ PlaceInv(p) /\ ShapeInv(p)
  BY DEF IInv, ProcInv, TInv
<1>5. c0 \in Structs /\ c0 = Cthd(p, 1) /\ 1 \in 1 .. Len(frames[p])
  <2>1. frames[p] # <<>>
    BY <1>1, <1>4 DEF PlaceInv, Forking
  <2> QED BY <1>0, <1>3, <2>1, FrameIsFirst DEF Cthd
<1>6. /\ pc'[p] = "assign"
      /\ \A q \in Procs \ {p} : pc'[q] = pc[q] /\ i'[q] = i[q]
  BY <1>1, <1>3
<1>7. /\ arrived'[c0] = {}
      /\ \A t \in Structs \ {c0} : arrived'[t] = arrived[t] /\ num_thds'[t] = num_thds[t]
  BY <1>1, <1>3, <1>5
<1>8. \A q \in Procs \ {p} : ShapeInv(q)'
  <2>1. \A q \in Procs \ {p} : Same(q)
    BY <1>2, <1>6 DEF Same
  <2>2. \A t \in Structs \ {NULL} : parent'[t] = parent[t] /\ num'[t] = num[t]
    BY <1>2
  <2> QED BY <2>1, <2>2, OthersShape, NullAssumption
<1>9. ShapeInv(p)'
  <2>1. ChainInv(p)'
    BY <1>1, <1>2, <1>4, <1>6, ChainKept DEF ShapeInv, Forking
  <2>2. DistinctInv(p)'
    BY <1>1, <1>2, <1>4, <1>6, DistinctKept DEF ShapeInv, Forking
  <2>3. FlagInv(p)'
    BY <1>1, <1>2, <1>4 DEF ShapeInv, FlagInv, Leaving
  <2> QED BY <2>1, <2>2, <2>3 DEF ShapeInv
<1>10. ASSUME NEW q \in Procs PROVE Kept(q)
  <2>1. Base(q)' = Base(q)
    BY <1>2 DEF Base, Cthd
  <2>2. pc'[q] \in Leaving => pc[q] \in Leaving
    BY <1>6 DEF Leaving
  <2> QED BY <1>2, <2>1, <2>2, KeptIf
<1>11. ASSUME NEW d, NEW m, Valid(d, m) PROVE Valid(d, m)'
  <2>1. Open(d, m) /\ d \in Structs
    BY <1>11 DEF Valid
  <2>2. d # c0
    <3> SUFFICES ASSUME d = c0 PROVE FALSE
      OBVIOUS
    <3>1. Open(Cthd(p, 1), m)
      BY <1>5, <2>1
    <3>2. pc[p] # "getproc"
      BY <1>5, <3>1, OpenFrame
    <3> QED BY <1>1, <3>2
  <2>3. \A q \in Procs : pc[q] # "getproc" => pc'[q] # "getproc" /\ (pc'[q] = "assign" => pc[q] = "assign" /\ i'[q] = i[q])
    BY <1>1, <1>6
  <2>4. Open(d, m)'
    BY <1>2, <2>1, <2>3, OpenKept
  <2>5. arrived'[d] = arrived[d] /\ num_thds'[d] = num_thds[d]
    BY <1>7, <2>1, <2>2
  <2> QED BY <1>11, <2>4, <2>5 DEF Valid
<1>12. MemberInv' /\ UniqueInv'
  BY <1>10, <1>11, MembersKept DEF TInv, GoesOn
<1>13. ArrivedInv'
  <2> SUFFICES ASSUME NEW a \in Procs, pc'[a] = "assign", NEW m \in arrived'[Cthd(a, 1)]
               PROVE  m < i'[a]
    BY <1>2 DEF ArrivedInv, Cthd
  <2>1. a # p
    BY <1>5, <1>7
  <2>2. pc[a] = "assign" /\ i'[a] = i[a]
    BY <1>6, <2>1
  <2>3. Cthd(a, 1) \in Structs /\ Cthd(a, 1) # c0
    <3>1. frames[a] # <<>>
      BY <2>2 DEF IInv, ProcInv, PlaceInv, Forking
    <3>2. 1 \in 1 .. Len(frames[a]) /\ Cthd(a, 1) \in Structs
      BY <1>3, <3>1, FrameIsFirst DEF Cthd
    <3>3. \A j \in 1 .. Len(frames[a]), k \in 1 .. Len(frames[p]) : Cthd(a, j) = Cthd(p, k) => a = p /\ j = k
      BY FrameOne
    <3> QED BY <1>5, <2>1, <3>2, <3>3
  <2>4. m \in arrived[Cthd(a, 1)]
    BY <1>7, <2>3
  <2> QED BY <2>2, <2>4 DEF TInv, ArrivedInv
<1>14. RootInv'
  BY <1>2 DEF TInv, RootInv, Base, Cthd
<1> QED BY <1>8, <1>9, <1>12, <1>13, <1>14 DEF TInv

\* What the master's own structure s is: a free one, in front of no other's frames.
Gained(p, s, c0) ==
  /\ pc[p] = "alloc" /\ pc'[p] = "body" /\ thr'[p] = s /\ thr[p] # NULL /\ frames[p] # <<>>
  /\ s \in Structs /\ s # NULL /\ s \in Own(p)' /\ 1 \in 1 .. Len(frames[p]) /\ c0 = Cthd(p, 1)
  /\ Unused(p, s, c0, 0)
  /\ in_parallel'[s] = frames[p][1].in_parallel
  /\ \A t \in Structs \ {s} : in_parallel'[t] = in_parallel[t]
  /\ arrived' = arrived /\ proclist' = proclist /\ max_thds' = max_thds /\ i' = i /\ flag' = flag
  /\ is_used' = is_used /\ num_thds' = num_thds
  /\ \A q \in Procs \ {p} : /\ pc'[q] = pc[q] /\ thr'[q] = thr[q] /\ frames'[q] = frames[q]
                            /\ free_thr'[q] = free_thr[q] /\ mallocs'[q] = mallocs[q]
  /\ Len(frames'[p]) = Len(frames[p]) /\ frames'[p][1].tp = s
  /\ \A k \in 1 .. Len(frames[p]) : k # 1 => frames'[p][k] = frames[p][k]
  /\ \A k \in 1 .. Len(frames[p]) :
       /\ frames'[p][k].cthd = Cthd(p, k) /\ frames'[p][k].in_parallel = frames[p][k].in_parallel
       /\ Cthd(p, k) # s /\ Cthd(p, k) \in Structs /\ Held(p, Cthd(p, k))
  /\ \A q \in Procs : thr'[q] # NULL =>
       /\ thr[q] # NULL /\ Base(q)' = Base(q) /\ Base(q) \in Structs \ {s}
       /\ parent'[Base(q)] = parent[Base(q)] /\ num'[Base(q)] = num[Base(q)]

\* ompc_do_parallel_main takes a structure for the master.
LEMMA Gains ==
  ASSUME IInv, TInv, NEW p \in Procs, AllocMaster(p)
  PROVE  \E s, c0 : Gained(p, s, c0)
<1>a. PICK c0 : c0 = Frame(p).cthd
  OBVIOUS
<1>b. PICK s : s = AllocThread(p)
  OBVIOUS
<1>c. PICK f : f = [Frame(p) EXCEPT !.tp = s]
  OBVIOUS
<1>1. /\ pc[p] = "alloc" /\ TakeThread(p, s, c0, 0, Frame(p).in_parallel)
      /\ thr' = [thr EXCEPT ![p] = s] /\ frames' = [frames EXCEPT ![p] = <<f>> \o Tail(@)]
      /\ pc' = [pc EXCEPT ![p] = "body"]
  BY <1>a, <1>b, <1>c DEF AllocMaster, Goto
<1>2. /\ arrived' = arrived /\ proclist' = proclist /\ max_thds' = max_thds /\ i' = i /\ flag' = flag
      /\ is_used' = is_used /\ num_thds' = num_thds
  BY <1>1 DEF AllocMaster, pool, TakeThread
<1>3. /\ TypeInv /\ pc \in [Procs -> Labels] /\ thr \in [Procs -> Structs \cup {NULL}]
      /\ frames \in [Procs -> Seq(Frames)] /\ \A q \in Procs : OwnInv(q)
      /\ in_parallel \in [Structs -> {0, 1}]
  BY DEF IInv, TypeInv, ProcInv
<1>4. /\ OwnInv(p) /\ CountInv(p) /\ PlaceInv(p) /\ ChainInv(p) /\ DistinctInv(p) /\ FlagInv(p)
      /\ frames[p] # <<>> /\ thr[p] # NULL
  <2>1. OwnInv(p) /\ CountInv(p) /\ PlaceInv(p) /\ ChainInv(p) /\ DistinctInv(p) /\ FlagInv(p)
    BY DEF IInv, ProcInv, TInv, ShapeInv
  <2> QED BY <1>1, <2>1 DEF PlaceInv, Forking
<1>5. /\ Frame(p) = frames[p][1] /\ Frame(p) \in Frames /\ 1 \in 1 .. Len(frames[p]) /\ c0 = Cthd(p, 1)
      /\ c0 \in Structs /\ Frame(p).in_parallel \in {0, 1}
  BY <1>a, <1>3, <1>4, FrameIsFirst DEF Cthd
<1>6. /\ s \in Structs /\ s # NULL /\ s \in Own(p)'
      /\ \A q \in Procs \ {p} : free_thr'[q] = free_thr[q] /\ mallocs'[q] = mallocs[q]
  <2>1. 0 \in Procs
    BY NAssumption, SMTT(20) DEF Procs
  <2>2. InUse(p) <= MaxDepth /\ c0 \in Structs \cup {NULL}
    BY <1>1, <1>4, <1>5 DEF CountInv, InUse, Forking
  <2>3. Takes(p, s, c0)
    BY <1>1, <1>3, <1>4, <1>5, <2>1, <2>2, Taken
  <2> QED BY <2>3, NullAssumption DEF Takes
<1>7. Unused(p, s, c0, 0)
  BY <1>1, <1>3, <1>4, <1>6, Fresh
<1>8. f.cthd = c0 /\ f.tp = s /\ f.in_parallel = Frame(p).in_parallel /\ f \in Frames
  <2>1. f = [Frame(p) EXCEPT !.tp = s] /\ Frame(p) \in Frames /\ s \in Structs
    BY <1>c, <1>5, <1>6
  <2>2. f \in Frames /\ f.cthd = Frame(p).cthd /\ f.tp = s /\ f.in_parallel = Frame(p).in_parallel
    BY <2>1 DEF Frames
  <2> QED BY <1>a, <2>2
<1>9. /\ pc'[p] = "body" /\ thr'[p] = s /\ frames'[p] = <<f>> \o Tail(frames[p])
      /\ \A q \in Procs \ {p} : pc'[q] = pc[q] /\ thr'[q] = thr[q] /\ frames'[q] = frames[q]
  BY <1>1, <1>3
<1>10. /\ Len(frames'[p]) = Len(frames[p]) /\ frames'[p] # <<>> /\ frames'[p][1] = f
       /\ \A k \in 1 .. Len(frames[p]) : k # 1 => frames'[p][k] = frames[p][k]
  <2>1. PICK l : l = frames[p]
    OBVIOUS
  <2>2. PICK g : g = Tail(l)
    OBVIOUS
  <2>3. PICK h : h = <<f>> \o g
    OBVIOUS
  <2>4. l \in Seq(Frames) /\ l # <<>>
    BY <1>3, <1>4, <2>1
  <2>5. g \in Seq(Frames) /\ Len(g) = Len(l) - 1 /\ Len(l) \in Nat /\ \A k \in 1 .. Len(g) : g[k] = l[k + 1]
    BY <2>2, <2>4, SMTT(20)
  <2>6. Len(h) = Len(g) + 1 /\ h # <<>> /\ h[1] = f /\ \A k \in 1 .. Len(g) : h[k + 1] = g[k]
    BY <1>8, <2>3, <2>5, SMTT(20)
  <2>7. Len(h) = Len(l)
    BY <2>5, <2>6, SMTT(20)
  <2>8. ASSUME NEW k \in 1 .. Len(l), k # 1 PROVE h[k] = l[k]
    <3>1. Len(g) = Len(l) - 1 /\ Len(l) \in Nat
      BY <2>5
    <3>2. k - 1 \in 1 .. Len(g) /\ (k - 1) + 1 = k
      BY <2>8, <3>1, SMTT(20)
    <3>3. h[(k - 1) + 1] = g[k - 1] /\ g[k - 1] = l[(k - 1) + 1]
      BY <2>5, <2>6, <3>2
    <3> QED BY <3>2, <3>3
  <2> QED BY <1>9, <2>1, <2>2, <2>3, <2>6, <2>7, <2>8
<1>11. \A k \in 1 .. Len(frames[p]) :
         frames'[p][k].cthd = Cthd(p, k) /\ frames'[p][k].in_parallel = frames[p][k].in_parallel
  BY <1>5, <1>8, <1>10 DEF Cthd
<1>12. /\ ~Held(p, s) /\ FreeOnce(p)' /\ s \notin Elements(free_thr[p])'
       /\ Elements(free_thr[p])' \subseteq Elements(free_thr[p])
       /\ \A t \in Structs \ {s} : parent'[t] = parent[t] /\ num'[t] = num[t]
       /\ parent'[s] = c0 /\ num'[s] = 0
  BY <1>7 DEF Unused
<1>13. \A k \in 1 .. Len(frames[p]) : Cthd(p, k) # s /\ Cthd(p, k) \in Structs /\ Held(p, Cthd(p, k))
  <2> SUFFICES ASSUME NEW k \in 1 .. Len(frames[p])
               PROVE  Cthd(p, k) # s /\ Cthd(p, k) \in Structs /\ Held(p, Cthd(p, k))
    OBVIOUS
  <2>1. Held(p, Cthd(p, k)) /\ Cthd(p, k) \in Own(p)
    BY <1>4 DEF Held, OwnInv, Cthd
  <2>2. Cthd(p, k) \in Structs
    BY <1>3, <2>1, OwnStruct
  <2> QED BY <1>12, <2>1, <2>2
<1>14. ASSUME NEW q \in Procs, thr'[q] # NULL
       PROVE  /\ thr[q] # NULL /\ Base(q)' = Base(q) /\ Base(q) \in Structs \ {s}
              /\ parent'[Base(q)] = parent[Base(q)] /\ num'[Base(q)] = num[Base(q)]
  <2>1. thr[q] # NULL
    BY <1>4, <1>9, <1>14
  <2>2. Base(q)' = Base(q)
    <3>1. CASE q # p
      BY <1>9, <3>1 DEF Base, Cthd
    <3>2. CASE q = p
      <4>1. Len(frames[p]) \in 1 .. Len(frames[p])
        <5>1. frames[p] \in Seq(Frames) /\ frames[p] # <<>>
          BY <1>3, <1>4
        <5>2. Len(frames[p]) \in Nat /\ Len(frames[p]) > 0
          BY <5>1, LenIs
        <5> QED BY <5>2, SMTT(20)
      <4>2. Base(p)' = frames'[p][Len(frames[p])].cthd /\ Base(p) = Cthd(p, Len(frames[p]))
        BY <1>4, <1>10 DEF Base, Cthd
      <4> QED BY <1>11, <3>2, <4>1, <4>2
    <3> QED BY <3>1, <3>2
  <2>3. Held(q, Base(q))
    BY <1>3, <2>1, BaseHeld DEF IInv, ProcInv
  <2>4. Base(q) # s
    BY <1>7, <2>3 DEF Unused
  <2>5. Base(q) \in Structs
    <3>1. Base(q) \in Own(q)
      BY <1>3, <2>3, HeldOwn
    <3> QED BY <1>3, <3>1, OwnStruct
  <2> QED BY <1>12, <2>1, <2>2, <2>4, <2>5
<1>15. /\ in_parallel'[s] = frames[p][1].in_parallel
       /\ \A t \in Structs \ {s} : in_parallel'[t] = in_parallel[t]
  <2>1. in_parallel' = [in_parallel EXCEPT ![s] = Frame(p).in_parallel]
    BY <1>1 DEF TakeThread
  <2> QED BY <1>3, <1>5, <1>6, <2>1
<1>16. frames'[p][1].tp = s
  BY <1>8, <1>10
<1>17. Gained(p, s, c0)
  BY <1>1, <1>2, <1>4, <1>5, <1>6, <1>7, <1>9, <1>10, <1>11, <1>13, <1>14, <1>15, <1>16 DEF Gained
<1> QED BY <1>17

\* The master gets a structure of its own, a free one, to execute the region in.
LEMMA AllocMasterT == ASSUME IInv, TInv, NEW p \in Procs, AllocMaster(p) PROVE TInv'
<1>1. PICK s, c0 : Gained(p, s, c0)
  BY Gains
<1>2. pc[p] = "alloc" /\ s # NULL /\ s \in Own(p)' /\ 1 \in 1 .. Len(frames[p]) /\ c0 = Cthd(p, 1)
  BY <1>1 DEF Gained
<1>3. /\ arrived' = arrived /\ proclist' = proclist /\ max_thds' = max_thds /\ i' = i /\ flag' = flag
      /\ is_used' = is_used /\ num_thds' = num_thds
  BY <1>1 DEF Gained
<1>4. frames \in [Procs -> Seq(Frames)]
  BY DEF IInv, TypeInv
<1>5. ChainInv(p) /\ DistinctInv(p) /\ FlagInv(p)
  BY DEF TInv, ShapeInv
<1>6. /\ pc'[p] = "body" /\ thr'[p] = s
      /\ \A q \in Procs \ {p} : /\ pc'[q] = pc[q] /\ thr'[q] = thr[q] /\ frames'[q] = frames[q]
                                /\ free_thr'[q] = free_thr[q] /\ mallocs'[q] = mallocs[q]
  BY <1>1 DEF Gained
<1>7. /\ Len(frames'[p]) = Len(frames[p]) /\ frames'[p][1].tp = s
      /\ \A k \in 1 .. Len(frames[p]) : k # 1 => frames'[p][k] = frames[p][k]
  BY <1>1 DEF Gained
<1>8. \A k \in 1 .. Len(frames[p]) : frames'[p][k].cthd = Cthd(p, k)
  BY <1>1 DEF Gained
<1>9. /\ ~Held(p, s) /\ FreeOnce(p)' /\ s \notin Elements(free_thr[p])'
      /\ Elements(free_thr[p])' \subseteq Elements(free_thr[p])
      /\ \A t \in Structs \ {s} : parent'[t] = parent[t] /\ num'[t] = num[t]
      /\ parent'[s] = c0 /\ num'[s] = 0
  BY <1>1 DEF Gained, Unused
<1>10. \A k \in 1 .. Len(frames[p]) : Cthd(p, k) # s /\ Cthd(p, k) \in Structs /\ Held(p, Cthd(p, k))
  BY <1>1 DEF Gained
<1>11. \A q \in Procs \ {p} : ShapeInv(q)'
  <2>1. \A q \in Procs \ {p} : Same(q)
    BY <1>3, <1>6 DEF Same
  <2> QED BY <1>2, <1>9, <2>1, OthersShape
<1>12. ChainInv(p)'
  <2>1. ASSUME NEW k \in 1 .. Len(frames'[p])
        PROVE  /\ frames'[p][k].tp = Above(p, k)' /\ parent'[Above(p, k)'] = Cthd(p, k)'
               /\ num'[Above(p, k)'] = 0
    <3>0. k \in 1 .. Len(frames[p]) /\ Cthd(p, k)' = Cthd(p, k)
      BY <1>7, <1>8 DEF Cthd
    <3>1. CASE k = 1
      <4>1. Above(p, k)' = s
        BY <1>6, <3>1 DEF Above
      <4>2. Cthd(p, k)' = c0 /\ frames'[p][k].tp = s
        BY <1>2, <1>7, <3>0, <3>1
      <4>3. parent'[s] = c0 /\ num'[s] = 0
        BY <1>9
      <4> QED BY <4>1, <4>2, <4>3
    <3>2. CASE k # 1
      <4>1. k > 1 /\ k - 1 \in 1 .. Len(frames[p])
        <5>1. Len(frames[p]) \in Nat
          BY <1>4, LenIs
        <5> QED BY <3>0, <3>2, <5>1, SMTT(20)
      <4>2. Above(p, k) = Cthd(p, k - 1) /\ Above(p, k)' = Cthd(p, k - 1)'
        BY <3>2 DEF Above
      <4>3. Above(p, k)' = Above(p, k)
        BY <1>8, <4>1, <4>2 DEF Cthd
      <4>4. Above(p, k) \in Structs \ {s}
        BY <1>10, <4>1, <4>2
      <4>5. /\ frames[p][k].tp = Above(p, k) /\ parent[Above(p, k)] = Cthd(p, k) /\ num[Above(p, k)] = 0
        BY <1>5, <3>0, <4>1 DEF ChainInv
      <4>6. frames'[p][k] = frames[p][k]
        BY <1>7, <3>0, <3>2
      <4> QED BY <1>9, <3>0, <4>3, <4>4, <4>5, <4>6
    <3> QED BY <3>1, <3>2
  <2> QED BY <1>6, <2>1 DEF ChainInv, Forking
<1>13. CthdOnce(p)' /\ ThrApart(p)'
  <2>1. CthdOnce(p)'
    BY <1>5, <1>7, <1>8 DEF DistinctInv, CthdOnce, Cthd
  <2>2. ThrApart(p)'
    BY <1>6, <1>7, <1>8, <1>10 DEF ThrApart, Cthd
  <2> QED BY <2>1, <2>2
<1>14. HeldApart(p)'
  <2> SUFFICES ASSUME NEW t \in Structs, Held(p, t)' PROVE t \notin Elements(free_thr[p])'
    BY DEF HeldApart
  <2>1. CASE t = s
    BY <1>9, <2>1
  <2>2. CASE t # s
    <3>1. PICK k \in 1 .. Len(frames'[p]) : frames'[p][k].cthd = t
      BY <1>6, <2>2 DEF Held, Cthd
    <3>2. Held(p, t)
      BY <1>7, <1>8, <1>10, <3>1
    <3> QED BY <1>5, <1>9, <3>2 DEF DistinctInv, HeldApart
  <2> QED BY <2>1, <2>2
<1>15. ShapeInv(p)'
  <2>1. FlagInv(p)'
    BY <1>2, <1>3, <1>5 DEF FlagInv, Leaving
  <2> QED BY <1>9, <1>12, <1>13, <1>14, <2>1 DEF ShapeInv, DistinctInv
<1>16. \A q \in Procs : thr'[q] # NULL =>
         /\ thr[q] # NULL /\ Base(q)' = Base(q)
         /\ parent'[Base(q)] = parent[Base(q)] /\ num'[Base(q)] = num[Base(q)]
  BY <1>1 DEF Gained
<1>17. ASSUME NEW q \in Procs PROVE Kept(q)
  <2>1. pc'[q] \in Leaving => pc[q] \in Leaving
    BY <1>6 DEF Leaving
  <2> QED BY <1>3, <1>16, <2>1, KeptIf
<1>18. ASSUME NEW c, NEW l, Valid(c, l) PROVE Valid(c, l)'
  <2>1. ASSUME NEW k \in 1 .. Len(frames[p]), Cthd(p, k) = c
        PROVE  \E j \in 1 .. Len(frames'[p]) : frames'[p][j].cthd = c
    BY <1>7, <1>8, <2>1
  <2>2. Open(c, l)'
    BY <1>3, <1>6, <1>18, <2>1, OpenShift DEF Valid
  <2> QED BY <1>3, <1>18, <2>2 DEF Valid
<1>19. MemberInv' /\ UniqueInv'
  BY <1>17, <1>18, MembersKept DEF TInv, GoesOn
<1>20. ArrivedInv'
  <2>1. \A q \in Procs : pc'[q] = "assign" => pc[q] = "assign" /\ Cthd(q, 1)' = Cthd(q, 1) /\ i'[q] = i[q]
    BY <1>3, <1>6 DEF Cthd
  <2> QED BY <1>3, <2>1 DEF TInv, ArrivedInv
<1>21. RootInv'
  <2>1. 0 \in Procs
    BY NAssumption, SMTT(20) DEF Procs
  <2> QED BY <1>16, <2>1 DEF TInv, RootInv
<1> QED BY <1>11, <1>15, <1>19, <1>20, <1>21 DEF TInv

\* What the end of a region does: the master's first frame goes.
Popped(p, c0) ==
  /\ pc[p] = "join" /\ pc'[p] = "body" /\ thr'[p] = c0 /\ 1 .. num_thds[c0]-1 \subseteq arrived[c0]
  /\ frames[p] # <<>> /\ thr[p] # NULL /\ 1 \in 1 .. Len(frames[p]) /\ c0 = Cthd(p, 1)
  /\ c0 \in Structs /\ c0 # NULL
  /\ free_thr' = free_thr /\ mallocs' = mallocs /\ parent' = parent /\ num' = num
  /\ num_thds' = num_thds /\ arrived' = arrived /\ proclist' = proclist /\ max_thds' = max_thds
  /\ i' = i /\ flag' = flag /\ is_used' = is_used /\ in_parallel' = in_parallel
  /\ \A q \in Procs \ {p} : pc'[q] = pc[q] /\ thr'[q] = thr[q] /\ frames'[q] = frames[q]
  /\ \A k \in 1 .. Len(frames'[p]) :
       /\ k + 1 \in 1 .. Len(frames[p]) /\ k + 1 # 1 /\ k + 1 > 1 /\ frames'[p][k] = frames[p][k + 1]
       /\ Cthd(p, k)' = Cthd(p, k + 1) /\ Above(p, k)' = Above(p, k + 1)
  /\ \A k \in 1 .. Len(frames[p]) : k # 1 =>
       k - 1 \in 1 .. Len(frames'[p]) /\ frames'[p][k - 1] = frames[p][k]
  /\ \A q \in Procs : Base(q)' = Base(q) /\ (thr'[q] # NULL => thr[q] # NULL)

\* The end of ompc_do_parallel_main pops a frame.
LEMMA Pops ==
  ASSUME IInv, NEW p \in Procs, Join(p)
  PROVE  \E c0 : Popped(p, c0)
<1>a. PICK c0 : c0 = Frame(p).cthd
  OBVIOUS
<1>b. PICK m : m = Len(frames[p])
  OBVIOUS
<1>1. /\ pc[p] = "join" /\ 1 .. num_thds[c0]-1 \subseteq arrived[c0]
      /\ thr' = [thr EXCEPT ![p] = c0] /\ frames' = [frames EXCEPT ![p] = Tail(@)]
      /\ pc' = [pc EXCEPT ![p] = "body"]
  BY <1>a DEF Join, JoinAfter, Goto
<1>2. /\ free_thr' = free_thr /\ mallocs' = mallocs /\ parent' = parent /\ num' = num
      /\ num_thds' = num_thds /\ arrived' = arrived /\ proclist' = proclist /\ max_thds' = max_thds
      /\ i' = i /\ flag' = flag /\ is_used' = is_used /\ in_parallel' = in_parallel
  BY DEF Join, JoinAfter, pool, heap
<1>3. /\ TypeInv /\ pc \in [Procs -> Labels] /\ thr \in [Procs -> Structs \cup {NULL}]
      /\ frames \in [Procs -> Seq(Frames)]
  BY DEF IInv, TypeInv
<1>4. frames[p] # <<>> /\ thr[p] # NULL
  BY <1>1 DEF IInv, ProcInv, PlaceInv
<1>5. /\ Frame(p) = frames[p][1] /\ 1 \in 1 .. m /\ c0 = Cthd(p, 1) /\ c0 \in Structs /\ c0 # NULL
  BY <1>a, <1>b, <1>3, <1>4, FrameIsFirst, NullAssumption DEF Cthd
<1>6. /\ pc'[p] = "body" /\ thr'[p] = c0 /\ frames'[p] = Tail(frames[p])
      /\ \A q \in Procs \ {p} : pc'[q] = pc[q] /\ thr'[q] = thr[q] /\ frames'[q] = frames[q]
  BY <1>1, <1>3
<1>7. /\ m \in Nat /\ m > 0 /\ Len(frames'[p]) = m - 1 /\ \A k \in 1 .. m - 1 : frames'[p][k] = frames[p][k + 1]
      /\ m - 1 = 0 <=> frames'[p] = <<>>
  <2>1. frames[p] \in Seq(Frames) /\ frames[p] # <<>>
    BY <1>3, <1>4
  <2>2. PICK l : l = frames[p]
    OBVIOUS
  <2>3. PICK g : g = Tail(l)
    OBVIOUS
  <2>4. l \in Seq(Frames) /\ l # <<>> /\ m = Len(l)
    BY <1>b, <2>1, <2>2
  <2>5. m \in Nat /\ m > 0 /\ Len(g) = m - 1 /\ (m - 1 = 0 <=> g = <<>>) /\ \A k \in 1 .. m - 1 : g[k] = l[k + 1]
    <3>1. Len(g) = m - 1 /\ m > 0 /\ g \in Seq(Frames) /\ \A k \in 1 .. Len(g) : g[k] = l[k + 1]
      BY <2>3, <2>4, TakeFront
    <3>2. m \in Nat /\ (Len(g) = 0 <=> g = <<>>)
      BY <2>4, <3>1, LenIs
    <3> QED BY <3>1, <3>2
  <2> QED BY <1>6, <2>2, <2>3, <2>5
<1>8. \A k \in 1 .. Len(frames'[p]) :
        /\ k + 1 \in 1 .. Len(frames[p]) /\ k + 1 # 1 /\ k + 1 > 1 /\ frames'[p][k] = frames[p][k + 1]
        /\ Cthd(p, k)' = Cthd(p, k + 1) /\ Above(p, k)' = Above(p, k + 1)
  <2> SUFFICES ASSUME NEW k \in 1 .. Len(frames'[p])
               PROVE  /\ k + 1 \in 1 .. Len(frames[p]) /\ k + 1 # 1 /\ k + 1 > 1
                      /\ frames'[p][k] = frames[p][k + 1]
                      /\ Cthd(p, k)' = Cthd(p, k + 1) /\ Above(p, k)' = Above(p, k + 1)
    OBVIOUS
  <2>0. m \in Nat /\ k \in 1 .. m - 1
    BY <1>7
  <2>1. k + 1 \in 1 .. m /\ k + 1 # 1 /\ k + 1 > 1 /\ (k + 1) - 1 = k
    BY <2>0, SMTT(20)
  <2>2. frames'[p][k] = frames[p][k + 1]
    BY <1>7, <2>0
  <2>3. Cthd(p, k)' = Cthd(p, k + 1)
    BY <2>2 DEF Cthd
  <2>4. Above(p, k + 1) = Cthd(p, k)
    BY <2>1 DEF Above
  <2>5. Above(p, k)' = Above(p, k + 1)
    <3>1. CASE k = 1
      BY <1>5, <1>6, <2>4, <3>1 DEF Above
    <3>2. CASE k # 1
      <4>1. k - 1 \in 1 .. m - 1 /\ (k - 1) + 1 = k
        BY <2>0, <3>2, SMTT(20)
      <4>2. frames'[p][k - 1] = frames[p][k]
        BY <1>7, <4>1
      <4>3. Above(p, k)' = frames'[p][k - 1].cthd
        BY <3>2 DEF Above, Cthd
      <4> QED BY <2>4, <4>2, <4>3 DEF Cthd
    <3> QED BY <3>1, <3>2
  <2> QED BY <1>b, <2>1, <2>2, <2>3, <2>5
<1>9. \A k \in 1 .. Len(frames[p]) : k # 1 =>
        k - 1 \in 1 .. Len(frames'[p]) /\ frames'[p][k - 1] = frames[p][k]
  <2> SUFFICES ASSUME NEW k \in 1 .. Len(frames[p]), k # 1
               PROVE  k - 1 \in 1 .. Len(frames'[p]) /\ frames'[p][k - 1] = frames[p][k]
    OBVIOUS
  <2>0. k \in 1 .. m /\ m \in Nat
    BY <1>b, <1>7
  <2>1. k - 1 \in 1 .. m - 1 /\ (k - 1) + 1 = k
    BY <2>0, SMTT(20)
  <2> QED BY <1>7, <2>1
<1>10. ASSUME NEW q \in Procs PROVE Base(q)' = Base(q) /\ (thr'[q] # NULL => thr[q] # NULL)
  <2>1. CASE q # p
    BY <1>6, <2>1 DEF Base, Cthd
  <2>2. CASE q = p
    <3>0. Base(p) = Cthd(p, m)
      BY <1>b, <1>4 DEF Base
    <3>1. CASE m = 1
      <4>1. frames'[p] = <<>>
        <5>1. m - 1 = 0
          BY <3>1, SMTT(20)
        <5> QED BY <1>7, <5>1
      <4> QED BY <1>4, <1>5, <1>6, <2>2, <3>0, <3>1, <4>1 DEF Base
    <3>2. CASE m # 1
      <4>0. m \in Nat /\ m > 0
        BY <1>7
      <4>1. m - 1 # 0 /\ m - 1 \in 1 .. m - 1 /\ (m - 1) + 1 = m
        BY <3>2, <4>0, SMTT(20)
      <4>2. frames'[p] # <<>> /\ frames'[p][m - 1] = frames[p][m]
        BY <1>7, <4>1
      <4>3. Base(p)' = frames'[p][m - 1].cthd
        BY <1>7, <4>2 DEF Base, Cthd
      <4> QED BY <1>4, <2>2, <3>0, <4>2, <4>3 DEF Cthd
    <3> QED BY <3>1, <3>2
  <2> QED BY <2>1, <2>2
<1>11. Popped(p, c0)
  BY <1>b, <1>1, <1>2, <1>4, <1>5, <1>6, <1>8, <1>9, <1>10 DEF Popped
<1> QED BY <1>11

\* The master leaves the region: all members of its team have raised their flags.
LEMMA JoinT == ASSUME IInv, TInv, NEW p \in Procs, Join(p) PROVE TInv'
<1>1. PICK c0 : Popped(p, c0)
  BY Pops
<1>2. /\ pc[p] = "join" /\ 1 .. num_thds[c0]-1 \subseteq arrived[c0]
      /\ 1 \in 1 .. Len(frames[p]) /\ c0 = Cthd(p, 1)
  BY <1>1 DEF Popped
<1>3. /\ free_thr' = free_thr /\ mallocs' = mallocs /\ parent' = parent /\ num' = num
      /\ num_thds' = num_thds /\ arrived' = arrived /\ proclist' = proclist /\ max_thds' = max_thds
      /\ i' = i /\ flag' = flag /\ is_used' = is_used
  BY <1>1 DEF Popped
<1>4. /\ OwnInv(p) /\ PlaceInv(p) /\ ChainInv(p) /\ DistinctInv(p) /\ FlagInv(p)
  BY DEF IInv, ProcInv, TInv, ShapeInv
<1>5. /\ pc'[p] = "body" /\ thr'[p] = c0
      /\ \A q \in Procs \ {p} : pc'[q] = pc[q] /\ thr'[q] = thr[q] /\ frames'[q] = frames[q]
  BY <1>1 DEF Popped
<1>6. \A k \in 1 .. Len(frames'[p]) :
        /\ k + 1 \in 1 .. Len(frames[p]) /\ k + 1 # 1 /\ k + 1 > 1 /\ frames'[p][k] = frames[p][k + 1]
        /\ Cthd(p, k)' = Cthd(p, k + 1) /\ Above(p, k)' = Above(p, k + 1)
  BY <1>1 DEF Popped
<1>7. \A q \in Procs \ {p} : ShapeInv(q)'
  <2>1. \A q \in Procs \ {p} : Same(q)
    BY <1>3, <1>5 DEF Same
  <2>2. \A t \in Structs \ {NULL} : parent'[t] = parent[t] /\ num'[t] = num[t]
    BY <1>3
  <2> QED BY <2>1, <2>2, OthersShape, NullAssumption
<1>8. ChainInv(p)'
  <2>1. ASSUME NEW k \in 1 .. Len(frames'[p])
        PROVE  /\ frames'[p][k].tp = Above(p, k)' /\ parent'[Above(p, k)'] = Cthd(p, k)'
               /\ num'[Above(p, k)'] = 0
    <3>1. /\ k + 1 \in 1 .. Len(frames[p]) /\ k + 1 > 1 /\ frames'[p][k] = frames[p][k + 1]
          /\ Cthd(p, k)' = Cthd(p, k + 1) /\ Above(p, k)' = Above(p, k + 1)
      BY <1>6
    <3>2. /\ frames[p][k + 1].tp = Above(p, k + 1) /\ parent[Above(p, k + 1)] = Cthd(p, k + 1)
          /\ num[Above(p, k + 1)] = 0
      BY <1>4, <3>1 DEF ChainInv
    <3> QED BY <1>3, <3>1, <3>2
  <2> QED BY <1>5, <2>1 DEF ChainInv, Forking
<1>9. CthdOnce(p)'
  <2> SUFFICES ASSUME NEW j \in 1 .. Len(frames'[p]), NEW k \in 1 .. Len(frames'[p]), Cthd(p, j)' = Cthd(p, k)'
               PROVE  j = k
    BY DEF CthdOnce
  <2>1. j + 1 \in 1 .. Len(frames[p]) /\ k + 1 \in 1 .. Len(frames[p]) /\ Cthd(p, j + 1) = Cthd(p, k + 1)
    BY <1>6
  <2>2. j + 1 = k + 1
    BY <1>4, <2>1 DEF DistinctInv, CthdOnce
  <2> QED BY <2>2, SMTT(20)
<1>10. ThrApart(p)'
  <2> SUFFICES ASSUME NEW k \in 1 .. Len(frames'[p]) PROVE Cthd(p, k)' # c0
    BY <1>5 DEF ThrApart
  <2>1. k + 1 \in 1 .. Len(frames[p]) /\ k + 1 # 1 /\ Cthd(p, k)' = Cthd(p, k + 1)
    BY <1>6
  <2> QED BY <1>4, <1>2, <2>1 DEF DistinctInv, CthdOnce
<1>11. HeldApart(p)'
  <2>1. ASSUME NEW t, Held(p, t)' PROVE Held(p, t)
    <3>1. CASE t = c0
      BY <1>2, <3>1 DEF Held
    <3>2. CASE t # c0
      <4>1. PICK k \in 1 .. Len(frames'[p]) : Cthd(p, k)' = t
        BY <1>5, <2>1, <3>2 DEF Held
      <4>2. k + 1 \in 1 .. Len(frames[p]) /\ Cthd(p, k + 1) = t
        BY <1>6, <4>1
      <4> QED BY <4>2 DEF Held
    <3> QED BY <3>1, <3>2
  <2>2. Elements(free_thr[p])' = Elements(free_thr[p])
    BY <1>3
  <2> QED BY <1>4, <2>1, <2>2 DEF DistinctInv, HeldApart
<1>12. ShapeInv(p)'
  <2>1. FlagInv(p)'
    BY <1>2, <1>3, <1>4 DEF FlagInv, Leaving
  <2>2. FreeOnce(p)'
    BY <1>3, <1>4 DEF DistinctInv, FreeOnce
  <2> QED BY <1>8, <1>9, <1>10, <1>11, <2>1, <2>2 DEF ShapeInv, DistinctInv
<1>13. \A q \in Procs : Base(q)' = Base(q) /\ (thr'[q] # NULL => thr[q] # NULL)
  BY <1>1 DEF Popped
<1>14. ASSUME NEW q \in Procs PROVE Kept(q)
  <2>1. pc'[q] \in Leaving => pc[q] \in Leaving
    BY <1>5 DEF Leaving
  <2> QED BY <1>3, <1>13, <2>1, KeptIf
<1>15. ASSUME NEW c, NEW l, Valid(c, l) PROVE Valid(c, l)'
  <2>1. c # c0
    BY <1>2, <1>15 DEF Valid
  <2>2. ASSUME NEW k \in 1 .. Len(frames[p]), Cthd(p, k) = c
        PROVE  \E j \in 1 .. Len(frames'[p]) : frames'[p][j].cthd = c
    <3>1. k # 1
      BY <1>2, <2>1, <2>2
    <3>2. k - 1 \in 1 .. Len(frames'[p]) /\ frames'[p][k - 1] = frames[p][k]
      BY <1>1, <3>1 DEF Popped
    <3> QED BY <2>2, <3>2 DEF Cthd
  <2>3. Open(c, l)'
    BY <1>3, <1>5, <1>15, <2>2, OpenShift DEF Valid
  <2> QED BY <1>3, <1>15, <2>3 DEF Valid
<1>16. MemberInv' /\ UniqueInv'
  BY <1>14, <1>15, MembersKept DEF TInv, GoesOn
<1>17. ArrivedInv'
  <2>1. \A q \in Procs : pc'[q] = "assign" => pc[q] = "assign" /\ Cthd(q, 1)' = Cthd(q, 1) /\ i'[q] = i[q]
    BY <1>3, <1>5 DEF Cthd
  <2> QED BY <1>3, <2>1 DEF TInv, ArrivedInv
<1>18. RootInv'
  <2>1. 0 \in Procs
    BY NAssumption, SMTT(20) DEF Procs
  <2> QED BY <1>3, <1>13, <2>1 DEF TInv, RootInv
<1> QED BY <1>7, <1>12, <1>16, <1>17, <1>18 DEF TInv

\* What the start of slave q in structure s does, as number n0 of the team of c0.
Given(p, q, s, c0, n0) ==
  /\ pc[p] = "assign" /\ n0 = i[p] /\ n0 < num_thds[c0] /\ num_thds[c0] \in 0 .. N /\ n0 \in 1 .. N
  /\ pc' = pc /\ frames' = frames /\ flag' = flag /\ arrived' = arrived /\ num_thds' = num_thds
  /\ max_thds' = max_thds
  /\ thr[q] = NULL /\ q # p /\ q # 0 /\ frames[q] = <<>> /\ pc[q] \in Waiting \cup {"signal"}
  /\ 1 \in 1 .. Len(frames[p]) /\ c0 = Cthd(p, 1) /\ c0 \in Structs
  /\ s # NULL /\ s \in Own(q)' /\ \A r \in Procs \ {q} : free_thr'[r] = free_thr[r]
  /\ Unused(q, s, c0, n0)
  /\ in_parallel'[s] = frames[p][1].in_parallel
  /\ \A t \in Structs \ {s} : in_parallel'[t] = in_parallel[t]
  /\ thr'[q] = s /\ i'[p] = n0 + 1
  /\ \A r \in Procs \ {q} : thr'[r] = thr[r]
  /\ \A r \in Procs \ {p} : i'[r] = i[r]
  /\ \A r \in Procs \ {q} : thr[r] # NULL =>
       /\ Base(r)' = Base(r) /\ parent'[Base(r)] = parent[Base(r)] /\ num'[Base(r)] = num[Base(r)]

\* "p->thr = tp" gives a slave its structure.
LEMMA Gives ==
  ASSUME IInv, TInv, NEW p \in Procs, Assign(p)
  PROVE  \E q \in Procs, s \in Structs, c0 \in Structs, n0 \in 1 .. N : Given(p, q, s, c0, n0)
<1>a. PICK c0 : c0 = Frame(p).cthd
  OBVIOUS
<1>b. PICK n0 : n0 = i[p]
  OBVIOUS
<1>c. PICK q \in Procs, s \in Structs : Assigned(p, q, s)
  BY Assigns
<1>1. /\ pc[p] = "assign" /\ n0 < num_thds[c0] /\ thr' = [thr EXCEPT ![q] = s]
      /\ i' = [i EXCEPT ![p] = @ + 1] /\ frames[p] # <<>> /\ num_thds[c0] \in 0 .. N /\ n0 \in 1 .. N
  BY <1>a, <1>b, <1>c DEF Assigned
<1>2. /\ pc' = pc /\ frames' = frames /\ flag' = flag /\ arrived' = arrived /\ num_thds' = num_thds
      /\ max_thds' = max_thds
  BY <1>c DEF Assigned, TakeThread
<1>3. /\ TypeInv /\ thr \in [Procs -> Structs \cup {NULL}] /\ i \in [Procs -> 1 .. N]
      /\ arrived \in [Structs -> SUBSET Procs]
      /\ \A r \in Procs : OwnInv(r) /\ PlaceInv(r) /\ ShapeInv(r)
  BY DEF IInv, TypeInv, ProcInv, TInv
<1>4. /\ thr[q] = NULL /\ q # p /\ frames[q] = <<>> /\ pc[q] \in Waiting \cup {"signal"}
  BY <1>c DEF Assigned, Waiting
<1>5. q # 0
  BY <1>3, <1>4 DEF PlaceInv, Starting, Forking, Waiting
<1>6. /\ 1 \in 1 .. Len(frames[p]) /\ c0 = Cthd(p, 1) /\ c0 \in Structs /\ Frame(p) = frames[p][1]
  BY <1>a, <1>1, <1>3, FrameIsFirst DEF Cthd
<1>7. /\ s # NULL /\ s \in Own(q)' /\ \A r \in Procs \ {q} : free_thr'[r] = free_thr[r]
  BY <1>c, NullAssumption DEF Assigned, Takes
<1>8. Unused(q, s, c0, n0)
  <2>1. TakeThread(q, s, c0, n0, Frame(p).in_parallel)
    BY <1>a, <1>b, <1>c DEF Assigned
  <2>2. DistinctInv(q) /\ \A r \in Procs : OwnInv(r)
    BY <1>3 DEF ShapeInv
  <2> QED BY <1>3, <1>7, <2>1, <2>2, Fresh
<1>9. /\ FreeOnce(q)' /\ s \notin Elements(free_thr[q])'
      /\ \A t \in Structs \ {s} : parent'[t] = parent[t] /\ num'[t] = num[t]
      /\ parent'[s] = c0 /\ num'[s] = n0 /\ \A r \in Procs : ~Held(r, s)
  BY <1>8 DEF Unused
<1>10. /\ thr'[q] = s /\ i'[p] = n0 + 1
       /\ \A r \in Procs \ {q} : thr'[r] = thr[r]
       /\ \A r \in Procs \ {p} : i'[r] = i[r]
  BY <1>b, <1>1, <1>3
<1>11. ASSUME NEW r \in Procs, r # q, thr[r] # NULL
       PROVE  /\ Base(r)' = Base(r) /\ parent'[Base(r)] = parent[Base(r)] /\ num'[Base(r)] = num[Base(r)]
  <2>1. Base(r)' = Base(r)
    BY <1>2, <1>10, <1>11 DEF Base, Cthd
  <2>2. Held(r, Base(r))
    BY <1>3, <1>11, BaseHeld
  <2>3. Base(r) # s
    BY <1>9, <2>2
  <2>4. Base(r) \in Structs
    <3>1. Base(r) \in Own(r)
      BY <1>3, <2>2, HeldOwn
    <3> QED BY <1>3, <3>1, OwnStruct
  <2> QED BY <1>9, <2>1, <2>3, <2>4
<1>12. /\ in_parallel'[s] = frames[p][1].in_parallel
       /\ \A t \in Structs \ {s} : in_parallel'[t] = in_parallel[t]
  <2>1. in_parallel' = [in_parallel EXCEPT ![s] = Frame(p).in_parallel]
    BY <1>c DEF Assigned, TakeThread
  <2>2. in_parallel \in [Structs -> {0, 1}]
    BY <1>3 DEF TypeInv
  <2> QED BY <1>6, <2>1, <2>2
<1>13. Given(p, q, s, c0, n0)
  BY <1>b, <1>1, <1>2, <1>4, <1>5, <1>6, <1>7, <1>8, <1>10, <1>11, <1>12 DEF Given
<1> QED BY <1>1, <1>6, <1>13

\* The master starts a slave: the number it gets is new in the team.
LEMMA AssignT == ASSUME IInv, TInv, NEW p \in Procs, Assign(p) PROVE TInv'
<1>c. PICK q \in Procs, s \in Structs, c0 \in Structs, n0 \in 1 .. N : Given(p, q, s, c0, n0)
  BY Gives
<1>b. n0 = i[p]
  BY <1>c DEF Given
<1>1. /\ pc[p] = "assign" /\ n0 < num_thds[c0] /\ num_thds[c0] \in 0 .. N /\ n0 \in 1 .. N
  BY <1>c DEF Given
<1>2. /\ pc' = pc /\ frames' = frames /\ flag' = flag /\ arrived' = arrived /\ num_thds' = num_thds
  BY <1>c DEF Given
<1>3. /\ TypeInv /\ arrived \in [Structs -> SUBSET Procs]
      /\ \A r \in Procs : OwnInv(r) /\ PlaceInv(r) /\ ShapeInv(r)
  BY DEF IInv, TypeInv, ProcInv, TInv
<1>4. /\ thr[q] = NULL /\ q # p /\ q # 0 /\ frames[q] = <<>> /\ pc[q] \in Waiting \cup {"signal"}
  BY <1>c DEF Given
<1>5. /\ 1 \in 1 .. Len(frames[p]) /\ c0 = Cthd(p, 1) /\ c0 \in Structs
  BY <1>c DEF Given
<1>6. /\ s # NULL /\ s \in Own(q)' /\ \A r \in Procs \ {q} : free_thr'[r] = free_thr[r]
  BY <1>c DEF Given
<1>7. /\ FreeOnce(q)' /\ s \notin Elements(free_thr[q])'
      /\ \A t \in Structs \ {s} : parent'[t] = parent[t] /\ num'[t] = num[t]
      /\ parent'[s] = c0 /\ num'[s] = n0 /\ \A r \in Procs : ~Held(r, s)
  BY <1>c DEF Given, Unused
<1>8. /\ thr'[q] = s /\ i'[p] = n0 + 1
      /\ \A r \in Procs \ {q} : thr'[r] = thr[r]
      /\ \A r \in Procs \ {p} : i'[r] = i[r]
  BY <1>c DEF Given
<1>9. ASSUME NEW r \in Procs, r # q PROVE ShapeInv(r)'
  <2>1. ASSUME NEW t \in Own(r) PROVE parent'[t] = parent[t] /\ num'[t] = num[t]
    <3>1. t \in Structs
      BY <1>3, OwnStruct
    <3>2. t \notin Own(q)'
      BY <1>9, OwnOne DEF Own
    <3> QED BY <1>6, <1>7, <3>1, <3>2
  <2>2. /\ pc'[r] = pc[r] /\ thr'[r] = thr[r] /\ frames'[r] = frames[r] /\ flag'[r] = flag[r]
        /\ free_thr'[r] = free_thr[r] /\ OwnInv(r) /\ PlaceInv(r) /\ ShapeInv(r)
    BY <1>2, <1>3, <1>6, <1>8, <1>9
  <2>3. ChainInv(r)'
    BY <2>1, <2>2, ChainKept DEF ShapeInv
  <2>4. DistinctInv(r)'
    BY <2>2, DistinctKept DEF ShapeInv
  <2>5. FlagInv(r)'
    BY <2>2 DEF ShapeInv, FlagInv
  <2> QED BY <2>3, <2>4, <2>5 DEF ShapeInv
<1>10. ShapeInv(q)'
  <2>1. /\ ChainInv(q)' /\ CthdOnce(q)' /\ ThrApart(q)' /\ \A t : Held(q, t)' => t = s
    <3>1. frames'[q] = <<>> /\ pc'[q] \notin Forking /\ pc'[q] # "freethr"
      BY <1>2, <1>4 DEF Forking, Waiting
    <3>2. /\ ChainInv(q)' /\ CthdOnce(q)' /\ ThrApart(q)'
          /\ \A t : Held(q, t)' => (thr'[q] = t /\ t # NULL) \/ (pc'[q] = "freethr" /\ flag'[q].me = t)
      BY <3>1, NoFrames
    <3> QED BY <1>8, <3>1, <3>2
  <2>2. HeldApart(q)'
    BY <1>7, <2>1 DEF HeldApart
  <2>3. FlagInv(q)'
    BY <1>2, <1>3 DEF ShapeInv, FlagInv
  <2> QED BY <1>7, <2>1, <2>2, <2>3 DEF ShapeInv, DistinctInv
<1>11. ASSUME NEW r \in Procs, r # q, thr[r] # NULL
       PROVE  /\ Base(r)' = Base(r) /\ parent'[Base(r)] = parent[Base(r)] /\ num'[Base(r)] = num[Base(r)]
  BY <1>c, <1>11 DEF Given
<1>12. On(q, "job")' /\ Team(q, "job")' = c0 /\ Nr(q, "job")' = n0
  <2>1. Base(q)' = s
    BY <1>2, <1>4, <1>8 DEF Base
  <2> QED BY <1>4, <1>6, <1>7, <1>8, <2>1 DEF On, Team, Nr
<1>13. ASSUME NEW r \in Procs, NEW x \in Roles, On(r, x)', r # q \/ x # "job"
       PROVE  On(r, x) /\ Team(r, x)' = Team(r, x) /\ Nr(r, x)' = Nr(r, x)
  <2>1. CASE x = "debt"
    BY <1>2, <1>13, <2>1 DEF On, Team, Nr
  <2>2. CASE x = "job"
    <3>1. r # q /\ thr'[r] = thr[r] /\ thr[r] # NULL /\ On(r, x)
      BY <1>8, <1>13, <2>2 DEF On
    <3>2. Base(r)' = Base(r) /\ parent'[Base(r)] = parent[Base(r)] /\ num'[Base(r)] = num[Base(r)]
      BY <1>11, <3>1
    <3> QED BY <2>2, <3>1, <3>2 DEF Team, Nr
  <2> QED BY <2>1, <2>2 DEF Roles
<1>14. ASSUME NEW r \in Procs, NEW x \in Roles, On(r, x)', r # q \/ x # "job"
       PROVE  Team(r, x)' # c0 \/ Nr(r, x)' # n0
  <2> SUFFICES ASSUME Team(r, x)' = c0, Nr(r, x)' = n0 PROVE FALSE
    OBVIOUS
  <2>1. On(r, x) /\ Team(r, x) = c0 /\ Nr(r, x) = n0
    BY <1>13, <1>14
  <2>2. Valid(Team(r, x), Nr(r, x))
    BY <2>1 DEF TInv, MemberInv
  <2>3. Valid(c0, n0)
    BY <2>1, <2>2
  <2>4. Open(Cthd(p, 1), n0)
    BY <1>5, <2>3 DEF Valid
  <2>5. n0 < n0
    BY <1>b, <1>1, <1>5, <2>4, OpenFrame
  <2> QED BY <1>1, <2>5, NAssumption, SMTT(20)
<1>15. n0 \in Int /\ n0 < n0 + 1 /\ \A m \in Int : m < n0 => m < n0 + 1
  BY <1>1, NAssumption, SMTT(20)
<1>16. ASSUME NEW d, NEW m, Valid(d, m) PROVE Valid(d, m)'
  <2>1. m \in Int /\ Open(d, m)
    <3>1. m \in 1 .. num_thds[d] - 1 /\ Open(d, m)
      BY <1>16 DEF Valid
    <3> QED BY <3>1, SMTT(20)
  <2>2. \A r \in Procs : m < i[r] => m < i'[r]
    BY <1>b, <1>8, <1>15, <2>1
  <2>3. Open(d, m)'
    BY <1>2, <2>1, <2>2, OpenKept
  <2> QED BY <1>2, <1>16, <2>3 DEF Valid
<1>17. Valid(c0, n0)'
  <2>1. Open(c0, n0)'
    BY <1>1, <1>2, <1>5, <1>8, <1>15 DEF Open, Cthd
  <2>2. n0 \in 1 .. num_thds[c0] - 1
    BY <1>1, NAssumption, SMTT(20)
  <2>3. n0 \notin arrived[c0]
    <3>1. n0 \in arrived[c0] => n0 < n0
      BY <1>b, <1>1, <1>5 DEF TInv, ArrivedInv
    <3> QED BY <1>15, <3>1, SMTT(20)
  <2> QED BY <1>2, <1>5, <2>1, <2>2, <2>3 DEF Valid
<1>18. MemberInv'
  <2> SUFFICES ASSUME NEW r \in Procs, NEW x \in Roles, On(r, x)'
               PROVE  Valid(Team(r, x), Nr(r, x))'
    BY DEF MemberInv
  <2>1. CASE r = q /\ x = "job"
    BY <1>12, <1>17, <2>1 DEF Valid, Open
  <2>2. CASE r # q \/ x # "job"
    <3>1. On(r, x) /\ Team(r, x)' = Team(r, x) /\ Nr(r, x)' = Nr(r, x)
      BY <1>13, <2>2
    <3>2. PICK d : d = Team(r, x)
      OBVIOUS
    <3>3. PICK m : m = Nr(r, x)
      OBVIOUS
    <3>4. Valid(d, m)
      BY <3>1, <3>2, <3>3 DEF TInv, MemberInv
    <3>5. Valid(d, m)' /\ d = Team(r, x)' /\ m = Nr(r, x)'
      BY <1>16, <3>1, <3>2, <3>3, <3>4
    <3> QED BY <3>5 DEF Valid, Open
  <2> QED BY <2>1, <2>2
<1>19. UniqueInv'
  <2> SUFFICES ASSUME NEW q1 \in Procs, NEW q2 \in Procs, NEW r1 \in Roles, NEW r2 \in Roles,
                      On(q1, r1)', On(q2, r2)', Team(q1, r1)' = Team(q2, r2)', Nr(q1, r1)' = Nr(q2, r2)'
               PROVE  q1 = q2 /\ r1 = r2
    BY DEF UniqueInv
  <2>1. CASE (q1 # q \/ r1 # "job") /\ (q2 # q \/ r2 # "job")
    <3>1. On(q1, r1) /\ Team(q1, r1)' = Team(q1, r1) /\ Nr(q1, r1)' = Nr(q1, r1)
      BY <1>13, <2>1
    <3>2. On(q2, r2) /\ Team(q2, r2)' = Team(q2, r2) /\ Nr(q2, r2)' = Nr(q2, r2)
      BY <1>13, <2>1
    <3>3. Team(q1, r1) = Team(q2, r2) /\ Nr(q1, r1) = Nr(q2, r2)
      BY <3>1, <3>2
    <3> QED BY <3>1, <3>2, <3>3 DEF TInv, UniqueInv
  <2>2. CASE q1 = q /\ r1 = "job"
    BY <1>12, <1>14, <2>2
  <2>3. CASE q2 = q /\ r2 = "job"
    BY <1>12, <1>14, <2>3
  <2> QED BY <2>1, <2>2, <2>3
<1>20. ArrivedInv'
  <2> SUFFICES ASSUME NEW a \in Procs, pc[a] = "assign", NEW m \in arrived[Cthd(a, 1)]
               PROVE  m < i'[a]
    BY <1>2 DEF ArrivedInv, Cthd
  <2>1. m < i[a]
    BY DEF TInv, ArrivedInv
  <2>2. CASE a = p
    <3>1. m \in Procs
      BY <1>3, <1>5, <2>2
    <3>2. m \in Int
      BY <3>1, NAssumption, SMTT(20) DEF Procs
    <3> QED BY <1>b, <1>8, <1>15, <2>1, <2>2, <3>2
  <2>3. CASE a # p
    BY <1>8, <2>1, <2>3
  <2> QED BY <2>2, <2>3
<1>21. RootInv'
  <2>1. 0 \in Procs
    BY NAssumption, SMTT(20) DEF Procs
  <2>2. thr'[0] = thr[0]
    BY <1>4, <1>8, <2>1
  <2>3. thr[0] # NULL => Base(0)' = Base(0) /\ parent'[Base(0)] = parent[Base(0)]
    BY <1>4, <1>11, <2>1
  <2> QED BY <2>2, <2>3 DEF TInv, RootInv
<1> QED BY <1>9, <1>10, <1>18, <1>19, <1>20, <1>21 DEF TInv

----------------------------------------------------------------------------
(* The theorems.                                                            *)

\* A step that changes nothing keeps the teams.
LEMMA StutterT == ASSUME IInv, TInv, UNCHANGED vars PROVE TInv'
<1>1. UNCHANGED <<thr, frames, free_thr, parent, num, num_thds, arrived, flag, pc, i>>
  BY DEF vars, pool, heap, locals
<1> QED BY <1>1, Quiet DEF QuietMove

\* Every step of the pool keeps the teams.
LEMMA NextTInv == IInv /\ IInv' /\ TInv /\ [Next]_vars => TInv'
<1> SUFFICES ASSUME IInv, IInv', TInv, [Next]_vars PROVE TInv'
  OBVIOUS
<1>1. CASE Startup
  BY <1>1, StartupT, WaitProcsT DEF Startup
<1>2. ASSUME NEW p \in Procs, Runtime(p) PROVE TInv'
  BY <1>2, SlaveT, MasterT, FreeMeT, SignalT, InitParentT, AssignT, AllocMasterT, JoinT DEF Runtime
<1>3. ASSUME NEW p \in Procs, SpuriousWake(p) \/ Finish(p) \/ Return(p) PROVE TInv'
  BY <1>3, SlaveT, FinishT, ReturnT
<1>4. ASSUME NEW p \in Procs, NEW cond \in {0, 1}, NEW nthds \in 1 .. N, DoParallel(p, cond, nthds)
      PROVE  TInv'
  BY <1>4, DoParallelT
<1>5. CASE UNCHANGED vars
  BY <1>5, StutterT
<1> QED BY <1>1, <1>2, <1>3, <1>4, <1>5 DEF Next

\* The teams are in order in every state.
LEMMA TeamInvariance == Spec => [](IInv /\ TInv)
BY Invariance, InitTInv, NextTInv, PTL DEF Spec

\* A structure that some master forked from and has not gone back to.
Forked(c) == \E p \in Procs : \E k \in 1 .. Len(frames[p]) : Cthd(p, k) = c

\* A team that is open has a master that waits for it.
LEMMA ValidForked ==
  ASSUME NEW c, NEW n, Valid(c, n)
  PROVE  Forked(c)
BY DEF Valid, Open, Forked

\* What is in use is on no free list.
LEMMA HeldNotFree ==
  ASSUME IInv, TInv, NEW p \in Procs, NEW s, Held(p, s), NEW q \in Procs
  PROVE  s \notin Elements(free_thr[q])
<1>1. TypeInv /\ OwnInv(p) /\ OwnInv(q) /\ DistinctInv(p)
  BY DEF IInv, ProcInv, TInv, ShapeInv
<1>2. s \in Own(p)
  BY <1>1, HeldOwn
<1>3. s \in Structs
  BY <1>1, <1>2, OwnStruct
<1>4. CASE q = p
  BY <1>1, <1>3, <1>4 DEF DistinctInv, HeldApart
<1>5. CASE q # p
  <2>1. s \in Own(q) => p = q
    BY <1>2, OwnOne DEF Own
  <2> QED BY <1>1, <1>5, <2>1 DEF OwnInv
<1> QED BY <1>4, <1>5

\* A structure that was forked from is not free, and nobody is in the program with it.
LEMMA ForkedApart ==
  ASSUME IInv, TInv, NEW c, Forked(c), NEW q \in Procs
  PROVE  c \notin Elements(free_thr[q]) /\ (pc[q] = "body" => c # thr[q])
<1>1. PICK p \in Procs : \E k \in 1 .. Len(frames[p]) : Cthd(p, k) = c
  BY DEF Forked
<1>2. PICK k \in 1 .. Len(frames[p]) : Cthd(p, k) = c
  BY <1>1
<1>3. Held(p, c)
  BY <1>2 DEF Held
<1>4. c \notin Elements(free_thr[q])
  BY <1>3, HeldNotFree
<1>5. ASSUME pc[q] = "body" PROVE c # thr[q]
  <2>1. OwnInv(p) /\ OwnInv(q) /\ PlaceInv(q) /\ DistinctInv(q)
    BY DEF IInv, ProcInv, TInv, ShapeInv
  <2>2. c \in Own(p)
    BY <1>3, <2>1, HeldOwn
  <2>3. thr[q] \in Own(q)
    BY <1>5, <2>1 DEF PlaceInv, OwnInv
  <2>4. c = thr[q] => p = q
    BY <2>2, <2>3, OwnOne DEF Own
  <2> QED BY <1>2, <1>5, <2>1, <2>4 DEF DistinctInv, ThrApart
<1> QED BY <1>4, <1>5

\* Nothing is NULL that is on a free list, or that a processor in the program executes in.
LEMMA NullApart ==
  ASSUME IInv, NEW q \in Procs
  PROVE  NULL \notin Elements(free_thr[q]) /\ (pc[q] = "body" => thr[q] # NULL)
<1>1. TypeInv /\ OwnInv(q) /\ PlaceInv(q)
  BY DEF IInv, ProcInv
<1>2. NULL \notin Own(q)
  BY <1>1, OwnStruct
<1> QED BY <1>1, <1>2 DEF OwnInv, PlaceInv

\* A slave that is the master of no region.
Works(q) ==
  /\ On(q, "job") /\ Team(q, "job") = parent[Base(q)] /\ Nr(q, "job") = num[Base(q)]
  /\ Valid(parent[Base(q)], num[Base(q)])

\* The structure a processor was started with is the root's or that of a member of a team.
LEMMA BaseIs ==
  ASSUME IInv, TInv, NEW q \in Procs, thr[q] # NULL
  PROVE  Works(q) \/ (q = 0 /\ parent[Base(q)] = NULL)
<1>1. CASE q = 0
  BY <1>1 DEF TInv, RootInv
<1>2. CASE q # 0
  <2>1. On(q, "job") /\ Team(q, "job") = parent[Base(q)] /\ Nr(q, "job") = num[Base(q)]
    BY <1>2 DEF On, Team, Nr
  <2>2. Valid(Team(q, "job"), Nr(q, "job"))
    BY <2>1 DEF TInv, MemberInv, Roles
  <2> QED BY <2>1, <2>2 DEF Works
<1> QED BY <1>1, <1>2

\* The master in its region.
Leads(p) ==
  /\ 1 \in 1 .. Len(frames[p]) /\ parent[thr[p]] = Cthd(p, 1) /\ num[thr[p]] = 0
  /\ Cthd(p, 1) \in Structs

\* Who executes a region is its master, or was started with the structure it executes in.
LEMMA RegionIs ==
  ASSUME IInv, TInv, NEW p \in Procs, pc[p] \in {"body", "join"}
  PROVE  Leads(p) \/ Base(p) = thr[p]
<1>1. TypeInv /\ ChainInv(p)
  BY DEF IInv, TInv, ShapeInv
<1>2. CASE frames[p] = <<>>
  BY <1>2 DEF Base
<1>3. CASE frames[p] # <<>>
  <2>1. 1 \in 1 .. Len(frames[p]) /\ Cthd(p, 1) \in Structs
    BY <1>1, <1>3, FrameIsFirst DEF Cthd
  <2>2. parent[Above(p, 1)] = Cthd(p, 1) /\ num[Above(p, 1)] = 0
    BY <1>1, <2>1 DEF ChainInv
  <2>3. Above(p, 1) = thr[p]
    BY DEF Above
  <2> QED BY <2>1, <2>2, <2>3 DEF Leads
<1> QED BY <1>2, <1>3

\* The parent of a thread is a structure that a master forked from.
LEMMA ParentForked ==
  ASSUME IInv, TInv, NEW q \in Procs, Running(q), thr[q] # NULL
  PROVE  parent[thr[q]] = NULL \/ Forked(parent[thr[q]])
<1>1. parent[Base(q)] = NULL \/ Forked(parent[Base(q)])
  <2>1. Works(q) => Forked(parent[Base(q)])
    BY ValidForked DEF Works
  <2> QED BY <2>1, BaseIs
<1>2. CASE pc[q] \in {"body", "join"}
  <2>1. Leads(q) => Forked(parent[thr[q]])
    BY DEF Leads, Forked
  <2> QED BY <1>1, <1>2, <2>1, RegionIs
<1>3. CASE pc[q] \in Forking
  <2>1. TypeInv /\ ChainInv(q) /\ frames[q] # <<>>
    BY <1>3 DEF IInv, ProcInv, PlaceInv, TInv, ShapeInv
  <2>2. thr[q] = Cthd(q, 1)
    BY <1>3, <2>1 DEF ChainInv
  <2>3. frames[q] \in Seq(Frames)
    BY <2>1 DEF TypeInv
  <2>4. Len(frames[q]) \in Nat /\ Len(frames[q]) > 0
    BY <2>1, <2>3, LenIs
  <2>5. CASE Len(frames[q]) = 1
    <3>1. Base(q) = thr[q]
      BY <2>1, <2>2, <2>5 DEF Base
    <3> QED BY <1>1, <3>1
  <2>6. CASE Len(frames[q]) # 1
    <3>0. \A m \in Nat : m > 0 /\ m # 1 => 2 \in 1 .. m
      BY SMTT(20)
    <3>1. 2 \in 1 .. Len(frames[q]) /\ 2 > 1 /\ 2 - 1 = 1 /\ 2 # 1
      <4>1. 2 > 1 /\ 2 - 1 = 1 /\ 2 # 1
        BY SMTT(20)
      <4> QED BY <2>4, <2>6, <3>0, <4>1
    <3>2. parent[Above(q, 2)] = Cthd(q, 2)
      BY <2>1, <3>1 DEF ChainInv
    <3>3. Above(q, 2) = thr[q]
      BY <2>2, <3>1 DEF Above
    <3> QED BY <3>1, <3>2, <3>3 DEF Forked
  <2> QED BY <2>5, <2>6
<1> QED BY <1>2, <1>3 DEF Running, Forking

\* The structure whose flag a slave has still to raise is in use.
LEMMA FlagForked ==
  ASSUME IInv, TInv, NEW q \in Procs, flag[q] # NULL
  PROVE  Forked(flag[q].tp)
<1>1. On(q, "debt") /\ Team(q, "debt") = flag[q].tp
  BY DEF TInv, ShapeInv, FlagInv, On, Team
<1>2. Valid(Team(q, "debt"), Nr(q, "debt"))
  BY <1>1 DEF TInv, MemberInv, Roles
<1>3. Forked(Team(q, "debt"))
  BY <1>2, ValidForked
<1> QED BY <1>1, <1>3

\* No thread structure in use is on a free list, for any number of processors and any
\* nesting of regions: ompc_free_thread comes after the last access, the slave's store of
\* its flag in ompc_thread_barrier2 included.
THEOREM NeverFreedInUse == Spec => []NoUseAfterFree
<1>1. IInv /\ TInv => NoUseAfterFree
  <2> SUFFICES ASSUME IInv, TInv, NEW p \in Procs, NEW q \in Procs
               PROVE  /\ pc[p] = "body" => thr[p] \notin Elements(free_thr[q])
                      /\ Running(p) /\ thr[p] # NULL => parent[thr[p]] \notin Elements(free_thr[q])
                      /\ flag[p] # NULL => flag[p].tp \notin Elements(free_thr[q])
    BY DEF NoUseAfterFree
  <2>1. ASSUME pc[p] = "body" PROVE thr[p] \notin Elements(free_thr[q])
    <3>1. Held(p, thr[p])
      BY <2>1, NullApart DEF Held, Forking
    <3> QED BY <3>1, HeldNotFree
  <2>2. ASSUME Running(p), thr[p] # NULL PROVE parent[thr[p]] \notin Elements(free_thr[q])
    BY <2>2, ParentForked, ForkedApart, NullApart
  <2>3. ASSUME flag[p] # NULL PROVE flag[p].tp \notin Elements(free_thr[q])
    BY <2>3, FlagForked, ForkedApart
  <2> QED BY <2>1, <2>2, <2>3
<1> QED BY <1>1, TeamInvariance, PTL

\* ompc_do_parallel_main returns when nobody executes the region any more: the flags that
\* ompc_thread_barrier2(0, cthd) waits for are those of all members of the team.
THEOREM JoinsAll == Spec => []JoinComplete
<1>1. IInv /\ TInv => JoinComplete
  <2> SUFFICES ASSUME IInv, TInv, NEW p \in Procs, NEW q \in Procs, pc[p] = "body"
               PROVE  /\ Running(q) /\ thr[q] # NULL => parent[thr[q]] # thr[p]
                      /\ flag[q] # NULL => flag[q].tp # thr[p]
    BY DEF JoinComplete
  <2>1. ASSUME Running(q), thr[q] # NULL PROVE parent[thr[q]] # thr[p]
    BY <2>1, ParentForked, ForkedApart, NullApart
  <2>2. ASSUME flag[q] # NULL PROVE flag[q].tp # thr[p]
    BY <2>2, FlagForked, ForkedApart
  <2> QED BY <2>1, <2>2
<1> QED BY <1>1, TeamInvariance, PTL

\* The members of a team have different numbers below omp_get_num_threads(), the master 0.
THEOREM NumbersDiffer == Spec => []TeamNumbers
<1>1. IInv /\ TInv => TeamNumbers
  <2> SUFFICES ASSUME IInv, TInv, NEW p \in Procs, NEW q \in Procs, pc[p] = "body", pc[q] = "body",
                      p # q, parent[thr[p]] = parent[thr[q]]
               PROVE  num[thr[p]] # num[thr[q]] /\ num[thr[p]] < num_thds[parent[thr[p]]]
    BY DEF TeamNumbers
  <2>1. PICK c : c = parent[thr[p]]
    OBVIOUS
  <2>2. c = parent[thr[q]]
    BY <2>1
  <2>3. thr[p] # NULL /\ thr[q] # NULL
    BY NullApart
  <2>4. Leads(p) \/ (Works(p) /\ Base(p) = thr[p]) \/ (p = 0 /\ c = NULL)
    BY <2>1, <2>3, RegionIs, BaseIs
  <2>5. Leads(q) \/ (Works(q) /\ Base(q) = thr[q]) \/ (q = 0 /\ c = NULL)
    BY <2>2, <2>3, RegionIs, BaseIs
  <2>6. /\ Leads(p) => c = Cthd(p, 1) /\ c \in Structs /\ num[thr[p]] = 0 /\ 1 \in 1 .. Len(frames[p])
        /\ Leads(q) => c = Cthd(q, 1) /\ c \in Structs /\ num[thr[q]] = 0 /\ 1 \in 1 .. Len(frames[q])
    BY <2>1, <2>2 DEF Leads
  <2>7. /\ Works(p) /\ Base(p) = thr[p] => Valid(c, num[thr[p]]) /\ c \in Structs
        /\ Works(q) /\ Base(q) = thr[q] => Valid(c, num[thr[q]]) /\ c \in Structs
    BY <2>1, <2>2 DEF Works, Valid
  <2>8. c \in Structs /\ c # NULL
    BY <2>4, <2>5, <2>6, <2>7, NullAssumption
  <2>9. ASSUME NEW n, Valid(c, n) PROVE n # 0 /\ n < num_thds[c] /\ 0 < num_thds[c]
    <3>1. n \in 1 .. num_thds[c] - 1 /\ num_thds[c] \in 0 .. N
      BY <2>8, <2>9 DEF Valid, IInv, TypeInv
    <3> QED BY <3>1, NAssumption, SMTT(20)
  <2>10. CASE Leads(p) /\ Leads(q)
    <3>1. \A j \in 1 .. Len(frames[p]), k \in 1 .. Len(frames[q]) : Cthd(p, j) = Cthd(q, k) => p = q /\ j = k
      BY FrameOne
    <3> QED BY <2>6, <2>10, <3>1
  <2>11. CASE Leads(p) /\ Works(q) /\ Base(q) = thr[q]
    BY <2>1, <2>6, <2>7, <2>9, <2>11
  <2>12. CASE Works(p) /\ Base(p) = thr[p] /\ Leads(q)
    BY <2>1, <2>6, <2>7, <2>9, <2>12
  <2>13. CASE Works(p) /\ Base(p) = thr[p] /\ Works(q) /\ Base(q) = thr[q]
    <3>1. num[thr[p]] < num_thds[c]
      BY <2>7, <2>9, <2>13
    <3>2. /\ On(p, "job") /\ On(q, "job") /\ Team(p, "job") = Team(q, "job")
          /\ Nr(p, "job") = num[thr[p]] /\ Nr(q, "job") = num[thr[q]]
      BY <2>1, <2>2, <2>13 DEF Works
    <3>3. num[thr[p]] # num[thr[q]]
      BY <3>2 DEF TInv, UniqueInv, Roles
    <3> QED BY <2>1, <3>1, <3>3
  <2> QED BY <2>4, <2>5, <2>8, <2>10, <2>11, <2>12, <2>13
<1> QED BY <1>1, TeamInvariance, PTL
=============================================================================
