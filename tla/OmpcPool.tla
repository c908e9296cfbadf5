------------------------------ MODULE OmpcPool ------------------------------
(***************************************************************************)
(* The processor pool of libompc (libompc/src/ompc_thread.c): start-up,    *)
(* the wait loop of the slaves, and parallel regions that take processors  *)
(* from the pool, nested regions included.                                 *)
(*                                                                         *)
(* A processor is a pthread with its ompc_proc; a thread is an ompc_thread *)
(* structure, taken from the free list of a processor or from malloc.  The *)
(* barrier at the end of a region is the set of members that have raised   *)
(* their flag: OmpcBarrier models the flags themselves.                    *)
(***************************************************************************)
EXTENDS Integers, Sequences

CONSTANTS
  N,         \* ompc_max_threads
  Nested,    \* ompc_nested
  NULL,
  MaxDepth   \* bound: parallel regions that enclose one another

ASSUME NAssumption == N \in Nat \ {0}
ASSUME NestedAssumption == Nested \in BOOLEAN
ASSUME MaxDepthAssumption == MaxDepth \in Nat \ {0}

Procs == 0 .. N-1
\* The k-th structure that was allocated for processor p.
Structs == Procs \X (1 .. MaxDepth+1)

ASSUME NullAssumption == NULL \notin Procs \cup Structs

VARIABLES
  counter, created,  \* ompc_proc_counter; pthreads created, the master's included
  proc_lock,         \* holder of ompc_proc_lock_obj in ompc_new_proc
  proc_mutex,        \* holder of ompc_proc_mutex
  is_used, thr,      \* p->is_used, p->thr
  free_thr,          \* p->free_thr, the list from its head
  mallocs,           \* structures allocated for p
  last_used,         \* the static variable of ompc_get_proc
  parent, num, num_thds, in_parallel,  \* fields of the structures
  arrived,           \* numbers of the members whose barrier2 flag is raised
  pc,                \* where each processor is; "body" is the program
  frames,            \* of each processor: cthd and tp of the regions it is master of
  proclist, max_thds, i,  \* locals of ompc_do_parallel_main
  flag               \* locals i and tp of ompc_slave_proc: the flag to raise

pool == <<counter, created, proc_lock, is_used, last_used>>
heap == <<free_thr, mallocs, parent, num, num_thds, in_parallel>>
locals == <<frames, proclist, max_thds, i, flag>>
vars == <<pool, proc_mutex, thr, heap, arrived, pc, locals>>

Goto(p, l) == pc' = [pc EXCEPT ![p] = l]

\* ompc_init, once the master has its own ompc_proc.
Init ==
  /\ counter = 1 /\ created = 1
  /\ proc_lock = NULL /\ proc_mutex = NULL
  /\ is_used = [p \in Procs |-> p = 0]
  /\ thr = [p \in Procs |-> NULL]
  /\ free_thr = [p \in Procs |-> <<>>]
  /\ mallocs = [p \in Procs |-> 0]
  /\ last_used = 0
  /\ parent = [s \in Structs |-> NULL]
  /\ num = [s \in Structs |-> 0]
  /\ num_thds = [s \in Structs |-> 0]
  /\ in_parallel = [s \in Structs |-> 0]
  /\ arrived = [s \in Structs |-> {}]
  /\ pc = [p \in Procs |-> IF p = 0 THEN "create" ELSE "unborn"]
  /\ frames = [p \in Procs |-> <<>>]
  /\ proclist = [p \in Procs |-> <<>>]
  /\ max_thds = [p \in Procs |-> 1]
  /\ i = [p \in Procs |-> 1]
  /\ flag = [p \in Procs |-> NULL]

----------------------------------------------------------------------------
(* ompc_alloc_thread and ompc_free_thread.                                  *)

\* The structure that ompc_alloc_thread(p) returns.
AllocThread(p) == IF free_thr[p] # <<>> THEN Head(free_thr[p]) ELSE <<p, mallocs[p] + 1>>

\* The fields that the caller of ompc_alloc_thread sets, and the free list.
TakeThread(p, s, par, n, inp) ==
  /\ s = AllocThread(p)
  /\ free_thr' = [free_thr EXCEPT ![p] = IF @ # <<>> THEN Tail(@) ELSE @]
  /\ mallocs' = [mallocs EXCEPT ![p] = IF free_thr[p] # <<>> THEN @ ELSE @ + 1]
  /\ parent' = [parent EXCEPT ![s] = par]
  /\ num' = [num EXCEPT ![s] = n]
  /\ in_parallel' = [in_parallel EXCEPT ![s] = inp]
  /\ UNCHANGED num_thds

FreeThread(p, s) ==
  /\ free_thr' = [free_thr EXCEPT ![p] = <<s>> \o @]
  /\ UNCHANGED <<mallocs, parent, num, num_thds, in_parallel>>

----------------------------------------------------------------------------
(* Start-up: ompc_init and ompc_new_proc.                                   *)

CreateSlave ==
  /\ pc[0] = "create"
  /\ created < N
  /\ created' = created + 1
  /\ UNCHANGED <<counter, proc_lock, is_used, last_used, proc_mutex, thr, heap, arrived, pc, locals>>

CreateDone ==
  /\ pc[0] = "create"
  /\ created = N
  /\ Goto(0, "waitprocs")
  /\ UNCHANGED <<pool, proc_mutex, thr, heap, arrived, locals>>

Enter(p, holder) ==
  /\ pc[p] = "unborn"
  /\ p = counter /\ counter < created
  /\ proc_lock = NULL /\ proc_lock' = holder
  /\ counter' = counter + 1
  /\ Goto(p, "register")
  /\ UNCHANGED <<created, is_used, last_used, proc_mutex, thr, heap, arrived, locals>>

\* Mutant: ompc_new_proc does not hold ompc_proc_lock_obj.
NewProcUnlocked(p) == Enter(p, NULL)

\* The new pthread takes the next entry of ompc_procs.
NewProc(p) == Enter(p, p)

NewProcDone(p) ==
  /\ pc[p] = "register"
  /\ thr' = [thr EXCEPT ![p] = NULL]
  /\ proc_lock' = NULL
  /\ Goto(p, "spin")
  /\ UNCHANGED <<counter, created, is_used, last_used, proc_mutex, heap, arrived, locals>>

\* The counter may be N while the last slave still registers.
WaitProcs ==
  /\ pc[0] = "waitprocs"
  /\ counter = N
  /\ \E s \in Structs :
       /\ TakeThread(0, s, NULL, 0, 0)
       /\ thr' = [thr EXCEPT ![0] = s]
  /\ Goto(0, "body")
  /\ UNCHANGED <<pool, proc_mutex, arrived, locals>>

----------------------------------------------------------------------------
(* ompc_slave_proc.                                                         *)

\* The loop that spins on cproc->thr.
Spin(p) ==
  /\ pc[p] = "spin"
  /\ Goto(p, IF thr[p] # NULL THEN "body" ELSE "mutex")
  /\ UNCHANGED <<pool, proc_mutex, thr, heap, arrived, locals>>

WaitLock(p) ==
  /\ pc[p] = "mutex"
  /\ proc_mutex = NULL /\ proc_mutex' = p
  /\ Goto(p, "recheck")
  /\ UNCHANGED <<pool, thr, heap, arrived, locals>>

Look(p, work) ==
  /\ pc[p] = "recheck"
  /\ proc_mutex' = NULL
  /\ Goto(p, IF work THEN "spin" ELSE "asleep")
  /\ UNCHANGED <<pool, thr, heap, arrived, locals>>

\* Mutant: the processor goes to sleep without looking at cproc->thr again.
RecheckBlindly(p) == Look(p, FALSE)

\* while (cproc->thr == NULL) pthread_cond_wait(...), which frees the mutex.
Recheck(p) == Look(p, thr[p] # NULL)

\* POSIX lets pthread_cond_wait return for no reason.
SpuriousWake(p) ==
  /\ pc[p] = "asleep"
  /\ Goto(p, "mutex")
  /\ UNCHANGED <<pool, proc_mutex, thr, heap, arrived, locals>>

Leave(p, after) ==
  /\ pc[p] = "body" /\ p # 0 /\ frames[p] = <<>>
  /\ flag' = [flag EXCEPT ![p] = [me |-> thr[p], i |-> num[thr[p]], tp |-> parent[thr[p]]]]
  /\ thr' = [thr EXCEPT ![p] = after]
  /\ Goto(p, "freethr")
  /\ UNCHANGED <<pool, proc_mutex, heap, arrived, frames, proclist, max_thds, i>>

\* Mutant: cproc->thr is not cleared.
FinishKeepThr(p) == Leave(p, thr[p])

\* The region's function returns to the slave: me = cproc->thr, cproc->thr = NULL.
Finish(p) == Leave(p, NULL)

FreeMe(p) ==
  /\ pc[p] = "freethr"
  /\ FreeThread(p, flag[p].me)
  /\ Goto(p, "freeproc")
  /\ UNCHANGED <<pool, proc_mutex, thr, arrived, locals>>

\* Mutant: the processor is not given back.
FreeProcNever(p) == pc[p] = "freeproc" /\ Goto(p, "signal")
                    /\ UNCHANGED <<pool, proc_mutex, thr, heap, arrived, locals>>

\* ompc_free_proc
FreeProc(p) ==
  /\ pc[p] = "freeproc"
  /\ proc_lock = NULL
  /\ is_used' = [is_used EXCEPT ![p] = FALSE]
  /\ Goto(p, "signal")
  /\ UNCHANGED <<counter, created, proc_lock, last_used, proc_mutex, thr, heap, arrived, locals>>

\* ompc_thread_barrier2(i, tp): the last use that the slave makes of tp.
Signal(p) ==
  /\ pc[p] = "signal"
  /\ arrived' = [arrived EXCEPT ![flag[p].tp] = @ \cup {flag[p].i}]
  /\ flag' = [flag EXCEPT ![p] = NULL]
  /\ Goto(p, "spin")
  /\ UNCHANGED <<pool, proc_mutex, thr, heap, frames, proclist, max_thds, i>>

----------------------------------------------------------------------------
(* ompc_do_parallel_main.                                                   *)

Frame(p) == Head(frames[p])

Begin(p, n, inp) ==
  /\ pc[p] = "body"
  /\ Len(frames[p]) < MaxDepth
  /\ max_thds' = [max_thds EXCEPT ![p] = n]
  /\ frames' = [frames EXCEPT ![p] = <<[cthd |-> thr[p], tp |-> NULL, in_parallel |-> inp]>> \o @]
  /\ i' = [i EXCEPT ![p] = 1]
  /\ proclist' = [proclist EXCEPT ![p] = <<>>]
  /\ Goto(p, "getproc")
  /\ UNCHANGED <<pool, proc_mutex, thr, heap, arrived, flag>>

\* if(false), or a nested region while nesting is switched off.
Serialized(p, cond) == cond = 0 \/ (parent[thr[p]] # NULL /\ ~Nested)

\* Mutant: in_parallel is always inherited.
DoParallelInherit(p, cond, nthds) ==
  Begin(p, IF Serialized(p, cond) THEN 1 ELSE nthds, in_parallel[thr[p]])

\* nthds stands for the smaller of the num_threads clause and ompc_num_threads.
DoParallel(p, cond, nthds) ==
  Begin(p, IF Serialized(p, cond) THEN 1 ELSE nthds,
           IF cond = 0 THEN in_parallel[thr[p]] ELSE 1)

\* Processors in the order in which ompc_get_proc(hint) looks at them.
Probe(hint, k) == IF k = 0 THEN hint ELSE (last_used + k) % N

\* ompc_get_proc(n_thds) finds a processor.
GetProc(p) ==
  /\ pc[p] = "getproc"
  /\ i[p] < max_thds[p]
  /\ proc_lock = NULL
  /\ \E k \in 0 .. N :
       LET q == Probe(i[p], k) IN
       /\ ~is_used[q]
       /\ \A m \in 0 .. k-1 : is_used[Probe(i[p], m)]
       /\ is_used' = [is_used EXCEPT ![q] = TRUE]
       /\ last_used' = IF k = 0 THEN last_used ELSE q
       /\ proclist' = [proclist EXCEPT ![p] = <<q>> \o @]
  /\ i' = [i EXCEPT ![p] = @ + 1]
  /\ UNCHANGED <<counter, created, proc_lock, proc_mutex, thr, heap, arrived, pc, frames, max_thds, flag>>

\* The team is complete, or ompc_get_proc has returned NULL: the parent
\* structure is initialised for the n_thds = i members there are.
InitParent(p) ==
  /\ pc[p] = "getproc"
  /\ i[p] < max_thds[p] => proc_lock = NULL /\ \A q \in Procs : is_used[q]
  /\ num_thds' = [num_thds EXCEPT ![Frame(p).cthd] = i[p]]
  /\ arrived' = [arrived EXCEPT ![Frame(p).cthd] = {}]
  /\ i' = [i EXCEPT ![p] = 1]
  /\ Goto(p, "assign")
  /\ UNCHANGED <<pool, proc_mutex, thr, free_thr, mallocs, parent, num, in_parallel, frames, proclist, max_thds, flag>>

AssignAs(p, n) ==
  /\ pc[p] = "assign"
  /\ i[p] < num_thds[Frame(p).cthd]
  /\ LET q == Head(proclist[p])
         s == AllocThread(q)
     IN  /\ TakeThread(q, s, Frame(p).cthd, n, Frame(p).in_parallel)
         /\ thr' = [thr EXCEPT ![q] = s]
  /\ proclist' = [proclist EXCEPT ![p] = Tail(@)]
  /\ i' = [i EXCEPT ![p] = @ + 1]
  /\ UNCHANGED <<pool, proc_mutex, arrived, pc, frames, max_thds, flag>>

\* Mutant: the numbers of the slaves start at 0.
AssignFromZero(p) == AssignAs(p, i[p] - 1)

\* p->thr = tp starts the processor at the head of the list.
Assign(p) == AssignAs(p, i[p])

AssignDone(p) ==
  /\ pc[p] = "assign"
  /\ i[p] = num_thds[Frame(p).cthd]
  /\ Goto(p, IF num_thds[Frame(p).cthd] > 1 THEN "bcast" ELSE "alloc")
  /\ UNCHANGED <<pool, proc_mutex, thr, heap, arrived, locals>>

\* pthread_cond_broadcast, under ompc_proc_mutex.
Broadcast(p) ==
  /\ pc[p] = "bcast"
  /\ proc_mutex = NULL
  /\ pc' = [q \in Procs |-> IF q = p THEN "alloc" ELSE IF pc[q] = "asleep" THEN "mutex" ELSE pc[q]]
  /\ UNCHANGED <<pool, proc_mutex, thr, heap, arrived, locals>>

\* The master's own thread structure, in which it executes the region.
AllocMaster(p) ==
  /\ pc[p] = "alloc"
  /\ LET s == AllocThread(p)
     IN  /\ TakeThread(p, s, Frame(p).cthd, 0, Frame(p).in_parallel)
         /\ thr' = [thr EXCEPT ![p] = s]
         /\ frames' = [frames EXCEPT ![p] = <<[Frame(p) EXCEPT !.tp = s]>> \o Tail(@)]
  /\ Goto(p, "body")
  /\ UNCHANGED <<pool, proc_mutex, arrived, proclist, max_thds, i, flag>>

\* The region's function returns to the master.
Return(p) ==
  /\ pc[p] = "body" /\ frames[p] # <<>>
  /\ FreeThread(p, Frame(p).tp)
  /\ Goto(p, "join")
  /\ UNCHANGED <<pool, proc_mutex, thr, arrived, locals>>

JoinAfter(p, members) ==
  /\ pc[p] = "join"
  /\ members \subseteq arrived[Frame(p).cthd]
  /\ thr' = [thr EXCEPT ![p] = Frame(p).cthd]
  /\ frames' = [frames EXCEPT ![p] = Tail(@)]
  /\ Goto(p, "body")
  /\ UNCHANGED <<pool, proc_mutex, heap, arrived, proclist, max_thds, i, flag>>

\* Mutant: the loop over the flags ends one thread early.
JoinEarly(p) == JoinAfter(p, 1 .. num_thds[Frame(p).cthd]-2)

\* ompc_thread_barrier2(0, cthd), then cproc->thr = cthd.
Join(p) == JoinAfter(p, 1 .. num_thds[Frame(p).cthd]-1)

----------------------------------------------------------------------------
Startup == CreateSlave \/ CreateDone \/ WaitProcs

\* The steps that the runtime takes for processor p.
Runtime(p) ==
  \/ NewProc(p) \/ NewProcDone(p) \/ Spin(p) \/ WaitLock(p) \/ Recheck(p)
  \/ FreeMe(p) \/ FreeProc(p) \/ Signal(p)
  \/ GetProc(p) \/ InitParent(p) \/ Assign(p) \/ AssignDone(p)
  \/ Broadcast(p) \/ AllocMaster(p) \/ Join(p)

Next ==
  \/ Startup
  \/ \E p \in Procs :
       \/ Runtime(p) \/ SpuriousWake(p) \/ Finish(p) \/ Return(p)
       \/ \E cond \in {0, 1}, nthds \in 1 .. N : DoParallel(p, cond, nthds)

Spec == Init /\ [][Next]_vars

\* Every pthread is scheduled, a free mutex is eventually acquired, and the
\* function of a region, at any depth, returns however often it forks
\* regions of its own.
FairSpec ==
  /\ Spec
  /\ WF_vars(Startup)
  /\ \A p \in Procs :
       /\ WF_vars(Runtime(p))
       /\ SF_vars(WaitLock(p) \/ Broadcast(p))
       /\ SF_vars(Finish(p))
       /\ \A d \in 1 .. MaxDepth : SF_vars(Len(frames[p]) = d /\ Return(p))

----------------------------------------------------------------------------
Running(p) == pc[p] \in {"body", "getproc", "assign", "bcast", "alloc", "join"}

Elements(l) == {l[k] : k \in DOMAIN l}

\* Types; thread entries are allocated only when the free list of a processor is empty,
\* so their number is bounded by the depth of nesting.
TypeOK ==
  /\ counter \in 1 .. N /\ created \in 1 .. N /\ last_used \in Procs
  /\ proc_lock \in Procs \cup {NULL} /\ proc_mutex \in Procs \cup {NULL}
  /\ is_used \in [Procs -> BOOLEAN]
  /\ thr \in [Procs -> Structs \cup {NULL}]
  /\ \A p \in Procs : Elements(free_thr[p]) \subseteq {p} \X (1 .. mallocs[p])
  /\ mallocs \in [Procs -> 0 .. MaxDepth+1]
  /\ parent \in [Structs -> Structs \cup {NULL}]
  /\ num \in [Structs -> Procs] /\ num_thds \in [Structs -> 0 .. N]
  /\ in_parallel \in [Structs -> {0, 1}]
  /\ arrived \in [Structs -> SUBSET Procs]
  /\ \A p \in Procs : Elements(proclist[p]) \subseteq Procs

\* A processor is started once per use: at "p->thr = tp" it is registered,
\* marked as used, in no other master's list, and has no thread.
StartedOnce ==
  \A p, q \in Procs : q \in Elements(proclist[p]) =>
    /\ thr[q] = NULL /\ is_used[q]
    /\ pc[q] \in {"spin", "mutex", "recheck", "asleep", "signal"}
    /\ \A r \in Procs \ {p} : q \notin Elements(proclist[r])

\* No thread structure in use is on a free list: not the one in which a
\* processor executes a region, nor the parent whose flags and counters its
\* team shares, up to the slave's last access in ompc_thread_barrier2.
NoUseAfterFree ==
  \A p, q \in Procs :
    /\ pc[p] = "body" => thr[p] \notin Elements(free_thr[q])
    /\ Running(p) /\ thr[p] # NULL => parent[thr[p]] \notin Elements(free_thr[q])
    /\ flag[p] # NULL => flag[p].tp \notin Elements(free_thr[q])

\* ompc_do_parallel_main returns when nobody executes the region any more:
\* a thread is back in the program only if no member of its team is left.
JoinComplete ==
  \A p, q \in Procs : pc[p] = "body" =>
    /\ Running(q) /\ thr[q] # NULL => parent[thr[q]] # thr[p]
    /\ flag[q] # NULL => flag[q].tp # thr[p]

\* omp_get_thread_num() tells the members of a team apart.
TeamNumbers ==
  \A p, q \in Procs :
    pc[p] = "body" /\ pc[q] = "body" /\ p # q /\ parent[thr[p]] = parent[thr[q]] =>
      /\ num[thr[p]] # num[thr[q]]
      /\ num[thr[p]] < num_thds[parent[thr[p]]]

\* A processor that sleeps in pthread_cond_wait although it has a thread is
\* about to be woken: its master has still to broadcast.
NoLostWakeup ==
  \A q \in Procs : pc[q] = "asleep" /\ thr[q] # NULL =>
    \E p \in Procs : pc[p] \in {"assign", "bcast"} /\ Frame(p).cthd = parent[thr[q]]

\* Between two parallel regions of the serial program all slave processors
\* are back in the pool, and every thread structure but the root is free.
PoolRestored ==
  pc[0] = "body" /\ frames[0] = <<>> =>
    \A p \in Procs :
      /\ is_used[p] = (p = 0)
      /\ Len(free_thr[p]) = mallocs[p] - (IF p = 0 THEN 1 ELSE 0)

\* omp_in_parallel() returns 0 only to a thread that executes alone.
SerialMeansAlone ==
  \A p, q \in Procs :
    pc[p] = "body" /\ in_parallel[thr[p]] = 0 /\ q # p => ~Running(q)

\* A parallel region that the serial program starts comes to its end.
RegionEnds == (pc[0] = "getproc") ~> (pc[0] = "body" /\ frames[0] = <<>>)
=============================================================================
