--------------------------- MODULE OmpcWorkshare ---------------------------
(***************************************************************************)
(* The work-sharing constructs that a team of libompc executes between its *)
(* fork and its join (libompc/src/ompc_runtime.c): single, sections, and   *)
(* loops with a static, dynamic or guided schedule, with or without the    *)
(* ordered and the nowait clause, and reductions.  Single, ordered and     *)
(* dynamic loops share the fields in_flags, in_count and out_count of the  *)
(* parent thread: what one construct leaves behind is what the next one    *)
(* starts from.                                                            *)
(*                                                                         *)
(* Every thread executes the same program, a sequence of constructs, in    *)
(* the order of calls that OMPtransPragma.transFor, transSections and      *)
(* transSingle emit.  A section locked by OMPC_THREAD_LOCK is one step;    *)
(* OMPC_WAIT on in_flags[id] is the guard of the section that follows it,  *)
(* because only thread id itself ever raises that flag.                    *)
(***************************************************************************)
EXTENDS Integers, FiniteSets, Sequences, FiniteSetsExt

CONSTANTS
  N,        \* the largest team
  Programs, \* the programs a parallel region may execute
  Word,     \* 2^w, for the w bits of a pointer
  Stale     \* values that malloc or an earlier region may leave in a field

ASSUME NAssumption == N \in Nat \ {0}
ASSUME WordAssumption == Word \in Nat \ {0}
ASSUME StaleAssumption == Stale \subseteq Int /\ Stale # {}

Threads == 0 .. N-1

(* A construct.  Sections are the iterations lb .. up-1 of step 1.          *)
Constructs ==
  [kind : {"single", "barrier", "reduction", "sections", "static", "dynamic",
           "guided"},
   lb : Int, up : Int, step : {-1, 1}, chunk : Nat \ {0},
   ordered : BOOLEAN, nowait : BOOLEAN]

ASSUME ProgramsAssumption == \A p \in Programs : \A k \in DOMAIN p : p[k] \in Constructs

VARIABLES
  num_thds,         \* tpp->num_thds
  program,          \* the constructs of the region
  in_flags,         \* tpp->in_flags[id]._v
  in_count,         \* tpp->in_count
  out_count,        \* tpp->out_count
  dynamic_index,    \* tpp->dynamic_index
  ordered_id,       \* tpp->ordered_id
  ordered_step,     \* tpp->ordered_step
  r_v,              \* tpp->barrier_flags[id].r_v: whose value, for which construct
  pos,              \* the construct each thread executes
  pc,               \* where in it
  loop_sched_index, \* tp->loop_sched_index, and tp->section_id
  b, e,             \* the bounds of the chunk the thread has taken
  is_last,          \* tp->is_last
  won,              \* history: threads that executed each single
  ran,              \* history: how often each iteration has been executed
  lasts,            \* history: threads that saw ompc_is_last() in each construct
  result            \* history: the values each reduction has combined

gate == <<in_flags, in_count, out_count>>
turn == <<ordered_id, ordered_step>>
shared == <<gate, dynamic_index, turn, r_v>>
local == <<loop_sched_index, b, e, is_last>>
history == <<won, ran, lasts, result>>
region == <<num_thds, program>>
vars == <<region, shared, pos, pc, local, history>>

Team == 0 .. num_thds-1
C(t) == program[pos[t]]
IsDynamic(c) == c.kind \in {"dynamic", "guided"}
IsLoop(c) == IsDynamic(c) \/ c.kind = "static"

\* The loop variable of the program has passed the end: signed integers.
Past(x, end, step) == IF step > 0 THEN x >= end ELSE x <= end

\* The same test in the scheduler, where indvar_t is void*: unsigned words.
PastPtr(x, end, step) == Past(x % Word, end % Word, step)

\* The iterations of `for (i = lb; i < up; i += step)`, or > when step < 0.
Iterations(lb, up, step) ==
  {i \in (lb .. up) \cup (up .. lb) : ~Past(i, up, step)
                                      /\ (IF step > 0 THEN i >= lb ELSE i <= lb)}

History(p) ==
  /\ won' = [k \in DOMAIN p |-> {}]
  /\ ran' = [k \in DOMAIN p |-> [i \in Iterations(p[k].lb, p[k].up, p[k].step) |-> 0]]
  /\ lasts' = [k \in DOMAIN p |-> {}]
  /\ result' = [k \in DOMAIN p |-> {}]

\* Before the region.  ompc_alloc_thread takes the parent of the team from malloc
\* or from a free list and clears nothing.
Init ==
  /\ num_thds = 1
  /\ program = <<>>
  /\ in_flags \in [Threads -> Stale]
  /\ in_count \in Stale /\ out_count \in Stale
  /\ dynamic_index \in Stale /\ ordered_id \in Stale /\ ordered_step \in Stale
  /\ pos = [t \in Threads |-> 1]
  /\ pc = [t \in Threads |-> "start"]
  /\ loop_sched_index = [t \in Threads |-> 0]
  /\ b = [t \in Threads |-> 0]
  /\ e = [t \in Threads |-> 0]
  /\ is_last = [t \in Threads |-> 0]
  /\ r_v = [t \in Threads |-> <<>>]
  /\ won = <<>> /\ ran = <<>> /\ lasts = <<>> /\ result = <<>>

\* The thread has executed the whole region and waits in the join barrier.
AtEnd(t) == pos[t] = Len(program) + 1

Running(t, where) == t \in Team /\ ~AtEnd(t) /\ pc[t] = where

Goto(t, where) == pc' = [pc EXCEPT ![t] = where]

----------------------------------------------------------------------------
(* The region: ompc_do_parallel_main prepares the parent of the team.       *)

DoParallel(n, p) ==
  /\ num_thds' = n
  /\ program' = p
  /\ in_flags' = [t \in Threads |-> IF t < n THEN 0 ELSE in_flags[t]]
  /\ in_count' = 0
  /\ out_count' = 0
  /\ pos' = [t \in Threads |-> 1]
  /\ pc' = [t \in Threads |-> "start"]
  /\ UNCHANGED <<dynamic_index, turn, r_v, local>>
  /\ History(p)

----------------------------------------------------------------------------
(* single                                                                   *)

\* The gate of single and init_ordered, entered with in_flags[id] = 0: the last
\* thread of the team to pass it lowers the flags of all.
Gate(t, flags) ==
  IF out_count + 1 = num_thds
    THEN in_flags' = flags /\ out_count' = 0
    ELSE in_flags' = [in_flags EXCEPT ![t] = 1] /\ out_count' = out_count + 1

Lowered == [t \in Threads |-> IF t \in Team THEN 0 ELSE in_flags[t]]

SingleBy(t, flags) ==
  /\ Running(t, "start")
  /\ C(t).kind = "single"
  /\ num_thds > 1 => in_flags[t] = 0
  /\ IF num_thds = 1 THEN UNCHANGED <<in_flags, out_count>> ELSE Gate(t, flags)
  /\ won' = [won EXCEPT ![pos[t]] = IF num_thds = 1 \/ out_count = 0 THEN @ \cup {t} ELSE @]
  /\ Goto(t, "after")
  /\ UNCHANGED <<region, in_count, dynamic_index, turn, r_v, pos, local,
                 ran, lasts, result>>

\* Mutant: the last visitor forgets to lower the flags.
DoSingleKeepFlags(t) == SingleBy(t, in_flags)

DoSingle(t) == SingleBy(t, Lowered)

----------------------------------------------------------------------------
(* sections: section_id goes round the team                                 *)

SectionInit(t) ==
  /\ Running(t, "start")
  /\ C(t).kind = "sections"
  /\ loop_sched_index' = [loop_sched_index EXCEPT ![t] = t]
  /\ is_last' = [is_last EXCEPT ![t] = 0]
  /\ Goto(t, "next")
  /\ UNCHANGED <<region, shared, pos, b, e, history>>

SectionId(t) ==
  /\ Running(t, "next")
  /\ C(t).kind = "sections"
  /\ LET id == loop_sched_index[t] IN
     /\ loop_sched_index' = [loop_sched_index EXCEPT ![t] = id + num_thds]
     /\ is_last' = [is_last EXCEPT ![t] = IF id = C(t).up - 1 THEN 1 ELSE @]
     /\ b' = [b EXCEPT ![t] = id]
     /\ e' = [e EXCEPT ![t] = id + 1]
     /\ Goto(t, IF id < C(t).up THEN "body" ELSE "after")
  /\ UNCHANGED <<region, shared, pos, history>>

----------------------------------------------------------------------------
(* Loops: init_ordered when the clause is there, then the init of the       *)
(* schedule, then its next until it returns FALSE.                          *)

\* The init of the schedule follows init_ordered if the loop has the clause.
AtInit(t) ==
  /\ t \in Team /\ ~AtEnd(t)
  /\ IsLoop(C(t))
  /\ pc[t] = IF C(t).ordered THEN "init" ELSE "start"

InitOrderedAs(t, first) ==
  /\ Running(t, "start")
  /\ IsLoop(C(t)) /\ C(t).ordered
  /\ num_thds > 1 => in_flags[t] = 0
  /\ IF num_thds = 1
       THEN UNCHANGED <<in_flags, out_count, turn>>
       ELSE /\ Gate(t, Lowered)
            /\ ordered_id' = IF first THEN C(t).lb ELSE ordered_id
            /\ ordered_step' = IF first THEN C(t).step ELSE ordered_step
  /\ Goto(t, "init")
  /\ UNCHANGED <<region, in_count, dynamic_index, r_v, pos, local, history>>

\* Mutant: every visitor sets the turn.
InitOrderedAlways(t) == InitOrderedAs(t, TRUE)

InitOrdered(t) == InitOrderedAs(t, out_count = 0)

\* Alone, the thread keeps the whole range.
InitAlone(t) ==
  /\ AtInit(t)
  /\ num_thds = 1
  /\ loop_sched_index' = [loop_sched_index EXCEPT ![t] = C(t).lb]
  /\ Goto(t, "next")
  /\ UNCHANGED <<region, shared, pos, b, e, is_last, history>>

NextAlone(t) ==
  /\ Running(t, "next")
  /\ num_thds = 1 /\ IsLoop(C(t))
  /\ IF loop_sched_index[t] = C(t).up
       THEN Goto(t, "after") /\ UNCHANGED <<loop_sched_index, b, e>>
       ELSE /\ b' = [b EXCEPT ![t] = loop_sched_index[t]]
            /\ e' = [e EXCEPT ![t] = C(t).up]
            /\ loop_sched_index' = [loop_sched_index EXCEPT ![t] = C(t).up]
            /\ Goto(t, "body")
  /\ UNCHANGED <<region, shared, pos, is_last, history>>

StaticStart(t, last) ==
  /\ AtInit(t)
  /\ num_thds > 1 /\ C(t).kind = "static"
  /\ loop_sched_index' =
       [loop_sched_index EXCEPT ![t] = C(t).lb + C(t).chunk * C(t).step * t]
  /\ is_last' = [is_last EXCEPT ![t] = last]
  /\ Goto(t, "next")
  /\ UNCHANGED <<region, shared, pos, b, e, history>>

\* Mutant: is_last keeps the value of the construct before.
StaticInitKeepLast(t) == StaticStart(t, is_last[t])

StaticInit(t) == StaticStart(t, 0)

\* What both schedules do with a chunk [bb, ee): cut it at the end of the loop.
Adjust(t, bb, ee) ==
  LET c == C(t) IN
  IF PastPtr(bb, c.up, c.step)
    THEN Goto(t, "after") /\ UNCHANGED <<b, e, is_last>>
    ELSE /\ b' = [b EXCEPT ![t] = bb]
         /\ e' = [e EXCEPT ![t] = IF PastPtr(ee, c.up, c.step) THEN c.up ELSE ee]
         /\ is_last' = [is_last EXCEPT ![t] = IF PastPtr(ee, c.up, c.step) THEN 1 ELSE @]
         /\ Goto(t, "body")

StaticNext(t) ==
  /\ Running(t, "next")
  /\ num_thds > 1 /\ C(t).kind = "static"
  /\ LET size == C(t).chunk * C(t).step
         bb == loop_sched_index[t]
     IN /\ loop_sched_index' = [loop_sched_index EXCEPT ![t] = bb + size * num_thds]
        /\ Adjust(t, bb, bb + size)
  /\ UNCHANGED <<region, shared, pos, history>>

DynamicInit(t) ==
  /\ AtInit(t)
  /\ num_thds > 1 /\ IsDynamic(C(t))
  /\ in_flags[t] = 0
  /\ dynamic_index' = IF in_count = 0 THEN C(t).lb ELSE dynamic_index
  /\ in_count' = in_count + 1
  /\ loop_sched_index' = [loop_sched_index EXCEPT ![t] = C(t).lb]
  /\ is_last' = [is_last EXCEPT ![t] = 0]
  /\ Goto(t, "flag")
  /\ UNCHANGED <<region, in_flags, out_count, turn, r_v, pos, b, e, history>>

\* The flag is raised after the lock is released.
DynamicFlag(t) ==
  /\ Running(t, "flag")
  /\ in_flags' = [in_flags EXCEPT ![t] = 1]
  /\ Goto(t, "next")
  /\ UNCHANGED <<region, in_count, out_count, dynamic_index, turn, r_v, pos,
                 local, history>>

\* C's division truncates.
Quot(x, y) ==
  LET Abs(z) == IF z < 0 THEN -z ELSE z
      q == Abs(x) \div Abs(y)
  IN IF (x < 0) = (y < 0) THEN q ELSE -q

\* l, the size of the next chunk at index x.
ChunkAt(c, x) ==
  LET size == c.chunk * c.step
      l == (Quot(Quot(c.up - x, num_thds) + size, size)) * size
  IN IF c.kind = "dynamic" \/ Past(size, l, c.step) THEN size ELSE l

\* "get my chunk, set b and e"
Take(t, new) ==
  /\ Running(t, "next")
  /\ num_thds > 1 /\ IsDynamic(C(t))
  /\ b' = [b EXCEPT ![t] = dynamic_index]
  /\ e' = [e EXCEPT ![t] = dynamic_index + ChunkAt(C(t), dynamic_index)]
  /\ dynamic_index' = new
  /\ Goto(t, "taken")
  /\ UNCHANGED <<region, gate, turn, r_v, pos, loop_sched_index, is_last, history>>

\* Mutant: the guided size is computed but the index moves by one chunk.
DynamicTakeShort(t) == Take(t, dynamic_index + C(t).chunk * C(t).step)

DynamicTake(t) == Take(t, dynamic_index + ChunkAt(C(t), dynamic_index))

\* The rest of dynamic_sched_next: a thread counts itself out once, with the
\* chunk that reaches the end of the loop.
DynamicDecide(t) ==
  /\ Running(t, "taken")
  /\ LET c == C(t) IN
     IF PastPtr(loop_sched_index[t], c.up, c.step)
       THEN /\ Goto(t, "after")
            /\ UNCHANGED <<gate, local>>
       ELSE /\ IF ~PastPtr(e[t], c.up, c.step)
                 THEN UNCHANGED gate
                 ELSE IF out_count + 1 = num_thds
                 THEN out_count' = 0 /\ in_count' = 0 /\ in_flags' = Lowered
                 ELSE out_count' = out_count + 1 /\ UNCHANGED <<in_count, in_flags>>
            /\ loop_sched_index' = [loop_sched_index EXCEPT ![t] = e[t]]
            /\ Adjust(t, b[t], e[t])
  /\ UNCHANGED <<region, dynamic_index, turn, r_v, pos, history>>

----------------------------------------------------------------------------
(* The body of a chunk                                                      *)

Ran(t, iters) ==
  ran' = [ran EXCEPT ![pos[t]] = [i \in DOMAIN @ |-> IF i \in iters THEN @[i] + 1 ELSE @[i]]]

Body(t) ==
  /\ Running(t, "body")
  /\ ~C(t).ordered
  /\ Ran(t, Iterations(b[t], e[t], C(t).step))
  /\ Goto(t, "next")
  /\ UNCHANGED <<region, shared, pos, local, won, lasts, result>>

\* One iteration of an ordered loop: set_loop_id, then ordered_begin waits for
\* its turn.  b is the iteration (tp->loop_id).
Turn(t, mine) ==
  /\ Running(t, "body")
  /\ C(t).ordered
  /\ IF Past(b[t], e[t], C(t).step)
       THEN Goto(t, "next") /\ UNCHANGED ran
       ELSE /\ num_thds > 1 => mine
            /\ Ran(t, {b[t]})
            /\ Goto(t, "ordered")
  /\ UNCHANGED <<region, shared, pos, local, won, lasts, result>>

\* Mutant: the wait lets the next iteration through as well.
OrderedBeginEarly(t) == Turn(t, b[t] \in {ordered_id, ordered_id + C(t).step})

OrderedBegin(t) == Turn(t, b[t] = ordered_id)

\* ordered_end, executed by the thread whose turn it is: one step, since nobody
\* else writes ordered_id then except an init_ordered that overwrites it.
OrderedEnd(t) ==
  /\ Running(t, "ordered")
  /\ ordered_id' = IF num_thds = 1 THEN ordered_id ELSE ordered_id + ordered_step
  /\ b' = [b EXCEPT ![t] = @ + C(t).step]
  /\ Goto(t, "body")
  /\ UNCHANGED <<region, gate, dynamic_index, ordered_step, r_v, pos, loop_sched_index, e, is_last,
                 history>>

----------------------------------------------------------------------------
(* Reductions: every thread leaves its value in r_v, the master combines    *)
(* them between two barriers.                                               *)

ReductionStore(t) ==
  /\ Running(t, "start")
  /\ C(t).kind = "reduction"
  /\ r_v' = [r_v EXCEPT ![t] = <<pos[t], t>>]
  /\ Goto(t, "stored")
  /\ UNCHANGED <<region, gate, dynamic_index, turn, pos, local, history>>

\* The first ompc_thread_barrier.
ReductionBarrier ==
  /\ \A t \in Team : Running(t, "stored")
  /\ pc' = [t \in Threads |-> IF t \in Team THEN "combine" ELSE pc[t]]
  /\ UNCHANGED <<region, shared, pos, local, history>>

CombineThen(t, where) ==
  /\ Running(t, "combine")
  /\ result' = IF t = 0 THEN [result EXCEPT ![pos[t]] = {r_v[i] : i \in Team}] ELSE result
  /\ Goto(t, where)
  /\ UNCHANGED <<region, shared, pos, local, won, ran, lasts>>

\* Mutant: there is no second barrier.
ReductionCombineNoBarrier(t) == CombineThen(t, "after")

\* The second ompc_thread_barrier follows.
ReductionCombine(t) == CombineThen(t, "sync")

----------------------------------------------------------------------------
(* The end of a construct: lastprivate variables, then the implicit barrier *)

NextConstruct(t) == pos' = [pos EXCEPT ![t] = @ + 1] /\ Goto(t, "start")

\* ompc_is_last() of dataUpdateBlock, then the code after the construct.
After(t) ==
  /\ Running(t, "after")
  /\ lasts' = [lasts EXCEPT ![pos[t]] =
                 IF is_last[t] = 1 \/ num_thds = 1 THEN @ \cup {t} ELSE @]
  /\ IF C(t).nowait THEN NextConstruct(t) ELSE Goto(t, "sync") /\ UNCHANGED pos
  /\ UNCHANGED <<region, shared, local, won, ran, result>>

ExplicitBarrier(t) ==
  /\ Running(t, "start")
  /\ C(t).kind = "barrier"
  /\ Goto(t, "sync")
  /\ UNCHANGED <<region, shared, pos, local, history>>

\* ompc_barrier, by its specification OmpcTeam: all have arrived, all may go.
Barrier ==
  /\ \A t \in Team : Running(t, "sync")
  /\ pos' = [t \in Threads |-> IF t \in Team THEN pos[t] + 1 ELSE pos[t]]
  /\ pc' = [t \in Threads |-> "start"]
  /\ UNCHANGED <<region, shared, local, history>>

----------------------------------------------------------------------------
Step(t) ==
  \/ DoSingle(t) \/ SectionInit(t) \/ SectionId(t)
  \/ InitOrdered(t) \/ InitAlone(t) \/ NextAlone(t)
  \/ StaticInit(t) \/ StaticNext(t)
  \/ DynamicInit(t) \/ DynamicFlag(t) \/ DynamicTake(t) \/ DynamicDecide(t)
  \/ Body(t) \/ OrderedBegin(t) \/ OrderedEnd(t)
  \/ ReductionStore(t) \/ ReductionCombine(t)
  \/ After(t) \/ ExplicitBarrier(t)

\* The region is over.
Finished == program # <<>> /\ (\A t \in Team : AtEnd(t)) /\ UNCHANGED vars

Next ==
  \/ program = <<>> /\ \E n \in 1 .. N, p \in Programs : DoParallel(n, p)
  \/ \E t \in Threads : Step(t)
  \/ ReductionBarrier
  \/ Barrier
  \/ Finished

Spec == Init /\ [][Next]_vars

----------------------------------------------------------------------------
(* Properties                                                               *)

\* Types; in a team the flags are 0 or 1 and the counters of a construct stay below
\* what the last thread in and the last thread out reset them at.
TypeOK ==
  /\ num_thds \in 1 .. N
  /\ program \in Seq(Constructs)
  /\ in_flags \in [Threads -> Int]
  /\ in_count \in Int /\ out_count \in Int
  /\ program # <<>> =>
       /\ \A t \in Team : in_flags[t] \in {0, 1}
       /\ in_count \in 0 .. num_thds
       /\ out_count \in 0 .. num_thds - 1
  /\ dynamic_index \in Int /\ ordered_id \in Int /\ ordered_step \in Int
  /\ pos \in [Threads -> 1 .. Len(program) + 1]
  /\ pc \in [Threads -> {"start", "init", "flag", "next", "taken", "body",
                         "ordered", "stored", "combine", "after", "sync"}]
  /\ loop_sched_index \in [Threads -> Int]
  /\ b \in [Threads -> Int] /\ e \in [Threads -> Int]
  /\ is_last \in [Threads -> {0, 1}]

Done(k) == \A t \in Team : pos[t] > k

\* Every iteration of a loop, every section and every single region is executed
\* exactly once, whatever constructs precede it and however far the threads have
\* drifted apart under nowait: never twice, and no one is missing once all threads
\* have passed the construct (the *_sched_next functions, ompc_section_id,
\* ompc_do_single).
EachOnce ==
  \A k \in DOMAIN program :
    IF program[k].kind = "single"
    THEN /\ Cardinality(won[k]) <= 1
         /\ Done(k) => Cardinality(won[k]) = 1
    ELSE \A i \in DOMAIN ran[k] :
           /\ ran[k][i] <= 1
           /\ Done(k) => ran[k][i] = 1

\* ompc_is_last() is true in exactly one thread after a loop or sections that
\* has an iteration: lastprivate variables are written once.
OneLast ==
  \A k \in DOMAIN program : program[k].kind \notin {"single", "barrier"} =>
    /\ Cardinality(lasts[k]) <= 1
    /\ Done(k) /\ DOMAIN ran[k] # {} => Cardinality(lasts[k]) = 1

\* The ordered regions of a loop are executed one at a time, in the order of the
\* iterations: when a thread is inside, all earlier ones have been executed and
\* no later one has begun (ompc_ordered_begin, ompc_ordered_end).
InOrder ==
  \A t \in Team : Running(t, "ordered") =>
    \A i \in DOMAIN ran[pos[t]] :
      ran[pos[t]][i] = IF C(t).step * (i - b[t]) <= 0 THEN 1 ELSE 0

\* A reduction combines the value of every thread of the team, and each thread's
\* value for this construct, not one of an earlier or a later reduction that uses
\* the same r_v fields (ompc_reduction).
ReductionExact ==
  \A k \in DOMAIN program : program[k].kind = "reduction" /\ Done(k) =>
    result[k] = {<<k, t>> : t \in Team}

\* When the whole team stands between two constructs, the counters and flags that
\* the constructs share are as ompc_do_parallel_main left them.
CleanBetween ==
  (program # <<>> /\ \E k \in 1 .. Len(program) + 1 : \A t \in Team : pos[t] = k /\ pc[t] = "start")
    => in_count = 0 /\ out_count = 0 /\ \A t \in Team : in_flags[t] = 0

\* Some thread can go on until all have reached the end of the region: no construct
\* waits for a flag that nobody lowers or for a turn that has gone by.  No sequence of
\* steps of a region returns to an earlier state, so a region that is never stuck ends.
NeverStuck ==
  program # <<>> /\ (\E t \in Team : ~AtEnd(t)) =>
    \/ \E t \in Team : ENABLED Step(t)
    \/ ENABLED ReductionBarrier
    \/ ENABLED Barrier
============================================================================
