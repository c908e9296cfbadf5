----------------------------- MODULE OmpcSched -----------------------------
(***************************************************************************)
(* How libompc divides the iterations of a loop among the threads of a     *)
(* team when the division is computed, not negotiated                      *)
(* (libompc/src/ompc_runtime.c): the block schedule of ompc_default_sched  *)
(* and ompc_static_bsched, the cyclic schedule of ompc_static_csched, the  *)
(* chunks of ompc_static_sched_init and _next, and the static branch of    *)
(* schedule(runtime).  A C loop excludes its upper bound (UBOFS_C = 0), a  *)
(* Fortran loop includes it (UBOFS_F = 1).                                 *)
(*                                                                         *)
(* The schedules share nothing, so the threads of the team run in turn.    *)
(***************************************************************************)
EXTENDS CInt, FiniteSets, Sequences

CONSTANTS
  Loops,  \* the loops to schedule
  Word    \* 2^w, for the w bits of a pointer

Loop ==
  [kind : {"block", "cyclic", "chunk", "runtime"}, n : Nat \ {0},
   lb : Int, up : Int, step : Int \ {0}, ubofs : {0, 1}, chunk : Nat \ {0}]

ASSUME LoopsAssumption == \A l \in Loops : l \in Loop
ASSUME WordAssumption == Word \in Nat \ {0}

VARIABLES
  loop,   \* the loop and the size n of the team
  id,     \* the thread that runs, tp->num
  size,   \* tp->loop_chunk_size; 0 before the init of the schedule
  index,  \* tp->loop_sched_index
  ran,    \* history: the threads that executed each iteration, with repetition
  lasts   \* history: the threads whose is_last is 1

vars == <<loop, id, size, index, ran, lasts>>

\* The bits of a pointer, as an unsigned number.
U(x) == x % Word

\* The iterations of the loop that the compiler emits for lo, hi and s: i < hi in
\* C, i <= hi in Fortran, mirrored when s < 0.
Iterations(lo, hi, s, ubofs) ==
  LET end == hi + ubofs * Sign(s) IN
  {i \in {lo + k * s : k \in 0 .. Abs(end - lo)} : IF s > 0 THEN i < end ELSE i > end}

All == Iterations(loop.lb, loop.up, loop.step, loop.ubofs)

Threads == 0 .. loop.n - 1

\* What was executed of the loop l before the team starts on it.
NotRun(l) == [i \in Iterations(l.lb, l.up, l.step, l.ubofs) |-> <<>>]

Init ==
  /\ loop \in Loops
  /\ id = 0
  /\ size = 0
  /\ index = 0
  /\ ran = NotRun(loop)
  /\ lasts = {}

\* Thread id executes the loop that the bounds lo, hi and s describe.  What lies
\* outside the loop of the program is recorded too.
Execute(lo, hi, s) ==
  LET mine == Iterations(lo, hi, s, loop.ubofs) IN
  /\ ran' = [i \in DOMAIN ran \cup mine |->
               (IF i \in DOMAIN ran THEN ran[i] ELSE <<>>) \o
               (IF i \in mine THEN <<id>> ELSE <<>>)]

NextThread == id' = id + 1 /\ size' = 0 /\ index' = 0

Last(flag) == lasts' = IF flag THEN lasts \cup {id} ELSE lasts

----------------------------------------------------------------------------
(* ompc_static_bsched_tid *)

\* blk_s, for the distance d from the lower to the upper bound: a multiple of s.
BlockSize(d, s) ==
  LET blk == Quot(d + (loop.n - 1) * Sign(s), loop.n)
  IN Quot(blk + s - Sign(s), s) * s

BlockOf(blk_s) ==
  LET s == loop.step
      ee == loop.up + loop.ubofs * Sign(s)
      b == loop.lb + blk_s * id
      e == b + blk_s
      reached == IF s > 0 THEN e >= ee ELSE e <= ee
      nonempty == IF s > 0 THEN U(ee) > U(b) ELSE ee < b
  IN /\ loop.kind = "block" /\ id < loop.n
     /\ IF loop.n = 1
          THEN Execute(loop.lb, loop.up, s) /\ Last(TRUE)
          ELSE /\ Execute(b, (IF reached THEN ee ELSE e) - loop.ubofs * Sign(s), s)
               /\ Last(reached /\ nonempty)
     /\ NextThread
     /\ UNCHANGED loop

Distance == loop.up + loop.ubofs * Sign(loop.step) - loop.lb

\* Mutant: the size of a block is rounded down.
BlockShort == BlockOf(Quot(Distance, loop.n * loop.step) * loop.step)

Block == BlockOf(BlockSize(Distance, loop.step))

----------------------------------------------------------------------------
(* ompc_static_csched_tid *)

CyclicOf(n) ==
  /\ loop.kind = "cyclic" /\ id < loop.n
  /\ IF loop.n = 1
       THEN Execute(loop.lb, loop.up, loop.step) /\ Last(TRUE)
       ELSE /\ Execute(loop.lb + id * loop.step, loop.up, loop.step * loop.n)
            /\ Last(n > 0 /\ (n - 1) % loop.n = id)
  /\ NextThread
  /\ UNCHANGED loop

\* Mutant: the number of iterations is rounded down.
CyclicShort == CyclicOf(Quot(loop.up + loop.ubofs - loop.lb, loop.step))

Cyclic ==
  CyclicOf(Quot(loop.up + loop.ubofs - loop.lb + loop.step - Sign(loop.step), loop.step))

----------------------------------------------------------------------------
(* ompc_static_sched_init_tid, ompc_static_sched_next_tid *)

\* The chunk of schedule(runtime) without a chunk: _ompc_runtime_sched_init.
RuntimeChunk ==
  LET d == loop.up + loop.ubofs - loop.lb
      c == Quot(d, loop.step * loop.n) + (IF Rem(d, loop.step * loop.n) # 0 THEN 1 ELSE 0)
  IN IF c <= 0 THEN 1 ELSE c

ChunkStart(chunk) ==
  /\ loop.kind \in {"chunk", "runtime"} /\ id < loop.n /\ size = 0
  /\ size' = chunk * loop.step
  /\ index' = IF loop.n = 1 THEN loop.lb ELSE loop.lb + chunk * loop.step * id
  /\ UNCHANGED <<loop, id, ran, lasts>>

ChunkInit == ChunkStart(IF loop.kind = "chunk" THEN loop.chunk ELSE RuntimeChunk)

\* Alone: the whole loop once.
NextAlone ==
  /\ loop.n = 1 /\ id = 0 /\ size # 0
  /\ LET end == loop.up + loop.ubofs IN
     IF index = end
       THEN Last(TRUE) /\ NextThread /\ UNCHANGED ran
       ELSE Execute(index, end - loop.ubofs, loop.step) /\ index' = end
            /\ UNCHANGED <<id, size, lasts>>
  /\ UNCHANGED loop

ChunkNext ==
  /\ loop.n > 1 /\ id < loop.n /\ size # 0
  /\ LET end == loop.up + loop.ubofs
         Past(x) == IF size > 0 THEN U(x) >= U(end) ELSE U(x) <= U(end)
         e == index + size
     IN IF Past(index)
          THEN NextThread /\ UNCHANGED <<ran, lasts>>
          ELSE /\ Execute(index, (IF Past(e) THEN end ELSE e) - loop.ubofs, loop.step)
               /\ Last(Past(e))
               /\ index' = index + size * loop.n
               /\ UNCHANGED <<id, size>>
  /\ UNCHANGED loop

Finished == id = loop.n /\ UNCHANGED vars

Step == Block \/ Cyclic \/ ChunkInit \/ NextAlone \/ ChunkNext

Next == Step \/ Finished

Spec == Init /\ [][Next]_vars

----------------------------------------------------------------------------
\* Types; the iterations of the program are among those accounted for.
TypeOK ==
  /\ loop \in Loop
  /\ id \in 0 .. loop.n
  /\ size \in Int /\ index \in Int
  /\ All \subseteq DOMAIN ran
  /\ lasts \subseteq Threads

Over == id = loop.n

\* The threads' loops together are the loop of the program: each of its iterations
\* is executed by exactly one thread, and nothing else is.
EachOnce ==
  /\ DOMAIN ran = All
  /\ \A i \in All : Len(ran[i]) <= 1 /\ (Over => Len(ran[i]) = 1)

\* tp->is_last is set in the thread that executes the iteration that is the last
\* of the sequential loop, and in no other: that thread writes the lastprivate
\* variables.
LastOwner ==
  Over /\ All # {} =>
    \E t \in Threads :
      /\ lasts = {t}
      /\ \A i \in All : (\A k \in All : loop.step * (i - k) >= 0) => ran[i] = <<t>>
============================================================================
