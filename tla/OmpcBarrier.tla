---------------------------- MODULE OmpcBarrier ----------------------------
(***************************************************************************)
(* One OpenMP team of libompc: the sense-reversing barrier that a team     *)
(* shares through the ompc_thread structure of its parent                  *)
(* (libompc/src/ompc_thread.c: ompc_do_parallel_main, ompc_slave_proc,     *)
(* ompc_thread_barrier, ompc_thread_barrier2).                             *)
(*                                                                         *)
(* Thread 0 is the master.  It forks a team of num_thds threads, every     *)
(* member of the team executes the same number of barriers (a conforming   *)
(* OpenMP program), then the team joins, and the master may fork again.    *)
(* Every read or write of a field that two threads share is a step.        *)
(***************************************************************************)
EXTENDS Integers

CONSTANTS
  N,            \* ompc_max_threads: the master and N-1 slave processors
  MaxBarriers,  \* bound: barriers that one parallel region executes
  InitSense     \* values malloc may leave in barrier_sense

ASSUME NAssumption == N \in Nat \ {0}
ASSUME MaxBarriersAssumption == MaxBarriers \in Nat
ASSUME InitSenseAssumption == InitSense \subseteq Int /\ InitSense # {}

VARIABLES
  barrier_sense,  \* tpp->barrier_sense
  barrier_flags,  \* tpp->barrier_flags[i]._v
  num_thds,       \* tpp->num_thds
  barriers,       \* barriers the program executes in the current region
  pc,             \* where each thread is
  sen0,           \* the local sen0 of each thread
  j,              \* the master's loop index
  passed          \* barriers of the region that each thread has left

vars == <<barrier_sense, barrier_flags, num_thds, barriers, pc, sen0, j, passed>>

Threads == 0 .. N-1
Slaves == 1 .. N-1
Team == 0 .. num_thds-1

\* v ^ 1 of the C code, on a two's complement integer.
Xor1(v) == IF v % 2 = 0 THEN v + 1 ELSE v - 1

\* barrier_sense is never initialised by the code: any value malloc leaves.
Init ==
  /\ barrier_sense \in InitSense
  /\ barrier_flags = [i \in Threads |-> 0]
  /\ num_thds = 1
  /\ barriers = 0
  /\ pc = [i \in Threads |-> IF i = 0 THEN "serial" ELSE "idle"]
  /\ sen0 = [i \in Threads |-> 0]
  /\ j = 0
  /\ passed = [i \in Threads |-> 0]

----------------------------------------------------------------------------
(* Fork: ompc_do_parallel_main up to the execution of the region.           *)

InitTeam(n, b, flags) ==
  /\ pc[0] = "serial"
  /\ num_thds' = n
  /\ barriers' = b
  /\ barrier_flags' = flags
  /\ passed' = [i \in Threads |-> 0]
  /\ j' = 1
  /\ pc' = [pc EXCEPT ![0] = "forking"]
  /\ UNCHANGED <<barrier_sense, sen0>>

\* Mutant: the flags of the previous region are left in place.
DoParallelStaleFlags(n, b) == InitTeam(n, b, barrier_flags)

\* The parent structure is initialised before any slave can see it.
DoParallel(n, b) ==
  InitTeam(n, b, [i \in Threads |-> IF i < n THEN barrier_sense ELSE barrier_flags[i]])

\* p->thr = tp: slave j leaves its wait loop and runs the region.
StartThread ==
  /\ pc[0] = "forking"
  /\ j < num_thds
  /\ pc[j] = "idle"
  /\ pc' = [pc EXCEPT ![j] = "body"]
  /\ j' = j + 1
  /\ UNCHANGED <<barrier_sense, barrier_flags, num_thds, barriers, sen0, passed>>

StartMaster ==
  /\ pc[0] = "forking"
  /\ j = num_thds
  /\ pc' = [pc EXCEPT ![0] = "body"]
  /\ UNCHANGED <<barrier_sense, barrier_flags, num_thds, barriers, sen0, j, passed>>

----------------------------------------------------------------------------
(* ompc_thread_barrier and ompc_thread_barrier2 begin alike: sen0 is the     *)
(* complement of the sense that the thread reads.                           *)

ReadSense(i, slave, master) ==
  /\ pc[i] = "body"
  /\ sen0' = [sen0 EXCEPT ![i] = Xor1(barrier_sense)]
  /\ pc' = [pc EXCEPT ![i] = IF i = 0 THEN master ELSE slave]
  /\ j' = IF i = 0 THEN 1 ELSE j
  /\ UNCHANGED <<barrier_sense, barrier_flags, num_thds, barriers, passed>>

BarrierEnter(i) == passed[i] < barriers /\ ReadSense(i, "arrive", "scan")

JoinEnter(i) == passed[i] = barriers /\ ReadSense(i, "jarrive", "jscan")

\* tpp->barrier_flags[id]._v = sen0
WriteFlag(i, from, to) ==
  /\ pc[i] = from
  /\ barrier_flags' = [barrier_flags EXCEPT ![i] = sen0[i]]
  /\ pc' = [pc EXCEPT ![i] = to]
  /\ UNCHANGED <<barrier_sense, num_thds, barriers, sen0, j, passed>>

BarrierArrive(i) == WriteFlag(i, "arrive", "wait")

\* After a join a slave goes back to its wait loop without waiting for the sense.
JoinArrive(i) == WriteFlag(i, "jarrive", "idle")

\* OMPC_WAIT(tpp->barrier_sense != sen0)
BarrierLeave(i) ==
  /\ pc[i] = "wait"
  /\ barrier_sense = sen0[i]
  /\ pc' = [pc EXCEPT ![i] = "body"]
  /\ passed' = [passed EXCEPT ![i] = @ + 1]
  /\ UNCHANGED <<barrier_sense, barrier_flags, num_thds, barriers, sen0, j>>

\* OMPC_WAIT(tpp->barrier_flags[j]._v != sen0), for j = 1 .. n-1
Scan(at) ==
  /\ pc[0] = at
  /\ j < num_thds
  /\ barrier_flags[j] = sen0[0]
  /\ j' = j + 1
  /\ UNCHANGED <<barrier_sense, barrier_flags, num_thds, barriers, pc, sen0, passed>>

BarrierScan == Scan("scan")

JoinScan == Scan("jscan")

\* tpp->barrier_sense = sen0, once the first n threads have been waited for.
Release(at, to, n, p) ==
  /\ pc[0] = at
  /\ j >= n
  /\ barrier_sense' = sen0[0]
  /\ passed' = p
  /\ pc' = [pc EXCEPT ![0] = to]
  /\ UNCHANGED <<barrier_flags, num_thds, barriers, sen0, j>>

\* Mutant: the loop over the flags ends one thread early.
BarrierReleaseEarly == Release("scan", "body", num_thds - 1, [passed EXCEPT ![0] = @ + 1])

BarrierRelease == Release("scan", "body", num_thds, [passed EXCEPT ![0] = @ + 1])

JoinRelease == Release("jscan", "serial", num_thds, passed)

----------------------------------------------------------------------------
Fork == \E n \in 1 .. N, b \in 0 .. MaxBarriers : DoParallel(n, b)

Master == StartThread \/ StartMaster \/ BarrierScan \/ BarrierRelease
            \/ JoinScan \/ JoinRelease \/ BarrierEnter(0) \/ JoinEnter(0)

Slave(i) == BarrierEnter(i) \/ BarrierArrive(i) \/ BarrierLeave(i)
              \/ JoinEnter(i) \/ JoinArrive(i)

Next == Fork \/ Master \/ \E i \in Slaves : Slave(i)

\* The operating system schedules every thread; a spinning thread yields
\* (OMPC_WAIT calls sched_yield), so no thread is stopped for ever.  Nothing
\* obliges the program to fork again.
Fairness == WF_vars(Master) /\ \A i \in Slaves : WF_vars(Slave(i))

Spec == Init /\ [][Next]_vars

FairSpec == Spec /\ Fairness

----------------------------------------------------------------------------
\* Types; passed and j keep within the barriers and the threads of the region.
TypeOK ==
  /\ barrier_sense \in Int
  /\ barrier_flags \in [Threads -> Int]
  /\ num_thds \in 1 .. N
  /\ barriers \in 0 .. MaxBarriers
  /\ pc \in [Threads -> {"serial", "forking", "idle", "body", "scan", "jscan",
                         "arrive", "wait", "jarrive"}]
  /\ sen0 \in [Threads -> Int]
  /\ j \in 0 .. N
  /\ passed \in [Threads -> 0 .. MaxBarriers]

\* No thread leaves a barrier (ompc_thread_barrier returns) before every
\* member of the team has published its arrival at that barrier.
BarrierSafety ==
  \A i, m \in Team : passed[i] > passed[m] => pc[m] = "wait" /\ passed[i] = passed[m] + 1

\* ompc_do_parallel_main returns to the serial part only when every slave of
\* the team has executed all barriers of the region and left it.
JoinSafety ==
  pc[0] = "serial" =>
    /\ \A i \in Slaves : pc[i] = "idle"
    /\ \A i \in Team : passed[i] = barriers

\* What each thread is doing, for a reader who does not see the flags.
At(i) ==
  CASE pc[i] = "serial" -> "serial"
    [] pc[i] \in {"scan", "wait"} -> "sync"
    [] pc[i] = "idle" -> IF pc[0] = "forking" /\ i \in j .. num_thds-1 THEN "called" ELSE "idle"
    [] OTHER -> "run"

Abs == INSTANCE OmpcTeam WITH size <- num_thds, rounds <- barriers,
                              at <- [i \in Threads |-> At(i)], round <- passed

\* The flags and the sense implement the team that OmpcTeam promises: each
\* step of the code is one of its steps or invisible to the program, and
\* OMPC_WAIT ends whenever the promise says so.
ImplementsTeam == Abs!FairSpec

\* The safety part of ImplementsTeam.
ImplementsTeamSteps == Abs!Spec
=============================================================================
