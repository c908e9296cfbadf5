------------------------------ MODULE OmpcTeam ------------------------------
(***************************************************************************)
(* What libompc promises a compiled program about a parallel region: a     *)
(* team is called up, its members run together from barrier to barrier,    *)
(* and the region is over when all of them are done.  How the threads      *)
(* learn of each other's progress is left to OmpcBarrier, which implements *)
(* this specification.                                                     *)
(***************************************************************************)
EXTENDS Integers

CONSTANTS N, MaxBarriers

VARIABLES
  size,    \* members of the current team
  rounds,  \* barriers that the region executes
  at,      \* what each thread is doing
  round    \* barriers of the region that each thread has left

vars == <<size, rounds, at, round>>

Threads == 0 .. N-1
Slaves == 1 .. N-1
Team == 0 .. size-1

Init ==
  /\ size = 1
  /\ rounds = 0
  /\ at = [i \in Threads |-> IF i = 0 THEN "serial" ELSE "idle"]
  /\ round = [i \in Threads |-> 0]

Fork(n, b) ==
  /\ at[0] = "serial"
  /\ size' = n
  /\ rounds' = b
  /\ at' = [i \in Threads |-> IF i = 0 THEN "run" ELSE IF i < n THEN "called" ELSE at[i]]
  /\ round' = [i \in Threads |-> 0]

Move(i, from, to) == at[i] = from /\ at' = [at EXCEPT ![i] = to]

Start(i) == Move(i, "called", "run") /\ UNCHANGED <<size, rounds, round>>

Arrive(i) ==
  /\ round[i] < rounds
  /\ Move(i, "run", "sync")
  /\ UNCHANGED <<size, rounds, round>>

\* A thread departs only when all members have come to its barrier.
Depart(i) ==
  /\ \A m \in Team : round[m] > round[i] \/ (round[m] = round[i] /\ at[m] = "sync")
  /\ Move(i, "sync", "run")
  /\ round' = [round EXCEPT ![i] = @ + 1]
  /\ UNCHANGED <<size, rounds>>

Finish(i) ==
  /\ round[i] = rounds
  /\ Move(i, "run", "idle")
  /\ UNCHANGED <<size, rounds, round>>

\* The master leaves the region last.
Join ==
  /\ round[0] = rounds
  /\ \A i \in Slaves : at[i] = "idle"
  /\ Move(0, "run", "serial")
  /\ UNCHANGED <<size, rounds, round>>

Thread(i) == Arrive(i) \/ Depart(i) \/ (i # 0 /\ (Start(i) \/ Finish(i))) \/ (i = 0 /\ Join)

Next ==
  \/ \E n \in 1 .. N, b \in 0 .. MaxBarriers : Fork(n, b)
  \/ \E i \in Threads : Thread(i)

Spec == Init /\ [][Next]_vars

FairSpec == Spec /\ \A i \in Threads : WF_vars(Thread(i))
=============================================================================
