---------------------------- MODULE OmpcSync_proof ----------------------------
(***************************************************************************)
(* The synchronisation of libompc.  The barrier of OmpcBarrier is correct  *)
(* for every number of threads and of barriers, and it implements          *)
(* OmpcTeam.  For every set of threads, the nestable lock (OmpcNestLock)   *)
(* excludes all others, and its count is the depth of its owner; and the   *)
(* critical construct (OmpcCritical) creates one mutex, never touches it   *)
(* again, and excludes all others once no thread has met the mutex before  *)
(* its initialisation.                                                     *)
(***************************************************************************)
EXTENDS OmpcBarrier, TLAPS

\* The master and the slaves keep to the steps of their own functions.
Places ==
  /\ pc[0] \in {"serial", "forking", "body", "scan", "jscan"}
  /\ \A i \in Slaves : pc[i] \in {"idle", "body", "arrive", "wait", "jarrive"}
  /\ \A i \in Slaves : i >= num_thds => pc[i] = "idle"

\* What the master knows: the flags below j have reached sen0.
MasterInv ==
  /\ passed[0] <= barriers
  /\ pc[0] = "forking" => j >= 1 /\ j <= num_thds /\ passed[0] = 0
  /\ pc[0] \in {"scan", "jscan"} =>
       /\ j >= 1 /\ j <= num_thds
       /\ sen0[0] = Xor1(barrier_sense)
       /\ \A m \in Slaves : m < j => barrier_flags[m] = sen0[0]
  /\ pc[0] = "scan" => passed[0] < barriers
  /\ pc[0] \in {"jscan", "serial"} => passed[0] = barriers

\* A slave of the team that the master has not started yet.
NotStarted(i) == pc[0] = "forking" /\ i >= j

\* How the flag of a slave relates to the sense, and its barriers to the master's.
SlaveInv(i) ==
  /\ pc[i] \in {"body", "arrive", "jarrive"} =>
       passed[i] = passed[0] /\ barrier_flags[i] = barrier_sense
  /\ pc[i] \in {"arrive", "jarrive"} => sen0[i] = Xor1(barrier_sense)
  /\ pc[i] = "arrive" => passed[i] < barriers
  /\ pc[i] = "jarrive" => passed[i] = barriers
  /\ pc[i] = "wait" =>
       /\ barrier_flags[i] = sen0[i]
       /\ passed[i] < barriers
       /\ \/ passed[i] = passed[0] /\ sen0[i] = Xor1(barrier_sense)
          \/ passed[i] + 1 = passed[0] /\ sen0[i] = barrier_sense
  /\ pc[i] = "idle" => passed[i] = passed[0]
  /\ pc[i] = "idle" /\ NotStarted(i) => barrier_flags[i] = barrier_sense
  /\ pc[i] = "idle" /\ ~NotStarted(i) => passed[i] = barriers
  /\ pc[i] = "idle" /\ ~NotStarted(i) /\ pc[0] # "serial" =>
       barrier_flags[i] = Xor1(barrier_sense)
  /\ pc[0] = "serial" => pc[i] = "idle"
  /\ NotStarted(i) => pc[i] = "idle"

IInv ==
  /\ TypeOK
  /\ Places
  /\ MasterInv
  /\ \A i \in Slaves : i < num_thds => SlaveInv(i)

----------------------------------------------------------------------------
\* v ^ 1 always differs from v and undoes itself, so two senses alternate.
LEMMA Xor1Alternates ==
  \A v \in Int : Xor1(v) \in Int /\ Xor1(v) # v /\ Xor1(Xor1(v)) = v
BY DEF Xor1

\* The master and the slaves are threads, and only the numbers 1 .. N-1 are slaves.
LEMMA ThreadNumbers ==
  /\ 0 \in Threads /\ 0 \notin Slaves
  /\ \A i \in Slaves : i \in Threads /\ i \in Int /\ 1 <= i /\ i < N /\ i # 0
  /\ \A i \in Threads : i \in Slaves \/ i = 0
  /\ \A i \in Int : 1 <= i /\ i < N => i \in Slaves
BY NAssumption DEF Threads, Slaves

\* The inductive invariant holds before the first fork.
LEMMA InitIInv == Init => IInv
<1> SUFFICES ASSUME Init PROVE IInv
  OBVIOUS
<1> USE NAssumption, MaxBarriersAssumption, InitSenseAssumption
<1>1. TypeOK
  BY DEF Init, TypeOK, Threads
<1>2. Places
  BY ThreadNumbers DEF Init, Places
<1>3. MasterInv
  BY ThreadNumbers DEF Init, MasterInv
<1>4. \A i \in Slaves : i < num_thds => SlaveInv(i)
  BY ThreadNumbers DEF Init
<1> QED
  BY <1>1, <1>2, <1>3, <1>4 DEF IInv

\* A fork starts from a join, so it finds every slave idle and resets its flag.
LEMMA ForkIInv == \A n \in 1 .. N, b \in 0 .. MaxBarriers : IInv /\ DoParallel(n, b) => IInv'
<1> SUFFICES ASSUME IInv, NEW n \in 1 .. N, NEW b \in 0 .. MaxBarriers, DoParallel(n, b)
             PROVE  IInv'
  OBVIOUS
<1> USE NAssumption, MaxBarriersAssumption, ThreadNumbers
<1>0. \A k \in Slaves : pc[k] = "idle"
  BY Xor1Alternates DEF IInv, TypeOK, Places, SlaveInv, DoParallel, InitTeam
<1>1. TypeOK'
  BY <1>0, Xor1Alternates DEF IInv, TypeOK, SlaveInv, MasterInv, DoParallel, InitTeam
<1>2. Places'
  BY <1>0 DEF IInv, TypeOK, Places, DoParallel, InitTeam
<1>3. MasterInv'
  BY <1>0, Xor1Alternates DEF IInv, TypeOK, Places, MasterInv, SlaveInv, DoParallel, InitTeam
<1>4. ASSUME NEW k \in Slaves, k < num_thds' PROVE SlaveInv(k)'
  BY <1>0, <1>4, Xor1Alternates DEF IInv, TypeOK, Places, MasterInv, SlaveInv, NotStarted, DoParallel, InitTeam
<1> QED
  BY <1>1, <1>2, <1>3, <1>4 DEF IInv

\* Starting slave j leaves it in the region with a fresh flag.
LEMMA StartThreadIInv == IInv /\ StartThread => IInv'
<1> SUFFICES ASSUME IInv, StartThread
             PROVE  IInv'
  OBVIOUS
<1> USE NAssumption, MaxBarriersAssumption, ThreadNumbers
<1>0. j \in Slaves /\ SlaveInv(j) /\ NotStarted(j)
  BY Xor1Alternates DEF IInv, TypeOK, Places, MasterInv, NotStarted, StartThread
<1>1. TypeOK'
  BY <1>0, Xor1Alternates DEF IInv, TypeOK, SlaveInv, MasterInv, StartThread
<1>2. Places'
  BY <1>0 DEF IInv, TypeOK, Places, StartThread
<1>3. MasterInv'
  BY <1>0, Xor1Alternates DEF IInv, TypeOK, Places, MasterInv, SlaveInv, StartThread
<1>4. ASSUME NEW k \in Slaves, k < num_thds' PROVE SlaveInv(k)'
  BY <1>0, <1>4, Xor1Alternates DEF IInv, TypeOK, Places, MasterInv, SlaveInv, NotStarted, StartThread
<1> QED
  BY <1>1, <1>2, <1>3, <1>4 DEF IInv

\* The master enters the region when it has started every slave.
LEMMA StartMasterIInv == IInv /\ StartMaster => IInv'
<1> SUFFICES ASSUME IInv, StartMaster
             PROVE  IInv'
  OBVIOUS
<1> USE NAssumption, MaxBarriersAssumption, ThreadNumbers
<1>1. TypeOK'
  BY Xor1Alternates DEF IInv, TypeOK, StartMaster
<1>2. Places'
  BY DEF IInv, TypeOK, Places, StartMaster
<1>3. MasterInv'
  BY Xor1Alternates DEF IInv, TypeOK, Places, MasterInv, SlaveInv, StartMaster
<1>4. ASSUME NEW k \in Slaves, k < num_thds' PROVE SlaveInv(k)'
  BY <1>4, Xor1Alternates DEF IInv, TypeOK, Places, MasterInv, SlaveInv, NotStarted, StartMaster
<1> QED
  BY <1>1, <1>2, <1>3, <1>4 DEF IInv

\* A thread that enters a barrier reads the sense of that barrier.
LEMMA BarrierEnterIInv == \A i \in Threads : IInv /\ BarrierEnter(i) => IInv'
<1> SUFFICES ASSUME IInv, NEW i \in Threads, BarrierEnter(i)
             PROVE  IInv'
  OBVIOUS
<1> USE NAssumption, MaxBarriersAssumption, ThreadNumbers
<1>0. (i # 0 => i \in Slaves /\ i < num_thds /\ SlaveInv(i)) /\ pc[i] = "body"
  BY Xor1Alternates DEF IInv, TypeOK, Places, BarrierEnter, ReadSense
<1>1. TypeOK'
  BY <1>0, Xor1Alternates DEF IInv, TypeOK, SlaveInv, MasterInv, BarrierEnter, ReadSense
<1>2. Places'
  BY <1>0 DEF IInv, TypeOK, Places, BarrierEnter, ReadSense
<1>3. MasterInv'
  BY <1>0, Xor1Alternates DEF IInv, TypeOK, Places, MasterInv, SlaveInv, BarrierEnter, ReadSense
<1>4. ASSUME NEW k \in Slaves, k < num_thds' PROVE SlaveInv(k)'
  BY <1>0, <1>4, Xor1Alternates DEF IInv, TypeOK, Places, MasterInv, SlaveInv, NotStarted, BarrierEnter, ReadSense
<1> QED
  BY <1>1, <1>2, <1>3, <1>4 DEF IInv

\* A thread that enters the join reads the sense of the join.
LEMMA JoinEnterIInv == \A i \in Threads : IInv /\ JoinEnter(i) => IInv'
<1> SUFFICES ASSUME IInv, NEW i \in Threads, JoinEnter(i)
             PROVE  IInv'
  OBVIOUS
<1> USE NAssumption, MaxBarriersAssumption, ThreadNumbers
<1>0. (i # 0 => i \in Slaves /\ i < num_thds /\ SlaveInv(i)) /\ pc[i] = "body"
  BY Xor1Alternates DEF IInv, TypeOK, Places, JoinEnter, ReadSense
<1>1. TypeOK'
  BY <1>0, Xor1Alternates DEF IInv, TypeOK, SlaveInv, MasterInv, JoinEnter, ReadSense
<1>2. Places'
  BY <1>0 DEF IInv, TypeOK, Places, JoinEnter, ReadSense
<1>3. MasterInv'
  BY <1>0, Xor1Alternates DEF IInv, TypeOK, Places, MasterInv, SlaveInv, JoinEnter, ReadSense
<1>4. ASSUME NEW k \in Slaves, k < num_thds' PROVE SlaveInv(k)'
  BY <1>0, <1>4, Xor1Alternates DEF IInv, TypeOK, Places, MasterInv, SlaveInv, NotStarted, JoinEnter, ReadSense
<1> QED
  BY <1>1, <1>2, <1>3, <1>4 DEF IInv

\* A slave publishes its arrival at a barrier.
LEMMA BarrierArriveIInv == \A i \in Slaves : IInv /\ BarrierArrive(i) => IInv'
<1> SUFFICES ASSUME IInv, NEW i \in Slaves, BarrierArrive(i)
             PROVE  IInv'
  OBVIOUS
<1> USE NAssumption, MaxBarriersAssumption, ThreadNumbers
<1>0. pc[i] = "arrive" /\ i < num_thds /\ SlaveInv(i)
  BY Xor1Alternates DEF IInv, TypeOK, Places, BarrierArrive, WriteFlag
<1>1. TypeOK'
  BY <1>0, Xor1Alternates DEF IInv, TypeOK, SlaveInv, MasterInv, BarrierArrive, WriteFlag
<1>2. Places'
  BY <1>0 DEF IInv, TypeOK, Places, BarrierArrive, WriteFlag
<1>3. MasterInv'
  BY <1>0, Xor1Alternates DEF IInv, TypeOK, Places, MasterInv, SlaveInv, BarrierArrive, WriteFlag
<1>4. ASSUME NEW k \in Slaves, k < num_thds' PROVE SlaveInv(k)'
  BY <1>0, <1>4, Xor1Alternates DEF IInv, TypeOK, Places, MasterInv, SlaveInv, NotStarted, BarrierArrive, WriteFlag
<1> QED
  BY <1>1, <1>2, <1>3, <1>4 DEF IInv

\* A slave publishes that it has left the region.
LEMMA JoinArriveIInv == \A i \in Slaves : IInv /\ JoinArrive(i) => IInv'
<1> SUFFICES ASSUME IInv, NEW i \in Slaves, JoinArrive(i)
             PROVE  IInv'
  OBVIOUS
<1> USE NAssumption, MaxBarriersAssumption, ThreadNumbers
<1>0. pc[i] = "jarrive" /\ i < num_thds /\ SlaveInv(i)
  BY Xor1Alternates DEF IInv, TypeOK, Places, JoinArrive, WriteFlag
<1>1. TypeOK'
  BY <1>0, Xor1Alternates DEF IInv, TypeOK, SlaveInv, MasterInv, JoinArrive, WriteFlag
<1>2. Places'
  BY <1>0 DEF IInv, TypeOK, Places, JoinArrive, WriteFlag
<1>3. MasterInv'
  BY <1>0, Xor1Alternates DEF IInv, TypeOK, Places, MasterInv, SlaveInv, JoinArrive, WriteFlag
<1>4. ASSUME NEW k \in Slaves, k < num_thds' PROVE SlaveInv(k)'
  BY <1>0, <1>4, Xor1Alternates DEF IInv, TypeOK, Places, MasterInv, SlaveInv, NotStarted, JoinArrive, WriteFlag
<1> QED
  BY <1>1, <1>2, <1>3, <1>4 DEF IInv

\* A slave leaves a barrier that the master has released.
LEMMA BarrierLeaveIInv == \A i \in Slaves : IInv /\ BarrierLeave(i) => IInv'
<1> SUFFICES ASSUME IInv, NEW i \in Slaves, BarrierLeave(i)
             PROVE  IInv'
  OBVIOUS
<1> USE NAssumption, MaxBarriersAssumption, ThreadNumbers
<1>0. pc[i] = "wait" /\ i < num_thds /\ SlaveInv(i) /\ barrier_sense \in Int
  BY Xor1Alternates DEF IInv, TypeOK, Places, BarrierLeave
<1>1. TypeOK'
  BY <1>0, Xor1Alternates DEF IInv, TypeOK, SlaveInv, MasterInv, BarrierLeave
<1>2. Places'
  BY <1>0 DEF IInv, TypeOK, Places, BarrierLeave
<1>3. MasterInv'
  BY <1>0, Xor1Alternates DEF IInv, TypeOK, Places, MasterInv, SlaveInv, BarrierLeave
<1>4. ASSUME NEW k \in Slaves, k < num_thds' PROVE SlaveInv(k)'
  BY <1>0, <1>4, Xor1Alternates DEF IInv, TypeOK, Places, MasterInv, SlaveInv, NotStarted, BarrierLeave
<1> QED
  BY <1>1, <1>2, <1>3, <1>4 DEF IInv

\* The master finds a flag raised at a barrier.
LEMMA BarrierScanIInv == IInv /\ BarrierScan => IInv'
<1> SUFFICES ASSUME IInv, BarrierScan
             PROVE  IInv'
  OBVIOUS
<1> USE NAssumption, MaxBarriersAssumption, ThreadNumbers
<1>1. TypeOK'
  BY Xor1Alternates DEF IInv, TypeOK, BarrierScan, Scan
<1>2. Places'
  BY DEF IInv, TypeOK, Places, BarrierScan, Scan
<1>3. MasterInv'
  BY Xor1Alternates DEF IInv, TypeOK, Places, MasterInv, SlaveInv, BarrierScan, Scan
<1>4. ASSUME NEW k \in Slaves, k < num_thds' PROVE SlaveInv(k)'
  BY <1>4, Xor1Alternates DEF IInv, TypeOK, Places, MasterInv, SlaveInv, NotStarted, BarrierScan, Scan
<1> QED
  BY <1>1, <1>2, <1>3, <1>4 DEF IInv

\* The master finds a flag raised at the join.
LEMMA JoinScanIInv == IInv /\ JoinScan => IInv'
<1> SUFFICES ASSUME IInv, JoinScan
             PROVE  IInv'
  OBVIOUS
<1> USE NAssumption, MaxBarriersAssumption, ThreadNumbers
<1>1. TypeOK'
  BY Xor1Alternates DEF IInv, TypeOK, JoinScan, Scan
<1>2. Places'
  BY DEF IInv, TypeOK, Places, JoinScan, Scan
<1>3. MasterInv'
  BY Xor1Alternates DEF IInv, TypeOK, Places, MasterInv, SlaveInv, JoinScan, Scan
<1>4. ASSUME NEW k \in Slaves, k < num_thds' PROVE SlaveInv(k)'
  BY <1>4, Xor1Alternates DEF IInv, TypeOK, Places, MasterInv, SlaveInv, NotStarted, JoinScan, Scan
<1> QED
  BY <1>1, <1>2, <1>3, <1>4 DEF IInv

\* The master releases a barrier at which every slave waits.
LEMMA BarrierReleaseIInv == IInv /\ BarrierRelease => IInv'
<1> SUFFICES ASSUME IInv, BarrierRelease
             PROVE  IInv'
  OBVIOUS
<1> USE NAssumption, MaxBarriersAssumption, ThreadNumbers
<1>0. \A k \in Slaves : k < num_thds => pc[k] = "wait" /\ passed[k] = passed[0] /\ sen0[k] = sen0[0]
  BY Xor1Alternates DEF IInv, TypeOK, Places, MasterInv, SlaveInv, NotStarted, BarrierRelease, Release
<1>1. TypeOK'
  BY <1>0, Xor1Alternates DEF IInv, TypeOK, SlaveInv, MasterInv, BarrierRelease, Release
<1>2. Places'
  BY <1>0 DEF IInv, TypeOK, Places, BarrierRelease, Release
<1>3. MasterInv'
  BY <1>0, Xor1Alternates DEF IInv, TypeOK, Places, MasterInv, SlaveInv, BarrierRelease, Release
<1>4. ASSUME NEW k \in Slaves, k < num_thds' PROVE SlaveInv(k)'
  BY <1>0, <1>4, Xor1Alternates DEF IInv, TypeOK, Places, MasterInv, SlaveInv, NotStarted, BarrierRelease, Release
<1> QED
  BY <1>1, <1>2, <1>3, <1>4 DEF IInv

\* The master leaves a region that every slave has left.
LEMMA JoinReleaseIInv == IInv /\ JoinRelease => IInv'
<1> SUFFICES ASSUME IInv, JoinRelease
             PROVE  IInv'
  OBVIOUS
<1> USE NAssumption, MaxBarriersAssumption, ThreadNumbers
<1>0. \A k \in Slaves : pc[k] = "idle"
  BY Xor1Alternates DEF IInv, TypeOK, Places, MasterInv, SlaveInv, NotStarted, JoinRelease, Release
<1>1. TypeOK'
  BY <1>0, Xor1Alternates DEF IInv, TypeOK, SlaveInv, MasterInv, JoinRelease, Release
<1>2. Places'
  BY <1>0 DEF IInv, TypeOK, Places, JoinRelease, Release
<1>3. MasterInv'
  BY <1>0, Xor1Alternates DEF IInv, TypeOK, Places, MasterInv, SlaveInv, JoinRelease, Release
<1>4. ASSUME NEW k \in Slaves, k < num_thds' PROVE SlaveInv(k)'
  BY <1>0, <1>4, Xor1Alternates DEF IInv, TypeOK, Places, MasterInv, SlaveInv, NotStarted, JoinRelease, Release
<1> QED
  BY <1>1, <1>2, <1>3, <1>4 DEF IInv

\* Every step of the code, and every step that changes nothing, preserves IInv.
LEMMA NextIInv == IInv /\ [Next]_vars => IInv'
<1> SUFFICES ASSUME IInv, [Next]_vars PROVE IInv'
  OBVIOUS
<1>1. CASE Fork
  BY <1>1, ForkIInv DEF Fork
<1>2. CASE Master
  BY <1>2, ThreadNumbers, StartThreadIInv, StartMasterIInv, BarrierScanIInv, BarrierReleaseIInv,
     JoinScanIInv, JoinReleaseIInv, BarrierEnterIInv, JoinEnterIInv DEF Master
<1>3. ASSUME NEW i \in Slaves, Slave(i) PROVE IInv'
  BY <1>3, ThreadNumbers, BarrierEnterIInv, BarrierArriveIInv, BarrierLeaveIInv,
     JoinEnterIInv, JoinArriveIInv DEF Slave
<1>4. CASE UNCHANGED vars
  BY <1>4 DEF vars, IInv, TypeOK, Places, MasterInv, SlaveInv, NotStarted, Slaves, Threads
<1> QED
  BY <1>1, <1>2, <1>3, <1>4 DEF Next

\* The states of the code satisfy the inductive invariant.
THEOREM IInvAlways == Spec => []IInv
<1>1. QED
  BY InitIInv, NextIInv, PTL DEF Spec

\* Every field keeps its type; in particular no thread passes more barriers
\* than the region executes.
THEOREM TypeCorrect == Spec => []TypeOK
<1>1. IInv => TypeOK
  BY DEF IInv
<1> QED
  BY <1>1, IInvAlways, PTL

\* ompc_thread_barrier returns to no thread before all members of the team
\* have arrived, whatever the size of the team and the number of barriers.
THEOREM BarrierCorrect == Spec => []BarrierSafety
<1>1. IInv => BarrierSafety
  <2> SUFFICES ASSUME IInv, NEW i \in Team, NEW m \in Team, passed[i] > passed[m]
               PROVE  pc[m] = "wait" /\ passed[i] = passed[m] + 1
    BY DEF BarrierSafety
  <2>1. /\ i \in Threads /\ m \in Threads /\ i < num_thds /\ m < num_thds
        /\ passed[i] \in Int /\ passed[m] \in Int /\ passed[0] \in Int
    BY NAssumption, MaxBarriersAssumption DEF Team, Threads, IInv, TypeOK
  <2>2. ASSUME NEW k \in Threads, k < num_thds
        PROVE  \/ passed[k] = passed[0]
               \/ pc[k] = "wait" /\ passed[k] + 1 = passed[0]
    BY <2>2, ThreadNumbers DEF IInv, Places, SlaveInv
  <2> QED
    BY <2>1, <2>2
<1> QED
  BY <1>1, IInvAlways, PTL

\* ompc_do_parallel_main returns only when the whole team has left the region.
THEOREM JoinCorrect == Spec => []JoinSafety
<1>1. IInv => JoinSafety
  <2> SUFFICES ASSUME IInv, pc[0] = "serial" PROVE JoinSafety
    BY DEF JoinSafety
  <2>1. \A i \in Slaves : pc[i] = "idle"
    BY ThreadNumbers DEF IInv, TypeOK, Places, SlaveInv
  <2>2. \A i \in Team : passed[i] = barriers
    <3> TAKE i \in Team
    <3>1. i \in Threads /\ i < num_thds
      BY NAssumption DEF Team, Threads, IInv, TypeOK
    <3> QED
      BY <3>1, <2>1, ThreadNumbers DEF IInv, MasterInv, SlaveInv, NotStarted
  <2> QED
    BY <2>1, <2>2 DEF JoinSafety
<1> QED
  BY <1>1, IInvAlways, PTL

----------------------------------------------------------------------------
(* OmpcBarrier implements OmpcTeam, with At as the refinement mapping.      *)

\* The program's view of all threads.
AtAll == [i \in Threads |-> At(i)]

\* The view of the master, and of each slave, as the invariant leaves it.
AtFacts ==
  /\ At(0) = IF pc[0] = "serial" THEN "serial" ELSE IF pc[0] = "scan" THEN "sync" ELSE "run"
  /\ \A i \in Slaves :
       At(i) = IF pc[i] = "wait" THEN "sync"
               ELSE IF pc[i] # "idle" THEN "run"
               ELSE IF NotStarted(i) /\ i < num_thds THEN "called" ELSE "idle"

\* The program's view of a thread, given what the invariant knows of it.
LEMMA AtValues == IInv => AtFacts
<1> SUFFICES ASSUME IInv PROVE AtFacts
  OBVIOUS
<1>1. At(0) = IF pc[0] = "serial" THEN "serial" ELSE IF pc[0] = "scan" THEN "sync" ELSE "run"
  BY DEF At, IInv, Places
<1>2. ASSUME NEW i \in Slaves
      PROVE  At(i) = IF pc[i] = "wait" THEN "sync"
                     ELSE IF pc[i] # "idle" THEN "run"
                     ELSE IF NotStarted(i) /\ i < num_thds THEN "called" ELSE "idle"
  <2>1. i \in j .. num_thds-1 <=> i >= j /\ i < num_thds
    BY ThreadNumbers DEF IInv, TypeOK
  <2>2. pc[i] \in {"idle", "body", "arrive", "wait", "jarrive"}
    BY DEF IInv, Places
  <2> QED
    BY <2>1, <2>2 DEF At, NotStarted
<1> QED
  BY <1>1, <1>2 DEF AtFacts

\* A step that moves thread i, and no thread in or out of the fork, changes
\* the view of thread i only.
LEMMA AtFrame ==
  ASSUME IInv, IInv', NEW i \in Threads, NEW p,
         pc' = [pc EXCEPT ![i] = p],
         \/ i # 0 /\ UNCHANGED <<j, num_thds>>
         \/ pc[0] # "forking" /\ pc'[0] # "forking"
  PROVE  AtAll' = [AtAll EXCEPT ![i] = At(i)']
<1>1. pc \in [Threads -> {"serial", "forking", "idle", "body", "scan", "jscan",
                          "arrive", "wait", "jarrive"}]
  BY DEF IInv, TypeOK
<1>2. \A k \in Threads : k # i => At(k)' = At(k)
  BY <1>1, ThreadNumbers DEF At
<1> QED
  BY <1>2, Zenon DEF AtAll

\* Writing back the value that is there changes nothing.
LEMMA AtSame ==
  ASSUME NEW S, NEW f, NEW i \in S, f = [k \in S |-> f[k]]
  PROVE  [f EXCEPT ![i] = f[i]] = f
OBVIOUS

\* The initial state is one of OmpcTeam.
LEMMA InitImplements == Init => Abs!Init
<1> SUFFICES ASSUME Init PROVE Abs!Init
  OBVIOUS
<1>1. \A i \in Threads : At(i) = IF i = 0 THEN "serial" ELSE "idle"
  BY ThreadNumbers DEF Init, At
<1> QED
  BY <1>1 DEF Init, Abs!Init, Abs!Threads, Threads

\* Each step of the code is a step of OmpcTeam or leaves the team as it is.
LEMMA NextImplements == IInv /\ IInv' /\ [Next]_vars => [Abs!Next]_(Abs!vars)
<1> SUFFICES ASSUME IInv, IInv', [Next]_vars
             PROVE  Abs!Next \/ UNCHANGED Abs!vars
  OBVIOUS
<1> USE NAssumption, MaxBarriersAssumption, ThreadNumbers
<1>a. Abs!Threads = Threads /\ Abs!Slaves = Slaves /\ Abs!Team = Team
  BY DEF Abs!Threads, Threads, Abs!Slaves, Slaves, Abs!Team, Team
<1>b. /\ \A i \in Threads : AtAll[i] = At(i) /\ AtAll'[i] = At(i)'
      /\ At(0) = IF pc[0] = "serial" THEN "serial" ELSE IF pc[0] = "scan" THEN "sync" ELSE "run"
      /\ At(0)' = IF pc'[0] = "serial" THEN "serial"
                  ELSE IF pc'[0] = "scan" THEN "sync" ELSE "run"
      /\ \A i \in Slaves :
           /\ At(i) = IF pc[i] = "wait" THEN "sync"
                      ELSE IF pc[i] # "idle" THEN "run"
                      ELSE IF NotStarted(i) /\ i < num_thds THEN "called" ELSE "idle"
           /\ At(i)' = IF pc'[i] = "wait" THEN "sync"
                       ELSE IF pc'[i] # "idle" THEN "run"
                       ELSE IF NotStarted(i)' /\ i < num_thds' THEN "called" ELSE "idle"
  <2>1. AtFacts /\ AtFacts'
    BY AtValues, PTL
  <2> QED
    BY <2>1 DEF AtFacts, AtAll, Slaves, Threads
<1>c. \A i \in Threads : pc[i] \in {"serial", "forking", "idle", "body", "scan", "jscan",
                                   "arrive", "wait", "jarrive"}
  BY DEF IInv, TypeOK
<1>d. AtAll = [i \in Threads |-> At(i)]
  BY DEF AtAll
<1>1. ASSUME NEW n \in 1 .. N, NEW b \in 0 .. MaxBarriers, DoParallel(n, b)
      PROVE  Abs!Fork(n, b)
  <2>1. \A i \in Slaves : pc[i] = "idle"
    BY <1>1 DEF IInv, Places, SlaveInv, DoParallel, InitTeam, TypeOK
  <2>2. \A i \in Threads : At(i)' = IF i = 0 THEN "run" ELSE IF i < n THEN "called" ELSE At(i)
    BY <1>1, <1>b, <2>1 DEF DoParallel, InitTeam, NotStarted, IInv, TypeOK
  <2>3. AtAll' = [i \in Threads |-> IF i = 0 THEN "run" ELSE IF i < n THEN "called" ELSE AtAll[i]]
    BY <2>2, <1>b DEF AtAll
  <2> QED
    BY <1>1, <1>a, <1>b, <2>3 DEF Abs!Fork, DoParallel, InitTeam, AtAll
<1>2. CASE StartThread
  <2> PICK k \in Slaves : k = j
    BY <1>2 DEF StartThread, IInv, TypeOK, MasterInv
  <2>1. At(k) = "called" /\ At(k)' = "run"
    BY <1>2, <1>b DEF StartThread, IInv, TypeOK, MasterInv, NotStarted
  <2>2. \A m \in Threads : m # k => At(m)' = At(m)
    <3> TAKE m \in Threads
    <3> HAVE m # k
    <3>1. pc'[m] = pc[m] \/ m = 0
      BY <1>2 DEF StartThread, IInv, TypeOK
    <3>2. pc[0] = "forking" /\ pc'[0] = "forking" /\ num_thds' = num_thds
      BY <1>2 DEF StartThread, IInv, TypeOK
    <3>3. m \in Slaves => (m >= j <=> m >= j')
      BY <1>2 DEF StartThread, IInv, TypeOK
    <3> QED
      BY <1>b, <3>1, <3>2, <3>3 DEF NotStarted
  <2>3. AtAll' = [AtAll EXCEPT ![k] = "run"]
    BY <2>1, <2>2, Zenon DEF AtAll
  <2>4. Abs!Start(k)
    BY <1>2, <1>b, <2>1, <2>3 DEF Abs!Start, Abs!Move, StartThread, AtAll
  <2> QED
    BY <1>a, <2>4 DEF Abs!Next, Abs!Thread
<1>3. CASE StartMaster
  <2>1. \A k \in Threads : At(k)' = At(k)
    BY <1>3, <1>b, <1>c DEF StartMaster, IInv, TypeOK, NotStarted
  <2>2. AtAll' = AtAll
    BY <2>1 DEF AtAll
  <2> QED
    BY <1>3, <2>2 DEF StartMaster, Abs!vars, AtAll
<1>4. ASSUME NEW i \in Threads, BarrierEnter(i) PROVE Abs!Next \/ UNCHANGED Abs!vars
  <2>1. AtAll' = [AtAll EXCEPT ![i] = At(i)']
    <3>1. pc[i] = "body" /\ pc' = [pc EXCEPT ![i] = IF i = 0 THEN "scan" ELSE "arrive"]
      BY <1>4 DEF BarrierEnter, ReadSense
    <3>2. CASE i = 0
      <4>1. pc[0] # "forking" /\ pc'[0] # "forking"
        BY <3>1, <3>2 DEF IInv, TypeOK
      <4> QED
        BY <3>1, <4>1, AtFrame, Zenon
    <3>3. CASE i # 0
      BY <1>4, <3>1, <3>3, AtFrame, Zenon DEF BarrierEnter, ReadSense
    <3> QED
      BY <3>2, <3>3
  <2>2. CASE i = 0
    <3>1. At(0) = "run" /\ At(0)' = "sync"
      BY <1>4, <1>b, <1>c, <2>2 DEF BarrierEnter, ReadSense, IInv, TypeOK
    <3>2. Abs!Arrive(0)
      BY <1>4, <1>b, <2>1, <2>2, <3>1, Zenon DEF BarrierEnter, ReadSense, Abs!Arrive, Abs!Move, AtAll
    <3> QED
      BY <1>a, <3>2 DEF Abs!Next, Abs!Thread
  <2>3. CASE i # 0
    <3>1. At(i) = "run" /\ At(i)' = "run"
      BY <1>4, <1>b, <1>c, <2>3 DEF BarrierEnter, ReadSense, IInv, TypeOK
    <3>2. AtAll' = AtAll
      BY <1>b, <1>d, <2>1, <3>1, AtSame
    <3> QED
      BY <1>4, <3>2 DEF BarrierEnter, ReadSense, Abs!vars, AtAll
  <2> QED
    BY <2>2, <2>3
<1>5. ASSUME NEW i \in Threads, JoinEnter(i) PROVE UNCHANGED Abs!vars
  <2>1. AtAll' = [AtAll EXCEPT ![i] = At(i)']
    <3>1. pc[i] = "body" /\ pc' = [pc EXCEPT ![i] = IF i = 0 THEN "jscan" ELSE "jarrive"]
      BY <1>5 DEF JoinEnter, ReadSense
    <3>2. CASE i = 0
      <4>1. pc[0] # "forking" /\ pc'[0] # "forking"
        BY <3>1, <3>2 DEF IInv, TypeOK
      <4> QED
        BY <3>1, <4>1, AtFrame, Zenon
    <3>3. CASE i # 0
      BY <1>5, <3>1, <3>3, AtFrame, Zenon DEF JoinEnter, ReadSense
    <3> QED
      BY <3>2, <3>3
  <2>2. At(i) = "run" /\ At(i)' = "run"
    BY <1>5, <1>b, <1>c DEF JoinEnter, ReadSense, IInv, TypeOK
  <2>3. AtAll' = AtAll
    BY <1>b, <1>d, <2>1, <2>2, AtSame
  <2> QED
    BY <1>5, <2>3 DEF JoinEnter, ReadSense, Abs!vars, AtAll
<1>6. ASSUME NEW i \in Slaves, BarrierArrive(i) PROVE Abs!Arrive(i)
  <2>1. AtAll' = [AtAll EXCEPT ![i] = At(i)']
    BY <1>6, <1>c, AtFrame, Zenon DEF BarrierArrive, WriteFlag
  <2>2. At(i) = "run" /\ At(i)' = "sync"
    BY <1>6, <1>b, <1>c DEF BarrierArrive, WriteFlag, IInv, TypeOK
  <2>3. passed[i] < barriers
    BY <1>6 DEF BarrierArrive, WriteFlag, IInv, TypeOK, Places, SlaveInv
  <2> QED
    BY <1>6, <1>b, <2>1, <2>2, <2>3 DEF BarrierArrive, WriteFlag, Abs!Arrive, Abs!Move, AtAll
<1>7. ASSUME NEW i \in Slaves, JoinArrive(i) PROVE Abs!Finish(i)
  <2>1. AtAll' = [AtAll EXCEPT ![i] = At(i)']
    BY <1>7, <1>c, AtFrame, Zenon DEF JoinArrive, WriteFlag
  <2>2. i < num_thds /\ passed[i] = barriers /\ ~NotStarted(i)
    BY <1>7 DEF JoinArrive, WriteFlag, IInv, TypeOK, Places, SlaveInv
  <2>3. At(i) = "run" /\ At(i)' = "idle"
    BY <1>7, <1>b, <1>c, <2>2 DEF JoinArrive, WriteFlag, IInv, TypeOK, NotStarted
  <2> QED
    BY <1>7, <1>b, <2>1, <2>2, <2>3 DEF JoinArrive, WriteFlag, Abs!Finish, Abs!Move, AtAll
<1>8. ASSUME NEW i \in Slaves, BarrierLeave(i) PROVE Abs!Depart(i)
  <2>1. AtAll' = [AtAll EXCEPT ![i] = At(i)']
    BY <1>8, <1>c, AtFrame, Zenon DEF BarrierLeave
  <2>2. At(i) = "sync" /\ At(i)' = "run"
    BY <1>8, <1>b, <1>c DEF BarrierLeave, IInv, TypeOK
  <2>3. i < num_thds /\ passed[i] + 1 = passed[0]
    BY <1>8, Xor1Alternates DEF BarrierLeave, IInv, TypeOK, Places, SlaveInv
  <2>4. \A m \in Team : passed[m] > passed[i] \/ (passed[m] = passed[i] /\ At(m) = "sync")
    <3> TAKE m \in Team
    <3>0. m \in Threads /\ m < num_thds
      BY DEF Team, Threads, IInv, TypeOK
    <3>1. /\ m \in Threads /\ m < num_thds
          /\ passed[m] \in Int /\ passed[0] \in Int /\ passed[i] \in Int
      BY <3>0 DEF IInv, TypeOK
    <3>2. m = 0 \/ (m \in Slaves /\ SlaveInv(m) /\ pc[m] \in {"idle", "body", "arrive", "wait", "jarrive"})
      BY <3>1 DEF IInv, Places
    <3>3. CASE m = 0
      BY <2>3, <3>1, <3>3
    <3>4. CASE m \in Slaves /\ pc[m] = "wait"
      <4>1. At(m) = "sync"
        BY <1>b, <3>4
      <4>2. passed[m] = passed[0] \/ passed[m] + 1 = passed[0]
        BY <3>2, <3>4, ThreadNumbers DEF SlaveInv
      <4> QED
        BY <2>3, <3>1, <4>1, <4>2
    <3>5. CASE m \in Slaves /\ pc[m] # "wait"
      <4>1. passed[m] = passed[0]
        BY <3>2, <3>5, ThreadNumbers DEF SlaveInv
      <4> QED
        BY <2>3, <3>1, <4>1
    <3> QED
      BY <3>2, <3>3, <3>4, <3>5
  <2>5. \A m \in Team : m \in Threads
    BY DEF Team, Threads, IInv, TypeOK
  <2>6. \A m \in Team : passed[m] > passed[i] \/ (passed[m] = passed[i] /\ AtAll[m] = "sync")
    BY <1>b, <2>4, <2>5
  <2>7. AtAll[i] = "sync" /\ AtAll' = [AtAll EXCEPT ![i] = "run"]
    BY <1>b, <2>1, <2>2
  <2> QED
    BY <1>8, <1>a, <2>6, <2>7 DEF BarrierLeave, Abs!Depart, Abs!Move, AtAll
<1>9. CASE BarrierRelease
  <2>1. AtAll' = [AtAll EXCEPT ![0] = At(0)']
    BY <1>9, <1>c, AtFrame, Zenon DEF BarrierRelease, Release, IInv, TypeOK
  <2>2. At(0) = "sync" /\ At(0)' = "run"
    BY <1>9, <1>b, <1>c DEF BarrierRelease, Release, IInv, TypeOK
  <2>3. \A k \in Slaves : k < num_thds => pc[k] = "wait" /\ passed[k] = passed[0]
    BY <1>9, Xor1Alternates
       DEF BarrierRelease, Release, IInv, TypeOK, Places, MasterInv, SlaveInv, NotStarted
  <2>4. \A m \in Team : m \in Threads /\ passed[m] = passed[0] /\ AtAll[m] = "sync"
    <3> TAKE m \in Team
    <3>1. m \in Threads /\ m < num_thds
      BY DEF Team, Threads, IInv, TypeOK
    <3> QED
      BY <1>b, <2>2, <2>3, <3>1
  <2>5. AtAll[0] = "sync" /\ AtAll' = [AtAll EXCEPT ![0] = "run"]
    BY <1>b, <2>1, <2>2, Zenon
  <2>6. Abs!Depart(0)
    BY <1>9, <1>a, <2>4, <2>5 DEF BarrierRelease, Release, Abs!Depart, Abs!Move, AtAll
  <2> QED
    BY <1>a, <2>6 DEF Abs!Next, Abs!Thread
<1>10. CASE JoinRelease
  <2>1. AtAll' = [AtAll EXCEPT ![0] = At(0)']
    BY <1>10, <1>c, AtFrame, Zenon DEF JoinRelease, Release, IInv, TypeOK
  <2>2. At(0) = "run" /\ At(0)' = "serial" /\ passed[0] = barriers
    BY <1>10, <1>b, <1>c DEF JoinRelease, Release, IInv, TypeOK, MasterInv
  <2>3. \A k \in Slaves : pc[k] = "idle"
    BY <1>10, Xor1Alternates
       DEF JoinRelease, Release, IInv, TypeOK, Places, MasterInv, SlaveInv, NotStarted
  <2>4. \A k \in Slaves : AtAll[k] = "idle"
    BY <1>10, <1>b, <2>3 DEF JoinRelease, Release, NotStarted
  <2>5. AtAll[0] = "run" /\ AtAll' = [AtAll EXCEPT ![0] = "serial"]
    BY <1>b, <2>1, <2>2, Zenon
  <2>6. Abs!Join
    BY <1>10, <1>a, <2>2, <2>4, <2>5 DEF JoinRelease, Release, Abs!Join, Abs!Move, AtAll
  <2> QED
    BY <1>a, <2>6 DEF Abs!Next, Abs!Thread
<1>11. CASE BarrierScan \/ JoinScan
  <2>1. \A k \in Threads : At(k)' = At(k)
    BY <1>11, <1>b DEF BarrierScan, JoinScan, Scan, NotStarted
  <2>2. AtAll' = AtAll
    BY <2>1 DEF AtAll
  <2> QED
    BY <1>11, <2>2 DEF BarrierScan, JoinScan, Scan, Abs!vars, AtAll
<1>12. CASE UNCHANGED vars
  BY <1>12 DEF vars, Abs!vars, At, Threads
<1>13. CASE Fork
  BY <1>1, <1>13 DEF Fork, Abs!Next
<1>14. CASE Master
  BY <1>2, <1>3, <1>4, <1>5, <1>9, <1>10, <1>11, <1>14 DEF Master
<1>15. ASSUME NEW i \in Slaves, Slave(i) PROVE Abs!Next \/ UNCHANGED Abs!vars
  BY <1>a, <1>4, <1>5, <1>6, <1>7, <1>8, <1>15 DEF Slave, Abs!Next, Abs!Thread
<1> QED
  BY <1>12, <1>13, <1>14, <1>15 DEF Next

\* The sense-reversing barrier implements the team of OmpcTeam: a program
\* that is correct with the promised team is correct with the code.
THEOREM TeamImplemented == Spec => ImplementsTeamSteps
<1>1. QED
  BY InitImplements, NextImplements, IInvAlways, PTL DEF Spec, ImplementsTeamSteps, Abs!Spec

----------------------------------------------------------------------------
(***************************************************************************)
(* The nestable lock, over constants and variables of its own: Users are   *)
(* the threads that use the lock, npc is their program counter.            *)
(***************************************************************************)
CONSTANTS Users, Nobody, MaxDepth

VARIABLES lock, wait, id, count, npc, op, wl, held

Nest == INSTANCE OmpcNestLock WITH Threads <- Users, pc <- npc

\* What OmpcNestLock and OmpcCritical assume of the holder of a free mutex.
NobodyAssumed == Nobody \notin Users

\* What OmpcNestLock assumes of the depth of nesting.
DepthAssumed == MaxDepth \in Nat \ {0}

\* The thread that the fields name as the owner.
Own(t) == count # 0 /\ id = t

\* lp->lock is held exactly between its acquisition and its release.
LockInv ==
  \A t \in Users :
    lock = t <=> npc[t] \in {"check", "backlock", "getwait", "setid", "setcount",
                            "unlock", "dec", "uunlock", "ulast"}

\* lp->wait is held by the owner, and by a thread that is about to be the
\* owner, has just ceased to be, or tries to.
WaitInv ==
  /\ count # 0 => id \in Users
  /\ \A t \in Users :
       wait = t <=> \/ Own(t)
                    \/ npc[t] = "check" /\ wl[t] = 1
                    \/ npc[t] \in {"trylock", "dropwait", "setid", "setcount", "ulast", "uwait"}

\* What the steps that follow a read of the fields still know of them.
FieldInv ==
  \A t \in Users :
    /\ npc[t] = "backlock" => count # 0 /\ id # t /\ wl[t] = 0
    /\ npc[t] \in {"getwait", "setid", "setcount", "ulast", "uwait"} => count = 0
    /\ npc[t] = "setcount" => id = t
    /\ npc[t] \in {"unlock", "tret", "ulock", "dec", "uunlock"} => Own(t)
    /\ npc[t] \in {"lockwait", "trylock", "dropwait"} => ~Own(t)
    /\ npc[t] = "check" /\ wl[t] = 1 => ~Own(t)
    /\ npc[t] \in {"count", "id", "lockwait", "trylock", "dropwait", "lock", "ttry", "check",
                  "backlock"} => op[t] \in {"set", "test"}

\* The count is the depth of its owner, up to the operation under way.
DepthInv ==
  \A t \in Users :
    /\ held[t] = IF ~Own(t) THEN 0
                 ELSE IF npc[t] \in {"unlock", "ulock", "dec"} THEN count - 1 ELSE count
    /\ npc[t] \in {"count", "id", "lockwait", "trylock", "dropwait", "lock", "ttry", "check",
                  "backlock", "getwait", "setid", "setcount"} => held[t] < MaxDepth

\* The inductive invariant of the nestable lock.
NestInv ==
  NobodyAssumed /\ DepthAssumed /\ Nest!TypeOK /\ LockInv /\ WaitInv /\ FieldInv /\ DepthInv

----------------------------------------------------------------------------
\* A lock that has just been initialised satisfies the invariant.
LEMMA NestInit == NobodyAssumed /\ DepthAssumed /\ Nest!Init => NestInv
BY DEF NobodyAssumed, DepthAssumed, Nest!Init, NestInv, Nest!TypeOK, Nest!Holder,
       LockInv, WaitInv, FieldInv, DepthInv, Own

\* A lock in nobody's use may be destroyed and initialised again.
LEMMA RenewKeeps == NestInv /\ Nest!Renew => NestInv'
<1> SUFFICES ASSUME NestInv, Nest!Renew PROVE NestInv'
  OBVIOUS
<1> USE DEF NestInv, NobodyAssumed, DepthAssumed, Nest!TypeOK, Nest!Holder,
            Nest!Renew
<1>1. Nest!TypeOK'
  BY DEF LockInv, WaitInv, FieldInv, DepthInv, Own
<1>2. LockInv'
  BY DEF LockInv
<1>3. WaitInv'
  BY DEF LockInv, WaitInv, FieldInv, Own
<1>4. FieldInv'
  BY DEF LockInv, WaitInv, FieldInv, Own
<1>5. DepthInv'
  BY DEF LockInv, WaitInv, FieldInv, DepthInv, Own
<1> QED
  BY <1>1, <1>2, <1>3, <1>4, <1>5

\* Step SetCall preserves the invariant.
LEMMA SetCallKeeps == \A t \in Users : NestInv /\ Nest!SetCall(t) => NestInv'
<1> SUFFICES ASSUME NestInv, NEW t \in Users, Nest!SetCall(t) PROVE NestInv'
  OBVIOUS
<1> USE DEF NestInv, NobodyAssumed, DepthAssumed, Nest!TypeOK, Nest!Holder,
            Nest!SetCall, Nest!Call, Nest!Goto
<1>1. Nest!TypeOK'
  BY DEF LockInv, WaitInv, FieldInv, DepthInv, Own
<1>2. LockInv'
  BY DEF LockInv
<1>3. WaitInv'
  BY DEF LockInv, WaitInv, FieldInv, Own
<1>4. FieldInv'
  BY DEF LockInv, WaitInv, FieldInv, Own
<1>5. DepthInv'
  BY DEF LockInv, WaitInv, FieldInv, DepthInv, Own
<1> QED
  BY <1>1, <1>2, <1>3, <1>4, <1>5

\* Step TestCall preserves the invariant.
LEMMA TestCallKeeps == \A t \in Users : NestInv /\ Nest!TestCall(t) => NestInv'
<1> SUFFICES ASSUME NestInv, NEW t \in Users, Nest!TestCall(t) PROVE NestInv'
  OBVIOUS
<1> USE DEF NestInv, NobodyAssumed, DepthAssumed, Nest!TypeOK, Nest!Holder,
            Nest!TestCall, Nest!Call, Nest!Goto
<1>1. Nest!TypeOK'
  BY DEF LockInv, WaitInv, FieldInv, DepthInv, Own
<1>2. LockInv'
  BY DEF LockInv
<1>3. WaitInv'
  BY DEF LockInv, WaitInv, FieldInv, Own
<1>4. FieldInv'
  BY DEF LockInv, WaitInv, FieldInv, Own
<1>5. DepthInv'
  BY DEF LockInv, WaitInv, FieldInv, DepthInv, Own
<1> QED
  BY <1>1, <1>2, <1>3, <1>4, <1>5

\* Step UnsetCall preserves the invariant.
LEMMA UnsetCallKeeps == \A t \in Users : NestInv /\ Nest!UnsetCall(t) => NestInv'
<1> SUFFICES ASSUME NestInv, NEW t \in Users, Nest!UnsetCall(t) PROVE NestInv'
  OBVIOUS
<1> USE DEF NestInv, NobodyAssumed, DepthAssumed, Nest!TypeOK, Nest!Holder,
            Nest!UnsetCall, Nest!Call, Nest!Goto
<1>1. Nest!TypeOK'
  BY DEF LockInv, WaitInv, FieldInv, DepthInv, Own
<1>2. LockInv'
  BY DEF LockInv
<1>3. WaitInv'
  BY DEF LockInv, WaitInv, FieldInv, Own
<1>4. FieldInv'
  BY DEF LockInv, WaitInv, FieldInv, DepthInv, Own
<1>5. DepthInv'
  BY DEF LockInv, WaitInv, FieldInv, DepthInv, Own
<1> QED
  BY <1>1, <1>2, <1>3, <1>4, <1>5

\* Step ReadCount preserves the invariant.
LEMMA ReadCountKeeps == \A t \in Users : NestInv /\ Nest!ReadCount(t) => NestInv'
<1> SUFFICES ASSUME NestInv, NEW t \in Users, Nest!ReadCount(t) PROVE NestInv'
  OBVIOUS
<1> USE DEF NestInv, NobodyAssumed, DepthAssumed, Nest!TypeOK, Nest!Holder,
            Nest!ReadCount, Nest!Goto
<1>1. Nest!TypeOK'
  BY DEF LockInv, WaitInv, FieldInv, DepthInv, Own
<1>2. LockInv'
  BY DEF LockInv
<1>3. WaitInv'
  BY DEF LockInv, WaitInv, FieldInv, Own
<1>4. FieldInv'
  BY DEF LockInv, WaitInv, FieldInv, Own
<1>5. DepthInv'
  BY DEF LockInv, WaitInv, FieldInv, DepthInv, Own
<1> QED
  BY <1>1, <1>2, <1>3, <1>4, <1>5

\* Step ReadId preserves the invariant.
LEMMA ReadIdKeeps == \A t \in Users : NestInv /\ Nest!ReadId(t) => NestInv'
<1> SUFFICES ASSUME NestInv, NEW t \in Users, Nest!ReadId(t) PROVE NestInv'
  OBVIOUS
<1> USE DEF NestInv, NobodyAssumed, DepthAssumed, Nest!TypeOK, Nest!Holder,
            Nest!ReadId, Nest!Goto
<1>1. Nest!TypeOK'
  BY DEF LockInv, WaitInv, FieldInv, DepthInv, Own
<1>2. LockInv'
  BY DEF LockInv, FieldInv
<1>3. WaitInv'
  BY DEF LockInv, WaitInv, FieldInv, Own
<1>4. FieldInv'
  BY DEF LockInv, WaitInv, FieldInv, Own
<1>5. DepthInv'
  BY DEF LockInv, WaitInv, FieldInv, DepthInv, Own
<1> QED
  BY <1>1, <1>2, <1>3, <1>4, <1>5, Zenon

\* Step LockWait preserves the invariant.
LEMMA LockWaitKeeps == \A t \in Users : NestInv /\ Nest!LockWait(t) => NestInv'
<1> SUFFICES ASSUME NestInv, NEW t \in Users, Nest!LockWait(t) PROVE NestInv'
  OBVIOUS
<1> USE DEF NestInv, NobodyAssumed, DepthAssumed, Nest!TypeOK, Nest!Holder,
            Nest!LockWait, Nest!AcquireWait, Nest!Goto
<1>1. Nest!TypeOK'
  BY DEF LockInv, WaitInv, FieldInv, DepthInv, Own
<1>2. LockInv'
  BY DEF LockInv
<1>3. WaitInv'
  BY DEF LockInv, WaitInv, FieldInv, Own
<1>4. FieldInv'
  BY DEF LockInv, WaitInv, FieldInv, Own
<1>5. DepthInv'
  BY DEF LockInv, WaitInv, FieldInv, DepthInv, Own
<1> QED
  BY <1>1, <1>2, <1>3, <1>4, <1>5

\* Step TryLock preserves the invariant.
LEMMA TryLockKeeps == \A t \in Users : NestInv /\ Nest!TryLock(t) => NestInv'
<1> SUFFICES ASSUME NestInv, NEW t \in Users, Nest!TryLock(t) PROVE NestInv'
  OBVIOUS
<1> USE DEF NestInv, NobodyAssumed, DepthAssumed, Nest!TypeOK, Nest!Holder,
            Nest!TryLock, Nest!Goto
<1>1. Nest!TypeOK'
  BY DEF LockInv, WaitInv, FieldInv, DepthInv, Own
<1>2. LockInv'
  BY DEF LockInv
<1>3. WaitInv'
  BY DEF LockInv, WaitInv, FieldInv, Own
<1>4. FieldInv'
  BY DEF LockInv, WaitInv, FieldInv, Own
<1>5. DepthInv'
  BY DEF LockInv, WaitInv, FieldInv, DepthInv, Own
<1> QED
  BY <1>1, <1>2, <1>3, <1>4, <1>5

\* Step DropWait preserves the invariant.
LEMMA DropWaitKeeps == \A t \in Users : NestInv /\ Nest!DropWait(t) => NestInv'
<1> SUFFICES ASSUME NestInv, NEW t \in Users, Nest!DropWait(t) PROVE NestInv'
  OBVIOUS
<1> USE DEF NestInv, NobodyAssumed, DepthAssumed, Nest!TypeOK, Nest!Holder,
            Nest!DropWait, Nest!ReleaseWait, Nest!Goto
<1>1. Nest!TypeOK'
  BY DEF LockInv, WaitInv, FieldInv, DepthInv, Own
<1>2. LockInv'
  BY DEF LockInv
<1>3. WaitInv'
  BY DEF LockInv, WaitInv, FieldInv, Own
<1>4. FieldInv'
  BY DEF LockInv, WaitInv, FieldInv, Own
<1>5. DepthInv'
  BY DEF LockInv, WaitInv, FieldInv, DepthInv, Own
<1> QED
  BY <1>1, <1>2, <1>3, <1>4, <1>5

\* Step LockLock preserves the invariant.
LEMMA LockLockKeeps == \A t \in Users : NestInv /\ Nest!LockLock(t) => NestInv'
<1> SUFFICES ASSUME NestInv, NEW t \in Users, Nest!LockLock(t) PROVE NestInv'
  OBVIOUS
<1> USE DEF NestInv, NobodyAssumed, DepthAssumed, Nest!TypeOK, Nest!Holder,
            Nest!LockLock, Nest!Goto
<1>1. Nest!TypeOK'
  BY DEF LockInv, WaitInv, FieldInv, DepthInv, Own
<1>2. LockInv'
  BY DEF LockInv
<1>3. WaitInv'
  BY DEF LockInv, WaitInv, FieldInv, Own
<1>4. FieldInv'
  BY DEF LockInv, WaitInv, FieldInv, Own
<1>5. DepthInv'
  BY DEF LockInv, WaitInv, FieldInv, DepthInv, Own
<1> QED
  BY <1>1, <1>2, <1>3, <1>4, <1>5

\* Step TestLock preserves the invariant.
LEMMA TestLockKeeps == \A t \in Users : NestInv /\ Nest!TestLock(t) => NestInv'
<1> SUFFICES ASSUME NestInv, NEW t \in Users, Nest!TestLock(t) PROVE NestInv'
  OBVIOUS
<1> USE DEF NestInv, NobodyAssumed, DepthAssumed, Nest!TypeOK, Nest!Holder,
            Nest!TestLock, Nest!Goto
<1>1. Nest!TypeOK'
  BY DEF LockInv, WaitInv, FieldInv, DepthInv, Own
<1>2. LockInv'
  BY DEF LockInv
<1>3. WaitInv'
  BY DEF LockInv, WaitInv, FieldInv, Own
<1>4. FieldInv'
  BY DEF LockInv, WaitInv, FieldInv, Own
<1>5. DepthInv'
  BY DEF LockInv, WaitInv, FieldInv, DepthInv, Own
<1> QED
  BY <1>1, <1>2, <1>3, <1>4, <1>5

\* Step Check preserves the invariant.
LEMMA CheckKeeps == \A t \in Users : NestInv /\ Nest!Check(t) => NestInv'
<1> SUFFICES ASSUME NestInv, NEW t \in Users, Nest!Check(t) PROVE NestInv'
  OBVIOUS
<1> USE DEF NestInv, NobodyAssumed, DepthAssumed, Nest!TypeOK, Nest!Holder,
            Nest!Check, Nest!Inspect, Nest!Goto
<1>1. Nest!TypeOK'
  BY DEF LockInv, WaitInv, FieldInv, DepthInv, Own
<1>2. LockInv'
  BY DEF LockInv
<1>3. WaitInv'
  BY DEF LockInv, WaitInv, FieldInv, Own
<1>4. FieldInv'
  BY DEF LockInv, WaitInv, FieldInv, Own
<1>5. DepthInv'
  BY DEF LockInv, WaitInv, FieldInv, DepthInv, Own
<1> QED
  BY <1>1, <1>2, <1>3, <1>4, <1>5

\* Step BackLock preserves the invariant.
LEMMA BackLockKeeps == \A t \in Users : NestInv /\ Nest!BackLock(t) => NestInv'
<1> SUFFICES ASSUME NestInv, NEW t \in Users, Nest!BackLock(t) PROVE NestInv'
  OBVIOUS
<1> USE DEF NestInv, NobodyAssumed, DepthAssumed, Nest!TypeOK, Nest!Holder,
            Nest!BackLock, Nest!Goto
<1>1. Nest!TypeOK'
  BY DEF LockInv, WaitInv, FieldInv, DepthInv, Own
<1>2. LockInv'
  BY DEF LockInv
<1>3. WaitInv'
  BY DEF LockInv, WaitInv, FieldInv, Own
<1>4. FieldInv'
  BY DEF LockInv, WaitInv, FieldInv, Own
<1>5. DepthInv'
  BY DEF LockInv, WaitInv, FieldInv, DepthInv, Own
<1> QED
  BY <1>1, <1>2, <1>3, <1>4, <1>5

\* Step GetWait preserves the invariant.
LEMMA GetWaitKeeps == \A t \in Users : NestInv /\ Nest!GetWait(t) => NestInv'
<1> SUFFICES ASSUME NestInv, NEW t \in Users, Nest!GetWait(t) PROVE NestInv'
  OBVIOUS
<1> USE DEF NestInv, NobodyAssumed, DepthAssumed, Nest!TypeOK, Nest!Holder,
            Nest!GetWait, Nest!AcquireWait, Nest!Goto
<1>1. Nest!TypeOK'
  BY DEF LockInv, WaitInv, FieldInv, DepthInv, Own
<1>2. LockInv'
  BY DEF LockInv
<1>3. WaitInv'
  BY DEF LockInv, WaitInv, FieldInv, Own
<1>4. FieldInv'
  BY DEF LockInv, WaitInv, FieldInv, Own
<1>5. DepthInv'
  BY DEF LockInv, WaitInv, FieldInv, DepthInv, Own
<1> QED
  BY <1>1, <1>2, <1>3, <1>4, <1>5

\* Step SetId preserves the invariant.
LEMMA SetIdKeeps == \A t \in Users : NestInv /\ Nest!SetId(t) => NestInv'
<1> SUFFICES ASSUME NestInv, NEW t \in Users, Nest!SetId(t) PROVE NestInv'
  OBVIOUS
<1> USE DEF NestInv, NobodyAssumed, DepthAssumed, Nest!TypeOK, Nest!Holder,
            Nest!SetId, Nest!Goto
<1>1. Nest!TypeOK'
  BY DEF LockInv, WaitInv, FieldInv, DepthInv, Own
<1>2. LockInv'
  BY DEF LockInv
<1>3. WaitInv'
  BY DEF LockInv, WaitInv, FieldInv, Own
<1>4. FieldInv'
  BY DEF LockInv, WaitInv, FieldInv, Own
<1>5. DepthInv'
  BY DEF LockInv, WaitInv, FieldInv, DepthInv, Own
<1> QED
  BY <1>1, <1>2, <1>3, <1>4, <1>5

\* Step SetCount preserves the invariant.
LEMMA SetCountKeeps == \A t \in Users : NestInv /\ Nest!SetCount(t) => NestInv'
<1> SUFFICES ASSUME NestInv, NEW t \in Users, Nest!SetCount(t) PROVE NestInv'
  OBVIOUS
<1> USE DEF NestInv, NobodyAssumed, DepthAssumed, Nest!TypeOK, Nest!Holder,
            Nest!SetCount, Nest!Goto
<1>1. Nest!TypeOK'
  BY DEF LockInv, WaitInv, FieldInv, DepthInv, Own
<1>2. LockInv'
  BY DEF LockInv
<1>3. WaitInv'
  BY DEF LockInv, WaitInv, FieldInv, Own
<1>4. FieldInv'
  BY DEF LockInv, WaitInv, FieldInv, Own
<1>5. DepthInv'
  BY DEF LockInv, WaitInv, FieldInv, DepthInv, Own
<1> QED
  BY <1>1, <1>2, <1>3, <1>4, <1>5

\* Step Unlock preserves the invariant.
LEMMA UnlockKeeps == \A t \in Users : NestInv /\ Nest!Unlock(t) => NestInv'
<1> SUFFICES ASSUME NestInv, NEW t \in Users, Nest!Unlock(t) PROVE NestInv'
  OBVIOUS
<1> USE DEF NestInv, NobodyAssumed, DepthAssumed, Nest!TypeOK, Nest!Holder,
            Nest!Unlock, Nest!Goto
<1>1. Nest!TypeOK'
  BY DEF LockInv, WaitInv, FieldInv, DepthInv, Own
<1>2. LockInv'
  BY DEF LockInv
<1>3. WaitInv'
  BY DEF LockInv, WaitInv, FieldInv, Own
<1>4. FieldInv'
  BY DEF LockInv, WaitInv, FieldInv, Own
<1>5. DepthInv'
  BY DEF LockInv, WaitInv, FieldInv, DepthInv, Own
<1> QED
  BY <1>1, <1>2, <1>3, <1>4, <1>5

\* Step TestReturn preserves the invariant.
LEMMA TestReturnKeeps == \A t \in Users : NestInv /\ Nest!TestReturn(t) => NestInv'
<1> SUFFICES ASSUME NestInv, NEW t \in Users, Nest!TestReturn(t) PROVE NestInv'
  OBVIOUS
<1> USE DEF NestInv, NobodyAssumed, DepthAssumed, Nest!TypeOK, Nest!Holder,
            Nest!TestReturn, Nest!Goto
<1>1. Nest!TypeOK'
  BY DEF LockInv, WaitInv, FieldInv, DepthInv, Own
<1>2. LockInv'
  BY DEF LockInv
<1>3. WaitInv'
  BY DEF LockInv, WaitInv, FieldInv, Own
<1>4. FieldInv'
  BY DEF LockInv, WaitInv, FieldInv, Own
<1>5. DepthInv'
  BY DEF LockInv, WaitInv, FieldInv, DepthInv, Own
<1> QED
  BY <1>1, <1>2, <1>3, <1>4, <1>5

\* Step UnsetLock preserves the invariant.
LEMMA UnsetLockKeeps == \A t \in Users : NestInv /\ Nest!UnsetLock(t) => NestInv'
<1> SUFFICES ASSUME NestInv, NEW t \in Users, Nest!UnsetLock(t) PROVE NestInv'
  OBVIOUS
<1> USE DEF NestInv, NobodyAssumed, DepthAssumed, Nest!TypeOK, Nest!Holder,
            Nest!UnsetLock, Nest!AcquireLock, Nest!Goto
<1>1. Nest!TypeOK'
  BY DEF LockInv, WaitInv, FieldInv, DepthInv, Own
<1>2. LockInv'
  BY DEF LockInv
<1>3. WaitInv'
  BY DEF LockInv, WaitInv, FieldInv, Own
<1>4. FieldInv'
  BY DEF LockInv, WaitInv, FieldInv, Own
<1>5. DepthInv'
  BY DEF LockInv, WaitInv, FieldInv, DepthInv, Own
<1> QED
  BY <1>1, <1>2, <1>3, <1>4, <1>5

\* Step Dec preserves the invariant.
LEMMA DecKeeps == \A t \in Users : NestInv /\ Nest!Dec(t) => NestInv'
<1> SUFFICES ASSUME NestInv, NEW t \in Users, Nest!Dec(t) PROVE NestInv'
  OBVIOUS
<1> USE DEF NestInv, NobodyAssumed, DepthAssumed, Nest!TypeOK, Nest!Holder,
            Nest!Dec, Nest!Decrement, Nest!Goto
<1>1. Nest!TypeOK'
  BY DEF LockInv, WaitInv, FieldInv, DepthInv, Own
<1>2. LockInv'
  BY DEF LockInv
<1>3. WaitInv'
  BY DEF LockInv, WaitInv, FieldInv, Own
<1>4. FieldInv'
  BY DEF LockInv, WaitInv, FieldInv, Own
<1>5. DepthInv'
  BY DEF LockInv, WaitInv, FieldInv, DepthInv, Own
<1> QED
  BY <1>1, <1>2, <1>3, <1>4, <1>5

\* Step UnsetUnlock preserves the invariant.
LEMMA UnsetUnlockKeeps == \A t \in Users : NestInv /\ Nest!UnsetUnlock(t) => NestInv'
<1> SUFFICES ASSUME NestInv, NEW t \in Users, Nest!UnsetUnlock(t) PROVE NestInv'
  OBVIOUS
<1> USE DEF NestInv, NobodyAssumed, DepthAssumed, Nest!TypeOK, Nest!Holder,
            Nest!UnsetUnlock, Nest!ReleaseLock, Nest!Goto
<1>1. Nest!TypeOK'
  BY DEF LockInv, WaitInv, FieldInv, DepthInv, Own
<1>2. LockInv'
  BY DEF LockInv
<1>3. WaitInv'
  BY DEF LockInv, WaitInv, FieldInv, Own
<1>4. FieldInv'
  BY DEF LockInv, WaitInv, FieldInv, Own
<1>5. DepthInv'
  BY DEF LockInv, WaitInv, FieldInv, DepthInv, Own
<1> QED
  BY <1>1, <1>2, <1>3, <1>4, <1>5

\* Step UnsetLast preserves the invariant.
LEMMA UnsetLastKeeps == \A t \in Users : NestInv /\ Nest!UnsetLast(t) => NestInv'
<1> SUFFICES ASSUME NestInv, NEW t \in Users, Nest!UnsetLast(t) PROVE NestInv'
  OBVIOUS
<1> USE DEF NestInv, NobodyAssumed, DepthAssumed, Nest!TypeOK, Nest!Holder,
            Nest!UnsetLast, Nest!ReleaseLock, Nest!Goto
<1>1. Nest!TypeOK'
  BY DEF LockInv, WaitInv, FieldInv, DepthInv, Own
<1>2. LockInv'
  BY DEF LockInv
<1>3. WaitInv'
  BY DEF LockInv, WaitInv, FieldInv, Own
<1>4. FieldInv'
  BY DEF LockInv, WaitInv, FieldInv, Own
<1>5. DepthInv'
  BY DEF LockInv, WaitInv, FieldInv, DepthInv, Own
<1> QED
  BY <1>1, <1>2, <1>3, <1>4, <1>5

\* Step UnsetWait preserves the invariant.
LEMMA UnsetWaitKeeps == \A t \in Users : NestInv /\ Nest!UnsetWait(t) => NestInv'
<1> SUFFICES ASSUME NestInv, NEW t \in Users, Nest!UnsetWait(t) PROVE NestInv'
  OBVIOUS
<1> USE DEF NestInv, NobodyAssumed, DepthAssumed, Nest!TypeOK, Nest!Holder,
            Nest!UnsetWait, Nest!ReleaseWait, Nest!Goto
<1>1. Nest!TypeOK'
  BY DEF LockInv, WaitInv, FieldInv, DepthInv, Own
<1>2. LockInv'
  BY DEF LockInv
<1>3. WaitInv'
  BY DEF LockInv, WaitInv, FieldInv, Own
<1>4. FieldInv'
  BY DEF LockInv, WaitInv, FieldInv, Own
<1>5. DepthInv'
  BY DEF LockInv, WaitInv, FieldInv, DepthInv, Own
<1> QED
  BY <1>1, <1>2, <1>3, <1>4, <1>5

\* Every step, and every step that changes nothing, preserves the invariant.
LEMMA NestNext == NestInv /\ [Nest!Next]_(Nest!vars) => NestInv'
<1> SUFFICES ASSUME NestInv, [Nest!Next]_(Nest!vars) PROVE NestInv'
  OBVIOUS
<1>1. CASE Nest!Renew
  BY <1>1, RenewKeeps
<1>2. ASSUME NEW t \in Users, Nest!SetCall(t) \/ Nest!TestCall(t) \/ Nest!UnsetCall(t)
      PROVE  NestInv'
  BY <1>2, SetCallKeeps, TestCallKeeps, UnsetCallKeeps
<1>3. ASSUME NEW t \in Users, Nest!Step(t) PROVE NestInv'
  BY <1>3, ReadCountKeeps, ReadIdKeeps, LockWaitKeeps, TryLockKeeps, DropWaitKeeps, LockLockKeeps,
     TestLockKeeps, CheckKeeps, BackLockKeeps, GetWaitKeeps, SetIdKeeps, SetCountKeeps, UnlockKeeps,
     TestReturnKeeps, UnsetLockKeeps, DecKeeps, UnsetUnlockKeeps, UnsetLastKeeps, UnsetWaitKeeps,
     Zenon DEF Nest!Step
<1>4. CASE UNCHANGED Nest!vars
  BY <1>4 DEF Nest!vars, NestInv, Nest!TypeOK, LockInv, WaitInv, FieldInv, DepthInv, Own
<1> QED
  BY <1>1, <1>2, <1>3, <1>4 DEF Nest!Next

\* The states of the code satisfy the inductive invariant.
THEOREM NestAlways == NobodyAssumed /\ DepthAssumed /\ Nest!Spec => []NestInv
<1>1. QED
  BY NestInit, NestNext, PTL DEF Nest!Spec

\* Every field keeps its type; the count never exceeds the deepest nesting.
THEOREM NestTypeCorrect == NobodyAssumed /\ DepthAssumed /\ Nest!Spec => []Nest!TypeOK
<1>1. NestInv => Nest!TypeOK
  BY DEF NestInv
<1> QED
  BY <1>1, NestAlways, PTL

\* At most one thread holds the nestable lock, for every set of threads.
THEOREM NestLockExcludes == NobodyAssumed /\ DepthAssumed /\ Nest!Spec => []Nest!MutualExclusion
<1>1. NestInv => Nest!MutualExclusion
  BY DEF DepthAssumed, NestInv, Nest!TypeOK, DepthInv, Own, Nest!MutualExclusion
<1> QED
  BY <1>1, NestAlways, PTL

\* lp->count, which omp_test_nest_lock returns after it unlocked, is the
\* nesting depth of the caller.
THEOREM NestLockCounts == NobodyAssumed /\ DepthAssumed /\ Nest!Spec => []Nest!CountIsDepth
<1>1. NestInv => Nest!CountIsDepth
  BY DEF NestInv, DepthInv, Own, Nest!CountIsDepth
<1> QED
  BY <1>1, NestAlways, PTL

\* No mutex is unlocked by a thread that does not hold it.
THEOREM NestLockUnlocks == NobodyAssumed /\ DepthAssumed /\ Nest!Spec => []Nest!UnlockByHolder
<1>1. NestInv => Nest!UnlockByHolder
  BY DEF NestInv, LockInv, WaitInv, Nest!UnlockByHolder
<1> QED
  BY <1>1, NestAlways, PTL

\* No thread that slept on lp->wait meets an owner when it is let in.  The
\* branch of ompc_nest_lock that gives lp->wait back because another thread
\* owns the lock is never taken; the failed trylock before it may be.
THEOREM NestLockWaiters == NobodyAssumed /\ DepthAssumed /\ Nest!Spec => []Nest!WaiterFindsFree
<1>1. NestInv => Nest!WaiterFindsFree
  BY DEF NobodyAssumed, NestInv, Nest!TypeOK, Nest!Holder, WaitInv, FieldInv, Own,
         Nest!WaiterFindsFree
<1> QED
  BY <1>1, NestAlways, PTL

----------------------------------------------------------------------------
(***************************************************************************)
(* The critical construct, over variables of its own: mutex is *p, which   *)
(* OmpcCritical calls lock, and cpc is the program counter.                *)
(***************************************************************************)
CONSTANTS Created, Fresh

VARIABLES mutex, raw, owner, critical, mallocs, early, cpc

Critical == INSTANCE OmpcCritical WITH Threads <- Users, lock <- mutex, pc <- cpc

\* _critical_lock is held exactly between its acquisition and its release.
SectionInv ==
  \A t \in Users : critical = t <=> cpc[t] \in {"recheck", "init", "unlock"}

\* The life of the mutex: a thread at ompc_init_lock has just allocated it, and a
\* thread that has got past the tests finds it allocated.
MutexInv ==
  /\ mallocs = IF mutex = "NULL" THEN 0 ELSE 1
  /\ \A t \in Users :
       /\ cpc[t] = "init" => mutex = "raw"
       /\ cpc[t] \in {"unlock", "lock", "asleep", "in"} => mutex # "NULL"

\* Without the race of the first entry, who is inside holds an initialised mutex.
HolderInv ==
  ~early => \A t \in Users : cpc[t] = "in" => mutex = "ready" /\ owner = t

\* The inductive invariant of the critical construct.
CriticalInv == NobodyAssumed /\ Critical!TypeOK /\ SectionInv /\ MutexInv /\ HolderInv

----------------------------------------------------------------------------
\* Every state in which the threads may start satisfies the invariant.
LEMMA CriticalInit == NobodyAssumed /\ Critical!Init => CriticalInv
<1> SUFFICES ASSUME NobodyAssumed, Critical!Init PROVE CriticalInv
  OBVIOUS
<1>1. mutex \in {"NULL", "ready"} /\ mallocs = IF mutex = "NULL" THEN 0 ELSE 1
  <2> PICK c \in Created : mutex = (IF c THEN "ready" ELSE "NULL") /\ mallocs = (IF c THEN 1 ELSE 0)
    BY DEF Critical!Init
  <2>1. CASE c
    BY <2>1
  <2>2. CASE ~c
    BY <2>2
  <2> QED
    BY <2>1, <2>2
<1>2. Critical!TypeOK
  <2>1. mallocs \in 0 .. 1
    BY <1>1
  <2>2. early \in BOOLEAN
    BY Zenon DEF Critical!Init
  <2>3. cpc \in [Users -> {"out", "create", "recheck", "init", "unlock", "lock", "asleep", "in"}]
    BY DEF Critical!Init
  <2> QED
    BY <1>1, <2>1, <2>2, <2>3, Zenon DEF Critical!Init, Critical!TypeOK
<1>3. SectionInv /\ MutexInv /\ HolderInv
  BY <1>1 DEF NobodyAssumed, Critical!Init, SectionInv, MutexInv, HolderInv
<1> QED
  BY <1>2, <1>3 DEF CriticalInv

\* Every step of ompc_enter_critical and ompc_exit_critical preserves it.
LEMMA CriticalNext == CriticalInv /\ [Critical!Next]_(Critical!vars) => CriticalInv'
<1> SUFFICES ASSUME CriticalInv, [Critical!Next]_(Critical!vars) PROVE CriticalInv'
  OBVIOUS
<1> USE DEF NobodyAssumed, CriticalInv, Critical!Goto
<1>1. ASSUME NEW t \in Users, Critical!Enter(t) PROVE CriticalInv'
  BY <1>1 DEF Critical!Enter, Critical!TypeOK, SectionInv, MutexInv, HolderInv
<1>2. ASSUME NEW t \in Users, Critical!LockCritical(t) PROVE CriticalInv'
  BY <1>2 DEF Critical!LockCritical, Critical!TypeOK, SectionInv, MutexInv, HolderInv
<1>3. ASSUME NEW t \in Users, Critical!Allocate(t) PROVE CriticalInv'
  BY <1>3 DEF Critical!Allocate, Critical!TypeOK, SectionInv, MutexInv, HolderInv
<1>4. ASSUME NEW t \in Users, Critical!InitLock(t) PROVE CriticalInv'
  BY <1>4 DEF Critical!InitLock, Critical!TypeOK, SectionInv, MutexInv, HolderInv
<1>5. ASSUME NEW t \in Users, Critical!UnlockCritical(t) PROVE CriticalInv'
  BY <1>5 DEF Critical!UnlockCritical, Critical!TypeOK, SectionInv, MutexInv, HolderInv
<1>6. ASSUME NEW t \in Users, Critical!Lock(t) PROVE CriticalInv'
  BY <1>6, Zenon DEF Critical!Lock, Critical!LockIf, Critical!TypeOK, SectionInv, MutexInv, HolderInv
<1>7. ASSUME NEW t \in Users, Critical!LockAsleep(t) PROVE CriticalInv'
  BY <1>7 DEF Critical!LockAsleep, Critical!TypeOK, SectionInv, MutexInv, HolderInv
<1>8. ASSUME NEW t \in Users, Critical!Exit(t) PROVE CriticalInv'
  BY <1>8 DEF Critical!Exit, Critical!ExitWith, Critical!TypeOK, SectionInv, MutexInv, HolderInv
<1>9. CASE UNCHANGED Critical!vars
  BY <1>9 DEF Critical!vars, Critical!TypeOK, SectionInv, MutexInv, HolderInv
<1> QED
  BY <1>1, <1>2, <1>3, <1>4, <1>5, <1>6, <1>7, <1>8, <1>9 DEF Critical!Next

\* The inductive invariant holds in every reachable state.
LEMMA CriticalAlways == NobodyAssumed /\ Critical!Spec => []CriticalInv
BY CriticalInit, CriticalNext, PTL DEF Critical!Spec

\* Every variable keeps its type; in particular at most one mutex is allocated for
\* a name (the second test of *p in ompc_enter_critical).
THEOREM CriticalTypeCorrect == NobodyAssumed /\ Critical!Spec => []Critical!TypeOK
BY CriticalAlways, PTL DEF CriticalInv

\* Whatever the number of threads, two of them are inside together only if one has
\* locked the mutex before ompc_init_lock.
THEOREM CriticalExcludes == NobodyAssumed /\ Critical!Spec => []Critical!ExclusionOnceReady
<1>1. CriticalInv => Critical!ExclusionOnceReady
  BY DEF CriticalInv, HolderInv, Critical!ExclusionOnceReady, Critical!Inside
<1> QED
  BY <1>1, CriticalAlways, PTL

\* Whatever the number of threads, a mutex that is ready is never initialised or
\* replaced.
THEOREM CriticalKeepsMutex == NobodyAssumed /\ Critical!Spec => Critical!ReadyForever
<1>1. CriticalInv /\ [Critical!Next]_(Critical!vars)
        => [mutex = "ready" => mutex' = "ready"]_(Critical!vars)
  BY DEF CriticalInv, MutexInv, Critical!Next, Critical!vars, Critical!Goto, Critical!Enter,
         Critical!LockCritical, Critical!Allocate, Critical!InitLock,
         Critical!UnlockCritical, Critical!Lock, Critical!LockIf, Critical!LockAsleep,
         Critical!Exit, Critical!ExitWith
<1> QED
  BY <1>1, CriticalAlways, PTL DEF Critical!Spec, Critical!ReadyForever
=============================================================================
