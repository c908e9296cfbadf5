---------------------------- MODULE OmpcNestLock ----------------------------
(***************************************************************************)
(* The nestable lock of libompc (libompc/src/ompc_lock.c, the pthread      *)
(* variant that the Makefile builds): two mutexes, the identity of the     *)
(* owner and a nesting count.  The owner keeps the mutex "wait" as long as *)
(* the count is not zero; "lock" protects the fields.                      *)
(*                                                                         *)
(* The threads call omp_set_nest_lock, omp_test_nest_lock and              *)
(* omp_unset_nest_lock in any order that OpenMP allows: only a thread that *)
(* holds the lock unsets it.  Every access to a mutex, and every access to *)
(* a field that is not protected by one, is a step.                        *)
(***************************************************************************)
EXTENDS Naturals

CONSTANTS
  Threads,   \* the processors, by _OMPC_PROC_SELF
  Nobody,    \* a mutex that nobody holds; also garbage in id
  MaxDepth   \* bound: how deep a thread nests the lock

ASSUME NobodyAssumption == Nobody \notin Threads
ASSUME MaxDepthAssumption == MaxDepth \in Nat \ {0}

VARIABLES
  lock, wait,  \* holders of the two mutexes
  id, count,   \* lp->id, lp->count
  pc,          \* where each thread is; "out" is the program
  op,          \* the operation a thread executes or executed last
  wl,          \* the local wl of ompc_nest_lock
  held         \* sets and tests that succeeded, less unsets, of each thread

vars == <<lock, wait, id, count, pc, op, wl, held>>

Holder == Threads \cup {Nobody}

Goto(t, p) == pc' = [pc EXCEPT ![t] = p]

\* ompc_init_nest_lock: id is left as malloc returned it.
Init ==
  /\ lock = Nobody /\ wait = Nobody
  /\ id \in Holder
  /\ count = 0
  /\ pc = [t \in Threads |-> "out"]
  /\ op = [t \in Threads |-> "set"]
  /\ wl = [t \in Threads |-> 0]
  /\ held = [t \in Threads |-> 0]

\* omp_destroy_nest_lock and omp_init_nest_lock by a thread of the program,
\* which may not do so while the lock is in use.
Renew ==
  /\ \A t \in Threads : pc[t] = "out" /\ held[t] = 0
  /\ lock' = Nobody /\ wait' = Nobody
  /\ id' \in Holder
  /\ count' = 0
  /\ UNCHANGED <<pc, op, wl, held>>

----------------------------------------------------------------------------
(* Calls and mutexes.                                                       *)

Call(t, o, p) ==
  /\ pc[t] = "out"
  /\ op' = [op EXCEPT ![t] = o]
  /\ Goto(t, p)
  /\ UNCHANGED <<lock, wait, id, count, wl>>

SetCall(t) == held[t] < MaxDepth /\ Call(t, "set", "count") /\ UNCHANGED held

TestCall(t) == held[t] < MaxDepth /\ Call(t, "test", "count") /\ UNCHANGED held

\* From the call of unset on the program may not rely on the lock.
UnsetCall(t) ==
  /\ held[t] > 0
  /\ Call(t, "unset", "ulock")
  /\ held' = [held EXCEPT ![t] = @ - 1]

AcquireLock(t, from, to) ==
  /\ pc[t] = from
  /\ lock = Nobody /\ lock' = t
  /\ Goto(t, to)
  /\ UNCHANGED <<wait, id, count, op, wl, held>>

AcquireWait(t, from, to) ==
  /\ pc[t] = from
  /\ wait = Nobody /\ wait' = t
  /\ Goto(t, to)
  /\ UNCHANGED <<lock, id, count, op, wl, held>>

ReleaseLock(t, from, to) ==
  /\ pc[t] = from
  /\ lock' = Nobody
  /\ Goto(t, to)
  /\ UNCHANGED <<wait, id, count, op, wl, held>>

ReleaseWait(t, from, to) ==
  /\ pc[t] = from
  /\ wait' = Nobody
  /\ Goto(t, to)
  /\ UNCHANGED <<lock, id, count, op, wl, held>>

----------------------------------------------------------------------------
(* ompc_nest_lock and ompc_test_nest_lock.                                  *)

\* lp->count != 0 && lp->id != id, read without a mutex, in this order.
ReadCount(t) ==
  /\ pc[t] = "count"
  /\ Goto(t, IF count # 0 THEN "id" ELSE IF op[t] = "set" THEN "lock" ELSE "ttry")
  /\ UNCHANGED <<lock, wait, id, count, op, wl, held>>

ReadId(t) ==
  /\ pc[t] = "id"
  /\ Goto(t, CASE id # t /\ op[t] = "set"  -> "lockwait"
               [] id # t /\ op[t] = "test" -> "out"
               [] id = t /\ op[t] = "set"  -> "lock"
               [] id = t /\ op[t] = "test" -> "ttry")
  /\ UNCHANGED <<lock, wait, id, count, op, wl, held>>

LockWait(t) == AcquireWait(t, "lockwait", "trylock")

\* ompc_test_lock(&lp->lock), while the thread holds lp->wait.
TryLock(t) ==
  /\ pc[t] = "trylock"
  /\ IF lock = Nobody
     THEN lock' = t /\ wl' = [wl EXCEPT ![t] = 1] /\ Goto(t, "check")
     ELSE Goto(t, "dropwait") /\ UNCHANGED <<lock, wl>>
  /\ UNCHANGED <<wait, id, count, op, held>>

DropWait(t) == ReleaseWait(t, "dropwait", "count")

LockLock(t) ==
  /\ pc[t] = "lock"
  /\ lock = Nobody /\ lock' = t
  /\ wl' = [wl EXCEPT ![t] = 0]
  /\ Goto(t, "check")
  /\ UNCHANGED <<wait, id, count, op, held>>

\* ompc_test_lock(&lp->lock) of ompc_test_nest_lock, which returns 0 on failure.
TestLock(t) ==
  /\ pc[t] = "ttry"
  /\ IF lock = Nobody
     THEN lock' = t /\ wl' = [wl EXCEPT ![t] = 0] /\ Goto(t, "check")
     ELSE Goto(t, "out") /\ UNCHANGED <<lock, wl>>
  /\ UNCHANGED <<wait, id, count, op, held>>

Inspect(t, mine, free) ==
  /\ pc[t] = "check"
  /\ \/ /\ count # 0 /\ mine
        /\ count' = count + 1 /\ Goto(t, "unlock")
     \/ /\ count # 0 /\ ~mine
        /\ Goto(t, "backlock") /\ UNCHANGED count
     \/ /\ count = 0
        /\ Goto(t, free) /\ UNCHANGED count
  /\ UNCHANGED <<lock, wait, id, op, wl, held>>

\* Mutant: the owner is not compared.
CheckAnyOwner(t) == Inspect(t, TRUE, IF wl[t] = 0 THEN "getwait" ELSE "setid")

\* The fields, under lp->lock.
Check(t) == Inspect(t, id = t, IF wl[t] = 0 THEN "getwait" ELSE "setid")

\* Another thread owns the lock: give the mutexes back, then retry or return 0.
BackLock(t) ==
  /\ pc[t] = "backlock"
  /\ lock' = Nobody
  /\ Goto(t, IF op[t] = "test" THEN "out" ELSE IF wl[t] = 1 THEN "dropwait" ELSE "count")
  /\ UNCHANGED <<wait, id, count, op, wl, held>>

GetWait(t) == AcquireWait(t, "getwait", "setid")

SetId(t) ==
  /\ pc[t] = "setid"
  /\ id' = t
  /\ Goto(t, "setcount")
  /\ UNCHANGED <<lock, wait, count, op, wl, held>>

SetCount(t) ==
  /\ pc[t] = "setcount"
  /\ count' = 1
  /\ Goto(t, "unlock")
  /\ UNCHANGED <<lock, wait, id, op, wl, held>>

\* ompc_nest_lock returns here; ompc_test_nest_lock has still to read lp->count.
Unlock(t) ==
  /\ pc[t] = "unlock"
  /\ lock' = Nobody
  /\ held' = [held EXCEPT ![t] = @ + 1]
  /\ Goto(t, IF op[t] = "set" THEN "out" ELSE "tret")
  /\ UNCHANGED <<wait, id, count, op, wl>>

\* return lp->count
TestReturn(t) ==
  /\ pc[t] = "tret"
  /\ Goto(t, "out")
  /\ UNCHANGED <<lock, wait, id, count, op, wl, held>>

----------------------------------------------------------------------------
(* ompc_nest_unlock.                                                        *)

UnsetLock(t) == AcquireLock(t, "ulock", "dec")

Decrement(t, n, last) ==
  /\ pc[t] = "dec"
  /\ count' = n
  /\ Goto(t, IF last THEN "ulast" ELSE "uunlock")
  /\ UNCHANGED <<lock, wait, id, op, wl, held>>

\* Mutant: one unset undoes all sets.
DecToZero(t) == Decrement(t, 0, TRUE)

Dec(t) == Decrement(t, count - 1, count = 1)

UnsetUnlock(t) == ReleaseLock(t, "uunlock", "out")

\* Mutant: the last unset never lets go of lp->lock.
UnsetLastKeepLock(t) == pc[t] = "ulast" /\ Goto(t, "uwait")
                        /\ UNCHANGED <<lock, wait, id, count, op, wl, held>>

UnsetLast(t) == ReleaseLock(t, "ulast", "uwait")

UnsetWait(t) == ReleaseWait(t, "uwait", "out")

----------------------------------------------------------------------------
Step(t) ==
  \/ ReadCount(t) \/ ReadId(t) \/ LockWait(t) \/ TryLock(t) \/ DropWait(t)
  \/ LockLock(t) \/ TestLock(t) \/ Check(t) \/ BackLock(t) \/ GetWait(t)
  \/ SetId(t) \/ SetCount(t) \/ Unlock(t) \/ TestReturn(t)
  \/ UnsetLock(t) \/ Dec(t) \/ UnsetUnlock(t) \/ UnsetLast(t) \/ UnsetWait(t)

Next == Renew \/ \E t \in Threads : SetCall(t) \/ TestCall(t) \/ UnsetCall(t) \/ Step(t)

Spec == Init /\ [][Next]_vars

\* Threads inside an operation are scheduled; the program need not call.
FairSpec == Spec /\ \A t \in Threads : WF_vars(Step(t))

----------------------------------------------------------------------------
\* Types; the count, which is changed under either of two mutexes, keeps to the depths.
TypeOK ==
  /\ lock \in Holder /\ wait \in Holder /\ id \in Holder
  /\ count \in 0 .. MaxDepth
  /\ pc \in [Threads -> {"out", "count", "id", "lockwait", "trylock", "dropwait", "lock",
                         "ttry", "check", "backlock", "getwait", "setid", "setcount",
                         "unlock", "tret", "ulock", "dec", "uunlock", "ulast", "uwait"}]
  /\ op \in [Threads -> {"set", "test", "unset"}]
  /\ wl \in [Threads -> {0, 1}]
  /\ held \in [Threads -> 0 .. MaxDepth]

\* Two threads never hold the lock at once, whatever sets, tests and unsets
\* of other threads are under way.
MutualExclusion ==
  \A t, u \in Threads : held[t] > 0 /\ held[u] > 0 => t = u

\* Between two operations of a thread lp->count is the number of its sets
\* that it has not undone; so omp_test_nest_lock, which reads lp->count after
\* it gave lp->lock back, returns the depth of its own set.
CountIsDepth ==
  \A t \in Threads : pc[t] \in {"out", "tret"} =>
    held[t] = IF count # 0 /\ id = t THEN count ELSE 0

\* Each mutex is given back by the thread that holds it, as POSIX demands.
UnlockByHolder ==
  \A t \in Threads :
    /\ pc[t] \in {"backlock", "unlock", "uunlock", "ulast"} => lock = t
    /\ pc[t] \in {"dropwait", "uwait"} => wait = t

\* From the moment lp->wait lets a thread in until it gives lp->wait back or
\* becomes the owner, nobody owns the lock.  So what sends it back to retry is
\* a failed trylock of lp->lock, which another thread holds for a moment, and
\* never an owner: of the retry under lp->lock only the case wl = 0 occurs.
WaiterFindsFree ==
  \A t \in Threads :
    /\ pc[t] \in {"trylock", "dropwait"} => count = 0
    /\ pc[t] = "check" /\ wl[t] = 1 => count = 0
    /\ pc[t] = "backlock" => wl[t] = 0

\* A lock that is wanted is taken: the threads do not block or send each
\* other back to retry for ever.
WantedIsTaken ==
  (\E t \in Threads : pc[t] # "out" /\ op[t] = "set") ~> (\E t \in Threads : held[t] > 0)
=============================================================================
