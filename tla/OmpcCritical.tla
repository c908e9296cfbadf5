---------------------------- MODULE OmpcCritical ----------------------------
(***************************************************************************)
(* The critical construct of libompc (libompc/src/ompc_runtime.c:          *)
(* ompc_enter_critical, ompc_exit_critical).  The compiler gives every     *)
(* critical name one pointer, initially NULL; the first thread to arrive   *)
(* allocates the mutex under _critical_lock, and publishes the pointer     *)
(* before it initialises what it points to.                                *)
(***************************************************************************)
EXTENDS Integers, FiniteSets

CONSTANTS
  Threads,
  Nobody,   \* the owner of a free mutex
  Created,  \* the mutexes that may exist when the threads start (a BOOLEAN set)
  Fresh     \* what pthread_mutex_lock may find in memory just allocated

ASSUME NobodyAssumption == Nobody \notin Threads
ASSUME CreatedAssumption == Created \subseteq BOOLEAN
ASSUME FreshAssumption == Fresh \subseteq {"free", "locked"}

VARIABLES
  lock,      \* *p: NULL, "raw" between malloc and ompc_init_lock, "ready"
  raw,       \* how the memory of a raw mutex looks to pthread_mutex_lock
  owner,     \* the thread that holds the mutex
  critical,  \* owner of _critical_lock
  mallocs,   \* history: mutexes allocated for this name
  early,     \* history: a thread has locked the mutex before its initialisation
  pc

vars == <<lock, raw, owner, critical, mallocs, early, pc>>

Init ==
  /\ \E c \in Created :
       lock = (IF c THEN "ready" ELSE "NULL") /\ mallocs = (IF c THEN 1 ELSE 0)
  /\ raw \in Fresh
  /\ owner = Nobody
  /\ critical = Nobody
  /\ early = FALSE
  /\ pc = [t \in Threads |-> "out"]

Goto(t, from, to) == pc[t] = from /\ pc' = [pc EXCEPT ![t] = to]

\* if (*p == NULL), outside any lock
Enter(t) ==
  /\ Goto(t, "out", IF lock = "NULL" THEN "create" ELSE "lock")
  /\ UNCHANGED <<lock, raw, owner, critical, mallocs, early>>

\* ompc_lock(&_critical_lock)
LockCritical(t) ==
  /\ Goto(t, "create", "recheck")
  /\ critical = Nobody
  /\ critical' = t
  /\ UNCHANGED <<lock, raw, owner, mallocs, early>>

\* The second test of *p, and malloc.
Allocate(t) ==
  /\ Goto(t, "recheck", IF lock = "NULL" THEN "init" ELSE "unlock")
  /\ lock' = IF lock = "NULL" THEN "raw" ELSE lock
  /\ mallocs' = IF lock = "NULL" THEN mallocs + 1 ELSE mallocs
  /\ UNCHANGED <<raw, owner, critical, early>>

\* ompc_init_lock(*p): whatever the mutex was, it is free now.
InitLock(t) ==
  /\ Goto(t, "init", "unlock")
  /\ lock' = "ready"
  /\ owner' = Nobody
  /\ UNCHANGED <<raw, critical, mallocs, early>>

UnlockCritical(t) ==
  /\ Goto(t, "unlock", "lock")
  /\ critical' = Nobody
  /\ UNCHANGED <<lock, raw, owner, mallocs, early>>

LockIf(t, free) ==
  /\ Goto(t, "lock", "in")
  /\ free
  /\ lock = "raw" => raw = "free"
  /\ owner' = t
  /\ early' = (early \/ lock = "raw")
  /\ UNCHANGED <<lock, raw, critical, mallocs>>

\* Mutant: the mutex is taken though another thread holds it.
LockTaken(t) == LockIf(t, TRUE)

\* ompc_lock(*p): on a mutex that is not initialised the outcome depends on what
\* the memory holds.
Lock(t) == LockIf(t, owner = Nobody)

\* Memory that looks like a locked mutex: pthread_mutex_lock sleeps, and the mutex
\* initialised over it wakes nobody.
LockAsleep(t) ==
  /\ Goto(t, "lock", "asleep")
  /\ lock = "raw" /\ raw = "locked"
  /\ early' = TRUE
  /\ UNCHANGED <<lock, raw, owner, critical, mallocs>>

ExitWith(t, new) ==
  /\ Goto(t, "in", "out")
  /\ owner' = new
  /\ UNCHANGED <<lock, raw, critical, mallocs, early>>

\* Mutant: the mutex is not released.
ExitKeepLock(t) == ExitWith(t, owner)

\* ompc_exit_critical
Exit(t) == ExitWith(t, Nobody)

Next ==
  \E t \in Threads :
    \/ Enter(t) \/ LockCritical(t) \/ Allocate(t) \/ InitLock(t)
    \/ UnlockCritical(t) \/ Lock(t) \/ LockAsleep(t) \/ Exit(t)

Spec == Init /\ [][Next]_vars

\* Threads inside the construct are scheduled; a thread may stay outside.  Which
\* of the waiting threads obtains a mutex is left open.
FairSpec ==
  /\ Spec
  /\ \A t \in Threads :
       WF_vars(LockCritical(t) \/ Allocate(t) \/ InitLock(t) \/ UnlockCritical(t)
               \/ Lock(t) \/ Exit(t))

----------------------------------------------------------------------------
\* Types; and a second thread that saw a null pointer does not create the mutex again.
TypeOK ==
  /\ lock \in {"NULL", "raw", "ready"}
  /\ raw \in Fresh
  /\ owner \in Threads \cup {Nobody}
  /\ critical \in Threads \cup {Nobody}
  /\ mallocs \in 0 .. 1
  /\ early \in BOOLEAN
  /\ pc \in [Threads -> {"out", "create", "recheck", "init", "unlock", "lock", "asleep", "in"}]

Inside == {t \in Threads : pc[t] = "in"}

\* At most one thread is inside the critical region of a name.  Threads that race for
\* the first entry violate this (ompc_enter_critical); what holds is ExclusionOnceReady.
MutualExclusion == Cardinality(Inside) <= 1

\* The race of the first entry is the only way to lose mutual exclusion: a thread
\* that locks the mutex after its initialisation is alone inside, and holds it.
ExclusionOnceReady == ~early => \A t, u \in Inside : t = u /\ owner = t

\* A mutex that is ready stays so: the double-checked test never replaces or
\* initialises again a mutex that threads may hold (ompc_enter_critical).
ReadyForever == [][lock = "ready" => lock' = "ready"]_vars

\* A region that a thread wants to enter is entered, again and again: _critical_lock
\* and the mutex never block all threads, unless a thread has met the mutex before
\* its initialisation (ompc_enter_critical, ompc_exit_critical).
EntersAtLast ==
  (\E t \in Threads : pc[t] \notin {"out", "in", "asleep"}) ~> (Inside # {} \/ early)
=============================================================================
