------------------------------- MODULE XmpLock -------------------------------
(***************************************************************************)
(* The lock and unlock directives over GASNet                              *)
(* (libxmp/src/xmp_lock_unlock_gasnet.c).  A lock lives on the node that   *)
(* declares it, with a circular list of the nodes that wait for it; other  *)
(* nodes reach it by active messages.  An unlocker that finds a waiter is  *)
(* told its rank and passes the lock on by a message of its own.           *)
(*                                                                         *)
(* configure.in links the single-threaded GASNet ("-seq.mak"): a handler   *)
(* runs while its node is inside a GASNet call, never beside other code of *)
(* the node, and the handler-safe locks (hsl) are empty.  GASNet delivers  *)
(* every message once and in any order.                                    *)
(*                                                                         *)
(* A cell of the list, local_lockstate and local_handoffarg are set to     *)
(* Nobody or "none" once the code will not read them before it writes them *)
(* again.                                                                  *)
(***************************************************************************)
EXTENDS XmpNodes

CONSTANTS
  Locks,    \* <<rank, offset>>: elements of lock arrays that the program uses
  Lockers,  \* the nodes that execute lock directives
  SizeOf,   \* sizeof(xmp_lock_t), 40 on a 64-bit machine
  Chunk     \* _XMP_LOCK_CHUNK

ASSUME LocksAssumption == Locks \subseteq Nodes \X Nat
ASSUME LockersAssumption == Lockers \subseteq Nodes
ASSUME ChunkAssumption == Chunk \in Nat \ {0}

VARIABLES
  lock,              \* the lock objects
  local_lockstate,   \* local_lockstate and local_handoffarg of each node
  local_handoffarg,
  net,               \* active messages under way
  want,              \* the lock that a node's directive names
  holds,             \* the locks that a node has by its own account
  owner              \* history: whose each lock is, by do_lock and do_unlock

vars == <<pc, lock, local_lockstate, local_handoffarg, net, want, holds, owner>>

Nobody == -1
NoLock == << >>

smaller(a, b) == IF a < b THEN a ELSE b

\* _xmp_gasnet_lock_initialize
FreshLock ==
  LET size == smaller(Chunk, N)
  IN  [islocked |-> FALSE, wait_size |-> size, wait_head |-> 0, wait_tail |-> 0,
       wait_list |-> [i \in 0 .. size-1 |-> Nobody]]

Init ==
  /\ pc = [n \in Nodes |-> "run"]
  /\ lock = [l \in Locks |-> FreshLock]
  /\ local_lockstate = [n \in Nodes |-> "none"]
  /\ local_handoffarg = [n \in Nodes |-> Nobody]
  /\ net = {}
  /\ want = [n \in Nodes |-> NoLock]
  /\ holds = [n \in Nodes |-> {}]
  /\ owner = [l \in Locks |-> Nobody]

(***************************************************************************)
(* The list of waiters.                                                    *)
(***************************************************************************)
After(k, i) == IF i + 1 = k.wait_size THEN 0 ELSE i + 1

\* A list with room for size entries, the waiters moved to its front.
GrowTo(k, size) ==
  LET leading == k.wait_size - k.wait_head
  IN  [k EXCEPT !.wait_size = size, !.wait_head = 0, !.wait_tail = k.wait_size,
                !.wait_list = [i \in 0 .. size-1 |->
                    CASE i < leading     -> k.wait_list[k.wait_head + i]
                      [] i \in leading .. k.wait_size-1 -> k.wait_list[i - leading]
                      [] OTHER           -> Nobody]]

Grow(k) == GrowTo(k, smaller(k.wait_size + Chunk, N))

Added(k, n) == [k EXCEPT !.wait_list[k.wait_tail] = n, !.wait_tail = After(k, k.wait_tail)]

\* Mutant: a full list is copied in the order of memory, not of arrival.
PushUnrotated(k, n) ==
  LET added == Added(k, n)
  IN  IF added.wait_tail = added.wait_head
      THEN [Grow(added) EXCEPT !.wait_list = [i \in DOMAIN @ |->
              IF i < added.wait_size THEN added.wait_list[i] ELSE Nobody]]
      ELSE added

\* Append a waiter; a list that has become full grows at once.
Push(k, n) ==
  LET added == Added(k, n)
  IN  IF added.wait_tail = added.wait_head THEN Grow(added) ELSE added

IsEmpty(k) == k.wait_head = k.wait_tail

Pop(k) == [k EXCEPT !.wait_head = After(k, k.wait_head), !.wait_list[k.wait_head] = Nobody]

\* The waiters in the order in which the list gives them out.
Wrap(k, i) == IF i < k.wait_size THEN i ELSE i - k.wait_size
Length(k) ==
  IF k.wait_head <= k.wait_tail THEN k.wait_tail - k.wait_head
  ELSE k.wait_tail + k.wait_size - k.wait_head
Waiters(k) == [i \in 1 .. Length(k) |-> k.wait_list[Wrap(k, k.wait_head + i - 1)]]

(***************************************************************************)
(* _xmp_gasnet_do_lock and _xmp_gasnet_do_unlock, executed by the node     *)
(* that has the lock, on behalf of node n.                                 *)
(***************************************************************************)
do_lock(n, l) ==
  /\ lock' = [lock EXCEPT ![l] = IF @.islocked THEN Push(@, n) ELSE [@ EXCEPT !.islocked = TRUE]]
  /\ owner' = IF lock[l].islocked THEN owner ELSE [owner EXCEPT ![l] = n]

LockReply(l) == IF lock[l].islocked THEN "WAITING" ELSE "GRANTED"

HeadWaiter(l) == lock[l].wait_list[lock[l].wait_head]

UnlockWith(l, handedOff) ==
  /\ lock' = [lock EXCEPT ![l] = IF IsEmpty(@) THEN [@ EXCEPT !.islocked = FALSE] ELSE handedOff]
  /\ owner' = [owner EXCEPT ![l] = IF IsEmpty(lock[l]) THEN Nobody ELSE HeadWaiter(l)]

\* Mutant: the lock is marked free although it is handed off.
do_unlockAlways(l) == UnlockWith(l, [Pop(lock[l]) EXCEPT !.islocked = FALSE])

do_unlock(l) == UnlockWith(l, Pop(lock[l]))

UnlockReply(l) == IF IsEmpty(lock[l]) THEN "DONE" ELSE "HANDOFF"

(***************************************************************************)
(* The directives.                                                         *)
(***************************************************************************)
Request(type, n, l) == [type |-> type, from |-> n, to |-> l[1], lock |-> l]
SetLockState(n, state) == [type |-> "SETLOCKSTATE", to |-> n, state |-> state]
LockHandoff(n, next) == [type |-> "LOCKHANDOFF", to |-> n, next |-> next]

\* _xmp_gasnet_lock on the node's own lock
LockOwn(n, l) ==
  /\ l[1] = n /\ l \notin holds[n]
  /\ Goto(n, "run", "locking")
  /\ do_lock(n, l)
  /\ local_lockstate' = [local_lockstate EXCEPT ![n] = LockReply(l)]
  /\ want' = [want EXCEPT ![n] = l]
  /\ UNCHANGED <<local_handoffarg, net, holds>>

\* _xmp_gasnet_lock on another node's lock, up to the request
LockRemote(n, l) ==
  /\ l[1] # n /\ l \notin holds[n]
  /\ Goto(n, "run", "lock_request")
  /\ local_lockstate' = [local_lockstate EXCEPT ![n] = "WAITING"]
  /\ want' = [want EXCEPT ![n] = l]
  /\ UNCHANGED <<lock, local_handoffarg, net, holds, owner>>

\* gasnet_AMRequestShort3: handlers of this node may run in it before the message
\* leaves.
SendRequest(n, from, type, to) ==
  /\ Goto(n, from, to)
  /\ net' = net \cup {Request(type, n, want[n])}
  /\ UNCHANGED <<lock, local_lockstate, local_handoffarg, want, holds, owner>>

SendLockRequest(n) == SendRequest(n, "lock_request", "LOCK_REQUEST", "locking")
SendUnlockRequest(n) == SendRequest(n, "unlock_request", "UNLOCK_REQUEST", "unlocking")

\* GASNET_BLOCKUNTIL at the end of _xmp_gasnet_lock
Locked(n) ==
  /\ local_lockstate[n] # "WAITING"
  /\ Goto(n, "locking", "run")
  /\ holds' = [holds EXCEPT ![n] = @ \cup {want[n]}]
  /\ want' = [want EXCEPT ![n] = NoLock]
  /\ local_lockstate' = [local_lockstate EXCEPT ![n] = "none"]
  /\ UNCHANGED <<lock, local_handoffarg, net, owner>>

\* The element that _XMP_unlock addresses: it multiplies the offset by the size of
\* an element, and _xmp_gasnet_unlock adds the product to a pointer to elements.
Unlocks(l) == <<l[1], l[2] * SizeOf>>

UnlockOwn(n, l) ==
  /\ l \in holds[n] /\ l[1] = n /\ Unlocks(l) \in Locks
  /\ Goto(n, "run", "unlocking")
  /\ do_unlock(Unlocks(l))
  /\ local_lockstate' = [local_lockstate EXCEPT ![n] = UnlockReply(Unlocks(l))]
  /\ local_handoffarg' =
       [local_handoffarg EXCEPT ![n] = IF IsEmpty(lock[Unlocks(l)]) THEN @ ELSE HeadWaiter(Unlocks(l))]
  /\ holds' = [holds EXCEPT ![n] = @ \ {l}]
  /\ want' = [want EXCEPT ![n] = Unlocks(l)]
  /\ UNCHANGED net

UnlockRemote(n, l) ==
  /\ l \in holds[n] /\ l[1] # n /\ Unlocks(l) \in Locks
  /\ Goto(n, "run", "unlock_request")
  /\ local_lockstate' = [local_lockstate EXCEPT ![n] = "WAITING"]
  /\ holds' = [holds EXCEPT ![n] = @ \ {l}]
  /\ want' = [want EXCEPT ![n] = Unlocks(l)]
  /\ UNCHANGED <<lock, local_handoffarg, net, owner>>

\* The rest of _xmp_gasnet_unlock after GASNET_BLOCKUNTIL, with the message that
\* gives the lock to the next node.
UnlockedSending(n, grant) ==
  /\ local_lockstate[n] # "WAITING"
  /\ Goto(n, "unlocking", "run")
  /\ want' = [want EXCEPT ![n] = NoLock]
  /\ LET own == local_handoffarg[n] = n
     IN  /\ local_lockstate' = [local_lockstate EXCEPT ![n] =
                                  IF @ = "HANDOFF" /\ own THEN "GRANTED" ELSE "none"]
         /\ net' = IF local_lockstate[n] = "HANDOFF" /\ ~own THEN net \cup grant ELSE net
  /\ local_handoffarg' = [local_handoffarg EXCEPT ![n] = Nobody]
  /\ UNCHANGED <<lock, holds, owner>>

\* Mutant: the next node is not told.
UnlockedSilently(n) == UnlockedSending(n, {})

Unlocked(n) == UnlockedSending(n, {SetLockState(local_handoffarg[n], "GRANTED")})

(***************************************************************************)
(* The handlers.  HandleRequest(n) runs on the node that has the lock, for *)
(* a request of node n; HandleReply(n) runs on n.                          *)
(***************************************************************************)
HandleLockRequestSending(n, answers) ==
  \E m \in net :
    /\ m.type = "LOCK_REQUEST" /\ m.from = n
    /\ do_lock(n, m.lock)
    /\ net' = (net \ {m}) \cup
         {SetLockState(n, state) : state \in {LockReply(m.lock)} \cap answers}
    /\ UNCHANGED <<pc, local_lockstate, local_handoffarg, want, holds>>

\* Mutant: a request that has to wait is answered too.
HandleLockRequestAlways(n) == HandleLockRequestSending(n, {"WAITING", "GRANTED"})

HandleLockRequest(n) == HandleLockRequestSending(n, {"GRANTED"})

HandleUnlockRequest(n) ==
  \E m \in net :
    /\ m.type = "UNLOCK_REQUEST" /\ m.from = n
    /\ do_unlock(m.lock)
    /\ net' = (net \ {m}) \cup
         (IF IsEmpty(lock[m.lock])
          THEN {SetLockState(n, UnlockReply(m.lock))}
          ELSE {LockHandoff(n, HeadWaiter(m.lock))})
    /\ UNCHANGED <<pc, local_lockstate, local_handoffarg, want, holds>>

HandleSetLockState(n) ==
  \E m \in net :
    /\ m.type = "SETLOCKSTATE" /\ m.to = n
    /\ net' = net \ {m}
    /\ local_lockstate' = [local_lockstate EXCEPT ![n] = m.state]
    /\ UNCHANGED <<pc, lock, local_handoffarg, want, holds, owner>>

HandleLockHandoff(n) ==
  \E m \in net :
    /\ m.type = "LOCKHANDOFF" /\ m.to = n
    /\ net' = net \ {m}
    /\ local_handoffarg' = [local_handoffarg EXCEPT ![n] = m.next]
    /\ local_lockstate' = [local_lockstate EXCEPT ![n] = "HANDOFF"]
    /\ UNCHANGED <<pc, lock, want, holds, owner>>

Handlers(n) ==
  HandleLockRequest(n) \/ HandleUnlockRequest(n) \/ HandleSetLockState(n) \/ HandleLockHandoff(n)

\* The end of a critical section, and every later step of a directive that has begun.
Unlock(n) == \E l \in Locks : UnlockOwn(n, l) \/ UnlockRemote(n, l)
Continue(n) == SendLockRequest(n) \/ SendUnlockRequest(n) \/ Locked(n) \/ Unlocked(n)

\* A node locks only while it holds nothing.
Next ==
  \E n \in Nodes :
    \/ n \in Lockers /\ holds[n] = {} /\ \E l \in Locks : LockOwn(n, l) \/ LockRemote(n, l)
    \/ Unlock(n) \/ Continue(n) \/ Handlers(n)

Spec == Init /\ [][Next]_vars

\* Messages arrive, a node in a directive polls, and a critical section ends.
FairSpec ==
  /\ Spec
  /\ \A n \in Nodes :
       /\ WF_vars(HandleLockRequest(n)) /\ WF_vars(HandleUnlockRequest(n))
       /\ WF_vars(HandleSetLockState(n)) /\ WF_vars(HandleLockHandoff(n))
       /\ WF_vars(Continue(n)) /\ WF_vars(Unlock(n))

Requests == {"LOCK_REQUEST", "UNLOCK_REQUEST"}

\* Types; and the list of waiters has a place for its head and its tail, and grows to
\* no more than the number of nodes (_xmp_gasnet_do_lock).
TypeOK ==
  /\ \A l \in Locks :
       LET k == lock[l]
       IN  /\ k.islocked \in BOOLEAN
           /\ k.wait_size \in smaller(Chunk, N) .. N
           /\ k.wait_head \in 0 .. k.wait_size-1
           /\ k.wait_tail \in 0 .. k.wait_size-1
           /\ k.wait_list \in [0 .. k.wait_size-1 -> Nodes \cup {Nobody}]
  /\ local_lockstate \in [Nodes -> {"none", "WAITING", "GRANTED", "HANDOFF", "DONE"}]
  /\ local_handoffarg \in [Nodes -> Nodes \cup {Nobody}]
  /\ \A m \in net : m.to \in Nodes /\ (m.type \in Requests => m.lock \in Locks)
  /\ want \in [Nodes -> Locks \cup {NoLock}]
  /\ holds \in [Nodes -> SUBSET Locks]
  /\ owner \in [Locks -> Nodes \cup {Nobody}]

\* Two nodes never both have a lock by their own account, whatever requests, grants
\* and hand-offs are under way (xmp_lock_unlock_gasnet.c).
MutualExclusion ==
  \A n, m \in Nodes : n # m => holds[n] \cap holds[m] = {}

\* A reply or a grant reaches a node only while a directive of that node waits for
\* it: the node has one local_lockstate for all its locks, and a late message would
\* end the wrong wait (GASNET_BLOCKUNTIL in _xmp_gasnet_lock and _unlock).
NoStaleReply ==
  \A m \in net : m.type \notin Requests =>
    pc[m.to] \in {"locking", "unlocking"} /\ local_lockstate[m.to] = "WAITING"

\* The lock as XmpLockSpec sees it.
Abstract == INSTANCE XmpLockSpec WITH queue <- [l \in Locks |-> Waiters(lock[l])]

\* do_lock and do_unlock treat a lock as the abstract lock does: the circular list,
\* grown and wrapped, is the queue of the waiters in the order of arrival, and a lock
\* passes from its owner to the head of the queue, or to nobody.  Who asks for the
\* release is not compared: MutualExclusion is about that.
ImplementsLock == Abstract!Spec

\* Every lock directive ends: no grant is lost between the node that unlocks, the
\* node that has the lock and the next in line, and nobody is overtaken for ever.
LockGranted == \A n \in Nodes : pc[n] \in {"lock_request", "locking"} ~> pc[n] = "run"
=============================================================================
