---------------------------- MODULE XmpLockSpec ----------------------------
(***************************************************************************)
(* What the lock and unlock directives of XcalableMP promise: a lock       *)
(* belongs to at most one node, and nodes that find it taken get it in the *)
(* order of their arrival.  XmpLock implements this with messages.         *)
(***************************************************************************)
EXTENDS Sequences

CONSTANTS Nodes, Locks, Nobody

VARIABLES
  owner,  \* whose each lock is
  queue   \* who waits for it

vars == <<owner, queue>>

Init ==
  /\ owner = [l \in Locks |-> Nobody]
  /\ queue = [l \in Locks |-> << >>]

Acquire(n, l) ==
  /\ owner[l] = Nobody
  /\ owner' = [owner EXCEPT ![l] = n]
  /\ UNCHANGED queue

Wait(n, l) ==
  /\ owner[l] \notin {Nobody, n}
  /\ queue' = [queue EXCEPT ![l] = Append(@, n)]
  /\ UNCHANGED owner

Release(n, l) ==
  /\ owner[l] = n
  /\ IF queue[l] = << >>
     THEN owner' = [owner EXCEPT ![l] = Nobody] /\ UNCHANGED queue
     ELSE /\ owner' = [owner EXCEPT ![l] = Head(queue[l])]
          /\ queue' = [queue EXCEPT ![l] = Tail(@)]

Next == \E n \in Nodes, l \in Locks : Acquire(n, l) \/ Wait(n, l) \/ Release(n, l)

Spec == Init /\ [][Next]_vars
=============================================================================
