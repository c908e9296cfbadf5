------------------------------ MODULE XmpAsync ------------------------------
(***************************************************************************)
(* Asynchronous communication of libxmp on one node (xmp_async.c): the     *)
(* table of descriptors hashed by async id, with a chain behind each slot; *)
(* the async clause of bcast, reduction, reflect and gmove, with the node  *)
(* set of an on clause whose release waits for wait_async                  *)
(* (_XMP_exec_task_NODES_FINALIZE in xmp_nodes.c); wait_async and          *)
(* xmp_test_async.  MPI completes the requests in the background.          *)
(*                                                                         *)
(* A communication is a number; it is also the name of its MPI request.    *)
(***************************************************************************)
EXTENDS Integers, Sequences, FiniteSetsExt

CONSTANTS
    Ids,        \* async ids
    TableSize,  \* _XMP_ASYNC_COMM_SIZE
    MaxComms,   \* bound on the communications in flight or not waited for
    MaxNodes    \* bound on the node sets of on clauses not released

ASSUME SizeAssumption ==
    /\ Ids \subseteq Nat /\ TableSize \in Nat \ {0}
    /\ MaxComms \in Nat /\ MaxNodes \in Nat

Comms == 1 .. MaxComms
NodeSets == 1 .. MaxNodes
Kinds == {"collective", "gmove", "inout"}

\* A gmove is "moving", then "packed" in its receive buffer, then "done".
CommStates == {"free", "pending", "moving", "packed", "done"}

VARIABLES
    tab,        \* _XMP_async_comm_tab: slot -> the entry in it and its chain
    tmp,        \* _tmp_async: slot and position in its chain, << >> for NULL
    is_async,   \* _xmp_is_async
    pc,         \* where the program is in the code of a directive
    waiting,    \* argument of the wait_async directive
    comm,       \* state of each communication: see CommStates
    nodes,      \* node sets created and not finalized
    cur,        \* node set of the on clause, 0 for none
    issued      \* history: communications under an id since its last end

vars == <<tab, tmp, is_async, pc, waiting, comm, nodes, cur, issued>>

Slot(id) == id % TableSize

\* An entry; reqs has nreqs elements, 0 where no request was stored.
Entry(id, used) ==
    [id |-> id, used |-> used, reqs |-> << >>, nodes |-> << >>, gmove |-> 0, mode |-> "normal"]

Init ==
    /\ tab = [h \in 0 .. TableSize - 1 |-> << Entry(0, FALSE) >>]
    /\ tmp = << >>
    /\ is_async = FALSE
    /\ pc = "idle"
    /\ waiting = 0
    /\ comm = [c \in Comms |-> "free"]
    /\ nodes = {}
    /\ cur = 0
    /\ issued = [id \in Ids |-> {}]

Positions(id) == {k \in DOMAIN tab[Slot(id)] : tab[Slot(id)][k].id = id}

\* Mutant: the lookup does not follow the chain.
GetHead(id) == IF 1 \in Positions(id) THEN <<tab[Slot(id)][1]>> ELSE << >>

\* _XMP_get_async: the entry, << >> for NULL.  A slot out of use keeps its last id.
Get(id) == IF Positions(id) = {} THEN << >> ELSE <<tab[Slot(id)][Min(Positions(id))]>>

----------------------------------------------------------------------------
(* A communication directive with an async clause *)

\* xmpc_init_async
InitAsync(id) ==
    /\ pc = "idle" /\ pc' = "open"
    /\ is_async' = TRUE
    /\ LET chain == tab[Slot(id)]
           old == Positions(id)
       IN IF ~chain[1].used
          THEN /\ tab' = [tab EXCEPT ![Slot(id)][1].id = id, ![Slot(id)][1].used = TRUE]
               /\ tmp' = <<Slot(id), 1>>
          ELSE IF old # {}
          THEN /\ tmp' = <<Slot(id), Min(old)>>
               /\ UNCHANGED tab
          ELSE /\ tab' = [tab EXCEPT ![Slot(id)] = Append(@, Entry(id, TRUE))]
               /\ tmp' = <<Slot(id), Len(chain) + 1>>
    /\ UNCHANGED <<waiting, comm, nodes, cur, issued>>

\* _XMP_exec_task_NODES_PART for the on clause
ExecTask ==
    /\ pc = "open" /\ pc' = "task"
    /\ \E n \in NodeSets \ nodes :
        /\ 1 .. n - 1 \subseteq nodes
        /\ cur' = n
        /\ nodes' = nodes \cup {n}
    /\ UNCHANGED <<tab, tmp, is_async, waiting, comm, issued>>

Current == tab[tmp[1]][tmp[2]]

\* An id carries at most one gmove, and a gmove in or out shares it with nothing.
Separate(kind) ==
    /\ kind # "collective" => Current.gmove = 0
    /\ kind = "inout" => Current.reqs = << >>
    /\ Current.mode = "normal"

AfterComm == pc' = IF pc = "task" THEN "finalize" ELSE "start"

\* The entry with the request of one more communication, and its gmove.
WithComm(e, kind, c) ==
    [e EXCEPT !.reqs = Append(@, IF kind = "inout" THEN 0 ELSE c),
              !.gmove = IF kind = "collective" THEN @ ELSE c,
              !.mode = IF kind = "inout" THEN "inout" ELSE @]

\* The async branches of _XMP_bcast, _XMP_reduce and _XMP_gmove_1to1.
Issue(kind) ==
    /\ pc \in {"open", "task"} /\ AfterComm
    /\ Separate(kind)
    /\ \E c \in Comms :
        /\ comm[c] = "free"
        /\ \A d \in 1 .. c - 1 : comm[d] # "free"
        /\ comm' = [comm EXCEPT ![c] = IF kind = "gmove" THEN "moving" ELSE "pending"]
        /\ issued' = [issued EXCEPT ![Current.id] = @ \cup {c}]
        /\ tab' = [tab EXCEPT ![tmp[1]][tmp[2]] = WithComm(@, kind, c)]
    /\ UNCHANGED <<tmp, is_async, waiting, nodes, cur>>

\* This node takes no part in the communication.
NotMember ==
    /\ pc \in {"open", "task"} /\ AfterComm
    /\ UNCHANGED <<tab, tmp, is_async, waiting, comm, nodes, cur, issued>>

FinalizeTaskWith(keep) ==
    /\ pc = "finalize" /\ pc' = "start"
    /\ tab' = IF keep THEN [tab EXCEPT ![tmp[1]][tmp[2]].nodes = Append(@, cur)] ELSE tab
    /\ cur' = 0
    /\ UNCHANGED <<tmp, is_async, waiting, comm, nodes, issued>>

\* Mutant: the node set is neither released nor registered.
FinalizeTaskLosing == FinalizeTaskWith(FALSE)

\* _XMP_exec_task_NODES_FINALIZE, _XMP_nodes_dealloc_after_wait_async
FinalizeTask == FinalizeTaskWith(TRUE)

\* xmpc_start_async
StartAsync ==
    /\ pc = "start" /\ pc' = "idle"
    /\ is_async' = FALSE
    /\ tmp' = << >>
    /\ UNCHANGED <<tab, waiting, comm, nodes, cur, issued>>

----------------------------------------------------------------------------
(* wait_async and test_async *)

\* MPI makes progress.
Complete(c) ==
    /\ comm[c] \in {"pending", "moving"}
    /\ comm' = [comm EXCEPT ![c] = IF @ = "moving" THEN "packed" ELSE "done"]
    /\ UNCHANGED <<tab, tmp, is_async, pc, waiting, nodes, cur, issued>>

\* MPI_Waitall and MPI_Testall look at what was stored as a request.
Arrived(c) == c \in Comms /\ comm[c] \in {"packed", "done"}

AllArrived(e) == \A i \in DOMAIN e.reqs : Arrived(e.reqs[i])

\* _XMP_finalize_async_gmove
Unpack(e) == [c \in Comms |-> IF c = e.gmove /\ comm[c] = "packed" THEN "done" ELSE comm[c]]

\* The node is in the on clause of wait_async, or communicated nothing.
BeginWait(id) ==
    /\ pc = "idle"
    /\ waiting' = id
    /\ \/ pc' = "wait"
       \/ pc' = "end" /\ issued[id] = {}
    /\ UNCHANGED <<tab, tmp, is_async, comm, nodes, cur, issued>>

\* The wait ends at an entry of the chain that has finished, or finds none.
WaitFor(finished) ==
    /\ pc = "wait" /\ pc' = "end"
    /\ \/ Get(waiting) = << >> /\ UNCHANGED comm
       \/ \E e \in finished : comm' = IF e.mode = "normal" THEN Unpack(e) ELSE comm
    /\ UNCHANGED <<tab, tmp, is_async, waiting, nodes, cur, issued>>

\* Mutant: MPI_Waitall also for a gmove in or out, which has stored no request.
WaitAsyncAll == WaitFor({e \in Range(Get(waiting)) : AllArrived(e)})

\* _XMP_wait_async__; for a gmove in or out it synchronizes the images instead.
WaitAsync ==
    WaitFor({e \in Range(Get(waiting)) :
               IF e.mode = "normal" THEN AllArrived(e) ELSE Arrived(e.gmove)})

\* xmp_test_async_ when it returns 1 for an entry; the program asks it only about
\* ids without a gmove in or out.  It goes on with xmpc_end_async.
TestAsync(id) ==
    /\ pc = "idle" /\ pc' = "end"
    /\ waiting' = id
    /\ \E e \in Range(Get(id)) :
        /\ e.mode = "normal" /\ AllArrived(e)
        /\ comm' = Unpack(e)
    /\ UNCHANGED <<tab, tmp, is_async, nodes, cur, issued>>

\* The chain with its k-th entry unlinked.
Unlinked(chain, k) == [i \in 1 .. Len(chain) - 1 |-> chain[IF i < k THEN i ELSE i + 1]]

EndIn(chain, id, headOut) ==
    LET at == {k \in DOMAIN chain : chain[k].id = id} IN
    IF ~chain[1].used \/ at = {} THEN chain
    ELSE IF Min(at) = 1 THEN headOut
    ELSE Unlinked(chain, Min(at))

\* initialize_async leaves the id of the entry.
Reset(e) == Entry(e.id, FALSE)

\* Mutant: the entry in the slot is reset without saving its successors.
EndedCut(chain, id) == EndIn(chain, id, <<Reset(chain[1])>>)

\* The chain after xmpc_end_async; the slot takes over the first successor.
Ended(chain, id) ==
    EndIn(chain, id, IF Len(chain) = 1 THEN <<Reset(chain[1])>> ELSE Tail(chain))

\* The node sets initialize_async finalizes.
Released(id) ==
    IF tab[Slot(id)][1].used THEN UNION {Range(e.nodes) : e \in Range(Get(id))} ELSE {}

\* xmpc_end_async, called by every node after a wait_async and by xmp_test_async_
EndAsync ==
    /\ pc = "end" /\ pc' = "idle"
    /\ waiting' = 0
    /\ tab' = [tab EXCEPT ![Slot(waiting)] = Ended(@, waiting)]
    /\ nodes' = nodes \ Released(waiting)
    /\ comm' = [c \in Comms |-> IF c \in issued[waiting] THEN "free" ELSE comm[c]]
    /\ issued' = [issued EXCEPT ![waiting] = {}]
    /\ UNCHANGED <<tmp, is_async, cur>>

Directive ==
    \/ ExecTask \/ NotMember \/ FinalizeTask \/ StartAsync
    \/ \E kind \in Kinds : Issue(kind)

Next ==
    \/ Directive
    \/ \E id \in Ids : InitAsync(id) \/ BeginWait(id) \/ TestAsync(id)
    \/ WaitAsync \/ EndAsync
    \/ \E c \in Comms : Complete(c)

Spec == Init /\ [][Next]_vars

\* MPI completes what was started; a program inside a directive goes on.
FairSpec ==
    /\ Spec
    /\ \A c \in Comms : WF_vars(Complete(c))
    /\ WF_vars(WaitAsync) /\ WF_vars(EndAsync)
----------------------------------------------------------------------------
(* Properties *)

Entries == UNION {Range(tab[h]) : h \in DOMAIN tab}

\* Types; and, as the note on xmp_is_async says, _xmp_is_async is true, and there is a
\* current entry, exactly between xmpc_init_async and xmpc_start_async.
TypeOK ==
    /\ pc \in {"idle", "open", "task", "finalize", "start", "wait", "end"}
    /\ comm \in [Comms -> CommStates]
    /\ nodes \subseteq NodeSets /\ cur \in NodeSets \cup {0}
    /\ issued \in [Ids -> SUBSET Comms]
    /\ \A e \in Entries : e.used \in BOOLEAN /\ e.gmove \in Comms \cup {0}
    /\ is_async <=> pc \in {"open", "task", "finalize", "start"}
    /\ tmp # << >> <=> is_async

\* The communications an entry accounts for.
Recorded(e) == (Range(e.reqs) \cup {e.gmove}) \ {0}

\* Whatever ids share a slot and in whatever order they are started and ended,
\* _XMP_get_async finds for each id all its communications and none of another's,
\* and nothing hangs behind a slot out of use, where xmpc_end_async would leave it.
LookupFindsWork ==
    /\ \A id \in Ids : issued[id] = UNION {Recorded(e) : e \in Range(Get(id))}
    /\ \A h \in DOMAIN tab : ~tab[h][1].used => Len(tab[h]) = 1

\* A node set kept for an asynchronous communication is finalized exactly once: it is in
\* the list of exactly one entry until xmpc_end_async of the id it was used under.
NodeSetsHeld ==
    /\ nodes = (UNION {Range(e.nodes) : e \in Entries}) \cup ({cur} \ {0})
    /\ \A e \in Entries : cur \notin Range(e.nodes)
    /\ \A h, g \in DOMAIN tab : \A i \in DOMAIN tab[h], k \in DOMAIN tab[g] :
        \A j \in DOMAIN tab[h][i].nodes, l \in DOMAIN tab[g][k].nodes :
            tab[h][i].nodes[j] = tab[g][k].nodes[l] => <<h, i, j>> = <<g, k, l>>

\* The entry of an id goes only when all communication under the id is over, the data
\* of its gmove unpacked: wait_async and xmp_test_async drop nothing in flight.
DroppedOnlyWhenDone ==
    [][\A id \in Ids : \A c \in issued[id] : c \notin issued'[id] => comm[c] = "done"]_vars

\* wait_async returns: it waits for nothing that MPI does not complete.
WaitReturns == pc = "wait" ~> pc = "idle"
=============================================================================
