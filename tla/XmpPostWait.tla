----------------------------- MODULE XmpPostWait -----------------------------
(***************************************************************************)
(* The post and wait directives (libxmp/src/xmp_post_wait_gasnet.c and     *)
(* xmp_post_wait_mpi.c).  Every node keeps a table of the posts that have  *)
(* reached it and that no wait has taken.  Over GASNet a post arrives by   *)
(* an active message, whenever the node is inside a GASNet call; over MPI  *)
(* it is a message that the node receives in its waits, and that is put    *)
(* into the table if it is not the one waited for.                         *)
(***************************************************************************)
EXTENDS XmpNodes

CONSTANTS
  Tags,
  Posts,        \* <<node, ref, tag>>: the post directives of the program
  Waits,        \* <<node, ref or <<>>, tag or Wild>>: its wait directives
  InitialSize,  \* _XMP_POSTREQ_TABLE_INITIAL_SIZE
  Transports,   \* the libraries that the runtime may be built on
  MaxPending    \* bound: posts that no wait has taken

Wild == -1

ASSUME PostsAssumption == Posts \subseteq Nodes \X Refs \X Tags
ASSUME WaitsAssumption == Waits \subseteq Nodes \X (Refs \cup {<< >>}) \X (Tags \cup {Wild})
ASSUME InitialSizeAssumption == InitialSize \in Nat /\ InitialSize > 1
ASSUME TransportsAssumption == Transports \subseteq {"gasnet", "mpi"}

VARIABLES
  transport,
  table,     \* _postreq.table, its first _postreq.num entries
  max_size,  \* _postreq.max_size
  chan,      \* chan[s][d]: the tags of posts under way from s to d
  awaits     \* what a waiting node waits for

vars == <<pc, transport, table, max_size, chan, awaits>>

Nothing == << >>

Init ==
  /\ pc = [n \in Nodes |-> "run"]
  /\ transport \in Transports
  /\ table = [n \in Nodes |-> << >>]
  /\ max_size = [n \in Nodes |-> InitialSize]
  /\ chan = [s \in Nodes |-> [d \in Nodes |-> << >>]]
  /\ awaits = [n \in Nodes |-> Nothing]

Entry(node, tag) == [node |-> node, tag |-> tag]
Matches(w, e) == w.node \in {Wild, e.node} /\ w.tag \in {Wild, e.tag}

\* Mutant: the table does not grow.
do_postFixed(n, e) ==
  /\ table' = [table EXCEPT ![n] = Append(@, e)]
  /\ UNCHANGED max_size

\* A full table grows by _XMP_POSTREQ_TABLE_INCREMENT_RATIO, 1.5, rounded down.
do_post(n, e) ==
  /\ table' = [table EXCEPT ![n] = Append(@, e)]
  /\ max_size' = [max_size EXCEPT ![n] = IF Len(table[n]) = @ THEN (3 * @) \div 2 ELSE @]

\* In a wait: the entry that remove_request, remove_request_node or remove_request_noargs
\* finds: the last one that matches; 0 if there is none.
Found(n) ==
  IF pc[n] # "waiting" THEN 0
  ELSE Max({0} \cup {i \in DOMAIN table[n] : Matches(awaits[n], table[n][i])})

InFlight(d) == MapThenSumSet(LAMBDA s : Len(chan[s][d]), Nodes)
Pending == MapThenSumSet(LAMBDA d : Len(table[d]) + InFlight(d), Nodes)

PostTo(n, d, tag) ==
  /\ pc[n] = "run"
  /\ Pending < MaxPending
  /\ IF d = n
     THEN do_post(n, Entry(n, tag)) /\ UNCHANGED chan
     ELSE chan' = [chan EXCEPT ![n][d] = Append(@, tag)] /\ UNCHANGED <<table, max_size>>
  /\ UNCHANGED <<pc, transport, awaits>>

\* _xmp_gasnet_post, _xmp_mpi_post.  A message of one integer is buffered by MPI.
Post(n, ref, tag) == PostTo(n, NodeNum(ref), tag)

\* wait, wait with a node, wait with a node and a tag
Wait(n, ref, tag) ==
  /\ Goto(n, "run", "waiting")
  /\ awaits' = [awaits EXCEPT ![n] = Entry(IF ref = << >> THEN Wild ELSE NodeNum(ref), tag)]
  /\ UNCHANGED <<transport, table, max_size, chan>>

Return(n) ==
  /\ Goto(n, "waiting", "run")
  /\ awaits' = [awaits EXCEPT ![n] = Nothing]

\* What is left of a table or of the posts under way when one is taken out.
Without(q, i) == [j \in 1 .. Len(q) - 1 |-> q[IF j < i THEN j ELSE j + 1]]

RemoveAtIndex(n, i) ==
  /\ i > 0
  /\ Return(n)
  /\ table' = [table EXCEPT ![n] = Without(@, i)]
  /\ UNCHANGED <<transport, max_size, chan>>

\* Mutant: the last entry is removed, not the one that was found.
RemoveLast(n) == RemoveAtIndex(n, IF Found(n) = 0 THEN 0 ELSE Len(table[n]))

\* The test of a wait on the table: over GASNet again after every poll, over MPI
\* once, before anything is received.
RemoveFound(n) == RemoveAtIndex(n, Found(n))

Deliver(s, d, i) == chan' = [chan EXCEPT ![s][d] = Without(@, i)]

\* _xmp_gasnet_postreq.  Active messages may overtake each other.
HandlePost(s, d, i) ==
  /\ transport = "gasnet"
  /\ i \in DOMAIN chan[s][d]
  /\ do_post(d, Entry(s, chan[s][d][i]))
  /\ Deliver(s, d, i)
  /\ UNCHANGED <<pc, transport, awaits>>

\* receive_request in the loop of a wait: messages of one node come in order.
Receive(s, d) ==
  /\ transport = "mpi"
  /\ pc[d] = "waiting" /\ Found(d) = 0
  /\ chan[s][d] # << >>
  /\ Deliver(s, d, 1)
  /\ LET e == Entry(s, Head(chan[s][d]))
     IN  IF Matches(awaits[d], e)
         THEN Return(d) /\ UNCHANGED <<table, max_size>>
         ELSE do_post(d, e) /\ UNCHANGED <<pc, awaits>>
  /\ UNCHANGED transport

Next ==
  \/ \E p \in Posts : Post(p[1], p[2], p[3])
  \/ \E w \in Waits : Wait(w[1], w[2], w[3])
  \/ \E n \in Nodes :
    \/ RemoveFound(n)
    \/ \E s \in Nodes : Receive(s, n) \/ \E i \in 1 .. MaxPending : HandlePost(s, n, i)

Spec == Init /\ [][Next]_vars

\* A waiting node polls or receives; what was sent arrives.
FairSpec ==
  /\ Spec
  /\ \A n \in Nodes :
       /\ WF_vars(RemoveFound(n))
       /\ \A s \in Nodes : WF_vars(HandlePost(s, n, 1)) /\ WF_vars(Receive(s, n))

Entries == [node : Nodes, tag : Tags]

\* Types; and a node has something it awaits exactly while it is in a wait.
TypeOK ==
  /\ transport \in Transports
  /\ table \in [Nodes -> Seq(Entries)]
  /\ max_size \in [Nodes -> Nat]
  /\ chan \in [Nodes -> [Nodes -> Seq(Tags)]]
  /\ \A n \in Nodes :
       IF pc[n] # "waiting" THEN awaits[n] = Nothing
       ELSE awaits[n] \in [node : Nodes \cup {Wild}, tag : Tags \cup {Wild}]

\* No post is written beyond the end of the table (do_post, add_request).
TableFits == \A n \in Nodes : Len(table[n]) <= max_size[n]

\* How often x is in a table or among the posts under way.
Count(q, x) == Cardinality({i \in DOMAIN q : q[i] = x})

\* Posts made to node d by node s and taken by no wait.
PendingAt(d, s, tag) == Count(table[d], Entry(s, tag)) + Count(chan[s][d], tag)

RankOf == [ref \in Refs |-> CHOOSE n \in Nodes : Ref[n] = ref]
RefOrAny(rank) == IF rank = Wild THEN << >> ELSE Ref[rank]

\* The posts and waits as XmpPostWaitSpec sees them: nodes by their subscripts.
pendingBar ==
  [d \in Refs |-> [p \in Refs \X Tags |-> PendingAt(RankOf[d], RankOf[p[1]], p[2])]]
awaitsBar ==
  [r \in Refs |->
    LET w == awaits[RankOf[r]]
    IN  IF w = Nothing THEN Nothing ELSE Entry(RefOrAny(w.node), w.tag)]

Abstract == INSTANCE XmpPostWaitSpec WITH
  Nodes <- Refs, AnyNode <- << >>, AnyTag <- Wild,
  Posts <- {<<Ref[p[1]], p[2], p[3]>> : p \in Posts},
  Waits <- {<<Ref[w[1]], Entry(w[2], w[3])>> : w \in Waits},
  pending <- pendingBar, awaits <- awaitsBar

\* Whatever the transport, the order of arrival and the nodes' own numbering of each
\* other, a post is taken by exactly one wait of the node it names, a wait takes
\* one post that matches it, and it returns once there is one (_xmp_gasnet_wait*,
\* _xmp_mpi_wait*).
ImplementsPostWait == Abstract!FairSpec

\* The safety part of ImplementsPostWait.
ImplementsPostWaitSteps == Abstract!Spec
=============================================================================
