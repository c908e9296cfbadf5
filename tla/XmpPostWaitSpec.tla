-------------------------- MODULE XmpPostWaitSpec --------------------------
(***************************************************************************)
(* What the post and wait directives of XcalableMP promise: a post is kept *)
(* for the node it names until one wait of that node takes it, a wait      *)
(* takes one post that matches it, and a wait is not left waiting while    *)
(* such a post is there.                                                   *)
(***************************************************************************)
EXTENDS Integers

CONSTANTS
  Nodes,    \* nodes, by their subscripts
  Tags,
  Posts,    \* <<node, node, tag>>: the post directives of the program
  Waits,    \* <<node, [node, tag]>>: its wait directives
  AnyNode,  \* in a wait: from any node
  AnyTag,   \* in a wait: with any tag
  Nothing   \* what a node waits for that does not wait

VARIABLES
  pending,  \* per receiver, sender and tag: posts made and not yet taken
  awaits    \* what each node waits for

vars == <<pending, awaits>>

Matches(w, node, tag) == w.node \in {AnyNode, node} /\ w.tag \in {AnyTag, tag}

Init ==
  /\ pending = [d \in Nodes |-> [p \in Nodes \X Tags |-> 0]]
  /\ awaits = [n \in Nodes |-> Nothing]

Post(n, d, t) ==
  /\ awaits[n] = Nothing
  /\ pending' = [pending EXCEPT ![d][<<n, t>>] = @ + 1]
  /\ UNCHANGED awaits

Begin(n, w) ==
  /\ awaits[n] = Nothing
  /\ awaits' = [awaits EXCEPT ![n] = w]
  /\ UNCHANGED pending

Finish(n) ==
  /\ awaits[n] # Nothing
  /\ \E s \in Nodes, t \in Tags :
       /\ Matches(awaits[n], s, t)
       /\ pending[n][<<s, t>>] > 0
       /\ pending' = [pending EXCEPT ![n][<<s, t>>] = @ - 1]
  /\ awaits' = [awaits EXCEPT ![n] = Nothing]

Next ==
  \/ \E p \in Posts : Post(p[1], p[2], p[3])
  \/ \E w \in Waits : Begin(w[1], w[2])
  \/ \E n \in Nodes : Finish(n)

Spec == Init /\ [][Next]_vars

FairSpec == Spec /\ \A n \in Nodes : WF_vars(Finish(n))
=============================================================================
