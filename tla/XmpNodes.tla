------------------------------ MODULE XmpNodes ------------------------------
(***************************************************************************)
(* The node set of an XcalableMP program (libxmp/src/xmp_nodes.c): N       *)
(* processes arranged as an array whose first dimension varies fastest,    *)
(* and what each of them is doing.  The runtime numbers a process from 0   *)
(* (its rank); directives name it by subscripts from 1.                    *)
(***************************************************************************)
EXTENDS Integers, Sequences, FiniteSetsExt

CONSTANTS
  N,     \* _XMP_world_size
  Shape  \* the sizes of the dimensions of the node array

ASSUME NAssumption == N \in Nat \ {0}

VARIABLE pc  \* what each node is executing; "run" outside the directives modelled

Nodes == 0 .. N-1
Dims == 1 .. Len(Shape)

\* n->info[i].multiplier; acc_size of _XMP_init_nodes_info
multiplier[i \in 1 .. Len(Shape) + 1] ==
  IF i = 1 THEN 1 ELSE multiplier[i-1] * Shape[i-1]

\* _XMP_init_nodes_info refuses any other shape ("incorrect communicator size").
ASSUME ShapeAssumption == Shape \in Seq(Nat \ {0}) /\ multiplier[Len(Shape) + 1] = N

\* n->info[i].rank
Coord == [rank \in Nodes |-> [i \in Dims |-> (rank \div multiplier[i]) % Shape[i]]]

\* The subscripts by which a directive refers to a node.
Ref == [rank \in Nodes |-> [i \in Dims |-> Coord[rank][i] + 1]]
Refs == {Ref[rank] : rank \in Nodes}

\* node_num of _XMP_post_<n> and _XMP_wait_<n>, subscript after subscript: the rank
\* of the node that the subscripts name.
NodeNum(ref) ==
  LET node_num[i \in 0 .. Len(Shape)] ==
        IF i = 0 THEN 0 ELSE node_num[i-1] + (ref[i] - 1) * multiplier[i]
  IN  node_num[Len(Shape)]

Goto(n, from, to) == pc[n] = from /\ pc' = [pc EXCEPT ![n] = to]
=============================================================================
