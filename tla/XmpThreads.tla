----------------------------- MODULE XmpThreads -----------------------------
(***************************************************************************)
(* A loop under the XMP loop directive, of which every node executes its   *)
(* part (XmpLoop), composed with the threads clause, which makes the       *)
(* node's part an omp parallel for that libompc divides among the threads  *)
(* of a team (OmpcSched).  A plain OpenMP loop is the case without a       *)
(* directive: one node that executes all of it.                            *)
(*                                                                         *)
(* The schedules share nothing, so the nodes run in turn.                  *)
(***************************************************************************)
EXTENDS OmpcSched, XmpLoop

CONSTANTS
  Directives  \* loop directives: template t, loop lb, up, step, ubofs, team n

VARIABLES
  dir,    \* the directive, or Plain
  node,   \* the rank whose part is executed
  owners  \* history: the nodes that executed each iteration of the loop

hvars == <<vars, dir, node, owners>>

Plain == [plain |-> TRUE]

NodesOf(d) == IF d = Plain THEN 1 ELSE d.t.P

\* The call that the translators put before the loop, by what the loop is on.
LocalBounds(d, r) ==
  IF d.t.manner = "nodes" THEN SchedNodes(r, d.lb, d.up, d.step)
  ELSE IF d.ubofs = 1 THEN SchedFortran(d.t, r, d.lb, d.up, d.step)
  ELSE SchedTemplate(d.t, r, d.lb, d.up, d.step)

\* translateThreadsClauseToOMPpragma: the local loop becomes a parallel for without a
\* schedule clause.
NodeLoop(d, b) ==
  [kind |-> "block", n |-> d.n, lb |-> b.init, up |-> b.cond, step |-> b.step,
   ubofs |-> d.ubofs, chunk |-> 1]

Global(l) == IF dir.t.manner = "nodes" THEN l ELSE LtoG(dir.t, node, ChunkOf(dir.t, node), l)

HInit ==
  /\ node = 0
  /\ owners = << >>
  /\ \/ dir = Plain /\ Init
     \/ /\ dir \in Directives
        /\ loop = NodeLoop(dir, LocalBounds(dir, 0))
        /\ id = 0 /\ size = 0 /\ index = 0 /\ lasts = {}
        /\ ran = NotRun(loop)

NodeStep == node < NodesOf(dir) /\ Step /\ UNCHANGED <<dir, node, owners>>

\* A node is through; the next one executes its part.
NodeDone ==
  /\ node < NodesOf(dir) /\ id = loop.n
  /\ node' = node + 1
  /\ IF dir = Plain THEN UNCHANGED owners
     ELSE LET mine == {Global(l) : l \in {i \in DOMAIN ran : ran[i] # <<>>}}
          IN owners' = [i \in DOMAIN owners \cup mine |->
                          (IF i \in DOMAIN owners THEN owners[i] ELSE <<>>) \o
                          (IF i \in mine THEN <<node>> ELSE <<>>)]
  /\ IF node + 1 < NodesOf(dir)
     THEN /\ loop' = NodeLoop(dir, LocalBounds(dir, node + 1)) /\ ran' = NotRun(loop')
          /\ id' = 0 /\ lasts' = {}
     ELSE UNCHANGED <<loop, ran, id, lasts>>
  /\ UNCHANGED <<dir, size, index>>

LoopEnded == node = NodesOf(dir) /\ UNCHANGED hvars

HNext == NodeStep \/ NodeDone \/ LoopEnded

HSpec == HInit /\ [][HNext]_hvars

-----------------------------------------------------------------------------
\* The nodes that must execute iteration i.
Executors(i) ==
  IF dir.t.manner = "duplication" THEN Ranks(dir.t)
  ELSE IF dir.t.manner = "nodes" THEN {i - 1}
  ELSE {OwnerScalar(dir.t, i)}

\* The parts of the nodes, each divided among its threads, are the loop of the
\* program: every iteration is executed once by the owner of its index (by every
\* node where the template is duplicated), and nothing else is executed.
OwnerComputes ==
  dir # Plain /\ node = NodesOf(dir) =>
    /\ DOMAIN owners = Iterations(dir.lb, dir.up, dir.step, dir.ubofs)
    /\ \A i \in DOMAIN owners :
         /\ {owners[i][k] : k \in DOMAIN owners[i]} = Executors(i)
         /\ Len(owners[i]) = Cardinality(Executors(i))

\* The run time answers in three places whose an index of a template is: the
\* bounds of the chunk, _XMP_calc_template_owner_SCALAR and the skip test of
\* Fortran loops.  They agree on every index.
OwnersAgree ==
  dir # Plain /\ dir.t.manner # "nodes" =>
    \A r \in Ranks(dir.t) :
      LET c == ChunkOf(dir.t, r) IN
      \A i \in dir.t.lower .. dir.t.upper :
        /\ i \in Indices(dir.t, c) <=> r \in Executors(i)
        /\ c.owner => (TestSkip(dir.t, r, c, i) <=> r \notin Executors(i))
        /\ i \in Indices(dir.t, c) => LtoG(dir.t, r, c, GtoL(dir.t, r, c, i)) = i
=============================================================================
