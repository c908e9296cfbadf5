------------------------------ MODULE XmpLoop ------------------------------
(***************************************************************************)
(* How libxmp (xmp_loop.c) and libxmpf (xmpf_loop.c) turn the bounds of a  *)
(* loop on a template into the bounds, in local indices, of the loop that  *)
(* one node executes.                                                      *)
(***************************************************************************)
EXTENDS XmpTemplate

Bounds(init, cond, step) == [init |-> init, cond |-> cond, step |-> step]

NoIterations == Bounds(0, 0, 1)

\* _XMP_SM_NORM_SCHED_PARAMS: inclusive bounds, upward.
Norm(init, cond, step) ==
    IF step = 1 THEN Bounds(init, cond - 1, 1)
    ELSE IF step > 0 THEN Bounds(init, (cond - 1) - Rem(cond - 1 - init, step), step)
    ELSE Bounds((cond + 1) + Rem(init - (cond + 1), -step), init, -step)

\* Mutant: the bound of a downward loop stays inclusive.
FinalizeInclusive(b, reverse) ==
    IF reverse THEN Bounds(b.cond, b.init, -b.step) ELSE Bounds(b.init, b.cond + 1, b.step)

\* _XMP_SM_FINALIZE_ITER
Finalize(b, reverse) ==
    IF reverse THEN Bounds(b.cond, b.init - 1, -b.step) ELSE Bounds(b.init, b.cond + 1, b.step)

\* _XMP_ceili, _XMP_floori
Ceili(a, b) == Quot(a, b) + (IF a >= 0 /\ b >= 0 /\ Rem(a, b) # 0 THEN 1 ELSE 0)
Floori(a, b) == Quot(a, b) - (IF (a < 0 \/ b < 0) /\ Rem(a, b) # 0 THEN 1 ELSE 0)

\* _XMP_sched_loop_template_width_1 for step 1: a set with the bounds, or {}.
Width1Unit(s, lower, upper, stride) ==
    LET x_max == Floori(upper - lower, stride)
        first == Ceili(s.init - lower, stride)
        last  == Floori(s.cond - lower, stride)
    IN IF first > x_max \/ last < 0 THEN {}
       ELSE {Bounds(IF first < 0 THEN lower ELSE first * stride + lower,
                    IF last > x_max THEN upper ELSE last * stride + lower, stride)}

\* The same for other steps, by search; the callers' stride is 1 where they use the step.
Width1Search(s, lower, upper, stride) ==
    LET hit(i) == Rem(i - s.init, s.step) = 0
        ups   == {i \in lower .. upper : (i - lower) % stride = 0 /\ i >= s.init /\ hit(i)}
        downs == {i \in lower .. upper : (upper - i) % stride = 0 /\ i <= s.cond /\ hit(i)}
    IN IF upper < s.init \/ s.cond < lower \/ ups = {} \/ downs = {} THEN {}
       ELSE {Bounds(Min(ups), Max(downs), s.step)}

Width1(s, lower, upper, stride) ==
    IF s.step = 1 THEN Width1Unit(s, lower, upper, stride)
    ELSE Width1Search(s, lower, upper, stride)

\* _XMP_sched_loop_template_width_N, for step 1 only: in units of blocks, then clipped.
WidthN(t, s, c) ==
    LET block(i) == Quot(i - t.lower, c.width) + t.lower
        index(b) == (b - t.lower) * c.width + t.lower
    IN {Bounds(Max({index(b.init), s.init}),
               Min({index(b.cond) + c.width - 1, t.upper, s.cond}), b.step) :
          b \in Width1(Bounds(block(s.init), block(s.cond), 1), block(c.lower), block(c.upper),
                       Quot(c.stride, c.width))}

\* The _XMP_SM_GTOL macros: local index of global index i, for the node's chunk c.
GtoL(t, r, c, i) ==
    CASE t.manner = "duplication"  -> i
      [] t.manner = "block"        -> Rem(i - t.lower, c.chunk_width)
      [] t.manner = "cyclic"       -> Quot(i - t.lower, t.P)
      [] t.manner = "block_cyclic" -> Quot(i - t.lower, t.P * c.width) * c.width + Rem(i - t.lower, c.width)
      [] t.manner = "gblock"       -> i - Offset(t, r)

\* The _XMP_M_LTOG_TEMPLATE macros: global index of local index l.
LtoG(t, r, c, l) ==
    CASE t.manner = "duplication"  -> l
      [] t.manner = "block"        -> r * Ceil(Size(t), t.P) + l + t.lower
      [] t.manner = "cyclic"       -> l * t.P + r + t.lower
      [] t.manner = "block_cyclic" -> Quot(l, c.width) * c.width * t.P + c.width * r + Rem(l, c.width) + t.lower
      [] t.manner = "gblock"       -> l + Offset(t, r)

\* The iterations s that lie in chunk c, in global indices: a set with the bounds, or {}.
Part(t, c, s) ==
    IF ~c.owner THEN {}
    ELSE IF t.manner = "block_cyclic" THEN WidthN(t, s, c)
    ELSE Width1(s, c.lower, c.upper, c.stride)

\* Their bounds in local indices.
Localized(t, r, c, b, step) ==
    Bounds(GtoL(t, r, c, b.init), GtoL(t, r, c, b.cond),
           IF t.manner \in {"cyclic", "block_cyclic"} THEN 1 ELSE step)

SchedChunk(t, r, c, s, reverse) ==
    IF Part(t, c, s) = {} THEN NoIterations
    ELSE Finalize(Localized(t, r, c, CHOOSE b \in Part(t, c, s) : TRUE, s.step), reverse)

\* _XMP_sched_loop_template_DUPLICATION, BLOCK, CYCLIC, BLOCK_CYCLIC and GBLOCK.
SchedTemplate(t, r, init, cond, step) ==
    SchedChunk(t, r, ChunkOf(t, r), Norm(init, cond, step), step < 0)

\* _XMP_sched_loop_nodes: iteration k belongs to the node of rank k - 1.
SchedNodes(r, init, cond, step) ==
    LET s == Norm(init, cond, step) IN
    IF r + 1 \in s.init .. s.cond /\ (r + 1 - s.init) % s.step = 0
    THEN Bounds(r + 1, r + 2, s.step) ELSE NoIterations

\* xmpf_loop_sched__: Fortran's inclusive upper bound to C's and back.  The loop
\* index is the index of the template: REF_OFFSET is 0.
SchedFortran(t, r, lb, ub, st) ==
    LET b == SchedTemplate(t, r, lb, ub + Sign(st), st) IN [b EXCEPT !.cond = @ - 1]
=============================================================================
