---------------------------- MODULE MCWorkshare ----------------------------
(* Programs for model checking OmpcWorkshare.                               *)
EXTENDS OmpcWorkshare

Loop(kind, lb, up, step, chunk, ordered, nowait) ==
  [kind |-> kind, lb |-> lb, up |-> up, step |-> step, chunk |-> chunk,
   ordered |-> ordered, nowait |-> nowait]

Single(nowait) == Loop("single", 0, 0, 1, 1, FALSE, nowait)
Sections(n, nowait) == Loop("sections", 0, n, 1, 1, FALSE, nowait)
Reduction == Loop("reduction", 0, 0, 1, 1, FALSE, TRUE)
ABarrier == Loop("barrier", 0, 0, 1, 1, FALSE, FALSE)

Dynamic(ordered, nowait) == Loop("dynamic", 0, 3, 1, 2, ordered, nowait)
Guided(nowait) == Loop("guided", 9, 6, -1, 1, FALSE, nowait)
Static(ordered, nowait) == Loop("static", 9, 7, -1, 1, ordered, nowait)
Empty(kind) == Loop(kind, 2, 2, 1, 1, FALSE, TRUE)

Some ==
  {Single(TRUE), Sections(3, TRUE), Reduction, ABarrier, Empty("static")}
  \cup {Dynamic(FALSE, FALSE), Dynamic(FALSE, TRUE), Dynamic(TRUE, TRUE)}
  \cup {Guided(TRUE), Static(TRUE, TRUE)}

\* A thread that has passed such a construct cannot enter another one that uses
\* the flags before the whole team has entered this one.
Gated(c) == c.kind = "single" \/ c.ordered

(* The programs for which the runs show the constructs correct.  Their      *)
(* downward loops stay clear of zero.  Excluded are three patterns that     *)
(* violate a property: a dynamic loop with nowait whose late threads        *)
(* meet the next dynamic loop, an ordered loop with nowait that is          *)
(* followed by another one, and a dynamic loop without an iteration that is *)
(* not the last construct to use the flags.                                 *)
Separated(p) ==
  \A i, j \in DOMAIN p : i < j =>
    LET between(f(_)) == \E k \in i .. j-1 : ~p[k].nowait \/ (k > i /\ f(p[k]))
    IN /\ IsDynamic(p[i]) /\ IsDynamic(p[j]) => between(Gated) \/ p[j].ordered
       /\ p[i].ordered /\ p[j].ordered => between(LAMBDA c : Gated(c) \/ IsDynamic(c))
       /\ IsDynamic(p[i]) /\ Iterations(p[i].lb, p[i].up, p[i].step) = {} =>
            ~(Gated(p[j]) \/ IsDynamic(p[j]))

(* The region ends with a barrier: the second construct needs none.         *)
Pairs == {p \in {<<c, d>> : c \in Some, d \in {x \in Some : x.nowait}} : Separated(p)}

(* A construct met again after another one.                                 *)
Chained == {Single(TRUE), Dynamic(FALSE, TRUE), Static(TRUE, TRUE)}
Chains == {p \in {<<c, d, c>> : c \in Chained, d \in Chained} : Separated(p)}

PairsAndChains == Pairs \cup Chains

(* The three patterns that Separated excludes, and a loop down to zero,     *)
(* `for (i = 2; i >= 0; i--)` with schedule(static,2).                      *)
TwoDynamic == {<<Dynamic(FALSE, TRUE), Dynamic(FALSE, FALSE)>>}
TwoOrdered == {<<Static(TRUE, TRUE), Static(TRUE, TRUE)>>}
EmptyDynamic == {<<Empty("dynamic"), Single(FALSE)>>}
DownToZero == {<<Loop("static", 2, -1, -1, 2, FALSE, FALSE)>>}
============================================================================
