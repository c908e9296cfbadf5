------------------------------ MODULE MCSched ------------------------------
(* Loops for model checking OmpcSched and XmpThreads.                       *)
EXTENDS XmpThreads

LoopsOf(kinds, ns, bounds, steps, ofs, sizes) ==
  [kind : kinds, n : ns, lb : bounds, up : bounds, step : steps, ubofs : ofs,
   chunk : sizes]

Upward == {1, 2, 3}
Downward == {-1, -2, -3}
Chunkless == {"block", "cyclic", "runtime"}

(* C loops in both directions, Fortran loops upward, and Fortran loops      *)
(* downward with the default schedule; all bounds are away from zero.       *)
GoodLoops ==
  LoopsOf(Chunkless, 1 .. 4, 40 .. 46, Upward \cup Downward, {0}, {1})
  \cup LoopsOf({"chunk"}, 1 .. 3, 40 .. 45, Upward \cup Downward, {0}, {1, 2})
  \cup LoopsOf(Chunkless, 1 .. 4, 40 .. 45, Upward, {1}, {1})
  \cup LoopsOf({"chunk"}, 1 .. 3, 40 .. 45, Upward, {1}, {1, 2})
  \cup LoopsOf({"block"}, 1 .. 4, 40 .. 45, Downward, {1}, {1})

(* Loops that libompc does not schedule right: the first violates EachOnce, *)
(* the others violate LastOwner.                                            *)
FortranDownChunks == LoopsOf({"chunk"}, {2}, 40 .. 43, {-1}, {1}, {1})
FortranDownCyclic == LoopsOf({"cyclic"}, {4}, 40 .. 44, {-1}, {1}, {1})
AcrossZero == LoopsOf({"block"}, {2}, -3 .. 3, {1}, {0}, {1})

Templates(manners, uppers, ps) ==
  [manner : manners, lower : {1}, upper : uppers, P : ps, width : {2}, mapping : {<<2, 0, 5>>}]

(* The loops with the given steps over a template, executed by teams of n.  *)
DirectivesOn(ts, steps, ofs, n) ==
  UNION {{d \in [t : {t}, lb : t.lower .. t.upper, up : (t.lower - 1) .. (t.upper + 1),
                 step : steps, ubofs : ofs, n : {n}] :
            \* the last iteration lies in the template, and a step other than 1 and
            \* -1 comes with a loop that has iterations
            /\ Iterations(d.lb, d.up, d.step, d.ubofs) \subseteq t.lower .. t.upper
            /\ Abs(d.step) > 1 => Iterations(d.lb, d.up, d.step, d.ubofs) # {}} :
         t \in ts}

Contiguous == Templates({"block", "duplication"}, {3, 7}, 1 .. 3)
              \cup Templates({"gblock"}, {5, 7}, {3}) \cup Templates({"nodes"}, {3}, {3})
Cyclic12 == Templates({"cyclic", "block_cyclic"}, {3, 7}, 1 .. 3)

GoodDirectives ==
  DirectivesOn(Contiguous, {-3, -2, -1, 1, 2, 3}, {0}, 2)
  \cup DirectivesOn(Cyclic12, {-1, 1}, {0}, 2)
  \cup DirectivesOn({t \in Contiguous : t.manner # "nodes"}, {1, 2, 3}, {1}, 1)
  \cup DirectivesOn(Cyclic12, {1}, {1}, 1)
============================================================================
