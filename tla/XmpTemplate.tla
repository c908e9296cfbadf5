---------------------------- MODULE XmpTemplate ----------------------------
(***************************************************************************)
(* One dimension of a distributed template of libxmp (xmp_template.c): the *)
(* part of the template that each node holds, and the three ways in which  *)
(* the run time answers whose an index is: the bounds of the chunk, the    *)
(* owner computed from the index, and the skip test of a Fortran loop.     *)
(*                                                                         *)
(* A template t has a manner of distribution, its bounds lower and upper   *)
(* (ser_lower, ser_upper), the number P of nodes, the width of a           *)
(* block-cyclic and the mapping array of a gblock distribution.            *)
(***************************************************************************)
EXTENDS CInt, Sequences, FiniteSetsExt

Manners == {"duplication", "block", "cyclic", "block_cyclic", "gblock"}

\* _XMP_M_CEILi
Ceil(a, b) == (a \div b) + (IF a % b = 0 THEN 0 ELSE 1)

Size(t) == t.upper - t.lower + 1

Ranks(t) == 0 .. t.P - 1

\* rsum_array[r] of _XMP_dist_template_GBLOCK
Offset(t, r) == t.lower + MapThenSumSet(LAMBDA i : t.mapping[i], 1 .. r)

\* The chunk of a node: is_owner and the par_ members.
Chunk(owner, lower, upper, stride, width, chunk_width) ==
    [owner |-> owner, lower |-> lower, upper |-> upper, stride |-> stride,
     width |-> width, chunk_width |-> chunk_width]

DistBlock(t, r) ==
    LET w == Ceil(Size(t), t.P)
        owners == Ceil(Size(t), w)
        lower == r * w + t.lower
    IN Chunk(r < owners, lower, IF r = owners - 1 THEN t.upper ELSE lower + w - 1, 1, 1, w)

CyclicChunk(t, r, w, mine) ==
    LET blocks == Ceil(Size(t), w)
        lower == t.lower + r * w
    IN Chunk(blocks >= t.P \/ r < blocks, lower,
             IF blocks < t.P THEN lower ELSE lower + t.P * (mine - 1) * w,
             t.P * w, w, Ceil(blocks, t.P) * w)

\* Mutant: the blocks left over by an even division are nobody's.
DistCyclicEven(t, r, w) == CyclicChunk(t, r, w, Ceil(Size(t), w) \div t.P)

\* _XMP_dist_template_CYCLIC_WIDTH; upper is the first index of the last block.
DistCyclicWidth(t, r, w) ==
    LET blocks == Ceil(Size(t), w)
    IN CyclicChunk(t, r, w, (blocks \div t.P) + (IF r < blocks % t.P THEN 1 ELSE 0))

DistGblock(t, r) ==
    LET lower == Offset(t, r)
        upper == Min({t.upper, Offset(t, r + 1) - 1})
    IN Chunk(t.mapping[r + 1] # 0 /\ lower <= t.upper, lower, upper, 1, 1, upper - lower + 1)

ChunkOf(t, r) ==
    CASE t.manner = "duplication"  -> Chunk(TRUE, t.lower, t.upper, 1, 1, Size(t))
      [] t.manner = "block"        -> DistBlock(t, r)
      [] t.manner = "cyclic"       -> DistCyclicWidth(t, r, 1)
      [] t.manner = "block_cyclic" -> DistCyclicWidth(t, r, t.width)
      [] t.manner = "gblock"       -> DistGblock(t, r)

\* The indices that the members of the chunk c describe.
Indices(t, c) ==
    {i \in t.lower .. t.upper :
        /\ c.owner /\ i >= c.lower /\ i < c.upper + c.width
        /\ (i - c.lower) % c.stride < c.width}

\* _XMP_calc_template_owner_SCALAR; its loop returns the first match.
OwnerScalar(t, i) ==
    LET c == ChunkOf(t, 0) IN
    CASE t.manner = "block"        -> (i - t.lower) \div c.chunk_width
      [] t.manner = "cyclic"       -> (i - t.lower) % c.stride
      [] t.manner = "block_cyclic" -> ((i - t.lower) \div c.width) % (c.stride \div c.width)
      [] t.manner = "gblock"       -> Min({r \in Ranks(t) : Offset(t, r) <= i /\ i < Offset(t, r + 1)})

\* xmpf_loop_test_skip__
TestSkip(t, r, c, i) ==
    CASE t.manner = "duplication"         -> FALSE
      [] t.manner \in {"block", "gblock"} -> i < c.lower \/ c.upper < i
      [] t.manner = "cyclic"              -> (i - t.lower) % t.P # r
      [] t.manner = "block_cyclic"        -> ((i - t.lower) % (c.width * t.P)) \div c.width # r
=============================================================================
