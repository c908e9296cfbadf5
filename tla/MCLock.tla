------------------------------- MODULE MCLock -------------------------------
(***************************************************************************)
(* Locks and node arrays for the runs of XmpLock.                          *)
(***************************************************************************)
EXTENDS XmpLock

Row == <<N>>

\* A lock on each of two nodes.
TwoLocks == {<<0, 0>>, <<1, 0>>}

\* Two elements of one lock array, far enough apart that offset 1, multiplied by
\* the size of a lock, is the offset of the other.
Array == {<<0, 1>>, <<0, 40>>}
=============================================================================
