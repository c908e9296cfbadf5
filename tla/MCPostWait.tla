----------------------------- MODULE MCPostWait -----------------------------
(***************************************************************************)
(* A program for XmpPostWait on a two by two node array.  Node (1,1) waits *)
(* in each of the three ways for posts of its own, of (2,1), whose posts   *)
(* have two tags, and of (2,2); node (2,2) waits for one of (1,1).         *)
(***************************************************************************)
EXTENDS XmpPostWait

Square == <<2, 2>>

PostDirectives ==
  {<<0, <<1, 1>>, 1>>, <<1, <<1, 1>>, 1>>, <<1, <<1, 1>>, 2>>,
   <<3, <<1, 1>>, 1>>, <<0, <<2, 2>>, 1>>}

WaitDirectives ==
  {<<0, << >>, Wild>>, <<0, <<2, 1>>, Wild>>, <<0, <<2, 1>>, 2>>, <<0, <<2, 2>>, 1>>,
   <<3, <<1, 1>>, 1>>}
=============================================================================
