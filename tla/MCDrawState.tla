----------------------------- MODULE MCDrawState -----------------------------
(* The thread that draws and the thread that loads.  One mesh of one or  *)
(* two vertices, two lists of indices; the loader makes few calls.         *)
EXTENDS DrawState
CONSTANTS render, loader, v1, i1
Lists == {<<0, 0>>, <<0, 1>>}
=============================================================================
