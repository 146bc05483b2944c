---------------------------- MODULE MCGlOwnership ----------------------------
(* The thread that draws and the thread that loads, on the Switch and on   *)
(* Windows, with a context to spare and without.                           *)
EXTENDS GlOwnership
CONSTANTS render, loader
=============================================================================
