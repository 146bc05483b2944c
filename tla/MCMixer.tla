------------------------------- MODULE MCMixer -------------------------------
(* An effect and two streams, one of which does not decode.  The fastest   *)
(* frequency takes more of the effect in one frame than there is of it.    *)
EXTENDS Mixer, TLC
CONSTANTS effect, music, scratch, a, b
MCLength == (effect :> 2) @@ (music :> 2) @@ (scratch :> 0)
MCRate == (effect :> 3) @@ (music :> 1) @@ (scratch :> 1)
=============================================================================
