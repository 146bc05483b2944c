----------------------------- MODULE MCInputQueue -----------------------------
(* A button, a stick, a finger, and a queue of three.  Two places of each  *)
(* of the latter are near one another, and two are not.                    *)
EXTENDS InputQueue
CONSTANTS button, stick, finger
=============================================================================
