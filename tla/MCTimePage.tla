------------------------------ MODULE MCTimePage ------------------------------
(* A second of four nanoseconds and a microsecond of two.                  *)
EXTENDS TimePage
CONSTANTS r1, r2
=============================================================================
