---- MODULE OneCall ----
(***************************************************************************)
(* What the program is asked: one call, or one session of calls, at a      *)
(* time.  `call` is what was asked and what came back; the guest thread    *)
(* that asked is idle in between.                                          *)
(***************************************************************************)
EXTENDS Integers

VARIABLE call

NoCall == [fn |-> "none"]

Called(c) == call' = c

Return == call # NoCall /\ call' = NoCall

\* The inputs a call is tried with: every short sequence of some elements.
Sequences(S, n) == UNION {[1..k -> S] : k \in 0..n}
====
