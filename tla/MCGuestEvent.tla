---------------------------- MODULE MCGuestEvent ----------------------------
(* Small instances of GuestEvent for TLC. *)
EXTENDS GuestEvent, TLC
=============================================================================
