---------------------------- MODULE MCTicketForm ----------------------------
(* An instance of TicketForm small enough for TLC.                           *)
EXTENDS TicketForm, TLC
CONSTANTS a1, a2
OneAttempt  == {a1}
TwoAttempts == {a1, a2}
=============================================================================
