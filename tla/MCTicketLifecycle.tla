-------------------------- MODULE MCTicketLifecycle --------------------------
(* An instance of TicketLifecycle small enough for TLC. *)
EXTENDS TicketLifecycle, TLC

CONSTANTS t1, p1, p2, s1, r1, r2, q1, q2

OneTicket   == {t1}
TwoPros     == {p1, p2}
OneStaff    == {s1}
TwoRows     == {r1, r2}
TwoRequests == {q1, q2}

\* Contractors, rows and requests are interchangeable; nothing orders them.
Symmetry == Permutations(Pros) \cup Permutations(Rows) \cup Permutations(Requests)

\* Requests that overlap are followed where no tag is opened and no contractors
\* are merged; one at a time, with all of it.
Followed == overlapped => granted = {} /\ known = Pros
=============================================================================
