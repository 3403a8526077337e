---------------------------- MODULE MCMailIntake ----------------------------
(* Instances of MailIntake small enough for TLC. *)
EXTENDS MailIntake, TLC

CONSTANTS m1, m2, p1, p2

OneMail   == {m1}
TwoMails  == {m1, m2}
OnePoll   == {p1}
TwoPolls  == {p1, p2}

\* Both messages belong to one conversation of the mailbox.
SameConversation == [m \in TwoMails |-> "c"]

\* Rounds of the poll are interchangeable.
Symmetry == Permutations(Polls)
=============================================================================
