---------------------------- MODULE MCDraftMerge ----------------------------
(* A small directory for DraftMerge: a site with two buildings, one of them *)
(* with two apartments, and a site with one.                                *)
EXTENDS DraftMerge, TLC

CONSTANTS s1, s2, b1, b2, b3, a1, a2, a3, r1, r2, d1, d2, p1, p2, m1, m2, m3

MCSiteOf == b1 :> s1 @@ b2 :> s1 @@ b3 :> s2
MCBuildingOf == a1 :> b1 @@ a2 :> b1 @@ a3 :> b3

\* One behaviour is about one of these sets of fields; no rule of the merge
\* relates fields of different sets.
MCSubjects == {{"SITE", "BUILDING", "APARTMENT"}, {"DOMAIN"}, {"ROOM"}, {"DESCRIPTION"},
               {"RECIPIENTS"}}

\* No rule tells messages, people, domains or the apartments of a building apart.
Symmetry == Permutations(Messages) \cup Permutations({p1, p2})
            \cup Permutations({d1, d2}) \cup Permutations({r1, r2}) \cup Permutations({a1, a2})
==============================================================================
