-------------------------- MODULE DraftMergeProofs --------------------------
(***************************************************************************)
(* Proofs about DraftMerge, for any directory, people, messages and times. *)
(*                                                                         *)
(* A merge is a chain of rounds, one for each field in the order of        *)
(* DRAFT_FIELDS; a settlement is a chain of decisions in the same order.   *)
(* The first lemmas say what one round may do to a draft (Agrees, Blocks,  *)
(* Fills, Disputes, Yields) and what it leaves alone (Frame); the theorems *)
(* follow the chain.                                                       *)
(***************************************************************************)
EXTENDS DraftMerge, SequenceTheorems, TLAPS

(***************************************************************************)
(* What a draft is made of.                                                *)
(***************************************************************************)
PendingType == [People -> {"none", "add", "remove"}]
AnyValue    == Sites \cup Buildings \cup Apartments \cup Rooms \cup Domains
               \cup Seq(Texts) \cup {None}
PeopleType  == [People -> [origin : {"NONE", "CHANNEL", "SYSTEM"}, removedAt : Opt(Nat)]]
MetaRow     == [edited : Opt(Nat), conflict : BOOLEAN, message : Opt(Messages),
                channelValue : AnyValue \cup PendingType]
DraftRec    == [value : [Scalars -> AnyValue], people : PeopleType,
                meta : [Fields -> MetaRow]]

\* A row of a field: in conflict exactly when it holds what the message says.
Row(f) == {row \in Meta(f) : row.conflict <=> row.channelValue # None}

\* Every field has a value and a row of its own kind, and nobody was taken off
\* who was never there.
Good(d) ==
  /\ d \in DraftRec
  /\ \A f \in Scalars : d.value[f] \in Content[f] \cup {Empty(f)}
  /\ \A f \in Fields : d.meta[f] \in Row(f)
  /\ \A r \in People : d.people[r].origin = "NONE" => d.people[r].removedAt = None

\* e has the field g of d.
SameField(d, e, g) ==
  /\ e.meta[g] = d.meta[g]
  /\ g \in Scalars => e.value[g] = d.value[g]

Emptied(e, g) == e.value[g] = None /\ e.meta[g] = EmptyMeta

LEMMA Names ==
  /\ Scalars \subseteq Fields /\ "RECIPIENTS" \in Fields /\ "RECIPIENTS" \notin Scalars
  /\ Plain \subseteq Scalars
  /\ Fields = Scalars \cup {"RECIPIENTS"}
  /\ Dependents("SITE") = {"BUILDING", "APARTMENT"} /\ Dependents("BUILDING") = {"APARTMENT"}
  /\ \A f \in Fields \ {"SITE", "BUILDING"} : Dependents(f) = {}
  /\ \A f \in Fields : Dependents(f) \subseteq Scalars \ {f} /\ f \notin Dependents(f)
BY DEF Scalars, Fields, Plain, Dependents

LEMMA Kinds ==
  /\ Content["SITE"] = Sites /\ Content["BUILDING"] = Buildings
  /\ Content["APARTMENT"] = Apartments /\ Content["ROOM"] = Rooms
  /\ Content["DOMAIN"] = Domains /\ Content["DESCRIPTION"] = Seq(Texts) \ {<< >>}
  /\ Empty("DESCRIPTION") = << >> /\ \A f \in Scalars \ {"DESCRIPTION"} : Empty(f) = None
  /\ \A f \in Scalars : Content[f] \cup {Empty(f)} \subseteq AnyValue
<1>1. /\ Content["SITE"] = Sites /\ Content["BUILDING"] = Buildings
      /\ Content["APARTMENT"] = Apartments /\ Content["ROOM"] = Rooms
      /\ Content["DOMAIN"] = Domains /\ Content["DESCRIPTION"] = Seq(Texts) \ {<< >>}
  BY DEF Content, Scalars
<1>2. Empty("DESCRIPTION") = << >> /\ \A f \in Scalars \ {"DESCRIPTION"} : Empty(f) = None
  BY DEF Empty, Scalars
<1>3. << >> \in Seq(Texts)
  OBVIOUS
<1>4. \A f \in Scalars : Content[f] \cup {Empty(f)} \subseteq AnyValue
  BY <1>1, <1>2, <1>3 DEF Scalars, AnyValue
<1> QED
  BY <1>1, <1>2, <1>4

LEMMA NoneIsNothing ==
  /\ \A f \in Scalars : None \notin Content[f]
  /\ None \notin Nat /\ None \notin PendingType /\ None \notin Messages
BY Kinds, NoneAssumption DEF Scalars, PendingType

LEMMA EmptyRow ==
  /\ \A f \in Fields : EmptyMeta \in Row(f) /\ EmptyMeta \in MetaRow
  /\ ~EmptyMeta.conflict /\ EmptyMeta.edited = None /\ EmptyMeta.channelValue = None
  /\ EmptyMeta.message = None
BY DEF EmptyMeta, Row, Meta, MetaRow, Opt, AnyValue

LEMMA EditedRow ==
  ASSUME NEW t \in Opt(Nat)
  PROVE  /\ \A f \in Fields : EditedAt(t) \in Row(f) /\ EditedAt(t) \in MetaRow
         /\ ~EditedAt(t).conflict /\ EditedAt(t).edited = t /\ EditedAt(t).channelValue = None
         /\ EditedAt(t).message = None
BY DEF EditedAt, EmptyMeta, Row, Meta, MetaRow, Opt, AnyValue

LEMMA AgainstRow ==
  ASSUME NEW f \in Scalars, NEW row \in Row(f), NEW p \in Content[f], NEW m \in Messages
  PROVE  /\ Against(row, p, m) \in Row(f)
         /\ Against(row, p, m).channelValue = p /\ Against(row, p, m).edited = row.edited
         /\ Against(row, p, m).conflict
<1>1. f # "RECIPIENTS" /\ p # None
  BY NoneIsNothing DEF Scalars
<1> QED
  BY <1>1 DEF Against, Row, Meta, Opt

\* A row of any field is a row.
LEMMA RowOfKind ==
  ASSUME NEW f \in Fields PROVE Row(f) \subseteq MetaRow /\ Row(f) \subseteq Meta(f)
<1>1. CASE f \in Scalars
  BY <1>1, Kinds, Names DEF Row, Meta, MetaRow, Opt, AnyValue, PendingType
<1>2. CASE f = "RECIPIENTS"
  BY <1>2 DEF Row, Meta, MetaRow, Opt, AnyValue, PendingType
<1> QED
  BY <1>1, <1>2, Names

-----------------------------------------------------------------------------
(* The two writes to a field.                                                *)

LEMMA WriteRow ==
  ASSUME NEW d, Good(d), NEW f \in Fields, NEW row \in Row(f)
  PROVE  LET e == PutRow(d, f, row) IN
         /\ Good(e)
         /\ e.value = d.value /\ e.people = d.people /\ e.meta[f] = row
         /\ \A g \in Fields \ {f} : SameField(d, e, g)
<1> DEFINE e == PutRow(d, f, row)
<1>1. row \in MetaRow
  BY RowOfKind
<1>2. d \in [value : [Scalars -> AnyValue], people : PeopleType, meta : [Fields -> MetaRow]]
  BY DEF Good, DraftRec
<1>3. /\ e.value = d.value /\ e.people = d.people
      /\ e.meta = [d.meta EXCEPT ![f] = row]
      /\ e \in [value : [Scalars -> AnyValue], people : PeopleType, meta : [Fields -> MetaRow]]
  BY <1>1, <1>2 DEF PutRow
<1>4. \A g \in Fields : e.meta[g] = IF g = f THEN row ELSE d.meta[g]
  BY <1>2, <1>3
<1>5. \A g \in Fields \ {f} : SameField(d, e, g)
  BY <1>3, <1>4 DEF SameField
<1>6. Good(e)
  BY <1>3, <1>4 DEF Good, DraftRec
<1> QED
  BY <1>3, <1>4, <1>5, <1>6

LEMMA WriteValue ==
  ASSUME NEW d, Good(d), NEW f \in Scalars, NEW v \in Content[f] \cup {Empty(f)},
         NEW row \in Row(f)
  PROVE  LET e == Replace(d, f, v, row) IN
         /\ Good(e)
         /\ e.people = d.people /\ e.value[f] = v /\ e.meta[f] = row
         /\ \A g \in Dependents(f) : Emptied(e, g)
         /\ \A g \in Fields \ ({f} \cup Dependents(f)) : SameField(d, e, g)
<1> DEFINE e == Replace(d, f, v, row)
<1>1. row \in MetaRow /\ v \in AnyValue /\ None \in AnyValue
  BY RowOfKind, Kinds, Names DEF AnyValue
<1>2. d \in [value : [Scalars -> AnyValue], people : PeopleType, meta : [Fields -> MetaRow]]
  BY DEF Good, DraftRec
<1>3. /\ e.people = d.people
      /\ e.value = [g \in Scalars |-> IF g = f THEN v ELSE IF g \in Dependents(f) THEN None
                                      ELSE d.value[g]]
      /\ e.meta = [g \in Fields |-> IF g = f THEN row ELSE IF g \in Dependents(f) THEN EmptyMeta
                                    ELSE d.meta[g]]
      /\ e = [value |-> e.value, people |-> e.people, meta |-> e.meta]
  <2> DEFINE V == [g \in Scalars |-> IF g = f THEN v ELSE IF g \in Dependents(f) THEN None
                                     ELSE d.value[g]]
             M == [g \in Fields |-> IF g = f THEN row ELSE IF g \in Dependents(f) THEN EmptyMeta
                                    ELSE d.meta[g]]
  <2>1. e = [d EXCEPT !.value = V, !.meta = M]
    BY DEF Replace
  <2> HIDE DEF V, M, e
  <2>2. e = [value |-> V, people |-> d.people, meta |-> M]
    BY <1>2, <2>1
  <2> QED
    BY <2>2 DEF V, M
<1>4. e.value \in [Scalars -> AnyValue] /\ e.meta \in [Fields -> MetaRow]
  BY <1>1, <1>2, <1>3, EmptyRow
<1>5. e \in DraftRec
  BY <1>2, <1>3, <1>4 DEF DraftRec
<1>6. \A g \in Scalars : e.value[g] \in Content[g] \cup {Empty(g)}
  BY <1>3, Names, Kinds DEF Good, Dependents
<1>7. \A g \in Fields : e.meta[g] \in Row(g)
  BY <1>3, EmptyRow DEF Good
<1>8. Good(e)
  BY <1>3, <1>5, <1>6, <1>7 DEF Good
<1>9. \A g \in Dependents(f) : Emptied(e, g)
  BY <1>3, Names DEF Emptied
<1>10. \A g \in Fields \ ({f} \cup Dependents(f)) : SameField(d, e, g)
  BY <1>3 DEF SameField
<1>11. e.value[f] = v /\ e.meta[f] = row
  BY <1>3, Names
<1> QED
  BY <1>3, <1>8, <1>9, <1>10, <1>11

-----------------------------------------------------------------------------
(***************************************************************************)
(* A round of the merge leads from a draft d, with the fields B blocked, to *)
(* e, with C blocked, in one of five ways.                                  *)
(***************************************************************************)
Overruled(row, at) == row.edited # None /\ row.edited > at

Agrees(d, B, e, C, f, p, at) ==
  /\ e = d /\ C = B
  /\ p # None => /\ d.value[f] = p
                 /\ f \notin B
                 /\ Overruled(d.meta[f], at) \/ ~d.meta[f].conflict
Blocks(d, B, e, C, f, p, at) ==
  /\ p # None /\ e = d /\ C = B \cup Dependents(f)
  /\ f \in B \/ (Overruled(d.meta[f], at) /\ d.value[f] # p)
Fills(d, B, e, C, f, p) ==
  /\ p # None /\ f \notin B /\ C = B
  /\ d.meta[f].edited = None /\ d.value[f] # p
  /\ e = Replace(d, f, p, EmptyMeta)
Disputes(d, B, e, C, f, p, at, m) ==
  /\ p # None /\ f \notin B /\ C = B \cup Dependents(f)
  /\ d.meta[f].edited # None /\ ~Overruled(d.meta[f], at) /\ d.value[f] # p
  /\ e = PutRow(d, f, Against(d.meta[f], p, m))
Yields(d, B, e, C, f, p) ==
  /\ p # None /\ f \notin B /\ C = B
  /\ d.value[f] = p
  /\ e = PutRow(d, f, EditedAt(d.meta[f].edited))

MergeStep(d, B, e, C, f, p, at, m) ==
  \/ Agrees(d, B, e, C, f, p, at)
  \/ Blocks(d, B, e, C, f, p, at)
  \/ Fills(d, B, e, C, f, p)
  \/ Disputes(d, B, e, C, f, p, at, m)
  \/ Yields(d, B, e, C, f, p)

LEMMA MergeScalarValue ==
  ASSUME NEW acc, NEW f, NEW p, NEW at, NEW m
  PROVE  LET d   == acc.draft
             row == d.meta[f]
             why == Decision(row, d.value[f], p, at)
         IN  MergeScalar(acc, f, p, at, m)
             = IF p = None THEN acc
               ELSE IF f \in acc.blocked THEN Blocked(acc, f, d)
               ELSE CASE why = "apply"    -> Goes(acc, Replace(d, f, p, EmptyMeta))
                      [] why = "conflict" -> Blocked(acc, f, PutRow(d, f, Against(row, p, m)))
                      [] why = "close"    -> Goes(acc, PutRow(d, f, EditedAt(row.edited)))
                      [] why = "ignore"   -> IF d.value[f] = p THEN acc ELSE Blocked(acc, f, d)
                      [] why = "noop"     -> acc
BY DEF MergeScalar

LEMMA MergeScalarStep ==
  ASSUME NEW acc, NEW f, NEW p, NEW at, NEW m,
         acc = [draft |-> acc.draft, blocked |-> acc.blocked],
         acc.draft.meta[f].conflict \in BOOLEAN
  PROVE  LET r == MergeScalar(acc, f, p, at, m) IN
         /\ r = [draft |-> r.draft, blocked |-> r.blocked]
         /\ MergeStep(acc.draft, acc.blocked, r.draft, r.blocked, f, p, at, m)
<1> DEFINE d == acc.draft
           B == acc.blocked
           r == MergeScalar(acc, f, p, at, m)
           row == d.meta[f]
           why == Decision(row, d.value[f], p, at)
           Gone(e) == r = Goes(acc, e)
           Held(e) == r = Blocked(acc, f, e)
<1>1. ASSUME NEW e, Gone(e)
      PROVE  r = [draft |-> r.draft, blocked |-> r.blocked] /\ r.draft = e /\ r.blocked = B
  <2>1. r = [acc EXCEPT !.draft = e]
    BY <1>1 DEF Goes
  <2> HIDE DEF r
  <2> QED
    BY <2>1
<1>2. ASSUME NEW e, Held(e)
      PROVE  r = [draft |-> r.draft, blocked |-> r.blocked]
             /\ r.draft = e /\ r.blocked = B \cup Dependents(f)
  <2>1. r = [draft |-> e, blocked |-> B \cup Dependents(f)]
    BY <1>2 DEF Blocked
  <2> HIDE DEF r
  <2> QED
    BY <2>1
<1>0. r = IF p = None THEN acc
          ELSE IF f \in B THEN Blocked(acc, f, d)
          ELSE CASE why = "apply"    -> Goes(acc, Replace(d, f, p, EmptyMeta))
                 [] why = "conflict" -> Blocked(acc, f, PutRow(d, f, Against(row, p, m)))
                 [] why = "close"    -> Goes(acc, PutRow(d, f, EditedAt(row.edited)))
                 [] why = "ignore"   -> IF d.value[f] = p THEN acc ELSE Blocked(acc, f, d)
                 [] why = "noop"     -> acc
  BY MergeScalarValue
<1>3. /\ p = None => r = acc
      /\ p # None /\ f \in B => Held(d)
      /\ p # None /\ f \notin B =>
           /\ why = "apply" => Gone(Replace(d, f, p, EmptyMeta))
           /\ why = "conflict" => Held(PutRow(d, f, Against(row, p, m)))
           /\ why = "close" => Gone(PutRow(d, f, EditedAt(row.edited)))
           /\ why = "ignore" => IF d.value[f] = p THEN r = acc ELSE Held(d)
           /\ why = "noop" => r = acc
  <2> HIDE DEF r, why, d, B, row
  <2> QED
    BY <1>0
<1>4. /\ why \in {"apply", "conflict", "close", "ignore", "noop"}
      /\ why = "ignore" <=> Overruled(row, at)
      /\ why = "apply" => row.edited = None /\ d.value[f] # p
      /\ why = "conflict" => row.edited # None /\ d.value[f] # p
      /\ why = "close" => d.value[f] = p
      /\ why = "noop" => d.value[f] = p /\ ~row.conflict
  BY DEF Decision, Overruled
<1> HIDE DEF why
<1>5. CASE p = None
  <2>1. r = acc
    BY <1>3, <1>5
  <2>2. Agrees(d, B, r.draft, r.blocked, f, p, at)
    BY <1>5, <2>1 DEF Agrees
  <2> QED
    BY <2>1, <2>2 DEF MergeStep
<1>6. CASE p # None /\ f \in B
  BY <1>2, <1>3, <1>6 DEF MergeStep, Blocks
<1>7. CASE p # None /\ f \notin B /\ why = "apply"
  BY <1>1, <1>3, <1>4, <1>7 DEF MergeStep, Fills
<1>8. CASE p # None /\ f \notin B /\ why = "conflict"
  BY <1>2, <1>3, <1>4, <1>8 DEF MergeStep, Disputes
<1>9. CASE p # None /\ f \notin B /\ why = "close"
  BY <1>1, <1>3, <1>4, <1>9 DEF MergeStep, Yields
<1>10. CASE p # None /\ f \notin B /\ why = "ignore"
  BY <1>2, <1>3, <1>4, <1>10 DEF MergeStep, Agrees, Blocks
<1>11. CASE p # None /\ f \notin B /\ why = "noop"
  BY <1>3, <1>4, <1>11 DEF MergeStep, Agrees
<1> QED
  BY <1>4, <1>5, <1>6, <1>7, <1>8, <1>9, <1>10, <1>11

\* What a step that is about the field f may touch.
Frame(d, e, f) ==
  /\ Good(e) /\ e.people = d.people
  /\ \A g \in Fields \ ({f} \cup Dependents(f)) : SameField(d, e, g)
  /\ \A g \in Dependents(f) :
       \/ SameField(d, e, g)
       \/ Emptied(e, g) /\ d.meta[f].edited = None /\ e.value[f] # d.value[f]
  /\ e.value[f] # d.value[f] => d.meta[f].edited = None
  /\ e.meta[f].edited = d.meta[f].edited

\* What a round leaves: a draft, the fields it has no say in, and, of a decided
\* field, value and time.
LEMMA StepFrame ==
  ASSUME NEW d, NEW B, NEW e, NEW C, NEW f \in Scalars, NEW p \in Opt(Content[f]),
         NEW at \in Nat, NEW m \in Messages,
         Good(d), MergeStep(d, B, e, C, f, p, at, m)
  PROVE  Frame(d, e, f) /\ B \subseteq C /\ C \subseteq B \cup Dependents(f)
<1>0. f \in Fields /\ d.meta[f] \in Row(f) /\ d.meta[f] \in MetaRow
  BY Names, RowOfKind DEF Good
<1>1. CASE Agrees(d, B, e, C, f, p, at)
  BY <1>1 DEF Agrees, SameField, Frame
<1>2. CASE Blocks(d, B, e, C, f, p, at)
  BY <1>2 DEF Blocks, SameField, Frame
<1>3. CASE Fills(d, B, e, C, f, p)
  <2>1. p \in Content[f] \cup {Empty(f)} /\ EmptyMeta \in Row(f)
    BY <1>0, <1>3, EmptyRow DEF Fills, Opt
  <2>2. e = Replace(d, f, p, EmptyMeta)
    BY <1>3 DEF Fills
  <2>3. /\ Good(e) /\ e.people = d.people /\ e.value[f] = p /\ e.meta[f] = EmptyMeta
        /\ \A g \in Dependents(f) : Emptied(e, g)
        /\ \A g \in Fields \ ({f} \cup Dependents(f)) : SameField(d, e, g)
    BY <2>1, <2>2, WriteValue
  <2> QED
    BY <1>3, <2>3, EmptyRow DEF Fills, Frame
<1>4. CASE Disputes(d, B, e, C, f, p, at, m)
  <2>1. Against(d.meta[f], p, m) \in Row(f)
        /\ Against(d.meta[f], p, m).edited = d.meta[f].edited
    BY <1>0, <1>4, AgainstRow DEF Disputes, Opt
  <2>2. /\ Good(e) /\ e.value = d.value /\ e.people = d.people
        /\ e.meta[f] = Against(d.meta[f], p, m)
        /\ \A g \in Fields \ {f} : SameField(d, e, g)
    BY <1>0, <1>4, <2>1, WriteRow DEF Disputes
  <2> QED
    BY <1>4, <2>1, <2>2, Names DEF Disputes, Frame
<1>5. CASE Yields(d, B, e, C, f, p)
  <2>1. d.meta[f].edited \in Opt(Nat)
    BY <1>0 DEF MetaRow
  <2>2. EditedAt(d.meta[f].edited) \in Row(f)
        /\ EditedAt(d.meta[f].edited).edited = d.meta[f].edited
    BY <1>0, <2>1, EditedRow
  <2>3. /\ Good(e) /\ e.value = d.value /\ e.people = d.people
        /\ e.meta[f] = EditedAt(d.meta[f].edited)
        /\ \A g \in Fields \ {f} : SameField(d, e, g)
    BY <1>0, <1>5, <2>2, WriteRow DEF Yields
  <2>4. C = B
    BY <1>5 DEF Yields
  <2>5. \A g \in Dependents(f) : SameField(d, e, g)
    BY <1>0, <2>3, Names
  <2>6. \A g \in Fields \ ({f} \cup Dependents(f)) : SameField(d, e, g)
    BY <2>3
  <2>7. e.value[f] = d.value[f] /\ e.meta[f].edited = d.meta[f].edited
    BY <2>2, <2>3
  <2> QED
    BY <2>3, <2>4, <2>5, <2>6, <2>7 DEF Frame
<1> QED
  BY <1>1, <1>2, <1>3, <1>4, <1>5 DEF MergeStep

-----------------------------------------------------------------------------
(***************************************************************************)
(* The rounds of the merge of a message.                                   *)
(***************************************************************************)

\* What a message says, and that its address was matched against the draft.
SaidOK(said) ==
  /\ \A f \in Scalars : said.value[f] \in Opt(Content[f])
  /\ said.append \in BOOLEAN /\ (said.append => said.value["DESCRIPTION"] # None)
  /\ said.add \subseteq People /\ said.remove \subseteq People

Matched(d, said) ==
  LET site == said.value["SITE"] building == said.value["BUILDING"]
      apartment == said.value["APARTMENT"] IN
  /\ building # None => building \in BuildingsFor(d, site)
  /\ apartment # None => apartment \in ApartmentsFor(d, site, building)

Shaped(acc) == acc = [draft |-> acc.draft, blocked |-> acc.blocked]

Round(acc, r, f, p, at, m) ==
  /\ Shaped(r)
  /\ MergeStep(acc.draft, acc.blocked, r.draft, r.blocked, f, p, at, m)
  /\ Frame(acc.draft, r.draft, f)
  /\ acc.blocked \subseteq r.blocked /\ r.blocked \subseteq acc.blocked \cup Dependents(f)

LEMMA MergeFieldRound ==
  ASSUME NEW acc, Shaped(acc), Good(acc.draft), NEW f \in Scalars, NEW said, SaidOK(said),
         NEW at \in Nat, NEW m \in Messages
  PROVE  Round(acc, MergeField(acc, f, said, at, m), f, said.value[f], at, m)
<1> DEFINE r == MergeField(acc, f, said, at, m)
           p == said.value[f]
<1>1. acc.draft.meta[f] \in MetaRow /\ p \in Opt(Content[f])
  BY RowOfKind, Names DEF Good, SaidOK
<1>2. r = MergeScalar(acc, f, p, at, m)
  BY DEF MergeField
<1>3. acc.draft.meta[f].conflict \in BOOLEAN
  BY <1>1 DEF MetaRow
<1>4. Shaped(r) /\ MergeStep(acc.draft, acc.blocked, r.draft, r.blocked, f, p, at, m)
  BY <1>2, <1>3, MergeScalarStep DEF Shaped
<1> HIDE DEF r, p
<1>5. Frame(acc.draft, r.draft, f)
      /\ acc.blocked \subseteq r.blocked /\ r.blocked \subseteq acc.blocked \cup Dependents(f)
  BY <1>1, <1>4, StepFrame
<1>6. Round(acc, r, f, p, at, m)
  BY <1>4, <1>5 DEF Round
<1> QED
  BY <1>6 DEF r, p

\* The drafts between the rounds.
R1(d, said, at, m) == MergeField([draft |-> d, blocked |-> {}], "SITE", said, at, m)
R2(d, said, at, m) == MergeField(R1(d, said, at, m), "BUILDING", said, at, m)
R3(d, said, at, m) == MergeField(R2(d, said, at, m), "APARTMENT", said, at, m)
R4(d, said, at, m) == MergeField(R3(d, said, at, m), "ROOM", said, at, m)
R5(d, said, at, m) == MergeField(R4(d, said, at, m), "DOMAIN", said, at, m)
R6(d, said, at, m) == MergeDescription(R5(d, said, at, m), said, at, m)

LEMMA Prefix ==
  ASSUME NEW S, NEW s \in Seq(S), NEW t \in Seq(S)
  PROVE  /\ s \o t \in Seq(S) /\ (t # << >> => s \o t # << >>)
         /\ SubSeq(s \o t, 1, Len(s)) = s
<1>1. SubSeq(s \o t, 1, Len(s)) = SubSeq(s, 1, Len(s))
  <2>1. CASE Len(s) = 0
    BY <2>1, SubSeqEmpty
  <2>2. CASE Len(s) # 0
    <3>1. Len(s) \in 1 .. Len(s) /\ 1 \in 1 .. Len(s)
      BY <2>2
    <3> QED
      BY <3>1, SubSeqOfConcat1
  <2> QED
    BY <2>1, <2>2
<1> QED
  BY <1>1, ConcatProperties, ConcatEqualIffEmpty, SubSeqFull

\* The description: merged like the others, or longer.
LEMMA DescriptionRound ==
  ASSUME NEW acc, Shaped(acc), Good(acc.draft), NEW said, SaidOK(said),
         NEW at \in Nat, NEW m \in Messages
  PROVE  LET d == acc.draft
             e == MergeDescription(acc, said, at, m).draft IN
         /\ Good(e) /\ e.people = d.people
         /\ \A g \in Fields \ {"DESCRIPTION"} : SameField(d, e, g)
         /\ e.meta["DESCRIPTION"].edited = d.meta["DESCRIPTION"].edited
         /\ d.meta["DESCRIPTION"].edited # None =>
              SubSeq(e.value["DESCRIPTION"], 1, Len(d.value["DESCRIPTION"]))
                = d.value["DESCRIPTION"]
<1> DEFINE d == acc.draft
           r == MergeDescription(acc, said, at, m)
           old == d.value["DESCRIPTION"]
           new == said.value["DESCRIPTION"]
<1>1. "DESCRIPTION" \in Scalars /\ old \in Seq(Texts)
  <2>1. "DESCRIPTION" \in Scalars /\ << >> \in Seq(Texts)
    BY DEF Scalars
  <2> QED
    BY <2>1, Kinds DEF Good
<1>2. CASE said.append
  <2>1. new \in Seq(Texts) /\ new # << >>
    BY <1>1, <1>2, Kinds DEF SaidOK, Opt
  <2>2. old \o new \in Seq(Texts) /\ old \o new # << >>
        /\ SubSeq(old \o new, 1, Len(old)) = old
    BY <1>1, <2>1, Prefix
  <2>3. old \o new \in Content["DESCRIPTION"]
    BY <2>2, Kinds
  <2>4. r = [acc EXCEPT !.draft.value["DESCRIPTION"] = @ \o new]
    BY <1>2 DEF MergeDescription
  <2>5. d \in [value : [Scalars -> AnyValue], people : PeopleType, meta : [Fields -> MetaRow]]
    BY DEF Good, DraftRec
  <2> DEFINE V == [d.value EXCEPT !["DESCRIPTION"] = old \o new]
             e == [value |-> V, people |-> d.people, meta |-> d.meta]
  <2>6. acc = [draft |-> d, blocked |-> acc.blocked]
    BY DEF Shaped
  <2>7. r.draft = [d EXCEPT !.value = V]
    BY <2>4, <2>6
  <2>8. r.draft = e
    BY <2>5, <2>7
  <2>9. V \in [Scalars -> AnyValue] /\ V["DESCRIPTION"] = old \o new
        /\ \A g \in Scalars \ {"DESCRIPTION"} : V[g] = d.value[g]
    BY <1>1, <2>3, <2>5, Kinds
  <2> HIDE DEF V, r, d
  <2>10. e \in DraftRec /\ e.people = d.people /\ e.meta = d.meta /\ e.value = V
    BY <2>5, <2>9 DEF DraftRec
  <2> HIDE DEF e
  <2>11. Good(e)
    BY <2>3, <2>9, <2>10 DEF Good, d
  <2>12. \A g \in Fields \ {"DESCRIPTION"} : SameField(d, e, g)
    BY <2>9, <2>10 DEF SameField
  <2> QED
    BY <2>2, <2>8, <2>9, <2>10, <2>11, <2>12 DEF r, d
<1>3. CASE ~said.append
  <2>1. r = MergeField(acc, "DESCRIPTION", said, at, m)
    BY <1>3 DEF MergeDescription
  <2>2. Frame(d, r.draft, "DESCRIPTION")
    BY <1>1, <2>1, MergeFieldRound DEF Round
  <2>3. SubSeq(old, 1, Len(old)) = old
    BY <1>1
  <2> HIDE DEF r, d
  <2>4. Dependents("DESCRIPTION") = {}
    BY DEF Dependents
  <2>5. r.draft.value["DESCRIPTION"] # d.value["DESCRIPTION"] => d.meta["DESCRIPTION"].edited = None
    BY <2>2 DEF Frame
  <2> QED
    BY <2>2, <2>3, <2>4, <2>5 DEF Frame, r, d
<1> QED
  BY <1>2, <1>3 DEF SaidOK

LEMMA PendingSides ==
  ASSUME NEW d, Good(d)
  PROVE  Pending(d) \in PendingType
<1>1. d.meta["RECIPIENTS"].channelValue \in Opt(PendingType)
  BY Names DEF Good, Row, Meta, PendingType
<1> QED
  BY <1>1 DEF Pending, NobodyPending, PendingType, Opt

\* Whoever the screen put there or took off is where the screen left him.
LEMMA PersonStays ==
  ASSUME NEW d, Good(d), NEW said, NEW r \in People
  PROVE  LET p == MergePerson(d, said, r) IN
         /\ p \in [origin : {"NONE", "CHANNEL", "SYSTEM"}, removedAt : Opt(Nat)]
         /\ p.origin = "NONE" => p.removedAt = None
         /\ d.people[r].origin = "SYSTEM" \/ d.people[r].removedAt # None => p = d.people[r]
<1>1. d.people \in PeopleType
  BY DEF Good, DraftRec
<1>2. d.people[r] \in [origin : {"NONE", "CHANNEL", "SYSTEM"}, removedAt : Opt(Nat)]
  BY <1>1 DEF PeopleType
<1>3. r \notin Active(d) \cup Tombstones(d) =>
        d.people[r].origin = "NONE" /\ d.people[r].removedAt = None
  BY DEF Good, Active, Tombstones
<1>4. r \in Active(d) => d.people[r].removedAt = None
  BY DEF Active
<1>5. d.people[r].origin = "NONE" => d.people[r].removedAt = None
  BY DEF Good
<1>6. CASE r \in Adds(said) /\ r \notin Active(d) \cup Tombstones(d)
  BY <1>3, <1>6 DEF MergePerson, ByChannel, Opt
<1>7. CASE ~(r \in Adds(said) /\ r \notin Active(d) \cup Tombstones(d))
           /\ r \in Removes(said) /\ r \in Active(d) /\ d.people[r].origin = "CHANNEL"
  BY <1>4, <1>7 DEF MergePerson, Absent, Opt
<1>8. CASE ~(r \in Adds(said) /\ r \notin Active(d) \cup Tombstones(d))
           /\ ~(r \in Removes(said) /\ r \in Active(d) /\ d.people[r].origin = "CHANNEL")
  BY <1>2, <1>5, <1>8 DEF MergePerson
<1> QED
  BY <1>6, <1>7, <1>8

LEMMA RecipientsRound ==
  ASSUME NEW d, Good(d), NEW said, SaidOK(said), NEW at \in Nat, NEW m \in Messages
  PROVE  LET e == MergeRecipients(d, said, at, m) IN
         /\ Good(e) /\ e.value = d.value
         /\ \A g \in Scalars : SameField(d, e, g)
         /\ \A r \in People : d.people[r].origin = "SYSTEM" \/ d.people[r].removedAt # None
                                => e.people[r] = d.people[r]
<1> DEFINE e == MergeRecipients(d, said, at, m)
           people == [r \in People |-> MergePerson(d, said, r)]
           c == [d EXCEPT !.people = people]
           pending == [r \in People |-> MergePending(d, said, r, at)]
           conflict == pending # NobodyPending
           meta == d.meta["RECIPIENTS"]
           row == [edited |-> meta.edited, conflict |-> conflict,
                   channelValue |-> IF conflict THEN pending ELSE None,
                   message |-> IF ~conflict THEN None
                               ELSE IF PutPending(d, said, at) THEN m ELSE meta.message]
<1>1. e = d \/ e = PutRow(c, "RECIPIENTS", row)
  BY DEF MergeRecipients
<1>2. pending \in PendingType
  <2>1. \A r \in People : Pending(d)[r] \in {"none", "add", "remove"}
    BY PendingSides DEF PendingType
  <2> QED
    BY <2>1 DEF MergePending, PendingType
<1>3. d \in [value : [Scalars -> AnyValue], people : PeopleType, meta : [Fields -> MetaRow]]
  BY DEF Good, DraftRec
<1>4. meta \in Row("RECIPIENTS") /\ meta \in MetaRow
  BY RowOfKind, Names DEF Good
<1>5. meta.edited \in Opt(Nat) /\ meta.message \in Opt(Messages)
  BY <1>4 DEF MetaRow
<1>6. people \in PeopleType /\ \A r \in People : people[r] = MergePerson(d, said, r)
  BY PersonStays DEF PeopleType
<1> HIDE DEF pending, people
<1>7. c.value = d.value /\ c.meta = d.meta /\ c.people = people /\ c \in DraftRec
  BY <1>3, <1>6 DEF DraftRec
<1> HIDE DEF c
<1>8. Good(c)
  BY <1>6, <1>7, PersonStays DEF Good
<1>9. row \in Row("RECIPIENTS")
  BY <1>2, <1>5, NoneIsNothing DEF Row, Meta, PendingType, Opt
<1> HIDE DEF e, row
<1>10. CASE e = PutRow(c, "RECIPIENTS", row)
  <2>1. /\ Good(e) /\ e.value = c.value /\ e.people = c.people
        /\ \A g \in Fields \ {"RECIPIENTS"} : SameField(c, e, g)
    BY <1>8, <1>9, <1>10, WriteRow, Names
  <2>2. \A g \in Scalars : SameField(d, e, g)
    BY <1>7, <2>1, Names DEF SameField
  <2>3. \A r \in People : d.people[r].origin = "SYSTEM" \/ d.people[r].removedAt # None
                            => e.people[r] = d.people[r]
    BY <1>6, <1>7, <2>1, PersonStays
  <2> QED
    BY <1>7, <2>1, <2>2, <2>3 DEF e
<1>11. CASE e = d
  BY <1>11 DEF SameField, e
<1> QED
  BY <1>1, <1>10, <1>11 DEF e, c, row, people, pending

\* The merge of a message, round by round.
LEMMA ChannelPath ==
  ASSUME NEW d, Good(d), NEW said, SaidOK(said), NEW at \in Nat, NEW m \in Messages
  PROVE  LET r1 == R1(d, said, at, m) r2 == R2(d, said, at, m) r3 == R3(d, said, at, m)
             r4 == R4(d, said, at, m) r5 == R5(d, said, at, m)
         IN  /\ Round([draft |-> d, blocked |-> {}], r1, "SITE", said.value["SITE"], at, m)
             /\ Round(r1, r2, "BUILDING", said.value["BUILDING"], at, m)
             /\ Round(r2, r3, "APARTMENT", said.value["APARTMENT"], at, m)
             /\ Round(r3, r4, "ROOM", said.value["ROOM"], at, m)
             /\ Round(r4, r5, "DOMAIN", said.value["DOMAIN"], at, m)
             /\ Good(r5.draft) /\ Shaped(r5)
             /\ MergeChannel(d, said, at, m) = MergeRecipients(R6(d, said, at, m).draft, said, at, m)
<1> DEFINE r0 == [draft |-> d, blocked |-> {}]
           r1 == R1(d, said, at, m)
           r2 == R2(d, said, at, m)
           r3 == R3(d, said, at, m)
           r4 == R4(d, said, at, m)
           r5 == R5(d, said, at, m)
<1>0. {"SITE", "BUILDING", "APARTMENT", "ROOM", "DOMAIN"} \subseteq Scalars
  BY DEF Scalars
<1>1. Shaped(r0) /\ r0.draft = d
  BY DEF Shaped
<1>2. r1 = MergeField(r0, "SITE", said, at, m)
  BY DEF R1
<1>3. r2 = MergeField(r1, "BUILDING", said, at, m)
  BY DEF R2
<1>4. r3 = MergeField(r2, "APARTMENT", said, at, m)
  BY DEF R3
<1>5. r4 = MergeField(r3, "ROOM", said, at, m)
  BY DEF R4
<1>6. r5 = MergeField(r4, "DOMAIN", said, at, m)
  BY DEF R5
<1>7. MergeChannel(d, said, at, m) = MergeRecipients(R6(d, said, at, m).draft, said, at, m)
  BY DEF MergeChannel, R1, R2, R3, R4, R5, R6
<1> HIDE DEF r0, r1, r2, r3, r4, r5
<1>8. Round(r0, r1, "SITE", said.value["SITE"], at, m)
  BY <1>0, <1>1, <1>2, MergeFieldRound
<1>9. ASSUME NEW a, NEW r, NEW f, Round(a, r, f, said.value[f], at, m)
      PROVE  Shaped(r) /\ Good(r.draft)
  BY <1>9 DEF Round, Frame
<1>10. Round(r1, r2, "BUILDING", said.value["BUILDING"], at, m)
  <2>1. Shaped(r1) /\ Good(r1.draft)
    BY <1>8, <1>9
  <2> QED
    BY <1>0, <1>3, <2>1, MergeFieldRound
<1>11. Round(r2, r3, "APARTMENT", said.value["APARTMENT"], at, m)
  <2>1. Shaped(r2) /\ Good(r2.draft)
    BY <1>10, <1>9
  <2> QED
    BY <1>0, <1>4, <2>1, MergeFieldRound
<1>12. Round(r3, r4, "ROOM", said.value["ROOM"], at, m)
  <2>1. Shaped(r3) /\ Good(r3.draft)
    BY <1>11, <1>9
  <2> QED
    BY <1>0, <1>5, <2>1, MergeFieldRound
<1>13. Round(r4, r5, "DOMAIN", said.value["DOMAIN"], at, m)
  <2>1. Shaped(r4) /\ Good(r4.draft)
    BY <1>12, <1>9
  <2> QED
    BY <1>0, <1>6, <2>1, MergeFieldRound
<1>14. Good(r5.draft) /\ Shaped(r5)
  BY <1>13, <1>9
<1> QED
  BY <1>7, <1>8, <1>10, <1>11, <1>12, <1>13, <1>14 DEF r0, r1, r2, r3, r4, r5

\* The drafts between the rounds, and what each of them may have touched.
LEMMA ChannelFrames ==
  ASSUME NEW d, Good(d), NEW said, SaidOK(said), NEW at \in Nat, NEW m \in Messages
  PROVE  LET d1 == R1(d, said, at, m).draft d2 == R2(d, said, at, m).draft
             d3 == R3(d, said, at, m).draft d4 == R4(d, said, at, m).draft
             d5 == R5(d, said, at, m).draft e == MergeChannel(d, said, at, m)
         IN  /\ Frame(d, d1, "SITE") /\ Frame(d1, d2, "BUILDING") /\ Frame(d2, d3, "APARTMENT")
             /\ Frame(d3, d4, "ROOM") /\ Frame(d4, d5, "DOMAIN")
             /\ Good(e)
             /\ \A g \in Scalars \ {"DESCRIPTION"} : SameField(d5, e, g)
             /\ e.meta["DESCRIPTION"].edited = d5.meta["DESCRIPTION"].edited
             /\ d5.meta["DESCRIPTION"].edited # None =>
                  SubSeq(e.value["DESCRIPTION"], 1, Len(d5.value["DESCRIPTION"]))
                    = d5.value["DESCRIPTION"]
             /\ \A r \in People : d.people[r].origin = "SYSTEM" \/ d.people[r].removedAt # None
                                    => e.people[r] = d.people[r]
<1> DEFINE d1 == R1(d, said, at, m).draft
           d2 == R2(d, said, at, m).draft
           d3 == R3(d, said, at, m).draft
           d4 == R4(d, said, at, m).draft
           d5 == R5(d, said, at, m).draft
           d6 == R6(d, said, at, m).draft
           e  == MergeChannel(d, said, at, m)
<1>1. /\ Frame(d, d1, "SITE") /\ Frame(d1, d2, "BUILDING") /\ Frame(d2, d3, "APARTMENT")
      /\ Frame(d3, d4, "ROOM") /\ Frame(d4, d5, "DOMAIN")
      /\ Shaped(R5(d, said, at, m)) /\ Good(d5)
      /\ e = MergeRecipients(d6, said, at, m)
  BY ChannelPath DEF Round
<1>2. /\ Good(d6) /\ d6.people = d5.people
      /\ \A g \in Fields \ {"DESCRIPTION"} : SameField(d5, d6, g)
      /\ d6.meta["DESCRIPTION"].edited = d5.meta["DESCRIPTION"].edited
      /\ d5.meta["DESCRIPTION"].edited # None =>
           SubSeq(d6.value["DESCRIPTION"], 1, Len(d5.value["DESCRIPTION"]))
             = d5.value["DESCRIPTION"]
  BY <1>1, DescriptionRound DEF R6
<1>3. /\ Good(e) /\ e.value = d6.value
      /\ \A g \in Scalars : SameField(d6, e, g)
      /\ \A r \in People : d6.people[r].origin = "SYSTEM" \/ d6.people[r].removedAt # None
                             => e.people[r] = d6.people[r]
  BY <1>1, <1>2, RecipientsRound
<1>4. d6.people = d.people
  BY <1>1, <1>2 DEF Frame
<1> HIDE DEF d1, d2, d3, d4, d5, d6, e
<1>5. \A g \in Scalars \ {"DESCRIPTION"} : SameField(d5, e, g)
  BY <1>2, <1>3, Names DEF SameField
<1>6. e.meta["DESCRIPTION"] = d6.meta["DESCRIPTION"] /\ e.value["DESCRIPTION"] = d6.value["DESCRIPTION"]
  BY <1>3 DEF SameField, Scalars
<1>7. \A r \in People : d.people[r].origin = "SYSTEM" \/ d.people[r].removedAt # None
                          => e.people[r] = d.people[r]
  BY <1>3, <1>4
<1>8. e.meta["DESCRIPTION"].edited = d5.meta["DESCRIPTION"].edited
  BY <1>2, <1>6
<1>9. d5.meta["DESCRIPTION"].edited # None =>
           SubSeq(e.value["DESCRIPTION"], 1, Len(d5.value["DESCRIPTION"]))
             = d5.value["DESCRIPTION"]
  BY <1>2, <1>6
<1> QED
  BY <1>1, <1>3, <1>5, <1>7, <1>8, <1>9 DEF d1, d2, d3, d4, d5, e

\* A decided field keeps its value and its time, unless the field it depends on
\* was undecided and is changed.
Kept(d, e, f) ==
  \/ /\ e.meta[f].edited = d.meta[f].edited
     /\ \/ e.value[f] = d.value[f]
        \/ f = "DESCRIPTION" /\ SubSeq(e.value[f], 1, Len(d.value[f])) = d.value[f]
  \/ \E g \in Scalars : f \in Dependents(g) /\ d.meta[g].edited = None /\ e.value[g] # d.value[g]

LEMMA MergeKeepsDecisions ==
  ASSUME NEW d, Good(d), NEW said, SaidOK(said), NEW at \in Nat, NEW m \in Messages
  PROVE  LET e == MergeChannel(d, said, at, m) IN
         \A f \in Scalars : d.meta[f].edited # None => Kept(d, e, f)
<1> DEFINE d1 == R1(d, said, at, m).draft
           d2 == R2(d, said, at, m).draft
           d3 == R3(d, said, at, m).draft
           d4 == R4(d, said, at, m).draft
           d5 == R5(d, said, at, m).draft
           e  == MergeChannel(d, said, at, m)
<1>0. /\ Frame(d, d1, "SITE") /\ Frame(d1, d2, "BUILDING") /\ Frame(d2, d3, "APARTMENT")
      /\ Frame(d3, d4, "ROOM") /\ Frame(d4, d5, "DOMAIN")
      /\ \A g \in Scalars \ {"DESCRIPTION"} : SameField(d5, e, g)
      /\ e.meta["DESCRIPTION"].edited = d5.meta["DESCRIPTION"].edited
      /\ d5.meta["DESCRIPTION"].edited # None =>
           SubSeq(e.value["DESCRIPTION"], 1, Len(d5.value["DESCRIPTION"]))
             = d5.value["DESCRIPTION"]
  BY ChannelFrames
<1> HIDE DEF d1, d2, d3, d4, d5, e
<1>1. /\ SameField(d1, e, "SITE") /\ SameField(d2, e, "BUILDING") /\ SameField(d3, e, "APARTMENT")
      /\ SameField(d, d3, "ROOM") /\ SameField(d4, e, "ROOM")
      /\ SameField(d, d4, "DOMAIN") /\ SameField(d5, e, "DOMAIN")
      /\ SameField(d, d5, "DESCRIPTION")
  BY <1>0 DEF Frame, SameField, Fields, Scalars, Dependents
<1>2. d.meta["SITE"].edited # None => Kept(d, e, "SITE")
  BY <1>0, <1>1 DEF Frame, Kept, SameField, Scalars
<1>3. d.meta["BUILDING"].edited # None => Kept(d, e, "BUILDING")
  <2>1. CASE SameField(d, d1, "BUILDING")
    BY <1>0, <1>1, <2>1 DEF Frame, Kept, SameField, Scalars
  <2>2. CASE d.meta["SITE"].edited = None /\ d1.value["SITE"] # d.value["SITE"]
    BY <1>1, <2>2 DEF Kept, SameField, Scalars, Dependents
  <2> QED
    BY <1>0, <2>1, <2>2 DEF Frame, Dependents
<1>4. d.meta["APARTMENT"].edited # None => Kept(d, e, "APARTMENT")
  <2>1. CASE d.meta["SITE"].edited = None /\ d1.value["SITE"] # d.value["SITE"]
    BY <1>1, <2>1 DEF Kept, SameField, Scalars, Dependents
  <2>2. CASE SameField(d, d1, "BUILDING") /\ SameField(d, d1, "APARTMENT")
    <3>1. CASE d1.meta["BUILDING"].edited = None /\ d2.value["BUILDING"] # d1.value["BUILDING"]
      BY <1>1, <2>2, <3>1 DEF Kept, SameField, Scalars, Dependents
    <3>2. CASE SameField(d1, d2, "APARTMENT")
      BY <1>0, <1>1, <2>2, <3>2 DEF Frame, Kept, SameField, Scalars
    <3> QED
      BY <1>0, <3>1, <3>2 DEF Frame, Dependents
  <2> QED
    BY <1>0, <2>1, <2>2 DEF Frame, Dependents
<1>5. d.meta["ROOM"].edited # None => Kept(d, e, "ROOM")
  BY <1>0, <1>1 DEF Frame, Kept, SameField, Scalars
<1>6. d.meta["DOMAIN"].edited # None => Kept(d, e, "DOMAIN")
  BY <1>0, <1>1 DEF Frame, Kept, SameField, Scalars
<1>7. d.meta["DESCRIPTION"].edited # None => Kept(d, e, "DESCRIPTION")
  BY <1>0, <1>1 DEF Kept, SameField, Scalars
<1>8. \A f \in Scalars : d.meta[f].edited # None => Kept(d, e, f)
  BY <1>2, <1>3, <1>4, <1>5, <1>6, <1>7 DEF Scalars
<1> QED
  BY <1>8 DEF e

-----------------------------------------------------------------------------
(***************************************************************************)
(* The address.  What a message says of it was matched against a site and  *)
(* a building; a field it says is taken over only if those were.           *)
(***************************************************************************)
Addressed(d) ==
  /\ Located(d)
  /\ d.meta["BUILDING"].channelValue # None =>
       SiteOf[d.meta["BUILDING"].channelValue] = d.value["SITE"]
  /\ d.meta["APARTMENT"].channelValue # None =>
       BuildingOf[d.meta["APARTMENT"].channelValue] = d.value["BUILDING"]

SaysBuildingOf(said, site) ==
  said.value["BUILDING"] # None => SiteOf[said.value["BUILDING"]] = site

SaysApartmentOf(said, building) ==
  said.value["APARTMENT"] # None => BuildingOf[said.value["APARTMENT"]] = building

\* Fields that are the same have the same address.
LEMMA SameAddress ==
  ASSUME NEW d, NEW e, Addressed(d), SameField(d, e, "SITE"), SameField(d, e, "BUILDING"),
         SameField(d, e, "APARTMENT")
  PROVE  Addressed(e)
BY DEF Addressed, Located, SameField, Scalars

\* A site alone is an address.
LEMMA SiteAlone ==
  ASSUME NEW d, Emptied(d, "BUILDING"), Emptied(d, "APARTMENT")
  PROVE  Addressed(d)
BY EmptyRow DEF Addressed, Located, Emptied

LEMMA SiteRound ==
  ASSUME NEW acc, NEW r, NEW said, NEW at \in Nat, NEW m \in Messages,
         Good(acc.draft), acc.blocked = {}, Addressed(acc.draft),
         SaidOK(said), Matched(acc.draft, said),
         Round(acc, r, "SITE", said.value["SITE"], at, m)
  PROVE  /\ Addressed(r.draft)
         /\ \/ {"BUILDING", "APARTMENT"} \subseteq r.blocked
            \/ /\ SaysBuildingOf(said, r.draft.value["SITE"])
               /\ said.value["BUILDING"] = None =>
                    SaysApartmentOf(said, r.draft.value["BUILDING"])
<1> DEFINE d == acc.draft
           e == r.draft
           p == said.value["SITE"]
           b == said.value["BUILDING"]
           a == said.value["APARTMENT"]
<1>1. /\ Frame(d, e, "SITE") /\ Dependents("SITE") = {"BUILDING", "APARTMENT"}
      /\ MergeStep(d, {}, e, r.blocked, "SITE", p, at, m)
      /\ "SITE" \in Scalars /\ "SITE" \in Fields /\ {"BUILDING", "APARTMENT"} \subseteq Scalars
  BY DEF Round, Scalars, Fields, Dependents
<1>2. /\ b # None => SiteOf[b] = IF p # None THEN p ELSE d.value["SITE"]
      /\ a # None => BuildingOf[a] = IF b # None THEN b
                                     ELSE IF p # None /\ p # d.value["SITE"] THEN None
                                     ELSE d.value["BUILDING"]
  BY DEF Matched, BuildingsFor, ApartmentsFor
<1>3. a # None => BuildingOf[a] # None
  <2>1. a # None => a \in Apartments
    BY <1>1, Kinds DEF SaidOK, Opt
  <2> QED
    BY <2>1, DraftAssumption, NoneAssumption
<1> HIDE DEF d, e, p, b, a
<1>4. CASE e.value["SITE"] = d.value["SITE"] /\ (p # None => p = d.value["SITE"])
  <2>1. SameField(d, e, "BUILDING") /\ SameField(d, e, "APARTMENT")
    BY <1>1, <1>4 DEF Frame
  <2>2. Addressed(e)
    BY <2>1, <1>1, <1>4 DEF Addressed, Located, SameField, d
  <2>3. (b # None => SiteOf[b] = e.value["SITE"])
        /\ (b = None /\ a # None => BuildingOf[a] = e.value["BUILDING"])
    BY <1>1, <1>2, <1>4, <2>1 DEF SameField
  <2> QED
    BY <2>2, <2>3 DEF SaysBuildingOf, SaysApartmentOf, e, b, a
<1>5. CASE e.value["SITE"] = d.value["SITE"] /\ p # None /\ p # d.value["SITE"]
  <2>1. {"BUILDING", "APARTMENT"} \subseteq r.blocked
    <3>1. CASE Fills(d, {}, e, r.blocked, "SITE", p)
      <4>1. EmptyMeta \in Row("SITE") /\ e = Replace(d, "SITE", p, EmptyMeta)
            /\ p \in Content["SITE"] \cup {Empty("SITE")}
        BY <3>1, <1>1, <1>5, EmptyRow DEF Fills, SaidOK, Opt, p
      <4>2. e.value["SITE"] = p
        BY <1>1, <4>1, WriteValue DEF d
      <4> QED
        BY <4>2, <1>5
    <3> QED
      BY <1>1, <1>5, <3>1 DEF MergeStep, Agrees, Blocks, Disputes, Yields
  <2>2. SameField(d, e, "BUILDING") /\ SameField(d, e, "APARTMENT")
    BY <1>1, <1>5 DEF Frame
  <2>3. Addressed(e)
    BY <2>2, <1>1, <1>5 DEF Addressed, Located, SameField, d
  <2> QED
    BY <2>1, <2>3 DEF e
<1>6. CASE e.value["SITE"] # d.value["SITE"]
  <2>1. Fills(d, {}, e, r.blocked, "SITE", p)
    <3>0. d \in [value : [Scalars -> AnyValue], people : PeopleType, meta : [Fields -> MetaRow]]
      BY DEF Good, DraftRec, d
    <3>1. Disputes(d, {}, e, r.blocked, "SITE", p, at, m) \/ Yields(d, {}, e, r.blocked, "SITE", p)
            => e.value = d.value
      BY <3>0 DEF Disputes, Yields, PutRow
    <3> QED
      BY <1>1, <1>6, <3>1 DEF MergeStep, Agrees, Blocks
  <2>2. EmptyMeta \in Row("SITE") /\ e = Replace(d, "SITE", p, EmptyMeta)
        /\ p \in Content["SITE"] \cup {Empty("SITE")} /\ p # None /\ p # d.value["SITE"]
    BY <2>1, <1>1, EmptyRow DEF Fills, SaidOK, Opt, p
  <2>3. e.value["SITE"] = p /\ Emptied(e, "BUILDING") /\ Emptied(e, "APARTMENT")
    BY <1>1, <2>2, WriteValue DEF d
  <2>4. Addressed(e)
    BY <2>3, SiteAlone
  <2>5. (b # None => SiteOf[b] = e.value["SITE"]) /\ (b = None => a = None)
    BY <1>2, <1>3, <2>2, <2>3
  <2> QED
    BY <2>4, <2>5 DEF SaysBuildingOf, SaysApartmentOf, e, b, a
<1> QED
  BY <1>4, <1>5, <1>6

LEMMA BuildingRound ==
  ASSUME NEW acc, NEW r, NEW said, NEW at \in Nat, NEW m \in Messages,
         Good(acc.draft), Addressed(acc.draft), SaidOK(said),
         said.value["BUILDING"] # None =>
           SaysApartmentOf(said, said.value["BUILDING"]),
         \/ {"BUILDING", "APARTMENT"} \subseteq acc.blocked
         \/ /\ SaysBuildingOf(said, acc.draft.value["SITE"])
            /\ said.value["BUILDING"] = None =>
                 SaysApartmentOf(said, acc.draft.value["BUILDING"]),
         Round(acc, r, "BUILDING", said.value["BUILDING"], at, m)
  PROVE  /\ Addressed(r.draft)
         /\ "APARTMENT" \in r.blocked \/ SaysApartmentOf(said, r.draft.value["BUILDING"])
<1> DEFINE d == acc.draft
           B == acc.blocked
           e == r.draft
           p == said.value["BUILDING"]
<1>1. /\ Frame(d, e, "BUILDING") /\ Dependents("BUILDING") = {"APARTMENT"}
      /\ MergeStep(d, B, e, r.blocked, "BUILDING", p, at, m)
      /\ "BUILDING" \in Scalars /\ "BUILDING" \in Fields
      /\ B \subseteq r.blocked
  BY DEF Round, Scalars, Fields, Dependents
<1>2. /\ SameField(d, e, "SITE") /\ "SITE" \in Scalars /\ "APARTMENT" \in Scalars
      /\ d.meta["BUILDING"] \in Row("BUILDING") /\ d.meta["BUILDING"] \in MetaRow
      /\ p \in Opt(Buildings)
  BY <1>1, RowOfKind, Kinds DEF Frame, Fields, Scalars, Good, SaidOK
<1>3. /\ p # None => SaysApartmentOf(said, p)
      /\ \/ {"BUILDING", "APARTMENT"} \subseteq B
         \/ /\ p # None => SiteOf[p] = d.value["SITE"]
            /\ p = None => SaysApartmentOf(said, d.value["BUILDING"])
  BY DEF SaysBuildingOf
<1> HIDE DEF d, B, e, p
<1>4. CASE Agrees(d, B, e, r.blocked, "BUILDING", p, at)
  BY <1>3, <1>4 DEF Agrees, d, e
<1>5. CASE Blocks(d, B, e, r.blocked, "BUILDING", p, at)
  BY <1>1, <1>5 DEF Blocks, d, e
<1>6. CASE Fills(d, B, e, r.blocked, "BUILDING", p)
  <2>1. EmptyMeta \in Row("BUILDING") /\ e = Replace(d, "BUILDING", p, EmptyMeta)
        /\ p \in Content["BUILDING"] \cup {Empty("BUILDING")} /\ p \in Buildings
        /\ SiteOf[p] = d.value["SITE"]
    BY <1>1, <1>2, <1>3, <1>6, Kinds, EmptyRow DEF Fills, Opt
  <2>2. e.value["BUILDING"] = p /\ e.meta["BUILDING"] = EmptyMeta /\ Emptied(e, "APARTMENT")
    BY <1>1, <2>1, WriteValue DEF d
  <2>3. Addressed(e)
    BY <1>2, <2>1, <2>2, EmptyRow DEF Addressed, Located, SameField, Emptied
  <2> QED
    BY <1>3, <1>6, <2>2, <2>3 DEF e, Fills
<1>7. CASE Disputes(d, B, e, r.blocked, "BUILDING", p, at, m)
  <2>1. d.meta["BUILDING"].edited \in Opt(Nat)
    BY <1>2 DEF MetaRow
  <2>2. Against(d.meta["BUILDING"], p, m) \in Row("BUILDING")
        /\ Against(d.meta["BUILDING"], p, m).channelValue = p
        /\ SiteOf[p] = d.value["SITE"]
    BY <1>1, <1>2, <1>3, <1>7, Kinds, AgainstRow DEF Disputes, Opt
  <2>3. /\ e.value = d.value /\ e.meta["BUILDING"] = Against(d.meta["BUILDING"], p, m)
        /\ \A g \in Fields \ {"BUILDING"} : SameField(d, e, g)
    BY <1>1, <1>7, <2>2, WriteRow DEF Disputes, d
  <2>4. e.meta["APARTMENT"] = d.meta["APARTMENT"]
    BY <2>3 DEF SameField, Fields, Scalars
  <2>5. Addressed(e)
    BY <2>2, <2>3, <2>4 DEF Addressed, Located, d
  <2> QED
    BY <1>1, <1>7, <2>5 DEF Disputes, e
<1>8. CASE Yields(d, B, e, r.blocked, "BUILDING", p)
  <2>1. EditedAt(d.meta["BUILDING"].edited) \in Row("BUILDING")
        /\ EditedAt(d.meta["BUILDING"].edited).channelValue = None
    BY <1>1, <1>2, EditedRow DEF MetaRow
  <2>2. /\ e.value = d.value
        /\ e.meta["BUILDING"] = EditedAt(d.meta["BUILDING"].edited)
        /\ \A g \in Fields \ {"BUILDING"} : SameField(d, e, g)
    BY <1>1, <1>8, <2>1, WriteRow DEF Yields, d
  <2>3. e.meta["APARTMENT"] = d.meta["APARTMENT"]
    BY <2>2 DEF SameField, Fields, Scalars
  <2>4. Addressed(e)
    BY <2>1, <2>2, <2>3 DEF Addressed, Located, d
  <2> QED
    BY <1>3, <1>8, <2>2, <2>4 DEF Yields, e
<1> QED
  BY <1>1, <1>4, <1>5, <1>6, <1>7, <1>8 DEF MergeStep

LEMMA ApartmentRound ==
  ASSUME NEW acc, NEW r, NEW said, NEW at \in Nat, NEW m \in Messages,
         Good(acc.draft), Addressed(acc.draft), SaidOK(said),
         "APARTMENT" \in acc.blocked \/ SaysApartmentOf(said, acc.draft.value["BUILDING"]),
         Round(acc, r, "APARTMENT", said.value["APARTMENT"], at, m)
  PROVE  Addressed(r.draft)
<1> DEFINE d == acc.draft
           B == acc.blocked
           e == r.draft
           p == said.value["APARTMENT"]
<1>1. /\ Good(d) /\ Frame(d, e, "APARTMENT") /\ Dependents("APARTMENT") = {}
      /\ MergeStep(d, B, e, r.blocked, "APARTMENT", p, at, m)
      /\ "APARTMENT" \in Scalars /\ "APARTMENT" \in Fields
  BY DEF Round, Scalars, Fields, Dependents
<1>2. /\ SameField(d, e, "SITE") /\ "SITE" \in Scalars
      /\ SameField(d, e, "BUILDING") /\ "BUILDING" \in Scalars
      /\ d.meta["APARTMENT"] \in Row("APARTMENT") /\ d.meta["APARTMENT"] \in MetaRow
      /\ p \in Opt(Apartments)
  BY <1>1, RowOfKind, Kinds DEF Frame, Fields, Scalars, Good, SaidOK
<1>3. "APARTMENT" \in B \/ (p # None => BuildingOf[p] = d.value["BUILDING"])
  BY DEF SaysApartmentOf
<1> HIDE DEF d, B, e, p
<1>4. CASE Agrees(d, B, e, r.blocked, "APARTMENT", p, at)
  BY <1>4 DEF Agrees, d, e
<1>5. CASE Blocks(d, B, e, r.blocked, "APARTMENT", p, at)
  BY <1>5 DEF Blocks, d, e
<1>6. CASE Fills(d, B, e, r.blocked, "APARTMENT", p)
  <2>1. EmptyMeta \in Row("APARTMENT") /\ e = Replace(d, "APARTMENT", p, EmptyMeta)
        /\ p \in Content["APARTMENT"] \cup {Empty("APARTMENT")} /\ p \in Apartments
        /\ BuildingOf[p] = d.value["BUILDING"]
    BY <1>1, <1>2, <1>3, <1>6, Kinds, EmptyRow DEF Fills, Opt
  <2>2. e.value["APARTMENT"] = p /\ e.meta["APARTMENT"] = EmptyMeta
    BY <1>1, <2>1, WriteValue
  <2>3. d.value["BUILDING"] \in Buildings /\ d.value["BUILDING"] # None
    BY <2>1, DraftAssumption, NoneAssumption
  <2>4. SiteOf[d.value["BUILDING"]] = d.value["SITE"]
    BY <2>3 DEF Addressed, Located, d
  <2>5. Located(e)
    BY <1>2, <2>1, <2>2, <2>3, <2>4 DEF Located, SameField
  <2>6. Addressed(e)
    BY <1>2, <2>2, <2>5, EmptyRow DEF Addressed, SameField, d
  <2> QED
    BY <2>6 DEF e
<1>7. CASE Disputes(d, B, e, r.blocked, "APARTMENT", p, at, m)
  <2>1. Against(d.meta["APARTMENT"], p, m) \in Row("APARTMENT")
        /\ Against(d.meta["APARTMENT"], p, m).channelValue = p
        /\ BuildingOf[p] = d.value["BUILDING"]
    BY <1>1, <1>2, <1>3, <1>7, Kinds, AgainstRow DEF Disputes, Opt
  <2>2. e.value = d.value /\ e.meta["APARTMENT"] = Against(d.meta["APARTMENT"], p, m)
    BY <1>1, <1>7, <2>1, WriteRow DEF Disputes, d
  <2>3. Addressed(e)
    BY <1>2, <2>1, <2>2 DEF Addressed, Located, SameField, d
  <2> QED
    BY <2>3 DEF e
<1>8. CASE Yields(d, B, e, r.blocked, "APARTMENT", p)
  <2>1. EditedAt(d.meta["APARTMENT"].edited) \in Row("APARTMENT")
        /\ EditedAt(d.meta["APARTMENT"].edited).channelValue = None
    BY <1>1, <1>2, EditedRow DEF MetaRow
  <2>2. e.value = d.value /\ e.meta["APARTMENT"] = EditedAt(d.meta["APARTMENT"].edited)
    BY <1>1, <1>8, <2>1, WriteRow DEF Yields, d
  <2>3. Addressed(e)
    BY <1>2, <2>1, <2>2 DEF Addressed, Located, SameField, d
  <2> QED
    BY <2>3 DEF e
<1> QED
  BY <1>1, <1>4, <1>5, <1>6, <1>7, <1>8 DEF MergeStep

LEMMA MergeKeepsAddress ==
  ASSUME NEW d, Good(d), Addressed(d), NEW said, SaidOK(said), Matched(d, said),
         NEW at \in Nat, NEW m \in Messages
  PROVE  Addressed(MergeChannel(d, said, at, m))
<1> DEFINE r0 == [draft |-> d, blocked |-> {}]
           r1 == R1(d, said, at, m)
           r2 == R2(d, said, at, m)
           r3 == R3(d, said, at, m)
           d4 == R4(d, said, at, m).draft
           d5 == R5(d, said, at, m).draft
           e  == MergeChannel(d, said, at, m)
<1>1. /\ Round(r0, r1, "SITE", said.value["SITE"], at, m)
      /\ Round(r1, r2, "BUILDING", said.value["BUILDING"], at, m)
      /\ Round(r2, r3, "APARTMENT", said.value["APARTMENT"], at, m)
  BY ChannelPath
<1>2. r0.draft = d /\ r0.blocked = {}
  OBVIOUS
<1>3. /\ Frame(r3.draft, d4, "ROOM") /\ Frame(d4, d5, "DOMAIN")
      /\ \A g \in Scalars \ {"DESCRIPTION"} : SameField(d5, e, g)
  BY ChannelFrames
<1>4. said.value["BUILDING"] # None => SaysApartmentOf(said, said.value["BUILDING"])
  BY DEF Matched, ApartmentsFor, SaysApartmentOf
<1> HIDE DEF r0, r1, r2, r3, d4, d5, e
<1>5. Good(r1.draft) /\ Good(r2.draft)
  BY <1>1 DEF Round, Frame
<1>6. /\ Addressed(r1.draft)
      /\ \/ {"BUILDING", "APARTMENT"} \subseteq r1.blocked
         \/ /\ SaysBuildingOf(said, r1.draft.value["SITE"])
            /\ said.value["BUILDING"] = None => SaysApartmentOf(said, r1.draft.value["BUILDING"])
  BY <1>1, <1>2, SiteRound
<1>7. /\ Addressed(r2.draft)
      /\ "APARTMENT" \in r2.blocked \/ SaysApartmentOf(said, r2.draft.value["BUILDING"])
  BY <1>1, <1>4, <1>5, <1>6, BuildingRound
<1>8. Addressed(r3.draft)
  BY <1>1, <1>5, <1>7, ApartmentRound
<1>9. \A g \in {"SITE", "BUILDING", "APARTMENT"} : SameField(r3.draft, e, g)
  BY <1>3 DEF Frame, SameField, Fields, Scalars, Dependents
<1>10. Addressed(e)
  BY <1>8, <1>9, SameAddress
<1> QED
  BY <1>10 DEF e

-----------------------------------------------------------------------------
(***************************************************************************)
(* Decisions at the screen.                                                *)
(***************************************************************************)

\* An edit of a field with a value.
LEMMA ScalarEdit ==
  ASSUME NEW d, Good(d), NEW f \in Scalars, NEW v \in Content[f] \cup {Empty(f)}, NEW t \in Nat
  PROVE  LET e == SystemEdit(d, f, v, t) IN
         /\ Good(e) /\ e.people = d.people
         /\ e.value[f] = v /\ e.meta[f] = EditedAt(t)
         /\ \A g \in Dependents(f) : IF v = d.value[f] THEN SameField(d, e, g) ELSE Emptied(e, g)
         /\ \A g \in Fields \ ({f} \cup Dependents(f)) : SameField(d, e, g)
<1> DEFINE e == SystemEdit(d, f, v, t)
<1>1. f \in Fields /\ f # "RECIPIENTS" /\ Dependents(f) \subseteq Fields \ {f}
  BY Names
<1>2. EditedAt(t) \in Row(f)
  BY <1>1, EditedRow DEF Opt
<1>3. CASE d.value[f] = v
  <2>1. e = PutRow(d, f, EditedAt(t))
    BY <1>1, <1>3 DEF SystemEdit
  <2> HIDE DEF e
  <2>2. /\ Good(e) /\ e.value = d.value /\ e.people = d.people /\ e.meta[f] = EditedAt(t)
        /\ \A g \in Fields \ {f} : SameField(d, e, g)
    BY <1>1, <1>2, <2>1, WriteRow
  <2> QED
    BY <1>1, <1>3, <2>2 DEF e
<1>4. CASE d.value[f] # v
  <2>1. e = Replace(d, f, v, EditedAt(t))
    BY <1>1, <1>4 DEF SystemEdit
  <2> HIDE DEF e
  <2>2. /\ Good(e) /\ e.people = d.people /\ e.value[f] = v /\ e.meta[f] = EditedAt(t)
        /\ \A g \in Dependents(f) : Emptied(e, g)
        /\ \A g \in Fields \ ({f} \cup Dependents(f)) : SameField(d, e, g)
    BY <1>2, <2>1, WriteValue
  <2> QED
    BY <1>4, <2>2 DEF e
<1> QED
  BY <1>3, <1>4

\* An edit of the recipients.
LEMMA RecipientsEdit ==
  ASSUME NEW d, Good(d), NEW wanted \in SUBSET People, NEW t \in Nat
  PROVE  LET e == SystemEdit(d, "RECIPIENTS", wanted, t) IN
         /\ Good(e) /\ Active(e) = wanted
         /\ e.value = d.value /\ e.meta["RECIPIENTS"] = EditedAt(t)
         /\ \A g \in Scalars : SameField(d, e, g)
<1> DEFINE e == SystemEdit(d, "RECIPIENTS", wanted, t)
           people == SystemRecipients(d, wanted, t)
           c == [d EXCEPT !.people = people]
<1>1. d \in [value : [Scalars -> AnyValue], people : PeopleType, meta : [Fields -> MetaRow]]
  BY DEF Good, DraftRec
<1>2. EditedAt(t) \in Row("RECIPIENTS")
  BY EditedRow, Names DEF Opt
<1>3. e = PutRow(c, "RECIPIENTS", EditedAt(t))
  BY DEF SystemEdit
<1>4. \A r \in People :
        /\ people[r] \in [origin : {"NONE", "CHANNEL", "SYSTEM"}, removedAt : Opt(Nat)]
        /\ people[r].origin = "NONE" => people[r].removedAt = None
        /\ people[r].origin # "NONE" /\ people[r].removedAt = None <=> r \in wanted
  <2> SUFFICES ASSUME NEW r \in People
               PROVE  /\ people[r] \in [origin : {"NONE", "CHANNEL", "SYSTEM"}, removedAt : Opt(Nat)]
                      /\ people[r].origin = "NONE" => people[r].removedAt = None
                      /\ people[r].origin # "NONE" /\ people[r].removedAt = None <=> r \in wanted
    OBVIOUS
  <2>1. d.people[r] \in [origin : {"NONE", "CHANNEL", "SYSTEM"}, removedAt : Opt(Nat)]
    BY <1>1 DEF PeopleType
  <2>2. d.people[r].origin = "NONE" => d.people[r].removedAt = None
    BY DEF Good
  <2>3. CASE r \in wanted
    BY <2>3 DEF SystemRecipients, BySystem, Opt
  <2>4. CASE r \notin wanted /\ r \in Active(d)
    BY <2>1, <2>4, NoneIsNothing DEF SystemRecipients, Active, Opt
  <2>5. CASE r \notin wanted /\ r \notin Active(d)
    BY <2>1, <2>2, <2>5 DEF SystemRecipients, Active
  <2> QED
    BY <2>3, <2>4, <2>5
<1>5. people \in PeopleType
  BY <1>4 DEF PeopleType, SystemRecipients
<1> HIDE DEF people
<1>6. c.value = d.value /\ c.meta = d.meta /\ c.people = people /\ c \in DraftRec
  BY <1>1, <1>5 DEF DraftRec
<1> HIDE DEF c
<1>7. Good(c)
  BY <1>4, <1>6 DEF Good
<1> HIDE DEF e
<1>8. /\ Good(e) /\ e.value = c.value /\ e.people = c.people /\ e.meta["RECIPIENTS"] = EditedAt(t)
      /\ \A g \in Fields \ {"RECIPIENTS"} : SameField(c, e, g)
  BY <1>2, <1>3, <1>7, WriteRow, Names
<1>9. Active(e) = wanted
  BY <1>4, <1>6, <1>8 DEF Active
<1>10. \A g \in Scalars : SameField(d, e, g)
  BY <1>6, <1>8, Names DEF SameField
<1> QED
  BY <1>6, <1>8, <1>9, <1>10 DEF e

\* One field of a settlement: its conflict is closed, and only the value of the
\* message can replace its value.
Settled(d, e, f) ==
  /\ Good(e) /\ e.people = d.people
  /\ ~e.meta[f].conflict /\ (~d.meta[f].conflict => SameField(d, e, f))
  /\ e.value[f] # d.value[f] =>
       d.meta[f].conflict /\ e.value[f] = d.meta[f].channelValue
  /\ \A g \in Dependents(f) :
       IF e.value[f] = d.value[f] THEN SameField(d, e, g) ELSE Emptied(e, g)
  /\ \A g \in Fields \ ({f} \cup Dependents(f)) : SameField(d, e, g)

LEMMA ResolveScalar ==
  ASSUME NEW d, Good(d), NEW f \in Scalars, NEW choice \in {"system", "channel"}, NEW t \in Nat
  PROVE  LET e == Resolve(d, f, choice, t) IN
         Settled(d, e, f) /\ (choice = "system" => e.value[f] = d.value[f])
<1> DEFINE e == Resolve(d, f, choice, t)
           v == Side(d, f, choice)
<1>1. f \in Fields /\ f # "RECIPIENTS" /\ Dependents(f) \subseteq Fields
  BY Names
<1>2. CASE ~d.meta[f].conflict
  BY <1>1, <1>2 DEF Resolve, Settled, SameField
<1>3. CASE d.meta[f].conflict
  <2>1. d.value[f] \in Content[f] \cup {Empty(f)}
        /\ d.meta[f].channelValue \in Content[f]
    BY <1>1, <1>3 DEF Good, Row, Meta, Opt
  <2>2. /\ v \in Content[f] \cup {Empty(f)}
        /\ v = d.value[f] \/ v = d.meta[f].channelValue
        /\ choice = "system" => v = d.value[f]
    BY <1>1, <2>1 DEF Side
  <2>3. e = SystemEdit(d, f, v, t)
    BY <1>3 DEF Resolve
  <2> HIDE DEF e, v
  <2>4. /\ Good(e) /\ e.people = d.people
        /\ e.value[f] = v /\ e.meta[f] = EditedAt(t)
        /\ \A g \in Dependents(f) : IF v = d.value[f] THEN SameField(d, e, g) ELSE Emptied(e, g)
        /\ \A g \in Fields \ ({f} \cup Dependents(f)) : SameField(d, e, g)
    BY <2>2, <2>3, ScalarEdit
  <2>5. ~EditedAt(t).conflict
    BY EditedRow DEF Opt
  <2> QED
    BY <1>3, <2>2, <2>4, <2>5 DEF Settled, e
<1> QED
  BY <1>2, <1>3

LEMMA ResolvePeople ==
  ASSUME NEW d, Good(d), NEW choice \in {"system", "channel"}, NEW t \in Nat
  PROVE  LET e == Resolve(d, "RECIPIENTS", choice, t) IN
         /\ Good(e) /\ e.value = d.value /\ ~e.meta["RECIPIENTS"].conflict
         /\ \A g \in Scalars : SameField(d, e, g)
         /\ ~d.meta["RECIPIENTS"].conflict => e = d
         /\ choice = "system" => Active(e) = Active(d)
<1> DEFINE e == Resolve(d, "RECIPIENTS", choice, t)
           w == Side(d, "RECIPIENTS", choice)
<1>1. CASE ~d.meta["RECIPIENTS"].conflict
  BY <1>1 DEF Resolve, SameField
<1>2. CASE d.meta["RECIPIENTS"].conflict
  <2>1. w \in SUBSET People /\ (choice = "system" => w = Active(d))
    BY DEF Side, Active
  <2>2. e = SystemEdit(d, "RECIPIENTS", w, t)
    BY <1>2 DEF Resolve
  <2> HIDE DEF e, w
  <2>3. /\ Good(e) /\ Active(e) = w
        /\ e.value = d.value /\ e.meta["RECIPIENTS"] = EditedAt(t)
        /\ \A g \in Scalars : SameField(d, e, g)
    BY <2>1, <2>2, RecipientsEdit
  <2>4. ~EditedAt(t).conflict
    BY EditedRow DEF Opt
  <2> QED
    BY <1>2, <2>1, <2>3, <2>4 DEF e
<1> QED
  BY <1>1, <1>2

LEMMA SettledAddress ==
  ASSUME NEW d, Good(d), Addressed(d), NEW f \in Scalars, NEW e, Settled(d, e, f)
  PROVE  Addressed(e)
<1>1. /\ Dependents("SITE") = {"BUILDING", "APARTMENT"} /\ Dependents("BUILDING") = {"APARTMENT"}
      /\ \A g \in Fields \ {"SITE", "BUILDING"} : Dependents(g) = {}
      /\ {"SITE", "BUILDING", "APARTMENT"} \subseteq Scalars /\ Scalars \subseteq Fields
  BY Names DEF Scalars
<1>2. /\ d.meta["BUILDING"].channelValue \in Opt(Buildings)
      /\ d.meta["APARTMENT"].channelValue \in Opt(Apartments)
      /\ \A g \in Fields : e.meta[g].conflict <=> e.meta[g].channelValue # None
      /\ \A g \in Fields : d.meta[g].conflict <=> d.meta[g].channelValue # None
  BY <1>1, Kinds DEF Good, Row, Meta, Scalars, Settled
<1>3. e.meta[f].channelValue = None
  BY <1>1, <1>2 DEF Settled
<1>4. CASE f = "SITE" /\ e.value["SITE"] = d.value["SITE"]
  BY <1>1, <1>4 DEF Settled, Addressed, Located, SameField
<1>5. CASE f = "SITE" /\ e.value["SITE"] # d.value["SITE"]
  BY <1>1, <1>5, SiteAlone DEF Settled
<1>6. CASE f = "BUILDING" /\ e.value["BUILDING"] = d.value["BUILDING"]
  BY <1>1, <1>3, <1>6 DEF Settled, Addressed, Located, SameField
<1>7. CASE f = "BUILDING" /\ e.value["BUILDING"] # d.value["BUILDING"]
  <2>1. /\ e.value["BUILDING"] = d.meta["BUILDING"].channelValue
        /\ d.meta["BUILDING"].channelValue # None
        /\ SameField(d, e, "SITE") /\ Emptied(e, "APARTMENT")
    BY <1>1, <1>2, <1>7 DEF Settled
  <2>2. e.value["BUILDING"] \in Buildings /\ SiteOf[e.value["BUILDING"]] = e.value["SITE"]
    BY <1>1, <1>2, <2>1 DEF Addressed, SameField, Opt
  <2> QED
    BY <1>3, <1>7, <2>1, <2>2, EmptyRow DEF Addressed, Located, Emptied
<1>8. CASE f = "APARTMENT" /\ e.value["APARTMENT"] = d.value["APARTMENT"]
  BY <1>1, <1>3, <1>8 DEF Settled, Addressed, Located, SameField
<1>9. CASE f = "APARTMENT" /\ e.value["APARTMENT"] # d.value["APARTMENT"]
  <2>1. /\ e.value["APARTMENT"] = d.meta["APARTMENT"].channelValue
        /\ d.meta["APARTMENT"].channelValue # None
        /\ SameField(d, e, "SITE") /\ SameField(d, e, "BUILDING")
    BY <1>1, <1>2, <1>9 DEF Settled
  <2>2. e.value["APARTMENT"] \in Apartments
        /\ BuildingOf[e.value["APARTMENT"]] = d.value["BUILDING"]
    BY <1>2, <2>1 DEF Addressed, Opt
  <2>3. d.value["BUILDING"] \in Buildings /\ d.value["BUILDING"] # None
    BY <2>2, DraftAssumption, NoneAssumption
  <2>4. SiteOf[d.value["BUILDING"]] = d.value["SITE"]
    BY <2>3 DEF Addressed, Located
  <2> QED
    BY <1>1, <1>3, <1>9, <2>1, <2>2, <2>3, <2>4 DEF Addressed, Located, SameField
<1>10. CASE f \notin {"SITE", "BUILDING", "APARTMENT"}
  <2>1. SameField(d, e, "SITE") /\ SameField(d, e, "BUILDING") /\ SameField(d, e, "APARTMENT")
    BY <1>1, <1>10 DEF Settled
  <2> QED
    BY <2>1, SameAddress
<1> QED
  BY <1>4, <1>5, <1>6, <1>7, <1>8, <1>9, <1>10

\* The drafts between the fields of a settlement.
S1(d, choices, t) == ResolveField(d, "SITE", choices, t)
S2(d, choices, t) == ResolveField(S1(d, choices, t), "BUILDING", choices, t)
S3(d, choices, t) == ResolveField(S2(d, choices, t), "APARTMENT", choices, t)
S4(d, choices, t) == ResolveField(S3(d, choices, t), "ROOM", choices, t)
S5(d, choices, t) == ResolveField(S4(d, choices, t), "DOMAIN", choices, t)
S6(d, choices, t) == ResolveField(S5(d, choices, t), "DESCRIPTION", choices, t)

Sides == [Fields -> {"system", "channel"}]

SettledAs(d, e, f, choice) ==
  Settled(d, e, f) /\ (choice = "system" => e.value[f] = d.value[f])

LEMMA ResolvePath ==
  ASSUME NEW d, Good(d), NEW choices \in Sides, NEW t \in Nat
  PROVE  LET d1 == S1(d, choices, t) d2 == S2(d, choices, t) d3 == S3(d, choices, t)
             d4 == S4(d, choices, t) d5 == S5(d, choices, t) d6 == S6(d, choices, t)
             e == ResolveChoices(d, choices, t)
         IN  /\ SettledAs(d, d1, "SITE", choices["SITE"])
             /\ SettledAs(d1, d2, "BUILDING", choices["BUILDING"])
             /\ SettledAs(d2, d3, "APARTMENT", choices["APARTMENT"])
             /\ SettledAs(d3, d4, "ROOM", choices["ROOM"])
             /\ SettledAs(d4, d5, "DOMAIN", choices["DOMAIN"])
             /\ SettledAs(d5, d6, "DESCRIPTION", choices["DESCRIPTION"])
             /\ Good(e) /\ e.value = d6.value /\ ~e.meta["RECIPIENTS"].conflict
             /\ \A g \in Scalars : SameField(d6, e, g)
             /\ ~d6.meta["RECIPIENTS"].conflict => e = d6
             /\ choices["RECIPIENTS"] = "system" => Active(e) = Active(d6)
<1> DEFINE d1 == S1(d, choices, t)
           d2 == S2(d, choices, t)
           d3 == S3(d, choices, t)
           d4 == S4(d, choices, t)
           d5 == S5(d, choices, t)
           d6 == S6(d, choices, t)
           e  == ResolveChoices(d, choices, t)
<1>1. \A f \in Fields : choices[f] \in {"system", "channel"}
  BY DEF Sides
<1>2. {"SITE", "BUILDING", "APARTMENT", "ROOM", "DOMAIN", "DESCRIPTION"} \subseteq Scalars
      /\ Scalars \subseteq Fields /\ "RECIPIENTS" \in Fields
  BY Names DEF Scalars
<1>3. ASSUME NEW a, Good(a), NEW f \in Scalars
      PROVE  SettledAs(a, ResolveField(a, f, choices, t), f, choices[f])
  <2>1. choices[f] \in {"system", "channel"}
    BY <1>1, <1>2
  <2>2. SettledAs(a, Resolve(a, f, choices[f], t), f, choices[f])
    BY <1>3, <2>1, ResolveScalar DEF SettledAs
  <2> QED
    BY <2>2 DEF ResolveField
<1>4. ASSUME NEW a, NEW b, NEW f, NEW c, SettledAs(a, b, f, c) PROVE Good(b)
  BY <1>4 DEF SettledAs, Settled
<1>5. /\ d1 = ResolveField(d, "SITE", choices, t) /\ d2 = ResolveField(d1, "BUILDING", choices, t)
      /\ d3 = ResolveField(d2, "APARTMENT", choices, t) /\ d4 = ResolveField(d3, "ROOM", choices, t)
      /\ d5 = ResolveField(d4, "DOMAIN", choices, t)
      /\ d6 = ResolveField(d5, "DESCRIPTION", choices, t)
  BY DEF S1, S2, S3, S4, S5, S6
<1>6. e = Resolve(d6, "RECIPIENTS", choices["RECIPIENTS"], t)
  BY DEF ResolveChoices, ResolveField, S1, S2, S3, S4, S5, S6
<1> HIDE DEF d1, d2, d3, d4, d5, d6, e
<1>7. SettledAs(d, d1, "SITE", choices["SITE"]) /\ Good(d1)
  BY <1>2, <1>3, <1>4, <1>5
<1>8. SettledAs(d1, d2, "BUILDING", choices["BUILDING"]) /\ Good(d2)
  BY <1>2, <1>3, <1>4, <1>5, <1>7
<1>9. SettledAs(d2, d3, "APARTMENT", choices["APARTMENT"]) /\ Good(d3)
  BY <1>2, <1>3, <1>4, <1>5, <1>8
<1>10. SettledAs(d3, d4, "ROOM", choices["ROOM"]) /\ Good(d4)
  BY <1>2, <1>3, <1>4, <1>5, <1>9
<1>11. SettledAs(d4, d5, "DOMAIN", choices["DOMAIN"]) /\ Good(d5)
  BY <1>2, <1>3, <1>4, <1>5, <1>10
<1>12. SettledAs(d5, d6, "DESCRIPTION", choices["DESCRIPTION"]) /\ Good(d6)
  BY <1>2, <1>3, <1>4, <1>5, <1>11
<1>13. /\ Good(e) /\ e.value = d6.value /\ ~e.meta["RECIPIENTS"].conflict
       /\ \A g \in Scalars : SameField(d6, e, g)
       /\ ~d6.meta["RECIPIENTS"].conflict => e = d6
       /\ choices["RECIPIENTS"] = "system" => Active(e) = Active(d6)
  BY <1>1, <1>2, <1>6, <1>12, ResolvePeople
<1> QED
  BY <1>7, <1>8, <1>9, <1>10, <1>11, <1>12, <1>13 DEF d1, d2, d3, d4, d5, d6, e

\* A settlement closes every conflict and leaves an address of one site.
LEMMA SettlementCloses ==
  ASSUME NEW d, Good(d), Addressed(d), NEW choices \in Sides, NEW t \in Nat
  PROVE  LET e == ResolveChoices(d, choices, t) IN
         Good(e) /\ Addressed(e) /\ Conflicts(e) = {}
<1> DEFINE d1 == S1(d, choices, t)
           d2 == S2(d, choices, t)
           d3 == S3(d, choices, t)
           d4 == S4(d, choices, t)
           d5 == S5(d, choices, t)
           d6 == S6(d, choices, t)
           e  == ResolveChoices(d, choices, t)
<1>0. /\ Settled(d, d1, "SITE") /\ Settled(d1, d2, "BUILDING")
      /\ Settled(d2, d3, "APARTMENT") /\ Settled(d3, d4, "ROOM")
      /\ Settled(d4, d5, "DOMAIN") /\ Settled(d5, d6, "DESCRIPTION")
      /\ Good(e) /\ ~e.meta["RECIPIENTS"].conflict
      /\ \A g \in Scalars : SameField(d6, e, g)
  BY ResolvePath DEF SettledAs
<1> HIDE DEF d1, d2, d3, d4, d5, d6, e
<1>1. {"SITE", "BUILDING", "APARTMENT", "ROOM", "DOMAIN", "DESCRIPTION"} \subseteq Scalars
      /\ Scalars \subseteq Fields /\ "RECIPIENTS" \in Fields
  BY Names DEF Scalars
<1>2. /\ Good(d1) /\ Good(d2) /\ Good(d3) /\ Good(d4) /\ Good(d5)
  BY <1>0 DEF Settled
<1>3. Addressed(d1)
  BY <1>0, <1>1, SettledAddress
<1>4. Addressed(d2)
  BY <1>0, <1>1, <1>2, <1>3, SettledAddress
<1>5. Addressed(d3)
  BY <1>0, <1>1, <1>2, <1>4, SettledAddress
<1>6. Addressed(d4)
  BY <1>0, <1>1, <1>2, <1>5, SettledAddress
<1>7. Addressed(d5)
  BY <1>0, <1>1, <1>2, <1>6, SettledAddress
<1>8. Addressed(d6)
  BY <1>0, <1>1, <1>2, <1>7, SettledAddress
<1>9. Addressed(e)
  BY <1>0, <1>1, <1>8, SameAddress
<1>10. ASSUME NEW a, NEW b, NEW f \in Scalars, Settled(a, b, f)
       PROVE  /\ ~b.meta[f].conflict
              /\ \A g \in Scalars : ~a.meta[g].conflict => ~b.meta[g].conflict
  <2>1. \A g \in Scalars : g = f \/ SameField(a, b, g) \/ b.meta[g] = EmptyMeta
    BY <1>10, Names DEF Settled, Emptied
  <2> QED
    BY <1>10, <2>1, EmptyRow DEF Settled, SameField
<1>11. ~d1.meta["SITE"].conflict
  BY <1>0, <1>1, <1>10
<1>12. ~d2.meta["SITE"].conflict /\ ~d2.meta["BUILDING"].conflict
  BY <1>0, <1>1, <1>10, <1>11
<1>13. \A g \in {"SITE", "BUILDING", "APARTMENT"} : ~d3.meta[g].conflict
  BY <1>0, <1>1, <1>10, <1>12
<1>14. \A g \in {"SITE", "BUILDING", "APARTMENT", "ROOM"} : ~d4.meta[g].conflict
  BY <1>0, <1>1, <1>10, <1>13
<1>15. \A g \in {"SITE", "BUILDING", "APARTMENT", "ROOM", "DOMAIN"} : ~d5.meta[g].conflict
  BY <1>0, <1>1, <1>10, <1>14
<1>16. \A g \in Scalars : ~d6.meta[g].conflict
  BY <1>0, <1>1, <1>10, <1>15 DEF Scalars
<1>17. \A g \in Fields : ~e.meta[g].conflict
  BY <1>0, <1>16, Names DEF SameField
<1>18. Conflicts(e) = {}
  BY <1>17 DEF Conflicts
<1> QED
  BY <1>0, <1>9, <1>18 DEF e

\* Keeping the side of the system everywhere changes no value.
LEMMA SystemSideKeeps ==
  ASSUME NEW d, Good(d), NEW t \in Nat
  PROVE  LET e == ResolveChoices(d, [f \in Fields |-> "system"], t) IN
         e.value = d.value /\ Active(e) = Active(d)
<1> DEFINE choices == [f \in Fields |-> "system"]
           d1 == S1(d, choices, t)
           d2 == S2(d, choices, t)
           d3 == S3(d, choices, t)
           d4 == S4(d, choices, t)
           d5 == S5(d, choices, t)
           d6 == S6(d, choices, t)
           e  == ResolveChoices(d, choices, t)
<1>1. choices \in Sides /\ \A f \in Fields : choices[f] = "system"
  BY DEF Sides
<1>2. {"SITE", "BUILDING", "APARTMENT", "ROOM", "DOMAIN", "DESCRIPTION"} \subseteq Scalars
      /\ Scalars \subseteq Fields /\ "RECIPIENTS" \in Fields
  BY Names DEF Scalars
<1> HIDE DEF choices
<1>3. /\ SettledAs(d, d1, "SITE", "system") /\ SettledAs(d1, d2, "BUILDING", "system")
      /\ SettledAs(d2, d3, "APARTMENT", "system") /\ SettledAs(d3, d4, "ROOM", "system")
      /\ SettledAs(d4, d5, "DOMAIN", "system") /\ SettledAs(d5, d6, "DESCRIPTION", "system")
      /\ e.value = d6.value /\ Active(e) = Active(d6)
  <2>1. /\ choices["SITE"] = "system" /\ choices["BUILDING"] = "system"
        /\ choices["APARTMENT"] = "system" /\ choices["ROOM"] = "system"
        /\ choices["DOMAIN"] = "system" /\ choices["DESCRIPTION"] = "system"
        /\ choices["RECIPIENTS"] = "system"
    BY <1>1, <1>2
  <2>2. /\ SettledAs(d, d1, "SITE", choices["SITE"])
        /\ SettledAs(d1, d2, "BUILDING", choices["BUILDING"])
        /\ SettledAs(d2, d3, "APARTMENT", choices["APARTMENT"])
        /\ SettledAs(d3, d4, "ROOM", choices["ROOM"])
        /\ SettledAs(d4, d5, "DOMAIN", choices["DOMAIN"])
        /\ SettledAs(d5, d6, "DESCRIPTION", choices["DESCRIPTION"])
        /\ e.value = d6.value /\ (choices["RECIPIENTS"] = "system" => Active(e) = Active(d6))
    BY <1>1, ResolvePath
  <2> HIDE DEF d1, d2, d3, d4, d5, d6, e
  <2> QED
    BY <2>1, <2>2
<1> HIDE DEF d1, d2, d3, d4, d5, d6, e
<1>4. ASSUME NEW a, Good(a), NEW b, NEW f \in Scalars, SettledAs(a, b, f, "system")
      PROVE  Good(b) /\ b.value = a.value /\ b.people = a.people
  <2>1. Good(b) /\ b.people = a.people /\ b.value[f] = a.value[f]
    BY <1>4 DEF SettledAs, Settled
  <2>2. \A g \in Scalars : b.value[g] = a.value[g]
    BY <1>2, <1>4, <2>1, Names DEF SettledAs, Settled, SameField
  <2>3. a.value \in [Scalars -> AnyValue] /\ b.value \in [Scalars -> AnyValue]
    BY <1>4, <2>1 DEF Good, DraftRec
  <2> QED
    BY <2>1, <2>2, <2>3
<1>5. Good(d1) /\ d1.value = d.value /\ d1.people = d.people
  BY <1>2, <1>3, <1>4
<1>6. Good(d2) /\ d2.value = d.value /\ d2.people = d.people
  BY <1>2, <1>3, <1>4, <1>5
<1>7. Good(d3) /\ d3.value = d.value /\ d3.people = d.people
  BY <1>2, <1>3, <1>4, <1>6
<1>8. Good(d4) /\ d4.value = d.value /\ d4.people = d.people
  BY <1>2, <1>3, <1>4, <1>7
<1>9. Good(d5) /\ d5.value = d.value /\ d5.people = d.people
  BY <1>2, <1>3, <1>4, <1>8
<1>10. Good(d6) /\ d6.value = d.value /\ d6.people = d.people
  BY <1>2, <1>3, <1>4, <1>9
<1>11. Active(d6) = Active(d)
  BY <1>10 DEF Active
<1> QED
  BY <1>3, <1>10, <1>11 DEF e, choices

\* A settlement touches a field that was not in conflict only by changing the
\* field it depends on, which was.
LEMMA SettlementFrame ==
  ASSUME NEW d, Good(d), NEW choices \in Sides, NEW t \in Nat
  PROVE  LET e == ResolveChoices(d, choices, t) IN
         /\ \A f \in Plain \cup {"DESCRIPTION"} : ~d.meta[f].conflict => SameField(d, e, f)
         /\ ~d.meta["RECIPIENTS"].conflict =>
              e.people = d.people /\ e.meta["RECIPIENTS"] = d.meta["RECIPIENTS"]
         /\ \A f \in {"BUILDING", "APARTMENT"} : ~d.meta[f].conflict =>
              \/ SameField(d, e, f)
              \/ \E g \in Scalars : /\ f \in Dependents(g) /\ d.meta[g].conflict
                                    /\ e.value[g] # d.value[g]
<1> DEFINE d1 == S1(d, choices, t)
           d2 == S2(d, choices, t)
           d3 == S3(d, choices, t)
           d4 == S4(d, choices, t)
           d5 == S5(d, choices, t)
           d6 == S6(d, choices, t)
           e  == ResolveChoices(d, choices, t)
<1>0. /\ Settled(d, d1, "SITE") /\ Settled(d1, d2, "BUILDING")
      /\ Settled(d2, d3, "APARTMENT") /\ Settled(d3, d4, "ROOM")
      /\ Settled(d4, d5, "DOMAIN") /\ Settled(d5, d6, "DESCRIPTION")
      /\ \A g \in Scalars : SameField(d6, e, g)
      /\ ~d6.meta["RECIPIENTS"].conflict => e = d6
  BY ResolvePath DEF SettledAs
<1> HIDE DEF d1, d2, d3, d4, d5, d6, e
<1>1. ASSUME NEW a, NEW b, NEW f \in Scalars, Settled(a, b, f), NEW g \in Fields,
             g # f, g \notin Dependents(f)
      PROVE  SameField(a, b, g)
  BY <1>1 DEF Settled
<1>2. ASSUME NEW a, NEW b, NEW f \in Scalars, Settled(a, b, f), ~a.meta[f].conflict
      PROVE  SameField(a, b, f) /\ b.people = a.people
             /\ \A g \in Dependents(f) : SameField(a, b, g)
  BY <1>2, Names DEF Settled, SameField
<1>3. /\ SameField(d1, d6, "SITE") /\ SameField(d2, d6, "BUILDING") /\ SameField(d3, d6, "APARTMENT")
      /\ SameField(d, d3, "ROOM") /\ SameField(d4, d6, "ROOM")
      /\ SameField(d, d4, "DOMAIN") /\ SameField(d5, d6, "DOMAIN")
      /\ SameField(d, d5, "DESCRIPTION")
      /\ SameField(d, d6, "RECIPIENTS") /\ d6.people = d.people
  BY <1>0 DEF Settled, SameField, Fields, Scalars, Dependents
<1>4. /\ SameField(d1, e, "SITE") /\ SameField(d2, e, "BUILDING") /\ SameField(d3, e, "APARTMENT")
      /\ SameField(d4, e, "ROOM") /\ SameField(d5, e, "DOMAIN") /\ SameField(d6, e, "DESCRIPTION")
  BY <1>0, <1>3 DEF SameField, Scalars
<1>5. ~d.meta["SITE"].conflict => SameField(d, e, "SITE")
  BY <1>0, <1>2, <1>4 DEF SameField, Scalars
<1>6. ~d.meta["ROOM"].conflict => SameField(d, e, "ROOM")
  BY <1>0, <1>2, <1>3, <1>4 DEF SameField, Scalars
<1>7. ~d.meta["DOMAIN"].conflict => SameField(d, e, "DOMAIN")
  BY <1>0, <1>2, <1>3, <1>4 DEF SameField, Scalars
<1>8. ~d.meta["DESCRIPTION"].conflict => SameField(d, e, "DESCRIPTION")
  BY <1>0, <1>2, <1>3, <1>4 DEF SameField, Scalars
<1>9. ~d.meta["RECIPIENTS"].conflict =>
        e.people = d.people /\ e.meta["RECIPIENTS"] = d.meta["RECIPIENTS"]
  BY <1>0, <1>3 DEF SameField
<1> DEFINE Through(f) == \E g \in Scalars : /\ f \in Dependents(g) /\ d.meta[g].conflict
                                            /\ e.value[g] # d.value[g]
<1>10. \A f \in {"BUILDING", "APARTMENT"} : ~d.meta[f].conflict => SameField(d, e, f) \/ Through(f)
  <2>0. /\ "SITE" \in Scalars /\ "BUILDING" \in Scalars
        /\ Dependents("SITE") = {"BUILDING", "APARTMENT"} /\ Dependents("BUILDING") = {"APARTMENT"}
    BY DEF Scalars, Dependents
  <2>1. CASE d1.value["SITE"] # d.value["SITE"]
    <3>1. d.meta["SITE"].conflict /\ e.value["SITE"] # d.value["SITE"]
      BY <1>0, <1>4, <2>0, <2>1 DEF Settled, SameField
    <3>2. Through("BUILDING") /\ Through("APARTMENT")
      BY <2>0, <3>1
    <3> QED
      BY <3>2
  <2>2. CASE d1.value["SITE"] = d.value["SITE"]
    <3>1. SameField(d, d1, "BUILDING") /\ SameField(d, d1, "APARTMENT")
      BY <1>0, <2>0, <2>2 DEF Settled
    <3>2. ~d.meta["BUILDING"].conflict => SameField(d, e, "BUILDING")
      BY <1>0, <1>2, <1>4, <2>0, <3>1 DEF SameField
    <3>3. CASE d2.value["BUILDING"] # d1.value["BUILDING"]
      <4>1. d.meta["BUILDING"].conflict /\ e.value["BUILDING"] # d.value["BUILDING"]
        BY <1>0, <1>4, <2>0, <3>1, <3>3 DEF Settled, SameField
      <4>2. Through("APARTMENT")
        BY <2>0, <4>1
      <4> QED
        BY <3>2, <4>2
    <3>4. CASE d2.value["BUILDING"] = d1.value["BUILDING"]
      <4>1. SameField(d1, d2, "APARTMENT")
        BY <1>0, <2>0, <3>4 DEF Settled
      <4>2. ~d.meta["APARTMENT"].conflict => SameField(d, e, "APARTMENT")
        BY <1>0, <1>2, <1>4, <3>1, <4>1 DEF SameField, Scalars
      <4> QED
        BY <3>2, <4>2
    <3> QED
      BY <3>3, <3>4
  <2> QED
    BY <2>1, <2>2
<1>11. \A f \in Plain \cup {"DESCRIPTION"} : ~d.meta[f].conflict => SameField(d, e, f)
  BY <1>5, <1>6, <1>7, <1>8 DEF Plain
<1> QED
  BY <1>9, <1>10, <1>11 DEF e

-----------------------------------------------------------------------------
(***************************************************************************)
(* The word of the sender, in the draft that a merge leaves.               *)
(***************************************************************************)
Stands(d, f, at, p) ==
  IF d.meta[f].edited = None THEN d.value[f] = p
  ELSE at >= d.meta[f].edited =>
         IF d.value[f] = p THEN ~d.meta[f].conflict ELSE d.meta[f].channelValue = p

LEMMA SameStands ==
  ASSUME NEW d, NEW e, NEW f \in Scalars, SameField(d, e, f), NEW at, NEW p, Stands(d, f, at, p)
  PROVE  Stands(e, f, at, p)
BY DEF Stands, SameField

LEMMA RoundSays ==
  ASSUME NEW acc, NEW r, NEW f \in Scalars, NEW p \in Opt(Content[f]),
         NEW at \in Nat, NEW m \in Messages,
         Good(acc.draft), f \notin acc.blocked, Round(acc, r, f, p, at, m)
  PROVE  IF p = None THEN SameField(acc.draft, r.draft, f) ELSE Stands(r.draft, f, at, p)
<1> DEFINE d == acc.draft
           B == acc.blocked
           e == r.draft
<1>1. MergeStep(d, B, e, r.blocked, f, p, at, m) /\ Good(d) /\ f \notin B
  BY DEF Round
<1>2. f \in Fields /\ d.meta[f] \in Row(f) /\ d.meta[f] \in MetaRow
  BY Names, RowOfKind DEF Good
<1>3. d.meta[f].edited \in Opt(Nat)
  BY <1>2 DEF MetaRow
<1> HIDE DEF d, B, e
<1>4. CASE p = None
  BY <1>1, <1>4 DEF MergeStep, Agrees, Blocks, Fills, Disputes, Yields, SameField, d, e
<1>5. CASE p # None /\ Agrees(d, B, e, r.blocked, f, p, at)
  <2>1. Stands(e, f, at, p)
    BY <1>3, <1>5 DEF Agrees, Stands, Overruled, Opt
  <2> QED
    BY <1>5, <2>1 DEF e
<1>6. CASE p # None /\ Blocks(d, B, e, r.blocked, f, p, at)
  <2>1. Stands(e, f, at, p)
    BY <1>1, <1>3, <1>6 DEF Blocks, Stands, Overruled, Opt
  <2> QED
    BY <1>6, <2>1 DEF e
<1>7. CASE p # None /\ Fills(d, B, e, r.blocked, f, p)
  <2>1. p \in Content[f] \cup {Empty(f)} /\ EmptyMeta \in Row(f) /\ e = Replace(d, f, p, EmptyMeta)
    BY <1>2, <1>7, EmptyRow DEF Fills, Opt
  <2>2. e.value[f] = p /\ e.meta[f] = EmptyMeta
    BY <1>1, <2>1, WriteValue
  <2>3. Stands(e, f, at, p)
    BY <2>2, EmptyRow DEF Stands
  <2> QED
    BY <1>7, <2>3 DEF e
<1>8. CASE p # None /\ Disputes(d, B, e, r.blocked, f, p, at, m)
  <2>1. /\ Against(d.meta[f], p, m) \in Row(f) /\ Against(d.meta[f], p, m).channelValue = p
        /\ Against(d.meta[f], p, m).edited = d.meta[f].edited
    BY <1>2, <1>8, AgainstRow DEF Opt
  <2>2. e = PutRow(d, f, Against(d.meta[f], p, m)) /\ d.value[f] # p /\ d.meta[f].edited # None
    BY <1>8 DEF Disputes
  <2>3. e.value = d.value /\ e.meta[f] = Against(d.meta[f], p, m)
    BY <1>1, <1>2, <2>1, <2>2, WriteRow
  <2>4. Stands(e, f, at, p)
    BY <2>1, <2>2, <2>3 DEF Stands
  <2> QED
    BY <1>8, <2>4 DEF e
<1>9. CASE p # None /\ Yields(d, B, e, r.blocked, f, p)
  <2>1. EditedAt(d.meta[f].edited) \in Row(f) /\ ~EditedAt(d.meta[f].edited).conflict
    BY <1>2, <1>3, EditedRow
  <2>2. e = PutRow(d, f, EditedAt(d.meta[f].edited)) /\ d.value[f] = p
    BY <1>9 DEF Yields
  <2>3. e.value = d.value /\ e.meta[f] = EditedAt(d.meta[f].edited)
    BY <1>1, <1>2, <2>1, <2>2, WriteRow
  <2>4. Stands(e, f, at, p)
    BY <2>1, <2>2, <2>3 DEF Stands
  <2> QED
    BY <1>9, <2>4 DEF e
<1> QED
  BY <1>1, <1>4, <1>5, <1>6, <1>7, <1>8, <1>9 DEF MergeStep

\* A merge leaves a plain field that the message does not speak of alone, and
\* what it says of one stands.
LEMMA MergeSaysPlain ==
  ASSUME NEW d, Good(d), NEW said, SaidOK(said), NEW at \in Nat, NEW m \in Messages, NEW f \in Plain
  PROVE  LET e == MergeChannel(d, said, at, m) IN
         IF said.value[f] = None THEN SameField(d, e, f) ELSE Stands(e, f, at, said.value[f])
<1> DEFINE r0 == [draft |-> d, blocked |-> {}]
           r1 == R1(d, said, at, m)
           r2 == R2(d, said, at, m)
           r3 == R3(d, said, at, m)
           r4 == R4(d, said, at, m)
           r5 == R5(d, said, at, m)
           e  == MergeChannel(d, said, at, m)
<1>1. /\ Round(r0, r1, "SITE", said.value["SITE"], at, m)
      /\ Round(r1, r2, "BUILDING", said.value["BUILDING"], at, m)
      /\ Round(r2, r3, "APARTMENT", said.value["APARTMENT"], at, m)
      /\ Round(r3, r4, "ROOM", said.value["ROOM"], at, m)
      /\ Round(r4, r5, "DOMAIN", said.value["DOMAIN"], at, m)
  BY ChannelPath
<1>2. r0.draft = d /\ r0.blocked = {}
  OBVIOUS
<1>3. \A g \in Scalars \ {"DESCRIPTION"} : SameField(r5.draft, e, g)
  BY ChannelFrames
<1> HIDE DEF r0, r1, r2, r3, r4, r5, e
<1>4. /\ Frame(d, r1.draft, "SITE") /\ Frame(r1.draft, r2.draft, "BUILDING")
      /\ Frame(r2.draft, r3.draft, "APARTMENT") /\ Frame(r3.draft, r4.draft, "ROOM")
      /\ Frame(r4.draft, r5.draft, "DOMAIN")
  BY <1>1, <1>2 DEF Round
<1>5. /\ r3.blocked \subseteq {"BUILDING", "APARTMENT"} /\ r4.blocked \subseteq {"BUILDING", "APARTMENT"}
  BY <1>1, <1>2 DEF Round, Dependents
<1>6. /\ SameField(r1.draft, e, "SITE")
      /\ SameField(d, r3.draft, "ROOM") /\ SameField(r4.draft, e, "ROOM")
      /\ SameField(d, r4.draft, "DOMAIN") /\ SameField(r5.draft, e, "DOMAIN")
  BY <1>3, <1>4 DEF Frame, SameField, Fields, Scalars, Dependents
<1>7. /\ "SITE" \in Scalars /\ "ROOM" \in Scalars /\ "DOMAIN" \in Scalars
      /\ \A g \in Scalars : said.value[g] \in Opt(Content[g])
      /\ Good(r3.draft) /\ Good(r4.draft)
  BY <1>4 DEF Scalars, SaidOK, Frame
<1>8. CASE f = "SITE"
  <2>1. IF said.value[f] = None THEN SameField(d, r1.draft, f)
        ELSE Stands(r1.draft, f, at, said.value[f])
    BY <1>1, <1>2, <1>7, <1>8, RoundSays
  <2>2. IF said.value[f] = None THEN SameField(d, e, f) ELSE Stands(e, f, at, said.value[f])
    BY <1>6, <1>7, <1>8, <2>1, SameStands DEF SameField
  <2> QED
    BY <2>2 DEF e
<1>9. CASE f = "ROOM"
  <2>1. IF said.value[f] = None THEN SameField(r3.draft, r4.draft, f)
        ELSE Stands(r4.draft, f, at, said.value[f])
    BY <1>1, <1>5, <1>7, <1>9, RoundSays
  <2>2. IF said.value[f] = None THEN SameField(d, e, f) ELSE Stands(e, f, at, said.value[f])
    BY <1>6, <1>7, <1>9, <2>1, SameStands DEF SameField
  <2> QED
    BY <2>2 DEF e
<1>10. CASE f = "DOMAIN"
  <2>1. IF said.value[f] = None THEN SameField(r4.draft, r5.draft, f)
        ELSE Stands(r5.draft, f, at, said.value[f])
    BY <1>1, <1>5, <1>7, <1>10, RoundSays
  <2>2. IF said.value[f] = None THEN SameField(d, e, f) ELSE Stands(e, f, at, said.value[f])
    BY <1>6, <1>7, <1>10, <2>1, SameStands DEF SameField
  <2> QED
    BY <2>2 DEF e
<1> QED
  BY <1>8, <1>9, <1>10 DEF Plain

-----------------------------------------------------------------------------
(***************************************************************************)
(* What is said and offered, and the draft that is opened.                 *)
(***************************************************************************)
Opened(said) == [EmptyDraft EXCEPT
  !.value = [f \in Scalars |-> IF said.value[f] = None THEN Empty(f) ELSE said.value[f]],
  !.people = [r \in People |-> IF r \in said.add THEN ByChannel ELSE Absent]]

LEMMA SaidIs ==
  ASSUME NEW site \in Opt(Sites), NEW building \in Opt(Buildings),
         NEW apartment \in Opt(Apartments), NEW room \in Opt(Rooms), NEW domain \in Opt(Domains),
         NEW text \in Opt(Content["DESCRIPTION"]), NEW append \in BOOLEAN, append => text # None,
         NEW add \in SUBSET People, NEW remove \in SUBSET People
  PROVE  LET said == Said(site, building, apartment, room, domain, text, append, add, remove) IN
         /\ SaidOK(said) /\ said.add = add
         /\ said.value["SITE"] = site /\ said.value["BUILDING"] = building
         /\ said.value["APARTMENT"] = apartment
<1> DEFINE said == Said(site, building, apartment, room, domain, text, append, add, remove)
<1>1. /\ said.value["SITE"] = site /\ said.value["BUILDING"] = building
      /\ said.value["APARTMENT"] = apartment /\ said.value["ROOM"] = room
      /\ said.value["DOMAIN"] = domain /\ said.value["DESCRIPTION"] = text
      /\ said.append = append /\ said.add = add /\ said.remove = remove
  BY DEF Said, Scalars
<1> HIDE DEF said
<1>2. \A f \in Scalars : said.value[f] \in Opt(Content[f])
  BY <1>1, Kinds DEF Scalars
<1>3. SaidOK(said)
  BY <1>1, <1>2 DEF SaidOK
<1> QED
  BY <1>1, <1>3 DEF said

LEMMA SaysTypes ==
  ASSUME NEW V, NEW W, V \subseteq W, NEW f, NEW x \in Says(f, V)
  PROVE  x \in Opt(W)
BY DEF Says, Opt

LEMMA WritesAreContent == Writes \subseteq Content["DESCRIPTION"]
<1>1. \A t \in Texts : <<t>> \in Seq(Texts) /\ <<t>> # << >>
  OBVIOUS
<1> QED
  BY <1>1, Kinds DEF Writes

LEMMA NearTypes ==
  ASSUME NEW d, NEW site, NEW building
  PROVE  BuildingsFor(d, site) \subseteq Buildings
         /\ ApartmentsFor(d, site, building) \subseteq Apartments
BY DEF BuildingsFor, ApartmentsFor

LEMMA MergeSays ==
  ASSUME NEW m \in Messages, Merges(m)
  PROVE  \E said : SaidOK(said) /\ Matched(draft, said) /\ MergesSaid(m, said)
<1>1. PICK site \in Says("SITE", Sites) :
      \E building \in Says("BUILDING", BuildingsFor(draft, site)) :
      \E apartment \in Says("APARTMENT", ApartmentsFor(draft, site, building)),
         room \in Says("ROOM", Rooms), domain \in Says("DOMAIN", Domains),
         text \in Says("DESCRIPTION", Writes), append \in BOOLEAN,
         add \in SaysPeople, remove \in SaysPeople :
        /\ append => text # None
        /\ MergesSaid(m, Said(site, building, apartment, room, domain, text, append, add, remove))
  BY DEF Merges
<1>2. PICK building \in Says("BUILDING", BuildingsFor(draft, site)) :
      \E apartment \in Says("APARTMENT", ApartmentsFor(draft, site, building)),
         room \in Says("ROOM", Rooms), domain \in Says("DOMAIN", Domains),
         text \in Says("DESCRIPTION", Writes), append \in BOOLEAN,
         add \in SaysPeople, remove \in SaysPeople :
        /\ append => text # None
        /\ MergesSaid(m, Said(site, building, apartment, room, domain, text, append, add, remove))
  BY <1>1
<1>3. PICK apartment \in Says("APARTMENT", ApartmentsFor(draft, site, building)),
         room \in Says("ROOM", Rooms), domain \in Says("DOMAIN", Domains),
         text \in Says("DESCRIPTION", Writes), append \in BOOLEAN,
         add \in SaysPeople, remove \in SaysPeople :
        /\ append => text # None
        /\ MergesSaid(m, Said(site, building, apartment, room, domain, text, append, add, remove))
  BY <1>2
<1> DEFINE said == Said(site, building, apartment, room, domain, text, append, add, remove)
<1>4. /\ site \in Opt(Sites) /\ building \in Opt(Buildings) /\ apartment \in Opt(Apartments)
      /\ room \in Opt(Rooms) /\ domain \in Opt(Domains) /\ text \in Opt(Content["DESCRIPTION"])
      /\ add \in SUBSET People /\ remove \in SUBSET People
  BY SaysTypes, WritesAreContent, NearTypes DEF SaysPeople
<1>5. /\ SaidOK(said) /\ said.value["SITE"] = site /\ said.value["BUILDING"] = building
      /\ said.value["APARTMENT"] = apartment
  BY <1>3, <1>4, SaidIs
<1>6. /\ building # None => building \in BuildingsFor(draft, site)
      /\ apartment # None => apartment \in ApartmentsFor(draft, site, building)
  BY DEF Says, Opt
<1> HIDE DEF said
<1>7. Matched(draft, said)
  BY <1>5, <1>6 DEF Matched
<1> QED
  BY <1>3, <1>5, <1>7 DEF said

LEMMA OpenSays ==
  ASSUME NEW m \in Messages, Opens(m)
  PROVE  \E said : /\ SaidOK(said) /\ Matched(EmptyDraft, said)
                   /\ draft' = Opened(said) /\ lastSaid' = Hears(said, arrived[m])
<1> DEFINE Says0(s, site, building, apartment, add) ==
             /\ SaidOK(s) /\ s.add = add /\ s.value["SITE"] = site
             /\ s.value["BUILDING"] = building /\ s.value["APARTMENT"] = apartment
<1>1. PICK site \in Says("SITE", Sites) :
      \E building \in Says("BUILDING", BuildingsFor(EmptyDraft, site)) :
      \E apartment \in Says("APARTMENT", ApartmentsFor(EmptyDraft, site, building)),
         room \in Says("ROOM", Rooms), domain \in Says("DOMAIN", Domains),
         text \in Says("DESCRIPTION", Writes), add \in SaysPeople :
       LET said == Said(site, building, apartment, room, domain, text, FALSE, add, {}) IN
       /\ draft' = [EmptyDraft EXCEPT
            !.value = [f \in Scalars |-> IF said.value[f] = None THEN Empty(f) ELSE said.value[f]],
            !.people = [r \in People |-> IF r \in add THEN ByChannel ELSE Absent]]
       /\ lastSaid' = Hears(said, arrived[m])
  BY DEF Opens
<1>2. PICK building \in Says("BUILDING", BuildingsFor(EmptyDraft, site)) :
      \E apartment \in Says("APARTMENT", ApartmentsFor(EmptyDraft, site, building)),
         room \in Says("ROOM", Rooms), domain \in Says("DOMAIN", Domains),
         text \in Says("DESCRIPTION", Writes), add \in SaysPeople :
       LET said == Said(site, building, apartment, room, domain, text, FALSE, add, {}) IN
       /\ draft' = [EmptyDraft EXCEPT
            !.value = [f \in Scalars |-> IF said.value[f] = None THEN Empty(f) ELSE said.value[f]],
            !.people = [r \in People |-> IF r \in add THEN ByChannel ELSE Absent]]
       /\ lastSaid' = Hears(said, arrived[m])
  BY <1>1
<1>3. PICK apartment \in Says("APARTMENT", ApartmentsFor(EmptyDraft, site, building)),
         room \in Says("ROOM", Rooms), domain \in Says("DOMAIN", Domains),
         text \in Says("DESCRIPTION", Writes), add \in SaysPeople :
       LET said == Said(site, building, apartment, room, domain, text, FALSE, add, {}) IN
       /\ draft' = [EmptyDraft EXCEPT
            !.value = [f \in Scalars |-> IF said.value[f] = None THEN Empty(f) ELSE said.value[f]],
            !.people = [r \in People |-> IF r \in add THEN ByChannel ELSE Absent]]
       /\ lastSaid' = Hears(said, arrived[m])
  BY <1>2
<1> DEFINE said == Said(site, building, apartment, room, domain, text, FALSE, add, {})
<1>4. /\ site \in Opt(Sites) /\ building \in Opt(Buildings) /\ apartment \in Opt(Apartments)
      /\ room \in Opt(Rooms) /\ domain \in Opt(Domains) /\ text \in Opt(Content["DESCRIPTION"])
      /\ add \in SUBSET People /\ {} \in SUBSET People
  BY SaysTypes, WritesAreContent, NearTypes DEF SaysPeople
<1>5. Says0(said, site, building, apartment, add)
  <2>1. PICK no \in BOOLEAN : no = FALSE
    OBVIOUS
  <2> DEFINE same == Said(site, building, apartment, room, domain, text, no, add, {})
  <2>2. no => text # None
    BY <2>1
  <2>3. Says0(same, site, building, apartment, add)
    BY <1>4, <2>2, SaidIs
  <2>4. same = said
    BY <2>1, Zenon
  <2> HIDE DEF said, same
  <2> QED
    BY <2>3, <2>4
<1>6. /\ building # None => building \in BuildingsFor(EmptyDraft, site)
      /\ apartment # None => apartment \in ApartmentsFor(EmptyDraft, site, building)
  BY DEF Says, Opt
<1>7. draft' = [EmptyDraft EXCEPT
            !.value = [f \in Scalars |-> IF said.value[f] = None THEN Empty(f) ELSE said.value[f]],
            !.people = [r \in People |-> IF r \in add THEN ByChannel ELSE Absent]]
      /\ lastSaid' = Hears(said, arrived[m])
  BY <1>3
<1> HIDE DEF said
<1>8. Matched(EmptyDraft, said)
  BY <1>5, <1>6 DEF Matched
<1>9. draft' = Opened(said)
  BY <1>5, <1>7 DEF Opened
<1> QED
  BY <1>5, <1>7, <1>8, <1>9

LEMMA EmptyGood == Good(EmptyDraft) /\ Addressed(EmptyDraft)
<1>1. /\ EmptyDraft.value = [f \in Scalars |-> Empty(f)]
      /\ EmptyDraft.people = [r \in People |-> Absent]
      /\ EmptyDraft.meta = [f \in Fields |-> EmptyMeta]
      /\ EmptyDraft = [value |-> EmptyDraft.value, people |-> EmptyDraft.people,
                       meta |-> EmptyDraft.meta]
  BY DEF EmptyDraft
<1>2. EmptyDraft.value \in [Scalars -> AnyValue]
  BY <1>1, Kinds
<1>3. EmptyDraft.people \in PeopleType
  BY <1>1 DEF PeopleType, Absent, Opt
<1>4. EmptyDraft.meta \in [Fields -> MetaRow]
  BY <1>1, EmptyRow
<1>5. EmptyDraft \in DraftRec
  BY <1>1, <1>2, <1>3, <1>4 DEF DraftRec
<1>6. Good(EmptyDraft)
  BY <1>1, <1>5, EmptyRow DEF Good, Absent
<1>7. Emptied(EmptyDraft, "BUILDING") /\ Emptied(EmptyDraft, "APARTMENT")
  BY <1>1, Kinds DEF Emptied, Scalars, Fields
<1> QED
  BY <1>6, <1>7, SiteAlone

LEMMA OpenedGood ==
  ASSUME NEW said, SaidOK(said), Matched(EmptyDraft, said)
  PROVE  LET d == Opened(said) IN
         /\ Good(d) /\ Addressed(d)
         /\ \A f \in Fields : d.meta[f] = EmptyMeta
         /\ \A f \in Scalars : said.value[f] # None => d.value[f] = said.value[f]
<1> DEFINE d == Opened(said)
           V == [f \in Scalars |-> IF said.value[f] = None THEN Empty(f) ELSE said.value[f]]
           P == [r \in People |-> IF r \in said.add THEN ByChannel ELSE Absent]
<1>1. d = [value |-> V, people |-> P, meta |-> [f \in Fields |-> EmptyMeta]]
  <2> DEFINE E == [f \in Scalars |-> Empty(f)]
             A == [r \in People |-> Absent]
             M == [f \in Fields |-> EmptyMeta]
  <2>1. d = [EmptyDraft EXCEPT !.value = V, !.people = P]
    BY DEF Opened
  <2>2. EmptyDraft = [value |-> E, people |-> A, meta |-> M]
    BY DEF EmptyDraft
  <2> HIDE DEF E, A, M, V, P, d
  <2>3. d = [value |-> V, people |-> P, meta |-> M]
    BY <2>1, <2>2
  <2> QED
    BY <2>3 DEF M
<1>2. \A f \in Scalars : V[f] \in Content[f] \cup {Empty(f)}
  BY DEF SaidOK, Opt
<1>3. V \in [Scalars -> AnyValue]
  BY <1>2, Kinds
<1>4. P \in PeopleType /\ \A r \in People : P[r].removedAt = None
  BY DEF PeopleType, Absent, ByChannel, Opt
<1>5. [f \in Fields |-> EmptyMeta] \in [Fields -> MetaRow]
  BY EmptyRow
<1>6. \A f \in Scalars : V[f] = IF said.value[f] = None THEN Empty(f) ELSE said.value[f]
  OBVIOUS
<1> HIDE DEF V, P
<1>7. d \in DraftRec /\ d.value = V /\ d.people = P /\ \A f \in Fields : d.meta[f] = EmptyMeta
  BY <1>1, <1>3, <1>4, <1>5 DEF DraftRec
<1> HIDE DEF d
<1>8. Good(d)
  BY <1>2, <1>4, <1>7, EmptyRow DEF Good
<1> DEFINE p == said.value["SITE"]
           b == said.value["BUILDING"]
           a == said.value["APARTMENT"]
<1>9. /\ d.value["SITE"] = p /\ d.value["BUILDING"] = b /\ d.value["APARTMENT"] = a
  BY <1>6, <1>7, Kinds DEF Scalars
<1>10. EmptyDraft.value["SITE"] = None /\ EmptyDraft.value["BUILDING"] = None
  BY Kinds DEF EmptyDraft, Scalars
<1>11. /\ b \in Opt(Buildings) /\ a \in Opt(Apartments)
  BY Kinds DEF SaidOK, Scalars
<1>12. b # None => SiteOf[b] = p
  BY <1>10 DEF Matched, BuildingsFor
<1>13. a # None => BuildingOf[a] = b /\ b # None
  <2>1. a # None => BuildingOf[a] = b
    BY <1>10 DEF Matched, ApartmentsFor
  <2>2. a # None => BuildingOf[a] \in Buildings
    BY <1>11, DraftAssumption DEF Opt
  <2> QED
    BY <2>1, <2>2, NoneAssumption
<1> HIDE DEF p, b, a
<1>14. Located(d)
  BY <1>9, <1>11, <1>12, <1>13 DEF Located, Opt
<1>15. Addressed(d)
  BY <1>7, <1>14, EmptyRow, Names DEF Addressed, Scalars
<1>16. \A f \in Scalars : said.value[f] # None => d.value[f] = said.value[f]
  BY <1>6, <1>7
<1> QED
  BY <1>7, <1>8, <1>15, <1>16 DEF d

\* The screen offers a field the values it can have.
LEMMA OfferedTypes ==
  ASSUME NEW f \in Fields, NEW v \in Offered(f)
  PROVE  IF f = "RECIPIENTS" THEN v \in SUBSET People
         ELSE f \in Scalars /\ v \in Content[f] \cup {Empty(f)}
<1>1. CASE f = "RECIPIENTS"
  BY <1>1 DEF Offered
<1>2. CASE f = "SITE"
  BY <1>2, Kinds DEF Offered, Scalars
<1>3. CASE f = "DESCRIPTION"
  BY <1>3, Kinds, WritesAreContent DEF Offered, Scalars
<1>4. CASE f \in {"BUILDING", "APARTMENT", "ROOM", "DOMAIN"}
  BY <1>4, Kinds DEF Offered, Scalars, Opt
<1> QED
  BY <1>1, <1>2, <1>3, <1>4 DEF Fields, Scalars

-----------------------------------------------------------------------------
(***************************************************************************)
(* The invariant: types, and an address within one site.                   *)
(***************************************************************************)
StateOK ==
  /\ phase \in {"none", "open", "sent"}
  /\ now \in Nat /\ edits \in Nat
  /\ arrived \in [Messages -> Opt(Nat)] /\ merged \subseteq Messages
  /\ subject \in Subjects /\ overtaken \in BOOLEAN

Inv == StateOK /\ Good(draft) /\ Addressed(draft)

LEMMA EditedAddress ==
  ASSUME NEW d, NEW f \in Scalars, NEW v, NEW t \in Nat, NEW e, Addressed(d), Located(e),
         e.value[f] = v, e.meta[f] = EditedAt(t),
         \A g \in Dependents(f) : IF v = d.value[f] THEN SameField(d, e, g) ELSE Emptied(e, g),
         \A g \in Fields \ ({f} \cup Dependents(f)) : SameField(d, e, g)
  PROVE  Addressed(e)
<1>1. /\ {"SITE", "BUILDING", "APARTMENT"} \subseteq Scalars /\ Scalars \subseteq Fields
      /\ Dependents("SITE") = {"BUILDING", "APARTMENT"} /\ Dependents("BUILDING") = {"APARTMENT"}
      /\ \A g \in Fields \ {"SITE", "BUILDING"} : Dependents(g) = {}
      /\ e.meta[f].channelValue = None
  BY Names, EditedRow DEF Scalars, Opt
<1>2. CASE f = "SITE" /\ v = d.value["SITE"]
  BY <1>1, <1>2 DEF Addressed, SameField
<1>3. CASE f = "SITE" /\ v # d.value["SITE"]
  BY <1>1, <1>3, SiteAlone
<1>4. CASE f = "BUILDING" /\ v = d.value["BUILDING"]
  BY <1>1, <1>4 DEF Addressed, SameField
<1>5. CASE f = "BUILDING" /\ v # d.value["BUILDING"]
  BY <1>1, <1>5, EmptyRow DEF Addressed, SameField, Emptied
<1>6. CASE f = "APARTMENT"
  BY <1>1, <1>6 DEF Addressed, SameField
<1>7. CASE f \notin {"SITE", "BUILDING", "APARTMENT"}
  BY <1>1, <1>7 DEF Addressed, SameField
<1> QED
  BY <1>2, <1>3, <1>4, <1>5, <1>6, <1>7

LEMMA SaveStep ==
  ASSUME Inv, NEW f \in subject, NEW v \in Offered(f), Saves(f, v)
  PROVE  Good(draft') /\ Addressed(draft')
<1>1. f \in Fields /\ draft' = SystemEdit(draft, f, v, now) /\ Located(draft') /\ now \in Nat
  BY SubjectsAssumption DEF Inv, StateOK, Saves
<1>2. CASE f = "RECIPIENTS"
  <2>1. v \in SUBSET People
    BY <1>1, <1>2, OfferedTypes
  <2>2. Good(draft') /\ \A g \in Scalars : SameField(draft, draft', g)
    BY <1>1, <1>2, <2>1, RecipientsEdit DEF Inv
  <2> QED
    BY <2>2, SameAddress DEF Inv, Scalars
<1>3. CASE f # "RECIPIENTS"
  <2>1. f \in Scalars /\ v \in Content[f] \cup {Empty(f)}
    BY <1>1, <1>3, OfferedTypes
  <2>2. /\ Good(draft') /\ draft'.value[f] = v /\ draft'.meta[f] = EditedAt(now)
        /\ \A g \in Dependents(f) : IF v = draft.value[f] THEN SameField(draft, draft', g)
                                    ELSE Emptied(draft', g)
        /\ \A g \in Fields \ ({f} \cup Dependents(f)) : SameField(draft, draft', g)
    BY <1>1, <2>1, ScalarEdit DEF Inv
  <2> QED
    BY <1>1, <2>1, <2>2, EditedAddress DEF Inv
<1> QED
  BY <1>2, <1>3

LEMMA SettleStep ==
  ASSUME Inv, NEW choices \in Choices(draft), Settles(choices)
  PROVE  Good(draft') /\ Addressed(draft')
<1>1. choices \in Sides
  BY DEF Choices, Sides
<1> QED
  BY <1>1, SettlementCloses DEF Inv, StateOK, Settles

LEMMA MergeStepInv ==
  ASSUME Inv, NEW m \in Messages, Merges(m)
  PROVE  Good(draft') /\ Addressed(draft')
<1>1. PICK said : SaidOK(said) /\ Matched(draft, said) /\ MergesSaid(m, said)
  BY MergeSays
<1>2. arrived[m] \in Nat
  BY <1>1 DEF MergesSaid, Inv, StateOK, Opt
<1>3. draft' = MergeChannel(draft, said, arrived[m], m)
  BY <1>1 DEF MergesSaid
<1>4. Good(draft')
  BY <1>1, <1>2, <1>3, ChannelFrames DEF Inv
<1> QED
  BY <1>1, <1>2, <1>3, <1>4, MergeKeepsAddress DEF Inv

LEMMA OpenStep ==
  ASSUME Inv, NEW m \in Messages, Opens(m)
  PROVE  Good(draft') /\ Addressed(draft')
BY OpenSays, OpenedGood

LEMMA InvInit == Init => Inv
<1>1. Good(EmptyDraft) /\ Addressed(EmptyDraft)
  BY EmptyGood
<1>2. Init => overtaken \in BOOLEAN
  BY Zenon DEF Init
<1>3. ASSUME Init PROVE arrived \in [Messages -> Opt(Nat)]
  BY <1>3 DEF Init, Opt
<1>4. Init => /\ phase \in {"none", "open", "sent"} /\ now \in Nat /\ edits \in Nat
              /\ merged \subseteq Messages /\ subject \in Subjects /\ draft = EmptyDraft
  BY DEF Init
<1> QED
  BY <1>1, <1>2, <1>3, <1>4 DEF Inv, StateOK

LEMMA InvNext == Inv /\ [Next]_vars => Inv'
<1> SUFFICES ASSUME Inv, [Next]_vars PROVE Inv'
  OBVIOUS
<1> USE DEF Inv
<1>1. CASE Passes
  BY <1>1 DEF Passes, StateOK
<1>2. ASSUME NEW m \in Messages, Arrives(m) PROVE Inv'
  BY <1>2 DEF Arrives, StateOK, Opt
<1>3. ASSUME NEW m \in Messages, Opens(m) PROVE Inv'
  <2>1. StateOK'
    BY <1>3 DEF Opens, Takes, StateOK
  <2> QED
    BY <1>3, <2>1, OpenStep
<1>4. ASSUME NEW m \in Messages, Merges(m) PROVE Inv'
  <2>1. PICK said : MergesSaid(m, said)
    BY <1>4, MergeSays
  <2>2. StateOK'
    BY <2>1 DEF MergesSaid, Takes, StateOK
  <2> QED
    BY <1>4, <2>2, MergeStepInv
<1>5. CASE Loads
  BY <1>5 DEF Loads, StateOK
<1>6. ASSUME NEW f \in subject, NEW v \in Offered(f), Saves(f, v) PROVE Inv'
  <2>1. StateOK'
    BY <1>6 DEF Saves, Decides, StateOK
  <2> QED
    BY <1>6, <2>1, SaveStep
<1>7. ASSUME NEW choices \in Choices(draft), Settles(choices) PROVE Inv'
  <2>1. StateOK'
    BY <1>7 DEF Settles, Decides, StateOK
  <2> QED
    BY <1>7, <2>1, SettleStep
<1>8. CASE Submits
  BY <1>8 DEF Submits, StateOK
<1>9. CASE UNCHANGED vars
  BY <1>9 DEF vars, StateOK
<1> QED
  BY <1>1, <1>2, <1>3, <1>4, <1>5, <1>6, <1>7, <1>8, <1>9 DEF Next

LEMMA InvAlways == Spec => []Inv
BY InvInit, InvNext, PTL DEF Spec

\* The state has its types: every field a value and a row of its own kind.
THEOREM TypeOKAlways == Spec => []TypeOK
<1>1. Inv => TypeOK
  <2> SUFFICES ASSUME Inv PROVE TypeOK
    OBVIOUS
  <2>1. draft \in DraftRec
    BY DEF Inv, Good
  <2>2. DOMAIN draft.value = Scalars /\ DOMAIN draft.meta = Fields /\ draft.people \in PeopleType
    BY <2>1 DEF DraftRec
  <2>3. \A f \in Fields : draft.meta[f] \in Meta(f)
    BY DEF Inv, Good, Row
  <2> QED
    BY <2>2, <2>3 DEF Inv, Good, StateOK, TypeOK, PeopleType
<1> QED
  BY <1>1, InvAlways, PTL

\* The address of a draft lies within one site, whatever the messages said and
\* in whatever order they were merged (blockDependents, resetDependents).
THEOREM LocationIsOneAlways == Spec => []LocationIsOne
<1>1. Inv => LocationIsOne
  BY DEF Inv, Addressed, LocationIsOne
<1> QED
  BY <1>1, InvAlways, PTL

\* Whatever sides are chosen, one settlement closes every conflict and leaves an
\* address of one site; the side of the system changes no value (resolveChoices).
THEOREM SettlingSettlesAlways == Spec => []SettlingSettles
<1>1. Inv => SettlingSettles
  <2> SUFFICES ASSUME Inv PROVE SettlingSettles
    OBVIOUS
  <2>1. Good(draft) /\ Addressed(draft) /\ now \in Nat
    BY DEF Inv, StateOK
  <2>2. ASSUME NEW choices \in Choices(draft)
        PROVE  LET settled == ResolveChoices(draft, choices, now) IN
               Conflicts(settled) = {} /\ Located(settled)
    <3>1. choices \in Sides
      BY DEF Choices, Sides
    <3> QED
      BY <2>1, <3>1, SettlementCloses DEF Addressed
  <2>3. LET kept == ResolveChoices(draft, [f \in Fields |-> "system"], now) IN
        kept.value = draft.value /\ Active(kept) = Active(draft)
    BY <2>1, SystemSideKeeps
  <2> QED
    BY <2>2, <2>3 DEF SettlingSettles
<1> QED
  BY <1>1, InvAlways, PTL

-----------------------------------------------------------------------------
(***************************************************************************)
(* What a step may not do.                                                 *)
(***************************************************************************)

\* A message never undoes a decision of the screen (decideScalar,
\* mergeRecipients): for any messages, merged whenever they are.
THEOREM MailRespectsDecisionsAlways == Spec => MailRespectsDecisions
<1> DEFINE Respects ==
      /\ \A f \in Scalars : draft.meta[f].edited # None => Kept(draft, draft', f)
      /\ \A r \in People :
           draft.people[r].origin = "SYSTEM" \/ draft.people[r].removedAt # None
             => draft'.people[r] = draft.people[r]
<1>1. ASSUME Inv, NEW m \in Messages, Merges(m) PROVE Respects
  <2>1. PICK said : SaidOK(said) /\ Matched(draft, said) /\ MergesSaid(m, said)
    BY <1>1, MergeSays
  <2>2. arrived[m] \in Nat /\ Good(draft)
    BY <1>1, <2>1 DEF MergesSaid, Inv, StateOK, Opt
  <2>3. draft' = MergeChannel(draft, said, arrived[m], m)
    BY <2>1 DEF MergesSaid
  <2>4. \A f \in Scalars : draft.meta[f].edited # None => Kept(draft, draft', f)
    BY <2>1, <2>2, <2>3, MergeKeepsDecisions
  <2>5. \A r \in People :
           draft.people[r].origin = "SYSTEM" \/ draft.people[r].removedAt # None
             => draft'.people[r] = draft.people[r]
    BY <2>1, <2>2, <2>3, ChannelFrames
  <2> QED
    BY <2>4, <2>5
<1> HIDE DEF Respects
<1>2. ASSUME Inv, [Next]_vars, merged' # merged, phase = "open" PROVE Respects
  <2>1. \A m \in Messages : ~Opens(m) /\ ~Arrives(m)
    BY <1>2 DEF Opens, Arrives
  <2>2. ~Passes /\ ~Loads /\ ~Submits /\ vars' # vars
    BY <1>2 DEF Passes, Loads, Submits, vars
  <2>3. \A f \in subject : \A v \in Offered(f) : ~Saves(f, v)
    BY <1>2 DEF Saves, Decides
  <2>4. \A choices \in Choices(draft) : ~Settles(choices)
    BY <1>2 DEF Settles, Decides
  <2> QED
    BY <1>1, <1>2, <2>1, <2>2, <2>3, <2>4 DEF Next
<1>3. Inv /\ [Next]_vars =>
        [merged' # merged /\ phase = "open" =>
           /\ \A f \in Scalars : draft.meta[f].edited # None =>
                \/ /\ draft'.meta[f].edited = draft.meta[f].edited
                   /\ \/ draft'.value[f] = draft.value[f]
                      \/ /\ f = "DESCRIPTION"
                         /\ SubSeq(draft'.value[f], 1, Len(draft.value[f])) = draft.value[f]
                \/ \E g \in Scalars : /\ f \in Dependents(g) /\ draft.meta[g].edited = None
                                      /\ draft'.value[g] # draft.value[g]
           /\ \A r \in People :
                draft.people[r].origin = "SYSTEM" \/ draft.people[r].removedAt # None
                  => draft'.people[r] = draft.people[r]]_vars
  BY <1>2 DEF Respects, Kept
<1> QED
  BY <1>3, InvAlways, PTL DEF Spec, MailRespectsDecisions

\* A field that is the same shows the same.
LEMMA SameVersion ==
  ASSUME NEW d, NEW e, NEW f \in Scalars, SameField(d, e, f)
  PROVE  FieldVersion(e, f) = FieldVersion(d, f)
BY Names DEF SameField, FieldVersion

LEMMA SamePeopleVersion ==
  ASSUME NEW d, NEW e, e.people = d.people, e.meta["RECIPIENTS"] = d.meta["RECIPIENTS"]
  PROVE  FieldVersion(e, "RECIPIENTS") = FieldVersion(d, "RECIPIENTS")
BY DEF FieldVersion, Active

Seen(f) ==
  \/ screen[f] = FieldVersion(draft, f)
  \/ \E g \in Scalars : /\ f \in Dependents(g) /\ screen[g] = FieldVersion(draft, g)
                        /\ draft'.value[g] # draft.value[g]

LEMMA SaveSees ==
  ASSUME Inv, NEW f \in subject, NEW v \in Offered(f), Saves(f, v), NEW g \in Fields,
         FieldVersion(draft', g) # FieldVersion(draft, g)
  PROVE  Seen(g)
<1>1. /\ f \in Fields /\ draft' = SystemEdit(draft, f, v, now) /\ now \in Nat /\ Good(draft)
      /\ screen[f] = FieldVersion(draft, f)
  BY SubjectsAssumption DEF Inv, StateOK, Saves
<1>2. CASE g = f
  BY <1>1, <1>2 DEF Seen
<1>3. CASE g # f /\ f = "RECIPIENTS"
  <2>1. v \in SUBSET People /\ g \in Scalars
    BY <1>1, <1>3, OfferedTypes, Names
  <2>2. SameField(draft, draft', g)
    BY <1>1, <1>3, <2>1, RecipientsEdit
  <2> QED
    BY <2>1, <2>2, SameVersion
<1>4. CASE g # f /\ f # "RECIPIENTS"
  <2>1. f \in Scalars /\ v \in Content[f] \cup {Empty(f)}
    BY <1>1, <1>4, OfferedTypes
  <2>2. /\ draft'.people = draft.people /\ draft'.value[f] = v
        /\ \A h \in Dependents(f) : IF v = draft.value[f] THEN SameField(draft, draft', h)
                                    ELSE Emptied(draft', h)
        /\ \A h \in Fields \ ({f} \cup Dependents(f)) : SameField(draft, draft', h)
    BY <1>1, <2>1, ScalarEdit
  <2>3. ~SameField(draft, draft', g)
    BY <2>2, SameVersion, SamePeopleVersion, Names DEF SameField
  <2>4. g \in Dependents(f) /\ draft'.value[f] # draft.value[f]
    BY <1>4, <2>2, <2>3
  <2> QED
    BY <1>1, <2>1, <2>4 DEF Seen
<1> QED
  BY <1>2, <1>3, <1>4

\* The window shows the conflicts as they are.
LEMMA ConflictsShown ==
  ASSUME ShownConflicts(screen) = ShownConflicts(Versions(draft)), NEW f \in Conflicts(draft)
  PROVE  screen[f] = FieldVersion(draft, f)
<1>1. f \in Fields /\ Versions(draft)[f] = FieldVersion(draft, f) /\ Versions(draft)[f][2]
  BY DEF Conflicts, Versions, FieldVersion
<1>2. <<f, Versions(draft)[f]>> \in ShownConflicts(Versions(draft))
  BY <1>1 DEF ShownConflicts
<1>3. PICK g \in Fields : <<f, Versions(draft)[f]>> = <<g, screen[g]>>
  BY <1>2 DEF ShownConflicts
<1> QED
  BY <1>1, <1>3

LEMMA SettleSees ==
  ASSUME Inv, NEW choices \in Choices(draft), Settles(choices), NEW f \in Fields,
         FieldVersion(draft', f) # FieldVersion(draft, f)
  PROVE  Seen(f)
<1>1. /\ choices \in Sides /\ now \in Nat /\ Good(draft)
      /\ draft' = ResolveChoices(draft, choices, now)
      /\ \A g \in Conflicts(draft) : screen[g] = FieldVersion(draft, g)
  BY ConflictsShown DEF Inv, StateOK, Settles, Choices, Sides
<1>2. CASE f \in Conflicts(draft)
  BY <1>1, <1>2 DEF Seen
<1>3. CASE f \notin Conflicts(draft)
  <2>1. ~draft.meta[f].conflict
    BY <1>3 DEF Conflicts
  <2>2. /\ \A g \in Plain \cup {"DESCRIPTION"} : ~draft.meta[g].conflict => SameField(draft, draft', g)
        /\ ~draft.meta["RECIPIENTS"].conflict =>
              draft'.people = draft.people /\ draft'.meta["RECIPIENTS"] = draft.meta["RECIPIENTS"]
        /\ \A g \in {"BUILDING", "APARTMENT"} : ~draft.meta[g].conflict =>
              \/ SameField(draft, draft', g)
              \/ \E h \in Scalars : /\ g \in Dependents(h) /\ draft.meta[h].conflict
                                    /\ draft'.value[h] # draft.value[h]
    BY <1>1, SettlementFrame
  <2>3. f # "RECIPIENTS"
    BY <2>1, <2>2, SamePeopleVersion
  <2>4. f \in Scalars /\ ~SameField(draft, draft', f)
    BY <2>3, Names, SameVersion
  <2>5. f \in {"BUILDING", "APARTMENT"}
    BY <2>1, <2>2, <2>4 DEF Plain, Scalars
  <2>6. PICK h \in Scalars : /\ f \in Dependents(h) /\ draft.meta[h].conflict
                             /\ draft'.value[h] # draft.value[h]
    BY <2>1, <2>2, <2>4, <2>5
  <2>7. h \in Conflicts(draft)
    BY <2>6, Names DEF Conflicts
  <2> QED
    BY <1>1, <2>6, <2>7 DEF Seen
<1> QED
  BY <1>2, <1>3

\* Nobody decides what he did not see (fieldVersion, conflictsVersion): for any
\* interleaving of messages with the screens of any users.
THEOREM NoUnseenLossAlways == Spec => NoUnseenLoss
<1>1. ASSUME Inv, [Next]_vars, edits' # edits, NEW f \in Fields,
             FieldVersion(draft', f) # FieldVersion(draft, f)
      PROVE  Seen(f)
  <2>1. \A m \in Messages : ~Opens(m) /\ ~Arrives(m)
    BY <1>1 DEF Opens, Arrives, Takes
  <2>2. \A m \in Messages : ~Merges(m)
    BY <1>1, MergeSays DEF MergesSaid, Takes
  <2>3. ~Passes /\ ~Loads /\ ~Submits /\ vars' # vars
    BY <1>1 DEF Passes, Loads, Submits, vars
  <2> QED
    BY <1>1, <2>1, <2>2, <2>3, SaveSees, SettleSees DEF Next
<1>2. Inv /\ [Next]_vars =>
        [edits' # edits =>
           \A f \in Fields :
             FieldVersion(draft', f) # FieldVersion(draft, f) =>
               \/ screen[f] = FieldVersion(draft, f)
               \/ \E g \in Scalars : /\ f \in Dependents(g) /\ screen[g] = FieldVersion(draft, g)
                                     /\ draft'.value[g] # draft.value[g]]_vars
  BY <1>1 DEF Seen
<1> QED
  BY <1>2, InvAlways, PTL DEF Spec, NoUnseenLoss

-----------------------------------------------------------------------------
(***************************************************************************)
(* The last word of the sender.  What was said last was said by a message  *)
(* that is merged; a message that is merged in the order of arrival is not *)
(* older, and its word stands in the draft that its merge leaves.          *)
(***************************************************************************)
Told ==
  /\ phase = "none" => \A f \in Plain : lastSaid[f] = None
  /\ \A f \in Plain : lastSaid[f] # None =>
       lastSaid[f].at \in Nat /\ \E n \in merged : arrived[n] = lastSaid[f].at
  /\ SenderLastWord

LEMMA StandsIs ==
  SenderLastWord <=>
    (~overtaken => \A f \in Plain : lastSaid[f] # None =>
                     Stands(draft, f, lastSaid[f].at, lastSaid[f].value))
BY DEF SenderLastWord, LastWordStands, Stands

LEMMA StandsNext ==
  ASSUME ASSUME ~overtaken', NEW f \in Plain, lastSaid'[f] # None
         PROVE  Stands(draft', f, lastSaid'[f].at, lastSaid'[f].value)
  PROVE  SenderLastWord'
<1>1. ASSUME ~overtaken', NEW f \in Plain PROVE LastWordStands(f)'
  BY <1>1 DEF LastWordStands, Stands
<1> QED
  BY <1>1, Zenon DEF SenderLastWord

LEMMA Heard ==
  ASSUME Inv, Told, NEW said, NEW m \in Messages, arrived[m] # None,
         lastSaid' = Hears(said, arrived[m]), Takes(m)
  PROVE  /\ \A f \in Plain : lastSaid'[f] # None =>
              lastSaid'[f].at \in Nat /\ \E n \in merged' : arrived'[n] = lastSaid'[f].at
         /\ \A f \in Plain : said.value[f] = None => lastSaid'[f] = lastSaid[f]
         /\ ~overtaken' => \A f \in Plain : said.value[f] # None =>
              lastSaid'[f] = [at |-> arrived[m], value |-> said.value[f]]
<1>1. /\ arrived[m] \in Nat /\ merged \subseteq Messages /\ arrived \in [Messages -> Opt(Nat)]
      /\ merged' = merged \cup {m} /\ arrived' = arrived
  BY DEF Inv, StateOK, Takes, Opt
<1>2. \A f \in Plain :
        lastSaid'[f] = IF said.value[f] # None /\ (lastSaid[f] = None \/ lastSaid[f].at <= arrived[m])
                       THEN [at |-> arrived[m], value |-> said.value[f]] ELSE lastSaid[f]
  BY DEF Hears
<1>3. \A f \in Plain : lastSaid'[f] # None =>
        lastSaid'[f].at \in Nat /\ \E n \in merged' : arrived'[n] = lastSaid'[f].at
  <2> SUFFICES ASSUME NEW f \in Plain, lastSaid'[f] # None
               PROVE  lastSaid'[f].at \in Nat /\ \E n \in merged' : arrived'[n] = lastSaid'[f].at
    OBVIOUS
  <2>1. CASE lastSaid'[f] = [at |-> arrived[m], value |-> said.value[f]]
    BY <1>1, <2>1
  <2>2. CASE lastSaid'[f] = lastSaid[f]
    BY <1>1, <2>2 DEF Told
  <2> QED
    BY <1>2, <2>1, <2>2
<1>4. ASSUME ~overtaken', NEW f \in Plain, said.value[f] # None
      PROVE  lastSaid'[f] = [at |-> arrived[m], value |-> said.value[f]]
  <2>1. \A n \in merged : ~(arrived[n] > arrived[m])
    BY <1>4, Zenon DEF Takes
  <2>2. lastSaid[f] = None \/ lastSaid[f].at <= arrived[m]
    BY <1>1, <2>1 DEF Told
  <2> QED
    BY <1>2, <1>4, <2>2
<1> QED
  BY <1>2, <1>3, <1>4

LEMMA ToldMerges ==
  ASSUME Inv, Told, NEW m \in Messages, Merges(m)
  PROVE  Told'
<1>1. PICK said : SaidOK(said) /\ Matched(draft, said) /\ MergesSaid(m, said)
  BY MergeSays
<1>2. /\ arrived[m] \in Nat /\ arrived[m] # None /\ Good(draft) /\ phase' # "none"
      /\ draft' = MergeChannel(draft, said, arrived[m], m)
      /\ lastSaid' = Hears(said, arrived[m]) /\ Takes(m)
  BY <1>1 DEF MergesSaid, Inv, StateOK, Opt
<1>3. /\ \A f \in Plain : lastSaid'[f] # None =>
           lastSaid'[f].at \in Nat /\ \E n \in merged' : arrived'[n] = lastSaid'[f].at
      /\ \A f \in Plain : said.value[f] = None => lastSaid'[f] = lastSaid[f]
      /\ ~overtaken' => \A f \in Plain : said.value[f] # None =>
           lastSaid'[f] = [at |-> arrived[m], value |-> said.value[f]]
  BY <1>2, Heard
<1>4. ~overtaken' => ~overtaken
  BY <1>2, Zenon DEF Takes
<1>5. ASSUME ~overtaken', NEW f \in Plain, lastSaid'[f] # None
      PROVE  Stands(draft', f, lastSaid'[f].at, lastSaid'[f].value)
  <2>1. IF said.value[f] = None THEN SameField(draft, draft', f)
        ELSE Stands(draft', f, arrived[m], said.value[f])
    BY <1>1, <1>2, MergeSaysPlain
  <2>2. CASE said.value[f] = None
    <3>1. lastSaid'[f] = lastSaid[f] /\ SameField(draft, draft', f)
      BY <1>3, <2>1, <2>2
    <3>2. Stands(draft, f, lastSaid[f].at, lastSaid[f].value)
      BY <1>4, <1>5, <3>1, StandsIs DEF Told
    <3> QED
      BY <3>1, <3>2, SameStands, Names
  <2>3. CASE said.value[f] # None
    <3>1. lastSaid'[f] = [at |-> arrived[m], value |-> said.value[f]]
      BY <1>3, <1>5, <2>3
    <3>2. lastSaid'[f].at = arrived[m] /\ lastSaid'[f].value = said.value[f]
      BY <3>1
    <3> QED
      BY <2>1, <2>3, <3>2
  <2> QED
    BY <2>2, <2>3
<1>6. SenderLastWord'
  BY <1>5, StandsNext
<1> QED
  BY <1>2, <1>3, <1>6 DEF Told

LEMMA ToldOpens ==
  ASSUME Inv, Told, NEW m \in Messages, Opens(m)
  PROVE  Told'
<1>1. PICK said : /\ SaidOK(said) /\ Matched(EmptyDraft, said)
                  /\ draft' = Opened(said) /\ lastSaid' = Hears(said, arrived[m])
  BY OpenSays
<1>2. Takes(m) /\ arrived[m] # None /\ phase = "none" /\ phase' # "none"
  BY DEF Opens
<1>3. /\ \A f \in Plain : lastSaid'[f] # None =>
           lastSaid'[f].at \in Nat /\ \E n \in merged' : arrived'[n] = lastSaid'[f].at
      /\ \A f \in Plain : said.value[f] = None => lastSaid'[f] = lastSaid[f]
      /\ ~overtaken' => \A f \in Plain : said.value[f] # None =>
           lastSaid'[f] = [at |-> arrived[m], value |-> said.value[f]]
  BY <1>1, <1>2, Heard
<1>4. /\ \A f \in Fields : draft'.meta[f] = EmptyMeta
      /\ \A f \in Scalars : said.value[f] # None => draft'.value[f] = said.value[f]
  BY <1>1, OpenedGood
<1>5. ASSUME ~overtaken', NEW f \in Plain, lastSaid'[f] # None
      PROVE  Stands(draft', f, lastSaid'[f].at, lastSaid'[f].value)
  <2>1. said.value[f] # None
    BY <1>2, <1>3, <1>5 DEF Told
  <2>2. lastSaid'[f] = [at |-> arrived[m], value |-> said.value[f]]
    BY <1>3, <1>5, <2>1
  <2>3. lastSaid'[f].value = said.value[f]
    BY <2>2
  <2>4. draft'.meta[f].edited = None /\ draft'.value[f] = said.value[f]
    BY <1>4, <2>1, Names, EmptyRow
  <2> QED
    BY <2>3, <2>4 DEF Stands
<1>6. SenderLastWord'
  BY <1>5, StandsNext
<1> QED
  BY <1>2, <1>3, <1>6 DEF Told

\* A decision ends the words it answers and leaves the other plain fields alone.
LEMMA ToldDecides ==
  ASSUME Inv, Told, NEW fields, Decides(fields), phase = "open",
         \A f \in Plain \ fields : SameField(draft, draft', f)
  PROVE  Told'
<1>1. /\ \A f \in Plain : lastSaid'[f] = IF f \in fields THEN None ELSE lastSaid[f]
      /\ phase' = phase /\ arrived' = arrived /\ merged' = merged
  BY DEF Decides
<1>2. ~overtaken' => ~overtaken
  BY Zenon DEF Decides
<1>3. ASSUME ~overtaken', NEW f \in Plain, lastSaid'[f] # None
      PROVE  Stands(draft', f, lastSaid'[f].at, lastSaid'[f].value)
  <2>1. f \notin fields /\ lastSaid'[f] = lastSaid[f] /\ SameField(draft, draft', f) /\ f \in Scalars
    BY <1>1, <1>3, Names
  <2>2. Stands(draft, f, lastSaid[f].at, lastSaid[f].value)
    BY <1>2, <1>3, <2>1, StandsIs DEF Told
  <2> QED
    BY <2>1, <2>2, SameStands
<1>4. SenderLastWord'
  BY <1>3, StandsNext
<1>5. \A f \in Plain : lastSaid'[f] # None =>
        lastSaid'[f].at \in Nat /\ \E n \in merged' : arrived'[n] = lastSaid'[f].at
  BY <1>1 DEF Told
<1> QED
  BY <1>1, <1>4, <1>5 DEF Told

LEMMA ToldSaves ==
  ASSUME Inv, Told, NEW f \in subject, NEW v \in Offered(f), Saves(f, v)
  PROVE  Told'
<1>1. /\ f \in Fields /\ draft' = SystemEdit(draft, f, v, now) /\ now \in Nat /\ Good(draft)
      /\ Decides({f}) /\ phase = "open"
  BY SubjectsAssumption DEF Inv, StateOK, Saves
<1>2. \A g \in Plain \ {f} : SameField(draft, draft', g)
  <2>1. CASE f = "RECIPIENTS"
    <3>1. v \in SUBSET People
      BY <1>1, <2>1, OfferedTypes
    <3> QED
      BY <1>1, <2>1, <3>1, RecipientsEdit, Names
  <2>2. CASE f # "RECIPIENTS"
    <3>1. f \in Scalars /\ v \in Content[f] \cup {Empty(f)}
      BY <1>1, <2>2, OfferedTypes
    <3>2. \A h \in Fields \ ({f} \cup Dependents(f)) : SameField(draft, draft', h)
      BY <1>1, <3>1, ScalarEdit
    <3>3. \A g \in Plain : g \in Fields /\ g \notin Dependents(f)
      BY DEF Plain, Fields, Scalars, Dependents
    <3> QED
      BY <3>2, <3>3
  <2> QED
    BY <2>1, <2>2
<1> QED
  BY <1>1, <1>2, ToldDecides

LEMMA ToldSettles ==
  ASSUME Inv, Told, NEW choices \in Choices(draft), Settles(choices)
  PROVE  Told'
<1>1. /\ choices \in Sides /\ now \in Nat /\ Good(draft)
      /\ draft' = ResolveChoices(draft, choices, now)
      /\ Decides(Conflicts(draft)) /\ phase = "open"
  BY DEF Inv, StateOK, Settles, Choices, Sides
<1>2. \A f \in Plain : ~draft.meta[f].conflict => SameField(draft, draft', f)
  BY <1>1, SettlementFrame
<1>3. \A f \in Plain \ Conflicts(draft) : SameField(draft, draft', f)
  BY <1>2, Names DEF Conflicts
<1> QED
  BY <1>1, <1>3, ToldDecides

\* Nothing of the history changes but the phase and, perhaps, a new arrival.
LEMMA ToldStays ==
  ASSUME Inv, Told, draft' = draft, merged' = merged, lastSaid' = lastSaid,
         overtaken' = overtaken, phase' = "none" => phase = "none",
         \A n \in merged : arrived[n] # None => arrived'[n] = arrived[n]
  PROVE  Told'
<1>1. \A f \in Plain : lastSaid'[f] # None =>
        lastSaid'[f].at \in Nat /\ \E n \in merged' : arrived'[n] = lastSaid'[f].at
  BY NoneIsNothing DEF Told
<1>2. SenderLastWord'
  BY Zenon DEF Told, SenderLastWord, LastWordStands
<1> QED
  BY <1>1, <1>2 DEF Told

LEMMA ToldInit == Init => Told
<1> SUFFICES ASSUME Init PROVE Told
  OBVIOUS
<1>1. \A f \in Plain : lastSaid[f] = None
  BY DEF Init
<1> QED
  BY <1>1 DEF Told, SenderLastWord, LastWordStands

LEMMA ToldNext == Inv /\ Told /\ [Next]_vars => Told'
<1> SUFFICES ASSUME Inv, Told, [Next]_vars PROVE Told'
  OBVIOUS
<1>1. CASE Passes
  BY <1>1, ToldStays DEF Passes
<1>2. ASSUME NEW m \in Messages, Arrives(m) PROVE Told'
  <2>1. /\ draft' = draft /\ merged' = merged /\ lastSaid' = lastSaid /\ overtaken' = overtaken
        /\ phase' = phase /\ arrived[m] = None /\ arrived' = [arrived EXCEPT ![m] = now]
    BY <1>2 DEF Arrives
  <2>2. \A n \in merged : arrived[n] # None => arrived'[n] = arrived[n]
    BY <2>1 DEF Inv, StateOK
  <2> QED
    BY <2>1, <2>2, ToldStays
<1>3. ASSUME NEW m \in Messages, Opens(m) PROVE Told'
  BY <1>3, ToldOpens
<1>4. ASSUME NEW m \in Messages, Merges(m) PROVE Told'
  BY <1>4, ToldMerges
<1>5. CASE Loads
  BY <1>5, ToldStays DEF Loads
<1>6. ASSUME NEW f \in subject, NEW v \in Offered(f), Saves(f, v) PROVE Told'
  BY <1>6, ToldSaves
<1>7. ASSUME NEW choices \in Choices(draft), Settles(choices) PROVE Told'
  BY <1>7, ToldSettles
<1>8. CASE Submits
  BY <1>8, ToldStays DEF Submits
<1>9. CASE UNCHANGED vars
  BY <1>9, ToldStays DEF vars
<1> QED
  BY <1>1, <1>2, <1>3, <1>4, <1>5, <1>6, <1>7, <1>8, <1>9 DEF Next

\* The last word of the sender stands (decideScalar): as long as replies are
\* merged in the order they arrived, it is the value, or it is older than the
\* decision that overrules it, or it is the other side of an open conflict.
THEOREM SenderLastWordAlways == Spec => []SenderLastWord
<1>1. Inv /\ Told /\ [Next]_vars => Inv' /\ Told'
  BY InvNext, ToldNext
<1>2. Init => Inv /\ Told
  BY InvInit, ToldInit
<1>3. Told => SenderLastWord
  BY DEF Told
<1> QED
  BY <1>1, <1>2, <1>3, PTL DEF Spec
=============================================================================
