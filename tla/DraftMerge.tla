------------------------------ MODULE DraftMerge ------------------------------
(***************************************************************************)
(* A draft that was opened by a message (mail or WhatsApp) is changed from *)
(* two sides that know nothing of each other: replies of its sender, which *)
(* are merged when they are processed, and users at the screen, who edit   *)
(* fields and settle conflicts (lib/draft/merge.ts, lib/draft/state.ts,    *)
(* lib/services/draft-fields.ts).  Every operation below runs under the    *)
(* lock of the ticket (lockAndLoadDraft) and is therefore one step; what   *)
(* interleaves is the arrival of a message, its processing, the moment a   *)
(* screen was loaded, and the moment it is saved.                          *)
(*                                                                         *)
(* Left out: the tag "from the message" of a field, which no rule reads;   *)
(* the list of changes for the answer; rights and inactive recipients,     *)
(* which make an operation throw and change nothing.                       *)
(***************************************************************************)
EXTENDS Naturals, Sequences, FiniteSets

CONSTANTS
  Sites, Buildings, Apartments, Rooms, Domains, \* rows of the directory
  Texts,            \* paragraphs of a description
  People,           \* professionals and users who may be recipients
  SiteOf,           \* the site of a building
  BuildingOf,       \* the building of an apartment
  Messages,         \* messages of the sender: the first one, then replies
  None,
  Subjects,         \* bound: what one behaviour is about, a set of fields
  MaxTime,          \* bound of the clock
  MaxEdits,         \* bound of the decisions made at the screen
  MaxParagraphs     \* bound of the length of a description

ASSUME DraftAssumption ==
  /\ SiteOf \in [Buildings -> Sites]
  /\ BuildingOf \in [Apartments -> Buildings]
  /\ MaxTime \in Nat /\ MaxEdits \in Nat /\ MaxParagraphs \in Nat

\* None is the null of the code: no row of the directory and no other value.
ASSUME NoneAssumption ==
  /\ None \notin Sites \cup Buildings \cup Apartments \cup Rooms \cup Domains
  /\ None \notin Messages \cup Nat \cup Seq(Texts)
  /\ None \notin [People -> {"none", "add", "remove"}]

VARIABLES
  phase,    \* "none" before the first message, "open" a draft, "sent" dispatched
  draft,    \* the columns of the ticket and its DraftField rows
  now,      \* the clock of the server
  arrived,  \* when a message arrived, or None
  merged,   \* the messages merged into the draft
  screen,   \* the versions of the fields a loaded screen holds, or None
  edits,    \* how many decisions were made at the screen
  subject,  \* what this behaviour is about
  lastSaid, \* history: the latest word of the sender on a field since it was decided
  overtaken \* history: a message was merged after one that arrived later

vars == <<phase, draft, now, arrived, merged, screen, edits, subject,
          lastSaid, overtaken>>

------------------------------------------------------------------------------
(* Fields *)

Scalars == {"SITE", "BUILDING", "APARTMENT", "ROOM", "DOMAIN", "DESCRIPTION"}
Fields  == Scalars \cup {"RECIPIENTS"}
Required == Fields \ {"ROOM"}

\* What a behaviour is about is a set of fields.
ASSUME SubjectsAssumption == Subjects \subseteq SUBSET Fields

\* Fields that no other field resets and that only whole values replace.
Plain == {"SITE", "ROOM", "DOMAIN"}

\* A mutant: the description belongs to the site as well.
DependentsText(f) == IF f = "SITE" THEN {"BUILDING", "APARTMENT", "DESCRIPTION"}
                     ELSE IF f = "BUILDING" THEN {"APARTMENT"} ELSE {}

Dependents(f) == IF f = "SITE" THEN {"BUILDING", "APARTMENT"}
                 ELSE IF f = "BUILDING" THEN {"APARTMENT"} ELSE {}

\* The values a message or a user can give a field.
Content == [f \in Scalars |->
  IF f = "SITE" THEN Sites
  ELSE IF f = "BUILDING" THEN Buildings
  ELSE IF f = "APARTMENT" THEN Apartments
  ELSE IF f = "ROOM" THEN Rooms
  ELSE IF f = "DOMAIN" THEN Domains
  ELSE Seq(Texts) \ {<< >>}]

Opt(S) == S \cup {None}

Empty(f) == IF f = "DESCRIPTION" THEN << >> ELSE None

\* One row of DraftField; channelValue is the side of the message in a conflict.
EmptyMeta == [edited |-> None, conflict |-> FALSE, channelValue |-> None, message |-> None]
EditedAt(t) == [EmptyMeta EXCEPT !.edited = t]

\* A recipient: who put him there, and when the system took him off (a tombstone).
Absent == [origin |-> "NONE", removedAt |-> None]
ByChannel == [origin |-> "CHANNEL", removedAt |-> None]
BySystem == [origin |-> "SYSTEM", removedAt |-> None]

Active(d) == {r \in People : d.people[r].origin # "NONE" /\ d.people[r].removedAt = None}
Tombstones(d) == {r \in People : d.people[r].origin # "NONE" /\ d.people[r].removedAt # None}

NobodyPending == [r \in People |-> "none"]

\* pendingRecipients: the recipients in conflict, and on which side of it.
Pending(d) == LET value == d.meta["RECIPIENTS"].channelValue
              IN IF value = None THEN NobodyPending ELSE value

EmptyDraft == [value  |-> [f \in Scalars |-> Empty(f)],
               people |-> [r \in People |-> Absent],
               meta   |-> [f \in Fields |-> EmptyMeta]]

Conflicts(d) == {f \in Fields : d.meta[f].conflict}

Missing(d) == {f \in Required :
                 IF f = "RECIPIENTS" THEN Active(d) = {} ELSE d.value[f] = Empty(f)}

PutRow(d, f, row) == [d EXCEPT !.meta[f] = row]

\* The row of a field on which message m says p and somebody decided otherwise.
Against(row, p, m) == [row EXCEPT !.conflict = TRUE, !.channelValue = p, !.message = m]

\* A mutant: what depends on a replaced field loses its value and keeps its row.
ReplaceKeepsRows(d, f, v, meta) ==
  [d EXCEPT !.value = [g \in Scalars |-> IF g = f THEN v
                                         ELSE IF g \in Dependents(f) THEN None
                                         ELSE d.value[g]],
            !.meta[f] = meta]

\* A write to a field that changes it, with the row it leaves behind; what
\* depends on the field is emptied, value and row (resetDependents).
Replace(d, f, v, meta) ==
  [d EXCEPT !.value = [g \in Scalars |-> IF g = f THEN v
                                         ELSE IF g \in Dependents(f) THEN None
                                         ELSE d.value[g]],
            !.meta  = [g \in Fields |-> IF g = f THEN meta
                                        ELSE IF g \in Dependents(f) THEN EmptyMeta
                                        ELSE d.meta[g]]]

------------------------------------------------------------------------------
(* The merge of a message *)

\* A mutant: an edit of the same instant counts as later than the message.
DecisionNotBefore(meta, current, proposed, receivedAt) ==
  IF meta.edited # None /\ meta.edited >= receivedAt THEN "ignore"
  ELSE IF current = proposed THEN (IF meta.conflict THEN "close" ELSE "noop")
  ELSE IF meta.edited = None THEN "apply"
  ELSE "conflict"

\* What becomes of a value a message gives to a field.  The order of the tests
\* is the rule: a later edit decides, whatever the message says.
Decision(meta, current, proposed, receivedAt) ==
  IF meta.edited # None /\ meta.edited > receivedAt THEN "ignore"
  ELSE IF current = proposed THEN (IF meta.conflict THEN "close" ELSE "noop")
  ELSE IF meta.edited = None THEN "apply"
  ELSE "conflict"

\* A mutant: what depends on a field is merged even when the field is not.
MergeScalarUnblocked(acc, f, proposed, receivedAt, m) ==
  LET d        == acc.draft
      meta     == d.meta[f]
      decision == Decision(meta, d.value[f], proposed, receivedAt)
  IN  CASE proposed # None /\ decision = "apply" ->
             [acc EXCEPT !.draft = Replace(d, f, proposed, EmptyMeta)]
        [] proposed # None /\ decision = "conflict" ->
             [acc EXCEPT !.draft = PutRow(d, f, Against(meta, proposed, m))]
        [] proposed # None /\ decision = "close" ->
             [acc EXCEPT !.draft = PutRow(d, f, EditedAt(meta.edited))]
        [] OTHER -> acc

\* A round of the merge that leads to draft e; one that does not take over what
\* the message says of f leaves alone what depends on f (blockDependents).
Goes(acc, e) == [acc EXCEPT !.draft = e]
Blocked(acc, f, e) == [draft |-> e, blocked |-> acc.blocked \cup Dependents(f)]

\* One round of the loop of mergeChannelIntoDraft: acc is the draft so far and
\* the fields that must not be merged because the one they depend on was not.
MergeScalar(acc, f, proposed, receivedAt, m) ==
  LET d        == acc.draft
      meta     == d.meta[f]
      decision == Decision(meta, d.value[f], proposed, receivedAt)
  IN  IF proposed = None THEN acc
      ELSE IF f \in acc.blocked THEN Blocked(acc, f, d)
      ELSE CASE decision = "apply"    -> Goes(acc, Replace(d, f, proposed, EmptyMeta))
             [] decision = "conflict" -> Blocked(acc, f, PutRow(d, f, Against(meta, proposed, m)))
             [] decision = "close"    -> Goes(acc, PutRow(d, f, EditedAt(meta.edited)))
             [] decision = "ignore"   -> IF d.value[f] = proposed THEN acc ELSE Blocked(acc, f, d)
             [] decision = "noop"     -> acc

\* What message m says of a field is merged into it.
MergeField(acc, f, said, receivedAt, m) == MergeScalar(acc, f, said.value[f], receivedAt, m)

\* An addition to the description never conflicts and is never dropped.
MergeDescription(acc, said, receivedAt, m) ==
  IF said.append
  THEN [acc EXCEPT !.draft.value["DESCRIPTION"] = @ \o said.value["DESCRIPTION"]]
  ELSE MergeField(acc, "DESCRIPTION", said, receivedAt, m)

\* Recipients are decided one by one; who is both added and removed by the same
\* message is left alone.
Adds(said)    == said.add \ said.remove
Removes(said) == said.remove \ said.add

\* A mutant: a message takes off whom it names, whoever put him there.
MergePersonAny(d, said, r) ==
  IF r \in Adds(said) /\ r \notin Active(d) \cup Tombstones(d) THEN ByChannel
  ELSE IF r \in Removes(said) /\ r \in Active(d) THEN Absent
  ELSE d.people[r]

MergePerson(d, said, r) ==
  IF r \in Adds(said) /\ r \notin Active(d) \cup Tombstones(d) THEN ByChannel
  ELSE IF r \in Removes(said) /\ r \in Active(d) /\ d.people[r].origin = "CHANNEL" THEN Absent
  ELSE d.people[r]

\* Which side of a conflict a recipient is on after the message.
MergePending(d, said, r, receivedAt) ==
  LET edited == d.meta["RECIPIENTS"].edited IN
  IF r \in Adds(said)
  THEN IF r \notin Tombstones(d) THEN "none"
       ELSE IF d.people[r].removedAt > receivedAt THEN Pending(d)[r] ELSE "add"
  ELSE IF r \in Removes(said)
  THEN IF r \notin Active(d) \/ d.people[r].origin = "CHANNEL" THEN "none"
       ELSE IF edited # None /\ edited > receivedAt THEN Pending(d)[r] ELSE "remove"
  ELSE Pending(d)[r]

\* The recipients that this message itself put into the conflict.
PutPending(d, said, receivedAt) ==
  LET edited == d.meta["RECIPIENTS"].edited IN
  \/ \E r \in Adds(said) : r \in Tombstones(d) /\ d.people[r].removedAt <= receivedAt
  \/ \E r \in Removes(said) :
       /\ r \in Active(d) /\ d.people[r].origin # "CHANNEL"
       /\ ~(edited # None /\ edited > receivedAt)

MergeRecipients(d, said, receivedAt, m) ==
  LET pending  == [r \in People |-> MergePending(d, said, r, receivedAt)]
      conflict == pending # NobodyPending
      meta     == d.meta["RECIPIENTS"]
  IN  IF said.add \cup said.remove = {} THEN d
      ELSE PutRow([d EXCEPT !.people = [r \in People |-> MergePerson(d, said, r)]], "RECIPIENTS",
             [edited       |-> meta.edited,
              conflict     |-> conflict,
              channelValue |-> IF conflict THEN pending ELSE None,
              message      |-> IF ~conflict THEN None
                               ELSE IF PutPending(d, said, receivedAt) THEN m ELSE meta.message])

\* mergeChannelIntoDraft: the fields in the order of DRAFT_FIELDS, a site before
\* the building, the building before the apartment.
MergeChannel(d, said, receivedAt, m) ==
  LET start     == [draft |-> d, blocked |-> {}]
      site      == MergeField(start, "SITE", said, receivedAt, m)
      building  == MergeField(site, "BUILDING", said, receivedAt, m)
      apartment == MergeField(building, "APARTMENT", said, receivedAt, m)
      room      == MergeField(apartment, "ROOM", said, receivedAt, m)
      domain    == MergeField(room, "DOMAIN", said, receivedAt, m)
      text      == MergeDescription(domain, said, receivedAt, m)
  IN  MergeRecipients(text.draft, said, receivedAt, m)

------------------------------------------------------------------------------
(* Decisions at the screen *)

\* systemRecipients: who was active and is not wanted leaves a tombstone.
SystemRecipients(d, wanted, t) ==
  [r \in People |->
     IF r \in wanted THEN BySystem
     ELSE IF r \in Active(d) THEN [d.people[r] EXCEPT !.removedAt = t]
     ELSE d.people[r]]

\* A mutant: an edit of the recipients leaves their conflict open.
SystemEditKeepsConflict(d, f, v, t) ==
  IF f = "RECIPIENTS"
  THEN [d EXCEPT !.people = SystemRecipients(d, v, t), !.meta["RECIPIENTS"].edited = t]
  ELSE IF d.value[f] = v THEN [d EXCEPT !.meta[f] = EditedAt(t)]
  ELSE Replace(d, f, v, EditedAt(t))

\* applySystemEditInPlace: the field counts as edited even if it keeps its value.
SystemEdit(d, f, v, t) ==
  IF f = "RECIPIENTS"
  THEN PutRow([d EXCEPT !.people = SystemRecipients(d, v, t)], f, EditedAt(t))
  ELSE IF d.value[f] = v THEN PutRow(d, f, EditedAt(t))
  ELSE Replace(d, f, v, EditedAt(t))

\* editFromChannelValue and editFromCurrent: what choosing a side writes.
Side(d, f, choice) ==
  IF f = "RECIPIENTS"
  THEN IF choice = "system" THEN Active(d)
       ELSE {r \in Active(d) : Pending(d)[r] # "remove"} \cup {r \in People : Pending(d)[r] = "add"}
  ELSE IF choice = "system" THEN d.value[f] ELSE d.meta[f].channelValue

Resolve(d, f, choice, t) ==
  IF d.meta[f].conflict THEN SystemEdit(d, f, Side(d, f, choice), t) ELSE d

ResolveField(d, f, choices, t) == Resolve(d, f, choices[f], t)

\* resolveChoices, in the order of DRAFT_FIELDS: a site settled for the message
\* closes the conflicts of building and apartment before they are looked at.
ResolveChoices(d, choices, t) ==
  LET site      == ResolveField(d, "SITE", choices, t)
      building  == ResolveField(site, "BUILDING", choices, t)
      apartment == ResolveField(building, "APARTMENT", choices, t)
      room      == ResolveField(apartment, "ROOM", choices, t)
      domain    == ResolveField(room, "DOMAIN", choices, t)
      text      == ResolveField(domain, "DESCRIPTION", choices, t)
  IN  ResolveField(text, "RECIPIENTS", choices, t)

\* What can be chosen: a side per field in conflict, the system's for the others.
Choices(d) == {c \in [Fields -> {"system", "channel"}] :
                 \A f \in Fields \ Conflicts(d) : c[f] = "system"}

\* fieldVersion: what the screen shows of a field.
FieldVersion(d, f) ==
  <<IF f = "RECIPIENTS" THEN Active(d) ELSE d.value[f],
    d.meta[f].conflict, d.meta[f].channelValue, d.meta[f].message>>

Versions(d) == [f \in Fields |-> FieldVersion(d, f)]

\* A mutant: the window compares which fields are in conflict, not how.
ShownConflictsNames(versions) == {f \in Fields : versions[f][2]}

\* conflictsVersion: what the window of the conflicts shows, all of them at once.
ShownConflicts(versions) == {<<f, versions[f]>> : f \in {g \in Fields : versions[g][2]}}

\* assertLocationInSite: an address within one site.
Located(d) ==
  LET site == d.value["SITE"] building == d.value["BUILDING"] apartment == d.value["APARTMENT"] IN
  /\ building # None => building \in Buildings /\ SiteOf[building] = site
  /\ apartment # None => /\ apartment \in Apartments /\ SiteOf[BuildingOf[apartment]] = site
                         /\ building # None => BuildingOf[apartment] = building

------------------------------------------------------------------------------
(* What a message can say *)

\* Paragraphs a message or a user writes at once.
Writes == {<<t>> : t \in Texts}

Says(f, V) == IF f \in subject THEN Opt(V) ELSE {None}

Said(site, building, apartment, room, domain, text, append, add, remove) ==
  [value |-> [f \in Scalars |->
     IF f = "SITE" THEN site ELSE IF f = "BUILDING" THEN building
     ELSE IF f = "APARTMENT" THEN apartment ELSE IF f = "ROOM" THEN room
     ELSE IF f = "DOMAIN" THEN domain ELSE text],
   append |-> append, add |-> add, remove |-> remove]

\* buildReplyProposal: a building is matched within the site the message speaks
\* of, an apartment within its building; only without one, within those of the
\* draft as it is under the lock.
BuildingsFor(d, site) ==
  LET effective == IF site # None THEN site ELSE d.value["SITE"]
  IN  {b \in Buildings : SiteOf[b] = effective}

ApartmentsFor(d, site, building) ==
  LET siteChanging == site # None /\ site # d.value["SITE"]
      effective    == IF building # None THEN building
                      ELSE IF siteChanging THEN None ELSE d.value["BUILDING"]
  IN  {a \in Apartments : BuildingOf[a] = effective}

SaysPeople == IF "RECIPIENTS" \in subject THEN SUBSET People ELSE {{}}

------------------------------------------------------------------------------
(* Actions *)

Init ==
  /\ phase = "none" /\ draft = EmptyDraft
  /\ now = 0 /\ edits = 0
  /\ arrived = [m \in Messages |-> None] /\ merged = {}
  /\ screen = None
  /\ subject \in Subjects
  /\ lastSaid = [f \in Plain |-> None]
  /\ overtaken = FALSE

Passes ==
  /\ now < MaxTime
  /\ now' = now + 1
  /\ UNCHANGED <<phase, draft, arrived, merged, screen, edits, subject, lastSaid, overtaken>>

\* A message reaches the mailbox or the number.
Arrives(m) ==
  /\ arrived[m] = None
  /\ arrived' = [arrived EXCEPT ![m] = now]
  /\ UNCHANGED <<phase, draft, now, merged, screen, edits, subject, lastSaid, overtaken>>

\* The word of the sender that arrived last, per plain field.
Hears(said, at) ==
  [f \in Plain |-> IF /\ said.value[f] # None
                      /\ lastSaid[f] = None \/ lastSaid[f].at <= at
                   THEN [at |-> at, value |-> said.value[f]]
                   ELSE lastSaid[f]]

Takes(m) ==
  /\ merged' = merged \cup {m}
  /\ overtaken' = (overtaken \/ \E n \in merged : arrived[n] > arrived[m])
  /\ UNCHANGED <<now, arrived, screen, edits, subject>>

\* planDraft: the first message opens the draft; the others answer it or what was
\* answered to it, and arrive later.  What it says of an address is matched the
\* same way, and everything it fills is unedited.
Opens(m) ==
  /\ phase = "none" /\ arrived[m] # None
  /\ \A n \in Messages : arrived[n] # None => arrived[n] >= arrived[m]
  /\ \E site \in Says("SITE", Sites) :
     \E building \in Says("BUILDING", BuildingsFor(EmptyDraft, site)) :
     \E apartment \in Says("APARTMENT", ApartmentsFor(EmptyDraft, site, building)),
        room \in Says("ROOM", Rooms), domain \in Says("DOMAIN", Domains),
        text \in Says("DESCRIPTION", Writes), add \in SaysPeople :
       LET said == Said(site, building, apartment, room, domain, text, FALSE, add, {}) IN
       /\ draft' = [EmptyDraft EXCEPT
            !.value = [f \in Scalars |-> IF said.value[f] = None THEN Empty(f) ELSE said.value[f]],
            !.people = [r \in People |-> IF r \in add THEN ByChannel ELSE Absent]]
       /\ lastSaid' = Hears(said, arrived[m])
  /\ phase' = "open"
  /\ Takes(m)

\* applyEmailReply, applyWaReply: a reply is merged into what is found under the
\* lock, measured by when it arrived and not by when it is merged.
MergesSaid(m, said) ==
  /\ phase = "open" /\ arrived[m] # None /\ m \notin merged
  /\ said.append => Len(draft.value["DESCRIPTION"]) < MaxParagraphs
  /\ draft' = MergeChannel(draft, said, arrived[m], m)
  /\ lastSaid' = Hears(said, arrived[m])
  /\ Takes(m)
  /\ UNCHANGED phase

Merges(m) ==
  \E site \in Says("SITE", Sites) :
  \E building \in Says("BUILDING", BuildingsFor(draft, site)) :
  \E apartment \in Says("APARTMENT", ApartmentsFor(draft, site, building)),
     room \in Says("ROOM", Rooms), domain \in Says("DOMAIN", Domains),
     text \in Says("DESCRIPTION", Writes), append \in BOOLEAN,
     add \in SaysPeople, remove \in SaysPeople :
    /\ append => text # None
    /\ MergesSaid(m, Said(site, building, apartment, room, domain, text, append, add, remove))

\* A user loads the screen of the draft.
Loads ==
  /\ phase = "open"
  /\ screen' = Versions(draft)
  /\ UNCHANGED <<phase, draft, now, arrived, merged, edits, subject, lastSaid, overtaken>>

\* A decision of a user: what the sender said before is answered by it.
Decides(fields) ==
  /\ edits < MaxEdits
  /\ edits' = edits + 1
  /\ lastSaid' = [f \in Plain |-> IF f \in fields THEN None ELSE lastSaid[f]]
  /\ UNCHANGED <<phase, now, arrived, merged, subject, overtaken>>

\* The values the screen offers for a field; a site cannot be emptied.
Offered(f) ==
  CASE f = "RECIPIENTS" -> SUBSET People
    [] f = "SITE" -> Sites
    [] f = "DESCRIPTION" -> Writes \cup {<< >>}
    [] OTHER -> Opt(Content[f])

\* updateDraftFields: the screen saves one field with the version it shows; a
\* field that changed since, or an address outside the site, makes it throw.
\* The screen is loaded again with what was saved.
Saves(f, v) ==
  /\ phase = "open" /\ screen # None
  /\ screen[f] = FieldVersion(draft, f)
  /\ LET next == SystemEdit(draft, f, v, now) IN
     /\ Located(next)
     /\ draft' = next
     /\ screen' = Versions(next)
  /\ Decides({f})

\* resolveDraftConflicts: every open conflict is settled, on the conflicts shown.
Settles(choices) ==
  /\ phase = "open" /\ screen # None
  /\ ShownConflicts(screen) = ShownConflicts(Versions(draft))
  /\ Conflicts(draft) # {}
  /\ LET next == ResolveChoices(draft, choices, now) IN
     /\ Located(next)
     /\ draft' = next
     /\ screen' = Versions(next)
  /\ Decides(Conflicts(draft))

\* submitDraft: refused while a conflict is open or a required field is empty.
Submits ==
  /\ phase = "open"
  /\ Conflicts(draft) = {} /\ Missing(draft) \cap subject = {}
  /\ phase' = "sent"
  /\ UNCHANGED <<draft, now, arrived, merged, screen, edits, subject, lastSaid, overtaken>>

Next ==
  \/ Passes
  \/ \E m \in Messages : Arrives(m) \/ Opens(m) \/ Merges(m)
  \/ Loads
  \/ \E f \in subject : \E v \in Offered(f) : Saves(f, v)
  \/ \E choices \in Choices(draft) : Settles(choices)
  \/ Submits

Spec == Init /\ [][Next]_vars

------------------------------------------------------------------------------
(* Properties *)

\* The row of a field.
Meta(f) ==
  [edited : Opt(Nat), conflict : BOOLEAN, message : Opt(Messages),
   channelValue : Opt(IF f = "RECIPIENTS" THEN [People -> {"none", "add", "remove"}]
                      ELSE Content[f])]

\* The types of the state.
TypeOK ==
  /\ phase \in {"none", "open", "sent"}
  /\ DOMAIN draft.value = Scalars
  /\ \A f \in Scalars : draft.value[f] \in Content[f] \cup {Empty(f)}
  /\ draft.people \in [People -> [origin : {"NONE", "CHANNEL", "SYSTEM"}, removedAt : Opt(Nat)]]
  /\ DOMAIN draft.meta = Fields /\ \A f \in Fields : draft.meta[f] \in Meta(f)
  /\ now \in Nat /\ edits \in Nat
  /\ arrived \in [Messages -> Opt(Nat)] /\ merged \subseteq Messages
  /\ subject \in Subjects /\ overtaken \in BOOLEAN

\* The address of a draft lies within one site, and so does the side of the
\* message in a conflict about a building or an apartment: a building that was
\* matched against a site the draft did not take never gets in
\* (mergeChannelIntoDraft, blockDependents and resetDependents).
LocationIsOne ==
  LET building  == draft.meta["BUILDING"].channelValue
      apartment == draft.meta["APARTMENT"].channelValue
  IN  /\ Located(draft)
      /\ building # None => SiteOf[building] = draft.value["SITE"]
      /\ apartment # None => BuildingOf[apartment] = draft.value["BUILDING"]

\* A conflict is a disagreement with a decision: the field was decided at the
\* screen, the message that stands against it is kept with what it says, and it
\* says something else.  A recipient waits to be put back only if the screen took
\* him off, and to be taken off only if the screen put him there.
PendingIsReal ==
  /\ \A f \in Fields :
       LET meta == draft.meta[f] IN
       /\ meta.conflict <=> meta.channelValue # None
       /\ meta.conflict <=> meta.message # None
       /\ meta.conflict => meta.message \in merged
       /\ meta.conflict /\ f \in Scalars => meta.edited # None
       /\ meta.conflict /\ f \in Scalars \ {"DESCRIPTION"} => meta.channelValue # draft.value[f]
  /\ \A r \in People :
       /\ Pending(draft)[r] = "add" => r \in Tombstones(draft)
       /\ Pending(draft)[r] = "remove" => r \in Active(draft) /\ draft.people[r].origin = "SYSTEM"

\* The window of the conflicts always has a way out: whatever sides are chosen,
\* one settlement closes every conflict, leaves an address of one site (so that
\* the check of the address cannot refuse it), and keeping the side of the system
\* changes no value (resolveChoices).
SettlingSettles ==
  /\ \A choices \in Choices(draft) :
       LET settled == ResolveChoices(draft, choices, now) IN
       Conflicts(settled) = {} /\ Located(settled)
  /\ LET kept == ResolveChoices(draft, [f \in Fields |-> "system"], now) IN
     kept.value = draft.value /\ Active(kept) = Active(draft)

\* What the sender said last, since somebody decided the field, is not lost: it
\* is the value, or it is older than the decision, or it stands in the conflict.
LastWordStands(f) ==
  LET said == lastSaid[f] meta == draft.meta[f] IN
  said # None =>
    IF meta.edited = None THEN draft.value[f] = said.value
    ELSE said.at >= meta.edited =>
           IF draft.value[f] = said.value THEN ~meta.conflict
           ELSE meta.channelValue = said.value

\* As long as replies are merged in the order they arrived, the last word of the
\* sender stands, in every interleaving with the edits of the screen (the table of
\* decideScalar).
SenderLastWord == ~overtaken => \A f \in Plain : LastWordStands(f)

\* A message never undoes a decision of the screen: a field decided there keeps
\* its value and its mark, unless the field it depends on was never decided and
\* was changed, or unless the message adds to the description; a recipient the
\* screen put there stays, one it took off stays off.
MailRespectsDecisions ==
  [][merged' # merged /\ phase = "open" =>
       /\ \A f \in Scalars : draft.meta[f].edited # None =>
            \/ /\ draft'.meta[f].edited = draft.meta[f].edited
               /\ \/ draft'.value[f] = draft.value[f]
                  \/ /\ f = "DESCRIPTION"
                     /\ SubSeq(draft'.value[f], 1, Len(draft.value[f])) = draft.value[f]
            \/ \E g \in Scalars : /\ f \in Dependents(g) /\ draft.meta[g].edited = None
                                  /\ draft'.value[g] # draft.value[g]
       /\ \A r \in People :
            draft.people[r].origin = "SYSTEM" \/ draft.people[r].removedAt # None
              => draft'.people[r] = draft.people[r]]_vars

\* Nobody decides what he did not see: a decision changes a field, or closes its
\* conflict, only if the screen it was made at showed the field as it is, or if
\* the field depends on one that the decision changed (fieldVersion,
\* conflictsVersion).
NoUnseenLoss ==
  [][edits' # edits =>
       \A f \in Fields :
         FieldVersion(draft', f) # FieldVersion(draft, f) =>
           \/ screen[f] = FieldVersion(draft, f)
           \/ \E g \in Scalars : /\ f \in Dependents(g) /\ screen[g] = FieldVersion(draft, g)
                                 /\ draft'.value[g] # draft.value[g]]_vars
==============================================================================
