--------------------------- MODULE TicketLifecycle ---------------------------
(***************************************************************************)
(* The life of a ticket (src/lib/services/tickets.ts) together with the    *)
(* portal links of the contractors it is assigned to (portal.ts), the tag  *)
(* grants that also keep a link alive (tags.ts) and the merge of two       *)
(* contractors (admin.ts).                                                 *)
(*                                                                         *)
(* A request of the web application reads the database, decides, and only  *)
(* then opens the transaction that writes. Reading and writing are         *)
(* therefore two steps here, and requests of several users interleave      *)
(* between them. What one transaction writes is one step.                  *)
(***************************************************************************)
EXTENDS Naturals, FiniteSets

CONSTANTS
  Tickets,      \* tickets
  Pros,         \* contractors: recipients who enter by a portal link
  Staff,        \* recipients who are users of the system
  Rows,         \* identifiers of rows of the Assignment table
  Requests,     \* web requests that may be in progress at once
  None

Recipients == Pros \cup Staff

ASSUME LifecycleAssumption ==
  /\ Pros \cap Staff = {}
  /\ None \notin Tickets \cup Recipients \cup Rows

VARIABLES
  state,        \* of a ticket: no row, draft, open, closed, deleted
  chosen,       \* draftRecipients
  escalated,    \* of a ticket
  stale,        \* no activity for STALE_DAYS_THRESHOLD days
  row,          \* the Assignment table
  token,        \* contractors with an access token that is not revoked
  granted,      \* contractors with a tag opened to them
  known,        \* contractors that exist
  outbox,       \* rows whose recipient a waiting job will tell (ASSIGNED, REOPENED)
  settled,      \* rows whose latest assignment was dealt with by the notifier
  request,      \* progress of each web request
  overlapped    \* TRUE once two requests were in progress at the same time

vars == <<state, chosen, escalated, stale, row, token, granted, known, outbox,
          settled, request, overlapped>>

-----------------------------------------------------------------------------
(* Values *)

States     == {"none", "draft", "open", "closed", "deleted"}
Dispatched == {"open", "closed"}
RowStates  == {"free", "SENT", "VIEWED", "DONE", "REMOVED", "gone"}
Active     == {"SENT", "VIEWED", "DONE"}

FreeRow == [ticket |-> None, who |-> None, status |-> "free"]
Idle    == [pc |-> "idle", kind |-> "none", ticket |-> None, row |-> None,
            who |-> None, people |-> {}]

RequestPc == {"idle", "write", "count", "revoke"}
Kinds     == {"none", "submit", "submitList", "deleteDraft", "close", "reopen", "add",
              "remove", "done", "delete", "revokeTag"}

Existing(r)  == row[r].status \in Active \cup {"REMOVED"}
RowsOf(t)    == {r \in Rows : Existing(r) /\ row[r].ticket = t}
ActiveOf(t)  == {r \in RowsOf(t) : row[r].status \in Active}
FreeRows     == {r \in Rows : row[r].status = "free"}

Init ==
  /\ state = [t \in Tickets |-> "none"]
  /\ chosen = [t \in Tickets |-> {}]
  /\ escalated = [t \in Tickets |-> FALSE]
  /\ stale = [t \in Tickets |-> FALSE]
  /\ row = [r \in Rows |-> FreeRow]
  /\ token = {} /\ granted = {} /\ known = Pros
  /\ outbox = {} /\ settled = {}
  /\ request = [q \in Requests |-> Idle]
  /\ overlapped = FALSE

-----------------------------------------------------------------------------
(* Requests *)

\* Another request is in progress while this one acts.
Overlaps == overlapped' = (overlapped \/ \E o \in Requests : request[o] # Idle)

\* A request has read what it needs; it now holds that knowledge.
Begin(q, knowledge) ==
  /\ request[q] = Idle
  /\ request' = [request EXCEPT ![q] = [knowledge EXCEPT !.pc = "write"]]
  /\ Overlaps

Writing(q, kind) == request[q].pc = "write" /\ request[q].kind = kind

End(q) == request' = [request EXCEPT ![q] = Idle]

\* The transaction is over; access of these contractors is reviewed next.
Review(q, ps) ==
  request' = [request EXCEPT ![q] =
                IF ps = {} THEN Idle ELSE [@ EXCEPT !.pc = "count", !.people = ps]]

Reading == UNCHANGED <<state, chosen, escalated, stale, row, token, granted,
                       known, outbox, settled>>

\* touchData: the ticket moved, so it is neither stale nor escalated.
Touch(t) == /\ stale' = [stale EXCEPT ![t] = FALSE]
            /\ escalated' = [escalated EXCEPT ![t] = FALSE]

-----------------------------------------------------------------------------
(* Assigning *)

\* applyNewAssignments: a link for every contractor, a job for every row.
ApplyNewAssignments(recipients, rows) ==
  /\ token' = token \cup (recipients \cap Pros)
  /\ outbox' = outbox \cup rows
  /\ settled' = settled \ rows

\* The foreign keys of an assignment and of a token.
Exist(recipients) == recipients \cap Pros \subseteq known

\* New rows for these recipients of t, and what comes with them.
CreateRows(t, recipients) ==
  \E f \in [recipients -> FreeRows] :
    /\ \A a, b \in recipients : f[a] = f[b] => a = b
    /\ row' = [r \in Rows |->
                 IF \E w \in recipients : f[w] = r
                 THEN [ticket |-> t, status |-> "SENT",
                       who |-> CHOOSE w \in recipients : f[w] = r]
                 ELSE row[r]]
    /\ ApplyNewAssignments(recipients, {f[w] : w \in recipients})

\* createTicket: a draft keeps its recipients aside, anything else is sent out.
CreateDraft(t, recipients) ==
  /\ state[t] = "none"
  /\ state' = [state EXCEPT ![t] = "draft"]
  /\ chosen' = [chosen EXCEPT ![t] = recipients]
  /\ Overlaps
  /\ UNCHANGED <<escalated, stale, row, token, granted, known, outbox, settled, request>>

CreateTicket(t, recipients) ==
  /\ state[t] = "none" /\ recipients # {} /\ Exist(recipients)
  /\ state' = [state EXCEPT ![t] = "open"]
  /\ CreateRows(t, recipients)
  /\ Overlaps
  /\ UNCHANGED <<chosen, escalated, stale, granted, known, request>>

\* updateDraftFields: under the lock of the ticket, so in one step.
EditDraft(t, recipients) ==
  /\ state[t] = "draft" /\ recipients # chosen[t]
  /\ chosen' = [chosen EXCEPT ![t] = recipients]
  /\ Touch(t)
  /\ Overlaps
  /\ UNCHANGED <<state, row, token, granted, known, outbox, settled, request>>

\* submitDraft: the caller gives a list of recipients, or leaves it to the draft.
SubmitReads(q, t) ==
  /\ state[t] = "draft"
  /\ \/ Begin(q, [Idle EXCEPT !.kind = "submit", !.ticket = t, !.people = chosen[t]])
     \/ \E list \in SUBSET Recipients :
          Begin(q, [Idle EXCEPT !.kind = "submitList", !.ticket = t, !.people = list])
  /\ Reading

\* The lock is taken and the draft read again; nothing is written unless it is
\* still a draft, complete, and its recipients exist.
SubmitTo(q, recipients) ==
  LET t == request[q].ticket IN
  /\ Writing(q, "submit") \/ Writing(q, "submitList")
  /\ \/ /\ state[t] = "draft" /\ recipients # {} /\ Exist(recipients)
        /\ state' = [state EXCEPT ![t] = "open"]
        /\ chosen' = [chosen EXCEPT ![t] = {}]
        /\ Touch(t)
        /\ CreateRows(t, recipients)
     \/ /\ state[t] # "draft" \/ recipients = {} \/ ~Exist(recipients)
        /\ UNCHANGED <<state, chosen, escalated, stale, row, token, outbox, settled>>
  /\ End(q)
  /\ UNCHANGED <<granted, known, overlapped>>

\* Fault: the recipients are those read before the lock.
SubmitWritesStale(q) == SubmitTo(q, request[q].people)

SubmitWrites(q) ==
  SubmitTo(q, IF request[q].kind = "submit" THEN chosen[request[q].ticket]
              ELSE request[q].people)

\* Fault: a row that was REMOVED is not looked for.
AddReadsAnew(q, t, who) ==
  /\ state[t] \in Dispatched
  /\ ~\E r \in ActiveOf(t) : row[r].who = who
  /\ Begin(q, [Idle EXCEPT !.kind = "add", !.ticket = t, !.who = who])
  /\ Reading

\* addAssignments for one recipient who has no active row in what was read. A
\* row that was read as REMOVED is the one to bring back.
AddReads(q, t, who) ==
  /\ state[t] \in Dispatched
  /\ ~\E r \in ActiveOf(t) : row[r].who = who
  /\ LET removed == {r \in RowsOf(t) : row[r].who = who} IN
     \E previous \in IF removed = {} THEN {None} ELSE removed :
       Begin(q, [Idle EXCEPT !.kind = "add", !.ticket = t, !.who = who, !.row = previous])
  /\ Reading

AddWrites(q) ==
  LET t == request[q].ticket  who == request[q].who  r == request[q].row IN
  /\ Writing(q, "add")
  /\ \/ /\ state[t] \in Dispatched /\ Exist({who}) /\ r # None /\ Existing(r)
        /\ row' = [row EXCEPT ![r].status = "SENT"]
        /\ Touch(t)
        /\ ApplyNewAssignments({who}, {r})
     \/ /\ state[t] \in Dispatched /\ Exist({who}) /\ r = None
        /\ CreateRows(t, {who})
        /\ Touch(t)
     \/ \* the ticket, the row or the contractor is gone: the transaction throws
        /\ state[t] \notin Dispatched \/ ~Exist({who}) \/ (r # None /\ ~Existing(r))
        /\ UNCHANGED <<escalated, stale, row, token, outbox, settled>>
  /\ End(q)
  /\ UNCHANGED <<state, chosen, granted, known, overlapped>>

\* resendAssignmentNotification only enqueues.
Resend(r) ==
  /\ row[r].status \in Active /\ state[row[r].ticket] = "open"
  /\ outbox' = outbox \cup {r}
  /\ Overlaps
  /\ UNCHANGED <<state, chosen, escalated, stale, row, token, granted, known,
                 settled, request>>

-----------------------------------------------------------------------------
(* Removing, and the review of portal access that follows it *)

RemoveReads(q, r) ==
  /\ row[r].status \in Active
  /\ Begin(q, [Idle EXCEPT !.kind = "remove", !.ticket = row[r].ticket, !.row = r,
                           !.who = row[r].who])
  /\ Reading

RemoveWrites(q) ==
  LET r == request[q].row IN
  /\ Writing(q, "remove")
  /\ \/ /\ Existing(r)
        /\ row' = [row EXCEPT ![r].status = "REMOVED"]
        /\ Touch(request[q].ticket)
        /\ Review(q, {request[q].who} \cap Pros)
     \/ /\ ~Existing(r)
        /\ End(q)
        /\ UNCHANGED <<row, escalated, stale>>
  /\ UNCHANGED <<state, chosen, token, granted, known, outbox, settled, overlapped>>

\* revokeTagAccess
RevokeTagReads(q, p) ==
  /\ Begin(q, [Idle EXCEPT !.kind = "revokeTag", !.who = p])
  /\ Reading

RevokeTagWrites(q) ==
  /\ Writing(q, "revokeTag")
  /\ granted' = granted \ {request[q].who}
  /\ Review(q, {request[q].who})
  /\ UNCHANGED <<state, chosen, escalated, stale, row, token, known, outbox,
                 settled, overlapped>>

\* Fault: only the rows of open tickets are counted.
HasOpenWork(p) ==
  \E r \in Rows : row[r].status \in Active /\ row[r].who = p /\ state[row[r].ticket] = "open"

\* The rows that keep a contractor's link alive, those of closed tickets too.
HasWork(p) == \E r \in Rows : row[r].status \in Active /\ row[r].who = p

\* revokeAccessIfOrphaned, first the two counts ...
CountAccess(q, p) ==
  /\ request[q].pc = "count" /\ p \in request[q].people
  /\ IF HasWork(p) \/ p \in granted
     THEN Review(q, request[q].people \ {p})
     ELSE request' = [request EXCEPT ![q].pc = "revoke", ![q].who = p]
  /\ Reading /\ UNCHANGED overlapped

\* ... then the update that revokes, outside any transaction.
RevokeAccess(q) ==
  /\ request[q].pc = "revoke"
  /\ token' = token \ {request[q].who}
  /\ Review(q, request[q].people \ {request[q].who})
  /\ UNCHANGED <<state, chosen, escalated, stale, row, granted, known, outbox,
                 settled, overlapped>>

-----------------------------------------------------------------------------
(* Reports of the recipients *)

\* Fault: the update is not conditional.
MarkViewedAlways(r) ==
  /\ row[r].status \in Active /\ row[r].who \in Pros
  /\ row' = [row EXCEPT ![r].status = "VIEWED"]
  /\ Overlaps
  /\ UNCHANGED <<state, chosen, escalated, stale, token, granted, known, outbox,
                 settled, request>>

\* The portal page is open and marks the row, in one conditional update.
MarkViewed(r) ==
  /\ row[r].status = "SENT" /\ row[r].who \in Pros
  /\ row' = [row EXCEPT ![r].status = "VIEWED"]
  /\ Overlaps
  /\ UNCHANGED <<state, chosen, escalated, stale, token, granted, known, outbox,
                 settled, request>>

\* markDoneAction and setAssignmentStatus: a link that opens, a row that is not
\* REMOVED, a ticket that is not closed -- as read.
DoneReads(q, r) ==
  /\ row[r].status \in Active /\ row[r].who \in token
  /\ state[row[r].ticket] = "open"
  /\ Begin(q, [Idle EXCEPT !.kind = "done", !.ticket = row[r].ticket, !.row = r])
  /\ Reading

DoneWrites(q) ==
  LET r == request[q].row IN
  /\ Writing(q, "done")
  /\ \/ /\ Existing(r)
        /\ row' = [row EXCEPT ![r].status = "DONE"]
        /\ Touch(request[q].ticket)
     \/ /\ ~Existing(r)
        /\ UNCHANGED <<row, escalated, stale>>
  /\ End(q)
  /\ UNCHANGED <<state, chosen, token, granted, known, outbox, settled, overlapped>>

-----------------------------------------------------------------------------
(* Closing, reopening, deleting *)

CloseReads(q, t) ==
  /\ state[t] = "open"
  /\ Begin(q, [Idle EXCEPT !.kind = "close", !.ticket = t])
  /\ Reading

\* Fault: closing is not movement.
CloseWritesOnly(q) ==
  LET t == request[q].ticket IN
  /\ Writing(q, "close") /\ state[t] \in Dispatched
  /\ state' = [state EXCEPT ![t] = "closed"]
  /\ End(q)
  /\ UNCHANGED <<chosen, escalated, stale, row, token, granted, known, outbox, settled,
                 overlapped>>

CloseWrites(q) ==
  LET t == request[q].ticket IN
  /\ Writing(q, "close")
  /\ \/ /\ state[t] \in Dispatched
        /\ state' = [state EXCEPT ![t] = "closed"]
        /\ Touch(t)
     \/ state[t] \notin Dispatched /\ UNCHANGED <<state, escalated, stale>>
  /\ End(q)
  /\ UNCHANGED <<chosen, row, token, granted, known, outbox, settled, overlapped>>

ReopenReads(q, t) ==
  /\ state[t] = "closed"
  /\ Begin(q, [Idle EXCEPT !.kind = "reopen", !.ticket = t])
  /\ Reading

\* Every row that is not REMOVED starts over and its recipient is told.
ReopenWrites(q) ==
  LET t == request[q].ticket IN
  /\ Writing(q, "reopen")
  /\ \/ /\ state[t] \in Dispatched
        /\ state' = [state EXCEPT ![t] = "open"]
        /\ Touch(t)
        /\ row' = [r \in Rows |-> IF r \in ActiveOf(t)
                                  THEN [row[r] EXCEPT !.status = "SENT"] ELSE row[r]]
        /\ outbox' = outbox \cup ActiveOf(t)
        /\ settled' = settled \ ActiveOf(t)
     \/ /\ state[t] \notin Dispatched
        /\ UNCHANGED <<state, escalated, stale, row, outbox, settled>>
  /\ End(q)
  /\ UNCHANGED <<chosen, token, granted, known, overlapped>>

\* The rows of a deleted ticket go with it, and so do the flags on it.
Erase(t) ==
  /\ state' = [state EXCEPT ![t] = "deleted"]
  /\ chosen' = [chosen EXCEPT ![t] = {}]
  /\ row' = [r \in Rows |-> IF r \in RowsOf(t)
                            THEN [FreeRow EXCEPT !.status = "gone"] ELSE row[r]]
  /\ Touch(t)

DeleteDraftReads(q, t) ==
  /\ state[t] = "draft"
  /\ Begin(q, [Idle EXCEPT !.kind = "deleteDraft", !.ticket = t])
  /\ Reading

\* Fault: it is not read again under the lock.
DeleteDraftUnread(q) ==
  /\ Writing(q, "deleteDraft") /\ state[request[q].ticket] # "deleted"
  /\ Erase(request[q].ticket)
  /\ End(q)
  /\ UNCHANGED <<token, granted, known, outbox, settled, overlapped>>

\* Locked and read again: a draft that was sent meanwhile is not deleted.
DeleteDraftWrites(q) ==
  LET t == request[q].ticket IN
  /\ Writing(q, "deleteDraft")
  /\ \/ state[t] = "draft" /\ Erase(t)
     \/ state[t] # "draft" /\ UNCHANGED <<state, chosen, row, escalated, stale>>
  /\ End(q)
  /\ UNCHANGED <<token, granted, known, outbox, settled, overlapped>>

\* deleteTicket, for the administrator, whatever the state of the ticket.
DeleteReads(q, t) ==
  /\ state[t] \in Dispatched \cup {"draft"}
  /\ Begin(q, [Idle EXCEPT !.kind = "delete", !.ticket = t,
                           !.people = {row[r].who : r \in RowsOf(t)} \cap Pros])
  /\ Reading

DeleteWrites(q) ==
  LET t == request[q].ticket IN
  /\ Writing(q, "delete")
  /\ \/ /\ state[t] # "deleted"
        /\ Erase(t)
        /\ Review(q, request[q].people)
     \/ /\ state[t] = "deleted"
        /\ End(q)
        /\ UNCHANGED <<state, chosen, row, escalated, stale>>
  /\ UNCHANGED <<token, granted, known, outbox, settled, overlapped>>

\* A request may die between two of its steps.
Abandon(q) ==
  /\ request[q] # Idle
  /\ End(q)
  /\ Reading /\ UNCHANGED overlapped

-----------------------------------------------------------------------------
(* Contractors *)

\* grantTagAccess issues a link in the same transaction.
GrantTag(p) ==
  /\ p \in known \ granted
  /\ granted' = granted \cup {p}
  /\ token' = token \cup {p}
  /\ Overlaps
  /\ UNCHANGED <<state, chosen, escalated, stale, row, known, outbox, settled, request>>

\* ensurePortalLink and rotatePortalLink, for a contractor of some assignment.
IssueLink(p) ==
  /\ p \in known \ token
  /\ \E r \in Rows : Existing(r) /\ row[r].who = p
  /\ token' = token \cup {p}
  /\ Overlaps
  /\ UNCHANGED <<state, chosen, escalated, stale, row, granted, known, outbox,
                 settled, request>>

\* mergeProfessionals: rows of drop on a ticket keep has a row on are deleted,
\* the others change hands; so do the tag grants; the links of drop die.
MergeProfessionals(keep, drop) ==
  LET held == {row[r].ticket : r \in {x \in Rows : Existing(x) /\ row[x].who = keep}}
      Moves(r) == Existing(r) /\ row[r].who = drop IN
  /\ keep \in known /\ drop \in known /\ keep # drop
  /\ row' = [r \in Rows |->
               IF ~Moves(r) THEN row[r]
               ELSE IF row[r].ticket \in held THEN [FreeRow EXCEPT !.status = "gone"]
               ELSE [row[r] EXCEPT !.who = keep]]
  /\ granted' = IF drop \in granted THEN (granted \cup {keep}) \ {drop} ELSE granted
  /\ token' = token \ {drop}
  /\ known' = known \ {drop}
  /\ Overlaps
  /\ UNCHANGED <<state, chosen, escalated, stale, outbox, settled, request>>

-----------------------------------------------------------------------------
(* The worker and time *)

\* A notification job is over: sent, failed for good, or without an address to
\* go to; dropped without a word only for a row that is REMOVED or deleted.
\* Telling a contractor takes a link, issued then if there is none, unless the
\* job failed before it got that far.
Notify(r) ==
  /\ r \in outbox
  /\ outbox' = outbox \ {r}
  /\ \/ /\ row[r].status \in Active
        /\ settled' = settled \cup {r}
        /\ token' \in {token, token \cup ({row[r].who} \cap Pros)}
     \/ row[r].status \notin Active /\ UNCHANGED <<settled, token>>
  /\ UNCHANGED <<state, chosen, escalated, stale, row, granted, known, request,
                 overlapped>>

\* STALE_DAYS_THRESHOLD days pass without activity.
GrowsStale(t) ==
  /\ state[t] \in Dispatched \cup {"draft"} /\ ~stale[t]
  /\ stale' = [stale EXCEPT ![t] = TRUE]
  /\ UNCHANGED <<state, chosen, escalated, row, token, granted, known, outbox,
                 settled, request, overlapped>>

\* runDailyEscalation: one conditional update over all tickets.
Escalate ==
  LET due == {t \in Tickets : state[t] = "open" /\ stale[t] /\ ~escalated[t]} IN
  /\ due # {}
  /\ escalated' = [t \in Tickets |-> escalated[t] \/ t \in due]
  /\ UNCHANGED <<state, chosen, stale, row, token, granted, known, outbox,
                 settled, request, overlapped>>

-----------------------------------------------------------------------------

TicketStep(t) ==
  \/ \E recipients \in SUBSET Recipients :
       CreateDraft(t, recipients) \/ CreateTicket(t, recipients) \/ EditDraft(t, recipients)
  \/ GrowsStale(t)

Reads(q) ==
  \/ \E t \in Tickets : \/ SubmitReads(q, t) \/ DeleteDraftReads(q, t)
                        \/ CloseReads(q, t) \/ ReopenReads(q, t) \/ DeleteReads(q, t)
                        \/ \E who \in Recipients : AddReads(q, t, who)
  \/ \E r \in Rows : RemoveReads(q, r) \/ DoneReads(q, r)
  \/ \E p \in Pros : RevokeTagReads(q, p)

Writes(q) ==
  \/ SubmitWrites(q) \/ DeleteDraftWrites(q) \/ CloseWrites(q) \/ ReopenWrites(q)
  \/ DeleteWrites(q) \/ AddWrites(q) \/ RemoveWrites(q) \/ DoneWrites(q)
  \/ RevokeTagWrites(q) \/ RevokeAccess(q) \/ Abandon(q)
  \/ \E p \in Pros : CountAccess(q, p)

Next ==
  \/ \E t \in Tickets : TicketStep(t)
  \/ \E q \in Requests : Reads(q) \/ Writes(q)
  \/ \E r \in Rows : Resend(r) \/ MarkViewed(r) \/ Notify(r)
  \/ \E p \in Pros : GrantTag(p) \/ IssueLink(p)
  \/ \E keep, drop \in Pros : MergeProfessionals(keep, drop)
  \/ Escalate

Spec == Init /\ [][Next]_vars

-----------------------------------------------------------------------------
(* Properties *)

\* Every variable has its type, a request knows what its kind of request needs,
\* and only contractors that exist are let in by a link.
TypeOK ==
  /\ state \in [Tickets -> States]
  /\ chosen \in [Tickets -> SUBSET Recipients]
  /\ escalated \in [Tickets -> BOOLEAN] /\ stale \in [Tickets -> BOOLEAN]
  /\ row \in [Rows -> [ticket : Tickets \cup {None}, who : Recipients \cup {None},
                       status : RowStates]]
  /\ known \subseteq Pros /\ token \subseteq Pros /\ granted \subseteq Pros
  /\ outbox \subseteq Rows /\ settled \subseteq Rows
  /\ request \in [Requests -> [pc : RequestPc, kind : Kinds, ticket : Tickets \cup {None},
                               row : Rows \cup {None}, who : Recipients \cup {None},
                               people : SUBSET Recipients]]
  /\ overlapped \in BOOLEAN

\* A draft was sent to nobody and a deleted ticket leaves nothing behind: a row
\* of the Assignment table belongs to a ticket that is open or closed, however
\* submitDraft, addAssignments, deleteDraft and deleteTicket overlap.
RowsOnlyOnDispatched == \A r \in Rows : Existing(r) => state[row[r].ticket] \in Dispatched

\* A ticket that was sent out vanishes only by deleteTicket: never by a
\* deleteDraft that waited for the lock while submitDraft held it.
DispatchedIsKept ==
  [][\A t \in Tickets : state[t] \in Dispatched =>
       \/ state'[t] \in Dispatched
       \/ \E q \in Requests : Writing(q, "delete") /\ request[q].ticket = t]_vars

\* Escalation is for tickets that are open and did not move: whatever moves a
\* ticket, and a close that was decided before it was escalated, clears it.
EscalatedIsStale == \A t \in Tickets : escalated[t] => state[t] = "open" /\ stale[t]

\* "A ticket nobody was told of" does not exist (the comment of
\* applyNewAssignments): the notifier dealt with every row that is SENT, or a
\* job is there to do it; also after a row was brought back or reopened.
Announced == \A r \in Rows : row[r].status = "SENT" => r \in outbox \cup settled

\* A recipient has one row on a ticket, REMOVED or not, through removals,
\* additions, reopenings and merges. (Two additions that overlap break it.)
UniqueRow ==
  ~overlapped => \A a, b \in Rows :
    (Existing(a) /\ Existing(b) /\ row[a].ticket = row[b].ticket
       /\ row[a].who = row[b].who) => a = b

\* A report of DONE is lost only when its ticket is reopened, when its
\* recipient is removed, or when its row is deleted. (Requests that overlap
\* break it.)
DoneIsKept ==
  [][~overlapped' => \A r \in Rows : row[r].status = "DONE" =>
       \/ row'[r].status \in {"DONE", "REMOVED", "gone"}
       \/ state[row[r].ticket] = "closed" /\ state'[row[r].ticket] = "open"]_vars

\* Nobody chosen for a draft until the moment it is sent is left out: a draft
\* submitted as it is goes to all of them, those added while submitDraft waited
\* for the lock too (the comment in submitDraft).
ChosenAreSent ==
  [][\A t \in Tickets, q \in Requests :
       (/\ state[t] = "draft" /\ state'[t] = "open"
        /\ Writing(q, "submit") /\ request[q].ticket = t /\ request'[q] = Idle)
         => \A w \in chosen[t] : \E r \in Rows : row'[r] = [ticket |-> t, who |-> w,
                                                             status |-> "SENT"]]_vars

\* A contractor with an active row can get in (the comment of
\* ensureAccessToken). It does not hold of requests that overlap. Not run.
ActiveHasLink ==
  \A r \in Rows : row[r].status \in Active /\ row[r].who \in Pros => row[r].who \in token

\* The same where no two requests overlapped and no contractors were merged:
\* the review of portal access never locks out somebody who has work, not even
\* on closed tickets.
ReviewKeepsLinks == (~overlapped /\ known = Pros) => ActiveHasLink

\* Merging two contractors leaves no ticket without its recipients: an
\* assignment is dropped only if the one who is kept has it already (the
\* comment of mergeProfessionals). It does not hold: a removed row of the one
\* who is kept counts as his having it. Not run.
MergeKeepsRecipients ==
  [][known' # known => \A t \in Tickets :
       ActiveOf(t) # {} =>
         \E r \in Rows : row'[r].status \in Active /\ row'[r].ticket = t]_vars

\* Removing is final until somebody adds the recipient again: a removed
\* recipient loses the right to write at once (the comment of removeAssignment).
\* It does not hold of a report that began before the removal. Not run.
RemovedStaysRemoved ==
  [][\A r \in Rows : (row[r].status = "REMOVED" /\ row'[r].status \in Active) =>
       \E q \in Requests : Writing(q, "add") /\ request[q].row = r]_vars
=============================================================================
