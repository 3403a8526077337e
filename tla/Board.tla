-------------------------------- MODULE Board --------------------------------
(***************************************************************************)
(* Who sees and does what with a ticket (src/lib/permissions.ts), on whose *)
(* desk it lies (src/lib/ticket-status.ts), and the lists that a person    *)
(* finds it in: the board (src/lib/services/board.ts), the portal of a     *)
(* contractor (src/lib/services/portal.ts) and the list of a tag           *)
(* (src/lib/services/tags.ts).                                             *)
(*                                                                         *)
(* One ticket.  The other tickets matter in one place, the archive of the  *)
(* board, which has a limit: how many of them come before this one there   *)
(* is a parameter of what the board shows.  An operation is one step; the  *)
(* races of its read with its write are TicketLifecycle's.  A message has  *)
(* two, since its write uses the handler that its read saw, and since its  *)
(* writer may have been removed in between.                                *)
(***************************************************************************)
EXTENDS Naturals, FiniteSets

CONSTANTS
  Admins, Owners, Managers,   \* users by role; Managers are the site managers
  Professionals,
  Sites,
  Recipients,                 \* who may be assigned to the ticket
  MaxWriters,                 \* bound on the messages being written at once
  ArchiveLimit,               \* ARCHIVE_LIMIT, the closed tickets a board loads
  MaxOthers,                  \* bound on the other closed tickets
  None

Users  == Admins \cup Owners \cup Managers
People == Users \cup Professionals

ASSUME BoardAssumption ==
  /\ Admins \cap Owners = {} /\ Admins \cap Managers = {} /\ Owners \cap Managers = {}
  /\ Users \cap Professionals = {}
  /\ Recipients \subseteq People
  /\ None \notin People \cup Sites
  /\ MaxWriters \in Nat
  /\ ArchiveLimit \in Nat \ {0} /\ MaxOthers \in Nat

VARIABLES
  ticket,      \* state, site, creator, escalated, handler, last author
  assigned,    \* status of each recipient's row, "none" without a row
  siteOf,      \* User.siteId of the site managers
  writing,     \* for each person, what the message being written read as handler
  unanswered   \* recipients who wrote since the staff last did

vars == <<ticket, assigned, siteOf, writing, unanswered>>

-----------------------------------------------------------------------------
(* Values *)

TicketStates == {"none", "draft", "open", "closed", "deleted"}
RowStatus    == {"none", "SENT", "VIEWED", "DONE", "REMOVED"}
NotWriting   == "not writing"

NoTicket == [state |-> "none", site |-> None, creator |-> None, escalated |-> FALSE,
             handler |-> None, last |-> None]

Live == ticket.state \in {"draft", "open", "closed"}

-----------------------------------------------------------------------------
(* Permissions *)

Active(r) == r \in Recipients /\ assigned[r] \in {"SENT", "VIEWED", "DONE"}

\* The comparison of a site manager's site, which is never that of no site.
AtHisSite(u, site) == u \in Managers /\ siteOf[u] # None /\ siteOf[u] = site

\* canViewTicket: a site manager has two hats, his site and his assignments.
CanView(p) ==
  CASE p \in Admins \cup Owners -> TRUE
    [] p \in Managers           -> AtHisSite(p, ticket.site) \/ Active(p)
    [] OTHER                    -> Active(p)

CanCreateIn(u, site) == u \in Managers => siteOf[u] = site

\* canEditAssignments and canEditTicketFields.
CanEdit(u) ==
  \/ u \in Admins
  \/ AtHisSite(u, ticket.site)
  \/ u \in Owners /\ ticket.creator = u

\* canCloseTicket and canReopenTicket.
CanClose(u) == u \in Admins \/ ticket.creator = u

CanComment(p) == CanView(p) /\ (p \in Professionals => ticket.state # "closed")

-----------------------------------------------------------------------------
(* Status and section *)

ActiveStatuses == {assigned[r] : r \in {q \in Recipients : Active(q)}}

\* deriveTicketStatus: the first rule that holds decides.
DeriveTicketStatus ==
  CASE ticket.state = "closed"                            -> "CLOSED"
    [] ticket.state = "draft"                             -> "DRAFT"
    [] ticket.state = "open" /\ ActiveStatuses = {"DONE"} -> "AWAITING_OPENER_APPROVAL"
    [] ticket.state = "open" /\ ActiveStatuses # {"DONE"} /\ "DONE" \in ActiveStatuses -> "PARTIAL"
    [] ticket.state = "open" /\ "DONE" \notin ActiveStatuses /\ "VIEWED" \in ActiveStatuses
                                                          -> "VIEWED"
    [] OTHER                                              -> "NEW"

\* Fault: a recipient who reported "done" is taken to have nothing left to ask.
AwaitingUnlessDone == Active(ticket.last) /\ assigned[ticket.last] # "DONE"

\* deriveAwaitingReply: the last message is an active recipient's.
DeriveAwaitingReply == Active(ticket.last)

DeriveBoardSection ==
  CASE DeriveTicketStatus = "CLOSED" -> "ARCHIVE"
    [] DeriveTicketStatus \in {"DRAFT", "AWAITING_OPENER_APPROVAL"} -> "ACTION_REQUIRED"
    [] OTHER -> IF ticket.escalated \/ DeriveAwaitingReply
                THEN "ACTION_REQUIRED" ELSE "WITH_RECIPIENTS"

-----------------------------------------------------------------------------
(* Lists *)

\* Fault: the board of a site manager is that of his site, as it was before he
\* could be assigned to tickets of other sites.
InScopeBySite(u) == u \in Managers => ticket.site = siteOf[u]

\* The condition of getBoard's query on who sees the ticket.
InScope(u) ==
  u \in Managers => ticket.site = siteOf[u] \/ Active(u)

\* A site manager without a site is shown an empty board.
HasBoard(u) == u \in Managers => siteOf[u] # None

\* The other closed tickets in the scope of a person: those that moved after this
\* one come before it in the archive, which is ordered by lastActivityAt.
Archives == [before : 0..MaxOthers, after : 0..MaxOthers]
OwnPlace(u) == IF ticket.state = "closed" /\ InScope(u) THEN 1 ELSE 0

\* The query of the archive takes one ticket more than are shown, to know
\* whether there are more.
Taken(n) == IF n > ArchiveLimit + 1 THEN ArchiveLimit + 1 ELSE n
ArchiveTruncated(u, archive) ==
  HasBoard(u) /\ Taken(archive.before + OwnPlace(u) + archive.after) > ArchiveLimit

\* getBoard without filters and search: every open ticket in the scope, and of the
\* closed ones the first ArchiveLimit.
OnBoard(u, archive) ==
  /\ Live /\ HasBoard(u) /\ InScope(u)
  /\ ticket.state = "closed" => archive.before < ArchiveLimit

\* getPortalBoard.
InPortal(p) == Live /\ ticket.state # "draft" /\ Active(p)

\* ticketInScope, by which getTagDetail lists the tickets of a tag.
InTagList(u) == Live /\ (u \in Managers => AtHisSite(u, ticket.site))

-----------------------------------------------------------------------------

Init ==
  /\ ticket = NoTicket
  /\ assigned = [r \in Recipients |-> "none"]
  /\ siteOf \in [Managers -> Sites]
  /\ writing = [p \in People |-> NotWriting]
  /\ unanswered = {}

\* applyNewAssignments: each of R has a fresh row, or his old row again.
Assigns(R) == assigned' = [r \in Recipients |-> IF r \in R THEN "SENT" ELSE assigned[r]]

\* createTicket, after canCreateTicketInSite.
CreateTicket(u, site, state, R) ==
  /\ ticket.state = "none" /\ CanCreateIn(u, site)
  /\ IF state = "draft" THEN R = {} ELSE R # {}
  /\ ticket' = [NoTicket EXCEPT !.state = state, !.site = site, !.creator = u]
  /\ Assigns(R)
  /\ UNCHANGED <<siteOf, writing, unanswered>>

\* planDraft and the transaction that writes it: the site of a site manager is
\* his own, if he has one; the files of the message make a message of the sender.
CreateChannelDraft(u, site, files) ==
  /\ ticket.state = "none"
  /\ u \in Managers => site = siteOf[u]
  /\ ticket' = [NoTicket EXCEPT !.state = "draft", !.site = site, !.creator = u,
                                !.last = IF files THEN u ELSE None]
  /\ UNCHANGED <<assigned, siteOf, writing, unanswered>>

\* updateDraftFields and a merged reply: the site of a draft changes.
MoveDraft(u, site) ==
  /\ ticket.state = "draft" /\ CanEdit(u)
  /\ ticket.site # site /\ CanCreateIn(u, site)
  /\ ticket' = [ticket EXCEPT !.site = site, !.escalated = FALSE]
  /\ UNCHANGED <<assigned, siteOf, writing, unanswered>>

\* A reply merged into a channel draft with its files, a message of its sender.
MergeFiles(u) ==
  /\ ticket.state = "draft" /\ CanEdit(u)
  /\ ticket' = [ticket EXCEPT !.last = u]
  /\ UNCHANGED <<assigned, siteOf, writing, unanswered>>

\* submitDraft: a site and recipients are required.
SubmitDraft(u, R) ==
  /\ ticket.state = "draft" /\ CanEdit(u) /\ ticket.site # None /\ R # {}
  /\ ticket' = [ticket EXCEPT !.state = "open", !.escalated = FALSE]
  /\ Assigns(R)
  /\ UNCHANGED <<siteOf, writing, unanswered>>

\* addAssignments, also to a closed ticket.
AddAssignments(u, R) ==
  /\ ticket.state \in {"open", "closed"} /\ CanEdit(u)
  /\ R # {} /\ \A r \in R : ~Active(r)
  /\ ticket' = [ticket EXCEPT !.escalated = FALSE]
  /\ Assigns(R)
  /\ UNCHANGED <<siteOf, writing, unanswered>>

RemoveAssignment(u, r) ==
  /\ ticket.state \in {"open", "closed"} /\ CanEdit(u) /\ Active(r)
  /\ assigned' = [assigned EXCEPT ![r] = "REMOVED"]
  /\ ticket' = [ticket EXCEPT !.escalated = FALSE]
  /\ UNCHANGED <<siteOf, writing, unanswered>>

\* markViewed: the portal's page of a ticket was opened, and that is no movement.
MarkViewed(p) ==
  /\ InPortal(p) /\ assigned[p] = "SENT"
  /\ assigned' = [assigned EXCEPT ![p] = "VIEWED"]
  /\ UNCHANGED <<ticket, siteOf, writing, unanswered>>

\* setAssignmentStatus, which only the portal calls.
MarkDone(p) ==
  /\ ticket.state = "open" /\ Active(p)
  /\ assigned' = [assigned EXCEPT ![p] = "DONE"]
  /\ ticket' = [ticket EXCEPT !.escalated = FALSE]
  /\ UNCHANGED <<siteOf, writing, unanswered>>

CloseTicket(u) ==
  /\ ticket.state = "open" /\ CanClose(u)
  /\ ticket' = [ticket EXCEPT !.state = "closed", !.escalated = FALSE]
  /\ UNCHANGED <<assigned, siteOf, writing, unanswered>>

\* reopenTicket: whoever is active has his work before him again.
ReopenTicket(u) ==
  /\ ticket.state = "closed" /\ CanClose(u)
  /\ ticket' = [ticket EXCEPT !.state = "open", !.escalated = FALSE]
  /\ assigned' = [r \in Recipients |-> IF Active(r) THEN "SENT" ELSE assigned[r]]
  /\ UNCHANGED <<siteOf, writing, unanswered>>

\* deleteTicket and deleteDraft: the rows go with the ticket.
DeleteTicket(u) ==
  /\ Live
  /\ u \in Admins \/ (ticket.state = "draft" /\ CanEdit(u))
  /\ ticket' = [NoTicket EXCEPT !.state = "deleted"]
  /\ assigned' = [r \in Recipients |-> "none"]
  /\ unanswered' = {}
  /\ UNCHANGED <<siteOf, writing>>

\* setHandler, after canSetHandler.
SetHandler(u) ==
  /\ Live /\ CanView(u)
  /\ ticket' = [ticket EXCEPT !.handler = u]
  /\ UNCHANGED <<assigned, siteOf, writing, unanswered>>

\* addMessage up to its transaction: it may be written, and by whom the ticket
\* is handled.
BeginMessage(p) ==
  /\ Live /\ CanComment(p) /\ writing[p] = NotWriting
  /\ Cardinality({q \in People : writing[q] # NotWriting}) < MaxWriters
  /\ writing' = [writing EXCEPT ![p] = ticket.handler]
  /\ UNCHANGED <<ticket, assigned, siteOf, unanswered>>

\* setHandlerToo: what the read saw decides.
TakesOver(p) == p \in Users /\ writing[p] = None

\* Its transaction; it fails when the ticket is gone.
WriteMessage(p) ==
  /\ writing[p] # NotWriting
  /\ writing' = [writing EXCEPT ![p] = NotWriting]
  /\ IF Live
     THEN /\ ticket' = [ticket EXCEPT !.last = p, !.escalated = FALSE,
                                      !.handler = IF TakesOver(p) THEN p ELSE @]
          /\ unanswered' = IF Active(p) THEN unanswered \cup {p}
                           ELSE IF p \in Users THEN {} ELSE unanswered
     ELSE UNCHANGED <<ticket, unanswered>>
  /\ UNCHANGED <<assigned, siteOf>>

\* runDailyEscalation, for a ticket without movement; the time is TicketLifecycle's.
Escalate ==
  /\ ticket.state = "open" /\ ~ticket.escalated
  /\ ticket' = [ticket EXCEPT !.escalated = TRUE]
  /\ UNCHANGED <<assigned, siteOf, writing, unanswered>>

\* setSiteManagers: M are the managers of the site, and who was one has none.
SetSiteManagers(site, M) ==
  /\ siteOf' = [u \in Managers |-> IF u \in M THEN site
                                   ELSE IF siteOf[u] = site THEN None ELSE siteOf[u]]
  /\ siteOf' # siteOf
  /\ UNCHANGED <<ticket, assigned, writing, unanswered>>

UserStep(u) ==
  \/ \E site \in Sites, R \in SUBSET Recipients :
       \/ \E state \in {"draft", "open"} : CreateTicket(u, site, state, R)
  \/ \E site \in Sites \cup {None}, files \in BOOLEAN : CreateChannelDraft(u, site, files)
  \/ \E site \in Sites : MoveDraft(u, site)
  \/ MergeFiles(u)
  \/ \E R \in SUBSET Recipients : SubmitDraft(u, R) \/ AddAssignments(u, R)
  \/ \E r \in Recipients : RemoveAssignment(u, r)
  \/ CloseTicket(u) \/ ReopenTicket(u) \/ DeleteTicket(u) \/ SetHandler(u)

Next ==
  \/ \E u \in Users : UserStep(u)
  \/ \E p \in Professionals : MarkViewed(p) \/ MarkDone(p)
  \/ \E p \in People : BeginMessage(p) \/ WriteMessage(p)
  \/ \E site \in Sites, M \in SUBSET Managers : SetSiteManagers(site, M)
  \/ Escalate

Spec == Init /\ [][Next]_vars

-----------------------------------------------------------------------------
(* Properties *)

\* The type of the state.
TypeOK ==
  /\ ticket \in [state : TicketStates, site : Sites \cup {None}, creator : Users \cup {None},
                 escalated : BOOLEAN, handler : Users \cup {None}, last : People \cup {None}]
  /\ assigned \in [Recipients -> RowStatus]
  /\ siteOf \in [Managers -> Sites \cup {None}]
  /\ writing \in [People -> Users \cup {None, NotWriting}]
  /\ unanswered \subseteq Recipients

\* The lists show a person nothing that canViewTicket forbids, and hide nothing
\* in silence (board.ts:189-196): a contractor finds whatever he may see in his
\* portal; a user finds it on his board, or it is closed, has the limit of the
\* archive before it, and the board says that its archive is cut off.  A site
\* manager without a site, whose board stays empty, is the exception.
BoardMirrors ==
  Live =>
    /\ \A p \in Professionals : InPortal(p) <=> CanView(p)
    /\ \A u \in Users : InTagList(u) => CanView(u)
    /\ \A u \in Users, archive \in Archives :
         /\ OnBoard(u, archive) => CanView(u)
         /\ CanView(u) /\ HasBoard(u) =>
              \/ OnBoard(u, archive)
              \/ /\ ticket.state = "closed" /\ archive.before >= ArchiveLimit
                 /\ ArchiveTruncated(u, archive)

\* A recipient's question keeps an open ticket before the staff until one of
\* them writes, whatever else happens to the ticket (ticket-status.ts:52-59).
\* A recipient who wrote after him and was removed since takes it out of sight.
QuestionInSight ==
  /\ ticket.state = "open"
  /\ \E r \in unanswered : Active(r)
  /\ ~(ticket.last \in Recipients /\ assigned[ticket.last] = "REMOVED")
  => DeriveBoardSection = "ACTION_REQUIRED"

\* A message takes a ticket over from nobody (tickets.ts:634-640).  This does not
\* hold, and no run states it: two messages that overlap both read that there is
\* no handler, and the one that is written last takes the ticket from the other.
HandlerNotStolen ==
  [][ \A p \in People : WriteMessage(p) /\ Live /\ ticket.handler # None
        => ticket'.handler = ticket.handler ]_vars
=============================================================================
