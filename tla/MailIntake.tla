----------------------------- MODULE MailIntake -----------------------------
(***************************************************************************)
(* Tickets by e-mail: the poll that writes one row per message             *)
(* (email-poll.ts), the intake that decides what becomes of it             *)
(* (email-intake.ts) and the answer to its sender (email-reply.ts).        *)
(*                                                                         *)
(* The jobs obey JobLifecycle, which JobQueue implements. The mail lane is *)
(* one loop, so two handlers overlap only when the first outlived its time *)
(* limit: such a handler goes on here until it ends by itself.             *)
(***************************************************************************)
EXTENDS Naturals, FiniteSets

CONSTANTS
  Mails,           \* messages of the mailbox
  None,            \* no message, no job
  ConversationOf,  \* the mailbox's own thread (gmailThreadId) of each message
  Reportable,      \* messages whose subject passes isIntakeSubject
  Earlier,         \* messages decided before the behaviour begins, if at all
  Polls,           \* rounds of runEmailPoll that may overlap
  MaxAttempts,     \* MAX_ATTEMPTS of the job queue
  MaxDefer,        \* MAX_DEFER_ATTEMPTS
  MaxIntakes,      \* bound on the intake jobs of one message
  MaxCrashes,      \* bound on process crashes
  MaxTimeouts      \* bound on handlers that outlive their time limit

ASSUME MailAssumption ==
  /\ Reportable \subseteq Mails /\ Earlier \subseteq Mails
  /\ MaxAttempts \in Nat \ {0} /\ MaxDefer \in Nat \ {0}
  /\ MaxIntakes \in Nat \ {0}
  /\ MaxCrashes \in Nat /\ MaxTimeouts \in Nat

VARIABLES
  jobStatus, jobAttempts,  \* the Job rows of this lane
  due,       \* jobs whose first due time has come
  row,       \* the inbound MailboxMessage of each message
  out,       \* the outbound MailboxMessage that answers it
  ticket,    \* the ticket opened from each message
  sender,    \* what the sender of each message may do
  poll,      \* the message each round of the poll is about to record
  handlers,  \* handlers in progress, also those nobody waits for any more
  copies,    \* answers that reached the sender of each message
  entered,   \* how often the content of each message entered a draft
  blind,     \* messages whose answer was sent after the search had failed
  timedOut,  \* jobs of which a handler outlived its limit
  crashes

jobs   == <<jobStatus, jobAttempts, due>>
mail   == <<row, out>>
world  == <<ticket, sender>>
traces == <<copies, entered, blind, timedOut, crashes>>
vars   == <<jobs, mail, world, poll, handlers, traces>>

-----------------------------------------------------------------------------
(* Values *)

IntakeJobs == {"intake"} \X Mails \X (1 .. MaxIntakes)
ReplyJobs  == {"reply"} \X Mails \X {1}
Jobs       == IntakeJobs \cup ReplyJobs
About(j)   == j[2]
ReplyTo(m) == <<"reply", m, 1>>

Queue == INSTANCE JobLifecycle WITH status <- jobStatus, attempts <- jobAttempts

\* MailOutcome, with the outcomes that no rule tells apart folded together.
Drafted  == {"created", "applied"}           \* answered by the state of the draft
Answered == Drafted \cup {"noSite", "notPermitted", "afterDispatch", "afterDeletion"}
Outcomes == Answered \cup {"ignored"}

\* None stands for no message, no job and no outcome.
ASSUME NoneAssumption == None \notin Mails \cup Jobs \cup Outcomes

RowStates == {"absent", "PENDING", "DONE", "FAILED"}
OutStates == {"absent", "PENDING", "SENT", "SKIPPED", "FAILED"}
Ended     == {"returned", "threw"}
IntakePc  == {"look", "judge", "write"}
ReplyPc   == {"look", "skip", "count", "search", "send", "stamp", "mark"}

RowType == [state : RowStates, outcome : Outcomes \cup {None}, deferrals : Nat,
            wait : IntakeJobs \cup {None}, thread : Mails \cup {None}]
OutType == [state : OutStates, tried : BOOLEAN, thread : Mails \cup {None}]
HandlerOf(js, pcs) ==
  [job : js, attempt : 1 .. MaxAttempts, pc : pcs \cup Ended, seen : Nat,
   plan : Outcomes \cup {"defer", None}, thread : Mails \cup {None}]
Handler == HandlerOf(IntakeJobs, IntakePc) \cup HandlerOf(ReplyJobs, ReplyPc)

\* Some of the earlier messages opened a draft and were answered.
Init ==
  \E opened \in SUBSET Earlier :
    /\ row = [m \in Mails |->
                IF m \in opened
                THEN [state |-> "DONE", outcome |-> "created", deferrals |-> 0,
                      wait |-> None, thread |-> m]
                ELSE [state |-> "absent", outcome |-> None, deferrals |-> 0,
                      wait |-> None, thread |-> None]]
    /\ out = [m \in Mails |->
                IF m \in opened THEN [state |-> "SENT", tried |-> TRUE, thread |-> m]
                ELSE [state |-> "absent", tried |-> FALSE, thread |-> None]]
    /\ ticket = [m \in Mails |-> IF m \in opened THEN "draft" ELSE "none"]
    /\ copies = [m \in Mails |-> IF m \in opened THEN 1 ELSE 0]
    /\ entered = copies
    /\ Queue!Init /\ due = {}
    /\ sender = [m \in Mails |-> "editor"]
    /\ poll = [p \in Polls |-> None] /\ handlers = {}
    /\ blind = {} /\ timedOut = {} /\ crashes = 0

-----------------------------------------------------------------------------
(* Jobs and handlers *)

\* The next unused identifier of an intake job of m; none when they ran out.
FreeIntakes(m) ==
  LET free == {j \in IntakeJobs : About(j) = m /\ jobStatus[j] = "NONE"} IN
    {j \in free : \A i \in free : j[3] <= i[3]}

\* Fault: the job is not inserted with the change it belongs to.
NoIntakeJob(j) == UNCHANGED <<jobStatus, jobAttempts>>

\* enqueue, in the transaction of its caller.
IntakeJob(j) == Queue!Create(j)

Running(h) == h.pc \notin Ended
\* The lane still waits for this handler.
Awaited(h) == jobStatus[h.job] = "RUNNING" /\ jobAttempts[h.job] = h.attempt

At(h, pc)    == h.pc = pc
IntakeAt(h, pc) == h.job \in IntakeJobs /\ At(h, pc)
ReplyAt(h, pc)  == h.job \in ReplyJobs /\ At(h, pc)

Becomes(h, g) == handlers' = (handlers \ {h}) \cup {g}
Goes(h, pc)   == Becomes(h, [h EXCEPT !.pc = pc])

\* A handler ends; the result of one that nobody waits for is dropped.
Ends(h, pc) == IF Awaited(h) THEN Goes(h, pc) ELSE handlers' = handlers \ {h}

\* An exception leaves the handler. The wrapper of the last attempt of an
\* answer marks the outbound row first.
Raises(h) == IF h.job \in ReplyJobs /\ h.attempt >= MaxAttempts /\ h.pc # "mark"
             THEN Goes(h, "mark") ELSE Ends(h, "threw")

\* The lane takes its next job.
Starts(j) ==
  /\ j \in due
  /\ \A i \in Jobs : jobStatus[i] # "RUNNING"
  /\ Queue!Start(j)
  /\ handlers' = handlers \cup {[job |-> j, attempt |-> jobAttempts[j] + 1, pc |-> "look",
                                 seen |-> 0, plan |-> None, thread |-> None]}
  /\ UNCHANGED <<due, mail, world, poll, traces>>

\* The handler ended in time: completeJob or failJob.
Settles(h) ==
  /\ ~Running(h)
  /\ IF h.pc = "returned" THEN Queue!Finish(h.job) ELSE Queue!PutBackOrGiveUp({h.job})
  /\ handlers' = handlers \ {h}
  /\ UNCHANGED <<due, mail, world, poll, traces>>

\* The time limit fires: failJob, while the handler goes on.
TimesOut(h) ==
  /\ Running(h) /\ Awaited(h)
  /\ Cardinality(timedOut) < MaxTimeouts
  /\ Queue!PutBackOrGiveUp({h.job})
  /\ timedOut' = timedOut \cup {h.job}
  /\ UNCHANGED <<due, mail, world, poll, handlers, copies, entered, blind, crashes>>

\* The process dies and starts again: reclaimOrphanedJobs.
Crash ==
  LET orphans == {j \in Jobs : jobStatus[j] = "RUNNING"} IN
  /\ crashes < MaxCrashes
  /\ orphans # {}
  /\ Queue!PutBackOrGiveUp(orphans)
  /\ handlers' = {} /\ poll' = [p \in Polls |-> None]
  /\ crashes' = crashes + 1
  /\ UNCHANGED <<due, mail, world, copies, entered, blind, timedOut>>

\* The due time of a deferred message comes.
FallsDue(j) ==
  /\ jobStatus[j] = "PENDING" /\ j \notin due
  /\ due' = due \cup {j}
  /\ UNCHANGED <<jobStatus, jobAttempts, mail, world, poll, handlers, traces>>

-----------------------------------------------------------------------------
(* The poll: recordDiscovered reads which messages are known ... *)

Lists(p, m) ==
  /\ poll[p] = None
  /\ row[m].state = "absent" /\ m \notin Earlier
  /\ poll' = [poll EXCEPT ![p] = m]
  /\ UNCHANGED <<jobs, mail, world, handlers, traces>>

\* ... and then writes row and job together, unless another round was first:
\* gmailMessageId is unique.
Records(p) ==
  LET m == poll[p] IN
  /\ m # None
  /\ poll' = [poll EXCEPT ![p] = None]
  /\ \/ /\ row[m].state = "absent"
        /\ row' = [row EXCEPT ![m].state = "PENDING"]
        /\ \E j \in FreeIntakes(m) :
             IntakeJob(j) /\ due' = due \cup {j}
     \/ row[m].state # "absent" /\ UNCHANGED <<jobs, row>>
  /\ UNCHANGED <<out, world, handlers, traces>>

-----------------------------------------------------------------------------
(* The intake of one message: handleEmailIntake *)

\* nextAttemptAt is still ahead.
Waiting(m) == row[m].wait \notin due \cup {None}

LooksAtRow(h) ==
  LET m == About(h.job) IN
  /\ IntakeAt(h, "look")
  /\ IF row[m].state # "PENDING" \/ Waiting(m) THEN Ends(h, "returned")
     ELSE Becomes(h, [h EXCEPT !.pc = "judge", !.seen = row[m].deferrals])
  /\ UNCHANGED <<jobs, mail, world, poll, traces>>

\* findKnownThread: a draft of the same conversation. A thread is named after
\* the message its draft was opened from.
KnownThreads(m) ==
  {row[n].thread : n \in {n \in Mails : ConversationOf[n] = ConversationOf[m]}} \ {None}

\* decideReplyVerdict, in its order; "applied" stands for "merge".
Verdict(m, t) ==
  IF ticket[t] = "deleted" THEN "afterDeletion"
  ELSE IF sender[m] = "reader" THEN "notPermitted"
  ELSE IF ticket[t] = "sent" THEN "afterDispatch"
  ELSE "applied"

\* readEnvelope, decide and what runs before the transaction that writes: the
\* mailbox or the extraction may ask for a delay, the message may be of no
\* concern or gone.
Plans(m) ==
  {<<"ignored", None>>, <<"defer", None>>} \cup
  CASE sender[m] = "stranger"   -> {}
    [] sender[m] # "stranger" /\ KnownThreads(m) # {} ->
         {<<Verdict(m, t), t>> : t \in KnownThreads(m)}
    [] OTHER -> {<<o, None>> : o \in
         IF m \notin Reportable THEN {}
         ELSE IF sender[m] = "reader" THEN {"created", "noSite"} ELSE {"created"}}

Judges(h) ==
  /\ IntakeAt(h, "judge")
  /\ \E p \in Plans(About(h.job)) :
       Becomes(h, [h EXCEPT !.pc = "write", !.plan = p[1], !.thread = p[2]])
  /\ UNCHANGED <<jobs, mail, world, poll, traces>>

Writes(h, plans) == IntakeAt(h, "write") /\ h.plan \in plans

\* defer: whatever the row has become meanwhile, it waits for the new job.
Defers(h) ==
  LET m == About(h.job) IN
  /\ Writes(h, {"defer"}) /\ h.seen + 1 < MaxDefer
  /\ \E j \in FreeIntakes(m) :
       /\ IntakeJob(j)
       /\ row' = [row EXCEPT ![m].state = "PENDING", ![m].deferrals = @ + 1, ![m].wait = j]
  /\ Ends(h, "returned")
  /\ UNCHANGED <<due, out, world, poll, traces>>

\* exhaust: given up without a decision.
Exhausts(h) ==
  /\ Writes(h, {"defer"}) /\ h.seen + 1 >= MaxDefer
  /\ row' = [row EXCEPT ![About(h.job)].state = "FAILED",
                        ![About(h.job)].deferrals = @ + 1, ![About(h.job)].wait = None]
  /\ Ends(h, "returned")
  /\ UNCHANGED <<jobs, out, world, poll, traces>>

\* The row of a decision; its thread is kept where none is given.
Decided(m, outcome, t) ==
  row' = [row EXCEPT ![m].state = "DONE", ![m].outcome = outcome, ![m].wait = None,
                     ![m].thread = IF t = None THEN @ ELSE t]

Ignores(h) ==
  /\ Writes(h, {"ignored"})
  /\ Decided(About(h.job), "ignored", None)
  /\ Ends(h, "returned")
  /\ UNCHANGED <<jobs, out, world, poll, traces>>

\* Fault: the answer of an earlier decision is taken for this one's.
ScheduleReplyAnyway(m, t) ==
  LET j == ReplyTo(m) IN
  \/ out[m].state # "absent" /\ UNCHANGED <<jobs, out>>
  \/ /\ Queue!Create(j) /\ due' = due \cup {j}
     /\ out' = [out EXCEPT ![m] = [state |-> "PENDING", tried |-> FALSE, thread |-> t]]

\* scheduleReply: the outbound row and its job. repliesToId is unique, so a
\* second answer to a message makes the whole transaction fail.
ScheduleReply(m, t) ==
  /\ out[m].state = "absent"
  /\ Queue!Create(ReplyTo(m)) /\ due' = due \cup {ReplyTo(m)}
  /\ out' = [out EXCEPT ![m] = [state |-> "PENDING", tried |-> FALSE, thread |-> t]]

Enters(m) == entered' = [entered EXCEPT ![m] = @ + 1]

\* createEmailDraft: the draft, its thread, the decision and the answer.
Creates(h) ==
  LET m == About(h.job) IN
  /\ Writes(h, {"created"})
  /\ ScheduleReply(m, m)
  /\ Decided(m, "created", m) /\ Enters(m)
  /\ ticket' = [ticket EXCEPT ![m] = "draft"]
  /\ Ends(h, "returned")
  /\ UNCHANGED <<sender, poll, copies, blind, timedOut, crashes>>

\* decideWithReply: a decision without a draft.
Answers(h) ==
  LET m == About(h.job) IN
  /\ Writes(h, Answered \ Drafted)
  /\ ScheduleReply(m, h.thread)
  /\ Decided(m, h.plan, None)
  /\ Ends(h, "returned")
  /\ UNCHANGED <<world, poll, traces>>

\* Fault: what was read before the download and the extraction decides.
ProbedVerdict(m, t) == "applied"

\* The second look, under the lock of the ticket: refetchSender and
\* decideReplyVerdict.
LockedVerdict(m, t) == IF sender[m] = "stranger" THEN "ignored" ELSE Verdict(m, t)

\* The transaction of applyEmailReply.
Applies(h) ==
  LET m == About(h.job)
      v == LockedVerdict(m, h.thread) IN
  /\ Writes(h, {"applied"})
  /\ \/ v = "ignored" /\ Decided(m, v, h.thread) /\ UNCHANGED <<jobs, out, entered>>
     \/ v \in Answered \ Drafted /\ Decided(m, v, None) /\ ScheduleReply(m, h.thread)
        /\ UNCHANGED entered
     \/ v = "applied" /\ Decided(m, v, h.thread) /\ ScheduleReply(m, h.thread)
        /\ Enters(m)
  /\ Ends(h, "returned")
  /\ UNCHANGED <<world, poll, copies, blind, timedOut, crashes>>

IntakeStep(h) ==
  \/ LooksAtRow(h) \/ Judges(h) \/ Defers(h) \/ Exhausts(h) \/ Ignores(h)
  \/ Creates(h) \/ Answers(h) \/ Applies(h)

-----------------------------------------------------------------------------
(* The answer: sendEmailReply *)

\* The draft the answer would describe, or the ticket whose number or author it
\* would name, is not there any more; or the decision is one nobody is told of.
NothingToSay(m) ==
  LET t     == IF row[m].thread # None THEN row[m].thread ELSE out[m].thread
      state == IF t = None THEN "none" ELSE ticket[t] IN
  \/ row[m].outcome \notin Answered
  \/ row[m].outcome \in Drafted /\ state # "draft"
  \/ row[m].outcome \in {"afterDispatch", "notPermitted"} /\ state \in {"none", "deleted"}

LooksAtAnswer(h) ==
  LET m == About(h.job) IN
  /\ ReplyAt(h, "look")
  /\ IF out[m].state # "PENDING" THEN Ends(h, "returned")
     ELSE IF NothingToSay(m) THEN Goes(h, "skip")
     ELSE Becomes(h, [h EXCEPT !.pc = "count", !.seen = IF out[m].tried THEN 1 ELSE 0])
  /\ UNCHANGED <<jobs, mail, world, poll, traces>>

\* skip writes by id, whatever the row has become.
Skips(h) ==
  /\ ReplyAt(h, "skip")
  /\ out' = [out EXCEPT ![About(h.job)].state = "SKIPPED"]
  /\ Ends(h, "returned")
  /\ UNCHANGED <<jobs, row, world, poll, traces>>

AfterCount(h) == IF h.seen > 0 THEN "search" ELSE "send"

\* Fault: the attempt is not counted before the mail goes out.
CountsNothing(h) ==
  /\ ReplyAt(h, "count")
  /\ Goes(h, AfterCount(h))
  /\ UNCHANGED <<jobs, mail, world, poll, traces>>

\* The attempt is counted before the mail goes out.
Counts(h) ==
  /\ ReplyAt(h, "count")
  /\ out' = [out EXCEPT ![About(h.job)].tried = TRUE]
  /\ Goes(h, AfterCount(h))
  /\ UNCHANGED <<jobs, row, world, poll, traces>>

\* findInMailbox: found, not found, or failed for good and sent unseen.
Searches(h) ==
  LET m == About(h.job) IN
  /\ ReplyAt(h, "search")
  /\ \/ Goes(h, IF copies[m] > 0 THEN "stamp" ELSE "send") /\ UNCHANGED blind
     \/ Goes(h, "send") /\ blind' = blind \cup {m}
  /\ UNCHANGED <<jobs, mail, world, poll, copies, entered, timedOut, crashes>>

\* The mail goes out; its confirmation may be lost on the way back.
Sends(h) ==
  /\ ReplyAt(h, "send")
  /\ copies' = [copies EXCEPT ![About(h.job)] = @ + 1]
  /\ Goes(h, "stamp") \/ Raises(h)
  /\ UNCHANGED <<jobs, mail, world, poll, entered, blind, timedOut, crashes>>

Stamps(h) ==
  /\ ReplyAt(h, "stamp")
  /\ out' = [out EXCEPT ![About(h.job)].state = "SENT"]
  /\ Ends(h, "returned")
  /\ UNCHANGED <<jobs, row, world, poll, traces>>

\* markReplyFailed, only over a row that is still PENDING.
Marks(h) ==
  /\ ReplyAt(h, "mark")
  /\ out' = [out EXCEPT ![About(h.job)].state = IF @ = "PENDING" THEN "FAILED" ELSE @]
  /\ Ends(h, "threw")
  /\ UNCHANGED <<jobs, row, world, poll, traces>>

ReplyStep(h) ==
  LooksAtAnswer(h) \/ Skips(h) \/ Counts(h) \/ Searches(h) \/ Sends(h) \/ Stamps(h) \/ Marks(h)

\* The database, the mailbox, the storage or a unique index says no.
Throws(h) ==
  /\ Running(h)
  /\ Raises(h)
  /\ UNCHANGED <<jobs, mail, world, poll, traces>>

-----------------------------------------------------------------------------
(* The rest of the system *)

\* A user sends the draft out, or deletes draft or ticket.
UserActs(m) ==
  /\ \/ ticket[m] = "draft" /\ ticket' = [ticket EXCEPT ![m] = "sent"]
     \/ ticket[m] \in {"draft", "sent"} /\ ticket' = [ticket EXCEPT ![m] = "deleted"]
  /\ UNCHANGED <<jobs, mail, sender, poll, handlers, traces>>

\* An administrator takes a site, the intake or the account from the sender.
SenderLoses(m) ==
  /\ sender[m] = "editor" /\ m \notin Earlier
  /\ \E s \in {"reader", "stranger"} : sender' = [sender EXCEPT ![m] = s]
  /\ UNCHANGED <<jobs, mail, ticket, poll, handlers, traces>>

Next ==
  \/ \E p \in Polls : Records(p) \/ \E m \in Mails : Lists(p, m)
  \/ \E j \in Jobs : Starts(j) \/ FallsDue(j)
  \/ \E h \in handlers : IntakeStep(h) \/ ReplyStep(h) \/ Throws(h) \/ Settles(h) \/ TimesOut(h)
  \/ \E m \in Mails : UserActs(m) \/ SenderLoses(m)
  \/ Crash

Spec == Init /\ [][Next]_vars

-----------------------------------------------------------------------------
(* Properties *)

\* Every variable has its type.
TypeOK ==
  /\ jobStatus \in [Jobs -> Queue!Status]
  /\ jobAttempts \in [Jobs -> 0 .. MaxAttempts]
  /\ due \subseteq Jobs
  /\ row \in [Mails -> RowType]
  /\ out \in [Mails -> OutType]
  /\ ticket \in [Mails -> {"none", "draft", "sent", "deleted"}]
  /\ sender \in [Mails -> {"editor", "reader", "stranger"}]
  /\ poll \in [Polls -> Mails \cup {None}]
  /\ handlers \subseteq Handler
  /\ copies \in [Mails -> Nat] /\ entered \in [Mails -> Nat]
  /\ blind \subseteq Mails /\ timedOut \subseteq Jobs
  /\ crashes \in 0 .. MaxCrashes

\* A message that waits for its decision, or for its answer, has a job that
\* will come back to it, or one that was given up where people see it. It is
\* so although a late handler reopens what was decided and although a job that
\* comes before nextAttemptAt does nothing (email-poll.ts keeps rescanStuck for
\* rows that would break this).
NobodyForgotten ==
  \A m \in Mails :
    /\ row[m].state = "PENDING" =>
         \E j \in IntakeJobs : About(j) = m /\ jobStatus[j] \in {"PENDING", "RUNNING", "FAILED"}
    /\ out[m].state = "PENDING" =>
         jobStatus[ReplyTo(m)] \in {"PENDING", "RUNNING", "FAILED"}

\* The content of a message enters a draft at most once: a retry after a crash,
\* or beside a handler that was given up, neither opens a second draft nor
\* merges the same reply again.
EnteredOnce == \A m \in Mails : entered[m] <= 1

\* A reply changes a draft only while it is a draft, and only for a sender who
\* may edit it at that moment, although both were checked before the download
\* and the extraction (the second look of applyEmailReply).
MergeIsAllowed ==
  [][\A m \in Mails : (entered'[m] > entered[m] /\ row'[m].outcome = "applied") =>
       ticket[row'[m].thread] = "draft" /\ sender[m] = "editor"]_vars

\* The sender gets at most one answer, across crashes and lost confirmations,
\* unless the search of the mailbox failed for good or a handler that was
\* given up was still about to send.
AnsweredOnce ==
  \A m \in Mails :
    copies[m] > 1 => m \in blind \/ ReplyTo(m) \in timedOut

\* An answer recorded as SENT did reach the mailbox, also when it was not this
\* attempt that sent it.
SentMeansDelivered == \A m \in Mails : out[m].state = "SENT" => copies[m] > 0

\* SKIPPED means that no mail went out, on purpose (MessageState in
\* schema.prisma). It does not hold: the skip is decided before the search for a
\* copy that an earlier attempt may have sent. Not run.
SkippedMeansUnsent ==
  \A m \in Mails : (out[m].state = "SKIPPED" /\ timedOut = {}) => copies[m] = 0
=============================================================================
