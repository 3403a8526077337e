# Verification of the ticket control system

The program is a Next.js application for maintenance tickets: a manager writes a
ticket (or mails it, or sends it by WhatsApp), chooses contractors and colleagues
as recipients, and the system tells each of them, lets contractors in by a portal
link, follows their reports and escalates what does not move. One process serves
the requests, runs the background worker and talks to one PostgreSQL database.

This directory holds TLA+ modules translated from that code, the TLC runs that
check them on small instances and the proofs that hold for every value of the
constants. Paths below are relative to `src/src/` unless they begin with another
directory.

## 1. The system

| Part | State it keeps | Operations | Modelled by |
|---|---|---|---|
| Job queue (`jobs/queue.ts`) | table `Job`: status, attempts, runAt | enqueue, claimNextJob, completeJob, failJob, reclaimOrphanedJobs | `JobQueue`, abstractly `JobLifecycle` |
| Worker (`jobs/worker.ts`) | two lane loops, running handlers, start-up | startWorker, startLaneLoop, drainJobs, processNextJob, withTimeout, runJob and its wrappers | `JobQueue` |
| Self-scheduling jobs (`jobs/handlers/escalation.ts`, `backup.ts`, `wa-health.ts`) | their own rows of `Job` | run, ensure...Scheduled | `JobQueue`; the effect of the escalation in `TicketLifecycle` |
| Ticket service (`lib/services/tickets.ts`) | `Ticket`, `Assignment` | createTicket, submitDraft, addAssignments, removeAssignment, setAssignmentStatus, resend, close, reopen, delete | `TicketLifecycle` |
| Portal (`lib/services/portal.ts`) | `AccessToken` | ensureAccessToken, rotatePortalLink, revokeAccessIfOrphaned, markViewed | `TicketLifecycle` |
| Tags (`lib/services/tags.ts`) | `TagAccess`, tag messages | grantTagAccess, revokeTagAccess, addTagMessage | grants in `TicketLifecycle`, files of messages in `Media`, the list of tickets in `Board` |
| Merging contractors (`lib/services/admin.ts`) | assignments, grants, tokens of two contractors | mergeProfessionals | `TicketLifecycle` |
| Drafts (`lib/services/draft-fields.ts`, `lib/draft/`) | draft fields, recipients, conflicts | updateDraftFields, resolveDraftConflicts, mergeChannelIntoDraft, lockAndLoadDraft | `DraftMerge`; the lock against submission in `TicketLifecycle` |
| Notifier and delivery (`lib/notifier/`, `lib/services/delivery.ts`) | stamps on `Assignment` | notifyRecipients, sendNotification, markNotifyFailed, recordWaOpened | `Delivery`; the obligation as one step in `TicketLifecycle` |
| E-mail intake (`lib/services/email-poll.ts`, `email-intake.ts`, `intake-draft.ts`) | inbound `MailboxMessage`, `MailThread` | recordDiscovered, handleEmailIntake, defer, exhaust, createEmailDraft, applyEmailReply, rescanStuck | `MailIntake` |
| E-mail replies (`lib/services/email-reply.ts`) | outbound `MailboxMessage` | sendEmailReply, findInMailbox, skip, markReplyFailed | `MailIntake` |
| WhatsApp intake (`lib/services/wa-webhook.ts`, `wa-intake.ts`, `lib/whatsapp/burst.ts`) | inbound `WaMessage`, `WaThread` | recordMessage, planBurst, handleWaIntake, deferSender, exhaust, lockUnchanged, createWaDraft, applyWaReply, scheduleHint | `WaIntake` |
| WhatsApp number (`lib/services/wa-number.ts`, `lib/whatsapp/account.ts`) | `WaNumber` | connect, disconnect, syncPending, the six-hourly check, applyAccountUpdate | `WaNumber` |
| WhatsApp replies (`lib/services/wa-reply.ts`) | outbound `WaMessage` | sendWaReply | by its results in `WaIntake` |
| Media (`lib/services/media.ts`, `jobs/handlers/ai.ts`, `lib/storage/`) | `MediaFile`, the bytes in the storage | registerMedia, confirmUpload, attaching to a message, removal, the TRANSCRIBE and EXTRACT jobs | `Media` |
| Status, board, permissions (`lib/ticket-status.ts`, `lib/permissions.ts`, `lib/services/board.ts`) | nothing of their own: derived from ticket, rows and last message | canViewTicket and its companions, deriveTicketStatus, deriveAwaitingReply, deriveBoardSection, the scopes of the lists | `Board` |
| Form of a new ticket (`app/(internal)/tickets/new/`, `lib/offline-draft.ts`, `lib/idb-store.ts`) | the screen, one entry in the browser's store | type, press, retry when the connection returns, restore | `TicketForm` |
| Administration, sessions, watchdog, backup, parsing of messages, the other screens | | | not modelled, section 8 |

### How the parts interact

* A service writes its own change and the `Job` rows that follow from it in one
  transaction; the worker finds them by polling every two seconds. There is no
  other channel between services and background work.
* The worker has two loops in one process: the *mail* lane takes the types of
  `MAIL_JOB_TYPES` (`jobs/types.ts:58-64`: the intake and the answers of the mail, the
  events, the intake and the answers of WhatsApp), the *general* lane everything else,
  the notifications and the AI jobs among it. Every `await` is a place
  where the other loop, a request, or a handler that outlived its time limit
  may act.
* A web request reads the database, checks what it read, and only then opens the
  transaction that writes. Only the draft operations take a row lock
  (`lockTicket`) and read again under it.
* The portal link of a contractor is shared by all of his tickets and tags. It is
  created inside the transaction that assigns him, and reviewed, outside any
  transaction, by whatever took an assignment or a grant from him.
* Two stores share no transaction: the table of the files and the storage with
  their bytes; a notification and the mail that left; the number and Meta's side
  of its connection; the form's entry in the browser and the ticket at the server.
  Every such pair is written one after the other, in an order the code chose.

### What is hard, and what makes each part correct

| Part | Hard because | Correct means |
|---|---|---|
| Queue and worker | the claim is two queries; a handler cannot be cancelled and outlives its time limit; the process dies between any two queries; database calls fail | counts decide whether a job is tried again; a decided row stays decided; DONE means the handler did its work; no row is stranded; a lane is never blocked |
| Self-scheduling jobs | check-then-insert, restarts, final failures | the chain never dies; exactly one waiting row of a type |
| Ticket service | requests act on what they read before their transaction; deletions in between | rows only on tickets that were sent out; nobody assigned silently; a sent ticket is never deleted as a draft; escalation only of what stands still |
| Portal | count-then-revoke; links shared by tickets and tags | whoever has work can get in |
| Merge | REMOVED rows, links, grants | no ticket loses its recipients |
| Draft merge | messages are processed later than they arrive, screens are saved later than they were loaded | a decision is overruled only by later news, a conflict is settled only by who saw it, nothing disappears unseen |
| Delivery | mail and stamp are two writes, attempts outlive their limit, recipients are removed and added again | the screen never promises a mail that nobody will send; nobody is assigned in silence; one mail per job |
| WhatsApp number | the check, its sync, an event of Meta and an administrator act on a row they read before | late news undoes no decision; a connection that went silent is found |
| Media | the browser confirms its own upload, the storage knows nothing of the table, two jobs for one file | what is shown is stored; nothing is paid for twice; nothing waits for ever; words reach an empty description and replace none |
| Board | five rules in five files say who sees what | lists agree with permissions, and one that is cut off says so; a question stays in sight |
| Form | the answer is lost while the ticket was made; the page dies; saves, clears and retries race | what the screen says it keeps is kept; what went out does not come back; what waits goes out |
| Mail and WhatsApp intake | redelivery, deferral, retries of a handler that still runs, replies out of order, edits under way | one draft per message, one answer per message, no message forgotten, nothing a user wrote overwritten silently |

`PROJECT.json` lists the hazards one by one with the line where each bites and the
property that covers it, or the reason why none does.

## 2. Modules

| Module | What it is |
|---|---|
| `JobLifecycle` | what the job table promises to the rest of the system |
| `JobQueue` | queue, worker, start-up, chains, crashes; implements `JobLifecycle` |
| `MCJobQueue` | the small instances of the queue |
| `JobQueueProofs` | theorems about `JobQueue` |
| `TicketLifecycle` | tickets, assignments, links, grants, merge, notifier, escalation |
| `MCTicketLifecycle` | the small instances of the tickets |
| `TicketLifecycleProofs` | theorems about `TicketLifecycle` |
| `MailIntake` | the poll, the decision on a message, the answer to its sender; its jobs obey `JobLifecycle` |
| `MCMailIntake` | the small instance of the mail |
| `MailIntakeProofs` | theorems about `MailIntake` |
| `WaIntake` | the WhatsApp messages of one sender: recording, grouping into reports, decision, delays; its jobs obey `JobLifecycle` |
| `MCWaIntake` | the small instance of WhatsApp |
| `DraftMerge` | a draft changed by replies of its sender and by screens |
| `Delivery` | NOTIFY jobs, stamps on assignments, what the screen says about them |
| `WaNumber` | the number, its connection and the check on it |
| `Media` | files, their bytes and the jobs that read them |
| `Board` | permissions, derived status, lists |
| `TicketForm` | the form of a new ticket on a phone |
| `MCDraftMerge`, `MCDelivery`, `MCWaNumber`, `MCMedia`, `MCBoard`, `MCTicketForm` | their small instances |
| `DraftMergeProofs`, `DeliveryProofs`, `MediaProofs` | theorems about three of them |
| `WhatsAppProofs` | theorems about `WaIntake` and `WaNumber` |
| `ScreenProofs` | theorems about `TicketForm` and `Board` |

Each part has a module of its own at the level of detail at which it is hard.
Where two overlap, one of them is reduced: the tickets of `TicketLifecycle` have
a notifier of one step, `Delivery` has its awaits and one ticket of three states;
`Delivery` and `Media` have a queue of a few conjuncts, `JobQueue` all of it.

### JobQueue

State: `status`, `attempts`, `runAt` are the columns of `Job`. `boot` is the
position of the asynchronous block of `startWorker`, `loop[l]` the position of lane
loop `l` with the time of its drain, the jobs left in it and the job and attempt it
holds; `exec[j][a]` is the position of the handler of attempt `a` of job `j`, which
goes on after the loop has given up waiting. `acted` and `marked` record what the
handlers did outside the table.

Actions: `FindCandidate` and `Claim` are the two queries of `claimNextJob`;
`Complete`, `WorkThrew`, `TimedOut`, `CompleteError` are the four ways out of the
`try` of `processNextJob`, `Fail`, `Resched`, `ReschedInsert` the queries of its
`catch`, `LoopError` and `ReschedError` the failures of those queries. `Act`,
`EnsureCheck`, `EnsureInsert`, `Throw` are the handler, for every attempt, also one
nobody waits for any more. `BootReclaim` and `BootGiveUp` are the two updates of
`reclaimOrphanedJobs`, `BootCheck` and `BootInsert` the queries of the `ensure`
functions. `Crash` forgets everything that is not a column.

Data left out: payloads, `lastError`, logging. The clock counts ticks of the
shortest delay; a daily job's next time is the next multiple of `Period`
(`nextIsraelHour` without the change of daylight saving; `wa-health` adds its
interval to the present time instead, which is one of the values the multiple can
have at that distance).

`StartupFirst` says that the queries of start-up return before the first poll,
which is two seconds away: the code does not wait for them. With the constant
FALSE the loops may start at once, and `FinalIsFinal` fails (the mutant
`TickStartsEarly` shows it): start-up then puts back a job that this very process
is running.

### TicketLifecycle

State: `state[t]` folds `isDraft`, `closedAt` and the existence of the row; `row`
is the `Assignment` table; `token`, `granted`, `known` are the contractors with a
live token, with a tag grant, and that exist. `outbox` is the set of rows a waiting
notification job will tell, `settled` those the notifier dealt with.
`request[q]` is what a web request has read and where it is.

Each operation that reads and then writes has a `...Reads` and a `...Writes`
action; the transaction writes with what was read, as the code does, and either
applies or throws when a row it updates is gone. Operations whose reading and
writing happen under one lock or in one query are one action. `CountAccess` and
`RevokeAccess` are the two queries of `revokeAccessIfOrphaned`.
`Abandon` is a request that dies between two queries.

`overlapped` records that two requests were in progress at once. `UniqueRow`,
`DoneIsKept` and `ReviewKeepsLinks` are claimed only without overlap: they are
about sequences of complete operations, and the runs and findings show what
overlap does to their neighbours.

### MailIntake

State: `jobStatus`, `jobAttempts` are the `Job` rows of this lane, moved only by the
actions of `JobLifecycle`, which `JobQueue` implements: the composition of the two
modules is that instance. `due` holds the jobs whose first due time has come; only
a deferral makes a job that is not due at once. `row[m]` is the inbound
`MailboxMessage` of message `m` (state, outcome, number of deferrals, the job that
stands for `nextAttemptAt`, thread), `out[m]` the outbound one that answers it.
`ticket[m]` is the ticket opened from `m` (a thread is named after that message),
`sender[m]` what its sender may do: *editor* (may edit the draft), *reader*
(authorised, but may not edit it), *stranger* (`findSender` returns null).
`handlers` is the set of handlers in progress, each with the attempt it belongs to
and what it has read; it keeps those whose time limit fired, until they end by
themselves. `copies`, `entered`, `blind`, `timedOut` record what happened outside
the tables: answers that reached the sender, how often the content of a message
entered a draft, searches that failed for good, time limits that fired.

Actions: `Lists` and `Records` are the read and the transaction of
`recordDiscovered`. `LooksAtRow`, `Judges` and one of `Defers`, `Exhausts`,
`Ignores`, `Creates`, `Answers`, `Applies` are `handleEmailIntake`: the early
returns, the decision, the transaction that writes it. `Applies` looks again at
draft and sender under the lock and writes what it finds then. `LooksAtAnswer`,
`Skips`, `Counts`, `Searches`, `Sends`, `Stamps` are the queries and calls of
`sendEmailReply` in their order; `Sends` may lose the confirmation after the mail
went out. `Marks` is the wrapper of the last attempt. `Throws` is any exception, a
second answer to the same message among them (`repliesToId` is unique, so
`ScheduleReply` is not enabled and the transaction fails as a whole). `Starts`,
`Settles`, `TimesOut`, `Crash` are the lane; `UserActs` and `SenderLoses` the rest of
the system.

Abstractions: the outcomes that no rule tells apart are folded together
(`DRAFT_CREATED_UNPROCESSED` with `DRAFT_CREATED`, the six that ignore a message into
`ignored`); headers and mailbox thread are one relation `ConversationOf`; what the
extraction finds is left out, only that it may ask for a delay; a mailbox search that
works finds what was sent. A mail source that is not configured behaves like a search
that failed for good. `Earlier` messages may have been decided before the
behaviour begins, so that a reply to a known draft needs no long prefix.

### WaIntake

State: `row[m]` is the inbound `WaMessage` of message `m` (state, outcome, number
of deferrals, `tagged` for a `detail` with the tag of a deferral, `wait` for
`nextAttemptAt`, thread, and what became of its recording), `out[m]` the outbound
one that answers it, `ticket[m]` the ticket opened from the report that ends with
`m`. `hinted` are the threads with a `hintSentAt`, `number` and `sender` what
administrators change. `chat[m]` is what the sender wrote and when; messages are
numbered in the order in which the code sorts them, by the time of writing.
`now` is the time of the lane's round, which the worker hands to the job.
`handlers` is as in `MailIntake`, each with what it has read: the units to decide,
those still open, the sender. `entered`, `hints` and `late` are history: how often
content entered a draft, how often a draft gave cause for an explanation, which
messages were recorded after one written later.

`Units` and `Ready` are `planBurst`: the first messages of the units are a recursive
function over the pending ones, `StartsNewUnit`, `Closable` and `DueAt` the helpers of
the same names. Actions: `Records` is `recordMessage`; `Looks`, `Aligns`, `Drops`,
`Hears`, `HearingFails`, `Plans`, `Decides`, `Waits` are the steps of
`handleWaIntake` between its awaits; `SetsAside`, `Answers`, `Creates`, `Applies`,
`FindsChanged` are the transactions under the lock of the sender, which look again
at unit and sender (`Unchanged`); `UnitFails` is a download or extraction that asks
for a delay (`Defers`) or has had its last (`Exhausts`); `FindsTokenRevoked` is
`onExternalFailure`. The event of the webhook, the intake and the answers all run in
the mail lane, one job at a time: a second handler, or a message recorded meanwhile,
meets a handler only after its time limit fired, and that is where `Unchanged` earns
its keep.

Abstractions: one sender (the code selects rows by sender and locks him); anchor,
pending rows, number and sender are read in one step; media, merge of fields and
wording are left out; the 24 hours of the hint are not counted; an answer that is
skipped or fails stays PENDING, because the intake asks only for those SENT.

### DraftMerge

State: `draft` is the ticket's columns with its `DraftField` rows: `value[f]`,
`meta[f]` (when it was edited at the screen, whether a conflict is open and which
message stands against it) and `people[r]` (who put a recipient there, when he was
taken off). `arrived` and `merged` are the messages of the sender, `screen` the
versions of the fields that a loaded screen holds. `lastSaid` and `overtaken` are
history.

Operators: `Decision` and `MergeScalar` are the table of `decideScalar`,
`MergeDescription` the text that is replaced or added to, `MergePerson`,
`MergePending` and `MergeRecipients` the people, `MergeChannel` the order of the
fields with what is reset or blocked below a site or a building, `SystemEdit`,
`ResolveField` and `ResolveChoices` the screen. Actions: `Arrives`, `Opens`,
`Merges` for the messages, `Loads`, `Saves`, `Settles`, `Submits` for the screen;
each of them holds the lock of the ticket and is therefore one step. A message is
measured by when it arrived, not by when it is merged.

Abstractions: no wording; a building belongs to one site and an apartment to one
building, and a message matches them as `matching.ts` does: within what it says, or
else within what the draft has.

### Delivery

State: `row[r]`, `notifiedAt`, `notifyFailedAt`, `waOpenedAt` are the assignment and
its stamps, `jobs` the NOTIFY rows, `run[j][a]` the handler of attempt `a` of job
`j`, which goes on after its time limit. `mail[j]` is what an observer knows of the
mail of `j`: it left, it may have left, it left again. `excused` holds the
recipients behind a gap which the code accepts in a comment or which no handler can
close: a job given up without its `catch`, a stamp or a mark whose write failed, an
address added after the job was skipped.

Actions: one per service that tells somebody (`AddAssignments`, `Resend`,
`MarkDone`, `WriteBack`, `WriteOut`, `Reopen`), `RemoveAssignment`, `Close`,
`DeleteTicket`, `OpenWhatsApp`, `AutoOpen`, `EditEmail`; `Claim`, `Read`, `Send`,
`Stamp`, `Catch`, `End` are the handler between its awaits, `Timeout` and `Crash` the
faults. The line of the screen is `Note`.

### WaNumber

State: `waNumber[n]` is its row; `connect`, `disconnect`, `health`, `sync`, `account`
are the five processes with the row they read; `subscribed`, `onApp`, `valid` and
`accountEvents` are Meta's side, which is external and may change at any step. Actions: one
per await of each process. `Save` writes what its transaction read at `Sweep`.
`Unsubscribe` lets go of the number in the table also when Meta refuses for good or there
is nobody to ask. The number connected last is that of the latest token (`LatestOf`),
where the code compares `connectedAt`, set at the save: the two differ only when two
administrators connect at once.
Left out: `number_missing`, which differs from `not_on_app` by its wording, and
`token_unreadable`, which follows a change of the key.

### Media

State: `row[f]` is `MediaFile`, `stored[f]` what the storage holds under its key,
`request[q]` a confirmation between its queries, `job` and `run` the AI jobs as in
`Delivery`, `ticket[t]` the tickets with their descriptions. Actions: `Register`,
`Put` (the browser and the storage), `ConfirmReads`, `ConfirmHeads`, `ConfirmMarks`,
`ConfirmRemoves`, `ConfirmDrops` (confirmUpload), `Arrive` (files of messages),
`Attach` inside `CreateTicket` and `AddMessage`, `RemoveDraftMedia`, `Submit`,
`Delete`, `Edit`; `Loads`, `Skips`, `Begins`, `Saves`, `Looks`, `Fills`, `Catches`,
`Ends` are the handlers. What an engine hears is a word or nothing.

### Board

State: `ticket` (state, site, creator, escalated, handler, last author), `assigned`,
`siteOf`, and `writing[p]`, what a person who writes a message read as its handler.
Operators: `CanView`, `CanEdit`, `CanClose`, `CanComment`, `InScope`, `HasBoard`,
`OnBoard`, `ArchiveTruncated`, `InPortal`, `InTagList`, `DeriveTicketStatus`, `DeriveAwaitingReply`,
`DeriveBoardSection`, each the function of that name or the `where` of that list.
Actions: every operation that one of them depends on, with the permission that the
service asks for as its guard; a message has two steps, since its write uses what its
read saw, and its writer may be removed in between.

The board loads every open ticket and draft in scope, and of the closed ones the
`ArchiveLimit` that moved last. The module has one ticket, so `OnBoard(u, archive)` and
`ArchiveTruncated(u, archive)` take the rest of the archive as a parameter, `archive`:
how many other closed tickets in scope come before this one and how many after it
(`Archives`). With `before >= ArchiveLimit` the ticket is not on the board (`Taken`), and
the board says that it was cut off.

### TicketForm

State: `form` (open, restoring, its text, banner, `submittedRef`), `timer` the
delayed save, `store` the one entry of the browser and `ops` the operations asked of
it, in order; `attempt` the calls of the server, `online`, `made` the tickets. Each
await is a step: `Press`, `Serve`, `Lose`, `Fails`, `Throws`, `Refused`, `Succeeds`,
`Clears`, `Pushes`; `TimerFires`, `Reconnect`, `Restore`, `Put`, `Delete`; `Leave` and
`Die` end the page. `kept` is the last text of which the screen said that it keeps it.
The entry of a site that is no longer offered is not shown again, and the promise to keep
it (`kept`) ends there. `missed` and `strayed` mark what the code cannot see: a screen that
began to wait when the browser was connected already, so that the event it waits for may
have passed; two attempts at once; a form left while one of them runs.

## 3. Runs

| Run | Instance | What it shows |
|---|---|---|
| `JobQueue_worker` | one notification, four rows of a daily type, three attempts, clock 0..3, one crash, one failing query | a finished job did its work, the chain never dies, no stranded row, refinement of `JobLifecycle` |
| `JobQueue_lanes` | one job per lane, both loops, handlers that may hang for ever | `LaneSettles` |
| `TicketLifecycle_pass` | a ticket, two contractors, a colleague, two rows, two requests | one row per recipient, no dispatched ticket deleted as a draft, everybody chosen is sent to, a report of DONE is kept, escalation only of what stands still, a review takes no link from who has work |
| `MailIntake_pass` | two messages of one conversation, one of which may have opened a draft already, two rounds of the poll, two attempts, two deferrals, one crash, one time limit that fires | nobody forgotten, nothing entered twice, one answer, a merge only where it may be |
| `WaIntake_pass` | an earlier open draft and two more messages, each a picture or a recording that may say the word, each alone or in reply to the one before; times 0..2, silence 0, ceiling 1; one deferral, three jobs, one event from outside | reports are split as in real time, enter a draft whole, once and in order, by a decision that is right when it is written; nobody forgotten |
| `DraftMerge_pass` | two sites, three buildings, three apartments, two recipients, three messages, three decisions at a screen that may be stale | decisions outlast messages, the last word of the sender stands, a settlement settles, nothing is lost unseen |
| `Delivery_pass` | a contractor with a telephone, two jobs of two attempts, one fault, each of the three channels | a promise of a mail is kept by a job, nobody is silently assigned, one mail per job, what is queued moves |
| `WaNumber_pass` | two numbers, an administrator who connects and one who disconnects, two connections, one change at Meta | late news undoes nothing, silence is found |
| `Media_pass` | a file of any kind, a ticket, a tag, two confirmations, two jobs of two attempts, two faults, an engine for recordings only | what is shown is stored, paid once, nothing waits for ever, words arrive |
| `Board_pass` | an administrator, an owner, a site manager and a contractor, the last two of whom may be assigned, two sites, two messages written at once, an archive that shows one ticket and up to two others before and after this one | lists mirror permissions or say that they are cut off, a question stays in sight |
| `TicketForm_pass` | two attempts, two texts, two openings, one press, two losses of the connection | what is said to be kept is kept, no ghost of a sent ticket, what began to wait without a connection goes out |
| `TicketForm_draft` | one attempt, one text | violated: what was saved as a draft stays a draft |

Why the bounds are enough. A chain needs the row that runs, its successor, the
successor of that one, and one inserted by start-up or by the failure path: four
rows. Three attempts let a job have a first, a middle and a last one, the two tests
`a >= MaxAttempts` and `attempts < MaxAttempts` on both sides. One crash and one
failing query at any step of any attempt reach every combination of a half-finished
job and start-up; a second crash starts from a state the first one can also leave.

On the tickets, a race takes two requests and one ticket; two rows allow a removed
row beside an active one, or two rows for one recipient, or one of each contractor for
the merge. The constraint `Followed` stops following behaviours whose requests
overlapped together with a tag opened or contractors merged: those are followed one
after the other. The rows of the tables are identifiers that run out: an action that
needs a fresh one is then disabled, which cuts behaviours short and makes no false
step.

On the mail, two messages of one conversation make a first mail and a reply, or two
first mails; two attempts are a first and a last one; with `MaxDefer = 2` one
deferral is allowed and the next exhausts; one time limit makes a handler run beside
its own retry, and one crash may come before or after it. Two intake jobs per
message are what the poll and one deferral need.

On WhatsApp, two messages are the least that make one report, two reports, a late
message or a reply. The clock has the boundaries of `burst.ts` on both sides: equal
times, one more than the silence, equal to and one more than the ceiling. `MaxEvents`
bounds together what strikes from outside, so that every crash, exception, time limit
and change meets every state; `SlowAt` lets the time limit fire where a handler waits
for downloads and extraction, `Quotable` lets a message reply to the one before it. Nothing is
followed once every message is decided (`InPlay`).

In the draft, a conflict needs a message, a decision and a second message, and a third
one meets the conflict; two instants tell before, at and after a decision. A behaviour
is about one set of fields that depend on each other (`Subjects`): the address, the
plain fields, the description or the people. The merge touches each field by its own
rule and those below it, so that other combinations repeat these. In the delivery, two
jobs are an old notification beside a new one, and one fault suffices for an attempt
that outlives its retry or for a crash between any two of its writes. Two numbers are
the one before and the one after; one change at Meta meets every position of every
process. Two confirmations and two jobs are the least that pay twice; two faults let
one of them hit a retry of the other. On the board every rule is about one ticket and
one reader; two recipients, one of whom is a manager with two hats, and two writers are
the pairs a rule can tell apart; an archive of one with up to two others on either side is
not full, full, and cut off before or after the ticket. In the form, two openings and two
texts are what an old entry needs to appear under a new text.

Deadlock is checked on the queue, where the loops poll for ever. It is not checked on the
others: their bounds are used up, every request, message or attempt may be over.

## 4. Fairness

`JobQueue`: `FairSpec` asks that a process that is down is started again, that start-up
takes its next step, and that time passes. Nothing is asked of handlers: they may hang,
which is why the time limit exists. `LaneSettles` takes the fairness of one lane's
own timers as its premise, so that it says what that lane owes to the other: nothing.
`setTimeout` re-arms each loop after every drain, whatever the drain did, which is
what the premise stands for. A crash that repeats for ever is excluded by the bound.

`Delivery`: a waiting job is claimed (the loop polls for ever; retries come due by the
clock) and a handler takes its next step (an await returns, fails or is cut off). With
it `QueuedMoves`: the line "queued" gives way. Nobody has to press, edit or crash.

`WaNumber`: the check starts again and again (it is a job that schedules its successor)
and ends with its report and its sync, and Meta answers each of its two questions
often enough (strong fairness: a question may go unanswered any number of times). With
it `SilenceIsFound`. No administrator has to do anything.

`TicketForm`: the browser performs what was asked of its store, an attempt goes on to
its next await, a call is served or lost, and the connection returns. With it
`PendingGoesOut`. Nobody has to press anything; who leaves the screen is excused, and so is
a screen that began to wait when the browser was connected (`missed`): it waits for an
event that nothing promises.

## 5. Proofs

All theorems hold for every value of the constants, that is any numbers of people,
files, jobs, attempts, requests and faults, from the named assumptions of the modules.
Type correctness is proved and not run, wherever a module has proofs.

`JobQueueProofs`: `TypeOK`, `AttemptsDecide`, `DoneMeansActed`, `FinalIsFinal`,
`Refines`, `RunningIsHeld` and `ChainAlive`. Besides `QueueAssumption` the theorems name
two more: `OwnLanes`, no job is taken by two callers (`startWorker` starts one loop per
lane, and the lanes are disjoint), and `StartupFirst`. Both are needed: without either,
a loop may answer for a job that somebody else put back.

The inductive invariant has three ideas besides the properties themselves.
`Knows(l)`: what a loop holds is true of the table, that is, the row it is
running is RUNNING with exactly the attempt it holds, and a candidate that is
still PENDING has one attempt less. `BootAlone`: while start-up reclaims, no loop
holds anything. `WorkActed`: a handler that returned has acted. With them each
final write is made by the one loop that answers for the row, which gives finality
and the refinement step by step; the counts follow because `failJob` is called
with the row's own count.

A second invariant, `SoundSoFar`, holds while no query has failed. `Swept`: after the first
update of start-up, what is still RUNNING has no attempt left. `RunsAreHeld`: after the
second one, what is RUNNING is held by a loop. `Visited` and `AllAlive`: every chain that
start-up has passed has a row that waits or runs. `Succeeded`: a loop whose handler of a
chain has returned finds the successor waiting. The last one is the reason why the
insertion is part of the handler, before the row is completed.

`TicketLifecycleProofs`: `TypeOK`, `RowsOnlyOnDispatched`, `EscalatedIsStale`,
`Announced`, `DispatchedIsKept`, `UniqueRow`, `ReviewKeepsLinks`, `DoneIsKept` and
`ChosenAreSent`. The invariant `IInv` adds `RowsFilled` (a row that exists has a ticket
and a recipient) and `Knows(q)` (what a request remembers is enough for what it will
write); it holds however requests overlap, because every write reads again what it
depends on. Where they do not overlap, a second invariant, `SInv`, carries what was read:
at most one request is in progress (`One`), and what it read is still so when it writes
(`Fresh`): the row to bring back is REMOVED, or there is none, the ticket to reopen is
closed, whoever is about to lose his link has no work. With it go one row for each
recipient (`Sole`) and a link for whoever has an active one (`Linked`).

`MailIntakeProofs`: `TypeOK`, `NobodyForgotten`, `EnteredOnce`, `AnsweredOnce`,
`SentMeansDelivered` and `MergeIsAllowed`. The properties are not inductive as they
stand; the invariant adds:

* `RowsPromised` and `AnswersPromised`: the job of a waiting message was not only not
  decided, no handler has returned for it either (that result would settle it). A
  job that returns early because `nextAttemptAt` is ahead leaves the promise to the
  job the row waits for (`WaitsForOwn`), which nobody can have started (`DueFirst`).
* `HandlersKnown`: a handler whose job never outlived a time limit is the one the
  lane waits for, so that there is only one.
* `SentOnceCounted`: as long as the answer is *sighted* (search works, one handler),
  whatever is sent was counted before, and whoever is about to send knows that
  nothing was sent. That is the reason for counting before sending.
* `EnteredWithAnswer`: content enters a draft in the transaction that inserts the
  answer, so the unique index on the answer guards the draft too.
* `ThreadsOpened`: a plan to merge names the thread of a ticket that was opened.

`DraftMergeProofs`: `TypeOK`, `LocationIsOne`, `SettlingSettles`,
`MailRespectsDecisions`, `NoUnseenLoss` and `SenderLastWord`, for any directory in
which a building has one site and an apartment one building. The invariant `Inv` says
that every field holds a value and a row of its own kind, in conflict exactly when it
holds what a message said (`Good`), and that the address lies within one site
(`Addressed`). It is inductive by what a merge is: five rounds of a field
(`MergeFieldRound`), each of which agrees, is blocked, fills the field, disputes it or
gives in, then the text, then the people. `MergeKeepsDecisions` and
`MergeKeepsAddress` follow the rounds one after the other; the address stays one
because a round that does not take over what is said of a field blocks what lies below
it, and one that does empties it. A settlement is a chain of steps `Settled`, each of
which closes one conflict and touches only what depends on its field. `NoUnseenLoss`
rests on two facts: a field that is the same has the same version, and whatever else a
decision changes lies below the field it was made on (`SaveSees`, `SettleSees`).
`SenderLastWord` needs history in its invariant (`Told`): what was said last came with
a message that was merged, and, while nothing was overtaken, a later one finds it
standing.

`DeliveryProofs`: `TypeOK`, `StampsAreTrue`, `OneMailPerJob`, `PromiseIsKept`,
`NobodySilent`. `Slots` says where handlers can be: only attempts that were claimed, and
the latest is the one the loop waits for. `SentIsOver`: a mail of which the worker knows
is that of an attempt which is beyond its sending, so no later one starts. `StampsSent`:
who is about to stamp has sent. `Promise`: behind each line that promises a mail is a
job that is not decided, or a handler that has yet to stamp or to mark, or the gap the
recipient is excused by. `OpenedNow`: a WhatsApp stamp belongs to the present assignment.

`WhatsAppProofs`, of `WaIntake`: its types, `SplitsAsInRealTime`, `EnteredOnce`,
`ReportIsWhole`, `OrderIsKept`, `DecidedForNow` and `NobodyForgotten`.

* `SplitsAsInRealTime` is a fact about `startsNewUnit` and not about steps. There is
  exactly one way to choose the messages that begin a report (`HeadsExist`,
  `HeadsUnique`, by the least message at which two ways would differ), and it depends
  only on what was written before (`HeadsUpto`), so that a later message moves no border.
* `EnteredRight`: a message that entered a draft is DONE, and a handler writes only while
  its whole unit is still pending (`lockUnchanged`); that is all `EnteredOnce` needs, also
  when two handlers hold one report.
* `DecidedForNow` needs little: content enters in a transaction that took its verdict
  again under the lock (`LockedVerdict`), from the sender and the ticket as they are then.
* `ChatOrdered`: what is recorded is in the order it was written in. With it the unit
  that a handler cut out of the chat is a whole report (`ReportIsWhole`).
* `Turns`: the units a handler still has lie one after the other, the one it is writing
  is the first, and nothing that waits lies before them except what came late.
* `Looked` is the longest argument. `HandlersApart`: no two handlers make the same attempt
  of a job, and the one that is waited for is of the lane's round. `DelaysServed`: a delay
  ends with a job that is PENDING at that moment, also the delay a handler is about to
  align newer messages with. `Serving`: what waits has a job that looks no later than it
  says, or a handler that is waited for and will still conclude it, delay it or throw.
  `TypeInv` includes `HandlerTypes`, that no handler has an empty unit: without it the
  least message of a unit is arbitrary and nothing can be said of a decision.

Of `WaNumber`: `NumberTypeOK`, `LateNewsUndoesNothing`, and `OneConnected` for a single
administrator. `NumberProcesses` gives each process the row it may hold, `NumberWorld` the
tokens that were issued; `Alone` says that no other number is connected while a lone
administrator connects one.

`MediaProofs`: `TypeOK`, `ShownIsStored`, `PaidOnce`, `WaitingIsServed`, `WordsArrive`,
`TypedIsKept`. `Bytes` ties the row of a file to what the storage holds at each position
of a confirmation; `Paid` says that whoever confirms a file does it alone, before there is
a job for it, unless two confirmations raced; `Served` that outside the gaps a handler is
the present attempt of the job that runs (`HandlersKnow`), and that what it knows when it
is about to end is true: the words were saved, or can no longer be wanted.

`ScreenProofs`, of `Board`: `TypeOK`, `BoardMirrors` for any limit of the archive and any
number of other tickets in it, and `QuestionInSight`, by `NobodyYet` (a ticket that does
not exist has no rows), `WritersHaveRows` and `LastHasRow` (who wrote, or is writing, as a
recipient has a row, removed or not). `BoardMirrors` compares two conditions on the same
state; that a ticket has the site it is compared by comes from the types.

Of `TicketForm`: `FormTypeOK`, `NothingLost` and `NoGhost`. Their invariant has two parts.
`Looked` holds however attempts overlap: what a closed screen and one that is being
restored show (`Screen`), who waits for which request to the store (`Waits`), that no text
is later than the last one typed (`Known`), that the server has what it answered
(`Confirmed`). The second part holds until `strayed`, the condition in both properties:

* `Alone`: at most one attempt is under way, of the form on the screen, which is shut by
  `submittedRef`. It is kept because leaving the form while it runs, and a second attempt,
  are what `strayed` records.
* `Queue`: while the form is shut the timer writes nothing, so that a write asked for by an
  attempt is the last one in the queue; and an attempt that may clear the store has seen
  the last delayed save land, so that nothing is written after the clearing.
* `Keeps`: a text is *somewhere* while it is on the screen, in the store, on its way there,
  or in an attempt under way. Until the server has it, the store has the kept text or a
  later one, and nowhere is an earlier one that could replace it.
* `Gone`: a text whose ticket the screen was left for is nowhere. Both follow from one
  lemma, `TextsMove`: no step writes a text that was not somewhere, except the one that is
  being typed.

One thing a proof brought up that no run could: where several arms of a CASE hold, TLA+
lets the value be that of any of them, while TLC takes the first. The verdict on a reply
(`decideReplyVerdict`, whose order matters) and the banner of a restored draft were
written that way; they now say which condition comes first.

Only model-checked are the liveness properties `LaneSettles`, `QueuedMoves`,
`SilenceIsFound` and `PendingGoesOut`: liveness under fairness, and ENABLED, are out of
the prover's reach. Every other property of the passing runs is a theorem.

## 6. Findings

One statement of the repository is refuted by a run of its own.

* *Saved as a draft, sent to nobody* (`TicketForm_draft`). The retry of the event
  `online` is `submit(false)` whatever button had been pressed
  (`create-ticket-form.tsx:405`), and the kept entry does not record it: "save as a
  draft" pressed without a connection, with every field filled in, becomes a dispatched
  ticket and mails its recipients when the connection returns.

The following were met while modelling. The modules state the first group as definitions,
with a comment that they do not hold; they have no run.

* `AtMostOneWaiting` (`JobQueue`): an escalation inserts its successor while it runs. A
  crash before `completeJob` leaves the successor and the row that start-up puts back, so
  that two of them wait. So does a handler whose time limit fires between its look and its
  insertion. The chain does not stay double: of two that wait the first to run finds the
  other and inserts none.
* `FailureIsMarked` (`JobQueue`): start-up and the time limit give up a job without the
  wrappers that write the mark. In `Delivery` it is one of the excused gaps.
* `MergeKeepsRecipients` (`TicketLifecycle`): in a merge of contractors a REMOVED row of
  the one who stays counts as having the assignment; the active row of the other goes.
* `ActiveHasLink`: the review of a link counts and revokes in two queries.
* `RemovedStaysRemoved`: a report admitted before a removal is written after it and makes
  the row active again.
* `SkippedMeansUnsent` (`MailIntake`): the skip is decided before the search for an
  earlier copy, which may have gone out while its confirmation was lost.
* `DisconnectedIsQuiet` (`WaNumber`): connecting a number lets go of those before it in
  the table only; Meta still sends their messages here. A disconnection
  that Meta refuses for good does the same (`wa-number.ts:277-283`).
* `HandlerNotStolen` (`Board`): a message takes a ticket over that has no handler
  (`tickets.ts:634-640`), by what was read before its transaction. Of two messages that
  overlap the later takes the ticket from the writer of the other.
* `OneConnected`: two administrators who connect at once can leave two numbers
  (`wa-number.ts:27-29`); it is proved of one.

The others, by part.

* *WhatsApp intake.* `transcribeVoices` promises that a report is judged after its
  recordings were heard; a recording that comes in beside a handler past its time limit
  may be set aside unheard. A number that is disconnected while a handler downloads is
  not looked at again (`wa-intake.ts:205`).
* *Media.* Two overlapping confirmations of one file make two jobs (`media.ts:112-117`;
  `PaidOnce` excepts them). A handler past its time limit can put PROCESSING over DONE.
  A job given up outside the `catch` leaves "transcribing" for ever. A transcript that is
  ready before its file is attached never reaches the description. The signed upload of
  R2 limits no size; only the confirmation measures it. A signed address stays
  open until it expires; `Put` lands once for a file, as the page uploads a registered
  file once and registers again to try again (`use-media-upload.ts`).
* *Delivery.* A recipient who is added again keeps his old `notifiedAt`, so that the
  final failure of the new mail hides behind "notified".
* *Permissions and lists.* The board shows the 50 closed tickets that moved last
  (`ARCHIVE_LIMIT`, `board.ts:98, 271-281`) and says when there are more; `BoardMirrors`
  states both. Its two queries (`board.ts:262`) are no snapshot, so that a ticket closed or
  reopened between them may be shown twice or not at all, until the next load. The list of
  a tag ignores the assignments of a site manager,
  which `canViewTagTickets` and `canViewTicket` count. A manager without a site, legal by
  `admin.ts:112-117`, has an empty board although he may see what he is assigned to; a
  draft he opens through a channel has no site and is invisible to him
  (`intake-draft.ts:71-75` says otherwise). A creator who lost his site may close what he
  may not view. A colleague who is a recipient can never report, so that his ticket never
  waits for the approval of its opener. A question whose author is removed while he has
  the last word no longer stands on the board (`QuestionInSight` says so).
* *Draft merge.* `SenderLastWord` holds only while replies are merged in the order they
  arrived (`merge.ts:38-40` assumes it); a deferred reply breaks the order.
* *Form.* Chosen photos are saved with the entry and not restored. A delayed save after a
  restore takes the mark "waiting" off. A refused retry leaves the mark on, against the
  comment above `submit`. A lost answer followed by a retry makes a second ticket, for no
  key tells the attempts apart; so do two events `online`. Leaving the form during a send
  and writing another loses one of them. A press cancels the delayed save, so that what
  was typed in the last 400 ms is lost if the page dies or the server throws. The
  event `online` can be missed: the listener is bound after `await saveDraft` and nothing
  looks at `navigator.onLine` then (`create-ticket-form.tsx:368-369, 402-408`). A press
  without a connection whose text is saved when it is back, a call lost while the browser
  stays connected, and a screen opened on a waiting entry when it is connected all wait
  until the connection is lost once more; `PendingGoesOut` excepts them by `missed`. An
  entry of a site that is no longer offered is not shown, and the next text overwrites it.
  Two tabs share one entry.
* *WhatsApp number.* A late report of the check or a late account event can mark a fresh
  connection as ERROR; the next check does not undo it, connecting again does.

## 7. Plan

Done, in this order: the queue and its worker, because everything else runs on
them; the life of a ticket, because it is what the program is for; the mail, which
composes with the queue; the intake of WhatsApp; the merge of drafts; delivery; the
number; media; board and permissions; the form.

Left:

1. `WaReply`: the steps of `sendWaReply` and the statuses of Meta out of order. It is the
   WhatsApp twin of the answer in `MailIntake`; reply and status event share the mail
   lane, which leaves the order of one handler and one late attempt.
2. A theorem of what `WaIntake` states without a run: `HintedOnce`.

## 8. Not modelled

Language-model calls and message parsing (an arbitrary answer in any model); the
content of messages, files and pages; cryptography of sessions and tokens; plain
CRUD of the administration; the watchdog, which only reads; backups; the screens other
than the form, which change only what the services store.

Of the mail: `rescanStuck`, which puts back a message that waits without a
job (`NobodyForgotten` shows that there is none to find), the cursor of the poll, the
attachments and the simulated transport. Of the ticket service: the name of the resident
and the fields of `updateTicketFields` other than the description. A submission that
fails its validation writes nothing, which `Abandon` covers. Of delivery: internal
users are in the module and the proofs and not in the instance. Of the number: its
templates and the test message. Of media: the sweep of files that nobody confirmed, and
thumbnails. Of the form: photos, several tabs, an entry that
expires after 24 hours, a store that fails; the form that completes a draft
(`draft-completion.tsx`) handles no loss of the connection.

The hazards that no property covers are listed with the reason in `PROJECT.json`.
