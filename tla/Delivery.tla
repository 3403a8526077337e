------------------------------ MODULE Delivery ------------------------------
(***************************************************************************)
(* Telling a recipient about a ticket: the services that put a NOTIFY job  *)
(* in the queue (src/lib/services/tickets.ts), the job's handler           *)
(* (src/jobs/worker.ts runNotify, src/lib/notifier/index.ts), the stamps   *)
(* both leave on the assignment, the WhatsApp button                       *)
(* (src/lib/services/delivery.ts) and the line the screen shows            *)
(* (src/lib/delivery.ts).                                                  *)
(*                                                                         *)
(* One ticket.  The queue is JobQueue's, reduced to what a handler can     *)
(* tell: a claim counts an attempt, a time limit hands the job on while    *)
(* its handler keeps running, a crash kills every handler, and the start   *)
(* after it requeues a RUNNING job or, on its last attempt, gives it up.   *)
(***************************************************************************)
EXTENDS Naturals, FiniteSets

CONSTANTS
  Professionals,  \* outside contractors that may be assigned
  Users,          \* internal users that may be assigned
  Phoned,         \* the contractors with a telephone number
  Channels,       \* the e-mail channels a deployment may have
  MaxAttempts,    \* MAX_ATTEMPTS
  MaxJobs,        \* bound on the rows of the Job table
  MaxFaults       \* bound on the time limits reached and the crashes

Recipients == Professionals \cup Users
Jobs       == 1 .. MaxJobs
Attempts   == 1 .. MaxAttempts

ASSUME DeliveryAssumption ==
  /\ Professionals \cap Users = {} /\ Recipients # {}
  /\ Phoned \subseteq Professionals
  /\ Channels \subseteq {"gmail", "console", "missing"}
  /\ MaxAttempts \in Nat \ {0}
  /\ MaxJobs \in Nat /\ MaxFaults \in Nat

VARIABLES
  transport,   \* the e-mail channel of this deployment
  ticket,      \* "open", "closed" or "deleted"
  row,         \* status of each recipient's assignment; "active" is SENT,
               \* VIEWED or DONE, which no notification tells apart
  email,       \* recipients with an e-mail address
  notifiedAt, notifyFailedAt, waOpenedAt,   \* assignments with that stamp
  jobs,        \* the NOTIFY rows of the Job table, in order of insertion
  run,         \* progress of the handler of attempt a of job j
  opened,      \* recipients whose WhatsApp was opened since they were assigned
  excused,     \* recipients behind one of the gaps the code accepts
  mail,        \* whether the mail of each job left, and what the worker knows
  faults       \* time limits reached and crashes so far

rows   == <<ticket, row>>
stamps == <<notifiedAt, notifyFailedAt, waOpenedAt>>
ghosts == <<opened, excused, mail, faults>>
vars   == <<transport, rows, email, stamps, jobs, run, ghosts>>

-----------------------------------------------------------------------------
(* Values *)

RowStatus  == {"none", "active", "REMOVED"}
JobStatus  == {"free", "PENDING", "RUNNING", "DONE", "FAILED"}
RunPc      == {"none", "started", "sending", "stamp", "threw", "caught", "returned"}
Mail       == {"none", "sent", "maybe", "again"}

Free       == [status |-> "free", attempts |-> 0,
               to |-> CHOOSE r \in Recipients : TRUE, target |-> "opener"]

\* isEmailConfigured, and the simulated channel of development.
Configured == transport = "gmail"
Simulated  == transport = "console"

Active(r)   == row[r] = "active"
Assigned(S) == {r \in S : Active(r)}
External(r) == r \in Professionals

\* prepareProfessional: a contractor has a telephone or an e-mail address.
Contactable(S) == Professionals \ Phoned \subseteq S

\* pendingWhatsAppRecipients, and waPending of describeDelivery.
WaPending == {r \in Phoned \ (email \cup notifiedAt \cup waOpenedAt) : Active(r)}

\* deliveryNote: what the screen says about a recipient.
HasEmail(r) == r \in email \cup Users
Note(r) ==
  IF r \in notifiedAt THEN "notified"
  ELSE IF r \in waOpenedAt THEN "waOpened"
  ELSE IF HasEmail(r) THEN IF ~Configured THEN "notConfigured"
                           ELSE IF r \in notifyFailedAt THEN "failed" ELSE "queued"
  ELSE IF r \in Phoned THEN "noEmail" ELSE "noContact"

Init ==
  /\ transport \in Channels
  /\ ticket = "open"
  /\ row = [r \in Recipients |-> "none"]
  /\ email \in SUBSET Recipients /\ Contactable(email)
  /\ notifiedAt = {} /\ notifyFailedAt = {} /\ waOpenedAt = {}
  /\ jobs = [j \in Jobs |-> Free]
  /\ run = [j \in Jobs |-> [a \in Attempts |-> "none"]]
  /\ opened = {} /\ excused = {}
  /\ mail = [j \in Jobs |-> "none"]
  /\ faults = 0

-----------------------------------------------------------------------------
(* The services *)

\* A NOTIFY job for every recipient of S, in the transaction of the caller: the
\* next rows of the table, in some order.
Enqueue(S, target) ==
  LET used == {j \in Jobs : jobs[j].status # "free"} IN
  \E place \in [S -> Jobs \ used] :
    /\ \A r, q \in S : place[r] = place[q] => r = q
    /\ {place[r] : r \in S} = (Cardinality(used) + 1) .. (Cardinality(used) + Cardinality(S))
    /\ jobs' = [j \in Jobs |->
                  IF \E r \in S : place[r] = j
                  THEN [status |-> "PENDING", attempts |-> 0, target |-> target,
                        to |-> CHOOSE r \in S : place[r] = j]
                  ELSE jobs[j]]

Tells(S, target) ==
  /\ Enqueue(S, target)
  /\ excused' = IF target = "recipient" THEN excused \ S ELSE excused

\* Fault: a recipient who comes back keeps the stamp of his WhatsApp.
AddAssignmentsStale(r) ==
  /\ ticket # "deleted" /\ ~Active(r)
  /\ row' = [row EXCEPT ![r] = "active"]
  /\ opened' = opened \ {r}
  /\ Tells({r}, "recipient")
  /\ UNCHANGED <<transport, ticket, email, stamps, run, mail, faults>>

\* addAssignments: a new row, or the removed one again without its WhatsApp
\* stamp; the e-mail stamps stay.
AddAssignments(r) ==
  /\ ticket # "deleted" /\ ~Active(r)
  /\ row' = [row EXCEPT ![r] = "active"]
  /\ waOpenedAt' = waOpenedAt \ {r}
  /\ opened' = opened \ {r}
  /\ Tells({r}, "recipient")
  /\ UNCHANGED <<transport, ticket, email, notifiedAt, notifyFailedAt, run, mail, faults>>

\* removeAssignment, also on a closed ticket.
RemoveAssignment(r) ==
  /\ ticket # "deleted" /\ Active(r)
  /\ row' = [row EXCEPT ![r] = "REMOVED"]
  /\ opened' = opened \ {r} /\ excused' = excused \ {r}
  /\ UNCHANGED <<transport, ticket, email, stamps, jobs, run, mail, faults>>

\* resendAssignmentNotification.
Resend(r) ==
  /\ ticket = "open" /\ Active(r)
  /\ Tells({r}, "recipient")
  /\ UNCHANGED <<transport, rows, email, stamps, run, opened, mail, faults>>

\* setAssignmentStatus("DONE"): the opener hears of it.
MarkDone(r) ==
  /\ ticket = "open" /\ Active(r)
  /\ Tells({r}, "opener")
  /\ UNCHANGED <<transport, rows, email, stamps, run, opened, mail, faults>>

\* addMessage of a recipient, to the opener; a contractor only while it is open.
WriteBack(r) ==
  /\ Active(r)
  /\ ticket = "open" \/ (ticket = "closed" /\ ~External(r))
  /\ Tells({r}, "opener")
  /\ UNCHANGED <<transport, rows, email, stamps, run, opened, mail, faults>>

\* addMessage of staff who is no recipient: every active recipient hears.
WriteOut ==
  /\ ticket # "deleted"
  /\ Assigned(Recipients) # {}
  /\ Tells(Assigned(Recipients), "recipient")
  /\ UNCHANGED <<transport, rows, email, stamps, run, opened, mail, faults>>

Close ==
  /\ ticket = "open"
  /\ ticket' = "closed"
  /\ UNCHANGED <<transport, row, email, stamps, jobs, run, ghosts>>

\* reopenTicket: everybody active starts again, and hears of it.
Reopen ==
  /\ ticket = "closed"
  /\ ticket' = "open"
  /\ Tells(Assigned(Recipients), "recipient")
  /\ UNCHANGED <<transport, row, email, stamps, run, opened, mail, faults>>

\* deleteTicket: the assignments go with it, and so do their stamps.
DeleteTicket ==
  /\ ticket # "deleted"
  /\ ticket' = "deleted"
  /\ row' = [r \in Recipients |-> "none"]
  /\ notifiedAt' = {} /\ notifyFailedAt' = {} /\ waOpenedAt' = {}
  /\ opened' = {} /\ excused' = {}
  /\ UNCHANGED <<transport, email, jobs, run, mail, faults>>

\* openWhatsApp: the stamp is written before the browser leaves.
OpenWhatsApp(r) ==
  /\ row[r] # "none" /\ r \in Phoned
  /\ waOpenedAt' = waOpenedAt \cup {r}
  /\ opened' = opened \cup Assigned({r})
  /\ UNCHANGED <<transport, rows, email, notifiedAt, notifyFailedAt, jobs, run,
                 excused, mail, faults>>

\* claimWhatsAppAutoOpen, for a tab the browser did open.
AutoOpen(r) ==
  /\ r \in WaPending
  /\ OpenWhatsApp(r)

\* updateProfessional and updateUser.  An address added after the job was
\* skipped sends nothing: the line says "queued" until somebody resends.
EditEmail(r) ==
  /\ \/ /\ r \notin email
        /\ email' = email \cup {r}
        /\ excused' = excused \cup Assigned({r})
     \/ /\ r \in email /\ Contactable(email \ {r})
        /\ email' = email \ {r}
        /\ UNCHANGED excused
  /\ UNCHANGED <<transport, rows, stamps, jobs, run, opened, mail, faults>>

-----------------------------------------------------------------------------
(* The handler *)

ForRecipient(j) == jobs[j].target = "recipient"
Waits(j, a)     == jobs[j].status = "RUNNING" /\ jobs[j].attempts = a
Over == {"caught", "returned"}

\* The handler moves on; when it is over and the loop no longer waits for it,
\* nobody listens.
Goes(j, a, pc) ==
  run' = [run EXCEPT ![j][a] = IF pc \in Over /\ ~Waits(j, a) THEN "none" ELSE pc]

\* What is known of the mail of j when attempt a lets one leave: "sent" once,
\* by an attempt the worker hears from; "again" if it had heard from another.
Leaves(j, a, ok) ==
  IF ~ok \/ ~Waits(j, a) \/ mail[j] = "maybe" THEN "maybe"
  ELSE IF mail[j] = "none" THEN "sent" ELSE "again"
Doubt(S) == [j \in Jobs |-> IF j \in S /\ mail[j] = "sent" THEN "maybe" ELSE mail[j]]

\* The loop claims the job and starts its handler.
Claim(j) ==
  LET a == jobs[j].attempts + 1 IN
  /\ jobs[j].status = "PENDING"
  /\ jobs' = [jobs EXCEPT ![j].status = "RUNNING", ![j].attempts = a]
  /\ Goes(j, a, "started")
  /\ UNCHANGED <<transport, rows, email, stamps, ghosts>>

\* sendNotification reads the assignment, the portal link and the writer, and
\* decides whether there is anybody to write to; each read may fail, and without
\* any channel in production selecting one throws first.
Read(j, a) ==
  LET r == jobs[j].to
      nobody == ~Active(r) \/ (ForRecipient(j) /\ r \notin email) IN
  /\ run[j][a] = "started"
  /\ \/ Goes(j, a, "threw")
     \/ /\ transport # "missing"
        /\ Goes(j, a, IF nobody THEN "returned" ELSE "sending")
  /\ UNCHANGED <<transport, rows, email, stamps, jobs, ghosts>>

\* transport.send: the mail leaves, or it fails, or it leaves and the answer
\* is lost.  The simulated channel sends nothing and stamps nothing.
Send(j, a) ==
  /\ run[j][a] = "sending"
  /\ \E left, ok \in BOOLEAN :
       /\ IF Simulated THEN ok /\ ~left ELSE ok => left
       /\ Goes(j, a, IF ~ok THEN "threw"
                     ELSE IF ForRecipient(j) /\ ~Simulated THEN "stamp" ELSE "returned")
       /\ mail' = [mail EXCEPT ![j] = IF left THEN Leaves(j, a, ok) ELSE @]
  /\ UNCHANGED <<transport, rows, email, stamps, jobs, opened, excused, faults>>

\* Fault: a stamp that cannot be written fails the job.
StampOrThrow(j, a) ==
  LET r == jobs[j].to IN
  /\ run[j][a] = "stamp"
  /\ \/ /\ row[r] # "none"
        /\ notifiedAt' = notifiedAt \cup {r}
        /\ notifyFailedAt' = notifyFailedAt \ {r}
        /\ Goes(j, a, "returned")
        /\ UNCHANGED excused
     \/ /\ excused' = excused \cup Assigned({r})
        /\ Goes(j, a, "threw")
        /\ UNCHANGED <<notifiedAt, notifyFailedAt>>
  /\ UNCHANGED <<transport, rows, email, waOpenedAt, jobs, opened, mail, faults>>

\* The success is stamped; when that write fails the error is only reported.
Stamp(j, a) ==
  LET r == jobs[j].to IN
  /\ run[j][a] = "stamp"
  /\ Goes(j, a, "returned")
  /\ \/ /\ row[r] # "none"
        /\ notifiedAt' = notifiedAt \cup {r}
        /\ notifyFailedAt' = notifyFailedAt \ {r}
        /\ UNCHANGED excused
     \/ /\ excused' = excused \cup Assigned({r})
        /\ UNCHANGED <<notifiedAt, notifyFailedAt>>
  /\ UNCHANGED <<transport, rows, email, waOpenedAt, jobs, opened, mail, faults>>

\* Fault: the last attempt is taken for one that will be repeated.
IsLastOffByOne(a) == a > MaxAttempts

\* runNotify: no attempt is left after this one.
IsLast(a) == a >= MaxAttempts

\* The catch of runNotify: markNotifyFailed on the last attempt, for a mail to
\* the recipient; a failure of that write is only reported.
Catch(j, a) ==
  LET r == jobs[j].to
      marks == IsLast(a) /\ ForRecipient(j) IN
  /\ run[j][a] = "threw"
  /\ Goes(j, a, "caught")
  /\ \/ /\ marks /\ row[r] # "none"
        /\ notifyFailedAt' = notifyFailedAt \cup {r}
        /\ UNCHANGED excused
     \/ /\ marks
        /\ excused' = excused \cup Assigned({r})
        /\ UNCHANGED notifyFailedAt
     \/ /\ ~marks
        /\ UNCHANGED <<notifyFailedAt, excused>>
  /\ UNCHANGED <<transport, rows, email, notifiedAt, waOpenedAt, jobs, opened, mail, faults>>

\* What a job whose attempt a failed becomes.
AfterFailure(a) == IF a < MaxAttempts THEN "PENDING" ELSE "FAILED"

\* The loop that waited writes the outcome.
End(j, a) ==
  /\ run[j][a] \in Over
  /\ run' = [run EXCEPT ![j][a] = "none"]
  /\ jobs' = [jobs EXCEPT ![j].status = IF run[j][a] = "returned" THEN "DONE" ELSE AfterFailure(a)]
  /\ UNCHANGED <<transport, rows, email, stamps, ghosts>>

\* JOB_TIMEOUT_MS: the loop stops waiting, the handler does not stop.
Timeout(j, a) ==
  /\ Waits(j, a) /\ run[j][a] \notin Over
  /\ faults < MaxFaults /\ faults' = faults + 1
  /\ jobs' = [jobs EXCEPT ![j].status = AfterFailure(a)]
  /\ mail' = Doubt({j})
  /\ UNCHANGED <<transport, rows, email, stamps, run, opened, excused>>

\* Fault: the start after a crash leaves RUNNING jobs alone.
ReclaimNothing(job) == job

\* reclaimStuckJobs and giveUpExhaustedJobs, at the start.
Reclaim(job) ==
  IF job.status = "RUNNING" THEN [job EXCEPT !.status = AfterFailure(job.attempts)] ELSE job

\* The process dies with its handlers, and starts again.  A last attempt that
\* dies before its catch leaves no mark.
Crash ==
  LET dying == {j \in Jobs : \E a \in Attempts : run[j][a] # "none"} IN
  /\ dying # {}
  /\ faults < MaxFaults /\ faults' = faults + 1
  /\ run' = [j \in Jobs |-> [a \in Attempts |-> "none"]]
  /\ jobs' = [j \in Jobs |-> Reclaim(jobs[j])]
  /\ mail' = Doubt(dying)
  /\ excused' = excused \cup Assigned(
       {jobs[j].to : j \in {i \in dying : ForRecipient(i) /\ jobs[i].attempts = MaxAttempts}})
  /\ UNCHANGED <<transport, rows, email, stamps, opened>>

-----------------------------------------------------------------------------

Service ==
  \/ \E r \in Recipients :
       \/ AddAssignments(r) \/ RemoveAssignment(r) \/ Resend(r) \/ MarkDone(r)
       \/ WriteBack(r) \/ OpenWhatsApp(r) \/ AutoOpen(r) \/ EditEmail(r)
  \/ WriteOut \/ Close \/ Reopen \/ DeleteTicket

Handle(j, a) == Read(j, a) \/ Send(j, a) \/ Stamp(j, a) \/ Catch(j, a) \/ End(j, a)

Next ==
  \/ Service
  \/ \E j \in Jobs : Claim(j)
  \/ \E j \in Jobs, a \in Attempts : Handle(j, a) \/ Timeout(j, a)
  \/ Crash

\* The loops poll for ever and an await returns, fails or is cut off by its
\* own time limit; nobody has to edit, close or crash anything.
Fairness ==
  /\ \A j \in Jobs : WF_vars(Claim(j))
  /\ \A j \in Jobs, a \in Attempts : WF_vars(Handle(j, a))

Spec == Init /\ [][Next]_vars /\ Fairness

-----------------------------------------------------------------------------
(* Properties *)

Job == [status : JobStatus, attempts : 0 .. MaxAttempts, to : Recipients,
        target : {"recipient", "opener"}]

\* The type of the state.
TypeOK ==
  /\ transport \in Channels /\ ticket \in {"open", "closed", "deleted"}
  /\ row \in [Recipients -> RowStatus]
  /\ email \in SUBSET Recipients /\ Contactable(email)
  /\ notifiedAt \subseteq Recipients /\ notifyFailedAt \subseteq Recipients
  /\ waOpenedAt \subseteq Phoned
  /\ jobs \in [Jobs -> Job]
  /\ run \in [Jobs -> [Attempts -> RunPc]]
  /\ opened \subseteq Recipients /\ excused \subseteq Recipients
  /\ mail \in [Jobs -> Mail] /\ faults \in 0 .. MaxFaults

\* A mail to r is still on its way: in the queue, or in a handler that runs.
Live(r) ==
  \E j \in Jobs : /\ jobs[j].to = r /\ jobs[j].status # "free" /\ ForRecipient(j)
                  /\ \/ jobs[j].status \in {"PENDING", "RUNNING"}
                     \/ \E a \in Attempts : run[j][a] # "none"

\* Both stamps of the e-mail say something that happened: "notified", that a
\* mail to this very recipient left; "failed", that a mail to him was tried
\* until no attempt was left (notifier/index.ts:163-182, 205-219).
StampsAreTrue ==
  /\ \A r \in notifiedAt :
       \E j \in Jobs : jobs[j].to = r /\ ForRecipient(j) /\ mail[j] # "none"
  /\ \A r \in notifyFailedAt :
       \E j \in Jobs : jobs[j].to = r /\ ForRecipient(j) /\ jobs[j].attempts = MaxAttempts

\* "Queued for sending" is a promise (delivery.ts:70-88): while the screen says
\* it of somebody with an address, a mail to him is on its way; the exceptions
\* are the recipients in excused, and no other.
PromiseIsKept ==
  \A r \in email : Active(r) /\ Note(r) = "queued" => Live(r) \/ r \in excused

\* The failure the system was built to prevent (tickets.ts:380-381): a contractor
\* is assigned, nobody told him, and nothing on the screen asks for it.
NobodySilent ==
  \A r \in Professionals :
    Active(r) => \/ r \in opened \/ Live(r) \/ r \in excused \/ r \in notifiedAt
                 \/ Note(r) \in {"failed", "noEmail", "noContact", "notConfigured"}

\* A job sends its mail once, unless an attempt ended without the worker
\* knowing how: a stamp that could not be written is no reason to send again
\* (notifier/index.ts:164-168).
OneMailPerJob == \A j \in Jobs : mail[j] # "again"

\* "Queued" does not stay: the mail leaves, fails for good or finds nobody to
\* go to, or one of the accepted gaps is behind it.
QueuedMoves ==
  \A r \in Recipients :
    (r \in email /\ Active(r) /\ Note(r) = "queued")
      ~> (~Active(r) \/ Note(r) # "queued" \/ r \in excused)
=============================================================================
