------------------------------ MODULE WaIntake ------------------------------
(***************************************************************************)
(* Tickets by WhatsApp, for one sender: what he writes reaches the system  *)
(* in any order and as late as Meta likes (wa-webhook.ts), is grouped into *)
(* reports by the time it was written (burst.ts), decided report by report *)
(* (wa-intake.ts) and answered (wa-reply.ts, here by its results only).    *)
(*                                                                         *)
(* The jobs obey JobLifecycle, which JobQueue implements. All of them run  *)
(* in one lane, so a handler meets another one, or the recording of a      *)
(* message, only when it outlived its time limit; users and administrators *)
(* act at any time. Times are ticks of an abstract clock.                  *)
(***************************************************************************)
EXTENDS Naturals, FiniteSets, FiniteSetsExt

CONSTANTS
  MaxMessages,   \* bound on what the sender writes
  None,          \* no message, no outcome
  Contents,      \* what a message may be: [voice, keyword]
  Quotable,      \* bound: the earlier messages that each message may reply to
  BurstQuiet,    \* BURST_QUIET_MS
  BurstCeiling,  \* BURST_CEILING_MS
  Delays,        \* deferDelayMs and EXTRACTION_RETRY_MS
  MaxTime,       \* bound on the clock
  MaxAttempts,   \* MAX_ATTEMPTS of the job queue
  MaxDefer,      \* MAX_DEFER_ATTEMPTS
  Jobs,          \* the rows of the Job table that the intake may use
  SlowAt,        \* the positions in which the time limit of a handler may fire
  MaxEvents      \* bound on what strikes the intake from outside: acts of users
                 \* and administrators, crashes, exceptions, time limits

ASSUME WaAssumption ==
  /\ MaxMessages \in Nat \ {0} /\ MaxTime \in Nat
  /\ Contents \subseteq [voice : BOOLEAN, keyword : BOOLEAN]
  /\ Quotable \in [1 .. MaxMessages -> SUBSET (1 .. MaxMessages)]
  /\ \A m \in 1 .. MaxMessages : \A q \in Quotable[m] : q < m
  /\ BurstQuiet \in Nat /\ BurstCeiling \in Nat /\ Delays \subseteq Nat
  /\ MaxAttempts \in Nat \ {0} /\ MaxDefer \in Nat \ {0}
  /\ MaxEvents \in Nat

VARIABLES
  now,                     \* the time of the lane's current round of jobs
  jobStatus, jobAttempts,  \* the Job rows of the intake
  runAt,                   \* when each of them falls due
  chat,      \* what the sender wrote, and when
  row,       \* the inbound WaMessage of each message
  out,       \* the outbound WaMessage that answers it
  ticket,    \* the ticket of the thread opened by each message
  hinted,    \* threads with a hintSentAt
  sender,    \* what the sender may do
  number,    \* the business number: its status and activatedAt
  handlers,  \* handlers in progress, also those nobody waits for any more
  entered,   \* how often the content of each message entered a draft
  hints,     \* explanations scheduled on account of each thread
  late,      \* messages recorded after one that was written later
  events     \* how often something struck from outside

jobs   == <<jobStatus, jobAttempts, runAt>>
mail   == <<chat, row, out, hinted>>
world  == <<ticket, sender, number>>
traces == <<entered, hints, late>>
vars   == <<now, jobs, mail, world, handlers, traces, events>>

-----------------------------------------------------------------------------
(* Values *)

\* Messages are named after their place in the order of the code: by the time
\* they were written, then by identifier.
Messages   == 1 .. MaxMessages

Queue == INSTANCE JobLifecycle WITH status <- jobStatus, attempts <- jobAttempts

\* WaOutcome, with the outcomes that no rule tells apart folded together.
Drafted  == {"created", "applied"}           \* answered by the state of the draft
Verdicts == {"noSite", "notPermitted", "afterDispatch", "afterDeletion"}
Outcomes == Drafted \cup Verdicts \cup {"noKeyword", "ignored"}

ASSUME NoneAssumption == None \notin Messages /\ None \notin Outcomes

Ended == {"returned", "threw"}
Pc    == {"look", "align", "drop", "hear", "plan", "decide", "write", "wait"}

Message == [at : Nat, voice : BOOLEAN, keyword : BOOLEAN, quotes : Messages \cup {None}]
RowType == [state : {"absent", "PENDING", "DONE", "FAILED"}, outcome : Outcomes \cup {None},
            heard : {"unheard", "understood", "empty"}, deferrals : Nat, tagged : BOOLEAN,
            wait : Nat, thread : Messages \cup {None}]
OutType == [state : {"absent", "PENDING", "SENT", "FAILED"},
            thread : Messages \cup {None}]
Handler == [job : Jobs, attempt : 1 .. MaxAttempts, pc : Pc \cup Ended,
            now : Nat, seen : SUBSET Messages, tries : [Messages -> Nat],
            words : SUBSET Messages, voices : SUBSET Messages,
            todo : SUBSET SUBSET Messages, open : SUBSET Messages, until : Nat,
            unit : SUBSET Messages, plan : Outcomes \cup {None},
            thread : Messages \cup {None}, sender : {"editor", "siteless"}]

Unwritten == [at |-> 0, voice |-> FALSE, keyword |-> FALSE, quotes |-> None]
Absent    == [state |-> "absent", outcome |-> None, heard |-> "unheard", deferrals |-> 0,
              tagged |-> FALSE, wait |-> 0, thread |-> None]

\* The first message is an earlier report: its draft is open and was answered.
Init ==
  /\ now = 0
  /\ Queue!Init /\ runAt = [j \in Jobs |-> 0]
  /\ chat = [m \in Messages |-> [Unwritten EXCEPT !.keyword = (m = 1)]]
  /\ row = [m \in Messages |-> IF m # 1 THEN Absent
              ELSE [Absent EXCEPT !.state = "DONE", !.outcome = "created", !.thread = 1]]
  /\ out = [m \in Messages |-> IF m # 1 THEN [state |-> "absent", thread |-> None]
                               ELSE [state |-> "SENT", thread |-> 1]]
  /\ ticket = [m \in Messages |-> IF m = 1 THEN "draft" ELSE "none"]
  /\ hinted = {} /\ handlers = {}
  /\ sender = "editor"
  /\ number \in [status : {"connected", "disconnected"}, activatedAt : {0}]
  /\ entered = [m \in Messages |-> IF m = 1 THEN 1 ELSE 0]
  /\ hints = [m \in Messages |-> 0] /\ late = {}
  /\ events = 0

Pending == {m \in Messages : row[m].state = "PENDING"}

-----------------------------------------------------------------------------
(* Reports: planBurst. A unit is the set of its messages. *)

\* The word was written, or said in a recording that was transcribed.
Keyword(m) == chat[m].keyword /\ (chat[m].voice => row[m].heard = "understood")

\* A unit with the word or begun by a reply ends with silence, any other one
\* only at the ceiling.
Closable(U) == chat[Min(U)].quotes # None \/ \E m \in U : Keyword(m)

DueAt(U) ==
  LET ceiling == chat[Min(U)].at + BurstCeiling
      quiet   == chat[Max(U)].at + BurstQuiet IN
  IF Closable(U) /\ quiet < ceiling THEN quiet ELSE ceiling

\* Fault: silence of exactly BURST_QUIET_MS separates two reports.
StartsNewUnitEarly(U, m) ==
  \/ chat[m].quotes # None
  \/ chat[m].at > chat[Min(U)].at + BurstCeiling
  \/ Closable(U) /\ chat[m].at >= chat[Max(U)].at + BurstQuiet

\* Message m does not join unit U before it.
StartsNewUnit(U, m) ==
  \/ chat[m].quotes # None
  \/ chat[m].at > chat[Min(U)].at + BurstCeiling
  \/ Closable(U) /\ chat[m].at > chat[Max(U)].at + BurstQuiet

\* The first messages of the units that P falls into.
Heads(P) ==
  LET head[m \in P] ==
        LET before == {n \in P : n < m} IN
        \/ before = {}
        \/ LET current == Max({n \in before : head[n]}) IN
             StartsNewUnit({n \in before : n >= current}, m)
  IN {m \in P : head[m]}

Units(P) == {{m \in P : m >= h /\ ~\E g \in Heads(P) : h < g /\ g <= m} : h \in Heads(P)}

\* Fault: a unit that the next message closed waits for its time.
RipeByTime(P, t) == {U \in Units(P) : t >= DueAt(U)}

\* Every unit but the last one was closed by the message after it.
Ready(P, t) == {U \in Units(P) : Max(U) # Max(P) \/ t >= DueAt(U)}

-----------------------------------------------------------------------------
(* Jobs and handlers *)

\* Identifiers that no job has yet.
FreeJobs == {j \in Jobs : jobStatus[j] = "NONE"}

\* Bound: once every message is decided, nothing more is followed.
InPlay == \E m \in Messages : row[m].state \in {"absent", "PENDING"}

\* Something strikes from outside.
Strikes == InPlay /\ events < MaxEvents /\ events' = events + 1

\* enqueue, in the transaction of its caller. All that the job brings is the
\* sender, so which message it names makes no difference.
IntakeAt(t) ==
  \E j \in FreeJobs : Queue!Create(j) /\ runAt' = [runAt EXCEPT ![j] = t]

Fresh(j, n, pc) ==
  [job |-> j, attempt |-> n, pc |-> pc, now |-> now, seen |-> {},
   tries |-> [m \in Messages |-> 0], words |-> {}, voices |-> {}, todo |-> {}, open |-> {},
   until |-> 0, unit |-> {}, plan |-> None, thread |-> None, sender |-> "editor"]

Running(h) == h.pc \notin Ended
\* The lane still waits for this handler.
Awaited(h) == jobStatus[h.job] = "RUNNING" /\ jobAttempts[h.job] = h.attempt
LaneIdle   == \A j \in Jobs : jobStatus[j] # "RUNNING"

At(h, pc) == h.pc = pc

Becomes(h, g) == handlers' = (handlers \ {h}) \cup {g}

\* A handler ends; the result of one that nobody waits for is dropped.
Ends(h, pc) == IF Awaited(h) THEN Becomes(h, Fresh(h.job, h.attempt, pc))
                             ELSE handlers' = handlers \ {h}

\* The lane begins its next round; its now serves all the jobs of the round.
BeginsRound ==
  /\ LaneIdle /\ InPlay /\ now < MaxTime
  /\ now' = now + 1
  /\ UNCHANGED <<jobs, mail, world, handlers, traces, events>>

\* The lane takes a job that is due. When it fell due is of no more use: if it is
\* put back, the backoff is over at some later round.
Starts(j) ==
  /\ LaneIdle /\ runAt[j] <= now
  /\ Queue!Start(j)
  /\ runAt' = [runAt EXCEPT ![j] = 0]
  /\ handlers' = handlers \cup {Fresh(j, jobAttempts[j] + 1, "look")}
  /\ UNCHANGED <<now, mail, world, traces, events>>

\* The handler ended in time: completeJob or failJob.
Settles(h) ==
  /\ ~Running(h)
  /\ IF h.pc = "returned" THEN Queue!Finish(h.job) ELSE Queue!PutBackOrGiveUp({h.job})
  /\ handlers' = handlers \ {h}
  /\ UNCHANGED <<now, runAt, mail, world, traces, events>>

\* The time limit fires: failJob, while the handler goes on.
TimesOut(h) ==
  /\ Running(h) /\ Awaited(h) /\ h.pc \in SlowAt /\ Strikes
  /\ Queue!PutBackOrGiveUp({h.job})
  /\ UNCHANGED <<now, runAt, mail, world, handlers, traces>>

\* The process dies and starts again: reclaimOrphanedJobs.
Crash ==
  LET orphans == {j \in Jobs : jobStatus[j] = "RUNNING"} IN
  /\ Strikes /\ orphans # {}
  /\ Queue!PutBackOrGiveUp(orphans)
  /\ handlers' = {}
  /\ UNCHANGED <<now, runAt, mail, world, traces>>

-----------------------------------------------------------------------------
(* Recording: recordMessage, from the job of a webhook delivery *)

\* cheapDecision, for a message of a type that is taken in.
TakesIn(at) == number.status = "connected" /\ at >= number.activatedAt /\ sender # "blocked"

\* Times at which message m can have been written, given the others.
WritingTimes(m) ==
  {t \in 0 .. now : \A n \in Messages : row[n].state # "absent" =>
                          IF n < m THEN chat[n].at <= t ELSE t <= chat[n].at}

\* A delivery is processed, and only now it shows what was written and when.
\* The message waits with a job of its own, or is set aside; one that is
\* recorded already is skipped (wamid is unique). It may quote an earlier
\* message or the answer to it, which belongs to the same thread.
Records(m) ==
  /\ LaneIdle /\ row[m].state = "absent"
  /\ \E c \in Contents, q \in {None} \cup Quotable[m], t \in WritingTimes(m) :
       /\ chat' = [chat EXCEPT ![m] = [at |-> t, voice |-> c.voice, keyword |-> c.keyword,
                                       quotes |-> q]]
       /\ IF TakesIn(t)
          THEN LET due == IF t + BurstQuiet > now THEN t + BurstQuiet ELSE now IN
               /\ row' = [row EXCEPT ![m].state = "PENDING", ![m].wait = due]
               /\ IntakeAt(due)
          ELSE /\ row' = [row EXCEPT ![m].state = "DONE", ![m].outcome = "ignored"]
               /\ UNCHANGED jobs
  /\ late' = IF \E n \in Messages : n > m /\ row[n].state # "absent" THEN late \cup {m} ELSE late
  /\ UNCHANGED <<now, out, hinted, world, handlers, entered, hints, events>>

-----------------------------------------------------------------------------
(* The intake: handleWaIntake *)

\* Deferrals of the messages P as they were read.
Tries(P) == [m \in Messages |-> IF m \in P THEN row[m].deferrals ELSE 0]

\* What planBurst makes of the messages P, as the handler carries it on.
Planned(h, P) ==
  LET ready == Ready(P, h.now)
      open  == P \ UNION ready IN
  [h EXCEPT !.tries = Tries(P),
            !.words = {m \in P : Keyword(m)}, !.todo = ready, !.open = open,
            !.until = IF open = {} THEN 0 ELSE DueAt(open)]

\* The next unit; after the last one, what is still open is put off.
Continues(h, g) ==
  \/ g.todo # {} /\ Becomes(h, [g EXCEPT !.pc = "decide"])
  \/ g.todo = {} /\ g.open # {} /\ Becomes(h, [g EXCEPT !.pc = "wait"])
  \/ g.todo = {} /\ g.open = {} /\ Ends(h, "returned")

\* backoffUntil: the rows that were put off after a failure.
Backoffs(P, t) == {row[m].wait : m \in {m \in P : row[m].tagged /\ row[m].wait > t}}
Unheard(P)     == {m \in P : chat[m].voice /\ row[m].heard = "unheard"}

\* The handler reads what is pending, the number and the sender.
Looks(h) ==
  LET P == Pending IN
  /\ At(h, "look")
  /\ \/ P = {} /\ Ends(h, "returned")
     \/ /\ Backoffs(P, h.now) # {}
        /\ Becomes(h, [h EXCEPT !.pc = "align", !.until = Max(Backoffs(P, h.now))])
     \/ /\ P # {} /\ Backoffs(P, h.now) = {}
        /\ number.status = "disconnected" \/ sender = "blocked"
        /\ Becomes(h, [h EXCEPT !.pc = "drop", !.seen = P])
     \/ /\ P # {} /\ Backoffs(P, h.now) = {}
        /\ number.status # "disconnected" /\ sender # "blocked"
        /\ \/ /\ Unheard(P) # {}
              /\ Becomes(h, [h EXCEPT !.pc = "hear", !.seen = P, !.voices = Unheard(P),
                                      !.tries = Tries(P),
                                      !.sender = sender])
           \/ Unheard(P) = {} /\ Continues(h, Planned([h EXCEPT !.sender = sender], P))
  /\ UNCHANGED <<now, jobs, mail, world, traces, events>>

\* A row that is decided or given up waits for nothing.
Over(r, state) == [r EXCEPT !.state = state, !.tagged = FALSE, !.wait = 0]

\* Rows of S that are still pending wait at least until t.
PutOff(S, t) == [m \in Messages |-> IF m \in S /\ row[m].state = "PENDING" /\ row[m].wait < t
                                    THEN [row[m] EXCEPT !.wait = t] ELSE row[m]]

\* Within the delay after a failure the job only aligns the newer messages.
Aligns(h) ==
  /\ At(h, "align")
  /\ row' = PutOff(Messages, h.until)
  /\ Ends(h, "returned")
  /\ UNCHANGED <<now, jobs, chat, out, hinted, world, traces, events>>

\* dropAll: the number was disconnected or the sender is not allowed any more.
Drops(h) ==
  /\ At(h, "drop")
  /\ row' = [m \in Messages |-> IF m \in h.seen /\ row[m].state = "PENDING"
               THEN [Over(row[m], "DONE") EXCEPT !.outcome = "ignored"]
               ELSE row[m]]
  /\ Ends(h, "returned")
  /\ UNCHANGED <<now, jobs, chat, out, hinted, world, traces, events>>

\* transcribeVoices: one recording after the other, each also if it turns out
\* that there is nothing to hear; a success lifts the delay of the row. (What is
\* set aside loses its transcript, which heard remembers.)
Hears(h) ==
  LET m == Min(h.voices) IN
  /\ At(h, "hear")
  /\ \E r \in {"understood", "empty"} :
       row' = [row EXCEPT ![m].heard = IF @ = "unheard" THEN r ELSE @,
                          ![m].tagged = @ /\ (h.tries[m] = 0 \/ row[m].state # "PENDING")]
  /\ Becomes(h, [h EXCEPT !.voices = @ \ {m},
                          !.pc = IF h.voices = {m} THEN "plan" ELSE "hear"])
  /\ UNCHANGED <<now, jobs, chat, out, hinted, world, traces, events>>

\* After a transcription what is pending is read again.
Plans(h) ==
  /\ At(h, "plan")
  /\ Continues(h, Planned(h, Pending))
  /\ UNCHANGED <<now, jobs, mail, world, traces, events>>

\* deferSender: message m failed, and all that is pending waits with it. The row
\* of m is written whatever became of it meanwhile.
Defers(h, m) ==
  /\ h.tries[m] + 1 < MaxDefer
  /\ \E d \in Delays :
       /\ IntakeAt(h.now + d)
       /\ row' = [PutOff(Messages, h.now + d) EXCEPT
                    ![m] = [row[m] EXCEPT !.deferrals = @ + 1, !.wait = h.now + d, !.tagged = TRUE]]
  /\ Ends(h, "returned")
  /\ UNCHANGED <<now, chat, out, hinted, world, traces, events>>

\* exhaust: the messages S are given up without a decision, the rest goes on.
Exhausts(h, m, S) ==
  /\ h.tries[m] + 1 >= MaxDefer
  /\ IntakeAt(h.now)
  /\ row' = [n \in Messages |-> IF n \in S /\ row[n].state = "PENDING"
               THEN Over(row[n], "FAILED") ELSE row[n]]
  /\ Ends(h, "returned")
  /\ UNCHANGED <<now, chat, out, hinted, world, traces, events>>

HearingFails(h) ==
  /\ At(h, "hear")
  /\ LET m == Min(h.voices) IN Defers(h, m) \/ Exhausts(h, m, {m})

\* decideReplyVerdict, in its order; "applied" stands for "merge".
Verdict(t, s) ==
  IF ticket[t] = "deleted" THEN "afterDeletion"
  ELSE IF s = "siteless" THEN "notPermitted"
  ELSE IF ticket[t] = "sent" THEN "afterDispatch"
  ELSE "applied"

\* decideUnit: the first unit that is left.
Decides(h) ==
  /\ At(h, "decide")
  /\ \E U \in h.todo :
       LET q == chat[Min(U)].quotes
           t == IF q = None THEN None ELSE row[q].thread
           plan == IF t # None THEN Verdict(t, h.sender)
                   ELSE IF U \cap h.words = {} THEN "noKeyword"
                   ELSE IF h.sender = "siteless" THEN "noSite"
                   ELSE "created" IN
       /\ \A V \in h.todo : Min(U) <= Min(V)
       /\ Becomes(h, [h EXCEPT !.pc = "write", !.unit = U, !.plan = plan,
                               !.thread = IF t = None THEN None ELSE t])
  /\ UNCHANGED <<now, jobs, mail, world, traces, events>>

Writes(h, plans) == At(h, "write") /\ h.plan \in plans
Last(h)          == Max(h.unit)

\* The download or the extraction asks for a delay.
UnitFails(h) ==
  /\ Writes(h, Drafted)
  /\ Defers(h, Last(h)) \/ Exhausts(h, Last(h), h.unit)

\* Fault: the unit is not looked for again under the lock.
SameSender(h) == sender = h.sender

\* lockUnchanged: with the sender's row locked, the unit is still one of the
\* units of what is pending now, and the sender is what he was.
Unchanged(h) == h.unit \in Ready(Pending, h.now) /\ sender = h.sender

\* Fault: nothing is written and no job decides again.
FindsChangedQuietly(h) ==
  /\ At(h, "write") /\ ~Unchanged(h)
  /\ Ends(h, "returned")
  /\ UNCHANGED <<now, jobs, mail, world, traces, events>>

\* Nothing is written; a job decides again at once.
FindsChanged(h) ==
  /\ At(h, "write") /\ ~Unchanged(h)
  /\ IntakeAt(h.now)
  /\ Ends(h, "returned")
  /\ UNCHANGED <<now, mail, world, traces, events>>

NextUnit(h) == Continues(h, [h EXCEPT !.todo = @ \ {h.unit}, !.unit = {}, !.plan = None,
                                      !.thread = None])

\* writeDecision and its like: the rows of the unit; a thread that is not
\* given is kept.
Decided(h, outcome, t) ==
  row' = [m \in Messages |-> IF m \notin h.unit THEN row[m] ELSE
            [Over(row[m], "DONE") EXCEPT
               !.outcome = outcome, !.thread = IF t = None THEN @ ELSE t]]

\* scheduleReply: the outbound row with its job. repliesToId is unique: a second
\* answer to a message would make the whole transaction fail (and Throws).
ScheduleReply(m, t) ==
  /\ out[m].state = "absent"
  /\ out' = [out EXCEPT ![m] = [state |-> "PENDING", thread |-> t]]

\* Open drafts of which the sender was told and that were not explained yet.
AwaitingHint ==
  {t \in Messages \ hinted :
     /\ ticket[t] = "draft"
     /\ \E m \in Messages : out[m].state = "SENT" /\ out[m].thread = t
                            /\ row[m].outcome \in Drafted}

\* A report without the word and without a thread, and the explanation.
SetsAside(h) ==
  /\ Writes(h, {"noKeyword"}) /\ Unchanged(h)
  /\ Decided(h, "noKeyword", None)
  /\ \/ AwaitingHint = {} /\ UNCHANGED <<out, hinted, hints>>
     \/ /\ AwaitingHint # {} /\ ScheduleReply(Last(h), None)
        /\ hinted' = hinted \cup AwaitingHint
        /\ hints' = [t \in Messages |-> IF t \in AwaitingHint THEN hints[t] + 1 ELSE hints[t]]
  /\ NextUnit(h)
  /\ UNCHANGED <<now, jobs, chat, world, entered, late, events>>

\* A decision that is answered and changes no draft.
Answers(h) ==
  /\ Writes(h, Verdicts) /\ Unchanged(h)
  /\ Decided(h, h.plan, h.thread) /\ ScheduleReply(Last(h), h.thread)
  /\ NextUnit(h)
  /\ UNCHANGED <<now, jobs, chat, hinted, world, traces, events>>

Enters(U) == entered' = [m \in Messages |-> IF m \in U THEN entered[m] + 1 ELSE entered[m]]

\* createWaDraft: the draft, its thread, the decision and the answer.
Creates(h) ==
  /\ Writes(h, {"created"}) /\ Unchanged(h)
  /\ Decided(h, "created", Last(h)) /\ ScheduleReply(Last(h), Last(h)) /\ Enters(h.unit)
  /\ ticket' = [ticket EXCEPT ![Last(h)] = "draft"]
  /\ NextUnit(h)
  /\ UNCHANGED <<now, jobs, chat, hinted, sender, number, hints, late, events>>

\* Fault: the verdict of before the download and the extraction stands.
ProbedVerdict(h) == h.plan

\* decideReplyVerdict again, on the ticket that is locked now.
LockedVerdict(h) == Verdict(h.thread, h.sender)

\* applyWaReply: with the ticket locked too, the verdict is taken again.
Applies(h) ==
  LET v == LockedVerdict(h) IN
  /\ Writes(h, {"applied"}) /\ Unchanged(h)
  /\ Decided(h, v, h.thread) /\ ScheduleReply(Last(h), h.thread)
  /\ IF v = "applied" THEN Enters(h.unit) ELSE UNCHANGED entered
  /\ NextUnit(h)
  /\ UNCHANGED <<now, jobs, chat, hinted, world, hints, late, events>>

\* What is still open waits for a job at the time it falls due.
Waits(h) ==
  /\ At(h, "wait")
  /\ row' = [m \in Messages |-> IF m \in h.open /\ row[m].state = "PENDING"
                                THEN [row[m] EXCEPT !.wait = h.until] ELSE row[m]]
  /\ IntakeAt(h.until)
  /\ Ends(h, "returned")
  /\ UNCHANGED <<now, chat, out, hinted, world, traces, events>>

HandlerStep(h) ==
  \/ Looks(h) \/ Aligns(h) \/ Drops(h) \/ Hears(h) \/ HearingFails(h) \/ Plans(h)
  \/ Decides(h) \/ UnitFails(h) \/ FindsChanged(h) \/ SetsAside(h) \/ Answers(h)
  \/ Creates(h) \/ Applies(h) \/ Waits(h)

\* An exception leaves the handler: the database, the storage or a unique
\* index says no.
Throws(h) ==
  /\ Running(h) /\ Strikes
  /\ Ends(h, "threw")
  /\ UNCHANGED <<now, jobs, mail, world, traces>>

\* The token was revoked: the number is in trouble, the handler throws.
FindsTokenRevoked(h) ==
  /\ At(h, "hear") \/ Writes(h, Drafted)
  /\ Strikes
  /\ number' = [number EXCEPT !.status = IF @ = "connected" THEN "error" ELSE @]
  /\ Ends(h, "threw")
  /\ UNCHANGED <<now, jobs, mail, ticket, sender, traces>>

-----------------------------------------------------------------------------
(* The rest of the system *)

\* The answer is sent, by a job of the same lane (sendWaReply). One that is
\* skipped or fails stays PENDING here: the intake asks only for those sent.
AnswerIsSent(m) ==
  /\ LaneIdle /\ InPlay /\ out[m].state = "PENDING"
  /\ out' = [out EXCEPT ![m].state = "SENT"]
  /\ UNCHANGED <<now, jobs, chat, row, hinted, world, handlers, traces, events>>

\* Meta reports that it did not arrive (applyStatus).
AnswerFails(m) ==
  /\ out[m].state = "SENT" /\ Strikes
  /\ out' = [out EXCEPT ![m].state = "FAILED"]
  /\ UNCHANGED <<now, jobs, chat, row, hinted, world, handlers, traces>>

\* A user sends a draft out, or deletes draft or ticket.
UserActs(t) ==
  /\ Strikes
  /\ \/ ticket[t] = "draft" /\ ticket' = [ticket EXCEPT ![t] = "sent"]
     \/ ticket[t] \in {"draft", "sent"} /\ ticket' = [ticket EXCEPT ![t] = "deleted"]
  /\ UNCHANGED <<now, jobs, mail, sender, number, handlers, traces>>

\* An administrator changes the sender's site or right to report.
SenderChanges ==
  /\ Strikes
  /\ sender' \in {"editor", "siteless", "blocked"} \ {sender}
  /\ UNCHANGED <<now, jobs, mail, ticket, number, handlers, traces>>

\* connectWhatsappNumber and disconnectWhatsappNumber.
NumberChanges ==
  /\ Strikes
  /\ \/ /\ number.status # "connected"
        /\ number' = [status |-> "connected", activatedAt |-> now]
     \/ /\ number.status # "disconnected"
        /\ number' = [number EXCEPT !.status = "disconnected"]
  /\ UNCHANGED <<now, jobs, mail, ticket, sender, handlers, traces>>

Next ==
  \/ BeginsRound \/ Crash \/ SenderChanges \/ NumberChanges
  \/ \E m \in Messages : Records(m) \/ AnswerIsSent(m) \/ AnswerFails(m) \/ UserActs(m)
  \/ \E j \in Jobs : Starts(j)
  \/ \E h \in handlers : HandlerStep(h) \/ Throws(h) \/ FindsTokenRevoked(h)
                         \/ Settles(h) \/ TimesOut(h)

Spec == Init /\ [][Next]_vars

-----------------------------------------------------------------------------
(* Properties *)

\* Every variable has its type, and a row is DONE when there is a decision.
TypeOK ==
  /\ now \in 0 .. MaxTime
  /\ jobStatus \in [Jobs -> Queue!Status] /\ jobAttempts \in [Jobs -> 0 .. MaxAttempts]
  /\ runAt \in [Jobs -> Nat]
  /\ chat \in [Messages -> Message]
  /\ row \in [Messages -> RowType]
  /\ \A m \in Messages : row[m].state = "DONE" <=> row[m].outcome # None
  /\ out \in [Messages -> OutType]
  /\ ticket \in [Messages -> {"none", "draft", "sent", "deleted"}]
  /\ hinted \subseteq Messages /\ late \subseteq Messages
  /\ sender \in {"editor", "siteless", "blocked"}
  /\ number \in [status : {"connected", "error", "disconnected"}, activatedAt : 0 .. MaxTime]
  /\ handlers \subseteq Handler
  /\ entered \in [Messages -> Nat] /\ hints \in [Messages -> Nat]
  /\ events \in 0 .. MaxEvents

\* A message that waits will be looked at no later than it says: when its
\* nextAttemptAt has come, a job is due or running, or one was given up where
\* people see it. Every handler leaves it so, whatever messages came while it
\* worked, whether it decides, waits, defers, finds its unit changed or throws
\* (a pending row past its nextAttemptAt is what wa-intake-not-stuck alarms of).
NobodyForgotten ==
  \A m \in Pending :
    \E j \in Jobs : /\ jobStatus[j] \in {"PENDING", "RUNNING", "FAILED"}
                    /\ runAt[j] <= row[m].wait \/ runAt[j] <= now

\* The content of a message enters a draft at most once, also when two handlers
\* hold the same unit.
EnteredOnce == \A m \in Messages : entered[m] <= 1

\* A report enters a draft whole: what was written after one of its messages,
\* within the silence and before its ceiling, enters with it if it is pending,
\* however late it came and whoever holds the report, unless a reply begins
\* another one first.
ReportIsWhole ==
  [][LET report == {m \in Messages : entered'[m] > entered[m]} IN
     \A m \in report, x \in Pending :
       (/\ m < x
        /\ chat[x].at <= chat[m].at + BurstQuiet
        /\ chat[x].at <= chat[Min(report)].at + BurstCeiling
        /\ \A y \in Pending : (m < y /\ y <= x) => chat[y].quotes = None)
       => x \in report]_vars

\* The reports of the sender are decided in the order he wrote them in: none
\* passes an earlier message that still waits, be it for a delay, for a retry
\* or for another handler, unless that message came late.
OrderIsKept ==
  [][\A m, x \in Messages :
       (x < m /\ row[m].state = "PENDING" /\ row'[m].state = "DONE" /\ row'[x].state = "PENDING")
         => x \in late]_vars

\* What is decided after the download and the extraction is decided for the world
\* as it is now (wa-intake.ts:406-414, 843-848), not as the handler read it seconds
\* ago: content enters a draft only while the sender may report and has a site, and
\* a reply only while its draft was neither sent nor deleted.
DecidedForNow ==
  [][\A m \in Messages : entered'[m] > entered[m] =>
       /\ sender = "editor"
       /\ row'[m].outcome = "applied" => ticket[row'[m].thread] = "draft"]_vars

\* The sender is given the explanation once for each draft.
HintedOnce == \A t \in Messages : hints[t] <= 1

\* Messages that piled up fall into the same reports as if each had been looked
\* at when it came: a unit that was over before the next message was written is
\* a unit among all of them, and one that was not takes that message in, unless
\* it is a reply (startsNewUnit promises this of a server that was down).
SplitsAsInRealTime ==
  LaneIdle => \A m \in Messages :
    (\A n \in 1 .. m : row[n].state # "absent") =>
      \A U \in Units(1 .. m - 1) :
        LET over == m - 1 \notin U \/ DueAt(U) < chat[m].at IN
          IF over \/ chat[m].quotes # None THEN U \in Units(1 .. m)
          ELSE U \cup {m} \in Units(1 .. m)
=============================================================================
