------------------------------ MODULE JobQueue ------------------------------
(***************************************************************************)
(* The job queue (src/jobs/queue.ts) and the worker that drains it         *)
(* (src/jobs/worker.ts): the lane loops, the time limit around a job, the  *)
(* start-up sequence, and the jobs that schedule their own successor       *)
(* (escalation, backup and the WhatsApp health check).                     *)
(*                                                                         *)
(* Every await in the worker is a step boundary: other loops, an execution *)
(* that outlived its time limit, the start-up code and the services that   *)
(* enqueue jobs all interleave there.                                      *)
(***************************************************************************)
EXTENDS Naturals, Sequences, FiniteSets

CONSTANTS
  Jobs,          \* identifiers of rows of the Job table
  Kinds,         \* job types
  KindOf,        \* the type each row is inserted with (so a bound per type)
  ChainOrder,    \* the self-scheduling types, in the order start-up visits them
  MailKinds,     \* MAIL_JOB_TYPES
  MarkedKinds,   \* types whose last failure is written on the row they serve
  SlowKinds,     \* types whose work may outlast JOB_TIMEOUT_MS
  Loops,         \* callers of processNextJob
  LaneOf,        \* the lane each caller asks for: "general", "mail" or "all"
  MaxAttempts,   \* MAX_ATTEMPTS
  RetryDelay,    \* RETRY_DELAY_MINUTES, in clock ticks
  Period,        \* distance between two runs of a self-scheduling job, in ticks
  PerTick,       \* MAX_JOBS_PER_TICK
  StartupFirst,  \* TRUE: start-up queries return before the first poll (2 s)
  MaxClock,      \* bound on the clock
  MaxCrashes,    \* bound on process crashes
  MaxDbErrors    \* bound on failed database calls of the worker itself

ChainKinds == {ChainOrder[i] : i \in DOMAIN ChainOrder}

ASSUME QueueAssumption ==
  /\ Jobs # {}
  /\ KindOf \in [Jobs -> Kinds]
  /\ MaxAttempts \in Nat \ {0}
  /\ RetryDelay \in [1 .. MaxAttempts -> Nat]
  /\ Period \in Nat \ {0}
  /\ PerTick \in Nat
  /\ MaxClock \in Nat /\ MaxCrashes \in Nat /\ MaxDbErrors \in Nat
  /\ ChainOrder \in Seq(Kinds)
  /\ MailKinds \subseteq Kinds
  /\ MarkedKinds \subseteq Kinds \ ChainKinds
  /\ LaneOf \in [Loops -> {"general", "mail", "all"}]
  /\ StartupFirst \in BOOLEAN

VARIABLES
  status, attempts, runAt,  \* columns of the Job table
  acted,      \* jobs whose handler did its work at least once
  marked,     \* jobs whose served row carries "failed for good"
  boot,       \* progress of the start-up sequence
  loop,       \* progress of each lane loop
  exec,       \* progress of the work of attempt a of job j
  workNow,    \* the time of the drain that work was started with
  clock, crashes, dbErrors

table == <<status, attempts, runAt>>
vars  == <<status, attempts, runAt, acted, marked, boot, loop, exec, workNow,
           clock, crashes, dbErrors>>

-----------------------------------------------------------------------------
(* Values *)

Status   == {"NONE", "PENDING", "RUNNING", "DONE", "FAILED"}
Final    == {"DONE", "FAILED"}
Attempts == 1 .. MaxAttempts
BootPc   == {"down", "reclaim", "giveUp", "check", "insert", "up"}
LoopPc   == {"idle", "ready", "candidate", "running", "fail",
             "resched", "reschedInsert"}
ExecPc   == {"none", "started", "acted", "insert", "returned", "threw"}

Live     == {"started", "acted", "insert"}    \* work still in progress
Held     == {"running", "fail"}               \* a loop answers for its job

NoLoop   == [pc |-> "idle", now |-> 0, left |-> 0, job |-> CHOOSE j \in Jobs : TRUE,
             attempt |-> 1]

Init ==
  /\ status = [j \in Jobs |-> "NONE"]
  /\ attempts = [j \in Jobs |-> 0]
  /\ runAt = [j \in Jobs |-> 0]
  /\ acted = {} /\ marked = {}
  /\ boot = [pc |-> "down", todo |-> ChainOrder]
  /\ loop = [l \in Loops |-> NoLoop]
  /\ exec = [j \in Jobs |-> [a \in Attempts |-> "none"]]
  /\ workNow = [j \in Jobs |-> [a \in Attempts |-> 0]]
  /\ clock = 0 /\ crashes = 0 /\ dbErrors = 0

-----------------------------------------------------------------------------
(* The table: queue.ts *)

\* laneFilter: no lane means every job; "general" is "not a mail type".
InLane(l, k) == CASE LaneOf[l] = "all"     -> TRUE
                  [] LaneOf[l] = "mail"    -> k \in MailKinds
                  [] LaneOf[l] = "general" -> k \notin MailKinds

\* enqueue: one row, PENDING, with its due time.
Enqueue(k, at) ==
  LET free == {j \in Jobs : status[j] = "NONE" /\ KindOf[j] = k}
      j    == CHOOSE j \in free : TRUE IN
    /\ free # {}
    /\ status' = [status EXCEPT ![j] = "PENDING"]
    /\ runAt' = [runAt EXCEPT ![j] = at]
    /\ UNCHANGED attempts

\* The candidates of claimNextJob's query, oldest due time first.
Due(l, now) == {j \in Jobs : /\ status[j] = "PENDING"
                             /\ runAt[j] <= now
                             /\ InLane(l, KindOf[j])}
Oldest(S) == {j \in S : \A i \in S : runAt[j] <= runAt[i]}

\* Fault: the attempt is not counted.
ClaimUpdateUncounted(j) ==
  /\ status[j] = "PENDING"
  /\ status' = [status EXCEPT ![j] = "RUNNING"]
  /\ UNCHANGED <<attempts, runAt>>

\* The update of claimNextJob, conditional on the row still being PENDING.
ClaimUpdate(j) ==
  /\ status[j] = "PENDING"
  /\ status' = [status EXCEPT ![j] = "RUNNING"]
  /\ attempts' = [attempts EXCEPT ![j] = @ + 1]
  /\ UNCHANGED runAt

\* completeJob writes DONE without looking at the row.
CompleteJob(j) ==
  /\ status' = [status EXCEPT ![j] = "DONE"]
  /\ UNCHANGED <<attempts, runAt>>

\* failJob decides by the attempt the caller holds, not by the row.
FailJob(j, a, now) ==
  LET exhausted == a >= MaxAttempts IN
  /\ status' = [status EXCEPT ![j] = IF exhausted THEN "FAILED" ELSE "PENDING"]
  /\ runAt' = IF exhausted THEN runAt
              ELSE [runAt EXCEPT ![j] = now + RetryDelay[a]]
  /\ UNCHANGED attempts

\* Faults: everything that ran is put back; what ran out of attempts is left.
ReclaimRequeueAll ==
  /\ status' = [j \in Jobs |-> IF status[j] = "RUNNING" THEN "PENDING" ELSE status[j]]
  /\ UNCHANGED <<attempts, runAt>>
ReclaimNothing == UNCHANGED table

\* reclaimOrphanedJobs, first and second update.
ReclaimRequeue ==
  /\ status' = [j \in Jobs |-> IF status[j] = "RUNNING" /\ attempts[j] < MaxAttempts
                               THEN "PENDING" ELSE status[j]]
  /\ UNCHANGED <<attempts, runAt>>
ReclaimGiveUp ==
  /\ status' = [j \in Jobs |-> IF status[j] = "RUNNING" /\ attempts[j] >= MaxAttempts
                               THEN "FAILED" ELSE status[j]]
  /\ UNCHANGED <<attempts, runAt>>

-----------------------------------------------------------------------------
(* Self-scheduling jobs: ensure...Scheduled checks, then inserts. *)

ChainPending(k) == \E j \in Jobs : status[j] = "PENDING" /\ KindOf[j] = k

\* The next multiple of Period after now: nextIsraelHour on a fixed-offset clock.
NextRun(now) == ((now \div Period) + 1) * Period

ScheduleNext(k, now) == Enqueue(k, NextRun(now))

-----------------------------------------------------------------------------
(* Start-up: the asynchronous block of startWorker *)

Up     == boot.pc # "down"
Booted == boot.pc = "up"

Boot ==
  /\ boot.pc = "down"
  /\ boot' = [pc |-> "reclaim", todo |-> ChainOrder]
  /\ UNCHANGED <<table, acted, marked, loop, exec, workNow, clock, crashes, dbErrors>>

BootReclaim ==
  /\ boot.pc = "reclaim"
  /\ ReclaimRequeue
  /\ boot' = [boot EXCEPT !.pc = "giveUp"]
  /\ UNCHANGED <<acted, marked, loop, exec, workNow, clock, crashes, dbErrors>>

BootGiveUp ==
  /\ boot.pc = "giveUp"
  /\ ReclaimGiveUp
  /\ boot' = [boot EXCEPT !.pc = IF ChainOrder = <<>> THEN "up" ELSE "check"]
  /\ UNCHANGED <<acted, marked, loop, exec, workNow, clock, crashes, dbErrors>>

\* The type start-up is at is settled; on to the next, or done.
BootAdvance ==
  boot' = [pc   |-> IF Len(boot.todo) > 1 THEN "check" ELSE "up",
           todo |-> Tail(boot.todo)]

BootCheck ==
  /\ boot.pc = "check"
  /\ IF ChainPending(Head(boot.todo)) THEN BootAdvance
     ELSE boot' = [boot EXCEPT !.pc = "insert"]
  /\ UNCHANGED <<table, acted, marked, loop, exec, workNow, clock, crashes, dbErrors>>

BootInsert ==
  /\ boot.pc = "insert"
  /\ ScheduleNext(Head(boot.todo), clock)
  /\ BootAdvance
  /\ UNCHANGED <<acted, marked, loop, exec, workNow, clock, crashes, dbErrors>>

\* A query of the block throws: the rest is skipped and the error reported.
BootError ==
  /\ boot.pc \notin {"down", "up"}
  /\ dbErrors < MaxDbErrors
  /\ dbErrors' = dbErrors + 1
  /\ boot' = [boot EXCEPT !.pc = "up"]
  /\ UNCHANGED <<table, acted, marked, loop, exec, workNow, clock, crashes>>

-----------------------------------------------------------------------------
(* A lane loop: startLaneLoop, drainJobs and processNextJob *)

LoopAt(l, pc) == Up /\ loop[l].pc = pc
Goto(l, pc)   == loop' = [loop EXCEPT ![l].pc = pc]
EndDrain(l)   == loop' = [loop EXCEPT ![l] = NoLoop]

\* One job of this drain is over, whatever its result.
NextInDrain(l) ==
  loop' = [loop EXCEPT ![l] = [@ EXCEPT !.pc = "ready", !.left = loop[l].left - 1]]

\* The timer fires; the time of the drain is read once, here.
TickStarts(l) ==
  /\ LoopAt(l, "idle")
  /\ StartupFirst => Booted
  /\ loop' = [loop EXCEPT ![l] = [@ EXCEPT !.pc = "ready", !.now = clock, !.left = PerTick]]
  /\ UNCHANGED <<table, acted, marked, boot, exec, workNow, clock, crashes, dbErrors>>

FindCandidate(l) ==
  /\ LoopAt(l, "ready")
  /\ LET S == IF loop[l].left = 0 THEN {} ELSE Due(l, loop[l].now) IN
     \/ S = {} /\ EndDrain(l)
     \/ \E j \in Oldest(S) :
          loop' = [loop EXCEPT ![l] = [@ EXCEPT !.pc = "candidate", !.job = j,
                                                !.attempt = attempts[j] + 1]]
  /\ UNCHANGED <<table, acted, marked, boot, exec, workNow, clock, crashes, dbErrors>>

\* The conditional update: the row is taken, or another caller was first and
\* the drain ends.
Claim(l) ==
  LET j == loop[l].job IN
  /\ LoopAt(l, "candidate")
  /\ \/ /\ ClaimUpdate(j)
        /\ Goto(l, "running")
        /\ exec' = [exec EXCEPT ![j][loop[l].attempt] = "started"]
        /\ workNow' = [workNow EXCEPT ![j][loop[l].attempt] = loop[l].now]
     \/ /\ status[j] # "PENDING"
        /\ EndDrain(l)
        /\ UNCHANGED <<table, exec, workNow>>
  /\ UNCHANGED <<acted, marked, boot, clock, crashes, dbErrors>>

Work(l) == exec[loop[l].job][loop[l].attempt]

\* The loop has the result of its work: nothing of that work is left.
Forget(l) ==
  /\ exec' = [exec EXCEPT ![loop[l].job][loop[l].attempt] = "none"]
  /\ workNow' = [workNow EXCEPT ![loop[l].job][loop[l].attempt] = 0]

\* Fault: an exception of the work is swallowed and the job completed.
CompleteAnyway(l) ==
  /\ LoopAt(l, "running") /\ Work(l) \in {"returned", "threw"}
  /\ CompleteJob(loop[l].job)
  /\ NextInDrain(l) /\ Forget(l)
  /\ UNCHANGED <<acted, marked, boot, clock, crashes, dbErrors>>

\* The work returned in time and completeJob succeeded.
Complete(l) ==
  /\ LoopAt(l, "running") /\ Work(l) = "returned"
  /\ CompleteJob(loop[l].job)
  /\ NextInDrain(l) /\ Forget(l)
  /\ UNCHANGED <<acted, marked, boot, clock, crashes, dbErrors>>

\* The catch block is entered because the work threw ...
WorkThrew(l) ==
  /\ LoopAt(l, "running") /\ Work(l) = "threw"
  /\ Goto(l, "fail") /\ Forget(l)
  /\ UNCHANGED <<table, acted, marked, boot, clock, crashes, dbErrors>>

\* Fault: the work is awaited without a limit.
NeverTimedOut(l) == FALSE

\* ... or because the time limit fired; the work itself goes on ...
TimedOut(l) ==
  /\ LoopAt(l, "running") /\ Work(l) \in Live
  /\ KindOf[loop[l].job] \in SlowKinds
  /\ Goto(l, "fail")
  /\ UNCHANGED <<table, acted, marked, boot, exec, workNow, clock, crashes, dbErrors>>

\* ... or because completeJob itself failed.
CompleteError(l) ==
  /\ LoopAt(l, "running") /\ Work(l) = "returned"
  /\ dbErrors < MaxDbErrors
  /\ dbErrors' = dbErrors + 1
  /\ Goto(l, "fail") /\ Forget(l)
  /\ UNCHANGED <<table, acted, marked, boot, clock, crashes>>

\* Fault: the next run is not scheduled after a final failure.
FailOnly(l) ==
  /\ LoopAt(l, "fail")
  /\ FailJob(loop[l].job, loop[l].attempt, loop[l].now)
  /\ NextInDrain(l)
  /\ UNCHANGED <<acted, marked, boot, exec, workNow, clock, crashes, dbErrors>>

Fail(l) ==
  LET j == loop[l].job IN
  /\ LoopAt(l, "fail")
  /\ FailJob(j, loop[l].attempt, loop[l].now)
  /\ IF KindOf[j] \in ChainKinds THEN Goto(l, "resched") ELSE NextInDrain(l)
  /\ UNCHANGED <<acted, marked, boot, exec, workNow, clock, crashes, dbErrors>>

\* A query outside the try, or failJob inside the catch, throws out of the
\* drain: the tick reports it, waits and starts over.
LoopError(l) ==
  /\ Up /\ loop[l].pc \in {"ready", "candidate", "fail"}
  /\ dbErrors < MaxDbErrors
  /\ dbErrors' = dbErrors + 1
  /\ EndDrain(l)
  /\ UNCHANGED <<table, acted, marked, boot, exec, workNow, clock, crashes>>

\* ensureDailyRescheduled after a failure.
Resched(l) ==
  /\ LoopAt(l, "resched")
  /\ IF ChainPending(KindOf[loop[l].job]) THEN NextInDrain(l)
     ELSE Goto(l, "reschedInsert")
  /\ UNCHANGED <<table, acted, marked, boot, exec, workNow, clock, crashes, dbErrors>>

ReschedInsert(l) ==
  /\ LoopAt(l, "reschedInsert")
  /\ ScheduleNext(KindOf[loop[l].job], loop[l].now)
  /\ NextInDrain(l)
  /\ UNCHANGED <<acted, marked, boot, exec, workNow, clock, crashes, dbErrors>>

\* A failure of the rescheduling is caught and reported; the drain goes on.
ReschedError(l) ==
  /\ Up /\ loop[l].pc \in {"resched", "reschedInsert"}
  /\ dbErrors < MaxDbErrors
  /\ dbErrors' = dbErrors + 1
  /\ NextInDrain(l)
  /\ UNCHANGED <<table, acted, marked, boot, exec, workNow, clock, crashes>>

LoopStep(l) ==
  \/ TickStarts(l) \/ FindCandidate(l) \/ Claim(l) \/ Complete(l)
  \/ WorkThrew(l) \/ TimedOut(l) \/ Fail(l) \/ Resched(l) \/ ReschedInsert(l)

-----------------------------------------------------------------------------
(* The work of one attempt: runJob. A chain job does its work, checks for a  *)
(* waiting successor, inserts one if there is none, and returns.             *)

At(j, a, pc)    == Up /\ exec[j][a] = pc
MoveTo(j, a, pc) == exec' = [exec EXCEPT ![j][a] = pc]

Act(j, a) ==
  /\ At(j, a, "started")
  /\ acted' = acted \cup {j}
  /\ MoveTo(j, a, IF KindOf[j] \in ChainKinds THEN "acted" ELSE "returned")
  /\ UNCHANGED <<table, marked, boot, loop, workNow, clock, crashes, dbErrors>>

EnsureCheck(j, a) ==
  /\ At(j, a, "acted")
  /\ MoveTo(j, a, IF ChainPending(KindOf[j]) THEN "returned" ELSE "insert")
  /\ UNCHANGED <<table, acted, marked, boot, loop, workNow, clock, crashes, dbErrors>>

EnsureInsert(j, a) ==
  /\ At(j, a, "insert")
  /\ ScheduleNext(KindOf[j], workNow[j][a])
  /\ MoveTo(j, a, "returned")
  /\ UNCHANGED <<acted, marked, boot, loop, workNow, clock, crashes, dbErrors>>

\* The handler throws, before or after its work had an effect. The wrapper of
\* the last attempt marks the row the job serves.
Throw(j, a) ==
  /\ Up /\ exec[j][a] \in Live
  /\ MoveTo(j, a, "threw")
  /\ acted' \in {acted, acted \cup {j}}
  /\ marked' = IF a >= MaxAttempts /\ KindOf[j] \in MarkedKinds
               THEN marked \cup {j} ELSE marked
  /\ UNCHANGED <<table, boot, loop, workNow, clock, crashes, dbErrors>>

ExecStep(j, a) ==
  Act(j, a) \/ EnsureCheck(j, a) \/ EnsureInsert(j, a) \/ Throw(j, a)

-----------------------------------------------------------------------------
(* The environment *)

\* A service of the application writes a job together with its own change.
ServiceEnqueues ==
  /\ Up
  /\ \E k \in Kinds \ ChainKinds : Enqueue(k, clock)
  /\ UNCHANGED <<acted, marked, boot, loop, exec, workNow, clock, crashes, dbErrors>>

Tick ==
  /\ clock < MaxClock
  /\ clock' = clock + 1
  /\ UNCHANGED <<table, acted, marked, boot, loop, exec, workNow, crashes, dbErrors>>

\* The process dies: everything that is not a column is gone.
Crash ==
  /\ Up /\ crashes < MaxCrashes
  /\ crashes' = crashes + 1
  /\ boot' = [pc |-> "down", todo |-> ChainOrder]
  /\ loop' = [l \in Loops |-> NoLoop]
  /\ exec' = [j \in Jobs |-> [a \in Attempts |-> "none"]]
  /\ workNow' = [j \in Jobs |-> [a \in Attempts |-> 0]]
  /\ UNCHANGED <<table, acted, marked, clock, dbErrors>>

BootStep == Boot \/ BootReclaim \/ BootGiveUp \/ BootCheck \/ BootInsert

Next ==
  \/ BootStep \/ BootError
  \/ \E l \in Loops : LoopStep(l) \/ CompleteError(l) \/ LoopError(l) \/ ReschedError(l)
  \/ \E j \in Jobs, a \in Attempts : ExecStep(j, a)
  \/ ServiceEnqueues \/ Tick \/ Crash

Spec == Init /\ [][Next]_vars

(***************************************************************************)
(* What the runtime guarantees: a process that is down is started again,   *)
(* start-up takes its next step, time passes. The work of a job is         *)
(* promised nothing: it may hang for ever, and only its time limit frees   *)
(* the loop. The timers of a lane loop are the premise of LaneSettles.     *)
(***************************************************************************)
FairSpec == Spec /\ WF_vars(BootStep) /\ WF_vars(Tick)

-----------------------------------------------------------------------------
(* Properties *)

\* Every variable has its type.
TypeOK ==
  /\ status \in [Jobs -> Status]
  /\ attempts \in [Jobs -> 0 .. MaxAttempts]
  /\ runAt \in [Jobs -> Nat]
  /\ acted \subseteq Jobs /\ marked \subseteq Jobs
  /\ boot \in [pc : BootPc, todo : Seq(ChainKinds)]
  /\ loop \in [Loops -> [pc : LoopPc, now : Nat, left : 0 .. PerTick,
                         job : Jobs, attempt : Attempts]]
  /\ exec \in [Jobs -> [Attempts -> ExecPc]]
  /\ workNow \in [Jobs -> [Attempts -> Nat]]
  /\ clock \in 0 .. MaxClock
  /\ crashes \in 0 .. MaxCrashes
  /\ dbErrors \in 0 .. MaxDbErrors

\* A row waiting in the table always has an attempt left and a row given up
\* has used all of them, although failJob trusts the attempt its caller holds
\* and reclaimOrphanedJobs trusts the row.
AttemptsDecide ==
  \A j \in Jobs : /\ status[j] = "PENDING" => attempts[j] < MaxAttempts
                  /\ status[j] = "FAILED"  => attempts[j] = MaxAttempts

\* completeJob writes DONE unconditionally, yet no row is DONE unless its
\* handler did its work: not after a time-out, a restart or a failed update.
DoneMeansActed == \A j \in Jobs : status[j] = "DONE" => j \in acted

\* A decided row is never touched again: no late failJob, completeJob or
\* reclaim reopens or overturns it, whoever held the job.
FinalIsFinal ==
  [][\A j \in Jobs : status[j] \in Final => status'[j] = status[j]]_vars

\* A self-scheduling type never dies out: once start-up is over, one of its
\* rows waits or runs, or a loop is about to insert one, as long as no query
\* of the worker failed.
ChainAlive ==
  (Booted /\ dbErrors = 0) =>
    \A k \in ChainKinds :
      \/ \E j \in Jobs : KindOf[j] = k /\ status[j] \in {"PENDING", "RUNNING"}
      \/ \E l \in Loops : /\ loop[l].pc \in {"resched", "reschedInsert"}
                          /\ KindOf[loop[l].job] = k

\* A row is RUNNING only while a loop answers for it, once start-up is over: a
\* time-out, an exception or a restart never strands it (the comment of
\* reclaimOrphanedJobs). A failed database call of the worker may.
RunningIsHeld ==
  (Booted /\ dbErrors = 0) =>
    \A j \in Jobs : status[j] = "RUNNING" =>
      \E l \in Loops : loop[l].pc \in Held /\ loop[l].job = j

\* The queue as its users see it: each row moves only as JobLifecycle says.
Lifecycle == INSTANCE JobLifecycle
Refines == Lifecycle!Spec

\* A lane whose own timers fire decides every job of its own that is due, or
\* puts it off to a later time: it needs nothing of the other lanes, and a job
\* that hangs in it delays the next only until its time limit.
LaneSettles ==
  \A l \in Loops : WF_vars(LoopStep(l)) =>
    \A j \in Jobs : InLane(l, KindOf[j]) =>
      ((status[j] \in {"PENDING", "RUNNING"} /\ runAt[j] <= clock)
         ~> (status[j] \in Final \/ runAt[j] > clock))

\* Exactly one waiting job of each self-scheduling type (the comments of
\* ensureDailyEscalationScheduled and ensureWaHealthScheduled): never two. It
\* does not hold: work that outlived its limit inserts a second one. Not run.
AtMostOneWaiting ==
  \A k \in ChainKinds :
    Cardinality({j \in Jobs : KindOf[j] = k /\ status[j] = "PENDING"}) <= 1

\* A job given up for good leaves its mark on the row it serves (the comments
\* of runNotify and runEmailReply), unless its work was done after all. It does
\* not hold: a crash or a time-out of the last attempt marks nothing. Not run.
FailureIsMarked ==
  \A j \in Jobs :
    (/\ status[j] = "FAILED" /\ KindOf[j] \in MarkedKinds
     /\ \A a \in Attempts : exec[j][a] \notin Live)
      => j \in marked \cup acted
=============================================================================
