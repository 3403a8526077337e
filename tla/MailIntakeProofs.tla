-------------------------- MODULE MailIntakeProofs --------------------------
(***************************************************************************)
(* Proofs about MailIntake: what holds for any number of messages, rounds  *)
(* of the poll, attempts, deferrals, crashes and handlers that outlive     *)
(* their time limit.                                                       *)
(***************************************************************************)
EXTENDS MailIntake, TLAPS

-----------------------------------------------------------------------------
(* The inductive invariant *)

\* A job is started only when it is due.
DueFirst == \A j \in Jobs : j \notin due => jobStatus[j] \in {"NONE", "PENDING"}

\* What is known of the handlers: which attempts they are, that a result is
\* kept only for a lane that waits for it, and that nobody waits no longer
\* unless a time limit fired.
HandlersKnown ==
  /\ \A h \in handlers : /\ jobStatus[h.job] # "NONE" /\ h.job \in due
                         /\ h.attempt <= jobAttempts[h.job]
                         /\ ~Running(h) => Awaited(h)
                         /\ h.job \notin timedOut => Awaited(h)
  /\ \A h, g \in handlers : (h.job = g.job /\ h.attempt = g.attempt) => h = g

\* A row that waits names a job of its own.
WaitsForOwn == \A m \in Mails :
  row[m].wait # None => About(row[m].wait) = m /\ jobStatus[row[m].wait] # "NONE"

\* A job that will come back to its message, or was given up in sight.
Promised(j) == /\ jobStatus[j] \in {"PENDING", "RUNNING", "FAILED"}
               /\ \A h \in handlers : h.job = j => h.pc # "returned"
RowsPromised == \A m \in Mails : row[m].state = "PENDING" =>
  \E j \in IntakeJobs : About(j) = m /\ Promised(j)

\* An answer has its job as long as it waits; a handler that returned settled it.
AnswersPromised ==
  /\ \A m \in Mails :
       /\ out[m].state = "absent" => jobStatus[ReplyTo(m)] = "NONE" /\ copies[m] = 0
       /\ out[m].state = "PENDING" => jobStatus[ReplyTo(m)] \in {"PENDING", "RUNNING", "FAILED"}
  /\ \A h \in handlers : (h.job \in ReplyJobs /\ h.pc = "returned") =>
       out[About(h.job)].state # "PENDING"

\* Content enters a draft together with the answer that says so.
EnteredWithAnswer == \A m \in Mails :
  entered[m] <= 1 /\ (out[m].state = "absent" => entered[m] = 0)

\* A thread is one of a ticket that was opened.
ThreadsOpened ==
  /\ \A m \in Mails : row[m].thread # None => ticket[row[m].thread] # "none"
  /\ \A h \in handlers : /\ h.thread # None => ticket[h.thread] # "none"
                         /\ h.plan = "applied" => h.thread # None

\* What is stamped was sent.
StampsTrue ==
  /\ SentMeansDelivered
  /\ \A h \in handlers : (h.job \in ReplyJobs /\ h.pc = "stamp") => copies[About(h.job)] > 0

\* While the search works and no handler of the answer was given up: nothing
\* is sent uncounted, and what is about to be sent was not sent before.
Sighted(m) == m \notin blind /\ ReplyTo(m) \notin timedOut
SentOnceCounted == \A m \in Mails : Sighted(m) =>
  /\ copies[m] <= 1
  /\ copies[m] > 0 => out[m].tried
  /\ \A h \in handlers : h.job = ReplyTo(m) =>
       /\ h.pc \in {"search", "send", "stamp"} => out[m].tried
       /\ (h.pc = "count" /\ h.seen = 0) \/ h.pc = "send" => copies[m] = 0

IInv == /\ TypeOK /\ DueFirst /\ HandlersKnown /\ WaitsForOwn /\ RowsPromised
        /\ AnswersPromised /\ EnteredWithAnswer /\ ThreadsOpened /\ StampsTrue
        /\ SentOnceCounted

-----------------------------------------------------------------------------
(* Identifiers of jobs *)

LEMMA JobIds ==
  /\ \A j \in Jobs : About(j) \in Mails
  /\ \A m \in Mails : ReplyTo(m) \in ReplyJobs /\ About(ReplyTo(m)) = m
  /\ \A j \in ReplyJobs : j = ReplyTo(About(j))
  /\ IntakeJobs \cap ReplyJobs = {}
  /\ Jobs = IntakeJobs \cup ReplyJobs
<1>1. \A j \in Jobs : About(j) \in Mails
  BY DEF Jobs, IntakeJobs, ReplyJobs, About
<1>2. \A m \in Mails : ReplyTo(m) \in ReplyJobs /\ About(ReplyTo(m)) = m
  BY DEF ReplyJobs, About, ReplyTo
<1>3. \A j \in ReplyJobs : j = ReplyTo(About(j))
  BY DEF ReplyJobs, About, ReplyTo
<1>4. IntakeJobs \cap ReplyJobs = {}
  <2> SUFFICES ASSUME NEW j \in IntakeJobs, j \in ReplyJobs PROVE FALSE
    OBVIOUS
  <2> QED BY DEF IntakeJobs, ReplyJobs
<1> QED BY <1>1, <1>2, <1>3, <1>4 DEF Jobs

LEMMA InitIInv == Init => IInv
<1> SUFFICES ASSUME Init PROVE IInv
  OBVIOUS
<1> PICK opened \in SUBSET Earlier :
    /\ row = [m \in Mails |->
                IF m \in opened
                THEN [state |-> "DONE", outcome |-> "created", deferrals |-> 0,
                      wait |-> None, thread |-> m]
                ELSE [state |-> "absent", outcome |-> None, deferrals |-> 0,
                      wait |-> None, thread |-> None]]
    /\ out = [m \in Mails |->
                IF m \in opened THEN [state |-> "SENT", tried |-> TRUE, thread |-> m]
                ELSE [state |-> "absent", tried |-> FALSE, thread |-> None]]
    /\ ticket = [m \in Mails |-> IF m \in opened THEN "draft" ELSE "none"]
    /\ copies = [m \in Mails |-> IF m \in opened THEN 1 ELSE 0]
    /\ entered = copies
    /\ Queue!Init /\ due = {}
    /\ sender = [m \in Mails |-> "editor"]
    /\ poll = [p \in Polls |-> None] /\ handlers = {}
    /\ blind = {} /\ timedOut = {} /\ crashes = 0
  BY DEF Init
<1> USE MailAssumption, NoneAssumption
<1>0. jobStatus = [j \in Jobs |-> "NONE"] /\ jobAttempts = [j \in Jobs |-> 0]
  BY DEF Queue!Init
<1>1. TypeOK
  <2>1. row \in [Mails -> RowType]
    BY DEF RowType, RowStates, Outcomes, Answered, Drafted
  <2>2. out \in [Mails -> OutType]
    BY DEF OutType, OutStates
  <2>3. jobStatus \in [Jobs -> Queue!Status] /\ jobAttempts \in [Jobs -> 0 .. MaxAttempts]
    BY <1>0 DEF Queue!Status
  <2>4. copies \in [Mails -> Nat]
    OBVIOUS
  <2>5. ticket \in [Mails -> {"none", "draft", "sent", "deleted"}]
    OBVIOUS
  <2>6. poll \in [Polls -> Mails \cup {None}] /\ sender \in [Mails -> {"editor", "reader", "stranger"}]
    OBVIOUS
  <2>7. due \subseteq Jobs /\ handlers \subseteq Handler /\ crashes \in 0 .. MaxCrashes
    OBVIOUS
  <2>8. entered \in [Mails -> Nat] /\ blind \subseteq Mails /\ timedOut \subseteq Jobs
    BY <2>4
  <2> QED BY <2>1, <2>2, <2>3, <2>4, <2>5, <2>6, <2>7, <2>8 DEF TypeOK
<1>2. DueFirst /\ HandlersKnown /\ WaitsForOwn
  BY <1>0 DEF DueFirst, HandlersKnown, WaitsForOwn
<1>3. RowsPromised
  BY DEF RowsPromised
<1>4. AnswersPromised /\ EnteredWithAnswer
  BY <1>0, JobIds DEF AnswersPromised, EnteredWithAnswer
<1>5. ThreadsOpened
  BY DEF ThreadsOpened
<1>6. StampsTrue /\ SentOnceCounted
  BY DEF StampsTrue, SentMeansDelivered, SentOnceCounted
<1> QED BY <1>1, <1>2, <1>3, <1>4, <1>5, <1>6 DEF IInv

-----------------------------------------------------------------------------
(* Handlers *)

\* Handler h becomes g, or ends.
Moves(h, g) == /\ g \in Handler /\ g.job = h.job /\ g.attempt = h.attempt
               /\ handlers' \subseteq (handlers \ {h}) \cup {g}
               /\ (g \in handlers' /\ ~Running(g)) => Awaited(h)

\* Jobs are only added.
JobsGrow == /\ jobStatus' \in [Jobs -> Queue!Status]
            /\ jobAttempts' = jobAttempts /\ timedOut' = timedOut
            /\ due \subseteq due' /\ due' \subseteq Jobs
            /\ \A j \in Jobs : \/ jobStatus'[j] = jobStatus[j]
                               \/ jobStatus[j] = "NONE" /\ jobStatus'[j] = "PENDING"

LEMMA HandlerTyped ==
  ASSUME IInv, NEW h \in handlers
  PROVE  /\ h \in Handler /\ h.job \in Jobs /\ About(h.job) \in Mails
         /\ h.attempt \in 1 .. MaxAttempts /\ h.seen \in Nat
         /\ h.plan \in Outcomes \cup {"defer", None} /\ h.thread \in Mails \cup {None}
         /\ h.pc \in IntakePc \cup ReplyPc \cup Ended
<1>1. h \in Handler
  BY DEF IInv, TypeOK
<1>2. Handler \subseteq [job : Jobs, attempt : 1 .. MaxAttempts,
                         pc : IntakePc \cup ReplyPc \cup Ended, seen : Nat,
                         plan : Outcomes \cup {"defer", None}, thread : Mails \cup {None}]
  BY JobIds DEF Handler, HandlerOf
<1>3. h.job \in Jobs
  BY <1>1, <1>2
<1> QED BY <1>1, <1>2, <1>3, JobIds

LEMMA PcChange ==
  ASSUME NEW h \in Handler, NEW pc,
         \/ h.job \in IntakeJobs /\ pc \in IntakePc \cup Ended
         \/ h.job \in ReplyJobs /\ pc \in ReplyPc \cup Ended
  PROVE  LET g == [h EXCEPT !.pc = pc] IN
         /\ g \in Handler /\ g.pc = pc
         /\ g.job = h.job /\ g.attempt = h.attempt /\ g.seen = h.seen
         /\ g.plan = h.plan /\ g.thread = h.thread
  BY JobIds DEF Handler, HandlerOf

LEMMA GoesMoves ==
  ASSUME IInv, NEW h \in handlers, NEW pc, Goes(h, pc),
         \/ h.job \in IntakeJobs /\ pc \in IntakePc
         \/ h.job \in ReplyJobs /\ pc \in ReplyPc
  PROVE  Moves(h, [h EXCEPT !.pc = pc])
<1> DEFINE g == [h EXCEPT !.pc = pc]
<1>1. g \in Handler /\ g.pc = pc /\ g.job = h.job /\ g.attempt = h.attempt
  BY HandlerTyped, PcChange
<1>2. Running(g)
  BY <1>1 DEF Running, Ended, IntakePc, ReplyPc
<1> QED BY <1>1, <1>2 DEF Moves, Goes, Becomes

LEMMA EndsMoves ==
  ASSUME IInv, NEW h \in handlers, NEW pc \in Ended, Ends(h, pc)
  PROVE  Moves(h, [h EXCEPT !.pc = pc])
<1> DEFINE g == [h EXCEPT !.pc = pc]
<1>1. g \in Handler /\ g.pc = pc /\ g.job = h.job /\ g.attempt = h.attempt
  BY HandlerTyped, PcChange, JobIds
<1>2. CASE Awaited(h)
  BY <1>1, <1>2 DEF Moves, Ends, Goes, Becomes
<1>3. CASE ~Awaited(h)
  <2>1. handlers' = handlers \ {h}
    BY <1>3 DEF Ends
  <2>2. g \notin handlers'
    BY <2>1, <1>1 DEF IInv, HandlersKnown
  <2> QED BY <1>1, <2>1, <2>2 DEF Moves
<1> QED BY <1>2, <1>3

LEMMA MovesKeeps ==
  ASSUME IInv, NEW h \in handlers, NEW g, Moves(h, g), JobsGrow
  PROVE  handlers' \subseteq Handler /\ DueFirst' /\ HandlersKnown'
<1>1. handlers' \subseteq Handler
  BY DEF Moves, IInv, TypeOK
<1>2. DueFirst'
  BY DEF JobsGrow, IInv, DueFirst
<1>3. \A k \in handlers : k.job \in Jobs
  BY HandlerTyped
<1>4. \A k \in handlers : jobStatus'[k.job] = jobStatus[k.job]
  BY <1>3 DEF JobsGrow, IInv, HandlersKnown
<1>5. \A k \in handlers : /\ jobStatus'[k.job] # "NONE" /\ k.job \in due'
                          /\ k.attempt <= jobAttempts'[k.job]
                          /\ ~Running(k) => Awaited(k)'
                          /\ k.job \notin timedOut' => Awaited(k)'
  BY <1>4 DEF JobsGrow, IInv, HandlersKnown, Awaited
<1>6. Awaited(h) <=> Awaited(g)'
  BY <1>4 DEF JobsGrow, Moves, Awaited
<1>7. /\ jobStatus'[g.job] # "NONE" /\ g.job \in due'
      /\ g.attempt <= jobAttempts'[g.job]
      /\ (g \in handlers' /\ ~Running(g)) => Awaited(g)'
      /\ g.job \notin timedOut' => Awaited(g)'
  BY <1>5, <1>6 DEF Moves, JobsGrow, Awaited
<1>8. \A k \in handlers' : k = g \/ (k \in handlers /\ k # h)
  BY DEF Moves
<1>9. \A k, l \in handlers' : (k.job = l.job /\ k.attempt = l.attempt) => k = l
  BY <1>8 DEF Moves, IInv, HandlersKnown
<1>10. \A k \in handlers' : /\ jobStatus'[k.job] # "NONE" /\ k.job \in due'
                            /\ k.attempt <= jobAttempts'[k.job]
                            /\ ~Running(k) => Awaited(k)'
                            /\ k.job \notin timedOut' => Awaited(k)'
  BY <1>5, <1>7, <1>8
<1> QED BY <1>1, <1>2, <1>9, <1>10 DEF HandlersKnown, Running

-----------------------------------------------------------------------------
(* What each part of the invariant asks of a step of a handler *)

LEMMA PromiseStep ==
  ASSUME IInv, NEW h \in handlers, NEW g, Moves(h, g), JobsGrow,
         \A m \in Mails : row'[m].state = "PENDING" =>
           \E j \in IntakeJobs : About(j) = m /\
             \/ jobStatus[j] = "NONE" /\ jobStatus'[j] = "PENDING"
             \/ Promised(j) /\ ~(j = h.job /\ g.pc = "returned")
  PROVE  RowsPromised'
<1> SUFFICES ASSUME NEW m \in Mails, row'[m].state = "PENDING"
             PROVE  \E j \in IntakeJobs : About(j) = m /\ Promised(j)'
  BY DEF RowsPromised
<1>1. PICK j \in IntakeJobs : About(j) = m /\
             \/ jobStatus[j] = "NONE" /\ jobStatus'[j] = "PENDING"
             \/ Promised(j) /\ ~(j = h.job /\ g.pc = "returned")
  OBVIOUS
<1>2. \A k \in handlers' : k = g \/ k \in handlers
  BY DEF Moves
<1>3. CASE jobStatus[j] = "NONE" /\ jobStatus'[j] = "PENDING"
  <2>1. \A k \in handlers' : k.job # j
    BY <1>2, <1>3 DEF Moves, IInv, HandlersKnown
  <2> QED BY <1>1, <1>3, <2>1 DEF Promised
<1>4. CASE Promised(j) /\ ~(j = h.job /\ g.pc = "returned")
  <2>1. jobStatus'[j] \in {"PENDING", "RUNNING", "FAILED"}
    BY <1>4, JobIds DEF Promised, JobsGrow
  <2>2. \A k \in handlers' : k.job = j => k.pc # "returned"
    BY <1>2, <1>4 DEF Promised, Moves
  <2> QED BY <1>1, <2>1, <2>2 DEF Promised
<1> QED BY <1>1, <1>3, <1>4

LEMMA WaitStep ==
  ASSUME IInv, JobsGrow,
         \A m \in Mails : \/ row'[m].wait \in {row[m].wait, None}
                          \/ /\ About(row'[m].wait) = m
                             /\ jobStatus'[row'[m].wait] # "NONE"
  PROVE  WaitsForOwn'
<1> SUFFICES ASSUME NEW m \in Mails, row'[m].wait # None
             PROVE  About(row'[m].wait) = m /\ jobStatus'[row'[m].wait] # "NONE"
  BY DEF WaitsForOwn
<1>1. CASE row'[m].wait = row[m].wait
  <2>1. row[m].wait \in Jobs
    BY <1>1, JobIds DEF IInv, TypeOK, RowType
  <2> QED BY <1>1, <2>1 DEF IInv, WaitsForOwn, JobsGrow
<1> QED BY <1>1

LEMMA AnswerStep ==
  ASSUME IInv, NEW h \in handlers, NEW g, Moves(h, g), JobsGrow,
         \A m \in Mails :
           /\ out'[m].state = "absent" => /\ out[m].state = "absent"
                                          /\ jobStatus'[ReplyTo(m)] = jobStatus[ReplyTo(m)]
                                          /\ copies'[m] = copies[m]
           /\ out'[m].state = "PENDING" =>
                \/ out[m].state = "PENDING"
                \/ out[m].state = "absent" /\ jobStatus'[ReplyTo(m)] = "PENDING",
         g.job \in ReplyJobs /\ g.pc = "returned" => out'[About(g.job)].state # "PENDING"
  PROVE  AnswersPromised'
<1>1. ASSUME NEW m \in Mails, out'[m].state = "absent"
      PROVE  jobStatus'[ReplyTo(m)] = "NONE" /\ copies'[m] = 0
  BY <1>1 DEF IInv, AnswersPromised
<1>2. ASSUME NEW m \in Mails, out'[m].state = "PENDING"
      PROVE  jobStatus'[ReplyTo(m)] \in {"PENDING", "RUNNING", "FAILED"}
  <2>1. CASE out[m].state = "PENDING"
    BY <2>1, JobIds DEF IInv, AnswersPromised, JobsGrow
  <2> QED BY <1>2, <2>1
<1>3. ASSUME NEW k \in handlers', k.job \in ReplyJobs, k.pc = "returned"
      PROVE  out'[About(k.job)].state # "PENDING"
  <2>1. CASE k = g
    BY <1>3, <2>1
  <2>2. CASE k \in handlers
    <3>1. About(k.job) \in Mails /\ k.job = ReplyTo(About(k.job))
      BY <1>3, <2>2, HandlerTyped, JobIds
    <3>2. out[About(k.job)].state # "PENDING"
      BY <1>3, <2>2 DEF IInv, AnswersPromised
    <3>3. out[About(k.job)].state # "absent"
      BY <2>2, <3>1 DEF IInv, AnswersPromised, HandlersKnown
    <3> QED BY <3>1, <3>2, <3>3
  <2> QED BY <2>1, <2>2 DEF Moves
<1> QED BY <1>1, <1>2, <1>3 DEF AnswersPromised

LEMMA ThreadStep ==
  ASSUME IInv, NEW h \in handlers, NEW g, Moves(h, g),
         \A t \in Mails : ticket[t] # "none" => ticket'[t] # "none",
         \A m \in Mails : row'[m].thread \in {row[m].thread, None}
                          \/ ticket'[row'[m].thread] # "none",
         g.thread # None => ticket[g.thread] # "none",
         g.plan = "applied" => g.thread # None
  PROVE  ThreadsOpened'
<1>1. \A m \in Mails : row'[m].thread # None => ticket'[row'[m].thread] # "none"
  BY DEF IInv, TypeOK, RowType, ThreadsOpened
<1>2. \A k \in handlers : k.thread \in Mails \cup {None}
  BY HandlerTyped
<1>3. g.thread \in Mails \cup {None}
  BY JobIds DEF Moves, Handler, HandlerOf
<1>4. \A k \in handlers' : /\ k.thread # None => ticket'[k.thread] # "none"
                           /\ k.plan = "applied" => k.thread # None
  BY <1>2, <1>3 DEF IInv, ThreadsOpened, Moves
<1> QED BY <1>1, <1>4 DEF ThreadsOpened

LEMMA StampStep ==
  ASSUME IInv, NEW h \in handlers, NEW g, Moves(h, g), copies' \in [Mails -> Nat],
         \A m \in Mails : /\ copies'[m] >= copies[m]
                          /\ out'[m].state = "SENT" => out[m].state = "SENT" \/ copies'[m] > 0,
         g.job \in ReplyJobs /\ g.pc = "stamp" => copies'[About(g.job)] > 0
  PROVE  StampsTrue'
<1>1. copies \in [Mails -> Nat]
  BY DEF IInv, TypeOK
<1>2. SentMeansDelivered'
  BY <1>1 DEF IInv, StampsTrue, SentMeansDelivered
<1>3. \A k \in handlers : About(k.job) \in Mails
  BY HandlerTyped
<1>4. \A k \in handlers' : (k.job \in ReplyJobs /\ k.pc = "stamp") => copies'[About(k.job)] > 0
  BY <1>1, <1>3 DEF IInv, StampsTrue, Moves
<1> QED BY <1>2, <1>4 DEF StampsTrue

\* Of a message whose answer is sighted, the step keeps what is claimed; of the
\* others nothing is claimed.
LEMMA SightedStep ==
  ASSUME IInv, NEW h \in handlers, NEW g, Moves(h, g), JobsGrow, blind \subseteq blind',
         \A m \in Mails : m # About(h.job) \/ h.job \in IntakeJobs =>
           /\ copies'[m] = copies[m]
           /\ copies[m] > 0 \/ (\E k \in handlers : k.job = ReplyTo(m)) => out'[m].tried = out[m].tried,
         h.job \in ReplyJobs /\ Sighted(About(h.job))' =>
           LET m == About(h.job) IN
           /\ copies'[m] <= 1
           /\ copies'[m] > 0 => out'[m].tried
           /\ g.pc \in {"search", "send", "stamp"} => out'[m].tried
           /\ (g.pc = "count" /\ g.seen = 0) \/ g.pc = "send" => copies'[m] = 0
  PROVE  SentOnceCounted'
<1> SUFFICES ASSUME NEW m \in Mails, Sighted(m)'
             PROVE  /\ copies'[m] <= 1
                    /\ copies'[m] > 0 => out'[m].tried
                    /\ \A k \in handlers' : k.job = ReplyTo(m) =>
                         /\ k.pc \in {"search", "send", "stamp"} => out'[m].tried
                         /\ (k.pc = "count" /\ k.seen = 0) \/ k.pc = "send" => copies'[m] = 0
  BY DEF SentOnceCounted
<1>1. Sighted(m)
  BY DEF Sighted, JobsGrow
<1>2. \A k \in handlers' : k = g \/ (k \in handlers /\ k # h)
  BY DEF Moves
<1>3. h.job \in Jobs
  BY HandlerTyped
<1>4. CASE h.job = ReplyTo(m)
  <2>1. m = About(h.job) /\ h.job \in ReplyJobs
    BY <1>4, JobIds
  <2>2. \A k \in handlers : k.job = h.job => k = h
    <3>1. \A k \in handlers : k.job = h.job => Awaited(k)
      BY <1>1, <1>4 DEF Sighted, IInv, HandlersKnown
    <3> QED BY <3>1 DEF Awaited, IInv, HandlersKnown
  <2>3. \A k \in handlers' : k.job = ReplyTo(m) => k = g
    BY <1>2, <1>4, <2>2
  <2> QED BY <2>1, <2>3
<1>5. CASE h.job # ReplyTo(m)
  <2>1. m # About(h.job) \/ h.job \in IntakeJobs
    BY <1>3, <1>5, JobIds
  <2>2. \A k \in handlers' : k.job = ReplyTo(m) => k \in handlers
    BY <1>2, <1>5 DEF Moves
  <2>3. /\ copies[m] <= 1
        /\ copies[m] > 0 => out[m].tried
        /\ \A k \in handlers : k.job = ReplyTo(m) =>
             /\ k.pc \in {"search", "send", "stamp"} => out[m].tried
             /\ (k.pc = "count" /\ k.seen = 0) \/ k.pc = "send" => copies[m] = 0
    BY <1>1 DEF IInv, SentOnceCounted
  <2> QED BY <2>1, <2>2, <2>3
<1> QED BY <1>4, <1>5

-----------------------------------------------------------------------------
(* Steps of a handler *)

\* A step that changes only the handler.
LEMMA QuietKeeps ==
  ASSUME IInv, NEW h \in handlers, NEW g, Moves(h, g),
         UNCHANGED <<jobs, mail, world, poll, traces>>,
         (g.pc = "returned" /\ h.job \in IntakeJobs /\ row[About(h.job)].state = "PENDING") =>
           \E j \in IntakeJobs : j # h.job /\ About(j) = About(h.job) /\ Promised(j),
         g.job \in ReplyJobs /\ g.pc = "returned" => out[About(g.job)].state # "PENDING",
         g.thread # None => ticket[g.thread] # "none",
         g.plan = "applied" => g.thread # None,
         g.job \in ReplyJobs /\ g.pc = "stamp" => copies[About(g.job)] > 0,
         h.job \in ReplyJobs /\ Sighted(About(h.job)) =>
           /\ g.pc \in {"search", "send", "stamp"} => out[About(h.job)].tried
           /\ (g.pc = "count" /\ g.seen = 0) \/ g.pc = "send" => copies[About(h.job)] = 0
  PROVE  IInv'
<1> USE DEF jobs, mail, world, traces
<1>1. JobsGrow
  BY DEF IInv, TypeOK, JobsGrow
<1>2. handlers' \subseteq Handler /\ DueFirst' /\ HandlersKnown'
  BY <1>1, MovesKeeps
<1>3. TypeOK'
  BY <1>2 DEF IInv, TypeOK
<1>4. WaitsForOwn'
  BY <1>1, WaitStep
<1>5. RowsPromised'
  <2> SUFFICES ASSUME NEW m \in Mails, row[m].state = "PENDING"
               PROVE  \E j \in IntakeJobs : About(j) = m /\ Promised(j)
                                             /\ ~(j = h.job /\ g.pc = "returned")
    BY <1>1, PromiseStep
  <2>1. PICK j \in IntakeJobs : About(j) = m /\ Promised(j)
    BY DEF IInv, RowsPromised
  <2> QED BY <2>1
<1>6. AnswersPromised'
  BY <1>1, AnswerStep
<1>7. EnteredWithAnswer'
  BY DEF IInv, EnteredWithAnswer
<1>8. ThreadsOpened'
  BY ThreadStep
<1>9. copies \in [Mails -> Nat]
  BY DEF IInv, TypeOK
<1>10. StampsTrue'
  BY <1>9, StampStep
<1>11. SentOnceCounted'
  <2>1. About(h.job) \in Mails
    BY HandlerTyped
  <2>2. Sighted(About(h.job))' => Sighted(About(h.job))
    BY DEF Sighted
  <2>3. Sighted(About(h.job)) => copies[About(h.job)] <= 1
                                 /\ (copies[About(h.job)] > 0 => out[About(h.job)].tried)
    BY <2>1 DEF IInv, SentOnceCounted
  <2> QED BY <1>1, <2>1, <2>2, <2>3, SightedStep
<1> QED BY <1>2, <1>3, <1>4, <1>5, <1>6, <1>7, <1>8, <1>10, <1>11 DEF IInv

\* A step of the answer that writes its row and tells the world.
LEMMA AnswerKeeps ==
  ASSUME IInv, NEW h \in handlers, NEW g, Moves(h, g), h.job \in ReplyJobs,
         UNCHANGED <<jobs, row, world, poll, entered, timedOut, crashes>>,
         out' \in [Mails -> OutType], copies' \in [Mails -> Nat],
         blind \subseteq blind', blind' \subseteq Mails,
         \A m \in Mails : m # About(h.job) => out'[m] = out[m] /\ copies'[m] = copies[m],
         LET m == About(h.job) IN
         /\ out'[m].state # "absent"
         /\ out'[m].state = "PENDING" => out[m].state = "PENDING" /\ g.pc # "returned"
         /\ copies'[m] >= copies[m]
         /\ out'[m].state = "SENT" => out[m].state = "SENT" \/ copies'[m] > 0
         /\ g.thread = h.thread /\ g.plan = h.plan
         /\ g.pc = "stamp" => copies'[m] > 0
         /\ Sighted(m)' =>
              /\ copies'[m] <= 1
              /\ copies'[m] > 0 => out'[m].tried
              /\ g.pc \in {"search", "send", "stamp"} => out'[m].tried
              /\ (g.pc = "count" /\ g.seen = 0) \/ g.pc = "send" => copies'[m] = 0
  PROVE  IInv'
<1> USE DEF jobs, world
<1>1. JobsGrow
  BY DEF IInv, TypeOK, JobsGrow
<1>2. handlers' \subseteq Handler /\ DueFirst' /\ HandlersKnown'
  BY <1>1, MovesKeeps
<1>3. TypeOK'
  BY <1>2 DEF IInv, TypeOK
<1>4. WaitsForOwn'
  BY <1>1, WaitStep
<1>5. RowsPromised'
  <2> SUFFICES ASSUME NEW m \in Mails, row[m].state = "PENDING"
               PROVE  \E j \in IntakeJobs : About(j) = m /\ Promised(j)
                                             /\ ~(j = h.job /\ g.pc = "returned")
    BY <1>1, PromiseStep
  <2>1. PICK j \in IntakeJobs : About(j) = m /\ Promised(j)
    BY DEF IInv, RowsPromised
  <2>2. j # h.job
    BY JobIds
  <2> QED BY <2>1, <2>2
<1>6. g.job = h.job /\ About(h.job) \in Mails
  BY HandlerTyped DEF Moves
<1>7. AnswersPromised'
  <2>1. \A m \in Mails :
           /\ out'[m].state = "absent" => /\ out[m].state = "absent"
                                          /\ jobStatus'[ReplyTo(m)] = jobStatus[ReplyTo(m)]
                                          /\ copies'[m] = copies[m]
           /\ out'[m].state = "PENDING" => out[m].state = "PENDING"
    OBVIOUS
  <2>2. g.pc = "returned" => out'[About(g.job)].state # "PENDING"
    BY <1>6
  <2> QED BY <1>1, <2>1, <2>2, AnswerStep
<1>8. EnteredWithAnswer'
  BY DEF IInv, EnteredWithAnswer
<1>9. ThreadsOpened'
  <2>1. /\ h.thread # None => ticket[h.thread] # "none"
        /\ h.plan = "applied" => h.thread # None
    BY DEF IInv, ThreadsOpened
  <2> QED BY <2>1, ThreadStep
<1>10. copies \in [Mails -> Nat]
  BY DEF IInv, TypeOK
<1>11. StampsTrue'
  <2>1. \A m \in Mails : /\ copies'[m] >= copies[m]
                         /\ out'[m].state = "SENT" => out[m].state = "SENT" \/ copies'[m] > 0
    BY <1>10
  <2> QED BY <1>6, <2>1, StampStep
<1>12. SentOnceCounted'
  <2>1. \A m \in Mails : m # About(h.job) \/ h.job \in IntakeJobs =>
          copies'[m] = copies[m] /\ out'[m].tried = out[m].tried
    BY JobIds
  <2> QED BY <1>1, <2>1, SightedStep
<1> QED BY <1>2, <1>3, <1>4, <1>5, <1>7, <1>8, <1>9, <1>11, <1>12 DEF IInv

LEMMA RaisesMoves ==
  ASSUME IInv, NEW h \in handlers, Raises(h)
  PROVE  \E pc \in {"mark", "threw"} :
           Moves(h, [h EXCEPT !.pc = pc]) /\ (pc = "mark" => h.job \in ReplyJobs)
<1>1. CASE h.job \in ReplyJobs /\ h.attempt >= MaxAttempts /\ h.pc # "mark"
  BY <1>1, GoesMoves DEF Raises, ReplyPc
<1>2. CASE ~(h.job \in ReplyJobs /\ h.attempt >= MaxAttempts /\ h.pc # "mark")
  BY <1>2, EndsMoves DEF Raises, Ended
<1> QED BY <1>1, <1>2

LEMMA ThrowsKeeps == ASSUME IInv, NEW h \in handlers, Throws(h) PROVE IInv'
<1>1. PICK pc \in {"mark", "threw"} :
           Moves(h, [h EXCEPT !.pc = pc]) /\ (pc = "mark" => h.job \in ReplyJobs)
  BY RaisesMoves DEF Throws
<1> DEFINE g == [h EXCEPT !.pc = pc]
<1>2. g.pc = pc /\ g.job = h.job /\ g.seen = h.seen /\ g.thread = h.thread /\ g.plan = h.plan
  BY <1>1, HandlerTyped, PcChange, JobIds DEF Ended, ReplyPc
<1>3. /\ h.thread # None => ticket[h.thread] # "none"
      /\ h.plan = "applied" => h.thread # None
  BY DEF IInv, ThreadsOpened
<1>4. UNCHANGED <<jobs, mail, world, poll, traces>>
  BY DEF Throws
<1> HIDE DEF g
<1> QED BY <1>1, <1>2, <1>3, <1>4, QuietKeeps DEF g

LEMMA LooksAtRowKeeps == ASSUME IInv, NEW h \in handlers, LooksAtRow(h) PROVE IInv'
<1> DEFINE m == About(h.job)
<1>1. /\ h.job \in IntakeJobs /\ m \in Mails
      /\ UNCHANGED <<jobs, mail, world, poll, traces>>
  BY HandlerTyped DEF LooksAtRow, IntakeAt
<1>2. /\ h.thread # None => ticket[h.thread] # "none"
      /\ h.plan = "applied" => h.thread # None
  BY DEF IInv, ThreadsOpened
<1>3. CASE row[m].state # "PENDING" \/ Waiting(m)
  <2> DEFINE g == [h EXCEPT !.pc = "returned"]
  <2>1. Moves(h, g)
    BY <1>3, EndsMoves DEF LooksAtRow, Ended
  <2>2. g.pc = "returned" /\ g.job = h.job /\ g.thread = h.thread /\ g.plan = h.plan
    BY <1>1, HandlerTyped, PcChange DEF Ended
  <2>3. ASSUME row[m].state = "PENDING"
        PROVE  \E j \in IntakeJobs : j # h.job /\ About(j) = m /\ Promised(j)
    <3> DEFINE w == row[m].wait
    <3>1. w \in IntakeJobs /\ About(w) = m /\ jobStatus[w] # "NONE" /\ w \notin due
      BY <1>1, <1>3, <2>3 DEF Waiting, IInv, TypeOK, RowType, WaitsForOwn
    <3>2. jobStatus[w] = "PENDING"
      BY <3>1, JobIds DEF IInv, DueFirst
    <3>3. \A k \in handlers : k.job # w
      BY <3>1 DEF IInv, HandlersKnown
    <3> QED BY <3>1, <3>2, <3>3 DEF Promised
  <2>4. g.job \notin ReplyJobs
    BY <1>1, <2>2, JobIds
  <2> HIDE DEF g
  <2> QED BY <1>1, <1>2, <2>1, <2>2, <2>3, <2>4, QuietKeeps
<1>4. CASE ~(row[m].state # "PENDING" \/ Waiting(m))
  <2> DEFINE g == [h EXCEPT !.pc = "judge", !.seen = row[m].deferrals]
  <2>1. row[m].deferrals \in Nat
    BY <1>1 DEF IInv, TypeOK, RowType
  <2>2. /\ g \in Handler /\ g.pc = "judge" /\ g.job = h.job /\ g.attempt = h.attempt
        /\ g.thread = h.thread /\ g.plan = h.plan
    BY <1>1, <2>1, HandlerTyped, JobIds DEF Handler, HandlerOf, IntakePc
  <2>3. handlers' = (handlers \ {h}) \cup {g}
    BY <1>4 DEF LooksAtRow, Becomes
  <2>4. g.job \notin ReplyJobs
    BY <1>1, <2>2, JobIds
  <2> HIDE DEF g
  <2>5. Moves(h, g)
    BY <2>2, <2>3 DEF Moves, Running, Ended
  <2> QED BY <1>1, <1>2, <2>2, <2>4, <2>5, QuietKeeps
<1> QED BY <1>3, <1>4

\* A plan names a thread of an opened ticket, and always one to merge into.
LEMMA PlansSound ==
  ASSUME IInv, NEW m \in Mails, NEW p \in Plans(m)
  PROVE  /\ p[1] \in Outcomes \cup {"defer"} /\ p[2] \in Mails \cup {None}
         /\ p[2] # None => ticket[p[2]] # "none"
         /\ p[1] = "applied" => p[2] # None
<1> USE DEF Outcomes, Answered, Drafted
<1>1. ASSUME NEW t \in KnownThreads(m) PROVE t \in Mails /\ t # None /\ ticket[t] # "none"
  BY <1>1 DEF KnownThreads, IInv, TypeOK, RowType, ThreadsOpened
<1>2. CASE p \in {<<"ignored", None>>, <<"defer", None>>}
  BY <1>2
<1>3. CASE sender[m] # "stranger" /\ KnownThreads(m) # {}
           /\ p \in {<<Verdict(m, t), t>> : t \in KnownThreads(m)}
  <2>1. PICK t \in KnownThreads(m) : p = <<Verdict(m, t), t>>
    BY <1>3
  <2>2. Verdict(m, t) \in {"afterDeletion", "notPermitted", "afterDispatch", "applied"}
    BY DEF Verdict
  <2> QED BY <1>1, <2>1, <2>2
<1>4. CASE p \in {<<o, None>> : o \in {"created", "noSite"}}
  BY <1>4
<1>5. \/ p \in {<<"ignored", None>>, <<"defer", None>>}
      \/ sender[m] # "stranger" /\ KnownThreads(m) # {}
         /\ p \in {<<Verdict(m, t), t>> : t \in KnownThreads(m)}
      \/ p \in {<<o, None>> : o \in {"created", "noSite"}}
  <2>1. CASE sender[m] = "stranger"
    BY <2>1 DEF Plans
  <2>2. CASE sender[m] # "stranger" /\ KnownThreads(m) # {}
    BY <2>2 DEF Plans
  <2>3. CASE sender[m] # "stranger" /\ KnownThreads(m) = {}
    BY <2>3 DEF Plans
  <2> QED BY <2>1, <2>2, <2>3
<1> QED BY <1>2, <1>3, <1>4, <1>5

LEMMA JudgesKeeps == ASSUME IInv, NEW h \in handlers, Judges(h) PROVE IInv'
<1>1. /\ h.job \in IntakeJobs /\ About(h.job) \in Mails
      /\ UNCHANGED <<jobs, mail, world, poll, traces>>
  BY HandlerTyped DEF Judges, IntakeAt
<1>2. PICK p \in Plans(About(h.job)) :
        Becomes(h, [h EXCEPT !.pc = "write", !.plan = p[1], !.thread = p[2]])
  BY DEF Judges
<1> DEFINE g == [h EXCEPT !.pc = "write", !.plan = p[1], !.thread = p[2]]
<1>3. /\ p[1] \in Outcomes \cup {"defer"} /\ p[2] \in Mails \cup {None}
      /\ p[2] # None => ticket[p[2]] # "none"
      /\ p[1] = "applied" => p[2] # None
  BY <1>1, PlansSound
<1>4. /\ g \in Handler /\ g.pc = "write" /\ g.job = h.job /\ g.attempt = h.attempt
      /\ g.thread = p[2] /\ g.plan = p[1]
  BY <1>1, <1>3, HandlerTyped, JobIds DEF Handler, HandlerOf, IntakePc
<1>5. handlers' = (handlers \ {h}) \cup {g}
  BY <1>2 DEF Becomes
<1>6. g.job \notin ReplyJobs
  BY <1>1, <1>4, JobIds
<1> HIDE DEF g
<1>7. Moves(h, g)
  BY <1>4, <1>5 DEF Moves, Running, Ended
<1> QED BY <1>1, <1>3, <1>4, <1>6, <1>7, QuietKeeps

LEMMA CreateGrows ==
  ASSUME IInv, NEW j \in Jobs, Queue!Create(j), due' \in {due, due \cup {j}}, timedOut' = timedOut
  PROVE  /\ JobsGrow /\ jobStatus[j] = "NONE" /\ jobStatus'[j] = "PENDING"
         /\ \A i \in Jobs : i # j => jobStatus'[i] = jobStatus[i]
<1>1. jobStatus \in [Jobs -> Queue!Status] /\ due \subseteq Jobs
  BY DEF IInv, TypeOK
<1>2. jobStatus' \in [Jobs -> Queue!Status]
  BY <1>1 DEF Queue!Create, Queue!Status
<1> QED BY <1>1, <1>2 DEF Queue!Create, JobsGrow

\* The answer of a decision: a row and a job that were not there.
LEMMA ScheduleGrows ==
  ASSUME IInv, NEW m \in Mails, NEW t \in Mails \cup {None}, ScheduleReply(m, t),
         timedOut' = timedOut
  PROVE  /\ JobsGrow /\ out' \in [Mails -> OutType]
         /\ out[m].state = "absent" /\ out'[m].state = "PENDING" /\ out'[m].tried = FALSE
         /\ jobStatus'[ReplyTo(m)] = "PENDING"
         /\ \A n \in Mails : n # m => out'[n] = out[n]
         /\ \A j \in Jobs : j # ReplyTo(m) => jobStatus'[j] = jobStatus[j]
<1>1. ReplyTo(m) \in Jobs
  BY JobIds
<1>2. out \in [Mails -> OutType]
  BY DEF IInv, TypeOK
<1>3. [state |-> "PENDING", tried |-> FALSE, thread |-> t] \in OutType
  BY DEF OutType, OutStates
<1>4. /\ JobsGrow /\ jobStatus'[ReplyTo(m)] = "PENDING"
      /\ \A j \in Jobs : j # ReplyTo(m) => jobStatus'[j] = jobStatus[j]
  <2>1. Queue!Create(ReplyTo(m)) /\ due' = due \cup {ReplyTo(m)}
    BY DEF ScheduleReply
  <2> QED BY <1>1, <2>1, CreateGrows
<1> QED BY <1>2, <1>3, <1>4 DEF ScheduleReply

\* A decision on the message of h, with or without an answer.
Decides(h) ==
  LET m == About(h.job) IN
  /\ h.job \in IntakeJobs /\ Ends(h, "returned")
  /\ row' \in [Mails -> RowType]
  /\ \A n \in Mails : n # m => row'[n] = row[n]
  /\ row'[m].state = "PENDING" =>
       \E j \in IntakeJobs : About(j) = m /\ jobStatus[j] = "NONE" /\ jobStatus'[j] = "PENDING"
  /\ row'[m].wait # None => About(row'[m].wait) = m /\ jobStatus'[row'[m].wait] # "NONE"
  /\ row'[m].thread = row[m].thread \/ ticket'[row'[m].thread] # "none"
  /\ ticket' \in [Mails -> {"none", "draft", "sent", "deleted"}]
  /\ \A t \in Mails : ticket[t] # "none" => ticket'[t] # "none"
  /\ UNCHANGED <<sender, poll, copies, blind, timedOut, crashes>>

LEMMA DecisionKeeps ==
  ASSUME IInv, NEW h \in handlers, Decides(h),
         \/ /\ JobsGrow /\ UNCHANGED <<out, entered>>
            /\ \A j \in ReplyJobs : jobStatus'[j] = jobStatus[j]
         \/ /\ \E t \in Mails \cup {None} : ScheduleReply(About(h.job), t)
            /\ UNCHANGED entered \/ Enters(About(h.job))
  PROVE  IInv'
<1> DEFINE m == About(h.job)
           g == [h EXCEPT !.pc = "returned"]
<1>1. m \in Mails /\ h.job \in IntakeJobs
  BY HandlerTyped DEF Decides
<1>2. Moves(h, g)
  BY EndsMoves DEF Decides, Ended
<1>3. g.pc = "returned" /\ g.job = h.job /\ g.thread = h.thread /\ g.plan = h.plan
  BY <1>1, HandlerTyped, PcChange DEF Ended
<1> HIDE DEF g
<1>4. g.job \notin ReplyJobs /\ h.job \notin ReplyJobs
  BY <1>1, <1>3, JobIds
<1>5. /\ entered \in [Mails -> Nat] /\ copies \in [Mails -> Nat]
      /\ out \in [Mails -> OutType] /\ row \in [Mails -> RowType]
  BY DEF IInv, TypeOK
<1>6. /\ JobsGrow /\ out' \in [Mails -> OutType] /\ entered' \in [Mails -> Nat]
      /\ \A n \in Mails : \/ out'[n] = out[n] /\ entered'[n] = entered[n]
                             /\ jobStatus'[ReplyTo(n)] = jobStatus[ReplyTo(n)]
                          \/ /\ out[n].state = "absent" /\ out'[n].state = "PENDING"
                             /\ jobStatus'[ReplyTo(n)] = "PENDING"
                             /\ entered'[n] \in {entered[n], entered[n] + 1}
  <2>1. CASE JobsGrow /\ UNCHANGED <<out, entered>>
             /\ \A j \in ReplyJobs : jobStatus'[j] = jobStatus[j]
    BY <1>5, <2>1, JobIds
  <2>2. CASE (\E t \in Mails \cup {None} : ScheduleReply(m, t))
             /\ (UNCHANGED entered \/ Enters(m))
    <3>1. PICK t \in Mails \cup {None} : ScheduleReply(m, t)
      BY <2>2
    <3>2. /\ JobsGrow /\ out' \in [Mails -> OutType]
          /\ out[m].state = "absent" /\ out'[m].state = "PENDING" /\ out'[m].tried = FALSE
          /\ jobStatus'[ReplyTo(m)] = "PENDING"
          /\ \A n \in Mails : n # m => out'[n] = out[n]
          /\ \A j \in Jobs : j # ReplyTo(m) => jobStatus'[j] = jobStatus[j]
      BY <1>1, <3>1, ScheduleGrows DEF Decides
    <3>3. /\ entered' \in [Mails -> Nat] /\ entered'[m] \in {entered[m], entered[m] + 1}
          /\ \A n \in Mails : n # m => entered'[n] = entered[n]
      BY <1>1, <1>5, <2>2 DEF Enters
    <3>4. \A n \in Mails : n # m => ReplyTo(n) \in Jobs /\ ReplyTo(n) # ReplyTo(m)
      BY <1>1, JobIds
    <3> QED BY <3>2, <3>3, <3>4
  <2> QED BY <2>1, <2>2
<1>7. handlers' \subseteq Handler /\ DueFirst' /\ HandlersKnown'
  BY <1>2, <1>6, MovesKeeps
<1>8. TypeOK'
  <2>1. jobStatus' \in [Jobs -> Queue!Status] /\ jobAttempts' \in [Jobs -> 0 .. MaxAttempts]
        /\ due' \subseteq Jobs
    BY <1>6 DEF JobsGrow, IInv, TypeOK
  <2> QED BY <1>6, <1>7, <2>1 DEF IInv, TypeOK, Decides
<1>9. WaitsForOwn'
  <2> SUFFICES \A n \in Mails : \/ row'[n].wait \in {row[n].wait, None}
                                \/ /\ About(row'[n].wait) = n
                                   /\ jobStatus'[row'[n].wait] # "NONE"
    BY <1>6, WaitStep
  <2> QED BY DEF Decides
<1>10. RowsPromised'
  <2> SUFFICES ASSUME NEW n \in Mails, row'[n].state = "PENDING"
               PROVE  \E j \in IntakeJobs : About(j) = n /\
                         \/ jobStatus[j] = "NONE" /\ jobStatus'[j] = "PENDING"
                         \/ Promised(j) /\ ~(j = h.job /\ g.pc = "returned")
    BY <1>2, <1>6, PromiseStep
  <2>1. CASE n = m
    BY <2>1 DEF Decides
  <2>2. CASE n # m
    <3>1. PICK j \in IntakeJobs : About(j) = n /\ Promised(j)
      BY <2>2 DEF Decides, IInv, RowsPromised
    <3> QED BY <2>2, <3>1
  <2> QED BY <2>1, <2>2
<1>11. AnswersPromised'
  <2>1. \A n \in Mails :
           /\ out'[n].state = "absent" => /\ out[n].state = "absent"
                                          /\ jobStatus'[ReplyTo(n)] = jobStatus[ReplyTo(n)]
                                          /\ copies'[n] = copies[n]
           /\ out'[n].state = "PENDING" =>
                \/ out[n].state = "PENDING"
                \/ out[n].state = "absent" /\ jobStatus'[ReplyTo(n)] = "PENDING"
    BY <1>6 DEF Decides
  <2> QED BY <1>2, <1>4, <1>6, <2>1, AnswerStep
<1>12. EnteredWithAnswer'
  BY <1>5, <1>6 DEF IInv, EnteredWithAnswer
<1>13. ThreadsOpened'
  <2>1. /\ h.thread # None => ticket[h.thread] # "none"
        /\ h.plan = "applied" => h.thread # None
    BY DEF IInv, ThreadsOpened
  <2>2. \A n \in Mails : row'[n].thread \in {row[n].thread, None}
                         \/ ticket'[row'[n].thread] # "none"
    BY DEF Decides
  <2>3. \A t \in Mails : ticket[t] # "none" => ticket'[t] # "none"
    BY DEF Decides
  <2> QED BY <1>2, <1>3, <2>1, <2>2, <2>3, ThreadStep
<1>14. StampsTrue'
  <2>1. \A n \in Mails : /\ copies'[n] >= copies[n]
                         /\ out'[n].state = "SENT" => out[n].state = "SENT" \/ copies'[n] > 0
    BY <1>5, <1>6 DEF Decides
  <2> QED BY <1>2, <1>4, <1>5, <2>1, StampStep DEF Decides
<1>15. SentOnceCounted'
  <2>1. ASSUME NEW n \in Mails
        PROVE  /\ copies'[n] = copies[n]
               /\ copies[n] > 0 \/ (\E k \in handlers : k.job = ReplyTo(n)) => out'[n].tried = out[n].tried
    <3>1. CASE out[n].state = "absent"
      <4>1. copies[n] = 0 /\ ~(\E k \in handlers : k.job = ReplyTo(n))
        BY <3>1 DEF IInv, AnswersPromised, HandlersKnown
      <4> QED BY <4>1 DEF Decides
    <3>2. CASE out[n].state # "absent"
      BY <1>6, <3>2 DEF Decides
    <3> QED BY <3>1, <3>2
  <2>2. blind \subseteq blind'
    BY DEF Decides
  <2> QED BY <1>2, <1>4, <1>6, <2>1, <2>2, SightedStep
<1> QED BY <1>7, <1>8, <1>9, <1>10, <1>11, <1>12, <1>13, <1>14, <1>15 DEF IInv

LEMMA FreeIntake ==
  ASSUME NEW m \in Mails, NEW j \in FreeIntakes(m)
  PROVE  j \in IntakeJobs /\ j \in Jobs /\ About(j) = m /\ jobStatus[j] = "NONE"
BY JobIds DEF FreeIntakes

LEMMA DecidedRow ==
  ASSUME IInv, NEW m \in Mails, NEW o \in Outcomes, NEW t \in Mails \cup {None}, Decided(m, o, t)
  PROVE  /\ row' \in [Mails -> RowType]
         /\ row'[m].state = "DONE" /\ row'[m].wait = None /\ row'[m].outcome = o
         /\ row'[m].thread = IF t = None THEN row[m].thread ELSE t
         /\ \A n \in Mails : n # m => row'[n] = row[n]
<1> DEFINE u == IF t = None THEN row[m].thread ELSE t
           r == [row[m] EXCEPT !.state = "DONE", !.outcome = o, !.wait = None, !.thread = u]
<1>1. row \in [Mails -> RowType] /\ row[m] \in RowType
  BY DEF IInv, TypeOK
<1>2. u \in Mails \cup {None}
  BY <1>1 DEF RowType
<1>3. row' = [row EXCEPT ![m] = r]
  BY <1>1 DEF Decided, RowType
<1> HIDE DEF u
<1>4. /\ r \in RowType /\ r.state = "DONE" /\ r.wait = None /\ r.outcome = o
      /\ r.thread = u
  BY <1>1, <1>2 DEF RowType, RowStates
<1> HIDE DEF r
<1> QED BY <1>1, <1>3, <1>4 DEF u

LEMMA DefersKeeps == ASSUME IInv, NEW h \in handlers, Defers(h) PROVE IInv'
<1> DEFINE m == About(h.job)
<1>1. m \in Mails /\ h.job \in IntakeJobs
  BY HandlerTyped DEF Defers, Writes, IntakeAt
<1>2. PICK j \in FreeIntakes(m) :
       /\ IntakeJob(j)
       /\ row' = [row EXCEPT ![m].state = "PENDING", ![m].deferrals = @ + 1, ![m].wait = j]
  BY DEF Defers
<1>3. j \in IntakeJobs /\ j \in Jobs /\ About(j) = m /\ jobStatus[j] = "NONE"
  BY <1>1, FreeIntake
<1>4. /\ JobsGrow /\ jobStatus'[j] = "PENDING"
      /\ \A i \in Jobs : i # j => jobStatus'[i] = jobStatus[i]
  BY <1>2, <1>3, CreateGrows DEF IntakeJob, Defers, traces
<1>5. \A i \in ReplyJobs : jobStatus'[i] = jobStatus[i]
  BY <1>3, <1>4, JobIds
<1>6. /\ row' \in [Mails -> RowType]
      /\ row'[m].state = "PENDING" /\ row'[m].wait = j /\ row'[m].thread = row[m].thread
      /\ \A n \in Mails : n # m => row'[n] = row[n]
  <2>1. row \in [Mails -> RowType]
    BY DEF IInv, TypeOK
  <2> QED BY <1>1, <1>2, <1>3, <2>1 DEF RowType, RowStates
<1>7. ticket \in [Mails -> {"none", "draft", "sent", "deleted"}]
  BY DEF IInv, TypeOK
<1>8. Decides(h)
  BY <1>1, <1>3, <1>4, <1>6, <1>7 DEF Decides, Defers, world, traces
<1> QED BY <1>4, <1>5, <1>8, DecisionKeeps DEF Defers, traces

LEMMA ExhaustsKeeps == ASSUME IInv, NEW h \in handlers, Exhausts(h) PROVE IInv'
<1> DEFINE m == About(h.job)
<1>1. m \in Mails /\ h.job \in IntakeJobs
  BY HandlerTyped DEF Exhausts, Writes, IntakeAt
<1>2. /\ row' \in [Mails -> RowType]
      /\ row'[m].state = "FAILED" /\ row'[m].wait = None /\ row'[m].thread = row[m].thread
      /\ \A n \in Mails : n # m => row'[n] = row[n]
  <2>1. row \in [Mails -> RowType]
    BY DEF IInv, TypeOK
  <2> QED BY <1>1, <2>1 DEF Exhausts, RowType, RowStates
<1>3. JobsGrow /\ \A j \in ReplyJobs : jobStatus'[j] = jobStatus[j]
  BY DEF Exhausts, jobs, traces, JobsGrow, IInv, TypeOK
<1>4. ticket \in [Mails -> {"none", "draft", "sent", "deleted"}]
  BY DEF IInv, TypeOK
<1>5. Decides(h)
  BY <1>1, <1>2, <1>4 DEF Decides, Exhausts, world, traces
<1> QED BY <1>3, <1>5, DecisionKeeps DEF Exhausts, traces

LEMMA IgnoresKeeps == ASSUME IInv, NEW h \in handlers, Ignores(h) PROVE IInv'
<1> DEFINE m == About(h.job)
<1>1. m \in Mails /\ h.job \in IntakeJobs
  BY HandlerTyped DEF Ignores, Writes, IntakeAt
<1>2. /\ row' \in [Mails -> RowType]
      /\ row'[m].state = "DONE" /\ row'[m].wait = None /\ row'[m].thread = row[m].thread
      /\ \A n \in Mails : n # m => row'[n] = row[n]
  BY <1>1, DecidedRow DEF Ignores, Outcomes
<1>3. JobsGrow /\ \A j \in ReplyJobs : jobStatus'[j] = jobStatus[j]
  BY DEF Ignores, jobs, traces, JobsGrow, IInv, TypeOK
<1>4. ticket \in [Mails -> {"none", "draft", "sent", "deleted"}]
  BY DEF IInv, TypeOK
<1>5. Decides(h)
  BY <1>1, <1>2, <1>4 DEF Decides, Ignores, world, traces
<1> QED BY <1>3, <1>5, DecisionKeeps DEF Ignores, traces

LEMMA CreatesKeeps == ASSUME IInv, NEW h \in handlers, Creates(h) PROVE IInv'
<1> DEFINE m == About(h.job)
<1>1. m \in Mails /\ h.job \in IntakeJobs
  BY HandlerTyped DEF Creates, Writes, IntakeAt
<1>2. ticket' \in [Mails -> {"none", "draft", "sent", "deleted"}]
      /\ ticket'[m] = "draft" /\ \A t \in Mails : ticket[t] # "none" => ticket'[t] # "none"
  BY <1>1 DEF Creates, IInv, TypeOK
<1>3. /\ row' \in [Mails -> RowType] /\ row'[m].state = "DONE" /\ row'[m].wait = None
      /\ row'[m].thread = m
      /\ \A n \in Mails : n # m => row'[n] = row[n]
  BY <1>1, DecidedRow, NoneAssumption DEF Creates, Outcomes, Answered, Drafted
<1>4. Decides(h)
  BY <1>1, <1>2, <1>3 DEF Decides, Creates
<1> QED BY <1>1, <1>4, DecisionKeeps DEF Creates

LEMMA AnswersKeeps == ASSUME IInv, NEW h \in handlers, Answers(h) PROVE IInv'
<1> DEFINE m == About(h.job)
<1>1. m \in Mails /\ h.job \in IntakeJobs /\ h.thread \in Mails \cup {None}
  BY HandlerTyped DEF Answers, Writes, IntakeAt
<1>2. ticket \in [Mails -> {"none", "draft", "sent", "deleted"}]
  BY DEF IInv, TypeOK
<1>3. /\ row' \in [Mails -> RowType] /\ row'[m].state = "DONE" /\ row'[m].wait = None
      /\ row'[m].thread = row[m].thread
      /\ \A n \in Mails : n # m => row'[n] = row[n]
  BY <1>1, DecidedRow DEF Answers, Writes, Outcomes
<1>4. Decides(h)
  BY <1>1, <1>2, <1>3 DEF Decides, Answers, world, traces
<1> QED BY <1>1, <1>4, DecisionKeeps DEF Answers, traces

LEMMA AppliesKeeps == ASSUME IInv, NEW h \in handlers, Applies(h) PROVE IInv'
<1> DEFINE m == About(h.job)
           t == h.thread
           v == LockedVerdict(m, t)
<1>1. m \in Mails /\ h.job \in IntakeJobs /\ t \in Mails \cup {None}
  BY HandlerTyped DEF Applies, Writes, IntakeAt
<1>2. t # None /\ ticket[t] # "none" /\ ticket \in [Mails -> {"none", "draft", "sent", "deleted"}]
  BY DEF Applies, Writes, IInv, ThreadsOpened, TypeOK
<1>3. v \in Outcomes
  BY DEF LockedVerdict, Verdict, Outcomes, Answered, Drafted
<1>4. \E u \in {None, t} : Decided(m, v, u)
  BY DEF Applies
<1>5. /\ row' \in [Mails -> RowType] /\ row'[m].state = "DONE" /\ row'[m].wait = None
      /\ row'[m].thread \in {row[m].thread, t}
      /\ \A n \in Mails : n # m => row'[n] = row[n]
  <2>1. PICK u \in {None, t} : Decided(m, v, u)
    BY <1>4
  <2> HIDE DEF v
  <2> QED BY <1>1, <1>3, <2>1, DecidedRow
<1>6. Decides(h)
  BY <1>1, <1>2, <1>5 DEF Decides, Applies, world
<1>7. \/ /\ UNCHANGED <<jobs, out, entered>>
         /\ JobsGrow /\ \A j \in ReplyJobs : jobStatus'[j] = jobStatus[j]
      \/ ScheduleReply(m, t) /\ (UNCHANGED entered \/ Enters(m))
  <2>1. CASE UNCHANGED <<jobs, out, entered>>
    BY <2>1 DEF Applies, jobs, JobsGrow, IInv, TypeOK
  <2> QED BY <2>1 DEF Applies
<1> QED BY <1>1, <1>6, <1>7, DecisionKeeps

LEMMA IntakeKeeps == ASSUME IInv, NEW h \in handlers, IntakeStep(h) PROVE IInv'
BY LooksAtRowKeeps, JudgesKeeps, DefersKeeps, ExhaustsKeeps, IgnoresKeeps, CreatesKeeps,
   AnswersKeeps, AppliesKeeps DEF IntakeStep

-----------------------------------------------------------------------------
(* Steps of the answer *)

\* What the invariant says of a handler of the answer and of its message.
LEMMA ReplyFacts ==
  ASSUME IInv, NEW h \in handlers, h.job \in ReplyJobs
  PROVE  LET m == About(h.job) IN
         /\ m \in Mails /\ h.job \notin IntakeJobs
         /\ out \in [Mails -> OutType] /\ copies \in [Mails -> Nat]
         /\ out[m].state # "absent"
         /\ h.pc = "stamp" => copies[m] > 0
         /\ h.thread # None => ticket[h.thread] # "none"
         /\ h.plan = "applied" => h.thread # None
         /\ Sighted(m) =>
              /\ copies[m] <= 1
              /\ copies[m] > 0 => out[m].tried
              /\ h.pc \in {"search", "send", "stamp"} => out[m].tried
              /\ (h.pc = "count" /\ h.seen = 0) \/ h.pc = "send" => copies[m] = 0
<1> DEFINE m == About(h.job)
<1>1. m \in Mails /\ h.job = ReplyTo(m) /\ h.job \notin IntakeJobs
  BY HandlerTyped, JobIds
<1>2. out \in [Mails -> OutType] /\ copies \in [Mails -> Nat]
  BY DEF IInv, TypeOK
<1>3. out[m].state # "absent"
  BY <1>1 DEF IInv, AnswersPromised, HandlersKnown
<1>4. h.pc = "stamp" => copies[m] > 0
  BY DEF IInv, StampsTrue
<1>5. /\ h.thread # None => ticket[h.thread] # "none"
      /\ h.plan = "applied" => h.thread # None
  BY DEF IInv, ThreadsOpened
<1>6. Sighted(m) =>
              /\ copies[m] <= 1
              /\ copies[m] > 0 => out[m].tried
              /\ h.pc \in {"search", "send", "stamp"} => out[m].tried
              /\ (h.pc = "count" /\ h.seen = 0) \/ h.pc = "send" => copies[m] = 0
  BY <1>1 DEF IInv, SentOnceCounted
<1> QED BY <1>1, <1>2, <1>3, <1>4, <1>5, <1>6

\* A reply handler that only changes its place.
LEMMA ReplyGoes ==
  ASSUME IInv, NEW h \in handlers, h.job \in ReplyJobs, NEW pc \in ReplyPc, Goes(h, pc)
  PROVE  LET g == [h EXCEPT !.pc = pc] IN
         /\ Moves(h, g) /\ g.pc = pc /\ g.job = h.job /\ g.seen = h.seen
         /\ g.thread = h.thread /\ g.plan = h.plan
<1>1. h \in Handler
  BY HandlerTyped
<1>2. Moves(h, [h EXCEPT !.pc = pc])
  BY GoesMoves
<1> QED BY <1>1, <1>2, PcChange

LEMMA ReplyEnds ==
  ASSUME IInv, NEW h \in handlers, h.job \in ReplyJobs, NEW pc \in Ended, Ends(h, pc)
  PROVE  LET g == [h EXCEPT !.pc = pc] IN
         /\ Moves(h, g) /\ g.pc = pc /\ g.job = h.job /\ g.seen = h.seen
         /\ g.thread = h.thread /\ g.plan = h.plan
<1>1. h \in Handler
  BY HandlerTyped
<1>2. Moves(h, [h EXCEPT !.pc = pc])
  BY EndsMoves
<1> QED BY <1>1, <1>2, PcChange

LEMMA LooksAtAnswerKeeps == ASSUME IInv, NEW h \in handlers, LooksAtAnswer(h) PROVE IInv'
<1> DEFINE m == About(h.job)
<1>1. h.job \in ReplyJobs /\ UNCHANGED <<jobs, mail, world, poll, traces>>
  BY DEF LooksAtAnswer, ReplyAt
<1>2. /\ h.job \notin IntakeJobs
      /\ h.thread # None => ticket[h.thread] # "none"
      /\ h.plan = "applied" => h.thread # None
      /\ Sighted(m) => (copies[m] > 0 => out[m].tried)
      /\ m \in Mails /\ copies \in [Mails -> Nat]
  BY <1>1, ReplyFacts
<1>3. CASE out[m].state # "PENDING"
  <2> DEFINE g == [h EXCEPT !.pc = "returned"]
  <2>1. Ends(h, "returned")
    BY <1>3 DEF LooksAtAnswer
  <2>2. /\ Moves(h, g) /\ g.pc = "returned" /\ g.job = h.job /\ g.seen = h.seen
        /\ g.thread = h.thread /\ g.plan = h.plan
    BY <1>1, <2>1, ReplyEnds DEF Ended
  <2> HIDE DEF g
  <2> QED BY <1>1, <1>2, <1>3, <2>2, QuietKeeps
<1>4. CASE out[m].state = "PENDING" /\ NothingToSay(m)
  <2> DEFINE g == [h EXCEPT !.pc = "skip"]
  <2>1. Goes(h, "skip") /\ "skip" \in ReplyPc
    BY <1>4 DEF LooksAtAnswer, ReplyPc
  <2>2. /\ Moves(h, g) /\ g.pc = "skip" /\ g.job = h.job /\ g.seen = h.seen
        /\ g.thread = h.thread /\ g.plan = h.plan
    BY <1>1, <2>1, ReplyGoes
  <2> HIDE DEF g
  <2> QED BY <1>1, <1>2, <2>2, QuietKeeps
<1>5. CASE out[m].state = "PENDING" /\ ~NothingToSay(m)
  <2> DEFINE s == IF out[m].tried THEN 1 ELSE 0
             g == [h EXCEPT !.pc = "count", !.seen = s]
  <2>1. handlers' = (handlers \ {h}) \cup {g}
    BY <1>5 DEF LooksAtAnswer, Becomes
  <2>2. /\ g \in Handler /\ g.pc = "count" /\ g.job = h.job /\ g.attempt = h.attempt
        /\ g.thread = h.thread /\ g.plan = h.plan /\ g.seen = s
    BY <1>1, <1>2, HandlerTyped, JobIds DEF Handler, HandlerOf, ReplyPc
  <2> HIDE DEF g
  <2>3. Moves(h, g)
    BY <2>1, <2>2 DEF Moves, Running, Ended
  <2>4. Sighted(m) => (g.seen = 0 => copies[m] = 0)
    BY <1>2, <2>2
  <2> QED BY <1>1, <1>2, <2>2, <2>3, <2>4, QuietKeeps
<1> QED BY <1>3, <1>4, <1>5

\* The row of the answer of m after a step that sets its state.
LEMMA OutSet ==
  ASSUME IInv, NEW m \in Mails, NEW s \in OutStates, out' = [out EXCEPT ![m].state = s]
  PROVE  /\ out' \in [Mails -> OutType]
         /\ out'[m].state = s /\ out'[m].tried = out[m].tried
         /\ \A n \in Mails : n # m => out'[n] = out[n]
<1>1. out \in [Mails -> OutType]
  BY DEF IInv, TypeOK
<1> QED BY <1>1 DEF OutType

LEMMA SkipsKeeps == ASSUME IInv, NEW h \in handlers, Skips(h) PROVE IInv'
<1> DEFINE m == About(h.job)
           g == [h EXCEPT !.pc = "returned"]
<1>1. h.job \in ReplyJobs /\ Ends(h, "returned")
  BY DEF Skips, ReplyAt
<1>2. /\ m \in Mails /\ copies \in [Mails -> Nat]
      /\ Sighted(m) => copies[m] <= 1 /\ (copies[m] > 0 => out[m].tried)
  BY <1>1, ReplyFacts
<1>3. /\ out' \in [Mails -> OutType]
      /\ out'[m].state = "SKIPPED" /\ out'[m].tried = out[m].tried
      /\ \A n \in Mails : n # m => out'[n] = out[n]
  BY <1>2, OutSet DEF Skips, OutStates
<1>4. /\ Moves(h, g) /\ g.pc = "returned" /\ g.job = h.job /\ g.seen = h.seen
      /\ g.thread = h.thread /\ g.plan = h.plan
  BY <1>1, ReplyEnds DEF Ended
<1>5. UNCHANGED <<jobs, row, world, poll, copies, entered, blind, timedOut, crashes>>
  BY DEF Skips, traces
<1>6. Sighted(m)' => Sighted(m)
  BY <1>5 DEF Sighted
<1>7. blind' \subseteq Mails
  BY <1>5 DEF IInv, TypeOK
<1> HIDE DEF g
<1> QED BY <1>1, <1>2, <1>3, <1>4, <1>5, <1>6, <1>7, AnswerKeeps

LEMMA CountsKeeps == ASSUME IInv, NEW h \in handlers, Counts(h) PROVE IInv'
<1> DEFINE m == About(h.job)
           g == [h EXCEPT !.pc = AfterCount(h)]
<1>1. h.job \in ReplyJobs /\ h.pc = "count" /\ Goes(h, AfterCount(h))
  BY DEF Counts, ReplyAt, At
<1>2. /\ m \in Mails /\ out \in [Mails -> OutType] /\ copies \in [Mails -> Nat]
      /\ out[m].state # "absent"
      /\ Sighted(m) => copies[m] <= 1 /\ (h.seen = 0 => copies[m] = 0)
  BY <1>1, ReplyFacts
<1>3. /\ out' \in [Mails -> OutType]
      /\ out'[m].state = out[m].state /\ out'[m].tried = TRUE
      /\ \A n \in Mails : n # m => out'[n] = out[n]
  BY <1>2 DEF Counts, OutType
<1>4. /\ AfterCount(h) = "search" \/ (AfterCount(h) = "send" /\ h.seen = 0)
      /\ AfterCount(h) \in ReplyPc
  BY HandlerTyped DEF AfterCount, ReplyPc
<1>5. /\ Moves(h, g) /\ g.pc = AfterCount(h) /\ g.job = h.job /\ g.seen = h.seen
      /\ g.thread = h.thread /\ g.plan = h.plan
  BY <1>1, <1>4, ReplyGoes
<1>6. UNCHANGED <<jobs, row, world, poll, copies, entered, blind, timedOut, crashes>>
  BY DEF Counts, traces
<1>7. Sighted(m)' => Sighted(m)
  BY <1>6 DEF Sighted
<1>8. blind' \subseteq Mails
  BY <1>6 DEF IInv, TypeOK
<1> HIDE DEF g
<1> QED BY <1>1, <1>2, <1>3, <1>4, <1>5, <1>6, <1>7, <1>8, AnswerKeeps

LEMMA SearchesKeeps == ASSUME IInv, NEW h \in handlers, Searches(h) PROVE IInv'
<1> DEFINE m == About(h.job)
<1>1. h.job \in ReplyJobs /\ h.pc = "search"
  BY DEF Searches, ReplyAt, At
<1>2. /\ m \in Mails /\ out \in [Mails -> OutType] /\ copies \in [Mails -> Nat]
      /\ out[m].state # "absent"
      /\ Sighted(m) => copies[m] <= 1 /\ out[m].tried
  BY <1>1, ReplyFacts
<1>3. PICK pc \in {"stamp", "send"} : /\ Goes(h, pc) /\ pc \in ReplyPc
        /\ \/ (pc = "stamp" <=> copies[m] > 0) /\ UNCHANGED blind
           \/ pc = "send" /\ blind' = blind \cup {m}
  BY DEF Searches, ReplyPc
<1> DEFINE g == [h EXCEPT !.pc = pc]
<1>4. /\ Moves(h, g) /\ g.pc = pc /\ g.job = h.job /\ g.seen = h.seen
      /\ g.thread = h.thread /\ g.plan = h.plan
  BY <1>1, <1>3, ReplyGoes
<1>5. UNCHANGED <<jobs, row, out, world, poll, copies, entered, timedOut, crashes>>
  BY DEF Searches, mail
<1>6. /\ blind \subseteq blind' /\ blind' \subseteq Mails
      /\ Sighted(m)' => Sighted(m) /\ (pc = "stamp" <=> copies[m] > 0)
  BY <1>2, <1>3, <1>5 DEF Sighted, IInv, TypeOK
<1> HIDE DEF g
<1> QED BY <1>1, <1>2, <1>3, <1>4, <1>5, <1>6, AnswerKeeps

LEMMA SendsKeeps == ASSUME IInv, NEW h \in handlers, Sends(h) PROVE IInv'
<1> DEFINE m == About(h.job)
<1>1. h.job \in ReplyJobs /\ h.pc = "send"
  BY DEF Sends, ReplyAt, At
<1>2. /\ m \in Mails /\ out \in [Mails -> OutType] /\ copies \in [Mails -> Nat]
      /\ out[m].state # "absent"
      /\ Sighted(m) => copies[m] = 0 /\ out[m].tried
  BY <1>1, ReplyFacts
<1>3. /\ copies' \in [Mails -> Nat] /\ copies'[m] = copies[m] + 1
      /\ \A n \in Mails : n # m => copies'[n] = copies[n]
  BY <1>2 DEF Sends
<1>4. PICK pc \in {"stamp", "mark", "threw"} : Moves(h, [h EXCEPT !.pc = pc])
  <2>1. CASE Goes(h, "stamp")
    BY <1>1, <2>1, GoesMoves DEF ReplyPc
  <2>2. CASE Raises(h)
    BY <2>2, RaisesMoves
  <2> QED BY <2>1, <2>2 DEF Sends
<1> DEFINE g == [h EXCEPT !.pc = pc]
<1>5. /\ g.pc = pc /\ g.job = h.job /\ g.seen = h.seen
      /\ g.thread = h.thread /\ g.plan = h.plan
  BY <1>1, HandlerTyped, PcChange DEF ReplyPc, Ended
<1>6. UNCHANGED <<jobs, row, out, world, poll, entered, blind, timedOut, crashes>>
  BY DEF Sends, mail
<1>7. Sighted(m)' => Sighted(m)
  BY <1>6 DEF Sighted
<1>8. blind' \subseteq Mails
  BY <1>6 DEF IInv, TypeOK
<1>9. Moves(h, g)
  BY <1>4
<1> HIDE DEF g
<1> QED BY <1>1, <1>2, <1>3, <1>5, <1>6, <1>7, <1>8, <1>9, AnswerKeeps

LEMMA StampsKeeps == ASSUME IInv, NEW h \in handlers, Stamps(h) PROVE IInv'
<1> DEFINE m == About(h.job)
           g == [h EXCEPT !.pc = "returned"]
<1>1. h.job \in ReplyJobs /\ h.pc = "stamp" /\ Ends(h, "returned")
  BY DEF Stamps, ReplyAt, At
<1>2. /\ m \in Mails /\ copies \in [Mails -> Nat] /\ copies[m] > 0
      /\ Sighted(m) => copies[m] <= 1 /\ out[m].tried
  BY <1>1, ReplyFacts
<1>3. /\ out' \in [Mails -> OutType]
      /\ out'[m].state = "SENT" /\ out'[m].tried = out[m].tried
      /\ \A n \in Mails : n # m => out'[n] = out[n]
  BY <1>2, OutSet DEF Stamps, OutStates
<1>4. /\ Moves(h, g) /\ g.pc = "returned" /\ g.job = h.job /\ g.seen = h.seen
      /\ g.thread = h.thread /\ g.plan = h.plan
  BY <1>1, ReplyEnds DEF Ended
<1>5. UNCHANGED <<jobs, row, world, poll, copies, entered, blind, timedOut, crashes>>
  BY DEF Stamps, traces
<1>6. Sighted(m)' => Sighted(m)
  BY <1>5 DEF Sighted
<1>7. blind' \subseteq Mails
  BY <1>5 DEF IInv, TypeOK
<1> HIDE DEF g
<1> QED BY <1>1, <1>2, <1>3, <1>4, <1>5, <1>6, <1>7, AnswerKeeps

LEMMA MarksKeeps == ASSUME IInv, NEW h \in handlers, Marks(h) PROVE IInv'
<1> DEFINE m == About(h.job)
           g == [h EXCEPT !.pc = "threw"]
           s == IF out[m].state = "PENDING" THEN "FAILED" ELSE out[m].state
<1>1. h.job \in ReplyJobs /\ Ends(h, "threw")
  BY DEF Marks, ReplyAt
<1>2. /\ m \in Mails /\ copies \in [Mails -> Nat] /\ out \in [Mails -> OutType]
      /\ out[m].state # "absent"
      /\ Sighted(m) => copies[m] <= 1 /\ (copies[m] > 0 => out[m].tried)
  BY <1>1, ReplyFacts
<1>3. s \in OutStates /\ out' = [out EXCEPT ![m].state = s]
  BY <1>2 DEF Marks, OutType, OutStates
<1>4. /\ out' \in [Mails -> OutType]
      /\ out'[m].state = s /\ out'[m].tried = out[m].tried
      /\ \A n \in Mails : n # m => out'[n] = out[n]
  BY <1>2, <1>3, OutSet
<1>5. /\ Moves(h, g) /\ g.pc = "threw" /\ g.job = h.job /\ g.seen = h.seen
      /\ g.thread = h.thread /\ g.plan = h.plan
  BY <1>1, ReplyEnds DEF Ended
<1>6. UNCHANGED <<jobs, row, world, poll, copies, entered, blind, timedOut, crashes>>
  BY DEF Marks, traces
<1>7. Sighted(m)' => Sighted(m)
  BY <1>6 DEF Sighted
<1>8. blind' \subseteq Mails
  BY <1>6 DEF IInv, TypeOK
<1> HIDE DEF g
<1> QED BY <1>1, <1>2, <1>4, <1>5, <1>6, <1>7, <1>8, AnswerKeeps

LEMMA ReplyKeeps == ASSUME IInv, NEW h \in handlers, ReplyStep(h) PROVE IInv'
BY LooksAtAnswerKeeps, SkipsKeeps, CountsKeeps, SearchesKeeps, SendsKeeps, StampsKeeps,
   MarksKeeps DEF ReplyStep

-----------------------------------------------------------------------------
(* Steps of the lane, the poll and the users *)

\* Such a step writes no row of the mailbox: it may start, settle or drop
\* handlers, and settles as done only what returned.
LEMMA LaneKeeps ==
  ASSUME IInv, DueFirst', HandlersKnown',
         UNCHANGED <<mail, copies, entered, blind>>,
         jobStatus' \in [Jobs -> Queue!Status], jobAttempts' \in [Jobs -> 0 .. MaxAttempts],
         due' \subseteq Jobs, handlers' \subseteq Handler,
         poll' \in [Polls -> Mails \cup {None}],
         sender' \in [Mails -> {"editor", "reader", "stranger"}],
         ticket' \in [Mails -> {"none", "draft", "sent", "deleted"}],
         timedOut \subseteq timedOut', timedOut' \subseteq Jobs, crashes' \in 0 .. MaxCrashes,
         \A t \in Mails : ticket[t] # "none" => ticket'[t] # "none",
         \A j \in Jobs : /\ jobStatus'[j] = "NONE" <=> jobStatus[j] = "NONE"
                         /\ jobStatus'[j] = "DONE" =>
                              \/ jobStatus[j] = "DONE"
                              \/ \E h \in handlers : h.job = j /\ h.pc = "returned",
         \A h \in handlers' : h \in handlers
                              \/ (h.pc = "look" /\ h.thread = None /\ h.plan = None)
  PROVE  IInv'
<1> USE DEF mail
<1>1. TypeOK'
  BY DEF IInv, TypeOK
<1>2. WaitsForOwn'
  BY JobIds DEF IInv, WaitsForOwn, TypeOK, RowType
<1>3. ASSUME NEW j \in Jobs, jobStatus[j] \in {"PENDING", "RUNNING", "FAILED"},
             \A h \in handlers : h.job = j => h.pc # "returned"
      PROVE  jobStatus'[j] \in {"PENDING", "RUNNING", "FAILED"}
  BY <1>3 DEF Queue!Status
<1>4. RowsPromised'
  <2> SUFFICES ASSUME NEW m \in Mails, row[m].state = "PENDING"
               PROVE  \E j \in IntakeJobs : About(j) = m /\ Promised(j)'
    BY DEF RowsPromised
  <2>1. PICK j \in IntakeJobs : About(j) = m /\ Promised(j)
    BY DEF IInv, RowsPromised
  <2>2. jobStatus'[j] \in {"PENDING", "RUNNING", "FAILED"}
    BY <1>3, <2>1, JobIds DEF Promised
  <2>3. \A h \in handlers' : h.job = j => h.pc # "returned"
    BY <2>1 DEF Promised
  <2> QED BY <2>1, <2>2, <2>3 DEF Promised
<1>5. AnswersPromised'
  <2>1. ASSUME NEW m \in Mails, out[m].state = "PENDING"
        PROVE  jobStatus'[ReplyTo(m)] \in {"PENDING", "RUNNING", "FAILED"}
    <3>1. \A h \in handlers : h.job = ReplyTo(m) => h.pc # "returned"
      BY <2>1, JobIds DEF IInv, AnswersPromised
    <3> QED BY <1>3, <2>1, <3>1, JobIds DEF IInv, AnswersPromised
  <2>2. ASSUME NEW m \in Mails, out[m].state = "absent"
        PROVE  jobStatus'[ReplyTo(m)] = "NONE" /\ copies'[m] = 0
    BY <2>2, JobIds DEF IInv, AnswersPromised
  <2>3. \A h \in handlers' : (h.job \in ReplyJobs /\ h.pc = "returned") =>
          out'[About(h.job)].state # "PENDING"
    BY DEF IInv, AnswersPromised
  <2> QED BY <2>1, <2>2, <2>3 DEF AnswersPromised
<1>6. EnteredWithAnswer'
  BY DEF IInv, EnteredWithAnswer
<1>7. ThreadsOpened'
  <2>1. \A h \in handlers : h.thread \in Mails \cup {None}
    BY HandlerTyped
  <2>2. \A m \in Mails : row[m].thread \in Mails \cup {None}
    BY DEF IInv, TypeOK, RowType
  <2>3. \A h \in handlers' : /\ h.thread # None => ticket'[h.thread] # "none"
                             /\ h.plan = "applied" => h.thread # None
    <3>1. None # "applied"
      BY NoneAssumption DEF Outcomes, Answered, Drafted
    <3> QED BY <2>1, <3>1 DEF IInv, ThreadsOpened
  <2>4. \A m \in Mails : row'[m].thread # None => ticket'[row'[m].thread] # "none"
    BY <2>2 DEF IInv, ThreadsOpened
  <2> QED BY <2>3, <2>4 DEF ThreadsOpened
<1>8. StampsTrue'
  BY DEF IInv, StampsTrue, SentMeansDelivered
<1>9. SentOnceCounted'
  <2> SUFFICES ASSUME NEW m \in Mails, Sighted(m)'
               PROVE  /\ copies[m] <= 1
                      /\ copies[m] > 0 => out[m].tried
                      /\ \A k \in handlers' : k.job = ReplyTo(m) =>
                         /\ k.pc \in {"search", "send", "stamp"} => out[m].tried
                         /\ (k.pc = "count" /\ k.seen = 0) \/ k.pc = "send" => copies[m] = 0
    BY DEF SentOnceCounted
  <2>1. Sighted(m)
    BY DEF Sighted
  <2> QED BY <2>1 DEF IInv, SentOnceCounted
<1> QED BY <1>1, <1>2, <1>4, <1>5, <1>6, <1>7, <1>8, <1>9 DEF IInv

LEMMA StartsKeeps == ASSUME IInv, NEW j \in Jobs, Starts(j) PROVE IInv'
<1>0. PICK n : n = [job |-> j, attempt |-> jobAttempts[j] + 1, pc |-> "look",
                    seen |-> 0, plan |-> None, thread |-> None]
  OBVIOUS
<1>1. /\ jobStatus \in [Jobs -> Queue!Status] /\ jobAttempts \in [Jobs -> 0 .. MaxAttempts]
      /\ handlers \subseteq Handler /\ MaxAttempts \in Nat
  BY MailAssumption DEF IInv, TypeOK
<1>2. /\ j \in due /\ jobStatus[j] = "PENDING" /\ jobAttempts[j] < MaxAttempts
      /\ jobStatus' = [jobStatus EXCEPT ![j] = "RUNNING"]
      /\ jobAttempts' = [jobAttempts EXCEPT ![j] = @ + 1]
      /\ handlers' = handlers \cup {n}
      /\ UNCHANGED <<due, mail, world, poll, traces>>
  BY <1>0 DEF Starts, Queue!Start
<1>3. /\ n \in Handler /\ n.pc = "look" /\ n.thread = None /\ n.plan = None
      /\ n.job = j /\ n.attempt = jobAttempts[j] + 1
  BY <1>0, <1>1, <1>2 DEF Handler, HandlerOf, Jobs, IntakePc, ReplyPc
<1>4. DueFirst'
  BY <1>1, <1>2 DEF IInv, DueFirst
<1>5. \A h \in handlers : /\ h.job \in Jobs /\ h.attempt \in 1 .. MaxAttempts
                          /\ h.job = j => Running(h) /\ h.job \in timedOut
                                          /\ h.attempt <= jobAttempts[j]
  BY <1>2, HandlerTyped DEF IInv, HandlersKnown, Awaited
<1>6. HandlersKnown'
  <2>1. \A h \in handlers : h.job # j =>
          jobStatus'[h.job] = jobStatus[h.job] /\ jobAttempts'[h.job] = jobAttempts[h.job]
    BY <1>1, <1>2, <1>5
  <2>2. jobStatus'[j] = "RUNNING" /\ jobAttempts'[j] = jobAttempts[j] + 1
    BY <1>1, <1>2
  <2>3. ASSUME NEW h \in handlers
        PROVE  /\ jobStatus'[h.job] # "NONE" /\ h.job \in due'
               /\ h.attempt <= jobAttempts'[h.job]
               /\ ~Running(h) => Awaited(h)'
               /\ h.job \notin timedOut' => Awaited(h)'
    <3>1. CASE h.job = j
      BY <1>1, <1>2, <1>5, <2>2, <3>1 DEF traces
    <3>2. CASE h.job # j
      BY <1>2, <2>1, <3>2 DEF traces, IInv, HandlersKnown, Awaited
    <3> QED BY <3>1, <3>2
  <2>4. /\ jobStatus'[n.job] # "NONE" /\ n.job \in due'
        /\ n.attempt <= jobAttempts'[n.job] /\ Awaited(n)'
    BY <1>1, <1>2, <1>3, <2>2 DEF Awaited
  <2>5. ASSUME NEW h \in handlers', NEW g \in handlers', h.job = g.job, h.attempt = g.attempt
        PROVE  h = g
    <3>1. \A k \in handlers : k.job = j => k.attempt # n.attempt
      BY <1>1, <1>3, <1>5
    <3> QED BY <1>2, <1>3, <2>5, <3>1 DEF IInv, HandlersKnown
  <2> QED BY <1>2, <2>3, <2>4, <2>5 DEF HandlersKnown, Running
<1>7. /\ jobStatus' \in [Jobs -> Queue!Status] /\ jobAttempts' \in [Jobs -> 0 .. MaxAttempts]
      /\ \A i \in Jobs : /\ jobStatus'[i] = "NONE" <=> jobStatus[i] = "NONE"
                         /\ jobStatus'[i] = "DONE" => jobStatus[i] = "DONE"
  BY <1>1, <1>2 DEF Queue!Status
<1>8. \A h \in handlers' : h \in handlers
                              \/ (h.pc = "look" /\ h.thread = None /\ h.plan = None)
  BY <1>2, <1>3
<1> QED BY <1>1, <1>2, <1>3, <1>4, <1>6, <1>7, <1>8, LaneKeeps
        DEF IInv, TypeOK, world, traces

\* What becomes of runs that are put back or given up.
LEMMA PutBack ==
  ASSUME IInv, NEW S \in SUBSET Jobs, Queue!PutBackOrGiveUp(S)
  PROVE  /\ jobAttempts' = jobAttempts /\ jobStatus' \in [Jobs -> Queue!Status]
         /\ \A j \in S : jobStatus[j] = "RUNNING" /\ jobStatus'[j] \in {"PENDING", "FAILED"}
         /\ \A j \in Jobs : j \notin S => jobStatus'[j] = jobStatus[j]
BY DEF Queue!PutBackOrGiveUp, Queue!Status, IInv, TypeOK

LEMMA SettlesKeeps == ASSUME IInv, NEW h \in handlers, Settles(h) PROVE IInv'
<1> DEFINE j == h.job
<1>1. /\ jobStatus \in [Jobs -> Queue!Status] /\ jobAttempts \in [Jobs -> 0 .. MaxAttempts]
      /\ handlers \subseteq Handler /\ j \in Jobs
  BY HandlerTyped DEF IInv, TypeOK
<1>2. /\ ~Running(h) /\ Awaited(h) /\ j \in due
      /\ handlers' = handlers \ {h}
      /\ UNCHANGED <<due, mail, world, poll, traces>>
  BY DEF Settles, IInv, HandlersKnown
<1>3. /\ jobAttempts' = jobAttempts /\ jobStatus' \in [Jobs -> Queue!Status]
      /\ jobStatus[j] = "RUNNING" /\ jobStatus'[j] \in {"PENDING", "FAILED", "DONE"}
      /\ jobStatus'[j] = "DONE" => h.pc = "returned"
      /\ \A i \in Jobs : i # j => jobStatus'[i] = jobStatus[i]
  <2>1. CASE h.pc = "returned"
    BY <1>1, <1>2, <2>1 DEF Settles, Awaited, Queue!Finish, Queue!Status
  <2>2. CASE h.pc # "returned"
    <3>1. Queue!PutBackOrGiveUp({j})
      BY <2>2 DEF Settles
    <3> HIDE DEF j
    <3>2. {j} \in SUBSET Jobs
      BY <1>1
    <3> QED BY <2>2, <3>1, <3>2, PutBack
  <2> QED BY <2>1, <2>2
<1>4. DueFirst'
  BY <1>2, <1>3 DEF IInv, DueFirst
<1>5. HandlersKnown'
  <2>1. \A k \in handlers' : k \in handlers /\ k # h /\ k.job \in Jobs
    BY <1>2, HandlerTyped
  <2>2. ASSUME NEW k \in handlers'
        PROVE  /\ jobStatus'[k.job] # "NONE" /\ k.job \in due'
               /\ k.attempt <= jobAttempts'[k.job]
               /\ ~Running(k) => Awaited(k)'
               /\ k.job \notin timedOut' => Awaited(k)'
    <3>1. CASE k.job = j
      <4>1. ~Awaited(k)
        BY <1>2, <2>1, <3>1 DEF Awaited, IInv, HandlersKnown
      <4> QED BY <1>2, <1>3, <2>1, <3>1, <4>1 DEF IInv, HandlersKnown, traces
    <3>2. CASE k.job # j
      BY <1>2, <1>3, <2>1, <3>2 DEF traces, IInv, HandlersKnown, Awaited
    <3> QED BY <3>1, <3>2
  <2> QED BY <2>1, <2>2 DEF IInv, HandlersKnown, Running
<1>6. \A i \in Jobs : /\ jobStatus'[i] = "NONE" <=> jobStatus[i] = "NONE"
                      /\ jobStatus'[i] = "DONE" =>
                              \/ jobStatus[i] = "DONE"
                              \/ \E k \in handlers : k.job = i /\ k.pc = "returned"
  BY <1>3
<1>7. \A k \in handlers' : k \in handlers
  BY <1>2
<1> QED BY <1>1, <1>2, <1>3, <1>4, <1>5, <1>6, <1>7, LaneKeeps
        DEF IInv, TypeOK, world, traces

LEMMA TimesOutKeeps == ASSUME IInv, NEW h \in handlers, TimesOut(h) PROVE IInv'
<1> DEFINE j == h.job
<1>1. /\ jobAttempts \in [Jobs -> 0 .. MaxAttempts] /\ j \in Jobs /\ timedOut \subseteq Jobs
  BY HandlerTyped DEF IInv, TypeOK
<1>2. /\ Running(h) /\ Awaited(h) /\ j \in due /\ timedOut' = timedOut \cup {j}
      /\ Queue!PutBackOrGiveUp({j})
      /\ UNCHANGED <<due, mail, world, poll, handlers, copies, entered, blind, crashes>>
  BY DEF TimesOut, IInv, HandlersKnown
<1>3. /\ jobAttempts' = jobAttempts /\ jobStatus' \in [Jobs -> Queue!Status]
      /\ jobStatus[j] = "RUNNING" /\ jobStatus'[j] \in {"PENDING", "FAILED"}
      /\ \A i \in Jobs : i # j => jobStatus'[i] = jobStatus[i]
  <2> HIDE DEF j
  <2>1. {j} \in SUBSET Jobs
    BY <1>1
  <2> QED BY <1>2, <2>1, PutBack
<1>4. DueFirst'
  BY <1>2, <1>3 DEF IInv, DueFirst
<1>5. HandlersKnown'
  <2>1. \A k \in handlers : k.job \in Jobs
    BY HandlerTyped
  <2>2. ASSUME NEW k \in handlers
        PROVE  /\ jobStatus'[k.job] # "NONE" /\ k.job \in due'
               /\ k.attempt <= jobAttempts'[k.job]
               /\ ~Running(k) => Awaited(k)'
               /\ k.job \notin timedOut' => Awaited(k)'
    <3>1. CASE k.job = j
      <4>1. Running(k)
        BY <1>2, <3>1 DEF Awaited, IInv, HandlersKnown
      <4> QED BY <1>2, <1>3, <3>1, <4>1 DEF IInv, HandlersKnown
    <3>2. CASE k.job # j
      BY <1>2, <1>3, <2>1, <3>2 DEF IInv, HandlersKnown, Awaited
    <3> QED BY <3>1, <3>2
  <2> QED BY <1>2, <2>2 DEF IInv, HandlersKnown, Running
<1>6. \A i \in Jobs : /\ jobStatus'[i] = "NONE" <=> jobStatus[i] = "NONE"
                      /\ jobStatus'[i] = "DONE" => jobStatus[i] = "DONE"
  BY <1>3
<1> QED BY <1>1, <1>2, <1>3, <1>4, <1>5, <1>6, LaneKeeps DEF IInv, TypeOK, world

LEMMA CrashKeeps == ASSUME IInv, Crash PROVE IInv'
<1> DEFINE S == {j \in Jobs : jobStatus[j] = "RUNNING"}
<1>1. /\ Queue!PutBackOrGiveUp(S) /\ handlers' = {} /\ poll' = [p \in Polls |-> None]
      /\ crashes < MaxCrashes /\ crashes' = crashes + 1
      /\ UNCHANGED <<due, mail, world, copies, entered, blind, timedOut>>
  BY DEF Crash
<1>2. /\ jobAttempts' = jobAttempts /\ jobStatus' \in [Jobs -> Queue!Status]
      /\ \A j \in S : jobStatus[j] = "RUNNING" /\ jobStatus'[j] \in {"PENDING", "FAILED"}
      /\ \A j \in Jobs : j \notin S => jobStatus'[j] = jobStatus[j]
  BY <1>1, PutBack
<1>3. DueFirst'
  BY <1>1, <1>2 DEF IInv, DueFirst
<1>4. HandlersKnown' /\ handlers' \subseteq Handler
  BY <1>1 DEF HandlersKnown
<1>5. crashes' \in 0 .. MaxCrashes
  BY <1>1, MailAssumption DEF IInv, TypeOK
<1>6. \A i \in Jobs : /\ jobStatus'[i] = "NONE" <=> jobStatus[i] = "NONE"
                      /\ jobStatus'[i] = "DONE" => jobStatus[i] = "DONE"
  BY <1>2
<1>7. poll' \in [Polls -> Mails \cup {None}]
  BY <1>1
<1> QED BY <1>1, <1>2, <1>3, <1>4, <1>5, <1>6, <1>7, LaneKeeps DEF IInv, TypeOK, world

LEMMA FallsDueKeeps == ASSUME IInv, NEW j \in Jobs, FallsDue(j) PROVE IInv'
<1>1. /\ due' = due \cup {j}
      /\ UNCHANGED <<jobStatus, jobAttempts, mail, world, poll, handlers, traces>>
  BY DEF FallsDue
<1>2. DueFirst' /\ HandlersKnown'
  BY <1>1 DEF IInv, DueFirst, HandlersKnown, Awaited, traces
<1> QED BY <1>1, <1>2, LaneKeeps DEF IInv, TypeOK, world, traces

\* Nothing in the lane moves.
LEMMA RestKeeps ==
  ASSUME IInv, UNCHANGED <<jobs, mail, handlers, traces>>,
         poll' \in [Polls -> Mails \cup {None}],
         sender' \in [Mails -> {"editor", "reader", "stranger"}],
         ticket' \in [Mails -> {"none", "draft", "sent", "deleted"}],
         \A t \in Mails : ticket[t] # "none" => ticket'[t] # "none"
  PROVE  IInv'
<1>1. DueFirst' /\ HandlersKnown'
  BY DEF IInv, DueFirst, HandlersKnown, Awaited, jobs, traces
<1> QED BY <1>1, LaneKeeps DEF IInv, TypeOK, jobs, traces

LEMMA ListsKeeps == ASSUME IInv, NEW p \in Polls, NEW m \in Mails, Lists(p, m) PROVE IInv'
<1>1. poll' \in [Polls -> Mails \cup {None}]
  BY DEF Lists, IInv, TypeOK
<1> QED BY <1>1, RestKeeps DEF Lists, IInv, TypeOK, world

LEMMA UserActsKeeps == ASSUME IInv, NEW m \in Mails, UserActs(m) PROVE IInv'
<1>1. /\ ticket' \in [Mails -> {"none", "draft", "sent", "deleted"}]
      /\ \A t \in Mails : ticket[t] # "none" => ticket'[t] # "none"
  BY DEF UserActs, IInv, TypeOK
<1> QED BY <1>1, RestKeeps DEF UserActs, IInv, TypeOK

LEMMA SenderLosesKeeps == ASSUME IInv, NEW m \in Mails, SenderLoses(m) PROVE IInv'
<1>1. sender' \in [Mails -> {"editor", "reader", "stranger"}]
  BY DEF SenderLoses, IInv, TypeOK
<1> QED BY <1>1, RestKeeps DEF SenderLoses, IInv, TypeOK

LEMMA RecordsKeeps == ASSUME IInv, NEW p \in Polls, Records(p) PROVE IInv'
<1> DEFINE m == poll[p]
<1>1. /\ poll' \in [Polls -> Mails \cup {None}] /\ m \in Mails
      /\ UNCHANGED <<out, world, handlers, traces>>
  BY DEF Records, IInv, TypeOK
<1>2. CASE UNCHANGED <<jobs, row>>
  BY <1>1, <1>2, RestKeeps DEF mail, world, IInv, TypeOK
<1>3. CASE ~UNCHANGED <<jobs, row>>
  <2>1. PICK j \in FreeIntakes(m) : IntakeJob(j) /\ due' = due \cup {j}
    BY <1>3 DEF Records
  <2>2. j \in IntakeJobs /\ j \in Jobs /\ About(j) = m /\ jobStatus[j] = "NONE"
    BY <1>1, <2>1, FreeIntake
  <2>3. /\ JobsGrow /\ jobStatus'[j] = "PENDING"
        /\ \A i \in Jobs : i # j => jobStatus'[i] = jobStatus[i]
    BY <1>1, <2>1, <2>2, CreateGrows DEF IntakeJob, traces
  <2>4. row' = [row EXCEPT ![m].state = "PENDING"]
    BY <1>3 DEF Records
  <2>5. /\ row' \in [Mails -> RowType]
        /\ \A n \in Mails : row'[n].wait = row[n].wait /\ row'[n].thread = row[n].thread
        /\ \A n \in Mails : n # m => row'[n] = row[n]
    <3>1. row \in [Mails -> RowType]
      BY DEF IInv, TypeOK
    <3> QED BY <1>1, <2>4, <3>1 DEF RowType, RowStates
  <2>6. TypeOK'
    BY <1>1, <2>3, <2>5 DEF IInv, TypeOK, JobsGrow, world, traces
  <2>7. DueFirst'
    BY <2>3 DEF IInv, DueFirst, JobsGrow
  <2>8. HandlersKnown'
    <3>1. \A h \in handlers : h.job \in Jobs /\ jobStatus'[h.job] = jobStatus[h.job]
      BY <2>2, <2>3, HandlerTyped DEF IInv, HandlersKnown
    <3> QED BY <1>1, <2>3, <3>1 DEF IInv, HandlersKnown, Awaited, JobsGrow, traces
  <2>9. WaitsForOwn'
    BY <2>3, <2>5, WaitStep
  <2>10. RowsPromised'
    <3> SUFFICES ASSUME NEW n \in Mails, row'[n].state = "PENDING"
                 PROVE  \E i \in IntakeJobs : About(i) = n /\ Promised(i)'
      BY DEF RowsPromised
    <3>1. CASE n = m
      <4>1. \A h \in handlers' : h.job # j
        BY <1>1, <2>2 DEF IInv, HandlersKnown
      <4> QED BY <2>2, <2>3, <3>1, <4>1 DEF Promised
    <3>2. CASE n # m
      <4>1. PICK i \in IntakeJobs : About(i) = n /\ Promised(i)
        BY <2>5, <3>2 DEF IInv, RowsPromised
      <4> QED BY <1>1, <2>2, <2>3, <3>2, <4>1, JobIds DEF Promised
    <3> QED BY <3>1, <3>2
  <2>11. \A n \in Mails : jobStatus'[ReplyTo(n)] = jobStatus[ReplyTo(n)]
    BY <2>2, <2>3, JobIds
  <2>12. AnswersPromised' /\ EnteredWithAnswer'
    BY <1>1, <2>11 DEF IInv, AnswersPromised, EnteredWithAnswer, traces
  <2>13. ThreadsOpened'
    BY <1>1, <2>5 DEF IInv, ThreadsOpened, world
  <2>14. StampsTrue' /\ SentOnceCounted'
    BY <1>1 DEF IInv, StampsTrue, SentMeansDelivered, SentOnceCounted, Sighted, traces
  <2> QED BY <2>6, <2>7, <2>8, <2>9, <2>10, <2>12, <2>13, <2>14 DEF IInv
<1> QED BY <1>2, <1>3

-----------------------------------------------------------------------------
(* The invariant and what follows from it *)

LEMMA StepKeeps == IInv /\ [Next]_vars => IInv'
<1> SUFFICES ASSUME IInv, [Next]_vars PROVE IInv'
  OBVIOUS
<1>1. CASE \E p \in Polls : Records(p) \/ \E m \in Mails : Lists(p, m)
  BY <1>1, RecordsKeeps, ListsKeeps
<1>2. CASE \E j \in Jobs : Starts(j) \/ FallsDue(j)
  BY <1>2, StartsKeeps, FallsDueKeeps
<1>3. CASE \E h \in handlers :
             IntakeStep(h) \/ ReplyStep(h) \/ Throws(h) \/ Settles(h) \/ TimesOut(h)
  BY <1>3, IntakeKeeps, ReplyKeeps, ThrowsKeeps, SettlesKeeps, TimesOutKeeps
<1>4. CASE \E m \in Mails : UserActs(m) \/ SenderLoses(m)
  BY <1>4, UserActsKeeps, SenderLosesKeeps
<1>5. CASE Crash
  BY <1>5, CrashKeeps
<1>6. CASE UNCHANGED vars
  BY <1>6, RestKeeps DEF vars, world, IInv, TypeOK
<1> QED BY <1>1, <1>2, <1>3, <1>4, <1>5, <1>6 DEF Next

\* The invariant holds in every state the intake reaches.
THEOREM Invariance == Spec => []IInv
BY InitIInv, StepKeeps, PTL DEF Spec

\* Every variable keeps its type, so that a job is attempted at most
\* MaxAttempts times.
THEOREM TypeCorrect == Spec => []TypeOK
<1>1. IInv => TypeOK
  BY DEF IInv
<1> QED BY <1>1, Invariance, PTL

\* A message that waits for its decision or for its answer always has a job
\* that will come back to it or was given up in sight, whatever crashes, time
\* limits, deferrals and late handlers do (email-poll.ts, email-intake.ts).
THEOREM NobodyForgottenAlways == Spec => []NobodyForgotten
<1>1. IInv => NobodyForgotten
  BY DEF IInv, NobodyForgotten, RowsPromised, Promised, AnswersPromised
<1> QED BY <1>1, Invariance, PTL

\* The content of a message enters a draft at most once (createEmailDraft and
\* applyEmailReply in email-intake.ts).
THEOREM EnteredOnceAlways == Spec => []EnteredOnce
<1>1. IInv => EnteredOnce
  BY DEF IInv, EnteredOnce, EnteredWithAnswer
<1> QED BY <1>1, Invariance, PTL

\* The sender gets at most one answer while the search of the mailbox works and
\* no handler of the answer was given up (sendEmailReply in email-reply.ts).
THEOREM AnsweredOnceAlways == Spec => []AnsweredOnce
<1>1. IInv => AnsweredOnce
  BY DEF IInv, TypeOK, AnsweredOnce, SentOnceCounted, Sighted
<1> QED BY <1>1, Invariance, PTL

\* An answer recorded as SENT reached the mailbox (sendEmailReply).
THEOREM SentMeansDeliveredAlways == Spec => []SentMeansDelivered
<1>1. IInv => SentMeansDelivered
  BY DEF IInv, StampsTrue
<1> QED BY <1>1, Invariance, PTL

\* A reply is merged only into a draft and only for a sender who may edit it at
\* that moment (the second look of applyEmailReply).
THEOREM MergeIsAllowedAlways == Spec => MergeIsAllowed
<1> DEFINE Allowed(m) == (entered'[m] > entered[m] /\ row'[m].outcome = "applied") =>
                           ticket[row'[m].thread] = "draft" /\ sender[m] = "editor"
<1>1. ASSUME IInv, Next PROVE \A m \in Mails : Allowed(m)
  <2> SUFFICES ASSUME NEW n \in Mails, entered'[n] > entered[n], row'[n].outcome = "applied"
               PROVE  ticket[row'[n].thread] = "draft" /\ sender[n] = "editor"
    OBVIOUS
  <2>1. entered \in [Mails -> Nat] /\ entered' # entered
    BY <1>1 DEF IInv, TypeOK
  <2>2. PICK h \in handlers : Creates(h) \/ Applies(h)
    BY <1>1, <2>1 DEF Next, Records, Lists, Starts, FallsDue, IntakeStep, ReplyStep, Throws,
       Settles, TimesOut, UserActs, SenderLoses, Crash, LooksAtRow, Judges, Defers, Exhausts,
       Ignores, Answers, LooksAtAnswer, Skips, Counts, Searches, Sends, Stamps, Marks, traces
  <2> DEFINE m == About(h.job)
             t == h.thread
  <2>3. m \in Mails /\ t \in Mails \cup {None}
    BY <1>1, HandlerTyped
  <2>4. Enters(m)
    BY <2>1, <2>2 DEF Creates, Applies
  <2>5. n = m
    BY <2>1, <2>3, <2>4 DEF Enters
  <2>6. CASE Creates(h)
    <3>1. row'[m].outcome = "created"
      BY <1>1, <2>3, <2>6, DecidedRow DEF Creates, Outcomes, Answered, Drafted
    <3> QED BY <2>5, <3>1
  <2>7. CASE Applies(h)
    <3>1. t # None /\ t \in Mails /\ ticket[t] # "none"
      BY <1>1, <2>3, <2>7 DEF Applies, Writes, IInv, ThreadsOpened
    <3>2. LockedVerdict(m, t) = "applied" /\ Decided(m, "applied", t)
      BY <2>1, <2>7 DEF Applies
    <3>3. row'[m].thread = t
      BY <1>1, <2>3, <3>1, <3>2, DecidedRow DEF Outcomes, Answered, Drafted
    <3>4. ticket[t] \notin {"deleted", "sent"} /\ sender[m] \notin {"stranger", "reader"}
      BY <3>2 DEF LockedVerdict, Verdict
    <3>5. ticket[t] = "draft" /\ sender[m] = "editor"
      BY <1>1, <2>3, <3>1, <3>4 DEF IInv, TypeOK
    <3> QED BY <2>5, <3>3, <3>5
  <2> QED BY <2>2, <2>6, <2>7
<1>2. IInv /\ [Next]_vars => [\A m \in Mails : Allowed(m)]_vars
  BY <1>1
<1> HIDE DEF Allowed
<1>3. Spec => [][\A m \in Mails : Allowed(m)]_vars
  BY <1>2, Invariance, PTL DEF Spec
<1> QED BY <1>3 DEF MergeIsAllowed, Allowed

=============================================================================
