--------------------------- MODULE DeliveryProofs ---------------------------
(***************************************************************************)
(* Proofs about Delivery: what holds for any number of recipients,         *)
(* notifications, attempts, time limits and crashes.                       *)
(***************************************************************************)
EXTENDS Delivery, TLAPS

-----------------------------------------------------------------------------
(* The inductive invariant *)

\* What a row of the table and its handlers know of each other: a row never
\* used has neither mail nor handler, a waiting row has an attempt left, a
\* running one has the handler of its last attempt, and a handler that ended is
\* one the loop waits for.
Slots ==
  /\ \A j \in Jobs : jobs[j].status = "free" => mail[j] = "none" /\ jobs[j].attempts = 0
  /\ \A j \in Jobs, a \in Attempts : run[j][a] # "none" => jobs[j].status # "free"
  /\ \A j \in Jobs, a \in Attempts : run[j][a] # "none" => a <= jobs[j].attempts
  /\ \A j \in Jobs, a \in Attempts : run[j][a] \in Over => Waits(j, a)
  /\ \A j \in Jobs : jobs[j].status = "PENDING" => jobs[j].attempts < MaxAttempts
  /\ \A j \in Jobs : jobs[j].status = "RUNNING" =>
       jobs[j].attempts \in Attempts /\ run[j][jobs[j].attempts] # "none"

\* A mail known to have left belongs to an attempt past the sending, the last
\* one of its job, or to a job that is done.
SentIsOver ==
  \A j \in Jobs : mail[j] = "sent" =>
    \/ jobs[j].status = "DONE"
    \/ jobs[j].status = "RUNNING" /\ run[j][jobs[j].attempts] \in {"stamp", "returned"}

\* What is about to be stamped was sent to the recipient.
StampsSent ==
  \A j \in Jobs, a \in Attempts : run[j][a] = "stamp" => ForRecipient(j) /\ mail[j] # "none"

\* The e-mail of r has not been settled, and nobody opened his WhatsApp.
Quiet(r) == r \notin notifiedAt \cup waOpenedAt \cup notifyFailedAt

\* Job j will settle the e-mail of its recipient: it waits for an attempt, or a
\* handler is at work that the loop still waits for, or that is the last one.
AtWork == {"started", "sending", "stamp", "threw"}
Settles(j) ==
  \/ jobs[j].status = "PENDING"
  \/ \E a \in Attempts : \/ run[j][a] \in AtWork /\ (Waits(j, a) \/ a = MaxAttempts)
                         \/ run[j][a] = "caught" /\ a < MaxAttempts

\* Whoever is assigned and can be written to has such a job, or is excused.
Promise ==
  \A r \in email :
    Active(r) /\ Quiet(r) /\ Configured =>
      \/ r \in excused
      \/ \E j \in Jobs : jobs[j].to = r /\ ForRecipient(j) /\ Settles(j)

\* The stamp of the WhatsApp of somebody assigned is one of this assignment.
OpenedNow == \A r \in waOpenedAt : Active(r) => r \in opened

-----------------------------------------------------------------------------
(* What the steps do to the table *)

\* The table only grows: rows in use stay, new ones wait for their first attempt.
JobsGrow ==
  /\ jobs' \in [Jobs -> Job]
  /\ \A j \in Jobs : \/ jobs'[j] = jobs[j]
                     \/ /\ jobs[j].status = "free" /\ jobs'[j].status = "PENDING"
                        /\ jobs'[j].attempts = 0

\* An insertion leaves the rows in use alone and gives each recipient a new one.
LEMMA EnqueueFacts ==
  ASSUME TypeOK, NEW S \in SUBSET Recipients, NEW target \in {"recipient", "opener"},
         Enqueue(S, target)
  PROVE  /\ JobsGrow
         /\ \A r \in S : \E j \in Jobs :
              jobs'[j] = [status |-> "PENDING", attempts |-> 0, target |-> target, to |-> r]
<1> DEFINE used == {j \in Jobs : jobs[j].status # "free"}
<1>1. PICK place \in [S -> Jobs \ used] :
        /\ \A r, q \in S : place[r] = place[q] => r = q
        /\ jobs' = [j \in Jobs |->
                      IF \E r \in S : place[r] = j
                      THEN [status |-> "PENDING", attempts |-> 0, target |-> target,
                            to |-> CHOOSE r \in S : place[r] = j]
                      ELSE jobs[j]]
  BY DEF Enqueue
<1>2. ASSUME NEW r \in S
      PROVE  /\ place[r] \in Jobs /\ jobs[place[r]].status = "free"
             /\ (CHOOSE q \in S : place[q] = place[r]) = r
             /\ jobs'[place[r]] = [status |-> "PENDING", attempts |-> 0, target |-> target, to |-> r]
  <2>1. place[r] \in Jobs /\ jobs[place[r]].status = "free"
    OBVIOUS
  <2>2. (CHOOSE q \in S : place[q] = place[r]) = r
    BY <1>1
  <2> QED
    BY <1>1, <2>1, <2>2
<1>3. ASSUME NEW j \in Jobs
      PROVE  /\ jobs'[j] \in Job
             /\ \/ jobs'[j] = jobs[j]
                \/ /\ jobs[j].status = "free" /\ jobs'[j].status = "PENDING"
                   /\ jobs'[j].attempts = 0
  <2>1. CASE \E r \in S : place[r] = j
    <3>1. PICK r \in S : place[r] = j
      BY <2>1
    <3>2. jobs'[j] = [status |-> "PENDING", attempts |-> 0, target |-> target, to |-> r]
      BY <1>2, <3>1
    <3> QED
      BY <1>2, <3>1, <3>2, DeliveryAssumption DEF Job, JobStatus
  <2>2. CASE ~\E r \in S : place[r] = j
    BY <1>1, <2>2 DEF TypeOK
  <2> QED
    BY <2>1, <2>2
<1>4. jobs' \in [Jobs -> Job]
  BY <1>1, <1>3
<1> QED
  BY <1>2, <1>3, <1>4 DEF JobsGrow

\* A service neither sends nor runs anything: it may add rows.
LEMMA ServiceShape ==
  ASSUME TypeOK, Service
  PROVE  UNCHANGED <<transport, run, mail, faults>> /\ JobsGrow
<1>0. UNCHANGED jobs => JobsGrow
  BY DEF JobsGrow, TypeOK
<1>1. ASSUME NEW S \in SUBSET Recipients, NEW target \in {"recipient", "opener"}, Tells(S, target)
      PROVE  JobsGrow
  BY <1>1, EnqueueFacts DEF Tells
<1>2. ASSUME NEW r \in Recipients, AddAssignments(r) \/ Resend(r) \/ MarkDone(r) \/ WriteBack(r)
      PROVE  UNCHANGED <<transport, run, mail, faults>> /\ JobsGrow
  BY <1>1, <1>2 DEF AddAssignments, Resend, MarkDone, WriteBack
<1>3. ASSUME NEW r \in Recipients,
             RemoveAssignment(r) \/ OpenWhatsApp(r) \/ AutoOpen(r) \/ EditEmail(r)
      PROVE  UNCHANGED <<transport, run, mail, faults>> /\ JobsGrow
  BY <1>0, <1>3 DEF RemoveAssignment, OpenWhatsApp, AutoOpen, EditEmail
<1>4. ASSUME WriteOut \/ Reopen
      PROVE  UNCHANGED <<transport, run, mail, faults>> /\ JobsGrow
  BY <1>1, <1>4 DEF WriteOut, Reopen, Assigned
<1>5. ASSUME Close \/ DeleteTicket
      PROVE  UNCHANGED <<transport, run, mail, faults>> /\ JobsGrow
  BY <1>0, <1>5 DEF Close, DeleteTicket, ghosts
<1> QED
  BY <1>2, <1>3, <1>4, <1>5 DEF Service

\* Every step of a handler but its last moves it on and leaves the table alone.
LEMMA HandlerShape ==
  ASSUME TypeOK, NEW j \in Jobs, NEW a \in Attempts,
         Read(j, a) \/ Send(j, a) \/ Stamp(j, a) \/ Catch(j, a)
  PROVE  /\ run[j][a] \notin Over \cup {"none"}
         /\ \E pc \in RunPc \ {"none", "started"} : Goes(j, a, pc)
         /\ UNCHANGED <<transport, ticket, row, email, waOpenedAt, jobs, faults>>
BY DEF Read, Send, Stamp, Catch, Over, RunPc, rows, ghosts, stamps

-----------------------------------------------------------------------------
(* Type correctness *)

\* The services keep the types.
LEMMA ServiceType ==
  ASSUME TypeOK, Service
  PROVE  TypeOK'
<1>0. UNCHANGED <<transport, run, mail, faults>> /\ JobsGrow
  BY ServiceShape
<1>1. jobs' \in [Jobs -> Job]
  BY <1>0 DEF JobsGrow
<1>2. ASSUME NEW S \in SUBSET Recipients, NEW target \in {"recipient", "opener"}, Tells(S, target)
      PROVE  excused' \subseteq Recipients
  BY <1>2 DEF Tells, TypeOK
<1>3. ASSUME NEW r \in Recipients, AddAssignments(r) \/ Resend(r) \/ MarkDone(r) \/ WriteBack(r)
      PROVE  TypeOK'
  <2>1. excused' \subseteq Recipients
    BY <1>2, <1>3 DEF AddAssignments, Resend, MarkDone, WriteBack
  <2> QED
    BY <1>0, <1>1, <1>3, <2>1
    DEF TypeOK, AddAssignments, Resend, MarkDone, WriteBack, RowStatus, rows, stamps, Contactable
<1>4. ASSUME NEW r \in Recipients, RemoveAssignment(r) \/ OpenWhatsApp(r) \/ AutoOpen(r)
      PROVE  TypeOK'
  BY <1>0, <1>1, <1>4
  DEF TypeOK, RemoveAssignment, OpenWhatsApp, AutoOpen, RowStatus, rows, stamps, Contactable,
      Assigned
<1>5. ASSUME NEW r \in Recipients, EditEmail(r)
      PROVE  TypeOK'
  <2>1. email' \in SUBSET Recipients /\ Contactable(email')
    BY <1>5 DEF EditEmail, TypeOK, Contactable
  <2>2. excused' \subseteq Recipients
    BY <1>5 DEF EditEmail, TypeOK, Assigned
  <2> QED
    BY <1>0, <1>1, <1>5, <2>1, <2>2 DEF TypeOK, EditEmail, rows, stamps, Contactable
<1>6. ASSUME WriteOut \/ Reopen
      PROVE  TypeOK'
  <2>1. excused' \subseteq Recipients
    BY <1>2, <1>6 DEF WriteOut, Reopen, Assigned
  <2> QED
    BY <1>0, <1>1, <1>6, <2>1 DEF TypeOK, WriteOut, Reopen, rows, stamps, Contactable
<1>7. ASSUME Close \/ DeleteTicket
      PROVE  TypeOK'
  BY <1>0, <1>1, <1>7
  DEF TypeOK, Close, DeleteTicket, rows, stamps, ghosts, RowStatus, Contactable
<1> QED
  BY <1>3, <1>4, <1>5, <1>6, <1>7 DEF Service

\* So do the steps of a handler.
LEMMA HandlerType ==
  ASSUME TypeOK, NEW j \in Jobs, NEW a \in Attempts,
         Read(j, a) \/ Send(j, a) \/ Stamp(j, a) \/ Catch(j, a)
  PROVE  TypeOK'
<1>0. jobs[j].to \in Recipients
  BY DEF TypeOK, Job
<1>1. run' \in [Jobs -> [Attempts -> RunPc]]
  <2>1. PICK pc \in RunPc : Goes(j, a, pc)
    BY HandlerShape
  <2> QED
    BY <2>1 DEF Goes, TypeOK, RunPc
<1>2. UNCHANGED <<transport, ticket, row, email, waOpenedAt, jobs, faults>>
  BY HandlerShape
<1>3. notifiedAt' \subseteq Recipients /\ notifyFailedAt' \subseteq Recipients
  BY <1>0 DEF Read, Send, Stamp, Catch, TypeOK, stamps
<1>4. opened' \subseteq Recipients /\ excused' \subseteq Recipients
  BY <1>0 DEF Read, Send, Stamp, Catch, TypeOK, ghosts, Assigned
<1>5. mail' \in [Jobs -> Mail]
  BY DEF Read, Send, Stamp, Catch, TypeOK, ghosts, Leaves, Mail
<1> QED
  BY <1>1, <1>2, <1>3, <1>4, <1>5 DEF TypeOK, Contactable

\* And the steps of the worker.
LEMMA WorkerType ==
  ASSUME TypeOK, Slots,
         \/ \E j \in Jobs : Claim(j)
         \/ \E j \in Jobs, a \in Attempts : End(j, a) \/ Timeout(j, a)
         \/ Crash
  PROVE  TypeOK'
<1>1. ASSUME NEW j \in Jobs, Claim(j)
      PROVE  TypeOK'
  <2>1. jobs[j].attempts + 1 \in Attempts
    BY <1>1, DeliveryAssumption DEF Claim, Slots, TypeOK, Job, Attempts
  <2>2. jobs' \in [Jobs -> Job]
    BY <1>1, <2>1, DeliveryAssumption DEF Claim, TypeOK, Job, JobStatus
  <2>3. run' \in [Jobs -> [Attempts -> RunPc]]
    BY <1>1, <2>1 DEF Claim, Goes, TypeOK, RunPc, Over
  <2> QED
    BY <1>1, <2>2, <2>3 DEF Claim, TypeOK, Contactable, rows, stamps, ghosts
<1>2. ASSUME NEW j \in Jobs, NEW a \in Attempts, End(j, a)
      PROVE  TypeOK'
  <2>1. jobs' \in [Jobs -> Job]
    <3>1. (IF run[j][a] = "returned" THEN "DONE" ELSE AfterFailure(a)) \in JobStatus
      BY DEF JobStatus, AfterFailure
    <3> QED
      BY <1>2, <3>1 DEF End, TypeOK, Job
  <2>2. run' \in [Jobs -> [Attempts -> RunPc]]
    BY <1>2 DEF End, TypeOK, RunPc
  <2> QED
    BY <1>2, <2>1, <2>2 DEF End, TypeOK, Contactable, rows, stamps, ghosts
<1>3. ASSUME NEW j \in Jobs, NEW a \in Attempts, Timeout(j, a)
      PROVE  TypeOK'
  <2>1. jobs' \in [Jobs -> Job]
    BY <1>3 DEF Timeout, TypeOK, Job, JobStatus, AfterFailure
  <2>2. mail' \in [Jobs -> Mail] /\ faults' \in 0 .. MaxFaults
    BY <1>3, DeliveryAssumption DEF Timeout, TypeOK, Mail, Doubt
  <2> QED
    BY <1>3, <2>1, <2>2 DEF Timeout, TypeOK, Contactable, rows, stamps
<1>4. ASSUME Crash
      PROVE  TypeOK'
  <2>1. jobs' \in [Jobs -> Job]
    <3>1. ASSUME NEW j \in Jobs
          PROVE  Reclaim(jobs[j]) \in Job
      <4>1. jobs[j] \in Job /\ AfterFailure(jobs[j].attempts) \in JobStatus
        BY DEF TypeOK, AfterFailure, JobStatus
      <4> QED
        BY <4>1 DEF Reclaim, Job
    <3> QED
      BY <1>4, <3>1 DEF Crash
  <2>2. mail' \in [Jobs -> Mail] /\ faults' \in 0 .. MaxFaults
    BY <1>4, DeliveryAssumption DEF Crash, TypeOK, Mail, Doubt
  <2>3. excused' \subseteq Recipients /\ run' \in [Jobs -> [Attempts -> RunPc]]
    <3>1. Assigned({jobs[j].to : j \in {i \in {k \in Jobs : \E a \in Attempts : run[k][a] # "none"} :
                      ForRecipient(i) /\ jobs[i].attempts = MaxAttempts}}) \subseteq Recipients
      BY DEF Assigned, TypeOK, Job
    <3>2. excused' \subseteq Recipients
      BY <1>4, <3>1 DEF Crash, TypeOK
    <3>3. run' \in [Jobs -> [Attempts -> RunPc]]
      BY <1>4 DEF Crash, RunPc
    <3> QED
      BY <3>2, <3>3
  <2> QED
    BY <1>4, <2>1, <2>2, <2>3 DEF Crash, TypeOK, Contactable, rows, stamps
<1> QED
  BY <1>1, <1>2, <1>3, <1>4

-----------------------------------------------------------------------------
(* The table and its handlers *)

\* What the three invariants of this section say together.
Table == Slots /\ SentIsOver /\ StampsSent

\* A service leaves them alone: a row it fills had no handler and no mail.
LEMMA ServiceTable ==
  ASSUME TypeOK, Table, Service
  PROVE  Table'
<1>0. UNCHANGED <<run, mail>> /\ JobsGrow
  BY ServiceShape
<1>1. ASSUME NEW j \in Jobs, jobs'[j] # jobs[j]
      PROVE  /\ jobs'[j].status = "PENDING" /\ jobs'[j].attempts = 0
             /\ mail[j] = "none" /\ \A a \in Attempts : run[j][a] = "none"
  BY <1>0, <1>1 DEF JobsGrow, Table, Slots
<1>2. Slots'
  <2>1. 0 < MaxAttempts
    BY DeliveryAssumption
  <2> QED
    BY <1>0, <1>1, <2>1 DEF Table, Slots, Waits, Over
<1>3. SentIsOver' /\ StampsSent'
  BY <1>0, <1>1 DEF Table, SentIsOver, StampsSent, ForRecipient
<1> QED
  BY <1>2, <1>3 DEF Table

\* So do the steps of a handler.
LEMMA HandlerTable ==
  ASSUME TypeOK, Table, NEW j \in Jobs, NEW a \in Attempts,
         Read(j, a) \/ Send(j, a) \/ Stamp(j, a) \/ Catch(j, a)
  PROVE  Table'
<1>1. PICK pc \in RunPc \ {"none", "started"} : Goes(j, a, pc)
  BY HandlerShape
<1>2. run[j][a] \notin Over \cup {"none"} /\ UNCHANGED jobs
  BY HandlerShape
<1>3. /\ \A i \in Jobs, b \in Attempts :
            run'[i][b] = IF i = j /\ b = a THEN IF pc \in Over /\ ~Waits(j, a) THEN "none" ELSE pc
                         ELSE run[i][b]
      /\ \A i \in Jobs : i # j => mail'[i] = mail[i]
      /\ mail[j] # "none" => mail'[j] # "none"
  BY <1>1 DEF Goes, TypeOK, Read, Send, Stamp, Catch, ghosts, Leaves
<1>4. jobs[j].status # "free" /\ a <= jobs[j].attempts
  BY <1>2 DEF Table, Slots
<1>5. Slots'
  BY <1>1, <1>2, <1>3, <1>4 DEF Table, Slots, Waits, Over
<1>6. SentIsOver'
  <2>1. ASSUME NEW i \in Jobs, mail'[i] = "sent", i # j
        PROVE  \/ jobs'[i].status = "DONE"
               \/ jobs'[i].status = "RUNNING" /\ run'[i][jobs'[i].attempts] \in {"stamp", "returned"}
    BY <1>2, <1>3, <2>1 DEF Table, SentIsOver, Slots
  <2>2. ASSUME mail'[j] = "sent"
        PROVE  \/ jobs'[j].status = "DONE"
               \/ jobs'[j].status = "RUNNING" /\ run'[j][jobs'[j].attempts] \in {"stamp", "returned"}
    <3>1. CASE mail[j] # "sent"
      <4>1. Send(j, a)
        BY <2>2, <3>1 DEF Read, Stamp, Catch, ghosts
      <4>2. Waits(j, a) /\ run'[j][a] \in {"stamp", "returned"}
        BY <2>2, <3>1, <4>1, <1>3 DEF Send, Leaves, Goes, TypeOK
      <4> QED
        BY <1>2, <4>2 DEF Waits
    <3>2. CASE mail[j] = "sent" /\ jobs[j].status # "DONE"
      <4>1. jobs[j].status = "RUNNING" /\ run[j][jobs[j].attempts] \in {"stamp", "returned"}
        BY <3>2 DEF Table, SentIsOver
      <4>2. CASE jobs[j].attempts = a
        <5>1. Stamp(j, a)
          BY <4>1, <4>2 DEF Read, Send, Catch
        <5>2. run'[j][a] = "returned"
          BY <5>1, <4>1, <4>2 DEF Stamp, Goes, TypeOK, Waits
        <5> QED
          BY <1>2, <4>1, <4>2, <5>2
      <4>3. CASE jobs[j].attempts # a
        <5>1. jobs[j].attempts \in Attempts
          BY <4>1 DEF Table, Slots
        <5> QED
          BY <1>2, <1>3, <4>1, <4>3, <5>1
      <4> QED
        BY <4>2, <4>3
    <3> QED
      BY <1>2, <3>1, <3>2
  <2> QED
    BY <2>1, <2>2 DEF SentIsOver
<1>7. StampsSent'
  <2>1. ASSUME NEW i \in Jobs, NEW b \in Attempts, run'[i][b] = "stamp"
        PROVE  ForRecipient(i)' /\ mail'[i] # "none"
    <3>1. CASE run[i][b] = "stamp"
      BY <1>2, <1>3, <3>1 DEF Table, StampsSent, ForRecipient
    <3>2. CASE run[i][b] # "stamp"
      <4>1. i = j /\ b = a
        BY <1>3, <2>1, <3>2
      <4>2. run'[j][a] = "stamp"
        BY <2>1, <4>1
      <4>3. ~Read(j, a) /\ ~Stamp(j, a) /\ ~Catch(j, a)
        BY <4>2 DEF Read, Stamp, Catch, Goes, TypeOK
      <4>4. Send(j, a)
        BY <4>3
      <4>5. ForRecipient(j) /\ mail'[j] # "none"
        <5>1. PICK left \in BOOLEAN, ok \in BOOLEAN :
                /\ IF Simulated THEN ok /\ ~left ELSE ok => left
                /\ Goes(j, a, IF ~ok THEN "threw"
                              ELSE IF ForRecipient(j) /\ ~Simulated THEN "stamp" ELSE "returned")
                /\ mail' = [mail EXCEPT ![j] = IF left THEN Leaves(j, a, ok) ELSE @]
          BY <4>4 DEF Send
        <5>2. ok /\ ForRecipient(j) /\ ~Simulated
          BY <4>2, <5>1 DEF Goes, TypeOK
        <5>3. left
          BY <5>1, <5>2
        <5>4. mail'[j] = Leaves(j, a, ok)
          BY <5>1, <5>3 DEF TypeOK
        <5> QED
          BY <5>2, <5>4 DEF Leaves
      <4> QED
        BY <1>2, <4>1, <4>5 DEF ForRecipient
    <3> QED
      BY <3>1, <3>2
  <2> QED
    BY <2>1 DEF StampsSent
<1> QED
  BY <1>5, <1>6, <1>7 DEF Table

\* And the steps of the worker: a claim starts the handler of the attempt it
\* counts, an end and a time limit leave a waiting row only with an attempt
\* left, a crash leaves no handler.
LEMMA WorkerTable ==
  ASSUME TypeOK, Table,
         \/ \E j \in Jobs : Claim(j)
         \/ \E j \in Jobs, a \in Attempts : End(j, a) \/ Timeout(j, a)
         \/ Crash
  PROVE  Table'
<1>1. ASSUME NEW j \in Jobs, Claim(j)
      PROVE  Table'
  <2> DEFINE n == jobs[j].attempts + 1
  <2>1. n \in Attempts /\ jobs[j].status = "PENDING"
    BY <1>1, DeliveryAssumption DEF Claim, Table, Slots, TypeOK, Job, Attempts
  <2>2. /\ \A i \in Jobs : i # j => jobs'[i] = jobs[i]
        /\ jobs'[j].status = "RUNNING" /\ jobs'[j].attempts = n
        /\ jobs'[j].target = jobs[j].target
        /\ UNCHANGED mail
        /\ \A i \in Jobs, b \in Attempts :
             run'[i][b] = IF i = j /\ b = n THEN "started" ELSE run[i][b]
    BY <1>1, <2>1 DEF Claim, Goes, Over, TypeOK, Job, ghosts
  <2>3. \A b \in Attempts : run[j][b] \notin Over
    BY <2>1 DEF Table, Slots, Waits
  <2>4. jobs[j].attempts \in Nat /\ \A b \in Attempts : b \in Nat
    BY DEF TypeOK, Job, Attempts
  <2> HIDE DEF n
  <2>5. n = jobs[j].attempts + 1
    BY DEF n
  <2>6. Slots'
    BY <2>1, <2>2, <2>3, <2>4, <2>5 DEF Table, Slots, Waits, Over
  <2>7. SentIsOver'
    <3>1. \A i \in Jobs : jobs[i].status = "RUNNING" => jobs[i].attempts \in Attempts
      BY DEF Table, Slots
    <3> QED
      BY <2>1, <2>2, <3>1 DEF Table, SentIsOver
  <2>8. StampsSent'
    BY <2>1, <2>2 DEF Table, StampsSent, ForRecipient
  <2> QED
    BY <2>6, <2>7, <2>8 DEF Table
<1>2. ASSUME NEW j \in Jobs, NEW a \in Attempts, End(j, a)
      PROVE  Table'
  <2>1. Waits(j, a)
    BY <1>2 DEF End, Table, Slots
  <2>2. /\ \A i \in Jobs : i # j => jobs'[i] = jobs[i]
        /\ jobs'[j].status = (IF run[j][a] = "returned" THEN "DONE" ELSE AfterFailure(a))
        /\ jobs'[j].attempts = a /\ jobs'[j].target = jobs[j].target
        /\ UNCHANGED mail
        /\ \A i \in Jobs, b \in Attempts :
             run'[i][b] = IF i = j /\ b = a THEN "none" ELSE run[i][b]
    BY <1>2, <2>1 DEF End, TypeOK, Job, Waits, ghosts
  <2>3. \A b \in Attempts : b # a => run[j][b] \notin Over
    BY <2>1 DEF Table, Slots, Waits
  <2>4. /\ jobs'[j].status \in {"DONE", "PENDING", "FAILED"}
        /\ jobs'[j].status = "PENDING" => jobs'[j].attempts < MaxAttempts
    BY <2>2 DEF AfterFailure
  <2>5. Slots'
    BY <2>1, <2>2, <2>3, <2>4 DEF Table, Slots, Waits, Over
  <2>6. SentIsOver'
    <3>1. \A i \in Jobs : jobs[i].status = "RUNNING" => jobs[i].attempts \in Attempts
      BY DEF Table, Slots
    <3>2. mail[j] = "sent" => run[j][a] = "returned"
      BY <1>2, <2>1 DEF Table, SentIsOver, Waits, End, Over
    <3> QED
      BY <2>2, <3>1, <3>2 DEF Table, SentIsOver
  <2>7. StampsSent'
    BY <2>2 DEF Table, StampsSent, ForRecipient
  <2> QED
    BY <2>5, <2>6, <2>7 DEF Table
<1>3. ASSUME NEW j \in Jobs, NEW a \in Attempts, Timeout(j, a)
      PROVE  Table'
  <2>1. /\ \A i \in Jobs : i # j => jobs'[i] = jobs[i]
        /\ jobs'[j].status = AfterFailure(a)
        /\ jobs'[j].attempts = jobs[j].attempts /\ jobs'[j].target = jobs[j].target
        /\ UNCHANGED run
        /\ \A i \in Jobs : i # j => mail'[i] = mail[i]
        /\ mail'[j] # "sent" /\ (mail[j] # "none" => mail'[j] # "none")
    BY <1>3 DEF Timeout, TypeOK, Job, Doubt
  <2>2. Waits(j, a) /\ \A b \in Attempts : run[j][b] \notin Over
    BY <1>3 DEF Timeout, Table, Slots, Waits
  <2>3. /\ jobs'[j].status \in {"PENDING", "FAILED"}
        /\ jobs'[j].status = "PENDING" => jobs'[j].attempts < MaxAttempts
    BY <2>1, <2>2 DEF AfterFailure, Waits
  <2>4. Slots'
    BY <2>1, <2>2, <2>3 DEF Table, Slots, Waits, Over
  <2>5. SentIsOver'
    BY <2>1 DEF Table, SentIsOver
  <2>6. StampsSent'
    BY <2>1 DEF Table, StampsSent, ForRecipient
  <2> QED
    BY <2>4, <2>5, <2>6 DEF Table
<1>4. ASSUME Crash
      PROVE  Table'
  <2>1. \A i \in Jobs, b \in Attempts : run'[i][b] = "none"
    BY <1>4 DEF Crash
  <2>2. ASSUME NEW i \in Jobs
        PROVE  /\ jobs'[i].status # "RUNNING"
               /\ jobs'[i].status = "free" => jobs[i].status = "free"
               /\ jobs'[i].attempts = jobs[i].attempts
               /\ jobs'[i].status = "PENDING" => jobs'[i].attempts < MaxAttempts
               /\ jobs[i].status # "RUNNING" => jobs'[i] = jobs[i]
    <3>1. jobs'[i] = Reclaim(jobs[i]) /\ jobs[i] \in Job
      BY <1>4 DEF Crash, TypeOK
    <3>2. jobs[i].status = "PENDING" => jobs[i].attempts < MaxAttempts
      BY DEF Table, Slots
    <3> QED
      BY <3>1, <3>2 DEF Reclaim, AfterFailure, Job
  <2>3. ASSUME NEW i \in Jobs
        PROVE  /\ mail'[i] \in {mail[i], "maybe"} /\ (mail[i] = "none" => mail'[i] = "none")
               /\ mail'[i] = "sent" => mail[i] = "sent" /\ \A b \in Attempts : run[i][b] = "none"
    BY <1>4 DEF Crash, Doubt, TypeOK
  <2>4. Slots'
    BY <2>1, <2>2, <2>3 DEF Table, Slots, Over
  <2>5. SentIsOver'
    <3>1. \A i \in Jobs : jobs[i].status = "RUNNING" =>
            jobs[i].attempts \in Attempts /\ run[i][jobs[i].attempts] # "none"
      BY DEF Table, Slots
    <3> QED
      BY <2>2, <2>3, <3>1 DEF Table, SentIsOver
  <2>6. StampsSent'
    BY <2>1 DEF StampsSent
  <2> QED
    BY <2>4, <2>5, <2>6 DEF Table
<1> QED
  BY <1>1, <1>2, <1>3, <1>4

-----------------------------------------------------------------------------
(* The stamps *)

\* A row in use keeps its recipient and its purpose, a last attempt stays the
\* last, and a mail that may have left stays so.
LEMMA RowsKeep ==
  ASSUME TypeOK, Table, Next, NEW j \in Jobs, jobs[j].status # "free"
  PROVE  /\ jobs'[j].status # "free"
         /\ jobs'[j].to = jobs[j].to /\ jobs'[j].target = jobs[j].target
         /\ jobs[j].attempts = MaxAttempts => jobs'[j].attempts = MaxAttempts
         /\ mail[j] # "none" => mail'[j] # "none"
<1>1. CASE Service
  BY <1>1, ServiceShape DEF JobsGrow
<1>2. ASSUME NEW i \in Jobs, Claim(i)
      PROVE  /\ jobs'[j].status # "free"
             /\ jobs'[j].to = jobs[j].to /\ jobs'[j].target = jobs[j].target
             /\ jobs[j].attempts = MaxAttempts => jobs'[j].attempts = MaxAttempts
             /\ UNCHANGED mail
  <2>1. jobs[i].status = "PENDING" => jobs[i].attempts # MaxAttempts
    BY DeliveryAssumption DEF Table, Slots
  <2> QED
    BY <1>2, <2>1 DEF Claim, TypeOK, Job, ghosts
<1>3. ASSUME NEW i \in Jobs, NEW a \in Attempts, Read(i, a) \/ Send(i, a) \/ Stamp(i, a) \/ Catch(i, a)
      PROVE  UNCHANGED jobs /\ (mail[j] # "none" => mail'[j] # "none")
  <2>1. mail[j] # "none" => mail'[j] # "none"
    BY <1>3 DEF Read, Send, Stamp, Catch, TypeOK, ghosts, Leaves
  <2> QED
    BY <1>3, <2>1, HandlerShape
<1>4. ASSUME NEW i \in Jobs, NEW a \in Attempts, End(i, a) \/ Timeout(i, a)
      PROVE  /\ jobs'[j].status # "free"
             /\ jobs'[j].to = jobs[j].to /\ jobs'[j].target = jobs[j].target
             /\ jobs'[j].attempts = jobs[j].attempts
             /\ mail[j] # "none" => mail'[j] # "none"
  BY <1>4 DEF End, Timeout, AfterFailure, Doubt, TypeOK, Job, ghosts
<1>5. CASE Crash
  <2>1. jobs'[j] = Reclaim(jobs[j]) /\ jobs[j] \in Job
    BY <1>5 DEF Crash, TypeOK
  <2>2. mail[j] # "none" => mail'[j] # "none"
    BY <1>5 DEF Crash, Doubt, TypeOK
  <2> QED
    BY <2>1, <2>2 DEF Reclaim, AfterFailure, Job
<1> QED
  BY <1>1, <1>2, <1>3, <1>4, <1>5 DEF Next, Handle

\* Only the two writes of the handler stamp an e-mail.
LEMMA StampSources ==
  ASSUME TypeOK, Next
  PROVE  /\ \A r \in notifiedAt' \ notifiedAt :
              \E j \in Jobs, a \in Attempts : Stamp(j, a) /\ r = jobs[j].to
         /\ \A r \in notifyFailedAt' \ notifyFailedAt :
              \E j \in Jobs, a \in Attempts :
                Catch(j, a) /\ IsLast(a) /\ ForRecipient(j) /\ r = jobs[j].to
<1>1. CASE Service
  BY <1>1 DEF Service, AddAssignments, RemoveAssignment, Resend, MarkDone, WriteBack,
     OpenWhatsApp, AutoOpen, EditEmail, WriteOut, Close, Reopen, DeleteTicket, stamps
<1>2. ASSUME NEW j \in Jobs, NEW a \in Attempts, Stamp(j, a)
      PROVE  notifiedAt' \subseteq notifiedAt \cup {jobs[j].to} /\ notifyFailedAt' \subseteq notifyFailedAt
  BY <1>2 DEF Stamp
<1>3. ASSUME NEW j \in Jobs, NEW a \in Attempts, Catch(j, a)
      PROVE  /\ UNCHANGED notifiedAt
             /\ \/ UNCHANGED notifyFailedAt
                \/ /\ IsLast(a) /\ ForRecipient(j)
                   /\ notifyFailedAt' \subseteq notifyFailedAt \cup {jobs[j].to}
  BY <1>3 DEF Catch
<1>4. ASSUME Crash \/ \E j \in Jobs : Claim(j) \/ \E a \in Attempts :
               Read(j, a) \/ Send(j, a) \/ End(j, a) \/ Timeout(j, a)
      PROVE  UNCHANGED <<notifiedAt, notifyFailedAt>>
  BY <1>4 DEF Crash, Claim, Read, Send, End, Timeout, stamps
<1> QED
  BY <1>1, <1>2, <1>3, <1>4 DEF Next, Handle

\* A stamp has a mail behind it, and a later step does not take that away.
LEMMA StampsStep ==
  ASSUME TypeOK, Table, StampsAreTrue, Next
  PROVE  StampsAreTrue'
<1>1. ASSUME NEW r \in notifiedAt'
      PROVE  \E j \in Jobs : jobs'[j].to = r /\ ForRecipient(j)' /\ mail'[j] # "none"
  <2>1. PICK j \in Jobs : jobs[j].to = r /\ ForRecipient(j) /\ mail[j] # "none"
    <3>1. CASE r \in notifiedAt
      BY <3>1 DEF StampsAreTrue
    <3>2. CASE r \notin notifiedAt
      <4>1. PICK j \in Jobs, a \in Attempts : Stamp(j, a) /\ r = jobs[j].to
        BY <3>2, StampSources
      <4> QED
        BY <4>1 DEF Stamp, Table, StampsSent
    <3> QED
      BY <3>1, <3>2
  <2>2. jobs[j].status # "free"
    BY <2>1 DEF Table, Slots
  <2> QED
    BY <2>1, <2>2, RowsKeep DEF ForRecipient
<1>2. ASSUME NEW r \in notifyFailedAt'
      PROVE  \E j \in Jobs : jobs'[j].to = r /\ ForRecipient(j)' /\ jobs'[j].attempts = MaxAttempts
  <2>1. PICK j \in Jobs : jobs[j].to = r /\ ForRecipient(j) /\ jobs[j].attempts = MaxAttempts
    <3>1. CASE r \in notifyFailedAt
      BY <3>1 DEF StampsAreTrue
    <3>2. CASE r \notin notifyFailedAt
      <4>1. PICK j \in Jobs, a \in Attempts :
              Catch(j, a) /\ IsLast(a) /\ ForRecipient(j) /\ r = jobs[j].to
        BY <3>2, StampSources
      <4>2. a <= jobs[j].attempts /\ jobs[j].attempts \in 0 .. MaxAttempts
        BY <4>1 DEF Catch, Table, Slots, TypeOK, Job
      <4>3. jobs[j].attempts = MaxAttempts
        BY <4>1, <4>2, DeliveryAssumption DEF IsLast, Attempts
      <4> QED
        BY <4>1, <4>3
    <3> QED
      BY <3>1, <3>2
  <2>2. jobs[j].status # "free"
    BY <2>1, DeliveryAssumption DEF Table, Slots
  <2> QED
    BY <2>1, <2>2, RowsKeep DEF ForRecipient
<1> QED
  BY <1>1, <1>2 DEF StampsAreTrue

\* An attempt the loop waits for does not send after another one was heard from.
LEMMA OneMailStep ==
  ASSUME TypeOK, Table, OneMailPerJob, Next
  PROVE  OneMailPerJob'
<1>1. CASE Service
  BY <1>1, ServiceShape DEF OneMailPerJob
<1>2. ASSUME NEW j \in Jobs, NEW a \in Attempts, Send(j, a)
      PROVE  OneMailPerJob'
  <2>1. Waits(j, a) => mail[j] # "sent"
    BY <1>2 DEF Send, Waits, Table, SentIsOver
  <2>2. \A ok \in BOOLEAN : Leaves(j, a, ok) # "again"
    BY <2>1 DEF Leaves, TypeOK, Mail, OneMailPerJob
  <2> QED
    BY <1>2, <2>2 DEF Send, OneMailPerJob, TypeOK
<1>3. ASSUME \E j \in Jobs : Claim(j) \/ \E a \in Attempts :
               Read(j, a) \/ Stamp(j, a) \/ Catch(j, a) \/ End(j, a)
      PROVE  OneMailPerJob'
  BY <1>3 DEF Claim, Read, Stamp, Catch, End, ghosts, OneMailPerJob
<1>4. ASSUME Crash \/ \E j \in Jobs, a \in Attempts : Timeout(j, a)
      PROVE  OneMailPerJob'
  BY <1>4 DEF Crash, Timeout, Doubt, OneMailPerJob
<1> QED
  BY <1>1, <1>2, <1>3, <1>4 DEF Next, Handle

\* The stamp of the WhatsApp is wiped when somebody is assigned again.
LEMMA OpenedStep ==
  ASSUME TypeOK, OpenedNow, Next
  PROVE  OpenedNow'
<1>1. CASE Service
  <2>1. ASSUME NEW r \in Recipients, AddAssignments(r) \/ RemoveAssignment(r)
        PROVE  OpenedNow'
    <3>1. \A q \in Recipients : q # r => row'[q] = row[q]
      BY <2>1 DEF AddAssignments, RemoveAssignment, TypeOK
    <3>2. row'[r] = "active" => r \notin waOpenedAt'
      BY <2>1 DEF AddAssignments, RemoveAssignment, TypeOK
    <3>3. waOpenedAt' \subseteq waOpenedAt /\ opened' = opened \ {r} /\ waOpenedAt \subseteq Recipients
      BY <2>1, DeliveryAssumption
      DEF AddAssignments, RemoveAssignment, stamps, TypeOK, Recipients
    <3> QED
      BY <3>1, <3>2, <3>3 DEF OpenedNow, Active
  <2>2. ASSUME NEW r \in Recipients, OpenWhatsApp(r) \/ AutoOpen(r)
        PROVE  OpenedNow'
    BY <2>2 DEF OpenWhatsApp, AutoOpen, OpenedNow, Active, Assigned, rows
  <2>3. ASSUME DeleteTicket
        PROVE  OpenedNow'
    BY <2>3 DEF DeleteTicket, OpenedNow
  <2>4. ASSUME WriteOut \/ Close \/ Reopen \/ \E r \in Recipients :
                 Resend(r) \/ MarkDone(r) \/ WriteBack(r) \/ EditEmail(r)
        PROVE  OpenedNow'
    BY <2>4 DEF WriteOut, Close, Reopen, Resend, MarkDone, WriteBack, EditEmail,
       OpenedNow, Active, rows, stamps, ghosts
  <2> QED
    BY <1>1, <2>1, <2>2, <2>3, <2>4 DEF Service
<1>2. CASE ~Service
  BY <1>2 DEF Next, Handle, Claim, Read, Send, Stamp, Catch, End, Timeout, Crash, OpenedNow,
     Active, rows, stamps, ghosts
<1> QED
  BY <1>1, <1>2

-----------------------------------------------------------------------------
(* The promise of "queued" *)

\* Somebody the promise is made to, and how it is kept.
Promised(r) == r \in email /\ Active(r) /\ Quiet(r) /\ Configured
Kept(r) == r \in excused \/ \E j \in Jobs : jobs[j].to = r /\ ForRecipient(j) /\ Settles(j)

\* A service takes no job away.
LEMMA ServiceSettles ==
  ASSUME TypeOK, Table, Service, NEW j \in Jobs, Settles(j)
  PROVE  Settles(j)' /\ jobs'[j] = jobs[j]
<1>1. jobs[j].status # "free"
  BY DEF Settles, AtWork, Table, Slots
<1>2. jobs'[j] = jobs[j] /\ UNCHANGED run
  BY <1>1, ServiceShape DEF JobsGrow
<1> QED
  BY <1>2 DEF Settles, Waits, AtWork

\* A service that tells S keeps its word to those it told and to the others.
LEMMA TellsKeep ==
  ASSUME TypeOK, Table, Service,
         NEW S \in SUBSET Recipients, NEW target \in {"recipient", "opener"}, Tells(S, target),
         NEW r \in Recipients, Kept(r) \/ (target = "recipient" /\ r \in S)
  PROVE  Kept(r)'
<1>1. CASE target = "recipient" /\ r \in S
  <2>1. PICK j \in Jobs :
          jobs'[j] = [status |-> "PENDING", attempts |-> 0, target |-> target, to |-> r]
    BY <1>1, EnqueueFacts DEF Tells
  <2> QED
    BY <1>1, <2>1 DEF Kept, ForRecipient, Settles
<1>2. CASE Kept(r) /\ ~(target = "recipient" /\ r \in S)
  <2>1. CASE r \in excused
    BY <1>2, <2>1 DEF Tells, Kept
  <2>2. CASE \E j \in Jobs : jobs[j].to = r /\ ForRecipient(j) /\ Settles(j)
    BY <2>2, ServiceSettles DEF Kept, ForRecipient
  <2> QED
    BY <1>2, <2>1, <2>2 DEF Kept
<1> QED
  BY <1>1, <1>2

\* The services.
LEMMA ServicePromise ==
  ASSUME TypeOK, Table, Promise, Service
  PROVE  Promise'
<1> SUFFICES ASSUME NEW r \in Recipients, Promised(r)'
             PROVE  Kept(r)'
  BY ServiceType DEF Promise, Promised, Kept, TypeOK
<1>0. Promised(r) => Kept(r)
  BY DEF Promise, Promised, Kept
<1>1. UNCHANGED transport
  BY ServiceShape
<1>2. ASSUME NEW q \in Recipients, AddAssignments(q)
      PROVE  Kept(r)'
  <2>1. Tells({q}, "recipient")
    BY <1>2 DEF AddAssignments
  <2>2. CASE r = q
    BY <2>1, <2>2, TellsKeep
  <2>3. CASE r # q
    <3>1. Promised(r)
      BY <1>1, <1>2, <2>3 DEF AddAssignments, Promised, Active, Quiet, Configured, TypeOK
    <3> QED
      BY <1>0, <2>1, <3>1, TellsKeep
  <2> QED
    BY <2>2, <2>3
<1>3. ASSUME NEW q \in Recipients, Resend(q) \/ MarkDone(q) \/ WriteBack(q)
      PROVE  Kept(r)'
  <2>1. Promised(r)
    BY <1>1, <1>3 DEF Resend, MarkDone, WriteBack, Promised, Active, Quiet, Configured, rows, stamps
  <2>2. Tells({q}, "recipient") \/ Tells({q}, "opener")
    BY <1>3 DEF Resend, MarkDone, WriteBack
  <2> QED
    BY <1>0, <2>1, <2>2, TellsKeep
<1>4. ASSUME WriteOut \/ Reopen
      PROVE  Kept(r)'
  <2>1. Promised(r)
    BY <1>1, <1>4 DEF WriteOut, Reopen, Promised, Active, Quiet, Configured, rows, stamps
  <2>2. Tells(Assigned(Recipients), "recipient") /\ Assigned(Recipients) \in SUBSET Recipients
    BY <1>4 DEF WriteOut, Reopen, Assigned
  <2> QED
    BY <1>0, <2>1, <2>2, TellsKeep
<1>5. ASSUME Promised(r), r \in excused => r \in excused'
      PROVE  Kept(r)'
  BY <1>0, <1>5, ServiceSettles DEF Kept, ForRecipient
<1>6. ASSUME NEW q \in Recipients, RemoveAssignment(q)
      PROVE  Kept(r)'
  <2>1. r # q
    BY <1>6 DEF RemoveAssignment, Promised, Active, TypeOK
  <2>2. Promised(r)
    BY <1>1, <1>6, <2>1 DEF RemoveAssignment, Promised, Active, Quiet, Configured, stamps, TypeOK
  <2> QED
    BY <1>5, <1>6, <2>1, <2>2 DEF RemoveAssignment
<1>7. ASSUME NEW q \in Recipients, OpenWhatsApp(q) \/ AutoOpen(q)
      PROVE  Kept(r)'
  <2>1. Promised(r)
    BY <1>1, <1>7 DEF OpenWhatsApp, AutoOpen, Promised, Active, Quiet, Configured, rows
  <2> QED
    BY <1>5, <1>7, <2>1 DEF OpenWhatsApp, AutoOpen
<1>8. ASSUME NEW q \in Recipients, EditEmail(q)
      PROVE  Kept(r)'
  <2>1. CASE r \in email
    <3>1. Promised(r)
      BY <1>1, <1>8, <2>1 DEF EditEmail, Promised, Active, Quiet, Configured, rows, stamps
    <3> QED
      BY <1>5, <1>8, <3>1 DEF EditEmail
  <2>2. CASE r \notin email
    BY <1>8, <2>2 DEF EditEmail, Promised, Kept, Assigned, Active, rows
  <2> QED
    BY <2>1, <2>2
<1>9. ASSUME Close
      PROVE  Kept(r)'
  <2>1. Promised(r) /\ UNCHANGED excused
    BY <1>1, <1>9 DEF Close, Promised, Active, Quiet, Configured, stamps, ghosts
  <2> QED
    BY <1>5, <2>1
<1>10. ~DeleteTicket
  BY DEF DeleteTicket, Promised, Active
<1> QED
  BY <1>2, <1>3, <1>4, <1>6, <1>7, <1>8, <1>9, <1>10 DEF Service

\* The steps of a handler: it goes on, or settles the e-mail, or is excused.
LEMMA HandlerPromise ==
  ASSUME TypeOK, Table, Promise, NEW j \in Jobs, NEW a \in Attempts,
         Read(j, a) \/ Send(j, a) \/ Stamp(j, a) \/ Catch(j, a)
  PROVE  Promise'
<1> SUFFICES ASSUME NEW r \in Recipients, Promised(r)'
             PROVE  Kept(r)'
  BY HandlerType DEF Promise, Promised, Kept, TypeOK
<1>1. PICK pc \in RunPc \ {"none", "started"} : Goes(j, a, pc)
  BY HandlerShape
<1>2. UNCHANGED <<transport, ticket, row, email, waOpenedAt, jobs, faults>>
  BY HandlerShape
<1>3. \A i \in Jobs, b \in Attempts :
        run'[i][b] = IF i = j /\ b = a THEN IF pc \in Over /\ ~Waits(j, a) THEN "none" ELSE pc
                     ELSE run[i][b]
  BY <1>1 DEF Goes, TypeOK
<1>4. Promised(r)
  BY <1>2 DEF Promised, Active, Quiet, Configured, Read, Send, Stamp, Catch, stamps
<1>5. excused \subseteq excused'
  BY DEF Read, Send, Stamp, Catch, ghosts
<1>6. CASE r \in excused
  BY <1>5, <1>6 DEF Kept
<1>7. ASSUME NEW i \in Jobs, jobs[i].to = r, ForRecipient(i), Settles(i)
      PROVE  Kept(r)'
  <2>1. ASSUME Settles(i)'
        PROVE  Kept(r)'
    BY <1>2, <1>7, <2>1 DEF Kept, ForRecipient
  <2>2. CASE jobs[i].status = "PENDING"
    BY <1>2, <2>1, <2>2 DEF Settles
  <2>3. ASSUME NEW b \in Attempts, ~(i = j /\ b = a),
               \/ run[i][b] \in AtWork /\ (Waits(i, b) \/ b = MaxAttempts)
               \/ run[i][b] = "caught" /\ b < MaxAttempts
        PROVE  Kept(r)'
    <3>1. run'[i][b] = run[i][b]
      BY <1>3, <2>3
    <3> QED
      BY <1>2, <2>1, <2>3, <3>1 DEF Settles, Waits
  <2>4. ASSUME i = j, Waits(j, a) \/ a = MaxAttempts
        PROVE  Kept(r)'
    <3>0. ASSUME pc \in AtWork
          PROVE  Kept(r)'
      <4>1. run'[j][a] = pc
        BY <1>3, <3>0 DEF AtWork, Over
      <4> QED
        BY <1>2, <2>1, <2>4, <3>0, <4>1 DEF Settles, Waits
    <3>1. CASE Read(j, a)
      <4>1. run'[j][a] \in {"threw", "sending"}
        BY <1>4, <1>7, <2>4, <3>1 DEF Read, Goes, Promised, TypeOK, Over
      <4> QED
        BY <1>3, <3>0, <4>1 DEF AtWork, Over
    <3>2. CASE Send(j, a)
      <4>1. run'[j][a] \in {"threw", "stamp"}
        BY <1>4, <1>7, <2>4, <3>2 DEF Send, Goes, Promised, Configured, Simulated, TypeOK, Over
      <4> QED
        BY <1>3, <3>0, <4>1 DEF AtWork, Over
    <3>3. CASE Stamp(j, a)
      BY <1>4, <1>7, <2>4, <3>3 DEF Stamp, Promised, Quiet, Kept, Assigned, Active
    <3>4. CASE Catch(j, a)
      <4>1. CASE IsLast(a)
        BY <1>4, <1>7, <2>4, <3>4, <4>1 DEF Catch, Promised, Quiet, Kept, Assigned, Active
      <4>2. CASE ~IsLast(a)
        <5>1. a < MaxAttempts /\ a # MaxAttempts
          BY <4>2, DeliveryAssumption DEF IsLast, Attempts
        <5>2. run'[j][a] = "caught"
          BY <2>4, <3>4, <5>1 DEF Catch, Goes, TypeOK
        <5> QED
          BY <2>1, <2>4, <5>1, <5>2 DEF Settles
      <4> QED
        BY <4>1, <4>2
    <3> QED
      BY <3>1, <3>2, <3>3, <3>4
  <2>5. run[j][a] # "caught"
    BY HandlerShape DEF Over
  <2> QED
    BY <1>7, <2>2, <2>3, <2>4, <2>5 DEF Settles
<1> QED
  BY <1>4, <1>6, <1>7 DEF Promise, Promised

\* The steps of the worker change no stamp, and a job that is given up had its
\* catch before, or excuses its recipient.
LEMMA WorkerPromise ==
  ASSUME TypeOK, Table, Promise,
         \/ \E j \in Jobs : Claim(j)
         \/ \E j \in Jobs, a \in Attempts : End(j, a) \/ Timeout(j, a)
         \/ Crash
  PROVE  Promise'
<1> SUFFICES ASSUME NEW r \in Recipients, Promised(r)'
             PROVE  Kept(r)'
  BY WorkerType DEF Promise, Promised, Kept, TypeOK, Table
<1>1. Promised(r) /\ excused \subseteq excused'
  BY DEF Claim, End, Timeout, Crash, Promised, Active, Quiet, Configured, rows, stamps, ghosts
<1>2. CASE r \in excused
  BY <1>1, <1>2 DEF Kept
<1>3. ASSUME NEW i \in Jobs, jobs[i].to = r, ForRecipient(i), Settles(i)
      PROVE  Kept(r)'
  <2>1. jobs[i].status # "free"
    BY <1>3 DEF Settles, AtWork, Table, Slots
  <2>2. jobs'[i].to = r /\ ForRecipient(i)'
    BY <1>3, <2>1, RowsKeep DEF Next, Handle, ForRecipient
  <2>3. ASSUME Settles(i)'
        PROVE  Kept(r)'
    BY <2>2, <2>3 DEF Kept
  <2>4. \A b \in Attempts : b \in Nat /\ 1 <= b /\ b <= MaxAttempts
    BY DeliveryAssumption DEF Attempts
  <2>5. jobs[i].attempts \in 0 .. MaxAttempts
    BY DEF TypeOK, Job
  <2>6. ASSUME NEW j \in Jobs, Claim(j)
        PROVE  Settles(i)'
    <3> DEFINE n == jobs[j].attempts + 1
    <3>1. n \in Attempts
      BY <2>6, DeliveryAssumption DEF Claim, Table, Slots, TypeOK, Job, Attempts
    <3>2. /\ \A k \in Jobs : k # j => jobs'[k] = jobs[k]
          /\ jobs'[j].status = "RUNNING" /\ jobs'[j].attempts = n
          /\ \A k \in Jobs, b \in Attempts :
               run'[k][b] = IF k = j /\ b = n THEN "started" ELSE run[k][b]
      BY <2>6, <3>1 DEF Claim, Goes, Over, TypeOK, Job
    <3> HIDE DEF n
    <3>3. CASE i = j
      BY <3>1, <3>2, <3>3 DEF Settles, AtWork, Waits
    <3>4. CASE i # j
      BY <1>3, <3>2, <3>4 DEF Settles, Waits
    <3> QED
      BY <3>3, <3>4
  <2>7. ASSUME NEW j \in Jobs, NEW a \in Attempts, End(j, a)
        PROVE  Settles(i)'
    <3>1. Waits(j, a) /\ run[j][a] \in Over
      BY <2>7 DEF End, Table, Slots
    <3>2. /\ \A k \in Jobs : k # j => jobs'[k] = jobs[k]
          /\ jobs'[j].status = (IF run[j][a] = "returned" THEN "DONE" ELSE AfterFailure(a))
          /\ \A k \in Jobs, b \in Attempts :
               run'[k][b] = IF k = j /\ b = a THEN "none" ELSE run[k][b]
      BY <2>7 DEF End, TypeOK, Job
    <3>3. CASE i # j
      BY <1>3, <3>2, <3>3 DEF Settles, Waits
    <3>4. CASE i = j
      <4>1. PICK b \in Attempts : \/ run[j][b] \in AtWork /\ (Waits(j, b) \/ b = MaxAttempts)
                                  \/ run[j][b] = "caught" /\ b < MaxAttempts
        BY <1>3, <3>1, <3>4 DEF Settles, Waits
      <4>2. b <= a
        BY <3>1, <4>1 DEF Table, Slots, Waits, AtWork
      <4>3. b = a
        <5>1. CASE run[j][b] = "caught"
          BY <3>1, <5>1 DEF Table, Slots, Waits, Over
        <5>2. CASE Waits(j, b)
          BY <3>1, <5>2 DEF Waits
        <5>3. CASE b = MaxAttempts
          BY <2>4, <4>2, <5>3
        <5> QED
          BY <4>1, <5>1, <5>2, <5>3
      <4>4. run[j][a] = "caught" /\ a < MaxAttempts
        BY <3>1, <4>1, <4>3 DEF AtWork, Over
      <4> QED
        BY <3>2, <3>4, <4>4 DEF AfterFailure, Settles
    <3> QED
      BY <3>3, <3>4
  <2>8. ASSUME NEW j \in Jobs, NEW a \in Attempts, Timeout(j, a)
        PROVE  Settles(i)'
    <3>1. Waits(j, a) /\ run[j][a] \notin Over /\ UNCHANGED run
      BY <2>8 DEF Timeout
    <3>2. /\ \A k \in Jobs : k # j => jobs'[k] = jobs[k]
          /\ jobs'[j].status = AfterFailure(a)
      BY <2>8 DEF Timeout, TypeOK, Job
    <3>3. CASE i # j
      BY <1>3, <3>1, <3>2, <3>3 DEF Settles, Waits
    <3>4. CASE i = j /\ a < MaxAttempts
      BY <3>2, <3>4 DEF AfterFailure, Settles
    <3>5. CASE i = j /\ a = MaxAttempts
      <4>1. run[j][a] # "none"
        BY <3>1 DEF Table, Slots, Waits
      <4>2. run[j][a] \in AtWork
        BY <3>1, <4>1 DEF TypeOK, RunPc, Over, AtWork
      <4> QED
        BY <3>1, <3>5, <4>2 DEF Settles
    <3> QED
      BY <2>4, <3>3, <3>4, <3>5, DeliveryAssumption
  <2>9. CASE Crash
    <3>1. jobs'[i] = Reclaim(jobs[i]) /\ jobs[i] \in Job
      BY <2>9 DEF Crash, TypeOK
    <3>2. CASE jobs[i].status = "PENDING"
      <4>1. jobs'[i].status = "PENDING"
        BY <3>1, <3>2 DEF Reclaim
      <4> QED
        BY <2>3, <4>1 DEF Settles
    <3>3. CASE jobs[i].status = "RUNNING" /\ jobs[i].attempts < MaxAttempts
      <4>1. jobs'[i].status = "PENDING"
        BY <3>1, <3>3 DEF Reclaim, AfterFailure, Job
      <4> QED
        BY <2>3, <4>1 DEF Settles
    <3>4. CASE jobs[i].attempts = MaxAttempts /\ jobs[i].status # "PENDING"
      <4>1. \E b \in Attempts : run[i][b] # "none"
        BY <1>3, <3>4 DEF Settles, AtWork
      <4>2. r \in Assigned({jobs[j].to : j \in {k \in {l \in Jobs : \E b \in Attempts : run[l][b] # "none"} :
                        ForRecipient(k) /\ jobs[k].attempts = MaxAttempts}})
        BY <1>1, <1>3, <3>4, <4>1 DEF Assigned, Promised
      <4> QED
        BY <2>9, <4>2 DEF Crash, Kept
    <3>5. CASE jobs[i].status \notin {"PENDING", "RUNNING"} /\ jobs[i].attempts # MaxAttempts
      <4>1. PICK b \in Attempts : run[i][b] # "none" /\ (Waits(i, b) \/ b = MaxAttempts)
        BY <1>3, <3>5 DEF Settles, AtWork, Table, Slots, Over
      <4>2. b <= jobs[i].attempts
        BY <4>1 DEF Table, Slots
      <4> QED
        BY <2>4, <2>5, <3>5, <4>1, <4>2, DeliveryAssumption DEF Waits
    <3> QED
      BY <2>5, <3>2, <3>3, <3>4, <3>5, DeliveryAssumption
  <2> QED
    BY <2>3, <2>6, <2>7, <2>8, <2>9
<1> QED
  BY <1>1, <1>2, <1>3 DEF Promise, Promised

-----------------------------------------------------------------------------
(* The theorems *)

IInv ==
  /\ TypeOK /\ Table /\ StampsAreTrue /\ OneMailPerJob /\ OpenedNow /\ Promise

LEMMA InitIInv == Init => IInv
<1> SUFFICES ASSUME Init PROVE IInv
  OBVIOUS
<1>1. Free \in Job
  BY DeliveryAssumption DEF Free, Job, JobStatus
<1>2. TypeOK
  BY <1>1, DeliveryAssumption DEF Init, TypeOK, RowStatus, RunPc, Mail
<1>3. Table
  BY DEF Init, Table, Slots, SentIsOver, StampsSent, Free, Over
<1>4. StampsAreTrue /\ OneMailPerJob /\ OpenedNow /\ Promise
  BY <1>2 DEF Init, StampsAreTrue, OneMailPerJob, OpenedNow, Promise, Active, TypeOK
<1> QED
  BY <1>2, <1>3, <1>4 DEF IInv

LEMMA NextIInv == IInv /\ [Next]_vars => IInv'
<1> SUFFICES ASSUME IInv, [Next]_vars PROVE IInv'
  OBVIOUS
<1>1. CASE UNCHANGED vars
  BY <1>1 DEF IInv, vars, rows, stamps, ghosts, TypeOK, Contactable, Table, Slots, Waits,
     SentIsOver, StampsSent, ForRecipient, StampsAreTrue, OneMailPerJob, OpenedNow, Active,
     Promise, Quiet, Configured, Settles
<1>2. CASE Next
  <2>1. StampsAreTrue' /\ OneMailPerJob' /\ OpenedNow'
    BY <1>2, StampsStep, OneMailStep, OpenedStep DEF IInv
  <2>2. CASE Service
    BY <2>1, <2>2, ServiceType, ServiceTable, ServicePromise DEF IInv
  <2>3. ASSUME NEW j \in Jobs, NEW a \in Attempts,
               Read(j, a) \/ Send(j, a) \/ Stamp(j, a) \/ Catch(j, a)
        PROVE  IInv'
    BY <2>1, <2>3, HandlerType, HandlerTable, HandlerPromise DEF IInv
  <2>4. ASSUME \/ \E j \in Jobs : Claim(j)
               \/ \E j \in Jobs, a \in Attempts : End(j, a) \/ Timeout(j, a)
               \/ Crash
        PROVE  IInv'
    BY <2>1, <2>4, WorkerType, WorkerTable, WorkerPromise DEF IInv, Table
  <2> QED
    BY <1>2, <2>2, <2>3, <2>4 DEF Next, Handle
<1> QED
  BY <1>1, <1>2

\* The invariant holds in every behaviour.
LEMMA Invariance == Spec => []IInv
BY InitIInv, NextIInv, PTL DEF Spec

\* Every value keeps its type, whatever the number of recipients, jobs and faults.
THEOREM TypeCorrect == Spec => []TypeOK
<1>1. IInv => TypeOK
  BY DEF IInv
<1> QED
  BY <1>1, Invariance, PTL

\* "Notified" and "failed" say what happened (notifier/index.ts).
THEOREM StampsAlwaysTrue == Spec => []StampsAreTrue
<1>1. IInv => StampsAreTrue
  BY DEF IInv
<1> QED
  BY <1>1, Invariance, PTL

\* No mail is sent again by a worker that knows the first one left.
THEOREM NeverTwice == Spec => []OneMailPerJob
<1>1. IInv => OneMailPerJob
  BY DEF IInv
<1> QED
  BY <1>1, Invariance, PTL

\* A recipient of whom the screen says "queued" has a job that moves.
LEMMA PromiseGivesLive ==
  ASSUME IInv
  PROVE  PromiseIsKept
<1> SUFFICES ASSUME NEW r \in email, Active(r), Note(r) = "queued", r \notin excused
             PROVE  Live(r)
  BY DEF PromiseIsKept
<1>1. Quiet(r) /\ Configured
  BY DEF Note, Quiet
<1>2. PICK j \in Jobs : jobs[j].to = r /\ ForRecipient(j) /\ Settles(j)
  BY <1>1 DEF IInv, Promise
<1>3. jobs[j].status # "free"
  BY <1>2 DEF Settles, AtWork, IInv, Table, Slots
<1>4. jobs[j].status = "PENDING" \/ \E a \in Attempts : run[j][a] # "none"
  BY <1>2 DEF Settles, AtWork
<1> QED
  BY <1>2, <1>3, <1>4 DEF Live

\* "Queued for sending" is kept (delivery.ts).
THEOREM PromiseAlwaysKept == Spec => []PromiseIsKept
BY PromiseGivesLive, Invariance, PTL

\* Nobody is left untold with nothing on the screen to say so (tickets.ts).
THEOREM NobodyEverSilent == Spec => []NobodySilent
<1>1. IInv => NobodySilent
  <2> SUFFICES ASSUME IInv, NEW r \in Professionals, Active(r), r \notin opened, ~Live(r),
                      r \notin excused, r \notin notifiedAt
               PROVE  Note(r) \in {"failed", "noEmail", "noContact", "notConfigured"}
    BY DEF NobodySilent
  <2>1. r \notin waOpenedAt
    BY DEF IInv, OpenedNow
  <2>2. HasEmail(r) => r \in email
    BY DeliveryAssumption DEF HasEmail
  <2>3. Note(r) # "queued" \/ r \notin email
    BY PromiseGivesLive DEF PromiseIsKept
  <2> QED
    BY <2>1, <2>2, <2>3 DEF Note
<1> QED
  BY <1>1, Invariance, PTL
=============================================================================
