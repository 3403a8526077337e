--------------------------- MODULE JobQueueProofs ---------------------------
(***************************************************************************)
(* Proofs about JobQueue. They are about the program as it is deployed: a  *)
(* caller of processNextJob never meets another one in its lane (OwnLanes: *)
(* startWorker starts one loop per lane), and the start-up queries are     *)
(* over before the first poll (StartupFirst). Without the first,           *)
(* AttemptsDecide is false: a caller that read a row before another caller *)
(* ran it to failure claims it again and counts with the attempt it read.  *)
(***************************************************************************)
EXTENDS JobQueue, SequenceTheorems, TLAPS

\* No job is in the lanes of two callers.
OwnLanes == \A a, b \in Loops : \A k \in Kinds : InLane(a, k) /\ InLane(b, k) => a = b

\* The lanes of startWorker are apart: mail types and all the others.
LEMMA TwoLanesAreApart ==
  ASSUME \A a \in Loops : LaneOf[a] # "all",
         \A a, b \in Loops : LaneOf[a] = LaneOf[b] => a = b
  PROVE  OwnLanes
<1>1. \A a \in Loops : LaneOf[a] \in {"general", "mail"}
  BY QueueAssumption
<1> QED BY <1>1 DEF OwnLanes, InLane

Busy == {"candidate", "running", "fail", "resched", "reschedInsert"}

-----------------------------------------------------------------------------
(* The inductive invariant *)

\* Start-up has the table for itself, and has a type to visit while it visits.
BootAlone ==
  /\ boot.pc # "up" => \A l \in Loops : loop[l].pc = "idle"
  /\ boot.pc \in {"reclaim", "giveUp"} => boot.todo = ChainOrder
  /\ boot.pc \in {"check", "insert"} => boot.todo # <<>>

\* What a loop knows of its job is true of the row: nobody else touches it.
Knows(l) ==
  /\ loop[l].pc \in Busy => InLane(l, KindOf[loop[l].job]) /\ loop[l].left > 0
  /\ loop[l].pc = "candidate" => /\ status[loop[l].job] = "PENDING"
                                 /\ loop[l].attempt = attempts[loop[l].job] + 1
  /\ loop[l].pc \in Held => /\ status[loop[l].job] = "RUNNING"
                            /\ loop[l].attempt = attempts[loop[l].job]

\* Work that got past its effect had it.
WorkActed == \A j \in Jobs, a \in Attempts :
               exec[j][a] \in {"acted", "insert", "returned"} => j \in acted

Unborn == \A j \in Jobs : status[j] = "NONE" => attempts[j] = 0

IInv == /\ TypeOK /\ AttemptsDecide /\ DoneMeansActed
        /\ BootAlone /\ WorkActed /\ Unborn
        /\ \A l \in Loops : Knows(l)

-----------------------------------------------------------------------------
(* Lemmas about the operators *)

LEMMA ChainKindsAreKinds == ChainKinds \subseteq Kinds
  BY QueueAssumption DEF ChainKinds

LEMMA NextRunType == ASSUME NEW now \in Nat PROVE NextRun(now) \in Nat
<1>1. Period \in Nat \ {0}
  BY QueueAssumption
<1>2. now \div Period \in Nat
  BY <1>1
<1>3. \A d \in Nat, p \in Nat \ {0} : (d + 1) * p \in Nat
  OBVIOUS
<1> QED BY <1>1, <1>2, <1>3 DEF NextRun

\* enqueue makes one row of the type wait, and touches no other.
LEMMA EnqueueRow ==
  ASSUME TypeOK, NEW k, NEW at \in Nat, Enqueue(k, at)
  PROVE  \E j \in Jobs : /\ status[j] = "NONE"
                         /\ status' = [status EXCEPT ![j] = "PENDING"]
                         /\ runAt' = [runAt EXCEPT ![j] = at]
                         /\ attempts' = attempts
  BY DEF Enqueue, TypeOK

LEMMA InitIInv == Init => IInv
<1> SUFFICES ASSUME Init PROVE IInv
  OBVIOUS
<1> USE QueueAssumption DEF Init
<1>1. NoLoop \in [pc : LoopPc, now : Nat, left : 0 .. PerTick, job : Jobs, attempt : Attempts]
  BY DEF NoLoop, LoopPc, Attempts
<1>2. TypeOK
  <2>1. boot \in [pc : BootPc, todo : Seq(ChainKinds)]
    BY DEF BootPc, ChainKinds
  <2>2. /\ status \in [Jobs -> Status] /\ attempts \in [Jobs -> 0 .. MaxAttempts]
        /\ runAt \in [Jobs -> Nat] /\ acted \subseteq Jobs /\ marked \subseteq Jobs
        /\ clock \in 0 .. MaxClock /\ crashes \in 0 .. MaxCrashes
        /\ dbErrors \in 0 .. MaxDbErrors
    BY DEF Status
  <2>3. /\ exec \in [Jobs -> [Attempts -> ExecPc]]
        /\ workNow \in [Jobs -> [Attempts -> Nat]]
    BY DEF ExecPc
  <2> QED BY <1>1, <2>1, <2>2, <2>3 DEF TypeOK
<1>3. AttemptsDecide /\ DoneMeansActed /\ BootAlone /\ WorkActed /\ Unborn
  BY DEF AttemptsDecide, DoneMeansActed, BootAlone, WorkActed, Unborn, NoLoop
<1>4. \A l \in Loops : Knows(l)
  BY DEF Knows, NoLoop, Busy, Held
<1> QED BY <1>2, <1>3, <1>4 DEF IInv

-----------------------------------------------------------------------------
(* Every step preserves the invariant: start-up *)

LEMMA BootKeeps == ASSUME IInv, Boot PROVE IInv'
<1> USE DEF Boot, table
<1>1. TypeOK'
  <2>1. boot' \in [pc : BootPc, todo : Seq(ChainKinds)]
    BY QueueAssumption DEF IInv, BootPc, ChainKinds
  <2> QED BY <2>1 DEF IInv, TypeOK
<1>2. (AttemptsDecide /\ DoneMeansActed /\ WorkActed /\ Unborn)'
  BY DEF IInv, AttemptsDecide, DoneMeansActed, WorkActed, Unborn
<1>3. BootAlone'
  BY DEF IInv, BootAlone
<1>4. \A l \in Loops : Knows(l)'
  BY DEF IInv, Knows
<1> QED BY <1>1, <1>2, <1>3, <1>4 DEF IInv

LEMMA BootReclaimKeeps ==
  ASSUME IInv, BootReclaim PROVE IInv'
<1> USE DEF BootReclaim, ReclaimRequeue
<1>1. TypeOK'
  <2>1. status' \in [Jobs -> Status]
    BY DEF IInv, TypeOK, Status
  <2>2. boot' \in [pc : BootPc, todo : Seq(ChainKinds)]
    BY DEF IInv, TypeOK, BootPc
  <2> QED BY <2>1, <2>2 DEF IInv, TypeOK
<1>2. AttemptsDecide'
  BY DEF IInv, AttemptsDecide, TypeOK
<1>3. (DoneMeansActed /\ WorkActed /\ Unborn /\ BootAlone)'
  BY DEF IInv, DoneMeansActed, WorkActed, Unborn, BootAlone, TypeOK
<1>4. \A l \in Loops : Knows(l)'
  BY DEF IInv, BootAlone, Knows, Busy, Held
<1> QED BY <1>1, <1>2, <1>3, <1>4 DEF IInv

LEMMA BootGiveUpKeeps == ASSUME IInv, BootGiveUp PROVE IInv'
<1> USE DEF BootGiveUp, ReclaimGiveUp
<1>1. TypeOK'
  <2>1. status' \in [Jobs -> Status]
    BY DEF IInv, TypeOK, Status
  <2>2. boot' \in [pc : BootPc, todo : Seq(ChainKinds)]
    BY DEF IInv, TypeOK, BootPc
  <2> QED BY <2>1, <2>2 DEF IInv, TypeOK
<1>2. AttemptsDecide'
  BY QueueAssumption DEF IInv, AttemptsDecide, TypeOK
<1>3. (DoneMeansActed /\ WorkActed /\ Unborn)'
  BY DEF IInv, DoneMeansActed, WorkActed, Unborn, TypeOK
<1>4. /\ boot' = [boot EXCEPT !.pc = boot'.pc] /\ boot'.pc \in {"up", "check"}
      /\ ChainOrder = <<>> => boot'.pc = "up"
      /\ boot'.todo = boot.todo
  BY DEF IInv, TypeOK
<1>5. BootAlone'
  BY <1>4 DEF IInv, BootAlone
<1>6. \A l \in Loops : Knows(l)'
  BY DEF IInv, BootAlone, Knows, Busy, Held
<1> QED BY <1>1, <1>2, <1>3, <1>5, <1>6 DEF IInv

LEMMA BootAdvanceType ==
  ASSUME IInv, boot.pc \in {"check", "insert"}, BootAdvance
  PROVE  /\ boot' \in [pc : BootPc, todo : Seq(ChainKinds)]
         /\ boot'.pc \in {"check", "up"}
         /\ boot'.pc \in {"check", "insert"} => boot'.todo # <<>>
<1>1. boot.todo \in Seq(ChainKinds) /\ boot.todo # <<>>
  BY DEF IInv, TypeOK, BootAlone
<1>2. Tail(boot.todo) \in Seq(ChainKinds) /\ Len(Tail(boot.todo)) = Len(boot.todo) - 1
  BY <1>1, HeadTailProperties
<1>3. Len(boot.todo) > 1 => Tail(boot.todo) # <<>>
  <2>1. Len(boot.todo) \in Nat /\ Len(<< >>) = 0
    BY <1>1, LenProperties, EmptySeq
  <2>2. ASSUME Tail(boot.todo) = << >> PROVE Len(Tail(boot.todo)) = 0
    BY <2>1, <2>2, Zenon
  <2>3. \A n \in Nat : n > 1 => n - 1 # 0
    OBVIOUS
  <2> QED BY <1>2, <2>1, <2>2, <2>3, Zenon
<1> QED BY <1>2, <1>3 DEF BootAdvance, BootPc

LEMMA BootCheckKeeps == ASSUME IInv, BootCheck PROVE IInv'
<1> USE DEF BootCheck, table
<1>1. /\ boot' \in [pc : BootPc, todo : Seq(ChainKinds)]
      /\ boot'.pc \in {"check", "insert", "up"}
      /\ boot'.pc \in {"check", "insert"} => boot'.todo # <<>>
  BY BootAdvanceType DEF IInv, TypeOK, BootAlone, BootPc
<1>2. TypeOK'
  BY <1>1 DEF IInv, TypeOK
<1>3. (AttemptsDecide /\ DoneMeansActed /\ WorkActed /\ Unborn)'
  BY DEF IInv, AttemptsDecide, DoneMeansActed, WorkActed, Unborn
<1>4. (BootAlone /\ \A l \in Loops : Knows(l))'
  BY <1>1 DEF IInv, BootAlone, Knows
<1> QED BY <1>2, <1>3, <1>4 DEF IInv

\* A new row changes nothing for those that exist.
LEMMA EnqueueKeeps ==
  ASSUME IInv, NEW k, NEW at \in Nat, Enqueue(k, at)
  PROVE  /\ status' \in [Jobs -> Status] /\ runAt' \in [Jobs -> Nat] /\ attempts' = attempts
         /\ \A j \in Jobs : status[j] # "NONE" => status'[j] = status[j]
         /\ AttemptsDecide' /\ Unborn'
         /\ \A j \in Jobs : status'[j] = "DONE" => status[j] = "DONE"
<1>1. PICK j \in Jobs : /\ status[j] = "NONE"
                        /\ status' = [status EXCEPT ![j] = "PENDING"]
                        /\ runAt' = [runAt EXCEPT ![j] = at]
                        /\ attempts' = attempts
  BY EnqueueRow DEF IInv
<1>2. AttemptsDecide'
  BY <1>1, QueueAssumption DEF IInv, TypeOK, AttemptsDecide, Unborn
<1>3. Unborn'
  BY <1>1 DEF IInv, TypeOK, Unborn
<1>4. status' \in [Jobs -> Status] /\ runAt' \in [Jobs -> Nat]
  BY <1>1 DEF IInv, TypeOK, Status
<1> QED BY <1>1, <1>2, <1>3, <1>4 DEF IInv, TypeOK

LEMMA BootInsertKeeps == ASSUME IInv, BootInsert PROVE IInv'
<1>1. clock \in Nat
  BY QueueAssumption DEF IInv, TypeOK
<1>2. Enqueue(Head(boot.todo), NextRun(clock)) /\ NextRun(clock) \in Nat
  BY <1>1, NextRunType DEF BootInsert, ScheduleNext
<1>3. /\ boot' \in [pc : BootPc, todo : Seq(ChainKinds)]
      /\ boot'.pc \in {"check", "insert", "up"}
      /\ boot'.pc \in {"check", "insert"} => boot'.todo # <<>>
  BY BootAdvanceType DEF BootInsert
<1>4. TypeOK'
  <2>1. status' \in [Jobs -> Status] /\ runAt' \in [Jobs -> Nat] /\ attempts' = attempts
    BY <1>2, EnqueueKeeps
  <2> QED BY <1>3, <2>1 DEF IInv, TypeOK, BootInsert
<1>5. (AttemptsDecide /\ DoneMeansActed /\ WorkActed /\ Unborn)'
  BY <1>2, EnqueueKeeps DEF IInv, DoneMeansActed, WorkActed, BootInsert
<1>6. (BootAlone /\ \A l \in Loops : Knows(l))'
  BY <1>3 DEF IInv, BootAlone, Knows, Busy, Held, BootInsert
<1> QED BY <1>4, <1>5, <1>6 DEF IInv

LEMMA BootErrorKeeps == ASSUME IInv, BootError PROVE IInv'
<1> USE DEF BootError, table
<1>1. TypeOK'
  <2>1. boot' \in [pc : BootPc, todo : Seq(ChainKinds)]
    BY DEF IInv, TypeOK, BootPc
  <2>2. dbErrors' \in 0 .. MaxDbErrors
    BY QueueAssumption DEF IInv, TypeOK
  <2> QED BY <2>1, <2>2 DEF IInv, TypeOK
<1>2. (AttemptsDecide /\ DoneMeansActed /\ WorkActed /\ Unborn)'
  BY DEF IInv, AttemptsDecide, DoneMeansActed, WorkActed, Unborn
<1>3. (BootAlone /\ \A l \in Loops : Knows(l))'
  BY DEF IInv, TypeOK, BootAlone, Knows
<1> QED BY <1>1, <1>2, <1>3 DEF IInv

-----------------------------------------------------------------------------
(* The lane loops *)

\* Two loops never hold the same job.
LEMMA LoopsApart ==
  ASSUME IInv, OwnLanes, NEW l \in Loops, NEW m \in Loops, l # m,
         loop[l].pc \in Busy, loop[m].pc \in Busy
  PROVE  loop[l].job # loop[m].job
<1>1. loop[l].job \in Jobs /\ loop[m].job \in Jobs
  BY DEF IInv, TypeOK
<1>2. KindOf[loop[l].job] \in Kinds
  BY <1>1, QueueAssumption
<1> QED BY <1>2 DEF IInv, Knows, OwnLanes

\* A step of a loop that touches neither the table nor any work.
LEMMA LoopOnlyKeeps ==
  ASSUME IInv, NEW l \in Loops,
         loop' \in [Loops -> [pc : LoopPc, now : Nat, left : 0 .. PerTick,
                              job : Jobs, attempt : Attempts]],
         \A m \in Loops : m # l => loop'[m] = loop[m],
         Knows(l)', boot.pc = "up",
         UNCHANGED <<table, acted, boot, exec, workNow, marked, clock, crashes>>,
         dbErrors' \in 0 .. MaxDbErrors
  PROVE  IInv'
<1> USE DEF table
<1>1. TypeOK'
  BY DEF IInv, TypeOK
<1>2. (AttemptsDecide /\ DoneMeansActed /\ WorkActed /\ Unborn /\ BootAlone)'
  BY DEF IInv, AttemptsDecide, DoneMeansActed, WorkActed, Unborn, BootAlone
<1>3. \A m \in Loops : Knows(m)'
  <2> SUFFICES ASSUME NEW m \in Loops, m # l PROVE Knows(m)'
    OBVIOUS
  <2> QED BY DEF IInv, Knows
<1> QED BY <1>1, <1>2, <1>3 DEF IInv

LEMMA EndDrainKeeps ==
  ASSUME IInv, NEW l \in Loops, EndDrain(l), boot.pc = "up",
         UNCHANGED <<table, acted, boot, exec, workNow, marked, clock, crashes>>,
         dbErrors' \in 0 .. MaxDbErrors
  PROVE  IInv'
<1>1. NoLoop \in [pc : LoopPc, now : Nat, left : 0 .. PerTick, job : Jobs, attempt : Attempts]
  BY QueueAssumption DEF NoLoop, LoopPc, Attempts
<1>2. /\ loop' \in [Loops -> [pc : LoopPc, now : Nat, left : 0 .. PerTick,
                              job : Jobs, attempt : Attempts]]
      /\ loop'[l] = NoLoop
      /\ \A m \in Loops : m # l => loop'[m] = loop[m]
  BY <1>1 DEF EndDrain, IInv, TypeOK
<1>3. Knows(l)'
  BY <1>2 DEF Knows, NoLoop, Busy, Held
<1> QED BY <1>2, <1>3, LoopOnlyKeeps

LEMMA TickStartsKeeps ==
  ASSUME IInv, StartupFirst, NEW l \in Loops, TickStarts(l) PROVE IInv'
<1>1. boot.pc = "up"
  BY DEF TickStarts, Booted
<1>2. loop' \in [Loops -> [pc : LoopPc, now : Nat, left : 0 .. PerTick,
                           job : Jobs, attempt : Attempts]]
  <2>1. clock \in Nat /\ PerTick \in 0 .. PerTick /\ "ready" \in LoopPc
    BY QueueAssumption DEF IInv, TypeOK, LoopPc
  <2> QED BY <2>1 DEF IInv, TypeOK, TickStarts
<1>3. /\ \A m \in Loops : m # l => loop'[m] = loop[m]
      /\ loop'[l].pc = "ready"
  BY DEF IInv, TypeOK, TickStarts
<1>4. Knows(l)'
  BY <1>3 DEF Knows, Busy, Held
<1> QED BY <1>1, <1>2, <1>3, <1>4, LoopOnlyKeeps DEF TickStarts, IInv, TypeOK

\* A loop that is at work works after start-up.
LEMMA AtWork == ASSUME IInv, NEW l \in Loops, loop[l].pc # "idle" PROVE boot.pc = "up"
  BY DEF IInv, BootAlone

LEMMA FindCandidateKeeps ==
  ASSUME IInv, NEW l \in Loops, FindCandidate(l) PROVE IInv'
<1> DEFINE S == IF loop[l].left = 0 THEN {} ELSE Due(l, loop[l].now)
<1>0. boot.pc = "up"
  BY AtWork DEF FindCandidate, LoopAt
<1>1. CASE EndDrain(l)
  BY <1>0, <1>1, EndDrainKeeps DEF FindCandidate, IInv, TypeOK
<1>2. ASSUME NEW j \in Oldest(S),
             loop' = [loop EXCEPT ![l] = [@ EXCEPT !.pc = "candidate", !.job = j,
                                                   !.attempt = attempts[j] + 1]]
      PROVE  IInv'
  <2>1. /\ j \in Jobs /\ status[j] = "PENDING" /\ InLane(l, KindOf[j])
        /\ loop[l].left # 0
    BY <1>2 DEF Oldest, Due
  <2>2. attempts[j] + 1 \in Attempts
    <3>1. attempts[j] \in 0 .. MaxAttempts /\ attempts[j] < MaxAttempts
      BY <2>1 DEF IInv, AttemptsDecide, TypeOK
    <3> QED BY <3>1, QueueAssumption DEF Attempts
  <2>3. loop' \in [Loops -> [pc : LoopPc, now : Nat, left : 0 .. PerTick,
                             job : Jobs, attempt : Attempts]]
    <3>1. "candidate" \in LoopPc
      BY DEF LoopPc
    <3> QED BY <1>2, <2>1, <2>2, <3>1 DEF IInv, TypeOK
  <2>4. /\ \A m \in Loops : m # l => loop'[m] = loop[m]
        /\ loop'[l].pc = "candidate" /\ loop'[l].job = j /\ loop'[l].left = loop[l].left
        /\ loop'[l].attempt = attempts[j] + 1
    BY <1>2 DEF IInv, TypeOK
  <2>5. loop[l].left > 0
    BY <2>1, QueueAssumption DEF IInv, TypeOK
  <2>6. UNCHANGED <<table, acted, marked, boot, exec, workNow, clock, crashes, dbErrors>>
    BY DEF FindCandidate
  <2>7. Knows(l)'
    BY <2>1, <2>4, <2>5, <2>6 DEF Knows, Busy, Held, table
  <2> QED BY <1>0, <2>3, <2>4, <2>6, <2>7, LoopOnlyKeeps DEF IInv, TypeOK
<1> QED BY <1>1, <1>2 DEF FindCandidate

\* The type of what a loop remembers.
LoopType == [pc : LoopPc, now : Nat, left : 0 .. PerTick, job : Jobs, attempt : Attempts]

LEMMA LoopTyped == ASSUME IInv, NEW l \in Loops PROVE loop[l] \in LoopType
  BY DEF IInv, TypeOK, LoopType

\* A step that changes what one loop remembers.
LEMMA LoopUpdate ==
  ASSUME IInv, NEW l \in Loops, NEW x \in LoopType, loop' = [loop EXCEPT ![l] = x]
  PROVE  /\ loop' \in [Loops -> LoopType]
         /\ loop'[l] = x
         /\ \A m \in Loops : m # l => loop'[m] = loop[m]
  BY DEF IInv, TypeOK, LoopType

LEMMA GotoTyped ==
  ASSUME IInv, NEW l \in Loops, NEW pc \in LoopPc, Goto(l, pc)
  PROVE  /\ loop' \in [Loops -> LoopType]
         /\ loop'[l] = [loop[l] EXCEPT !.pc = pc]
         /\ \A m \in Loops : m # l => loop'[m] = loop[m]
<1>1. [loop[l] EXCEPT !.pc = pc] \in LoopType
  BY LoopTyped DEF LoopType
<1>2. loop' = [loop EXCEPT ![l] = [loop[l] EXCEPT !.pc = pc]]
  BY DEF Goto, IInv, TypeOK
<1> QED BY <1>1, <1>2, LoopUpdate

LEMMA NextInDrainTyped ==
  ASSUME IInv, NEW l \in Loops, loop[l].pc \in Busy, NextInDrain(l)
  PROVE  /\ loop' \in [Loops -> LoopType]
         /\ loop'[l].pc = "ready"
         /\ \A m \in Loops : m # l => loop'[m] = loop[m]
<1> DEFINE x == [loop[l] EXCEPT !.pc = "ready", !.left = loop[l].left - 1]
<1>1. loop[l].left - 1 \in 0 .. PerTick /\ "ready" \in LoopPc
  <2>1. loop[l].left \in 0 .. PerTick /\ loop[l].left > 0
    BY DEF IInv, TypeOK, Knows
  <2> QED BY <2>1, QueueAssumption DEF LoopPc
<1>2. x \in LoopType /\ x.pc = "ready"
  BY <1>1, LoopTyped DEF LoopType
<1>3. loop' = [loop EXCEPT ![l] = x]
  BY DEF NextInDrain, IInv, TypeOK
<1> QED BY <1>2, <1>3, LoopUpdate

LEMMA ClaimKeeps ==
  ASSUME IInv, OwnLanes, NEW l \in Loops, Claim(l) PROVE IInv'
<1> DEFINE j == loop[l].job
           a == loop[l].attempt
<1>0. /\ boot.pc = "up" /\ j \in Jobs /\ a \in Attempts /\ status[j] = "PENDING"
      /\ a = attempts[j] + 1 /\ loop[l].pc = "candidate"
  BY AtWork DEF Claim, LoopAt, IInv, TypeOK, Knows
<1>1. /\ status' = [status EXCEPT ![j] = "RUNNING"]
      /\ attempts' = [attempts EXCEPT ![j] = a]
      /\ Goto(l, "running")
      /\ exec' = [exec EXCEPT ![j][a] = "started"]
      /\ workNow' = [workNow EXCEPT ![j][a] = loop[l].now]
      /\ UNCHANGED <<runAt, acted, marked, boot, clock, crashes, dbErrors>>
  BY <1>0 DEF Claim, ClaimUpdate, IInv, TypeOK
<1>2. /\ loop' \in [Loops -> LoopType]
      /\ loop'[l] = [loop[l] EXCEPT !.pc = "running"]
      /\ \A m \in Loops : m # l => loop'[m] = loop[m]
  BY <1>1, GotoTyped DEF LoopPc
<1>3. /\ loop'[l].pc = "running" /\ loop'[l].job = j /\ loop'[l].attempt = a
      /\ loop'[l].left = loop[l].left
  BY <1>2, LoopTyped DEF LoopType
<1>4. TypeOK'
  <2>1. status' \in [Jobs -> Status]
    BY <1>0, <1>1 DEF IInv, TypeOK, Status
  <2>2. attempts' \in [Jobs -> 0 .. MaxAttempts]
    <3>1. a \in 0 .. MaxAttempts
      BY <1>0, QueueAssumption DEF Attempts
    <3> QED BY <1>0, <1>1, <3>1 DEF IInv, TypeOK
  <2>3. exec' \in [Jobs -> [Attempts -> ExecPc]]
    BY <1>0, <1>1 DEF IInv, TypeOK, ExecPc
  <2>4. workNow' \in [Jobs -> [Attempts -> Nat]]
    BY <1>0, <1>1 DEF IInv, TypeOK
  <2> QED BY <1>1, <1>2, <2>1, <2>2, <2>3, <2>4 DEF IInv, TypeOK, LoopType
<1>5. (AttemptsDecide /\ DoneMeansActed /\ Unborn)'
  BY <1>0, <1>1 DEF IInv, TypeOK, AttemptsDecide, DoneMeansActed, Unborn
<1>6. WorkActed'
  BY <1>0, <1>1 DEF IInv, TypeOK, WorkActed
<1>7. BootAlone'
  BY <1>0, <1>1 DEF IInv, BootAlone
<1>8. \A m \in Loops : Knows(m)'
  <2>1. Knows(l)'
    BY <1>0, <1>1, <1>3 DEF IInv, TypeOK, Knows, Busy, Held
  <2>2. ASSUME NEW m \in Loops, m # l PROVE Knows(m)'
    <3>1. loop[m].pc \in Busy => loop[m].job # j
      BY <1>0, <2>2, LoopsApart DEF Busy
    <3>2. loop'[m] = loop[m] /\ loop[m].job \in Jobs
      BY <1>2, <2>2 DEF IInv, TypeOK
    <3> QED BY <1>0, <1>1, <3>1, <3>2 DEF IInv, TypeOK, Knows, Busy, Held
  <2> QED BY <2>1, <2>2
<1> QED BY <1>4, <1>5, <1>6, <1>7, <1>8 DEF IInv

\* A step of a loop that leaves the table alone; work is at most forgotten.
LEMMA LoopWorkKeeps ==
  ASSUME IInv, NEW l \in Loops, loop' \in [Loops -> LoopType],
         \A m \in Loops : m # l => loop'[m] = loop[m],
         Knows(l)', boot.pc = "up",
         Forget(l) \/ UNCHANGED <<exec, workNow>>,
         UNCHANGED <<table, acted, boot, marked, clock, crashes>>,
         dbErrors' \in 0 .. MaxDbErrors
  PROVE  IInv'
<1> USE DEF table
<1>1. loop[l].job \in Jobs /\ loop[l].attempt \in Attempts
  BY DEF IInv, TypeOK
<1>2. /\ exec' \in [Jobs -> [Attempts -> ExecPc]]
      /\ workNow' \in [Jobs -> [Attempts -> Nat]]
      /\ WorkActed'
  <2>1. CASE Forget(l)
    <3>1. exec' \in [Jobs -> [Attempts -> ExecPc]]
      BY <1>1, <2>1 DEF IInv, TypeOK, ExecPc, Forget
    <3>2. workNow' \in [Jobs -> [Attempts -> Nat]]
      BY <1>1, <2>1 DEF IInv, TypeOK, Forget
    <3>3. WorkActed'
      BY <1>1, <2>1 DEF IInv, TypeOK, WorkActed, Forget
    <3> QED BY <3>1, <3>2, <3>3
  <2>2. CASE UNCHANGED <<exec, workNow>>
    BY <2>2 DEF IInv, TypeOK, WorkActed
  <2> QED BY <2>1, <2>2
<1>4. TypeOK'
  BY <1>2 DEF IInv, TypeOK, LoopType
<1>6. (AttemptsDecide /\ DoneMeansActed /\ Unborn /\ BootAlone)'
  BY DEF IInv, AttemptsDecide, DoneMeansActed, Unborn, BootAlone
<1>7. \A m \in Loops : Knows(m)'
  <2> SUFFICES ASSUME NEW m \in Loops, m # l PROVE Knows(m)'
    OBVIOUS
  <2> QED BY DEF IInv, Knows
<1> QED BY <1>2, <1>4, <1>6, <1>7 DEF IInv

\* From "running" to "fail" the loop knows the same of its job.
LEMMA GotoFailKnows ==
  ASSUME IInv, NEW l \in Loops, loop[l].pc = "running", Goto(l, "fail"), UNCHANGED table
  PROVE  Knows(l)'
<1>1. loop'[l] = [loop[l] EXCEPT !.pc = "fail"]
  BY GotoTyped DEF LoopPc
<1>2. /\ loop'[l].pc = "fail" /\ loop'[l].job = loop[l].job
      /\ loop'[l].attempt = loop[l].attempt /\ loop'[l].left = loop[l].left
  BY <1>1, LoopTyped DEF LoopType
<1> QED BY <1>2 DEF IInv, Knows, Busy, Held, table

LEMMA ToFailKeeps ==
  ASSUME IInv, NEW l \in Loops, WorkThrew(l) \/ TimedOut(l) \/ CompleteError(l)
  PROVE  IInv'
<1>1. /\ loop[l].pc = "running" /\ Goto(l, "fail")
      /\ Forget(l) \/ UNCHANGED <<exec, workNow>>
      /\ UNCHANGED <<table, acted, boot, marked, clock, crashes>>
  BY DEF WorkThrew, TimedOut, CompleteError, LoopAt
<1>2. dbErrors' \in 0 .. MaxDbErrors
  <2>1. dbErrors' = dbErrors \/ (dbErrors < MaxDbErrors /\ dbErrors' = dbErrors + 1)
    BY DEF WorkThrew, TimedOut, CompleteError
  <2> QED BY <2>1, QueueAssumption DEF IInv, TypeOK
<1>3. boot.pc = "up" /\ Knows(l)'
  BY <1>1, AtWork, GotoFailKnows
<1>4. loop' \in [Loops -> LoopType] /\ \A m \in Loops : m # l => loop'[m] = loop[m]
  BY <1>1, GotoTyped DEF LoopPc
<1> QED BY <1>1, <1>2, <1>3, <1>4, LoopWorkKeeps

\* What a decision about the job of l leaves to the other loops.
LEMMA OthersKnow ==
  ASSUME IInv, OwnLanes, NEW l \in Loops, loop[l].pc \in Busy, NEW m \in Loops, m # l,
         loop'[m] = loop[m], attempts' = attempts,
         NEW x, status' = [status EXCEPT ![loop[l].job] = x]
  PROVE  Knows(m)'
<1>1. loop[m].pc \in Busy => loop[m].job # loop[l].job
  BY LoopsApart
<1>2. loop[m].job \in Jobs
  BY DEF IInv, TypeOK
<1> QED BY <1>1, <1>2 DEF IInv, TypeOK, Knows, Busy, Held

LEMMA CompleteKeeps ==
  ASSUME IInv, OwnLanes, NEW l \in Loops, Complete(l) PROVE IInv'
<1> DEFINE j == loop[l].job
           a == loop[l].attempt
<1>1. /\ j \in Jobs /\ a \in Attempts /\ loop[l].pc = "running" /\ loop[l].pc \in Busy
      /\ status[j] = "RUNNING" /\ boot.pc = "up" /\ exec[j][a] = "returned"
  BY AtWork DEF Complete, LoopAt, Work, IInv, TypeOK, Knows, Held, Busy
<1>2. /\ status' = [status EXCEPT ![j] = "DONE"] /\ NextInDrain(l) /\ Forget(l)
      /\ UNCHANGED <<attempts, runAt, acted, marked, boot, clock, crashes, dbErrors>>
  BY DEF Complete, CompleteJob
<1>3. /\ loop' \in [Loops -> LoopType] /\ loop'[l].pc = "ready"
      /\ \A m \in Loops : m # l => loop'[m] = loop[m]
  BY <1>1, <1>2, NextInDrainTyped
<1>4. TypeOK'
  <2>1. status' \in [Jobs -> Status]
    BY <1>1, <1>2 DEF IInv, TypeOK, Status
  <2>2. exec' \in [Jobs -> [Attempts -> ExecPc]]
    BY <1>1, <1>2 DEF IInv, TypeOK, ExecPc, Forget
  <2>3. workNow' \in [Jobs -> [Attempts -> Nat]]
    BY <1>1, <1>2 DEF IInv, TypeOK, Forget
  <2> QED BY <1>2, <1>3, <2>1, <2>2, <2>3 DEF IInv, TypeOK, LoopType
<1>5. (AttemptsDecide /\ Unborn /\ BootAlone)'
  BY <1>1, <1>2 DEF IInv, TypeOK, AttemptsDecide, Unborn, BootAlone
<1>6. (DoneMeansActed /\ WorkActed)'
  BY <1>1, <1>2 DEF IInv, TypeOK, DoneMeansActed, WorkActed, Forget
<1>7. \A m \in Loops : Knows(m)'
  <2>1. Knows(l)'
    BY <1>3 DEF Knows, Busy, Held
  <2>2. ASSUME NEW m \in Loops, m # l PROVE Knows(m)'
    BY <1>1, <1>2, <1>3, <2>2, OthersKnow
  <2> QED BY <2>1, <2>2
<1> QED BY <1>4, <1>5, <1>6, <1>7 DEF IInv

\* failJob decides by the attempt its caller holds; that is the row's own.
LEMMA FailDecides ==
  ASSUME IInv, NEW l \in Loops, Fail(l)
  PROVE  LET j == loop[l].job IN
         /\ j \in Jobs /\ status[j] = "RUNNING"
         /\ status' = [status EXCEPT ![j] = IF attempts[j] < MaxAttempts
                                            THEN "PENDING" ELSE "FAILED"]
         /\ attempts' = attempts
         /\ runAt' \in [Jobs -> Nat]
<1> DEFINE j == loop[l].job
           a == loop[l].attempt
<1>1. /\ j \in Jobs /\ a \in Attempts /\ loop[l].pc = "fail" /\ status[j] = "RUNNING"
      /\ a = attempts[j] /\ loop[l].now \in Nat
  BY DEF Fail, LoopAt, IInv, TypeOK, Knows, Held
<1>2. FailJob(j, a, loop[l].now)
  BY DEF Fail
<1>3. a \in Nat /\ MaxAttempts \in Nat /\ (a >= MaxAttempts <=> ~(a < MaxAttempts))
  BY <1>1, QueueAssumption DEF Attempts
<1>4. status' = [status EXCEPT ![j] = IF attempts[j] < MaxAttempts
                                      THEN "PENDING" ELSE "FAILED"]
  BY <1>1, <1>2, <1>3 DEF FailJob
<1>5. RetryDelay[a] \in Nat
  BY <1>1, QueueAssumption DEF Attempts
<1>6. runAt' \in [Jobs -> Nat] /\ attempts' = attempts
  BY <1>1, <1>2, <1>5 DEF FailJob, IInv, TypeOK
<1> QED BY <1>1, <1>4, <1>6

LEMMA FailKeeps ==
  ASSUME IInv, OwnLanes, NEW l \in Loops, Fail(l) PROVE IInv'
<1> DEFINE j == loop[l].job
           x == IF attempts[j] < MaxAttempts THEN "PENDING" ELSE "FAILED"
<1>1. /\ j \in Jobs /\ status[j] = "RUNNING" /\ status' = [status EXCEPT ![j] = x]
      /\ attempts' = attempts /\ runAt' \in [Jobs -> Nat]
  BY FailDecides
<1>2. /\ loop[l].pc = "fail" /\ loop[l].pc \in Busy /\ boot.pc = "up"
      /\ Goto(l, "resched") \/ NextInDrain(l)
      /\ UNCHANGED <<acted, marked, boot, exec, workNow, clock, crashes, dbErrors>>
  BY AtWork DEF Fail, LoopAt, Busy
<1>3. /\ loop' \in [Loops -> LoopType]
      /\ \A m \in Loops : m # l => loop'[m] = loop[m]
      /\ \/ loop'[l] = [loop[l] EXCEPT !.pc = "resched"]
         \/ loop'[l].pc = "ready"
  BY <1>2, GotoTyped, NextInDrainTyped DEF LoopPc
<1>4. TypeOK'
  <2>1. status' \in [Jobs -> Status]
    BY <1>1 DEF IInv, TypeOK, Status
  <2> QED BY <1>1, <1>2, <1>3, <2>1 DEF IInv, TypeOK, LoopType
<1>5. AttemptsDecide'
  <2>1. attempts[j] \in 0 .. MaxAttempts /\ MaxAttempts \in Nat
    BY <1>1, QueueAssumption DEF IInv, TypeOK
  <2>2. x = "FAILED" => attempts[j] = MaxAttempts
    BY <2>1
  <2> QED BY <1>1, <2>2 DEF IInv, TypeOK, AttemptsDecide
<1>6. (DoneMeansActed /\ WorkActed /\ Unborn /\ BootAlone)'
  BY <1>1, <1>2 DEF IInv, TypeOK, DoneMeansActed, WorkActed, Unborn, BootAlone
<1>7. \A m \in Loops : Knows(m)'
  <2>1. Knows(l)'
    <3>1. CASE loop'[l].pc = "ready"
      BY <3>1 DEF Knows, Busy, Held
    <3>2. CASE loop'[l] = [loop[l] EXCEPT !.pc = "resched"]
      <4>1. /\ loop'[l].pc = "resched" /\ loop'[l].job = j
            /\ loop'[l].left = loop[l].left
        BY <3>2, LoopTyped DEF LoopType
      <4> QED BY <1>2, <4>1 DEF IInv, Knows, Busy, Held
    <3> QED BY <1>3, <3>1, <3>2
  <2>2. ASSUME NEW m \in Loops, m # l PROVE Knows(m)'
    BY <1>1, <1>2, <1>3, <2>2, OthersKnow
  <2> QED BY <2>1, <2>2
<1> QED BY <1>4, <1>5, <1>6, <1>7 DEF IInv

LEMMA LoopErrorKeeps ==
  ASSUME IInv, NEW l \in Loops, LoopError(l) PROVE IInv'
<1>1. boot.pc = "up"
  BY AtWork DEF LoopError
<1>2. dbErrors' \in 0 .. MaxDbErrors
  BY QueueAssumption DEF LoopError, IInv, TypeOK
<1> QED BY <1>1, <1>2, EndDrainKeeps DEF LoopError

LEMMA ReschedKeeps ==
  ASSUME IInv, NEW l \in Loops, Resched(l) \/ ReschedError(l) PROVE IInv'
<1>1. /\ loop[l].pc \in {"resched", "reschedInsert"} /\ loop[l].pc \in Busy
      /\ NextInDrain(l) \/ (loop[l].pc = "resched" /\ Goto(l, "reschedInsert"))
      /\ UNCHANGED <<table, acted, marked, boot, exec, workNow, clock, crashes>>
  BY DEF Resched, ReschedError, LoopAt, Busy
<1>2. dbErrors' \in 0 .. MaxDbErrors
  <2>1. dbErrors' = dbErrors \/ (dbErrors < MaxDbErrors /\ dbErrors' = dbErrors + 1)
    BY DEF Resched, ReschedError
  <2> QED BY <2>1, QueueAssumption DEF IInv, TypeOK
<1>3. /\ loop' \in [Loops -> LoopType]
      /\ \A m \in Loops : m # l => loop'[m] = loop[m]
      /\ \/ loop'[l] = [loop[l] EXCEPT !.pc = "reschedInsert"]
         \/ loop'[l].pc = "ready"
  BY <1>1, GotoTyped, NextInDrainTyped DEF LoopPc
<1>4. Knows(l)'
  <2>1. CASE loop'[l].pc = "ready"
    BY <2>1 DEF Knows, Busy, Held
  <2>2. CASE loop'[l] = [loop[l] EXCEPT !.pc = "reschedInsert"]
    <3>1. /\ loop'[l].pc = "reschedInsert" /\ loop'[l].job = loop[l].job
          /\ loop'[l].left = loop[l].left
      BY <2>2, LoopTyped DEF LoopType
    <3> QED BY <1>1, <3>1 DEF IInv, Knows, Busy, Held
  <2> QED BY <1>3, <2>1, <2>2
<1>5. boot.pc = "up"
  BY <1>1, AtWork
<1> QED BY <1>1, <1>2, <1>3, <1>4, <1>5, LoopWorkKeeps

LEMMA ReschedInsertKeeps ==
  ASSUME IInv, NEW l \in Loops, ReschedInsert(l) PROVE IInv'
<1>1. /\ loop[l].pc \in Busy /\ boot.pc = "up" /\ NextInDrain(l) /\ loop[l].now \in Nat
      /\ UNCHANGED <<acted, marked, boot, exec, workNow, clock, crashes, dbErrors>>
  BY AtWork DEF ReschedInsert, LoopAt, Busy, IInv, TypeOK
<1>2. Enqueue(KindOf[loop[l].job], NextRun(loop[l].now)) /\ NextRun(loop[l].now) \in Nat
  BY <1>1, NextRunType DEF ReschedInsert, ScheduleNext
<1>3. /\ status' \in [Jobs -> Status] /\ runAt' \in [Jobs -> Nat] /\ attempts' = attempts
      /\ \A j \in Jobs : status[j] # "NONE" => status'[j] = status[j]
      /\ AttemptsDecide' /\ Unborn'
      /\ \A j \in Jobs : status'[j] = "DONE" => status[j] = "DONE"
  BY <1>2, EnqueueKeeps
<1>4. /\ loop' \in [Loops -> LoopType] /\ loop'[l].pc = "ready"
      /\ \A m \in Loops : m # l => loop'[m] = loop[m]
  BY <1>1, NextInDrainTyped
<1>5. TypeOK'
  BY <1>1, <1>3, <1>4 DEF IInv, TypeOK, LoopType
<1>6. (DoneMeansActed /\ WorkActed /\ BootAlone)'
  BY <1>1, <1>3 DEF IInv, DoneMeansActed, WorkActed, BootAlone
<1>7. \A m \in Loops : Knows(m)'
  <2>1. Knows(l)'
    BY <1>4 DEF Knows, Busy, Held
  <2>2. ASSUME NEW m \in Loops, m # l PROVE Knows(m)'
    <3>1. loop'[m] = loop[m] /\ loop[m].job \in Jobs
      BY <1>4, <2>2 DEF IInv, TypeOK
    <3> QED BY <1>3, <3>1 DEF IInv, Knows, Busy, Held
  <2> QED BY <2>1, <2>2
<1> QED BY <1>3, <1>5, <1>6, <1>7 DEF IInv

LEMMA LoopKeeps ==
  ASSUME IInv, OwnLanes, StartupFirst, NEW l \in Loops,
         LoopStep(l) \/ CompleteError(l) \/ LoopError(l) \/ ReschedError(l)
  PROVE  IInv'
  BY TickStartsKeeps, FindCandidateKeeps, ClaimKeeps, CompleteKeeps, ToFailKeeps,
     FailKeeps, LoopErrorKeeps, ReschedKeeps, ReschedInsertKeeps DEF LoopStep

-----------------------------------------------------------------------------
(* The work of a job, and the environment *)

\* The table and the loops stay as they are; acted only grows.
LEMMA WorkKeeps ==
  ASSUME IInv, NEW j \in Jobs, NEW a \in Attempts, NEW pc \in ExecPc, MoveTo(j, a, pc),
         acted \subseteq acted', acted' \subseteq Jobs, marked' \subseteq Jobs,
         pc \in {"acted", "insert", "returned"} => j \in acted',
         UNCHANGED <<table, boot, loop, workNow, clock, crashes, dbErrors>>
  PROVE  IInv'
<1> USE DEF table
<1>1. TypeOK'
  <2>1. exec' \in [Jobs -> [Attempts -> ExecPc]]
    BY DEF MoveTo, IInv, TypeOK
  <2> QED BY <2>1 DEF IInv, TypeOK
<1>2. WorkActed'
  BY DEF MoveTo, IInv, TypeOK, WorkActed
<1>3. (AttemptsDecide /\ DoneMeansActed /\ Unborn /\ BootAlone)'
  BY DEF IInv, AttemptsDecide, DoneMeansActed, Unborn, BootAlone
<1>4. \A l \in Loops : Knows(l)'
  BY DEF IInv, Knows
<1> QED BY <1>1, <1>2, <1>3, <1>4 DEF IInv

LEMMA EnsureInsertKeeps ==
  ASSUME IInv, NEW j \in Jobs, NEW a \in Attempts, EnsureInsert(j, a) PROVE IInv'
<1>1. /\ exec[j][a] = "insert" /\ workNow[j][a] \in Nat /\ MoveTo(j, a, "returned")
      /\ UNCHANGED <<acted, marked, boot, loop, workNow, clock, crashes, dbErrors>>
  BY DEF EnsureInsert, At, IInv, TypeOK
<1>2. Enqueue(KindOf[j], NextRun(workNow[j][a])) /\ NextRun(workNow[j][a]) \in Nat
  BY <1>1, NextRunType DEF EnsureInsert, ScheduleNext
<1>3. /\ status' \in [Jobs -> Status] /\ runAt' \in [Jobs -> Nat] /\ attempts' = attempts
      /\ \A i \in Jobs : status[i] # "NONE" => status'[i] = status[i]
      /\ AttemptsDecide' /\ Unborn'
      /\ \A i \in Jobs : status'[i] = "DONE" => status[i] = "DONE"
  BY <1>2, EnqueueKeeps
<1>4. TypeOK'
  <2>1. exec' \in [Jobs -> [Attempts -> ExecPc]]
    BY <1>1 DEF MoveTo, IInv, TypeOK, ExecPc
  <2> QED BY <1>1, <1>3, <2>1 DEF IInv, TypeOK
<1>5. WorkActed'
  BY <1>1 DEF MoveTo, IInv, TypeOK, WorkActed
<1>6. (DoneMeansActed /\ BootAlone)'
  BY <1>1, <1>3 DEF IInv, DoneMeansActed, BootAlone
<1>7. \A l \in Loops : Knows(l)'
  <2> SUFFICES ASSUME NEW l \in Loops PROVE Knows(l)'
    OBVIOUS
  <2>1. loop'[l] = loop[l] /\ loop[l].job \in Jobs
    BY <1>1 DEF IInv, TypeOK
  <2> QED BY <1>3, <2>1 DEF IInv, Knows, Busy, Held
<1> QED BY <1>3, <1>4, <1>5, <1>6, <1>7 DEF IInv

LEMMA ExecKeeps ==
  ASSUME IInv, NEW j \in Jobs, NEW a \in Attempts, ExecStep(j, a) PROVE IInv'
<1>1. CASE Act(j, a)
  <2>1. \E pc \in {"acted", "returned"} : MoveTo(j, a, pc)
    BY <1>1 DEF Act
  <2> QED BY <1>1, <2>1, WorkKeeps DEF Act, ExecPc, IInv, TypeOK
<1>2. CASE EnsureCheck(j, a)
  <2>1. \E pc \in {"returned", "insert"} : MoveTo(j, a, pc)
    BY <1>2 DEF EnsureCheck
  <2>2. j \in acted
    BY <1>2 DEF EnsureCheck, At, IInv, WorkActed
  <2> QED BY <1>2, <2>1, <2>2, WorkKeeps DEF EnsureCheck, ExecPc, IInv, TypeOK
<1>3. CASE EnsureInsert(j, a)
  BY <1>3, EnsureInsertKeeps
<1>4. CASE Throw(j, a)
  <2>1. MoveTo(j, a, "threw") /\ "threw" \in ExecPc
    BY <1>4 DEF Throw, ExecPc
  <2>2. /\ acted \subseteq acted' /\ acted' \subseteq Jobs /\ marked' \subseteq Jobs
        /\ UNCHANGED <<table, boot, loop, workNow, clock, crashes, dbErrors>>
    BY <1>4 DEF Throw, IInv, TypeOK
  <2> QED BY <2>1, <2>2, WorkKeeps
<1> QED BY <1>1, <1>2, <1>3, <1>4 DEF ExecStep

LEMMA ServiceEnqueuesKeeps == ASSUME IInv, ServiceEnqueues PROVE IInv'
<1>1. /\ clock \in Nat
      /\ UNCHANGED <<acted, marked, boot, loop, exec, workNow, clock, crashes, dbErrors>>
  BY QueueAssumption DEF ServiceEnqueues, IInv, TypeOK
<1>2. \E k \in Kinds : Enqueue(k, clock)
  BY DEF ServiceEnqueues
<1>3. /\ status' \in [Jobs -> Status] /\ runAt' \in [Jobs -> Nat] /\ attempts' = attempts
      /\ \A i \in Jobs : status[i] # "NONE" => status'[i] = status[i]
      /\ AttemptsDecide' /\ Unborn'
      /\ \A i \in Jobs : status'[i] = "DONE" => status[i] = "DONE"
  BY <1>1, <1>2, EnqueueKeeps
<1>4. TypeOK'
  BY <1>1, <1>3 DEF IInv, TypeOK
<1>5. (DoneMeansActed /\ WorkActed /\ BootAlone)'
  BY <1>1, <1>3 DEF IInv, DoneMeansActed, WorkActed, BootAlone
<1>6. \A l \in Loops : Knows(l)'
  <2> SUFFICES ASSUME NEW l \in Loops PROVE Knows(l)'
    OBVIOUS
  <2>1. loop'[l] = loop[l] /\ loop[l].job \in Jobs
    BY <1>1 DEF IInv, TypeOK
  <2> QED BY <1>3, <2>1 DEF IInv, Knows, Busy, Held
<1> QED BY <1>3, <1>4, <1>5, <1>6 DEF IInv

LEMMA TickKeeps == ASSUME IInv, Tick PROVE IInv'
<1> USE DEF Tick, table
<1>1. clock' \in 0 .. MaxClock
  BY QueueAssumption DEF IInv, TypeOK
<1>2. TypeOK'
  BY <1>1 DEF IInv, TypeOK
<1>3. (AttemptsDecide /\ DoneMeansActed /\ WorkActed /\ Unborn /\ BootAlone)'
  BY DEF IInv, AttemptsDecide, DoneMeansActed, WorkActed, Unborn, BootAlone
<1>4. \A l \in Loops : Knows(l)'
  BY DEF IInv, Knows
<1> QED BY <1>2, <1>3, <1>4 DEF IInv

LEMMA CrashKeeps == ASSUME IInv, Crash PROVE IInv'
<1> USE DEF Crash, table
<1>1. NoLoop \in LoopType /\ NoLoop.pc = "idle"
  BY QueueAssumption DEF NoLoop, LoopType, LoopPc, Attempts
<1>2. TypeOK'
  <2>1. boot' \in [pc : BootPc, todo : Seq(ChainKinds)]
    BY QueueAssumption DEF BootPc, ChainKinds
  <2>2. /\ exec' \in [Jobs -> [Attempts -> ExecPc]]
        /\ workNow' \in [Jobs -> [Attempts -> Nat]]
    BY DEF ExecPc
  <2>3. crashes' \in 0 .. MaxCrashes
    BY QueueAssumption DEF IInv, TypeOK
  <2>4. loop' \in [Loops -> LoopType]
    BY <1>1
  <2> QED BY <2>1, <2>2, <2>3, <2>4 DEF IInv, TypeOK, LoopType
<1>3. (AttemptsDecide /\ DoneMeansActed /\ Unborn)'
  BY DEF IInv, AttemptsDecide, DoneMeansActed, Unborn
<1>4. (WorkActed /\ BootAlone)'
  BY <1>1 DEF WorkActed, BootAlone
<1>5. \A l \in Loops : Knows(l)'
  BY <1>1 DEF Knows, Busy, Held
<1> QED BY <1>2, <1>3, <1>4, <1>5 DEF IInv

LEMMA StutterKeeps == ASSUME IInv, UNCHANGED vars PROVE IInv'
<1> USE DEF vars
<1>1. TypeOK'
  BY DEF IInv, TypeOK
<1>2. (AttemptsDecide /\ DoneMeansActed /\ WorkActed /\ Unborn /\ BootAlone)'
  BY DEF IInv, AttemptsDecide, DoneMeansActed, WorkActed, Unborn, BootAlone
<1>3. \A l \in Loops : Knows(l)'
  BY DEF IInv, Knows
<1> QED BY <1>1, <1>2, <1>3 DEF IInv

LEMMA NextKeeps ==
  ASSUME IInv, OwnLanes, StartupFirst, [Next]_vars PROVE IInv'
<1>1. CASE BootStep \/ BootError
  BY <1>1, BootKeeps, BootReclaimKeeps, BootGiveUpKeeps, BootCheckKeeps, BootInsertKeeps,
     BootErrorKeeps DEF BootStep
<1>2. CASE \E l \in Loops : LoopStep(l) \/ CompleteError(l) \/ LoopError(l) \/ ReschedError(l)
  BY <1>2, LoopKeeps
<1>3. CASE \E j \in Jobs, a \in Attempts : ExecStep(j, a)
  BY <1>3, ExecKeeps
<1>4. CASE ServiceEnqueues \/ Tick \/ Crash
  BY <1>4, ServiceEnqueuesKeeps, TickKeeps, CrashKeeps
<1>5. CASE UNCHANGED vars
  BY <1>5, StutterKeeps
<1> QED BY <1>1, <1>2, <1>3, <1>4, <1>5 DEF Next

\* The invariant holds in every reachable state.
THEOREM Invariance ==
  ASSUME OwnLanes, StartupFirst PROVE Spec => []IInv
<1>1. IInv /\ [Next]_vars => IInv'
  BY NextKeeps
<1> QED BY InitIInv, <1>1, PTL DEF Spec

-----------------------------------------------------------------------------
(* What follows from it *)

\* Every variable has its type: in particular no attempt is counted beyond
\* MAX_ATTEMPTS, however crashes, time-outs and failed updates fall.
THEOREM TypeCorrect ==
  ASSUME OwnLanes, StartupFirst PROVE Spec => []TypeOK
<1>1. IInv => TypeOK
  BY DEF IInv
<1> QED BY Invariance, <1>1, PTL

\* A waiting row has an attempt left; a row given up has none.
THEOREM AttemptsDecideAlways ==
  ASSUME OwnLanes, StartupFirst PROVE Spec => []AttemptsDecide
<1>1. IInv => AttemptsDecide
  BY DEF IInv
<1> QED BY Invariance, <1>1, PTL

\* No row is DONE unless its handler did its work.
THEOREM DoneMeansActedAlways ==
  ASSUME OwnLanes, StartupFirst PROVE Spec => []DoneMeansActed
<1>1. IInv => DoneMeansActed
  BY DEF IInv
<1> QED BY Invariance, <1>1, PTL

-----------------------------------------------------------------------------
(* The queue implements JobLifecycle: each step of the table is one of its    *)
(* steps, and every other step leaves the table alone.                        *)

LEMMA EnqueueCreates ==
  ASSUME IInv, NEW k, NEW at \in Nat, Enqueue(k, at) PROVE Lifecycle!Next
<1>1. PICK j \in Jobs : /\ status[j] = "NONE"
                        /\ status' = [status EXCEPT ![j] = "PENDING"]
                        /\ attempts' = attempts
  BY EnqueueRow DEF IInv
<1>2. Lifecycle!Create(j)
  BY <1>1 DEF Lifecycle!Create
<1> QED BY <1>2 DEF Lifecycle!Next

\* A sweep over some running rows, each decided by its count, or over none.
LEMMA SweepIsAllowed ==
  ASSUME IInv, NEW S \in SUBSET Jobs, \A j \in S : status[j] = "RUNNING",
         status' = [j \in Jobs |-> IF j \notin S THEN status[j]
                                   ELSE IF attempts[j] < MaxAttempts
                                   THEN "PENDING" ELSE "FAILED"],
         attempts' = attempts
  PROVE  Lifecycle!Next \/ UNCHANGED <<status, attempts>>
<1>1. CASE S = {}
  <2>1. status' = [j \in Jobs |-> status[j]]
    BY <1>1
  <2> QED BY <2>1 DEF IInv, TypeOK
<1>2. CASE S # {}
  <2>1. Lifecycle!PutBackOrGiveUp(S)
    BY <1>2 DEF Lifecycle!PutBackOrGiveUp
  <2> QED BY <2>1 DEF Lifecycle!Next
<1> QED BY <1>1, <1>2

LEMMA BootRefines ==
  ASSUME IInv, BootStep \/ BootError
  PROVE  Lifecycle!Next \/ UNCHANGED <<status, attempts>>
<1>1. CASE BootReclaim
  <2> DEFINE S == {j \in Jobs : status[j] = "RUNNING" /\ attempts[j] < MaxAttempts}
  <2>1. status' = [j \in Jobs |-> IF j \notin S THEN status[j]
                                  ELSE IF attempts[j] < MaxAttempts
                                  THEN "PENDING" ELSE "FAILED"]
    BY <1>1 DEF BootReclaim, ReclaimRequeue
  <2> QED BY <1>1, <2>1, SweepIsAllowed DEF BootReclaim, ReclaimRequeue
<1>2. CASE BootGiveUp
  <2> DEFINE S == {j \in Jobs : status[j] = "RUNNING" /\ attempts[j] >= MaxAttempts}
  <2>1. \A j \in Jobs : attempts[j] >= MaxAttempts <=> ~(attempts[j] < MaxAttempts)
    BY QueueAssumption DEF IInv, TypeOK
  <2>2. status' = [j \in Jobs |-> IF j \notin S THEN status[j]
                                  ELSE IF attempts[j] < MaxAttempts
                                  THEN "PENDING" ELSE "FAILED"]
    BY <1>2, <2>1 DEF BootGiveUp, ReclaimGiveUp
  <2> QED BY <1>2, <2>2, SweepIsAllowed DEF BootGiveUp, ReclaimGiveUp
<1>3. CASE BootInsert
  <2>1. clock \in Nat
    BY QueueAssumption DEF IInv, TypeOK
  <2> QED BY <1>3, <2>1, NextRunType, EnqueueCreates DEF BootInsert, ScheduleNext
<1>4. CASE Boot \/ BootCheck \/ BootError
  BY <1>4 DEF Boot, BootCheck, BootError, table
<1> QED BY <1>1, <1>2, <1>3, <1>4 DEF BootStep

LEMMA LoopRefines ==
  ASSUME IInv, NEW l \in Loops,
         LoopStep(l) \/ CompleteError(l) \/ LoopError(l) \/ ReschedError(l)
  PROVE  Lifecycle!Next \/ UNCHANGED <<status, attempts>>
<1> DEFINE j == loop[l].job
<1>0. j \in Jobs /\ loop[l].now \in Nat
  BY DEF IInv, TypeOK
<1>1. CASE Claim(l)
  <2>1. /\ status[j] = "PENDING" /\ attempts[j] < MaxAttempts
    BY <1>0, <1>1 DEF Claim, LoopAt, IInv, Knows, AttemptsDecide
  <2>2. ClaimUpdate(j)
    BY <1>1, <2>1 DEF Claim
  <2>3. Lifecycle!Start(j)
    BY <2>1, <2>2 DEF ClaimUpdate, Lifecycle!Start
  <2> QED BY <1>0, <2>3 DEF Lifecycle!Next
<1>2. CASE Complete(l)
  <2>1. status[j] = "RUNNING"
    BY <1>2 DEF Complete, LoopAt, IInv, Knows, Held
  <2>2. Lifecycle!Finish(j)
    BY <1>2, <2>1 DEF Complete, CompleteJob, Lifecycle!Finish
  <2> QED BY <1>0, <2>2 DEF Lifecycle!Next
<1>3. CASE Fail(l)
  <2>1. /\ status[j] = "RUNNING" /\ attempts' = attempts
        /\ status' = [status EXCEPT ![j] = IF attempts[j] < MaxAttempts
                                           THEN "PENDING" ELSE "FAILED"]
    BY <1>3, FailDecides
  <2>2. status' = [i \in Jobs |-> IF i \notin {j} THEN status[i]
                                  ELSE IF attempts[i] < MaxAttempts
                                  THEN "PENDING" ELSE "FAILED"]
    BY <2>1, <1>0 DEF IInv, TypeOK
  <2> QED BY <1>0, <2>1, <2>2, SweepIsAllowed
<1>4. CASE ReschedInsert(l)
  BY <1>0, <1>4, NextRunType, EnqueueCreates DEF ReschedInsert, ScheduleNext
<1>5. CASE \/ TickStarts(l) \/ FindCandidate(l) \/ WorkThrew(l) \/ TimedOut(l)
           \/ Resched(l) \/ CompleteError(l) \/ LoopError(l) \/ ReschedError(l)
  BY <1>5 DEF TickStarts, FindCandidate, WorkThrew, TimedOut, Resched, CompleteError,
              LoopError, ReschedError, table
<1> QED BY <1>1, <1>2, <1>3, <1>4, <1>5 DEF LoopStep

LEMMA ExecRefines ==
  ASSUME IInv, NEW j \in Jobs, NEW a \in Attempts, ExecStep(j, a)
  PROVE  Lifecycle!Next \/ UNCHANGED <<status, attempts>>
<1>1. CASE EnsureInsert(j, a)
  <2>1. workNow[j][a] \in Nat
    BY DEF IInv, TypeOK
  <2> QED BY <1>1, <2>1, NextRunType, EnqueueCreates DEF EnsureInsert, ScheduleNext
<1>2. CASE Act(j, a) \/ EnsureCheck(j, a) \/ Throw(j, a)
  BY <1>2 DEF Act, EnsureCheck, Throw, table
<1> QED BY <1>1, <1>2 DEF ExecStep

LEMMA StepRefines ==
  ASSUME IInv, [Next]_vars PROVE [Lifecycle!Next]_<<status, attempts>>
<1>1. CASE BootStep \/ BootError
  BY <1>1, BootRefines
<1>2. CASE \E l \in Loops : LoopStep(l) \/ CompleteError(l) \/ LoopError(l) \/ ReschedError(l)
  BY <1>2, LoopRefines
<1>3. CASE \E j \in Jobs, a \in Attempts : ExecStep(j, a)
  BY <1>3, ExecRefines
<1>4. CASE ServiceEnqueues
  <2>1. clock \in Nat
    BY QueueAssumption DEF IInv, TypeOK
  <2> QED BY <1>4, <2>1, EnqueueCreates DEF ServiceEnqueues
<1>5. CASE Tick \/ Crash \/ UNCHANGED vars
  BY <1>5 DEF Tick, Crash, vars, table
<1> QED BY <1>1, <1>2, <1>3, <1>4, <1>5 DEF Next

\* The queue implements JobLifecycle: whatever crashes, time-outs, late work
\* and failed database calls do, a row is run at most MAX_ATTEMPTS times, put
\* back only with attempts left, and given up only with none.
THEOREM Implementation ==
  ASSUME OwnLanes, StartupFirst PROVE Spec => Refines
<1>1. Init => Lifecycle!Init
  BY DEF Init, Lifecycle!Init
<1>2. IInv /\ [Next]_vars => [Lifecycle!Next]_<<status, attempts>>
  BY StepRefines
<1> QED BY Invariance, <1>1, <1>2, PTL DEF Spec, Refines, Lifecycle!Spec

\* A row that is DONE or FAILED never moves again.
THEOREM FinalForEver ==
  ASSUME OwnLanes, StartupFirst PROVE Spec => FinalIsFinal
<1> DEFINE Kept == \A j \in Jobs : status[j] \in Final => status'[j] = status[j]
<1>1. ASSUME IInv, [Next]_vars PROVE Kept
  <2>1. ASSUME NEW j \in Jobs, Lifecycle!Create(j) \/ Lifecycle!Start(j) \/ Lifecycle!Finish(j)
        PROVE  Kept
    BY <1>1, <2>1 DEF Lifecycle!Create, Lifecycle!Start, Lifecycle!Finish, Final, IInv, TypeOK
  <2>2. ASSUME NEW S \in SUBSET Jobs, Lifecycle!PutBackOrGiveUp(S) PROVE Kept
    BY <2>2 DEF Lifecycle!PutBackOrGiveUp, Final
  <2>3. CASE UNCHANGED <<status, attempts>>
    BY <2>3
  <2> QED BY <1>1, StepRefines, <2>1, <2>2, <2>3 DEF Lifecycle!Next
<1>2. IInv /\ [Next]_vars => [Kept]_vars
  BY <1>1
<1> QED BY Invariance, <1>2, PTL DEF Spec, FinalIsFinal

-----------------------------------------------------------------------------
(* Nothing is stranded and no chain breaks, while the queries of the worker   *)
(* itself succeed                                                             *)

Alive(k) ==
  \/ \E j \in Jobs : KindOf[j] = k /\ status[j] \in {"PENDING", "RUNNING"}
  \/ \E l \in Loops : /\ loop[l].pc \in {"resched", "reschedInsert"}
                      /\ KindOf[loop[l].job] = k

IsHeld(j) == \E l \in Loops : loop[l].pc \in Held /\ loop[l].job = j

\* Between the two updates of the reclaim only rows without attempts still run.
Swept == boot.pc = "giveUp" =>
           \A j \in Jobs : status[j] = "RUNNING" => attempts[j] >= MaxAttempts

RunsAreHeld == boot.pc \in {"check", "insert", "up"} =>
                 \A j \in Jobs : status[j] = "RUNNING" => IsHeld(j)

\* A type that start-up has passed is alive.
Visited == boot.pc \in {"check", "insert"} =>
             \A k \in ChainKinds : Alive(k) \/ \E i \in 1 .. Len(boot.todo) : boot.todo[i] = k

AllAlive == boot.pc = "up" => \A k \in ChainKinds : Alive(k)

\* The work of a chain job returns only once its successor waits; the lane
\* that would take the successor is busy with the job itself.
Succeeded(l) == /\ loop[l].pc = "running" /\ Work(l) = "returned"
                /\ KindOf[loop[l].job] \in ChainKinds
                => ChainPending(KindOf[loop[l].job])

Chain == /\ Swept /\ RunsAreHeld /\ Visited /\ AllAlive
         /\ \A l \in Loops : Succeeded(l)

\* enqueue makes a row of the type wait, and touches no other.
LEMMA EnqueueWaits ==
  ASSUME TypeOK, NEW k, NEW at \in Nat, Enqueue(k, at)
  PROVE  /\ ChainPending(k)'
         /\ \A j \in Jobs : status[j] # "NONE" => status'[j] = status[j]
         /\ \A j \in Jobs : status'[j] = "RUNNING" => status[j] = "RUNNING"
         /\ attempts' = attempts
<1> DEFINE free == {j \in Jobs : status[j] = "NONE" /\ KindOf[j] = k}
           x    == CHOOSE j \in free : TRUE
<1>1. /\ free # {} /\ attempts' = attempts
      /\ status' = [status EXCEPT ![x] = "PENDING"]
  BY DEF Enqueue
<1>2. x \in Jobs /\ status[x] = "NONE" /\ KindOf[x] = k
  BY <1>1
<1>3. PICK y \in Jobs : y = x
  BY <1>2
<1>4. status' = [status EXCEPT ![y] = "PENDING"] /\ status[y] = "NONE" /\ KindOf[y] = k
  BY <1>1, <1>2, <1>3
<1> QED BY <1>1, <1>4 DEF ChainPending, TypeOK

LEMMA InitChain == ASSUME Init PROVE Chain
  BY DEF Init, Chain, Swept, RunsAreHeld, Visited, AllAlive, Succeeded, NoLoop

\* A step that keeps the rows in the table, the loops and start-up. Work that
\* now has returned left a successor.
LEMMA QuietKeepsChain ==
  ASSUME IInv, Chain,
         \A j \in Jobs : status[j] \in {"PENDING", "RUNNING"} => status'[j] = status[j],
         \A j \in Jobs : status'[j] = "RUNNING" => status[j] = "RUNNING",
         attempts' = attempts, boot' = boot, loop' = loop,
         \A l \in Loops : loop[l].pc = "running" /\ Work(l)' = "returned"
                          /\ KindOf[loop[l].job] \in ChainKinds
                          => Work(l) = "returned" \/ ChainPending(KindOf[loop[l].job])'
  PROVE  Chain'
<1>1. ASSUME NEW k, Alive(k) PROVE Alive(k)'
  BY <1>1 DEF Alive
<1>2. ASSUME NEW k, ChainPending(k) PROVE ChainPending(k)'
  BY <1>2 DEF ChainPending
<1>3. Swept' /\ RunsAreHeld'
  BY DEF Chain, Swept, RunsAreHeld, IsHeld
<1>4. Visited' /\ AllAlive'
  BY <1>1 DEF Chain, Visited, AllAlive
<1>5. ASSUME NEW l \in Loops PROVE Succeeded(l)'
  BY <1>2 DEF Chain, Succeeded
<1> QED BY <1>3, <1>4, <1>5 DEF Chain

-----------------------------------------------------------------------------
(* Start-up settles each type in turn *)

\* Start-up moves on from a type that is alive.
LEMMA AdvanceKeepsChain ==
  ASSUME IInv, Chain, boot.pc \in {"check", "insert"}, BootAdvance, loop' = loop,
         NEW h, h = Head(boot.todo), Alive(h)', \A k : Alive(k) => Alive(k)',
         \A j \in Jobs : status'[j] = "RUNNING" => status[j] = "RUNNING",
         \A l \in Loops : Succeeded(l)'
  PROVE  Chain'
<1> DEFINE todo == boot.todo
<1>1. todo \in Seq(ChainKinds) /\ todo # << >>
  BY DEF IInv, TypeOK, BootAlone
<1>2. /\ Len(todo) \in Nat \ {0} /\ Tail(todo) \in Seq(ChainKinds)
      /\ Len(Tail(todo)) = Len(todo) - 1 /\ Head(todo) = todo[1]
      /\ \A i \in 1 .. Len(todo) - 1 : Tail(todo)[i] = todo[i + 1]
  BY <1>1
<1>3. /\ boot'.todo = Tail(todo)
      /\ boot'.pc = IF Len(todo) > 1 THEN "check" ELSE "up"
  BY DEF BootAdvance
<1>4. \A k \in ChainKinds : Alive(k)' \/ \E i \in 2 .. Len(todo) : todo[i] = k
  <2> SUFFICES ASSUME NEW k \in ChainKinds, ~ Alive(k)'
               PROVE  \E i \in 2 .. Len(todo) : todo[i] = k
    OBVIOUS
  <2>1. ~ Alive(k) /\ k # h
    OBVIOUS
  <2>2. PICK i \in 1 .. Len(todo) : todo[i] = k
    BY <2>1 DEF Chain, Visited
  <2>3. i # 1
    BY <1>2, <2>1, <2>2
  <2> QED BY <1>2, <2>2, <2>3
<1>5. Visited'
  <2> SUFFICES ASSUME NEW k \in ChainKinds, NEW i \in 2 .. Len(todo), todo[i] = k
               PROVE  \E n \in 1 .. Len(boot'.todo) : boot'.todo[n] = k
    BY <1>4 DEF Visited
  <2>1. i - 1 \in 1 .. Len(todo) - 1 /\ (i - 1) + 1 = i
    BY <1>2
  <2>2. Tail(todo)[i - 1] = k
    BY <1>2, <2>1
  <2> QED BY <1>2, <1>3, <2>1, <2>2
<1>6. AllAlive'
  <2>1. ASSUME boot'.pc = "up" PROVE Len(todo) = 1
    <3>1. ~ (Len(todo) > 1)
      BY <1>3, <2>1
    <3>2. \A n \in Nat \ {0} : ~ (n > 1) => n = 1
      OBVIOUS
    <3> QED BY <1>2, <3>1, <3>2, Zenon
  <2> QED BY <1>4, <2>1 DEF AllAlive
<1>7. Swept' /\ RunsAreHeld'
  <2>1. boot'.pc \in {"check", "up"}
    BY <1>3
  <2> QED BY <2>1 DEF Chain, Swept, RunsAreHeld, IsHeld
<1> QED BY <1>5, <1>6, <1>7 DEF Chain

LEMMA BootKeepsChain == ASSUME IInv, Chain, BootStep PROVE Chain'
<1>0. /\ boot.pc # "up" /\ \A l \in Loops : loop[l].pc = "idle" /\ loop'[l].pc = "idle"
      /\ loop' = loop
  BY DEF IInv, BootAlone, BootStep, Boot, BootReclaim, BootGiveUp, BootCheck, BootInsert
<1>1. \A l \in Loops : Succeeded(l)'
  BY <1>0 DEF Succeeded
<1>2. CASE Boot
  BY <1>1, <1>2 DEF Boot, Chain, Swept, RunsAreHeld, Visited, AllAlive
<1>3. CASE BootReclaim
  <2>1. boot'.pc = "giveUp"
    BY <1>3 DEF BootReclaim, IInv, TypeOK
  <2>2. Swept'
    <3> SUFFICES ASSUME NEW j \in Jobs, status'[j] = "RUNNING"
                 PROVE  attempts'[j] >= MaxAttempts
      BY DEF Swept
    <3>1. status[j] = "RUNNING" /\ ~(attempts[j] < MaxAttempts) /\ attempts' = attempts
      BY <1>3 DEF BootReclaim, ReclaimRequeue
    <3>2. attempts[j] \in Nat /\ MaxAttempts \in Nat
      BY QueueAssumption DEF IInv, TypeOK
    <3> QED BY <3>1, <3>2
  <2> QED BY <1>1, <2>1, <2>2 DEF Chain, RunsAreHeld, Visited, AllAlive
<1>4. CASE BootGiveUp
  <2>1. /\ boot.pc = "giveUp" /\ boot'.todo = ChainOrder
        /\ boot'.pc = IF ChainOrder = << >> THEN "up" ELSE "check"
    BY <1>4 DEF BootGiveUp, IInv, TypeOK, BootAlone
  <2>2. \A j \in Jobs : status'[j] # "RUNNING"
    BY <1>4, <2>1 DEF BootGiveUp, ReclaimGiveUp, Chain, Swept
  <2>3. Visited'
    <3>1. \A k \in ChainKinds : \E i \in 1 .. Len(ChainOrder) : ChainOrder[i] = k
      BY QueueAssumption DEF ChainKinds
    <3> QED BY <2>1, <3>1 DEF Visited
  <2>4. AllAlive'
    <3>1. ChainOrder = << >> => ChainKinds = {}
      BY DEF ChainKinds
    <3> QED BY <2>1, <3>1 DEF AllAlive
  <2> QED BY <1>1, <2>1, <2>2, <2>3, <2>4 DEF Chain, Swept, RunsAreHeld
<1>5. CASE BootCheck
  <2>1. /\ boot.pc = "check" /\ UNCHANGED <<status, attempts>>
    BY <1>5 DEF BootCheck, table
  <2>2. \A k : Alive(k) => Alive(k)'
    BY <1>0, <2>1 DEF Alive
  <2>3. CASE ChainPending(Head(boot.todo))
    <3>1. PICK h : h = Head(boot.todo)
      OBVIOUS
    <3>2. Alive(h)
      BY <2>3, <3>1 DEF ChainPending, Alive
    <3>3. Alive(h)'
      BY <2>2, <3>2
    <3>4. BootAdvance
      BY <1>5, <2>3 DEF BootCheck
    <3> QED BY <1>0, <1>1, <2>1, <2>2, <3>1, <3>3, <3>4, AdvanceKeepsChain
  <2>4. CASE boot' = [boot EXCEPT !.pc = "insert"]
    <3>1. boot'.pc = "insert" /\ boot'.todo = boot.todo
      BY <2>4 DEF IInv, TypeOK
    <3> QED BY <1>0, <1>1, <2>1, <2>2, <3>1
            DEF Chain, Swept, RunsAreHeld, Visited, AllAlive, IsHeld
  <2> QED BY <1>5, <2>3, <2>4 DEF BootCheck
<1>6. CASE BootInsert
  <2>1. clock \in Nat
    BY QueueAssumption DEF IInv, TypeOK
  <2>2. PICK k : k = Head(boot.todo)
    OBVIOUS
  <2>3. /\ boot.pc = "insert" /\ BootAdvance /\ Enqueue(k, NextRun(clock))
        /\ NextRun(clock) \in Nat
    BY <1>6, <2>1, <2>2, NextRunType DEF BootInsert, ScheduleNext
  <2>4. /\ ChainPending(k)'
        /\ \A j \in Jobs : status[j] # "NONE" => status'[j] = status[j]
        /\ \A j \in Jobs : status'[j] = "RUNNING" => status[j] = "RUNNING"
    BY <2>3, EnqueueWaits DEF IInv
  <2>5. \A c : Alive(c) => Alive(c)'
    BY <1>0, <2>4 DEF Alive
  <2>6. Alive(k)'
    BY <2>4 DEF ChainPending, Alive
  <2> QED BY <1>0, <1>1, <2>2, <2>3, <2>4, <2>5, <2>6, AdvanceKeepsChain
<1> QED BY <1>2, <1>3, <1>4, <1>5, <1>6 DEF BootStep

-----------------------------------------------------------------------------
(* The loops *)

\* A step of a loop that is on no chain's way: the table stays, what is held
\* stays held, and no work returns.
LEMMA LoopKeepsChain ==
  ASSUME IInv, Chain, NEW l \in Loops, boot.pc = "up", UNCHANGED <<status, attempts, boot>>,
         \A m \in Loops : m # l => loop'[m] = loop[m],
         \A m \in Loops : m # l /\ loop[m].pc = "running" => Work(m)' = Work(m),
         loop'[l].pc # "running",
         loop[l].pc \in Held => loop'[l].pc \in Held /\ loop'[l].job = loop[l].job,
         loop[l].pc \in {"resched", "reschedInsert"} =>
           \/ ChainPending(KindOf[loop[l].job])
           \/ loop'[l].pc \in {"resched", "reschedInsert"} /\ loop'[l].job = loop[l].job
  PROVE  Chain'
<1>1. ASSUME NEW j \in Jobs, IsHeld(j) PROVE IsHeld(j)'
  BY <1>1 DEF IsHeld
<1>2. ASSUME NEW k, Alive(k) PROVE Alive(k)'
  <2>1. CASE \E j \in Jobs : KindOf[j] = k /\ status[j] \in {"PENDING", "RUNNING"}
    BY <2>1 DEF Alive
  <2>2. ASSUME NEW m \in Loops, loop[m].pc \in {"resched", "reschedInsert"},
               KindOf[loop[m].job] = k
        PROVE  Alive(k)'
    <3>1. CASE m # l
      BY <2>2, <3>1 DEF Alive
    <3>2. CASE m = l
      BY <2>2, <3>2 DEF Alive, ChainPending
    <3> QED BY <3>1, <3>2
  <2> QED BY <1>2, <2>1, <2>2 DEF Alive
<1>3. ASSUME NEW m \in Loops PROVE Succeeded(m)'
  <2>1. CASE m = l
    BY <2>1 DEF Succeeded
  <2>2. CASE m # l
    BY <2>2 DEF Chain, Succeeded, ChainPending
  <2> QED BY <2>1, <2>2
<1> QED BY <1>1, <1>2, <1>3 DEF Chain, Swept, RunsAreHeld, Visited, AllAlive

\* The work of the other loops is other work.
LEMMA OtherWork ==
  ASSUME IInv, OwnLanes, NEW l \in Loops, NEW m \in Loops, m # l, loop'[m] = loop[m],
         loop[l].pc \in Busy, loop[m].pc = "running",
         \A j \in Jobs : j # loop[l].job => exec'[j] = exec[j]
  PROVE  Work(m)' = Work(m)
<1>1. loop[m].job \in Jobs /\ loop[m].job # loop[l].job
  BY LoopsApart DEF Busy, IInv, TypeOK
<1> QED BY <1>1 DEF Work

LEMMA ForgetsOwn ==
  ASSUME IInv, NEW l \in Loops, Forget(l) \/ exec' = exec
  PROVE  \A j \in Jobs : j # loop[l].job => exec'[j] = exec[j]
  BY DEF Forget, IInv, TypeOK

LEMMA PlainLoopKeepsChain ==
  ASSUME IInv, OwnLanes, StartupFirst, Chain, NEW l \in Loops,
         \/ TickStarts(l) \/ FindCandidate(l) \/ (Claim(l) /\ EndDrain(l))
         \/ WorkThrew(l) \/ TimedOut(l) \/ Resched(l)
  PROVE  Chain'
<1>1. CASE TickStarts(l)
  <2>1. /\ boot.pc = "up" /\ loop[l].pc = "idle" /\ loop'[l].pc = "ready"
        /\ \A m \in Loops : m # l => loop'[m] = loop[m]
        /\ UNCHANGED <<status, attempts, boot, exec>>
    BY <1>1 DEF TickStarts, LoopAt, Booted, table, IInv, TypeOK
  <2>2. \A m \in Loops : m # l => Work(m)' = Work(m)
    BY <2>1 DEF Work
  <2> QED BY <2>1, <2>2, LoopKeepsChain DEF Held
<1>2. CASE FindCandidate(l)
  <2>1. /\ loop[l].pc = "ready" /\ boot.pc = "up"
        /\ UNCHANGED <<status, attempts, boot, exec>>
    <3>1. /\ LoopAt(l, "ready")
          /\ UNCHANGED <<table, acted, marked, boot, exec, workNow, clock, crashes, dbErrors>>
      BY <1>2, Zenon DEF FindCandidate
    <3>2. loop[l].pc = "ready" /\ UNCHANGED <<status, attempts, boot, exec>>
      BY <3>1 DEF LoopAt, table
    <3> QED BY <3>2, AtWork
  <2>2. /\ loop'[l].pc \in {"idle", "candidate"}
        /\ \A m \in Loops : m # l => loop'[m] = loop[m]
    <3>1. CASE EndDrain(l)
      <4>1. loop' = [loop EXCEPT ![l] = NoLoop] /\ NoLoop.pc = "idle"
        BY <3>1 DEF EndDrain, NoLoop
      <4> QED BY <4>1 DEF IInv, TypeOK
    <3>2. ASSUME NEW j,
                 loop' = [loop EXCEPT ![l] = [@ EXCEPT !.pc = "candidate", !.job = j,
                                                       !.attempt = attempts[j] + 1]]
          PROVE  /\ loop'[l].pc \in {"idle", "candidate"}
                 /\ \A m \in Loops : m # l => loop'[m] = loop[m]
      BY <3>2, LoopTyped DEF LoopType, IInv, TypeOK
    <3> QED BY <1>2, <3>1, <3>2, Zenon DEF FindCandidate
  <2>3. \A m \in Loops : m # l => Work(m)' = Work(m)
    BY <2>1, <2>2 DEF Work
  <2> QED BY <2>1, <2>2, <2>3, LoopKeepsChain DEF Held
<1>3. CASE Claim(l) /\ EndDrain(l)
  <2>1. /\ boot.pc = "up" /\ loop[l].pc = "candidate" /\ loop'[l].pc = "idle"
        /\ \A m \in Loops : m # l => loop'[m] = loop[m]
    BY <1>3, AtWork DEF Claim, LoopAt, EndDrain, NoLoop, IInv, TypeOK
  <2>2. UNCHANGED <<status, attempts, boot, exec>>
    <3>1. ~ Goto(l, "running")
      BY <2>1 DEF Goto, IInv, TypeOK
    <3> QED BY <1>3, <3>1 DEF Claim, table
  <2>3. \A m \in Loops : m # l => Work(m)' = Work(m)
    BY <2>1, <2>2 DEF Work
  <2> QED BY <2>1, <2>2, <2>3, LoopKeepsChain DEF Held
<1>4. CASE WorkThrew(l) \/ TimedOut(l)
  <2>1. /\ loop[l].pc = "running" /\ Goto(l, "fail") /\ boot.pc = "up"
        /\ Forget(l) \/ exec' = exec
        /\ UNCHANGED <<status, attempts, boot>>
    BY <1>4, AtWork DEF WorkThrew, TimedOut, LoopAt, table
  <2>2. /\ loop'[l] = [loop[l] EXCEPT !.pc = "fail"]
        /\ \A m \in Loops : m # l => loop'[m] = loop[m]
    BY <2>1, GotoTyped DEF LoopPc
  <2>3. loop'[l].pc = "fail" /\ loop'[l].job = loop[l].job
    BY <2>2, LoopTyped DEF LoopType
  <2>4. \A m \in Loops : m # l /\ loop[m].pc = "running" => Work(m)' = Work(m)
    BY <2>1, <2>2, ForgetsOwn, OtherWork DEF Busy
  <2> QED BY <2>1, <2>2, <2>3, <2>4, LoopKeepsChain DEF Held
<1>5. CASE Resched(l)
  <2>1. /\ loop[l].pc = "resched" /\ boot.pc = "up"
        /\ UNCHANGED <<status, attempts, boot, exec>>
    BY <1>5, AtWork DEF Resched, LoopAt, table
  <2>2. CASE ChainPending(KindOf[loop[l].job]) /\ NextInDrain(l)
    <3>1. /\ loop'[l].pc = "ready"
          /\ \A m \in Loops : m # l => loop'[m] = loop[m]
      BY <2>1, <2>2, NextInDrainTyped DEF Busy
    <3>2. \A m \in Loops : m # l => Work(m)' = Work(m)
      BY <2>1, <3>1 DEF Work
    <3> QED BY <2>1, <2>2, <3>1, <3>2, LoopKeepsChain DEF Held
  <2>3. CASE Goto(l, "reschedInsert")
    <3>1. /\ loop'[l] = [loop[l] EXCEPT !.pc = "reschedInsert"]
          /\ \A m \in Loops : m # l => loop'[m] = loop[m]
      BY <2>3, GotoTyped DEF LoopPc
    <3>2. loop'[l].pc = "reschedInsert" /\ loop'[l].job = loop[l].job
      BY <3>1, LoopTyped DEF LoopType
    <3>3. \A m \in Loops : m # l => Work(m)' = Work(m)
      BY <2>1, <3>1 DEF Work
    <3> QED BY <2>1, <3>1, <3>2, <3>3, LoopKeepsChain DEF Held
  <2> QED BY <1>5, <2>2, <2>3 DEF Resched
<1> QED BY <1>1, <1>2, <1>3, <1>4, <1>5

\* A row is taken: it runs and is held, and only its own lane loses a
\* waiting row.
LEMMA ClaimKeepsChain ==
  ASSUME IInv, OwnLanes, Chain, NEW l \in Loops, Claim(l), Goto(l, "running"),
         ClaimUpdate(loop[l].job)
  PROVE  Chain'
<1> DEFINE j == loop[l].job
           a == loop[l].attempt
<1>1. /\ boot.pc = "up" /\ j \in Jobs /\ a \in Attempts /\ status[j] = "PENDING"
      /\ loop[l].pc = "candidate" /\ InLane(l, KindOf[j])
  BY AtWork DEF Claim, LoopAt, IInv, TypeOK, Knows, Busy
<1>2. /\ loop'[l] = [loop[l] EXCEPT !.pc = "running"]
      /\ \A m \in Loops : m # l => loop'[m] = loop[m]
  BY GotoTyped DEF LoopPc
<1>3. loop'[l].pc = "running" /\ loop'[l].job = j /\ loop'[l].attempt = a
  BY <1>2, LoopTyped DEF LoopType
<1>4. /\ status' = [status EXCEPT ![j] = "RUNNING"]
      /\ exec' = [exec EXCEPT ![j][a] = "started"]
      /\ boot' = boot
  BY <1>1 DEF Claim, ClaimUpdate
<1>5. RunsAreHeld'
  <2> SUFFICES ASSUME NEW i \in Jobs, status'[i] = "RUNNING" PROVE IsHeld(i)'
    BY DEF RunsAreHeld
  <2>1. CASE i = j
    BY <1>3, <2>1 DEF IsHeld, Held
  <2>2. CASE i # j
    <3>1. IsHeld(i)
      BY <1>1, <1>4, <2>2 DEF Chain, RunsAreHeld, IInv, TypeOK
    <3> QED BY <1>1, <1>2, <3>1 DEF IsHeld, Held
  <2> QED BY <2>1, <2>2
<1>6. ASSUME NEW k, Alive(k) PROVE Alive(k)'
  BY <1>1, <1>2, <1>4, <1>6 DEF Alive, IInv, TypeOK
<1>7. ASSUME NEW m \in Loops PROVE Succeeded(m)'
  <2>1. CASE m = l
    <3>1. Work(m)' = "started"
      BY <1>1, <1>3, <1>4, <2>1 DEF Work, IInv, TypeOK
    <3> QED BY <3>1 DEF Succeeded
  <2>2. CASE m # l
    <3> SUFFICES ASSUME loop[m].pc = "running", Work(m)' = "returned",
                        KindOf[loop[m].job] \in ChainKinds
                 PROVE  ChainPending(KindOf[loop[m].job])'
      BY <1>2, <2>2 DEF Succeeded
    <3>1. Work(m)' = Work(m)
      BY <1>1, <1>2, <1>4, <2>2, OtherWork DEF Busy, IInv, TypeOK
    <3>2. PICK i \in Jobs : status[i] = "PENDING" /\ KindOf[i] = KindOf[loop[m].job]
      BY <3>1 DEF Chain, Succeeded, ChainPending
    <3>3. i # j
      <4>1. InLane(m, KindOf[i]) /\ KindOf[i] \in Kinds
        BY <3>2, QueueAssumption DEF IInv, Knows, Busy
      <4> QED BY <1>1, <2>2, <4>1 DEF OwnLanes
    <3>4. status'[i] = "PENDING"
      BY <1>1, <1>4, <3>2, <3>3 DEF IInv, TypeOK
    <3> QED BY <1>2, <2>2, <3>2, <3>4 DEF ChainPending
  <2> QED BY <2>1, <2>2
<1> QED BY <1>1, <1>4, <1>5, <1>6, <1>7 DEF Chain, Swept, Visited, AllAlive

\* A decision about the job of l: the job is off its hands. Rows that wait,
\* and what the others hold, stay; the type of the job lives on.
LEMMA DecisionKeepsChain ==
  ASSUME IInv, OwnLanes, Chain, NEW l \in Loops, loop[l].pc \in Held, NEW x \in Status,
         status' = [status EXCEPT ![loop[l].job] = x], x # "RUNNING",
         UNCHANGED <<attempts, boot>>, Forget(l) \/ exec' = exec,
         \A m \in Loops : m # l => loop'[m] = loop[m],
         loop'[l].pc \in {"ready", "resched"},
         KindOf[loop[l].job] \in ChainKinds =>
           \/ ChainPending(KindOf[loop[l].job])
           \/ loop'[l].pc = "resched" /\ loop'[l].job = loop[l].job
  PROVE  Chain'
<1> DEFINE j == loop[l].job
<1>1. /\ boot.pc = "up" /\ j \in Jobs /\ status[j] = "RUNNING" /\ loop[l].pc \in Busy
  <2>1. loop[l].pc # "idle" /\ loop[l].pc \in Busy
    BY DEF Held, Busy
  <2> QED BY <2>1, AtWork DEF IInv, TypeOK, Knows
<1>2. \A i \in Jobs : i # j => status'[i] = status[i]
  BY DEF IInv, TypeOK
<1>3. \A k : ChainPending(k) => ChainPending(k)'
  BY <1>1, <1>2 DEF ChainPending
<1>4. RunsAreHeld'
  <2> SUFFICES ASSUME NEW i \in Jobs, status'[i] = "RUNNING" PROVE IsHeld(i)'
    BY DEF RunsAreHeld
  <2>1. i # j /\ status[i] = "RUNNING"
    BY <1>1, <1>2 DEF IInv, TypeOK
  <2>2. PICK m \in Loops : loop[m].pc \in Held /\ loop[m].job = i
    BY <1>1, <2>1 DEF Chain, RunsAreHeld, IsHeld
  <2>3. loop'[m] = loop[m]
    BY <2>1, <2>2
  <2> QED BY <2>2, <2>3 DEF IsHeld
<1>5. ASSUME NEW k \in ChainKinds, Alive(k) PROVE Alive(k)'
  <2>1. CASE k = KindOf[j]
    <3>1. ChainPending(k) \/ (loop'[l].pc = "resched" /\ loop'[l].job = j)
      BY <2>1
    <3>2. ASSUME ChainPending(k) PROVE Alive(k)'
      BY <1>3, <3>2 DEF ChainPending, Alive
    <3> QED BY <2>1, <3>1, <3>2 DEF Alive
  <2>2. CASE k # KindOf[j]
    <3>1. ASSUME NEW i \in Jobs, KindOf[i] = k, status[i] \in {"PENDING", "RUNNING"}
          PROVE  Alive(k)'
      BY <1>2, <2>2, <3>1 DEF Alive
    <3>2. ASSUME NEW m \in Loops, loop[m].pc \in {"resched", "reschedInsert"},
                 KindOf[loop[m].job] = k
          PROVE  Alive(k)'
      BY <2>2, <3>2 DEF Alive
    <3> QED BY <1>5, <3>1, <3>2 DEF Alive
  <2> QED BY <2>1, <2>2
<1>6. ASSUME NEW m \in Loops PROVE Succeeded(m)'
  <2>1. CASE m = l
    BY <2>1 DEF Succeeded
  <2>2. CASE m # l
    <3> SUFFICES ASSUME loop[m].pc = "running", Work(m)' = "returned",
                        KindOf[loop[m].job] \in ChainKinds
                 PROVE  ChainPending(KindOf[loop[m].job])'
      BY <2>2 DEF Succeeded
    <3>1. Work(m)' = Work(m)
      BY <1>1, <2>2, OtherWork, ForgetsOwn
    <3>2. ChainPending(KindOf[loop[m].job])
      BY <3>1 DEF Chain, Succeeded
    <3>3. PICK k : k = KindOf[loop[m].job]
      OBVIOUS
    <3> QED BY <1>3, <2>2, <3>2, <3>3 DEF ChainPending
  <2> QED BY <2>1, <2>2
<1> QED BY <1>1, <1>4, <1>5, <1>6 DEF Chain, Swept, Visited, AllAlive

LEMMA LoopStepKeepsChain ==
  ASSUME IInv, OwnLanes, StartupFirst, Chain, NEW l \in Loops, LoopStep(l)
  PROVE  Chain'
<1> DEFINE j == loop[l].job
<1>1. CASE Claim(l)
  <2>1. \/ EndDrain(l)
        \/ ClaimUpdate(j) /\ Goto(l, "running")
    BY <1>1 DEF Claim
  <2> QED BY <1>1, <2>1, PlainLoopKeepsChain, ClaimKeepsChain
<1>2. CASE Complete(l)
  <2>1. /\ loop[l].pc = "running" /\ Work(l) = "returned"
        /\ status' = [status EXCEPT ![j] = "DONE"] /\ NextInDrain(l) /\ Forget(l)
        /\ UNCHANGED <<attempts, boot>>
    BY <1>2 DEF Complete, CompleteJob, LoopAt
  <2>2. loop'[l].pc = "ready" /\ \A m \in Loops : m # l => loop'[m] = loop[m]
    BY <2>1, NextInDrainTyped DEF Busy
  <2>3. KindOf[j] \in ChainKinds => ChainPending(KindOf[j])
    BY <2>1 DEF Chain, Succeeded
  <2> QED BY <2>1, <2>2, <2>3, DecisionKeepsChain DEF Held, Status
<1>3. CASE Fail(l)
  <2> DEFINE x == IF attempts[j] < MaxAttempts THEN "PENDING" ELSE "FAILED"
  <2>1. /\ j \in Jobs /\ status' = [status EXCEPT ![j] = x] /\ attempts' = attempts
    BY <1>3, FailDecides
  <2>2. /\ loop[l].pc = "fail" /\ boot' = boot /\ exec' = exec
        /\ IF KindOf[j] \in ChainKinds THEN Goto(l, "resched") ELSE NextInDrain(l)
    BY <1>3 DEF Fail, LoopAt
  <2>3. /\ loop'[l].pc \in {"ready", "resched"}
        /\ KindOf[j] \in ChainKinds => loop'[l].pc = "resched" /\ loop'[l].job = j
        /\ \A m \in Loops : m # l => loop'[m] = loop[m]
    <3>1. CASE KindOf[j] \in ChainKinds
      <4>1. /\ loop'[l] = [loop[l] EXCEPT !.pc = "resched"]
            /\ \A m \in Loops : m # l => loop'[m] = loop[m]
        BY <2>2, <3>1, GotoTyped DEF LoopPc
      <4> QED BY <4>1, LoopTyped DEF LoopType
    <3>2. CASE KindOf[j] \notin ChainKinds
      BY <2>2, <3>2, NextInDrainTyped DEF Busy
    <3> QED BY <3>1, <3>2
  <2>4. x \in Status /\ x # "RUNNING"
    BY DEF Status
  <2> QED BY <2>1, <2>2, <2>3, <2>4, DecisionKeepsChain DEF Held
<1>4. CASE ReschedInsert(l)
  <2>1. /\ loop[l].pc = "reschedInsert" /\ NextInDrain(l) /\ loop[l].now \in Nat
        /\ boot' = boot /\ exec' = exec
    BY <1>4 DEF ReschedInsert, LoopAt, IInv, TypeOK
  <2>2. PICK k : k = KindOf[j]
    OBVIOUS
  <2>3. /\ boot.pc = "up" /\ Enqueue(k, NextRun(loop[l].now)) /\ NextRun(loop[l].now) \in Nat
    BY <1>4, <2>1, <2>2, AtWork, NextRunType DEF ReschedInsert, ScheduleNext
  <2>4. /\ ChainPending(k)'
        /\ \A i \in Jobs : status[i] # "NONE" => status'[i] = status[i]
        /\ \A i \in Jobs : status'[i] = "RUNNING" => status[i] = "RUNNING"
        /\ attempts' = attempts
    BY <2>3, EnqueueWaits DEF IInv
  <2>5. loop'[l].pc = "ready" /\ \A m \in Loops : m # l => loop'[m] = loop[m]
    BY <2>1, NextInDrainTyped DEF Busy
  <2>6. RunsAreHeld'
    BY <2>1, <2>3, <2>4, <2>5 DEF Chain, RunsAreHeld, IsHeld, Held
  <2>7. ASSUME NEW c \in ChainKinds, Alive(c) PROVE Alive(c)'
    <3>1. CASE c = k
      BY <2>4, <3>1 DEF ChainPending, Alive
    <3>2. ASSUME NEW i \in Jobs, KindOf[i] = c, status[i] \in {"PENDING", "RUNNING"}
          PROVE  Alive(c)'
      BY <2>4, <3>2 DEF Alive
    <3>3. ASSUME c # k, NEW m \in Loops, loop[m].pc \in {"resched", "reschedInsert"},
                 KindOf[loop[m].job] = c
          PROVE  Alive(c)'
      <4>1. m # l
        BY <2>2, <3>3
      <4> QED BY <2>5, <3>3, <4>1 DEF Alive
    <3> QED BY <2>7, <3>1, <3>2, <3>3 DEF Alive
  <2>8. ASSUME NEW m \in Loops PROVE Succeeded(m)'
    <3>1. \A c : ChainPending(c) => ChainPending(c)'
      BY <2>4 DEF ChainPending
    <3>2. PICK c : c = KindOf[loop[m].job]
      OBVIOUS
    <3>3. CASE m = l
      BY <2>5, <3>3 DEF Succeeded
    <3>4. CASE m # l
      BY <2>1, <2>5, <3>1, <3>2, <3>4 DEF Chain, Succeeded, Work, ChainPending
    <3> QED BY <3>3, <3>4
  <2> QED BY <2>1, <2>3, <2>6, <2>7, <2>8 DEF Chain, Swept, Visited, AllAlive
<1>5. CASE TickStarts(l) \/ FindCandidate(l) \/ WorkThrew(l) \/ TimedOut(l) \/ Resched(l)
  BY <1>5, PlainLoopKeepsChain
<1> QED BY <1>1, <1>2, <1>3, <1>4, <1>5 DEF LoopStep

-----------------------------------------------------------------------------
(* The work of a job, and the environment *)

\* The work of a chain job returns only with a successor in the table.
LEMMA WorkMoves ==
  ASSUME IInv, NEW j \in Jobs, NEW a \in Attempts, NEW pc, MoveTo(j, a, pc), loop' = loop,
         pc = "returned" /\ KindOf[j] \in ChainKinds => ChainPending(KindOf[j])',
         NEW l \in Loops, Work(l)' = "returned", KindOf[loop[l].job] \in ChainKinds
  PROVE  Work(l) = "returned" \/ ChainPending(KindOf[loop[l].job])'
<1>1. loop[l].job \in Jobs /\ loop[l].attempt \in Attempts
  BY DEF IInv, TypeOK
<1>2. CASE loop[l].job = j /\ loop[l].attempt = a
  <2>1. pc = "returned"
    BY <1>1, <1>2 DEF MoveTo, Work, IInv, TypeOK
  <2> QED BY <1>2, <2>1 DEF ChainPending
<1>3. CASE ~(loop[l].job = j /\ loop[l].attempt = a)
  BY <1>1, <1>3 DEF MoveTo, Work, IInv, TypeOK
<1> QED BY <1>2, <1>3

LEMMA ExecKeepsChain ==
  ASSUME IInv, Chain, NEW j \in Jobs, NEW a \in Attempts, ExecStep(j, a)
  PROVE  Chain'
<1>1. CASE EnsureInsert(j, a)
  <2>1. /\ workNow[j][a] \in Nat /\ MoveTo(j, a, "returned") /\ boot' = boot /\ loop' = loop
    BY <1>1 DEF EnsureInsert, IInv, TypeOK
  <2>2. PICK k : k = KindOf[j]
    OBVIOUS
  <2>3. Enqueue(k, NextRun(workNow[j][a])) /\ NextRun(workNow[j][a]) \in Nat
    BY <1>1, <2>1, <2>2, NextRunType DEF EnsureInsert, ScheduleNext
  <2>4. /\ ChainPending(k)'
        /\ \A i \in Jobs : status[i] # "NONE" => status'[i] = status[i]
        /\ \A i \in Jobs : status'[i] = "RUNNING" => status[i] = "RUNNING"
        /\ attempts' = attempts
    BY <2>3, EnqueueWaits DEF IInv
  <2>5. ChainPending(KindOf[j])'
    BY <2>2, <2>4 DEF ChainPending
  <2> QED BY <2>1, <2>4, <2>5, WorkMoves, QuietKeepsChain
<1>2. CASE Act(j, a) \/ EnsureCheck(j, a) \/ Throw(j, a)
  <2>1. /\ UNCHANGED <<status, attempts, boot, loop>>
    BY <1>2 DEF Act, EnsureCheck, Throw, table
  <2>2. PICK pc : /\ MoveTo(j, a, pc)
                  /\ pc = "returned" /\ KindOf[j] \in ChainKinds => ChainPending(KindOf[j])
    BY <1>2 DEF Act, EnsureCheck, Throw
  <2>3. pc = "returned" /\ KindOf[j] \in ChainKinds => ChainPending(KindOf[j])'
    BY <2>1, <2>2 DEF ChainPending
  <2> QED BY <2>1, <2>2, <2>3, WorkMoves, QuietKeepsChain
<1> QED BY <1>1, <1>2 DEF ExecStep

LEMMA EnvironmentKeepsChain ==
  ASSUME IInv, Chain, ServiceEnqueues \/ Tick \/ Crash \/ UNCHANGED vars
  PROVE  Chain'
<1>1. CASE ServiceEnqueues
  <2>1. /\ clock \in Nat /\ UNCHANGED <<boot, loop, exec>>
    BY <1>1, QueueAssumption DEF ServiceEnqueues, IInv, TypeOK
  <2>2. PICK k \in Kinds : Enqueue(k, clock)
    BY <1>1 DEF ServiceEnqueues
  <2>3. /\ \A i \in Jobs : status[i] # "NONE" => status'[i] = status[i]
        /\ \A i \in Jobs : status'[i] = "RUNNING" => status[i] = "RUNNING"
        /\ attempts' = attempts
    BY <2>1, <2>2, EnqueueWaits DEF IInv
  <2>4. \A l \in Loops : Work(l)' = Work(l)
    BY <2>1 DEF Work
  <2> QED BY <2>1, <2>3, <2>4, QuietKeepsChain
<1>2. CASE Tick \/ UNCHANGED vars
  <2>1. UNCHANGED <<status, attempts, boot, loop, exec>>
    BY <1>2 DEF Tick, table, vars
  <2>2. \A l \in Loops : Work(l)' = Work(l)
    BY <2>1 DEF Work
  <2> QED BY <2>1, <2>2, QuietKeepsChain
<1>3. CASE Crash
  <2>1. boot'.pc = "down" /\ \A l \in Loops : loop'[l].pc = "idle"
    BY <1>3 DEF Crash, NoLoop
  <2> QED BY <2>1 DEF Chain, Swept, RunsAreHeld, Visited, AllAlive, Succeeded
<1> QED BY <1>1, <1>2, <1>3

\* While no query of the worker itself has failed.
SoundSoFar == dbErrors = 0 => Chain

LEMMA StepKeepsChain ==
  ASSUME IInv, OwnLanes, StartupFirst, SoundSoFar, [Next]_vars PROVE SoundSoFar'
<1>0. dbErrors \in Nat
  BY QueueAssumption DEF IInv, TypeOK
<1>1. CASE BootError \/ \E l \in Loops : CompleteError(l) \/ LoopError(l) \/ ReschedError(l)
  <2>1. dbErrors' # 0
    BY <1>0, <1>1 DEF BootError, CompleteError, LoopError, ReschedError
  <2> QED BY <2>1 DEF SoundSoFar
<1>2. CASE \/ BootStep \/ (\E l \in Loops : LoopStep(l))
           \/ (\E j \in Jobs, a \in Attempts : ExecStep(j, a))
           \/ ServiceEnqueues \/ Tick \/ Crash \/ UNCHANGED vars
  <2> SUFFICES ASSUME dbErrors' = 0 PROVE Chain'
    BY DEF SoundSoFar
  <2>1. dbErrors' = dbErrors
    <3>1. CASE BootStep
      BY <3>1 DEF BootStep, Boot, BootReclaim, BootGiveUp, BootCheck, BootInsert
    <3>2. ASSUME NEW l \in Loops, LoopStep(l) PROVE dbErrors' = dbErrors
      <4>1. FindCandidate(l) => UNCHANGED <<table, acted, marked, boot, exec, workNow,
                                            clock, crashes, dbErrors>>
        BY Zenon DEF FindCandidate
      <4>2. ~ FindCandidate(l) => dbErrors' = dbErrors
        BY <3>2 DEF LoopStep, TickStarts, Claim, Complete, WorkThrew, TimedOut, Fail,
                    Resched, ReschedInsert
      <4> QED BY <4>1, <4>2
    <3>3. CASE \E j \in Jobs, a \in Attempts : ExecStep(j, a)
      BY <3>3 DEF ExecStep, Act, EnsureCheck, EnsureInsert, Throw
    <3>4. CASE ServiceEnqueues \/ Tick \/ Crash \/ UNCHANGED vars
      BY <3>4 DEF ServiceEnqueues, Tick, Crash, vars
    <3> QED BY <1>2, <3>1, <3>2, <3>3, <3>4
  <2>2. Chain
    BY <2>1 DEF SoundSoFar
  <2> QED BY <1>2, <2>2, BootKeepsChain, LoopStepKeepsChain, ExecKeepsChain,
             EnvironmentKeepsChain
<1> QED BY <1>1, <1>2 DEF Next

LEMMA SoundAlways ==
  ASSUME OwnLanes, StartupFirst PROVE Spec => []SoundSoFar
<1>1. Init => SoundSoFar
  BY InitChain DEF SoundSoFar
<1>2. IInv /\ SoundSoFar /\ [Next]_vars => SoundSoFar'
  BY StepKeepsChain
<1> QED BY Invariance, <1>1, <1>2, PTL DEF Spec

\* A row runs only while a loop answers for it: neither a time-out, nor an
\* exception, nor a restart strands one, however many loops, rows and attempts
\* there are.
THEOREM RunningIsHeldAlways ==
  ASSUME OwnLanes, StartupFirst PROVE Spec => []RunningIsHeld
<1>1. SoundSoFar => RunningIsHeld
  BY DEF SoundSoFar, Chain, RunsAreHeld, IsHeld, RunningIsHeld, Booted
<1> QED BY SoundAlways, <1>1, PTL

\* No self-scheduling type dies out: through restarts, time-outs, failures for
\* good and late work there is always a row or a loop about to insert one.
THEOREM ChainAliveAlways ==
  ASSUME OwnLanes, StartupFirst PROVE Spec => []ChainAlive
<1>1. SoundSoFar => ChainAlive
  BY DEF SoundSoFar, Chain, AllAlive, Alive, ChainAlive, Booted
<1> QED BY SoundAlways, <1>1, PTL
=============================================================================
