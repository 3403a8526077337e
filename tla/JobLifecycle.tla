---------------------------- MODULE JobLifecycle ----------------------------
(***************************************************************************)
(* What the job table promises to the rest of the system, whatever the     *)
(* worker, the crashes and the clock do: a job is run at most MaxAttempts  *)
(* times, it is put back only while attempts are left, it is given up only *)
(* when none is, and a job that reached DONE or FAILED never moves again.  *)
(***************************************************************************)
EXTENDS Naturals

CONSTANTS Jobs,          \* identifiers of rows of the Job table
          MaxAttempts    \* MAX_ATTEMPTS

VARIABLES status, attempts

Status == {"NONE", "PENDING", "RUNNING", "DONE", "FAILED"}

Init == /\ status = [j \in Jobs |-> "NONE"]
        /\ attempts = [j \in Jobs |-> 0]

\* enqueue: a row is born PENDING with no attempt made.
Create(j) == /\ status[j] = "NONE"
             /\ status' = [status EXCEPT ![j] = "PENDING"]
             /\ UNCHANGED attempts

\* A run starts: it is counted before anything else happens.
Start(j) == /\ status[j] = "PENDING"
            /\ attempts[j] < MaxAttempts
            /\ status' = [status EXCEPT ![j] = "RUNNING"]
            /\ attempts' = [attempts EXCEPT ![j] = @ + 1]

Finish(j) == /\ status[j] = "RUNNING"
             /\ status' = [status EXCEPT ![j] = "DONE"]
             /\ UNCHANGED attempts

\* Some runs are put back and some given up, in one sweep after a restart or
\* one at a time after a failure; which of the two is decided by the count.
PutBackOrGiveUp(S) ==
  /\ S # {}
  /\ \A j \in S : status[j] = "RUNNING"
  /\ status' = [j \in Jobs |-> IF j \notin S THEN status[j]
                               ELSE IF attempts[j] < MaxAttempts
                               THEN "PENDING" ELSE "FAILED"]
  /\ UNCHANGED attempts

Next == \/ \E j \in Jobs : Create(j) \/ Start(j) \/ Finish(j)
        \/ \E S \in SUBSET Jobs : PutBackOrGiveUp(S)

Spec == Init /\ [][Next]_<<status, attempts>>
=============================================================================
