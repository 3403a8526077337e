----------------------------- MODULE MCJobQueue -----------------------------
(* Instances of JobQueue small enough for TLC. *)
EXTENDS JobQueue, TLC

\* Notifications (n), an answer by mail (m), the runs of the escalation (e).
MCKindOf == "n1" :> "notify" @@ "n2" :> "notify" @@ "m1" :> "emailReply"
            @@ "e1" :> "escalate" @@ "e2" :> "escalate"
            @@ "e3" :> "escalate" @@ "e4" :> "escalate"
WorkerKindOf == [j \in {"n1", "e1", "e2", "e3", "e4"} |-> MCKindOf[j]]
LanesKindOf  == [j \in {"n1", "m1"} |-> MCKindOf[j]]

\* The loops startWorker starts.
GeneralLane == "general" :> "general"
BothLanes   == "general" :> "general" @@ "mail" :> "mail"

TwoDelays    == <<1, 1>>
Delays       == <<1, 1, 1>>
EscalateOnly == <<"escalate">>
NoChain      == <<>>
=============================================================================
