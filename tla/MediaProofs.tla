----------------------------- MODULE MediaProofs -----------------------------
(* Proofs about Media, for any files, tickets, confirmations and jobs.       *)
EXTENDS Media, FiniteSetTheorems, TLAPS

(***************************************************************************)
(* The inductive invariant, in four layers; each rests on those before it. *)
(***************************************************************************)

\* A job that waits has an attempt left; only a free row is without a file.
QueueOK ==
  \A j \in Jobs :
    /\ job[j].status = "free" <=> job[j].file = None
    /\ job[j].status = "PENDING" => job[j].attempts < MaxAttempts
    /\ job[j].status = "RUNNING" => job[j].attempts \in Attempts

\* A confirmation in progress has a file, and so has a job with a handler.
Linked ==
  /\ \A q \in Requests : request[q].pc # "idle" => request[q].file # None
  /\ \A j \in Jobs, a \in Attempts : run[j][a].pc # "off" => job[j].file # None

Typed == TypeOK /\ QueueOK /\ Linked

\* The row of a file that is there and uploaded has its bytes, and a confirmation
\* knows what it saw, because nothing puts other bytes under the key of a row.
Bytes ==
  /\ \A f \in Files :
       /\ row[f].at # None => row[f].uploaded
       /\ row[f].uploaded => row[f].here # "no"
       /\ Here(f) /\ row[f].uploaded => stored[f] = "good"
  /\ \A q \in Requests :
       request[q].pc # "idle" =>
         /\ row[request[q].file].here # "no"
         /\ request[q].pc = "mark" => stored[request[q].file] = "good"
         /\ request[q].pc \in {"remove", "drop"} =>
              stored[request[q].file] \in {"huge", "removed"}

\* A job has an uploaded file; unless confirmations raced, whoever confirms a
\* file does it alone, before there is a job for it, and there is one job.
Paid ==
  /\ \A j \in Jobs : job[j].file # None => row[job[j].file].uploaded
  /\ \A q \in Requests :
       request[q].pc # "idle" /\ request[q].file \notin raced =>
         /\ ~row[request[q].file].uploaded
         /\ \A o \in Requests :
              request[o].pc # "idle" /\ request[o].file = request[q].file => o = q
  /\ \A i, j \in Jobs :
       job[i].file = job[j].file /\ job[i].file \notin raced => job[i].file = None \/ i = j

\* Outside the gaps, a handler is the current attempt of the job that runs, and
\* what it knows when it is about to end is true.
Knows(j, a) ==
  LET f == job[j].file IN
  /\ job[j].status = "RUNNING" /\ job[j].attempts = a
  /\ run[j][a].pc = "skip" => row[f].kind \notin Engines
  /\ run[j][a].pc \in {"begin", "save"} => row[f].kind \in Engines
  /\ run[j][a].pc \in {"look", "fill", "returned"} => ~Waiting(f)
  /\ run[j][a].pc = "threw" /\ IsLast(a) => ~Waiting(f)
  /\ run[j][a].pc = "fill" => run[j][a].place # None /\ row[f].at = run[j][a].place
  /\ run[j][a].pc = "returned" => f \notin owed

OneRuns ==
  \A i, j \in Jobs : job[i].status = "RUNNING" /\ job[j].status = "RUNNING" => i = j

HandlersKnow ==
  \A j \in Jobs, a \in Attempts :
    run[j][a].pc # "off" => job[j].file \in excused \/ Knows(j, a)

OwedHasPlace ==
  \A f \in owed : /\ Here(f) /\ row[f].at \in Tickets
                  /\ f \notin excused => row[f].kind \in Engines

Served == OneRuns /\ HandlersKnow /\ OwedHasPlace /\ WaitingIsServed /\ WordsArrive

IInv == Typed /\ Bytes /\ Paid /\ Served

-----------------------------------------------------------------------------
(* Type correctness. *)

RowType     == [here : {"no", "yes", "gone"}, kind : Kinds, channel : BOOLEAN,
                uploaded : BOOLEAN, at : Places \cup {None}, ai : AiStatus, text : BOOLEAN]
RequestType == [pc : RequestPc, file : Files \cup {None}]
JobType     == [status : JobStatus, file : Files \cup {None}, attempts : 0 .. MaxAttempts]
HandlerType == [pc : RunPc, place : Tickets \cup {None}]
TicketType  == [state : {"none", "draft", "open", "gone"}, text : {"none", "typed", "heard"}]

LEMMA TypedInit == Init => Typed
<1> SUFFICES ASSUME Init PROVE Typed
  OBVIOUS
<1>1. row \in [Files -> RowType] /\ stored \in [Files -> Contents]
  BY DEF Init, Absent, RowType, Kinds, AiStatus, Contents
<1>2. request \in [Requests -> RequestType]
  BY DEF Init, Idle, RequestType, RequestPc
<1>3. job \in [Jobs -> JobType] /\ QueueOK
  BY MediaAssumption DEF Init, FreeJob, JobType, JobStatus, QueueOK
<1>4. run \in [Jobs -> [Attempts -> HandlerType]]
  <2>1. Off \in HandlerType
    BY DEF Off, HandlerType, RunPc
  <2> QED
    BY <2>1 DEF Init
<1>5. ticket \in [Tickets -> TicketType]
  BY DEF Init, TicketType
<1>6. owed \subseteq Files /\ raced \subseteq Files /\ excused \subseteq Files
      /\ faults \in 0 .. MaxFaults
  BY MediaAssumption DEF Init
<1>7. Linked
  BY DEF Init, Linked, Idle, Off
<1> QED
  BY <1>1, <1>2, <1>3, <1>4, <1>5, <1>6, <1>7
     DEF Typed, TypeOK, RowType, RequestType, JobType, HandlerType, TicketType

\* The parts of the state in which a type can be disturbed.
LEMMA TypeParts ==
  /\ TypeOK <=> /\ row \in [Files -> RowType] /\ stored \in [Files -> Contents]
                /\ request \in [Requests -> RequestType]
                /\ job \in [Jobs -> JobType]
                /\ run \in [Jobs -> [Attempts -> HandlerType]]
                /\ ticket \in [Tickets -> TicketType]
                /\ owed \subseteq Files /\ raced \subseteq Files /\ excused \subseteq Files
                /\ faults \in 0 .. MaxFaults
  /\ TypeOK' <=> /\ row' \in [Files -> RowType] /\ stored' \in [Files -> Contents]
                 /\ request' \in [Requests -> RequestType]
                 /\ job' \in [Jobs -> JobType]
                 /\ run' \in [Jobs -> [Attempts -> HandlerType]]
                 /\ ticket' \in [Tickets -> TicketType]
                 /\ owed' \subseteq Files /\ raced' \subseteq Files /\ excused' \subseteq Files
                 /\ faults' \in 0 .. MaxFaults
  BY DEF TypeOK, RowType, RequestType, JobType, HandlerType, TicketType

LEMMA Enqueues ==
  ASSUME Typed, NEW f \in Files, NEW kind, EnqueueFor(f, kind)
  PROVE  /\ job' \in [Jobs -> JobType] /\ QueueOK'
         /\ \A j \in Jobs : job[j].file # None => job'[j] = job[j]
         /\ kind # "video" =>
              \E j \in Jobs : /\ job[j].file = None
                             /\ job'[j].file = f /\ job'[j].status = "PENDING"
                             /\ \A i \in Jobs : i # j => job'[i] = job[i]
<1>t. job \in [Jobs -> JobType] /\ QueueOK
  BY TypeParts DEF Typed
<1>1. CASE kind = "video"
  BY <1>t, <1>1 DEF EnqueueFor, QueueOK
<1>2. CASE kind # "video"
  <2> PICK j \in Jobs :
        /\ job[j].status = "free"
        /\ job' = [job EXCEPT ![j] = [status |-> "PENDING", file |-> f, attempts |-> 0]]
    BY <1>2 DEF EnqueueFor
  <2>1. [status |-> "PENDING", file |-> f, attempts |-> 0] \in JobType
    BY MediaAssumption DEF JobType, JobStatus
  <2>2. f # None /\ 0 < MaxAttempts
    BY MediaAssumption
  <2> QED
    BY <1>t, <2>1, <2>2 DEF QueueOK
<1> QED
  BY <1>1, <1>2

LEMMA GivesUp ==
  ASSUME NEW a \in Attempts
  PROVE  /\ AfterFailure(a) \in {"PENDING", "FAILED"}
         /\ AfterFailure(a) = "PENDING" <=> a < MaxAttempts
         /\ IsLast(a) <=> AfterFailure(a) = "FAILED"
  BY MediaAssumption DEF AfterFailure, IsLast, Attempts

LEMMA Attaches ==
  ASSUME TypeOK, NEW S, NEW place \in Places, Attach(S, place)
  PROVE  row' \in [Files -> RowType]
<1>1. row \in [Files -> RowType]
  BY TypeParts
<1>2. \A f \in Files : [row[f] EXCEPT !.at = place] \in RowType
  BY <1>1 DEF RowType
<1> QED
  BY <1>1, <1>2 DEF Attach

LEMMA Going ==
  ASSUME Typed, NEW j \in Jobs, NEW a \in Attempts, NEW pc \in RunPc, Goes(j, a, pc),
         run[j][a].pc # "off", request' = request,
         \A i \in Jobs : job[i].file # None => job'[i].file # None
  PROVE  run' \in [Jobs -> [Attempts -> HandlerType]] /\ Linked'
<1>1. run \in [Jobs -> [Attempts -> HandlerType]]
  BY TypeParts DEF Typed
<1> QED
  BY <1>1 DEF Goes, HandlerType, Typed, Linked

LEMMA Proceeding ==
  ASSUME Typed, NEW q \in Requests, NEW pc \in RequestPc, Proceeds(q, pc),
         request[q].pc # "idle", run' = run,
         \A i \in Jobs : job[i].file # None => job'[i].file # None
  PROVE  request' \in [Requests -> RequestType] /\ Linked'
<1>1. request \in [Requests -> RequestType]
  BY TypeParts DEF Typed
<1> QED
  BY <1>1 DEF Proceeds, RequestType, RequestPc, Idle, Typed, Linked

\* A step that leaves the queue, the confirmations and the handlers alone.
LEMMA Elsewhere ==
  ASSUME Typed, job' = job, request' = request, run' = run
  PROVE  QueueOK' /\ Linked' /\ job' \in [Jobs -> JobType]
         /\ request' \in [Requests -> RequestType]
         /\ run' \in [Jobs -> [Attempts -> HandlerType]]
  BY TypeParts DEF Typed, QueueOK, Linked

LEMMA TypedBrowser == Typed /\ Browser => Typed'
<1> SUFFICES ASSUME Typed, Browser PROVE Typed'
  OBVIOUS
<1>t. TypeOK /\ QueueOK
  BY DEF Typed
<1>1. ASSUME NEW f \in Files, NEW kind \in Kinds, Register(f, kind) PROVE Typed'
  <2>1. row' \in [Files -> RowType]
    BY <1>1, <1>t, TypeParts DEF Register, Absent, RowType, Kinds, AiStatus
  <2> QED
    BY <1>1, <1>t, <2>1, TypeParts, Elsewhere DEF Register, work, ghosts, Typed
<1>2. ASSUME NEW f \in Files, NEW size \in {"empty", "good", "huge"}, Put(f, size) PROVE Typed'
  <2>1. stored' \in [Files -> Contents]
    BY <1>2, <1>t, TypeParts DEF Put, Contents
  <2> QED
    BY <1>2, <1>t, <2>1, TypeParts, Elsewhere DEF Put, work, ghosts, Typed
<1>3. ASSUME NEW f \in Files, NEW q \in Requests, ConfirmReads(q, f) PROVE Typed'
  <2>1. request' \in [Requests -> RequestType]
    BY <1>3, <1>t, TypeParts DEF ConfirmReads, RequestType, RequestPc
  <2>2. Linked'
    BY <1>3, <1>t, TypeParts, MediaAssumption DEF ConfirmReads, RequestType, Typed, Linked, work
  <2>3. raced' \subseteq Files /\ QueueOK'
    BY <1>3, <1>t DEF ConfirmReads, TypeOK, QueueOK, work
  <2> QED
    BY <1>3, <1>t, <2>1, <2>2, <2>3, TypeParts DEF ConfirmReads, work, Typed
<1>4. ASSUME NEW q \in Requests, ConfirmHeads(q) PROVE Typed'
  <2>1. AfterHead(stored[request[q].file]) \in RequestPc
    BY DEF AfterHead, RequestPc
  <2>2. QueueOK'
    BY <1>4, <1>t DEF ConfirmHeads, QueueOK, work
  <2> QED
    BY <1>4, <1>t, <2>1, <2>2, TypeParts, Proceeding DEF ConfirmHeads, work, ghosts, Typed
<1>5. ASSUME NEW q \in Requests, ConfirmRemoves(q) PROVE Typed'
  <2>1. stored' \in [Files -> Contents]
    BY <1>5, <1>t, TypeParts DEF ConfirmRemoves, Contents
  <2>2. QueueOK' /\ "drop" \in RequestPc
    BY <1>5, <1>t DEF ConfirmRemoves, QueueOK, work, RequestPc
  <2> QED
    BY <1>5, <1>t, <2>1, <2>2, TypeParts, Proceeding DEF ConfirmRemoves, work, ghosts, Typed
<1>6. ASSUME NEW q \in Requests, ConfirmDrops(q) PROVE Typed'
  <2>1. row' \in [Files -> RowType]
    BY <1>6, <1>t, TypeParts DEF ConfirmDrops, RowType
  <2>2. QueueOK' /\ "idle" \in RequestPc
    BY <1>6, <1>t DEF ConfirmDrops, QueueOK, work, RequestPc
  <2> QED
    BY <1>6, <1>t, <2>1, <2>2, TypeParts, Proceeding DEF ConfirmDrops, work, ghosts, Typed
<1>7. ASSUME NEW q \in Requests, ConfirmMarks(q) PROVE Typed'
  <2>1. request[q].file \in Files
    BY <1>7, <1>t, TypeParts DEF ConfirmMarks, RequestType, Typed, Linked
  <2>2. row' \in [Files -> RowType]
    <3>1. row \in [Files -> RowType]
      BY <1>t, TypeParts
    <3>2. AiOf(row[request[q].file].kind, row[request[q].file].ai) \in AiStatus
      BY <2>1, <3>1 DEF RowType, AiOf, AiStatus
    <3> DEFINE marked == [row[request[q].file] EXCEPT !.uploaded = TRUE,
                            !.ai = AiOf(row[request[q].file].kind, row[request[q].file].ai)]
    <3>3. marked \in RowType
      BY <2>1, <3>1, <3>2 DEF RowType
    <3>4. row' = row \/ row' = [row EXCEPT ![request[q].file] = marked]
      BY <1>7 DEF ConfirmMarks
    <3> QED
      BY <3>1, <3>3, <3>4
  <2>3. /\ job' \in [Jobs -> JobType] /\ QueueOK'
        /\ \A i \in Jobs : job[i].file # None => job'[i].file # None
    <3>1. CASE EnqueueFor(request[q].file, row[request[q].file].kind)
      BY <3>1, <2>1, Enqueues
    <3>2. CASE UNCHANGED job
      BY <3>2, <1>t, TypeParts DEF QueueOK
    <3> QED
      BY <1>7, <3>1, <3>2 DEF ConfirmMarks
  <2>4. "idle" \in RequestPc
    BY DEF RequestPc
  <2> QED
    BY <1>7, <1>t, <2>2, <2>3, <2>4, TypeParts, Proceeding DEF ConfirmMarks, work, ghosts, Typed
<1> QED
  BY <1>1, <1>2, <1>3, <1>4, <1>5, <1>6, <1>7 DEF Browser

LEMMA TypedChannel == Typed /\ Channel => Typed'
<1> SUFFICES ASSUME Typed, Channel PROVE Typed'
  OBVIOUS
<1>t. TypeOK /\ QueueOK
  BY DEF Typed
<1>1. ASSUME NEW f \in Files, NEW t \in Tickets, NEW kind \in Kinds, NEW transcribed \in BOOLEAN,
             NEW text \in {"none", "typed"}, Arrive(f, t, kind, transcribed, text)
      PROVE Typed'
  <2>1. row' \in [Files -> RowType]
    <3>1. row \in [Files -> RowType] /\ AiOf(kind, "PENDING") \in AiStatus /\ t \in Places
      BY <1>t, TypeParts DEF AiOf, AiStatus, Places
    <3> QED
      BY <1>1, <3>1 DEF Arrive, RowType, AiStatus
  <2>2. stored' \in [Files -> Contents]
    BY <1>1, <1>t, TypeParts DEF Arrive, Contents
  <2>3. ticket' \in [Tickets -> TicketType]
    BY <1>1, <1>t, TypeParts DEF Arrive, TicketType
  <2>4. /\ job' \in [Jobs -> JobType] /\ QueueOK'
        /\ \A i \in Jobs : job[i].file # None => job'[i].file # None
    <3>1. CASE EnqueueFor(f, kind)
      BY <3>1, Enqueues
    <3>2. CASE UNCHANGED job
      BY <3>2, <1>t, TypeParts DEF QueueOK
    <3> QED
      BY <1>1, <3>1, <3>2 DEF Arrive
  <2>5. Linked' /\ owed' \subseteq Files
    BY <1>1, <1>t, <2>4 DEF Arrive, Typed, Linked, TypeOK
  <2> QED
    BY <1>1, <1>t, <2>1, <2>2, <2>3, <2>4, <2>5, TypeParts DEF Arrive, Typed
<1>2. ASSUME NEW f \in Files, RemoveDraftMedia(f) PROVE Typed'
  <2>1. row' \in [Files -> RowType]
    BY <1>2, <1>t, TypeParts DEF RemoveDraftMedia, RowType
  <2> QED
    BY <1>2, <1>t, <2>1, TypeParts, Elsewhere DEF RemoveDraftMedia, work, Typed
<1> QED
  BY <1>1, <1>2 DEF Channel

LEMMA TypedService == Typed /\ Service => Typed'
<1> SUFFICES ASSUME Typed, Service PROVE Typed'
  OBVIOUS
<1>t. TypeOK /\ QueueOK
  BY DEF Typed
<1>1. ASSUME NEW t \in Tickets, NEW text \in {"none", "typed"}, NEW state \in {"draft", "open"},
             NEW S \in SUBSET Files, CreateTicket(t, text, state, S)
      PROVE Typed'
  <2>1. row' \in [Files -> RowType]
    BY <1>1, <1>t, Attaches DEF CreateTicket, Places
  <2>2. ticket' \in [Tickets -> TicketType]
    BY <1>1, <1>t, TypeParts DEF CreateTicket, TicketType
  <2> QED
    BY <1>1, <1>t, <2>1, <2>2, TypeParts, Elsewhere DEF CreateTicket, work, ghosts, Typed
<1>2. ASSUME NEW t \in Tickets, NEW text \in {"none", "typed"}, Edit(t, text) PROVE Typed'
  <2>1. ticket' \in [Tickets -> TicketType]
    BY <1>2, <1>t, TypeParts DEF Edit, TicketType
  <2> QED
    BY <1>2, <1>t, <2>1, TypeParts, Elsewhere DEF Edit, work, Typed
<1>3. ASSUME NEW t \in Tickets, Submit(t) PROVE Typed'
  <2>1. ticket' \in [Tickets -> TicketType]
    BY <1>3, <1>t, TypeParts DEF Submit, TicketType
  <2> QED
    BY <1>3, <1>t, <2>1, TypeParts, Elsewhere DEF Submit, work, ghosts, Typed
<1>4. ASSUME NEW t \in Tickets, Delete(t) PROVE Typed'
  <2>1. ticket' \in [Tickets -> TicketType]
    BY <1>4, <1>t, TypeParts DEF Delete, TicketType
  <2>2. row' \in [Files -> RowType]
    <3>1. row \in [Files -> RowType]
      BY <1>t, TypeParts
    <3>2. \A f \in Files : [row[f] EXCEPT !.here = "gone"] \in RowType
      BY <3>1 DEF RowType
    <3> QED
      BY <1>4, <3>1, <3>2 DEF Delete
  <2> QED
    BY <1>4, <1>t, <2>1, <2>2, TypeParts, Elsewhere DEF Delete, work, Typed
<1>5. ASSUME NEW place \in Places, NEW S \in SUBSET Files, AddMessage(place, S) PROVE Typed'
  <2>1. row' \in [Files -> RowType]
    BY <1>5, <1>t, Attaches DEF AddMessage
  <2> QED
    BY <1>5, <1>t, <2>1, TypeParts, Elsewhere DEF AddMessage, work, ghosts, Typed
<1> QED
  BY <1>1, <1>2, <1>3, <1>4, <1>5 DEF Service

LEMMA TypedHandle ==
  ASSUME Typed, NEW j \in Jobs, NEW a \in Attempts, Handle(j, a)
  PROVE  Typed'
<1>t. TypeOK /\ QueueOK
  BY DEF Typed
<1>f. run[j][a].pc # "off" => job[j].file \in Files
  BY <1>t, TypeParts DEF JobType, Typed, Linked
<1>q. job' = job => QueueOK' /\ job' \in [Jobs -> JobType]
  BY <1>t, TypeParts DEF QueueOK
<1>r. row \in [Files -> RowType]
  BY <1>t, TypeParts
<1>1. CASE Loads(j, a)
  <2>1. AfterLoad(job[j].file) \in RunPc
    BY DEF AfterLoad, RunPc
  <2> QED
    BY <1>1, <1>t, <1>q, <2>1, TypeParts, Going DEF Loads, ghosts, Typed
<1>2. CASE Skips(j, a)
  <2>1. row' \in [Files -> RowType]
    <3>1. [row EXCEPT ![job[j].file].ai = "SKIPPED"] \in [Files -> RowType]
      BY <1>r DEF RowType, AiStatus
    <3> QED
      BY <1>2, <1>r, <3>1 DEF Skips
  <2>2. (IF Here(job[j].file) THEN "returned" ELSE "caught") \in RunPc
    BY DEF RunPc
  <2> QED
    BY <1>2, <1>t, <1>q, <2>1, <2>2, TypeParts, Going DEF Skips, ghosts, Typed
<1>3. CASE Begins(j, a)
  <2>1. row' \in [Files -> RowType] /\ "save" \in RunPc
    BY <1>3, <1>r DEF Begins, RowType, AiStatus, RunPc
  <2> QED
    BY <1>3, <1>t, <1>q, <2>1, TypeParts, Going DEF Begins, ghosts, Typed
<1>4. CASE \E words \in BOOLEAN : Saves(j, a, words)
  <2> PICK words \in BOOLEAN : Saves(j, a, words)
    BY <1>4
  <2>1. row' \in [Files -> RowType]
    <3>1. job[j].file \in Files
      BY <1>f DEF Saves
    <3>2. [row[job[j].file] EXCEPT !.ai = "DONE", !.text = words] \in RowType
      BY <1>r, <3>1 DEF RowType, AiStatus
    <3> QED
      BY <1>r, <3>2 DEF Saves
  <2>2. PICK pc \in {"look", "returned"} : Goes(j, a, pc)
    BY DEF Saves
  <2>3. owed' \subseteq Files /\ pc \in RunPc
    BY <1>t, <1>f, TypeParts DEF Saves, RunPc
  <2> QED
    BY <1>t, <1>q, <2>1, <2>2, <2>3, TypeParts, Going DEF Saves, Typed
<1>5. CASE Looks(j, a)
  <2> DEFINE f == job[j].file
             place == IF Here(f) /\ row[f].at \in Tickets THEN row[f].at ELSE None
             handler == [pc |-> IF place = None THEN "returned" ELSE "fill", place |-> place]
  <2>1. handler \in HandlerType
    BY DEF HandlerType, RunPc
  <2>2. run' \in [Jobs -> [Attempts -> HandlerType]]
    BY <1>5, <1>t, <2>1, TypeParts DEF Looks
  <2>3. Linked'
    BY <1>5, <1>t, <1>f, TypeParts, MediaAssumption DEF Looks, Typed, Linked
  <2> QED
    BY <1>5, <1>t, <1>q, <2>2, <2>3, TypeParts DEF Looks, ghosts, Typed
<1>6. CASE Fills(j, a)
  <2>1. ticket' \in [Tickets -> TicketType] /\ owed' \subseteq Files /\ "returned" \in RunPc
    BY <1>6, <1>t, TypeParts DEF Fills, TicketType, RunPc
  <2> QED
    BY <1>6, <1>t, <1>q, <2>1, TypeParts, Going DEF Fills, Typed
<1>7. CASE Throws(j, a)
  <2>1. "caught" \in RunPc
    BY DEF RunPc
  <2> QED
    BY <1>7, <1>t, <1>q, <2>1, TypeParts, Going DEF Throws, ghosts, Typed
<1>8. CASE Catches(j, a)
  <2>1. row' \in [Files -> RowType] /\ "threw" \in RunPc
    BY <1>8, <1>r DEF Catches, RowType, AiStatus, RunPc
  <2>2. excused' \subseteq Files /\ faults' \in 0 .. MaxFaults
    BY <1>8, <1>t, <1>f, TypeParts, MediaAssumption DEF Catches
  <2>3. run' \in [Jobs -> [Attempts -> HandlerType]] /\ Linked'
    BY <1>8, <1>t, <2>1, Going DEF Catches
  <2> QED
    BY <1>8, <1>t, <1>q, <2>1, <2>2, <2>3, TypeParts DEF Catches, Typed
<1>9. CASE Ends(j, a)
  <2>1. job' \in [Jobs -> JobType] /\ QueueOK'
    BY <1>9, <1>t, TypeParts, MediaAssumption
       DEF Ends, JobType, JobStatus, QueueOK, AfterFailure, Attempts
  <2>2. Off \in HandlerType
    BY DEF Off, HandlerType, RunPc
  <2>3. run' \in [Jobs -> [Attempts -> HandlerType]]
    BY <1>9, <1>t, <2>2, TypeParts DEF Ends
  <2>4. \A i \in Jobs : job'[i].file = job[i].file
    BY <1>9, <1>t, TypeParts DEF Ends, JobType
  <2>5. Linked'
    BY <1>9, <1>t, <2>4, TypeParts DEF Ends, Off, Typed, Linked, Over
  <2> QED
    BY <1>9, <1>t, <2>1, <2>3, <2>5, TypeParts DEF Ends, Typed
<1> QED
  BY <1>1, <1>2, <1>3, <1>4, <1>5, <1>6, <1>7, <1>8, <1>9 DEF Handle

LEMMA TypedNext == Typed /\ [Next]_vars => Typed'
<1> SUFFICES ASSUME Typed, [Next]_vars PROVE Typed'
  OBVIOUS
<1>t. TypeOK /\ QueueOK
  BY DEF Typed
<1>1. CASE Browser \/ Channel \/ Service
  BY <1>1, TypedBrowser, TypedChannel, TypedService
<1>2. ASSUME NEW j \in Jobs, Claim(j) PROVE Typed'
  <2>1. job' \in [Jobs -> JobType] /\ QueueOK'
    BY <1>2, <1>t, TypeParts, MediaAssumption DEF Claim, JobType, JobStatus, QueueOK, Attempts
  <2>2. job[j].attempts + 1 \in Attempts /\ [pc |-> "load", place |-> None] \in HandlerType
    BY <1>2, <1>t, TypeParts, MediaAssumption
       DEF Claim, JobType, QueueOK, Attempts, HandlerType, RunPc
  <2>3. run' \in [Jobs -> [Attempts -> HandlerType]]
    BY <1>2, <1>t, <2>2, TypeParts DEF Claim
  <2>4. \A i \in Jobs : job'[i].file = job[i].file
    BY <1>2, <1>t, TypeParts DEF Claim, JobType
  <2>5. job[j].file # None
    BY <1>2, <1>t DEF Claim, QueueOK
  <2>6. Linked'
    BY <1>2, <1>t, <2>2, <2>4, <2>5, TypeParts DEF Claim, Typed, Linked
  <2> QED
    BY <1>2, <1>t, <2>1, <2>3, <2>6, TypeParts DEF Claim, ghosts, Typed
<1>3. ASSUME NEW j \in Jobs, TimesOut(j) PROVE Typed'
  <2>1. job' \in [Jobs -> JobType] /\ QueueOK'
    <3>1. job \in [Jobs -> JobType] /\ job[j].attempts \in Attempts
      BY <1>3, <1>t, TypeParts DEF TimesOut, QueueOK
    <3>2. job' = [job EXCEPT ![j].status = AfterFailure(job[j].attempts)]
      BY <1>3 DEF TimesOut
    <3>3. job' \in [Jobs -> JobType]
      BY <3>1, <3>2, GivesUp DEF JobType, JobStatus
    <3> QED
      BY <1>3, <1>t, <3>1, <3>2, <3>3, GivesUp DEF TimesOut, JobType, QueueOK
  <2>2. excused' \subseteq Files /\ faults' \in 0 .. MaxFaults
    BY <1>3, <1>t, TypeParts, MediaAssumption DEF TimesOut, JobType, QueueOK
  <2>3. \A i \in Jobs : job'[i].file = job[i].file
    BY <1>3, <1>t, TypeParts DEF TimesOut, JobType
  <2>4. Linked'
    BY <1>3, <2>3 DEF TimesOut, Typed, Linked
  <2> QED
    BY <1>3, <1>t, <2>1, <2>2, <2>4, TypeParts DEF TimesOut, Typed
<1>4. ASSUME NEW j \in Jobs, NEW a \in Attempts, Handle(j, a) PROVE Typed'
  BY <1>4, TypedHandle
<1>5. CASE Crash
  <2>1. job' \in [Jobs -> JobType] /\ QueueOK'
    <3>1. job \in [Jobs -> JobType]
      BY <1>t, TypeParts
    <3>2. job' = [i \in Jobs |-> IF job[i].status = "RUNNING"
                                THEN [job[i] EXCEPT !.status = AfterFailure(job[i].attempts)]
                                ELSE job[i]]
      BY <1>5 DEF Crash
    <3>3. \A i \in Jobs : job[i].status = "RUNNING" => job[i].attempts \in Attempts
      BY <1>t DEF QueueOK
    <3>4. job' \in [Jobs -> JobType]
      BY <3>1, <3>2, <3>3, GivesUp DEF JobType, JobStatus
    <3> QED
      BY <1>t, <3>1, <3>2, <3>3, <3>4, GivesUp DEF JobType, QueueOK
  <2>2. excused' \subseteq Files /\ faults' \in 0 .. MaxFaults
    BY <1>5, <1>t, TypeParts, MediaAssumption DEF Crash, JobType, QueueOK
  <2>3. Off \in HandlerType /\ Idle \in RequestType
    BY DEF Off, HandlerType, RunPc, Idle, RequestType, RequestPc
  <2>4. run' \in [Jobs -> [Attempts -> HandlerType]] /\ request' \in [Requests -> RequestType]
    BY <1>5, <2>3 DEF Crash
  <2>5. Linked'
    BY <1>5 DEF Crash, Linked, Off, Idle
  <2> QED
    BY <1>5, <1>t, <2>1, <2>2, <2>4, <2>5, TypeParts DEF Crash, Typed
<1>6. CASE UNCHANGED vars
  BY <1>6, <1>t, TypeParts, Elsewhere DEF vars, work, ghosts, Typed
<1> QED
  BY <1>1, <1>2, <1>3, <1>4, <1>5, <1>6 DEF Next

LEMMA TypedAlways == Spec => []Typed
  BY TypedInit, TypedNext, PTL DEF Spec

\* Every reachable state is well typed.
THEOREM TypeCorrect == Spec => []TypeOK
<1>1. Typed => TypeOK
  BY DEF Typed
<1> QED
  BY <1>1, TypedAlways, PTL

-----------------------------------------------------------------------------
(* Rows and bytes. *)

\* What every step leaves as it is, except those of a browser and an arrival: a
\* row may go, and a file may join a message, where it has joined none.
RowsKept ==
  /\ stored' = stored /\ raced' = raced
  /\ \A q \in Requests : request'[q].pc # "idle" => request'[q] = request[q]
  /\ \A j \in Jobs : job'[j].file = job[j].file
  /\ \A f \in Files :
       /\ row'[f].uploaded = row[f].uploaded
       /\ row'[f].here = row[f].here \/ (row[f].here # "no" /\ row'[f].here = "gone")
       /\ row'[f].at = row[f].at \/ (row[f].at = None /\ row[f].uploaded)

LEMMA AttachKeeps ==
  ASSUME TypeOK, NEW S, NEW place \in Places, Attach(S, place), NEW f \in Files
  PROVE  /\ row'[f].uploaded = row[f].uploaded /\ row'[f].here = row[f].here
         /\ row'[f].ai = row[f].ai /\ row'[f].text = row[f].text
         /\ row'[f].at = row[f].at \/ (row[f].at = None /\ row[f].uploaded)
  BY TypeParts DEF Attach, Joins, RowType

LEMMA HandleKeeps ==
  ASSUME Typed, NEW j \in Jobs, NEW a \in Attempts, Handle(j, a)
  PROVE  RowsKept
<1>t. row \in [Files -> RowType] /\ job \in [Jobs -> JobType]
  BY TypeParts DEF Typed
<1>1. CASE Loads(j, a) \/ Looks(j, a) \/ Fills(j, a) \/ Throws(j, a)
  BY <1>1 DEF Loads, Looks, Fills, Throws, ghosts, RowsKept
<1>2. CASE Skips(j, a)
  BY <1>2, <1>t DEF Skips, ghosts, RowsKept, RowType
<1>3. CASE Begins(j, a)
  BY <1>3, <1>t DEF Begins, ghosts, RowsKept, RowType
<1>4. CASE \E words \in BOOLEAN : Saves(j, a, words)
  BY <1>4, <1>t DEF Saves, RowsKept, RowType
<1>5. CASE Catches(j, a)
  BY <1>5, <1>t DEF Catches, RowsKept, RowType
<1>6. CASE Ends(j, a)
  BY <1>6, <1>t DEF Ends, RowsKept, JobType
<1> QED
  BY <1>1, <1>2, <1>3, <1>4, <1>5, <1>6 DEF Handle

LEMMA ServiceKeeps == Typed /\ Bytes /\ Service => RowsKept
<1> SUFFICES ASSUME Typed, Bytes, Service PROVE RowsKept
  OBVIOUS
<1>t. TypeOK /\ row \in [Files -> RowType]
  BY TypeParts DEF Typed
<1>1. ASSUME NEW t \in Tickets, NEW text \in {"none", "typed"}, NEW state \in {"draft", "open"},
             NEW S \in SUBSET Files, CreateTicket(t, text, state, S)
      PROVE RowsKept
  BY <1>1, <1>t, AttachKeeps DEF CreateTicket, work, ghosts, RowsKept, Places
<1>2. ASSUME NEW t \in Tickets, NEW text \in {"none", "typed"}, Edit(t, text) PROVE RowsKept
  BY <1>2 DEF Edit, work, RowsKept
<1>3. ASSUME NEW t \in Tickets, Submit(t) PROVE RowsKept
  BY <1>3 DEF Submit, work, ghosts, RowsKept
<1>4. ASSUME NEW t \in Tickets, Delete(t) PROVE RowsKept
  <2>1. t # None
    BY MediaAssumption DEF Places
  <2> QED
    BY <1>4, <1>t, <2>1 DEF Delete, work, RowsKept, Bytes, RowType
<1>5. ASSUME NEW place \in Places, NEW S \in SUBSET Files, AddMessage(place, S) PROVE RowsKept
  BY <1>5, <1>t, AttachKeeps DEF AddMessage, work, ghosts, RowsKept
<1> QED
  BY <1>1, <1>2, <1>3, <1>4, <1>5 DEF Service

LEMMA OthersKeep ==
  ASSUME Typed, Bytes, [Next]_vars, ~Browser, ~Channel \/ \E f \in Files : RemoveDraftMedia(f)
  PROVE  RowsKept
<1>t. row \in [Files -> RowType] /\ job \in [Jobs -> JobType]
  BY TypeParts DEF Typed
<1>1. ASSUME NEW f \in Files, RemoveDraftMedia(f) PROVE RowsKept
  BY <1>1, <1>t DEF RemoveDraftMedia, work, RowsKept, Here, RowType
<1>2. ASSUME NEW j \in Jobs, Claim(j) PROVE RowsKept
  BY <1>2, <1>t DEF Claim, ghosts, RowsKept, JobType
<1>3. ASSUME NEW j \in Jobs, TimesOut(j) PROVE RowsKept
  BY <1>3, <1>t DEF TimesOut, RowsKept, JobType
<1>4. ASSUME NEW j \in Jobs, NEW a \in Attempts, Handle(j, a) PROVE RowsKept
  BY <1>4, HandleKeeps
<1>5. CASE Crash
  BY <1>5, <1>t DEF Crash, RowsKept, JobType, Idle
<1>6. CASE UNCHANGED vars
  BY <1>6 DEF vars, work, ghosts, RowsKept
<1> QED
  BY <1>1, <1>2, <1>3, <1>4, <1>5, <1>6, ServiceKeeps DEF Next

\* What the transaction of confirmUpload writes.
LEMMA Marks ==
  ASSUME Typed, NEW q \in Requests, ConfirmMarks(q)
  PROVE  LET f == request[q].file IN
         /\ f \in Files
         /\ \A g \in Files : g # f => row'[g] = row[g]
         /\ \/ row' = row /\ job' = job
            \/ /\ Here(f) /\ EnqueueFor(f, row[f].kind)
               /\ row'[f].here = row[f].here /\ row'[f].at = row[f].at
               /\ row'[f].uploaded = TRUE /\ row'[f].text = row[f].text
               /\ row'[f].kind = row[f].kind /\ row'[f].ai = AiOf(row[f].kind, row[f].ai)
<1> DEFINE f == request[q].file
           marked == [row[f] EXCEPT !.uploaded = TRUE, !.ai = AiOf(row[f].kind, row[f].ai)]
<1>1. row \in [Files -> RowType] /\ request \in [Requests -> RequestType]
  BY TypeParts DEF Typed
<1>2. f \in Files
  BY <1>1 DEF ConfirmMarks, Typed, Linked, RequestType
<1>3. CASE row' = row /\ job' = job
  BY <1>2, <1>3
<1>4. CASE Here(f) /\ row' = [row EXCEPT ![f] = marked] /\ EnqueueFor(f, row[f].kind)
  <2>1. row'[f] = marked /\ \A g \in Files : g # f => row'[g] = row[g]
    BY <1>1, <1>2, <1>4
  <2>2. /\ marked.here = row[f].here /\ marked.at = row[f].at /\ marked.uploaded = TRUE
        /\ marked.text = row[f].text /\ marked.kind = row[f].kind
        /\ marked.ai = AiOf(row[f].kind, row[f].ai)
    BY <1>1, <1>2 DEF RowType
  <2> HIDE DEF marked
  <2> QED
    BY <1>2, <1>4, <2>1, <2>2
<1> QED
  BY <1>3, <1>4 DEF ConfirmMarks

LEMMA BytesInit == Init => Bytes
  BY DEF Init, Bytes, Absent, Idle, Here

LEMMA BytesKept == Typed /\ Typed' /\ Bytes /\ RowsKept => Bytes'
<1> SUFFICES ASSUME Typed, Typed', Bytes, RowsKept PROVE Bytes'
  OBVIOUS
<1>1. \A q \in Requests : request'[q].pc # "idle" => request'[q].file \in Files
  BY TypeParts DEF Typed, Linked, RequestType
<1> QED
  BY <1>1 DEF Bytes, RowsKept, Here

LEMMA BytesNext == Typed /\ Bytes /\ [Next]_vars => Bytes'
<1> SUFFICES ASSUME Typed, Bytes, [Next]_vars PROVE Bytes'
  OBVIOUS
<1>n. Typed'
  BY TypedNext
<1>t. /\ row \in [Files -> RowType] /\ request \in [Requests -> RequestType]
      /\ stored \in [Files -> Contents]
  BY TypeParts DEF Typed
<1>f. \A q \in Requests : request[q].pc # "idle" => request[q].file \in Files
  BY <1>t DEF Typed, Linked, RequestType
<1>1. ASSUME NEW f \in Files, NEW kind \in Kinds, Register(f, kind) PROVE Bytes'
  BY <1>1, <1>t, <1>f DEF Register, Absent, Bytes, Here
<1>2. ASSUME NEW f \in Files, NEW size \in {"empty", "good", "huge"}, Put(f, size) PROVE Bytes'
  BY <1>2, <1>t, <1>f DEF Put, Bytes, Here
<1>3. ASSUME NEW f \in Files, NEW q \in Requests, ConfirmReads(q, f) PROVE Bytes'
  BY <1>3, <1>t, <1>f DEF ConfirmReads, Bytes, Here
<1>4. ASSUME NEW q \in Requests, ConfirmHeads(q) PROVE Bytes'
  BY <1>4, <1>t, <1>f DEF ConfirmHeads, Proceeds, AfterHead, Idle, Bytes, Here
<1>5. ASSUME NEW q \in Requests, ConfirmRemoves(q) PROVE Bytes'
  BY <1>5, <1>t, <1>f DEF ConfirmRemoves, Proceeds, Idle, Bytes, Here
<1>6. ASSUME NEW q \in Requests, ConfirmDrops(q) PROVE Bytes'
  BY <1>6, <1>t, <1>f DEF ConfirmDrops, Proceeds, Idle, Bytes, Here, RowType
<1>7. ASSUME NEW q \in Requests, ConfirmMarks(q) PROVE Bytes'
  <2> DEFINE f == request[q].file
  <2>1. f \in Files /\ row[f].here # "no" /\ stored[f] = "good"
    BY <1>7, <1>f DEF ConfirmMarks, Bytes
  <2>2. /\ \A g \in Files : row'[g].here = row[g].here /\ row'[g].at = row[g].at
                           /\ (row'[g].uploaded => row[g].uploaded \/ g = f)
                           /\ (row[g].uploaded => row'[g].uploaded)
    BY <1>7, <1>t, <2>1, Marks
  <2>3. \A o \in Requests : request'[o].pc # "idle" => request'[o] = request[o]
    BY <1>7, <1>t DEF ConfirmMarks, Proceeds, Idle
  <2>4. stored' = stored
    BY <1>7 DEF ConfirmMarks
  <2> QED
    BY <1>f, <2>1, <2>2, <2>3, <2>4 DEF Bytes, Here
<1>8. ASSUME NEW f \in Files, NEW t \in Tickets, NEW kind \in Kinds, NEW transcribed \in BOOLEAN,
             NEW text \in {"none", "typed"}, Arrive(f, t, kind, transcribed, text)
      PROVE Bytes'
  BY <1>8, <1>t, <1>f DEF Arrive, Bytes, Here
<1> QED
  BY <1>n, <1>1, <1>2, <1>3, <1>4, <1>5, <1>6, <1>7, <1>8, OthersKeep, BytesKept
     DEF Browser, Channel

LEMMA BytesAlways == Spec => [](Typed /\ Bytes)
  BY TypedInit, TypedNext, BytesInit, BytesNext, PTL DEF Spec

\* A file that a thread shows opens (media.ts:31-33, 137-160).
THEOREM ShownIsStoredAlways == Spec => []ShownIsStored
<1>1. Bytes => ShownIsStored
  BY DEF Bytes, ShownIsStored, Shown
<1> QED
  BY <1>1, BytesAlways, PTL

-----------------------------------------------------------------------------
(* One job for each file. *)

LEMMA PaidInit == Init => Paid
  BY DEF Init, Paid, Idle, FreeJob

LEMMA PaidKept == Typed /\ Typed' /\ Paid /\ RowsKept => Paid'
<1> SUFFICES ASSUME Typed, Typed', Paid, RowsKept PROVE Paid'
  OBVIOUS
<1>1. \A q \in Requests : request'[q].pc # "idle" => request'[q].file \in Files
  BY TypeParts DEF Typed, Linked, RequestType
<1>2. \A j \in Jobs : job[j].file \in Files \cup {None}
  BY TypeParts DEF Typed, JobType
<1> QED
  BY <1>1, <1>2 DEF Paid, RowsKept

\* A new job of a file that has none, and that no other confirmation works on.
LEMMA PaidNew ==
  ASSUME Typed, Paid, NEW f \in Files, NEW kind, EnqueueFor(f, kind),
         \A j \in Jobs : job[j].file # f,
         row'[f].uploaded = TRUE, \A g \in Files : g # f => row'[g] = row[g],
         raced' = raced,
         \A q \in Requests : request'[q].pc # "idle" =>
           /\ request'[q] = request[q] /\ request[q].file \in Files \ {f}
  PROVE  Paid'
<1>1. \A j \in Jobs : job[j].file \in Files \cup {None}
  BY TypeParts DEF Typed, JobType
<1>2. CASE kind = "video"
  BY <1>1, <1>2, MediaAssumption DEF EnqueueFor, Paid
<1>3. CASE kind # "video"
  BY <1>1, <1>3, Enqueues DEF Paid
<1> QED
  BY <1>2, <1>3

LEMMA PaidNext == Typed /\ Bytes /\ Paid /\ [Next]_vars => Paid'
<1> SUFFICES ASSUME Typed, Bytes, Paid, [Next]_vars PROVE Paid'
  OBVIOUS
<1>n. Typed'
  BY TypedNext
<1>t. /\ row \in [Files -> RowType] /\ request \in [Requests -> RequestType]
      /\ job \in [Jobs -> JobType]
  BY TypeParts DEF Typed
<1>f. \A q \in Requests : request[q].pc # "idle" => request[q].file \in Files
  BY <1>t DEF Typed, Linked, RequestType
<1>j. \A j \in Jobs : job[j].file \in Files \cup {None}
  BY <1>t DEF JobType
<1>1. ASSUME NEW f \in Files, NEW kind \in Kinds, Register(f, kind) PROVE Paid'
  <2>1. /\ ~row[f].uploaded /\ ~row'[f].uploaded
        /\ \A g \in Files : g # f => row'[g] = row[g]
    BY <1>1, <1>t DEF Register, Absent, Bytes
  <2> QED
    BY <1>1, <1>f, <1>j, <2>1 DEF Register, work, ghosts, Paid
<1>2. ASSUME NEW f \in Files, NEW size \in {"empty", "good", "huge"}, Put(f, size) PROVE Paid'
  BY <1>2 DEF Put, work, ghosts, Paid
<1>3. ASSUME NEW f \in Files, NEW q \in Requests, ConfirmReads(q, f) PROVE Paid'
  <2>1. /\ request'[q] = [pc |-> "head", file |-> f]
        /\ \A o \in Requests : o # q => request'[o] = request[o]
        /\ request[q].pc = "idle" /\ ~row[f].uploaded
    BY <1>3, <1>t DEF ConfirmReads, Idle
  <2>2. /\ raced \subseteq raced'
        /\ f \notin raced' => \A o \in Requests : request[o].file # f
    BY <1>3 DEF ConfirmReads
  <2>3. row' = row /\ job' = job
    BY <1>3 DEF ConfirmReads, work
  <2> QED
    BY <1>f, <1>j, <2>1, <2>2, <2>3 DEF Paid
<1>4. ASSUME NEW q \in Requests, ConfirmHeads(q) PROVE Paid'
  BY <1>4, <1>t, <1>f DEF ConfirmHeads, Proceeds, Idle, work, ghosts, Paid
<1>5. ASSUME NEW q \in Requests, ConfirmRemoves(q) PROVE Paid'
  BY <1>5, <1>t, <1>f DEF ConfirmRemoves, Proceeds, Idle, work, ghosts, Paid
<1>6. ASSUME NEW q \in Requests, ConfirmDrops(q) PROVE Paid'
  <2>1. \A f \in Files : row'[f].uploaded = row[f].uploaded
    BY <1>6, <1>t DEF ConfirmDrops, RowType
  <2> QED
    BY <1>6, <1>t, <1>f, <1>j, <2>1 DEF ConfirmDrops, Proceeds, Idle, work, ghosts, Paid
<1>7. ASSUME NEW q \in Requests, ConfirmMarks(q) PROVE Paid'
  <2> DEFINE f == request[q].file
  <2>1. f \in Files /\ request[q].pc = "mark" /\ raced' = raced
    BY <1>7, Marks DEF ConfirmMarks, ghosts
  <2>2. \A o \in Requests : request'[o].pc # "idle" => o # q /\ request'[o] = request[o]
    BY <1>7, <1>t DEF ConfirmMarks, Proceeds, Idle
  <2>3. CASE row' = row /\ job' = job
    BY <1>f, <1>j, <2>1, <2>2, <2>3 DEF Paid
  <2>4. CASE EnqueueFor(f, row[f].kind) /\ row'[f].uploaded = TRUE
    <3>1. \A g \in Files : g # f => row'[g] = row[g]
      BY <1>7, Marks
    <3>2. CASE f \notin raced
      <4>1. \A j \in Jobs : job[j].file # f
        BY <2>1, <3>2, MediaAssumption DEF Paid
      <4>2. \A o \in Requests : request'[o].pc # "idle" =>
              request'[o] = request[o] /\ request[o].file \in Files \ {f}
        BY <1>f, <2>1, <2>2, <3>2 DEF Paid
      <4> QED
        BY <2>1, <2>4, <3>1, <4>1, <4>2, PaidNew
    <3>3. CASE f \in raced
      <4>1. CASE row[f].kind = "video"
        BY <1>f, <1>j, <2>1, <2>2, <2>4, <3>1, <3>3, <4>1, MediaAssumption DEF EnqueueFor, Paid
      <4>2. CASE row[f].kind # "video"
        <5> PICK i \in Jobs : job[i].file = None /\ job'[i].file = f
                             /\ \A k \in Jobs : k # i => job'[k] = job[k]
          BY <2>1, <2>4, <4>2, Enqueues
        <5> QED
          BY <1>f, <1>j, <2>1, <2>2, <2>4, <3>1, <3>3 DEF Paid
      <4> QED
        BY <4>1, <4>2
    <3> QED
      BY <3>2, <3>3
  <2> QED
    BY <1>7, <2>3, <2>4, Marks
<1>8. ASSUME NEW f \in Files, NEW t \in Tickets, NEW kind \in Kinds, NEW transcribed \in BOOLEAN,
             NEW text \in {"none", "typed"}, Arrive(f, t, kind, transcribed, text)
      PROVE Paid'
  <2>1. row[f].here = "no" /\ row'[f].uploaded = TRUE /\ raced' = raced /\ request' = request
        /\ \A g \in Files : g # f => row'[g] = row[g]
    BY <1>8, <1>t DEF Arrive
  <2>2. \A j \in Jobs : job[j].file # f
    BY <2>1, MediaAssumption DEF Bytes, Paid
  <2>3. \A q \in Requests : request[q].pc # "idle" => request[q].file # f
    BY <2>1 DEF Bytes
  <2>4. CASE EnqueueFor(f, kind)
    BY <1>f, <2>1, <2>2, <2>3, <2>4, PaidNew
  <2>5. CASE job' = job
    BY <1>f, <1>j, <2>1, <2>2, <2>3, <2>5, MediaAssumption DEF Paid
  <2> QED
    BY <1>8, <2>4, <2>5 DEF Arrive
<1> QED
  BY <1>n, <1>1, <1>2, <1>3, <1>4, <1>5, <1>6, <1>7, <1>8, OthersKeep, PaidKept
     DEF Browser, Channel

LEMMA PaidAlways == Spec => [](Typed /\ Bytes /\ Paid)
  BY BytesAlways, PaidInit, PaidNext, PTL DEF Spec

LEMMA PaysOnce == Paid => PaidOnce
<1> SUFFICES ASSUME Paid, NEW f \in Files \ raced
             PROVE  Cardinality({j \in Jobs : job[j].file = f}) <= 1
  BY DEF PaidOnce
<1> DEFINE S == {j \in Jobs : job[j].file = f}
<1>1. CASE S = {}
  BY <1>1, FS_EmptySet
<1>2. CASE S # {}
  <2> PICK j \in Jobs : job[j].file = f
    BY <1>2
  <2>1. S = {j}
    BY MediaAssumption DEF Paid
  <2>2. Cardinality({j}) = 1
    BY FS_Singleton
  <2> QED
    BY <2>1, <2>2
<1> QED
  BY <1>1, <1>2

\* A file is paid for once (media.ts:112-117), unless confirmations of it raced.
THEOREM PaidOnceAlways == Spec => []PaidOnce
  BY PaidAlways, PaysOnce, PTL

-----------------------------------------------------------------------------
(* Every file that waits is served. *)

LEMMA ServedInit == Init => Served
  BY DEF Init, Served, OneRuns, HandlersKnow, OwedHasPlace, WaitingIsServed, WordsArrive, Waiting, Here, Absent, FreeJob, Off

\* The files of jobs were registered.
LEMMA JobsHaveRows ==
  ASSUME Typed, Bytes, Paid, NEW j \in Jobs, job[j].file # None
  PROVE  job[j].file \in Files /\ row[job[j].file].here # "no" /\ row[job[j].file].uploaded
<1>1. job[j].file \in Files
  BY TypeParts DEF Typed, JobType
<1> QED
  BY <1>1 DEF Bytes, Paid

\* A step that leaves the queue alone, and after which no file waits that did not.
LEMMA ServedKept ==
  ASSUME Typed, Bytes, Paid, Served, job' = job, run' = run, excused' = excused,
         owed' \subseteq owed,
         \A f \in owed' : row'[f].here = "yes",
         \A f \in Files : Waiting(f)' => Waiting(f),
         \A f \in Files : row[f].at # None => row'[f].at = row[f].at,
         \A f \in Files : row[f].here # "no" => row'[f].kind = row[f].kind
  PROVE  Served'
<1>o. owed \subseteq Files /\ \A f \in owed : row[f].here = "yes" /\ row[f].at \in Tickets
  BY TypeParts DEF Typed, Served, OwedHasPlace, Here
<1>n. \A t \in Tickets : t # None
  BY MediaAssumption DEF Places
<1>1. ASSUME NEW i \in Jobs, NEW b \in Attempts, run'[i][b].pc # "off",
             job'[i].file \notin excused'
      PROVE Knows(i, b)'
  <2>1. job[i].file # None
    BY <1>1 DEF Typed, Linked
  <2>2. Knows(i, b) /\ job[i].file \in Files /\ row[job[i].file].here # "no"
    BY <1>1, <2>1, JobsHaveRows DEF Served, HandlersKnow
  <2>3. ~Waiting(job[i].file) => ~Waiting(job[i].file)'
    BY <2>2
  <2> QED
    BY <2>2, <2>3 DEF Knows, IsLast
<1>2. OwedHasPlace'
  BY <1>o, <1>n DEF Served, OwedHasPlace, Here
<1>3. WaitingIsServed' /\ WordsArrive'
  <2>1. \A f \in Files : Alive(f)' <=> Alive(f)
    BY DEF Alive
  <2> QED
    BY <1>o, <2>1 DEF Served, WaitingIsServed, WordsArrive
<1>4. OneRuns' /\ HandlersKnow'
  BY <1>1 DEF Served, OneRuns, HandlersKnow
<1> QED
  BY <1>2, <1>3, <1>4 DEF Served

\* A step of a handler that does not end.
LEMMA ServedGoes ==
  ASSUME Typed, Served, NEW j \in Jobs, NEW a \in Attempts, NEW f \in Files,
         f = job[j].file, run[j][a].pc # "off", job' = job,
         \A i \in Jobs, b \in Attempts : i # j \/ b # a => run'[i][b] = run[i][b],
         \A g \in Files : g # f => row'[g] = row[g],
         row'[f].at = row[f].at, row'[f].here = row[f].here, row'[f].kind = row[f].kind,
         excused \subseteq excused', owed' \subseteq owed \cup {f},
         f \in owed' => f \in owed \/ (Here(f) /\ row[f].at \in Tickets),
         f \in owed' /\ f \notin owed /\ f \notin excused => row[f].kind \in Engines,
         f \notin excused' => Knows(j, a)'
  PROVE  Served'
<1>o. owed \subseteq Files
  BY TypeParts DEF Typed
<1>j. \A i \in Jobs : job[i].file # None => job[i].file \in Files
  BY TypeParts DEF Typed, JobType
<1>r. f \notin excused => job[j].status = "RUNNING" /\ job[j].attempts = a
  BY DEF Served, HandlersKnow, Knows
<1>1. ASSUME NEW i \in Jobs, NEW b \in Attempts, run'[i][b].pc # "off",
             job'[i].file \notin excused'
      PROVE Knows(i, b)'
  <2>1. CASE i = j /\ b = a
    BY <1>1, <2>1
  <2>2. CASE i # j \/ b # a
    <3>1. run'[i][b] = run[i][b] /\ Knows(i, b)
      BY <1>1, <2>2 DEF Served, HandlersKnow
    <3>2. job[i].file # f
      BY <1>1, <1>r, <2>2, <3>1 DEF Served, OneRuns, Knows
    <3>3. job[i].file \in Files
      BY <1>1, <1>j, <3>1 DEF Typed, Linked
    <3>4. row'[job[i].file] = row[job[i].file]
      BY <3>2, <3>3
    <3>5. (job[i].file \in owed' => job[i].file \in owed)
      BY <3>2
    <3> QED
      BY <3>1, <3>4, <3>5 DEF Knows, Waiting, Here, IsLast
  <2> QED
    BY <2>1, <2>2
<1>2. OwedHasPlace'
  <2>1. ASSUME NEW g \in owed', g # f
        PROVE row'[g] = row[g] /\ g \in owed
    BY <1>o, <2>1
  <2> QED
    BY <2>1 DEF Served, OwedHasPlace, Here
<1>3. WaitingIsServed' /\ WordsArrive'
  <2>1. f \notin excused' => Alive(f)'
    BY <1>r DEF Alive
  <2>2. \A g \in Files : Alive(g)' <=> Alive(g)
    BY DEF Alive
  <2>3. WordsArrive'
    BY <1>o, <2>1, <2>2 DEF Served, WordsArrive
  <2>4. \A g \in Files : g # f => (Waiting(g)' <=> Waiting(g))
    BY DEF Waiting, Here
  <2> QED
    BY <2>1, <2>2, <2>3, <2>4 DEF Served, WaitingIsServed
<1>4. OneRuns' /\ HandlersKnow'
  BY <1>1 DEF Served, OneRuns, HandlersKnow
<1> QED
  BY <1>2, <1>3, <1>4 DEF Served

\* A step that registers a job for the file it uploads, or has none to register.
LEMMA ServedNew ==
  ASSUME Typed, Bytes, Paid, Served, NEW f \in Files, NEW kind,
         EnqueueFor(f, kind) \/ (job' = job /\ ~Waiting(f)'),
         kind = "video" => ~Waiting(f)',
         run' = run, excused' = excused, owed' \subseteq owed,
         \A g \in Files : g # f => row'[g] = row[g],
         row[f].here # "no" => /\ row'[f].here = row[f].here /\ row'[f].at = row[f].at
                               /\ row'[f].kind = row[f].kind
                               /\ row[f].uploaded /\ Waiting(f)' => Waiting(f)
  PROVE  Served'
<1>o. owed \subseteq Files
  BY TypeParts DEF Typed
<1>h. \A g \in owed : row[g].here # "no"
  BY DEF Served, OwedHasPlace, Here
<1>e. \A i \in Jobs : job[i].file # None => job'[i] = job[i]
  BY Enqueues
<1>w. Waiting(f)' => Alive(f)'
  BY Enqueues DEF Alive
<1>s. OneRuns'
  <2>1. CASE job' = job
    BY <2>1 DEF Served, OneRuns
  <2>2. CASE kind # "video" /\ EnqueueFor(f, kind)
    BY <2>2, Enqueues DEF Served, OneRuns
  <2> QED
    BY <2>1, <2>2 DEF EnqueueFor
<1>1. ASSUME NEW i \in Jobs, NEW b \in Attempts, run'[i][b].pc # "off",
             job'[i].file \notin excused'
      PROVE Knows(i, b)'
  <2>1. job[i].file # None
    BY <1>1 DEF Typed, Linked
  <2>2. /\ Knows(i, b) /\ job'[i] = job[i] /\ job[i].file \in Files
        /\ row[job[i].file].here # "no" /\ row[job[i].file].uploaded
    BY <1>1, <1>e, <2>1, JobsHaveRows DEF Served, HandlersKnow
  <2>3. Waiting(job[i].file)' => Waiting(job[i].file)
    BY <2>2 DEF Waiting, Here
  <2>4. row'[job[i].file].at = row[job[i].file].at /\ row'[job[i].file].kind = row[job[i].file].kind
    BY <2>2
  <2> QED
    BY <2>2, <2>3, <2>4 DEF Knows, IsLast
<1>2. OwedHasPlace'
  <2>1. ASSUME NEW g \in owed'
        PROVE g \in owed /\ row'[g].here = row[g].here /\ row'[g].at = row[g].at
              /\ row'[g].kind = row[g].kind
    BY <1>o, <1>h
  <2> QED
    BY <2>1 DEF Served, OwedHasPlace, Here
<1>3. \A g \in Files : Alive(g) => Alive(g)'
  BY <1>e, MediaAssumption DEF Alive
<1>4. WaitingIsServed' /\ WordsArrive'
  <2>1. \A g \in Files : g # f => (Waiting(g)' <=> Waiting(g))
    BY DEF Waiting, Here
  <2> QED
    BY <1>o, <1>w, <1>3, <2>1 DEF Served, WaitingIsServed, WordsArrive
<1>5. HandlersKnow'
  BY <1>1 DEF HandlersKnow
<1> QED
  BY <1>s, <1>2, <1>4, <1>5 DEF Served

LEMMA ServedBrowser == Typed /\ Bytes /\ Paid /\ Served /\ Browser => Served'
<1> SUFFICES ASSUME Typed, Bytes, Paid, Served, Browser PROVE Served'
  OBVIOUS
<1>t. /\ row \in [Files -> RowType] /\ request \in [Requests -> RequestType]
      /\ owed \subseteq Files /\ \A f \in owed : row[f].here = "yes" /\ row[f].at \in Tickets
  BY TypeParts DEF Typed, Served, OwedHasPlace, Here
<1>f. \A q \in Requests : request[q].pc # "idle" => request[q].file \in Files
  BY <1>t DEF Typed, Linked, RequestType
<1>1. ASSUME NEW f \in Files, NEW kind \in Kinds, Register(f, kind) PROVE Served'
  <2>1. /\ row[f].here = "no" /\ row[f].at = None /\ row'[f].here = "yes" /\ ~row'[f].uploaded
        /\ \A g \in Files : g # f => row'[g] = row[g]
    BY <1>1, <1>t DEF Register, Absent, Bytes
  <2>2. \A g \in Files : Waiting(g)' => Waiting(g)
    BY <2>1 DEF Waiting, Here
  <2> QED
    BY <1>1, <1>t, <2>1, <2>2, ServedKept DEF Register, work, ghosts
<1>2. ASSUME NEW f \in Files, NEW size \in {"empty", "good", "huge"}, Put(f, size) PROVE Served'
  BY <1>2, <1>t, ServedKept DEF Put, work, ghosts, Waiting, Here
<1>3. ASSUME NEW f \in Files, NEW q \in Requests, ConfirmReads(q, f) PROVE Served'
  BY <1>3, <1>t, ServedKept DEF ConfirmReads, work, Waiting, Here
<1>4. ASSUME NEW q \in Requests, ConfirmHeads(q) \/ ConfirmRemoves(q) PROVE Served'
  BY <1>4, <1>t, ServedKept DEF ConfirmHeads, ConfirmRemoves, work, ghosts, Waiting, Here
<1>5. ASSUME NEW q \in Requests, ConfirmDrops(q) PROVE Served'
  <2> DEFINE f == request[q].file
  <2>1. f \in Files /\ stored[f] # "good"
    BY <1>5, <1>f DEF ConfirmDrops, Bytes
  <2>2. f \notin owed
    BY <1>t, <2>1, MediaAssumption DEF Bytes, Here, Places
  <2>3. /\ row'[f].here = "gone" /\ row'[f].at = row[f].at /\ row'[f].kind = row[f].kind
        /\ \A g \in Files : g # f => row'[g] = row[g]
    BY <1>5, <1>t, <2>1 DEF ConfirmDrops, RowType
  <2>4. \A g \in Files : Waiting(g)' => Waiting(g)
    BY <2>3 DEF Waiting, Here
  <2>5. \A g \in owed' : row'[g].here = "yes"
    BY <1>5, <1>t, <2>2, <2>3 DEF ConfirmDrops, ghosts
  <2> QED
    BY <1>5, <2>3, <2>4, <2>5, ServedKept DEF ConfirmDrops, work, ghosts
<1>6. ASSUME NEW q \in Requests, ConfirmMarks(q) PROVE Served'
  <2> PICK f \in Files : f = request[q].file
    BY <1>6, Marks
  <2>1. (\A g \in Files : g # f => row'[g] = row[g])
        /\ run' = run /\ excused' = excused /\ owed' = owed
    BY <1>6, Marks DEF ConfirmMarks, ghosts
  <2>2. CASE row' = row /\ job' = job
    BY <1>t, <2>1, <2>2, ServedKept DEF Waiting, Here
  <2>3. CASE /\ Here(f) /\ EnqueueFor(f, row[f].kind)
             /\ row'[f].here = row[f].here /\ row'[f].at = row[f].at
             /\ row'[f].uploaded = TRUE /\ row'[f].text = row[f].text
             /\ row'[f].kind = row[f].kind /\ row'[f].ai = AiOf(row[f].kind, row[f].ai)
    <3>1. row[f].kind = "video" => ~Waiting(f)'
      BY <2>3 DEF Waiting, AiOf
    <3>2. row[f].uploaded /\ Waiting(f)' => Waiting(f)
      BY <2>3, <3>1 DEF Waiting, Here, AiOf
    <3> QED
      BY <2>1, <2>3, <3>1, <3>2, ServedNew
  <2> QED
    BY <1>6, <2>2, <2>3, Marks
<1> QED
  BY <1>1, <1>2, <1>3, <1>4, <1>5, <1>6 DEF Browser

LEMMA ServedChannel == Typed /\ Bytes /\ Paid /\ Served /\ Channel => Served'
<1> SUFFICES ASSUME Typed, Bytes, Paid, Served, Channel PROVE Served'
  OBVIOUS
<1>t. /\ row \in [Files -> RowType]
      /\ owed \subseteq Files /\ \A f \in owed : row[f].here = "yes" /\ row[f].at \in Tickets
  BY TypeParts DEF Typed, Served, OwedHasPlace, Here
<1>1. ASSUME NEW f \in Files, NEW t \in Tickets, NEW kind \in Kinds, NEW transcribed \in BOOLEAN,
             NEW text \in {"none", "typed"}, Arrive(f, t, kind, transcribed, text)
      PROVE Served'
  <2>1. /\ row[f].here = "no" /\ row'[f].text = transcribed
        /\ row'[f].ai = IF transcribed THEN "DONE" ELSE AiOf(kind, "PENDING")
        /\ \A g \in Files : g # f => row'[g] = row[g]
        /\ run' = run /\ excused' = excused /\ owed' \subseteq owed
    BY <1>1, <1>t DEF Arrive
  <2>2. transcribed \/ kind = "video" => ~Waiting(f)'
    BY <2>1 DEF Waiting, AiOf
  <2> QED
    BY <1>1, <2>1, <2>2, ServedNew DEF Arrive
<1>2. ASSUME NEW f \in Files, RemoveDraftMedia(f) PROVE Served'
  <2>1. /\ row'[f].here = "gone" /\ row'[f].at = row[f].at /\ row'[f].kind = row[f].kind
        /\ \A g \in Files : g # f => row'[g] = row[g]
    BY <1>2, <1>t DEF RemoveDraftMedia, RowType
  <2>2. \A g \in Files : Waiting(g)' => Waiting(g)
    BY <2>1 DEF Waiting, Here
  <2>3. \A g \in owed' : row'[g].here = "yes"
    BY <1>2, <1>t, <2>1 DEF RemoveDraftMedia
  <2> QED
    BY <1>2, <2>1, <2>2, <2>3, ServedKept DEF RemoveDraftMedia, work
<1> QED
  BY <1>1, <1>2 DEF Channel

LEMMA ServedService == Typed /\ Bytes /\ Paid /\ Served /\ Service => Served'
<1> SUFFICES ASSUME Typed, Bytes, Paid, Served, Service PROVE Served'
  OBVIOUS
<1>t. /\ TypeOK /\ row \in [Files -> RowType]
      /\ owed \subseteq Files /\ \A f \in owed : row[f].here = "yes" /\ row[f].at \in Tickets
  BY TypeParts DEF Typed, Served, OwedHasPlace, Here
<1>a. ASSUME NEW S, NEW place \in Places, Attach(S, place), job' = job, run' = run,
             excused' = excused, owed' = owed
      PROVE Served'
  <2>1. ASSUME NEW f \in Files
        PROVE /\ row'[f].uploaded = row[f].uploaded /\ row'[f].here = row[f].here
              /\ row'[f].ai = row[f].ai /\ row'[f].text = row[f].text
              /\ row'[f].kind = row[f].kind
              /\ row[f].at # None => row'[f].at = row[f].at
    BY <1>a, <1>t DEF Attach, Joins, RowType
  <2>2. \A f \in Files : Waiting(f)' => Waiting(f)
    BY <2>1 DEF Waiting, Here
  <2> QED
    BY <1>a, <1>t, <2>1, <2>2, ServedKept
<1>1. ASSUME NEW t \in Tickets, NEW text \in {"none", "typed"}, NEW state \in {"draft", "open"},
             NEW S \in SUBSET Files, CreateTicket(t, text, state, S)
      PROVE Served'
  BY <1>1, <1>a DEF CreateTicket, work, ghosts, Places
<1>2. ASSUME NEW t \in Tickets, NEW text \in {"none", "typed"}, Edit(t, text) PROVE Served'
  BY <1>2, <1>t, ServedKept DEF Edit, work, Waiting, Here
<1>3. ASSUME NEW t \in Tickets, Submit(t) PROVE Served'
  BY <1>3, <1>t, ServedKept DEF Submit, work, ghosts, Waiting, Here
<1>4. ASSUME NEW t \in Tickets, Delete(t) PROVE Served'
  <2>1. ASSUME NEW f \in Files
        PROVE /\ row'[f].at = row[f].at /\ row'[f].kind = row[f].kind
              /\ row'[f].here = (IF row[f].at = t THEN "gone" ELSE row[f].here)
              /\ row[f].at # t => row'[f] = row[f]
    BY <1>4, <1>t DEF Delete, RowType
  <2>2. \A f \in Files : Waiting(f)' => Waiting(f)
    BY <2>1 DEF Waiting, Here
  <2>3. \A f \in owed' : f \in owed /\ row'[f].here = "yes"
    BY <1>4, <1>t, <2>1 DEF Delete
  <2> QED
    BY <1>4, <1>t, <2>1, <2>2, <2>3, ServedKept DEF Delete, work
<1>5. ASSUME NEW place \in Places, NEW S \in SUBSET Files, AddMessage(place, S) PROVE Served'
  BY <1>5, <1>a DEF AddMessage, work, ghosts
<1> QED
  BY <1>1, <1>2, <1>3, <1>4, <1>5 DEF Service

\* A handler that goes on, on a file that no gap excuses: what it comes to know.
LEMMA ServedHandle ==
  ASSUME Typed, Bytes, Paid, Served, NEW j \in Jobs, NEW a \in Attempts, Handle(j, a), ~Ends(j, a)
  PROVE  Served'
<1> DEFINE pc == run[j][a].pc
<1>t. /\ row \in [Files -> RowType] /\ job \in [Jobs -> JobType]
      /\ run \in [Jobs -> [Attempts -> HandlerType]]
      /\ owed \subseteq Files /\ \A g \in owed : row[g].here = "yes" /\ row[g].at \in Tickets
  BY TypeParts DEF Typed, Served, OwedHasPlace, Here
<1>n. \A t \in Tickets : t # None
  BY MediaAssumption DEF Places
<1>p. pc # "off" /\ pc \notin Over
  BY DEF Handle, Loads, Skips, Begins, Saves, Looks, Fills, Throws, Catches, Over
<1> PICK f \in Files : f = job[j].file
  BY <1>p, <1>t DEF JobType, Typed, Linked
<1>k. f \notin excused => Knows(j, a)
  BY <1>p DEF Served, HandlersKnow
<1>u. row[f].uploaded
  BY MediaAssumption DEF Paid
<1>o. f \in owed /\ f \notin excused => row[f].kind \in Engines
  BY DEF Served, OwedHasPlace
<1>g. ASSUME NEW q, Goes(j, a, q)
      PROVE /\ run'[j][a].pc = q /\ run'[j][a].place = run[j][a].place
            /\ \A i \in Jobs, b \in Attempts : i # j \/ b # a => run'[i][b] = run[i][b]
  BY <1>g, <1>t DEF Goes, HandlerType
<1>1. CASE Loads(j, a)
  <2> DEFINE next == AfterLoad(f)
  <2>1. /\ row' = row /\ job' = job /\ owed' = owed /\ excused' = excused
        /\ run'[j][a].pc = next
        /\ \A i \in Jobs, b \in Attempts : i # j \/ b # a => run'[i][b] = run[i][b]
    BY <1>1, <1>g DEF Loads, ghosts
  <2>2. /\ next \in {"returned", "skip", "begin"}
        /\ next = "returned" => ~Here(f)
        /\ next = "skip" => row[f].kind \notin Engines
        /\ next = "begin" => row[f].kind \in Engines
    BY <1>u DEF AfterLoad
  <2>3. ~Here(f) => ~Waiting(f) /\ f \notin owed
    BY <1>t DEF Waiting, Here
  <2>4. f \notin excused' => Knows(j, a)'
    BY <1>k, <2>1, <2>2, <2>3 DEF Knows, Waiting, Here
  <2> QED
    BY <1>p, <2>1, <2>4, ServedGoes
<1>2. CASE Skips(j, a)
  <2>1. /\ job' = job /\ owed' = owed /\ excused' = excused
        /\ run'[j][a].pc = IF Here(f) THEN "returned" ELSE "caught"
        /\ \A i \in Jobs, b \in Attempts : i # j \/ b # a => run'[i][b] = run[i][b]
    BY <1>2, <1>g DEF Skips, ghosts
  <2>2. /\ \A g \in Files : g # f => row'[g] = row[g]
        /\ row'[f].at = row[f].at /\ row'[f].here = row[f].here /\ row'[f].kind = row[f].kind
        /\ Here(f) => row'[f].ai = "SKIPPED"
    BY <1>2, <1>t DEF Skips, RowType
  <2>3. f \notin excused => f \notin owed
    BY <1>2, <1>k, <1>o DEF Skips, Knows
  <2>4. f \notin excused' => Knows(j, a)'
    BY <1>k, <2>1, <2>2, <2>3 DEF Knows, Waiting, Here
  <2> QED
    BY <1>p, <2>1, <2>2, <2>4, ServedGoes
<1>3. CASE Begins(j, a)
  <2>1. /\ job' = job /\ owed' = owed /\ excused' = excused /\ run'[j][a].pc = "save"
        /\ \A i \in Jobs, b \in Attempts : i # j \/ b # a => run'[i][b] = run[i][b]
    BY <1>3, <1>g DEF Begins, ghosts
  <2>2. /\ \A g \in Files : g # f => row'[g] = row[g]
        /\ row'[f].at = row[f].at /\ row'[f].here = row[f].here /\ row'[f].kind = row[f].kind
    BY <1>3, <1>t DEF Begins, RowType
  <2>4. f \notin excused' => Knows(j, a)'
    BY <1>3, <1>k, <2>1, <2>2 DEF Begins, Knows
  <2> QED
    BY <1>p, <2>1, <2>2, <2>4, ServedGoes
<1>4. CASE \E words \in BOOLEAN : Saves(j, a, words)
  <2> PICK words \in BOOLEAN : Saves(j, a, words)
    BY <1>4
  <2> DEFINE spoken == words /\ row[f].kind = "audio"
             next == IF Here(f) /\ spoken THEN "look" ELSE "returned"
  <2>1. /\ job' = job /\ excused' = excused /\ run'[j][a].pc = next
        /\ \A i \in Jobs, b \in Attempts : i # j \/ b # a => run'[i][b] = run[i][b]
    BY <1>g DEF Saves
  <2>2. /\ \A g \in Files : g # f => row'[g] = row[g]
        /\ row'[f].at = row[f].at /\ row'[f].here = row[f].here /\ row'[f].kind = row[f].kind
        /\ Here(f) => row'[f].ai = "DONE"
    <3>1. CASE Here(f)
      <4> DEFINE heard == [row[f] EXCEPT !.ai = "DONE", !.text = words]
      <4>1. row' = [row EXCEPT ![f] = heard]
        BY <3>1 DEF Saves
      <4>2. /\ heard.at = row[f].at /\ heard.here = row[f].here
            /\ heard.kind = row[f].kind /\ heard.ai = "DONE"
        BY <1>t DEF RowType
      <4> HIDE DEF heard
      <4> QED
        BY <1>t, <4>1, <4>2
    <3>2. CASE ~Here(f)
      BY <3>2 DEF Saves
    <3> QED
      BY <3>1, <3>2
  <2>3. /\ owed' \subseteq owed \cup {f}
        /\ f \in owed' => f \in owed \/ (Here(f) /\ row[f].at \in Tickets)
        /\ f \in owed' => spoken
    BY DEF Saves
  <2>5. f \notin excused => row[f].kind \in Engines
    BY <1>k DEF Knows, Saves
  <2>6. f \in owed' => row[f].here = "yes"
    BY <1>t, <2>3 DEF Here
  <2>4. f \notin excused' => Knows(j, a)'
    BY <1>k, <2>1, <2>2, <2>3, <2>6 DEF Knows, Waiting, Here
  <2> QED
    BY <1>p, <2>1, <2>2, <2>3, <2>4, <2>5, ServedGoes
<1>5. CASE Looks(j, a)
  <2> DEFINE place == IF Here(f) /\ row[f].at \in Tickets THEN row[f].at ELSE None
  <2>1. /\ row' = row /\ job' = job /\ owed' = owed /\ excused' = excused
        /\ run'[j][a] = [pc |-> IF place = None THEN "returned" ELSE "fill", place |-> place]
        /\ \A i \in Jobs, b \in Attempts : i # j \/ b # a => run'[i][b] = run[i][b]
    BY <1>5, <1>t DEF Looks, ghosts
  <2>2. /\ place = None => f \notin owed
        /\ place # None => row[f].at = place
    BY <1>t, <1>n DEF Here
  <2>3. run'[j][a].pc = (IF place = None THEN "returned" ELSE "fill") /\ run'[j][a].place = place
    BY <2>1
  <2>4. f \notin excused => ~Waiting(f)
    BY <1>5, <1>k DEF Looks, Knows
  <2>5. f \notin excused' => Knows(j, a)'
    BY <1>k, <2>1, <2>2, <2>3, <2>4 DEF Knows, Waiting, Here
  <2> QED
    BY <1>p, <2>1, <2>5, ServedGoes
<1>6. CASE Fills(j, a)
  <2>1. /\ row' = row /\ job' = job /\ excused' = excused /\ run'[j][a].pc = "returned"
        /\ \A i \in Jobs, b \in Attempts : i # j \/ b # a => run'[i][b] = run[i][b]
        /\ owed' = {g \in owed : row[g].at # run[j][a].place}
    BY <1>6, <1>g DEF Fills
  <2>2. f \notin excused => ~Waiting(f) /\ row[f].at = run[j][a].place
    BY <1>6, <1>k DEF Fills, Knows
  <2>4. f \notin excused' => Knows(j, a)'
    BY <1>k, <2>1, <2>2 DEF Knows, Waiting, Here
  <2> QED
    BY <1>p, <2>1, <2>4, ServedGoes
<1>7. CASE Throws(j, a)
  <2>1. /\ row' = row /\ job' = job /\ owed' = owed /\ excused' = excused
        /\ run'[j][a].pc = "caught"
        /\ \A i \in Jobs, b \in Attempts : i # j \/ b # a => run'[i][b] = run[i][b]
    BY <1>7, <1>g DEF Throws, ghosts
  <2>4. f \notin excused' => Knows(j, a)'
    BY <1>k, <2>1 DEF Knows
  <2> QED
    BY <1>p, <2>1, <2>4, ServedGoes
<1>8. CASE Catches(j, a)
  <2>1. /\ job' = job /\ owed' = owed /\ excused \subseteq excused' /\ run'[j][a].pc = "threw"
        /\ \A i \in Jobs, b \in Attempts : i # j \/ b # a => run'[i][b] = run[i][b]
    BY <1>8, <1>g DEF Catches
  <2>2. /\ \A g \in Files : g # f => row'[g] = row[g]
        /\ row'[f].at = row[f].at /\ row'[f].here = row[f].here /\ row'[f].kind = row[f].kind
        /\ f \notin excused' /\ IsLast(a) /\ Here(f) => row'[f].ai = "FAILED"
    BY <1>8, <1>t DEF Catches, RowType
  <2>4. f \notin excused' => Knows(j, a)'
    BY <1>k, <2>1, <2>2 DEF Knows, Waiting, Here, IsLast
  <2> QED
    BY <1>p, <2>1, <2>2, <2>4, ServedGoes
<1> QED
  BY <1>1, <1>2, <1>3, <1>4, <1>5, <1>6, <1>7, <1>8 DEF Handle

\* A step that leaves rows and handlers alone, and a queue in which the jobs of the
\* files outside the gaps are as they were.
LEMMA ServedQueue ==
  ASSUME Typed, Served, row' = row, owed' = owed, excused \subseteq excused',
         OneRuns',
         \A i \in Jobs : job'[i].file = job[i].file,
         \A i \in Jobs : job[i].file \notin excused' /\ job[i].status \in {"PENDING", "RUNNING"}
                       => job'[i].status \in {"PENDING", "RUNNING"},
         \A i \in Jobs, b \in Attempts :
           run'[i][b].pc # "off" /\ job[i].file \notin excused' => Knows(i, b)'
  PROVE  Served'
<1>o. owed \subseteq Files
  BY TypeParts DEF Typed
<1>1. OwedHasPlace'
  BY DEF Served, OwedHasPlace, Here
<1>2. \A f \in Files : Alive(f) /\ f \notin excused' => Alive(f)'
  BY DEF Alive
<1>3. WaitingIsServed' /\ WordsArrive'
  BY <1>o, <1>2 DEF Served, WaitingIsServed, WordsArrive, Waiting, Here
<1>4. HandlersKnow'
  BY DEF HandlersKnow
<1> QED
  BY <1>1, <1>3, <1>4 DEF Served

LEMMA ServedEnds ==
  ASSUME Typed, Served, NEW j \in Jobs, NEW a \in Attempts, Ends(j, a)
  PROVE  Served'
<1>t. /\ job \in [Jobs -> JobType] /\ run \in [Jobs -> [Attempts -> HandlerType]]
      /\ owed \subseteq Files
  BY TypeParts DEF Typed
<1>p. run[j][a].pc \in Over /\ run[j][a].pc # "off"
  BY DEF Ends, Over
<1> PICK f \in Files : f = job[j].file
  BY <1>p, <1>t DEF JobType, Typed, Linked
<1> DEFINE mine == job[j].status = "RUNNING" /\ job[j].attempts = a
           after == IF run[j][a].pc = "returned" THEN "COMPLETED" ELSE AfterFailure(a)
<1>k. f \notin excused => Knows(j, a)
  BY <1>p DEF Served, HandlersKnow
<1>1. /\ row' = row /\ excused' = excused /\ owed' \subseteq owed
      /\ \A g \in owed : g # f => g \in owed'
      /\ run'[j][a].pc = "off"
      /\ \A i \in Jobs, b \in Attempts : i # j \/ b # a => run'[i][b] = run[i][b]
  BY <1>t DEF Ends, Off
<1>2. /\ \A i \in Jobs : job'[i].file = job[i].file /\ job'[i].attempts = job[i].attempts
      /\ \A i \in Jobs : i # j => job'[i] = job[i]
      /\ job'[j].status = IF mine THEN after ELSE job[j].status
  BY <1>t DEF Ends, JobType
<1>3. after \in {"COMPLETED", "PENDING", "FAILED"}
  BY GivesUp
<1>4. OneRuns'
  BY <1>2, <1>3 DEF Served, OneRuns
<1>5. HandlersKnow'
  <2> SUFFICES ASSUME NEW i \in Jobs, NEW b \in Attempts, run'[i][b].pc # "off",
                      job[i].file \notin excused
               PROVE Knows(i, b)'
    BY <1>1, <1>2 DEF HandlersKnow
  <2>1. (i # j \/ b # a) /\ run'[i][b] = run[i][b]
    BY <1>1
  <2>2. Knows(i, b)
    BY <2>1 DEF Served, HandlersKnow
  <2>3. job[i].file # f
    BY <1>k, <2>1, <2>2 DEF Knows, Served, OneRuns
  <2>4. i # j /\ job'[i] = job[i]
    BY <1>2, <2>3
  <2> QED
    BY <1>1, <2>1, <2>2, <2>4 DEF Knows, Waiting, Here, IsLast
<1>6. OwedHasPlace'
  BY <1>1 DEF Served, OwedHasPlace, Here
<1>7. \A g \in Files : g # f => (Alive(g)' <=> Alive(g))
  BY <1>2 DEF Alive
<1>8. f \notin excused /\ (Waiting(f) \/ f \in owed') => Alive(f)'
  <2> SUFFICES ASSUME f \notin excused, Waiting(f) \/ f \in owed' PROVE Alive(f)'
    OBVIOUS
  <2>1. mine
    BY <1>k DEF Knows
  <2>2. run[j][a].pc # "returned"
    BY <1>k, <1>1 DEF Knows
  <2>3. ~(run[j][a].pc = "threw" /\ IsLast(a))
    <3>1. run[j][a].pc = "threw" /\ IsLast(a) => f \notin owed'
      BY DEF Ends
    <3> QED
      BY <1>k, <3>1 DEF Knows
  <2>4. after = "PENDING"
    BY <1>p, <2>2, <2>3, GivesUp DEF Over
  <2> QED
    BY <1>2, <2>1, <2>4 DEF Alive
<1>9. WaitingIsServed' /\ WordsArrive'
  <2>1. \A g \in Files : Waiting(g)' <=> Waiting(g)
    BY <1>1 DEF Waiting, Here
  <2> QED
    BY <1>t, <1>1, <1>7, <1>8, <2>1 DEF Served, WaitingIsServed, WordsArrive
<1> QED
  BY <1>4, <1>5, <1>6, <1>9 DEF Served

LEMMA ServedNext == Typed /\ Bytes /\ Paid /\ Served /\ [Next]_vars => Served'
<1> SUFFICES ASSUME Typed, Bytes, Paid, Served, [Next]_vars PROVE Served'
  OBVIOUS
<1>t. /\ job \in [Jobs -> JobType] /\ run \in [Jobs -> [Attempts -> HandlerType]]
      /\ \A g \in owed : row[g].here = "yes"
  BY TypeParts DEF Typed, Served, OwedHasPlace, Here
<1>1. ASSUME NEW j \in Jobs, Claim(j) PROVE Served'
  <2> DEFINE a == job[j].attempts + 1
  <2>1. /\ row' = row /\ owed' = owed /\ excused' = excused
        /\ \A i \in Jobs : i # j => job'[i] = job[i] /\ run'[i] = run[i]
        /\ \A i \in Jobs : job[i].status # "RUNNING"
    BY <1>1, <1>t DEF Claim, ghosts
  <2>2. /\ job'[j].file = job[j].file /\ job'[j].status = "RUNNING" /\ job'[j].attempts = a
        /\ job[j].status = "PENDING"
    BY <1>1, <1>t DEF Claim, JobType
  <2>3. \A b \in Attempts : /\ b # a => run'[j][b] = run[j][b]
                            /\ b = a => run'[j][b].pc = "load"
    BY <1>1, <1>t DEF Claim
  <2>4. ASSUME NEW i \in Jobs, NEW b \in Attempts, run'[i][b].pc # "off", job[i].file \notin excused'
        PROVE Knows(i, b)'
    <3>1. ~Knows(i, b)
      BY <2>1 DEF Knows
    <3>2. i = j /\ b = a
      BY <2>1, <2>3, <2>4, <3>1 DEF Served, HandlersKnow
    <3> QED
      BY <2>2, <2>3, <3>2 DEF Knows
  <2>5. OneRuns'
    BY <2>1 DEF OneRuns
  <2>6. \A i \in Jobs : job'[i].file = job[i].file
    BY <2>1, <2>2
  <2>7. \A i \in Jobs : job[i].file \notin excused' /\ job[i].status \in {"PENDING", "RUNNING"}
                       => job'[i].status \in {"PENDING", "RUNNING"}
    BY <2>1, <2>2
  <2> QED
    BY <2>1, <2>4, <2>5, <2>6, <2>7, ServedQueue
<1>2. ASSUME NEW j \in Jobs, TimesOut(j) PROVE Served'
  <2>1. /\ row' = row /\ owed' = owed /\ run' = run /\ excused' = excused \cup {job[j].file}
        /\ \A i \in Jobs : i # j => job'[i] = job[i]
        /\ job[j].status = "RUNNING"
    BY <1>2, <1>t DEF TimesOut
  <2>2. job'[j].file = job[j].file /\ job'[j].status = AfterFailure(job[j].attempts)
    BY <1>2, <1>t DEF TimesOut, JobType
  <2>3. job[j].attempts \in Attempts
    BY <2>1 DEF Typed, QueueOK
  <2>4. ASSUME NEW i \in Jobs, NEW b \in Attempts, run'[i][b].pc # "off", job[i].file \notin excused'
        PROVE Knows(i, b)'
    <3>1. Knows(i, b) /\ job'[i] = job[i]
      BY <2>1, <2>4 DEF Served, HandlersKnow
    <3> QED
      BY <2>1, <3>1 DEF Knows, Waiting, Here, IsLast
  <2>5. OneRuns'
    BY <2>1, <2>2, <2>3, GivesUp DEF Served, OneRuns
  <2>6. \A i \in Jobs : job'[i].file = job[i].file
    BY <2>1, <2>2
  <2>7. \A i \in Jobs : job[i].file \notin excused' /\ job[i].status \in {"PENDING", "RUNNING"}
                       => job'[i].status \in {"PENDING", "RUNNING"}
    BY <2>1, <2>2
  <2> QED
    BY <2>1, <2>4, <2>5, <2>6, <2>7, ServedQueue
<1>3. CASE Crash
  <2>1. /\ row' = row /\ owed' = owed /\ excused \subseteq excused'
        /\ \A i \in Jobs, b \in Attempts : run'[i][b].pc = "off"
        /\ \A i \in Jobs : job[i].status = "RUNNING" /\ IsLast(job[i].attempts)
                           => job[i].file \in excused'
    BY <1>3 DEF Crash, Off
  <2>2. \A i \in Jobs :
          /\ job'[i].file = job[i].file
          /\ job'[i].status = IF job[i].status = "RUNNING" THEN AfterFailure(job[i].attempts)
                             ELSE job[i].status
    BY <1>3, <1>t DEF Crash, JobType
  <2>3. \A i \in Jobs : job[i].status = "RUNNING" => job[i].attempts \in Attempts
    BY DEF Typed, QueueOK
  <2>4. \A i \in Jobs : job'[i].status # "RUNNING"
    BY <2>2, <2>3, GivesUp
  <2>5. OneRuns'
    BY <2>4 DEF OneRuns
  <2>6. \A i \in Jobs : job[i].file \notin excused' /\ job[i].status \in {"PENDING", "RUNNING"}
                       => job'[i].status \in {"PENDING", "RUNNING"}
    BY <2>1, <2>2, <2>3, GivesUp
  <2> QED
    BY <2>1, <2>2, <2>5, <2>6, ServedQueue
<1>4. ASSUME NEW j \in Jobs, NEW a \in Attempts, Handle(j, a) PROVE Served'
  BY <1>4, ServedHandle, ServedEnds
<1>5. CASE UNCHANGED vars
  BY <1>5, <1>t, ServedKept DEF vars, work, ghosts, Waiting, Here
<1> QED
  BY <1>1, <1>2, <1>3, <1>4, <1>5, ServedBrowser, ServedChannel, ServedService DEF Next

LEMMA InvAlways == Spec => []IInv
<1>1. Init => IInv
  BY TypedInit, BytesInit, PaidInit, ServedInit DEF IInv
<1>2. IInv /\ [Next]_vars => IInv'
  BY TypedNext, BytesNext, PaidNext, ServedNext DEF IInv
<1> QED
  BY <1>1, <1>2, PTL DEF Spec

LEMMA Serves == IInv => WaitingIsServed /\ WordsArrive
  BY DEF IInv, Served

\* "Transcribing..." below a file means that a job will read it, but for the files
\* behind a gap that the code accepts (media.ts:172-174, worker.ts:384-390).
THEOREM WaitingIsServedAlways == Spec => []WaitingIsServed
  BY InvAlways, Serves, PTL

\* Words saved for a ticket without a description reach it, or the failure of their
\* job is in sight, but for the same files (ai.ts:141-160).
THEOREM WordsArriveAlways == Spec => []WordsArrive
  BY InvAlways, Serves, PTL

-----------------------------------------------------------------------------
(* What a person wrote. *)

LEMMA KeepsTyped ==
  ASSUME TypeOK, [Next]_vars, NEW t \in Tickets, ticket'[t].text = "heard"
  PROVE  ticket[t].text # "typed"
<1>t. ticket \in [Tickets -> TicketType]
  BY TypeParts
<1>1. CASE Browser
  BY <1>1, <1>t DEF Browser, Register, Put, ConfirmReads, ConfirmHeads, ConfirmRemoves,
                    ConfirmDrops, ConfirmMarks
<1>2. CASE Channel
  BY <1>2, <1>t DEF Channel, Arrive, RemoveDraftMedia, TicketType
<1>3. CASE Service
  BY <1>3, <1>t DEF Service, CreateTicket, AddMessage, Edit, Submit, Delete, TicketType
<1>4. ASSUME NEW j \in Jobs, NEW a \in Attempts, Handle(j, a) PROVE ticket[t].text # "typed"
  BY <1>4, <1>t DEF Handle, Loads, Skips, Begins, Saves, Looks, Fills, MayFill, Throws, Catches,
                    Ends, TicketType
<1>5. CASE \E j \in Jobs : Claim(j) \/ TimesOut(j)
  BY <1>5 DEF Claim, TimesOut
<1>6. CASE Crash \/ UNCHANGED vars
  BY <1>6 DEF Crash, vars
<1> QED
  BY <1>1, <1>2, <1>3, <1>4, <1>5, <1>6 DEF Next

\* What a person wrote is never replaced by what the machine heard (ai.ts:145).
THEOREM TypedIsKeptAlways == Spec => TypedIsKept
<1>1. TypeOK /\ [Next]_vars
      => [\A t \in Tickets : ticket'[t].text = "heard" => ticket[t].text # "typed"]_vars
  BY KeepsTyped
<1> QED
  BY <1>1, TypeCorrect, PTL DEF Spec, TypedIsKept
=============================================================================
