-------------------------------- MODULE Media --------------------------------
(***************************************************************************)
(* Files: registered, uploaded and confirmed by a browser                  *)
(* (src/lib/services/media.ts), or brought in by a mail or a WhatsApp      *)
(* message (src/lib/services/intake-draft.ts), attached to a message of a  *)
(* ticket or of a tag, and read by the TRANSCRIBE and EXTRACT jobs         *)
(* (src/jobs/handlers/ai.ts, src/jobs/worker.ts runAi).                    *)
(*                                                                         *)
(* What the engine hears fills the description of a ticket that has none.  *)
(* The row of a file and its bytes are kept by two stores that share no    *)
(* transaction.  The queue is JobQueue's, reduced as in Delivery, with the *)
(* one loop of the general lane.                                           *)
(***************************************************************************)
EXTENDS Naturals, FiniteSets

CONSTANTS
  Files,
  Tickets,
  Tags,
  Engines,      \* the kinds of file this deployment has an engine for
  Requests,     \* confirmations that may be in progress at once
  Jobs,         \* rows of the Job table
  MaxAttempts,  \* MAX_ATTEMPTS
  MaxFaults,    \* bound on the time limits reached, the crashes and the writes lost
  None

Places   == Tickets \cup Tags
Kinds    == {"audio", "image", "video"}
Attempts == 1 .. MaxAttempts

ASSUME MediaAssumption ==
  /\ Tickets \cap Tags = {} /\ None \notin Places \cup Files
  /\ Engines \subseteq {"audio", "image"}
  /\ MaxAttempts \in Nat \ {0} /\ MaxFaults \in Nat

VARIABLES
  row,        \* the MediaFile table
  stored,     \* what the storage holds under the key of a file
  request,    \* progress of each confirmation
  job,        \* the TRANSCRIBE and EXTRACT rows of the Job table
  run,        \* the handler of attempt a of job j
  ticket,     \* the tickets and their descriptions
  owed,       \* files whose words were saved and belong in an empty description
  raced,      \* files confirmed by two requests at once
  excused,    \* files behind one of the gaps the code accepts
  faults      \* time limits, crashes and lost writes so far

work   == <<job, run>>
ghosts == <<owed, raced, excused, faults>>
vars   == <<row, stored, request, work, ticket, ghosts>>

-----------------------------------------------------------------------------
(* Values *)

AiStatus  == {"PENDING", "PROCESSING", "DONE", "FAILED", "SKIPPED"}
Contents  == {"nothing", "empty", "good", "huge", "removed"}
RequestPc == {"idle", "head", "mark", "remove", "drop"}
JobStatus == {"free", "PENDING", "RUNNING", "COMPLETED", "FAILED"}
RunPc     == {"off", "load", "skip", "begin", "save", "look", "fill",
              "caught", "threw", "returned"}
Over      == {"threw", "returned"}

Absent  == [here |-> "no", kind |-> "video", channel |-> FALSE, uploaded |-> FALSE,
            at |-> None, ai |-> "PENDING", text |-> FALSE]
Idle    == [pc |-> "idle", file |-> None]
FreeJob == [status |-> "free", file |-> None, attempts |-> 0]
Off     == [pc |-> "off", place |-> None]

Here(f)  == row[f].here = "yes"
Alive(f) == \E j \in Jobs : job[j].file = f /\ job[j].status \in {"PENDING", "RUNNING"}

\* toMediaView: what the thread shows of a file, and "transcribing..." below it.
Shown(f)   == Here(f) /\ row[f].uploaded /\ row[f].at # None
Waiting(f) == /\ Here(f) /\ row[f].uploaded /\ ~row[f].text
              /\ row[f].ai \in {"PENDING", "PROCESSING"}

Init ==
  /\ row = [f \in Files |-> Absent]
  /\ stored = [f \in Files |-> "nothing"]
  /\ request = [q \in Requests |-> Idle]
  /\ job = [j \in Jobs |-> FreeJob]
  /\ run = [j \in Jobs |-> [a \in Attempts |-> Off]]
  /\ ticket = [t \in Tickets |-> [state |-> "none", text |-> "none"]]
  /\ owed = {} /\ raced = {} /\ excused = {} /\ faults = 0

-----------------------------------------------------------------------------
(* Three steps of a browser: register, upload, confirm *)

\* registerMedia: a row without bytes.  Who may register is Board's business.
Register(f, kind) ==
  /\ row[f].here = "no"
  /\ row' = [row EXCEPT ![f] = [Absent EXCEPT !.here = "yes", !.kind = kind]]
  /\ UNCHANGED <<stored, request, work, ticket, ghosts>>

\* The PUT of the browser lands, whatever its size: a signed address limits none.
\* The page sends one PUT for a row it registered and registers again to try
\* again (use-media-upload.ts); that the address stays open is left out.
Put(f, size) ==
  /\ Here(f) /\ stored[f] = "nothing"
  /\ stored' = [stored EXCEPT ![f] = size]
  /\ UNCHANGED <<row, request, work, ticket, ghosts>>

\* Fault: a second report starts over, whatever the row says.
ConfirmReadsAlways(q, f) ==
  /\ request[q] = Idle /\ Here(f) /\ ~row[f].channel
  /\ request' = [request EXCEPT ![q] = [pc |-> "head", file |-> f]]
  /\ raced' = IF \E o \in Requests : request[o].file = f THEN raced \cup {f} ELSE raced
  /\ UNCHANGED <<row, stored, work, ticket, owed, excused, faults>>

\* confirmUpload reads the row of its caller's file; one confirmed before ends it.
ConfirmReads(q, f) ==
  /\ request[q] = Idle /\ Here(f) /\ ~row[f].channel /\ ~row[f].uploaded
  /\ request' = [request EXCEPT ![q] = [pc |-> "head", file |-> f]]
  /\ raced' = IF \E o \in Requests : request[o].file = f THEN raced \cup {f} ELSE raced
  /\ UNCHANGED <<row, stored, work, ticket, owed, excused, faults>>

\* Fault: an object that exists is taken for one that holds the file.
AfterHeadExists(size) ==
  CASE size = "huge" -> "remove" [] size \in {"empty", "good"} -> "mark" [] OTHER -> "idle"

\* What the size of the stored object leads to.
AfterHead(size) ==
  CASE size = "huge" -> "remove" [] size = "good" -> "mark" [] OTHER -> "idle"

Proceeds(q, pc) ==
  request' = [request EXCEPT ![q] = IF pc = "idle" THEN Idle ELSE [@ EXCEPT !.pc = pc]]

\* storage.head: nothing or no bytes is refused.
ConfirmHeads(q) ==
  /\ request[q].pc = "head"
  /\ Proceeds(q, AfterHead(stored[request[q].file]))
  /\ UNCHANGED <<row, stored, work, ticket, ghosts>>

\* The object is too large: it is removed, and a failure of that is ignored.
ConfirmRemoves(q) ==
  /\ request[q].pc = "remove"
  /\ \/ stored' = [stored EXCEPT ![request[q].file] = "removed"]
     \/ UNCHANGED stored
  /\ Proceeds(q, "drop")
  /\ UNCHANGED <<row, work, ticket, ghosts>>

\* Its row is deleted, or was deleted by another request, which throws.
ConfirmDrops(q) ==
  LET f == request[q].file IN
  /\ request[q].pc = "drop"
  /\ row' = [row EXCEPT ![f].here = "gone"]
  /\ Proceeds(q, "idle")
  /\ UNCHANGED <<stored, work, ticket, ghosts>>

\* What a row says of its processing once its bytes are there.
AiOf(kind, before) == IF kind = "video" THEN "SKIPPED" ELSE before

\* aiJobFor: a job for what an engine may read, in the caller's transaction.
EnqueueFor(f, kind) ==
  IF kind = "video" THEN UNCHANGED job
  ELSE \E j \in Jobs :
         /\ job[j].status = "free"
         /\ job' = [job EXCEPT ![j] = [status |-> "PENDING", file |-> f, attempts |-> 0]]

\* The transaction of confirmUpload; it throws when the row is gone.
ConfirmMarks(q) ==
  LET f == request[q].file IN
  /\ request[q].pc = "mark"
  /\ \/ /\ Here(f)
        /\ row' = [row EXCEPT ![f] =
                        [row[f] EXCEPT !.uploaded = TRUE, !.ai = AiOf(row[f].kind, row[f].ai)]]
        /\ EnqueueFor(f, row[f].kind)
     \/ /\ ~Here(f)
        /\ UNCHANGED <<row, job>>
  /\ Proceeds(q, "idle")
  /\ UNCHANGED <<stored, run, ticket, ghosts>>

-----------------------------------------------------------------------------
(* Files that a mail or a WhatsApp message brings *)

\* writeMedia, in the transaction that creates the draft t or merges into it;
\* a recording that was transcribed for the decision brings its text.
Arrive(f, t, kind, transcribed, text) ==
  /\ row[f].here = "no" /\ ticket[t].state \in {"none", "draft"}
  /\ transcribed => kind = "audio"
  /\ row' = [row EXCEPT ![f] =
               [here |-> "yes", kind |-> kind, channel |-> TRUE, uploaded |-> TRUE, at |-> t,
                ai |-> IF transcribed THEN "DONE" ELSE AiOf(kind, "PENDING"),
                text |-> transcribed]]
  /\ stored' = [stored EXCEPT ![f] = "good"]
  /\ ticket' = [ticket EXCEPT ![t] =
                  IF @.state = "none" THEN [state |-> "draft", text |-> text]
                  ELSE IF text = "typed" THEN [@ EXCEPT !.text = text] ELSE @]
  /\ IF transcribed THEN UNCHANGED job ELSE EnqueueFor(f, kind)
  /\ owed' = IF text = "typed" THEN {g \in owed : row[g].at # t} ELSE owed
  /\ UNCHANGED <<request, run, raced, excused, faults>>

\* removeDraftMedia: only what came by the channel, only while a draft.
RemoveDraftMedia(f) ==
  /\ Here(f) /\ row[f].channel
  /\ row[f].at \in Tickets /\ ticket[row[f].at].state = "draft"
  /\ row' = [row EXCEPT ![f].here = "gone"]
  /\ owed' = owed \ {f}
  /\ UNCHANGED <<stored, request, work, ticket, raced, excused, faults>>

-----------------------------------------------------------------------------
(* Tickets and messages *)

\* The condition under which a file joins a message (tickets.ts, tags.ts).
Joins(f) == Here(f) /\ row[f].uploaded /\ row[f].at = None

\* The files that may join the new message do, and the others are left out.
Attach(S, place) ==
  row' = [f \in Files |-> IF f \in S /\ Joins(f) THEN [row[f] EXCEPT !.at = place] ELSE row[f]]

\* createTicket: without a description it is saved as a draft.
CreateTicket(t, text, state, S) ==
  /\ ticket[t].state = "none"
  /\ text = "none" => state = "draft"
  /\ ticket' = [ticket EXCEPT ![t] = [state |-> state, text |-> text]]
  /\ Attach(S, t)
  /\ UNCHANGED <<stored, request, work, ghosts>>

\* addMessage and addTagMessage with files.
AddMessage(place, S) ==
  /\ place \in Tickets => ticket[place].state \in {"draft", "open"}
  /\ S # {}
  /\ Attach(S, place)
  /\ UNCHANGED <<stored, request, work, ticket, ghosts>>

\* A person writes the description, or empties it, in a draft or after it.
Edit(t, text) ==
  /\ ticket[t].state \in {"draft", "open"} /\ ticket[t].text # text
  /\ ticket' = [ticket EXCEPT ![t].text = text]
  /\ owed' = {f \in owed : row[f].at # t}
  /\ UNCHANGED <<row, stored, request, work, raced, excused, faults>>

\* submitDraft needs a description.
Submit(t) ==
  /\ ticket[t].state = "draft" /\ ticket[t].text # "none"
  /\ ticket' = [ticket EXCEPT ![t].state = "open"]
  /\ UNCHANGED <<row, stored, request, work, ghosts>>

\* deleteDraft and deleteTicket: messages and files go with the ticket, by cascade.
Delete(t) ==
  /\ ticket[t].state \in {"draft", "open"}
  /\ ticket' = [ticket EXCEPT ![t] = [state |-> "gone", text |-> "none"]]
  /\ row' = [f \in Files |-> IF row[f].at = t THEN [row[f] EXCEPT !.here = "gone"] ELSE row[f]]
  /\ owed' = {f \in owed : row[f].at # t}
  /\ UNCHANGED <<stored, request, work, raced, excused, faults>>

-----------------------------------------------------------------------------
(* The job *)

Goes(j, a, pc) == run' = [run EXCEPT ![j][a].pc = pc]

\* The job that the loop waits for is the one that is RUNNING.
Claim(j) ==
  /\ \A o \in Jobs : job[o].status # "RUNNING"
  /\ job[j].status = "PENDING"
  /\ job' = [job EXCEPT ![j].status = "RUNNING", ![j].attempts = @ + 1]
  /\ run' = [run EXCEPT ![j][job[j].attempts + 1] = [pc |-> "load", place |-> None]]
  /\ UNCHANGED <<row, stored, request, ticket, ghosts>>

\* Fault: a file that was read before is not read again.
AfterLoadOnce(f) ==
  IF ~Here(f) \/ ~row[f].uploaded \/ row[f].ai = "DONE" THEN "returned"
  ELSE IF row[f].kind \notin Engines THEN "skip" ELSE "begin"

\* loadReady and the choice of an engine.
AfterLoad(f) ==
  IF ~Here(f) \/ ~row[f].uploaded THEN "returned"
  ELSE IF row[f].kind \notin Engines THEN "skip" ELSE "begin"

Loads(j, a) ==
  /\ run[j][a].pc = "load"
  /\ Goes(j, a, AfterLoad(job[j].file))
  /\ UNCHANGED <<row, stored, request, job, ticket, ghosts>>

\* markSkipped updates by id: it throws when the row is gone.
Skips(j, a) ==
  LET f == job[j].file IN
  /\ run[j][a].pc = "skip"
  /\ row' = IF Here(f) THEN [row EXCEPT ![f].ai = "SKIPPED"] ELSE row
  /\ Goes(j, a, IF Here(f) THEN "returned" ELSE "caught")
  /\ UNCHANGED <<stored, request, job, ticket, ghosts>>

\* mark PROCESSING: updateMany, which is silent when the row is gone.
Begins(j, a) ==
  LET f == job[j].file IN
  /\ run[j][a].pc = "begin"
  /\ row' = IF Here(f) THEN [row EXCEPT ![f].ai = "PROCESSING"] ELSE row
  /\ Goes(j, a, "save")
  /\ UNCHANGED <<stored, request, job, ticket, ghosts>>

\* The engine answers, with words or without, and the answer is saved; a
\* transcript goes on to the description.
Saves(j, a, words) ==
  LET f == job[j].file
      spoken == words /\ row[f].kind = "audio" IN
  /\ run[j][a].pc = "save"
  /\ row' = IF Here(f) THEN [row EXCEPT ![f] = [row[f] EXCEPT !.ai = "DONE", !.text = words]]
            ELSE row
  /\ Goes(j, a, IF Here(f) /\ spoken THEN "look" ELSE "returned")
  /\ owed' = IF ~spoken THEN owed \ {f}
             ELSE IF /\ Here(f) /\ row[f].at \in Tickets
                     /\ ticket[row[f].at].text = "none" THEN owed \cup {f} ELSE owed
  /\ UNCHANGED <<stored, request, job, ticket, raced, excused, faults>>

\* fillEmptyDescription finds the ticket of the file's message.
Looks(j, a) ==
  LET f == job[j].file
      place == IF Here(f) /\ row[f].at \in Tickets THEN row[f].at ELSE None IN
  /\ run[j][a].pc = "look"
  /\ run' = [run EXCEPT ![j][a] = [pc |-> IF place = None THEN "returned" ELSE "fill",
                                   place |-> place]]
  /\ UNCHANGED <<row, stored, request, job, ticket, ghosts>>

\* The condition of its updateMany.
MayFill(t) == ticket[t].state \in {"draft", "open"} /\ ticket[t].text = "none"

\* And writes the description in one statement, where it is still empty.
Fills(j, a) ==
  LET t == run[j][a].place IN
  /\ run[j][a].pc = "fill"
  /\ ticket' = IF MayFill(t) THEN [ticket EXCEPT ![t].text = "heard"] ELSE ticket
  /\ owed' = {f \in owed : row[f].at # t}
  /\ Goes(j, a, "returned")
  /\ UNCHANGED <<row, stored, request, job, raced, excused, faults>>

\* The storage, the engine or the database fails.
Throws(j, a) ==
  /\ run[j][a].pc \in {"load", "skip", "begin", "save", "look", "fill"}
  /\ Goes(j, a, "caught")
  /\ UNCHANGED <<row, stored, request, job, ticket, ghosts>>

\* Fault: the last attempt is taken for one that will be repeated.
IsLastOffByOne(a) == a > MaxAttempts

\* runAi: no attempt is left after this one.
IsLast(a) == a >= MaxAttempts

\* The catch of runAi: markAiFailed on the last attempt; that write may be lost.
Catches(j, a) ==
  LET f == job[j].file IN
  /\ run[j][a].pc = "caught"
  /\ Goes(j, a, "threw")
  /\ \/ /\ row' = IF IsLast(a) /\ Here(f) THEN [row EXCEPT ![f].ai = "FAILED"] ELSE row
        /\ UNCHANGED <<excused, faults>>
     \/ /\ IsLast(a) /\ faults < MaxFaults /\ faults' = faults + 1
        /\ excused' = excused \cup {f}
        /\ UNCHANGED row
  /\ UNCHANGED <<stored, request, job, ticket, owed, raced>>

\* Once a job is given up its file has nothing left to wait for.
AfterFailure(a) == IF a < MaxAttempts THEN "PENDING" ELSE "FAILED"

Ends(j, a) ==
  /\ run[j][a].pc \in Over
  /\ run' = [run EXCEPT ![j][a] = Off]
  /\ job' = IF job[j].status = "RUNNING" /\ job[j].attempts = a
            THEN [job EXCEPT ![j].status =
                    IF run[j][a].pc = "returned" THEN "COMPLETED" ELSE AfterFailure(a)]
            ELSE job
  /\ owed' = IF run[j][a].pc = "threw" /\ IsLast(a) THEN owed \ {job[j].file} ELSE owed
  /\ UNCHANGED <<row, stored, request, ticket, raced, excused, faults>>

\* withTimeout: the loop stops waiting; the handler goes on, and what it still
\* writes can come after what a later attempt wrote.
TimesOut(j) ==
  LET a == job[j].attempts IN
  /\ job[j].status = "RUNNING" /\ run[j][a].pc \notin Over
  /\ faults < MaxFaults /\ faults' = faults + 1
  /\ job' = [job EXCEPT ![j].status = AfterFailure(a)]
  /\ excused' = excused \cup {job[j].file}
  /\ UNCHANGED <<row, stored, request, run, ticket, owed, raced>>

\* The process dies with its requests and its handlers; the start after it puts
\* a RUNNING job back, or gives it up on its last attempt, unmarked.
Crash ==
  LET lost == {j \in Jobs : job[j].status = "RUNNING"} IN
  /\ faults < MaxFaults /\ faults' = faults + 1
  /\ lost # {} \/ \E q \in Requests : request[q] # Idle
  /\ request' = [q \in Requests |-> Idle]
  /\ run' = [j \in Jobs |-> [a \in Attempts |-> Off]]
  /\ job' = [j \in Jobs |-> IF j \in lost
                            THEN [job[j] EXCEPT !.status = AfterFailure(job[j].attempts)]
                            ELSE job[j]]
  /\ excused' = excused \cup {job[j].file : j \in {i \in lost : IsLast(job[i].attempts)}}
  /\ UNCHANGED <<row, stored, ticket, owed, raced>>

-----------------------------------------------------------------------------

Browser ==
  \/ \E f \in Files : \/ \E kind \in Kinds : Register(f, kind)
                      \/ \E size \in {"empty", "good", "huge"} : Put(f, size)
                      \/ \E q \in Requests : ConfirmReads(q, f)
  \/ \E q \in Requests :
       ConfirmHeads(q) \/ ConfirmRemoves(q) \/ ConfirmDrops(q) \/ ConfirmMarks(q)

Channel ==
  \E f \in Files :
    \/ \E t \in Tickets, kind \in Kinds, transcribed \in BOOLEAN, text \in {"none", "typed"} :
         Arrive(f, t, kind, transcribed, text)
    \/ RemoveDraftMedia(f)

Service ==
  \/ \E t \in Tickets :
       \/ \E text \in {"none", "typed"}, state \in {"draft", "open"}, S \in SUBSET Files :
            CreateTicket(t, text, state, S)
       \/ \E text \in {"none", "typed"} : Edit(t, text)
       \/ Submit(t) \/ Delete(t)
  \/ \E place \in Places, S \in SUBSET Files : AddMessage(place, S)

Handle(j, a) ==
  \/ Loads(j, a) \/ Skips(j, a) \/ Begins(j, a) \/ Looks(j, a) \/ Fills(j, a)
  \/ \E words \in BOOLEAN : Saves(j, a, words)
  \/ Throws(j, a) \/ Catches(j, a) \/ Ends(j, a)

Next ==
  \/ Browser \/ Channel \/ Service
  \/ \E j \in Jobs : Claim(j) \/ TimesOut(j) \/ \E a \in Attempts : Handle(j, a)
  \/ Crash

Spec == Init /\ [][Next]_vars

-----------------------------------------------------------------------------
(* Properties *)

\* The type of the state.
TypeOK ==
  /\ row \in [Files -> [here : {"no", "yes", "gone"}, kind : Kinds, channel : BOOLEAN,
                        uploaded : BOOLEAN, at : Places \cup {None}, ai : AiStatus,
                        text : BOOLEAN]]
  /\ stored \in [Files -> Contents]
  /\ request \in [Requests -> [pc : RequestPc, file : Files \cup {None}]]
  /\ job \in [Jobs -> [status : JobStatus, file : Files \cup {None}, attempts : 0 .. MaxAttempts]]
  /\ run \in [Jobs -> [Attempts -> [pc : RunPc, place : Tickets \cup {None}]]]
  /\ ticket \in [Tickets -> [state : {"none", "draft", "open", "gone"},
                             text : {"none", "typed", "heard"}]]
  /\ owed \subseteq Files /\ raced \subseteq Files /\ excused \subseteq Files
  /\ faults \in 0 .. MaxFaults

\* A file that the thread shows opens: an upload that was cut off, refused or
\* too large leaves a row that no thread shows (media.ts:31-33, 137-160).
ShownIsStored == \A f \in Files : Shown(f) => stored[f] = "good"

\* A file is paid for once: whoever confirms it again, or however often, there
\* is one job for it, unless two confirmations ran at the same time
\* (media.ts:112-117 promises it without that exception).
PaidOnce ==
  \A f \in Files \ raced : Cardinality({j \in Jobs : job[j].file = f}) <= 1

\* "Transcribing..." below a file means that a job will read it; the exceptions
\* are the files in excused, and no other (media.ts:172-174, worker.ts:384-390).
WaitingIsServed == \A f \in Files : Waiting(f) => Alive(f) \/ f \in excused

\* Speaking opens a ticket: words that were saved for a ticket without a
\* description reach it, also when the process dies between the two writes;
\* else the job failed in sight, or is behind one of the gaps (ai.ts:141-160).
WordsArrive == \A f \in owed : Alive(f) \/ f \in excused

\* What a person wrote is never replaced by what the machine heard (ai.ts:145).
TypedIsKept ==
  [][\A t \in Tickets : ticket'[t].text = "heard" => ticket[t].text # "typed"]_vars
=============================================================================
