----------------------------- MODULE TicketForm -----------------------------
(* The screen of a new ticket, on a phone that loses its reception: what the  *)
(* form keeps in the browser, the two buttons, the attempt that fails, and    *)
(* the one that starts by itself when the connection returns                  *)
(* (app/(internal)/tickets/new/create-ticket-form.tsx, lib/offline-draft.ts,  *)
(* lib/idb-store.ts).  The browser performs the operations on its store in    *)
(* the order they were asked for; the store never fails.  One tab.            *)
EXTENDS Integers, Sequences, FiniteSets

CONSTANTS
  Attempts,    \* calls of the server that can be under way at the same time
  MaxTexts,    \* bound: the contents the user types
  MaxOpens,    \* bound: times the screen is opened
  MaxPresses,  \* bound: times he presses a button
  MaxFlaps     \* bound: times the connection falls, or a call fails without it

ASSUME BoundsAssumption ==
  /\ Attempts # {} /\ IsFiniteSet(Attempts) /\ "timer" \notin Attempts
  /\ {MaxTexts, MaxOpens, MaxPresses, MaxFlaps} \subseteq Nat

\* A content is numbered in the order of typing; 0 is the empty form.
Texts   == 1..MaxTexts
Banners == {"none", "restored", "pending"}
Wishes  == {"none", "send", "draft"}
Pcs     == {"free", "calls", "abandoned", "ok", "refused", "thrown", "fails",
            "saves", "waits", "clears", "leaves"}
Ops     == {"get", "put", "delete"}

VARIABLES
  form,     \* the screen: open, restoring, its text, its banner, submittedRef
  timer,    \* the text the delayed save will write, 0 without one
  store,    \* what the browser keeps under the one key of this screen
  ops,      \* the operations asked of the store and not performed yet
  attempt,  \* the calls of createTicketAction
  online,   \* navigator.onLine
  made,     \* the tickets at the server
  typed, opens, presses, flaps,   \* bounds
  wish,     \* the button the user pressed last
  kept,     \* the last text the screen said it keeps
  arrived,  \* the texts for whose ticket the screen was left
  missed,   \* the screen began to wait when the browser was already connected
  strayed   \* two attempts overlapped, or a form was left while one ran

formVars == <<form, timer, store, ops, attempt, online, made,
          typed, opens, presses, flaps, wish, kept, arrived, missed, strayed>>
bounds == <<typed, opens, presses, flaps>>
told   == <<wish, kept, arrived>>
faults == <<missed, strayed>>

Closed  == [open |-> FALSE, restoring |-> FALSE, text |-> 0, banner |-> "none", sent |-> FALSE]
Nothing == [text |-> 0, pending |-> FALSE]
Free    == [pc |-> "free", text |-> 0, draft |-> FALSE, of |-> 0, wish |-> "none"]
Op(op, text, pending, by) == [op |-> op, text |-> text, pending |-> pending, by |-> by]

UnderWay(a) == attempt[a].pc \notin {"free", "abandoned"}
Mine(a) == form.open /\ attempt[a].of = opens
Busy    == \E a \in Attempts : UnderWay(a) /\ attempt[a].of = opens
Asked(op, by) == \E i \in DOMAIN ops : ops[i].op = op /\ ops[i].by = by

FormInit ==
  /\ form = Closed /\ timer = 0 /\ store = Nothing /\ ops = <<>>
  /\ attempt = [a \in Attempts |-> Free]
  /\ online = TRUE /\ made = {}
  /\ typed = 0 /\ opens = 0 /\ presses = 0 /\ flaps = 0
  /\ wish = "none" /\ kept = 0 /\ arrived = {}
  /\ missed = FALSE /\ strayed = FALSE
-----------------------------------------------------------------------------
(* The form and its store.                                                   *)

\* Opening the screen asks the store for what an earlier visit left.
Open ==
  /\ ~form.open /\ opens < MaxOpens
  /\ opens' = opens + 1
  /\ form' = [Closed EXCEPT !.open = TRUE, !.restoring = TRUE]
  /\ ops' = Append(ops, Op("get", 0, FALSE, opens + 1))
  /\ UNCHANGED <<timer, store, attempt, online, made, typed, presses, flaps, told, faults>>

\* Any field: the effect of the delayed save is armed anew with every change.
\* Nobody types in the milliseconds in which the store is being read.
Type ==
  /\ form.open /\ ~form.restoring /\ typed < MaxTexts
  /\ typed' = typed + 1
  /\ form' = [form EXCEPT !.text = typed + 1]
  /\ timer' = typed + 1
  /\ UNCHANGED <<store, ops, attempt, online, made, opens, presses, flaps, told, faults>>

\* Fault: the flag is read where the save is armed and not where it fires.
SavesAlways == TRUE

\* What the timer looks at when it fires: submittedRef, not the state.
Saves == ~form.sent

TimerFires ==
  /\ timer # 0
  /\ timer' = 0
  /\ ops' = IF Saves THEN Append(ops, Op("put", timer, FALSE, "timer")) ELSE ops
  /\ UNCHANGED <<form, store, attempt, online, made, bounds, told, faults>>

\* The answer of loadDraft: the screen takes the draft over, and then the effect of
\* the delayed save runs.  A draft whose site is no longer offered to him is given
\* up: it is not shown, and the next text he types replaces it.
Restore(get, taken) ==
  /\ taken => store.text # 0
  /\ IF form.open /\ get.by = opens
     THEN /\ form' = [form EXCEPT !.restoring = FALSE,
                        !.text = IF taken THEN store.text ELSE 0,
                        !.banner = CASE ~taken -> "none"
                                     [] taken /\ store.pending -> "pending"
                                     [] OTHER -> "restored"]
          /\ timer' = form'.text
          /\ kept' = IF taken THEN kept ELSE 0
          /\ missed' = IF form'.banner = "pending" THEN online ELSE missed
     ELSE UNCHANGED <<form, timer, kept, missed>>
  /\ UNCHANGED <<store, attempt>>

\* saveDraft and clearDraft of an attempt let it go on when they are done; after
\* a failure the screen says that the text is kept until there is a connection.
Put(put) ==
  /\ store' = [text |-> put.text, pending |-> put.pending]
  /\ IF put.by \in Attempts
     THEN /\ attempt' = [attempt EXCEPT ![put.by] = Free]
          /\ form' = IF Mine(put.by) THEN [form EXCEPT !.banner = "pending", !.sent = FALSE] ELSE form
          /\ kept' = IF Mine(put.by) THEN put.text ELSE kept
          /\ missed' = IF Mine(put.by) THEN online ELSE missed
     ELSE UNCHANGED <<attempt, form, kept, missed>>
  /\ UNCHANGED timer

Delete(delete) ==
  /\ store' = Nothing
  /\ attempt' = [attempt EXCEPT ![delete.by].pc = "leaves"]
  /\ UNCHANGED <<form, timer, kept, missed>>

Perform ==
  /\ ops # <<>>
  /\ ops' = Tail(ops)
  /\ LET op == Head(ops) IN
       \/ op.op = "get" /\ \E taken \in BOOLEAN : Restore(op, taken)
       \/ op.op = "put" /\ Put(op)
       \/ op.op = "delete" /\ Delete(op)
  /\ UNCHANGED <<online, made, bounds, wish, arrived, strayed>>
-----------------------------------------------------------------------------
(* submit.                                                                   *)

\* submit stops the delayed save and calls the server with what the form holds;
\* without a connection the call fails at once.
Submits(a, draft, by, connected) ==
  /\ attempt[a].pc = "free"
  /\ form' = [form EXCEPT !.sent = TRUE]
  /\ attempt' = [attempt EXCEPT ![a] =
       [pc |-> IF connected THEN "calls" ELSE "fails", text |-> form.text, draft |-> draft,
        of |-> opens, wish |-> by]]
  /\ strayed' = (strayed \/ \E b \in Attempts : UnderWay(b))

\* The two buttons, which are disabled while a call of this screen runs.
Press(a, draft) ==
  /\ form.open /\ form.text # 0 /\ ~Busy /\ presses < MaxPresses
  /\ presses' = presses + 1
  /\ wish' = IF draft THEN "draft" ELSE "send"
  /\ Submits(a, draft, wish', online)
  /\ UNCHANGED <<timer, store, ops, online, made, typed, opens, flaps, kept, arrived, missed>>

\* Fault: the listener is bound once, at the first render, when nothing waits.
NeverRetries == FALSE

\* The listener of the event `online` is bound while the banner says pending; an
\* event that comes before that is heard by nobody.
Retries == form.open /\ form.banner = "pending"

Reconnect ==
  /\ ~online
  /\ online' = TRUE
  /\ IF Retries THEN missed' = FALSE /\ \E a \in Attempts : Submits(a, FALSE, wish, TRUE)
     ELSE UNCHANGED <<form, attempt, missed, strayed>>
  /\ UNCHANGED <<timer, store, ops, made, bounds, told>>

Disconnect ==
  /\ online /\ flaps < MaxFlaps
  /\ online' = FALSE /\ flaps' = flaps + 1
  /\ UNCHANGED <<form, timer, store, ops, attempt, made, typed, opens, presses, told, faults>>

Goes(a, pc) == attempt' = [attempt EXCEPT ![a].pc = pc]

\* createTicketAction: the ticket is created, or an error is returned as a value,
\* or the action throws.  A page that died does not hear of it.
Serve(a) ==
  /\ attempt[a].pc \in {"calls", "abandoned"}
  /\ \E result \in {"ok", "refused", "thrown"} :
       /\ attempt' = IF attempt[a].pc = "abandoned" THEN [attempt EXCEPT ![a] = Free]
                     ELSE [attempt EXCEPT ![a].pc = result]
       /\ made' = IF result = "ok"
                  THEN made \cup {[text |-> attempt[a].text, draft |-> attempt[a].draft,
                                   wish |-> attempt[a].wish]}
                  ELSE made
  /\ UNCHANGED <<form, timer, store, ops, online, bounds, told, faults>>

\* The request or its answer is lost: for good when there is no connection, and
\* sometimes while the browser believes that there is one.
Lose(a) ==
  /\ attempt[a].pc \in {"calls", "ok", "refused", "thrown"}
  /\ IF online THEN flaps < MaxFlaps /\ flaps' = flaps + 1 ELSE flaps' = flaps
  /\ Goes(a, "fails")
  /\ UNCHANGED <<form, timer, store, ops, online, made, typed, opens, presses, told, faults>>

\* isNetworkFailure: the text of the call is kept, marked as waiting.
KeepsIt(a) == Append(ops, Op("put", attempt[a].text, TRUE, a))

Fails(a) ==
  /\ attempt[a].pc = "fails"
  /\ ops' = KeepsIt(a)
  /\ Goes(a, "saves")
  /\ UNCHANGED <<form, timer, store, online, made, bounds, told, faults>>

\* An error of the server that is not a value reaches the boundary of errors,
\* which takes the place of the screen.
Throws(a) ==
  /\ attempt[a].pc = "thrown" /\ online
  /\ attempt' = [attempt EXCEPT ![a] = Free]
  /\ IF Mine(a) THEN form' = Closed /\ timer' = 0 ELSE UNCHANGED <<form, timer>>
  /\ UNCHANGED <<store, ops, online, made, bounds, told, faults>>

\* Fault: whatever the server answered ends the draft.
RefusedClears(a) ==
  /\ attempt[a].pc = "refused" /\ online
  /\ ops' = Append(ops, Op("delete", 0, FALSE, a))
  /\ Goes(a, "clears")
  /\ UNCHANGED <<form, timer, store, online, made, bounds, told, faults>>

\* An error the user has to mend: the draft stays and the save runs again.
Refused(a) ==
  /\ attempt[a].pc = "refused" /\ online
  /\ attempt' = [attempt EXCEPT ![a] = Free]
  /\ form' = IF Mine(a) THEN [form EXCEPT !.sent = FALSE, !.banner = "none"] ELSE form
  /\ UNCHANGED <<timer, store, ops, online, made, bounds, told, faults>>

\* Success: the last save has to land before the draft is cleared ...
Succeeds(a) ==
  /\ attempt[a].pc = "ok" /\ online
  /\ Goes(a, "waits")
  /\ UNCHANGED <<form, timer, store, ops, online, made, bounds, told, faults>>

Clears(a) ==
  /\ attempt[a].pc = "waits" /\ ~Asked("put", "timer")
  /\ ops' = Append(ops, Op("delete", 0, FALSE, a))
  /\ Goes(a, "clears")
  /\ UNCHANGED <<form, timer, store, online, made, bounds, told, faults>>

\* ... and then the router leaves for the ticket, from whatever screen is open.
Pushes(a) ==
  /\ attempt[a].pc = "leaves"
  /\ attempt' = [attempt EXCEPT ![a] = Free]
  /\ form' = Closed /\ timer' = 0
  /\ arrived' = arrived \cup {attempt[a].text}
  /\ UNCHANGED <<store, ops, online, made, bounds, wish, kept, faults>>

Continues(a) ==
  \/ Fails(a) \/ Throws(a) \/ Refused(a) \/ Succeeds(a) \/ Clears(a) \/ Pushes(a)
-----------------------------------------------------------------------------
\* He goes to another screen: the timer is cancelled and the calls go on.
Leave ==
  /\ form.open
  /\ form' = Closed /\ timer' = 0
  /\ strayed' = (strayed \/ \E a \in Attempts : UnderWay(a))
  /\ UNCHANGED <<store, ops, attempt, online, made, bounds, told, missed>>

\* The browser is closed or reloaded: all that is left is the store, and a
\* request on its way to the server.
Die ==
  /\ form.open
  /\ form' = Closed /\ timer' = 0 /\ ops' = <<>>
  /\ attempt' = [a \in Attempts |->
       IF attempt[a].pc \in {"calls", "abandoned"} THEN [attempt[a] EXCEPT !.pc = "abandoned"] ELSE Free]
  /\ UNCHANGED <<store, online, made, bounds, told, faults>>

FormNext ==
  \/ Open \/ Type \/ TimerFires \/ Perform \/ Reconnect \/ Disconnect \/ Leave \/ Die
  \/ \E a \in Attempts : \/ Press(a, TRUE) \/ Press(a, FALSE)
                         \/ Serve(a) \/ Lose(a) \/ Continues(a)

\* The browser performs what it was asked for and the code after an await runs;
\* a request is served or lost; the phone finds its reception again.  Nobody has
\* to press anything.
Fairness ==
  /\ WF_formVars(Perform) /\ WF_formVars(Reconnect)
  /\ \A a \in Attempts : WF_formVars(Continues(a)) /\ WF_formVars(Serve(a) \/ Lose(a))

FormSpec == FormInit /\ [][FormNext]_formVars /\ Fairness
-----------------------------------------------------------------------------
AttemptType == [pc : Pcs, text : 0..MaxTexts, draft : BOOLEAN, of : 0..MaxOpens, wish : Wishes]

\* Every variable stays within its type.
FormTypeOK ==
  /\ form \in [open : BOOLEAN, restoring : BOOLEAN, text : 0..MaxTexts, banner : Banners, sent : BOOLEAN]
  /\ timer \in 0..MaxTexts
  /\ store \in [text : 0..MaxTexts, pending : BOOLEAN]
  /\ attempt \in [Attempts -> AttemptType]
  /\ online \in BOOLEAN /\ wish \in Wishes
  /\ missed \in BOOLEAN /\ strayed \in BOOLEAN
  /\ kept \in 0..MaxTexts /\ arrived \subseteq Texts
  /\ typed \in 0..MaxTexts /\ opens \in 0..MaxOpens
  /\ presses \in 0..MaxPresses /\ flaps \in 0..MaxFlaps

\* A text of which the screen said that it is kept until there is a connection
\* is in the browser or at the server, itself or as the user went on editing it -
\* through reloads, refusals and attempts that fail.  Not covered: a text given up
\* because its site is no longer offered, two attempts at a time, and a form left
\* while its call runs, where the end of one call clears what belongs to another.
NothingLost ==
  strayed \/ kept = 0 \/ store.text >= kept \/ \E m \in made : m.text >= kept

\* A ticket that was sent does not come back as the draft of the next one: once
\* the screen has left for the ticket, its text is neither in the store nor on
\* its way there.
NoGhost ==
  \A t \in arrived :
    \/ strayed
    \/ store.text # t /\ \A i \in DOMAIN ops : ops[i].op = "put" => ops[i].text # t

\* What waits for a connection goes out by itself, or comes back to the user as an
\* error: a screen left open does not wait for ever (tsx:400-410).  This is so only
\* when the screen began to wait without a connection.  The event comes once, and the
\* listener is bound after the text was saved: a screen that begins to wait when the
\* connection is back already, or was never seen to fall, waits until the next loss.
PendingGoesOut ==
  (form.open /\ form.banner = "pending") ~> (~form.open \/ form.banner # "pending" \/ missed)

\* "Saved as a draft.  Sent to nobody": a ticket that goes out to its recipients
\* is one that the user asked to send.
DraftStaysDraft == \A m \in made : ~m.draft => m.wish # "draft"
=============================================================================
