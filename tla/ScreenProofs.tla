---------------------------- MODULE ScreenProofs ----------------------------
(***************************************************************************)
(* Proofs about the two models of what the users see: TicketForm, the      *)
(* screen of a new ticket, for any number of attempts, texts, openings and *)
(* losses of the connection; and Board, the lists a ticket is found in,    *)
(* for any people, sites and recipients.                                   *)
(*                                                                         *)
(* The form.  The facts of Looked hold however the attempts overlap: the   *)
(* types, what the screen shows while it is closed or restored, who waits  *)
(* for what he asked of the store, that no text is later than the last one *)
(* typed, and that the server has what it answered.  While no attempt has  *)
(* strayed there is at most one under way, it is of the form on the        *)
(* screen, which is shut by it (Alone); therefore nothing is written after *)
(* what it asks of the store (Queue), the store keeps the latest text      *)
(* (Keeps), and nothing writes again what was sent (Gone).                 *)
(***************************************************************************)
EXTENDS TicketForm, Board, TLAPS

(***************************************************************************)
(* The form: its inductive invariant                                       *)
(***************************************************************************)
\* What may lie in the queue of the store, and who may have asked for it.
Request == [op : Ops, text : 0..MaxTexts, pending : BOOLEAN,
            by : Attempts \cup {"timer"} \cup 0..MaxOpens]
AskedBy(op, last) ==
  /\ op.op = "get" => op.by \in 1..last
  /\ op.op = "put" => op.by \in Attempts \cup {"timer"}
  /\ op.op = "delete" => op.by \in Attempts

\* Both are of one attempt, or both read for one opening.
SameAsker(o, p) ==
  /\ o.by = p.by
  /\ \/ o.op = "get" /\ p.op = "get"
     \/ o.op # "get" /\ p.op # "get" /\ o.by \in Attempts

TypeInv ==
  /\ FormTypeOK
  /\ made \subseteq [text : 0..MaxTexts, draft : BOOLEAN, wish : Wishes]
  /\ ops \in Seq(Request)
  /\ \A i \in DOMAIN ops : AskedBy(ops[i], opens)

\* The screen: it is empty while closed and while it is restored, the timer
\* holds the text on it, and a call that is under way was made with a text.
Screen ==
  /\ ~form.open => form.text = 0 /\ form.banner = "none" /\ ~form.restoring
  /\ timer # 0 => timer = form.text
  /\ form.restoring => form.text = 0 /\ form.banner = "none"
  /\ form.banner = "pending" => form.text # 0
  /\ \A a \in Attempts : UnderWay(a) => attempt[a].text # 0 /\ attempt[a].of <= opens
  /\ \A a \in Attempts : UnderWay(a) /\ Mine(a) => form.text # 0 /\ ~form.restoring

\* Each opening of the screen reads the store once, and an attempt waits for
\* what it asked of the store.
Waits ==
  /\ \A i \in DOMAIN ops :
       ops[i].op = "get" /\ ops[i].by = opens /\ form.open => form.restoring
  /\ \A i \in DOMAIN ops : ops[i].op = "put" /\ ops[i].by \in Attempts =>
       attempt[ops[i].by].pc = "saves" /\ attempt[ops[i].by].text = ops[i].text
  /\ \A i \in DOMAIN ops : ops[i].op = "delete" => attempt[ops[i].by].pc = "clears"
  /\ \A i, j \in DOMAIN ops : SameAsker(ops[i], ops[j]) => i = j

\* A text is somewhere when it could still be shown, saved or sent.
Puts == {i \in DOMAIN ops : ops[i].op = "put"}
Somewhere(t) ==
  \/ form.text = t \/ store.text = t
  \/ \E i \in Puts : ops[i].text = t
  \/ \E a \in Attempts : UnderWay(a) /\ attempt[a].text = t

\* No text is later than the last one typed, and the empty form is not saved.
Known ==
  /\ \A t \in Texts : Somewhere(t) => t <= typed
  /\ kept <= typed
  /\ \A t \in arrived : t <= typed
  /\ \A i \in Puts : ops[i].text # 0

\* What the server answered with success it has.
Answered(a) == attempt[a].pc \in {"ok", "waits", "clears", "leaves"}
Confirmed ==
  \A a \in Attempts : Answered(a) => \E m \in made : m.text = attempt[a].text

\* The one call under way is of the form on the screen, and of its text or an
\* earlier one.
Alone ==
  /\ \A a, b \in Attempts : UnderWay(a) /\ UnderWay(b) => a = b
  /\ \A a \in Attempts : UnderWay(a) =>
       form.open /\ attempt[a].of = opens /\ form.sent /\ attempt[a].text <= form.text

\* What an attempt asks of the store comes after everything the timer asked, and
\* nothing is written any more once it has cleared the store.
Queue ==
  /\ \A i, j \in Puts : ops[i].by \in Attempts => j <= i
  /\ \A a \in Attempts : attempt[a].pc \in {"clears", "leaves"} => Puts = {}
  /\ \A a \in Attempts : attempt[a].pc = "leaves" => store.text = 0

\* Until the server has it, the text that was said to be kept is in the store,
\* and nowhere is an earlier one that could replace it.
Reached == \E m \in made : m.text >= kept
Keeps ==
  \/ kept = 0 \/ Reached
  \/ store.text >= kept /\ \A t \in Texts : Somewhere(t) => t >= kept

\* A text whose ticket the screen was left for is nowhere any more.
Gone == \A t \in arrived : ~Somewhere(t)

Looked == TypeInv /\ Screen /\ Waits /\ Known /\ Confirmed
FormInv == Looked /\ (~strayed => Alone /\ Queue /\ Keeps /\ Gone)

-----------------------------------------------------------------------------
(* The queue of the store *)

LEMMA Appended ==
  ASSUME NEW S, NEW s \in Seq(S), NEW e \in S
  PROVE  /\ Append(s, e) \in Seq(S)
         /\ DOMAIN s = 1 .. Len(s) /\ Len(s) \in Nat
         /\ DOMAIN Append(s, e) = 1 .. Len(s) + 1
         /\ \A i \in DOMAIN s : Append(s, e)[i] = s[i]
         /\ Append(s, e)[Len(s) + 1] = e
OBVIOUS

LEMMA Tailed ==
  ASSUME NEW S, NEW s \in Seq(S), s # <<>>
  PROVE  /\ Tail(s) \in Seq(S) /\ Head(s) = s[1] /\ 1 \in DOMAIN s
         /\ DOMAIN s = 1 .. Len(s) /\ Len(s) \in Nat \ {0}
         /\ DOMAIN Tail(s) = 1 .. Len(s) - 1
         /\ \A i \in DOMAIN Tail(s) : i + 1 \in DOMAIN s /\ Tail(s)[i] = s[i + 1]
OBVIOUS

-----------------------------------------------------------------------------
(* Types *)

ScreenType == [open : BOOLEAN, restoring : BOOLEAN, text : 0..MaxTexts, banner : Banners, sent : BOOLEAN]
StoreType  == [text : 0..MaxTexts, pending : BOOLEAN]

LEMMA Rests ==
  /\ Closed \in [open : BOOLEAN, restoring : BOOLEAN, text : 0..MaxTexts, banner : Banners, sent : BOOLEAN]
  /\ ~Closed.open /\ ~Closed.restoring /\ Closed.text = 0 /\ Closed.banner = "none" /\ ~Closed.sent
  /\ Nothing \in [text : 0..MaxTexts, pending : BOOLEAN] /\ Nothing.text = 0
  /\ Free \in AttemptType /\ Free.pc = "free" /\ Free.text = 0 /\ Free.of = 0
  /\ MaxTexts \in Nat /\ MaxOpens \in Nat /\ MaxPresses \in Nat /\ MaxFlaps \in Nat
  /\ 0 \in 0..MaxTexts /\ 0 \in 0..MaxOpens /\ 0 \in 0..MaxPresses /\ 0 \in 0..MaxFlaps
BY BoundsAssumption DEF Closed, Nothing, Free, AttemptType, Banners, Pcs, Wishes

\* What the attempts look like after one of them went on.
LEMMA WentOn ==
  ASSUME FormTypeOK, NEW a \in Attempts, NEW pc \in Pcs, Goes(a, pc)
  PROVE  /\ attempt' \in [Attempts -> AttemptType]
         /\ attempt'[a].pc = pc /\ attempt'[a].text = attempt[a].text
         /\ attempt'[a].of = attempt[a].of
         /\ \A b \in Attempts \ {a} : attempt'[b] = attempt[b]
BY DEF Goes, FormTypeOK, AttemptType

\* And after one of them ended.
LEMMA Freed ==
  ASSUME FormTypeOK, NEW a \in Attempts, attempt' = [attempt EXCEPT ![a] = Free]
  PROVE  /\ attempt' \in [Attempts -> AttemptType]
         /\ attempt'[a] = Free /\ ~UnderWay(a)'
         /\ \A b \in Attempts \ {a} : attempt'[b] = attempt[b]
BY Rests DEF FormTypeOK, UnderWay

\* And after one began.
Begins(a) == \E draft, connected \in BOOLEAN, by \in Wishes : Submits(a, draft, by, connected)

LEMMA Began ==
  ASSUME FormTypeOK, NEW a \in Attempts, Begins(a)
  PROVE  /\ attempt' \in [Attempts -> AttemptType]
         /\ attempt'[a].pc \in {"calls", "fails"} /\ attempt'[a].text = form.text
         /\ attempt'[a].of = opens
         /\ \A b \in Attempts \ {a} : attempt'[b] = attempt[b]
         /\ form' \in ScreenType
         /\ form'.open = form.open /\ form'.restoring = form.restoring /\ form'.text = form.text
         /\ form'.banner = form.banner /\ form'.sent
         /\ strayed' \in BOOLEAN /\ (strayed => strayed')
         /\ ~strayed' => \A b \in Attempts : ~UnderWay(b)
<1> PICK draft \in BOOLEAN, connected \in BOOLEAN, by \in Wishes : Submits(a, draft, by, connected)
  BY DEF Begins
<1>1. [pc |-> IF connected THEN "calls" ELSE "fails", text |-> form.text, draft |-> draft,
       of |-> opens, wish |-> by] \in AttemptType
  BY DEF FormTypeOK, AttemptType, Pcs
<1> QED
  BY <1>1 DEF FormTypeOK, Submits, ScreenType

LEMMA Enqueued ==
  ASSUME TypeInv, NEW op \in Request, ops' = Append(ops, op), AskedBy(op, opens'),
         opens' \in 0..MaxOpens, opens <= opens'
  PROVE  ops' \in Seq(Request) /\ \A i \in DOMAIN ops' : AskedBy(ops'[i], opens')
<1>1. ops \in Seq(Request) /\ \A i \in DOMAIN ops : AskedBy(ops[i], opens)
  BY DEF TypeInv
<1>2. /\ ops' \in Seq(Request)
      /\ DOMAIN ops = 1 .. Len(ops) /\ Len(ops) \in Nat
      /\ DOMAIN ops' = 1 .. Len(ops) + 1
      /\ \A i \in DOMAIN ops : ops'[i] = ops[i]
      /\ ops'[Len(ops) + 1] = op
  BY <1>1, Appended
<1>3. ASSUME NEW i \in DOMAIN ops'
      PROVE  AskedBy(ops'[i], opens')
  <2>1. CASE i = Len(ops) + 1
    BY <1>2, <2>1
  <2>2. CASE i # Len(ops) + 1
    <3>1. i \in DOMAIN ops
      BY <1>2, <2>2
    <3>2. AskedBy(ops[i], opens) /\ ops'[i] = ops[i]
      BY <1>1, <1>2, <3>1
    <3>3. 1..opens \subseteq 1..opens'
      BY Rests DEF TypeInv, FormTypeOK
    <3> QED
      BY <3>2, <3>3 DEF AskedBy
  <2> QED
    BY <2>1, <2>2
<1> QED
  BY <1>2, <1>3

LEMMA Dequeued ==
  ASSUME TypeInv, ops # <<>>, ops' = Tail(ops), opens' = opens
  PROVE  ops' \in Seq(Request) /\ \A i \in DOMAIN ops' : AskedBy(ops'[i], opens')
<1>1. ops \in Seq(Request) /\ \A i \in DOMAIN ops : AskedBy(ops[i], opens)
  BY DEF TypeInv
<1>2. /\ ops' \in Seq(Request)
      /\ \A i \in DOMAIN ops' : i + 1 \in DOMAIN ops /\ ops'[i] = ops[i + 1]
  BY <1>1, Tailed
<1>3. \A i \in DOMAIN ops' : AskedBy(ops'[i], opens')
  BY <1>1, <1>2 DEF AskedBy
<1> QED
  BY <1>2, <1>3

\* The request at the head of the queue.
LEMMA AtHead ==
  ASSUME TypeInv, ops # <<>>
  PROVE  /\ Head(ops) \in Request /\ AskedBy(Head(ops), opens)
         /\ 1 \in DOMAIN ops /\ Head(ops) = ops[1]
BY Tailed DEF TypeInv

LEMMA FormTypeInit == FormInit => TypeInv
<1> SUFFICES ASSUME FormInit PROVE TypeInv
  OBVIOUS
<1>1. attempt \in [Attempts -> AttemptType]
  BY Rests DEF FormInit
<1>2. ops \in Seq(Request) /\ DOMAIN ops = {}
  BY DEF FormInit
<1>3. FormTypeOK
  BY <1>1, Rests DEF FormInit, FormTypeOK, Wishes
<1> QED
  BY <1>2, <1>3 DEF FormInit, TypeInv

\* A step keeps the types if it keeps those of the screen, the attempts and the queue.
LEMMA TypeKept ==
  ASSUME TypeInv, form' \in ScreenType, timer' \in 0..MaxTexts, store' \in StoreType,
         attempt' \in [Attempts -> AttemptType],
         online' \in BOOLEAN, wish' \in Wishes, missed' \in BOOLEAN, strayed' \in BOOLEAN,
         kept' \in 0..MaxTexts, arrived' \subseteq Texts,
         typed' \in 0..MaxTexts, opens' \in 0..MaxOpens, opens <= opens',
         presses' \in 0..MaxPresses, flaps' \in 0..MaxFlaps,
         made' \subseteq [text : 0..MaxTexts, draft : BOOLEAN, wish : Wishes],
         \/ ops' = ops
         \/ ops' = <<>>
         \/ ops # <<>> /\ ops' = Tail(ops) /\ opens' = opens
         \/ \E op \in Request : ops' = Append(ops, op) /\ AskedBy(op, opens')
  PROVE  TypeInv'
<1>1. ops' \in Seq(Request) /\ \A i \in DOMAIN ops' : AskedBy(ops'[i], opens')
  <2>1. CASE ops' = ops
    <3>1. 1..opens \subseteq 1..opens'
      BY Rests DEF TypeInv, FormTypeOK
    <3> QED
      BY <2>1, <3>1 DEF TypeInv, AskedBy
  <2>2. CASE ops' = <<>>
    BY <2>2
  <2> QED
    BY <2>1, <2>2, Enqueued, Dequeued
<1>2. FormTypeOK'
  BY DEF FormTypeOK, ScreenType, StoreType
<1> QED
  BY <1>1, <1>2 DEF TypeInv

\* The steps of the screen and of the timer.
LEMMA TypeScreen ==
  ASSUME TypeInv, Open \/ Type \/ TimerFires \/ Leave \/ Die \/ Disconnect
  PROVE  TypeInv'
<1>0. /\ form \in ScreenType /\ store \in StoreType /\ attempt \in [Attempts -> AttemptType]
      /\ Closed \in ScreenType
  BY Rests DEF TypeInv, FormTypeOK, ScreenType, StoreType
<1>1. CASE Open
  <2>1. opens' \in 0..MaxOpens /\ opens <= opens' /\ opens' \in 1..opens'
    BY <1>1, Rests DEF Open, TypeInv, FormTypeOK
  <2>2. Op("get", 0, FALSE, opens + 1) \in Request /\ AskedBy(Op("get", 0, FALSE, opens + 1), opens')
    BY <1>1, <2>1, Rests DEF Open, Op, Request, AskedBy, Ops
  <2>3. form' \in ScreenType
    BY <1>0, <1>1 DEF Open, ScreenType
  <2> QED
    BY <1>0, <1>1, <2>1, <2>2, <2>3, TypeKept DEF Open, told, faults, TypeInv, FormTypeOK
<1>2. CASE Type
  <2>1. typed' \in 0..MaxTexts /\ typed + 1 \in 0..MaxTexts
    BY <1>2, Rests DEF Type, TypeInv, FormTypeOK
  <2>2. form' \in ScreenType
    BY <1>0, <1>2, <2>1 DEF Type, ScreenType
  <2> QED
    BY <1>0, <1>2, <2>1, <2>2, TypeKept DEF Type, told, faults, TypeInv, FormTypeOK
<1>3. CASE TimerFires
  <2>1. Op("put", timer, FALSE, "timer") \in Request /\ AskedBy(Op("put", timer, FALSE, "timer"), opens')
    BY DEF Op, Request, AskedBy, Ops, TypeInv, FormTypeOK
  <2>2. ops' = ops \/ \E op \in Request : ops' = Append(ops, op) /\ AskedBy(op, opens')
    BY <1>3, <2>1, Zenon DEF TimerFires
  <2>3. opens <= opens' /\ timer' \in 0..MaxTexts
    BY <1>3, Rests DEF TimerFires, bounds, TypeInv, FormTypeOK
  <2> QED
    BY <1>0, <1>3, <2>2, <2>3, TypeKept DEF TimerFires, told, faults, bounds, TypeInv, FormTypeOK
<1>4. CASE Leave
  BY <1>0, <1>4, Rests, TypeKept DEF Leave, told, bounds, TypeInv, FormTypeOK
<1>5. CASE Die
  <2>1. attempt' \in [Attempts -> AttemptType]
    <3>1. ASSUME NEW a \in Attempts
          PROVE  [attempt[a] EXCEPT !.pc = "abandoned"] \in AttemptType
      BY <1>0 DEF AttemptType, Pcs
    <3> QED
      BY <1>0, <1>5, <3>1, Rests DEF Die
  <2> QED
    BY <1>0, <1>5, <2>1, Rests, TypeKept DEF Die, told, faults, bounds, TypeInv, FormTypeOK
<1>6. CASE Disconnect
  <2>1. flaps' \in 0..MaxFlaps
    BY <1>6, Rests DEF Disconnect, TypeInv, FormTypeOK
  <2> QED
    BY <1>0, <1>6, <2>1, TypeKept DEF Disconnect, told, faults, TypeInv, FormTypeOK
<1> QED
  BY <1>1, <1>2, <1>3, <1>4, <1>5, <1>6

\* The steps of the store.
LEMMA TypePerform ==
  ASSUME TypeInv, Perform
  PROVE  TypeInv'
<1> DEFINE head == Head(ops)
<1>0. /\ form \in ScreenType /\ store \in StoreType /\ attempt \in [Attempts -> AttemptType]
      /\ Closed \in ScreenType /\ kept \in 0..MaxTexts /\ timer \in 0..MaxTexts
  BY Rests DEF TypeInv, FormTypeOK, ScreenType, StoreType
<1>1. head \in Request /\ AskedBy(head, opens) /\ ops # <<>>
  BY AtHead DEF Perform
<1>2. /\ form' \in ScreenType /\ timer' \in 0..MaxTexts /\ store' \in StoreType
      /\ attempt' \in [Attempts -> AttemptType] /\ kept' \in 0..MaxTexts
      /\ missed' \in BOOLEAN
  <2>0. online \in BOOLEAN /\ missed \in BOOLEAN
    BY DEF TypeInv, FormTypeOK
  <2>1. ASSUME NEW taken \in BOOLEAN, Restore(head, taken)
        PROVE  form' \in ScreenType /\ timer' \in 0..MaxTexts
    <3>1. CASE form.open /\ head.by = opens
      <4>1. form' \in ScreenType
        BY <1>0, <2>1, <3>1, Rests DEF Restore, ScreenType, StoreType, Banners
      <4> QED
        BY <2>1, <3>1, <4>1 DEF Restore, ScreenType
    <3> QED
      BY <1>0, <2>1, <3>1 DEF Restore
  <2>2. CASE head.op = "get" /\ \E taken \in BOOLEAN : Restore(head, taken)
    BY <1>0, <2>0, <2>1, <2>2, Rests DEF Restore
  <2>3. CASE head.op = "put" /\ Put(head)
    <3>1. store' \in StoreType
      BY <1>1, <2>3 DEF Put, StoreType, Request
    <3>2. attempt' \in [Attempts -> AttemptType]
      BY <1>0, <2>3, Rests DEF Put
    <3>3. form' \in ScreenType
      BY <1>0, <2>3 DEF Put, ScreenType, Banners
    <3>4. kept' \in 0..MaxTexts
      BY <1>0, <1>1, <2>3 DEF Put, Request
    <3> QED
      BY <1>0, <2>0, <2>3, <3>1, <3>2, <3>3, <3>4 DEF Put
  <2>4. CASE head.op = "delete" /\ Delete(head)
    <3>1. attempt' \in [Attempts -> AttemptType]
      BY <1>0, <1>1, <2>4 DEF Delete, AttemptType, Pcs, AskedBy
    <3>2. store' \in StoreType
      BY <2>4, Rests DEF Delete, StoreType
    <3> QED
      BY <1>0, <2>0, <2>4, <3>1, <3>2 DEF Delete
  <2> QED
    BY <2>2, <2>3, <2>4 DEF Perform
<1>3. UNCHANGED <<online, made, typed, opens, presses, flaps, wish, arrived, strayed>>
  BY DEF Perform, bounds
<1>4. opens <= opens' /\ ops' = Tail(ops)
  BY <1>3, Rests DEF Perform, TypeInv, FormTypeOK
<1> HIDE DEF head
<1> QED
  BY <1>1, <1>2, <1>3, <1>4, TypeKept DEF TypeInv, FormTypeOK

\* The steps of an attempt.
LEMMA TypeAttempt ==
  ASSUME TypeInv, Screen, NEW a \in Attempts,
         \/ \E draft \in BOOLEAN : Press(a, draft)
         \/ Serve(a) \/ Lose(a) \/ Continues(a)
  PROVE  TypeInv'
<1>0. /\ form \in ScreenType /\ store \in StoreType /\ attempt \in [Attempts -> AttemptType]
      /\ Closed \in ScreenType /\ timer \in 0..MaxTexts /\ 0 \in 0..MaxTexts /\ FormTypeOK
  BY Rests DEF TypeInv, FormTypeOK, ScreenType, StoreType
<1>1. opens' = opens => opens <= opens'
  BY Rests DEF TypeInv, FormTypeOK
<1>2. ASSUME NEW draft \in BOOLEAN, Press(a, draft)
      PROVE  TypeInv'
  <2>1. presses' \in 0..MaxPresses /\ wish' \in Wishes
    BY <1>2, Rests DEF Press, Wishes, TypeInv, FormTypeOK
  <2>2. /\ attempt' \in [Attempts -> AttemptType] /\ form' \in ScreenType /\ strayed' \in BOOLEAN
    <3>1. online \in BOOLEAN /\ Submits(a, draft, wish', online)
      BY <1>2 DEF Press, TypeInv, FormTypeOK
    <3>2. Begins(a)
      BY <2>1, <3>1, Zenon DEF Begins
    <3> QED
      BY <1>0, <3>2, Began
  <2> QED
    BY <1>0, <1>1, <1>2, <2>1, <2>2, TypeKept DEF Press, TypeInv, FormTypeOK
<1>3. CASE Serve(a)
  <2>1. attempt' \in [Attempts -> AttemptType]
    BY <1>0, <1>3, Rests DEF Serve, AttemptType, Pcs
  <2>2. [text |-> attempt[a].text, draft |-> attempt[a].draft, wish |-> attempt[a].wish]
          \in [text : 0..MaxTexts, draft : BOOLEAN, wish : Wishes]
    BY <1>0 DEF AttemptType
  <2>3. made' \subseteq [text : 0..MaxTexts, draft : BOOLEAN, wish : Wishes]
    BY <1>3, <2>2 DEF Serve, TypeInv
  <2> QED
    BY <1>0, <1>1, <1>3, <2>1, <2>3, TypeKept DEF Serve, bounds, told, faults, TypeInv, FormTypeOK
<1>4. CASE Lose(a)
  <2>1. attempt' \in [Attempts -> AttemptType]
    BY <1>0, <1>4, WentOn DEF Lose, Pcs
  <2>2. flaps' \in 0..MaxFlaps
    BY <1>4, Rests DEF Lose, TypeInv, FormTypeOK
  <2> QED
    BY <1>0, <1>1, <1>4, <2>1, <2>2, TypeKept DEF Lose, told, faults, TypeInv, FormTypeOK
<1>5. CASE Fails(a)
  <2>1. attempt' \in [Attempts -> AttemptType]
    BY <1>0, <1>5, WentOn DEF Fails, Pcs
  <2>2. Op("put", attempt[a].text, TRUE, a) \in Request
        /\ AskedBy(Op("put", attempt[a].text, TRUE, a), opens')
    BY <1>0 DEF Op, Request, AskedBy, Ops, AttemptType
  <2> QED
    BY <1>0, <1>1, <1>5, <2>1, <2>2, TypeKept DEF Fails, KeepsIt, bounds, told, faults, TypeInv, FormTypeOK
<1>6. CASE Throws(a)
  <2>1. attempt' \in [Attempts -> AttemptType]
    BY <1>0, <1>6, Freed DEF Throws
  <2> QED
    BY <1>0, <1>1, <1>6, <2>1, TypeKept DEF Throws, bounds, told, faults, TypeInv, FormTypeOK
<1>7. CASE Refused(a)
  <2>1. attempt' \in [Attempts -> AttemptType]
    BY <1>0, <1>7, Freed DEF Refused
  <2>2. form' \in ScreenType
    BY <1>0, <1>7 DEF Refused, ScreenType, Banners
  <2> QED
    BY <1>0, <1>1, <1>7, <2>1, <2>2, TypeKept DEF Refused, bounds, told, faults, TypeInv, FormTypeOK
<1>8. CASE Succeeds(a)
  <2>1. attempt' \in [Attempts -> AttemptType]
    BY <1>0, <1>8, WentOn DEF Succeeds, Pcs
  <2> QED
    BY <1>0, <1>1, <1>8, <2>1, TypeKept DEF Succeeds, bounds, told, faults, TypeInv, FormTypeOK
<1>9. CASE Clears(a)
  <2>1. attempt' \in [Attempts -> AttemptType]
    BY <1>0, <1>9, WentOn DEF Clears, Pcs
  <2>2. Op("delete", 0, FALSE, a) \in Request /\ AskedBy(Op("delete", 0, FALSE, a), opens')
    BY Rests DEF Op, Request, AskedBy, Ops
  <2> QED
    BY <1>0, <1>1, <1>9, <2>1, <2>2, TypeKept DEF Clears, bounds, told, faults, TypeInv, FormTypeOK
<1>10. CASE Pushes(a)
  <2>1. attempt' \in [Attempts -> AttemptType]
    BY <1>0, <1>10, Freed DEF Pushes
  <2>2. attempt[a].text \in Texts
    <3>1. attempt[a].text # 0 /\ attempt[a].text \in 0..MaxTexts
      BY <1>0, <1>10 DEF Pushes, Screen, UnderWay, AttemptType
    <3> QED
      BY <3>1, Rests DEF Texts
  <2> QED
    BY <1>0, <1>1, <1>10, <2>1, <2>2, TypeKept DEF Pushes, bounds, told, faults, TypeInv, FormTypeOK
<1> QED
  BY <1>2, <1>3, <1>4, <1>5, <1>6, <1>7, <1>8, <1>9, <1>10 DEF Continues

LEMMA TypeReconnect ==
  ASSUME TypeInv, Reconnect
  PROVE  TypeInv'
<1>0. /\ form \in ScreenType /\ store \in StoreType /\ attempt \in [Attempts -> AttemptType]
      /\ FormTypeOK /\ wish \in Wishes /\ strayed \in BOOLEAN /\ opens <= opens
  BY Rests DEF TypeInv, FormTypeOK, ScreenType, StoreType
<1>1. attempt' \in [Attempts -> AttemptType] /\ form' \in ScreenType /\ strayed' \in BOOLEAN
  <2>1. CASE Retries
    <3> PICK a \in Attempts : Submits(a, FALSE, wish, TRUE)
      BY <2>1 DEF Reconnect
    <3>1. Begins(a)
      BY <1>0, Zenon DEF Begins
    <3> QED
      BY <1>0, <3>1, Began
  <2> QED
    BY <1>0, <2>1 DEF Reconnect
<1> QED
  BY <1>0, <1>1, TypeKept DEF Reconnect, bounds, told, TypeInv, FormTypeOK

LEMMA FormTypeNext ==
  ASSUME TypeInv, Screen, [FormNext]_formVars
  PROVE  TypeInv'
<1>1. CASE UNCHANGED formVars
  BY <1>1 DEF formVars, TypeInv, FormTypeOK
<1>2. CASE FormNext
  BY <1>2, TypeScreen, TypePerform, TypeAttempt, TypeReconnect DEF FormNext
<1> QED
  BY <1>1, <1>2

-----------------------------------------------------------------------------
(* What a step does to one attempt *)

Stays(a) == attempt'[a] = attempt[a]
Ends(a)  == attempt'[a] = Free
Courses ==
  {<<"calls", "abandoned">>, <<"abandoned", "abandoned">>,
   <<"calls", "ok">>, <<"calls", "refused">>, <<"calls", "thrown">>,
   <<"calls", "fails">>, <<"ok", "fails">>, <<"refused", "fails">>, <<"thrown", "fails">>,
   <<"fails", "saves">>, <<"ok", "waits">>, <<"waits", "clears">>, <<"clears", "leaves">>}
GoesOn(a) ==
  /\ attempt'[a].text = attempt[a].text /\ attempt'[a].of = attempt[a].of
  /\ <<attempt[a].pc, attempt'[a].pc>> \in Courses

\* An attempt that begins has the text of a screen that waited for it.
Starts(a) ==
  /\ attempt[a].pc = "free"
  /\ attempt'[a].pc \in {"calls", "fails"} /\ attempt'[a].text = form.text /\ attempt'[a].of = opens
  /\ form.open /\ form.text # 0 /\ ~form.restoring
  /\ form'.open = form.open /\ form'.restoring = form.restoring /\ form'.text = form.text
  /\ form'.sent /\ form'.banner = form.banner
  /\ UNCHANGED <<timer, store, ops, made, typed, opens, kept, arrived>>
  /\ ~strayed' => ~strayed /\ \A b \in Attempts : ~UnderWay(b)
  /\ \A b \in Attempts \ {a} : Stays(b)

LEMMA StartIs ==
  ASSUME TypeInv, Screen, NEW a \in Attempts, Begins(a),
         form.open, form.text # 0,
         UNCHANGED <<timer, store, ops, made, typed, opens, kept, arrived>>
  PROVE  Starts(a)
<1>1. attempt[a].pc = "free"
  BY DEF Begins, Submits
<1>2. ~form.restoring
  BY DEF Screen
<1> QED
  BY <1>1, <1>2, Began DEF Starts, Stays, TypeInv, FormTypeOK

LEMMA PressStarts ==
  ASSUME TypeInv, Screen, NEW a \in Attempts, NEW draft \in BOOLEAN, Press(a, draft)
  PROVE  Starts(a)
<1>1. wish' \in Wishes /\ online \in BOOLEAN
  BY DEF Press, Wishes, TypeInv, FormTypeOK
<1>2. Begins(a)
  BY <1>1, Zenon DEF Press, Begins
<1>3. form.open /\ form.text # 0 /\ UNCHANGED <<timer, store, ops, made, typed, opens, kept, arrived>>
  BY DEF Press
<1> QED
  BY <1>2, <1>3, StartIs

LEMMA ReconnectStarts ==
  ASSUME TypeInv, Screen, Reconnect
  PROVE  \/ \E a \in Attempts : Starts(a)
         \/ UNCHANGED <<form, attempt, strayed, timer, store, ops, made, typed, opens, kept, arrived>>
<1>1. UNCHANGED <<timer, store, ops, made, typed, opens, kept, arrived>>
  BY DEF Reconnect, bounds, told
<1>2. CASE Retries
  <2>1. PICK a \in Attempts : Submits(a, FALSE, wish, TRUE)
    BY <1>2 DEF Reconnect
  <2>2. wish \in Wishes
    BY DEF TypeInv, FormTypeOK
  <2>3. Begins(a)
    BY <2>1, <2>2, Zenon DEF Begins
  <2>4. form.open /\ form.text # 0
    BY <1>2 DEF Retries, Screen
  <2> QED
    BY <1>1, <2>3, <2>4, StartIs
<1> QED
  BY <1>1, <1>2 DEF Reconnect

\* What the store does to the attempt that asked it.
LEMMA PerformMoves ==
  ASSUME TypeInv, Waits, Perform, NEW a \in Attempts
  PROVE  \/ Stays(a)
         \/ Ends(a) /\ Head(ops).op = "put" /\ Head(ops).by = a /\ attempt[a].pc = "saves"
         \/ GoesOn(a) /\ Head(ops).op = "delete" /\ attempt[a].pc = "clears" /\ attempt'[a].pc = "leaves"
<1> DEFINE head == Head(ops)
<1>1. /\ head \in Request /\ AskedBy(head, opens)
      /\ head.op = "put" /\ head.by \in Attempts => attempt[head.by].pc = "saves"
      /\ head.op = "delete" => attempt[head.by].pc = "clears"
  BY AtHead DEF Perform, Waits
<1>2. attempt \in [Attempts -> AttemptType]
  BY DEF TypeInv, FormTypeOK
<1>3. ASSUME NEW taken \in BOOLEAN, Restore(head, taken)
      PROVE  Stays(a)
  BY <1>3 DEF Restore, Stays
<1>4. CASE head.op = "put" /\ Put(head)
  BY <1>1, <1>2, <1>4 DEF Put, Stays, Ends
<1>5. CASE head.op = "delete" /\ Delete(head)
  <2>1. CASE a = head.by
    BY <1>1, <1>2, <1>5, <2>1 DEF Delete, GoesOn, Courses, AttemptType
  <2>2. CASE a # head.by
    BY <1>1, <1>2, <1>5, <2>2 DEF Delete, Stays
  <2> QED
    BY <2>1, <2>2
<1> QED
  BY <1>3, <1>4, <1>5 DEF Perform

LEMMA Moves ==
  ASSUME TypeInv, Screen, Waits, FormNext, NEW a \in Attempts
  PROVE  Stays(a) \/ Ends(a) \/ GoesOn(a) \/ Starts(a)
<1>1. attempt \in [Attempts -> AttemptType] /\ FormTypeOK
  BY DEF TypeInv, FormTypeOK
<1>2. CASE Open \/ Type \/ TimerFires \/ Disconnect \/ Leave
  BY <1>2 DEF Open, Type, TimerFires, Disconnect, Leave, Stays
<1>3. CASE Perform
  BY <1>3, PerformMoves
<1>4. CASE Reconnect
  BY <1>4, ReconnectStarts DEF Starts, Stays
<1>5. CASE Die
  BY <1>1, <1>5 DEF Die, GoesOn, Ends, Courses, AttemptType
<1>6. ASSUME NEW b \in Attempts, NEW draft \in BOOLEAN, Press(b, draft)
      PROVE  Starts(a) \/ Stays(a)
  BY <1>6, PressStarts DEF Starts
<1>7. ASSUME NEW b \in Attempts, Serve(b) \/ Lose(b)
      PROVE  Stays(a) \/ GoesOn(a) \/ Ends(a)
  BY <1>1, <1>7 DEF Serve, Lose, Goes, Stays, GoesOn, Ends, Courses, AttemptType
<1>8. ASSUME NEW b \in Attempts, Fails(b) \/ Succeeds(b) \/ Clears(b)
      PROVE  Stays(a) \/ GoesOn(a)
  <2>1. PICK pc \in Pcs : Goes(b, pc) /\ <<attempt[b].pc, pc>> \in Courses
    BY <1>8 DEF Fails, Succeeds, Clears, Courses, Pcs
  <2> QED
    BY <1>1, <2>1, WentOn DEF Stays, GoesOn
<1>9. ASSUME NEW b \in Attempts, Throws(b) \/ Refused(b) \/ Pushes(b)
      PROVE  Stays(a) \/ Ends(a)
  BY <1>1, <1>9 DEF Throws, Refused, Pushes, Stays, Ends
<1> QED
  BY <1>2, <1>3, <1>4, <1>5, <1>6, <1>7, <1>8, <1>9 DEF FormNext, Continues

-----------------------------------------------------------------------------
(* The screen *)

LEMMA CallsHaveText ==
  ASSUME TypeInv, Screen, Waits, FormNext, NEW a \in Attempts, UnderWay(a)'
  PROVE  attempt'[a].text # 0 /\ attempt'[a].of <= opens'
<1>1. opens <= opens' /\ opens \in Nat /\ opens' \in Nat /\ attempt'[a].of \in Nat /\ attempt[a].of \in Nat
  <2>1. TypeInv'
    BY FormTypeNext
  <2>2. opens' = opens \/ opens' = opens + 1
    <3>1. \A b \in Attempts, draft \in BOOLEAN : Press(b, draft) => opens' = opens
      BY DEF Press
    <3> QED
      BY <3>1 DEF FormNext, Open, Type, TimerFires, Perform, Reconnect, Disconnect, Leave, Die,
         Serve, Lose, Continues, Fails, Throws, Refused, Succeeds, Clears, Pushes, bounds
  <2>3. attempt[a] \in AttemptType /\ attempt'[a] \in AttemptType
    BY <2>1 DEF TypeInv, FormTypeOK
  <2>4. opens \in Nat /\ opens' \in Nat
    BY <2>1, Rests DEF TypeInv, FormTypeOK
  <2> QED
    BY <2>2, <2>3, <2>4, Rests DEF AttemptType
<1>2. CASE Stays(a)
  BY <1>1, <1>2 DEF Stays, UnderWay, Screen
<1>3. CASE GoesOn(a)
  <2>1. UnderWay(a)
    BY <1>3 DEF GoesOn, UnderWay, Courses
  <2> QED
    BY <1>1, <1>3, <2>1 DEF GoesOn, Screen
<1>4. CASE Starts(a)
  BY <1>1, <1>4 DEF Starts
<1>5. CASE Ends(a)
  BY <1>5, Rests DEF Ends, UnderWay
<1> QED
  BY <1>2, <1>3, <1>4, <1>5, Moves

\* The screen and its timer.
Blank == ~form.open => form.text = 0 /\ form.banner = "none" /\ ~form.restoring
Armed == timer # 0 => timer = form.text
Restoring == form.restoring => form.text = 0 /\ form.banner = "none"
Pending == form.banner = "pending" => form.text # 0
Calling == \A a \in Attempts : UnderWay(a) /\ Mine(a) => form.text # 0 /\ ~form.restoring

LEMMA ScreenIs ==
  Screen <=> /\ Blank /\ Armed /\ Restoring /\ Pending /\ Calling
             /\ \A a \in Attempts : UnderWay(a) => attempt[a].text # 0 /\ attempt[a].of <= opens
BY DEF Screen, Blank, Armed, Restoring, Pending, Calling

LEMMA CallsStay ==
  ASSUME TypeInv, Screen, Waits, FormNext, NEW a \in Attempts, UnderWay(a)', Mine(a)',
         ~Starts(a), form'.open => form.open, opens' = opens
  PROVE  UnderWay(a) /\ Mine(a)
BY Moves, Rests DEF Stays, Ends, GoesOn, Courses, UnderWay, Mine

\* A step that leaves the screen alone, or closes it.
LEMMA ScreenSame ==
  ASSUME TypeInv, Screen, Waits, FormNext, opens' = opens,
         \/ UNCHANGED form /\ timer' \in {timer, 0}
         \/ form' = Closed /\ timer' = 0
  PROVE  Screen'
<1>1. Blank' /\ Armed' /\ Restoring' /\ Pending'
  BY Rests DEF Screen, Blank, Armed, Restoring, Pending
<1>2. ASSUME NEW a \in Attempts, UnderWay(a)', Mine(a)'
      PROVE  form'.text # 0 /\ ~form'.restoring
  <2>1. UNCHANGED form
    BY <1>2, Rests DEF Mine
  <2>2. CASE Starts(a)
    BY <2>2 DEF Starts
  <2>3. CASE ~Starts(a)
    <3>1. UnderWay(a) /\ Mine(a)
      BY <1>2, <2>1, <2>3, CallsStay
    <3> QED
      BY <2>1, <3>1 DEF Screen
  <2> QED
    BY <2>2, <2>3
<1>3. \A a \in Attempts : UnderWay(a)' => attempt'[a].text # 0 /\ attempt'[a].of <= opens'
  BY CallsHaveText
<1> QED
  BY <1>1, <1>2, <1>3 DEF Screen, Blank, Armed, Restoring, Pending

\* A step that changes what is on the screen, which stays open.
LEMMA ScreenChanges ==
  ASSUME TypeInv, Screen, Waits, FormNext, opens' = opens,
         form.open, form'.open, timer' \in {0, form'.text}, ~form'.restoring,
         form'.banner = "pending" => form'.text # 0,
         form.text # 0 /\ ~form.restoring => form'.text # 0
  PROVE  Screen'
<1>1. Blank' /\ Armed' /\ Restoring' /\ Pending'
  BY DEF Blank, Armed, Restoring, Pending
<1>2. ASSUME NEW a \in Attempts, UnderWay(a)', Mine(a)'
      PROVE  form'.text # 0 /\ ~form'.restoring
  <2>1. CASE Starts(a)
    BY <2>1 DEF Starts
  <2>2. CASE ~Starts(a)
    <3>1. UnderWay(a) /\ Mine(a)
      BY <1>2, <2>2, CallsStay
    <3> QED
      BY <3>1 DEF Screen
  <2> QED
    BY <2>1, <2>2
<1>3. \A a \in Attempts : UnderWay(a)' => attempt'[a].text # 0 /\ attempt'[a].of <= opens'
  BY CallsHaveText
<1> QED
  BY <1>1, <1>2, <1>3 DEF Screen, Blank, Armed, Restoring, Pending

LEMMA ScreenOpen ==
  ASSUME TypeInv, Screen, Waits, Open
  PROVE  Screen'
<1>1. /\ form'.open /\ form'.restoring /\ form'.text = 0 /\ form'.banner = "none"
      /\ opens' = opens + 1 /\ UNCHANGED <<attempt, timer>> /\ ~form.open
  BY Rests DEF Open, Closed
<1>2. timer = 0
  BY <1>1 DEF Screen
<1>3. opens \in Nat /\ \A a \in Attempts : attempt[a].of \in Nat
  BY Rests DEF TypeInv, FormTypeOK, AttemptType
<1>4. \A a \in Attempts : UnderWay(a)' => UnderWay(a) /\ attempt'[a] = attempt[a] /\ ~Mine(a)'
  BY <1>1, <1>3 DEF Screen, UnderWay, Mine
<1>5. \A a \in Attempts : UnderWay(a) => attempt[a].text # 0 /\ attempt[a].of <= opens'
  BY <1>1, <1>3 DEF Screen
<1> QED
  BY <1>1, <1>2, <1>4, <1>5 DEF Screen

LEMMA ScreenPerform ==
  ASSUME TypeInv, Screen, Waits, Perform
  PROVE  Screen'
<1> DEFINE head == Head(ops)
<1>0. FormNext /\ opens' = opens
  BY DEF FormNext, Perform, bounds
<1>1. /\ head \in Request /\ AskedBy(head, opens)
      /\ head.op = "put" /\ head.by \in Attempts => attempt[head.by].pc = "saves"
      /\ head.op = "get" /\ head.by = opens /\ form.open => form.restoring
  BY AtHead DEF Perform, Waits
<1>2. /\ form \in ScreenType /\ attempt \in [Attempts -> AttemptType]
  BY DEF TypeInv, FormTypeOK, ScreenType
<1>3. ASSUME NEW taken \in BOOLEAN, head.op = "get", Restore(head, taken)
      PROVE  Screen'
  <2>1. CASE form.open /\ head.by = opens
    <3>1. /\ form'.open /\ ~form'.restoring /\ timer' = form'.text
          /\ form'.banner = "pending" => form'.text # 0
      <4>1. form'.open /\ ~form'.restoring /\ timer' = form'.text
        BY <1>2, <1>3, <2>1 DEF Restore, ScreenType
      <4>2. CASE taken
        BY <1>2, <1>3, <2>1, <4>1, <4>2 DEF Restore, ScreenType
      <4>3. CASE ~taken
        <5>1. form'.banner = "none"
          BY <1>2, <1>3, <2>1, <4>3 DEF Restore, ScreenType
        <5> QED
          BY <4>1, <5>1
      <4> QED
        BY <4>1, <4>2, <4>3
    <3>2. form.restoring
      BY <1>1, <1>3, <2>1
    <3> QED
      BY <1>0, <2>1, <3>1, <3>2, ScreenChanges
  <2>2. CASE ~(form.open /\ head.by = opens)
    BY <1>0, <1>3, <2>2, ScreenSame DEF Restore
  <2> QED
    BY <2>1, <2>2
<1>4. CASE head.op = "put" /\ Put(head)
  <2>1. CASE head.by \in Attempts /\ Mine(head.by)
    <3>1. UnderWay(head.by)
      BY <1>1, <1>4, <2>1 DEF UnderWay
    <3>2. form.open /\ form.text # 0 /\ ~form.restoring
      BY <2>1, <3>1 DEF Screen, Mine
    <3>3. /\ form'.open /\ form'.text = form.text /\ form'.restoring = form.restoring
          /\ timer' = timer
      BY <1>2, <1>4, <2>1, <3>2 DEF Put, ScreenType
    <3>4. timer' \in {0, form'.text}
      BY <3>3 DEF Screen
    <3> QED
      BY <1>0, <3>2, <3>3, <3>4, ScreenChanges
  <2>2. CASE ~(head.by \in Attempts /\ Mine(head.by))
    BY <1>0, <1>4, <2>2, ScreenSame DEF Put
  <2> QED
    BY <2>1, <2>2
<1>5. CASE head.op = "delete" /\ Delete(head)
  BY <1>0, <1>5, ScreenSame DEF Delete
<1> QED
  BY <1>3, <1>4, <1>5 DEF Perform

LEMMA ScreenStart ==
  ASSUME TypeInv, Screen, Waits, FormNext, NEW a \in Attempts, Starts(a)
  PROVE  Screen'
<1>1. timer' \in {0, form'.text} /\ opens' = opens
  BY DEF Starts, Screen
<1> QED
  BY <1>1, ScreenChanges DEF Starts

LEMMA ScreenNext ==
  ASSUME TypeInv, Screen, Waits, [FormNext]_formVars
  PROVE  Screen'
<1>1. CASE UNCHANGED formVars
  BY <1>1 DEF formVars, Screen, UnderWay, Mine
<1>2. CASE Type
  <2>1. /\ form.open /\ form'.open /\ ~form'.restoring /\ form'.text = typed + 1 /\ timer' = typed + 1
        /\ opens' = opens /\ typed \in Nat
    BY <1>2, Rests DEF Type, TypeInv, FormTypeOK
  <2> QED
    BY <1>2, <2>1, ScreenChanges DEF FormNext
<1>3. CASE TimerFires \/ Disconnect \/ Leave \/ Die
  <2>1. opens' = opens /\ FormNext
    BY <1>3 DEF TimerFires, Disconnect, Leave, Die, bounds, FormNext
  <2> QED
    BY <1>3, <2>1, ScreenSame DEF TimerFires, Disconnect, Leave, Die
<1>4. CASE Reconnect
  <2>1. CASE \E a \in Attempts : Starts(a)
    BY <1>4, <2>1, ScreenStart DEF FormNext
  <2>2. CASE ~\E a \in Attempts : Starts(a)
    <3>1. UNCHANGED <<form, timer, opens>>
      BY <1>4, <2>2, ReconnectStarts
    <3> QED
      BY <1>4, <3>1, ScreenSame DEF FormNext
  <2> QED
    BY <2>1, <2>2
<1>5. ASSUME NEW a \in Attempts, NEW draft \in BOOLEAN, Press(a, draft), FormNext
      PROVE  Screen'
  BY <1>5, PressStarts, ScreenStart
<1>6. ASSUME NEW a \in Attempts, Refused(a), FormNext
      PROVE  Screen'
  <2>1. CASE Mine(a)
    <3>1. form.open /\ form.text # 0 /\ ~form.restoring
      BY <1>6, <2>1 DEF Refused, Screen, Mine, UnderWay
    <3>2. /\ form'.open /\ form'.text = form.text /\ form'.restoring = form.restoring
          /\ timer' = timer /\ opens' = opens
      BY <1>6, <2>1, <3>1 DEF Refused, TypeInv, FormTypeOK, bounds
    <3>3. timer' \in {0, form'.text}
      BY <3>2 DEF Screen
    <3> QED
      BY <1>6, <3>1, <3>2, <3>3, ScreenChanges
  <2>2. CASE ~Mine(a)
    BY <1>6, <2>2, ScreenSame DEF Refused, bounds
  <2> QED
    BY <2>1, <2>2
<1>7. ASSUME NEW a \in Attempts, FormNext,
             Serve(a) \/ Lose(a) \/ Fails(a) \/ Throws(a) \/ Succeeds(a) \/ Clears(a) \/ Pushes(a)
      PROVE  Screen'
  <2>1. opens' = opens
    BY <1>7 DEF Serve, Lose, Fails, Throws, Succeeds, Clears, Pushes, bounds
  <2> QED
    BY <1>7, <2>1, ScreenSame DEF Serve, Lose, Fails, Throws, Succeeds, Clears, Pushes
<1> QED
  BY <1>1, <1>2, <1>3, <1>4, <1>5, <1>6, <1>7, ScreenOpen, ScreenPerform DEF FormNext, Continues

-----------------------------------------------------------------------------
(* Who waits for the store *)

\* Nobody who waits goes on before the store answers him or the browser dies.
Patient == \A a \in Attempts : attempt[a].pc \in {"saves", "clears"} => Stays(a)

LEMMA WaitingStays ==
  ASSUME TypeInv, Screen,
         \/ Open \/ Type \/ TimerFires \/ Reconnect \/ Disconnect \/ Leave
         \/ \E a \in Attempts : \/ \E draft \in BOOLEAN : Press(a, draft)
                                \/ Serve(a) \/ Lose(a) \/ Continues(a)
  PROVE  Patient
<1> SUFFICES ASSUME NEW a \in Attempts, attempt[a].pc \in {"saves", "clears"}
             PROVE  Stays(a)
  BY DEF Patient
<1>1. ASSUME NEW b \in Attempts, NEW draft \in BOOLEAN, Press(b, draft)
      PROVE  Stays(a)
  BY <1>1, PressStarts DEF Starts
<1>2. CASE Reconnect
  BY <1>2, ReconnectStarts DEF Starts, Stays
<1>3. ASSUME NEW b \in Attempts, Serve(b) \/ Lose(b) \/ Continues(b)
      PROVE  Stays(a)
  <2>1. a # b
    BY <1>3 DEF Serve, Lose, Continues, Fails, Throws, Refused, Succeeds, Clears, Pushes
  <2> QED
    BY <1>3, <2>1 DEF Serve, Lose, Continues, Fails, Throws, Refused, Succeeds, Clears, Pushes, Goes,
       Stays, TypeInv, FormTypeOK
<1> QED
  BY <1>1, <1>2, <1>3 DEF Open, Type, TimerFires, Disconnect, Leave, Stays

\* No new request.
LEMMA WaitsSame ==
  ASSUME TypeInv, Waits, Patient, UNCHANGED <<ops, opens>>,
         form'.open => form.open /\ form'.restoring = form.restoring
  PROVE  Waits'
<1>1. \A i \in DOMAIN ops : ops'[i] = ops[i] /\ AskedBy(ops[i], opens)
  BY DEF TypeInv
<1>2. ASSUME NEW i \in DOMAIN ops, ops[i].op = "put", ops[i].by \in Attempts
      PROVE  attempt'[ops[i].by].pc = "saves" /\ attempt'[ops[i].by].text = ops[i].text
  BY <1>2 DEF Patient, Waits, Stays
<1>3. ASSUME NEW i \in DOMAIN ops, ops[i].op = "delete"
      PROVE  attempt'[ops[i].by].pc = "clears"
  BY <1>1, <1>3 DEF Patient, Waits, Stays, AskedBy
<1> QED
  BY <1>1, <1>2, <1>3 DEF Waits, SameAsker

\* A new request of somebody who has none in the queue.
LEMMA WaitsMore ==
  ASSUME TypeInv, Waits, Patient,
         NEW op \in Request, ops' = Append(ops, op),
         \A i \in DOMAIN ops : ~SameAsker(ops[i], op) /\ ~SameAsker(op, ops[i]),
         op.op = "put" /\ op.by \in Attempts =>
           attempt'[op.by].pc = "saves" /\ attempt'[op.by].text = op.text,
         op.op = "delete" => attempt'[op.by].pc = "clears",
         form'.open => form'.restoring \/ \A i \in DOMAIN ops' : ops'[i].op = "get" => ops'[i].by # opens'
  PROVE  Waits'
<1>1. ops \in Seq(Request) /\ \A i \in DOMAIN ops : AskedBy(ops[i], opens)
  BY DEF TypeInv
<1>2. /\ DOMAIN ops = 1 .. Len(ops) /\ Len(ops) \in Nat
      /\ DOMAIN ops' = 1 .. Len(ops) + 1
      /\ \A i \in DOMAIN ops : ops'[i] = ops[i]
      /\ ops'[Len(ops) + 1] = op
  BY <1>1, Appended
<1>3. \A i \in DOMAIN ops' : i \in DOMAIN ops \/ i = Len(ops) + 1
  BY <1>2
<1>4. ASSUME NEW i \in DOMAIN ops', ops'[i].op = "put", ops'[i].by \in Attempts
      PROVE  attempt'[ops'[i].by].pc = "saves" /\ attempt'[ops'[i].by].text = ops'[i].text
  <2>1. CASE i \in DOMAIN ops
    BY <1>2, <1>4, <2>1 DEF Patient, Waits, Stays
  <2>2. CASE i = Len(ops) + 1
    BY <1>2, <1>4, <2>2
  <2> QED
    BY <1>3, <2>1, <2>2
<1>5. ASSUME NEW i \in DOMAIN ops', ops'[i].op = "delete"
      PROVE  attempt'[ops'[i].by].pc = "clears"
  <2>1. CASE i \in DOMAIN ops
    BY <1>1, <1>2, <1>5, <2>1 DEF Patient, Waits, Stays, AskedBy
  <2>2. CASE i = Len(ops) + 1
    BY <1>2, <1>5, <2>2
  <2> QED
    BY <1>3, <2>1, <2>2
<1>6. ASSUME NEW i \in DOMAIN ops', NEW j \in DOMAIN ops', SameAsker(ops'[i], ops'[j])
      PROVE  i = j
  <2>1. CASE i \in DOMAIN ops /\ j \in DOMAIN ops
    BY <1>2, <1>6, <2>1 DEF Waits
  <2>2. CASE i = Len(ops) + 1 /\ j \in DOMAIN ops
    BY <1>2, <1>6, <2>2
  <2>3. CASE i \in DOMAIN ops /\ j = Len(ops) + 1
    BY <1>2, <1>6, <2>3
  <2> QED
    BY <1>3, <2>1, <2>2, <2>3
<1>7. \A i, j \in DOMAIN ops' : SameAsker(ops'[i], ops'[j]) => i = j
  BY <1>6
<1>8. (\A i, j \in DOMAIN ops : SameAsker(ops[i], ops[j]) => i = j)'
  BY <1>7 DEF SameAsker
<1> QED
  BY <1>4, <1>5, <1>8 DEF Waits

LEMMA ReadsStay ==
  ASSUME TypeInv, Waits, NEW op \in Request, op.op # "get", ops' = Append(ops, op),
         UNCHANGED <<form, opens>>
  PROVE  form'.open => form'.restoring \/ \A i \in DOMAIN ops' : ops'[i].op = "get" => ops'[i].by # opens'
<1>1. /\ DOMAIN ops = 1 .. Len(ops) /\ Len(ops) \in Nat
      /\ DOMAIN ops' = 1 .. Len(ops) + 1
      /\ \A i \in DOMAIN ops : ops'[i] = ops[i]
      /\ ops'[Len(ops) + 1] = op
  BY Appended DEF TypeInv
<1>2. \A i \in DOMAIN ops' : i \in DOMAIN ops \/ i = Len(ops) + 1
  BY <1>1
<1> QED
  BY <1>1, <1>2 DEF Waits

LEMMA WaitsPerform ==
  ASSUME TypeInv, Screen, Waits, Perform
  PROVE  Waits'
<1> DEFINE head == Head(ops)
<1>0. FormNext /\ opens' = opens /\ ops' = Tail(ops)
  BY DEF FormNext, Perform, bounds
<1>1. /\ head \in Request /\ AskedBy(head, opens) /\ head = ops[1] /\ 1 \in DOMAIN ops
  BY AtHead DEF Perform
<1>2. /\ DOMAIN ops = 1 .. Len(ops) /\ Len(ops) \in Nat \ {0}
      /\ DOMAIN ops' = 1 .. Len(ops) - 1
      /\ \A i \in DOMAIN ops' : i + 1 \in DOMAIN ops /\ ops'[i] = ops[i + 1]
  BY <1>0, Tailed DEF Perform, TypeInv
<1>3. \A i \in DOMAIN ops' : i \in Nat /\ i + 1 # 1 /\ AskedBy(ops'[i], opens)
  BY <1>2 DEF TypeInv
<1>4. \A i, j \in DOMAIN ops' : SameAsker(ops'[i], ops'[j]) => i = j
  <2>1. ASSUME NEW i \in DOMAIN ops', NEW j \in DOMAIN ops', SameAsker(ops'[i], ops'[j])
        PROVE  i = j
    <3>1. i + 1 = j + 1
      BY <1>2, <2>1 DEF Waits
    <3> QED
      BY <1>3, <3>1
  <2> QED
    BY <2>1
<1>5. ASSUME NEW i \in DOMAIN ops', ops'[i].op \in {"put", "delete"}, ops'[i].by \in Attempts
      PROVE  Stays(ops'[i].by)
  <2>1. ~SameAsker(head, ops'[i])
    BY <1>1, <1>2, <1>3 DEF Waits
  <2>2. head.op \in {"put", "delete"} => head.by # ops'[i].by
    BY <1>5, <2>1 DEF SameAsker
  <2>3. CASE Stays(ops'[i].by)
    BY <2>3
  <2>4. CASE ~Stays(ops'[i].by)
    <3>1. (head.op = "delete" /\ Delete(head)) \/ (head.op = "put" /\ Put(head))
      BY <1>5, <2>4 DEF Perform, Restore, Stays
    <3> QED
      BY <1>5, <2>2, <3>1 DEF Delete, Put, Stays, TypeInv, FormTypeOK
  <2> QED
    BY <2>3, <2>4
<1>6. ASSUME NEW i \in DOMAIN ops', ops'[i].op = "put", ops'[i].by \in Attempts
      PROVE  attempt'[ops'[i].by].pc = "saves" /\ attempt'[ops'[i].by].text = ops'[i].text
  <2>1. Stays(ops'[i].by)
    BY <1>5, <1>6
  <2> QED
    BY <1>2, <1>6, <2>1 DEF Waits, Stays
<1>7. ASSUME NEW i \in DOMAIN ops', ops'[i].op = "delete"
      PROVE  attempt'[ops'[i].by].pc = "clears"
  <2>1. ops'[i].by \in Attempts
    BY <1>3, <1>7 DEF AskedBy
  <2>2. Stays(ops'[i].by)
    BY <1>5, <1>7, <2>1
  <2> QED
    BY <1>2, <1>7, <2>2 DEF Waits, Stays
<1>8. ASSUME NEW i \in DOMAIN ops', ops'[i].op = "get", ops'[i].by = opens', form'.open
      PROVE  form'.restoring
  <2>1. ~SameAsker(head, ops'[i])
    BY <1>1, <1>2, <1>3 DEF Waits
  <2>2. ~(head.op = "get" /\ head.by = opens)
    BY <1>0, <1>8, <2>1 DEF SameAsker
  <2>3. form'.open = form.open /\ form'.restoring = form.restoring
    <3>1. form \in ScreenType
      BY DEF TypeInv, FormTypeOK, ScreenType
    <3> QED
      BY <2>2, <3>1 DEF Perform, Restore, Put, Delete, ScreenType
  <2> QED
    BY <1>0, <1>2, <1>8, <2>3 DEF Waits
<1>9. (\A i, j \in DOMAIN ops : SameAsker(ops[i], ops[j]) => i = j)'
  BY <1>4 DEF SameAsker
<1> QED
  BY <1>6, <1>7, <1>8, <1>9 DEF Waits

LEMMA WaitsNext ==
  ASSUME TypeInv, Screen, Waits, [FormNext]_formVars
  PROVE  Waits'
<1>0. /\ \A i \in DOMAIN ops : AskedBy(ops[i], opens) /\ ops[i].op \in Ops
      /\ "timer" \notin Attempts /\ opens \in Nat
  <2>1. \A i \in DOMAIN ops : ops[i] \in Request
    BY DEF TypeInv
  <2> QED
    BY <2>1, BoundsAssumption, Rests DEF TypeInv, FormTypeOK, Request
<1>1. CASE UNCHANGED formVars
  BY <1>1 DEF formVars, Waits, SameAsker
<1>2. CASE Open
  <2> DEFINE op == Op("get", 0, FALSE, opens + 1)
  <2>1. op \in Request /\ op.op = "get" /\ op.by = opens + 1
    BY <1>2, Rests DEF Open, Op, Request, Ops, TypeInv, FormTypeOK
  <2> HIDE DEF op
  <2>2. ASSUME NEW i \in DOMAIN ops
        PROVE  ~SameAsker(ops[i], op) /\ ~SameAsker(op, ops[i])
    <3>1. ops[i].op = "get" => ops[i].by \in 1..opens
      BY <1>0 DEF AskedBy
    <3>2. ops[i].op = "get" => ops[i].by # op.by
      BY <1>0, <2>1, <3>1
    <3> QED
      BY <2>1, <3>2 DEF SameAsker
  <2> USE DEF op
  <2>3. form'.restoring /\ ops' = Append(ops, op)
    BY <1>2, Rests DEF Open, Closed
  <2>4. Patient
    BY <1>2, WaitingStays
  <2> HIDE DEF op
  <2> QED
    BY <2>1, <2>2, <2>3, <2>4, WaitsMore
<1>3. CASE TimerFires
  <2> DEFINE op == Op("put", timer, FALSE, "timer")
  <2>0. Patient /\ UNCHANGED <<form, opens>>
    BY <1>3, WaitingStays DEF TimerFires, bounds
  <2>1. CASE ops' = ops
    BY <2>0, <2>1, WaitsSame
  <2>2. CASE ops' = Append(ops, op)
    <3>1. op \in Request /\ op.op = "put" /\ op.by = "timer"
      BY DEF Op, Request, Ops, TypeInv, FormTypeOK
    <3>2. \A i \in DOMAIN ops : ~SameAsker(ops[i], op) /\ ~SameAsker(op, ops[i])
      BY <1>0, <3>1 DEF SameAsker
    <3> HIDE DEF op
    <3>3. form'.open => form'.restoring \/ \A i \in DOMAIN ops' : ops'[i].op = "get" => ops'[i].by # opens'
      BY <2>0, <2>2, <3>1, ReadsStay
    <3> QED
      BY <1>0, <2>0, <2>2, <3>1, <3>2, <3>3, WaitsMore
  <2> QED
    BY <1>3, <2>1, <2>2 DEF TimerFires
<1>4. CASE Type \/ Disconnect \/ Leave
  <2>1. Patient /\ UNCHANGED <<ops, opens>>
    BY <1>4, WaitingStays DEF Type, Disconnect, Leave, bounds
  <2>2. form'.open => form.open /\ form'.restoring = form.restoring
    BY <1>4, Rests DEF Type, Disconnect, Leave, TypeInv, FormTypeOK
  <2> QED
    BY <2>1, <2>2, WaitsSame
<1>5. ASSUME NEW a \in Attempts, Starts(a), Patient
      PROVE  Waits'
  BY <1>5, WaitsSame DEF Starts
<1>6. CASE Reconnect
  <2>1. Patient
    BY <1>6, WaitingStays
  <2>2. CASE UNCHANGED <<form, ops, opens>>
    BY <2>1, <2>2, WaitsSame
  <2> QED
    BY <1>5, <1>6, <2>1, <2>2, ReconnectStarts
<1>7. ASSUME NEW a \in Attempts, NEW draft \in BOOLEAN, Press(a, draft)
      PROVE  Waits'
  BY <1>5, <1>7, PressStarts, WaitingStays
<1>8. ASSUME NEW a \in Attempts, attempt[a].pc \in {"fails", "waits"}, Patient,
             NEW op \in Request, op.op # "get", op.by = a, ops' = Append(ops, op),
             op.op = "put" => attempt'[a].pc = "saves" /\ attempt'[a].text = op.text,
             op.op = "delete" => attempt'[a].pc = "clears",
             UNCHANGED <<form, opens>>
      PROVE  Waits'
  <2>1. \A i \in DOMAIN ops : ops[i].op = "get" \/ ops[i].by # a
    BY <1>0, <1>8 DEF Waits, AskedBy, Ops
  <2>2. \A i \in DOMAIN ops : ~SameAsker(ops[i], op) /\ ~SameAsker(op, ops[i])
    BY <1>8, <2>1 DEF SameAsker
  <2>3. form'.open => form'.restoring \/ \A i \in DOMAIN ops' : ops'[i].op = "get" => ops'[i].by # opens'
    BY <1>8, ReadsStay
  <2> QED
    BY <1>8, <2>2, <2>3, WaitsMore
<1>9. ASSUME NEW a \in Attempts, Fails(a)
      PROVE  Waits'
  <2> DEFINE op == Op("put", attempt[a].text, TRUE, a)
  <2>1. /\ op \in Request /\ op.op = "put" /\ op.by = a /\ op.text = attempt[a].text
        /\ ops' = Append(ops, op)
    BY <1>9 DEF Fails, KeepsIt, Op, Request, Ops, TypeInv, FormTypeOK, AttemptType
  <2>2. attempt[a].pc = "fails" /\ attempt'[a].pc = "saves" /\ attempt'[a].text = attempt[a].text
    BY <1>9, WentOn DEF Fails, TypeInv, Pcs
  <2>3. Patient /\ UNCHANGED <<form, opens>>
    BY <1>9, WaitingStays DEF Continues, Fails, bounds
  <2> HIDE DEF op
  <2> QED
    BY <1>8, <2>1, <2>2, <2>3
<1>10. ASSUME NEW a \in Attempts, Clears(a)
      PROVE  Waits'
  <2> DEFINE op == Op("delete", 0, FALSE, a)
  <2>1. op \in Request /\ op.op = "delete" /\ op.by = a /\ ops' = Append(ops, op)
    BY <1>10, Rests DEF Clears, Op, Request, Ops
  <2>2. attempt[a].pc = "waits" /\ attempt'[a].pc = "clears"
    BY <1>10, WentOn DEF Clears, TypeInv, Pcs
  <2>3. Patient /\ UNCHANGED <<form, opens>>
    BY <1>10, WaitingStays DEF Continues, Clears, bounds
  <2> HIDE DEF op
  <2> QED
    BY <1>8, <2>1, <2>2, <2>3
<1>11. ASSUME NEW a \in Attempts,
              Serve(a) \/ Lose(a) \/ Throws(a) \/ Refused(a) \/ Succeeds(a) \/ Pushes(a)
       PROVE  Waits'
  <2>1. Patient
    BY <1>11, WaitingStays DEF Continues
  <2>2. UNCHANGED <<ops, opens>>
    BY <1>11 DEF Serve, Lose, Throws, Refused, Succeeds, Pushes, bounds
  <2>3. form'.open => form.open /\ form'.restoring = form.restoring
    BY <1>11, Rests DEF Serve, Lose, Throws, Refused, Succeeds, Pushes, TypeInv, FormTypeOK
  <2> QED
    BY <2>1, <2>2, <2>3, WaitsSame
<1>12. CASE Die
  BY <1>12 DEF Die, Waits
<1> QED
  BY <1>1, <1>2, <1>3, <1>4, <1>6, <1>7, <1>9, <1>10, <1>11, <1>12, WaitsPerform DEF FormNext, Continues

-----------------------------------------------------------------------------
(* What a step asks of the store, and what it writes down *)

\* A new request, and who makes it.
Asks(op) ==
  /\ ops' = Append(ops, op)
  /\ \/ op.op = "get" /\ ~form.open
     \/ op.op = "put" /\ op.by = "timer" /\ op.text = form.text /\ op.text # 0 /\ ~form.sent
        /\ UNCHANGED <<attempt, form, store>>
     \/ op.op = "put" /\ op.by \in Attempts /\ op.text = attempt[op.by].text
        /\ attempt[op.by].pc = "fails" /\ UNCHANGED <<form, store>>
     \/ op.op = "delete" /\ op.by \in Attempts /\ attempt[op.by].pc = "waits"
        /\ ~Asked("put", "timer") /\ UNCHANGED <<form, store>>

LEMMA RequestsMove ==
  ASSUME TypeInv, Screen, Waits, FormNext
  PROVE  ops' = ops \/ ops' = <<>> \/ (Perform /\ ops' = Tail(ops)) \/ \E op \in Request : Asks(op)
<1>1. CASE Open
  <2> DEFINE op == Op("get", 0, FALSE, opens + 1)
  <2>1. op \in Request /\ op.op = "get"
    BY <1>1, Rests DEF Open, Op, Request, Ops, TypeInv, FormTypeOK
  <2> QED
    BY <1>1, <2>1 DEF Open, Asks
<1>2. CASE TimerFires
  <2> DEFINE op == Op("put", timer, FALSE, "timer")
  <2>1. op \in Request /\ op.op = "put" /\ op.by = "timer" /\ op.text = timer
    BY DEF Op, Request, Ops, TypeInv, FormTypeOK
  <2>2. timer # 0 /\ timer = form.text
    BY <1>2 DEF TimerFires, Screen
  <2> HIDE DEF op
  <2>3. ops' = Append(ops, op) => Asks(op)
    <3>1. ASSUME ops' = Append(ops, op), form.sent
          PROVE  FALSE
      <4>1. ops' = ops
        BY <1>2, <3>1 DEF TimerFires, Saves
      <4>2. ops \in Seq(Request)
        BY DEF TypeInv
      <4>3. Append(ops, op) = ops /\ Len(ops) \in Nat
        BY <3>1, <4>1, <4>2
      <4>4. Len(Append(ops, op)) = Len(ops) + 1
        BY <4>2, <2>1
      <4> QED
        BY <4>3, <4>4
    <3> QED
      BY <1>2, <2>1, <2>2, <3>1 DEF TimerFires, Asks
  <2>4. ops' = ops \/ ops' = Append(ops, op)
    BY <1>2 DEF TimerFires, op
  <2> QED
    BY <2>1, <2>3, <2>4
<1>3. CASE Type \/ Disconnect \/ Leave \/ Die
  BY <1>3 DEF Type, Disconnect, Leave, Die
<1>4. CASE Perform
  BY <1>4 DEF Perform
<1>5. CASE Reconnect
  BY <1>5 DEF Reconnect
<1>6. ASSUME NEW a \in Attempts, Fails(a)
      PROVE  \E op \in Request : Asks(op)
  <2> DEFINE op == Op("put", attempt[a].text, TRUE, a)
  <2>1. op \in Request /\ op.op = "put" /\ op.by = a /\ op.text = attempt[a].text
    BY <1>6 DEF Op, Request, Ops, TypeInv, FormTypeOK, AttemptType
  <2>2. ops' = Append(ops, op)
    BY <1>6 DEF Fails, KeepsIt
  <2> HIDE DEF op
  <2> QED
    BY <1>6, <2>1, <2>2 DEF Fails, Asks
<1>7. ASSUME NEW a \in Attempts, Clears(a)
      PROVE  \E op \in Request : Asks(op)
  <2> DEFINE op == Op("delete", 0, FALSE, a)
  <2>1. op \in Request /\ op.op = "delete" /\ op.by = a
    BY Rests DEF Op, Request, Ops
  <2>2. ops' = Append(ops, op)
    BY <1>7 DEF Clears
  <2> HIDE DEF op
  <2> QED
    BY <1>7, <2>1, <2>2 DEF Clears, Asks
<1>8. ASSUME NEW a \in Attempts,
             (\E draft \in BOOLEAN : Press(a, draft)) \/ Serve(a) \/ Lose(a)
             \/ Throws(a) \/ Refused(a) \/ Succeeds(a) \/ Pushes(a)
      PROVE  ops' = ops
  BY <1>8 DEF Press, Serve, Lose, Throws, Refused, Succeeds, Pushes
<1> QED
  BY <1>1, <1>2, <1>3, <1>4, <1>5, <1>6, <1>7, <1>8 DEF FormNext, Continues

\* The queue after the request at its head, or with one more.
LEMMA PutsTailed ==
  ASSUME TypeInv, ops # <<>>, ops' = Tail(ops)
  PROVE  \A i \in Puts' : i \in Nat /\ i + 1 \in Puts /\ ops'[i] = ops[i + 1]
BY Tailed DEF TypeInv, Puts

LEMMA PutsAppended ==
  ASSUME TypeInv, NEW op \in Request, ops' = Append(ops, op)
  PROVE  /\ \A i \in Puts : i \in 1..Len(ops) /\ Len(ops) \in Nat
         /\ \A i \in Puts' : \/ i \in Puts /\ ops'[i] = ops[i]
                             \/ i = Len(ops) + 1 /\ ops'[i] = op /\ op.op = "put"
<1>1. /\ DOMAIN ops = 1 .. Len(ops) /\ Len(ops) \in Nat
      /\ DOMAIN ops' = 1 .. Len(ops) + 1
      /\ \A i \in DOMAIN ops : ops'[i] = ops[i]
      /\ ops'[Len(ops) + 1] = op
  BY Appended DEF TypeInv
<1>2. \A i \in DOMAIN ops' : i \in DOMAIN ops \/ i = Len(ops) + 1
  BY <1>1
<1> QED
  BY <1>1, <1>2 DEF Puts

\* A saved text was in the queue, on the screen, or in an attempt that failed.
LEMMA PutsMove ==
  ASSUME TypeInv, Screen, Waits, Known, FormNext, NEW i \in Puts'
  PROVE  /\ Somewhere(ops'[i].text)
         /\ ops'[i].text # 0
<1>1. CASE \E op \in Request : Asks(op)
  <2> PICK op \in Request : Asks(op)
    BY <1>1
  <2>1. CASE i \in Puts /\ ops'[i] = ops[i]
    BY <2>1 DEF Somewhere, Known
  <2>2. CASE ops'[i] = op /\ op.op = "put"
    <3>1. CASE op.by = "timer"
      BY <2>2, <3>1, BoundsAssumption DEF Asks, Somewhere
    <3>2. CASE op.by \in Attempts
      <4>1. UnderWay(op.by) /\ op.text = attempt[op.by].text
        BY <2>2, <3>2, BoundsAssumption DEF Asks, UnderWay
      <4> QED
        BY <2>2, <3>2, <4>1 DEF Somewhere, Screen
    <3> QED
      BY <2>2, <3>1, <3>2 DEF Asks
  <2> QED
    BY <2>1, <2>2, PutsAppended DEF Asks
<1>2. CASE Perform /\ ops' = Tail(ops)
  BY <1>2, PutsTailed DEF Perform, Somewhere, Known
<1>3. CASE ops' = ops
  BY <1>3 DEF Puts, Somewhere, Known
<1>4. CASE ops' = <<>>
  BY <1>4 DEF Puts
<1> QED
  BY <1>1, <1>2, <1>3, <1>4, RequestsMove

\* The text on the screen is the one typed, the one that was there, or the
\* one that the store had.
LEMMA FormMoves ==
  ASSUME TypeInv, Screen, Waits, FormNext
  PROVE  \/ form'.text \in {0, form.text, store.text}
         \/ Type /\ form'.text = typed + 1
<1>0. form \in ScreenType /\ Closed.text = 0 /\ [Closed EXCEPT !.open = TRUE, !.restoring = TRUE].text = 0
  BY Rests DEF TypeInv, FormTypeOK, ScreenType
<1>1. CASE Perform
  <2>1. ASSUME NEW taken \in BOOLEAN, Restore(Head(ops), taken)
        PROVE  form'.text \in {0, form.text, store.text}
    BY <1>0, <2>1 DEF Restore, ScreenType
  <2> QED
    BY <1>0, <1>1, <2>1 DEF Perform, Put, Delete, ScreenType
<1>2. CASE Type
  BY <1>0, <1>2 DEF Type, ScreenType
<1>3. CASE Reconnect
  BY <1>3, ReconnectStarts DEF Starts
<1>4. ASSUME NEW a \in Attempts, NEW draft \in BOOLEAN, Press(a, draft)
      PROVE  form'.text = form.text
  BY <1>4, PressStarts DEF Starts
<1>5. ASSUME NEW a \in Attempts, Serve(a) \/ Lose(a) \/ Continues(a)
      PROVE  form'.text \in {0, form.text}
  BY <1>0, <1>5 DEF Serve, Lose, Continues, Fails, Throws, Refused, Succeeds, Clears, Pushes, ScreenType
<1>6. CASE Open \/ TimerFires \/ Disconnect \/ Leave \/ Die
  BY <1>0, <1>6 DEF Open, TimerFires, Disconnect, Leave, Die
<1> QED
  BY <1>1, <1>2, <1>3, <1>4, <1>5, <1>6 DEF FormNext

\* The store changes when it performs what it was asked.
LEMMA StoreMoves ==
  ASSUME TypeInv, Screen, Waits, FormNext
  PROVE  \/ UNCHANGED store
         \/ /\ Perform /\ Head(ops).op = "put" /\ 1 \in Puts /\ Head(ops) = ops[1]
            /\ store'.text = Head(ops).text
         \/ /\ Perform /\ Head(ops).op = "delete" /\ Head(ops).by \in Attempts
            /\ attempt[Head(ops).by].pc = "clears" /\ store'.text = 0
<1>1. CASE Perform
  <2>1. Head(ops) = ops[1] /\ 1 \in DOMAIN ops /\ AskedBy(Head(ops), opens)
    BY <1>1, AtHead DEF Perform
  <2>2. Head(ops).op = "delete" => attempt[Head(ops).by].pc = "clears" /\ Head(ops).by \in Attempts
    BY <2>1 DEF Waits, AskedBy
  <2>3. ASSUME Head(ops).op = "put", Put(Head(ops))
        PROVE  store'.text = Head(ops).text
    BY <2>3 DEF Put
  <2>4. ASSUME Delete(Head(ops))
        PROVE  store'.text = 0
    BY <2>4, Rests DEF Delete
  <2> QED
    BY <1>1, <2>1, <2>2, <2>3, <2>4 DEF Perform, Restore, Puts
<1>2. ASSUME NEW a \in Attempts, (\E draft \in BOOLEAN : Press(a, draft)) \/ Serve(a) \/ Lose(a) \/ Continues(a)
      PROVE  UNCHANGED store
  BY <1>2 DEF Press, Serve, Lose, Continues, Fails, Throws, Refused, Succeeds, Clears, Pushes
<1> QED
  BY <1>1, <1>2 DEF FormNext, Open, Type, TimerFires, Reconnect, Disconnect, Leave, Die

\* No step writes a text that was not somewhere, except the user's.
LEMMA TextsMove ==
  ASSUME TypeInv, Screen, Waits, Known, FormNext, NEW t \in Texts, Somewhere(t)'
  PROVE  Somewhere(t) \/ (Type /\ t = typed + 1)
<1>0. t # 0
  BY Rests DEF Texts
<1>1. CASE form'.text = t
  BY <1>0, <1>1, FormMoves DEF Somewhere
<1>2. CASE store'.text = t
  BY <1>0, <1>2, StoreMoves DEF Somewhere
<1>3. ASSUME NEW i \in Puts', ops'[i].text = t
      PROVE  Somewhere(t)
  BY <1>3, PutsMove
<1>4. ASSUME NEW a \in Attempts, UnderWay(a)', attempt'[a].text = t
      PROVE  Somewhere(t)
  <2>1. CASE Starts(a)
    BY <1>4, <2>1 DEF Starts, Somewhere
  <2>2. CASE Stays(a)
    BY <1>4, <2>2 DEF Stays, Somewhere, UnderWay
  <2>3. CASE GoesOn(a)
    BY <1>4, <2>3 DEF GoesOn, Courses, Somewhere, UnderWay
  <2>4. CASE Ends(a)
    BY <1>4, <2>4, Rests DEF Ends, UnderWay
  <2> QED
    BY <2>1, <2>2, <2>3, <2>4, Moves
<1> QED
  BY <1>1, <1>2, <1>3, <1>4 DEF Somewhere

\* What the screen says it keeps is what an attempt has just saved; it keeps nothing
\* once a draft was given up.
LEMMA KeptMoves ==
  ASSUME TypeInv, Screen, Waits, FormNext
  PROVE  \/ UNCHANGED kept
         \/ kept' = 0
         \/ /\ Perform /\ Head(ops).op = "put" /\ 1 \in Puts /\ Head(ops) = ops[1]
            /\ Head(ops).by \in Attempts /\ Mine(Head(ops).by)
            /\ attempt[Head(ops).by].pc = "saves"
            /\ attempt'[Head(ops).by].pc = "free"
            /\ kept' = Head(ops).text /\ store'.text = kept' /\ form'.text = form.text
            /\ UNCHANGED made
<1>1. CASE Perform
  <2>1. Head(ops) = ops[1] /\ 1 \in DOMAIN ops
    BY <1>1, AtHead DEF Perform
  <2>2. ASSUME Head(ops).op = "put", Put(Head(ops)), Head(ops).by \in Attempts, Mine(Head(ops).by)
        PROVE  /\ attempt[Head(ops).by].pc = "saves"
               /\ attempt'[Head(ops).by].pc = "free"
               /\ kept' = Head(ops).text /\ store'.text = kept' /\ form'.text = form.text
               /\ UNCHANGED made
    BY <1>1, <2>1, <2>2, Rests DEF Perform, Put, Waits, TypeInv, FormTypeOK
  <2>3. Put(Head(ops)) => (Head(ops).by \in Attempts /\ Mine(Head(ops).by)) \/ UNCHANGED kept
    BY DEF Put
  <2> QED
    BY <1>1, <2>1, <2>2, <2>3 DEF Perform, Restore, Delete, Puts
<1>2. ASSUME NEW a \in Attempts, (\E draft \in BOOLEAN : Press(a, draft)) \/ Serve(a) \/ Lose(a) \/ Continues(a)
      PROVE  UNCHANGED kept
  BY <1>2 DEF Press, Serve, Lose, Continues, Fails, Throws, Refused, Succeeds, Clears, Pushes, told
<1> QED
  BY <1>1, <1>2 DEF FormNext, Open, Type, TimerFires, Reconnect, Disconnect, Leave, Die, told

\* The screen is left for the ticket of an attempt that leaves.
LEMMA ArrivedMoves ==
  ASSUME TypeInv, FormNext
  PROVE  \/ UNCHANGED arrived
         \/ \E a \in Attempts : Pushes(a) /\ attempt[a].pc = "leaves"
                                /\ arrived' = arrived \cup {attempt[a].text}
<1>1. ASSUME NEW a \in Attempts, (\E draft \in BOOLEAN : Press(a, draft)) \/ Serve(a) \/ Lose(a)
             \/ Fails(a) \/ Throws(a) \/ Refused(a) \/ Succeeds(a) \/ Clears(a)
      PROVE  UNCHANGED arrived
  BY <1>1 DEF Press, Serve, Lose, Fails, Throws, Refused, Succeeds, Clears, told
<1>2. ASSUME NEW a \in Attempts, Pushes(a)
      PROVE  attempt[a].pc = "leaves" /\ arrived' = arrived \cup {attempt[a].text}
  BY <1>2 DEF Pushes
<1> QED
  BY <1>1, <1>2 DEF FormNext, Continues, Open, Type, TimerFires, Perform, Reconnect, Disconnect, Leave, Die, told

LEMMA TypedMoves ==
  ASSUME TypeInv, FormNext
  PROVE  /\ typed \in Nat /\ typed' \in Nat /\ typed <= typed'
         /\ Type => typed' = typed + 1
<1>0. typed \in Nat
  BY Rests DEF TypeInv, FormTypeOK
<1>1. ASSUME NEW a \in Attempts, (\E draft \in BOOLEAN : Press(a, draft)) \/ Serve(a) \/ Lose(a) \/ Continues(a)
      PROVE  UNCHANGED typed
  BY <1>1 DEF Press, Serve, Lose, Continues, Fails, Throws, Refused, Succeeds, Clears, Pushes, bounds
<1>2. UNCHANGED typed \/ (Type /\ typed' = typed + 1)
  BY <1>1 DEF FormNext, Open, Type, TimerFires, Perform, Reconnect, Disconnect, Leave, Die, bounds
<1> QED
  BY <1>0, <1>2 DEF Type

LEMMA KnownNext ==
  ASSUME TypeInv, Screen, Waits, Known, [FormNext]_formVars
  PROVE  Known'
<1>1. CASE UNCHANGED formVars
  BY <1>1 DEF formVars, Known, Somewhere, Puts, UnderWay
<1>2. CASE FormNext
  <2>0. /\ typed \in Nat /\ typed' \in Nat /\ typed <= typed' /\ (Type => typed' = typed + 1)
        /\ Texts \subseteq Nat /\ kept \in Nat /\ 0 <= typed'
        /\ \A t \in arrived : t \in Nat
    BY <1>2, TypedMoves, Rests DEF TypeInv, FormTypeOK, Texts
  <2>1. \A t \in Texts : Somewhere(t)' => t <= typed'
    <3>1. ASSUME NEW t \in Texts, Somewhere(t)'
          PROVE  t <= typed'
      <4>1. Somewhere(t) \/ (Type /\ t = typed + 1)
        BY <1>2, <3>1, TextsMove
      <4>2. t \in Nat /\ (Somewhere(t) => t <= typed)
        BY <2>0 DEF Known
      <4> QED
        BY <2>0, <4>1, <4>2
    <3> QED
      BY <3>1
  <2>2. kept' <= typed'
    <3>1. CASE 1 \in Puts /\ kept' = ops[1].text
      <4>1. ops[1] \in Request /\ ops[1].text # 0
        BY <3>1 DEF Puts, TypeInv, Known
      <4>2. ops[1].text \in Texts /\ Somewhere(ops[1].text)
        <5>1. ops[1].text \in 0..MaxTexts
          BY <4>1 DEF Request
        <5> QED
          BY <3>1, <4>1, <5>1, Rests DEF Texts, Somewhere
      <4>3. ops[1].text \in Nat /\ ops[1].text <= typed
        BY <2>0, <4>2 DEF Known
      <4> QED
        BY <2>0, <3>1, <4>3
    <3>2. CASE UNCHANGED kept
      BY <2>0, <3>2 DEF Known
    <3>3. CASE kept' = 0
      BY <2>0, <3>3
    <3> QED
      BY <1>2, <3>1, <3>2, <3>3, KeptMoves
  <2>3. \A t \in arrived' : t <= typed'
    <3>1. CASE UNCHANGED arrived
      BY <2>0, <3>1 DEF Known
    <3>2. ASSUME NEW a \in Attempts, attempt[a].pc = "leaves", arrived' = arrived \cup {attempt[a].text}
          PROVE  \A t \in arrived' : t <= typed'
      <4>1. attempt[a].text \in 0..MaxTexts /\ attempt[a].text # 0 /\ UnderWay(a)
        BY <3>2 DEF TypeInv, FormTypeOK, AttemptType, Screen, UnderWay
      <4>2. attempt[a].text \in Texts /\ Somewhere(attempt[a].text)
        BY <4>1, Rests DEF Texts, Somewhere
      <4>3. attempt[a].text \in Nat /\ attempt[a].text <= typed
        BY <2>0, <4>2 DEF Known
      <4>4. \A t \in arrived : t \in Nat /\ t <= typed
        BY <2>0 DEF Known
      <4>5. \A t \in arrived' : t \in Nat /\ t <= typed
        BY <3>2, <4>3, <4>4
      <4> QED
        BY <2>0, <4>5
    <3> QED
      BY <1>2, <3>1, <3>2, ArrivedMoves
  <2>4. \A i \in Puts' : ops'[i].text # 0
    BY <1>2, PutsMove
  <2> QED
    BY <2>1, <2>2, <2>3, <2>4 DEF Known
<1> QED
  BY <1>1, <1>2

-----------------------------------------------------------------------------
(* The server has what it answered *)

\* The turns of an attempt that other parts take part in.
LEMMA Turns ==
  ASSUME TypeInv, Screen, Waits, FormNext, NEW a \in Attempts
  PROVE  /\ attempt[a].pc = "calls" /\ attempt'[a].pc = "ok" =>
              \E m \in made' : m.text = attempt[a].text
         /\ attempt[a].pc = "waits" /\ attempt'[a].pc = "clears" => Clears(a)
         /\ attempt[a].pc = "clears" /\ attempt'[a].pc = "leaves" => store'.text = 0
<1>0. attempt \in [Attempts -> AttemptType]
  BY DEF TypeInv, FormTypeOK
<1>1. CASE Open \/ Type \/ TimerFires \/ Disconnect \/ Leave
  BY <1>1 DEF Open, Type, TimerFires, Disconnect, Leave
<1>2. CASE Perform
  <2>1. CASE Stays(a)
    BY <2>1 DEF Stays
  <2>2. CASE Ends(a)
    BY <2>2, Rests DEF Ends
  <2>3. CASE attempt[a].pc = "clears" /\ Head(ops).op = "delete"
    BY <1>2, <2>3, Rests DEF Perform, Delete
  <2> QED
    BY <1>2, <2>1, <2>2, <2>3, PerformMoves
<1>3. CASE Reconnect
  BY <1>3, ReconnectStarts DEF Starts, Stays
<1>4. CASE Die
  <2>1. attempt'[a].pc \in {"abandoned", "free"}
    BY <1>0, <1>4, Rests DEF Die, AttemptType
  <2> QED
    BY <2>1
<1>5. ASSUME NEW b \in Attempts, NEW draft \in BOOLEAN, Press(b, draft)
      PROVE  Starts(a) \/ Stays(a)
  BY <1>5, PressStarts DEF Starts
<1>6. ASSUME NEW b \in Attempts, Serve(b)
      PROVE  /\ ~(attempt[a].pc = "waits" /\ attempt'[a].pc = "clears")
             /\ ~(attempt[a].pc = "clears" /\ attempt'[a].pc = "leaves")
             /\ attempt[a].pc = "calls" /\ attempt'[a].pc = "ok" =>
                  \E m \in made' : m.text = attempt[a].text
  <2>1. CASE a = b
    <3> PICK result \in {"ok", "refused", "thrown"} :
         /\ attempt' = IF attempt[b].pc = "abandoned" THEN [attempt EXCEPT ![b] = Free]
                       ELSE [attempt EXCEPT ![b].pc = result]
         /\ made' = IF result = "ok"
                    THEN made \cup {[text |-> attempt[b].text, draft |-> attempt[b].draft,
                                     wish |-> attempt[b].wish]}
                    ELSE made
      BY <1>6 DEF Serve
    <3>1. attempt[a].pc = "calls" => attempt'[a].pc = result
      BY <1>0, <2>1 DEF AttemptType
    <3>2. ASSUME attempt[a].pc = "calls", attempt'[a].pc = "ok"
          PROVE  \E m \in made' : m.text = attempt[a].text
      <4> DEFINE m == [text |-> attempt[b].text, draft |-> attempt[b].draft, wish |-> attempt[b].wish]
      <4>1. m \in made' /\ m.text = attempt[a].text
        BY <2>1, <3>1, <3>2
      <4> QED
        BY <4>1
    <3>3. attempt[a].pc \in {"calls", "abandoned"}
      BY <1>6, <2>1 DEF Serve
    <3> QED
      BY <3>2, <3>3
  <2>2. CASE a # b
    <3>1. Stays(a)
      BY <1>0, <1>6, <2>2 DEF Serve, Stays
    <3> QED
      BY <3>1 DEF Stays
  <2> QED
    BY <2>1, <2>2
<1>7. ASSUME NEW b \in Attempts, Clears(b)
      PROVE  a = b \/ Stays(a)
  BY <1>0, <1>7 DEF Clears, Goes, Stays
<1>8. ASSUME NEW b \in Attempts, Lose(b) \/ Fails(b) \/ Succeeds(b)
      PROVE  Stays(a) \/ attempt'[a].pc \in {"fails", "saves", "waits"}
  BY <1>0, <1>8 DEF Lose, Fails, Succeeds, Goes, Stays, AttemptType
<1>9. ASSUME NEW b \in Attempts, Throws(b) \/ Refused(b) \/ Pushes(b)
      PROVE  Stays(a) \/ Ends(a)
  BY <1>0, <1>9 DEF Throws, Refused, Pushes, Stays, Ends
<1> QED
  <2>1. CASE Stays(a)
    BY <2>1 DEF Stays
  <2>2. CASE Ends(a)
    BY <2>2, Rests DEF Ends
  <2>3. CASE Starts(a)
    BY <2>3 DEF Starts
  <2>4. CASE attempt'[a].pc \in {"fails", "saves", "waits"}
    BY <2>4
  <2>5. CASE Clears(a)
    BY <2>5 DEF Clears
  <2>6. CASE \E b \in Attempts : Press(b, TRUE) \/ Press(b, FALSE)
    BY <1>5, <2>1, <2>3, <2>6
  <2>7. CASE \E b \in Attempts : Serve(b)
    BY <1>6, <2>7
  <2>8. CASE \E b \in Attempts : Lose(b) \/ Continues(b)
    BY <1>7, <1>8, <1>9, <2>1, <2>2, <2>4, <2>5, <2>8 DEF Continues
  <2> QED
    BY <1>1, <1>2, <1>3, <1>4, <2>6, <2>7, <2>8 DEF FormNext

LEMMA MadeGrows ==
  ASSUME FormNext
  PROVE  made \subseteq made'
<1>1. ASSUME NEW a \in Attempts, (\E draft \in BOOLEAN : Press(a, draft)) \/ Serve(a) \/ Lose(a) \/ Continues(a)
      PROVE  made \subseteq made'
  BY <1>1 DEF Press, Serve, Lose, Continues, Fails, Throws, Refused, Succeeds, Clears, Pushes
<1> QED
  BY <1>1 DEF FormNext, Open, Type, TimerFires, Perform, Reconnect, Disconnect, Leave, Die

LEMMA ConfirmedNext ==
  ASSUME TypeInv, Screen, Waits, Confirmed, [FormNext]_formVars
  PROVE  Confirmed'
<1>1. CASE UNCHANGED formVars
  BY <1>1 DEF formVars, Confirmed, Answered
<1>2. CASE FormNext
  <2> SUFFICES ASSUME NEW a \in Attempts, Answered(a)'
               PROVE  \E m \in made' : m.text = attempt'[a].text
    BY DEF Confirmed
  <2>0. made \subseteq made'
    BY <1>2, MadeGrows
  <2>1. CASE Stays(a)
    BY <2>0, <2>1 DEF Stays, Confirmed, Answered
  <2>2. CASE GoesOn(a)
    <3>1. Answered(a) \/ (attempt[a].pc = "calls" /\ attempt'[a].pc = "ok")
      BY <2>2 DEF GoesOn, Courses, Answered
    <3>2. attempt'[a].text = attempt[a].text
      BY <2>2 DEF GoesOn
    <3>3. CASE Answered(a)
      BY <2>0, <3>2, <3>3 DEF Confirmed
    <3> QED
      BY <1>2, <3>1, <3>2, <3>3, Turns
  <2>3. CASE Ends(a) \/ Starts(a)
    BY <2>3, Rests DEF Ends, Starts, Answered
  <2> QED
    BY <1>2, <2>1, <2>2, <2>3, Moves
<1> QED
  BY <1>1, <1>2

-----------------------------------------------------------------------------
(* One attempt at a time *)

LEMMA StraysOnce == ASSUME TypeInv, Screen, FormNext PROVE strayed => strayed'
<1>0. strayed \in BOOLEAN
  BY DEF TypeInv, FormTypeOK
<1>1. ASSUME NEW a \in Attempts, NEW draft \in BOOLEAN, Press(a, draft)
      PROVE  strayed => strayed'
  BY <1>1, PressStarts DEF Starts
<1>2. ASSUME NEW a \in Attempts, Serve(a) \/ Lose(a) \/ Continues(a)
      PROVE  strayed => strayed'
  BY <1>2 DEF Serve, Lose, Continues, Fails, Throws, Refused, Succeeds, Clears, Pushes, faults
<1>3. Reconnect => (strayed => strayed')
  BY ReconnectStarts DEF Starts
<1> QED
  BY <1>1, <1>2, <1>3 DEF FormNext, Open, Type, TimerFires, Perform, Disconnect, Leave, Die, faults

\* While the only attempt is under way its form stays on the screen, shut to
\* other attempts, and its text is only replaced by later ones.
LEMMA FormStays ==
  ASSUME TypeInv, Screen, Waits, Known, Alone, FormNext, ~strayed',
         NEW a \in Attempts, UnderWay(a), UnderWay(a)'
  PROVE  form'.open /\ opens' = opens /\ form'.sent /\ form.text <= form'.text
<1>0. /\ form.open /\ attempt[a].of = opens /\ form.sent /\ Mine(a) /\ ~form.restoring /\ form.text # 0
      /\ form \in ScreenType /\ form.text \in Nat /\ form.text <= form.text
      /\ \A b \in Attempts : UnderWay(b) => b = a
  <2>1. form \in ScreenType
    BY DEF TypeInv, FormTypeOK, ScreenType
  <2> QED
    BY <2>1, Rests DEF Alone, Screen, Mine, ScreenType
<1>1. CASE Type
  <2>1. form.text \in Texts
    BY <1>0, Rests DEF Texts, ScreenType
  <2>2. form.text <= typed /\ typed \in Nat
    BY <1>1, <2>1, TypedMoves DEF Known, Somewhere
  <2>3. form'.text = typed + 1 /\ form'.open /\ form'.sent /\ opens' = opens
    BY <1>0, <1>1 DEF Type, ScreenType
  <2> QED
    BY <1>0, <2>2, <2>3
<1>2. CASE Perform
  <2>0. opens' = opens
    BY <1>2 DEF Perform, bounds
  <2>1. Head(ops) = ops[1] /\ 1 \in DOMAIN ops
    BY <1>2, AtHead DEF Perform
  <2>2. Head(ops).op = "get" => Head(ops).by # opens
    BY <1>0, <2>1 DEF Waits
  <2>3. ASSUME Head(ops).op = "put", Put(Head(ops)), Head(ops).by \in Attempts
        PROVE  FALSE
    <3>1. UnderWay(Head(ops).by)
      BY <2>1, <2>3 DEF Waits, UnderWay
    <3>2. attempt'[a] = Free
      BY <1>0, <2>3, <3>1 DEF Put, TypeInv, FormTypeOK
    <3> QED
      BY <3>2, Rests DEF UnderWay
  <2>4. UNCHANGED form
    BY <1>2, <2>2, <2>3 DEF Perform, Restore, Put, Delete
  <2> QED
    BY <1>0, <2>0, <2>4
<1>3. CASE Die
  <2>1. attempt'[a].pc \in {"abandoned", "free"}
    BY <1>3, Rests DEF Die, TypeInv, FormTypeOK, AttemptType
  <2> QED
    BY <2>1 DEF UnderWay
<1>4. CASE Open \/ Leave
  BY <1>0, <1>4 DEF Open, Leave
<1>5. CASE TimerFires \/ Disconnect
  BY <1>0, <1>5 DEF TimerFires, Disconnect, bounds
<1>6. ASSUME NEW b \in Attempts, Starts(b)
      PROVE  FALSE
  BY <1>6 DEF Starts
<1>7. CASE Reconnect
  <2>1. UNCHANGED <<form, opens>>
    BY <1>6, <1>7, ReconnectStarts
  <2> QED
    BY <1>0, <2>1
<1>8. ASSUME NEW b \in Attempts, NEW draft \in BOOLEAN, Press(b, draft)
      PROVE  FALSE
  BY <1>6, <1>8, PressStarts
<1>9. ASSUME NEW b \in Attempts, Throws(b) \/ Refused(b) \/ Pushes(b)
      PROVE  FALSE
  <2>1. UnderWay(b) /\ attempt'[b] = Free
    BY <1>9 DEF Throws, Refused, Pushes, UnderWay, TypeInv, FormTypeOK
  <2> QED
    BY <1>0, <2>1, Rests DEF UnderWay
<1>10. ASSUME NEW b \in Attempts, Serve(b) \/ Lose(b) \/ Fails(b) \/ Succeeds(b) \/ Clears(b)
       PROVE  UNCHANGED <<form, opens>>
  BY <1>10 DEF Serve, Lose, Fails, Succeeds, Clears, bounds
<1>11. ASSUME NEW b \in Attempts, Serve(b) \/ Lose(b) \/ Continues(b)
       PROVE  UNCHANGED <<form, opens>>
  BY <1>9, <1>10, <1>11 DEF Continues
<1> QED
  BY <1>0, <1>1, <1>2, <1>3, <1>4, <1>5, <1>7, <1>8, <1>11 DEF FormNext

\* An attempt that is under way after a step was so before it, or has begun.
LEMMA WasUnderWay ==
  ASSUME TypeInv, Screen, Waits, FormNext, NEW a \in Attempts, UnderWay(a)'
  PROVE  Starts(a) \/ (UnderWay(a) /\ attempt'[a].text = attempt[a].text /\ attempt'[a].of = attempt[a].of)
BY Moves, Rests DEF Stays, Ends, GoesOn, Courses, UnderWay

LEMMA AloneNext ==
  ASSUME TypeInv, Screen, Waits, Known, Alone, FormNext, ~strayed'
  PROVE  Alone'
<1>0. TypeInv'
  BY FormTypeNext
<1>1. ASSUME NEW a \in Attempts, UnderWay(a)'
      PROVE  form'.open /\ attempt'[a].of = opens' /\ form'.sent /\ attempt'[a].text <= form'.text
  <2>0. attempt[a].text \in Nat /\ form.text \in Nat /\ form'.text \in Nat /\ form.text <= form.text
    <3>1. attempt[a].text \in 0..MaxTexts
      BY DEF TypeInv, FormTypeOK, AttemptType
    <3>2. form.text \in 0..MaxTexts
      BY DEF TypeInv, FormTypeOK
    <3>3. form'.text \in 0..MaxTexts
      BY <1>0 DEF TypeInv, FormTypeOK
    <3> QED
      BY <3>1, <3>2, <3>3, Rests
  <2>1. CASE Starts(a)
    BY <2>0, <2>1 DEF Starts
  <2>2. CASE UnderWay(a) /\ attempt'[a].text = attempt[a].text /\ attempt'[a].of = attempt[a].of
    <3>1. form'.open /\ opens' = opens /\ form'.sent /\ form.text <= form'.text
      BY <1>1, <2>2, FormStays
    <3> QED
      BY <2>0, <2>2, <3>1 DEF Alone
  <2> QED
    BY <1>1, <2>1, <2>2, WasUnderWay
<1>2. ASSUME NEW a \in Attempts, NEW b \in Attempts, UnderWay(a)', UnderWay(b)'
      PROVE  a = b
  <2>1. ASSUME NEW c \in Attempts, NEW d \in Attempts, Starts(c), UnderWay(d)'
        PROVE  c = d
    BY <2>1 DEF Starts, Stays, UnderWay
  <2>2. CASE UnderWay(a) /\ UnderWay(b)
    BY <2>2 DEF Alone
  <2> QED
    BY <1>2, <2>1, <2>2, WasUnderWay
<1> QED
  BY <1>1, <1>2 DEF Alone

-----------------------------------------------------------------------------
(* What is written last *)

\* While an attempt is under way nobody else asks the store to write.
LEMMA WritesAlone ==
  ASSUME TypeInv, Screen, Waits, Alone, NEW op \in Request, Asks(op), op.op = "put",
         NEW a \in Attempts, UnderWay(a)
  PROVE  op.by = a /\ attempt[a].pc = "fails"
<1>1. form.sent /\ \A b \in Attempts : UnderWay(b) => b = a
  BY DEF Alone
<1>2. op.by \in Attempts /\ attempt[op.by].pc = "fails"
  BY <1>1 DEF Asks
<1> QED
  BY <1>1, <1>2 DEF UnderWay

LEMMA QueueOrder ==
  ASSUME TypeInv, Screen, Waits, Alone, Queue, FormNext
  PROVE  \A i, j \in Puts' : ops'[i].by \in Attempts => j <= i
<1>1. CASE \E op \in Request : Asks(op)
  <2> PICK op \in Request : Asks(op)
    BY <1>1
  <2> SUFFICES ASSUME NEW i \in Puts', NEW j \in Puts', ops'[i].by \in Attempts
               PROVE  j <= i
    OBVIOUS
  <2>0. ops' = Append(ops, op)
    BY DEF Asks
  <2>1. /\ \A k \in Puts : k \in 1..Len(ops) /\ Len(ops) \in Nat
        /\ (i \in Puts /\ ops'[i] = ops[i]) \/ (i = Len(ops) + 1 /\ ops'[i] = op /\ op.op = "put")
        /\ (j \in Puts /\ ops'[j] = ops[j]) \/ (j = Len(ops) + 1 /\ ops'[j] = op /\ op.op = "put")
    BY <2>0, PutsAppended
  <2>2. Len(ops) \in Nat
    BY DEF TypeInv
  <2>3. CASE i \in Puts /\ ops'[i] = ops[i] /\ j \in Puts
    BY <2>3 DEF Queue
  <2>4. CASE i = Len(ops) + 1
    BY <2>1, <2>2, <2>4
  <2>5. CASE i \in Puts /\ ops'[i] = ops[i] /\ op.op = "put"
    <3>1. ops[i].by \in Attempts /\ attempt[ops[i].by].pc = "saves"
      BY <2>5 DEF Puts, Waits
    <3>2. UnderWay(ops[i].by)
      BY <3>1 DEF UnderWay
    <3> QED
      BY <2>5, <3>1, <3>2, WritesAlone
  <2> QED
    BY <2>1, <2>3, <2>4, <2>5
<1>2. CASE Perform /\ ops' = Tail(ops)
  <2> SUFFICES ASSUME NEW i \in Puts', NEW j \in Puts', ops'[i].by \in Attempts
               PROVE  j <= i
    OBVIOUS
  <2>1. i \in Nat /\ j \in Nat /\ i + 1 \in Puts /\ j + 1 \in Puts /\ ops'[i] = ops[i + 1]
    BY <1>2, PutsTailed DEF Perform
  <2>2. j + 1 <= i + 1
    BY <2>1 DEF Queue
  <2> QED
    BY <2>1, <2>2
<1>3. CASE ops' = ops
  BY <1>3 DEF Puts, Queue
<1>4. CASE ops' = <<>>
  BY <1>4 DEF Puts
<1> QED
  BY <1>1, <1>2, <1>3, <1>4, RequestsMove

\* No put is left when the attempt may clear the store ...
LEMMA NoPutLeft ==
  ASSUME TypeInv, Screen, Waits, Alone, NEW a \in Attempts, Clears(a)
  PROVE  Puts = {}
<1> SUFFICES ASSUME NEW i \in Puts PROVE FALSE
  OBVIOUS
<1>1. i \in DOMAIN ops /\ ops[i].op = "put" /\ AskedBy(ops[i], opens)
  BY DEF Puts, TypeInv
<1>2. CASE ops[i].by = "timer"
  BY <1>1, <1>2 DEF Clears, Asked
<1>3. CASE ops[i].by \in Attempts
  <2>1. attempt[ops[i].by].pc = "saves" /\ attempt[a].pc = "waits"
    BY <1>1, <1>3 DEF Waits, Clears
  <2> QED
    BY <1>3, <2>1 DEF Alone, UnderWay
<1> QED
  BY <1>1, <1>2, <1>3 DEF AskedBy

\* ... and none comes until it has left the screen.
LEMMA NoPutComes ==
  ASSUME TypeInv, Screen, Waits, Alone, Queue, FormNext,
         NEW a \in Attempts, attempt'[a].pc \in {"clears", "leaves"}
  PROVE  Puts' = {}
<1>1. /\ attempt[a].pc \in {"waits", "clears", "leaves"} /\ UnderWay(a)
      /\ attempt[a].pc = "waits" => attempt'[a].pc = "clears"
  BY Moves, Rests DEF Stays, Ends, Starts, GoesOn, Courses, UnderWay
<1>2. Puts = {}
  BY <1>1, NoPutLeft, Turns DEF Queue
<1> SUFFICES ASSUME NEW i \in Puts' PROVE FALSE
  OBVIOUS
<1>3. ASSUME NEW op \in Request, Asks(op)
      PROVE  FALSE
  <2>1. op.op = "put"
    BY <1>2, <1>3, PutsAppended DEF Asks
  <2> QED
    BY <1>1, <1>3, <2>1, WritesAlone
<1>4. CASE Perform /\ ops' = Tail(ops)
  BY <1>2, <1>4, PutsTailed DEF Perform
<1>5. CASE ops' = ops \/ ops' = <<>>
  BY <1>2, <1>5 DEF Puts
<1> QED
  BY <1>3, <1>4, <1>5, RequestsMove

LEMMA QueueNext ==
  ASSUME TypeInv, Screen, Waits, Alone, Queue, FormNext
  PROVE  Queue'
<1>1. \A i, j \in Puts' : ops'[i].by \in Attempts => j <= i
  BY QueueOrder
<1>2. \A a \in Attempts : attempt'[a].pc \in {"clears", "leaves"} => Puts' = {}
  BY NoPutComes
<1>3. ASSUME NEW a \in Attempts, attempt'[a].pc = "leaves"
      PROVE  store'.text = 0
  <2>1. attempt[a].pc = "clears" \/ (attempt[a].pc = "leaves" /\ UnderWay(a))
    BY <1>3, Moves, Rests DEF Stays, Ends, Starts, GoesOn, Courses, UnderWay
  <2>2. CASE attempt[a].pc = "leaves"
    <3>1. Puts = {} /\ store.text = 0
      BY <2>2 DEF Queue
    <3> QED
      BY <3>1, StoreMoves
  <2> QED
    BY <1>3, <2>1, <2>2, Turns
<1> QED
  BY <1>1, <1>2, <1>3 DEF Queue

-----------------------------------------------------------------------------
(* Nothing is lost *)

\* The text that was said to be kept has been typed.
LEMMA Numbers ==
  ASSUME TypeInv
  PROVE  /\ kept \in Nat /\ typed \in Nat /\ store.text \in 0..MaxTexts /\ form.text \in 0..MaxTexts
         /\ Texts \subseteq Nat /\ \A t \in 0..MaxTexts : t \in Nat /\ (t # 0 => t \in Texts)
         /\ \A a \in Attempts : attempt[a].text \in 0..MaxTexts
         /\ \A i \in Puts : ops[i].text \in 0..MaxTexts
         /\ \A m \in made : m.text \in Nat
         /\ \A m \in made : m.text \in 0..MaxTexts
<1>1. kept \in 0..MaxTexts /\ typed \in 0..MaxTexts /\ store.text \in 0..MaxTexts /\ form.text \in 0..MaxTexts
  BY DEF TypeInv, FormTypeOK
<1>2. \A a \in Attempts : attempt[a].text \in 0..MaxTexts
  BY DEF TypeInv, FormTypeOK, AttemptType
<1>3. \A i \in Puts : ops[i].text \in 0..MaxTexts
  <2>1. \A i \in Puts : ops[i] \in Request
    BY DEF TypeInv, Puts
  <2> QED
    BY <2>1 DEF Request
<1>4. \A m \in made : m.text \in 0..MaxTexts
  BY DEF TypeInv
<1>5. Texts \subseteq Nat /\ \A t \in 0..MaxTexts : t \in Nat /\ (t # 0 => t \in Texts)
  BY Rests DEF Texts
<1> QED
  BY <1>1, <1>2, <1>3, <1>4, <1>5

\* An attempt has just saved its text: it is the latest one there is.
LEMMA KeepsNew ==
  ASSUME TypeInv, Screen, Waits, Known, Alone, Queue, FormNext, ~strayed',
         Perform, Head(ops).op = "put", 1 \in Puts, Head(ops) = ops[1],
         Head(ops).by \in Attempts, attempt[Head(ops).by].pc = "saves",
         attempt'[Head(ops).by].pc = "free",
         kept' = Head(ops).text, store'.text = kept', form'.text = form.text
  PROVE  store'.text >= kept' /\ \A t \in Texts : Somewhere(t)' => t >= kept'
<1> DEFINE a == Head(ops).by
<1>0. /\ a \in Attempts /\ UnderWay(a) /\ attempt[a].text = kept'
      /\ \A b \in Attempts : UnderWay(b) => b = a
      /\ attempt[a].text <= form.text
  BY DEF Waits, UnderWay, Alone, Puts
<1>1. kept' \in Nat /\ Texts \subseteq Nat /\ form.text \in Nat
  BY <1>0, Numbers
<1>2. Puts' = {}
  <2> SUFFICES ASSUME NEW i \in Puts' PROVE FALSE
    OBVIOUS
  <2>1. i \in Nat /\ i + 1 \in Puts
    BY PutsTailed DEF Perform
  <2>2. \A k \in Nat : ~(k + 1 <= 1) \/ k = 0
    OBVIOUS
  <2>3. i \in DOMAIN ops'
    BY DEF Puts
  <2>4. i # 0
    BY <2>3, Tailed DEF Perform, TypeInv
  <2>5. i + 1 <= 1
    BY <2>1 DEF Queue
  <2> QED
    BY <2>1, <2>2, <2>4, <2>5
<1>3. ASSUME NEW b \in Attempts, UnderWay(b)'
      PROVE  FALSE
  <2>1. ~Starts(b)
    BY <1>0 DEF Starts
  <2>2. UnderWay(b)
    BY <1>3, <2>1, WasUnderWay
  <2> QED
    BY <1>0, <1>3, <2>2 DEF UnderWay
<1> HIDE DEF a
<1>4. ASSUME NEW t \in Texts, Somewhere(t)'
      PROVE  t >= kept'
  <2>1. t = form.text \/ t = kept'
    BY <1>2, <1>3, <1>4 DEF Somewhere
  <2> QED
    BY <1>0, <1>1, <2>1
<1> QED
  BY <1>1, <1>4

\* Nothing else makes the text that is kept earlier or lets it go before the
\* server has it.
LEMMA KeepsOld ==
  ASSUME TypeInv, Screen, Waits, Known, Confirmed, Alone, Queue, Keeps, FormNext, UNCHANGED kept
  PROVE  Keeps'
<1>0. /\ kept \in Nat /\ Texts \subseteq Nat /\ typed \in Nat /\ kept <= typed
      /\ \A t \in 0..MaxTexts : t \in Nat /\ (t # 0 => t \in Texts)
  BY Numbers DEF Known
<1>1. CASE kept = 0
  BY <1>1 DEF Keeps
<1>2. CASE Reached
  BY <1>2, MadeGrows DEF Keeps, Reached
<1>3. CASE kept # 0 /\ ~Reached
  <2>0. store.text >= kept /\ \A t \in Texts : Somewhere(t) => t >= kept
    BY <1>3 DEF Keeps
  <2>1. ASSUME NEW t \in Texts, Somewhere(t)'
        PROVE  t >= kept
    <3>1. t \in Nat /\ (Somewhere(t) \/ t = typed + 1)
      BY <1>0, <2>1, TextsMove
    <3>2. CASE Somewhere(t)
      BY <2>0, <3>2
    <3>3. CASE t = typed + 1
      BY <1>0, <3>3
    <3> QED
      BY <3>1, <3>2, <3>3
  <2>2. store'.text >= kept
    <3>1. CASE UNCHANGED store
      BY <2>0, <3>1
    <3>2. CASE 1 \in Puts /\ store'.text = ops[1].text
      <4>1. ops[1].text \in Texts /\ Somewhere(ops[1].text)
        BY <1>0, <3>2, Numbers DEF Known, Somewhere
      <4> QED
        BY <2>0, <3>2, <4>1
    <3>3. ASSUME NEW a \in Attempts, attempt[a].pc = "clears"
          PROVE  FALSE
      <4>1. PICK m \in made : m.text = attempt[a].text
        BY <3>3 DEF Confirmed, Answered
      <4>2. UnderWay(a) /\ attempt[a].text # 0
        BY <3>3 DEF UnderWay, Screen
      <4>3. attempt[a].text \in Texts /\ Somewhere(attempt[a].text)
        BY <1>0, <4>2, Numbers DEF Somewhere
      <4>4. m.text >= kept
        BY <2>0, <4>1, <4>3
      <4> QED
        BY <1>3, <4>4 DEF Reached
    <3> QED
      BY <3>1, <3>2, <3>3, StoreMoves
  <2> QED
    BY <2>1, <2>2 DEF Keeps
<1> QED
  BY <1>1, <1>2, <1>3

LEMMA KeepsNext ==
  ASSUME TypeInv, Screen, Waits, Known, Confirmed, Alone, Queue, Keeps, FormNext, ~strayed'
  PROVE  Keeps'
BY KeepsOld, KeepsNew, KeptMoves DEF Keeps

-----------------------------------------------------------------------------
(* What was sent is gone *)

LEMMA GoneNext ==
  ASSUME TypeInv, Screen, Waits, Known, Alone, Queue, Gone, FormNext
  PROVE  Gone'
<1>0. typed \in Nat /\ Texts \subseteq Nat /\ arrived \subseteq Texts
  BY Numbers DEF TypeInv, FormTypeOK
<1>1. ASSUME NEW t \in arrived, Somewhere(t)'
      PROVE  FALSE
  <2>1. t \in Texts /\ t \in Nat /\ t <= typed /\ ~Somewhere(t)
    BY <1>0 DEF Known, Gone
  <2>2. t = typed + 1
    BY <1>1, <2>1, TextsMove
  <2> QED
    BY <1>0, <2>1, <2>2
<1>2. ASSUME NEW a \in Attempts, Pushes(a), attempt[a].pc = "leaves",
             NEW t \in {attempt[a].text}, Somewhere(t)'
      PROVE  FALSE
  <2>0. attempt[a].text # 0 /\ UnderWay(a)
    BY <1>2 DEF Screen, UnderWay
  <2>1. form'.text = 0 /\ store'.text = 0 /\ Puts' = {}
    BY <1>2, Rests DEF Pushes, Queue, Puts
  <2>2. ASSUME NEW b \in Attempts, UnderWay(b)'
        PROVE  FALSE
    <3>1. attempt'[a] = Free /\ \A c \in Attempts \ {a} : attempt'[c] = attempt[c]
      BY <1>2 DEF Pushes, TypeInv, FormTypeOK
    <3>2. b # a
      BY <2>2, <3>1, Rests DEF UnderWay
    <3>3. UnderWay(b)
      BY <2>2, <3>1, <3>2 DEF UnderWay
    <3> QED
      BY <2>0, <3>2, <3>3 DEF Alone
  <2> QED
    BY <1>2, <2>0, <2>1, <2>2 DEF Somewhere
<1>3. CASE UNCHANGED arrived
  BY <1>1, <1>3 DEF Gone
<1>4. ASSUME NEW a \in Attempts, Pushes(a), attempt[a].pc = "leaves", arrived' = arrived \cup {attempt[a].text}
      PROVE  Gone'
  <2>1. ASSUME NEW t \in arrived'
        PROVE  ~Somewhere(t)'
    <3>1. t \in arrived \/ t \in {attempt[a].text}
      BY <1>4, <2>1
    <3> QED
      BY <1>1, <1>2, <1>4, <3>1
  <2> QED
    BY <2>1 DEF Gone
<1> QED
  BY <1>3, <1>4, ArrivedMoves

-----------------------------------------------------------------------------
(* The invariant, and what follows from it *)

LEMMA FormInvInit == FormInit => FormInv
<1> SUFFICES ASSUME FormInit PROVE FormInv
  OBVIOUS
<1>1. TypeInv
  BY FormTypeInit
<1>2. \A a \in Attempts : attempt[a] = Free
  BY DEF FormInit
<1>3. \A a \in Attempts : ~UnderWay(a) /\ ~Answered(a)
  BY <1>2, Rests DEF UnderWay, Answered
<1>4. DOMAIN ops = {} /\ Puts = {}
  BY DEF FormInit, Puts
<1>5. Screen /\ Waits /\ Confirmed
  BY <1>3, <1>4, Rests DEF FormInit, Screen, Waits, Confirmed
<1>6. \A t \in Texts : ~Somewhere(t)
  BY <1>3, <1>4, Rests DEF FormInit, Somewhere, Texts
<1>7. Known /\ Keeps /\ Gone
  BY <1>4, <1>6, Rests DEF FormInit, Known, Keeps, Gone
<1>8. Alone /\ Queue
  BY <1>2, <1>3, <1>4, Rests DEF Alone, Queue
<1> QED
  BY <1>1, <1>5, <1>7, <1>8 DEF FormInv, Looked

LEMMA FormInvNext == FormInv /\ [FormNext]_formVars => FormInv'
<1> SUFFICES ASSUME FormInv, [FormNext]_formVars PROVE FormInv'
  OBVIOUS
<1>1. TypeInv' /\ Screen' /\ Waits' /\ Known' /\ Confirmed'
  BY FormTypeNext, ScreenNext, WaitsNext, KnownNext, ConfirmedNext DEF FormInv, Looked
<1>2. CASE UNCHANGED formVars
  <2>1. (~strayed => Alone /\ Queue /\ Keeps /\ Gone)'
    BY <1>2 DEF formVars, FormInv, Alone, Queue, Keeps, Gone, Reached, Somewhere, Puts, UnderWay
  <2> QED
    BY <1>1, <2>1 DEF FormInv, Looked
<1>3. CASE FormNext
  <2>1. ASSUME ~strayed'
        PROVE  Alone' /\ Queue' /\ Keeps' /\ Gone'
    <3>1. ~strayed
      BY <1>3, <2>1, StraysOnce DEF FormInv, Looked
    <3> QED
      BY <1>3, <2>1, <3>1, AloneNext, QueueNext, KeepsNext, GoneNext DEF FormInv, Looked
  <2> QED
    BY <1>1, <2>1 DEF FormInv, Looked
<1> QED
  BY <1>2, <1>3

\* The invariant holds from the first opening of the screen on.
THEOREM FormInvAlways == FormSpec => []FormInv
BY FormInvInit, FormInvNext, PTL DEF FormSpec

\* Every variable of the form keeps its type, and so does the queue of its store.
THEOREM FormTypeCorrect == FormSpec => []FormTypeOK
<1>1. FormInv => FormTypeOK
  BY DEF FormInv, Looked, TypeInv
<1> QED
  BY <1>1, FormInvAlways, PTL

\* A text of which the screen said that it is kept is in the browser or at the
\* server, itself or as it was edited since, for any number of texts, attempts,
\* reloads and losses of the connection.
THEOREM NothingLostAlways == FormSpec => []NothingLost
<1>1. FormInv => NothingLost
  BY DEF FormInv, NothingLost, Keeps, Reached
<1> QED
  BY <1>1, FormInvAlways, PTL

\* Once the screen was left for the ticket, no draft of it is in the store, and
\* none is on its way there.
THEOREM NoGhostAlways == FormSpec => []NoGhost
<1>1. FormInv => NoGhost
  BY DEF FormInv, NoGhost, Gone, Somewhere, Puts
<1> QED
  BY <1>1, FormInvAlways, PTL

(***************************************************************************)
(* The board: its inductive invariant.  Before it is sent out, a ticket    *)
(* has no recipients and nobody asked anything; whoever of the contractors *)
(* writes a message has, or had, a row; and while a question is open the   *)
(* last message is of somebody who has, or had, a row.                     *)
(***************************************************************************)
Unsent == ticket.state \in {"none", "draft"}

NobodyYet ==
  /\ Unsent => unanswered = {} /\ \A r \in Recipients : assigned[r] = "none"
  /\ ticket.state = "none" => \A p \in People : writing[p] = NotWriting

WritersHaveRows ==
  Live => \A p \in Professionals :
            writing[p] # NotWriting => p \in Recipients /\ assigned[p] # "none"

LastHasRow ==
  Live /\ unanswered # {} => ticket.last \in Recipients /\ assigned[ticket.last] # "none"

IInv == TypeOK /\ NobodyYet /\ WritersHaveRows /\ LastHasRow

-----------------------------------------------------------------------------
(* Type correctness. *)

LEMMA TypeInit == Init => TypeOK
<1> SUFFICES ASSUME Init PROVE TypeOK
  OBVIOUS
<1>1. ticket \in [state : TicketStates, site : Sites \cup {None}, creator : Users \cup {None},
                  escalated : BOOLEAN, handler : Users \cup {None}, last : People \cup {None}]
  BY DEF Init, NoTicket, TicketStates
<1>2. assigned \in [Recipients -> RowStatus]
  BY DEF Init, RowStatus
<1>3. siteOf \in [Managers -> Sites \cup {None}]
  BY DEF Init
<1>4. writing \in [People -> Users \cup {None, NotWriting}] /\ unanswered \subseteq Recipients
  BY DEF Init
<1> QED
  BY <1>1, <1>2, <1>3, <1>4 DEF TypeOK

LEMMA TypeUser ==
  ASSUME TypeOK, NEW u \in Users, UserStep(u)
  PROVE  TypeOK'
<1>1. CASE \E site \in Sites, R \in SUBSET Recipients :
             \E state \in {"draft", "open"} : CreateTicket(u, site, state, R)
  <2> PICK site \in Sites, R \in SUBSET Recipients, state \in {"draft", "open"} :
            CreateTicket(u, site, state, R)
    BY <1>1
  <2>1. ticket' \in [state : TicketStates, site : Sites \cup {None}, creator : Users \cup {None},
                     escalated : BOOLEAN, handler : Users \cup {None}, last : People \cup {None}]
    BY DEF CreateTicket, NoTicket, TicketStates
  <2>2. assigned' \in [Recipients -> RowStatus]
    BY DEF CreateTicket, Assigns, TypeOK, RowStatus
  <2> QED
    BY <2>1, <2>2 DEF CreateTicket, TypeOK
<1>2. CASE \E site \in Sites \cup {None}, files \in BOOLEAN : CreateChannelDraft(u, site, files)
  <2> PICK site \in Sites \cup {None}, files \in BOOLEAN : CreateChannelDraft(u, site, files)
    BY <1>2
  <2>1. (IF files THEN u ELSE None) \in People \cup {None}
    BY DEF People
  <2>2. ticket' \in [state : TicketStates, site : Sites \cup {None}, creator : Users \cup {None},
                     escalated : BOOLEAN, handler : Users \cup {None}, last : People \cup {None}]
    BY <2>1 DEF CreateChannelDraft, NoTicket, TicketStates
  <2> QED
    BY <2>2 DEF CreateChannelDraft, TypeOK
<1>3. CASE \E site \in Sites : MoveDraft(u, site)
  BY <1>3 DEF MoveDraft, TypeOK, TicketStates
<1>4. CASE MergeFiles(u)
  BY <1>4 DEF MergeFiles, TypeOK, TicketStates, People
<1>5. CASE \E R \in SUBSET Recipients : SubmitDraft(u, R)
  <2> PICK R \in SUBSET Recipients : SubmitDraft(u, R)
    BY <1>5
  <2>1. assigned' \in [Recipients -> RowStatus]
    BY DEF SubmitDraft, Assigns, TypeOK, RowStatus
  <2>2. ticket' \in [state : TicketStates, site : Sites \cup {None}, creator : Users \cup {None},
                     escalated : BOOLEAN, handler : Users \cup {None}, last : People \cup {None}]
    BY DEF SubmitDraft, TypeOK, TicketStates
  <2> QED
    BY <2>1, <2>2 DEF SubmitDraft, TypeOK
<1>6. CASE \E R \in SUBSET Recipients : AddAssignments(u, R)
  <2> PICK R \in SUBSET Recipients : AddAssignments(u, R)
    BY <1>6
  <2>1. assigned' \in [Recipients -> RowStatus]
    BY DEF AddAssignments, Assigns, TypeOK, RowStatus
  <2>2. ticket' \in [state : TicketStates, site : Sites \cup {None}, creator : Users \cup {None},
                     escalated : BOOLEAN, handler : Users \cup {None}, last : People \cup {None}]
    BY DEF AddAssignments, TypeOK, TicketStates
  <2> QED
    BY <2>1, <2>2 DEF AddAssignments, TypeOK
<1>7. CASE \E r \in Recipients : RemoveAssignment(u, r)
  BY <1>7 DEF RemoveAssignment, TypeOK, TicketStates, RowStatus
<1>8. CASE CloseTicket(u)
  BY <1>8 DEF CloseTicket, TypeOK, TicketStates
<1>9. CASE ReopenTicket(u)
  BY <1>9 DEF ReopenTicket, TypeOK, TicketStates, RowStatus
<1>10. CASE DeleteTicket(u)
  BY <1>10 DEF DeleteTicket, NoTicket, TypeOK, TicketStates, RowStatus
<1>11. CASE SetHandler(u)
  BY <1>11 DEF SetHandler, TypeOK, TicketStates
<1>12. QED
  BY <1>1, <1>2, <1>3, <1>4, <1>5, <1>6, <1>7, <1>8, <1>9, <1>10, <1>11 DEF UserStep

LEMMA TypeNext == TypeOK /\ [Next]_vars => TypeOK'
<1> SUFFICES ASSUME TypeOK, [Next]_vars PROVE TypeOK'
  OBVIOUS
<1>1. CASE \E u \in Users : UserStep(u)
  BY <1>1, TypeUser
<1>2. CASE \E p \in Professionals : MarkViewed(p)
  BY <1>2 DEF MarkViewed, InPortal, Active, TypeOK, RowStatus
<1>3. CASE \E p \in Professionals : MarkDone(p)
  BY <1>3 DEF MarkDone, Active, TypeOK, TicketStates, RowStatus
<1>4. CASE \E p \in People : BeginMessage(p)
  BY <1>4 DEF BeginMessage, TypeOK
<1>5. CASE \E p \in People : WriteMessage(p)
  <2> PICK p \in People : WriteMessage(p)
    BY <1>5
  <2>1. TakesOver(p) => p \in Users
    BY DEF TakesOver
  <2>2. Active(p) => p \in Recipients
    BY DEF Active
  <2>3. writing' \in [People -> Users \cup {None, NotWriting}]
    BY DEF WriteMessage, TypeOK
  <2>4. CASE Live
    <3>1. ticket' \in [state : TicketStates, site : Sites \cup {None}, creator : Users \cup {None},
                       escalated : BOOLEAN, handler : Users \cup {None}, last : People \cup {None}]
      BY <2>1, <2>4 DEF WriteMessage, TypeOK
    <3>2. unanswered' \subseteq Recipients
      BY <2>2, <2>4 DEF WriteMessage, TypeOK
    <3> QED
      BY <2>3, <3>1, <3>2 DEF WriteMessage, TypeOK
  <2>5. CASE ~Live
    BY <2>3, <2>5 DEF WriteMessage, TypeOK
  <2> QED
    BY <2>4, <2>5
<1>6. CASE \E site \in Sites, M \in SUBSET Managers : SetSiteManagers(site, M)
  BY <1>6 DEF SetSiteManagers, TypeOK
<1>7. CASE Escalate
  BY <1>7 DEF Escalate, TypeOK, TicketStates
<1>8. CASE UNCHANGED vars
  BY <1>8 DEF vars, TypeOK
<1>9. QED
  BY <1>1, <1>2, <1>3, <1>4, <1>5, <1>6, <1>7, <1>8 DEF Next

\* Every reachable state is well typed.
THEOREM TypeCorrect == Spec => []TypeOK
  BY TypeInit, TypeNext, PTL DEF Spec

-----------------------------------------------------------------------------
(* The invariant. *)

LEMMA InvInit == Init => IInv
<1> SUFFICES ASSUME Init PROVE IInv
  OBVIOUS
<1>1. ticket.state = "none" /\ unanswered = {}
  BY DEF Init, NoTicket
<1> QED
  BY <1>1, TypeInit DEF IInv, Init, NobodyYet, WritersHaveRows, LastHasRow, Live

\* A step that changes neither the rows nor the messages, of a ticket that stays
\* as unsent, or as sent, as it was.
LEMMA Quietly ==
  ASSUME IInv, TypeOK', assigned' = assigned, writing' = writing, unanswered' = unanswered,
         Unsent' => Unsent, ticket'.state = "none" => ticket.state = "none",
         Live' => Live, Live' /\ unanswered # {} => ticket'.last = ticket.last
  PROVE  IInv'
  BY DEF IInv, NobodyYet, WritersHaveRows, LastHasRow, Live, Unsent

LEMMA InvUser ==
  ASSUME IInv, NEW u \in Users, UserStep(u)
  PROVE  IInv'
<1>t. TypeOK /\ TypeOK'
  BY TypeUser DEF IInv
<1>1. CASE \E site \in Sites, R \in SUBSET Recipients :
             \E state \in {"draft", "open"} : CreateTicket(u, site, state, R)
  <2> PICK site \in Sites, R \in SUBSET Recipients, state \in {"draft", "open"} :
            CreateTicket(u, site, state, R)
    BY <1>1
  <2>1. /\ ticket.state = "none" /\ ticket'.state = state
        /\ writing' = writing /\ unanswered' = unanswered
        /\ assigned' = [r \in Recipients |-> IF r \in R THEN "SENT" ELSE assigned[r]]
        /\ state = "draft" => R = {}
    BY DEF CreateTicket, NoTicket, Assigns
  <2>2. unanswered = {} /\ (\A r \in Recipients : assigned[r] = "none")
        /\ \A p \in People : writing[p] = NotWriting
    BY <2>1 DEF IInv, NobodyYet, Unsent
  <2> QED
    BY <1>t, <2>1, <2>2 DEF IInv, NobodyYet, WritersHaveRows, LastHasRow, Unsent, People
<1>2. CASE \E site \in Sites \cup {None}, files \in BOOLEAN : CreateChannelDraft(u, site, files)
  <2>1. /\ ticket.state = "none" /\ ticket'.state = "draft"
        /\ UNCHANGED <<assigned, writing, unanswered>>
    BY <1>2 DEF CreateChannelDraft, NoTicket
  <2> QED
    BY <1>t, <2>1 DEF IInv, NobodyYet, WritersHaveRows, LastHasRow, Unsent, People
<1>3. CASE \E site \in Sites : MoveDraft(u, site)
  BY <1>t, <1>3, Quietly DEF MoveDraft, Unsent, Live, TypeOK
<1>4. CASE MergeFiles(u)
  <2>1. unanswered = {}
    BY <1>4 DEF MergeFiles, IInv, NobodyYet, Unsent
  <2> QED
    BY <1>t, <1>4, <2>1, Quietly DEF MergeFiles, Unsent, Live, TypeOK
<1>5. CASE \E R \in SUBSET Recipients : SubmitDraft(u, R)
  <2> PICK R \in SUBSET Recipients : SubmitDraft(u, R)
    BY <1>5
  <2>1. /\ ticket.state = "draft" /\ ticket'.state = "open"
        /\ writing' = writing /\ unanswered' = unanswered
        /\ assigned' = [r \in Recipients |-> IF r \in R THEN "SENT" ELSE assigned[r]]
    BY <1>t DEF SubmitDraft, Assigns, TypeOK
  <2>2. unanswered = {} /\ Live
    BY <2>1 DEF IInv, NobodyYet, Unsent, Live
  <2> QED
    BY <1>t, <2>1, <2>2 DEF IInv, NobodyYet, WritersHaveRows, LastHasRow, Unsent
<1>6. CASE \E R \in SUBSET Recipients : AddAssignments(u, R)
  <2> PICK R \in SUBSET Recipients : AddAssignments(u, R)
    BY <1>6
  <2>1. /\ ticket.state \in {"open", "closed"}
        /\ ticket'.state = ticket.state /\ ticket'.last = ticket.last
        /\ writing' = writing /\ unanswered' = unanswered
        /\ assigned' = [r \in Recipients |-> IF r \in R THEN "SENT" ELSE assigned[r]]
    BY <1>t DEF AddAssignments, Assigns, TypeOK
  <2> QED
    BY <1>t, <2>1 DEF IInv, NobodyYet, WritersHaveRows, LastHasRow, Unsent, Live
<1>7. CASE \E r \in Recipients : RemoveAssignment(u, r)
  <2> PICK r \in Recipients : RemoveAssignment(u, r)
    BY <1>7
  <2>1. /\ ticket.state \in {"open", "closed"}
        /\ ticket'.state = ticket.state /\ ticket'.last = ticket.last
        /\ writing' = writing /\ unanswered' = unanswered
        /\ assigned' = [assigned EXCEPT ![r] = "REMOVED"]
    BY <1>t DEF RemoveAssignment, TypeOK
  <2> QED
    BY <1>t, <2>1 DEF IInv, NobodyYet, WritersHaveRows, LastHasRow, Unsent, Live, TypeOK
<1>8. CASE CloseTicket(u)
  BY <1>t, <1>8, Quietly DEF CloseTicket, Unsent, Live, TypeOK
<1>9. CASE ReopenTicket(u)
  <2>1. /\ ticket.state = "closed" /\ ticket'.state = "open" /\ ticket'.last = ticket.last
        /\ writing' = writing /\ unanswered' = unanswered
        /\ assigned' = [r \in Recipients |-> IF Active(r) THEN "SENT" ELSE assigned[r]]
    BY <1>t, <1>9 DEF ReopenTicket, TypeOK
  <2> QED
    BY <1>t, <2>1 DEF IInv, NobodyYet, WritersHaveRows, LastHasRow, Unsent, Live
<1>10. CASE DeleteTicket(u)
  <2>1. ticket'.state = "deleted" /\ unanswered' = {}
    BY <1>10 DEF DeleteTicket, NoTicket
  <2> QED
    BY <1>t, <2>1 DEF IInv, NobodyYet, WritersHaveRows, LastHasRow, Unsent, Live
<1>11. CASE SetHandler(u)
  BY <1>t, <1>11, Quietly DEF SetHandler, Unsent, Live, TypeOK
<1>12. QED
  BY <1>1, <1>2, <1>3, <1>4, <1>5, <1>6, <1>7, <1>8, <1>9, <1>10, <1>11 DEF UserStep

LEMMA InvBegin ==
  ASSUME IInv, NEW p \in People, BeginMessage(p), TypeOK'
  PROVE  IInv'
<1>1. p \in Professionals => Active(p)
  BY BoardAssumption DEF BeginMessage, CanComment, CanView, Users
<1>2. /\ Live /\ ticket' = ticket /\ assigned' = assigned /\ unanswered' = unanswered
      /\ \A q \in People : q # p => writing'[q] = writing[q]
  BY DEF BeginMessage, IInv, TypeOK
<1> QED
  BY <1>1, <1>2 DEF IInv, NobodyYet, WritersHaveRows, LastHasRow, Unsent, Live, Active, People

LEMMA InvWrite ==
  ASSUME IInv, NEW p \in People, WriteMessage(p), TypeOK'
  PROVE  IInv'
<1>1. CASE ~Live
  BY <1>1 DEF WriteMessage, IInv, NobodyYet, WritersHaveRows, LastHasRow, Unsent, Live, TypeOK
<1>2. CASE Live
  <2>1. /\ ticket'.state = ticket.state /\ ticket'.last = p /\ assigned' = assigned
        /\ writing' = [writing EXCEPT ![p] = NotWriting]
        /\ unanswered' = IF Active(p) THEN unanswered \cup {p}
                         ELSE IF p \in Users THEN {} ELSE unanswered
    BY <1>2 DEF WriteMessage, IInv, TypeOK
  <2>2. Active(p) => p \in Recipients /\ assigned[p] # "none"
    BY DEF Active
  <2>3. p \notin Users => p \in Recipients /\ assigned[p] # "none"
    BY <1>2 DEF WriteMessage, IInv, WritersHaveRows, People
  <2>4. NobodyYet'
    BY <2>1, <2>2, <1>2 DEF IInv, NobodyYet, Unsent, Active, Live, TypeOK
  <2>5. WritersHaveRows'
    BY <2>1, <1>2 DEF IInv, WritersHaveRows, Live, TypeOK, People
  <2>6. LastHasRow'
    BY <2>1, <2>2, <2>3 DEF LastHasRow
  <2> QED
    BY <2>4, <2>5, <2>6 DEF IInv
<1> QED
  BY <1>1, <1>2

LEMMA InvNext == IInv /\ [Next]_vars => IInv'
<1> SUFFICES ASSUME IInv, [Next]_vars PROVE IInv'
  OBVIOUS
<1>t. TypeOK /\ TypeOK'
  BY TypeNext DEF IInv
<1>1. CASE \E u \in Users : UserStep(u)
  BY <1>1, InvUser
<1>2. CASE \E p \in Professionals : MarkViewed(p)
  <2> PICK p \in Professionals : MarkViewed(p)
    BY <1>2
  <2>1. ~Unsent /\ Live
    BY DEF MarkViewed, InPortal, Unsent, Live
  <2> QED
    BY <1>t, <2>1 DEF MarkViewed, IInv, NobodyYet, WritersHaveRows, LastHasRow, Unsent, Live, TypeOK
<1>3. CASE \E p \in Professionals : MarkDone(p)
  <2> PICK p \in Professionals : MarkDone(p)
    BY <1>3
  <2>1. /\ ticket.state = "open" /\ ticket'.state = "open" /\ ticket'.last = ticket.last
        /\ writing' = writing /\ unanswered' = unanswered
        /\ assigned' = [assigned EXCEPT ![p] = "DONE"]
    BY <1>t DEF MarkDone, TypeOK
  <2> QED
    BY <1>t, <2>1 DEF IInv, NobodyYet, WritersHaveRows, LastHasRow, Unsent, Live, TypeOK
<1>4. CASE \E p \in People : BeginMessage(p)
  BY <1>t, <1>4, InvBegin
<1>5. CASE \E p \in People : WriteMessage(p)
  BY <1>t, <1>5, InvWrite
<1>6. CASE \E site \in Sites, M \in SUBSET Managers : SetSiteManagers(site, M)
  BY <1>t, <1>6, Quietly DEF SetSiteManagers, Unsent, Live
<1>7. CASE Escalate
  BY <1>t, <1>7, Quietly DEF Escalate, Unsent, Live, TypeOK
<1>8. CASE UNCHANGED vars
  BY <1>t, <1>8, Quietly DEF vars, Unsent, Live
<1>9. QED
  BY <1>1, <1>2, <1>3, <1>4, <1>5, <1>6, <1>7, <1>8 DEF Next

LEMMA InvAlways == Spec => []IInv
  BY InvInit, InvNext, PTL DEF Spec

-----------------------------------------------------------------------------
(* What follows from it. *)

\* A closed ticket in the scope of a person that his board does not show has the
\* limit of the archive before it, and the query found one more than is shown.
LEMMA CutOff ==
  ASSUME NEW u \in Users, NEW archive \in Archives, Live, HasBoard(u), InScope(u),
         ~OnBoard(u, archive)
  PROVE  /\ ticket.state = "closed" /\ archive.before >= ArchiveLimit
         /\ ArchiveTruncated(u, archive)
<1>1. archive.before \in Nat /\ archive.after \in Nat /\ ArchiveLimit \in Nat
  BY BoardAssumption DEF Archives
<1>2. ticket.state = "closed" /\ archive.before >= ArchiveLimit
  BY <1>1 DEF OnBoard
<1>3. archive.before + OwnPlace(u) + archive.after >= ArchiveLimit + 1
  BY <1>1, <1>2 DEF OwnPlace
<1> QED
  BY <1>1, <1>2, <1>3 DEF ArchiveTruncated, Taken, OwnPlace

LEMMA Mirrors == IInv => BoardMirrors
<1> SUFFICES ASSUME IInv, Live PROVE BoardMirrors
  BY DEF BoardMirrors
<1>1. ASSUME NEW u \in Users
      PROVE  /\ InScope(u) /\ HasBoard(u) => CanView(u)
             /\ CanView(u) => InScope(u)
             /\ InTagList(u) => CanView(u)
  BY <1>1, BoardAssumption DEF HasBoard, InScope, InTagList, CanView, AtHisSite, Users
<1>2. ASSUME NEW p \in Professionals
      PROVE  InPortal(p) <=> CanView(p)
  <2>1. CanView(p) <=> Active(p)
    BY BoardAssumption DEF CanView, Users
  <2>2. ticket.state = "draft" => ~Active(p)
    BY DEF IInv, NobodyYet, Unsent, Active
  <2> QED
    BY <2>1, <2>2 DEF InPortal
<1>3. ASSUME NEW u \in Users, NEW archive \in Archives
      PROVE  /\ OnBoard(u, archive) => CanView(u)
             /\ CanView(u) /\ HasBoard(u) =>
                  \/ OnBoard(u, archive)
                  \/ /\ ticket.state = "closed" /\ archive.before >= ArchiveLimit
                     /\ ArchiveTruncated(u, archive)
  BY <1>1, CutOff DEF OnBoard
<1> QED
  BY <1>1, <1>2, <1>3 DEF BoardMirrors

\* The lists show a ticket to nobody who may not see it and hide it from nobody
\* who may, but for the limit of the archive, of which the board tells him
\* (board.ts:189-196, 271-281): for any limit and any number of other tickets,
\* whoever is assigned or removed, moved to another site or left without one.
THEOREM BoardMirrorsAlways == Spec => []BoardMirrors
  BY InvAlways, Mirrors, PTL

LEMMA InSight == IInv => QuestionInSight
<1> SUFFICES ASSUME IInv, ticket.state = "open",
                    NEW r \in unanswered, Active(r),
                    ~(ticket.last \in Recipients /\ assigned[ticket.last] = "REMOVED")
             PROVE  DeriveBoardSection = "ACTION_REQUIRED"
  BY DEF QuestionInSight
<1>1. ticket.last \in Recipients /\ assigned[ticket.last] # "none"
  BY DEF IInv, LastHasRow, Live
<1>2. DeriveAwaitingReply
  BY <1>1 DEF DeriveAwaitingReply, Active, IInv, TypeOK, RowStatus
<1>3. DeriveTicketStatus # "CLOSED"
  BY DEF DeriveTicketStatus
<1> QED
  BY <1>2, <1>3 DEF DeriveBoardSection

\* A recipient's question stays before the staff (ticket-status.ts:52-59).
THEOREM QuestionInSightAlways == Spec => []QuestionInSight
  BY InvAlways, InSight, PTL
=============================================================================
