----------------------- MODULE TicketLifecycleProofs -----------------------
(***************************************************************************)
(* Proofs about TicketLifecycle: what holds of tickets and assignments for *)
(* any number of them, and any number of requests that overlap in any way. *)
(***************************************************************************)
EXTENDS TicketLifecycle, TLAPS

-----------------------------------------------------------------------------
(* The inductive invariant *)

TicketKinds == {"submit", "submitList", "deleteDraft", "close", "reopen", "add",
                "remove", "done", "delete"}

\* What a request remembers is enough for what it will write.
Knows(q) ==
  /\ request[q].kind \in TicketKinds => request[q].ticket \in Tickets
  /\ request[q].kind = "add" => request[q].who \in Recipients
  /\ request[q].kind \in {"remove", "done"} => request[q].row \in Rows
  /\ request[q].kind = "revokeTag" => request[q].who \in Pros

\* A row that exists is a row of somebody on some ticket.
RowsFilled == \A r \in Rows : Existing(r) => /\ row[r].ticket \in Tickets
                                             /\ row[r].who \in Recipients

IInv == /\ TypeOK /\ RowsFilled /\ RowsOnlyOnDispatched /\ EscalatedIsStale /\ Announced
        /\ \A q \in Requests : Knows(q)

RowType     == [ticket : Tickets \cup {None}, who : Recipients \cup {None}, status : RowStates]
RequestType == [pc : RequestPc, kind : Kinds, ticket : Tickets \cup {None},
                row : Rows \cup {None}, who : Recipients \cup {None},
                people : SUBSET Recipients]

LEMMA InitIInv == Init => IInv
<1> SUFFICES ASSUME Init PROVE IInv
  OBVIOUS
<1> USE DEF Init
<1>1. FreeRow \in RowType /\ Idle \in RequestType
  BY DEF FreeRow, RowType, RowStates, Idle, RequestType, RequestPc, Kinds
<1>2. TypeOK
  <2>1. state \in [Tickets -> States]
    BY DEF States
  <2> QED BY <1>1, <2>1 DEF TypeOK, RowType, RequestType
<1>3. RowsFilled /\ RowsOnlyOnDispatched /\ EscalatedIsStale /\ Announced
  BY DEF RowsFilled, RowsOnlyOnDispatched, EscalatedIsStale, Announced, Existing, Active, FreeRow
<1>4. \A q \in Requests : Knows(q)
  BY DEF Knows, Idle, TicketKinds
<1> QED BY <1>2, <1>3, <1>4 DEF IInv

-----------------------------------------------------------------------------
(* Requests *)

LEMMA RequestTyped == ASSUME IInv, NEW q \in Requests PROVE request[q] \in RequestType
  BY DEF IInv, TypeOK, RequestType

LEMMA RowTyped == ASSUME IInv, NEW r \in Rows PROVE row[r] \in RowType
  BY DEF IInv, TypeOK, RowType

\* One request changes what it remembers, in keeping with its kind.
LEMMA RequestUpdate ==
  ASSUME IInv, NEW q \in Requests, NEW x \in RequestType,
         request' = [request EXCEPT ![q] = x],
         x.kind \in TicketKinds => x.ticket \in Tickets,
         x.kind = "add" => x.who \in Recipients,
         x.kind \in {"remove", "done"} => x.row \in Rows,
         x.kind = "revokeTag" => x.who \in Pros
  PROVE  request' \in [Requests -> RequestType] /\ \A p \in Requests : Knows(p)'
<1>1. request' \in [Requests -> RequestType]
  BY DEF IInv, TypeOK, RequestType
<1>2. Knows(q)'
  BY DEF IInv, TypeOK, Knows
<1>3. ASSUME NEW p \in Requests, p # q PROVE Knows(p)'
  BY <1>3 DEF IInv, TypeOK, Knows
<1> QED BY <1>1, <1>2, <1>3

LEMMA EndKeeps ==
  ASSUME IInv, NEW q \in Requests, End(q)
  PROVE  request' \in [Requests -> RequestType] /\ \A p \in Requests : Knows(p)'
<1>1. Idle \in RequestType /\ Idle.kind = "none"
  BY DEF Idle, RequestType, RequestPc, Kinds
<1> QED BY <1>1, RequestUpdate DEF End, TicketKinds

LEMMA BeginKeeps ==
  ASSUME IInv, NEW q \in Requests, NEW x \in RequestType, Begin(q, x),
         x.kind \in TicketKinds => x.ticket \in Tickets,
         x.kind = "add" => x.who \in Recipients,
         x.kind \in {"remove", "done"} => x.row \in Rows,
         x.kind = "revokeTag" => x.who \in Pros
  PROVE  request' \in [Requests -> RequestType] /\ \A p \in Requests : Knows(p)'
<1> DEFINE y == [x EXCEPT !.pc = "write"]
<1>1. /\ y \in RequestType
      /\ y.kind = x.kind /\ y.ticket = x.ticket /\ y.who = x.who /\ y.row = x.row
  BY DEF RequestType, RequestPc
<1>2. request' = [request EXCEPT ![q] = y]
  BY DEF Begin
<1> HIDE DEF y
<1> QED BY <1>1, <1>2, RequestUpdate

LEMMA ReviewKeeps ==
  ASSUME IInv, NEW q \in Requests, NEW ps \in SUBSET Recipients, Review(q, ps)
  PROVE  request' \in [Requests -> RequestType] /\ \A p \in Requests : Knows(p)'
<1> DEFINE x == request[q]
           y == IF ps = {} THEN Idle ELSE [x EXCEPT !.pc = "count", !.people = ps]
<1>1. CASE ps = {}
  BY <1>1, EndKeeps DEF Review, End
<1>2. CASE ps # {}
  <2>1. x \in RequestType
    BY RequestTyped
  <2>3. /\ y \in RequestType
        /\ y.kind = x.kind /\ y.ticket = x.ticket /\ y.who = x.who /\ y.row = x.row
    BY <1>2, <2>1 DEF RequestType, RequestPc
  <2>4. request' = [request EXCEPT ![q] = y]
    BY DEF Review
  <2> HIDE DEF y
  <2> QED BY <2>3, <2>4, RequestUpdate DEF IInv, Knows
<1> QED BY <1>1, <1>2

-----------------------------------------------------------------------------
(* Steps that leave tickets, rows and jobs alone *)

LEMMA CalmKeeps ==
  ASSUME IInv, UNCHANGED <<state, escalated, stale, row, outbox, settled>>,
         chosen' \in [Tickets -> SUBSET Recipients],
         token' \subseteq Pros, granted' \subseteq Pros, known' \subseteq Pros,
         request' \in [Requests -> RequestType], \A p \in Requests : Knows(p)',
         overlapped' \in BOOLEAN
  PROVE  IInv'
<1>1. TypeOK'
  BY DEF IInv, TypeOK, RequestType
<1>2. (RowsFilled /\ RowsOnlyOnDispatched /\ EscalatedIsStale /\ Announced)'
  BY DEF IInv, RowsFilled, RowsOnlyOnDispatched, EscalatedIsStale, Announced, Existing
<1> QED BY <1>1, <1>2 DEF IInv

LEMMA SameRequests ==
  ASSUME IInv, request' = request
  PROVE  request' \in [Requests -> RequestType] /\ \A p \in Requests : Knows(p)'
  BY DEF IInv, TypeOK, RequestType, Knows

LEMMA ReadingKeeps ==
  ASSUME IInv, NEW q \in Requests, NEW x \in RequestType, Begin(q, x), Reading,
         x.kind \in TicketKinds => x.ticket \in Tickets,
         x.kind = "add" => x.who \in Recipients,
         x.kind \in {"remove", "done"} => x.row \in Rows,
         x.kind = "revokeTag" => x.who \in Pros
  PROVE  IInv'
<1>1. overlapped' \in BOOLEAN
  BY DEF Begin, Overlaps
<1>2. request' \in [Requests -> RequestType] /\ \A p \in Requests : Knows(p)'
  BY BeginKeeps
<1> QED BY <1>1, <1>2, CalmKeeps DEF Reading, IInv, TypeOK

LEMMA ReadsKeep ==
  ASSUME IInv, NEW q \in Requests, Reads(q) PROVE IInv'
<1>1. ASSUME NEW t \in Tickets, SubmitReads(q, t) PROVE IInv'
  <2>1. chosen[t] \in SUBSET Recipients
    BY DEF IInv, TypeOK
  <2>2. PICK ps \in SUBSET Recipients, kind \in {"submit", "submitList"} :
          /\ Begin(q, [Idle EXCEPT !.kind = kind, !.ticket = t, !.people = ps])
          /\ Reading
    <3>1. CASE Begin(q, [Idle EXCEPT !.kind = "submit", !.ticket = t, !.people = chosen[t]])
      BY <1>1, <2>1, <3>1 DEF SubmitReads
    <3>2. CASE \E list \in SUBSET Recipients :
                 Begin(q, [Idle EXCEPT !.kind = "submitList", !.ticket = t, !.people = list])
      BY <1>1, <3>2 DEF SubmitReads
    <3> QED BY <1>1, <3>1, <3>2 DEF SubmitReads
  <2> DEFINE x == [Idle EXCEPT !.kind = kind, !.ticket = t, !.people = ps]
  <2>3. x \in RequestType /\ x.kind = kind /\ x.ticket = t
    BY DEF Idle, RequestType, RequestPc, Kinds
  <2>4. Begin(q, x) /\ Reading
    BY <2>2
  <2> HIDE DEF x
  <2> QED BY <2>3, <2>4, ReadingKeeps
<1>2. ASSUME NEW t \in Tickets, DeleteDraftReads(q, t) \/ CloseReads(q, t) \/ ReopenReads(q, t)
      PROVE  IInv'
  <2>1. PICK kind \in {"deleteDraft", "close", "reopen"} :
          Begin(q, [Idle EXCEPT !.kind = kind, !.ticket = t]) /\ Reading
    BY <1>2 DEF DeleteDraftReads, CloseReads, ReopenReads
  <2> DEFINE x == [Idle EXCEPT !.kind = kind, !.ticket = t]
  <2>2. x \in RequestType /\ x.kind = kind /\ x.ticket = t
    BY DEF Idle, RequestType, RequestPc, Kinds
  <2>3. Begin(q, x) /\ Reading
    BY <2>1
  <2> HIDE DEF x
  <2> QED BY <2>2, <2>3, ReadingKeeps
<1>3. ASSUME NEW t \in Tickets, DeleteReads(q, t) PROVE IInv'
  <2>1. {row[r].who : r \in RowsOf(t)} \cap Pros \in SUBSET Recipients
    BY DEF Recipients
  <2> DEFINE x == [Idle EXCEPT !.kind = "delete", !.ticket = t,
                               !.people = {row[r].who : r \in RowsOf(t)} \cap Pros]
  <2>2. x \in RequestType /\ x.kind = "delete" /\ x.ticket = t
    BY <2>1 DEF Idle, RequestType, RequestPc, Kinds
  <2>3. Begin(q, x) /\ Reading
    BY <1>3 DEF DeleteReads
  <2> HIDE DEF x
  <2> QED BY <2>2, <2>3, ReadingKeeps
<1>4. ASSUME NEW t \in Tickets, NEW who \in Recipients, AddReads(q, t, who) PROVE IInv'
  <2>1. PICK previous \in Rows \cup {None} :
          Begin(q, [Idle EXCEPT !.kind = "add", !.ticket = t, !.who = who, !.row = previous])
    BY <1>4 DEF AddReads, RowsOf
  <2> DEFINE x == [Idle EXCEPT !.kind = "add", !.ticket = t, !.who = who, !.row = previous]
  <2>2. x \in RequestType /\ x.kind = "add" /\ x.ticket = t /\ x.who = who
    BY DEF Idle, RequestType, RequestPc, Kinds
  <2> HIDE DEF x
  <2> QED BY <1>4, <2>1, <2>2, ReadingKeeps DEF AddReads, x
<1>5. ASSUME NEW r \in Rows, RemoveReads(q, r) PROVE IInv'
  <2> DEFINE x == [Idle EXCEPT !.kind = "remove", !.ticket = row[r].ticket, !.row = r,
                               !.who = row[r].who]
  <2>1. row[r].ticket \in Tickets /\ row[r].who \in Recipients
    BY <1>5 DEF RemoveReads, IInv, RowsFilled, Existing
  <2>2. x \in RequestType /\ x.kind = "remove" /\ x.ticket \in Tickets /\ x.row = r
    BY <2>1 DEF Idle, RequestType, RequestPc, Kinds
  <2>3. Begin(q, x) /\ Reading
    BY <1>5 DEF RemoveReads
  <2> HIDE DEF x
  <2> QED BY <2>2, <2>3, ReadingKeeps
<1>6. ASSUME NEW r \in Rows, DoneReads(q, r) PROVE IInv'
  <2> DEFINE x == [Idle EXCEPT !.kind = "done", !.ticket = row[r].ticket, !.row = r]
  <2>1. row[r].ticket \in Tickets
    BY <1>6 DEF DoneReads, IInv, RowsFilled, Existing
  <2>2. x \in RequestType /\ x.kind = "done" /\ x.ticket \in Tickets /\ x.row = r
    BY <2>1 DEF Idle, RequestType, RequestPc, Kinds
  <2>3. Begin(q, x) /\ Reading
    BY <1>6 DEF DoneReads
  <2> HIDE DEF x
  <2> QED BY <2>2, <2>3, ReadingKeeps
<1>7. ASSUME NEW p \in Pros, RevokeTagReads(q, p) PROVE IInv'
  <2> DEFINE x == [Idle EXCEPT !.kind = "revokeTag", !.who = p]
  <2>1. x \in RequestType /\ x.kind = "revokeTag" /\ x.who = p
    BY DEF Idle, RequestType, RequestPc, Kinds, Recipients
  <2>2. Begin(q, x) /\ Reading
    BY <1>7 DEF RevokeTagReads
  <2> HIDE DEF x
  <2> QED BY <2>1, <2>2, ReadingKeeps DEF TicketKinds
<1> QED BY <1>1, <1>2, <1>3, <1>4, <1>5, <1>6, <1>7 DEF Reads

-----------------------------------------------------------------------------
(* Steps that write *)

\* Touching a ticket cannot leave an escalated one that moved or is not open.
LEMMA TouchKeeps ==
  ASSUME IInv, NEW t \in Tickets, Touch(t), \A u \in Tickets : u # t => state'[u] = state[u]
  PROVE  /\ escalated' \in [Tickets -> BOOLEAN] /\ stale' \in [Tickets -> BOOLEAN]
         /\ EscalatedIsStale'
  BY DEF Touch, IInv, TypeOK, EscalatedIsStale

\* New rows are rows of t, filled and announced; the others stay as they are.
LEMMA CreateRowsKeeps ==
  ASSUME IInv, NEW t \in Tickets, NEW recipients \in SUBSET Recipients,
         CreateRows(t, recipients)
  PROVE  /\ row' \in [Rows -> RowType] /\ token' \subseteq Pros
         /\ outbox' \subseteq Rows /\ settled' \subseteq Rows
         /\ RowsFilled' /\ Announced'
         /\ \A r \in Rows : row'[r] = row[r] \/ row'[r].ticket = t
<1>1. PICK f \in [recipients -> FreeRows] :
        /\ row' = [r \in Rows |->
                     IF \E w \in recipients : f[w] = r
                     THEN [ticket |-> t, status |-> "SENT",
                           who |-> CHOOSE w \in recipients : f[w] = r]
                     ELSE row[r]]
        /\ ApplyNewAssignments(recipients, {f[w] : w \in recipients})
  BY DEF CreateRows
<1> DEFINE R == {f[w] : w \in recipients}
<1>2. R \subseteq Rows
  BY DEF FreeRows
<1>3. /\ token' \subseteq Pros /\ outbox' \subseteq Rows /\ settled' \subseteq Rows
      /\ outbox' \cup settled' = outbox \cup settled \cup R
      /\ R \subseteq outbox'
  BY <1>1, <1>2 DEF ApplyNewAssignments, IInv, TypeOK
<1>4. ASSUME NEW r \in Rows
      PROVE  \/ row'[r] = row[r] /\ r \notin R
             \/ /\ r \in R /\ row'[r].ticket = t /\ row'[r].status = "SENT"
                /\ row'[r].who \in Recipients /\ row'[r] \in RowType
  <2>1. CASE \E w \in recipients : f[w] = r
    <3>1. (CHOOSE w \in recipients : f[w] = r) \in recipients
      BY <2>1
    <3> QED BY <1>1, <2>1, <3>1 DEF RowType, RowStates
  <2>2. CASE ~\E w \in recipients : f[w] = r
    BY <1>1, <2>2
  <2> QED BY <2>1, <2>2
<1>5. row' \in [Rows -> RowType]
  BY <1>1, <1>4, RowTyped
<1>6. RowsFilled'
  BY <1>4 DEF IInv, RowsFilled, Existing
<1>7. Announced'
  BY <1>3, <1>4 DEF IInv, Announced
<1> QED BY <1>3, <1>4, <1>5, <1>6, <1>7

\* What CreateRows leaves to show of rows and tickets.
LEMMA RowsOfDispatched ==
  ASSUME IInv, NEW t \in Tickets, state'[t] \in Dispatched,
         \A u \in Tickets : u # t => state'[u] = state[u],
         \A r \in Rows : row'[r] = row[r] \/ row'[r].ticket = t,
         RowsFilled'
  PROVE  RowsOnlyOnDispatched'
  BY DEF IInv, RowsOnlyOnDispatched, RowsFilled, Existing

LEMMA CreateDraftKeeps ==
  ASSUME IInv, NEW t \in Tickets, NEW recipients \in SUBSET Recipients,
         CreateDraft(t, recipients)
  PROVE  IInv'
<1> USE DEF CreateDraft
<1>1. TypeOK'
  BY DEF IInv, TypeOK, States, Overlaps
<1>2. (RowsFilled /\ Announced /\ \A q \in Requests : Knows(q))'
  BY DEF IInv, RowsFilled, Announced, Existing, Knows
<1>3. (RowsOnlyOnDispatched /\ EscalatedIsStale)'
  BY DEF IInv, TypeOK, RowsOnlyOnDispatched, EscalatedIsStale, RowsFilled, Existing, Dispatched
<1> QED BY <1>1, <1>2, <1>3 DEF IInv

LEMMA CreateTicketKeeps ==
  ASSUME IInv, NEW t \in Tickets, NEW recipients \in SUBSET Recipients,
         CreateTicket(t, recipients)
  PROVE  IInv'
<1>1. /\ row' \in [Rows -> RowType] /\ token' \subseteq Pros
      /\ outbox' \subseteq Rows /\ settled' \subseteq Rows /\ RowsFilled' /\ Announced'
      /\ \A r \in Rows : row'[r] = row[r] \/ row'[r].ticket = t
  BY CreateRowsKeeps DEF CreateTicket
<1>2. /\ state' \in [Tickets -> States] /\ state[t] = "none"
      /\ state'[t] \in Dispatched /\ \A u \in Tickets : u # t => state'[u] = state[u]
  BY DEF CreateTicket, IInv, TypeOK, States, Dispatched
<1>3. RowsOnlyOnDispatched'
  BY <1>1, <1>2, RowsOfDispatched
<1>4. EscalatedIsStale'
  BY <1>2 DEF CreateTicket, IInv, EscalatedIsStale
<1>5. \A q \in Requests : Knows(q)'
  BY DEF CreateTicket, IInv, Knows
<1>6. TypeOK'
  BY <1>1, <1>2 DEF CreateTicket, IInv, TypeOK, RowType, Overlaps
<1> QED BY <1>1, <1>3, <1>4, <1>5, <1>6 DEF IInv

LEMMA EditDraftKeeps ==
  ASSUME IInv, NEW t \in Tickets, NEW recipients \in SUBSET Recipients,
         EditDraft(t, recipients)
  PROVE  IInv'
<1> USE DEF EditDraft
<1>1. /\ escalated' \in [Tickets -> BOOLEAN] /\ stale' \in [Tickets -> BOOLEAN]
      /\ EscalatedIsStale'
  BY TouchKeeps
<1>2. TypeOK'
  BY <1>1 DEF IInv, TypeOK, Overlaps
<1>3. (RowsFilled /\ RowsOnlyOnDispatched /\ Announced /\ \A q \in Requests : Knows(q))'
  BY DEF IInv, RowsFilled, RowsOnlyOnDispatched, Announced, Existing, Knows
<1> QED BY <1>1, <1>2, <1>3 DEF IInv

LEMMA SubmitKeeps ==
  ASSUME IInv, NEW q \in Requests, SubmitWrites(q) PROVE IInv'
<1> DEFINE t == request[q].ticket
           given == IF request[q].kind = "submit" THEN chosen[t] ELSE request[q].people
<1>1. t \in Tickets /\ End(q) /\ UNCHANGED <<granted, known, overlapped>>
  BY DEF SubmitWrites, SubmitTo, Writing, IInv, Knows, TicketKinds
<1>2. given \in SUBSET Recipients
  BY <1>1 DEF IInv, TypeOK
<1>3. request' \in [Requests -> RequestType] /\ \A p \in Requests : Knows(p)'
  BY <1>1, EndKeeps
<1>4. CASE /\ state[t] = "draft" /\ given # {} /\ Exist(given)
           /\ state' = [state EXCEPT ![t] = "open"]
           /\ chosen' = [chosen EXCEPT ![t] = {}]
           /\ Touch(t) /\ CreateRows(t, given)
  <2>1. /\ row' \in [Rows -> RowType] /\ token' \subseteq Pros
        /\ outbox' \subseteq Rows /\ settled' \subseteq Rows /\ RowsFilled' /\ Announced'
        /\ \A r \in Rows : row'[r] = row[r] \/ row'[r].ticket = t
    BY <1>1, <1>2, <1>4, CreateRowsKeeps
  <2>2. /\ state' \in [Tickets -> States]
        /\ state'[t] \in Dispatched /\ \A u \in Tickets : u # t => state'[u] = state[u]
    BY <1>1, <1>4 DEF IInv, TypeOK, States, Dispatched
  <2>3. RowsOnlyOnDispatched'
    BY <1>1, <2>1, <2>2, RowsOfDispatched
  <2>4. /\ escalated' \in [Tickets -> BOOLEAN] /\ stale' \in [Tickets -> BOOLEAN]
        /\ EscalatedIsStale'
    BY <1>1, <1>4, <2>2, TouchKeeps
  <2>5. chosen' \in [Tickets -> SUBSET Recipients]
    BY <1>4 DEF IInv, TypeOK
  <2>6. TypeOK'
    BY <1>1, <1>3, <2>1, <2>2, <2>4, <2>5 DEF IInv, TypeOK, RowType, RequestType
  <2> QED BY <1>3, <2>1, <2>3, <2>4, <2>6 DEF IInv
<1>5. CASE UNCHANGED <<state, chosen, escalated, stale, row, token, outbox, settled>>
  BY <1>1, <1>3, <1>5, CalmKeeps DEF IInv, TypeOK
<1> QED BY <1>4, <1>5 DEF SubmitWrites, SubmitTo

\* A row that exists gets another status; its ticket and its recipient stay.
LEMMA StatusKeeps ==
  ASSUME IInv, NEW r \in Rows, Existing(r), NEW x \in Active \cup {"REMOVED"},
         row' = [row EXCEPT ![r].status = x], UNCHANGED state
  PROVE  /\ row' \in [Rows -> RowType] /\ RowsFilled' /\ RowsOnlyOnDispatched'
         /\ row'[r].status = x /\ \A s \in Rows : s # r => row'[s] = row[s]
<1>1. row[r] \in RowType /\ x \in RowStates
  BY RowTyped DEF RowStates, Active
<1>2. row' = [row EXCEPT ![r] = [row[r] EXCEPT !.status = x]]
  BY DEF IInv, TypeOK
<1>3. [row[r] EXCEPT !.status = x] \in RowType
  BY <1>1 DEF RowType
<1>4. /\ row' \in [Rows -> RowType]
      /\ row'[r] = [row[r] EXCEPT !.status = x]
      /\ \A s \in Rows : s # r => row'[s] = row[s]
  BY <1>2, <1>3 DEF IInv, TypeOK, RowType
<1>5. row'[r].ticket = row[r].ticket /\ row'[r].who = row[r].who /\ row'[r].status = x
  BY <1>1, <1>4 DEF RowType
<1>6. RowsFilled'
  BY <1>4, <1>5 DEF IInv, RowsFilled, Existing
<1>7. RowsOnlyOnDispatched'
  BY <1>4, <1>5 DEF IInv, RowsOnlyOnDispatched, Existing
<1> QED BY <1>4, <1>5, <1>6, <1>7

LEMMA AddKeeps ==
  ASSUME IInv, NEW q \in Requests, AddWrites(q) PROVE IInv'
<1> DEFINE t == request[q].ticket
           who == request[q].who
           r == request[q].row
<1>1. /\ t \in Tickets /\ who \in Recipients /\ End(q)
      /\ UNCHANGED <<state, chosen, granted, known, overlapped>>
  BY DEF AddWrites, Writing, IInv, Knows, TicketKinds
<1>2. request' \in [Requests -> RequestType] /\ \A p \in Requests : Knows(p)'
  BY <1>1, EndKeeps
<1>3. CASE /\ state[t] \in Dispatched /\ Exist({who}) /\ r # None /\ Existing(r)
           /\ row' = [row EXCEPT ![r].status = "SENT"]
           /\ Touch(t) /\ ApplyNewAssignments({who}, {r})
  <2>1. r \in Rows
    BY <1>3 DEF IInv, TypeOK
  <2>2. /\ row' \in [Rows -> RowType] /\ RowsFilled' /\ RowsOnlyOnDispatched'
        /\ \A s \in Rows : s # r => row'[s] = row[s]
    BY <1>1, <1>3, <2>1, StatusKeeps DEF Active
  <2>3. /\ escalated' \in [Tickets -> BOOLEAN] /\ stale' \in [Tickets -> BOOLEAN]
        /\ EscalatedIsStale'
    BY <1>1, <1>3, TouchKeeps
  <2>4. /\ token' \subseteq Pros /\ outbox' \subseteq Rows /\ settled' \subseteq Rows
        /\ r \in outbox' /\ outbox \subseteq outbox' /\ settled' = settled \ {r}
    BY <1>3, <2>1 DEF ApplyNewAssignments, IInv, TypeOK
  <2>5. Announced'
    BY <2>2, <2>4 DEF IInv, Announced
  <2>6. TypeOK'
    BY <1>1, <1>2, <2>2, <2>3, <2>4 DEF IInv, TypeOK, RowType, RequestType
  <2> QED BY <1>2, <2>2, <2>3, <2>5, <2>6 DEF IInv
<1>4. CASE /\ state[t] \in Dispatched /\ Exist({who}) /\ r = None
           /\ CreateRows(t, {who}) /\ Touch(t)
  <2>1. /\ row' \in [Rows -> RowType] /\ token' \subseteq Pros
        /\ outbox' \subseteq Rows /\ settled' \subseteq Rows /\ RowsFilled' /\ Announced'
        /\ \A s \in Rows : row'[s] = row[s] \/ row'[s].ticket = t
    BY <1>1, <1>4, CreateRowsKeeps
  <2>2. RowsOnlyOnDispatched'
    BY <1>1, <1>4, <2>1, RowsOfDispatched
  <2>3. /\ escalated' \in [Tickets -> BOOLEAN] /\ stale' \in [Tickets -> BOOLEAN]
        /\ EscalatedIsStale'
    BY <1>1, <1>4, TouchKeeps
  <2>4. TypeOK'
    BY <1>1, <1>2, <2>1, <2>3 DEF IInv, TypeOK, RowType, RequestType
  <2> QED BY <1>2, <2>1, <2>2, <2>3, <2>4 DEF IInv
<1>5. CASE UNCHANGED <<escalated, stale, row, token, outbox, settled>>
  BY <1>1, <1>2, <1>5, CalmKeeps DEF IInv, TypeOK
<1> QED BY <1>3, <1>4, <1>5 DEF AddWrites

LEMMA ResendKeeps ==
  ASSUME IInv, NEW r \in Rows, Resend(r) PROVE IInv'
<1> USE DEF Resend
<1>1. TypeOK'
  BY DEF IInv, TypeOK, Overlaps
<1>2. (RowsFilled /\ RowsOnlyOnDispatched /\ EscalatedIsStale /\ Announced)'
  BY DEF IInv, RowsFilled, RowsOnlyOnDispatched, EscalatedIsStale, Announced, Existing
<1>3. \A q \in Requests : Knows(q)'
  BY DEF IInv, Knows
<1> QED BY <1>1, <1>2, <1>3 DEF IInv

LEMMA RemoveKeeps ==
  ASSUME IInv, NEW q \in Requests, RemoveWrites(q) PROVE IInv'
<1> DEFINE r == request[q].row
<1>1. /\ r \in Rows /\ request[q].ticket \in Tickets
      /\ UNCHANGED <<state, chosen, token, granted, known, outbox, settled, overlapped>>
  BY DEF RemoveWrites, Writing, IInv, Knows, TicketKinds
<1>2. CASE /\ Existing(r) /\ row' = [row EXCEPT ![r].status = "REMOVED"]
           /\ Touch(request[q].ticket)
           /\ Review(q, {request[q].who} \cap Pros)
  <2>1. request' \in [Requests -> RequestType] /\ \A p \in Requests : Knows(p)'
    BY <1>2, ReviewKeeps DEF Recipients
  <2>2. /\ row' \in [Rows -> RowType] /\ RowsFilled' /\ RowsOnlyOnDispatched'
        /\ row'[r].status = "REMOVED" /\ \A s \in Rows : s # r => row'[s] = row[s]
    BY <1>1, <1>2, StatusKeeps
  <2>3. /\ escalated' \in [Tickets -> BOOLEAN] /\ stale' \in [Tickets -> BOOLEAN]
        /\ EscalatedIsStale'
    BY <1>1, <1>2, TouchKeeps
  <2>4. Announced'
    BY <1>1, <2>2 DEF IInv, Announced
  <2>5. TypeOK'
    BY <1>1, <2>1, <2>2, <2>3 DEF IInv, TypeOK, RowType, RequestType
  <2> QED BY <2>1, <2>2, <2>3, <2>4, <2>5 DEF IInv
<1>3. CASE End(q) /\ UNCHANGED <<row, escalated, stale>>
  BY <1>1, <1>3, EndKeeps, CalmKeeps DEF IInv, TypeOK
<1> QED BY <1>2, <1>3 DEF RemoveWrites

LEMMA RevokeTagKeeps ==
  ASSUME IInv, NEW q \in Requests, RevokeTagWrites(q) PROVE IInv'
<1>1. request[q].who \in Pros
  BY DEF RevokeTagWrites, Writing, IInv, Knows
<1>2. request' \in [Requests -> RequestType] /\ \A p \in Requests : Knows(p)'
  BY <1>1, ReviewKeeps DEF RevokeTagWrites, Recipients
<1> QED BY <1>2, CalmKeeps DEF RevokeTagWrites, IInv, TypeOK

LEMMA CountKeeps ==
  ASSUME IInv, NEW q \in Requests, NEW p \in Pros, CountAccess(q, p) PROVE IInv'
<1> DEFINE x == request[q]
           y == [x EXCEPT !.pc = "revoke", !.who = p]
<1>1. x \in RequestType /\ p \in Recipients
  BY RequestTyped DEF Recipients
<1>2. CASE Review(q, request[q].people \ {p})
  <2>1. request[q].people \ {p} \in SUBSET Recipients
    BY <1>1 DEF RequestType
  <2> QED BY <1>2, <2>1, ReviewKeeps, CalmKeeps DEF CountAccess, Reading, IInv, TypeOK
<1>3. CASE request' = [request EXCEPT ![q] = y]
  <2>1. /\ y \in RequestType
        /\ y.kind = x.kind /\ y.ticket = x.ticket /\ y.who = p /\ y.row = x.row
    BY <1>1 DEF RequestType, RequestPc
  <2> HIDE DEF y
  <2>2. request' \in [Requests -> RequestType] /\ \A o \in Requests : Knows(o)'
    BY <1>1, <1>3, <2>1, RequestUpdate DEF IInv, Knows
  <2> QED BY <2>2, CalmKeeps DEF CountAccess, Reading, IInv, TypeOK
<1> QED BY <1>2, <1>3 DEF CountAccess

LEMMA RevokeAccessKeeps ==
  ASSUME IInv, NEW q \in Requests, RevokeAccess(q) PROVE IInv'
<1>1. request[q].people \ {request[q].who} \in SUBSET Recipients
  BY RequestTyped DEF RequestType
<1> QED BY <1>1, ReviewKeeps, CalmKeeps DEF RevokeAccess, IInv, TypeOK

LEMMA AbandonKeeps ==
  ASSUME IInv, NEW q \in Requests, Abandon(q) PROVE IInv'
  BY EndKeeps, CalmKeeps DEF Abandon, Reading, IInv, TypeOK

LEMMA MarkViewedKeeps ==
  ASSUME IInv, NEW r \in Rows, MarkViewed(r) PROVE IInv'
<1> USE DEF MarkViewed
<1>1. /\ row' \in [Rows -> RowType] /\ RowsFilled' /\ RowsOnlyOnDispatched'
      /\ row'[r].status = "VIEWED" /\ \A s \in Rows : s # r => row'[s] = row[s]
  BY StatusKeeps DEF Existing, Active
<1>2. TypeOK'
  BY <1>1 DEF IInv, TypeOK, RowType, Overlaps
<1>3. (EscalatedIsStale /\ \A q \in Requests : Knows(q))'
  BY DEF IInv, EscalatedIsStale, Knows
<1>4. Announced'
  BY <1>1 DEF IInv, Announced
<1> QED BY <1>1, <1>2, <1>3, <1>4 DEF IInv

LEMMA DoneKeeps ==
  ASSUME IInv, NEW q \in Requests, DoneWrites(q) PROVE IInv'
<1> DEFINE r == request[q].row
<1>1. /\ r \in Rows /\ request[q].ticket \in Tickets /\ End(q)
      /\ UNCHANGED <<state, chosen, token, granted, known, outbox, settled, overlapped>>
  BY DEF DoneWrites, Writing, IInv, Knows, TicketKinds
<1>2. request' \in [Requests -> RequestType] /\ \A p \in Requests : Knows(p)'
  BY <1>1, EndKeeps
<1>3. CASE /\ Existing(r) /\ row' = [row EXCEPT ![r].status = "DONE"]
           /\ Touch(request[q].ticket)
  <2>1. /\ row' \in [Rows -> RowType] /\ RowsFilled' /\ RowsOnlyOnDispatched'
        /\ row'[r].status = "DONE" /\ \A s \in Rows : s # r => row'[s] = row[s]
    BY <1>1, <1>3, StatusKeeps DEF Active
  <2>2. /\ escalated' \in [Tickets -> BOOLEAN] /\ stale' \in [Tickets -> BOOLEAN]
        /\ EscalatedIsStale'
    BY <1>1, <1>3, TouchKeeps
  <2>3. Announced'
    BY <1>1, <2>1 DEF IInv, Announced
  <2>4. TypeOK'
    BY <1>1, <1>2, <2>1, <2>2 DEF IInv, TypeOK, RowType, RequestType
  <2> QED BY <1>2, <2>1, <2>2, <2>3, <2>4 DEF IInv
<1>4. CASE UNCHANGED <<row, escalated, stale>>
  BY <1>1, <1>2, <1>4, CalmKeeps DEF IInv, TypeOK
<1> QED BY <1>3, <1>4 DEF DoneWrites

LEMMA CloseKeeps ==
  ASSUME IInv, NEW q \in Requests, CloseWrites(q) PROVE IInv'
<1> DEFINE t == request[q].ticket
<1>1. /\ t \in Tickets /\ End(q)
      /\ UNCHANGED <<chosen, row, token, granted, known, outbox, settled, overlapped>>
  BY DEF CloseWrites, Writing, IInv, Knows, TicketKinds
<1>2. request' \in [Requests -> RequestType] /\ \A p \in Requests : Knows(p)'
  BY <1>1, EndKeeps
<1>3. CASE state[t] \in Dispatched /\ state' = [state EXCEPT ![t] = "closed"] /\ Touch(t)
  <2>1. /\ state' \in [Tickets -> States] /\ state'[t] \in Dispatched
        /\ \A u \in Tickets : u # t => state'[u] = state[u]
    BY <1>1, <1>3 DEF IInv, TypeOK, States, Dispatched
  <2>2. /\ escalated' \in [Tickets -> BOOLEAN] /\ stale' \in [Tickets -> BOOLEAN]
        /\ EscalatedIsStale'
    BY <1>1, <1>3, <2>1, TouchKeeps
  <2>3. (RowsFilled /\ RowsOnlyOnDispatched /\ Announced)'
    BY <1>1, <2>1 DEF IInv, RowsFilled, RowsOnlyOnDispatched, Announced, Existing
  <2>4. TypeOK'
    BY <1>1, <1>2, <2>1, <2>2 DEF IInv, TypeOK, RequestType
  <2> QED BY <1>2, <2>2, <2>3, <2>4 DEF IInv
<1>4. CASE UNCHANGED <<state, escalated, stale>>
  BY <1>1, <1>2, <1>4, CalmKeeps DEF IInv, TypeOK
<1> QED BY <1>3, <1>4 DEF CloseWrites

LEMMA ReopenKeeps ==
  ASSUME IInv, NEW q \in Requests, ReopenWrites(q) PROVE IInv'
<1> DEFINE t == request[q].ticket
<1>1. /\ t \in Tickets /\ End(q)
      /\ UNCHANGED <<chosen, token, granted, known, overlapped>>
  BY DEF ReopenWrites, Writing, IInv, Knows, TicketKinds
<1>2. request' \in [Requests -> RequestType] /\ \A p \in Requests : Knows(p)'
  BY <1>1, EndKeeps
<1>3. CASE /\ state[t] \in Dispatched /\ state' = [state EXCEPT ![t] = "open"] /\ Touch(t)
           /\ row' = [r \in Rows |-> IF r \in ActiveOf(t)
                                     THEN [row[r] EXCEPT !.status = "SENT"] ELSE row[r]]
           /\ outbox' = outbox \cup ActiveOf(t)
           /\ settled' = settled \ ActiveOf(t)
  <2>1. /\ state' \in [Tickets -> States] /\ state'[t] \in Dispatched
        /\ \A u \in Tickets : u # t => state'[u] = state[u]
    BY <1>1, <1>3 DEF IInv, TypeOK, States, Dispatched
  <2>2. /\ escalated' \in [Tickets -> BOOLEAN] /\ stale' \in [Tickets -> BOOLEAN]
        /\ EscalatedIsStale'
    BY <1>1, <1>3, <2>1, TouchKeeps
  <2>3. ASSUME NEW r \in Rows
        PROVE  /\ row'[r] \in RowType
               /\ row'[r].ticket = row[r].ticket /\ row'[r].who = row[r].who
               /\ \/ row'[r].status = row[r].status
                  \/ r \in ActiveOf(t) /\ Existing(r)
    BY <1>3, RowTyped DEF RowType, RowStates, ActiveOf, RowsOf
  <2>4. row' \in [Rows -> RowType]
    BY <1>3, <2>3
  <2>5. (RowsFilled /\ RowsOnlyOnDispatched)'
    BY <2>1, <2>3 DEF IInv, RowsFilled, RowsOnlyOnDispatched, Existing
  <2>6. Announced'
    BY <1>3, <2>3 DEF IInv, Announced
  <2>7. outbox' \subseteq Rows /\ settled' \subseteq Rows
    BY <1>3 DEF IInv, TypeOK, ActiveOf, RowsOf
  <2>8. TypeOK'
    BY <1>1, <1>2, <2>1, <2>2, <2>4, <2>7 DEF IInv, TypeOK, RowType, RequestType
  <2> QED BY <1>2, <2>2, <2>5, <2>6, <2>8 DEF IInv
<1>4. CASE UNCHANGED <<state, escalated, stale, row, outbox, settled>>
  BY <1>1, <1>2, <1>4, CalmKeeps DEF IInv, TypeOK
<1> QED BY <1>3, <1>4 DEF ReopenWrites

\* Deleting takes the rows along.
LEMMA EraseKeeps ==
  ASSUME IInv, NEW t \in Tickets, Erase(t), UNCHANGED <<outbox, settled>>
  PROVE  /\ state' \in [Tickets -> States] /\ chosen' \in [Tickets -> SUBSET Recipients]
         /\ escalated' \in [Tickets -> BOOLEAN] /\ stale' \in [Tickets -> BOOLEAN]
         /\ row' \in [Rows -> RowType]
         /\ RowsFilled' /\ RowsOnlyOnDispatched' /\ EscalatedIsStale' /\ Announced'
<1>1. /\ state' \in [Tickets -> States] /\ chosen' \in [Tickets -> SUBSET Recipients]
      /\ \A u \in Tickets : u # t => state'[u] = state[u]
  BY DEF Erase, IInv, TypeOK, States
<1>2. /\ escalated' \in [Tickets -> BOOLEAN] /\ stale' \in [Tickets -> BOOLEAN]
      /\ EscalatedIsStale'
  BY <1>1, TouchKeeps DEF Erase
<1>3. ASSUME NEW r \in Rows
      PROVE  /\ row'[r] \in RowType
             /\ \/ row'[r] = row[r] /\ (Existing(r) => row[r].ticket # t)
                \/ row'[r].status = "gone"
  BY RowTyped DEF Erase, FreeRow, RowType, RowStates, RowsOf
<1>4. row' \in [Rows -> RowType]
  BY <1>3 DEF Erase
<1>5. (RowsFilled /\ RowsOnlyOnDispatched)'
  BY <1>1, <1>3 DEF IInv, RowsFilled, RowsOnlyOnDispatched, Existing, Active
<1>6. Announced'
  BY <1>3 DEF IInv, Announced
<1> QED BY <1>1, <1>2, <1>4, <1>5, <1>6

LEMMA DeletesKeep ==
  ASSUME IInv, NEW q \in Requests, DeleteDraftWrites(q) \/ DeleteWrites(q) PROVE IInv'
<1> DEFINE t == request[q].ticket
<1>1. /\ t \in Tickets
      /\ UNCHANGED <<token, granted, known, outbox, settled, overlapped>>
  BY DEF DeleteDraftWrites, DeleteWrites, Writing, IInv, Knows, TicketKinds
<1>2. request' \in [Requests -> RequestType] /\ \A p \in Requests : Knows(p)'
  <2>1. request[q].people \in SUBSET Recipients
    BY RequestTyped DEF RequestType
  <2> QED BY <2>1, EndKeeps, ReviewKeeps DEF DeleteDraftWrites, DeleteWrites
<1>3. CASE Erase(t)
  <2>1. TypeOK'
    BY <1>1, <1>2, <1>3, EraseKeeps DEF IInv, TypeOK, RowType, RequestType
  <2> QED BY <1>1, <1>2, <1>3, <2>1, EraseKeeps DEF IInv
<1>4. CASE UNCHANGED <<state, chosen, row, escalated, stale>>
  BY <1>1, <1>2, <1>4, CalmKeeps DEF IInv, TypeOK
<1> QED BY <1>3, <1>4 DEF DeleteDraftWrites, DeleteWrites

-----------------------------------------------------------------------------
(* Contractors, the worker and time *)

LEMMA LinksKeep ==
  ASSUME IInv, NEW p \in Pros, GrantTag(p) \/ IssueLink(p) PROVE IInv'
<1>1. CASE GrantTag(p)
  BY <1>1, SameRequests, CalmKeeps DEF GrantTag, Overlaps, IInv, TypeOK
<1>2. CASE IssueLink(p)
  BY <1>2, SameRequests, CalmKeeps DEF IssueLink, Overlaps, IInv, TypeOK
<1> QED BY <1>1, <1>2

LEMMA MergeKeeps ==
  ASSUME IInv, NEW keep \in Pros, NEW drop \in Pros, MergeProfessionals(keep, drop)
  PROVE  IInv'
<1>1. ASSUME NEW r \in Rows
      PROVE  /\ row'[r] \in RowType
             /\ \/ row'[r] = row[r]
                \/ row'[r].status = "gone"
                \/ /\ row'[r].status = row[r].status /\ row'[r].ticket = row[r].ticket
                   /\ row'[r].who = keep
  BY RowTyped DEF MergeProfessionals, FreeRow, RowType, RowStates, Recipients
<1>2. row' \in [Rows -> RowType]
  BY <1>1 DEF MergeProfessionals
<1>3. (RowsFilled /\ RowsOnlyOnDispatched)'
  BY <1>1 DEF MergeProfessionals, IInv, RowsFilled, RowsOnlyOnDispatched, Existing, Active,
              Recipients
<1>4. (EscalatedIsStale /\ \A q \in Requests : Knows(q))'
  BY DEF MergeProfessionals, IInv, EscalatedIsStale, Knows
<1>5. Announced'
  BY <1>1 DEF MergeProfessionals, IInv, Announced
<1>6. token' \subseteq Pros /\ granted' \subseteq Pros /\ known' \subseteq Pros
  BY DEF MergeProfessionals, IInv, TypeOK
<1>7. TypeOK'
  BY <1>2, <1>6 DEF MergeProfessionals, IInv, TypeOK, RowType, Overlaps
<1> QED BY <1>3, <1>4, <1>5, <1>7 DEF IInv

LEMMA NotifyKeeps ==
  ASSUME IInv, NEW r \in Rows, Notify(r) PROVE IInv'
<1> USE DEF Notify
<1>1. token' \subseteq Pros /\ settled' \subseteq Rows /\ outbox' \subseteq Rows
  BY DEF IInv, TypeOK
<1>2. TypeOK'
  BY <1>1 DEF IInv, TypeOK
<1>3. (RowsFilled /\ RowsOnlyOnDispatched /\ EscalatedIsStale /\ \A q \in Requests : Knows(q))'
  BY DEF IInv, RowsFilled, RowsOnlyOnDispatched, EscalatedIsStale, Existing, Knows
<1>4. Announced'
  BY DEF IInv, Announced, Active
<1> QED BY <1>2, <1>3, <1>4 DEF IInv

LEMMA TimeKeeps ==
  ASSUME IInv, Escalate \/ \E t \in Tickets : GrowsStale(t) PROVE IInv'
<1>1. /\ escalated' \in [Tickets -> BOOLEAN] /\ stale' \in [Tickets -> BOOLEAN]
      /\ EscalatedIsStale'
  BY DEF GrowsStale, Escalate, IInv, TypeOK, EscalatedIsStale
<1>2. UNCHANGED <<state, chosen, row, token, granted, known, outbox, settled, request,
                  overlapped>>
  BY DEF GrowsStale, Escalate
<1>3. TypeOK'
  BY <1>1, <1>2 DEF IInv, TypeOK
<1>4. (RowsFilled /\ RowsOnlyOnDispatched /\ Announced /\ \A q \in Requests : Knows(q))'
  BY <1>2 DEF IInv, RowsFilled, RowsOnlyOnDispatched, Announced, Existing, Knows
<1> QED BY <1>1, <1>3, <1>4 DEF IInv

LEMMA NextKeeps == ASSUME IInv, [Next]_vars PROVE IInv'
<1>1. ASSUME NEW t \in Tickets, TicketStep(t) PROVE IInv'
  BY <1>1, CreateDraftKeeps, CreateTicketKeeps, EditDraftKeeps, TimeKeeps DEF TicketStep
<1>2. ASSUME NEW q \in Requests, Reads(q) \/ Writes(q) PROVE IInv'
  BY <1>2, ReadsKeep, SubmitKeeps, DeletesKeep, CloseKeeps, ReopenKeeps, AddKeeps, RemoveKeeps,
     DoneKeeps, RevokeTagKeeps, RevokeAccessKeeps, AbandonKeeps, CountKeeps DEF Writes
<1>3. ASSUME NEW r \in Rows, Resend(r) \/ MarkViewed(r) \/ Notify(r) PROVE IInv'
  BY <1>3, ResendKeeps, MarkViewedKeeps, NotifyKeeps
<1>4. ASSUME NEW p \in Pros, GrantTag(p) \/ IssueLink(p) PROVE IInv'
  BY <1>4, LinksKeep
<1>5. ASSUME NEW keep \in Pros, NEW drop \in Pros, MergeProfessionals(keep, drop) PROVE IInv'
  BY <1>5, MergeKeeps
<1>6. CASE Escalate
  BY <1>6, TimeKeeps
<1>7. CASE UNCHANGED vars
  BY <1>7, SameRequests, CalmKeeps DEF vars, IInv, TypeOK
<1> QED BY <1>1, <1>2, <1>3, <1>4, <1>5, <1>6, <1>7 DEF Next

\* The invariant holds in every reachable state.
THEOREM Invariance == Spec => []IInv
<1>1. IInv /\ [Next]_vars => IInv'
  BY NextKeeps
<1> QED BY InitIInv, <1>1, PTL DEF Spec

-----------------------------------------------------------------------------
(* What follows from it *)

\* Every variable has its type.
THEOREM TypeCorrect == Spec => []TypeOK
<1>1. IInv => TypeOK
  BY DEF IInv
<1> QED BY Invariance, <1>1, PTL

\* Drafts and deleted tickets have no rows of the Assignment table.
THEOREM RowsOnlyOnDispatchedAlways == Spec => []RowsOnlyOnDispatched
<1>1. IInv => RowsOnlyOnDispatched
  BY DEF IInv
<1> QED BY Invariance, <1>1, PTL

\* Only open tickets that did not move are escalated.
THEOREM EscalatedIsStaleAlways == Spec => []EscalatedIsStale
<1>1. IInv => EscalatedIsStale
  BY DEF IInv
<1> QED BY Invariance, <1>1, PTL

\* There is no row its recipient was never told of, nor ever will be.
THEOREM AnnouncedAlways == Spec => []Announced
<1>1. IInv => Announced
  BY DEF IInv
<1> QED BY Invariance, <1>1, PTL

\* Only deleteTicket makes a ticket vanish that was sent out: the steps that
\* write "deleted" are its own and that of a draft read again under the lock.
THEOREM DispatchedIsKeptAlways == Spec => DispatchedIsKept
<1> DEFINE Kept ==
      \A t \in Tickets : state[t] \in Dispatched =>
        \/ state'[t] \in Dispatched
        \/ \E q \in Requests : Writing(q, "delete") /\ request[q].ticket = t
<1>1. ASSUME IInv, [Next]_vars PROVE Kept
  <2> SUFFICES ASSUME NEW t \in Tickets, state[t] \in Dispatched,
                      ~\E q \in Requests : Writing(q, "delete") /\ request[q].ticket = t
               PROVE  state'[t] \in Dispatched
    OBVIOUS
  <2> USE <1>1 DEF Dispatched, IInv, TypeOK
  <2>1. ASSUME NEW u \in Tickets, TicketStep(u) PROVE state'[t] \in Dispatched
    BY <2>1 DEF TicketStep, CreateDraft, CreateTicket, EditDraft, GrowsStale
  <2>2. ASSUME NEW q \in Requests, Reads(q) PROVE state'[t] \in Dispatched
    BY <2>2 DEF Reads, SubmitReads, DeleteDraftReads, CloseReads, ReopenReads, DeleteReads,
                AddReads, RemoveReads, DoneReads, RevokeTagReads, Reading
  <2>3. ASSUME NEW q \in Requests, DeleteWrites(q) PROVE state'[t] \in Dispatched
    BY <2>3 DEF DeleteWrites, Erase, Writing
  <2>4. ASSUME NEW q \in Requests, DeleteDraftWrites(q) PROVE state'[t] \in Dispatched
    BY <2>4 DEF DeleteDraftWrites, Erase
  <2>5. ASSUME NEW q \in Requests, SubmitWrites(q) \/ CloseWrites(q) \/ ReopenWrites(q)
        PROVE  state'[t] \in Dispatched
    BY <2>5 DEF SubmitWrites, SubmitTo, CloseWrites, ReopenWrites
  <2>6. ASSUME NEW q \in Requests,
               \/ AddWrites(q) \/ RemoveWrites(q) \/ DoneWrites(q) \/ RevokeTagWrites(q)
               \/ RevokeAccess(q) \/ Abandon(q) \/ \E p \in Pros : CountAccess(q, p)
        PROVE  state'[t] \in Dispatched
    BY <2>6 DEF AddWrites, RemoveWrites, DoneWrites, RevokeTagWrites, RevokeAccess, Abandon,
                CountAccess, Reading
  <2>7. ASSUME NEW r \in Rows, Resend(r) \/ MarkViewed(r) \/ Notify(r)
        PROVE  state'[t] \in Dispatched
    BY <2>7 DEF Resend, MarkViewed, Notify
  <2>8. ASSUME NEW p \in Pros, GrantTag(p) \/ IssueLink(p) PROVE state'[t] \in Dispatched
    BY <2>8 DEF GrantTag, IssueLink
  <2>9. CASE Escalate \/ (\E keep, drop \in Pros : MergeProfessionals(keep, drop))
    BY <2>9 DEF Escalate, MergeProfessionals
  <2>10. CASE UNCHANGED vars
    BY <2>10 DEF vars
  <2> QED BY <2>1, <2>2, <2>3, <2>4, <2>5, <2>6, <2>7, <2>8, <2>9, <2>10 DEF Next, Writes
<1>2. IInv /\ [Next]_vars => [Kept]_vars
  BY <1>1
<1> QED BY Invariance, <1>2, PTL DEF Spec, DispatchedIsKept

-----------------------------------------------------------------------------
(***************************************************************************)
(* Requests that do not overlap.  While no two were in progress at once,   *)
(* there is at most one, and what it read is still so when it writes.      *)
(***************************************************************************)
One == \A p, q \in Requests : request[p] # Idle /\ request[q] # Idle => p = q

Filled(t, w, status) == [ticket |-> t, who |-> w, status |-> status]

HasRow(t, w) == \E r \in Rows : Existing(r) /\ row[r].ticket = t /\ row[r].who = w

Fresh(q) ==
  /\ Writing(q, "add") =>
       \/ request[q].row = None /\ ~HasRow(request[q].ticket, request[q].who)
       \/ request[q].row \in Rows
            /\ row[request[q].row] = Filled(request[q].ticket, request[q].who, "REMOVED")
  /\ Writing(q, "done") => row[request[q].row].status \in Active
  /\ Writing(q, "reopen") => state[request[q].ticket] = "closed"
  /\ request[q].pc = "revoke" => ~HasWork(request[q].who)

Sole == \A a, b \in Rows :
          (Existing(a) /\ Existing(b) /\ row[a].ticket = row[b].ticket
             /\ row[a].who = row[b].who) => a = b

Linked == known = Pros => ActiveHasLink

Undisturbed == One /\ Sole /\ Linked /\ \A q \in Requests : Fresh(q)

SInv == ~overlapped => Undisturbed

LEMMA InitSInv == Init => SInv
<1> SUFFICES ASSUME Init PROVE Undisturbed
  BY DEF SInv
<1>1. \A q \in Requests : request[q] = Idle
  BY DEF Init
<1>2. \A r \in Rows : row[r].status = "free"
  BY DEF Init, FreeRow
<1> QED
  BY <1>1, <1>2 DEF Undisturbed, One, Sole, Linked, ActiveHasLink, Fresh, Writing, Idle,
                    Existing, Active

\* A step of a user beside no request leaves none in progress.
LEMMA Quiet ==
  ASSUME SInv, Overlaps, ~overlapped', request' = request
  PROVE  Undisturbed /\ One' /\ \A q \in Requests : Fresh(q)'
<1>1. ~overlapped /\ \A q \in Requests : request'[q] = Idle
  BY DEF Overlaps
<1>2. One'
  BY <1>1 DEF One
<1>3. ASSUME NEW q \in Requests PROVE Fresh(q)'
  BY <1>1 DEF Fresh, Writing, Idle
<1> QED BY <1>1, <1>2, <1>3 DEF SInv

\* The only request in progress ends, or goes on to review links.
LEMMA LoneWriter ==
  ASSUME IInv, SInv, ~overlapped, NEW q \in Requests, request[q] # Idle,
         End(q) \/ \E ps : Review(q, ps)
  PROVE  One' /\ \A p \in Requests : Fresh(p)'
<1>1. ASSUME NEW p \in Requests, p # q PROVE request'[p] = Idle
  BY <1>1 DEF SInv, Undisturbed, One, End, Review, IInv, TypeOK
<1>2. request'[q] = Idle \/ request'[q].pc = "count"
  <2>1. request[q] \in RequestType
    BY RequestTyped
  <2> QED BY <2>1 DEF End, Review, IInv, TypeOK, RequestType
<1>3. One'
  BY <1>1 DEF One
<1>4. ASSUME NEW p \in Requests, request'[p] = Idle \/ request'[p].pc = "count"
      PROVE  Fresh(p)'
  BY <1>4 DEF Fresh, Writing, Idle
<1> QED BY <1>1, <1>2, <1>3, <1>4

\* No row comes to be: uniqueness stays.
LEMMA FewerSole ==
  ASSUME Sole,
         \A r \in Rows : Existing(r)' => /\ Existing(r)
                                         /\ row'[r].ticket = row[r].ticket
                                         /\ row'[r].who = row[r].who
  PROVE  Sole'
BY DEF Sole

\* No row becomes active and no link dies: the links stay.
LEMMA SameLinks ==
  ASSUME Linked, known' \subseteq known, known \subseteq Pros, token \subseteq token',
         \A r \in Rows : row'[r].status \in Active =>
           row[r].status \in Active /\ row'[r].who = row[r].who
  PROVE  Linked'
<1> SUFFICES ASSUME known' = Pros PROVE ActiveHasLink'
  BY DEF Linked
<1>1. ActiveHasLink
  BY DEF Linked
<1> QED BY <1>1 DEF ActiveHasLink

\* New rows take free places, one for each recipient, and come with links.
LEMMA NewRows ==
  ASSUME IInv, NEW t \in Tickets, NEW recipients \in SUBSET Recipients,
         CreateRows(t, recipients)
  PROVE  /\ token' = token \cup (recipients \cap Pros)
         /\ \E R \in SUBSET FreeRows :
              /\ \A r \in Rows \ R : row'[r] = row[r]
              /\ \A r \in R : \E w \in recipients : row'[r] = Filled(t, w, "SENT")
              /\ \A a, b \in R : row'[a] = row'[b] => a = b
              /\ \A w \in recipients : \E r \in R : row'[r] = Filled(t, w, "SENT")
<1>1. PICK f \in [recipients -> FreeRows] :
        /\ \A a, b \in recipients : f[a] = f[b] => a = b
        /\ row' = [r \in Rows |->
                     IF \E w \in recipients : f[w] = r
                     THEN [ticket |-> t, status |-> "SENT",
                           who |-> CHOOSE w \in recipients : f[w] = r]
                     ELSE row[r]]
        /\ ApplyNewAssignments(recipients, {f[w] : w \in recipients})
  BY DEF CreateRows
<1> DEFINE R == {f[w] : w \in recipients}
<1>2. R \in SUBSET FreeRows /\ R \subseteq Rows
  BY DEF FreeRows
<1>3. ASSUME NEW w \in recipients
      PROVE  f[w] \in R /\ row'[f[w]] = Filled(t, w, "SENT") /\ row'[f[w]].who = w
  <2>1. f[w] \in Rows
    BY <1>2
  <2>2. (CHOOSE v \in recipients : f[v] = f[w]) = w
    BY <1>1
  <2>3. row'[f[w]] = Filled(t, w, "SENT")
    BY <1>1, <2>1, <2>2 DEF Filled
  <2> QED BY <2>3 DEF Filled
<1>4. \A r \in Rows \ R : row'[r] = row[r]
  BY <1>1
<1>5. \A a, b \in R : row'[a] = row'[b] => a = b
  <2> SUFFICES ASSUME NEW v \in recipients, NEW w \in recipients, row'[f[v]] = row'[f[w]]
               PROVE  f[v] = f[w]
    OBVIOUS
  <2>1. row'[f[v]].who = v /\ row'[f[w]].who = w
    BY <1>3
  <2> QED BY <2>1
<1>6. token' = token \cup (recipients \cap Pros)
  BY <1>1 DEF ApplyNewAssignments
<1> HIDE DEF R
<1>7. \A r \in R : \E w \in recipients : row'[r] = Filled(t, w, "SENT")
  BY <1>3 DEF R
<1> QED BY <1>2, <1>3, <1>4, <1>5, <1>6, <1>7

\* Recipients without a row on the ticket get one, and can get in.
LEMMA NewRowsSole ==
  ASSUME IInv, Sole, Linked, NEW t \in Tickets, NEW recipients \in SUBSET Recipients,
         CreateRows(t, recipients), known' = known,
         \A w \in recipients : ~HasRow(t, w)
  PROVE  Sole' /\ Linked'
<1>1. PICK R \in SUBSET FreeRows :
        /\ \A r \in Rows \ R : row'[r] = row[r]
        /\ \A r \in R : \E w \in recipients : row'[r] = Filled(t, w, "SENT")
        /\ \A a, b \in R : row'[a] = row'[b] => a = b
  BY NewRows
<1>2. token' = token \cup (recipients \cap Pros)
  BY NewRows
<1>3. ASSUME NEW r \in R
      PROVE  /\ r \in Rows /\ row'[r].ticket = t /\ row'[r].who \in recipients
             /\ row'[r] = Filled(t, row'[r].who, "SENT")
  <2>1. PICK w \in recipients : row'[r] = Filled(t, w, "SENT")
    BY <1>1
  <2>2. row'[r].ticket = t /\ row'[r].who = w
    BY <2>1 DEF Filled
  <2> QED BY <2>1, <2>2 DEF FreeRows
<1>4. Sole'
  <2> SUFFICES ASSUME NEW a \in Rows, NEW b \in Rows, Existing(a)', Existing(b)',
                      row'[a].ticket = row'[b].ticket, row'[a].who = row'[b].who
               PROVE  a = b
    BY DEF Sole
  <2>1. CASE a \in R /\ b \in R
    <3>1. row'[a] = row'[b]
      BY <1>3, <2>1
    <3> QED BY <1>1, <2>1, <3>1
  <2>2. CASE a \notin R /\ b \notin R
    BY <1>1, <2>2 DEF Sole, Existing
  <2>3. ASSUME NEW x \in R, NEW y \in Rows \ R, Existing(y)',
               row'[x].ticket = row'[y].ticket, row'[x].who = row'[y].who
        PROVE  FALSE
    <3>1. row'[y] = row[y]
      BY <1>1
    <3>2. row[y].ticket = t /\ row[y].who \in recipients /\ Existing(y)
      BY <1>3, <2>3, <3>1 DEF Existing
    <3> QED BY <3>2 DEF HasRow
  <2> QED BY <2>1, <2>2, <2>3
<1>5. Linked'
  <2> SUFFICES ASSUME known = Pros, NEW r \in Rows, row'[r].status \in Active,
                      row'[r].who \in Pros
               PROVE  row'[r].who \in token'
    BY DEF Linked, ActiveHasLink
  <2>1. CASE r \in R
    BY <1>2, <1>3, <2>1
  <2>2. CASE r \notin R
    BY <1>1, <1>2, <2>2 DEF Linked, ActiveHasLink
  <2> QED BY <2>1, <2>2
<1> QED BY <1>4, <1>5

\* A ticket that was not sent out has no rows yet.
LEMMA NoRowsYet ==
  ASSUME IInv, NEW t \in Tickets, state[t] \notin Dispatched
  PROVE  \A w : ~HasRow(t, w)
BY DEF IInv, RowsOnlyOnDispatched, HasRow

\* What a request has just read is so.
LEMMA ReadingFresh ==
  ASSUME IInv, SInv, NEW q \in Requests, NEW x \in RequestType, Begin(q, x), Reading,
         x.kind = "add" =>
           \/ x.row = None /\ ~HasRow(x.ticket, x.who)
           \/ x.row \in Rows /\ row[x.row] = Filled(x.ticket, x.who, "REMOVED"),
         x.kind = "done" => row[x.row].status \in Active,
         x.kind = "reopen" => state[x.ticket] = "closed"
  PROVE  SInv'
<1> SUFFICES ASSUME ~overlapped' PROVE Undisturbed'
  BY DEF SInv
<1>1. Undisturbed /\ \A p \in Requests : request[p] = Idle
  BY DEF Begin, Overlaps, SInv
<1> DEFINE y == [x EXCEPT !.pc = "write"]
<1>2. /\ y.pc = "write" /\ y.kind = x.kind /\ y.ticket = x.ticket
      /\ y.who = x.who /\ y.row = x.row
  BY DEF RequestType
<1>3. request'[q] = y /\ \A p \in Requests : p # q => request'[p] = Idle
  BY <1>1 DEF Begin, IInv, TypeOK
<1> HIDE DEF y
<1>4. One'
  BY <1>3 DEF One
<1>5. Sole' /\ Linked'
  BY <1>1 DEF Undisturbed, Sole, Linked, ActiveHasLink, Existing, Reading
<1>6. ASSUME NEW p \in Requests, p # q PROVE Fresh(p)'
  BY <1>3, <1>6 DEF Fresh, Writing, Idle
<1>7. Fresh(q)'
  <2>1. HasRow(x.ticket, x.who)' <=> HasRow(x.ticket, x.who)
    BY DEF HasRow, Existing, Reading
  <2> QED BY <1>2, <1>3, <2>1 DEF Fresh, Writing, Reading, Filled, HasRow
<1> QED BY <1>4, <1>5, <1>6, <1>7 DEF Undisturbed

LEMMA ReadsFresh ==
  ASSUME IInv, SInv, NEW q \in Requests, Reads(q) PROVE SInv'
<1>1. ASSUME NEW t \in Tickets, SubmitReads(q, t) PROVE SInv'
  <2>1. PICK ps \in SUBSET Recipients, kind \in {"submit", "submitList"} :
          /\ Begin(q, [Idle EXCEPT !.kind = kind, !.ticket = t, !.people = ps])
          /\ Reading
    <3>0. chosen[t] \in SUBSET Recipients
      BY DEF IInv, TypeOK
    <3>1. CASE Begin(q, [Idle EXCEPT !.kind = "submit", !.ticket = t, !.people = chosen[t]])
      BY <1>1, <3>0, <3>1 DEF SubmitReads
    <3>2. CASE \E list \in SUBSET Recipients :
                 Begin(q, [Idle EXCEPT !.kind = "submitList", !.ticket = t, !.people = list])
      BY <1>1, <3>2 DEF SubmitReads
    <3> QED BY <1>1, <3>1, <3>2 DEF SubmitReads
  <2> DEFINE x == [Idle EXCEPT !.kind = kind, !.ticket = t, !.people = ps]
  <2>2. x \in RequestType /\ x.kind = kind
    BY DEF Idle, RequestType, RequestPc, Kinds
  <2>3. Begin(q, x) /\ Reading
    BY <2>1
  <2> HIDE DEF x
  <2> QED BY <2>2, <2>3, ReadingFresh
<1>2. ASSUME NEW t \in Tickets, DeleteDraftReads(q, t) \/ CloseReads(q, t) \/ ReopenReads(q, t)
      PROVE  SInv'
  <2>1. PICK kind \in {"deleteDraft", "close", "reopen"} :
          /\ Begin(q, [Idle EXCEPT !.kind = kind, !.ticket = t]) /\ Reading
          /\ kind = "reopen" => state[t] = "closed"
    BY <1>2 DEF DeleteDraftReads, CloseReads, ReopenReads
  <2> DEFINE x == [Idle EXCEPT !.kind = kind, !.ticket = t]
  <2>2. x \in RequestType /\ x.kind = kind /\ x.ticket = t
    BY DEF Idle, RequestType, RequestPc, Kinds
  <2>3. Begin(q, x) /\ Reading
    BY <2>1
  <2> HIDE DEF x
  <2> QED BY <2>1, <2>2, <2>3, ReadingFresh
<1>3. ASSUME NEW t \in Tickets, DeleteReads(q, t) PROVE SInv'
  <2>1. {row[r].who : r \in RowsOf(t)} \cap Pros \in SUBSET Recipients
    BY DEF Recipients
  <2> DEFINE x == [Idle EXCEPT !.kind = "delete", !.ticket = t,
                               !.people = {row[r].who : r \in RowsOf(t)} \cap Pros]
  <2>2. x \in RequestType /\ x.kind = "delete"
    BY <2>1 DEF Idle, RequestType, RequestPc, Kinds
  <2>3. Begin(q, x) /\ Reading
    BY <1>3 DEF DeleteReads
  <2> HIDE DEF x
  <2> QED BY <2>2, <2>3, ReadingFresh
<1>4. ASSUME NEW t \in Tickets, NEW who \in Recipients, AddReads(q, t, who) PROVE SInv'
  <2>1. PICK previous \in Rows \cup {None} :
          /\ Begin(q, [Idle EXCEPT !.kind = "add", !.ticket = t, !.who = who, !.row = previous])
          /\ \/ previous = None /\ ~HasRow(t, who)
             \/ previous \in Rows /\ row[previous] = Filled(t, who, "REMOVED")
    <3> DEFINE removed == {r \in RowsOf(t) : row[r].who = who}
    <3>1. PICK previous \in IF removed = {} THEN {None} ELSE removed :
            Begin(q, [Idle EXCEPT !.kind = "add", !.ticket = t, !.who = who, !.row = previous])
      BY <1>4 DEF AddReads
    <3>2. CASE removed = {}
      <4>1. ~HasRow(t, who)
        BY <3>2 DEF HasRow, RowsOf
      <4> QED BY <3>1, <3>2, <4>1
    <3>3. CASE removed # {}
      <4>1. /\ previous \in Rows /\ Existing(previous)
            /\ row[previous].ticket = t /\ row[previous].who = who
            /\ row[previous].status \notin Active
        BY <1>4, <3>1, <3>3 DEF RowsOf, ActiveOf, AddReads
      <4>2. row[previous] \in RowType
        BY <4>1, RowTyped
      <4>3. row[previous] = Filled(t, who, "REMOVED")
        BY <4>1, <4>2 DEF RowType, Filled, Existing
      <4> QED BY <3>1, <4>1, <4>3
    <3> QED BY <3>2, <3>3
  <2> DEFINE x == [Idle EXCEPT !.kind = "add", !.ticket = t, !.who = who, !.row = previous]
  <2>2. /\ x \in RequestType /\ x.kind = "add" /\ x.ticket = t /\ x.who = who
        /\ x.row = previous
    BY DEF Idle, RequestType, RequestPc, Kinds
  <2>3. Begin(q, x) /\ Reading
    BY <1>4, <2>1 DEF AddReads
  <2> HIDE DEF x
  <2> QED BY <2>1, <2>2, <2>3, ReadingFresh
<1>5. ASSUME NEW r \in Rows, RemoveReads(q, r) PROVE SInv'
  <2> DEFINE x == [Idle EXCEPT !.kind = "remove", !.ticket = row[r].ticket, !.row = r,
                               !.who = row[r].who]
  <2>1. row[r].ticket \in Tickets /\ row[r].who \in Recipients
    BY <1>5 DEF RemoveReads, IInv, RowsFilled, Existing
  <2>2. x \in RequestType /\ x.kind = "remove"
    BY <2>1 DEF Idle, RequestType, RequestPc, Kinds
  <2>3. Begin(q, x) /\ Reading
    BY <1>5 DEF RemoveReads
  <2> HIDE DEF x
  <2> QED BY <2>2, <2>3, ReadingFresh
<1>6. ASSUME NEW r \in Rows, DoneReads(q, r) PROVE SInv'
  <2> DEFINE x == [Idle EXCEPT !.kind = "done", !.ticket = row[r].ticket, !.row = r]
  <2>1. row[r].ticket \in Tickets
    BY <1>6 DEF DoneReads, IInv, RowsFilled, Existing
  <2>2. x \in RequestType /\ x.kind = "done" /\ x.row = r
    BY <2>1 DEF Idle, RequestType, RequestPc, Kinds
  <2>3. Begin(q, x) /\ Reading /\ row[r].status \in Active
    BY <1>6 DEF DoneReads
  <2> HIDE DEF x
  <2> QED BY <2>2, <2>3, ReadingFresh
<1>7. ASSUME NEW p \in Pros, RevokeTagReads(q, p) PROVE SInv'
  <2> DEFINE x == [Idle EXCEPT !.kind = "revokeTag", !.who = p]
  <2>1. x \in RequestType /\ x.kind = "revokeTag"
    BY DEF Idle, RequestType, RequestPc, Kinds, Recipients
  <2>2. Begin(q, x) /\ Reading
    BY <1>7 DEF RevokeTagReads
  <2> HIDE DEF x
  <2> QED BY <2>1, <2>2, ReadingFresh
<1> QED BY <1>1, <1>2, <1>3, <1>4, <1>5, <1>6, <1>7 DEF Reads

\* A request writes on its own account.
LEMMA Writer ==
  ASSUME NEW q \in Requests, request[q].pc # "idle"
  PROVE  request[q] # Idle
BY DEF Idle

LEMMA SubmitFresh ==
  ASSUME IInv, SInv, NEW q \in Requests, SubmitWrites(q) PROVE SInv'
<1> SUFFICES ASSUME ~overlapped PROVE Undisturbed'
  BY DEF SInv, SubmitWrites, SubmitTo
<1> DEFINE t == request[q].ticket
           given == IF request[q].kind = "submit" THEN chosen[t] ELSE request[q].people
<1>1. t \in Tickets /\ End(q) /\ known' = known /\ request[q] # Idle
  BY Writer DEF SubmitWrites, SubmitTo, Writing, IInv, Knows, TicketKinds
<1>2. given \in SUBSET Recipients
  BY <1>1 DEF IInv, TypeOK
<1>3. One' /\ \A p \in Requests : Fresh(p)'
  BY <1>1, LoneWriter
<1>4. Sole /\ Linked
  BY DEF SInv, Undisturbed
<1>5. CASE state[t] = "draft" /\ CreateRows(t, given)
  <2>1. \A w \in given : ~HasRow(t, w)
    BY <1>1, <1>5, NoRowsYet DEF Dispatched
  <2> QED BY <1>1, <1>2, <1>3, <1>4, <1>5, <2>1, NewRowsSole DEF Undisturbed
<1>6. CASE UNCHANGED <<row, token>>
  BY <1>1, <1>3, <1>4, <1>6 DEF Undisturbed, Sole, Linked, ActiveHasLink, Existing
<1> QED BY <1>5, <1>6 DEF SubmitWrites, SubmitTo

LEMMA CreatesFresh ==
  ASSUME IInv, SInv, NEW t \in Tickets, NEW recipients \in SUBSET Recipients,
         CreateDraft(t, recipients) \/ CreateTicket(t, recipients) \/ EditDraft(t, recipients)
  PROVE  SInv'
<1> SUFFICES ASSUME ~overlapped' PROVE Undisturbed'
  BY DEF SInv
<1>1. Undisturbed /\ One' /\ \A q \in Requests : Fresh(q)'
  BY Quiet DEF CreateDraft, CreateTicket, EditDraft
<1>2. CASE CreateTicket(t, recipients)
  <2>1. \A w \in recipients : ~HasRow(t, w)
    BY <1>2, NoRowsYet DEF CreateTicket, Dispatched
  <2>2. Sole' /\ Linked'
    BY <1>1, <1>2, <2>1, NewRowsSole DEF CreateTicket, Undisturbed
  <2> QED BY <1>1, <2>2 DEF Undisturbed
<1>3. CASE UNCHANGED <<row, token, known>>
  BY <1>1, <1>3 DEF Undisturbed, Sole, Linked, ActiveHasLink, Existing
<1> QED BY <1>2, <1>3 DEF CreateDraft, EditDraft

\* A recipient brought back keeps his row, one who is new gets one.
LEMMA AddFresh ==
  ASSUME IInv, SInv, NEW q \in Requests, AddWrites(q) PROVE SInv'
<1> SUFFICES ASSUME ~overlapped PROVE Undisturbed'
  BY DEF SInv, AddWrites
<1> DEFINE t == request[q].ticket
           who == request[q].who
           r == request[q].row
<1>1. /\ t \in Tickets /\ who \in Recipients /\ End(q) /\ known' = known
      /\ request[q] # Idle /\ Writing(q, "add")
  BY Writer DEF AddWrites, Writing, IInv, Knows, TicketKinds
<1>2. One' /\ \A p \in Requests : Fresh(p)'
  BY <1>1, LoneWriter
<1>3. Sole /\ Linked /\ Fresh(q)
  BY DEF SInv, Undisturbed
<1>4. CASE /\ r # None /\ row' = [row EXCEPT ![r].status = "SENT"]
           /\ ApplyNewAssignments({who}, {r})
  <2>1. r \in Rows /\ row[r] = Filled(t, who, "REMOVED")
    BY <1>1, <1>3, <1>4 DEF Fresh
  <2>2. row'[r] = Filled(t, who, "SENT") /\ \A s \in Rows : s # r => row'[s] = row[s]
    BY <1>4, <2>1 DEF IInv, TypeOK, Filled
  <2>3. Sole'
    <3>1. \A s \in Rows : Existing(s)' => /\ Existing(s)
                                          /\ row'[s].ticket = row[s].ticket
                                          /\ row'[s].who = row[s].who
      BY <2>1, <2>2 DEF Filled, Existing
    <3> QED BY <1>3, <3>1, FewerSole
  <2>4. token' = token \cup ({who} \cap Pros)
    BY <1>4 DEF ApplyNewAssignments
  <2>5. Linked'
    BY <1>1, <1>3, <2>2, <2>4 DEF Linked, ActiveHasLink, Filled
  <2> QED BY <1>2, <2>3, <2>5 DEF Undisturbed
<1>5. CASE r = None /\ CreateRows(t, {who})
  <2>1. ~HasRow(t, who)
    <3>1. r \notin Rows
      BY <1>5, LifecycleAssumption
    <3> QED BY <1>1, <1>3, <3>1 DEF Fresh
  <2>2. {who} \in SUBSET Recipients
    BY <1>1
  <2> QED BY <1>1, <1>2, <1>3, <1>5, <2>1, <2>2, NewRowsSole DEF Undisturbed
<1>6. CASE UNCHANGED <<row, token>>
  BY <1>1, <1>2, <1>3, <1>6 DEF Undisturbed, Sole, Linked, ActiveHasLink, Existing
<1> QED BY <1>4, <1>5, <1>6 DEF AddWrites

\* The writes that change nothing of a row but its status, and no link.
LEMMA StatusFresh ==
  ASSUME IInv, SInv, ~overlapped, NEW q \in Requests, request[q] # Idle,
         End(q) \/ \E ps : Review(q, ps),
         UNCHANGED <<token, known>>,
         \A r \in Rows :
           /\ Existing(r)' => /\ Existing(r)
                              /\ row'[r].ticket = row[r].ticket
                              /\ row'[r].who = row[r].who
           /\ row'[r].status \in Active => row[r].status \in Active
  PROVE  Undisturbed'
<1>1. One' /\ \A p \in Requests : Fresh(p)'
  BY LoneWriter
<1>2. Sole /\ Linked
  BY DEF SInv, Undisturbed
<1>3. Sole'
  BY <1>2, FewerSole
<1>4. Linked'
  <2>1. \A r \in Rows : row'[r].status \in Active =>
          row[r].status \in Active /\ row'[r].who = row[r].who
    BY DEF Existing
  <2> QED BY <1>2, <2>1, SameLinks DEF IInv, TypeOK
<1> QED BY <1>1, <1>3, <1>4 DEF Undisturbed

\* The same of requests that leave the rows alone.
LEMMA CalmFresh ==
  ASSUME IInv, SInv, ~overlapped, NEW q \in Requests, request[q] # Idle,
         End(q) \/ \E ps : Review(q, ps),
         UNCHANGED <<row, token, known>>
  PROVE  Undisturbed'
<1>1. \A r \in Rows :
           /\ Existing(r)' => /\ Existing(r)
                              /\ row'[r].ticket = row[r].ticket
                              /\ row'[r].who = row[r].who
           /\ row'[r].status \in Active => row[r].status \in Active
  BY DEF Existing
<1> QED BY <1>1, StatusFresh

LEMMA RemoveFresh ==
  ASSUME IInv, SInv, NEW q \in Requests, RemoveWrites(q) PROVE SInv'
<1> SUFFICES ASSUME ~overlapped PROVE Undisturbed'
  BY DEF SInv, RemoveWrites
<1> DEFINE r == request[q].row
<1>1. r \in Rows /\ request[q] # Idle /\ UNCHANGED <<token, known>>
  BY Writer DEF RemoveWrites, Writing, IInv, Knows
<1>2. End(q) \/ \E ps : Review(q, ps)
  BY DEF RemoveWrites
<1>3. CASE Existing(r) /\ row' = [row EXCEPT ![r].status = "REMOVED"]
  <2>1. \A s \in Rows : /\ row'[s].ticket = row[s].ticket /\ row'[s].who = row[s].who
                        /\ s # r => row'[s] = row[s]
                        /\ s = r => row'[s].status = "REMOVED"
    BY <1>1, <1>3 DEF IInv, TypeOK
  <2>2. \A s \in Rows :
           /\ Existing(s)' => /\ Existing(s)
                              /\ row'[s].ticket = row[s].ticket
                              /\ row'[s].who = row[s].who
           /\ row'[s].status \in Active => row[s].status \in Active
    BY <1>3, <2>1 DEF Existing, Active
  <2> QED BY <1>1, <1>2, <2>2, StatusFresh
<1>4. CASE row' = row
  BY <1>1, <1>2, <1>4, CalmFresh
<1> QED BY <1>3, <1>4 DEF RemoveWrites

LEMMA DoneFresh ==
  ASSUME IInv, SInv, NEW q \in Requests, DoneWrites(q) PROVE SInv'
<1> SUFFICES ASSUME ~overlapped PROVE Undisturbed'
  BY DEF SInv, DoneWrites
<1> DEFINE r == request[q].row
<1>1. /\ r \in Rows /\ request[q] # Idle /\ UNCHANGED <<token, known>> /\ End(q)
      /\ row[r].status \in Active
  BY Writer DEF DoneWrites, Writing, IInv, Knows, SInv, Undisturbed, Fresh
<1>3. CASE row' = [row EXCEPT ![r].status = "DONE"]
  <2>1. \A s \in Rows : /\ row'[s].ticket = row[s].ticket /\ row'[s].who = row[s].who
                        /\ s # r => row'[s] = row[s]
    BY <1>1, <1>3 DEF IInv, TypeOK
  <2>2. \A s \in Rows :
           /\ Existing(s)' => /\ Existing(s)
                              /\ row'[s].ticket = row[s].ticket
                              /\ row'[s].who = row[s].who
           /\ row'[s].status \in Active => row[s].status \in Active
    BY <1>1, <2>1 DEF Existing
  <2> QED BY <1>1, <2>2, StatusFresh
<1>4. CASE row' = row
  BY <1>1, <1>4, CalmFresh
<1> QED BY <1>3, <1>4 DEF DoneWrites

LEMMA ReopenFresh ==
  ASSUME IInv, SInv, NEW q \in Requests, ReopenWrites(q) PROVE SInv'
<1> SUFFICES ASSUME ~overlapped PROVE Undisturbed'
  BY DEF SInv, ReopenWrites
<1> DEFINE t == request[q].ticket
<1>1. request[q] # Idle /\ UNCHANGED <<token, known>> /\ End(q)
  BY Writer DEF ReopenWrites, Writing
<1>2. CASE row' = [r \in Rows |-> IF r \in ActiveOf(t)
                                  THEN [row[r] EXCEPT !.status = "SENT"] ELSE row[r]]
  <2>1. ASSUME NEW r \in Rows
        PROVE  /\ row'[r].ticket = row[r].ticket /\ row'[r].who = row[r].who
               /\ row'[r].status = row[r].status \/ row[r].status \in Active
    BY <1>2, RowTyped DEF RowType, ActiveOf
  <2>2. \A s \in Rows :
           /\ Existing(s)' => /\ Existing(s)
                              /\ row'[s].ticket = row[s].ticket
                              /\ row'[s].who = row[s].who
           /\ row'[s].status \in Active => row[s].status \in Active
    BY <2>1 DEF Existing
  <2> QED BY <1>1, <2>2, StatusFresh
<1>3. CASE row' = row
  BY <1>1, <1>3, CalmFresh
<1> QED BY <1>2, <1>3 DEF ReopenWrites

LEMMA DeletesFresh ==
  ASSUME IInv, SInv, NEW q \in Requests, DeleteDraftWrites(q) \/ DeleteWrites(q) PROVE SInv'
<1> SUFFICES ASSUME ~overlapped PROVE Undisturbed'
  BY DEF SInv, DeleteDraftWrites, DeleteWrites
<1> DEFINE t == request[q].ticket
<1>1. request[q] # Idle /\ UNCHANGED <<token, known>>
  BY Writer DEF DeleteDraftWrites, DeleteWrites, Writing
<1>2. End(q) \/ \E ps : Review(q, ps)
  BY DEF DeleteDraftWrites, DeleteWrites
<1>3. CASE Erase(t)
  <2>1. \A r \in Rows : row'[r] = row[r] \/ row'[r].status = "gone"
    BY <1>3 DEF Erase, FreeRow
  <2>2. \A s \in Rows :
           /\ Existing(s)' => /\ Existing(s)
                              /\ row'[s].ticket = row[s].ticket
                              /\ row'[s].who = row[s].who
           /\ row'[s].status \in Active => row[s].status \in Active
    BY <2>1 DEF Existing, Active
  <2> QED BY <1>1, <1>2, <2>2, StatusFresh
<1>4. CASE row' = row
  BY <1>1, <1>2, <1>4, CalmFresh
<1> QED BY <1>3, <1>4 DEF DeleteDraftWrites, DeleteWrites

LEMMA PlainWritesFresh ==
  ASSUME IInv, SInv, NEW q \in Requests,
         CloseWrites(q) \/ RevokeTagWrites(q) \/ Abandon(q)
  PROVE  SInv'
<1> SUFFICES ASSUME ~overlapped PROVE Undisturbed'
  BY DEF SInv, CloseWrites, RevokeTagWrites, Abandon
<1>1. request[q] # Idle /\ UNCHANGED <<row, token, known>>
  BY Writer DEF CloseWrites, RevokeTagWrites, Abandon, Writing, Reading
<1>2. End(q) \/ \E ps : Review(q, ps)
  BY DEF CloseWrites, RevokeTagWrites, Abandon
<1> QED BY <1>1, <1>2, CalmFresh

\* Only who has no active row is about to lose his link ...
LEMMA CountFresh ==
  ASSUME IInv, SInv, NEW q \in Requests, NEW p \in Pros, CountAccess(q, p) PROVE SInv'
<1> SUFFICES ASSUME ~overlapped PROVE Undisturbed'
  BY DEF SInv, CountAccess
<1>1. request[q] # Idle /\ UNCHANGED <<row, token, known>>
  BY Writer DEF CountAccess, Reading
<1>2. CASE Review(q, request[q].people \ {p})
  BY <1>1, <1>2, CalmFresh
<1>3. CASE ~HasWork(p) /\ request' = [request EXCEPT ![q].pc = "revoke", ![q].who = p]
  <2>1. request[q] \in RequestType
    BY RequestTyped
  <2>2. request'[q].pc = "revoke" /\ request'[q].who = p
    BY <1>3, <2>1 DEF IInv, TypeOK, RequestType
  <2>3. ASSUME NEW o \in Requests, o # q PROVE request'[o] = Idle
    BY <1>1, <1>3, <2>3 DEF SInv, Undisturbed, One, IInv, TypeOK
  <2>4. One'
    BY <2>3 DEF One
  <2>5. ASSUME NEW o \in Requests, o # q PROVE Fresh(o)'
    BY <2>3, <2>5 DEF Fresh, Writing, Idle
  <2>6. Fresh(q)'
    BY <1>1, <1>3, <2>2 DEF Fresh, Writing, HasWork
  <2>7. Sole' /\ Linked'
    BY <1>1 DEF SInv, Undisturbed, Sole, Linked, ActiveHasLink, Existing
  <2> QED BY <2>4, <2>5, <2>6, <2>7 DEF Undisturbed
<1> QED BY <1>2, <1>3 DEF CountAccess

\* ... and still has none when he loses it.
LEMMA RevokeAccessFresh ==
  ASSUME IInv, SInv, NEW q \in Requests, RevokeAccess(q) PROVE SInv'
<1> SUFFICES ASSUME ~overlapped PROVE Undisturbed'
  BY DEF SInv, RevokeAccess
<1>1. request[q] # Idle /\ UNCHANGED <<row, known>> /\ \E ps : Review(q, ps)
  BY Writer DEF RevokeAccess
<1>2. One' /\ \A p \in Requests : Fresh(p)'
  BY <1>1, LoneWriter
<1>3. Sole /\ Linked /\ ~HasWork(request[q].who)
  BY DEF SInv, Undisturbed, Fresh, RevokeAccess
<1>4. token' = token \ {request[q].who}
  BY DEF RevokeAccess
<1>5. Sole'
  BY <1>1, <1>3 DEF Sole, Existing
<1>6. Linked'
  BY <1>1, <1>3, <1>4 DEF Linked, ActiveHasLink, HasWork
<1> QED BY <1>2, <1>5, <1>6 DEF Undisturbed

LEMMA UsersFresh ==
  ASSUME IInv, SInv,
         \/ \E r \in Rows : Resend(r) \/ MarkViewed(r)
         \/ \E p \in Pros : GrantTag(p) \/ IssueLink(p)
  PROVE  SInv'
<1> SUFFICES ASSUME ~overlapped' PROVE Undisturbed'
  BY DEF SInv
<1>1. Undisturbed /\ One' /\ \A q \in Requests : Fresh(q)'
  BY Quiet DEF Resend, MarkViewed, GrantTag, IssueLink
<1>2. ASSUME NEW r \in Rows, MarkViewed(r) PROVE Sole' /\ Linked'
  <2>1. /\ row[r].status = "SENT" /\ UNCHANGED <<token, known>>
        /\ \A s \in Rows : /\ row'[s].ticket = row[s].ticket /\ row'[s].who = row[s].who
                           /\ s # r => row'[s] = row[s]
    BY <1>2 DEF MarkViewed, IInv, TypeOK
  <2>2. \A s \in Rows :
           /\ Existing(s)' => /\ Existing(s)
                              /\ row'[s].ticket = row[s].ticket
                              /\ row'[s].who = row[s].who
           /\ row'[s].status \in Active => row[s].status \in Active
    BY <2>1 DEF Existing, Active
  <2>3. Sole'
    BY <1>1, <2>2, FewerSole DEF Undisturbed
  <2> QED BY <1>1, <2>1, <2>2, <2>3, SameLinks DEF Undisturbed, IInv, TypeOK
<1>3. ASSUME UNCHANGED <<row, known>>, token \subseteq token' PROVE Sole' /\ Linked'
  BY <1>1, <1>3 DEF Undisturbed, Sole, Linked, ActiveHasLink, Existing
<1> QED BY <1>1, <1>2, <1>3 DEF Resend, GrantTag, IssueLink, Undisturbed

\* Contractors who were merged have one row, and only then a missing link.
LEMMA MergeFresh ==
  ASSUME IInv, SInv, NEW keep \in Pros, NEW drop \in Pros, MergeProfessionals(keep, drop)
  PROVE  SInv'
<1> SUFFICES ASSUME ~overlapped' PROVE Undisturbed'
  BY DEF SInv
<1>1. Undisturbed /\ One' /\ \A q \in Requests : Fresh(q)'
  BY Quiet DEF MergeProfessionals
<1>2. Linked'
  BY DEF Linked, MergeProfessionals
<1>3. ASSUME NEW r \in Rows, Existing(r)'
      PROVE  /\ Existing(r) /\ row'[r].ticket = row[r].ticket
             /\ \/ row[r].who # drop /\ row'[r].who = row[r].who
                \/ /\ row[r].who = drop /\ row'[r].who = keep
                   /\ \A x \in Rows : Existing(x) /\ row[x].who = keep
                                        => row[x].ticket # row[r].ticket
  <2>1. row[r] \in RowType
    BY RowTyped
  <2>2. CASE Existing(r) /\ row[r].who = drop
    <3>1. row[r].ticket \notin
            {row[x].ticket : x \in {y \in Rows : Existing(y) /\ row[y].who = keep}}
      BY <1>3, <2>2 DEF MergeProfessionals, Existing, Active, FreeRow
    <3>2. row'[r] = [row[r] EXCEPT !.who = keep]
      BY <2>2, <3>1 DEF MergeProfessionals
    <3>3. row'[r].who = keep /\ row'[r].ticket = row[r].ticket
      BY <2>1, <3>2 DEF RowType
    <3> QED BY <2>2, <3>1, <3>3
  <2>3. CASE ~(Existing(r) /\ row[r].who = drop)
    <3>1. row'[r] = row[r]
      BY <2>3 DEF MergeProfessionals
    <3> QED BY <1>3, <2>3, <3>1 DEF Existing
  <2> QED BY <2>2, <2>3
<1>4. Sole'
  <2> SUFFICES ASSUME NEW a \in Rows, NEW b \in Rows, Existing(a)', Existing(b)',
                      row'[a].ticket = row'[b].ticket, row'[a].who = row'[b].who
               PROVE  a = b
    BY DEF Sole
  <2> QED BY <1>1, <1>3 DEF Undisturbed, Sole, MergeProfessionals
<1> QED BY <1>1, <1>2, <1>4 DEF Undisturbed

\* The worker, the clock and escalation disturb nobody.
LEMMA BackgroundFresh ==
  ASSUME IInv, SInv,
         \/ \E r \in Rows : Notify(r)
         \/ Escalate \/ (\E t \in Tickets : GrowsStale(t)) \/ UNCHANGED vars
  PROVE  SInv'
<1>1. /\ UNCHANGED <<state, row, known, request, overlapped>> /\ token \subseteq token'
  BY DEF Notify, Escalate, GrowsStale, vars
<1> SUFFICES ASSUME ~overlapped PROVE Undisturbed'
  BY <1>1 DEF SInv
<1>2. Undisturbed
  BY DEF SInv
<1>3. One' /\ Sole' /\ Linked'
  BY <1>1, <1>2 DEF Undisturbed, One, Sole, Linked, ActiveHasLink, Existing
<1>4. ASSUME NEW q \in Requests PROVE Fresh(q)'
  BY <1>1, <1>2 DEF Undisturbed, Fresh, Writing, HasRow, HasWork, Existing
<1> QED BY <1>3, <1>4 DEF Undisturbed

LEMMA NextFresh == ASSUME IInv, SInv, [Next]_vars PROVE SInv'
<1>1. ASSUME NEW t \in Tickets, TicketStep(t) PROVE SInv'
  BY <1>1, CreatesFresh, BackgroundFresh DEF TicketStep
<1>2. ASSUME NEW q \in Requests, Reads(q) \/ Writes(q) PROVE SInv'
  BY <1>2, ReadsFresh, SubmitFresh, DeletesFresh, ReopenFresh, AddFresh, RemoveFresh,
     DoneFresh, PlainWritesFresh, RevokeAccessFresh, CountFresh DEF Writes
<1>3. ASSUME NEW r \in Rows, Resend(r) \/ MarkViewed(r) \/ Notify(r) PROVE SInv'
  BY <1>3, UsersFresh, BackgroundFresh
<1>4. ASSUME NEW p \in Pros, GrantTag(p) \/ IssueLink(p) PROVE SInv'
  BY <1>4, UsersFresh
<1>5. ASSUME NEW keep \in Pros, NEW drop \in Pros, MergeProfessionals(keep, drop) PROVE SInv'
  BY <1>5, MergeFresh
<1>6. CASE Escalate \/ UNCHANGED vars
  BY <1>6, BackgroundFresh
<1> QED BY <1>1, <1>2, <1>3, <1>4, <1>5, <1>6 DEF Next

LEMMA FreshAlways == Spec => [](IInv /\ SInv)
<1>1. Init => IInv /\ SInv
  BY InitIInv, InitSInv
<1>2. IInv /\ SInv /\ [Next]_vars => (IInv /\ SInv)'
  BY NextKeeps, NextFresh
<1> QED BY <1>1, <1>2, PTL DEF Spec

\* A recipient has one row on a ticket, through removals, additions, reopenings
\* and merges, for any number of requests one after the other (addAssignments,
\* mergeProfessionals).
THEOREM UniqueRowAlways == Spec => []UniqueRow
<1>1. SInv => UniqueRow
  BY DEF SInv, Undisturbed, Sole, UniqueRow
<1> QED BY <1>1, FreshAlways, PTL

\* The review of portal access never locks out somebody who has work, not even
\* on closed tickets (revokeAccessIfOrphaned, ensureAccessToken).
THEOREM ReviewKeepsLinksAlways == Spec => []ReviewKeepsLinks
<1>1. SInv => ReviewKeepsLinks
  BY DEF SInv, Undisturbed, Linked, ReviewKeepsLinks
<1> QED BY <1>1, FreshAlways, PTL

\* A report of DONE is lost only when its ticket is reopened, its recipient is
\* removed or its row deleted, for any number of requests one after the other
\* (addAssignments, markViewed, reopenTicket).
THEOREM DoneIsKeptAlways == Spec => DoneIsKept
<1> DEFINE Kept ==
      ~overlapped' => \A r \in Rows : row[r].status = "DONE" =>
        \/ row'[r].status \in {"DONE", "REMOVED", "gone"}
        \/ state[row[r].ticket] = "closed" /\ state'[row[r].ticket] = "open"
<1>1. ASSUME IInv, SInv, [Next]_vars PROVE Kept
  <2> SUFFICES ASSUME ~overlapped', NEW r \in Rows, row[r].status = "DONE",
                      row'[r].status \notin {"DONE", "REMOVED", "gone"}
               PROVE  state[row[r].ticket] = "closed" /\ state'[row[r].ticket] = "open"
    OBVIOUS
  <2> USE <1>1 DEF IInv, TypeOK
  <2>1. ASSUME NEW t \in Tickets, NEW recipients \in SUBSET Recipients,
               CreateRows(t, recipients)
        PROVE  FALSE
    <3>1. r \notin FreeRows
      BY DEF FreeRows
    <3>2. row'[r] = row[r]
      BY <2>1, <3>1, NewRows
    <3> QED BY <3>2
  <2>2. row' # row
    OBVIOUS
  <2>3. ASSUME NEW t \in Tickets PROVE ~TicketStep(t)
    BY <2>1, <2>2 DEF TicketStep, CreateDraft, CreateTicket, EditDraft, GrowsStale
  <2>4. ASSUME NEW q \in Requests PROVE ~Reads(q)
    BY <2>2 DEF Reads, SubmitReads, DeleteDraftReads, CloseReads, ReopenReads, DeleteReads,
                AddReads, RemoveReads, DoneReads, RevokeTagReads, Reading
  <2>5. ASSUME NEW q \in Requests, SubmitWrites(q) PROVE FALSE
    <3> DEFINE t == request[q].ticket
               given == IF request[q].kind = "submit" THEN chosen[t] ELSE request[q].people
    <3>1. t \in Tickets
      BY <2>5 DEF SubmitWrites, SubmitTo, Writing, Knows, TicketKinds
    <3>2. given \in SUBSET Recipients
      BY <3>1
    <3>3. CreateRows(t, given)
      BY <2>2, <2>5 DEF SubmitWrites, SubmitTo
    <3> QED BY <2>1, <3>1, <3>2, <3>3
  <2>6. ASSUME NEW q \in Requests, AddWrites(q) PROVE FALSE
    <3> DEFINE t == request[q].ticket
               who == request[q].who
               s == request[q].row
    <3>1. /\ t \in Tickets /\ who \in Recipients /\ Writing(q, "add") /\ Fresh(q)
          /\ overlapped' = overlapped
      BY <2>6 DEF AddWrites, Writing, Knows, TicketKinds, SInv, Undisturbed
    <3>2. CASE CreateRows(t, {who})
      BY <2>1, <3>1, <3>2
    <3>3. CASE s # None /\ row' = [row EXCEPT ![s].status = "SENT"]
      <4>1. s = r
        BY <3>3
      <4>2. row[r] = Filled(t, who, "REMOVED")
        BY <3>1, <3>3, <4>1 DEF Fresh
      <4> QED BY <4>2 DEF Filled
    <3> QED BY <2>2, <2>6, <3>2, <3>3 DEF AddWrites
  <2>7. ASSUME NEW q \in Requests, ReopenWrites(q)
        PROVE  state[row[r].ticket] = "closed" /\ state'[row[r].ticket] = "open"
    <3> DEFINE t == request[q].ticket
    <3>1. t \in Tickets /\ state[t] = "closed" /\ state' = [state EXCEPT ![t] = "open"]
      BY <2>2, <2>7 DEF ReopenWrites, Writing, Knows, TicketKinds, SInv, Undisturbed, Fresh
    <3>2. r \in ActiveOf(t)
      BY <2>2, <2>7 DEF ReopenWrites
    <3> QED BY <3>1, <3>2 DEF ActiveOf, RowsOf
  <2>8. ASSUME NEW q \in Requests,
               RemoveWrites(q) \/ DoneWrites(q) \/ DeleteDraftWrites(q) \/ DeleteWrites(q)
        PROVE  FALSE
    <3>1. CASE RemoveWrites(q)
      BY <3>1 DEF RemoveWrites
    <3>2. CASE DoneWrites(q)
      BY <3>2 DEF DoneWrites
    <3>3. CASE DeleteDraftWrites(q) \/ DeleteWrites(q)
      <4>1. row'[r] = row[r] \/ row'[r].status = "gone"
        BY <3>3 DEF DeleteDraftWrites, DeleteWrites, Erase, FreeRow
      <4> QED BY <4>1
    <3> QED BY <2>8, <3>1, <3>2, <3>3
  <2>9. ASSUME NEW q \in Requests,
               \/ CloseWrites(q) \/ RevokeTagWrites(q) \/ RevokeAccess(q) \/ Abandon(q)
               \/ \E p \in Pros : CountAccess(q, p)
        PROVE  FALSE
    BY <2>2, <2>9 DEF CloseWrites, RevokeTagWrites, RevokeAccess, Abandon, CountAccess, Reading
  <2>10. ASSUME NEW s \in Rows, Resend(s) \/ MarkViewed(s) \/ Notify(s) PROVE FALSE
    BY <2>2, <2>10 DEF Resend, MarkViewed, Notify
  <2>11. ASSUME NEW p \in Pros, GrantTag(p) \/ IssueLink(p) PROVE FALSE
    BY <2>2, <2>11 DEF GrantTag, IssueLink
  <2>12. ASSUME NEW keep \in Pros, NEW drop \in Pros, MergeProfessionals(keep, drop)
         PROVE  FALSE
    <3>1. row[r] \in RowType
      BY RowTyped
    <3>2. row'[r].status \in {row[r].status, "gone"}
      BY <2>12, <3>1 DEF MergeProfessionals, FreeRow, RowType
    <3> QED BY <3>2
  <2>13. ~Escalate /\ ~UNCHANGED vars
    BY <2>2 DEF Escalate, vars
  <2> QED BY <2>3, <2>4, <2>5, <2>6, <2>7, <2>8, <2>9, <2>10, <2>11, <2>12, <2>13 DEF Next, Writes
<1>2. IInv /\ SInv /\ [Next]_vars => [Kept]_vars
  BY <1>1
<1> QED BY FreshAlways, <1>2, PTL DEF Spec, DoneIsKept

\* Nobody chosen for a draft until the moment it is sent is left out, for any
\* requests that overlap in any way: submitDraft reads the draft again under the
\* lock.
THEOREM ChosenAreSentAlways == Spec => ChosenAreSent
<1> DEFINE Sent ==
      \A t \in Tickets, q \in Requests :
        (/\ state[t] = "draft" /\ state'[t] = "open"
         /\ Writing(q, "submit") /\ request[q].ticket = t /\ request'[q] = Idle)
          => \A w \in chosen[t] : \E r \in Rows : row'[r] = [ticket |-> t, who |-> w,
                                                              status |-> "SENT"]
<1>1. ASSUME IInv, [Next]_vars PROVE Sent
  <2> SUFFICES ASSUME NEW t \in Tickets, NEW q \in Requests,
                      state[t] = "draft", state'[t] = "open",
                      Writing(q, "submit"), request[q].ticket = t, request'[q] = Idle,
                      NEW w \in chosen[t]
               PROVE  \E r \in Rows : row'[r] = Filled(t, w, "SENT")
    BY DEF Filled
  <2> USE <1>1 DEF IInv, TypeOK
  <2>1. request[q] # Idle
    BY DEF Writing, Idle
  <2>2. state' # state /\ request' # request
    BY <2>1
  <2>3. ASSUME NEW p \in Requests, SubmitWrites(p)
        PROVE  \E r \in Rows : row'[r] = Filled(t, w, "SENT")
    <3>1. p = q
      BY <2>1, <2>3 DEF SubmitWrites, SubmitTo, End
    <3>2. CreateRows(t, chosen[t])
      BY <2>2, <2>3, <3>1 DEF SubmitWrites, SubmitTo, Writing
    <3>3. \E R \in SUBSET FreeRows :
            \A v \in chosen[t] : \E r \in R : row'[r] = Filled(t, v, "SENT")
      BY <3>2, NewRows
    <3> QED BY <3>3 DEF FreeRows
  <2>4. ASSUME NEW u \in Tickets PROVE ~TicketStep(u)
    BY <2>2 DEF TicketStep, CreateDraft, CreateTicket, EditDraft, GrowsStale
  <2>5. ASSUME NEW p \in Requests PROVE ~Reads(p)
    BY <2>2 DEF Reads, SubmitReads, DeleteDraftReads, CloseReads, ReopenReads, DeleteReads,
                AddReads, RemoveReads, DoneReads, RevokeTagReads, Reading
  <2>6. ASSUME NEW p \in Requests, CloseWrites(p) \/ ReopenWrites(p) PROVE FALSE
    BY <2>6 DEF CloseWrites, ReopenWrites, Dispatched
  <2>7. ASSUME NEW p \in Requests, DeleteDraftWrites(p) \/ DeleteWrites(p) PROVE FALSE
    BY <2>7 DEF DeleteDraftWrites, DeleteWrites, Erase
  <2>8. ASSUME NEW p \in Requests,
               \/ AddWrites(p) \/ RemoveWrites(p) \/ DoneWrites(p) \/ RevokeTagWrites(p)
               \/ RevokeAccess(p) \/ Abandon(p) \/ \E x \in Pros : CountAccess(p, x)
        PROVE  FALSE
    BY <2>2, <2>8 DEF AddWrites, RemoveWrites, DoneWrites, RevokeTagWrites, RevokeAccess,
                      Abandon, CountAccess, Reading
  <2>9. ASSUME NEW r \in Rows, Resend(r) \/ MarkViewed(r) \/ Notify(r) PROVE FALSE
    BY <2>2, <2>9 DEF Resend, MarkViewed, Notify
  <2>10. ASSUME NEW p \in Pros, GrantTag(p) \/ IssueLink(p) PROVE FALSE
    BY <2>2, <2>10 DEF GrantTag, IssueLink
  <2>11. ~Escalate /\ ~UNCHANGED vars /\ ~\E keep, drop \in Pros : MergeProfessionals(keep, drop)
    BY <2>2 DEF Escalate, vars, MergeProfessionals
  <2> QED BY <2>3, <2>4, <2>5, <2>6, <2>7, <2>8, <2>9, <2>10, <2>11 DEF Next, Writes
<1>2. IInv /\ [Next]_vars => [Sent]_vars
  BY <1>1
<1> QED BY Invariance, <1>2, PTL DEF Spec, ChosenAreSent
=============================================================================
