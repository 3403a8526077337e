------------------------------ MODULE WaNumber ------------------------------
(***************************************************************************)
(* The connected WhatsApp number (src/lib/services/wa-number.ts): connect, *)
(* disconnect, the sync a connection owes Meta, the six-hourly check and   *)
(* the account event of Meta's webhook.  Meta's side of the connection,    *)
(* which the phone can undo at any time, is external.                      *)
(*                                                                         *)
(* Every call to Meta and every database call is an await: the processes   *)
(* below interleave between them, each with the row it read before.        *)
(***************************************************************************)
EXTENDS Naturals, FiniteSets

CONSTANTS
  Numbers,       \* business numbers; each has an account (WABA) of its own
  NoNumber,      \* stands for no number
  Admins,        \* administrators with the connection window open
  MaxConnects,   \* bound on the codes the window hands out
  MaxTrouble     \* bound on the changes on Meta's side

Tokens   == 1 .. MaxConnects        \* each code is exchanged for a new token
NoToken  == 0

ASSUME WaNumberAssumption ==
  /\ NoNumber \notin Numbers
  /\ "health" \notin Admins
  /\ MaxConnects \in Nat /\ MaxTrouble \in Nat

VARIABLES
  waNumber,   \* one record per number, "none" before the first time
  connect,    \* progress of connectWhatsappNumber, per administrator
  disconnect, \* progress of disconnectWhatsappNumber
  health,     \* progress of checkWhatsappConnection
  sync,       \* progress of syncPending, for each of its callers
  account,    \* progress of applyAccountUpdate
  subscribed, \* numbers whose messages Meta sends to our address
  onApp,      \* numbers still on the application in the phone
  valid,      \* tokens Meta still accepts
  accountEvents, \* numbers with an account event on its way to us
  issued,     \* tokens issued so far
  trouble     \* changes on Meta's side so far

meta  == <<subscribed, onApp, valid, accountEvents>>
procs == <<connect, disconnect, health, sync, account>>
numberVars == <<waNumber, procs, meta, issued, trouble>>

-----------------------------------------------------------------------------
(* Values *)

\* number_missing is told apart from not_on_app by the wording only, and
\* token_unreadable follows a change of the key, which is configuration.
Status   == {"none", "CONNECTED", "ERROR", "DISCONNECTED"}
Codes    == {"", "token_revoked", "subscription_lost", "not_on_app",
             "sync_overdue", "partner_removed"}
Syncers  == Admins \cup {"health"}

\* The row of a number.  Tokens are issued in order, so the token of a row that
\* is not disconnected also tells which connection is the later one.  The code
\* goes by connectedAt, taken just before the transaction: the same order, unless
\* two administrators connect at once and the later token is saved first.
Row == [status : Status, token : Tokens \cup {NoToken}, issue : Codes,
        contacts : BOOLEAN, history : BOOLEAN]
NoRow == [status |-> "none", token |-> NoToken, issue |-> "",
          contacts |-> FALSE, history |-> FALSE]

Idle     == [pc |-> "idle", number |-> NoNumber, token |-> NoToken, others |-> {}]
NoCheck  == [pc |-> "idle", number |-> NoNumber, token |-> NoToken,
             contacts |-> FALSE, history |-> FALSE, code |-> ""]
NoSync   == [pc |-> "idle", number |-> NoNumber, token |-> NoToken,
             contacts |-> FALSE, history |-> FALSE]

Connected == {n \in Numbers : waNumber[n].status = "CONNECTED"}
Kept      == {n \in Numbers : waNumber[n].status \in {"CONNECTED", "ERROR"}}
LatestOf(S) == {n \in S : \A k \in S : waNumber[k].token <= waNumber[n].token}

\* What Meta delivers to us of the messages of n.
Delivers(n) == n \in subscribed /\ n \in onApp

NumberInit ==
  /\ waNumber = [n \in Numbers |-> NoRow]
  /\ connect = [a \in Admins |-> Idle]
  /\ disconnect = Idle
  /\ health = NoCheck
  /\ sync = [p \in Syncers |-> NoSync]
  /\ account = [pc |-> "idle", number |-> NoNumber]
  /\ subscribed = {} /\ onApp = Numbers /\ valid = {} /\ accountEvents = {}
  /\ issued = 0 /\ trouble = 0

-----------------------------------------------------------------------------
(* connectWhatsappNumber *)

Moves(a, pc) == connect' = [connect EXCEPT ![a].pc = pc]

\* No other number is connected; the code becomes a token and the number of
\* the window is found.  A failure up to here leaves nothing.
Connect(a, n) ==
  /\ connect[a].pc = "idle" /\ sync[a].pc = "idle"
  /\ Connected = {} /\ n \in onApp
  /\ issued < MaxConnects
  /\ issued' = issued + 1
  /\ valid' = valid \cup {issued'}
  /\ connect' = [connect EXCEPT ![a] = [pc |-> "found", number |-> n,
                                        token |-> issued', others |-> {}]]
  /\ UNCHANGED <<waNumber, disconnect, health, sync, account, subscribed, onApp, accountEvents, trouble>>

\* The subscription comes before the row; Meta may refuse it, or not answer.
Subscribe(a) ==
  /\ connect[a].pc = "found"
  /\ \/ /\ connect[a].token \in valid
        /\ subscribed' = subscribed \cup {connect[a].number}
        /\ Moves(a, "subscribed")
     \/ /\ connect' = [connect EXCEPT ![a] = Idle]
        /\ UNCHANGED subscribed
  /\ UNCHANGED <<waNumber, disconnect, health, sync, account, onApp, valid, accountEvents,
                 issued, trouble>>

\* First statement of the transaction: the rows it sees of other numbers.
Sweep(a) ==
  /\ connect[a].pc = "subscribed"
  /\ connect' = [connect EXCEPT ![a].pc = "swept",
                                ![a].others = Kept \ {connect[a].number}]
  /\ UNCHANGED <<waNumber, disconnect, health, sync, account, meta, issued, trouble>>

\* Its commit: those are disconnected without their token, this one is new;
\* the sync of the connection follows.
Save(a) ==
  LET n == connect[a].number
      g == connect[a].token IN
  /\ connect[a].pc = "swept"
  /\ waNumber' = [k \in Numbers |->
               IF k = n
               THEN [status |-> "CONNECTED", token |-> g, issue |-> "",
                     contacts |-> FALSE, history |-> FALSE]
               ELSE IF k \in connect[a].others
               THEN [waNumber[k] EXCEPT !.status = "DISCONNECTED", !.token = NoToken]
               ELSE waNumber[k]]
  /\ connect' = [connect EXCEPT ![a] = Idle]
  /\ sync' = [sync EXCEPT ![a] = [pc |-> "contacts", number |-> n, token |-> g,
                                  contacts |-> FALSE, history |-> FALSE]]
  /\ UNCHANGED <<disconnect, health, account, meta, issued, trouble>>

\* The request dies, by an error of ours or with the process.
AbortConnect(a) ==
  /\ connect[a].pc # "idle"
  /\ connect' = [connect EXCEPT ![a] = Idle]
  /\ UNCHANGED <<waNumber, disconnect, health, sync, account, meta, issued, trouble>>

-----------------------------------------------------------------------------
(* syncPending: the contacts, and after them the history *)

\* The step p is at, skipped when the row it was given has it done.
RequestSync(p) ==
  /\ \/ /\ sync[p].pc = "contacts"
        /\ \/ /\ sync[p].contacts
              /\ sync' = [sync EXCEPT ![p].pc = "history"]
           \/ /\ ~sync[p].contacts       \* accepted, or refused for good
              /\ sync[p].token \in valid
              /\ sync' = [sync EXCEPT ![p].pc = "contactsDone"]
           \/ /\ ~sync[p].contacts       \* no answer, or no permission: deferred
              /\ sync' = [sync EXCEPT ![p] = NoSync]
     \/ /\ sync[p].pc = "history"
        /\ \/ /\ ~sync[p].history
              /\ sync[p].token \in valid
              /\ sync' = [sync EXCEPT ![p].pc = "historyDone"]
           \/ sync' = [sync EXCEPT ![p] = NoSync]
  /\ UNCHANGED <<waNumber, connect, disconnect, health, account, meta, issued, trouble>>

\* The stamp, on the row of that identifier whatever became of it.
StampSync(p) ==
  LET n == sync[p].number IN
  /\ \/ /\ sync[p].pc = "contactsDone"
        /\ waNumber' = [waNumber EXCEPT ![n].contacts = TRUE]
        /\ sync' = [sync EXCEPT ![p].pc = "history"]
     \/ /\ sync[p].pc = "historyDone"
        /\ waNumber' = [waNumber EXCEPT ![n].history = TRUE]
        /\ sync' = [sync EXCEPT ![p] = NoSync]
  /\ UNCHANGED <<connect, disconnect, health, account, meta, issued, trouble>>

-----------------------------------------------------------------------------
(* disconnectWhatsappNumber *)

Disconnect ==
  /\ disconnect.pc = "idle"
  /\ \E n \in LatestOf(Kept) :
       disconnect' = [pc |-> "read", number |-> n, token |-> waNumber[n].token, others |-> {}]
  /\ UNCHANGED <<waNumber, connect, health, sync, account, meta, issued, trouble>>

\* With Meta out of reach nothing changes.  Refused for good - the token is no
\* longer valid, or Meta rejects the call - or without anything to ask with, the
\* subscription stays as it is and the row is let go.
Unsubscribe ==
  LET n == disconnect.number IN
  /\ disconnect.pc = "read"
  /\ \/ /\ disconnect.token \in valid
        /\ subscribed' = subscribed \ {n}
        /\ disconnect' = [disconnect EXCEPT !.pc = "unsubscribed"]
     \/ /\ disconnect' = [disconnect EXCEPT !.pc = "unsubscribed"]
        /\ UNCHANGED subscribed
     \/ /\ disconnect' = Idle
        /\ UNCHANGED subscribed
  /\ UNCHANGED <<waNumber, connect, health, sync, account, onApp, valid, accountEvents, issued, trouble>>

SaveDisconnected ==
  /\ disconnect.pc = "unsubscribed"
  /\ waNumber' = [waNumber EXCEPT ![disconnect.number].status = "DISCONNECTED",
                        ![disconnect.number].token = NoToken,
                        ![disconnect.number].issue = ""]
  /\ disconnect' = Idle
  /\ UNCHANGED <<connect, health, sync, account, meta, issued, trouble>>

-----------------------------------------------------------------------------
(* checkWhatsappConnection *)

StartCheck ==
  /\ health.pc = "idle" /\ sync["health"].pc = "idle"
  /\ \E n \in LatestOf(Connected) :
       health' = [pc |-> "read", number |-> n, token |-> waNumber[n].token,
                  contacts |-> waNumber[n].contacts, history |-> waNumber[n].history, code |-> ""]
  /\ UNCHANGED <<waNumber, connect, disconnect, sync, account, meta, issued, trouble>>

\* An answer that is a defect, to be reported with its code.
Finds(code) == health' = [health EXCEPT !.pc = "report", !.code = code]

\* Fault: a subscription that leads elsewhere is taken for ours.
AskSubscriptionAny ==
  /\ health.pc = "read"
  /\ \/ /\ health.token \notin valid
        /\ Finds("token_revoked")
     \/ /\ health.token \in valid
        /\ health' = [health EXCEPT !.pc = "phone"]
  /\ UNCHANGED <<waNumber, connect, disconnect, sync, account, meta, issued, trouble>>

\* Is the application still subscribed, and to our address?
AskSubscription ==
  /\ health.pc = "read"
  /\ \/ /\ health.token \notin valid
        /\ Finds("token_revoked")
     \/ /\ health.token \in valid
        /\ IF health.number \notin subscribed THEN Finds("subscription_lost")
           ELSE health' = [health EXCEPT !.pc = "phone"]
  /\ UNCHANGED <<waNumber, connect, disconnect, sync, account, meta, issued, trouble>>

\* Is the number still on the phone, and has the sync time left?
AskNumber ==
  LET open == ~health.contacts \/ ~health.history IN
  /\ health.pc = "phone"
  /\ \/ /\ health.token \notin valid
        /\ Finds("token_revoked")
        /\ UNCHANGED sync
     \/ /\ health.token \in valid /\ health.number \notin onApp
        /\ Finds("not_on_app")
        /\ UNCHANGED sync
     \/ /\ health.token \in valid /\ health.number \in onApp
        /\ \/ /\ open                    \* SYNC_WINDOW_MS have passed
              /\ Finds("sync_overdue")
              /\ UNCHANGED sync
           \/ /\ open
              /\ sync' = [sync EXCEPT !["health"] =
                   [pc |-> "contacts", number |-> health.number, token |-> health.token,
                    contacts |-> health.contacts, history |-> health.history]]
              /\ health' = NoCheck
           \/ /\ ~open
              /\ health' = NoCheck
              /\ UNCHANGED sync
  /\ UNCHANGED <<waNumber, connect, disconnect, account, meta, issued, trouble>>

\* Meta did not answer: nothing is concluded; the next check asks again.
Unreachable ==
  /\ health.pc \in {"read", "phone"}
  /\ health' = NoCheck
  /\ UNCHANGED <<waNumber, connect, disconnect, sync, account, meta, issued, trouble>>

\* Fault: any row takes the issue.
IssuedAlways(n, code) ==
  [waNumber EXCEPT ![n] = IF @.status # "none" THEN [@ EXCEPT !.status = "ERROR", !.issue = code] ELSE @]

\* reportWaIssue: only a connected row becomes an error.
Issued(n, code) ==
  [waNumber EXCEPT ![n] = IF @.status = "CONNECTED" THEN [@ EXCEPT !.status = "ERROR", !.issue = code] ELSE @]

Report ==
  LET n == health.number IN
  /\ health.pc = "report"
  /\ waNumber' = Issued(n, health.code)
  /\ health' = NoCheck
  /\ UNCHANGED <<connect, disconnect, sync, account, meta, issued, trouble>>

-----------------------------------------------------------------------------
(* applyAccountUpdate *)

ReadAccount ==
  /\ account.pc = "idle"
  /\ \E n \in accountEvents :
       /\ accountEvents' = accountEvents \ {n}
       /\ account' = IF n \in Kept THEN [pc |-> "report", number |-> n] ELSE account
  /\ UNCHANGED <<waNumber, connect, disconnect, health, sync, subscribed, onApp, valid,
                 issued, trouble>>

\* reportWaIssue with replaceIssue: Meta's own reason replaces a deduced one.
ReportAccount ==
  LET n == account.number IN
  /\ \/ /\ account.pc = "report"
        /\ waNumber' = Issued(n, "partner_removed")
        /\ account' = IF waNumber[n].status = "CONNECTED" THEN [pc |-> "idle", number |-> NoNumber]
                      ELSE [account EXCEPT !.pc = "replace"]
     \/ /\ account.pc = "replace"
        /\ waNumber' = [waNumber EXCEPT ![n].issue = IF waNumber[n].status = "ERROR" THEN "partner_removed" ELSE @]
        /\ account' = [pc |-> "idle", number |-> NoNumber]
  /\ UNCHANGED <<connect, disconnect, health, sync, meta, issued, trouble>>

-----------------------------------------------------------------------------
(* Meta and the phone *)

Troubles(n) ==
  /\ trouble < MaxTrouble /\ trouble' = trouble + 1
  /\ UNCHANGED <<waNumber, procs, issued>>

\* The owner removes us in the phone: no subscription, no permission; an
\* account event may be sent, and may come late.
RemovedOnPhone(n) ==
  /\ Troubles(n)
  /\ subscribed' = subscribed \ {n}
  /\ valid' = valid \ {waNumber[n].token}
  /\ accountEvents' \in {accountEvents, accountEvents \cup {n}}
  /\ UNCHANGED onApp

\* The subscription is led elsewhere, or the number leaves the phone, or returns.
Redirected(n) ==
  /\ Troubles(n)
  /\ n \in subscribed
  /\ subscribed' = subscribed \ {n}
  /\ UNCHANGED <<onApp, valid, accountEvents>>

LeavesPhone(n) ==
  /\ Troubles(n)
  /\ onApp' = IF n \in onApp THEN onApp \ {n} ELSE onApp \cup {n}
  /\ UNCHANGED <<subscribed, valid, accountEvents>>

-----------------------------------------------------------------------------

Check == StartCheck \/ AskSubscription \/ AskNumber \/ Report

NumberNext ==
  \/ \E a \in Admins : \/ \E n \in Numbers : Connect(a, n)
                       \/ Subscribe(a) \/ Sweep(a) \/ Save(a) \/ AbortConnect(a)
  \/ \E p \in Syncers : RequestSync(p) \/ StampSync(p)
  \/ Disconnect \/ Unsubscribe \/ SaveDisconnected
  \/ Check \/ Unreachable
  \/ ReadAccount \/ ReportAccount
  \/ \E n \in Numbers : RemovedOnPhone(n) \/ Redirected(n) \/ LeavesPhone(n)

\* The check is a job that schedules its successor, its sync ends with it, and
\* Meta answers often enough: no more is asked of anybody.
Fairness ==
  /\ WF_numberVars(StartCheck) /\ WF_numberVars(Report)
  /\ SF_numberVars(AskSubscription) /\ SF_numberVars(AskNumber)
  /\ WF_numberVars(RequestSync("health")) /\ WF_numberVars(StampSync("health"))

NumberSpec == NumberInit /\ [][NumberNext]_numberVars /\ Fairness

-----------------------------------------------------------------------------
(* Properties *)

\* The type of the state.
NumberTypeOK ==
  /\ waNumber \in [Numbers -> Row]
  /\ \A a \in Admins :
       connect[a] \in [pc : {"idle", "found", "subscribed", "swept"},
                       number : Numbers \cup {NoNumber}, token : Tokens \cup {NoToken},
                       others : SUBSET Numbers]
  /\ disconnect.pc \in {"idle", "read", "unsubscribed"}
  /\ health.pc \in {"idle", "read", "phone", "report"} /\ health.code \in Codes
  /\ \A p \in Syncers :
       sync[p].pc \in {"idle", "contacts", "contactsDone", "history", "historyDone"}
  /\ account.pc \in {"idle", "report", "replace"}
  /\ subscribed \subseteq Numbers /\ onApp \subseteq Numbers /\ accountEvents \subseteq Numbers
  /\ valid \subseteq Tokens
  /\ issued \in 0 .. MaxConnects /\ trouble \in 0 .. MaxTrouble

\* News that comes late - of a check, a sync or an account event that read the
\* row before - undoes no decision: a number the administrator disconnected
\* comes back only by connecting it, and the reason Meta gave stays until the
\* number is connected again or disconnected (wa-number.ts:375-392).
LateNewsUndoesNothing ==
  [][\A n \in Numbers :
       /\ waNumber[n].status = "DISCONNECTED" => waNumber'[n].status # "ERROR"
       /\ waNumber[n].issue = "partner_removed" /\ waNumber[n].status = "ERROR"
            => \/ waNumber'[n].issue = "partner_removed"
               \/ waNumber'[n].status # "ERROR"]_numberVars

\* The silence the screen exists to prevent (wa-number.ts:97-99, 305-310): a number
\* shown as connected whose messages do not reach us does not stay so.
SilenceIsFound ==
  \A n \in Numbers :
    (waNumber[n].status = "CONNECTED" /\ ~Delivers(n))
      ~> (waNumber[n].status # "CONNECTED" \/ Delivers(n))

\* "One number only. The rule is enforced here" (wa-number.ts:27-29). Proved of
\* one administrator; two who connect at once can leave two. Not run.
OneConnected == Cardinality(Connected) <= 1

\* "Otherwise the number would look disconnected here and go on sending to us
\* there" (wa-number.ts:259-261): nobody acts on a number any more, and Meta
\* sends us nothing of it once it is shown as disconnected. It does not hold:
\* connecting a number lets go of those before it without telling Meta, and so
\* does a disconnection that Meta refuses. Not run.
AtRest(n) == /\ \A a \in Admins : connect[a].number # n
             /\ disconnect.number # n
DisconnectedIsQuiet ==
  \A n \in Numbers :
    waNumber[n].status = "DISCONNECTED" /\ AtRest(n) => n \notin subscribed
=============================================================================
