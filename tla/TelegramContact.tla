--------------------------- MODULE TelegramContact ---------------------------
(***************************************************************************)
(* The relay between Discord users and the owner's Telegram chat           *)
(* (telegram_bridge.py) and its table telegram_contact_requests            *)
(* (storage.py).  A worker forwards one Discord message; the single        *)
(* poller takes the owner's replies in order and delivers them.            *)
(*                                                                         *)
(* A row is known by its Discord message, which is unique in the table.    *)
(* Requests to Telegram and Discord are sent, take effect there, and are   *)
(* answered later, with an error, or never.                                *)
(***************************************************************************)
EXTENDS Integers, Sequences, FiniteSets

CONSTANTS
  Msgs,       \* Discord messages a user asks to forward
  Users,
  Author,     \* [Msgs -> Users]
  Texts,
  Text,       \* [Msgs -> Texts]: payload_hash
  Workers,    \* concurrent forward_contact calls
  Interval,   \* TELEGRAM_CONTACT_MIN_INTERVAL_SECONDS
  Ttl,        \* _TELEGRAM_RESERVATION_TTL_SECONDS
  Hour, Day,  \* the two windows
  HourLimit,  \* TELEGRAM_CONTACT_GLOBAL_HOURLY_LIMIT
  DayLimit,   \* TELEGRAM_CONTACT_DAILY_LIMIT
  MaxPending, \* TELEGRAM_CONTACT_MAX_PENDING_PER_USER
  MaxNow,     \* bound: readings of the wall clock
  MaxReplies  \* bound: messages of the owner

ASSUME ContactAssumption ==
  /\ Author \in [Msgs -> Users]
  /\ Text \in [Msgs -> Texts]
  /\ IsFiniteSet(Msgs)
  /\ {Interval, Ttl, Hour, Day, HourLimit, DayLimit, MaxPending, MaxNow} \subseteq Nat \ {0}
  /\ MaxReplies \in Nat

Statuses == {"none", "reserved", "sent", "failed", "responding", "delivered", "delivery_failed"}
Times == 0 .. MaxNow
NoMsg == "no message"

VARIABLES
  rows,     \* [Msgs -> status, created_at, whether telegram_message_id is set]
  now,      \* int(time.time())
  wpc,      \* where a worker is
  wmsg,     \* the message it forwards
  ppc,      \* where the poller is
  replied,  \* the result of the delivery the poller is in
  updates,  \* the requests the owner has replied to, in Telegram's order
  offset,   \* how many of them the poller has handled
  saved,    \* the offset in integration_state
  posted,   \* history: how often a request has reached the owner's chat
  answers,  \* history: how often an answer has reached the user
  stopped   \* history: the process has been stopped or has died

vars == <<rows, now, wpc, wmsg, ppc, replied, updates, offset, saved, posted, answers, stopped>>
pollVars == <<ppc, replied, offset, saved>>
workVars == <<wpc, wmsg>>
history == <<posted, answers, stopped>>

\* Every variable holds a value of its kind (storage.py:335-353).
TypeOK ==
  /\ rows \in [Msgs -> [st : Statuses, at : Times, linked : BOOLEAN]]
  /\ now \in 1 .. MaxNow
  /\ wpc \in [Workers -> {"idle", "classify", "flight", "landed", "mark", "fail"}]
  /\ wmsg \in [Workers -> Msgs \cup {NoMsg}]
  /\ \A w \in Workers : wpc[w] # "idle" => wmsg[w] \in Msgs
  /\ ppc \in {"idle", "claim", "deliver", "landed", "complete", "tell", "unknown", "save"}
  /\ replied \in {"", "ok", "error"}
  /\ updates \in Seq(Msgs)
  /\ Len(updates) <= MaxReplies
  /\ offset \in 0 .. Len(updates)
  /\ saved \in 0 .. offset
  /\ ppc # "idle" => offset < Len(updates)
  /\ posted \in [Msgs -> Nat]
  /\ answers \in [Msgs -> Nat]
  /\ stopped \in BOOLEAN

Init ==
  /\ rows = [m \in Msgs |-> [st |-> "none", at |-> 0, linked |-> FALSE]]
  /\ now = 1
  /\ wpc = [w \in Workers |-> "idle"]
  /\ wmsg = [w \in Workers |-> NoMsg]
  /\ ppc = "idle"
  /\ replied = ""
  /\ updates = <<>>
  /\ offset = 0
  /\ saved = 0
  /\ posted = [m \in Msgs |-> 0]
  /\ answers = [m \in Msgs |-> 0]
  /\ stopped = FALSE

-----------------------------------------------------------------------------
\* reserve_telegram_contact_request.

\* Rows that count against the limits.
Counted(table) == {m \in Msgs : table[m].st \notin {"none", "failed"}}
Of(u, S) == {m \in S : Author[m] = u}
Pending(table) == {m \in Msgs : table[m].st \in {"reserved", "sent"}}

\* Mutant: a reservation that has run out is offered again.
ExpiredAgain(table) ==
  [m \in Msgs |-> IF table[m].st = "reserved" /\ table[m].at < now - Ttl
                  THEN [table[m] EXCEPT !.st = "none"] ELSE table[m]]

\* Reservations a worker has not resolved within their time are given up: the
\* message may have been delivered, so it is not sent again.
Expired(table) ==
  [m \in Msgs |-> IF table[m].st = "reserved" /\ table[m].at < now - Ttl
                  THEN [table[m] EXCEPT !.st = "failed"] ELSE table[m]]

\* The cooldown compares with the latest request of the user.
Spaced(table, m) ==
  \A other \in Of(Author[m], Counted(table)) : now - table[other].at >= Interval

\* Mutant: requests dated after the present are not counted.
BelowWindowsUpToNow(table, m) ==
  /\ Cardinality({k \in Of(Author[m], Counted(table)) : table[k].at \in now - Day .. now}) < DayLimit
  /\ Cardinality({k \in Counted(table) : table[k].at \in now - Hour .. now}) < HourLimit

BelowWindows(table, m) ==
  /\ Cardinality({k \in Of(Author[m], Counted(table)) : table[k].at >= now - Day}) < DayLimit
  /\ Cardinality({k \in Counted(table) : table[k].at >= now - Hour}) < HourLimit

BelowPending(table, m) == Cardinality(Of(Author[m], Pending(table))) < MaxPending

NewText(table, m) ==
  ~ \E other \in Of(Author[m], Counted(table)) :
      Text[other] = Text[m] /\ table[other].at >= now - Day

Admissible(table, m) ==
  /\ table[m].st = "none"
  /\ Spaced(table, m)
  /\ BelowWindows(table, m)
  /\ BelowPending(table, m)
  /\ NewText(table, m)

\* The call commits the expiry first, then the new row; the write lock covers both.
Reserve(w, m) ==
  /\ wpc[w] = "idle"
  /\ Admissible(Expired(rows), m)
  /\ rows' = [Expired(rows) EXCEPT ![m] = [st |-> "reserved", at |-> now, linked |-> FALSE]]
  /\ wpc' = [wpc EXCEPT ![w] = "classify"]
  /\ wmsg' = [wmsg EXCEPT ![w] = m]
  /\ UNCHANGED <<now, pollVars, updates, history>>

\* The request is refused, or the call is cancelled between the two commits.
Refuse ==
  /\ Expired(rows) # rows
  /\ rows' = Expired(rows)
  /\ UNCHANGED <<now, workVars, pollVars, updates, history>>

-----------------------------------------------------------------------------
\* forward_contact, after the reservation.

WorkerAt(w, from, to) ==
  /\ wpc[w] = from
  /\ wpc' = [wpc EXCEPT ![w] = to]

WorkerDone(w) ==
  /\ wpc' = [wpc EXCEPT ![w] = "idle"]
  /\ wmsg' = [wmsg EXCEPT ![w] = NoMsg]

\* The urgency has been asked for and stored; sendMessage is issued.
Send(w) ==
  /\ WorkerAt(w, "classify", "flight")
  /\ UNCHANGED <<rows, now, wmsg, pollVars, updates, history>>

\* External: Telegram accepts the message.
Post(w) ==
  /\ WorkerAt(w, "flight", "landed")
  /\ posted' = [posted EXCEPT ![wmsg[w]] = @ + 1]
  /\ UNCHANGED <<rows, now, wmsg, pollVars, updates, answers, stopped>>

Accepted(w) ==
  /\ WorkerAt(w, "landed", "mark")
  /\ UNCHANGED <<rows, now, wmsg, pollVars, updates, history>>

\* An error, a broken connection or an answer that cannot be read, whatever
\* Telegram did; or storing its answer fails.
SendFails(w) ==
  /\ \E from \in {"flight", "landed", "mark"} : WorkerAt(w, from, "fail")
  /\ UNCHANGED <<rows, now, wmsg, pollVars, updates, history>>

\* mark_telegram_contact_sent: only a row that is still reserved.
MarkSent(w) ==
  /\ wpc[w] = "mark"
  /\ rows' = IF rows[wmsg[w]].st = "reserved"
             THEN [rows EXCEPT ![wmsg[w]].st = "sent", ![wmsg[w]].linked = TRUE] ELSE rows
  /\ WorkerDone(w)
  /\ UNCHANGED <<now, pollVars, updates, history>>

MarkFailed(w) ==
  /\ wpc[w] = "fail"
  /\ rows' = IF rows[wmsg[w]].st = "reserved"
             THEN [rows EXCEPT ![wmsg[w]].st = "failed"] ELSE rows
  /\ WorkerDone(w)
  /\ UNCHANGED <<now, pollVars, updates, history>>

\* The turn's deadline cancels the call: CancelledError is not an Exception, so
\* nothing is recorded.
CancelForward(w) ==
  /\ wpc[w] # "idle"
  /\ WorkerDone(w)
  /\ UNCHANGED <<rows, now, pollVars, updates, history>>

-----------------------------------------------------------------------------
\* The owner, and _poll_updates.

\* External: the owner answers a request in the chat, or does so again.
OwnerReplies(m) ==
  /\ posted[m] > 0
  /\ Len(updates) < MaxReplies
  /\ updates' = Append(updates, m)
  /\ UNCHANGED <<rows, now, workVars, pollVars, history>>

Handled == updates[offset + 1]

PollerAt(from, to) ==
  /\ ppc = from
  /\ ppc' = to

\* getUpdates returns the first unconfirmed update; get_telegram_contact_by_message
\* reads the row without the lock.
Lookup ==
  /\ offset < Len(updates)
  /\ PollerAt("idle", IF rows[Handled].linked THEN "claim" ELSE "unknown")
  /\ UNCHANGED <<rows, now, workVars, replied, updates, offset, saved, history>>

\* Mutant: an answer that is under way can be claimed again.
ClaimableMidway(st) == st \in {"sent", "responding"}

Claimable(st) == st = "sent"

\* claim_telegram_contact_response: UPDATE ... WHERE status = 'sent'.
Claim ==
  /\ ppc = "claim"
  /\ IF Claimable(rows[Handled].st)
     THEN PollerAt("claim", "deliver") /\ rows' = [rows EXCEPT ![Handled].st = "responding"]
     ELSE PollerAt("claim", "tell") /\ UNCHANGED rows
  /\ UNCHANGED <<now, workVars, replied, updates, offset, saved, history>>

\* External: Discord shows the answer.
Show ==
  /\ PollerAt("deliver", "landed")
  /\ answers' = [answers EXCEPT ![Handled] = @ + 1]
  /\ UNCHANGED <<rows, now, workVars, replied, updates, offset, saved, posted, stopped>>

Delivered ==
  /\ PollerAt("landed", "complete")
  /\ replied' = "ok"
  /\ UNCHANGED <<rows, now, workVars, updates, offset, saved, history>>

\* No channel, no recipient, closed DMs; or an answer of Discord that is lost.
DeliveryFails ==
  /\ PollerAt("deliver", "complete") \/ PollerAt("landed", "complete")
  /\ replied' = "error"
  /\ UNCHANGED <<rows, now, workVars, updates, offset, saved, history>>

\* complete_telegram_contact_response: only a row that is being answered.
Complete ==
  /\ PollerAt("complete", "tell")
  /\ rows' = IF rows[Handled].st = "responding"
             THEN [rows EXCEPT ![Handled].st =
                     IF replied = "ok" THEN "delivered" ELSE "delivery_failed"]
             ELSE rows
  /\ replied' = ""
  /\ UNCHANGED <<now, workVars, updates, offset, saved, history>>

\* The owner is told what became of the reply.
Tell ==
  /\ PollerAt("tell", "save") \/ PollerAt("unknown", "save")
  /\ UNCHANGED <<rows, now, workVars, replied, updates, offset, saved, history>>

\* Mutant: the poller's task ends when it cannot tell the owner.
TellFailsForGood ==
  /\ PollerAt("tell", "ended") \/ PollerAt("unknown", "ended")
  /\ UNCHANGED <<rows, now, workVars, replied, updates, offset, saved, history>>

\* The update raised: the poller sleeps and asks for the same update again.
TellFails ==
  /\ PollerAt("tell", "idle") \/ PollerAt("unknown", "idle")
  /\ UNCHANGED <<rows, now, workVars, replied, updates, offset, saved, history>>

\* The offset moves on in memory, then in integration_state.
Save ==
  /\ PollerAt("save", "idle")
  /\ offset' = offset + 1
  /\ saved' = offset + 1
  /\ UNCHANGED <<rows, now, workVars, replied, updates, history>>

\* The process is stopped or dies, and starts again: close() cancels the poller
\* wherever it is, and the new one reads the offset.
Restart ==
  /\ stopped' = TRUE
  /\ wpc' = [w \in Workers |-> "idle"]
  /\ wmsg' = [w \in Workers |-> NoMsg]
  /\ ppc' = "idle"
  /\ replied' = ""
  /\ offset' = saved
  /\ UNCHANGED <<rows, now, updates, saved, posted, answers>>

\* time.time() may also step back.
Clock ==
  /\ \E n \in 1 .. MaxNow : now' = n
  /\ UNCHANGED <<rows, workVars, pollVars, updates, history>>

Forward(w) ==
  \/ \E m \in Msgs : Reserve(w, m)
  \/ Send(w) \/ Post(w) \/ Accepted(w) \/ SendFails(w) \/ MarkSent(w) \/ MarkFailed(w)
  \/ CancelForward(w)

Poll ==
  \/ Lookup \/ Claim \/ Show \/ Delivered \/ DeliveryFails \/ Complete \/ Tell \/ TellFails
  \/ Save

Next ==
  \/ \E w \in Workers : Forward(w)
  \/ Refuse
  \/ \E m \in Msgs : OwnerReplies(m)
  \/ Poll \/ Restart \/ Clock

Spec == Init /\ [][Next]_vars

\* The poller's task runs on, a message to the owner does not fail for ever, and
\* the process is not stopped again and again.
FairSpec ==
  /\ Spec
  /\ WF_vars(Poll)
  /\ SF_vars(Tell)
  /\ <>[][~Restart]_vars

-----------------------------------------------------------------------------
\* A Discord message reaches the owner's chat at most once, although a worker
\* that was interrupted, or whose answer was lost, does not know (storage.py:1453-1455).
PostedOnce == \A m \in Msgs : posted[m] <= 1

\* A request is answered at most once, however often the update is handled and
\* however often the owner replies (storage.py:1668).
AnsweredOnce == \A m \in Msgs : answers[m] <= 1

\* What a row says is so: a row that was sent is in the chat, an answer that was
\* delivered was shown, and a request that nobody has claimed has no answer
\* (storage.py:1589-1594, 1671-1674, 1695-1698).
RowsTrue ==
  \A m \in Msgs :
    /\ rows[m].linked => posted[m] = 1
    /\ rows[m].st \in {"sent", "responding", "delivered", "delivery_failed"} => rows[m].linked
    /\ rows[m].st = "delivered" => answers[m] = 1
    /\ rows[m].st \in {"none", "reserved", "sent", "failed"} => answers[m] = 0

\* A request that is being answered is in the poller's hands, unless the process
\* was stopped there (telegram_bridge.py:414-431).
NoOrphanAnswer ==
  ~stopped => \A m \in Msgs : rows[m].st = "responding" =>
    ppc \in {"deliver", "landed", "complete"} /\ Handled = m

\* A user has at most the allowed number of requests waiting (storage.py:1526-1533).
PendingBound == \A u \in Users : Cardinality(Of(u, Pending(rows))) <= MaxPending

\* Whatever stretch of an hour or a day is taken, no more requests than allowed
\* were made in it and not given up, also when the clock was set back between
\* them (storage.py:1508-1524).
WindowBound ==
  \A from \in Times :
    /\ Cardinality({m \in Counted(rows) : rows[m].at \in from .. from + Hour}) <= HourLimit
    /\ \A u \in Users :
         Cardinality({m \in Of(u, Counted(rows)) : rows[m].at \in from .. from + Day}) <= DayLimit

\* Two requests of one user that were not given up are the interval apart
\* (storage.py:1498-1506).
IntervalKept ==
  \A m, k \in Msgs : m # k /\ Author[m] = Author[k] /\ {m, k} \subseteq Counted(rows) =>
    rows[m].at - rows[k].at >= Interval \/ rows[k].at - rows[m].at >= Interval

\* Type correctness, and the answers: each request has one at most, the rows say
\* what happened, and an answer under way has the poller behind it
\* (storage.py:1589-1698, telegram_bridge.py:414-431).
AnswersTrue == TypeOK /\ AnsweredOnce /\ RowsTrue /\ NoOrphanAnswer

\* The limits of a user and of everybody, whatever workers reserve side by side,
\* give up or leave behind, and also when the clock is set back
\* (storage.py:1498-1533).
LimitsKept == PendingBound /\ WindowBound /\ IntervalKept

\* Every reply of the owner is handled in the end: one that cannot be handled
\* does not hold up the others for ever (telegram_bridge.py:344-372).
RepliesHandled == \A n \in 1 .. MaxReplies : Len(updates) >= n ~> offset >= n
=============================================================================
