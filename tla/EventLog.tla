------------------------------ MODULE EventLog ------------------------------
(***************************************************************************)
(* The factual log of a server's messages (cogs/logging_events.py:507-594, *)
(* storage.py:1017-1104) and the search for who was mentioned              *)
(* (pos_ai.py:3172-3229).  Each gateway event is handled by a listener of  *)
(* its own, which waits for the database at every step: the listener of a  *)
(* message that is deleted at once may still be at work when those of its  *)
(* deletion are. A deletion of a message Discord still remembers reaches   *)
(* two listeners, any other only the raw one, and so does a deletion of    *)
(* many at once. Rows are added and marked under the write lock, in one    *)
(* piece; a step that fails is only reported, and what else it leads to is *)
(* the listener's own. Of a message only the first mentions are recorded,  *)
(* and a search returns only the newest rows; their times are those of     *)
(* their ids.                                                              *)
(***************************************************************************)
EXTENDS Naturals, Sequences, FiniteSets, SequencesExt

CONSTANTS
  Posts,          \* messages
  RememberedPosts,\* those in discord.py's cache when they are deleted
  HiddenPosts,    \* those in a log channel: their listeners record nothing
  Folk, Titles,   \* members and roles
  Newcomers,      \* members who are not there from the start
  Addressed,      \* post -> the sequence of its mentions: members, roles, everyone
  MentionLimit,   \* how many of them are recorded (30)
  SearchLimit,    \* how many rows a search returns (25, or up to 50 on request)
  EventCap, TitleCap, FaultCap   \* bounds of the model: edits, changes of roles, failures

Addressees == [kind : {"member"}, who : Folk] \cup [kind : {"role"}, who : Titles]
            \cup [kind : {"everyone"}, who : {"all"}]

ASSUME LogAssumption ==
  /\ RememberedPosts \subseteq Posts /\ HiddenPosts \subseteq Posts /\ Newcomers \subseteq Folk
  /\ Addressed \in [Posts -> Seq(Addressees)]
  /\ {MentionLimit, SearchLimit} \subseteq Nat \ {0}
  /\ {EventCap, TitleCap, FaultCap} \subseteq Nat

VARIABLES
  post,       \* "unsent", "there" or "gone"
  listeners,  \* the listeners at work: [kind, about, stage], with the mentions left
  eventRows,  \* ai_event_log in the order of its ids, with ai_event_recipients
  holders,    \* role -> its members
  since,      \* member -> the first row after he joined, 0 before
  called,     \* for the properties: post -> members its recorded mentions called when it was sent
  shifted,    \* and those whose roles changed before the mentions were collected
  goneAt,     \* and the length of the log when it was deleted
  alone,      \* and whether it was deleted by itself
  missed,     \* posts a failed step was about
  edits, changes, failures

logVars == <<post, listeners, eventRows, holders, since, called, shifted, goneAt, alone, missed,
             edits, changes, failures>>

LogRow(kind, about, mark, call, heard) ==
  [kind |-> kind, about |-> about, deleted |-> mark, call |-> call, recipients |-> heard]
NoMention == [kind |-> "none", who |-> "none"]
AddEvent(kind, about, mark, call, heard) ==
  eventRows' = Append(eventRows, LogRow(kind, about, mark, call, heard))

\* The members a mention is addressed to; of everyone no list is kept.
Recipients(call) ==
  CASE call.kind = "member" -> {call.who}
    [] call.kind = "role" -> holders[call.who]
    [] OTHER -> {}
\* Of the mentions only so many are recorded.
Mentioned(m) ==
  IF Len(Addressed[m]) <= MentionLimit THEN Addressed[m] ELSE SubSeq(Addressed[m], 1, MentionLimit)
CalledBy(m) ==
  UNION {IF c.kind = "everyone" THEN {u \in Folk : since[u] # 0} ELSE Recipients(c)
         : c \in ToSet(Mentioned(m))}

Listener(kind, about, at) == [kind |-> kind, about |-> about, stage |-> at, left |-> <<>>]
Becomes(l, new) == listeners' = (listeners \ {l}) \cup new
AtWork(m, kinds) == \E l \in listeners : l.kind \in kinds /\ m \in l.about

\* The listener goes on although the step failed; nobody repeats it.
Fails(l, new) ==
  /\ failures < FaultCap /\ failures' = failures + 1
  /\ missed' = missed \cup l.about /\ Becomes(l, new) /\ UNCHANGED eventRows
Succeeds(l, new) == Becomes(l, new) /\ UNCHANGED <<missed, failures>>
Still == UNCHANGED <<post, holders, since, called, shifted, goneAt, alone, edits, changes>>

(* ------------------------------ The gateway ------------------------------ *)

Say(m) ==
  /\ post[m] = "unsent" /\ post' = [post EXCEPT ![m] = "there"]
  /\ called' = [called EXCEPT ![m] = CalledBy(m)]
  /\ listeners' = IF m \in HiddenPosts THEN listeners
                  ELSE listeners \cup {Listener("create", {m}, "record")}
  /\ UNCHANGED <<eventRows, holders, since, shifted, goneAt, alone, missed, edits, changes, failures>>

Edit(m) ==
  /\ post[m] = "there" /\ m \notin HiddenPosts /\ edits < EventCap /\ edits' = edits + 1
  /\ listeners' = listeners \cup {Listener("edit", {m}, "record")}
  /\ UNCHANGED <<post, eventRows, holders, since, called, shifted, goneAt, alone, missed, changes, failures>>

Leaves(deleted) ==
  /\ \A m \in deleted : post[m] = "there"
  /\ post' = [m \in Posts |-> IF m \in deleted THEN "gone" ELSE post[m]]
  /\ goneAt' = [m \in Posts |-> IF m \in deleted THEN Len(eventRows) ELSE goneAt[m]]
  /\ UNCHANGED <<eventRows, holders, since, called, shifted, missed, edits, changes, failures>>

\* on_raw_message_delete, and on_message_delete of a message that is remembered.
Erase(m) ==
  /\ Leaves({m}) /\ alone' = alone \cup {m}
  /\ listeners' = listeners \cup {Listener("raw", {m}, "mark")}
                    \cup (IF m \in RememberedPosts THEN {Listener("gone", {m}, "mark")} ELSE {})

\* on_raw_bulk_message_delete, and on_bulk_message_delete of those remembered;
\* they are of one channel.
EraseMany(deleted) ==
  /\ Cardinality(deleted) > 1 /\ (deleted \subseteq HiddenPosts \/ deleted \cap HiddenPosts = {})
  /\ Leaves(deleted) /\ UNCHANGED alone
  /\ listeners' = listeners \cup {Listener("bulkraw", deleted, "mark")}
                    \cup (IF deleted \cap (RememberedPosts \ HiddenPosts) = {} THEN {}
                          ELSE {Listener("bulk", deleted \cap RememberedPosts, "mark")})

\* A member joins: what is recorded from now on counts for him.
Join(u) ==
  /\ since[u] = 0 /\ since' = [since EXCEPT ![u] = Len(eventRows) + 1]
  /\ shifted' = [m \in Posts |-> IF AtWork(m, {"create"}) THEN shifted[m] \cup {u} ELSE shifted[m]]
  /\ UNCHANGED <<post, listeners, eventRows, holders, called, goneAt, alone, missed, edits, changes, failures>>

\* A role is given or taken away.
ChangeTitle(u, t) ==
  /\ since[u] # 0 /\ changes < TitleCap /\ changes' = changes + 1
  /\ holders' = [holders EXCEPT ![t] = IF u \in @ THEN @ \ {u} ELSE @ \cup {u}]
  /\ shifted' = [m \in Posts |->
       IF \E l \in listeners : l.kind = "create" /\ l.about = {m} /\ l.stage = "record"
       THEN shifted[m] \cup {u} ELSE shifted[m]]
  /\ UNCHANGED <<post, listeners, eventRows, since, called, goneAt, alone, missed, edits, failures>>

(* ------------------------------ The listeners ------------------------------ *)

\* After the row of the message the mentions are collected, with the members their
\* roles have at that moment.
CollectCalls(m) ==
  LET Collect(c) == [call |-> c, recipients |-> Recipients(c)]
      calls == [i \in DOMAIN Mentioned(m) |-> Collect(Mentioned(m)[i])]
  IN IF calls = <<>> THEN {}
     ELSE {[kind |-> "create", about |-> {m}, stage |-> "mention", left |-> calls]}

RecordCreate(l) ==
  /\ l.kind = "create" /\ l.stage = "record"
  /\ LET m == CHOOSE x \in l.about : TRUE IN
     \/ AddEvent("message_create", {m}, FALSE, NoMention, {}) /\ Succeeds(l, CollectCalls(m))
     \/ Fails(l, CollectCalls(m))
  /\ Still

\* One row a mention; the first that fails ends them.
RecordMention(l) ==
  /\ l.kind = "create" /\ l.stage = "mention"
  /\ LET rest == IF Len(l.left) = 1 THEN {} ELSE {[l EXCEPT !.left = Tail(@)]} IN
     \/ /\ AddEvent("message_mention", l.about, FALSE, Head(l.left).call, Head(l.left).recipients)
        /\ Succeeds(l, rest)
     \/ Fails(l, {})
  /\ Still

RecordEdit(l) ==
  /\ l.kind = "edit"
  /\ \/ AddEvent("message_edit", l.about, FALSE, NoMention, {}) /\ Succeeds(l, {})
     \/ Fails(l, {})
  /\ Still

Marked(about) ==
  [i \in DOMAIN eventRows |->
     IF eventRows[i].about \in {{m} : m \in about} THEN [eventRows[i] EXCEPT !.deleted = TRUE]
     ELSE eventRows[i]]
\* Mutant: the raw listener records a deletion the other one has recorded.
AfterMarkTwice(l) ==
  CASE l.kind = "gone" -> l.about \cap HiddenPosts = {}
    [] l.kind = "bulk" -> FALSE
    [] OTHER -> TRUE
\* Who writes the row of a deletion: for a message that is remembered its own
\* listener, unless it stood in a log channel; otherwise the raw one; for many the raw one.
AfterMark(l) ==
  CASE l.kind = "gone" -> l.about \cap HiddenPosts = {}
    [] l.kind = "raw" -> l.about \cap RememberedPosts = {}
    [] l.kind = "bulk" -> FALSE
    [] OTHER -> TRUE

\* mark_ai_message(s)_deleted; a listener of many gives up when it fails.
Mark(l) ==
  LET next == IF AfterMark(l) THEN {[l EXCEPT !.stage = "record"]} ELSE {} IN
  /\ l.stage = "mark"
  /\ \/ eventRows' = Marked(l.about) /\ Succeeds(l, next)
     \/ Fails(l, IF l.kind \in {"gone", "raw"} THEN next ELSE {})
  /\ Still

\* The row of many deletions has no message's id.
RecordDelete(l) ==
  /\ l.kind \in {"gone", "raw", "bulkraw"} /\ l.stage = "record"
  /\ \/ AddEvent("message_delete", l.about, TRUE, NoMention, {}) /\ Succeeds(l, {})
     \/ Fails(l, {})
  /\ Still

(* -------------------------------- Searching -------------------------------- *)

\* The rows of mentions, and those of them that name a member, hold him among their
\* recipients, name a role, call everyone, or do so after the member had joined.
MentionRows == {j \in DOMAIN eventRows : eventRows[j].kind = "message_mention"}
Naming(u) == {j \in MentionRows : eventRows[j].call = [kind |-> "member", who |-> u]}
Holding(u) == {j \in MentionRows : u \in eventRows[j].recipients}
OfTitle(t) == {j \in MentionRows : eventRows[j].call = [kind |-> "role", who |-> t]}
ToAll == {j \in MentionRows : eventRows[j].call.kind = "everyone"}
SinceJoined(u, found) == {j \in found : since[u] \in 1 .. j}

\* search_ai_events: no more than the newest of the rows that match.
NewestRows(found) == {i \in found : Cardinality({k \in found : k > i}) < SearchLimit}

\* The row a message is shown by: the newest one in the first search that found the
\* message, of those for the member, for his roles as they were, for the roles he has
\* now (in an order that is left open) and for everyone.
Of(m, found) == {j \in found : eventRows[j].about = {m}}
OrElse(found, others) == IF found # {} THEN found ELSE others
ByTitle(u, m) ==
  LET titles == {t \in Titles : u \in holders[t] /\ Of(m, NewestRows(OfTitle(t))) # {}}
  IN IF titles = {} THEN {} ELSE Of(m, NewestRows(OfTitle(CHOOSE t \in titles : TRUE)))
FirstFound(u, m) ==
  OrElse(Of(m, NewestRows(Naming(u))),
  OrElse(Of(m, NewestRows(Holding(u))),
  OrElse(ByTitle(u, m), Of(m, SinceJoined(u, NewestRows(ToAll))))))
Shown(u) == {Max(FirstFound(u, m)) : m \in {p \in Posts : FirstFound(u, p) # {}}}

\* search_pings: one result a message, and no more than the newest of them.
PingsFor(u) == UNION {eventRows[j].about : j \in NewestRows(Shown(u))}

LogInit ==
  /\ post = [m \in Posts |-> "unsent"] /\ listeners = {} /\ eventRows = <<>>
  /\ holders \in [Titles -> SUBSET (Folk \ Newcomers)] /\ since = [u \in Folk |-> IF u \in Newcomers THEN 0 ELSE 1]
  /\ called = [m \in Posts |-> {}] /\ shifted = [m \in Posts |-> {}]
  /\ goneAt = [m \in Posts |-> 0] /\ alone = {} /\ missed = {}
  /\ edits = 0 /\ changes = 0 /\ failures = 0

LogNext ==
  \/ \E m \in Posts : Say(m) \/ Edit(m) \/ Erase(m)
  \/ \E deleted \in SUBSET Posts : EraseMany(deleted)
  \/ \E u \in Folk : Join(u)
  \/ \E u \in Folk, t \in Titles : ChangeTitle(u, t)
  \/ \E l \in listeners : \/ RecordCreate(l) \/ RecordMention(l) \/ RecordEdit(l)
                          \/ Mark(l) \/ RecordDelete(l)

LogSpec == LogInit /\ [][LogNext]_logVars

(* ------------------------------- Properties ------------------------------- *)

LogTypeOK ==
  /\ post \in [Posts -> {"unsent", "there", "gone"}]
  /\ \A l \in listeners : l.about \subseteq Posts /\ l.stage \in {"record", "mention", "mark"}
  /\ \A i \in DOMAIN eventRows : eventRows[i].about \subseteq Posts /\ eventRows[i].recipients \subseteq Folk

\* The rows a search for a member may show, and whether a row of a message has as
\* many newer ones of other messages as a search returns.
Concerning(u) ==
  Naming(u) \cup Holding(u) \cup SinceJoined(u, ToAll)
  \cup UNION {OfTitle(t) : t \in {x \in Titles : u \in holders[x]}}
Crowded(m, u) ==
  \E j \in Of(m, Concerning(u)) :
    Cardinality({i \in Concerning(u) \ Of(m, Concerning(u)) : i > j}) >= SearchLimit

\* Whoever a message's recorded mentions called is told of it, whatever became of his
\* roles later, unless they changed between the message and the moment its mentions were
\* collected, or newer mentions of him fill what a search returns; and nobody else is,
\* but for those who have got a mentioned role since (the search reads present roles
\* "for events created before recipient snapshots", pos_ai.py:3206, and for all others too).
PingsTold ==
  \A m \in Posts \ (HiddenPosts \cup missed), u \in Folk :
    /\ post[m] # "unsent" /\ ~AtWork(m, {"create"}) /\ u \in called[m] \ shifted[m]
         => m \in PingsFor(u) \/ Crowded(m, u)
    /\ m \in PingsFor(u) => \/ u \in called[m] \cup shifted[m]
                            \/ \E c \in ToSet(Mentioned(m)) : c.kind = "role" /\ u \in holders[c.who]

\* Of every deletion there is one row in the end, however many listeners heard of it.
DeletionNoted ==
  \A m \in Posts \ missed :
    post[m] = "gone" /\ ~AtWork(m, {"gone", "raw", "bulk", "bulkraw"}) =>
      Cardinality({i \in DOMAIN eventRows : eventRows[i].kind = "message_delete" /\ m \in eventRows[i].about})
        = IF m \in alone /\ m \in RememberedPosts \cap HiddenPosts THEN 0 ELSE 1

\* Only deleted messages' rows are marked, and those that stood in the log when the
\* message was deleted are, once its listeners are done.  (A row its own listener
\* adds after the mark stays unmarked.)
MarksFollow ==
  \A i \in DOMAIN eventRows : \A m \in eventRows[i].about :
    /\ eventRows[i].deleted => post[m] = "gone"
    /\ post[m] = "gone" /\ m \notin missed /\ i <= goneAt[m]
       /\ ~AtWork(m, {"gone", "raw", "bulk", "bulkraw"}) => eventRows[i].deleted

\* The log of messages: who was called, what was deleted (logging_events.py:507-594).
EventLogTrue == LogTypeOK /\ PingsTold /\ DeletionNoted /\ MarksFollow
=============================================================================
