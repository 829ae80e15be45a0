----------------------------- MODULE UndoJournal -----------------------------
(***************************************************************************)
(* The journal of what P.OS did for one user in one channel                *)
(* (pos_tool_actions, storage.py) and the undo of the user's last message  *)
(* (action_undo.py).  Turns change Discord and record the change with its  *)
(* inverse; an undo claims the rows of one message and applies their       *)
(* inverses, last first.                                                   *)
(*                                                                         *)
(* Discord is a set of attributes: a ban, a role, a nickname, a channel's  *)
(* settings.  An inverse puts an attribute back to what it was when the    *)
(* turn looked.  Instead of a clock, a claim becomes old: more than five   *)
(* minutes after it was made.                                              *)
(***************************************************************************)
EXTENDS Integers, Sequences, FiniteSets, FiniteSetsExt

CONSTANTS
  Groups,    \* messages of the user whose turns change something
  Attrs, Values,
  Undos,     \* calls of undo_recent_action_group
  MaxRows    \* bound: rows of the journal

ASSUME UndoAssumption == MaxRows \in Nat

Final == {"undone", "failed", "acknowledged"}
Statuses == Final \cup {"ready", "not_reversible", "in_progress"}
Ids == 1 .. MaxRows

VARIABLES
  world,  \* Discord: [Attrs -> Values]
  rows,   \* the successful actions, by id
  turns,  \* [Groups -> the action a turn is at]
  undo    \* [Undos -> what a call is at, the rows it has claimed (all, left), and,
          \* as history, the attributes it was the last to write (put)]

vars == <<world, rows, turns, undo>>

Idle == [pc |-> "idle"]
NoOne == "no one"

Claimed(r) == r <= Len(rows) /\ rows[r].st = "in_progress"

Row == [grp : Groups, attr : Attrs, old : Values, exact : BOOLEAN, st : Statuses, aged : BOOLEAN]
TurnState ==
  {Idle} \cup [pc : {"perform", "record"}, attr : Attrs, val : Values, old : Values]
UndoState ==
  {Idle} \cup [pc : {"row", "finish"}, all : SUBSET Ids, left : SUBSET Ids, put : SUBSET Attrs,
                outcome : Final, full : BOOLEAN]

\* Every variable holds a value of its kind, no row waits in a status its inverse
\* does not allow, and a call knows only rows of one message (storage.py:303-323).
TypeOK ==
  /\ world \in [Attrs -> Values]
  /\ rows \in Seq(Row)
  /\ Len(rows) <= MaxRows
  /\ turns \in [Groups -> TurnState]
  /\ undo \in [Undos -> UndoState]
  /\ \A r \in 1 .. Len(rows) :
       /\ rows[r].st \in {"ready", "undone", "failed"} => rows[r].exact
       /\ rows[r].st = "not_reversible" => ~rows[r].exact
       /\ rows[r].aged => rows[r].st = "in_progress"
  /\ \A u \in Undos : undo[u] # Idle =>
       /\ undo[u].all \subseteq 1 .. Len(rows)
       /\ undo[u].left \subseteq undo[u].all
       /\ \A r, s \in undo[u].all : rows[r].grp = rows[s].grp

Init ==
  /\ world \in [Attrs -> Values]
  /\ rows = <<>>
  /\ turns = [g \in Groups |-> Idle]
  /\ undo = [u \in Undos |-> Idle]

-----------------------------------------------------------------------------
\* _execute_and_log_prepared_tool_action.

\* No call is the last to have written the attribute any more.
Overwritten(a) ==
  [u \in Undos |-> IF undo[u] = Idle THEN Idle ELSE [undo[u] EXCEPT !.put = @ \ {a}]]

\* capture_pre_state.
Capture(g) ==
  /\ turns[g] = Idle
  /\ \E a \in Attrs, v \in Values :
       turns' = [turns EXCEPT ![g] = [pc |-> "perform", attr |-> a, val |-> v, old |-> world[a]]]
  /\ UNCHANGED <<world, rows, undo>>

Perform(g) ==
  /\ turns[g].pc = "perform"
  /\ world' = [world EXCEPT ![turns[g].attr] = turns[g].val]
  /\ undo' = Overwritten(turns[g].attr)
  /\ turns' = [turns EXCEPT ![g].pc = "record"]
  /\ UNCHANGED rows

\* derive_inverse and record_pos_tool_action.  Not every action that succeeds has
\* an inverse.
Record(g) ==
  /\ turns[g].pc = "record"
  /\ Len(rows) < MaxRows
  /\ \E exact \in BOOLEAN :
       rows' = Append(rows, [grp |-> g, attr |-> turns[g].attr, old |-> turns[g].old,
                             exact |-> exact, aged |-> FALSE,
                             st |-> IF exact THEN "ready" ELSE "not_reversible"])
  /\ turns' = [turns EXCEPT ![g] = Idle]
  /\ UNCHANGED <<world, undo>>

\* Discord refuses, its answer is lost, the deadline cancels the call, or the
\* insert fails: there is no row an undo could find.
Drop(g) ==
  /\ turns[g] # Idle
  /\ turns' = [turns EXCEPT ![g] = Idle]
  /\ UNCHANGED <<world, rows, undo>>

\* External: somebody else changes the attribute.
Meddle ==
  /\ \E a \in Attrs, v \in Values :
       world' = [world EXCEPT ![a] = v] /\ undo' = Overwritten(a)
  /\ UNCHANGED <<rows, turns>>

-----------------------------------------------------------------------------
\* claim_recent_pos_action_group.

Released(row) ==
  [row EXCEPT !.st = IF row.exact THEN "ready" ELSE "not_reversible", !.aged = FALSE]

\* Claims older than five minutes are taken back.
Reopened(table) ==
  [r \in DOMAIN table |-> IF table[r].aged THEN Released(table[r]) ELSE table[r]]

\* Mutant: what was acknowledged is tried again.
OpenAgain == {"ready", "failed", "not_reversible", "acknowledged"}

Open == {"ready", "failed", "not_reversible"}
OpenRows(table) == {r \in DOMAIN table : table[r].st \in Open}
OfGroup(table, g) == {r \in DOMAIN table : table[r].grp = g}

\* The last row that is open or claimed, among those of the last within_minutes.
Latest(table, from) ==
  LET S == {r \in DOMAIN table : r >= from /\ table[r].st \in Open \cup {"in_progress"}}
  IN  IF S = {} THEN 0 ELSE CHOOSE r \in S : \A s \in S : s <= r

\* The rows a call may take: all open ones of the latest row's message, none
\* while one of them is claimed.
Claimable(table, from) ==
  LET r == Latest(table, from)
      group == OfGroup(table, table[r].grp)
  IN  IF r = 0 \/ \E s \in group : table[s].st = "in_progress" THEN {}
      ELSE group \cap OpenRows(table)

Taken(table, S) ==
  [r \in DOMAIN table |-> IF r \in S THEN [table[r] EXCEPT !.st = "in_progress"] ELSE table[r]]

Claim(u) ==
  /\ undo[u] = Idle
  /\ \E from \in 1 .. Len(rows) + 1 :
       LET table == Reopened(rows)
           S == Claimable(table, from)
       IN  /\ rows' = Taken(table, S)
           /\ undo' = IF S = {} THEN undo
                      ELSE [undo EXCEPT ![u] = [pc |-> "row", all |-> S, left |-> S, put |-> {},
                                                outcome |-> "failed", full |-> TRUE]]
  /\ UNCHANGED <<world, turns>>

-----------------------------------------------------------------------------
\* undo_recent_action_group, one claimed row after the other.

At(u, pc) == undo[u] # Idle /\ undo[u].pc = pc /\ undo[u].left # {}

\* Mutant: the rows come in the order they were recorded.
Earliest(u) == Min(undo[u].left)

\* ORDER BY id DESC.
Current(u) == Max(undo[u].left)

\* The call goes on to finish the row; Kept leaves Discord alone.
Resolved(u, table, outcome) ==
  undo' = [table EXCEPT ![u].pc = "finish", ![u].outcome = outcome]
Kept(u, outcome) == Resolved(u, undo, outcome) /\ UNCHANGED world
PutBack(u, outcome) ==
  LET row == rows[Current(u)]
  IN  /\ world' = [world EXCEPT ![row.attr] = row.old]
      /\ Resolved(u, [Overwritten(row.attr) EXCEPT ![u].put = @ \cup {row.attr}], outcome)

\* undo_exact_action: Discord does it.
UndoExact(u) ==
  /\ At(u, "row")
  /\ rows[Current(u)].exact
  /\ PutBack(u, "undone")
  /\ UNCHANGED <<rows, turns>>

NoInverse(u) ==
  /\ At(u, "row")
  /\ ~rows[Current(u)].exact
  /\ Kept(u, "acknowledged")
  /\ UNCHANGED <<rows, turns>>

\* The target is gone, Discord refuses or its answer is lost; or a kicked member
\* could only be invited back.
InverseFails(u) ==
  /\ At(u, "row")
  /\ rows[Current(u)].exact
  /\ \E outcome \in {"failed", "acknowledged"} : PutBack(u, outcome) \/ Kept(u, outcome)
  /\ UNCHANGED <<rows, turns>>

\* finish_pos_action_undo.
Finish(u) ==
  /\ At(u, "finish")
  /\ rows' = IF rows[Current(u)].st \in {"in_progress", "not_reversible"}
             THEN [rows EXCEPT ![Current(u)].st = undo[u].outcome, ![Current(u)].aged = FALSE]
             ELSE rows
  /\ undo' = [undo EXCEPT ![u].pc = "row", ![u].left = @ \ {Current(u)}, ![u].outcome = "failed",
                          ![u].full = @ /\ undo[u].outcome = "undone"]
  /\ UNCHANGED <<world, turns>>

\* The call is about to say that the whole group has been undone.
SaysFull(u) == undo[u] # Idle /\ undo[u].left = {} /\ undo[u].full

Report(u) ==
  /\ undo[u] # Idle
  /\ undo[u].left = {}
  /\ undo' = [undo EXCEPT ![u] = Idle]
  /\ UNCHANGED <<world, rows, turns>>

\* The turn's deadline cancels the call, or the process is stopped.
Die(u) ==
  /\ undo[u] # Idle
  /\ undo' = [undo EXCEPT ![u] = Idle]
  /\ UNCHANGED <<world, rows, turns>>

Holds(u, r) == undo[u] # Idle /\ r \in undo[u].left

\* Five minutes pass since a message's rows were claimed.  The calls are those of
\* turns, which last at most four: none is still at work.
Age(g) ==
  /\ \E r \in OfGroup(rows, g) : rows[r].st = "in_progress" /\ ~rows[r].aged
  /\ \A u \in Undos, r \in OfGroup(rows, g) : ~Holds(u, r)
  /\ rows' = [r \in DOMAIN rows |->
                IF rows[r].grp = g /\ rows[r].st = "in_progress"
                THEN [rows[r] EXCEPT !.aged = TRUE] ELSE rows[r]]
  /\ UNCHANGED <<world, turns, undo>>

Turn(g) == Capture(g) \/ Perform(g) \/ Record(g) \/ Drop(g)
UndoStep(u) == UndoExact(u) \/ NoInverse(u) \/ InverseFails(u) \/ Finish(u) \/ Report(u)

Next ==
  \/ \E g \in Groups : Turn(g) \/ Age(g)
  \/ \E u \in Undos : Claim(u) \/ UndoStep(u) \/ Die(u)
  \/ Meddle

Spec == Init /\ [][Next]_vars

-----------------------------------------------------------------------------
\* A claimed row belongs to the call that works on it: nobody else resolves or
\* claims it, however many times the user asks, calls die and claims are taken
\* back (storage.py:1351-1366).
ClaimStands ==
  \A u \in Undos : undo[u] # Idle =>
    \A r \in undo[u].left :
      /\ rows[r].st = "in_progress"
      /\ \A w \in Undos \ {u} : ~Holds(w, r)

\* A call that says the group is undone has undone every row it claimed
\* (action_undo.py:669-671).
FullHonest ==
  \A u \in Undos : SaysFull(u) =>
    \A r \in undo[u].all : rows[r].exact /\ rows[r].st = "undone"

\* It has also put every attribute back to what it was before the first of these
\* actions, unless somebody has written it since (storage.py:1414).
FullRestores ==
  \A u \in Undos : SaysFull(u) =>
    \A a \in undo[u].put :
      \A r \in undo[u].all :
        /\ rows[r].attr = a
        /\ \A s \in undo[u].all : rows[s].attr = a => r <= s
        => world[a] = rows[r].old

\* The group is undone when a call says so: all that was recorded for the message
\* before the last of the claimed rows (action_undo.py:670).
FullMeansFull ==
  \A u \in Undos : SaysFull(u) =>
    \A r \in undo[u].all : \A s \in 1 .. r : rows[s].grp = rows[r].grp => rows[s].st = "undone"

\* A row that has been resolved for good stays so (storage.py:1437-1438).
ResolvedStays ==
  [][\A r \in 1 .. Len(rows) : rows[r].st \in {"undone", "acknowledged"} =>
       rows'[r].st = rows[r].st]_vars

\* A claim is one caller's, and a call that says the group is undone has undone it
\* and restored what was there (storage.py:1351-1366, 1414, action_undo.py:669-671).
UndoSound == TypeOK /\ ClaimStands /\ FullHonest /\ FullRestores
=============================================================================
