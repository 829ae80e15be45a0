--------------------------- MODULE AutomationTool ---------------------------
(***************************************************************************)
(* execute_automation_tool of automation_rules.py: authors create, update, *)
(* pause and delete the rules of a guild in concurrent agent turns.  A     *)
(* call reads the rules, decides on what it read, and then waits for the   *)
(* write lock.  The turn's deadline may cancel it at any await.            *)
(***************************************************************************)
EXTENDS RuleStore

CONSTANTS
  Calls,  \* concurrent tool calls
  Keep    \* an argument the call does not pass

ASSUME ToolAssumption ==
  /\ IsFiniteSet(Calls)
  /\ Keep \notin Names \cup Defs \cup BOOLEAN

\* Arguments of the four write tools, per real author.
Request ==
  [op : {"create"}, author : Authors, name : Names, def : Defs]
    \cup [op : {"update"}, author : Authors, id : Ids, name : Names \cup {Keep},
          def : Defs \cup {Keep}, enabled : BOOLEAN \cup {Keep}]
    \cup [op : {"pause", "delete"}, author : Authors, id : Ids]
NoRequest == [op |-> "none"]

VARIABLES
  grants,  \* authors with beta access to this guild
  pc,      \* where a call is
  req,     \* what it was asked
  seen,    \* the row it read: `existing', or NoRule
  phantom, \* history: calls that hold a row whose insert was rolled back since
  barred   \* history: calls not yet let through whose author has lost access

vars == <<rules, nextId, tx, grants, pc, req, seen, phantom, barred>>

\* Every variable holds a value of its kind (automation_rules.py:277-365).
TypeOK ==
  /\ StoreTypeOK
  /\ grants \subseteq Betas
  /\ pc \in [Calls -> {"idle", "list", "recheck", "write", "commit"}]
  /\ req \in [Calls -> Request \cup {NoRequest}]
  /\ seen \in [Calls -> Rule \cup {NoRule}]
  /\ phantom \subseteq Calls /\ barred \subseteq Calls

Init ==
  /\ StoreInit
  /\ grants = {}
  /\ pc = [c \in Calls |-> "idle"]
  /\ req = [c \in Calls |-> NoRequest]
  /\ seen = [c \in Calls |-> NoRule]
  /\ phantom = {} /\ barred = {}

Goto(c, l) == pc' = [pc EXCEPT ![c] = l]

\* A call on a row that is in the open transaction only.
HoldsInserted(c) ==
  /\ pc[c] \in {"recheck", "write"}
  /\ req[c].op # "create"
  /\ Committed[req[c].id] = NoRule /\ Exists(req[c].id)

\* The call answers, whatever it answers.
Forget(c) ==
  /\ Goto(c, "idle")
  /\ req' = [req EXCEPT ![c] = NoRequest]
  /\ seen' = [seen EXCEPT ![c] = NoRule]
  /\ barred' = barred \ {c}

Return(c) == Forget(c) /\ phantom' = phantom \ {c}

\* is_owner, or get_beta_access at the start of the call.
Call(c, r) ==
  /\ pc[c] = "idle"
  /\ r.author \in Betas => LockFree /\ r.author \in grants
  /\ Goto(c, "list")
  /\ req' = [req EXCEPT ![c] = r]
  /\ UNCHANGED <<storeVars, grants, seen, phantom, barred>>

\* Mutant: the author is not compared with the rule's owner.
MayWriteAny(r, table) ==
  IF r.op = "create"
  THEN \A id \in Ids : table[id] # NoRule => table[id].name # r.name
  ELSE table[r.id] # NoRule

\* What the call decides on the rules it has read: the rule must exist, be the
\* author's own unless the owner asks, and a new name must be free.
MayWrite(r, table) ==
  IF r.op = "create"
  THEN \A id \in Ids : table[id] # NoRule => table[id].name # r.name
  ELSE table[r.id] # NoRule /\ (r.author = Owner \/ table[r.id].owner = r.author)

\* list_pos_automations, without the lock.  For the owner the decision follows
\* at once; a beta author's access is read again first.
List(c) ==
  /\ pc[c] = "list"
  /\ IF MayWrite(req[c], rules)
     THEN /\ Goto(c, IF req[c].author = Owner THEN "write" ELSE "recheck")
          /\ seen' = [seen EXCEPT ![c] = IF req[c].op = "create" THEN NoRule ELSE rules[req[c].id]]
          /\ UNCHANGED <<req, phantom, barred>>
     ELSE Return(c)
  /\ UNCHANGED <<storeVars, grants>>

Recheck(c) ==
  /\ pc[c] = "recheck"
  /\ LockFree
  /\ IF req[c].author \in grants
     THEN Goto(c, "write") /\ UNCHANGED <<req, seen, phantom, barred>>
     ELSE Return(c)
  /\ UNCHANGED <<storeVars, grants>>

\* merged.update(args): what the call does not pass comes from what it read.
Or(arg, old) == IF arg = Keep THEN old ELSE arg

CreateRow(r) == UpsertByName(r.author, r.name, r.def, TRUE)
UpdateMerged(r, row) ==
  UpsertById(r.id, row.owner, Or(r.name, row.name), Or(r.def, row.def), Or(r.enabled, row.enabled))

\* upsert_pos_automation up to its COMMIT.
Upsert(c) ==
  /\ pc[c] = "write"
  /\ \/ req[c].op = "create" /\ CreateRow(req[c])
     \/ req[c].op = "update" /\ UpdateMerged(req[c], seen[c])
  /\ Goto(c, "commit")
  /\ UNCHANGED <<grants, req, seen, phantom, barred>>

Commit(c) ==
  /\ pc[c] = "commit"
  /\ UpsertCommit
  /\ Return(c)
  /\ UNCHANGED grants

\* enabled=False alone goes to set_pos_automation_enabled.
Pause(c) ==
  /\ pc[c] = "write"
  /\ req[c].op = "pause"
  /\ SetEnabled(req[c].id, FALSE)
  /\ Return(c)
  /\ UNCHANGED grants

Remove(c) ==
  /\ pc[c] = "write"
  /\ req[c].op = "delete"
  /\ Delete(req[c].id)
  /\ Return(c)
  /\ UNCHANGED grants

\* The lock is the call's, and there is nothing to write: the row is gone, the
\* name is taken, the guild is full, or the database fails.
Fail(c) ==
  /\ pc[c] = "write"
  /\ LockFree
  /\ Return(c)
  /\ UNCHANGED <<storeVars, grants>>

\* The turn's deadline cancels the call at an await before its transaction, or
\* an argument is refused.
Cancel(c) ==
  /\ pc[c] \in {"list", "recheck", "write"}
  /\ Return(c)
  /\ UNCHANGED <<storeVars, grants>>

\* Cancelled, or failed, between the UPDATE or INSERT and the COMMIT: a row that
\* it had inserted, and that others have read, never was.
Abort(c) ==
  /\ pc[c] = "commit"
  /\ UpsertRollback
  /\ Forget(c)
  /\ phantom' = (phantom \cup {d \in Calls : HoldsInserted(d)}) \ {c}
  /\ UNCHANGED grants

\* The calls of an author that have not been let through.
Deciding(b) == {c \in Calls : pc[c] \in {"list", "recheck"} /\ req[c].author = b}

\* Access is taken away, or given back.
SetGrant(b) ==
  /\ LockFree
  /\ \/ b \in grants /\ grants' = grants \ {b} /\ barred' = barred \cup Deciding(b)
     \/ b \notin grants /\ grants' = grants \cup {b} /\ barred' = barred \ Deciding(b)
  /\ UNCHANGED <<storeVars, pc, req, seen, phantom>>

Crash ==
  /\ StoreCrash
  /\ pc' = [c \in Calls |-> "idle"]
  /\ req' = [c \in Calls |-> NoRequest]
  /\ seen' = [c \in Calls |-> NoRule]
  /\ phantom' = {} /\ barred' = {}
  /\ UNCHANGED grants

\* A step of the call's own code once it has the lock, and what cuts it short.
Proceed(c) == List(c) \/ Recheck(c) \/ Upsert(c) \/ Commit(c) \/ Pause(c) \/ Remove(c) \/ Fail(c)
CallStep(c) == Proceed(c) \/ Cancel(c) \/ Abort(c)

Next ==
  \/ \E c \in Calls : CallStep(c) \/ \E r \in Request : Call(c, r)
  \/ \E b \in Betas : SetGrant(b)
  \/ Crash

Spec == Init /\ [][Next]_vars

\* The write lock is a FIFO queue and the database answers.  Nothing says that a
\* call is ever cancelled.
FairSpec == Spec /\ \A c \in Calls : SF_vars(Proceed(c))

-----------------------------------------------------------------------------
\* Type correctness; the guild never has more rules than its limit, and no author
\* two rules of one name, however calls interleave (storage.py:572-607, 438).
TableSound ==
  /\ TypeOK
  /\ Cardinality({id \in Ids : Exists(id)}) <= RuleLimit
  /\ \A i, j \in Ids : Exists(i) /\ Exists(j) /\ i # j =>
       <<rules[i].owner, rules[i].name>> # <<rules[j].owner, rules[j].name>>

\* A deleted rule is gone for good: a call that read it before the deletion
\* cannot bring it back, and its id is not given to another rule, whose runs
\* the ledger would take for already made (storage.py:578-592, 426).
NoResurrection ==
  [][\A id \in Ids : id < CommittedNext /\ Committed[id] = NoRule => Committed'[id] = NoRule]_vars

\* While a rule exists its owner stays, and every change of it, in any order of
\* concurrent calls, gives it a new revision (storage.py:582-592, 660).
ChangesAreVersions ==
  [][\A id \in Ids : Committed[id] # NoRule /\ Committed'[id] \notin {NoRule, Committed[id]} =>
       /\ Committed'[id].owner = Committed[id].owner
       /\ Committed'[id].rev > Committed[id].rev]_vars

\* No call that read a rule before another one changed or deleted it undoes that:
\* ids and owners stay and revisions rise, in any order of concurrent calls
\* (storage.py:578-592, 426, 660).
VersionsKept == NoResurrection /\ ChangesAreVersions

\* A step of a beta author's call changes or deletes a rule of somebody else.
ForeignEdit(c) ==
  /\ pc[c] # pc'[c]
  /\ req[c] # NoRequest /\ req[c].author \in Betas
  /\ \E id \in Ids :
       Committed[id] \notin {NoRule, Committed'[id]} /\ Committed[id].owner # req[c].author

\* A beta author changes and deletes only rules of their own
\* (automation_rules.py:316-317, README.md:47).
BetaEditsOwn == [][\A c \in Calls : ~ForeignEdit(c)]_vars

\* A beta author who touches another's rule acts on a row that the call had read
\* in a transaction rolled back since, whose id another rule was given; there
\* is no other way, however calls, rollbacks and crashes interleave
\* (automation_rules.py:316-317, storage.py:575-592, 656, 674).
OwnUnlessPhantom == [][\A c \in Calls : ForeignEdit(c) => c \in phantom]_vars

\* A step of the call writes to the table.
Writes(c) == pc[c] = "write" /\ pc'[c] # "write" /\ rules' # rules

\* Of an author who has lost access only those calls still write that had passed
\* their check before, however long they wait for the lock; and later ones again
\* only when access is given back (automation_rules.py:305-311, README.md:70).
BarredWriteNothing == [][\A c \in barred : ~Writes(c)]_vars

\* What a beta author can do through the tool: to their own rules, while they
\* have access, but for what the two say.
BetasStayWithin == OwnUnlessPhantom /\ BarredWriteNothing

\* A paused rule is resumed only by a call that passes enabled=true
\* (automation_rules.py:95).
PauseHolds ==
  [][\A id \in Ids :
       /\ Committed[id] # NoRule /\ ~Committed[id].enabled
       /\ Committed'[id] # NoRule /\ Committed'[id].enabled
       => \E c \in Calls : pc[c] = "commit" /\ req[c].op = "update" /\ req[c].enabled = TRUE]_vars

\* Every call is answered: no writer waits for ever for the write lock
\* (storage.py:568, 656, 674).
CallsEnd == \A c \in Calls : pc[c] # "idle" ~> pc[c] = "idle"
=============================================================================
