----------------------------- MODULE RuleStore -----------------------------
(***************************************************************************)
(* The table of persistent event rules of one guild (storage.py,           *)
(* pos_automations) and the transactions that change it.                   *)
(*                                                                         *)
(* All statements run on one shared connection.  Writers hold the write    *)
(* lock; list_pos_automations does not, so it reads the table as the open  *)
(* transaction has left it.  `rules' is therefore the table as any         *)
(* statement of this process sees it, and `tx' keeps what a rollback or a  *)
(* crash would bring back.  The transaction of upsert_pos_automation is    *)
(* the only one with awaits between its statements and a rollback path;    *)
(* the other writers are one statement and a commit.                       *)
(***************************************************************************)
EXTENDS Integers, FiniteSets

CONSTANTS
  Owner,     \* POS_CREATOR_ID
  Betas,     \* users a beta grant can be given to
  Names,     \* casefolded rule names (name_key)
  Defs,      \* normalised definitions
  RuleLimit, \* _AUTOMATION_MAX_PER_GUILD
  MaxId,     \* bound: AUTOINCREMENT ids handed out
  MaxRev     \* bound: revisions of one rule

ASSUME StoreAssumption ==
  /\ Owner \notin Betas
  /\ IsFiniteSet(Names)
  /\ RuleLimit \in Nat \ {0}
  /\ MaxId \in Nat \ {0}
  /\ MaxRev \in Nat \ {0}

Authors == {Owner} \cup Betas
Ids == 1 .. MaxId
Revs == 1 .. MaxRev

\* The part of a row that an edit can change, and the row.
Rule == [owner : Authors, name : Names, def : Defs, enabled : BOOLEAN, rev : Revs]
NoRule == [rev |-> 0]

VARIABLES
  rules,   \* the table as this connection sees it
  nextId,  \* sqlite_sequence of pos_automations
  tx       \* what a rollback of the open upsert restores, or NoTx

storeVars == <<rules, nextId, tx>>

NoTx == [open |-> FALSE]
Table == [Ids -> Rule \cup {NoRule}]
OpenTx == [open : {TRUE}, rules : Table, nextId : 1 .. MaxId + 1]

StoreTypeOK ==
  /\ rules \in Table
  /\ nextId \in 1 .. MaxId + 1
  /\ tx \in OpenTx \cup {NoTx}

Exists(id) == rules[id] # NoRule
LiveIn(table, id, rev) == table[id] # NoRule /\ table[id].enabled /\ table[id].rev = rev
Live(id, rev) == LiveIn(rules, id, rev)

\* The table every committed reader would see.
Committed == IF tx = NoTx THEN rules ELSE tx.rules
CommittedNext == IF tx = NoTx THEN nextId ELSE tx.nextId

LockFree == tx = NoTx

StoreInit ==
  /\ rules = [id \in Ids |-> NoRule]
  /\ nextId = 1
  /\ tx = NoTx

\* The row an upsert without automation_id falls on: same owner, same name.
SameKey(owner, name) ==
  {id \in Ids : Exists(id) /\ rules[id].owner = owner /\ rules[id].name = name}

\* Mutant: INSERT OR REPLACE brings the row back.
UpdateOrReplace(id, owner, name, def, enabled) ==
  /\ Exists(id) => rules[id].owner = owner
  /\ SameKey(owner, name) \subseteq {id}
  /\ rules[id].rev < MaxRev
  /\ rules' = [rules EXCEPT ![id] = [owner |-> owner, name |-> name, def |-> def,
                                     enabled |-> enabled, rev |-> rules[id].rev + 1]]
  /\ UNCHANGED nextId

\* Mutant: without the unique index over guild, owner and name.
UpdateAnyName(id, owner, name, def, enabled) ==
  /\ Exists(id)
  /\ rules[id].owner = owner
  /\ rules[id].rev < MaxRev
  /\ rules' = [rules EXCEPT ![id] = [owner |-> owner, name |-> name, def |-> def,
                                     enabled |-> enabled, rev |-> rules[id].rev + 1]]
  /\ UNCHANGED nextId

\* UPDATE ... WHERE id AND owner_id: no row, another owner's row and a name the
\* owner already uses all fail, and the transaction is rolled back unchanged.
UpdateRow(id, owner, name, def, enabled) ==
  /\ Exists(id)
  /\ rules[id].owner = owner
  /\ SameKey(owner, name) \subseteq {id}
  /\ rules[id].rev < MaxRev
  /\ rules' = [rules EXCEPT ![id] = [owner |-> owner, name |-> name, def |-> def,
                                     enabled |-> enabled, rev |-> rules[id].rev + 1]]
  /\ UNCHANGED nextId

InsertRow(owner, name, def, enabled) ==
  /\ Cardinality({id \in Ids : Exists(id)}) < RuleLimit
  /\ nextId \in Ids
  /\ rules' = [rules EXCEPT ![nextId] = [owner |-> owner, name |-> name, def |-> def,
                                         enabled |-> enabled, rev |-> 1]]
  /\ nextId' = nextId + 1

\* upsert_pos_automation up to its COMMIT, with an explicit automation_id.
UpsertById(id, owner, name, def, enabled) ==
  /\ LockFree
  /\ UpdateRow(id, owner, name, def, enabled)
  /\ tx' = [open |-> TRUE, rules |-> rules, nextId |-> nextId]

\* The same without one: the row is found by owner and name, or inserted.
UpsertByName(owner, name, def, enabled) ==
  /\ LockFree
  /\ \/ \E id \in SameKey(owner, name) : UpdateRow(id, owner, name, def, enabled)
     \/ SameKey(owner, name) = {} /\ InsertRow(owner, name, def, enabled)
  /\ tx' = [open |-> TRUE, rules |-> rules, nextId |-> nextId]

\* Mutant: the commit asks for the write lock that its transaction holds.
UpsertCommitNested ==
  /\ LockFree
  /\ tx' = NoTx
  /\ UNCHANGED <<rules, nextId>>

UpsertCommit ==
  /\ ~LockFree
  /\ tx' = NoTx
  /\ UNCHANGED <<rules, nextId>>

\* except BaseException: the commit failed, or the caller was cancelled.
UpsertRollback ==
  /\ ~LockFree
  /\ rules' = tx.rules
  /\ nextId' = tx.nextId
  /\ tx' = NoTx

SetEnabled(id, enabled) ==
  /\ LockFree
  /\ Exists(id)
  /\ rules[id].rev < MaxRev
  /\ rules' = [rules EXCEPT ![id].enabled = enabled, ![id].rev = @ + 1]
  /\ UNCHANGED <<nextId, tx>>

Delete(id) ==
  /\ LockFree
  /\ Exists(id)
  /\ rules' = [rules EXCEPT ![id] = NoRule]
  /\ UNCHANGED <<nextId, tx>>

\* The process dies: SQLite drops what was not committed.
StoreCrash ==
  /\ rules' = Committed
  /\ nextId' = CommittedNext
  /\ tx' = NoTx
=============================================================================
