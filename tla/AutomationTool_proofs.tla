------------------------ MODULE AutomationTool_proofs ------------------------
(***************************************************************************)
(* Proofs about AutomationTool, for any number of concurrent calls, rules  *)
(* and authors.                                                            *)
(***************************************************************************)
EXTENDS AutomationTool, RuleStore_proofs

\* What a call holds of its request and of the row it has read: a call that goes
\* on to write has read the row, and a beta author's call a row of the author's.
CallInv(c) ==
  /\ pc[c] # "idle" => req[c] \in Request
  /\ pc[c] \in {"recheck", "write", "commit"} /\ req[c].op # "create" =>
       /\ seen[c] \in Rule
       /\ req[c].author # Owner => seen[c].owner = req[c].author

ToolInv ==
  /\ TypeOK
  /\ StoreInv
  /\ \A c \in Calls : CallInv(c)

\* The arguments of a request, by its operation (automation_rules.py:277-300).
LEMMA RequestType ==
  ASSUME NEW r \in Request
  PROVE  /\ r.author \in Authors
         /\ r.op \in {"create", "update", "pause", "delete"}
         /\ r.op = "create" => r.name \in Names /\ r.def \in Defs
         /\ r.op # "create" => r.id \in Ids
         /\ r.op = "update" => /\ r.name \in Names \cup {Keep}
                               /\ r.def \in Defs \cup {Keep}
                               /\ r.enabled \in BOOLEAN \cup {Keep}
BY DEF Request

\* A call that ends keeps the types and knows nothing any more.
LEMMA ReturnInv ==
  ASSUME TypeOK, NEW c \in Calls, CallInv(c), Forget(c)
  PROVE  /\ pc' \in [Calls -> {"idle", "list", "recheck", "write", "commit"}]
         /\ req' \in [Calls -> Request \cup {NoRequest}]
         /\ seen' \in [Calls -> Rule \cup {NoRule}]
         /\ CallInv(c)' /\ barred' \subseteq Calls
BY DEF TypeOK, Forget, Goto, CallInv

\* A step of a call leaves what the other calls hold alone.
LEMMA OneCall ==
  ASSUME TypeOK, NEW c \in Calls, NEW d \in Calls, d # c,
         CallStep(c) \/ \E r \in Request : Call(c, r)
  PROVE  pc'[d] = pc[d] /\ req'[d] = req[d] /\ seen'[d] = seen[d]
<1> USE DEF TypeOK, Goto
<1>1. CASE Forget(c)
  BY <1>1 DEF Forget
<1>2. CASE List(c) \/ Recheck(c)
  BY <1>1, <1>2 DEF List, Recheck, Return
<1>3. CASE Upsert(c) \/ \E r \in Request : Call(c, r)
  BY <1>3 DEF Upsert, Call
<1> QED BY <1>1, <1>2, <1>3 DEF CallStep, Proceed, Commit, Pause, Remove, Fail, Cancel, Abort, Return

\* The upsert of a call has arguments of their kinds: what the call does not pass
\* comes from the row it has read (automation_rules.py:322-345).
LEMMA UpsertStep ==
  ASSUME TypeOK, NEW c \in Calls, CallInv(c), Upsert(c)
  PROVE  ForwardStep
<1>1. req[c] \in Request /\ pc[c] = "write"
  BY DEF Upsert, CallInv
<1>2. CASE req[c].op = "create" /\ CreateRow(req[c])
  BY <1>1, <1>2, RequestType DEF CreateRow, ForwardStep
<1>3. CASE req[c].op = "update" /\ UpdateMerged(req[c], seen[c])
  <2>1. seen[c] \in Rule
    BY <1>1, <1>3 DEF CallInv
  <2>2. seen[c].owner \in Authors /\ seen[c].name \in Names /\ seen[c].def \in Defs /\ seen[c].enabled \in BOOLEAN
    BY <2>1 DEF Rule
  <2>3. /\ req[c].name \in Names \cup {Keep} /\ req[c].def \in Defs \cup {Keep}
        /\ req[c].enabled \in BOOLEAN \cup {Keep} /\ req[c].id \in Ids
    BY <1>1, <1>3, RequestType
  <2>4. /\ Or(req[c].name, seen[c].name) \in Names
        /\ Or(req[c].def, seen[c].def) \in Defs
    BY <2>2, <2>3 DEF Or
  <2>5. Or(req[c].enabled, seen[c].enabled) \in BOOLEAN
    BY <2>2, <2>3 DEF Or
  <2> QED BY <1>3, <2>2, <2>3, <2>4, <2>5 DEF UpdateMerged, ForwardStep
<1> QED BY <1>2, <1>3 DEF Upsert

\* Every step is a transaction of the rule table, or leaves it alone.
LEMMA StepIsStoreStep ==
  ASSUME ToolInv, [Next]_vars
  PROVE  StoreStep \/ UNCHANGED storeVars
<1>1. ASSUME NEW c \in Calls, CallStep(c) PROVE StoreStep \/ UNCHANGED storeVars
  <2>1. CASE Upsert(c)
    BY <2>1, UpsertStep DEF ToolInv, StoreStep
  <2>2. CASE Commit(c) \/ Abort(c)
    BY <2>2 DEF Commit, Abort, StoreStep, ForwardStep
  <2>3. CASE Pause(c) \/ Remove(c)
    <3>1. pc[c] = "write" /\ req[c].op \in {"pause", "delete"}
      BY <2>3 DEF Pause, Remove
    <3>2. req[c].id \in Ids
      BY <3>1, RequestType DEF ToolInv, CallInv
    <3> QED BY <2>3, <3>2 DEF Pause, Remove, StoreStep, ForwardStep
  <2>4. CASE List(c) \/ Recheck(c) \/ Fail(c) \/ Cancel(c)
    BY <2>4 DEF List, Recheck, Fail, Cancel
  <2> QED BY <1>1, <2>1, <2>2, <2>3, <2>4 DEF CallStep, Proceed
<1>2. CASE Crash
  BY <1>2 DEF Crash, StoreStep
<1>3. CASE \/ \E c \in Calls, r \in Request : Call(c, r)
           \/ \E b \in Betas : SetGrant(b)
           \/ UNCHANGED vars
  BY <1>3 DEF Call, SetGrant, vars, storeVars
<1> QED BY <1>1, <1>2, <1>3 DEF Next

\* A step of a call keeps the types and what the call knows
\* (automation_rules.py:277-365).
LEMMA CallStepInv ==
  ASSUME TypeOK, StoreTypeOK', NEW c \in Calls, CallInv(c),
         CallStep(c) \/ \E r \in Request : Call(c, r)
  PROVE  TypeOK' /\ CallInv(c)'
<1> USE DEF TypeOK, Goto
<1>1. CASE Return(c) /\ UNCHANGED grants
  BY <1>1, ReturnInv DEF Return
<1>6. CASE Abort(c)
  BY <1>6, ReturnInv DEF Abort
<1>2. CASE List(c) /\ ~Return(c)
  <2>1. pc[c] = "list" /\ req[c] \in Request /\ UNCHANGED <<req, phantom, barred, grants>> /\ MayWrite(req[c], rules)
    BY <1>2 DEF List, CallInv
  <2>2. pc' = [pc EXCEPT ![c] = IF req[c].author = Owner THEN "write" ELSE "recheck"]
    BY <1>2, <2>1 DEF List
  <2>3. seen' = [seen EXCEPT ![c] = IF req[c].op = "create" THEN NoRule ELSE rules[req[c].id]]
    BY <1>2, <2>1 DEF List
  <2>4. CASE req[c].op = "create"
    <3>1. seen' = [seen EXCEPT ![c] = NoRule]
      BY <2>3, <2>4
    <3>2. pc'[c] \in {"write", "recheck"} /\ pc' \in [Calls -> {"idle", "list", "recheck", "write", "commit"}]
      BY <2>2
    <3> QED BY <2>1, <2>4, <3>1, <3>2 DEF CallInv
  <2>5. CASE req[c].op # "create"
    <3>1. /\ rules[req[c].id] \in Rule
          /\ req[c].author = Owner \/ rules[req[c].id].owner = req[c].author
      <4>1. req[c].id \in Ids
        BY <2>1, <2>5, RequestType
      <4> QED BY <2>1, <2>5, <4>1 DEF MayWrite, StoreTypeOK, Table
    <3>2. seen' = [seen EXCEPT ![c] = rules[req[c].id]]
      BY <2>3, <2>5
    <3>3. pc'[c] \in {"write", "recheck"} /\ pc' \in [Calls -> {"idle", "list", "recheck", "write", "commit"}]
      BY <2>2
    <3> QED BY <2>1, <3>1, <3>2, <3>3 DEF CallInv
  <2> QED BY <2>4, <2>5
<1>3. CASE Recheck(c) /\ ~Return(c)
  BY <1>3 DEF Recheck, CallInv
<1>4. CASE Upsert(c)
  BY <1>4 DEF Upsert, CallInv
<1>5. CASE \E r \in Request : Call(c, r)
  BY <1>5 DEF Call, CallInv
<1> QED BY <1>1, <1>2, <1>3, <1>4, <1>5, <1>6
      DEF CallStep, Proceed, List, Recheck, Commit, Pause, Remove, Fail, Cancel

\* Calls start with an empty table.
LEMMA ToolInvInit == Init => ToolInv
<1> SUFFICES ASSUME Init PROVE ToolInv
  OBVIOUS
<1>1. StoreTypeOK
  BY StoreAssumption DEF Init, StoreInit, StoreTypeOK, Table
<1>2. TypeOK /\ \A c \in Calls : CallInv(c)
  BY <1>1 DEF Init, TypeOK, CallInv
<1> QED BY <1>2, StoreInvInit DEF Init, ToolInv

\* Every step keeps the types, the tables and what the calls know.
LEMMA ToolInvStep ==
  ASSUME ToolInv, [Next]_vars
  PROVE  ToolInv' /\ Later(Committed, CommittedNext, Committed', CommittedNext')
<1>1. StoreStep \/ UNCHANGED storeVars
  BY StepIsStoreStep
<1>2. StoreTypeOK'
  BY <1>1, StoreStepType DEF ToolInv, TypeOK, storeVars, StoreTypeOK
<1>3. StoreInv' /\ Later(Committed, CommittedNext, Committed', CommittedNext')
  BY <1>1, StoreInvStep DEF ToolInv, TypeOK
<1>4. TypeOK' /\ \A c \in Calls : CallInv(c)'
  <2>1. ASSUME NEW c \in Calls, CallStep(c) \/ \E r \in Request : Call(c, r)
        PROVE  TypeOK' /\ \A d \in Calls : CallInv(d)'
    <3>1. TypeOK' /\ CallInv(c)'
      BY <1>2, <2>1, CallStepInv DEF ToolInv
    <3>2. ASSUME NEW d \in Calls, d # c PROVE CallInv(d)'
      BY <2>1, <3>2, OneCall DEF ToolInv, CallInv
    <3> QED BY <3>1, <3>2
  <2>2. CASE Crash
    BY <1>2, <2>2 DEF Crash, ToolInv, TypeOK, CallInv
  <2>3. CASE \E b \in Betas : SetGrant(b)
    <3>1. UNCHANGED <<pc, req, seen, phantom>> /\ grants' \subseteq Betas /\ barred' \subseteq Calls
      BY <2>3 DEF SetGrant, Deciding, ToolInv, TypeOK
    <3> QED BY <1>2, <3>1 DEF ToolInv, TypeOK, CallInv
  <2>4. CASE UNCHANGED vars
    BY <1>2, <2>4 DEF vars, ToolInv, TypeOK, CallInv
  <2> QED BY <2>1, <2>2, <2>3, <2>4 DEF Next
<1> QED BY <1>3, <1>4 DEF ToolInv

\* However many calls interleave, roll back or are lost in a crash, the invariant
\* of the tables and of the calls holds.
THEOREM ToolSafe == Spec => []ToolInv
<1>1. ToolInv /\ [Next]_vars => ToolInv'
  BY ToolInvStep
<1> QED BY <1>1, ToolInvInit, PTL DEF Spec

\* The guild never has more rules than its limit, and no author two rules of one
\* name, for any number of concurrent calls (storage.py:572-607, 438).
THEOREM TablesAreSound == Spec => []TableSound
<1>1. ToolInv => TableSound
  BY DEF ToolInv, TableSound, StoreInv, Sound, Fits, KeysDiffer, Exists
<1> QED BY <1>1, ToolSafe, PTL

\* No call undoes what another one has committed: a deleted rule stays deleted,
\* and a rule that changed is a later revision of its owner's, whatever was read
\* before (storage.py:578-592, 426, 660).
THEOREM VersionsAreKept == Spec => VersionsKept
<1>1. ASSUME ToolInv, [Next]_vars
      PROVE  \A id \in Ids : id < CommittedNext /\ Committed[id] = NoRule => Committed'[id] = NoRule
  BY <1>1, ToolInvStep DEF Later
<1>2. ASSUME ToolInv, [Next]_vars
      PROVE  \A id \in Ids : Committed[id] # NoRule /\ Committed'[id] \notin {NoRule, Committed[id]} =>
               /\ Committed'[id].owner = Committed[id].owner
               /\ Committed'[id].rev > Committed[id].rev
  BY <1>2, ToolInvStep DEF ToolInv, StoreInv, Sound, Handed, Later
<1> QED BY <1>1, <1>2, ToolSafe, PTL DEF Spec, VersionsKept, NoResurrection, ChangesAreVersions

-----------------------------------------------------------------------------
\* Whose rules a call changes.

\* The row a call has read is still the row of that id, or is gone, or waits for
\* its COMMIT; unless its insert has been rolled back since.
RowKept(c) ==
  pc[c] \in {"recheck", "write"} /\ req[c].op # "create" /\ c \notin phantom =>
    \/ HoldsInserted(c) /\ rules[req[c].id].owner = seen[c].owner
    \/ /\ req[c].id < CommittedNext
       /\ Committed[req[c].id] = NoRule \/ Committed[req[c].id].owner = seen[c].owner

\* The open transaction of a beta author's call has changed the author's rows.
OwnChanges(c) ==
  pc[c] = "commit" /\ req[c].author # Owner =>
    \A id \in Ids : Committed[id] # NoRule /\ rules[id] # Committed[id] =>
      Committed[id].owner = req[c].author

\* The open transaction is that of one call.
OneWriter ==
  /\ \A c \in Calls : pc[c] = "commit" => ~LockFree
  /\ \A c, d \in Calls : pc[c] = "commit" /\ pc[d] = "commit" => c = d

OwnInv == OneWriter /\ \A c \in Calls : RowKept(c) /\ OwnChanges(c)

\* The upsert of a beta author's call falls on a row of the author's: by name it
\* is looked for among them, by id its WHERE names the owner of the row the call
\* has read (storage.py:575-592).
LEMMA UpsertOwn ==
  ASSUME ToolInv, NEW c \in Calls, Upsert(c)
  PROVE  /\ OwnChanges(c)' /\ LockFree /\ ~LockFree'
         /\ Committed' = Committed /\ CommittedNext' = CommittedNext
<1>1. /\ pc[c] = "write" /\ req[c] \in Request /\ req' = req
      /\ req[c].author \in Authors
  BY RequestType DEF Upsert, ToolInv, CallInv
<1>2. LockFree /\ tx' = [open |-> TRUE, rules |-> rules, nextId |-> nextId]
  BY DEF Upsert, CreateRow, UpdateMerged, UpsertByName, UpsertById
<1>3. tx' # NoTx
  BY <1>2 DEF NoTx
<1>4. Committed' = rules /\ Committed = rules /\ CommittedNext' = CommittedNext
  BY <1>2, <1>3 DEF Committed, CommittedNext, LockFree
<1>5. rules \in Table
  BY DEF ToolInv, TypeOK, StoreTypeOK
<1>6. ASSUME req[c].author # Owner, NEW id \in Ids, rules[id] # NoRule, rules'[id] # rules[id]
      PROVE  rules[id].owner = req[c].author
  <2>1. CASE req[c].op = "create" /\ CreateRow(req[c])
    <3>1. CASE \E i \in SameKey(req[c].author, req[c].name) :
                 UpdateRow(i, req[c].author, req[c].name, req[c].def, TRUE)
      BY <1>5, <1>6, <3>1 DEF UpdateRow, SameKey, Table
    <3>2. CASE InsertRow(req[c].author, req[c].name, req[c].def, TRUE)
      <4>1. id = nextId
        BY <1>5, <1>6, <3>2 DEF InsertRow, Table
      <4>2. rules[nextId] = NoRule
        <5>1. nextId \in Int
          BY DEF ToolInv, TypeOK, StoreTypeOK
        <5> QED BY <1>6, <4>1, <5>1 DEF ToolInv, StoreInv, Sound, Handed
      <4> QED BY <1>6, <4>1, <4>2
    <3> QED BY <2>1, <3>1, <3>2 DEF CreateRow, UpsertByName
  <2>2. CASE req[c].op = "update" /\ UpdateMerged(req[c], seen[c])
    <3>1. req[c].id = id /\ rules[id].owner = seen[c].owner
      BY <1>5, <1>6, <2>2 DEF UpdateMerged, UpsertById, UpdateRow, Table
    <3>2. seen[c].owner = req[c].author
      BY <1>1, <1>6, <2>2 DEF ToolInv, CallInv
    <3> QED BY <3>1, <3>2
  <2> QED BY <2>1, <2>2 DEF Upsert
<1>7. OwnChanges(c)'
  BY <1>1, <1>4, <1>6 DEF OwnChanges
<1> QED BY <1>2, <1>3, <1>4, <1>7 DEF LockFree

\* The row that a call reads is a row of the table or of the open transaction.
LEMMA ListKept ==
  ASSUME ToolInv, NEW c \in Calls, List(c), ~Return(c), req[c].op # "create"
  PROVE  RowKept(c)'
<1>1. /\ req[c] \in Request /\ MayWrite(req[c], rules) /\ UNCHANGED <<req, storeVars, phantom>>
      /\ seen' = [seen EXCEPT ![c] = IF req[c].op = "create" THEN NoRule ELSE rules[req[c].id]]
      /\ pc'[c] \in {"recheck", "write"}
  BY DEF List, ToolInv, TypeOK, CallInv, Goto
<1>2. req[c].id \in Ids /\ rules[req[c].id] # NoRule
  BY <1>1, RequestType DEF MayWrite
<1>3. seen'[c] = rules[req[c].id]
  BY <1>1 DEF ToolInv, TypeOK
<1>4. Committed' = Committed /\ CommittedNext' = CommittedNext /\ rules' = rules
  BY <1>1 DEF storeVars, Committed, CommittedNext
<1>5. CASE Committed[req[c].id] = NoRule
  BY <1>1, <1>2, <1>3, <1>4, <1>5 DEF RowKept, HoldsInserted, Exists
<1>6. CASE Committed[req[c].id] # NoRule
  <2>1. req[c].id < CommittedNext
    BY <1>2, <1>6 DEF ToolInv, StoreInv, Sound, Handed
  <2>2. Committed[req[c].id].owner = rules[req[c].id].owner
    BY <1>2, <1>6, <2>1 DEF ToolInv, StoreInv, Later
  <2> QED BY <1>1, <1>3, <1>4, <2>1, <2>2 DEF RowKept
<1> QED BY <1>5, <1>6
\* A step of another call that leaves no insert of its own behind keeps the row
\* that a call has read: a pending insert is committed or rolled back, and what
\* is committed only moves forward (storage.py:575-626).
LEMMA OtherKept ==
  ASSUME ToolInv, OwnInv, ToolInv', NEW c \in Calls, CallStep(c),
         NEW d \in Calls, pc'[d] = pc[d], req'[d] = req[d], seen'[d] = seen[d], d # c
  PROVE  RowKept(d)'
<1> SUFFICES ASSUME pc[d] \in {"recheck", "write"}, req[d].op # "create", d \notin phantom'
             PROVE  RowKept(d)'
  BY DEF RowKept
<1> DEFINE id == req[d].id
<1>1. id \in Ids /\ id \in Int /\ CommittedNext \in Int /\ CommittedNext' \in Int
  <2>1. id \in Ids
    BY RequestType DEF ToolInv, CallInv
  <2>2. CommittedNext \in Int /\ CommittedNext' \in Int
    <3>1. nextId \in Int /\ nextId' \in Int /\ tx \in OpenTx \cup {NoTx} /\ tx' \in OpenTx \cup {NoTx}
      BY DEF ToolInv, TypeOK, StoreTypeOK
    <3>2. \A t \in OpenTx : t.nextId \in Int
      BY DEF OpenTx
    <3> QED BY <3>1, <3>2 DEF CommittedNext
  <2> QED BY <2>1, <2>2 DEF Ids
<1>2. Later(Committed, CommittedNext, Committed', CommittedNext')
  BY ToolInvStep DEF Next
<1>3. ASSUME id < CommittedNext, Committed[id] = NoRule \/ Committed[id].owner = seen[d].owner
      PROVE  RowKept(d)'
  BY <1>1, <1>2, <1>3 DEF RowKept, Later
<1>4. ASSUME d \notin phantom, HoldsInserted(d), rules[id].owner = seen[d].owner
      PROVE  RowKept(d)'
  <2>1. ~LockFree
    BY <1>4 DEF HoldsInserted, LockFree, Committed, Exists
  <2>2. CASE Commit(c)
    <3>1. Committed' = rules /\ rules' = rules
      BY <2>2 DEF Commit, UpsertCommit, Committed
    <3>2. id < CommittedNext'
      BY <1>1, <1>4, <3>1 DEF HoldsInserted, Exists, ToolInv, StoreInv, Sound, Handed
    <3> QED BY <1>4, <3>1, <3>2 DEF RowKept
  <2>3. CASE Abort(c)
    <3>1. d \in phantom'
      BY <1>4, <2>3 DEF Abort
    <3> QED BY <3>1
  <2>4. CASE UNCHANGED storeVars
    BY <1>4, <2>4 DEF RowKept, HoldsInserted, Exists, Committed, storeVars
  <2>5. ~Upsert(c) /\ ~Pause(c) /\ ~Remove(c)
    BY <2>1 DEF Upsert, CreateRow, UpdateMerged, UpsertByName, UpsertById, Pause, SetEnabled, Remove, Delete
  <2> QED BY <2>2, <2>3, <2>4, <2>5 DEF CallStep, Proceed, List, Recheck, Fail, Cancel
<1>5. d \notin phantom
  <2>1. phantom' = phantom \/ phantom' = phantom \ {c} \/ Abort(c)
    BY DEF CallStep, Proceed, List, Recheck, Upsert, Commit, Pause, Remove, Fail, Cancel, Return
  <2> QED BY <2>1 DEF Abort
<1> QED BY <1>3, <1>4, <1>5 DEF OwnInv, RowKept

\* Each step of a call keeps these facts.
LEMMA OwnCallStep ==
  ASSUME ToolInv, OwnInv, NEW c \in Calls, CallStep(c)
  PROVE  OwnInv'
<1>0. pc \in [Calls -> {"idle", "list", "recheck", "write", "commit"}] /\ req \in [Calls -> Request \cup {NoRequest}]
      /\ seen \in [Calls -> Rule \cup {NoRule}] /\ rules \in Table /\ nextId \in Int
  BY DEF ToolInv, TypeOK, StoreTypeOK
<1>1. \A d \in Calls : d # c => pc'[d] = pc[d] /\ req'[d] = req[d] /\ seen'[d] = seen[d]
  BY OneCall DEF ToolInv
<1>2. ToolInv'
  BY ToolInvStep DEF Next
<1>3. \A d \in Calls : d # c => RowKept(d)'
  BY <1>1, <1>2, OtherKept
<1>4. ASSUME pc'[c] \in {"idle", "list", "commit"} PROVE RowKept(c)'
  BY <1>4 DEF RowKept
<1>5. CASE Upsert(c)
  <2>1. pc'[c] = "commit" /\ OwnChanges(c)' /\ LockFree /\ ~LockFree'
    BY <1>0, <1>5, UpsertOwn DEF Upsert, Goto
  <2>2. \A d \in Calls : d # c => pc'[d] # "commit"
    BY <1>1, <2>1 DEF OwnInv, OneWriter
  <2>3. \A d \in Calls : RowKept(d)'
    BY <1>3, <1>4, <2>1
  <2>4. \A d \in Calls : OwnChanges(d)'
    BY <2>1, <2>2 DEF OwnChanges
  <2> QED BY <2>1, <2>2, <2>3, <2>4 DEF OwnInv, OneWriter
<1>6. CASE Commit(c) \/ Abort(c) \/ Pause(c) \/ Remove(c)
  <2>1. pc'[c] = "idle" /\ \A d \in Calls : d # c => pc[d] # "commit"
    <3>1. CASE Commit(c) \/ Abort(c)
      BY <1>0, <3>1 DEF Commit, Abort, Return, Forget, Goto, OwnInv, OneWriter
    <3>2. CASE Pause(c) \/ Remove(c)
      BY <1>0, <3>2 DEF Pause, Remove, SetEnabled, Delete, Return, Forget, Goto, OwnInv, OneWriter
    <3> QED BY <1>6, <3>1, <3>2
  <2>2. \A d \in Calls : pc'[d] # "commit"
    BY <1>1, <2>1
  <2>3. \A d \in Calls : RowKept(d)'
    BY <1>3, <1>4, <2>1
  <2> QED BY <2>2, <2>3 DEF OwnInv, OneWriter, OwnChanges
<1>7. ASSUME UNCHANGED storeVars, pc'[c] # "commit", RowKept(c)'
      PROVE  OwnInv'
  <2>1. Committed' = Committed /\ LockFree' = LockFree /\ rules' = rules
    BY <1>7 DEF storeVars, Committed, LockFree
  <2>2. \A d \in Calls : OwnChanges(d)'
    BY <1>1, <1>7, <2>1 DEF OwnInv, OwnChanges
  <2>3. OneWriter'
    BY <1>1, <1>7, <2>1 DEF OwnInv, OneWriter
  <2>4. \A d \in Calls : RowKept(d)'
    BY <1>3, <1>7
  <2> QED BY <2>2, <2>3, <2>4 DEF OwnInv
<1>8. CASE List(c)
  <2>1. UNCHANGED storeVars /\ pc'[c] # "commit"
    BY <1>0, <1>8 DEF List, Return, Forget, Goto
  <2>2. RowKept(c)'
    <3>1. CASE Return(c)
      BY <1>0, <3>1 DEF Return, Forget, Goto, RowKept
    <3>2. CASE ~Return(c) /\ req[c].op # "create"
      BY <1>8, <3>2, ListKept
    <3>3. CASE ~Return(c) /\ req[c].op = "create"
      BY <1>8, <3>3 DEF List, RowKept
    <3> QED BY <3>1, <3>2, <3>3
  <2> QED BY <1>7, <2>1, <2>2
<1>9. CASE Recheck(c)
  <2>1. UNCHANGED storeVars /\ pc'[c] # "commit"
    BY <1>0, <1>9 DEF Recheck, Return, Forget, Goto
  <2>2. CASE Return(c)
    BY <1>0, <1>7, <2>1, <2>2 DEF Return, Forget, Goto, RowKept
  <2>3. CASE ~Return(c)
    <3>1. pc[c] = "recheck" /\ pc' = [pc EXCEPT ![c] = "write"] /\ UNCHANGED <<req, seen, phantom>>
      BY <1>9, <2>3 DEF Recheck, Goto
    <3>2. Committed' = Committed /\ CommittedNext' = CommittedNext /\ rules' = rules
      BY <2>1 DEF storeVars, Committed, CommittedNext
    <3>3. RowKept(c)'
      BY <1>0, <3>1, <3>2 DEF OwnInv, RowKept, HoldsInserted, Exists
    <3> QED BY <1>7, <2>1, <3>3
  <2> QED BY <2>2, <2>3
<1>10. CASE Fail(c) \/ Cancel(c)
  <2>1. UNCHANGED storeVars /\ pc'[c] \in {"idle", "list"}
    BY <1>0, <1>10 DEF Fail, Cancel, Return, Forget, Goto
  <2> QED BY <1>4, <1>7, <2>1
<1> QED BY <1>5, <1>6, <1>8, <1>9, <1>10 DEF CallStep, Proceed

\* So do a new call, the grants and a crash, after which no call is left.
LEMMA OwnInvStep ==
  ASSUME ToolInv, OwnInv, [Next]_vars
  PROVE  OwnInv'
<1>1. CASE Crash
  BY <1>1 DEF Crash, OwnInv, OneWriter, RowKept, OwnChanges
<1>2. CASE (\E b \in Betas : SetGrant(b)) \/ UNCHANGED vars
  BY <1>2 DEF SetGrant, vars, storeVars, OwnInv, OneWriter, RowKept, HoldsInserted, Exists, OwnChanges, Committed,
              CommittedNext, LockFree
<1>3. ASSUME NEW c \in Calls, NEW r \in Request, Call(c, r) PROVE OwnInv'
  <2>1. /\ pc' = [pc EXCEPT ![c] = "list"] /\ pc[c] = "idle"
        /\ \A d \in Calls : d # c => pc'[d] = pc[d] /\ req'[d] = req[d] /\ seen'[d] = seen[d]
    BY <1>3 DEF Call, Goto, ToolInv, TypeOK
  <2>2. /\ phantom' = phantom /\ rules' = rules /\ Committed' = Committed /\ CommittedNext' = CommittedNext
        /\ LockFree' = LockFree
    BY <1>3 DEF Call, storeVars, Committed, CommittedNext, LockFree
  <2>3. \A d \in Calls : RowKept(d)' /\ OwnChanges(d)'
    BY <2>1, <2>2 DEF OwnInv, RowKept, HoldsInserted, Exists, OwnChanges
  <2>4. OneWriter'
    BY <2>1, <2>2 DEF OwnInv, OneWriter
  <2> QED BY <2>3, <2>4 DEF OwnInv
<1> QED BY <1>1, <1>2, <1>3, OwnCallStep DEF Next

\* A step of a beta author's call that changes what is committed changes a rule of
\* that author, unless the row that the call holds has been rolled back.
LEMMA OwnEdit ==
  ASSUME ToolInv, OwnInv, [Next]_vars,
         NEW c \in Calls, NEW id \in Ids, c \notin phantom,
         pc[c] # pc'[c], req[c] # NoRequest, req[c].author \in Betas,
         Committed[id] # NoRule, Committed'[id] # Committed[id]
  PROVE  Committed[id].owner = req[c].author
<1>0. req[c].author # Owner
  BY StoreAssumption
<1>1. CallStep(c)
  <2>1. ~Crash
    BY DEF Crash, StoreCrash, Committed
  <2>2. ~(\E d \in Calls, r \in Request : Call(d, r)) /\ ~(\E b \in Betas : SetGrant(b)) /\ ~(UNCHANGED vars)
    BY DEF Call, SetGrant, vars, storeVars, Committed
  <2>3. PICK d \in Calls : CallStep(d)
    BY <2>1, <2>2 DEF Next
  <2>4. d = c
    BY <2>3, OneCall DEF ToolInv
  <2> QED BY <2>3, <2>4
<1>2. ~(UNCHANGED storeVars)
  BY DEF storeVars, Committed
<1>3. CASE Commit(c)
  <2>1. Committed' = rules
    BY <1>3 DEF Commit, UpsertCommit, Committed
  <2> QED BY <1>0, <1>3, <2>1 DEF Commit, OwnInv, OwnChanges
<1>4. CASE Upsert(c)
  BY <1>4, UpsertOwn
<1>5. CASE Abort(c)
  BY <1>5 DEF Abort, UpsertRollback, Committed, LockFree
<1>6. CASE Pause(c) \/ Remove(c)
  <2>1. /\ pc[c] = "write" /\ req[c].op # "create" /\ LockFree
        /\ \A i \in Ids : i # req[c].id => rules'[i] = rules[i]
    BY <1>6 DEF Pause, Remove, SetEnabled, Delete, ToolInv, TypeOK, StoreTypeOK, Table
  <2>2. Committed = rules /\ Committed' = rules'
    BY <1>6, <2>1 DEF Pause, Remove, SetEnabled, Delete, LockFree, Committed
  <2>3. id = req[c].id
    BY <2>1, <2>2
  <2>4. rules[id].owner = seen[c].owner
    BY <2>1, <2>2, <2>3 DEF OwnInv, RowKept
  <2>5. seen[c].owner = req[c].author
    BY <1>0, <2>1 DEF ToolInv, CallInv
  <2> QED BY <2>2, <2>4, <2>5
<1> QED BY <1>1, <1>2, <1>3, <1>4, <1>5, <1>6 DEF CallStep, Proceed, List, Recheck, Fail, Cancel

\* A call whose author lost access before it was let through is not let through
\* while the access is missing: the check is read again after the rules.
BarredInv(c) ==
  c \in barred => pc[c] \in {"list", "recheck"} /\ req[c].author \in Betas \ grants

\* Every step keeps that (automation_rules.py:304-311).
LEMMA BarredInvStep ==
  ASSUME ToolInv, \A c \in Calls : BarredInv(c), [Next]_vars
  PROVE  \A c \in Calls : BarredInv(c)'
<1>1. ASSUME NEW c \in Calls, CallStep(c) \/ \E r \in Request : Call(c, r)
      PROVE  \A d \in Calls : BarredInv(d)'
  <2>1. grants' = grants /\ barred' \subseteq barred
    BY <1>1 DEF CallStep, Proceed, List, Recheck, Upsert, Commit, Pause, Remove, Fail, Cancel, Abort,
                Return, Forget, Call
  <2>2. ASSUME NEW d \in Calls, d # c PROVE BarredInv(d)'
    BY <1>1, <2>1, <2>2, OneCall DEF ToolInv, BarredInv
  <2>3. BarredInv(c)'
    <3>1. CASE Forget(c)
      BY <3>1 DEF Forget, BarredInv
    <3>2. CASE List(c) /\ ~Forget(c)
      <4>1. CASE c \in barred
        <5>1. req[c].author # Owner
          BY <4>1, StoreAssumption DEF BarredInv
        <5>2. pc' = [pc EXCEPT ![c] = "recheck"] /\ req' = req
          BY <3>2, <5>1 DEF List, Return, Goto
        <5>3. pc'[c] = "recheck"
          BY <5>2 DEF ToolInv, TypeOK
        <5> QED BY <2>1, <4>1, <5>2, <5>3 DEF BarredInv
      <4> QED BY <2>1, <4>1 DEF BarredInv
    <3>3. CASE Recheck(c) /\ ~Forget(c)
      BY <2>1, <3>3 DEF Recheck, Return, BarredInv
    <3>4. CASE Upsert(c) \/ \E r \in Request : Call(c, r)
      BY <2>1, <3>4 DEF Upsert, Call, BarredInv
    <3> QED BY <1>1, <3>1, <3>2, <3>3, <3>4
          DEF CallStep, Proceed, Commit, Pause, Remove, Fail, Cancel, Abort, Return
  <2> QED BY <2>2, <2>3
<1>2. ASSUME NEW b \in Betas, SetGrant(b) PROVE \A d \in Calls : BarredInv(d)'
  BY <1>2 DEF SetGrant, Deciding, BarredInv
<1>3. CASE Crash \/ UNCHANGED vars
  BY <1>3 DEF Crash, vars, BarredInv
<1> QED BY <1>1, <1>2, <1>3 DEF Next

\* However calls, cancellations inside a transaction, changes of access and
\* crashes interleave, a beta author changes and deletes only rules of their own,
\* whatever the rows have become since the call read them, unless the row it read
\* never was: its insert has been rolled back; and a call whose author lost access
\* before its check writes nothing (automation_rules.py:304-317).
THEOREM BetasEditOwn == Spec => BetasStayWithin
<1>1. Init => OwnInv /\ \A c \in Calls : BarredInv(c)
  BY DEF Init, OwnInv, OneWriter, RowKept, OwnChanges, BarredInv
<1>2. ToolInv /\ OwnInv /\ [Next]_vars => OwnInv'
  BY OwnInvStep
<1>3. ToolInv /\ (\A c \in Calls : BarredInv(c)) /\ [Next]_vars => (\A c \in Calls : BarredInv(c))'
  BY BarredInvStep
<1>4. ASSUME ToolInv, OwnInv, [Next]_vars
      PROVE  \A c \in Calls : ForeignEdit(c) => c \in phantom
  BY <1>4, OwnEdit DEF ForeignEdit
<1>5. ASSUME ToolInv, \A c \in Calls : BarredInv(c)
      PROVE  \A c \in barred : ~Writes(c)
  BY <1>5 DEF ToolInv, TypeOK, BarredInv, Writes
<1> QED BY <1>1, <1>2, <1>3, <1>4, <1>5, ToolSafe, PTL DEF Spec, BetasStayWithin, OwnUnlessPhantom, BarredWriteNothing
=============================================================================
