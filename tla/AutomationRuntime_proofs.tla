----------------------- MODULE AutomationRuntime_proofs -----------------------
(***************************************************************************)
(* Proofs about AutomationRuntime, for any number of tasks, rules, events  *)
(* and steps.                                                              *)
(***************************************************************************)
EXTENDS AutomationRuntime, RuleStore_proofs

\* Leaving an event or a rule puts the task's variables back to values of their
\* kinds (automation_rules.py:500-506).
LEMMA LeaveType ==
  ASSUME TypeOK, NEW t \in Tasks, LeaveTask(t) \/ NextRule(t)
  PROVE  /\ pc' \in [Tasks -> PCs]
         /\ key' \in [Tasks -> Keys \cup {NoKey}]
         /\ listed' \in [Tasks -> SUBSET Snapshot]
         /\ todo' \in [Tasks -> SUBSET Snapshot]
         /\ cur' \in [Tasks -> Snapshot \cup {NoRun}]
         /\ step' \in [Tasks -> 0 .. MaxStep]
         /\ live' \in [Tasks -> BOOLEAN]
         /\ suppress' \in [Tasks -> BOOLEAN]
         /\ outcome' \in [Tasks -> Terminal]
         /\ late' \in [Tasks -> Nat]
         /\ pc'[t] \in {"idle", "rule"}
         /\ pc'[t] # "idle" => key'[t] = key[t]
         /\ \A u \in Tasks \ {t} : pc'[u] = pc[u] /\ key'[u] = key[u] /\ cur'[u] = cur[u]
<1> USE DEF TypeOK
<1>0. MaxStep \in Nat
  BY RuntimeAssumption
<1>1. CASE LeaveTask(t)
  BY <1>0, <1>1 DEF LeaveTask, PCs, Terminal
<1>2. ASSUME NextRule(t), todo[t] # {}
      PROVE  /\ Goto(t, "rule")
             /\ cur' = [cur EXCEPT ![t] = NoRun]
             /\ step' = [step EXCEPT ![t] = 0]
             /\ live' = [live EXCEPT ![t] = FALSE]
             /\ outcome' = [outcome EXCEPT ![t] = "completed"]
             /\ late' = [late EXCEPT ![t] = 0]
             /\ UNCHANGED <<key, listed, todo, suppress>>
  BY <1>2 DEF NextRule
<1>3. CASE NextRule(t) /\ todo[t] # {}
  <2> USE <1>0, <1>2, <1>3
  <2>1. pc' \in [Tasks -> PCs]
    BY DEF Goto, PCs, InSlot
  <2>2. cur' \in [Tasks -> Snapshot \cup {NoRun}]
    OBVIOUS
  <2>3. step' \in [Tasks -> 0 .. MaxStep] /\ late' \in [Tasks -> Nat]
    OBVIOUS
  <2>4. live' \in [Tasks -> BOOLEAN] /\ outcome' \in [Tasks -> Terminal]
    BY DEF Terminal
  <2>5. pc'[t] = "rule" /\ \A u \in Tasks \ {t} : pc'[u] = pc[u] /\ cur'[u] = cur[u]
    BY DEF Goto
  <2> QED BY <2>1, <2>2, <2>3, <2>4, <2>5
<1> QED BY <1>1, <1>3 DEF NextRule

\* What a task keeps of a listed rule is a snapshot (storage.py:629-646).
LEMMA SnapshotType ==
  ASSUME StoreTypeOK, NEW id \in Ids, Exists(id)
  PROVE  SnapshotOf(id) \in Snapshot
<1>1. rules[id] \in Rule
  BY DEF StoreTypeOK, Table, Exists
<1> QED BY <1>1 DEF Rule, SnapshotOf, Snapshot

\* The steps of a task's run are a workflow of at most MaxStep actions.
LEMMA PlanType ==
  ASSUME TypeOK, NEW t \in Tasks, pc[t] \in InRun
  PROVE  /\ Plan(t) \in Seq(Actions)
         /\ Len(Plan(t)) \in 0 .. MaxStep
         /\ Job(t) \in Jobs
         /\ cur[t] \in Snapshot /\ key[t] \in Keys
<1>1. cur[t] \in Snapshot /\ key[t] \in Keys
  BY DEF TypeOK, InRun
<1>2. cur[t].def \in Defs /\ cur[t].id \in Ids
  BY <1>1 DEF Snapshot
<1> QED BY <1>1, <1>2, RuntimeAssumption DEF Plan, Job, Jobs

\* A run that is not at its end has a next step.
LEMMA StepBound ==
  ASSUME TypeOK, RunInv, NEW t \in Tasks, pc[t] \in InRun \ {"finish"}
  PROVE  step[t] + 1 \in 1 .. MaxStep /\ step[t] + 1 \in 1 .. Len(Plan(t))
<1>1. step[t] < Len(Plan(t)) /\ step[t] \in Nat
  BY DEF RunInv, TaskInv, TypeOK
<1>2. Len(Plan(t)) \in 0 .. MaxStep /\ MaxStep \in Nat
  BY PlanType, RuntimeAssumption
<1> QED BY <1>1, <1>2

\* A reservation keeps the ledger's type (storage.py:703-719).
LEMMA ReserveType ==
  ASSUME TypeOK, NEW s \in Snapshot, NEW k \in Keys, Reserve(s, k)
  PROVE  runs' \in [Jobs -> Run]
<1>1. <<s.id, k>> \in Jobs
  BY DEF Snapshot, Jobs
<1>2. [st |-> "reserved", at |-> now, under |-> s.def, before |-> Counted(s.id)] \in Run
  BY DEF TypeOK, Run, Snapshot, Counted
<1> QED BY <1>1, <1>2 DEF TypeOK, Reserve

\* So does writing the outcome (storage.py:723-741).
LEMMA OutcomeType ==
  ASSUME TypeOK, NEW t \in Tasks, pc[t] \in InRun, WriteOutcome(t)
  PROVE  runs' \in [Jobs -> Run]
<1>1. Job(t) \in Jobs
  BY PlanType
<1> QED BY <1>1 DEF TypeOK, Run, WriteOutcome

\* A step of a task keeps the types (automation_rules.py:473-575).
LEMMA TaskStepType ==
  ASSUME TypeOK, RunInv, NEW t \in Tasks, TaskStep(t) \/ Land(t)
  PROVE  TypeOK'
<1> USE DEF TypeOK
<1>m. MaxStep \in Nat /\ MaxNow \in Nat
  BY RuntimeAssumption
<1> USE <1>m
<1>0. UNCHANGED storeVars => StoreTypeOK'
  BY DEF StoreTypeOK, storeVars
<1>1. CASE Filter(t)
  <2>1. PICK s \in listed[t] : Filter(t)!3!(s)
    BY <1>1 DEF Filter
  <2>2. s \in Snapshot /\ pc[t] = "filter"
    BY <1>1, <2>1 DEF Filter
  <2>3. CASE LeaveTask(t)
    BY <1>0, <1>1, <2>3, LeaveType DEF Filter, envVars, InRun
  <2>4. CASE ~LeaveTask(t)
    <3> DEFINE kept == todo[t] \cup (IF Authorized(s.owner) THEN {s} ELSE {})
    <3>0. listed' = [listed EXCEPT ![t] = listed[t] \ {s}] /\ todo' = [todo EXCEPT ![t] = kept]
      BY <2>1, <2>4
    <3>1. listed' \in [Tasks -> SUBSET Snapshot] /\ todo' \in [Tasks -> SUBSET Snapshot]
      <4>1. kept \subseteq Snapshot /\ listed[t] \ {s} \subseteq Snapshot
        BY <2>2
      <4> HIDE DEF kept
      <4> QED BY <3>0, <4>1
    <3>2. /\ pc' \in [Tasks -> PCs]
          /\ pc'[t] \in {"filter", "gate"}
          /\ \A u \in Tasks \ {t} : pc'[u] = pc[u]
      BY <2>1, <2>2, <2>4 DEF Goto, PCs
    <3>3. UNCHANGED <<key, cur, step, live, suppress, outcome, late>>
      BY <2>1, <2>4
    <3> QED BY <1>0, <1>1, <2>2, <3>1, <3>2, <3>3 DEF Filter, envVars, InRun
  <2> QED BY <2>3, <2>4
<1>2. CASE Gate(t)
  <2>3. CASE LeaveTask(t)
    BY <1>0, <1>2, <2>3, LeaveType DEF Gate, envVars, InRun
  <2>4. CASE ~LeaveTask(t)
    BY <1>0, <1>2, <2>4 DEF Gate, envVars, InRun, Goto, PCs
  <2> QED BY <2>3, <2>4
<1>3. CASE EnterSlot(t)
  BY <1>0, <1>3 DEF EnterSlot, envVars, InRun, InSlot, Goto, PCs
<1>4. CASE Claim(t)
  <2>1. PICK s \in todo[t] : Claim(t)!4!(s)
    BY <1>4 DEF Claim
  <2>2. s \in Snapshot /\ pc[t] = "rule" /\ key[t] \in Keys /\ <<s.id, key[t]>> \in Jobs
    BY <1>4, <2>1 DEF Claim, Snapshot, Jobs
  <2>3. CASE LeaveTask(t) /\ UNCHANGED runs
    BY <1>0, <1>4, <2>3, LeaveType DEF Claim, envVars, InRun
  <2>4. CASE Claimable(s, key[t])
    <3>1. runs' \in [Jobs -> Run]
      BY <2>1, <2>2, <2>4, ReserveType
    <3>0. todo' = [todo EXCEPT ![t] = @ \ {s}] /\ cur' = [cur EXCEPT ![t] = s]
      BY <2>1, <2>4
    <3>2. todo' \in [Tasks -> SUBSET Snapshot] /\ cur' \in [Tasks -> Snapshot \cup {NoRun}] /\ cur'[t] = s
      BY <2>2, <3>0
    <3>3. pc' \in [Tasks -> PCs] /\ \A u \in Tasks \ {t} : pc'[u] = pc[u] /\ cur'[u] = cur[u]
      BY <2>1, <2>4 DEF Goto, PCs, InSlot, InRun
    <3>4. UNCHANGED <<key, listed, step, live, suppress, outcome, late>>
      BY <2>1, <2>4
    <3> QED BY <1>0, <1>4, <2>2, <3>1, <3>2, <3>3, <3>4 DEF Claim, envVars, InRun
  <2>5. CASE ~Claimable(s, key[t]) /\ ~LeaveTask(t)
    BY <1>0, <1>4, <2>1, <2>2, <2>5 DEF Claim, envVars, InRun, InSlot, Goto, PCs
  <2> QED BY <2>1, <2>3, <2>4, <2>5
<1>5. CASE LiveCheck(t)
  BY <1>0, <1>5 DEF LiveCheck, envVars, InRun, InSlot, Goto, PCs, Live, LiveIn
<1>6. CASE AuthCheck(t)
  BY <1>0, <1>6 DEF AuthCheck, Partly, envVars, InRun, InSlot, Goto, Stop, PCs, Terminal
<1>7. CASE Send(t)
  BY <1>0, <1>7 DEF Send, envVars, InRun, InSlot, Goto, PCs
<1>8. CASE Unchanged(t)
  <2>1. pc[t] \in InRun
    BY <1>8 DEF Unchanged, InRun
  <2>2. step'[t] \in 0 .. MaxStep
    BY <1>8, <2>1, StepBound DEF Unchanged, StepDone, InRun
  <2> QED BY <1>0, <1>8, <2>1, <2>2 DEF Unchanged, StepDone, envVars, InRun, InSlot, Goto, Stop, PCs, Terminal
<1>9. CASE Refuse(t)
  BY <1>0, <1>9 DEF Refuse, Partly, envVars, InRun, InSlot, Goto, Stop, PCs, Terminal
<1>10. CASE Answer(t)
  <2>1. pc[t] \in InRun
    BY <1>10 DEF Answer, InRun
  <2>2. step'[t] \in 0 .. MaxStep
    BY <1>10, <2>1, StepBound DEF Answer, StepDone, InRun
  <2> QED BY <1>0, <1>10, <2>1, <2>2 DEF Answer, StepDone, envVars, InRun, InSlot, Goto, Stop, PCs, Terminal
<1>11. CASE Lose(t)
  BY <1>0, <1>11 DEF Lose, envVars, InRun, InSlot, Goto, Stop, PCs, Terminal
<1>12. CASE Finish(t)
  <2>2. runs' \in [Jobs -> Run]
    BY <1>12, OutcomeType DEF Finish, InRun
  <2> QED BY <1>0, <1>12, <2>2, LeaveType DEF Finish, envVars, InRun
<1>13. CASE Cancel(t)
  <2> USE <1>13
  <2>0. /\ UNCHANGED <<storeVars, envVars, effects, closing, stopped>>
        /\ cancelled' \in [Tasks -> BOOLEAN]
    BY DEF Cancel
  <2>1. CASE LeaveTask(t) /\ UNCHANGED runs
    <3>1. runs' \in [Jobs -> Run]
      BY <2>1
    <3>2. LeaveTask(t)
      BY <2>1
    <3>3. \A u \in Tasks : /\ pc'[u] # "idle" => key'[u] \in Keys
                           /\ pc'[u] \in InRun => cur'[u] \in Snapshot
      <4>1. pc'[t] = "idle"
        BY <3>2 DEF LeaveTask
      <4> QED BY <3>2, <4>1, LeaveType DEF InRun
    <3>4. UNCHANGED <<grants, verdict, now, effects, closing, stopped>> /\ StoreTypeOK'
      BY <1>0, <2>0 DEF envVars
    <3> QED BY <2>0, <3>1, <3>2, <3>3, <3>4, LeaveType
  <2>2. ASSUME NEW s \in todo[t], pc[t] = "rule", Reserve(s, key[t]), LeaveTask(t)
        PROVE  TypeOK'
    <3>1. runs' \in [Jobs -> Run]
      BY <2>2, ReserveType
    <3> QED BY <1>0, <2>0, <2>2, <3>1, LeaveType DEF envVars, InRun
  <2>3. CASE /\ pc[t] \in InRun \ {"finish"}
             /\ Stop(t, "unknown")
             /\ todo' = [todo EXCEPT ![t] = {}]
             /\ UNCHANGED <<runs, key, listed, cur, step, live, suppress, late>>
    BY <1>0, <2>0, <2>3 DEF envVars, InRun, InSlot, Goto, Stop, PCs, Terminal
  <2>4. CASE pc[t] = "finish" /\ WriteOutcome(t) /\ LeaveTask(t)
    <3>1. runs' \in [Jobs -> Run]
      BY <2>4, OutcomeType DEF InRun
    <3> QED BY <1>0, <2>0, <2>4, <3>1, LeaveType DEF envVars, InRun
  <2> QED BY <2>1, <2>2, <2>3, <2>4 DEF Cancel
<1>14. CASE Land(t)
  <2>1. Job(t) \in Jobs /\ step[t] + 1 \in StepNos
    BY <1>14, PlanType, StepBound DEF Land, InRun, StepNos
  <2>2. effects' \in [Jobs -> [StepNos -> Nat]]
    BY <1>14, <2>1 DEF Land
  <2> QED BY <1>0, <1>14, <2>2 DEF Land, envVars, InRun, InSlot, Goto, PCs
<1> QED BY <1>1, <1>2, <1>3, <1>4, <1>5, <1>6, <1>7, <1>8, <1>9, <1>10, <1>11, <1>12,
           <1>13, <1>14 DEF TaskStep

\* Taking up an event keeps the types (automation_rules.py:473-489).
LEMMA HandleEventType ==
  ASSUME TypeOK, NEW t \in Tasks, NEW k \in Keys, HandleEvent(t, k)
  PROVE  TypeOK'
<1>1. listed' \in [Tasks -> SUBSET Snapshot]
  BY SnapshotType DEF HandleEvent, TypeOK
<1>2. StoreTypeOK'
  BY DEF HandleEvent, TypeOK, StoreTypeOK, storeVars
<1>3. pc' = [pc EXCEPT ![t] = "filter"] /\ key' = [key EXCEPT ![t] = k]
  BY DEF HandleEvent, Goto
<1>4. UNCHANGED <<envVars, runs, effects, closing, stopped, cancelled, todo, cur, step, live,
                  suppress, outcome, late>>
  BY DEF HandleEvent
<1> QED BY <1>1, <1>2, <1>3, <1>4 DEF TypeOK, envVars, PCs, InRun

\* So does every step around the tasks.
LEMMA WorldType ==
  ASSUME TypeOK, World
  PROVE  TypeOK'
<1> USE DEF TypeOK
<1>0. UNCHANGED storeVars => StoreTypeOK'
  BY DEF StoreTypeOK, storeVars
<1>1. CASE Close
  BY <1>0, <1>1 DEF Close, envVars, taskVars
<1>2. CASE Restart
  <2>1. StoreTypeOK'
    BY <1>2, StoreStepType DEF Restart, StoreStep
  <2>2. MaxStep \in Nat
    BY RuntimeAssumption
  <2>3. step' \in [Tasks -> 0 .. MaxStep] /\ late' \in [Tasks -> Nat]
    BY <1>2, <2>2 DEF Restart
  <2>4. pc' \in [Tasks -> PCs] /\ outcome' \in [Tasks -> Terminal] /\ \A t \in Tasks : pc'[t] = "idle"
    BY <1>2 DEF Restart, PCs, Terminal
  <2>5. /\ key' \in [Tasks -> Keys \cup {NoKey}]
        /\ listed' \in [Tasks -> SUBSET Snapshot]
        /\ todo' \in [Tasks -> SUBSET Snapshot]
        /\ cur' \in [Tasks -> Snapshot \cup {NoRun}]
        /\ live' \in [Tasks -> BOOLEAN]
        /\ suppress' \in [Tasks -> BOOLEAN]
        /\ cancelled' \in [Tasks -> BOOLEAN]
    BY <1>2 DEF Restart
  <2>6. UNCHANGED <<grants, verdict, now, runs, effects>> /\ closing' \in BOOLEAN /\ stopped' \in BOOLEAN
    BY <1>2 DEF Restart, envVars
  <2> QED BY <2>1, <2>3, <2>4, <2>5, <2>6 DEF InRun
<1>3. CASE EditRules
  <2>1. StoreTypeOK'
    BY <1>3, StoreStepType DEF EditRules, StoreStep, ForwardStep
  <2> QED BY <1>3, <2>1 DEF EditRules, envVars, taskVars
<1>4. CASE Clock
  BY <1>0, <1>4 DEF Clock, taskVars
<1>5. ASSUME NEW b \in Betas, SetGrant(b) PROVE TypeOK'
  BY <1>0, <1>5 DEF SetGrant, taskVars
<1>6. ASSUME NEW k \in Keys, Decide(k) PROVE TypeOK'
  BY <1>0, <1>6 DEF Decide, taskVars
<1> QED BY <1>1, <1>2, <1>3, <1>4, <1>5, <1>6 DEF World

\* The initial states have the types.
LEMMA InitType == Init => TypeOK
<1>1. MaxStep \in Nat /\ MaxNow \in Nat /\ MaxId \in Nat \ {0}
  BY RuntimeAssumption, StoreAssumption
<1>2. ASSUME Init PROVE StoreTypeOK
  BY <1>1, <1>2 DEF Init, StoreInit, StoreTypeOK, Table
<1>3. ASSUME Init
      PROVE  /\ runs \in [Jobs -> Run]
             /\ effects \in [Jobs -> [StepNos -> Nat]]
             /\ step \in [Tasks -> 0 .. MaxStep]
             /\ late \in [Tasks -> Nat]
             /\ now \in 0 .. MaxNow
  BY <1>1, <1>3 DEF Init, Run
<1>4. ASSUME Init
      PROVE  /\ pc \in [Tasks -> PCs]
             /\ \A t \in Tasks : pc[t] = "idle"
             /\ outcome \in [Tasks -> Terminal]
  BY <1>4 DEF Init, PCs, Terminal
<1>5. ASSUME Init
      PROVE  /\ grants \subseteq Betas
             /\ verdict \in [Keys -> {"pending", "clear", "blocked"}]
             /\ closing \in BOOLEAN /\ stopped \in BOOLEAN
             /\ cancelled \in [Tasks -> BOOLEAN]
             /\ key \in [Tasks -> Keys \cup {NoKey}]
             /\ listed \in [Tasks -> SUBSET Snapshot]
             /\ todo \in [Tasks -> SUBSET Snapshot]
             /\ cur \in [Tasks -> Snapshot \cup {NoRun}]
             /\ live \in [Tasks -> BOOLEAN]
             /\ suppress \in [Tasks -> BOOLEAN]
  BY <1>5 DEF Init
<1> QED BY <1>2, <1>3, <1>4, <1>5 DEF TypeOK, InRun

-----------------------------------------------------------------------------
\* RunInv is inductive.

\* Nothing in a step of task t touches another task.
LEMMA OneTask ==
  ASSUME TypeOK, NEW t \in Tasks, NEW u \in Tasks, u # t,
         TaskStep(t) \/ Land(t) \/ \E k \in Keys : HandleEvent(t, k)
  PROVE  /\ pc'[u] = pc[u] /\ key'[u] = key[u] /\ cur'[u] = cur[u] /\ step'[u] = step[u]
         /\ listed'[u] = listed[u] /\ todo'[u] = todo[u] /\ outcome'[u] = outcome[u]
         /\ live'[u] = live[u] /\ suppress'[u] = suppress[u] /\ late'[u] = late[u]
         /\ cancelled'[u] = cancelled[u]
<1> USE DEF TypeOK, Goto, Stop
<1>0. ASSUME LeaveTask(t) \/ NextRule(t)
      PROVE  /\ pc'[u] = pc[u] /\ key'[u] = key[u] /\ cur'[u] = cur[u] /\ step'[u] = step[u]
             /\ listed'[u] = listed[u] /\ todo'[u] = todo[u] /\ outcome'[u] = outcome[u]
             /\ live'[u] = live[u] /\ suppress'[u] = suppress[u] /\ late'[u] = late[u]
  <2>1. CASE LeaveTask(t)
    BY <2>1 DEF LeaveTask
  <2>2. CASE NextRule(t) /\ todo[t] # {}
    BY <2>2 DEF NextRule
  <2> QED BY <1>0, <2>1, <2>2 DEF NextRule
<1>1. CASE (LeaveTask(t) \/ NextRule(t)) /\ cancelled'[u] = cancelled[u]
  BY <1>0, <1>1
<1>2. CASE Filter(t) \/ Gate(t)
  BY <1>1, <1>2 DEF Filter, Gate
<1>3. CASE EnterSlot(t) \/ LiveCheck(t) \/ AuthCheck(t) \/ Send(t) \/ Refuse(t) \/ Lose(t) \/ Land(t)
  BY <1>3 DEF EnterSlot, LiveCheck, AuthCheck, Send, Refuse, Lose, Land
<1>4. CASE Unchanged(t) \/ Answer(t)
  BY <1>4 DEF Unchanged, Answer, StepDone
<1>5. CASE Claim(t)
  BY <1>1, <1>5 DEF Claim
<1>6. CASE Finish(t) \/ Cancel(t)
  BY <1>1, <1>6 DEF Finish, Cancel
<1>7. ASSUME NEW k \in Keys, HandleEvent(t, k)
      PROVE  /\ pc'[u] = pc[u] /\ key'[u] = key[u] /\ cur'[u] = cur[u] /\ step'[u] = step[u]
             /\ listed'[u] = listed[u] /\ todo'[u] = todo[u] /\ outcome'[u] = outcome[u]
             /\ live'[u] = live[u] /\ suppress'[u] = suppress[u] /\ late'[u] = late[u]
             /\ cancelled'[u] = cancelled[u]
  BY <1>7 DEF HandleEvent
<1> QED BY <1>2, <1>3, <1>4, <1>5, <1>6, <1>7 DEF TaskStep

\* A task keeps what it knows of its run when the run is not changed.
LEMMA OtherTask ==
  ASSUME TypeOK, RunInv, NEW u \in Tasks,
         pc'[u] = pc[u] /\ key'[u] = key[u] /\ cur'[u] = cur[u] /\ step'[u] = step[u],
         listed'[u] = listed[u] /\ todo'[u] = todo[u] /\ outcome'[u] = outcome[u],
         pc[u] \in InRun => /\ runs'[Job(u)] = runs[Job(u)]
                            /\ effects'[Job(u)] = effects[Job(u)]
  PROVE  TaskInv(u)'
<1>1. Job(u)' = Job(u) /\ Plan(u)' = Plan(u)
  BY DEF Job, Plan
<1>2. TaskInv(u)
  BY DEF RunInv
<1>3. ASSUME pc[u] \in InRun, NEW n \in Nat, NothingAfter(Job(u), n)
      PROVE  NothingAfter(Job(u), n)'
  BY <1>1, <1>3 DEF NothingAfter
<1>4. step[u] \in Nat /\ step[u] + 1 \in Nat
  BY RuntimeAssumption DEF TypeOK
<1>5. /\ (pc[u] = "idle" => listed[u] = {} /\ todo[u] = {})'
      /\ (\A s \in listed[u] \cup todo[u] : Steps[s.def][key[u]] # <<>>)'
      /\ (pc[u] \notin InRun => step[u] = 0)'
      /\ (pc[u] \in InRun => runs[Job(u)].st = "reserved")'
      /\ (pc[u] \in InRun \ {"finish"} => step[u] < Len(Plan(u)))'
  BY <1>1, <1>2 DEF TaskInv
<1>6. /\ (pc[u] \in InRun \ {"landed", "finish"} => NothingAfter(Job(u), step[u]))'
      /\ (pc[u] = "landed" => NothingAfter(Job(u), step[u] + 1))'
      /\ (pc[u] = "finish" /\ outcome[u] \in {"failed", "skipped"} => NothingAfter(Job(u), 0))'
  BY <1>2, <1>3, <1>4 DEF TaskInv, InRun
<1> QED BY <1>5, <1>6 DEF TaskInv

\* A step that neither reserves, performs nor closes keeps RunInv, if its task
\* still knows its run.
LEMMA QuietStep ==
  ASSUME TypeOK, RunInv, NEW t \in Tasks,
         TaskStep(t) \/ \E k \in Keys : HandleEvent(t, k),
         UNCHANGED <<runs, effects>>,
         TaskInv(t)',
         pc'[t] \in InRun => pc[t] \in InRun /\ Job(t)' = Job(t)
  PROVE  RunInv'
<1>1. \A u \in Tasks : u # t => /\ pc'[u] = pc[u] /\ key'[u] = key[u] /\ cur'[u] = cur[u]
                                /\ step'[u] = step[u] /\ listed'[u] = listed[u]
                                /\ todo'[u] = todo[u] /\ outcome'[u] = outcome[u]
  BY OneTask
<1>2. \A u \in Tasks : TaskInv(u)'
  BY <1>1, OtherTask
<1>3. \A u \in Tasks : pc'[u] \in InRun => pc[u] \in InRun /\ Job(u)' = Job(u)
  BY <1>1 DEF Job
<1>4. OneTaskPerRun'
  BY <1>3 DEF RunInv, OneTaskPerRun
<1>5. AtMostOnce' /\ HonestLedger'
  BY DEF RunInv, AtMostOnce, HonestLedger
<1> QED BY <1>2, <1>4, <1>5 DEF RunInv

\* A task that has left is between events, or between rules.
LEMMA LeaveInv ==
  ASSUME TypeOK, RunInv, NEW t \in Tasks, LeaveTask(t) \/ (NextRule(t) /\ pc[t] # "idle")
  PROVE  TaskInv(t)' /\ pc'[t] \notin InRun
<1> USE DEF TypeOK, TaskInv, InRun
<1>1. CASE LeaveTask(t)
  BY <1>1 DEF LeaveTask
<1>2. CASE NextRule(t) /\ todo[t] # {} /\ pc[t] # "idle"
  <2>1. pc'[t] = "rule" /\ step'[t] = 0 /\ UNCHANGED <<key, listed, todo>>
    BY <1>2 DEF NextRule, Goto
  <2> QED BY <2>1 DEF RunInv
<1> QED BY <1>1, <1>2 DEF NextRule

\* The steps before a run: the event, its rules, its gates and its slot.
LEMMA BeforeRunInv ==
  ASSUME TypeOK, RunInv, NEW t \in Tasks,
         \/ Filter(t) \/ Gate(t) \/ EnterSlot(t)
         \/ \E k \in Keys : HandleEvent(t, k)
  PROVE  RunInv'
<1> USE DEF TypeOK
<1>0. TaskInv(t)
  BY DEF RunInv
<1>1. CASE Filter(t)
  <2>1. PICK s \in listed[t] : Filter(t)!3!(s)
    BY <1>1 DEF Filter
  <2>2. CASE LeaveTask(t)
    BY <1>1, <2>2, LeaveInv, QuietStep DEF Filter, TaskStep
  <2>3. CASE ~LeaveTask(t)
    <3>1. /\ pc[t] = "filter" /\ pc'[t] \in {"filter", "gate"} /\ UNCHANGED <<key, step>>
          /\ listed'[t] \subseteq listed[t] /\ todo'[t] \subseteq listed[t] \cup todo[t]
      BY <1>1, <2>1, <2>3 DEF Goto, Filter
    <3>2. TaskInv(t)'
      BY <1>0, <3>1 DEF TaskInv, InRun
    <3> QED BY <1>1, <3>1, <3>2, QuietStep DEF Filter, TaskStep, InRun
  <2> QED BY <2>2, <2>3
<1>2. CASE Gate(t)
  <2>1. CASE LeaveTask(t)
    BY <1>2, <2>1, LeaveInv, QuietStep DEF Gate, TaskStep
  <2>2. CASE ~LeaveTask(t)
    <3>1. pc'[t] = "slot" /\ pc[t] = "gate" /\ UNCHANGED <<key, listed, todo, step>>
      BY <1>2, <2>2 DEF Goto, Gate
    <3>2. TaskInv(t)'
      BY <1>0, <3>1 DEF TaskInv, InRun
    <3> QED BY <1>2, <3>1, <3>2, QuietStep DEF Gate, TaskStep, InRun
  <2> QED BY <2>1, <2>2
<1>3. CASE EnterSlot(t)
  <2>1. pc'[t] = "rule" /\ UNCHANGED <<key, listed, todo, step, runs, effects>>
    BY <1>3 DEF EnterSlot, Goto
  <2>2. TaskInv(t)'
    BY <1>0, <1>3, <2>1 DEF TaskInv, InRun, EnterSlot
  <2> QED BY <1>3, <2>1, <2>2, QuietStep DEF TaskStep, InRun
<1>4. ASSUME NEW k \in Keys, HandleEvent(t, k) PROVE RunInv'
  <2>1. pc[t] = "idle" /\ pc'[t] = "filter" /\ key'[t] = k /\ UNCHANGED <<todo, step, runs, effects>>
    BY <1>4 DEF HandleEvent, Goto
  <2>2. \A s \in listed'[t] : Steps[s.def][k] # <<>>
    BY <1>4 DEF HandleEvent, SnapshotOf
  <2>3. TaskInv(t)'
    BY <1>0, <2>1, <2>2 DEF TaskInv, InRun
  <2> QED BY <1>4, <2>1, <2>3, QuietStep DEF InRun
<1> QED BY <1>1, <1>2, <1>3, <1>4

\* The steps of a run that neither take effect nor close it.
LEMMA InRunInv ==
  ASSUME TypeOK, RunInv, NEW t \in Tasks,
         \/ LiveCheck(t) \/ AuthCheck(t) \/ Send(t) \/ Unchanged(t) \/ Refuse(t)
         \/ Answer(t) \/ Lose(t)
  PROVE  RunInv'
<1> USE DEF TypeOK, Goto, Stop
<1>0. /\ TaskInv(t)
      /\ pc[t] \in InRun \ {"finish"}
  BY DEF RunInv, LiveCheck, AuthCheck, Send, Unchanged, Refuse, Answer, Lose, InRun
<1>1. UNCHANGED <<runs, effects, key, listed, todo, cur>> /\ pc'[t] \in InRun
  BY DEF LiveCheck, AuthCheck, Send, Unchanged, Refuse, Answer, Lose, StepDone, InRun
<1>2. Job(t)' = Job(t) /\ Plan(t)' = Plan(t) /\ \A n : NothingAfter(Job(t), n)' = NothingAfter(Job(t), n)
  BY <1>1 DEF Job, Plan, NothingAfter
<1>3. step[t] \in Nat /\ step[t] < Len(Plan(t)) /\ Len(Plan(t)) \in Nat
  BY <1>0, PlanType, RuntimeAssumption DEF TaskInv
<1>4. CASE LiveCheck(t) \/ AuthCheck(t) \/ Send(t) \/ Refuse(t) \/ Lose(t)
  <2>1. /\ step' = step
        /\ \/ pc'[t] \in InRun \ {"landed", "finish"} /\ pc[t] \in InRun \ {"landed", "finish"}
           \/ pc'[t] = "finish" /\ (outcome'[t] \in {"failed", "skipped"} => step[t] = 0 /\ pc[t] # "landed")
    BY <1>4 DEF LiveCheck, AuthCheck, Send, Refuse, Lose, InRun, Partly
  <2>2. /\ (pc[t] = "idle" => listed[t] = {} /\ todo[t] = {})'
        /\ (\A s \in listed[t] \cup todo[t] : Steps[s.def][key[t]] # <<>>)'
        /\ (pc[t] \notin InRun => step[t] = 0)'
        /\ (pc[t] \in InRun => runs[Job(t)].st = "reserved")'
        /\ (pc[t] \in InRun \ {"finish"} => step[t] < Len(Plan(t)))'
    BY <1>0, <1>1, <1>2, <1>3, <2>1 DEF TaskInv, InRun
  <2>3. /\ (pc[t] \in InRun \ {"landed", "finish"} => NothingAfter(Job(t), step[t]))'
        /\ (pc[t] = "landed" => NothingAfter(Job(t), step[t] + 1))'
    BY <1>0, <1>2, <2>1 DEF TaskInv, InRun
  <2>4. (pc[t] = "finish" /\ outcome[t] \in {"failed", "skipped"} => NothingAfter(Job(t), 0))'
    <3>1. ASSUME pc'[t] = "finish", outcome'[t] \in {"failed", "skipped"}
          PROVE  NothingAfter(Job(t), 0)
      BY <1>0, <2>1, <3>1 DEF TaskInv, InRun
    <3> QED BY <1>2, <3>1
  <2>5. TaskInv(t)'
    BY <2>2, <2>3, <2>4 DEF TaskInv
  <2> QED BY <1>0, <1>1, <1>2, <1>4, <2>5, QuietStep DEF TaskStep
<1>5. CASE Unchanged(t) \/ Answer(t)
  <2>1. step'[t] = step[t] + 1 /\ NothingAfter(Job(t), step[t] + 1)
    <3>1. pc[t] = "issue" => NothingAfter(Job(t), step[t])
      BY <1>0 DEF TaskInv, InRun
    <3>2. step[t] \in Nat /\ NothingAfter(Job(t), step[t]) => NothingAfter(Job(t), step[t] + 1)
      BY <1>3 DEF NothingAfter, StepNos
    <3>3. pc[t] = "issue" \/ pc[t] = "landed"
      BY <1>5 DEF Unchanged, Answer
    <3>4. step'[t] = step[t] + 1
      BY <1>5 DEF Unchanged, Answer, StepDone
    <3> QED BY <1>0, <1>3, <3>1, <3>2, <3>3, <3>4 DEF TaskInv
  <2>2. \/ pc'[t] = "check" /\ step[t] + 1 # Len(Plan(t))
        \/ pc'[t] = "finish" /\ outcome'[t] = "completed"
    BY <1>5 DEF Unchanged, Answer, StepDone
  <2>3. TaskInv(t)'
    BY <1>0, <1>1, <1>2, <1>3, <2>1, <2>2 DEF TaskInv, InRun
  <2> QED BY <1>0, <1>1, <1>2, <1>5, <2>3, QuietStep DEF TaskStep
<1> QED BY <1>4, <1>5

\* A claim hands a new run to its task: no task has it, and nothing of it is done.
LEMMA ReserveInv ==
  ASSUME TypeOK, RunInv, NEW t \in Tasks, NEW s \in todo[t],
         pc[t] = "rule", Claimable(s, key[t]), Reserve(s, key[t]),
         UNCHANGED effects
  PROVE  /\ <<s.id, key[t]>> \in Jobs
         /\ runs[<<s.id, key[t]>>].st = "none"
         /\ runs'[<<s.id, key[t]>>].st = "reserved"
         /\ \A n \in StepNos : effects[<<s.id, key[t]>>][n] = 0
         /\ \A j \in Jobs : j # <<s.id, key[t]>> => runs'[j] = runs[j]
         /\ AtMostOnce' /\ HonestLedger'
<1> DEFINE new == <<s.id, key[t]>>
<1>1. new \in Jobs
  BY DEF TypeOK, Snapshot, Jobs
<1>2. runs[new].st = "none"
  BY DEF Claimable
<1>3. runs' = [runs EXCEPT ![new] =
                              [st |-> "reserved", at |-> now, under |-> s.def, before |-> Counted(s.id)]]
  BY DEF Reserve
<1>4. runs'[new].st = "reserved" /\ \A j \in Jobs : j # new => runs'[j] = runs[j]
  BY <1>1, <1>3 DEF TypeOK
<1>5. AtMostOnce'
  BY DEF RunInv, AtMostOnce
<1>6. HonestLedger'
  BY <1>4 DEF RunInv, HonestLedger
<1>7. \A n \in StepNos : effects[new][n] = 0
  BY <1>1, <1>2 DEF RunInv, HonestLedger
<1> QED BY <1>1, <1>2, <1>4, <1>5, <1>6, <1>7

\* A run in progress is not the one that is being reserved.
LEMMA OthersKeepRuns ==
  ASSUME TypeOK, RunInv, NEW j \in Jobs, NEW t \in Tasks,
         \A u \in Tasks : u # t /\ pc[u] \in InRun => Job(u) # j,
         \A i \in Jobs : i # j => runs'[i] = runs[i] /\ effects'[i] = effects[i],
         \A u \in Tasks : u # t => /\ pc'[u] = pc[u] /\ key'[u] = key[u] /\ cur'[u] = cur[u]
                                   /\ step'[u] = step[u] /\ listed'[u] = listed[u]
                                   /\ todo'[u] = todo[u] /\ outcome'[u] = outcome[u]
  PROVE  \A u \in Tasks : u # t => TaskInv(u)'
<1> SUFFICES ASSUME NEW u \in Tasks, u # t PROVE TaskInv(u)'
  OBVIOUS
<1>1. pc[u] \in InRun => Job(u) \in Jobs
  BY DEF TypeOK, Job, Jobs, Snapshot, InRun
<1>2. pc[u] \in InRun => runs'[Job(u)] = runs[Job(u)] /\ effects'[Job(u)] = effects[Job(u)]
  BY <1>1
<1> QED BY <1>2, OtherTask

\* The tick's claim of an event keeps the invariant.
LEMMA ClaimInv ==
  ASSUME TypeOK, RunInv, NEW t \in Tasks, Claim(t)
  PROVE  RunInv'
<1> USE DEF TypeOK
<1>0. TaskInv(t) /\ pc[t] = "rule"
  BY DEF RunInv, Claim
<1>1. PICK s \in todo[t] : Claim(t)!4!(s)
  BY DEF Claim
<1>2. CASE Claimable(s, key[t])
  <2> DEFINE new == <<s.id, key[t]>>
  <2>1. /\ Reserve(s, key[t]) /\ pc' = [pc EXCEPT ![t] = "check"] /\ cur' = [cur EXCEPT ![t] = s]
        /\ todo' = [todo EXCEPT ![t] = @ \ {s}]
        /\ UNCHANGED <<key, listed, step, outcome, effects>>
    BY <1>1, <1>2 DEF Goto, Claim
  <2>2. /\ new \in Jobs /\ runs[new].st = "none" /\ runs'[new].st = "reserved"
        /\ \A n \in StepNos : effects[new][n] = 0
        /\ \A j \in Jobs : j # new => runs'[j] = runs[j]
        /\ AtMostOnce' /\ HonestLedger'
    BY <1>0, <1>2, <2>1, ReserveInv
  <2>3. \A u \in Tasks : u # t => /\ pc'[u] = pc[u] /\ key'[u] = key[u] /\ cur'[u] = cur[u]
                                  /\ step'[u] = step[u] /\ listed'[u] = listed[u]
                                  /\ todo'[u] = todo[u] /\ outcome'[u] = outcome[u]
    BY <2>1
  <2>4. \A u \in Tasks : u # t /\ pc[u] \in InRun => Job(u) # new
    BY <2>2 DEF RunInv, TaskInv
  <2>5. \A u \in Tasks : u # t => TaskInv(u)'
    <3>1. \A i \in Jobs : i # new => runs'[i] = runs[i] /\ effects'[i] = effects[i]
      BY <2>1, <2>2
    <3> HIDE DEF TypeOK, new
    <3> QED BY <2>2, <2>3, <2>4, <3>1, OthersKeepRuns
  <2>6. Job(t)' = new /\ step[t] = 0 /\ pc'[t] = "check" /\ Plan(t)' = Steps[s.def][key[t]]
    BY <1>0, <2>1 DEF Job, Plan, TaskInv, InRun
  <2>7. TaskInv(t)'
    <3>1. Steps[s.def][key[t]] # <<>> /\ Steps[s.def][key[t]] \in Seq(Actions)
      BY <1>0, RuntimeAssumption DEF TaskInv, Snapshot
    <3>2. Len(Plan(t))' > 0
      BY <2>6, <3>1
    <3>3. NothingAfter(Job(t), step[t])' /\ step'[t] = 0
      BY <2>1, <2>2, <2>6 DEF NothingAfter
    <3>4. todo'[t] \subseteq todo[t] /\ listed'[t] = listed[t] /\ key'[t] = key[t]
      BY <2>1
    <3> QED BY <1>0, <2>2, <2>6, <3>2, <3>3, <3>4 DEF TaskInv, InRun
  <2>8. OneTaskPerRun'
    BY <2>1, <2>3, <2>4, <2>6 DEF RunInv, OneTaskPerRun, Job
  <2> QED BY <2>2, <2>5, <2>7, <2>8 DEF RunInv
<1>3. CASE ~Claimable(s, key[t])
  <2>1. CASE LeaveTask(t)
    BY <1>1, <1>3, <2>1, LeaveInv, QuietStep DEF Claim, TaskStep
  <2>2. CASE ~LeaveTask(t)
    <3>1. /\ UNCHANGED <<runs, effects, pc, key, listed, cur, step, outcome>>
          /\ todo'[t] \subseteq todo[t]
      BY <1>1, <1>3, <2>2 DEF Claim
    <3>2. TaskInv(t)'
      BY <1>0, <3>1 DEF TaskInv, InRun
    <3> QED BY <1>0, <3>1, <3>2, QuietStep DEF TaskStep, InRun
  <2> QED BY <2>1, <2>2
<1> QED BY <1>2, <1>3

\* A request takes effect for the first time, and nothing else does.
LEMMA LandEffect ==
  ASSUME TypeOK, RunInv, NEW t \in Tasks, Land(t)
  PROVE  /\ Job(t) \in Jobs /\ step[t] \in Nat /\ step[t] + 1 \in StepNos
         /\ NothingAfter(Job(t), step[t])
         /\ effects'[Job(t)][step[t] + 1] = 1
         /\ \A s \in StepNos : s # step[t] + 1 => effects'[Job(t)][s] = effects[Job(t)][s]
         /\ \A i \in Jobs : i # Job(t) => effects'[i] = effects[i]
<1> DEFINE j == Job(t)
           n == step[t] + 1
<1>1. TaskInv(t) /\ pc[t] = "flight" /\ effects' = [effects EXCEPT ![j][n] = @ + 1]
  BY DEF RunInv, Land
<1>2. j \in Jobs
  BY <1>1 DEF TypeOK, Job, Jobs, Snapshot, InRun
<1>3. step[t] \in Nat /\ n \in StepNos
  <2>1. step[t] \in 0 .. MaxStep /\ MaxStep \in Nat
    BY RuntimeAssumption DEF TypeOK
  <2>2. step[t] < Len(Plan(t))
    BY <1>1 DEF TaskInv, InRun
  <2>3. Len(Plan(t)) \in Nat /\ Len(Plan(t)) <= MaxStep
    BY <1>1, PlanType DEF InRun
  <2> QED BY <2>1, <2>2, <2>3 DEF StepNos
<1>4. NothingAfter(j, step[t])
  BY <1>1 DEF TaskInv, InRun
<1>5. effects[j][n] = 0
  BY <1>3, <1>4 DEF NothingAfter
<1>6. /\ effects'[j] = [effects[j] EXCEPT ![n] = @ + 1]
      /\ \A i \in Jobs : i # j => effects'[i] = effects[i]
      /\ effects[j] \in [StepNos -> Nat]
  BY <1>1, <1>2 DEF TypeOK
<1>7. effects'[j][n] = 1 /\ \A s \in StepNos : s # n => effects'[j][s] = effects[j][s]
  BY <1>3, <1>5, <1>6
<1> QED BY <1>2, <1>3, <1>4, <1>6, <1>7

\* A request takes effect: the step had not been done before, and no other task
\* has the run.
LEMMA LandInv ==
  ASSUME TypeOK, RunInv, NEW t \in Tasks, Land(t)
  PROVE  RunInv'
<1> DEFINE j == Job(t)
           n == step[t] + 1
<1>1. /\ TaskInv(t) /\ pc[t] = "flight" /\ pc' = [pc EXCEPT ![t] = "landed"]
      /\ UNCHANGED <<runs, key, listed, todo, cur, step, outcome>>
  BY DEF RunInv, Land, Goto
<1>2. j \in Jobs
  BY LandEffect
<1>3. step[t] \in Nat /\ n \in StepNos /\ Plan(t)' = Plan(t) /\ j' = j
  BY <1>1, LandEffect DEF Plan, Job
<1>4. runs[j].st = "reserved" /\ NothingAfter(j, step[t])
  BY <1>1 DEF TaskInv, InRun
<1>6. \A i \in Jobs : i # j => effects'[i] = effects[i]
  BY LandEffect
<1>7. effects'[j][n] = 1 /\ \A s \in StepNos : s # n => effects'[j][s] = effects[j][s]
  BY LandEffect
<1>8. AtMostOnce'
  BY <1>2, <1>6, <1>7 DEF RunInv, AtMostOnce
<1>9. HonestLedger'
  BY <1>1, <1>4, <1>6 DEF RunInv, HonestLedger
<1>10. \A u \in Tasks : u # t => /\ pc'[u] = pc[u] /\ key'[u] = key[u] /\ cur'[u] = cur[u]
                                 /\ step'[u] = step[u] /\ listed'[u] = listed[u]
                                 /\ todo'[u] = todo[u] /\ outcome'[u] = outcome[u]
  BY OneTask
<1>11. \A u \in Tasks : u # t /\ pc[u] \in InRun => Job(u) # j
  BY <1>1 DEF RunInv, OneTaskPerRun, InRun
<1>12. \A u \in Tasks : u # t => TaskInv(u)'
  <2>1. \A i \in Jobs : i # j => runs'[i] = runs[i] /\ effects'[i] = effects[i]
    BY <1>1, <1>6
  <2> HIDE DEF j
  <2> QED BY <1>2, <1>10, <1>11, <2>1, OthersKeepRuns
<1>13. TaskInv(t)'
  <2>0. pc'[t] = "landed" /\ n' = n
    BY <1>1 DEF TypeOK
  <2>1. NothingAfter(j, n)'
    BY <1>3, <1>4, <1>7, <2>0 DEF NothingAfter, StepNos
  <2>3. /\ step'[t] = step[t] /\ key'[t] = key[t] /\ listed'[t] = listed[t] /\ todo'[t] = todo[t]
        /\ runs'[j'].st = "reserved"
    BY <1>1, <1>3, <1>4
  <2>4. step[t] < Len(Plan(t)) /\ \A s \in listed[t] \cup todo[t] : Steps[s.def][key[t]] # <<>>
    BY <1>1 DEF TaskInv, InRun
  <2> QED BY <1>3, <2>0, <2>1, <2>3, <2>4 DEF TaskInv, InRun
<1>14. OneTaskPerRun'
  <2>1. \A u \in Tasks : Job(u)' = Job(u) /\ (pc'[u] \in InRun => pc[u] \in InRun)
    BY <1>1, <1>10 DEF Job, InRun
  <2> QED BY <2>1 DEF RunInv, OneTaskPerRun
<1> QED BY <1>8, <1>9, <1>12, <1>13, <1>14 DEF RunInv

\* Closing a run: its task leaves it, and a status that says that nothing was
\* done is written only when nothing was.
LEMMA CloseInv ==
  ASSUME TypeOK, RunInv, NEW t \in Tasks, Finish(t) \/ Cancel(t),
         pc[t] = "finish", WriteOutcome(t)
  PROVE  RunInv'
<1>1. /\ TaskInv(t) /\ UNCHANGED effects
      /\ LeaveTask(t) \/ (NextRule(t) /\ pc[t] # "idle")
  BY DEF RunInv, Finish, Cancel, InRun
<1>2. Job(t) \in Jobs /\ runs[Job(t)].st = "reserved"
  BY <1>1 DEF TypeOK, Job, Jobs, Snapshot, InRun, TaskInv
<1>3. runs' = [runs EXCEPT ![Job(t)].st = outcome[t]]
  BY <1>2 DEF WriteOutcome
<1>4. runs'[Job(t)].st = outcome[t] /\ \A i \in Jobs : i # Job(t) => runs'[i] = runs[i]
  BY <1>2, <1>3 DEF TypeOK
<1>5. AtMostOnce'
  BY <1>1 DEF RunInv, AtMostOnce
<1>6. HonestLedger'
  <2>1. outcome[t] \in {"failed", "skipped"} => \A s \in StepNos : effects[Job(t)][s] = 0
    BY <1>1 DEF TaskInv, NothingAfter, StepNos
  <2>2. outcome[t] # "none"
    BY DEF TypeOK, Terminal
  <2> QED BY <1>1, <1>4, <2>1, <2>2 DEF RunInv, HonestLedger
<1>7. TaskInv(t)' /\ pc'[t] \notin InRun
  BY <1>1, LeaveInv
<1>8. \A u \in Tasks : u # t => /\ pc'[u] = pc[u] /\ key'[u] = key[u] /\ cur'[u] = cur[u]
                                /\ step'[u] = step[u] /\ listed'[u] = listed[u]
                                /\ todo'[u] = todo[u] /\ outcome'[u] = outcome[u]
  BY OneTask DEF TaskStep
<1>9. \A u \in Tasks : u # t /\ pc[u] \in InRun => Job(u) # Job(t)
  BY DEF RunInv, OneTaskPerRun, InRun
<1>10. \A u \in Tasks : u # t => TaskInv(u)'
  <2>1. \A i \in Jobs : i # Job(t) => runs'[i] = runs[i] /\ effects'[i] = effects[i]
    BY <1>1, <1>4
  <2> QED BY <1>2, <1>8, <1>9, <2>1, OthersKeepRuns
<1>11. OneTaskPerRun'
  BY <1>7, <1>8 DEF RunInv, OneTaskPerRun, Job
<1> QED BY <1>5, <1>6, <1>7, <1>10, <1>11 DEF RunInv

\* A cancelled task leaves, or goes on to record what it no longer knows.
LEMMA CancelInv ==
  ASSUME TypeOK, RunInv, NEW t \in Tasks, Cancel(t)
  PROVE  RunInv'
<1>0. TaskInv(t) /\ UNCHANGED effects
  BY DEF RunInv, Cancel
<1>1. CASE LeaveTask(t) /\ UNCHANGED runs
  BY <1>0, <1>1, LeaveInv, QuietStep DEF TaskStep
<1>2. CASE /\ pc[t] = "rule"
           /\ \E s \in todo[t] : Claimable(s, key[t]) /\ Reserve(s, key[t])
           /\ LeaveTask(t)
  <2>1. PICK s \in todo[t] : Claimable(s, key[t]) /\ Reserve(s, key[t])
    BY <1>2
  <2> DEFINE new == <<s.id, key[t]>>
  <2>2. /\ new \in Jobs /\ runs[new].st = "none"
        /\ \A j \in Jobs : j # new => runs'[j] = runs[j]
        /\ AtMostOnce' /\ HonestLedger'
    BY <1>0, <1>2, <2>1, ReserveInv
  <2>3. \A u \in Tasks : u # t => /\ pc'[u] = pc[u] /\ key'[u] = key[u] /\ cur'[u] = cur[u]
                                  /\ step'[u] = step[u] /\ listed'[u] = listed[u]
                                  /\ todo'[u] = todo[u] /\ outcome'[u] = outcome[u]
    BY OneTask DEF TaskStep
  <2>4. \A u \in Tasks : u # t /\ pc[u] \in InRun => Job(u) # new
    BY <2>2 DEF RunInv, TaskInv
  <2>5. \A u \in Tasks : u # t => TaskInv(u)'
    <3>1. \A i \in Jobs : i # new => runs'[i] = runs[i] /\ effects'[i] = effects[i]
      BY <1>0, <2>2
    <3> HIDE DEF new
    <3> QED BY <2>2, <2>3, <2>4, <3>1, OthersKeepRuns
  <2>6. TaskInv(t)' /\ pc'[t] \notin InRun
    BY <1>2, LeaveInv
  <2>7. OneTaskPerRun'
    BY <2>3, <2>6 DEF RunInv, OneTaskPerRun, Job
  <2> QED BY <2>2, <2>5, <2>6, <2>7 DEF RunInv
<1>3. CASE /\ pc[t] \in InRun \ {"finish"}
           /\ Stop(t, "unknown")
           /\ todo' = [todo EXCEPT ![t] = {}]
           /\ UNCHANGED <<runs, key, listed, cur, step>>
  <2>1. /\ pc'[t] = "finish" /\ outcome'[t] = "unknown" /\ todo'[t] = {}
        /\ Job(t)' = Job(t) /\ runs' = runs
        /\ listed'[t] = listed[t] /\ key'[t] = key[t]
    BY <1>3 DEF TypeOK, Stop, Goto, Job
  <2>2. runs[Job(t)].st = "reserved" /\ \A s \in listed[t] : Steps[s.def][key[t]] # <<>>
    BY <1>0, <1>3 DEF TaskInv
  <2>3. TaskInv(t)'
    BY <2>1, <2>2 DEF TaskInv, InRun
  <2> QED BY <1>0, <1>3, <2>1, <2>3, QuietStep DEF TaskStep
<1>4. CASE pc[t] = "finish" /\ WriteOutcome(t)
  BY <1>4, CloseInv
<1> QED BY <1>1, <1>2, <1>3, <1>4 DEF Cancel

\* Everything outside the tasks leaves the ledger and the effects alone; after a
\* restart no task is left.
LEMMA WorldInv ==
  ASSUME TypeOK, RunInv, World
  PROVE  RunInv'
<1>1. UNCHANGED <<runs, effects>>
  BY DEF World, Close, Restart, EditRules, Clock, SetGrant, Decide
<1>2. AtMostOnce' /\ HonestLedger'
  BY <1>1 DEF RunInv, AtMostOnce, HonestLedger
<1>3. CASE Restart
  <2>1. \A t \in Tasks : pc'[t] = "idle" /\ listed'[t] = {} /\ todo'[t] = {} /\ step'[t] = 0
    BY <1>3 DEF Restart
  <2> QED BY <1>2, <2>1 DEF RunInv, TaskInv, OneTaskPerRun, InRun
<1>4. CASE UNCHANGED <<pc, key, listed, todo, cur, step, live, suppress, outcome>>
  <2>1. \A t \in Tasks : TaskInv(t)'
    BY <1>1, <1>4, OtherTask
  <2>2. OneTaskPerRun'
    BY <1>4 DEF RunInv, OneTaskPerRun, Job
  <2> QED BY <1>2, <2>1, <2>2 DEF RunInv
<1> QED BY <1>3, <1>4 DEF World, Close, EditRules, Clock, SetGrant, Decide, taskVars

-----------------------------------------------------------------------------
\* The runtime starts with an empty ledger and no task.
LEMMA RunInvInit == Init => RunInv
BY DEF Init, RunInv, TaskInv, AtMostOnce, HonestLedger, OneTaskPerRun, InRun

\* Every step of the runtime and of its world keeps the types and RunInv.
LEMMA RunInvStep ==
  ASSUME TypeOK, RunInv, [Next]_vars
  PROVE  TypeOK' /\ RunInv'
<1>1. CASE World
  BY <1>1, WorldType, WorldInv
<1>2. ASSUME NEW t \in Tasks, TaskStep(t) \/ Land(t)
      PROVE  TypeOK' /\ RunInv'
  <2>1. TypeOK'
    BY <1>2, TaskStepType
  <2>2. CASE Filter(t) \/ Gate(t) \/ EnterSlot(t)
    BY <2>1, <2>2, BeforeRunInv
  <2>3. CASE Claim(t)
    BY <2>1, <2>3, ClaimInv
  <2>4. CASE \/ LiveCheck(t) \/ AuthCheck(t) \/ Send(t) \/ Unchanged(t) \/ Refuse(t)
             \/ Answer(t) \/ Lose(t)
    BY <2>1, <2>4, InRunInv
  <2>5. CASE Finish(t)
    BY <2>1, <2>5, CloseInv DEF Finish
  <2>6. CASE Cancel(t)
    BY <2>1, <2>6, CancelInv
  <2>7. CASE Land(t)
    BY <2>1, <2>7, LandInv
  <2> QED BY <1>2, <2>2, <2>3, <2>4, <2>5, <2>6, <2>7 DEF TaskStep
<1>3. ASSUME NEW t \in Tasks, NEW k \in Keys, HandleEvent(t, k)
      PROVE  TypeOK' /\ RunInv'
  BY <1>3, HandleEventType, BeforeRunInv
<1>4. CASE UNCHANGED vars
  <2>1. \A t \in Tasks : TaskInv(t)'
    BY <1>4, OtherTask DEF vars
  <2>2. AtMostOnce' /\ HonestLedger' /\ OneTaskPerRun'
    BY <1>4 DEF vars, RunInv, AtMostOnce, HonestLedger, OneTaskPerRun, Job
  <2>3. TypeOK'
    BY <1>4 DEF vars, TypeOK, StoreTypeOK
  <2> QED BY <2>1, <2>2, <2>3 DEF RunInv
<1> QED BY <1>1, <1>2, <1>3, <1>4 DEF Next

\* Whatever the number of events, rules, authors and steps, every run that has
\* ever been reserved has each of its steps done at most once, a ledger entry
\* that is true, and one task (automation_rules.py:458-545).
THEOREM RunsSafe == Spec => [](TypeOK /\ RunInv)
<1>1. Init => TypeOK /\ RunInv
  BY InitType, RunInvInit
<1>2. TypeOK /\ RunInv /\ [Next]_vars => (TypeOK /\ RunInv)'
  BY RunInvStep
<1> QED BY <1>1, <1>2, PTL DEF Spec

\* The variables keep their kinds, for every value of the constants
\* (automation_rules.py:458-545).
THEOREM TypeCorrect == Spec => []TypeOK
BY RunsSafe, PTL

\* No step of a run reaches Discord twice: duplicates of an event, pauses,
\* edits, cancellations and restarts included (storage.py:421-423).
THEOREM EffectsAtMostOnce == Spec => []AtMostOnce
<1>1. TypeOK /\ RunInv => AtMostOnce
  BY DEF RunInv
<1> QED BY <1>1, RunsSafe, PTL

\* A run recorded as failed or skipped has done nothing, and nothing is done
\* before the reservation (automation_rules.py:508-545).
THEOREM LedgerIsHonest == Spec => []HonestLedger
<1>1. TypeOK /\ RunInv => HonestLedger
  BY DEF RunInv
<1> QED BY <1>1, RunsSafe, PTL

-----------------------------------------------------------------------------
\* The runtime implements RunLedger.

\* The status of every run, which is what RunLedger keeps of it.
Status == [j \in Jobs |-> runs[j].st]

\* A claim is the ledger's Reserve (storage.py:683-720).
LEMMA ReserveStep ==
  ASSUME TypeOK, NEW t \in Tasks, NEW s \in todo[t],
         pc[t] = "rule", Claimable(s, key[t]), Reserve(s, key[t]),
         UNCHANGED effects
  PROVE  Ledger!Next
<1> DEFINE new == <<s.id, key[t]>>
<1>1. new \in Jobs
  BY DEF TypeOK, Snapshot, Jobs
<1>5. runs[new].st = "none"
  BY DEF Claimable
<1>2. runs' = [runs EXCEPT ![new] =
                              [st |-> "reserved", at |-> now, under |-> s.def, before |-> Counted(s.id)]]
  BY DEF Reserve
<1>3. Status' = [Status EXCEPT ![new] = "reserved"]
  BY <1>1, <1>2 DEF TypeOK, Status
<1>4. PICK j \in Jobs : j = new
  BY <1>1
<1>6. Ledger!Reserve(j)
  BY <1>1, <1>3, <1>4, <1>5 DEF Ledger!Reserve, Status
<1> QED BY <1>4, <1>6 DEF Ledger!Next

\* A request that takes effect is the ledger's Perform, of a step of a reserved
\* run with nothing done from it on (automation_rules.py:518-531).
LEMMA PerformStep ==
  ASSUME TypeOK, RunInv, NEW t \in Tasks, Land(t)
  PROVE  Ledger!Next
<1> DEFINE j == Job(t)
           n == step[t] + 1
<1>1. TaskInv(t) /\ pc[t] = "flight" /\ UNCHANGED runs /\ effects' = [effects EXCEPT ![j][n] = @ + 1]
  BY DEF RunInv, Land
<1>2. j \in Jobs
  BY <1>1 DEF TypeOK, Job, Jobs, Snapshot, InRun
<1>3. step[t] \in Nat /\ n \in StepNos
  <2>1. step[t] \in 0 .. MaxStep /\ MaxStep \in Nat
    BY RuntimeAssumption DEF TypeOK
  <2>2. step[t] < Len(Plan(t))
    BY <1>1 DEF TaskInv, InRun
  <2>3. Len(Plan(t)) \in Nat /\ Len(Plan(t)) <= MaxStep
    BY <1>1, PlanType DEF InRun
  <2> QED BY <2>1, <2>2, <2>3 DEF StepNos
<1>4. runs[j].st = "reserved" /\ NothingAfter(j, step[t])
  BY <1>1 DEF TaskInv, InRun
<1>5. \A later \in StepNos : later >= n => effects[j][later] = 0
  BY <1>3, <1>4 DEF NothingAfter, StepNos
<1>6. effects[j][n] = 0
  BY <1>3, <1>5 DEF StepNos
<1>7. effects' = [effects EXCEPT ![j][n] = 1]
  BY <1>1, <1>2, <1>3, <1>6 DEF TypeOK
<1>8. Status[j] = "reserved" /\ Status' = Status
  BY <1>1, <1>2, <1>4 DEF Status
<1>9. Ledger!Perform(j, n)
  <2> HIDE DEF j, n
  <2> QED BY <1>5, <1>7, <1>8 DEF Ledger!Perform, Status
<1> QED BY <1>2, <1>3, <1>9 DEF Ledger!Next

\* Writing the outcome is the ledger's Close (storage.py:723-741).
LEMMA CloseStep ==
  ASSUME TypeOK, RunInv, NEW t \in Tasks, pc[t] = "finish", WriteOutcome(t), UNCHANGED effects
  PROVE  Ledger!Next
<1> DEFINE j == Job(t)
           st == outcome[t]
<1>1. TaskInv(t) /\ j \in Jobs
  BY DEF RunInv, TypeOK, Job, Jobs, Snapshot, InRun
<1>2. runs[j].st = "reserved"
  BY <1>1 DEF TaskInv, InRun
<1>3. Status' = [Status EXCEPT ![j] = st]
  <2>1. runs' = [runs EXCEPT ![j].st = st]
    BY <1>2 DEF WriteOutcome
  <2>2. runs'[j].st = st /\ \A i \in Jobs : i # j => runs'[i] = runs[i]
    BY <1>1, <2>1 DEF TypeOK
  <2> QED BY <1>1, <2>2 DEF Status
<1>4. st \in {"failed", "skipped"} => \A s \in StepNos : effects[j][s] = 0
  BY <1>1 DEF TaskInv, NothingAfter, StepNos
<1>5. st \in Terminal
  BY DEF TypeOK
<1>6. Status[j] = "reserved"
  BY <1>1, <1>2 DEF Status
<1>7. PICK i \in Jobs, s \in Ledger!Terminal : i = j /\ s = st
  BY <1>1, <1>5 DEF Terminal, Ledger!Terminal
<1>8. Ledger!Close(i, s)
  <2> HIDE DEF j, st
  <2> QED BY <1>3, <1>4, <1>6, <1>7 DEF Ledger!Close, Ledger!NothingDone, Status
<1> QED BY <1>7, <1>8 DEF Ledger!Next

\* Every step of the runtime is a step of the ledger or leaves it alone.
LEMMA LedgerStep ==
  ASSUME TypeOK, RunInv, [Next]_vars
  PROVE  Ledger!Next \/ (Status' = Status /\ effects' = effects)
<1>1. CASE World \/ UNCHANGED vars
  BY <1>1 DEF World, Close, Restart, EditRules, Clock, SetGrant, Decide, vars, Status
<1>2. ASSUME NEW t \in Tasks, NEW k \in Keys, HandleEvent(t, k)
      PROVE  Ledger!Next \/ (Status' = Status /\ effects' = effects)
  BY <1>2 DEF HandleEvent, Status
<1>3. ASSUME NEW t \in Tasks, TaskStep(t) \/ Land(t)
      PROVE  Ledger!Next \/ (Status' = Status /\ effects' = effects)
  <2>1. CASE Claim(t)
    <3>1. PICK s \in todo[t] : Claim(t)!4!(s)
      BY <2>1 DEF Claim
    <3>2. CASE Claimable(s, key[t])
      BY <2>1, <3>1, <3>2, ReserveStep DEF Claim
    <3> QED BY <2>1, <3>1, <3>2 DEF Claim, Status
  <2>2. CASE Land(t)
    BY <2>2, PerformStep
  <2>3. CASE Finish(t)
    BY <2>3, CloseStep DEF Finish
  <2>4. CASE Cancel(t)
    <3>1. UNCHANGED effects
      BY <2>4 DEF Cancel
    <3>2. \/ UNCHANGED runs
          \/ /\ pc[t] = "rule"
             /\ \E s \in todo[t] : Claimable(s, key[t]) /\ Reserve(s, key[t])
          \/ pc[t] = "finish" /\ WriteOutcome(t)
      BY <2>4 DEF Cancel
    <3>3. CASE pc[t] = "rule" /\ \E s \in todo[t] : Claimable(s, key[t]) /\ Reserve(s, key[t])
      BY <3>1, <3>3, ReserveStep
    <3>4. CASE pc[t] = "finish" /\ WriteOutcome(t)
      BY <3>1, <3>4, CloseStep
    <3> QED BY <3>1, <3>2, <3>3, <3>4 DEF Status
  <2>5. CASE UNCHANGED <<runs, effects>>
    BY <2>5 DEF Status
  <2>6. \/ Claim(t) \/ Land(t) \/ Finish(t) \/ Cancel(t) \/ UNCHANGED <<runs, effects>>
    BY <1>3 DEF TaskStep, Filter, Gate, EnterSlot, LiveCheck, AuthCheck, Send, Unchanged, Refuse,
                Answer, Lose
  <2> QED BY <2>1, <2>2, <2>3, <2>4, <2>5, <2>6
<1> QED BY <1>1, <1>2, <1>3 DEF Next

\* The runtime keeps the promise of RunLedger: a run is reserved once, its steps
\* are done in order and once, and nothing after its status is written
\* (automation_rules.py:3-5).
THEOREM ImplementsLedger == Spec => LedgerSpec
<1>1. Init => Ledger!Init
  BY DEF Init, Ledger!Init
<1>2. TypeOK /\ RunInv /\ [Next]_vars => [Ledger!Next]_(Ledger!ledgerVars)
  BY LedgerStep DEF Ledger!ledgerVars, Status
<1> QED BY <1>1, <1>2, RunsSafe, PTL DEF Spec, LedgerSpec, Ledger!Spec

-----------------------------------------------------------------------------
\* What a run's status and its requests rest on.

\* The messages of the first n steps of a task's run have been sent.
SentUpTo(t, n) ==
  \A s \in 1 .. n : Plan(t)[s] = "send_message" => effects[Job(t)][s] = 1

StepsSent(t) ==
  /\ pc[t] \in InRun \ {"finish"} => SentUpTo(t, step[t])
  /\ pc[t] = "landed" => effects[Job(t)][step[t] + 1] = 1
  /\ pc[t] = "finish" /\ outcome[t] = "completed" => SentUpTo(t, Len(Plan(t)))

\* The gate's verdict, as the task has gone on with it.
GatePassed(t) ==
  /\ pc[t] \in {"slot"} \cup InSlot =>
       \/ verdict[key[t]] = "clear"
       \/ Kind[key[t]] = "member_remove"
       \/ Kind[key[t]] = "member_join" /\ suppress[t]
  /\ pc[t] \in {"issue", "flight", "landed"} => ~(suppress[t] /\ Action(t) = "role")

Attended ==
  ~stopped => (\A t \in Tasks : ~cancelled[t]) /\ NoOrphanRun

OutcomeInv ==
  /\ Attended
  /\ \A t \in Tasks : StepsSent(t) /\ GatePassed(t)

\* The effects of a task's run are its own.
LEMMA OthersEffects ==
  ASSUME TypeOK, RunInv, NEW t \in Tasks, NEW u \in Tasks, u # t, pc[u] \in InRun,
         TaskStep(t) \/ Land(t) \/ \E k \in Keys : HandleEvent(t, k)
  PROVE  effects'[Job(u)] = effects[Job(u)]
<1>1. CASE Land(t)
  <2>1. Job(u) # Job(t) /\ Job(u) \in Jobs
    BY <1>1, PlanType DEF RunInv, OneTaskPerRun, Land, InRun
  <2> QED BY <1>1, <2>1, LandEffect
<1>2. CASE ~Land(t)
  BY <1>2 DEF TaskStep, Filter, Gate, EnterSlot, Claim, LiveCheck, AuthCheck, Send, Unchanged,
              Refuse, Answer, Lose, Finish, Cancel, HandleEvent
<1> QED BY <1>1, <1>2

\* A run keeps the messages it has sent, and sends those it counts as answered
\* (automation_rules.py:527-531).
LEMMA OwnSent ==
  ASSUME TypeOK, RunInv, NEW t \in Tasks, StepsSent(t),
         TaskStep(t) \/ Land(t) \/ \E k \in Keys : HandleEvent(t, k)
  PROVE  StepsSent(t)'
<1> USE DEF TypeOK, Goto, Stop
<1>1. ASSUME pc'[t] \notin InRun PROVE StepsSent(t)'
  BY <1>1 DEF StepsSent, InRun
<1>2. CASE Filter(t) \/ Gate(t) \/ EnterSlot(t) \/ Finish(t) \/ \E k \in Keys : HandleEvent(t, k)
  <2>1. CASE LeaveTask(t) \/ NextRule(t)
    BY <1>1, <2>1, LeaveType DEF InRun
  <2>2. CASE ~(LeaveTask(t) \/ NextRule(t))
    BY <1>1, <1>2, <2>2 DEF Filter, Gate, EnterSlot, Finish, HandleEvent, InRun
  <2> QED BY <2>1, <2>2
<1>3. CASE Claim(t)
  <2>1. \/ pc'[t] \notin InRun
        \/ pc'[t] = "check" /\ step'[t] = step[t]
    BY <1>3 DEF Claim, LeaveTask, InRun
  <2>2. step[t] = 0
    BY <1>3 DEF RunInv, TaskInv, Claim, InRun
  <2> QED BY <1>1, <2>1, <2>2 DEF StepsSent, SentUpTo
<1>4. ASSUME pc[t] \in InRun \ {"finish"}, UNCHANGED <<effects, key, cur, step>>,
             \/ pc'[t] \in {"check", "auth", "issue", "flight"}
             \/ pc'[t] = "finish" /\ outcome'[t] # "completed"
      PROVE  StepsSent(t)'
  <2>1. Job(t)' = Job(t) /\ Plan(t)' = Plan(t) /\ step'[t] = step[t]
    BY <1>4 DEF Job, Plan
  <2>2. SentUpTo(t, step[t])
    BY <1>4 DEF StepsSent
  <2> QED BY <1>4, <2>1, <2>2 DEF StepsSent, SentUpTo, InRun
<1>5. CASE LiveCheck(t) \/ AuthCheck(t) \/ Send(t) \/ Refuse(t) \/ Lose(t)
  BY <1>4, <1>5 DEF LiveCheck, AuthCheck, Send, Refuse, Lose, Partly, InRun
<1>6. CASE Cancel(t)
  <2>1. CASE pc'[t] \in InRun
    BY <1>4, <1>6, <2>1 DEF Cancel, LeaveTask, InRun
  <2> QED BY <1>1, <2>1
<1>7. CASE Unchanged(t) \/ Answer(t)
  <2>1. /\ pc[t] \in {"issue", "landed"} /\ UNCHANGED <<effects, key, cur>>
        /\ step'[t] = step[t] + 1
        /\ \/ pc'[t] = "check"
           \/ pc'[t] = "finish" /\ step[t] + 1 = Len(Plan(t))
    BY <1>7 DEF Unchanged, Answer, StepDone
  <2>2. Job(t)' = Job(t) /\ Plan(t)' = Plan(t)
    BY <2>1 DEF Job, Plan
  <2>3. step[t] \in Nat
    BY RuntimeAssumption
  <2>4. SentUpTo(t, step[t])
    BY <2>1 DEF StepsSent, InRun
  <2>5. Plan(t)[step[t] + 1] = "send_message" => effects[Job(t)][step[t] + 1] = 1
    BY <1>7, <2>1 DEF Unchanged, Answer, Action, StepsSent
  <2>6. SentUpTo(t, step[t] + 1)
    BY <2>3, <2>4, <2>5 DEF SentUpTo
  <2>7. SentUpTo(t, step[t])'
    BY <2>1, <2>2, <2>3, <2>6 DEF SentUpTo
  <2> QED BY <2>1, <2>2, <2>7 DEF StepsSent, SentUpTo
<1>8. CASE Land(t)
  <2>1. pc[t] = "flight" /\ pc'[t] = "landed" /\ UNCHANGED <<key, cur, step>>
    BY <1>8 DEF Land
  <2>2. Job(t)' = Job(t) /\ Plan(t)' = Plan(t) /\ step'[t] = step[t]
    BY <2>1 DEF Job, Plan
  <2>3. step[t] \in Nat /\ step[t] + 1 \in StepNos /\ MaxStep \in Nat
    BY <1>8, LandEffect, RuntimeAssumption
  <2>4. SentUpTo(t, step[t])
    BY <2>1 DEF StepsSent, InRun
  <2>5. \A s \in 1 .. step[t] : effects'[Job(t)][s] = effects[Job(t)][s]
    <3>1. \A s \in 1 .. step[t] : s \in StepNos /\ s # step[t] + 1
      BY <2>3 DEF StepNos
    <3> QED BY <1>8, <3>1, LandEffect
  <2>6. SentUpTo(t, step[t])'
    BY <2>2, <2>4, <2>5 DEF SentUpTo
  <2> QED BY <1>8, <2>1, <2>2, <2>6, LandEffect DEF StepsSent
<1> QED BY <1>2, <1>3, <1>5, <1>6, <1>7, <1>8 DEF TaskStep

\* A task goes past its gate only with a verdict that lets it, and issues a role
\* step only when join security has cleared the member
\* (automation_rules.py:490-494, 520).
LEMMA OwnGate ==
  ASSUME TypeOK, RunInv, NEW t \in Tasks, GatePassed(t),
         TaskStep(t) \/ Land(t) \/ \E k \in Keys : HandleEvent(t, k)
  PROVE  GatePassed(t)'
<1> USE DEF TypeOK, Goto, Stop
<1>0. UNCHANGED verdict
  BY DEF TaskStep, Filter, Gate, EnterSlot, Claim, LiveCheck, AuthCheck, Send, Unchanged,
         Refuse, Answer, Lose, Finish, Cancel, HandleEvent, Land, envVars
<1>1. ASSUME pc'[t] \in {"idle", "filter", "gate"} PROVE GatePassed(t)'
  BY <1>1 DEF GatePassed, InSlot, InRun
<1>2. ASSUME pc[t] \in {"slot"} \cup InSlot, pc'[t] \notin {"issue", "flight", "landed"},
             UNCHANGED <<key, suppress>>
      PROVE  GatePassed(t)'
  BY <1>0, <1>2 DEF GatePassed
<1>3. CASE Filter(t) \/ \E k \in Keys : HandleEvent(t, k)
  BY <1>1, <1>3 DEF Filter, HandleEvent, LeaveTask
<1>4. CASE Gate(t)
  <2>1. CASE LeaveTask(t)
    BY <1>1, <2>1 DEF LeaveTask
  <2>2. CASE ~LeaveTask(t)
    <3>1. PICK answer \in {verdict[key[t]], "pending"} : Gate(t)!3!(answer)
      BY <1>4 DEF Gate
    <3>2. /\ ~(Kind[key[t]] = "message_create" /\ ~Cleared(answer))
          /\ pc'[t] = "slot" /\ key' = key
          /\ suppress'[t] = (Kind[key[t]] = "member_join" /\ ~Cleared(answer))
      BY <2>2, <3>1
    <3>3. Kind[key[t]] \in Kinds
      BY <1>4, RuntimeAssumption DEF Gate
    <3>4. Cleared(answer) => verdict[key[t]] = "clear"
      BY <3>1 DEF Cleared
    <3> QED BY <1>0, <3>2, <3>3, <3>4 DEF GatePassed, Kinds
  <2> QED BY <2>1, <2>2
<1>5. CASE EnterSlot(t) \/ LiveCheck(t) \/ Refuse(t) \/ Lose(t) \/ Unchanged(t) \/ Answer(t)
  BY <1>2, <1>5 DEF EnterSlot, LiveCheck, Refuse, Lose, Unchanged, Answer, StepDone, InSlot, InRun
<1>6. CASE Claim(t) \/ Finish(t) \/ Cancel(t)
  <2>1. CASE LeaveTask(t)
    BY <1>1, <2>1 DEF LeaveTask
  <2>2. CASE ~LeaveTask(t)
    BY <1>2, <1>6, <2>2 DEF Claim, Finish, Cancel, NextRule, InSlot, InRun
  <2> QED BY <2>1, <2>2
<1>7. CASE AuthCheck(t)
  <2>1. CASE pc'[t] = "finish"
    BY <1>2, <1>7, <2>1 DEF AuthCheck, InSlot, InRun
  <2>2. CASE pc'[t] # "finish"
    <3>1. /\ pc[t] = "auth" /\ UNCHANGED <<key, cur, step, suppress>>
          /\ ~(suppress[t] /\ Action(t) = "role")
      BY <1>7, <2>2 DEF AuthCheck
    <3>2. Action(t)' = Action(t)
      BY <3>1 DEF Action, Plan
    <3> QED BY <1>0, <3>1, <3>2 DEF GatePassed, InSlot, InRun
  <2> QED BY <2>1, <2>2
<1>8. CASE Send(t) \/ Land(t)
  <2>1. pc[t] \in {"issue", "flight"} /\ UNCHANGED <<key, cur, step, suppress>>
    BY <1>8 DEF Send, Land
  <2>2. Action(t)' = Action(t)
    BY <2>1 DEF Action, Plan
  <2> QED BY <1>0, <2>1, <2>2 DEF GatePassed, InSlot, InRun
<1> QED BY <1>3, <1>4, <1>5, <1>6, <1>7, <1>8 DEF TaskStep

\* As long as the process has not been told to stop, a run that is reserved has
\* the task that reserved it (automation_rules.py:508-545).
LEMMA AttendedStep ==
  ASSUME TypeOK, RunInv, Attended, NEW t \in Tasks,
         TaskStep(t) \/ Land(t) \/ \E k \in Keys : HandleEvent(t, k)
  PROVE  Attended'
<1> SUFFICES ASSUME ~stopped' PROVE (\A u \in Tasks : ~cancelled[u])' /\ NoOrphanRun'
  BY DEF Attended
<1>1. stopped' = stopped
  BY DEF TaskStep, Filter, Gate, EnterSlot, Claim, LiveCheck, AuthCheck, Send, Unchanged,
         Refuse, Answer, Lose, Finish, Cancel, HandleEvent, Land
<1>2. ~stopped /\ (\A u \in Tasks : ~cancelled[u]) /\ ~Cancel(t)
  BY <1>1 DEF Attended, Cancel
<1>3. cancelled' = cancelled
  BY <1>2 DEF TaskStep, Filter, Gate, EnterSlot, Claim, LiveCheck, AuthCheck, Send, Unchanged,
              Refuse, Answer, Lose, Finish, HandleEvent, Land
<1>4. \A u \in Tasks : u # t => pc'[u] = pc[u] /\ Job(u)' = Job(u)
  BY OneTask DEF Job
<1>5. \A j \in Jobs : runs[j].st = "reserved" => \E u \in Tasks : pc[u] \in InRun /\ Job(u) = j
  BY <1>2 DEF Attended, NoOrphanRun
<1>6. ASSUME NEW j \in Jobs, runs'[j].st = "reserved"
      PROVE  \E u \in Tasks : pc'[u] \in InRun /\ Job(u)' = j
  <2> USE DEF TypeOK, Goto, Stop
  <2>1. ASSUME pc[t] \in InRun => pc'[t] \in InRun /\ Job(t)' = Job(t), runs'[j] = runs[j]
        PROVE  \E u \in Tasks : pc'[u] \in InRun /\ Job(u)' = j
    BY <1>4, <1>5, <1>6, <2>1
  <2>2. CASE Claim(t) /\ runs' # runs
    <3>1. PICK s \in todo[t] : Claim(t)!4!(s)
      BY <2>2 DEF Claim
    <3>2. /\ Reserve(s, key[t]) /\ cur'[t] = s /\ key'[t] = key[t] /\ pc'[t] = "check"
          /\ <<s.id, key[t]>> \in Jobs
      BY <2>2, <3>1 DEF Claim, Snapshot, Jobs
    <3>3. Job(t)' = <<s.id, key[t]>>
      BY <3>2 DEF Job
    <3>4. CASE j = <<s.id, key[t]>>
      BY <3>2, <3>3, <3>4 DEF InRun
    <3>5. CASE j # <<s.id, key[t]>>
      <4>1. runs'[j] = runs[j]
        BY <3>2, <3>5 DEF Reserve
      <4>2. pc[t] \notin InRun
        BY <2>2 DEF Claim, InRun
      <4> QED BY <2>1, <4>1, <4>2
    <3> QED BY <3>4, <3>5
  <2>3. CASE Finish(t)
    <3>1. runs[Job(t)].st = "reserved" /\ Job(t) \in Jobs /\ outcome[t] # "reserved"
      BY <2>3, PlanType DEF Finish, RunInv, TaskInv, InRun, Terminal
    <3>2. runs'[Job(t)].st = outcome[t] /\ \A i \in Jobs : i # Job(t) => runs'[i] = runs[i]
      BY <2>3, <3>1 DEF Finish, WriteOutcome
    <3>3. j # Job(t) /\ runs'[j] = runs[j]
      BY <1>6, <3>1, <3>2
    <3> QED BY <1>4, <1>5, <1>6, <3>3
  <2>4. CASE \/ (Claim(t) /\ runs' = runs) \/ Filter(t) \/ Gate(t) \/ EnterSlot(t)
             \/ \E k \in Keys : HandleEvent(t, k)
    <3>1. pc[t] \notin InRun /\ runs' = runs
      BY <2>4 DEF Claim, Filter, Gate, EnterSlot, HandleEvent, InRun
    <3> QED BY <2>1, <3>1
  <2>5. CASE \/ LiveCheck(t) \/ AuthCheck(t) \/ Send(t) \/ Unchanged(t) \/ Refuse(t)
             \/ Answer(t) \/ Lose(t) \/ Land(t)
    <3>1. pc'[t] \in InRun /\ UNCHANGED <<runs, key, cur>>
      BY <2>5 DEF LiveCheck, AuthCheck, Send, Unchanged, Refuse, Answer, Lose, Land, StepDone, InRun
    <3> QED BY <2>1, <3>1 DEF Job
  <2> QED BY <1>2, <2>2, <2>3, <2>4, <2>5 DEF TaskStep
<1> QED BY <1>2, <1>3, <1>6 DEF NoOrphanRun

\* A task keeps both when neither it nor its run is touched and a verdict that was
\* found stays (moderation_gate.py:33-45).
LEMMA OtherOutcome ==
  ASSUME TypeOK, NEW u \in Tasks, StepsSent(u), GatePassed(u),
         pc'[u] = pc[u] /\ key'[u] = key[u] /\ cur'[u] = cur[u] /\ step'[u] = step[u],
         outcome'[u] = outcome[u] /\ suppress'[u] = suppress[u],
         pc[u] \in InRun => effects'[Job(u)] = effects[Job(u)],
         \A k \in Keys : verdict[k] = "clear" => verdict'[k] = "clear"
  PROVE  StepsSent(u)' /\ GatePassed(u)'
<1>1. Job(u)' = Job(u) /\ Plan(u)' = Plan(u) /\ Action(u)' = Action(u)
  BY DEF Job, Plan, Action
<1>2. StepsSent(u)'
  BY <1>1 DEF StepsSent, SentUpTo, InRun
<1>3. GatePassed(u)'
  <2>1. pc[u] \in {"slot"} \cup InSlot => key[u] \in Keys
    BY DEF TypeOK, InSlot, InRun
  <2> QED BY <1>1, <2>1 DEF GatePassed
<1> QED BY <1>2, <1>3

\* Every step keeps what a run's status and its requests rest on.
LEMMA OutcomeInvStep ==
  ASSUME TypeOK, RunInv, OutcomeInv, [Next]_vars
  PROVE  OutcomeInv'
<1>1. ASSUME NEW t \in Tasks, TaskStep(t) \/ Land(t) \/ \E k \in Keys : HandleEvent(t, k)
      PROVE  OutcomeInv'
  <2>1. Attended' /\ StepsSent(t)' /\ GatePassed(t)'
    BY <1>1, AttendedStep, OwnSent, OwnGate DEF OutcomeInv
  <2>2. UNCHANGED verdict
    BY <1>1 DEF TaskStep, Filter, Gate, EnterSlot, Claim, LiveCheck, AuthCheck, Send, Unchanged,
                Refuse, Answer, Lose, Finish, Cancel, HandleEvent, Land, envVars
  <2>3. ASSUME NEW u \in Tasks, u # t PROVE StepsSent(u)' /\ GatePassed(u)'
    BY <1>1, <2>2, <2>3, OneTask, OthersEffects, OtherOutcome DEF OutcomeInv
  <2> QED BY <2>1, <2>3 DEF OutcomeInv
<1>2. CASE Restart
  <2>1. stopped' /\ \A t \in Tasks : pc'[t] = "idle"
    BY <1>2 DEF Restart
  <2> QED BY <2>1 DEF OutcomeInv, Attended, StepsSent, GatePassed, InRun, InSlot
<1>3. CASE (World /\ ~Restart) \/ UNCHANGED vars
  <2>1. UNCHANGED <<runs, effects, pc, key, listed, todo, cur, step, live, suppress, outcome>>
    BY <1>3 DEF World, Close, EditRules, Clock, SetGrant, Decide, taskVars, vars
  <2>2. \A k \in Keys : verdict[k] = "clear" => verdict'[k] = "clear"
    BY <1>3 DEF World, Close, EditRules, Clock, SetGrant, Decide, envVars, vars, TypeOK
  <2>3. \A u \in Tasks : StepsSent(u)' /\ GatePassed(u)'
    BY <2>1, <2>2, OtherOutcome DEF OutcomeInv
  <2>4. stopped' \/ (stopped' = stopped /\ cancelled' = cancelled)
    BY <1>3 DEF World, Close, EditRules, Clock, SetGrant, Decide, vars
  <2>5. Attended'
    BY <2>1, <2>4 DEF OutcomeInv, Attended, NoOrphanRun, Job
  <2> QED BY <2>3, <2>5 DEF OutcomeInv
<1> QED BY <1>1, <1>2, <1>3 DEF Next

\* A run is recorded as completed only when each of its messages was sent, no
\* request goes out for an event its gate has not cleared, and while the process
\* runs no reservation is left without the task that made it
\* (automation_rules.py:490-545).
THEOREM OutcomesAreTrue == Spec => []OutcomesTrue
<1>1. Init => OutcomeInv
  BY DEF Init, OutcomeInv, Attended, NoOrphanRun, StepsSent, GatePassed, InRun, InSlot
<1>2. TypeOK /\ RunInv /\ OutcomeInv /\ [Next]_vars => OutcomeInv'
  BY OutcomeInvStep
<1>3. TypeOK /\ OutcomeInv => OutcomesTrue
  <2> SUFFICES ASSUME TypeOK, OutcomeInv PROVE OutcomesTrue
    OBVIOUS
  <2>1. CompletedMeansDone
    BY DEF OutcomeInv, StepsSent, SentUpTo, CompletedMeansDone
  <2>2. OnlyCleared
    BY DEF OutcomeInv, GatePassed, OnlyCleared, InSlot, InRun
  <2>3. NoOrphanRun
    BY DEF OutcomeInv, Attended, NoOrphanRun
  <2> QED BY <2>1, <2>2, <2>3 DEF OutcomesTrue
<1> QED BY <1>1, <1>2, <1>3, RunsSafe, PTL DEF Spec

-----------------------------------------------------------------------------
\* A chain whose rule or author was stopped.

\* The rule a task runs was live and committed when it was claimed; since then it
\* is the same, or later, or gone.
Gone(table, s) == table[s.id] = NoRule \/ table[s.id].rev > s.rev
SinceClaim(t) ==
  pc[t] \in InRun =>
    /\ cur[t].id < CommittedNext
    /\ Gone(Committed, cur[t]) \/ LiveIn(Committed, cur[t].id, cur[t].rev)

\* A step that took effect after the rule or its author was stopped is the last:
\* the next check finds the rule gone or the author without a grant.
ChainInv(t) ==
  /\ SinceClaim(t)
  /\ pc[t] \notin InRun => late[t] = 0
  /\ late[t] # 0 =>
       /\ late[t] = 1
       /\ pc[t] \in {"landed", "check", "auth", "finish"}
       /\ \/ ~Authorized(cur[t].owner)
          \/ Gone(Committed, cur[t]) /\ (pc[t] = "auth" => ~live[t])

StopInv == StoreInv /\ \A t \in Tasks : ChainInv(t)

\* What is gone stays gone, and what was live is live or gone, as the table moves
\* forward.
LEMMA LaterGone ==
  ASSUME NEW table \in Table, NEW after \in Table, NEW next \in Int, NEW afterNext \in Int,
         Later(table, next, after, afterNext), NEW s \in Snapshot, s.id < next
  PROVE  /\ s.id < afterNext
         /\ Gone(table, s) => Gone(after, s)
         /\ LiveIn(table, s.id, s.rev) => Gone(after, s) \/ LiveIn(after, s.id, s.rev)
<1>1. s.id \in Ids /\ s.id \in Int /\ s.rev \in Int
  BY DEF Snapshot, Ids, Revs
<1>2. table[s.id] # NoRule => table[s.id].rev \in Int
  BY <1>1 DEF Table, Rule, Revs
<1>3. after[s.id] # NoRule => after[s.id].rev \in Int
  BY <1>1 DEF Table, Rule, Revs
<1>4. \/ after[s.id] = NoRule
      \/ table[s.id] # NoRule /\ (after[s.id] = table[s.id] \/ after[s.id].rev > table[s.id].rev)
  BY <1>1 DEF Later
<1>5. s.id < afterNext
  BY <1>1 DEF Later
<1>6. Gone(table, s) => Gone(after, s)
  BY <1>1, <1>2, <1>3, <1>4 DEF Gone
<1>7. LiveIn(table, s.id, s.rev) => Gone(after, s) \/ LiveIn(after, s.id, s.rev)
  BY <1>1, <1>2, <1>3, <1>4 DEF Gone, LiveIn
<1> QED BY <1>5, <1>6, <1>7

\* A rule that is gone from what is committed is not found live by a check.
LEMMA GoneNotLive ==
  ASSUME TypeOK, StoreInv, NEW s \in Snapshot, s.id < CommittedNext, Gone(Committed, s)
  PROVE  ~Live(s.id, s.rev)
<1>1. Committed \in Table /\ CommittedNext \in Int /\ rules \in Table /\ nextId \in Int
  BY CommittedType DEF TypeOK, StoreTypeOK
<1>2. Gone(rules, s)
  BY <1>1, LaterGone DEF StoreInv
<1>3. s.id \in Ids /\ s.rev \in Int
  BY DEF Snapshot, Revs
<1> QED BY <1>2, <1>3 DEF Gone, Live, LiveIn

\* The claim found its rule live and no transaction open.
LEMMA ClaimSince ==
  ASSUME TypeOK, StoreInv, NEW t \in Tasks, NEW s \in todo[t], LockFree, Claimable(s, key[t])
  PROVE  s.id < CommittedNext /\ LiveIn(Committed, s.id, s.rev)
<1>1. Committed = rules /\ CommittedNext = nextId
  BY DEF LockFree, Committed, CommittedNext
<1>2. s.id \in Ids /\ LiveIn(rules, s.id, s.rev)
  <2>1. s \in Snapshot
    BY DEF TypeOK
  <2>2. Live(s.id, s.rev)
    BY DEF Claimable
  <2> QED BY <2>1, <2>2 DEF Snapshot, Live
<1>3. s.id < nextId
  BY <1>2 DEF StoreInv, Sound, Handed, LiveIn
<1> QED BY <1>1, <1>2, <1>3

\* A step of a task keeps what it knows of its rule and of its author
\* (automation_rules.py:508-531).
LEMMA OwnChain ==
  ASSUME TypeOK, RunInv, StoreInv, NEW t \in Tasks, ChainInv(t),
         TaskStep(t) \/ Land(t) \/ \E k \in Keys : HandleEvent(t, k)
  PROVE  ChainInv(t)'
<1> USE DEF TypeOK, Goto, Stop
<1>0. UNCHANGED <<storeVars, grants>>
  BY DEF TaskStep, Filter, Gate, EnterSlot, Claim, LiveCheck, AuthCheck, Send, Unchanged,
         Refuse, Answer, Lose, Finish, Cancel, HandleEvent, Land, envVars
<1>1. Committed' = Committed /\ CommittedNext' = CommittedNext
  BY <1>0 DEF storeVars, Committed, CommittedNext
<1>2. ASSUME pc'[t] \notin InRun, late'[t] = 0 PROVE ChainInv(t)'
  BY <1>2 DEF ChainInv, SinceClaim, InRun
<1>3. CASE LeaveTask(t) \/ NextRule(t)
  <2>1. late'[t] = 0
    BY <1>3 DEF LeaveTask, NextRule
  <2> QED BY <1>2, <1>3, <2>1, LeaveType DEF InRun
<1>4. CASE /\ ~LeaveTask(t)
           /\ Filter(t) \/ Gate(t) \/ EnterSlot(t) \/ \E k \in Keys : HandleEvent(t, k)
  <2>1. pc'[t] \notin InRun /\ pc[t] \notin InRun /\ late' = late
    BY <1>4 DEF Filter, Gate, EnterSlot, HandleEvent, InRun
  <2> QED BY <1>2, <2>1 DEF ChainInv
<1>5. CASE Claim(t) /\ ~LeaveTask(t)
  <2>1. PICK s \in todo[t] : Claim(t)!4!(s)
    BY <1>5 DEF Claim
  <2>2. late'[t] = 0
    BY <1>5, <2>1 DEF Claim, ChainInv, InRun
  <2>3. CASE Claimable(s, key[t])
    <3>1. s.id < CommittedNext /\ LiveIn(Committed, s.id, s.rev) /\ cur'[t] = s /\ pc'[t] = "check"
      BY <1>5, <2>1, <2>3, ClaimSince DEF Claim
    <3> QED BY <1>1, <2>2, <3>1 DEF ChainInv, SinceClaim, InRun
  <2>4. CASE ~Claimable(s, key[t])
    BY <1>2, <1>5, <2>1, <2>2, <2>4 DEF Claim, InRun
  <2> QED BY <2>3, <2>4
<1>6. ASSUME pc[t] \in InRun, UNCHANGED cur
      PROVE  SinceClaim(t)'
  BY <1>1, <1>6 DEF ChainInv, SinceClaim, Gone
<1>7. ASSUME pc[t] \in InRun, pc'[t] \in InRun, UNCHANGED <<cur, late>>,
             late[t] # 0 => pc'[t] \in {"check", "finish"}
      PROVE  ChainInv(t)'
  <2>1. cur'[t] = cur[t] /\ Authorized(cur[t].owner)' = Authorized(cur[t].owner)
    BY <1>0, <1>7 DEF Authorized
  <2> QED BY <1>1, <1>6, <1>7, <2>1 DEF ChainInv, Gone
<1>8. CASE Refuse(t) \/ Lose(t) \/ Unchanged(t) \/ Answer(t)
  BY <1>7, <1>8 DEF Refuse, Lose, Unchanged, Answer, StepDone, InRun
<1>9. CASE Cancel(t) /\ ~LeaveTask(t)
  BY <1>7, <1>9 DEF Cancel, InRun
<1>10. CASE Send(t)
  BY <1>7, <1>10 DEF Send, ChainInv, InRun
<1>11. CASE LiveCheck(t)
  <2>1. /\ pc[t] = "check" /\ pc'[t] = "auth" /\ UNCHANGED <<cur, late>>
        /\ live'[t] = Live(cur[t].id, cur[t].rev)
    BY <1>11 DEF LiveCheck
  <2>2. cur[t] \in Snapshot /\ cur[t].id < CommittedNext
    BY <2>1 DEF ChainInv, SinceClaim, InRun
  <2>3. Gone(Committed, cur[t]) => ~live'[t]
    BY <2>1, <2>2, GoneNotLive
  <2>4. Authorized(cur[t].owner)' = Authorized(cur[t].owner) /\ Gone(Committed, cur[t])' = Gone(Committed, cur[t])
    BY <1>0, <1>1, <2>1 DEF Authorized, Gone
  <2>5. SinceClaim(t)'
    BY <1>6, <2>1 DEF InRun
  <2> QED BY <2>1, <2>3, <2>4, <2>5 DEF ChainInv, InRun
<1>12. CASE AuthCheck(t)
  <2>1. /\ pc[t] = "auth" /\ pc'[t] \in {"finish", "issue"} /\ UNCHANGED <<cur, late>>
        /\ pc'[t] = "issue" => Authorized(cur[t].owner) /\ live[t]
    BY <1>12 DEF AuthCheck
  <2>2. late[t] # 0 => pc'[t] = "finish"
    BY <2>1 DEF ChainInv
  <2> QED BY <1>7, <2>1, <2>2 DEF InRun
<1>13. CASE Land(t)
  <2>1. /\ pc[t] = "flight" /\ pc'[t] = "landed" /\ UNCHANGED cur /\ late[t] = 0
        /\ SinceClaim(t)
    BY <1>13 DEF Land, ChainInv
  <2>2. late'[t] = IF LiveIn(Committed, cur[t].id, cur[t].rev) /\ Authorized(cur[t].owner) THEN 0 ELSE 1
    BY <1>13, <2>1 DEF Land
  <2>3. Gone(Committed, cur[t]) \/ LiveIn(Committed, cur[t].id, cur[t].rev)
    BY <2>1 DEF SinceClaim, InRun
  <2>4. Authorized(cur[t].owner)' = Authorized(cur[t].owner) /\ Gone(Committed, cur[t])' = Gone(Committed, cur[t])
    BY <1>0, <1>1, <2>1 DEF Authorized, Gone
  <2>5. SinceClaim(t)'
    BY <1>6, <2>1 DEF InRun
  <2> QED BY <2>1, <2>2, <2>3, <2>4, <2>5 DEF ChainInv, InRun
<1>14. CASE Finish(t)
  BY <1>3, <1>14 DEF Finish
<1> QED BY <1>3, <1>4, <1>5, <1>8, <1>9, <1>10, <1>11, <1>12, <1>13, <1>14 DEF TaskStep

\* Edits, revoked grants and a crash only stop chains; a grant that is given back
\* ends what its loss had stopped (automation_rules.py:519-525).
LEMMA WorldChain ==
  ASSUME TypeOK, TypeOK', StoreInv, World, NEW t \in Tasks, ChainInv(t),
         Later(Committed, CommittedNext, Committed', CommittedNext')
  PROVE  ChainInv(t)'
<1>0. /\ Committed \in Table /\ Committed' \in Table
      /\ CommittedNext \in Int /\ CommittedNext' \in Int
  <2>1. StoreTypeOK /\ StoreTypeOK'
    BY DEF TypeOK
  <2>2. (Committed \in Table /\ CommittedNext \in 1 .. MaxId + 1)'
    <3>1. CASE tx' = NoTx
      BY <2>1, <3>1 DEF StoreTypeOK, Committed, CommittedNext
    <3>2. CASE tx' \in OpenTx
      <4>1. tx' # NoTx
        BY <3>2 DEF OpenTx, NoTx
      <4> QED BY <3>2, <4>1 DEF Committed, CommittedNext, OpenTx
    <3> QED BY <2>1, <3>1, <3>2 DEF StoreTypeOK
  <2> QED BY <2>1, <2>2, CommittedType
<1>1. CASE Restart
  BY <1>1 DEF Restart, ChainInv, SinceClaim, InRun
<1>2. CASE ~Restart
  <2>1. UNCHANGED <<pc, cur, live>>
    BY <1>2 DEF World, Close, EditRules, Clock, SetGrant, Decide, taskVars
  <2>2. /\ late'[t] \in {0, late[t]}
        /\ late'[t] # 0 => (~Authorized(cur[t].owner) => ~Authorized(cur[t].owner)')
    <3>1. CASE late' = late /\ grants' \subseteq grants
      BY <2>1, <3>1 DEF Authorized
    <3>2. CASE \E b \in Betas : SetGrant(b)
      BY <2>1, <3>1, <3>2 DEF SetGrant
    <3>3. CASE Close \/ EditRules \/ Clock \/ \E k \in Keys : Decide(k)
      BY <2>1, <3>1, <3>3 DEF Close, EditRules, Clock, Decide, envVars, taskVars
    <3> QED BY <1>2, <3>2, <3>3 DEF World
  <2>3. pc[t] \in InRun =>
          /\ cur[t].id < CommittedNext'
          /\ Gone(Committed, cur[t]) => Gone(Committed', cur[t])
          /\ LiveIn(Committed, cur[t].id, cur[t].rev) =>
               Gone(Committed', cur[t]) \/ LiveIn(Committed', cur[t].id, cur[t].rev)
    BY <1>0, LaterGone DEF ChainInv, SinceClaim, TypeOK
  <2>4. SinceClaim(t)'
    BY <2>1, <2>3 DEF ChainInv, SinceClaim
  <2>5. late[t] # 0 => pc[t] \in InRun
    BY DEF ChainInv
  <2> QED BY <2>1, <2>2, <2>3, <2>4, <2>5 DEF ChainInv
<1> QED BY <1>1, <1>2

\* Every step keeps what stops a chain.
LEMMA StopInvStep ==
  ASSUME TypeOK, RunInv, StopInv, [Next]_vars
  PROVE  StopInv'
<1>0. StoreStep \/ UNCHANGED storeVars
  <2>1. CASE World
    BY <2>1 DEF World, Close, Restart, EditRules, Clock, SetGrant, Decide, StoreStep, ForwardStep, storeVars
  <2>2. CASE ~World
    BY <2>2 DEF Next, TaskStep, Filter, Gate, EnterSlot, Claim, LiveCheck, AuthCheck, Send, Unchanged,
                Refuse, Answer, Lose, Finish, Cancel, HandleEvent, Land, vars, storeVars
  <2> QED BY <2>1, <2>2
<1>1. StoreInv' /\ Later(Committed, CommittedNext, Committed', CommittedNext')
  BY <1>0, StoreInvStep DEF StopInv, TypeOK
<1>2. ASSUME NEW t \in Tasks, TaskStep(t) \/ Land(t) \/ \E k \in Keys : HandleEvent(t, k)
      PROVE  \A u \in Tasks : ChainInv(u)'
  <2>1. ChainInv(t)'
    BY <1>2, OwnChain DEF StopInv
  <2>2. UNCHANGED <<storeVars, grants>>
    BY <1>2 DEF TaskStep, Filter, Gate, EnterSlot, Claim, LiveCheck, AuthCheck, Send, Unchanged,
                Refuse, Answer, Lose, Finish, Cancel, HandleEvent, Land, envVars
  <2>3. Committed' = Committed /\ CommittedNext' = CommittedNext /\ grants' = grants
    BY <2>2 DEF storeVars, Committed, CommittedNext
  <2>4. ASSUME NEW u \in Tasks, u # t PROVE ChainInv(u)'
    <3>1. pc'[u] = pc[u] /\ cur'[u] = cur[u] /\ live'[u] = live[u] /\ late'[u] = late[u]
      BY <1>2, <2>4, OneTask
    <3> QED BY <2>3, <3>1 DEF StopInv, ChainInv, SinceClaim, Gone, Authorized
  <2> QED BY <2>1, <2>4
<1>3. CASE World
  <2>1. TypeOK'
    BY <1>3, WorldType
  <2> QED BY <1>1, <1>3, <2>1, WorldChain DEF StopInv
<1>4. CASE UNCHANGED vars
  <2>1. Committed' = Committed /\ CommittedNext' = CommittedNext /\ UNCHANGED <<pc, cur, live, late, grants>>
    BY <1>4 DEF vars, Committed, CommittedNext
  <2> QED BY <1>1, <2>1 DEF StopInv, ChainInv, SinceClaim, Gone, Authorized
<1> QED BY <1>1, <1>2, <1>3, <1>4 DEF Next, StopInv

\* After its rule is paused, changed or deleted, or its author's grant revoked, at
\* most one more step of a run takes effect, whatever is rolled back and however
\* the checks and the edits interleave (automation_rules.py:519-525).
THEOREM ChainsStop == Spec => []ChainStops
<1>1. Init => StopInv
  BY StoreInvInit DEF Init, StopInv, ChainInv, SinceClaim, InRun
<1>2. TypeOK /\ RunInv /\ StopInv /\ [Next]_vars => StopInv'
  BY StopInvStep
<1>3. StopInv => ChainStops
  <2> SUFFICES ASSUME StopInv, NEW t \in Tasks PROVE late[t] <= 1
    BY DEF ChainStops
  <2> QED BY DEF StopInv, ChainInv
<1> QED BY <1>1, <1>2, <1>3, RunsSafe, PTL DEF Spec

-----------------------------------------------------------------------------
\* The cooldown.

\* A claim looks at every run of its rule, those dated after the present too
\* (storage.py:706-719).
LEMMA ReserveSpacing ==
  ASSUME TypeOK, CooldownSpacing, NEW t \in Tasks, NEW s \in todo[t],
         key[t] \in Keys, Claimable(s, key[t]), Reserve(s, key[t])
  PROVE  CooldownSpacing'
<1> DEFINE new == <<s.id, key[t]>>
<1>1. s.id \in Ids /\ s.def \in Defs /\ new \in Jobs
  BY DEF TypeOK, Snapshot, Jobs
<1>2. Cooldown[s.def] \in Nat /\ now \in Int /\ MaxNow \in Nat
  BY <1>1, RuntimeAssumption DEF TypeOK
<1>3. /\ runs'[new] = [st |-> "reserved", at |-> now, under |-> s.def, before |-> Counted(s.id)]
      /\ \A j \in Jobs : j # new => runs'[j] = runs[j]
  BY <1>1 DEF Reserve, TypeOK
<1>4. \A id \in Ids, k \in Keys : <<id, k>> \in Jobs /\ runs[<<id, k>>].at \in Int
  <2>1. runs \in [Jobs -> Run]
    BY DEF TypeOK
  <2>2. \A id \in Ids, k \in Keys : <<id, k>> \in Jobs
    BY DEF Jobs
  <2>3. \A j \in Jobs : runs[j].at \in 0 .. MaxNow
    BY <2>1 DEF Run
  <2>4. \A id \in Ids, k \in Keys : runs[<<id, k>>].at \in 0 .. MaxNow
    BY <2>2, <2>3
  <2>5. \A i \in 0 .. MaxNow : i \in Int
    OBVIOUS
  <2> QED BY <2>2, <2>4, <2>5
<1>5. ASSUME NEW k \in Counted(s.id), k # key[t]
      PROVE  k \in runs'[new].before /\ Spaced(runs[<<s.id, k>>], runs'[new])
  <2>1. k \in Keys /\ runs[<<s.id, k>>].st \notin {"none", "skipped"}
    BY DEF Counted
  <2>2. Cooldown[s.def] = 0 \/ runs[<<s.id, k>>].at <= now - Cooldown[s.def]
    BY <2>1 DEF Claimable
  <2>3. runs'[new].at = now /\ runs'[new].under = s.def /\ runs'[new].before = Counted(s.id)
    BY <1>3
  <2>4. runs[<<s.id, k>>].at \in Int
    BY <1>1, <1>4, <2>1
  <2> QED BY <1>2, <2>2, <2>3, <2>4 DEF Spaced
<1> SUFFICES ASSUME NEW id \in Ids, NEW k1 \in Counted(id)', NEW k2 \in Counted(id)', k1 # k2
             PROVE  \/ k1 \in runs'[<<id, k2>>].before /\ Spaced(runs'[<<id, k1>>], runs'[<<id, k2>>])
                    \/ k2 \in runs'[<<id, k1>>].before /\ Spaced(runs'[<<id, k2>>], runs'[<<id, k1>>])
  BY DEF CooldownSpacing, Spaced
<1>6. /\ k1 \in Keys /\ runs'[<<id, k1>>].st \notin {"none", "skipped"}
      /\ k2 \in Keys /\ runs'[<<id, k2>>].st \notin {"none", "skipped"}
      /\ <<id, k1>> \in Jobs /\ <<id, k2>> \in Jobs
  BY <1>4 DEF Counted
<1>7. CASE <<id, k1>> = new
  <2>1. id = s.id /\ k1 = key[t] /\ <<id, k2>> # new
    BY <1>7
  <2>2. runs'[<<id, k2>>] = runs[<<id, k2>>]
    BY <1>3, <1>6, <2>1
  <2>3. k2 \in Counted(s.id) /\ k2 # key[t]
    BY <1>6, <2>1, <2>2 DEF Counted
  <2> QED BY <1>5, <2>1, <2>2, <2>3
<1>8. CASE <<id, k2>> = new
  <2>1. id = s.id /\ k2 = key[t] /\ <<id, k1>> # new
    BY <1>8
  <2>2. runs'[<<id, k1>>] = runs[<<id, k1>>]
    BY <1>3, <1>6, <2>1
  <2>3. k1 \in Counted(s.id) /\ k1 # key[t]
    BY <1>6, <2>1, <2>2 DEF Counted
  <2> QED BY <1>5, <2>1, <2>2, <2>3
<1>9. CASE <<id, k1>> # new /\ <<id, k2>> # new
  <2>1. runs'[<<id, k1>>] = runs[<<id, k1>>] /\ runs'[<<id, k2>>] = runs[<<id, k2>>]
    BY <1>3, <1>6, <1>9
  <2>2. k1 \in Counted(id) /\ k2 \in Counted(id)
    BY <1>6, <2>1 DEF Counted
  <2> QED BY <2>1, <2>2 DEF CooldownSpacing
<1> QED BY <1>7, <1>8, <1>9

\* The outcome is written without touching the date of the run
\* (storage.py:723-741).
LEMMA OutcomeSpacing ==
  ASSUME TypeOK, CooldownSpacing, NEW t \in Tasks, pc[t] \in InRun, WriteOutcome(t)
  PROVE  CooldownSpacing'
<1>1. Job(t) \in Jobs
  BY PlanType
<1>2. \A j \in Jobs : /\ runs'[j].at = runs[j].at
                      /\ runs'[j].under = runs[j].under
                      /\ runs'[j].before = runs[j].before
                      /\ runs[j].st \in {"none", "skipped"} => runs'[j].st = runs[j].st
  BY <1>1 DEF TypeOK, Run, WriteOutcome
<1>3. \A id \in Ids, k \in Keys : <<id, k>> \in Jobs
  BY DEF Jobs
<1>4. \A id \in Ids : Counted(id)' \subseteq Counted(id)
  BY <1>2, <1>3 DEF Counted
<1>5. \A id \in Ids, k \in Keys :
        /\ runs'[<<id, k>>].at = runs[<<id, k>>].at
        /\ runs'[<<id, k>>].under = runs[<<id, k>>].under
        /\ runs'[<<id, k>>].before = runs[<<id, k>>].before
  BY <1>2, <1>3
<1> SUFFICES ASSUME NEW id \in Ids, NEW k1 \in Counted(id)', NEW k2 \in Counted(id)', k1 # k2
             PROVE  \/ k1 \in runs'[<<id, k2>>].before /\ Spaced(runs'[<<id, k1>>], runs'[<<id, k2>>])
                    \/ k2 \in runs'[<<id, k1>>].before /\ Spaced(runs'[<<id, k2>>], runs'[<<id, k1>>])
  BY DEF CooldownSpacing, Spaced
<1>6. k1 \in Counted(id) /\ k2 \in Counted(id) /\ k1 \in Keys /\ k2 \in Keys
  BY <1>4 DEF Counted
<1>7. \/ k1 \in runs[<<id, k2>>].before /\ Spaced(runs[<<id, k1>>], runs[<<id, k2>>])
      \/ k2 \in runs[<<id, k1>>].before /\ Spaced(runs[<<id, k2>>], runs[<<id, k1>>])
  BY <1>6 DEF CooldownSpacing
<1> QED BY <1>5, <1>6, <1>7 DEF Spaced

\* Of two runs of one rule that were not skipped, the one claimed second is dated
\* the rule's cooldown of that moment after the other, however the clock moves and
\* the rule is edited between them (storage.py:706-719).
THEOREM RunsAreSpaced == Spec => []CooldownSpacing
<1>1. Init => CooldownSpacing
  <2>1. ASSUME Init PROVE \A j \in Jobs : runs[j].st = "none"
    BY <2>1 DEF Init
  <2>2. \A id \in Ids, k \in Keys : <<id, k>> \in Jobs
    BY DEF Jobs
  <2> QED BY <2>1, <2>2 DEF CooldownSpacing, Counted
<1>2. ASSUME TypeOK, CooldownSpacing, [Next]_vars PROVE CooldownSpacing'
  <2>0. ASSUME UNCHANGED runs PROVE CooldownSpacing'
    BY <1>2, <2>0 DEF CooldownSpacing, Counted, Spaced
  <2>1. ASSUME NEW t \in Tasks, Claim(t) PROVE CooldownSpacing'
    <3>1. PICK s \in todo[t] : Claim(t)!4!(s)
      BY <2>1 DEF Claim
    <3>2. key[t] \in Keys
      BY <1>2, <2>1 DEF Claim, TypeOK
    <3> QED BY <1>2, <2>0, <3>1, <3>2, ReserveSpacing
  <2>2. ASSUME NEW t \in Tasks, Finish(t) PROVE CooldownSpacing'
    BY <1>2, <2>2, OutcomeSpacing DEF Finish, InRun
  <2>3. ASSUME NEW t \in Tasks, Cancel(t) PROVE CooldownSpacing'
    <3>1. CASE UNCHANGED runs
      BY <2>0, <3>1
    <3>2. CASE pc[t] = "rule" /\ \E s \in todo[t] : Claimable(s, key[t]) /\ Reserve(s, key[t])
      BY <1>2, <3>2, ReserveSpacing DEF TypeOK
    <3>3. CASE pc[t] = "finish" /\ WriteOutcome(t)
      BY <1>2, <3>3, OutcomeSpacing DEF InRun
    <3> QED BY <2>3, <3>1, <3>2, <3>3 DEF Cancel
  <2>4. \/ UNCHANGED runs
        \/ \E t \in Tasks : Claim(t) \/ Finish(t) \/ Cancel(t)
    BY <1>2 DEF Next, TaskStep, Filter, Gate, EnterSlot, LiveCheck, AuthCheck, Send, Unchanged, Refuse,
                Answer, Lose, Land, HandleEvent, World, Close, Restart, EditRules, Clock, SetGrant,
                Decide, vars
  <2> QED BY <2>0, <2>1, <2>2, <2>3, <2>4
<1>3. TypeOK /\ RunInv => TypeOK
  OBVIOUS
<1> QED BY <1>1, <1>2, <1>3, RunsSafe, PTL DEF Spec
=============================================================================
