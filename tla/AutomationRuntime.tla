-------------------------- MODULE AutomationRuntime --------------------------
(***************************************************************************)
(* AutomationRuntime of automation_rules.py: gateway events turned into    *)
(* runs of the guild's rules, against the rule table (RuleStore), the      *)
(* run ledger (pos_automation_runs), the beta grants and the verdicts of   *)
(* the moderation and join gates.                                          *)
(*                                                                         *)
(* One handle_event call is a task; each action below is what the task     *)
(* does between two awaits.  A Discord request is sent, may take effect    *)
(* there, and is answered later or never.                                  *)
(***************************************************************************)
EXTENDS RuleStore, Sequences

CONSTANTS
  Tasks,     \* concurrent handle_event calls
  Keys,      \* event keys (event_key)
  Kind,      \* [Keys -> event kinds]
  Steps,     \* [Defs -> [Keys -> actions the definition takes on that event]]
  Cooldown,  \* [Defs -> Nat]: cooldown_seconds
  Slots,     \* asyncio.Semaphore(4)
  MaxStep,   \* the longest workflow (normalize_workflow allows eight)
  MaxNow,    \* bound: readings of the wall clock
  Rollbacks  \* whether an upsert may fail after its UPDATE or INSERT

\* EVENTS, and the actions of a workflow: add_role and remove_role are one.
Kinds == {"member_join", "member_remove", "message_create"}
Actions == {"send_message", "role"}
StepNos == 1 .. MaxStep
Jobs == Ids \X Keys

ASSUME RuntimeAssumption ==
  /\ IsFiniteSet(Tasks)
  /\ Kind \in [Keys -> Kinds]
  /\ Steps \in [Defs -> [Keys -> Seq(Actions)]]
  /\ \A d \in Defs, k \in Keys : Len(Steps[d][k]) <= MaxStep
  /\ Cooldown \in [Defs -> Nat]
  /\ Slots \in Nat \ {0}
  /\ MaxStep \in Nat \ {0}
  /\ MaxNow \in Nat
  /\ Rollbacks \in BOOLEAN

\* What normalize_workflow lets through: a rule for messages has a cooldown, and
\* no rule changes a role of a member who has left.
Normalised ==
  \A d \in Defs, k \in Keys : Steps[d][k] # <<>> =>
    /\ Kind[k] = "message_create" => Cooldown[d] > 0
    /\ Kind[k] = "member_remove" => \A s \in 1 .. Len(Steps[d][k]) : Steps[d][k][s] # "role"
ASSUME WorkflowAssumption == Normalised

\* What a task keeps of a rule it has listed.
Snapshot == [id : Ids, owner : Authors, def : Defs, rev : Revs]
SnapshotOf(id) ==
  [id |-> id, owner |-> rules[id].owner, def |-> rules[id].def, rev |-> rules[id].rev]
NoRun == [id |-> 0]
NoKey == "no event"
NoDef == "not claimed"

Terminal == {"completed", "failed", "partial", "skipped", "unknown"}
Run == [st : {"none", "reserved"} \cup Terminal, at : 0 .. MaxNow,
        under : Defs \cup {NoDef}, before : SUBSET Keys]

VARIABLES
  grants,    \* users with a beta group that holds this guild
  verdict,   \* what the producer of the event's gate has found
  now,       \* int(time.time())
  runs,      \* the ledger, unique by (automation_id, event_key); history: the
             \* definition a run was claimed under, and the runs claimed before it
  effects,   \* history: how often each step of a run took effect on Discord
  closing,   \* AutomationRuntime._closing
  stopped,   \* history: the process has been told to stop, or has died, before
  cancelled, \* close() called task.cancel() and the task has not resumed since
  pc, key,   \* where a task is, and its event
  listed,    \* rules listed and not yet filtered by authority
  todo,      \* rules still to run
  cur,       \* the rule being run
  step,      \* len(results): steps of the run that have been answered
  live,      \* whether the live rules re-read before a step held this one
  suppress,  \* suppress_roles
  outcome,   \* status the finally clause will write
  late       \* history: effects of the run since its rule or author was stopped

envVars == <<grants, verdict, now>>
taskVars == <<pc, key, listed, todo, cur, step, live, suppress, outcome, late>>
vars == <<rules, nextId, tx, grants, verdict, now, runs, effects, closing, stopped,
          cancelled, pc, key, listed, todo, cur, step, live, suppress, outcome, late>>

InRun == {"check", "auth", "issue", "flight", "landed", "finish"}
InSlot == {"rule"} \cup InRun
PCs == {"idle", "filter", "gate", "slot"} \cup InSlot

\* Every variable holds a value of its kind, and a task that runs has an event
\* and a rule (automation_rules.py:458-545).
TypeOK ==
  /\ StoreTypeOK
  /\ grants \subseteq Betas
  /\ verdict \in [Keys -> {"pending", "clear", "blocked"}]
  /\ now \in 0 .. MaxNow
  /\ runs \in [Jobs -> Run]
  /\ effects \in [Jobs -> [StepNos -> Nat]]
  /\ closing \in BOOLEAN
  /\ stopped \in BOOLEAN
  /\ cancelled \in [Tasks -> BOOLEAN]
  /\ pc \in [Tasks -> PCs]
  /\ key \in [Tasks -> Keys \cup {NoKey}]
  /\ listed \in [Tasks -> SUBSET Snapshot]
  /\ todo \in [Tasks -> SUBSET Snapshot]
  /\ cur \in [Tasks -> Snapshot \cup {NoRun}]
  /\ step \in [Tasks -> 0 .. MaxStep]
  /\ live \in [Tasks -> BOOLEAN]
  /\ suppress \in [Tasks -> BOOLEAN]
  /\ outcome \in [Tasks -> Terminal]
  /\ late \in [Tasks -> Nat]
  /\ \A t \in Tasks :
       /\ pc[t] # "idle" => key[t] \in Keys
       /\ pc[t] \in InRun => cur[t] \in Snapshot

Init ==
  /\ StoreInit
  /\ grants = {}
  /\ verdict = [k \in Keys |-> "pending"]
  /\ now = 0
  /\ runs = [j \in Jobs |-> [st |-> "none", at |-> 0, under |-> NoDef, before |-> {}]]
  /\ effects = [j \in Jobs |-> [s \in StepNos |-> 0]]
  /\ closing = FALSE
  /\ stopped = FALSE
  /\ cancelled = [t \in Tasks |-> FALSE]
  /\ pc = [t \in Tasks |-> "idle"]
  /\ key = [t \in Tasks |-> NoKey]
  /\ listed = [t \in Tasks |-> {}]
  /\ todo = [t \in Tasks |-> {}]
  /\ cur = [t \in Tasks |-> NoRun]
  /\ step = [t \in Tasks |-> 0]
  /\ live = [t \in Tasks |-> FALSE]
  /\ suppress = [t \in Tasks |-> FALSE]
  /\ outcome = [t \in Tasks |-> "completed"]
  /\ late = [t \in Tasks |-> 0]

-----------------------------------------------------------------------------
\* Helpers of a task.

Job(t) == <<cur[t].id, key[t]>>
Plan(t) == Steps[cur[t].def][key[t]]
Action(t) == Plan(t)[step[t] + 1]

\* ORDER BY id: rules are filtered and run in the order of their ids.
IsFirst(s, S) == s \in S /\ \A other \in S : s.id <= other.id

\* owner_id == POS_CREATOR_ID or await beta_can_manage_guild(...).  The second
\* reads the grants under the write lock, so it waits for an open upsert.
Authorized(author) == author = Owner \/ author \in grants
CanAsk(author) == author = Owner \/ LockFree

Goto(t, l) == pc' = [pc EXCEPT ![t] = l]

\* The end of handle_event, and of _run_rule.
LeaveTask(t) ==
  /\ pc' = [pc EXCEPT ![t] = "idle"]
  /\ key' = [key EXCEPT ![t] = NoKey]
  /\ listed' = [listed EXCEPT ![t] = {}]
  /\ todo' = [todo EXCEPT ![t] = {}]
  /\ cur' = [cur EXCEPT ![t] = NoRun]
  /\ step' = [step EXCEPT ![t] = 0]
  /\ live' = [live EXCEPT ![t] = FALSE]
  /\ suppress' = [suppress EXCEPT ![t] = FALSE]
  /\ outcome' = [outcome EXCEPT ![t] = "completed"]
  /\ late' = [late EXCEPT ![t] = 0]

NextRule(t) ==
  IF todo[t] = {}
  THEN LeaveTask(t)
  ELSE /\ Goto(t, "rule")
       /\ cur' = [cur EXCEPT ![t] = NoRun]
       /\ step' = [step EXCEPT ![t] = 0]
       /\ live' = [live EXCEPT ![t] = FALSE]
       /\ outcome' = [outcome EXCEPT ![t] = "completed"]
       /\ late' = [late EXCEPT ![t] = 0]
       /\ UNCHANGED <<key, listed, todo, suppress>>

\* "partial" if results else status.
Partly(t, status) == IF step[t] = 0 THEN status ELSE "partial"

\* The chain stops and the finally clause will record why.
Stop(t, status) ==
  /\ Goto(t, "finish")
  /\ outcome' = [outcome EXCEPT ![t] = status]

-----------------------------------------------------------------------------
\* handle_event, up to the rules it will run.

\* The enabled rules the event triggers, as the table reads at this moment.
\* Bots, webhooks and log channels never get here; a rule whose conditions the
\* event does not meet has no steps for it.
HandleEvent(t, k) ==
  LET matching == {id \in Ids : Exists(id) /\ rules[id].enabled /\ Steps[rules[id].def][k] # <<>>}
  IN /\ ~closing
     /\ pc[t] = "idle"
     /\ matching # {}
     /\ Goto(t, "filter")
     /\ key' = [key EXCEPT ![t] = k]
     /\ listed' = [listed EXCEPT ![t] = {SnapshotOf(id) : id \in matching}]
     /\ UNCHANGED <<storeVars, envVars, runs, effects, closing, stopped, cancelled,
                    todo, cur, step, live, suppress, outcome, late>>

\* One rule's author is asked for; the others are awaited in later steps.
Filter(t) ==
  /\ pc[t] = "filter"
  /\ ~cancelled[t]
  /\ \E s \in listed[t] :
       /\ IsFirst(s, listed[t])
       /\ CanAsk(s.owner)
       /\ LET kept == todo[t] \cup (IF Authorized(s.owner) THEN {s} ELSE {})
              left == listed[t] \ {s}
          IN IF left = {} /\ kept = {}
             THEN LeaveTask(t)
             ELSE /\ IF left = {} THEN Goto(t, "gate") ELSE UNCHANGED pc
                  /\ listed' = [listed EXCEPT ![t] = left]
                  /\ todo' = [todo EXCEPT ![t] = kept]
                  /\ UNCHANGED <<key, cur, step, live, suppress, outcome, late>>
  /\ UNCHANGED <<storeVars, envVars, runs, effects, closing, stopped, cancelled>>

\* ... is not False.
Cleared(answer) == answer = "clear"

\* wait_for_moderation / wait_for_join_security: the verdict, or None when the
\* wait times out first.  A message needs a verdict that is False; a join goes
\* on without its role steps unless the verdict is False.
Gate(t) ==
  /\ pc[t] = "gate"
  /\ ~cancelled[t]
  /\ \E answer \in {verdict[key[t]], "pending"} :
       IF Kind[key[t]] = "message_create" /\ ~Cleared(answer)
       THEN LeaveTask(t)
       ELSE /\ Goto(t, "slot")
            /\ suppress' = [suppress EXCEPT
                 ![t] = Kind[key[t]] = "member_join" /\ ~Cleared(answer)]
            /\ UNCHANGED <<key, listed, todo, cur, step, live, outcome, late>>
  /\ UNCHANGED <<storeVars, envVars, runs, effects, closing, stopped, cancelled>>

\* Mutant: the semaphore hands out one slot too few.
SlotFreeBelow == Cardinality({u \in Tasks : pc[u] \in InSlot}) < Slots - 1

SlotFree == Cardinality({u \in Tasks : pc[u] \in InSlot}) < Slots

\* async with self._slots.
EnterSlot(t) ==
  /\ pc[t] = "slot"
  /\ ~cancelled[t]
  /\ SlotFree
  /\ Goto(t, "rule")
  /\ UNCHANGED <<storeVars, envVars, runs, effects, closing, stopped, cancelled, key,
                 listed, todo, cur, step, live, suppress, outcome, late>>

-----------------------------------------------------------------------------
\* _run_rule.

\* Mutant: the claim replaces an earlier run of the event.
ClaimableAgain(s, k) == Live(s.id, s.rev)

\* Mutant: runs dated after the present do not count for the cooldown.
ClaimableInThePast(s, k) ==
  /\ Live(s.id, s.rev)
  /\ runs[s.id, k].st = "none"
  /\ \A other \in Keys : runs[s.id, other].st \in {"none", "skipped"}
                           \/ runs[s.id, other].at <= now - Cooldown[s.def]
                           \/ runs[s.id, other].at > now

\* claim_pos_automation_run: one INSERT ... SELECT under the write lock.
Claimable(s, k) ==
  /\ Live(s.id, s.rev)
  /\ runs[s.id, k].st = "none"
  /\ Cooldown[s.def] = 0
       \/ \A other \in Keys : runs[s.id, other].st \in {"none", "skipped"}
                               \/ runs[s.id, other].at <= now - Cooldown[s.def]

\* Runs of the rule that count for its cooldown.
Counted(id) == {k \in Keys : runs[id, k].st \notin {"none", "skipped"}}

Reserve(s, k) ==
  runs' = [runs EXCEPT ![<<s.id, k>>] =
             [st |-> "reserved", at |-> now, under |-> s.def, before |-> Counted(s.id)]]

Claim(t) ==
  /\ pc[t] = "rule"
  /\ ~cancelled[t]
  /\ LockFree
  /\ \E s \in todo[t] :
       /\ IsFirst(s, todo[t])
       /\ IF Claimable(s, key[t])
          THEN /\ Reserve(s, key[t])
               /\ Goto(t, "check")
               /\ cur' = [cur EXCEPT ![t] = s]
               /\ todo' = [todo EXCEPT ![t] = @ \ {s}]
               /\ UNCHANGED <<key, listed, step, live, suppress, outcome, late>>
          ELSE /\ UNCHANGED runs
               /\ IF todo[t] = {s}
                  THEN LeaveTask(t)
                  ELSE /\ todo' = [todo EXCEPT ![t] = @ \ {s}]
                       /\ UNCHANGED <<pc, key, listed, cur, step, live, suppress, outcome, late>>
  /\ UNCHANGED <<storeVars, envVars, effects, closing, stopped, cancelled>>

\* Mutant: the rule is not read again before a step.
LiveCheckOnce(t) ==
  /\ pc[t] = "check"
  /\ ~cancelled[t]
  /\ live' = [live EXCEPT ![t] = TRUE]
  /\ Goto(t, "auth")
  /\ UNCHANGED <<storeVars, envVars, runs, effects, closing, stopped, cancelled, key,
                 listed, todo, cur, step, suppress, outcome, late>>

\* live = await storage.list_pos_automations(...): again without the lock.
LiveCheck(t) ==
  /\ pc[t] = "check"
  /\ ~cancelled[t]
  /\ live' = [live EXCEPT ![t] = Live(cur[t].id, cur[t].rev)]
  /\ Goto(t, "auth")
  /\ UNCHANGED <<storeVars, envVars, runs, effects, closing, stopped, cancelled, key,
                 listed, todo, cur, step, suppress, outcome, late>>

\* authorized = ...; then a stopped rule, or a role step the join gate has not
\* allowed, ends the chain.
AuthCheck(t) ==
  /\ pc[t] = "auth"
  /\ ~cancelled[t]
  /\ CanAsk(cur[t].owner)
  /\ IF closing \/ ~Authorized(cur[t].owner) \/ ~live[t] \/ (suppress[t] /\ Action(t) = "role")
     THEN Stop(t, Partly(t, "skipped"))
     ELSE Goto(t, "issue") /\ UNCHANGED outcome
  /\ UNCHANGED <<storeVars, envVars, runs, effects, closing, stopped, cancelled, key,
                 listed, todo, cur, step, live, suppress, late>>

\* Mutant: the step is not counted before the next one is checked.
StepDoneInPlace(t) ==
  IF step[t] + 1 = Len(Plan(t))
  THEN Stop(t, "completed") /\ step' = [step EXCEPT ![t] = @ + 1]
  ELSE Goto(t, "check") /\ UNCHANGED <<outcome, step>>

\* A step is answered: on to the next one, or the run is complete.
StepDone(t) ==
  /\ step' = [step EXCEPT ![t] = @ + 1]
  /\ IF step[t] + 1 = Len(Plan(t))
     THEN Stop(t, "completed")
     ELSE Goto(t, "check") /\ UNCHANGED outcome

\* _execute_action up to its request.  The author is asked for again right
\* before it; nothing runs between that answer and the request.
Send(t) ==
  /\ pc[t] = "issue"
  /\ ~cancelled[t]
  /\ CanAsk(cur[t].owner)
  /\ Authorized(cur[t].owner)
  /\ Goto(t, "flight")
  /\ UNCHANGED <<storeVars, envVars, runs, effects, closing, stopped, cancelled, key,
                 listed, todo, cur, step, live, suppress, outcome, late>>

\* has_role == desired: the member already is as the step wants.
Unchanged(t) ==
  /\ pc[t] = "issue"
  /\ ~cancelled[t]
  /\ Action(t) = "role"
  /\ StepDone(t)
  /\ UNCHANGED <<storeVars, envVars, runs, effects, closing, stopped, cancelled, key,
                 listed, todo, cur, live, suppress, late>>

\* A missing channel or role, a lost permission, a revoked author, or an error
\* answered by Discord, which has then done nothing.
Refuse(t) ==
  /\ pc[t] \in {"issue", "flight"}
  /\ ~cancelled[t]
  /\ Stop(t, Partly(t, "failed"))
  /\ UNCHANGED <<storeVars, envVars, runs, effects, closing, stopped, cancelled, key,
                 listed, todo, cur, step, live, suppress, late>>

\* External: the request takes effect.
Land(t) ==
  /\ pc[t] = "flight"
  /\ Goto(t, "landed")
  /\ effects' = [effects EXCEPT ![Job(t)][step[t] + 1] = @ + 1]
  /\ late' = [late EXCEPT ![t] =
       IF LiveIn(Committed, cur[t].id, cur[t].rev) /\ Authorized(cur[t].owner)
       THEN @ ELSE @ + 1]
  /\ UNCHANGED <<storeVars, envVars, runs, closing, stopped, cancelled, key, listed,
                 todo, cur, step, live, suppress, outcome>>

Answer(t) ==
  /\ pc[t] = "landed"
  /\ ~cancelled[t]
  /\ StepDone(t)
  /\ UNCHANGED <<storeVars, envVars, runs, effects, closing, stopped, cancelled, key,
                 listed, todo, cur, live, suppress, late>>

\* Mutant: a timeout counts as done.
LoseCompletes(t) ==
  /\ pc[t] \in {"issue", "flight", "landed"}
  /\ ~cancelled[t]
  /\ Stop(t, "completed")
  /\ UNCHANGED <<storeVars, envVars, runs, effects, closing, stopped, cancelled, key,
                 listed, todo, cur, step, live, suppress, late>>

\* wait_for(..., 60) expires, or the connection breaks, whatever Discord did.
Lose(t) ==
  /\ pc[t] \in {"issue", "flight", "landed"}
  /\ ~cancelled[t]
  /\ Stop(t, "unknown")
  /\ UNCHANGED <<storeVars, envVars, runs, effects, closing, stopped, cancelled, key,
                 listed, todo, cur, step, live, suppress, late>>

\* finish_pos_automation_run: UPDATE ... WHERE id = ? AND status = 'reserved'.
WriteOutcome(t) ==
  runs' = IF runs[Job(t)].st = "reserved"
          THEN [runs EXCEPT ![Job(t)].st = outcome[t]] ELSE runs

Finish(t) ==
  /\ pc[t] = "finish"
  /\ ~cancelled[t]
  /\ LockFree
  /\ WriteOutcome(t)
  /\ NextRule(t)
  /\ UNCHANGED <<storeVars, envVars, effects, closing, stopped, cancelled>>

-----------------------------------------------------------------------------
\* Stopping.

\* close(): every task in _active is cancelled; later events return at once.
Close ==
  /\ ~closing
  /\ closing' = TRUE
  /\ stopped' = TRUE
  /\ cancelled' = [t \in Tasks |-> pc[t] # "idle"]
  /\ UNCHANGED <<storeVars, envVars, runs, effects, taskVars>>

\* CancelledError at the await the task is in.  Before a run it just leaves, but
\* a claim already handed to the database may have been made; in a run it
\* records "unknown" and drops the remaining rules; in the finally clause the
\* status may or may not have been written.
Cancel(t) ==
  /\ cancelled[t]
  /\ cancelled' = [cancelled EXCEPT ![t] = FALSE]
  /\ \/ /\ pc[t] \in {"filter", "gate", "slot", "rule"}
        /\ LeaveTask(t)
        /\ UNCHANGED runs
     \/ /\ pc[t] = "rule"
        /\ LockFree
        /\ \E s \in todo[t] : /\ IsFirst(s, todo[t])
                              /\ Claimable(s, key[t])
                              /\ Reserve(s, key[t])
        /\ LeaveTask(t)
     \/ /\ pc[t] \in InRun \ {"finish"}
        /\ Stop(t, "unknown")
        /\ todo' = [todo EXCEPT ![t] = {}]
        /\ UNCHANGED <<runs, key, listed, cur, step, live, suppress, late>>
     \/ /\ pc[t] = "finish"
        /\ UNCHANGED runs \/ (LockFree /\ WriteOutcome(t))
        /\ LeaveTask(t)
  /\ UNCHANGED <<storeVars, envVars, effects, closing, stopped>>

\* The process exits or dies and is started again on the same database file:
\* what was committed stays, every task is gone.
Restart ==
  /\ StoreCrash
  /\ closing' = FALSE
  /\ stopped' = TRUE
  /\ cancelled' = [t \in Tasks |-> FALSE]
  /\ pc' = [t \in Tasks |-> "idle"]
  /\ key' = [t \in Tasks |-> NoKey]
  /\ listed' = [t \in Tasks |-> {}]
  /\ todo' = [t \in Tasks |-> {}]
  /\ cur' = [t \in Tasks |-> NoRun]
  /\ step' = [t \in Tasks |-> 0]
  /\ live' = [t \in Tasks |-> FALSE]
  /\ suppress' = [t \in Tasks |-> FALSE]
  /\ outcome' = [t \in Tasks |-> "completed"]
  /\ late' = [t \in Tasks |-> 0]
  /\ UNCHANGED <<envVars, runs, effects>>

-----------------------------------------------------------------------------
\* The world around the runtime.

\* The automation tools, in the turn of an author (module AutomationTool has
\* their preconditions): only a pause goes through set_pos_automation_enabled.
EditRules ==
  /\ \/ \E a \in Authors, n \in Names, d \in Defs, e \in BOOLEAN :
          \/ UpsertByName(a, n, d, e)
          \/ \E id \in Ids : UpsertById(id, a, n, d, e)
     \/ UpsertCommit
     \/ Rollbacks /\ UpsertRollback
     \/ \E id \in Ids : SetEnabled(id, FALSE) \/ Delete(id)
  /\ UNCHANGED <<envVars, runs, effects, closing, stopped, cancelled, taskVars>>

\* set_beta_administrator, save_beta_server_group and delete_beta_server_group,
\* as far as they decide who may act in this guild.  A grant given back ends what
\* its loss has stopped.
SetGrant(b) ==
  /\ LockFree
  /\ grants' = IF b \in grants THEN grants \ {b} ELSE grants \cup {b}
  /\ late' = IF b \in grants THEN late ELSE [t \in Tasks |-> 0]
  /\ UNCHANGED <<storeVars, verdict, now, runs, effects, closing, stopped, cancelled, pc, key,
                 listed, todo, cur, step, live, suppress, outcome>>

\* finish_moderation / finish_join_security.
Decide(k) ==
  /\ Kind[k] # "member_remove"
  /\ verdict[k] = "pending"
  /\ \E v \in {"clear", "blocked"} : verdict' = [verdict EXCEPT ![k] = v]
  /\ UNCHANGED <<storeVars, grants, now, runs, effects, closing, stopped, cancelled, taskVars>>

\* time.time() may also step back.
Clock ==
  /\ \E n \in 0 .. MaxNow : now' = n
  /\ UNCHANGED <<storeVars, grants, verdict, runs, effects, closing, stopped, cancelled, taskVars>>

TaskStep(t) ==
  \/ Filter(t) \/ Gate(t) \/ EnterSlot(t) \/ Claim(t) \/ LiveCheck(t) \/ AuthCheck(t)
  \/ Send(t) \/ Unchanged(t) \/ Refuse(t) \/ Answer(t) \/ Lose(t) \/ Finish(t) \/ Cancel(t)

World ==
  \/ Close \/ Restart \/ EditRules \/ Clock
  \/ \E b \in Betas : SetGrant(b)
  \/ \E k \in Keys : Decide(k)

Next ==
  \/ \E t \in Tasks : TaskStep(t) \/ Land(t) \/ \E k \in Keys : HandleEvent(t, k)
  \/ World

Spec == Init /\ [][Next]_vars

\* Every await of a task ends: gates and Discord calls have timeouts, the
\* semaphore and the write lock are FIFO queues, and a writer that holds the
\* lock commits or rolls back.
Fairness ==
  /\ \A t \in Tasks : SF_vars(TaskStep(t))
  /\ WF_vars((UpsertCommit \/ (Rollbacks /\ UpsertRollback)) /\ EditRules)

FairSpec == Spec /\ Fairness

-----------------------------------------------------------------------------
\* Safety.

NothingAfter(j, n) == \A s \in StepNos : s > n => effects[j][s] = 0

\* A step of a run reaches Discord at most once, whatever is delivered twice,
\* retried, cancelled or restarted (storage.py:421-423, README.md:49).
AtMostOnce == \A j \in Jobs, s \in StepNos : effects[j][s] <= 1

\* The ledger does not say of a run that did something that it did nothing:
\* nothing is done before the reservation, and "failed" and "skipped" runs
\* have had no effect (automation_rules.py:508-545).
HonestLedger ==
  \A j \in Jobs : runs[j].st \in {"none", "failed", "skipped"} =>
    \A s \in StepNos : effects[j][s] = 0

\* What a task knows of its run: it is reserved and nothing beyond the step the
\* task is at has been done.
TaskInv(t) ==
  /\ pc[t] = "idle" => listed[t] = {} /\ todo[t] = {}
  /\ \A s \in listed[t] \cup todo[t] : Steps[s.def][key[t]] # <<>>
  /\ pc[t] \notin InRun => step[t] = 0
  /\ pc[t] \in InRun => runs[Job(t)].st = "reserved"
  /\ pc[t] \in InRun \ {"finish"} => step[t] < Len(Plan(t))
  /\ pc[t] \in InRun \ {"landed", "finish"} => NothingAfter(Job(t), step[t])
  /\ pc[t] = "landed" => NothingAfter(Job(t), step[t] + 1)
  /\ pc[t] = "finish" /\ outcome[t] \in {"failed", "skipped"} => NothingAfter(Job(t), 0)

OneTaskPerRun ==
  \A t, u \in Tasks : t # u /\ pc[t] \in InRun /\ pc[u] \in InRun => Job(t) # Job(u)

\* What makes the two above hold at every step: a run in progress is reserved,
\* has a single task, and nothing beyond the step that task is at has been done
\* (automation_rules.py:508-545).
RunInv ==
  /\ AtMostOnce
  /\ HonestLedger
  /\ \A t \in Tasks : TaskInv(t)
  /\ OneTaskPerRun

\* A run about to be recorded as completed has had every message step take
\* effect (automation_rules.py:530-531).
CompletedMeansDone ==
  \A t \in Tasks : pc[t] = "finish" /\ outcome[t] = "completed" =>
    \A s \in 1 .. Len(Plan(t)) : Plan(t)[s] = "send_message" => effects[Job(t)][s] = 1

\* Pausing, changing or deleting a rule, or revoking its author's grant, stops a
\* chain that is under way: at most the step already past its check still takes
\* effect (automation_rules.py:519-525).
ChainStops == \A t \in Tasks : late[t] <= 1

\* The second of two runs is dated at least its cooldown after the first.
Spaced(first, second) ==
  Cooldown[second.under] = 0 \/ second.at - first.at >= Cooldown[second.under]

\* Of two runs of one rule that were not skipped, one was claimed before the
\* other, which is dated the cooldown after it that the rule had when it was
\* claimed, also when the wall clock steps back or the rule is given another
\* cooldown between them (storage.py:706-719).
CooldownSpacing ==
  \A id \in Ids : \A k1, k2 \in Counted(id) : k1 # k2 =>
    \/ k1 \in runs[id, k2].before /\ Spaced(runs[id, k1], runs[id, k2])
    \/ k2 \in runs[id, k1].before /\ Spaced(runs[id, k2], runs[id, k1])

\* No request goes out for a message that moderation has not cleared, nor a role
\* step for a join that join security has not (automation_rules.py:490-494).
OnlyCleared ==
  \A t \in Tasks : pc[t] \in {"flight", "landed"} =>
    \/ verdict[key[t]] = "clear"
    \/ Kind[key[t]] = "member_remove"
    \/ Kind[key[t]] = "member_join" /\ Action(t) # "role"

\* A reservation without a task to close it is left only by a process that was
\* stopped or died (automation_rules.py:514-545).
NoOrphanRun ==
  ~stopped => \A j \in Jobs : runs[j].st = "reserved" =>
    \E t \in Tasks : pc[t] \in InRun /\ Job(t) = j

\* The reasons and the outcomes of runs: they act on cleared events only, and are
\* closed by their task, as completed only when all was done
\* (automation_rules.py:490-545).
OutcomesTrue == TypeOK /\ CompletedMeansDone /\ OnlyCleared /\ NoOrphanRun

\* Every event that is taken up is let go of again: no task waits for ever for a
\* gate, a slot, the write lock or Discord (automation_rules.py:473-545).
TaskEnds == \A t \in Tasks : pc[t] # "idle" ~> pc[t] = "idle"

Ledger == INSTANCE RunLedger WITH status <- [j \in Jobs |-> runs[j].st]

\* The runtime implements the promise of RunLedger.
LedgerSpec == Ledger!Spec
=============================================================================
