------------------------------ MODULE AgentTurn ------------------------------
(***************************************************************************)
(* One request to P.OS: the handler that retries it (handle_pos_ai), the   *)
(* loop in which the model asks for operations (run_agent_turn), and the   *)
(* executor with its cache of operations (execute_pos_tool).               *)
(*                                                                         *)
(* The model may answer anything.  An operation is a tool and the target   *)
(* its arguments are resolved to; the same target can be written in        *)
(* several ways.  Meanwhile the user may edit the message, a beta          *)
(* administrator's grant may come and go, and the deadline may pass.       *)
(***************************************************************************)
EXTENDS Integers, Sequences, FiniteSets

CONSTANTS
  Tools,       \* eligible_names
  Writes,      \* mutating_names
  Cached,      \* writes that are executed at once and pass the execution cache
  Approval,    \* writes that are only sent to the owner for approval
  Undo,        \* undo_recent_actions
  Unread,      \* writes that word a refusal in a way action_succeeded does not know
  Raws,        \* arguments as the model writes them
  Targets,     \* what they are resolved to
  MaxRounds,   \* MAX_ROUNDS
  MaxActions,  \* MAX_ACTIONS
  MaxLoaded,   \* MAX_LOADED_TOOLS
  MaxRetries,  \* completion retries in a turn
  MaxEdits, MaxGrants  \* bounds: changes of the message and of the grant

ASSUME TurnAssumption ==
  /\ Writes \subseteq Tools
  /\ Cached \cap Approval = {}
  /\ Cached \cup Approval \subseteq Writes
  /\ Undo \in Cached \cup Approval
  /\ Unread \subseteq Writes
  /\ {MaxRounds, MaxActions, MaxLoaded, MaxRetries, MaxEdits, MaxGrants} \subseteq Nat

Keys == Writes \X Raws
Operations == Writes \X Targets
Statuses == {"none", "unknown", "error", "pending", "success"}
Replies ==
  {"answered", "completed", "partial", "blocked", "question",  \* the model's
   "listed", "unchanged", "silent", "none"}                    \* the program's

VARIABLES
  pc,        \* where the request is
  try,       \* 2 after the handler has started over
  turn,      \* the locals of run_agent_turn
  call,      \* the call being executed: tool, raw arguments, target
  seen,      \* writes_seen: [Keys -> outcome]
  cache,     \* execution_cache: [Operations -> outcome]
  executed,  \* call_state["tools_executed"]
  edits,     \* how often the message has been edited, there and back
  grants,    \* how often the grant has been taken away and given back
  effects,   \* history: the operations that took effect
  late,      \* history: how many since the message was edited, and the grant revoked
  reply      \* what the user is told

vars == <<pc, try, turn, call, seen, cache, executed, edits, grants, effects, late, reply>>
env == <<edits, grants>>
history == <<effects, late>>

NoTarget == "no target"
NoCall == [tool |-> "no tool"]
Inside == {"flight", "recheck", "doing", "landed"}

Turn ==
  [round : 0 .. MaxRounds, retries : 0 .. MaxRetries, second : BOOLEAN, malformed : 0 .. 1,
   loaded : SUBSET Tools, available : SUBSET Tools, left : 0 .. MaxActions, alone : BOOLEAN,
   attempts : 0 .. MaxActions, refused : BOOLEAN, expired : BOOLEAN]

FreshTurn ==
  [round |-> 0, retries |-> 0, second |-> FALSE, malformed |-> 0, loaded |-> {},
   available |-> {}, left |-> 0, alone |-> FALSE, attempts |-> 0, refused |-> FALSE,
   expired |-> FALSE]

\* Every variable holds a value of its kind; the discovered tools stay within the
\* limit, and a call is being executed only out of a batch (agent_runtime.py:107-117).
TypeOK ==
  /\ pc \in {"start", "ask", "wait", "calls", "raised", "done"} \cup Inside
  /\ try \in 1 .. 2
  /\ turn \in Turn
  /\ Cardinality(turn.loaded) <= MaxLoaded
  /\ turn.available \subseteq turn.loaded
  /\ call \in [tool : Tools, raw : Raws, target : Targets \cup {NoTarget}] \cup {NoCall}
  /\ (pc \in Inside) = (call # NoCall)
  /\ pc \in Inside \cup {"calls"} => turn.left > 0
  /\ seen \in [Keys -> Statuses]
  /\ cache \in [Operations -> Statuses]
  /\ executed \in BOOLEAN
  /\ edits \in 0 .. MaxEdits
  /\ grants \in 0 .. MaxGrants
  /\ effects \in Seq(Operations)
  /\ late \in [edited : Nat, revoked : Nat]
  /\ reply \in Replies

Nothing == [k \in Keys |-> "none"]
Uncached == [o \in Operations |-> "none"]

Init ==
  /\ pc = "start"
  /\ try = 1
  /\ turn = FreshTurn
  /\ call = NoCall
  /\ seen = Nothing
  /\ cache = Uncached
  /\ executed = FALSE
  /\ edits = 0
  /\ grants = 0
  /\ effects = <<>>
  /\ late = [edited |-> 0, revoked |-> 0]
  /\ reply = "none"

\* is_current: an edit may also restore the text the plan is bound to.
Edited == edits % 2 = 1
Granted == grants % 2 = 0

\* The statuses of the receipts of state-changing tools.
Receipts == ({seen[k] : k \in Keys} \ {"none"}) \cup (IF turn.refused THEN {"error"} ELSE {})

\* _incomplete: the facts, or that no server changes were made.
Incomplete == IF Receipts # {} THEN "listed" ELSE "unchanged"

Ends(with) ==
  /\ pc' = "done"
  /\ reply' = with
  /\ UNCHANGED <<try, turn, call, seen, cache, executed, env, history>>

-----------------------------------------------------------------------------
\* handle_pos_ai and request_pos_reply.

Start ==
  /\ pc = "start"
  /\ IF Edited THEN Ends("unchanged")
     ELSE /\ pc' = "ask"
          /\ turn' = FreshTurn
          /\ seen' = Nothing
          /\ cache' = Uncached
          /\ UNCHANGED <<try, call, executed, env, history, reply>>

\* An exception has left the loop.  The handler starts over unless a tool has
\* been executed; if one has, it says that nothing was done.
Retry ==
  /\ pc = "raised"
  /\ IF executed THEN Ends("silent")
     ELSE IF try = 2 THEN Ends("none")
     ELSE /\ pc' = "start"
          /\ try' = 2
          /\ UNCHANGED <<turn, call, seen, cache, executed, env, history, reply>>

-----------------------------------------------------------------------------
\* A round: the model is asked, once more if that fails for the moment.

Round ==
  /\ pc = "ask"
  /\ IF Edited \/ turn.expired \/ turn.round = MaxRounds THEN Ends(Incomplete)
     ELSE /\ pc' = "wait"
          /\ turn' = [turn EXCEPT !.round = @ + 1, !.second = FALSE]
          /\ UNCHANGED <<try, call, seen, cache, executed, env, history, reply>>

NoResponse ==
  /\ pc = "wait"
  /\ \/ Ends(Incomplete)
     \/ /\ ~Edited /\ ~turn.expired /\ ~turn.second /\ turn.retries < MaxRetries
        /\ turn' = [turn EXCEPT !.retries = @ + 1, !.second = TRUE]
        /\ UNCHANGED <<pc, try, call, seen, cache, executed, env, history, reply>>

\* Prose, or nothing that can be read as a call.
Malformed ==
  /\ pc = "wait"
  /\ IF Edited \/ turn.malformed = 1 THEN Ends(Incomplete)
     ELSE /\ pc' = "ask"
          /\ turn' = [turn EXCEPT !.malformed = 1]
          /\ UNCHANGED <<try, call, seen, cache, executed, env, history, reply>>

\* A batch of calls; what was discovered before it can be used in it.
Batch ==
  /\ pc = "wait"
  /\ \E n \in 1 .. MaxActions + 1 :
       IF Edited \/ n > MaxActions THEN Ends(Incomplete)
       ELSE /\ pc' = "calls"
            /\ turn' = [turn EXCEPT !.left = n, !.alone = (n = 1), !.available = turn.loaded]
            /\ UNCHANGED <<try, call, seen, cache, executed, env, history, reply>>

-----------------------------------------------------------------------------
\* The calls of a batch, in order.

Calling == pc = "calls" /\ ~Edited

Stop ==
  /\ pc = "calls"
  /\ Edited
  /\ Ends(Incomplete)

\* The call has its answer, and the batch goes on.
After(locals) ==
  /\ turn' = [locals EXCEPT !.left = @ - 1]
  /\ pc' = IF turn.left = 1 THEN "ask" ELSE "calls"
  /\ UNCHANGED <<try, env, reply>>

Unexecuted(locals) == After(locals) /\ UNCHANGED <<call, seen, cache, executed, history>>

Discover ==
  /\ Calling
  /\ \E S \in (SUBSET Tools) \ {{}} :
       /\ Cardinality(turn.loaded \cup S) <= MaxLoaded
       /\ Unexecuted([turn EXCEPT !.loaded = @ \cup S])

\* _finish_error: what the receipts allow the model to say.
Admissible(outcome) ==
  CASE outcome = "completed" -> Receipts = {"success"}
    [] outcome = "partial" -> "success" \in Receipts
    [] outcome = "answered" -> Receipts = {}
    [] outcome = "blocked" -> "success" \notin Receipts

FinishResponse ==
  /\ Calling
  /\ turn.alone
  /\ \E outcome \in {"answered", "completed", "partial", "blocked"} :
       Admissible(outcome) /\ Ends(outcome)

AskUser ==
  /\ Calling
  /\ turn.alone
  /\ Ends(IF Receipts = {} THEN "question" ELSE "listed")

\* A call that is refused and leaves no receipt: discovery beyond the limit, a
\* final answer that is not allowed, a tool that does not exist.
Unrecorded ==
  /\ Calling
  /\ Unexecuted(turn)

\* The tool has not been discovered, its arguments are no object, or the limit of
\* operations or the deadline has been reached.  The refusal leaves a receipt.
Reject ==
  /\ Calling
  /\ \E t \in Tools : Unexecuted([turn EXCEPT !.refused = @ \/ t \in Writes])

Allowed(t) == Calling /\ t \in turn.available /\ turn.attempts < MaxActions /\ ~turn.expired
Attempt == [turn EXCEPT !.attempts = @ + 1]
Seen(t, raw) == t \in Writes /\ seen[<<t, raw>>] # "none"

Duplicate ==
  /\ \E t \in Tools, raw \in Raws : Allowed(t) /\ Seen(t, raw)
  /\ Unexecuted(Attempt)

TooLate(t) == t = Undo /\ Receipts # {}

RefuseUndo ==
  /\ \E raw \in Raws : Allowed(Undo) /\ ~Seen(Undo, raw) /\ TooLate(Undo)
  /\ Unexecuted([Attempt EXCEPT !.refused = TRUE])

Begin ==
  /\ \E t \in Tools, raw \in Raws :
       /\ Allowed(t) /\ ~Seen(t, raw) /\ ~TooLate(t)
       /\ call' = [tool |-> t, raw |-> raw, target |-> NoTarget]
       /\ seen' = IF t \in Writes THEN [seen EXCEPT ![<<t, raw>>] = "unknown"] ELSE seen
  /\ pc' = "flight"
  /\ turn' = Attempt
  /\ executed' = TRUE
  /\ UNCHANGED <<try, cache, env, history, reply>>

\* An exception nobody expects at this place leaves the loop.
Raise ==
  /\ pc = "calls"
  /\ pc' = "raised"
  /\ UNCHANGED <<try, turn, call, seen, cache, executed, env, history, reply>>

-----------------------------------------------------------------------------
\* execute_pos_tool.

Outcome(status) ==
  /\ seen' = IF call.tool \in Writes THEN [seen EXCEPT ![<<call.tool, call.raw>>] = status]
             ELSE seen
  /\ call' = NoCall
  /\ After(turn)
  /\ UNCHANGED <<executed, history>>

Operation == <<call.tool, call.target>>

\* The result of an operation is kept for the other names of its target.
Result(status) ==
  /\ Outcome(status)
  /\ cache' = IF call.tool \in Cached THEN [cache EXCEPT ![Operation] = status] ELSE cache

\* The actor, the arguments or the target are refused before anything is done; a
\* reading tool has its answer.
Refuse ==
  /\ pc = "flight"
  /\ \E status \in IF call.tool \in Writes \/ ~Granted THEN {"error"} ELSE {"error", "success"} :
       Outcome(status)
  /\ UNCHANGED cache

RequestApproval ==
  /\ pc = "flight"
  /\ call.tool \in Approval
  /\ Outcome("pending")
  /\ UNCHANGED cache

\* Mutant: the operation is noted when its result is known.
PrepareUnmarked ==
  /\ pc = "flight"
  /\ Granted
  /\ call.tool \in Writes \ Approval
  /\ \E target \in Targets :
       /\ call.tool \in Cached => cache[<<call.tool, target>>] = "none"
       /\ call' = [call EXCEPT !.target = target]
  /\ pc' = "recheck"
  /\ UNCHANGED <<try, turn, seen, cache, executed, env, history, reply>>

\* The target is resolved, and the operation noted before it is tried.
Prepare ==
  /\ pc = "flight"
  /\ Granted
  /\ call.tool \in Writes \ Approval
  /\ \E target \in Targets :
       /\ call.tool \in Cached => cache[<<call.tool, target>>] = "none"
       /\ call' = [call EXCEPT !.target = target]
       /\ cache' = IF call.tool \in Cached
                   THEN [cache EXCEPT ![<<call.tool, target>>] = "unknown"] ELSE cache
  /\ pc' = "recheck"
  /\ UNCHANGED <<try, turn, seen, executed, env, history, reply>>

\* Another name of a target that has been tried: its result, an unknown one
\* being no success.
Alias ==
  /\ pc = "flight"
  /\ Granted
  /\ call.tool \in Cached
  /\ \E target \in Targets :
       /\ cache[<<call.tool, target>>] # "none"
       /\ Outcome(IF cache[<<call.tool, target>>] = "success" THEN "success" ELSE "error")
  /\ UNCHANGED cache

Recheck ==
  /\ pc = "recheck"
  /\ IF Granted
     THEN /\ pc' = "doing"
          /\ UNCHANGED <<try, turn, call, seen, cache, executed, env, history, reply>>
     ELSE Result("error")

\* External: Discord or the database carries the operation out.
Land ==
  /\ pc = "doing"
  /\ pc' = "landed"
  /\ effects' = Append(effects, Operation)
  /\ late' = [edited |-> IF Edited THEN late.edited + 1 ELSE 0,
              revoked |-> IF Granted THEN 0 ELSE late.revoked + 1]
  /\ UNCHANGED <<try, turn, call, seen, cache, executed, env, reply>>

Succeed ==
  /\ pc = "landed"
  /\ Result("success")

\* It was refused, or its answer was lost or an error.
Fail ==
  /\ pc \in {"doing", "landed"}
  /\ Result("error")

\* A refusal that reads like a success.
RefuseUnread ==
  /\ pc = "doing"
  /\ call.tool \in Unread
  /\ Result("success")

\* Mutant: an operation whose outcome is unknown leaves no receipt.
InterruptUnseen ==
  /\ pc \in Inside
  /\ Outcome("none")
  /\ UNCHANGED cache

\* The executor raises.
Interrupt ==
  /\ pc \in Inside
  /\ Outcome("unknown")
  /\ UNCHANGED cache

\* Mutant: the executor is waited for without a deadline.
TimeoutAsking ==
  /\ turn.expired
  /\ pc = "wait" /\ Ends(Incomplete)

\* wait_for gives up on the model or on the executor.
Timeout ==
  /\ turn.expired
  /\ \/ pc = "wait" /\ Ends(Incomplete)
     \/ Interrupt

-----------------------------------------------------------------------------
\* The message, the grant and the clock, as long as the request lasts.

Expire ==
  /\ pc # "done"
  /\ ~turn.expired
  /\ turn' = [turn EXCEPT !.expired = TRUE]
  /\ UNCHANGED <<pc, try, call, seen, cache, executed, env, history, reply>>

\* Once the message or the grant is as it was, there is nothing to be late for.

Edit ==
  /\ pc # "done"
  /\ edits < MaxEdits
  /\ edits' = edits + 1
  /\ late' = [late EXCEPT !.edited = 0]
  /\ UNCHANGED <<pc, try, turn, call, seen, cache, executed, grants, effects, reply>>

Regrant ==
  /\ pc # "done"
  /\ grants < MaxGrants
  /\ grants' = grants + 1
  /\ late' = [late EXCEPT !.revoked = 0]
  /\ UNCHANGED <<pc, try, turn, call, seen, cache, executed, edits, effects, reply>>

Handle == Start \/ Retry \/ Round
Handling ==
  \/ Stop \/ Discover \/ FinishResponse \/ AskUser \/ Unrecorded \/ Reject
  \/ Duplicate \/ RefuseUndo \/ Begin \/ Raise
Model == NoResponse \/ Malformed \/ Batch
Executor ==
  \/ Refuse \/ RequestApproval \/ Prepare \/ Alias \/ Recheck \/ Land
  \/ Succeed \/ Fail \/ RefuseUnread \/ Interrupt

Next == Handle \/ Handling \/ Model \/ Executor \/ Timeout \/ Expire \/ Edit \/ Regrant

Spec == Init /\ [][Next]_vars

\* The loop's own steps and its deadline; neither the model nor Discord need
\* ever answer.
FairSpec == Spec /\ WF_vars(Handle \/ Handling) /\ WF_vars(Timeout) /\ WF_vars(Expire)

-----------------------------------------------------------------------------
\* An operation takes effect at most once in a request, whatever names the model
\* gives its target, and although its outcome may be unknown and the handler
\* starts over (pos_ai.py:3971-3991, 6982-6984).
OnceEach ==
  \A i, j \in DOMAIN effects :
    effects[i] = effects[j] /\ effects[i][1] \in Cached => i = j

\* An undo comes before everything else a request changes, so it never undoes
\* what was done on its own behalf (agent_runtime.py:227-228).
UndoFirst == \A i \in DOMAIN effects : effects[i][1] = Undo => i = 1

Done(o) == \E i \in DOMAIN effects : effects[i] = o
CarriedOut(S) ==
  /\ \A o \in Operations : o[1] \in S /\ cache[o] # "none" => Done(o)
  /\ \A k \in Keys : k[1] \in S /\ seen[k] # "none" => \E x \in Targets : Done(<<k[1], x>>)

\* A reply that speaks of no change is given only if there is none, also when
\* operations were interrupted or lost their answer; a request is reported as
\* completed only if every operation that was begun has been carried out, as long
\* as refusals can be told from successes (agent_runtime.py:54-84).
RepliesTrue ==
  /\ reply \in {"answered", "question", "unchanged"} => effects = <<>>
  /\ reply = "completed" => CarriedOut(Writes \ Unread)

\* Refusals, pending approval and unknown outcomes cannot be reported as a
\* completed workflow (README.md:45).
CompletedTrue == reply = "completed" => CarriedOut(Writes)

\* Once the message has been edited or the grant revoked, at most the operation
\* under way still takes effect (README.md:41, 70).
StopsWhenLost == late.edited <= 1 /\ late.revoked <= 1

\* What a request changes, it changes once, after an undo it asked for, and no
\* longer once it may not: type correctness and the three above
\* (pos_ai.py:3971-3991, agent_runtime.py:181-182, 227-228).
EffectsSound == TypeOK /\ OnceEach /\ UndoFirst /\ StopsWhenLost

\* Every request ends, also when the model goes on for ever and nobody answers
\* (agent_runtime.py:122-125, 236).
TurnEnds == <>(pc = "done")
=============================================================================
