-------------------------- MODULE AgentTurn_proofs --------------------------
(***************************************************************************)
(* Proofs about one request to P.OS: what it changes, it changes once and   *)
(* no longer once it may not, and what the user is told agrees with it; and *)
(* about the pool of model providers it asks, beside all other requests,    *)
(* and its answers from the web.                                            *)
(***************************************************************************)
EXTENDS AgentTurn, ProviderPool, WebResearch, Positions_proofs, FiniteSetTheorems,
        SequenceTheorems, WellFoundedInduction, TLAPS

-----------------------------------------------------------------------------
(* The inductive invariant.                                                 *)

Bad == {"unknown", "error", "pending"}
Key == <<call.tool, call.raw>>
Resolved == {"recheck", "doing", "landed"}

\* Between the calls there is none; a call that is being executed was noted before
\* anything was done, and so was its operation; until a tool is executed nothing is.
CallInv ==
  /\ reply # "none" => pc = "done"
  /\ pc \in Inside => executed
  /\ pc \in Resolved => call.tool \in Writes \ Approval /\ call.target \in Targets
  /\ pc \in Resolved /\ call.tool \in Cached => cache[Operation] = "unknown"
  /\ pc = "flight" => call.target = NoTarget
  /\ pc \in Inside /\ call.tool \in Writes => seen[Key] = "unknown"
  /\ pc = "start" => ~executed
  /\ ~executed => effects = <<>> /\ seen = Nothing /\ cache = Uncached

\* What took effect has a receipt and, if its tool passes the cache, a place in it;
\* the operation under way has not taken effect before it lands, and nothing has
\* before an undo.
EffectInv ==
  /\ \A i \in DOMAIN effects :
       /\ effects[i][1] \in Writes \ Approval
       /\ \E raw \in Raws : seen[<<effects[i][1], raw>>] # "none"
       /\ effects[i][1] \in Cached => cache[effects[i]] # "none"
  /\ pc \in {"recheck", "doing"} /\ call.tool \in Cached => ~Done(Operation)
  /\ pc = "landed" => Done(Operation)
  /\ pc \in {"flight", "recheck", "doing"} /\ call.tool = Undo => effects = <<>>

\* After a late operation there is no way to another one.
LateInv ==
  /\ late.edited >= 1 => executed /\ Edited /\ pc \in {"landed", "calls", "ask", "raised", "done"}
  /\ late.revoked >= 1 => ~Granted /\ pc # "doing"

\* A success in the cache or in a receipt stands for an operation that took effect;
\* an operation in the cache that did not succeed has a receipt that says so, and no
\* later call overwrites it.
SuccessInv ==
  /\ \A o \in Operations :
       /\ cache[o] # "none" => o[1] \in Cached
       /\ cache[o] = "success" /\ o[1] \notin Unread => Done(o)
       /\ cache[o] \in Bad =>
            \E raw \in Raws : /\ seen[<<o[1], raw>>] \in Bad
                              /\ pc \in Inside /\ ~(pc \in Resolved /\ o = Operation) =>
                                   Key # <<o[1], raw>>
  /\ \A k \in Keys :
       seen[k] = "success" /\ k[1] \notin Unread => \E x \in Targets : Done(<<k[1], x>>)

TurnInv ==
  /\ TypeOK
  /\ CallInv
  /\ EffectInv /\ OnceEach /\ UndoFirst
  /\ LateInv /\ StopsWhenLost
  /\ SuccessInv /\ RepliesTrue

-----------------------------------------------------------------------------
(* Type correctness.                                                        *)

\* A call is no NoCall.
LEMMA CallIsCall ==
  /\ \A t \in Tools, r \in Raws, x \in Targets \cup {NoTarget} :
       [tool |-> t, raw |-> r, target |-> x] # NoCall
  /\ NoCall \notin [tool : Tools, raw : Raws, target : Targets \cup {NoTarget}]
<1> DEFINE C == [tool : Tools, raw : Raws, target : Targets \cup {NoTarget}]
<1>1. \A c \in C : DOMAIN c = {"tool", "raw", "target"}
  OBVIOUS
<1>2. DOMAIN NoCall = {"tool"}
  BY DEF NoCall
<1>3. {"tool", "raw", "target"} # {"tool"}
  OBVIOUS
<1>4. \A c \in C : c # NoCall
  BY <1>1, <1>2, <1>3
<1>5. \A t \in Tools, r \in Raws, x \in Targets \cup {NoTarget} :
        [tool |-> t, raw |-> r, target |-> x] \in C
  OBVIOUS
<1> QED BY <1>4, <1>5

\* The locals of a fresh turn are of their type.
LEMMA FreshIsTurn ==
  ASSUME TurnAssumption
  PROVE  FreshTurn \in Turn /\ Cardinality(FreshTurn.loaded) <= MaxLoaded
         /\ FreshTurn.available \subseteq FreshTurn.loaded
<1>1. Cardinality({}) = 0
  BY FS_EmptySet
<1>2. FreshTurn.loaded = {} /\ FreshTurn.available = {}
  BY DEF FreshTurn
<1>3. MaxLoaded \in Nat
  BY DEF TurnAssumption
<1>4. FreshTurn \in Turn
  BY DEF FreshTurn, Turn, TurnAssumption
<1> QED BY <1>1, <1>2, <1>3, <1>4

\* What the answer of a call leaves of the locals.
LEMMA AfterType ==
  ASSUME TurnAssumption, TypeOK, pc \in Inside \cup {"calls"},
         NEW locals \in Turn, locals.left = turn.left, Cardinality(locals.loaded) <= MaxLoaded,
         locals.available \subseteq locals.loaded, After(locals)
  PROVE  /\ turn' \in Turn
         /\ Cardinality(turn.loaded)' <= MaxLoaded
         /\ turn'.available \subseteq turn'.loaded
         /\ pc' \in {"ask", "calls"}
         /\ pc' = "calls" => turn'.left > 0
<1>1. turn.left > 0 /\ turn.left \in 0 .. MaxActions /\ MaxActions \in Nat
  BY DEF TypeOK, TurnAssumption, Turn
<1>2. turn' = [locals EXCEPT !.left = locals.left - 1]
  BY DEF After
<1>3. locals.left - 1 \in 0 .. MaxActions
  BY <1>1
<1>4. turn' \in Turn
  BY <1>2, <1>3 DEF Turn
<1>5. turn'.loaded = locals.loaded /\ turn'.available = locals.available /\ turn'.left = locals.left - 1
  BY <1>2 DEF Turn
<1>6. pc' = IF turn.left = 1 THEN "ask" ELSE "calls"
  BY DEF After
<1> QED BY <1>1, <1>4, <1>5, <1>6

\* The types hold at first.
LEMMA InitTypes == ASSUME TurnAssumption PROVE Init => TypeOK
<1> SUFFICES ASSUME Init PROVE TypeOK
  OBVIOUS
<1>1. MaxEdits \in Nat /\ MaxGrants \in Nat
  BY DEF TurnAssumption
<1>2. turn \in Turn /\ Cardinality(turn.loaded) <= MaxLoaded /\ turn.available \subseteq turn.loaded
  BY FreshIsTurn DEF Init
<1>3. seen \in [Keys -> Statuses] /\ cache \in [Operations -> Statuses]
  BY DEF Init, Nothing, Uncached, Statuses
<1>4. pc = "start" /\ call = NoCall /\ pc \notin Inside
  BY DEF Init, Inside
<1>5. effects \in Seq(Operations) /\ late \in [edited : Nat, revoked : Nat]
  BY DEF Init
<1>6. pc \notin Inside \cup {"calls"} /\ (pc \in Inside) = (call # NoCall)
  BY <1>4
<1>7. pc \in {"start", "ask", "wait", "calls", "raised", "done"} \cup Inside
  BY <1>4
<1>8. edits \in 0 .. MaxEdits /\ grants \in 0 .. MaxGrants /\ try \in 1 .. 2
  BY <1>1 DEF Init
<1>9. reply \in Replies /\ executed \in BOOLEAN
  BY DEF Init, Replies
<1> QED BY <1>2, <1>3, <1>4, <1>5, <1>6, <1>7, <1>8, <1>9 DEF TypeOK

\* A reply that ends the request.
LEMMA EndsType ==
  ASSUME TypeOK, pc \notin Inside, NEW with \in Replies, Ends(with)
  PROVE  TypeOK'
BY DEF TypeOK, Ends, Inside, env, history

\* The facts or their absence.
LEMMA IncompleteIsReply == Incomplete \in Replies
BY DEF Incomplete, Replies

\* A call answered without execution.
LEMMA UnexecutedType ==
  ASSUME TurnAssumption, TypeOK, pc = "calls",
         NEW locals \in Turn, locals.left = turn.left, Cardinality(locals.loaded) <= MaxLoaded,
         locals.available \subseteq locals.loaded, Unexecuted(locals)
  PROVE  TypeOK'
<1>1. After(locals) /\ UNCHANGED <<try, edits, grants, reply, call, seen, cache, executed, effects, late>>
  BY DEF Unexecuted, After, env, history
<1>2. pc \in Inside \cup {"calls"}
  OBVIOUS
<1>3. /\ turn' \in Turn
      /\ Cardinality(turn.loaded)' <= MaxLoaded
      /\ turn'.available \subseteq turn'.loaded
      /\ pc' \in {"ask", "calls"}
      /\ pc' = "calls" => turn'.left > 0
  BY <1>1, <1>2, AfterType
<1>4. call = NoCall
  BY DEF TypeOK, Inside
<1>5. pc' \notin Inside
  BY <1>3 DEF Inside
<1> QED BY <1>1, <1>3, <1>4, <1>5 DEF TypeOK

\* A call answered by the executor.
LEMMA OutcomeType ==
  ASSUME TurnAssumption, TypeOK, pc \in Inside, NEW status \in Statuses, Outcome(status),
         cache' \in [Operations -> Statuses]
  PROVE  TypeOK'
<1>1. After(turn) /\ call' = NoCall /\ UNCHANGED <<try, edits, grants, reply, executed, effects, late>>
  BY DEF Outcome, After, env, history
<1>2. /\ turn' \in Turn
      /\ Cardinality(turn.loaded)' <= MaxLoaded
      /\ turn'.available \subseteq turn'.loaded
      /\ pc' \in {"ask", "calls"}
      /\ pc' = "calls" => turn'.left > 0
  <2>1. turn \in Turn /\ Cardinality(turn.loaded) <= MaxLoaded /\ turn.available \subseteq turn.loaded
    BY DEF TypeOK
  <2>2. pc \in Inside \cup {"calls"}
    OBVIOUS
  <2> QED BY <1>1, <2>1, <2>2, AfterType
<1>3. pc' \notin Inside
  BY <1>2 DEF Inside
<1>4. seen' \in [Keys -> Statuses]
  <2>1. seen \in [Keys -> Statuses]
    BY DEF TypeOK
  <2> QED BY <2>1 DEF Outcome
<1> QED BY <1>1, <1>2, <1>3, <1>4 DEF TypeOK

\* The steps of the executor keep the types.
LEMMA ExecutorTypes == ASSUME TurnAssumption, TypeOK, CallInv, Executor PROVE TypeOK'
<1>a. call # NoCall => pc \in Inside /\ call \in [tool : Tools, raw : Raws, target : Targets \cup {NoTarget}]
  BY DEF TypeOK
<1>b. pc \in {"flight", "recheck", "doing", "landed"} => pc \in Inside /\ call # NoCall
  BY DEF TypeOK, Inside
<1>c. cache \in [Operations -> Statuses]
  BY DEF TypeOK
<1>d. pc \in Resolved => call.tool \in Writes /\ call.target \in Targets
  BY DEF CallInv
<1>1. CASE \E status \in Statuses : Outcome(status) /\ cache' = cache /\ pc \in Inside
  BY <1>1, <1>c, OutcomeType
<1>2. CASE \E status \in {"error", "success"} : Result(status) /\ pc \in Inside
  <2>1. PICK status \in {"error", "success"} : Result(status)
    BY <1>2
  <2>2. cache' \in [Operations -> Statuses] /\ status \in Statuses
    BY <1>c, <2>1 DEF Result, Statuses
  <2>3. Outcome(status)
    BY <2>1 DEF Result
  <2> QED BY <1>2, <2>2, <2>3, OutcomeType
<1>3. CASE Prepare
  <2>1. PICK target \in Targets :
          /\ call' = [call EXCEPT !.target = target]
          /\ cache' = IF call.tool \in Cached
                      THEN [cache EXCEPT ![<<call.tool, target>>] = "unknown"] ELSE cache
    BY <1>3 DEF Prepare
  <2>2. pc = "flight" /\ pc' = "recheck" /\ UNCHANGED <<try, turn, seen, executed, edits, grants, effects, late, reply>>
    BY <1>3 DEF Prepare, env, history
  <2>3. call \in [tool : Tools, raw : Raws, target : Targets \cup {NoTarget}]
    BY <1>a, <1>b, <2>2
  <2>4. call' \in [tool : Tools, raw : Raws, target : Targets \cup {NoTarget}]
    BY <2>1, <2>3
  <2>5. cache' \in [Operations -> Statuses]
    BY <1>c, <2>1 DEF Statuses
  <2>6. call' # NoCall
    BY <2>4, CallIsCall
  <2>7. pc \in Inside /\ pc' \in Inside
    BY <2>2 DEF Inside
  <2> QED BY <2>2, <2>4, <2>5, <2>6, <2>7 DEF TypeOK
<1>4. CASE Land
  <2>1. pc = "doing" /\ pc' = "landed" /\ effects' = Append(effects, Operation)
        /\ UNCHANGED <<try, turn, call, seen, cache, executed, edits, grants, reply>>
    BY <1>4 DEF Land, env
  <2>2. Operation \in Operations
    BY <2>1, <1>d DEF Operation, Operations, CallInv, Resolved
  <2>3. effects' \in Seq(Operations)
    BY <2>1, <2>2, AppendProperties DEF TypeOK
  <2>4. late' \in [edited : Nat, revoked : Nat]
    BY <1>4 DEF Land, TypeOK
  <2>5. pc \in Inside /\ pc' \in Inside
    BY <2>1 DEF Inside
  <2> QED BY <2>1, <2>3, <2>4, <2>5 DEF TypeOK
<1>5. CASE Recheck /\ Granted
  <2>1. pc = "recheck" /\ pc' = "doing" /\ UNCHANGED <<try, turn, call, seen, cache, executed, edits, grants, effects, late, reply>>
    BY <1>5 DEF Recheck, env, history
  <2>2. pc \in Inside /\ pc' \in Inside
    BY <2>1 DEF Inside
  <2> QED BY <2>1, <2>2 DEF TypeOK
<1>6. CASE Refuse \/ RequestApproval \/ Alias \/ Interrupt
  <2>1. pc \in Inside /\ cache' = cache
    BY <1>6 DEF Refuse, RequestApproval, Alias, Interrupt, Inside
  <2>2. \E status \in Statuses : Outcome(status)
    <3>1. CASE Refuse
      BY <3>1 DEF Refuse, Statuses
    <3>2. CASE RequestApproval
      BY <3>2 DEF RequestApproval, Statuses
    <3>3. CASE Alias
      BY <3>3 DEF Alias, Statuses
    <3>4. CASE Interrupt
      BY <3>4 DEF Interrupt, Statuses
    <3> QED BY <1>6, <3>1, <3>2, <3>3, <3>4
  <2> QED BY <1>1, <2>1, <2>2
<1>7. CASE (Recheck /\ ~Granted) \/ Succeed \/ Fail \/ RefuseUnread
  BY <1>2, <1>7 DEF Recheck, Succeed, Fail, RefuseUnread, Inside
<1> QED BY <1>3, <1>4, <1>5, <1>6, <1>7 DEF Executor

\* Every step keeps the types.
LEMMA TypesKept == ASSUME TurnAssumption, TypeOK, CallInv, Next PROVE TypeOK'
<1>a. /\ pc = "calls" => pc \notin Inside /\ call = NoCall
      /\ turn \in Turn /\ Cardinality(turn.loaded) <= MaxLoaded
      /\ turn.available \subseteq turn.loaded
  BY DEF TypeOK, Inside
<1>b. {MaxRounds, MaxActions, MaxLoaded, MaxRetries, MaxEdits, MaxGrants} \subseteq Nat
  BY DEF TurnAssumption
<1>c. Writes \subseteq Tools /\ Cached \cup Approval \subseteq Writes
  BY DEF TurnAssumption
<1>d. Incomplete \in Replies
  BY IncompleteIsReply
<1>1. CASE Start
  <2>1. pc \notin Inside /\ call = NoCall
    BY <1>1 DEF Start, TypeOK, Inside
  <2>2. CASE Edited
    BY <1>1, <2>1, <2>2, EndsType DEF Start, Replies
  <2>3. CASE ~Edited
    <3>1. pc' = "ask" /\ turn' = FreshTurn /\ seen' = Nothing /\ cache' = Uncached
          /\ UNCHANGED <<try, call, executed, edits, grants, effects, late, reply>>
      BY <1>1, <2>3 DEF Start, env, history
    <3>2. turn' \in Turn /\ Cardinality(turn.loaded)' <= MaxLoaded /\ turn'.available \subseteq turn'.loaded
      BY <3>1, FreshIsTurn
    <3>3. seen' \in [Keys -> Statuses] /\ cache' \in [Operations -> Statuses]
      BY <3>1 DEF Nothing, Uncached, Statuses
    <3>4. pc' \notin Inside \cup {"calls"}
      BY <3>1 DEF Inside
    <3> QED BY <3>1, <3>2, <3>3, <3>4, <2>1 DEF TypeOK
  <2> QED BY <2>2, <2>3
<1>2. CASE Retry
  <2>1. pc \notin Inside
    BY <1>2 DEF Retry, Inside
  <2>2. CASE executed \/ try = 2
    BY <1>2, <2>1, <2>2, EndsType DEF Retry, Replies
  <2>3. CASE ~(executed \/ try = 2)
    <3>1. pc' = "start" /\ try' = 2 /\ UNCHANGED <<turn, call, seen, cache, executed, edits, grants, effects, late, reply>>
      BY <1>2, <2>3 DEF Retry, env, history
    <3>2. pc' \notin Inside \cup {"calls"}
      BY <3>1 DEF Inside
    <3> QED BY <2>1, <3>1, <3>2 DEF TypeOK
  <2> QED BY <2>2, <2>3
<1>3. CASE Round
  <2>1. pc \notin Inside
    BY <1>3 DEF Round, Inside
  <2>2. CASE Edited \/ turn.expired \/ turn.round = MaxRounds
    BY <1>3, <1>d, <2>1, <2>2, EndsType DEF Round
  <2>3. CASE ~(Edited \/ turn.expired \/ turn.round = MaxRounds)
    <3>1. pc' = "wait" /\ turn' = [turn EXCEPT !.round = @ + 1, !.second = FALSE]
          /\ UNCHANGED <<try, call, seen, cache, executed, edits, grants, effects, late, reply>>
      BY <1>3, <2>3 DEF Round, env, history
    <3>2. turn' \in Turn
      <4>1. turn.round + 1 \in 0 .. MaxRounds
        BY <1>a, <1>b, <2>3 DEF Turn
      <4>2. turn' = [turn EXCEPT !.round = turn.round + 1, !.second = FALSE]
        BY <3>1
      <4> QED BY <1>a, <4>1, <4>2 DEF Turn
    <3>3. turn'.loaded = turn.loaded /\ turn'.available = turn.available
      BY <1>a, <3>1 DEF Turn
    <3>4. pc' \notin Inside \cup {"calls"}
      BY <3>1 DEF Inside
    <3> QED BY <1>a, <2>1, <3>1, <3>2, <3>3, <3>4 DEF TypeOK
  <2> QED BY <2>2, <2>3
<1>4. CASE NoResponse \/ Malformed
  <2>1. pc = "wait" /\ pc \notin Inside
    BY <1>4 DEF NoResponse, Malformed, Inside
  <2>2. CASE Ends(Incomplete)
    BY <1>d, <2>1, <2>2, EndsType
  <2>3. CASE ~Ends(Incomplete)
    <3>1. /\ pc' \in {"wait", "ask"}
          /\ \/ turn' = [turn EXCEPT !.malformed = 1]
             \/ turn.retries < MaxRetries /\ turn' = [turn EXCEPT !.retries = @ + 1, !.second = TRUE]
          /\ UNCHANGED <<try, call, seen, cache, executed, edits, grants, effects, late, reply>>
      <4>1. CASE NoResponse
        BY <2>3, <4>1 DEF NoResponse, env, history
      <4>2. CASE Malformed
        <5>1. pc' = "ask" /\ turn' = [turn EXCEPT !.malformed = 1]
          BY <2>3, <4>2 DEF Malformed
        <5>2. UNCHANGED <<try, call, seen, cache, executed, env, history, reply>>
          BY <2>3, <4>2 DEF Malformed
        <5>3. UNCHANGED <<try, call, seen, cache, executed, edits, grants, effects, late, reply>>
          BY <5>2 DEF env, history
        <5> QED BY <5>1, <5>3
      <4> QED BY <1>4, <4>1, <4>2
    <3>2. turn' \in Turn
      <4>1. CASE turn' = [turn EXCEPT !.malformed = 1]
        BY <1>a, <4>1 DEF Turn
      <4>2. CASE turn.retries < MaxRetries /\ turn' = [turn EXCEPT !.retries = @ + 1, !.second = TRUE]
        <5>1. turn.retries + 1 \in 0 .. MaxRetries
          BY <1>a, <1>b, <4>2 DEF Turn
        <5>2. turn' = [turn EXCEPT !.retries = turn.retries + 1, !.second = TRUE]
          BY <4>2
        <5> QED BY <1>a, <5>1, <5>2 DEF Turn
      <4> QED BY <3>1, <4>1, <4>2
    <3>3. turn'.loaded = turn.loaded /\ turn'.available = turn.available
      BY <1>a, <3>1 DEF Turn
    <3>4. pc' \notin Inside \cup {"calls"}
      BY <3>1 DEF Inside
    <3> QED BY <1>a, <2>1, <3>1, <3>2, <3>3, <3>4 DEF TypeOK
  <2> QED BY <2>2, <2>3
<1>5. CASE Batch
  <2>1. pc = "wait" /\ pc \notin Inside
    BY <1>5 DEF Batch, Inside
  <2>2. CASE Ends(Incomplete)
    BY <1>d, <2>1, <2>2, EndsType
  <2>3. CASE ~Ends(Incomplete)
    <3>1. PICK n \in 1 .. MaxActions + 1 :
            /\ n <= MaxActions /\ pc' = "calls"
            /\ turn' = [turn EXCEPT !.left = n, !.alone = (n = 1), !.available = turn.loaded]
            /\ UNCHANGED <<try, call, seen, cache, executed, edits, grants, effects, late, reply>>
      <4>1. PICK n \in 1 .. MaxActions + 1 :
              IF Edited \/ n > MaxActions THEN Ends(Incomplete)
              ELSE /\ pc' = "calls"
                   /\ turn' = [turn EXCEPT !.left = n, !.alone = (n = 1), !.available = turn.loaded]
                   /\ UNCHANGED <<try, call, seen, cache, executed, env, history, reply>>
        BY <1>5 DEF Batch
      <4>2. ~(Edited \/ n > MaxActions)
        BY <2>3, <4>1
      <4>3. n <= MaxActions
        BY <1>b, <4>2
      <4> QED BY <4>1, <4>2, <4>3 DEF env, history
    <3>2. n \in 0 .. MaxActions /\ n > 0 /\ (n = 1) \in BOOLEAN
      BY <1>b, <3>1
    <3>3. turn' \in Turn
      BY <1>a, <3>1, <3>2 DEF Turn
    <3>4. turn'.loaded = turn.loaded /\ turn'.available = turn.loaded /\ turn'.left = n
      BY <1>a, <3>1 DEF Turn
    <3>5. pc' \notin Inside
      BY <3>1 DEF Inside
    <3> QED BY <1>a, <2>1, <3>1, <3>2, <3>3, <3>4, <3>5 DEF TypeOK
  <2> QED BY <2>2, <2>3
<1>6. CASE Stop
  BY <1>6, <1>a, <1>d, EndsType DEF Stop
<1>7. CASE Discover
  <2>1. PICK S \in SUBSET Tools : /\ Cardinality(turn.loaded \cup S) <= MaxLoaded
                                 /\ Unexecuted([turn EXCEPT !.loaded = @ \cup S])
    BY <1>7 DEF Discover
  <2> DEFINE locals == [turn EXCEPT !.loaded = @ \cup S]
  <2>2. locals \in Turn
    BY <1>a DEF Turn
  <2>3. locals.left = turn.left /\ locals.loaded = turn.loaded \cup S /\ locals.available = turn.available
    BY <1>a DEF Turn
  <2>4. pc = "calls" /\ Unexecuted(locals)
    BY <1>7, <2>1 DEF Discover, Calling
  <2>5. Cardinality(locals.loaded) <= MaxLoaded /\ locals.available \subseteq locals.loaded
    BY <1>a, <2>1, <2>3
  <2> HIDE DEF locals
  <2> QED BY <2>2, <2>3, <2>4, <2>5, UnexecutedType
<1>8. CASE FinishResponse
  <2>1. PICK outcome \in {"answered", "completed", "partial", "blocked"} : Ends(outcome)
    BY <1>8 DEF FinishResponse
  <2>2. outcome \in Replies
    BY DEF Replies
  <2> QED BY <1>8, <1>a, <2>1, <2>2, EndsType DEF FinishResponse, Calling
<1>9. CASE AskUser
  <2>1. PICK with \in Replies : Ends(with)
    BY <1>9 DEF AskUser, Replies
  <2> QED BY <1>9, <1>a, <2>1, EndsType DEF AskUser, Calling
<1>10. CASE Unrecorded
  BY <1>10, <1>a, UnexecutedType DEF Unrecorded, Calling
<1>11. CASE Reject
  <2>1. PICK t \in Tools : Unexecuted([turn EXCEPT !.refused = @ \/ t \in Writes])
    BY <1>11 DEF Reject
  <2> DEFINE locals == [turn EXCEPT !.refused = @ \/ t \in Writes]
  <2>2. locals \in Turn
    BY <1>a DEF Turn
  <2>3. locals.left = turn.left /\ locals.loaded = turn.loaded /\ locals.available = turn.available
    BY <1>a DEF Turn
  <2>4. pc = "calls" /\ Unexecuted(locals)
    BY <1>11, <2>1 DEF Reject, Calling
  <2> HIDE DEF locals
  <2> QED BY <1>a, <2>2, <2>3, <2>4, UnexecutedType
<1>12. CASE Duplicate \/ RefuseUndo
  <2>1. PICK locals \in {Attempt, [Attempt EXCEPT !.refused = TRUE]} :
           turn.attempts < MaxActions /\ pc = "calls" /\ Unexecuted(locals)
    BY <1>12 DEF Duplicate, RefuseUndo, Allowed, Calling
  <2>2. locals \in Turn
    <3>1. turn.attempts + 1 \in 0 .. MaxActions
      BY <1>a, <1>b, <2>1 DEF Turn
    <3>2. Attempt = [turn EXCEPT !.attempts = turn.attempts + 1]
      BY DEF Attempt
    <3>3. Attempt \in Turn
      BY <1>a, <3>1, <3>2 DEF Turn
    <3> QED BY <2>1, <3>3 DEF Turn
  <2>3. locals.left = turn.left /\ locals.loaded = turn.loaded /\ locals.available = turn.available
    BY <1>a, <2>1 DEF Turn, Attempt
  <2> QED BY <1>a, <2>1, <2>2, <2>3, UnexecutedType
<1>13. CASE Begin
  <2>1. PICK t \in Tools, raw \in Raws :
          /\ Allowed(t)
          /\ call' = [tool |-> t, raw |-> raw, target |-> NoTarget]
          /\ seen' = IF t \in Writes THEN [seen EXCEPT ![<<t, raw>>] = "unknown"] ELSE seen
    BY <1>13 DEF Begin
  <2>2. pc = "calls" /\ turn.attempts < MaxActions
    BY <2>1 DEF Allowed, Calling
  <2>3. pc' = "flight" /\ turn' = Attempt /\ executed' = TRUE
        /\ UNCHANGED <<try, cache, edits, grants, effects, late, reply>>
    BY <1>13 DEF Begin, env, history
  <2>4. turn' \in Turn
    BY <1>a, <1>b, <2>2, <2>3 DEF Turn, Attempt
  <2>5. turn'.left = turn.left /\ turn'.loaded = turn.loaded /\ turn'.available = turn.available
    BY <1>a, <2>3 DEF Turn, Attempt
  <2>6. seen' \in [Keys -> Statuses]
    <3>1. seen \in [Keys -> Statuses] /\ "unknown" \in Statuses
      BY DEF TypeOK, Statuses
    <3> QED BY <2>1, <3>1
  <2>7. call' \in [tool : Tools, raw : Raws, target : Targets \cup {NoTarget}] /\ call' # NoCall
    BY <2>1, CallIsCall
  <2>8. pc' \in Inside /\ turn.left > 0
    BY <2>2, <2>3 DEF Inside, TypeOK
  <2> QED BY <1>a, <2>3, <2>4, <2>5, <2>6, <2>7, <2>8 DEF TypeOK
<1>14. CASE Raise
  <2>1. pc' \notin Inside \cup {"calls"}
    BY <1>14 DEF Raise, Inside
  <2>2. pc' = "raised" /\ UNCHANGED <<try, turn, call, seen, cache, executed, edits, grants, effects, late, reply>>
    BY <1>14 DEF Raise, env, history
  <2> QED BY <1>a, <1>14, <2>1, <2>2 DEF TypeOK, Raise
<1>15. CASE Executor
  BY <1>15, ExecutorTypes
<1>16. CASE Timeout
  <2>1. CASE pc = "wait" /\ Ends(Incomplete)
    BY <1>d, <2>1, EndsType DEF Inside
  <2>2. CASE Interrupt
    BY <2>2, ExecutorTypes DEF Executor
  <2> QED BY <1>16, <2>1, <2>2 DEF Timeout
<1>17. CASE Expire
  <2>1. turn' = [turn EXCEPT !.expired = TRUE] /\ UNCHANGED <<pc, try, call, seen, cache, executed, edits, grants, effects, late, reply>>
    BY <1>17 DEF Expire, env, history
  <2>2. turn' \in Turn
    BY <1>a, <2>1 DEF Turn
  <2>3. turn'.left = turn.left /\ turn'.loaded = turn.loaded /\ turn'.available = turn.available
    BY <1>a, <2>1 DEF Turn
  <2> QED BY <2>1, <2>2, <2>3 DEF TypeOK
<1>18. CASE Edit \/ Regrant
  <2>1. UNCHANGED <<pc, try, turn, call, seen, cache, executed, effects, reply>>
    BY <1>18 DEF Edit, Regrant
  <2>2. edits' \in 0 .. MaxEdits /\ grants' \in 0 .. MaxGrants
    BY <1>18, <1>b DEF Edit, Regrant, TypeOK
  <2>3. late' \in [edited : Nat, revoked : Nat]
    BY <1>18 DEF Edit, Regrant, TypeOK
  <2> QED BY <2>1, <2>2, <2>3 DEF TypeOK
<1> QED BY <1>1, <1>2, <1>3, <1>4, <1>5, <1>6, <1>7, <1>8, <1>9, <1>10, <1>11, <1>12, <1>13, <1>14,
           <1>15, <1>16, <1>17, <1>18 DEF Next, Handle, Handling, Model

-----------------------------------------------------------------------------
(* The kinds of steps.                                                      *)

\* A step that executes nothing: the handler, the model, a call answered at once, or
\* the world.
Idle ==
  /\ UNCHANGED <<call, seen, cache, executed, effects>>
  /\ \/ pc' = pc
     \/ pc \notin Inside /\ pc' \notin Inside /\ (pc' = "start" => ~executed)

\* Every step either executes nothing, begins a call, or is the executor's; the
\* deadline is one of these.
LEMMA Steps ==
  ASSUME TypeOK, CallInv, Next
  PROVE  Idle \/ Begin \/ Executor
<1>a. \A with : Ends(with) /\ pc \notin Inside => Idle
  BY DEF Ends, Idle, Inside, env, history
<1>b. \A locals : Unexecuted(locals) /\ pc = "calls" => Idle
  <2> SUFFICES ASSUME NEW locals, Unexecuted(locals), pc = "calls" PROVE Idle
    OBVIOUS
  <2>1. pc' \in {"ask", "calls"} /\ UNCHANGED <<call, seen, cache, executed, effects>>
    BY DEF Unexecuted, After, history
  <2> QED BY <2>1 DEF Idle, Inside
<1>1. CASE Start
  <2>1. CASE Edited
    BY <1>1, <1>a, <2>1 DEF Start, Inside
  <2>2. CASE ~Edited
    <3>1. pc = "start" /\ pc' = "ask" /\ seen' = Nothing /\ cache' = Uncached /\ UNCHANGED <<call, executed, effects>>
      BY <1>1, <2>2 DEF Start, history
    <3>2. seen = Nothing /\ cache = Uncached
      BY <3>1 DEF CallInv
    <3> QED BY <3>1, <3>2 DEF Idle, Inside
  <2> QED BY <2>1, <2>2
<1>2. CASE Retry
  <2>1. CASE executed \/ try = 2
    BY <1>2, <1>a, <2>1 DEF Retry, Inside
  <2>2. CASE ~(executed \/ try = 2)
    BY <1>2, <2>2 DEF Retry, Idle, Inside, history
  <2> QED BY <2>1, <2>2
<1>3. CASE Round
  <2>1. CASE Edited \/ turn.expired \/ turn.round = MaxRounds
    BY <1>3, <1>a, <2>1 DEF Round, Inside
  <2>2. CASE ~(Edited \/ turn.expired \/ turn.round = MaxRounds)
    BY <1>3, <2>2 DEF Round, Idle, Inside, history
  <2> QED BY <2>1, <2>2
<1>4. CASE Model
  <2>1. pc = "wait"
    BY <1>4 DEF Model, NoResponse, Malformed, Batch
  <2>2. CASE Ends(Incomplete)
    BY <1>a, <2>1, <2>2 DEF Inside
  <2>3. CASE ~Ends(Incomplete)
    <3>1. CASE NoResponse
      BY <2>1, <2>3, <3>1 DEF NoResponse, Idle, Inside, history
    <3>2. CASE Malformed
      <4>1. pc' = "ask"
        BY <2>3, <3>2 DEF Malformed
      <4>2. UNCHANGED <<try, call, seen, cache, executed, env, history, reply>>
        BY <2>3, <3>2 DEF Malformed
      <4> QED BY <2>1, <4>1, <4>2 DEF Idle, Inside, history
    <3>3. CASE Batch
      <4>1. PICK n \in 1 .. MaxActions + 1 :
              IF Edited \/ n > MaxActions THEN Ends(Incomplete)
              ELSE /\ pc' = "calls"
                   /\ turn' = [turn EXCEPT !.left = n, !.alone = (n = 1), !.available = turn.loaded]
                   /\ UNCHANGED <<try, call, seen, cache, executed, env, history, reply>>
        BY <3>3 DEF Batch
      <4>2. pc' = "calls" /\ UNCHANGED <<call, seen, cache, executed, history>>
        BY <2>3, <4>1
      <4> QED BY <2>1, <4>2 DEF Idle, Inside, history
    <3> QED BY <1>4, <3>1, <3>2, <3>3 DEF Model
  <2> QED BY <2>2, <2>3
<1>5. CASE Stop
  BY <1>5, <1>a DEF Stop, Inside
<1>6. CASE FinishResponse
  BY <1>6, <1>a DEF FinishResponse, Calling, Inside
<1>7. CASE AskUser
  BY <1>7, <1>a DEF AskUser, Calling, Inside
<1>8. CASE Discover
  BY <1>8, <1>b DEF Discover, Calling
<1>9. CASE Unrecorded
  BY <1>9, <1>b DEF Unrecorded, Calling
<1>10. CASE Reject
  BY <1>10, <1>b DEF Reject, Calling
<1>11. CASE Duplicate
  BY <1>11, <1>b DEF Duplicate, Allowed, Calling
<1>12. CASE RefuseUndo
  BY <1>12, <1>b DEF RefuseUndo, Allowed, Calling
<1>13. CASE Raise
  BY <1>13 DEF Raise, Idle, Inside, history
<1>14. CASE Timeout
  <2>1. CASE pc = "wait" /\ Ends(Incomplete)
    BY <1>a, <2>1 DEF Inside
  <2>2. CASE Interrupt
    BY <2>2 DEF Executor
  <2> QED BY <1>14, <2>1, <2>2 DEF Timeout
<1>15. CASE Expire \/ Edit \/ Regrant
  BY <1>15 DEF Expire, Edit, Regrant, Idle, history
<1> QED BY <1>1, <1>2, <1>3, <1>4, <1>5, <1>6, <1>7, <1>8, <1>9, <1>10, <1>11, <1>12, <1>13, <1>14, <1>15
           DEF Next, Handle, Handling

\* A call is begun with a receipt of unknown outcome, under a name that had none.
LEMMA BeginStep ==
  ASSUME TurnAssumption, TypeOK, Begin
  PROVE  /\ call' \in [tool : Tools, raw : Raws, target : {NoTarget}]
         /\ pc = "calls" /\ pc' = "flight" /\ executed' = TRUE
         /\ UNCHANGED <<cache, effects, late, edits, grants, reply>>
         /\ call'.tool \notin Writes => seen' = seen
         /\ call'.tool \in Writes =>
              /\ seen[<<call'.tool, call'.raw>>] = "none"
              /\ seen' = [seen EXCEPT ![<<call'.tool, call'.raw>>] = "unknown"]
         /\ call'.tool = Undo => Receipts = {}
         /\ ~Edited
<1>1. PICK t \in Tools, raw \in Raws :
        /\ Allowed(t) /\ ~Seen(t, raw) /\ ~TooLate(t)
        /\ call' = [tool |-> t, raw |-> raw, target |-> NoTarget]
        /\ seen' = IF t \in Writes THEN [seen EXCEPT ![<<t, raw>>] = "unknown"] ELSE seen
  BY DEF Begin
<1>2. call'.tool = t /\ call'.raw = raw
  BY <1>1
<1>3. pc' = "flight" /\ executed' = TRUE /\ UNCHANGED <<cache, effects, late, edits, grants, reply>>
  BY DEF Begin, env, history
<1>4. pc = "calls" /\ ~Edited
  BY <1>1 DEF Allowed, Calling
<1>5. call' \in [tool : Tools, raw : Raws, target : {NoTarget}]
  BY <1>1
<1> QED BY <1>1, <1>2, <1>3, <1>4, <1>5 DEF Seen, TooLate

\* What a step of the executor is: it resolves the target, goes on, lands, or answers
\* the call with a status that the cache or its effect justifies.
Answers(status) ==
  /\ Outcome(status) /\ pc \in Inside
  /\ \/ /\ cache' = cache
        /\ pc \in Resolved => status \in Bad
        /\ status = "success" =>
             \/ call.tool \notin Writes
             \/ \E x \in Targets : call.tool \in Cached /\ cache[<<call.tool, x>>] = "success"
     \/ /\ Result(status) /\ pc \in Resolved
        /\ status = "success" => call.tool \in Unread \/ pc = "landed"

\* Every step of the executor is one of these.
LEMMA ExecutorSteps ==
  ASSUME TurnAssumption, TypeOK, CallInv, Executor
  PROVE  Prepare \/ (Recheck /\ Granted) \/ Land
         \/ \E status \in Statuses \ {"none"} : Answers(status)
<1>1. CASE Prepare \/ Land
  BY <1>1
<1>2. CASE Refuse
  <2>1. PICK status \in (IF call.tool \in Writes \/ ~Granted THEN {"error"} ELSE {"error", "success"}) : Outcome(status)
    BY <1>2 DEF Refuse
  <2>2. status \in {"error", "success"} /\ (status = "success" => call.tool \notin Writes)
    BY <2>1
  <2> QED BY <1>2, <2>1, <2>2 DEF Refuse, Answers, Statuses, Inside, Resolved
<1>3. CASE RequestApproval
  BY <1>3 DEF RequestApproval, Answers, Statuses, Inside, Resolved
<1>4. CASE Alias
  <2>1. PICK target \in Targets :
          /\ cache[<<call.tool, target>>] # "none"
          /\ Outcome(IF cache[<<call.tool, target>>] = "success" THEN "success" ELSE "error")
    BY <1>4 DEF Alias
  <2>2. PICK status \in {"success", "error"} :
          Outcome(status) /\ (status = "success" => cache[<<call.tool, target>>] = "success")
    BY <2>1
  <2> QED BY <1>4, <2>2 DEF Alias, Answers, Statuses, Inside, Resolved
<1>5. CASE Interrupt
  BY <1>5 DEF Interrupt, Answers, Statuses, Bad
<1>6. CASE Recheck
  <2>1. CASE Granted
    BY <1>6, <2>1
  <2>2. CASE ~Granted
    BY <1>6, <2>2 DEF Recheck, Result, Answers, Statuses, Inside, Resolved
  <2> QED BY <2>1, <2>2
<1>7. CASE Succeed
  BY <1>7 DEF Succeed, Result, Answers, Statuses, Inside, Resolved
<1>8. CASE Fail
  BY <1>8 DEF Fail, Result, Answers, Statuses, Inside, Resolved
<1>9. CASE RefuseUnread
  BY <1>9 DEF RefuseUnread, Result, Answers, Statuses, Inside, Resolved
<1> QED BY <1>1, <1>2, <1>3, <1>4, <1>5, <1>6, <1>7, <1>8, <1>9 DEF Executor

\* What an answer changes: the receipt of a write, and the place of its operation in
\* the cache at most.
LEMMA AnswerStep ==
  ASSUME TurnAssumption, TypeOK, CallInv, NEW status \in Statuses \ {"none"}, Answers(status)
  PROVE  /\ call' = NoCall /\ pc' \in {"ask", "calls"} /\ UNCHANGED <<executed, effects, late, reply, edits, grants>>
         /\ pc \in Inside /\ (pc \in Resolved /\ cache' = cache => status \in Bad \/ call.tool \notin Cached)
         /\ status = "success" /\ call.tool \in Writes =>
              \/ call.tool \in Unread
              \/ pc = "landed"
              \/ \E x \in Targets : call.tool \in Cached /\ cache[<<call.tool, x>>] = "success"
         /\ call.tool \in Tools /\ call.raw \in Raws
         /\ \A k \in Keys : seen'[k] = IF call.tool \in Writes /\ k = Key THEN status ELSE seen[k]
         /\ \/ cache' = cache
            \/ /\ call.tool \in Cached /\ pc \in Resolved /\ Operation \in Operations
               /\ cache' = [cache EXCEPT ![Operation] = status]
               /\ status = "success" => call.tool \in Unread \/ pc = "landed"
<1>1. call' = NoCall /\ pc' \in {"ask", "calls"} /\ UNCHANGED <<executed, effects, late, reply, edits, grants>>
  BY DEF Answers, Outcome, After, env, history
<1>2. call.tool \in Tools /\ call.raw \in Raws
  <2>1. call \in [tool : Tools, raw : Raws, target : Targets \cup {NoTarget}]
    BY DEF TypeOK, Answers
  <2> QED BY <2>1
<1>3. \A k \in Keys : seen'[k] = IF call.tool \in Writes /\ k = Key THEN status ELSE seen[k]
  <2>1. seen' = IF call.tool \in Writes THEN [seen EXCEPT ![Key] = status] ELSE seen
    BY DEF Answers, Outcome, Key
  <2>2. seen \in [Keys -> Statuses]
    BY DEF TypeOK
  <2> QED BY <2>1, <2>2
<1>4. \/ cache' = cache
      \/ /\ call.tool \in Cached /\ pc \in Resolved /\ Operation \in Operations
         /\ cache' = [cache EXCEPT ![Operation] = status]
         /\ status = "success" => call.tool \in Unread \/ pc = "landed"
  <2>1. CASE cache' = cache
    BY <2>1
  <2>2. CASE Result(status) /\ pc \in Resolved /\ (status = "success" => call.tool \in Unread \/ pc = "landed")
    <3>1. call.tool \in Writes /\ call.target \in Targets
      BY <2>2 DEF CallInv
    <3>2. Operation \in Operations
      BY <3>1 DEF Operation, Operations
    <3> QED BY <2>2, <3>2 DEF Result
  <2> QED BY <2>1, <2>2 DEF Answers
<1>5. ASSUME pc \in Resolved, cache' = cache PROVE status \in Bad \/ call.tool \notin Cached
  <2>1. CASE Result(status) /\ call.tool \in Cached
    <3>1. call.tool \in Writes /\ call.target \in Targets
      BY <1>5 DEF CallInv
    <3>2. Operation \in Operations
      BY <3>1 DEF Operation, Operations
    <3>3. cache[Operation] = "unknown" /\ cache \in [Operations -> Statuses]
      BY <1>5, <2>1 DEF CallInv, TypeOK
    <3>4. cache' = [cache EXCEPT ![Operation] = status]
      BY <2>1 DEF Result
    <3>5. status = "unknown"
      BY <1>5, <3>2, <3>3, <3>4
    <3> QED BY <3>5 DEF Bad
  <2> QED BY <1>5, <2>1 DEF Answers
<1>6. pc \in Inside /\ (status = "success" /\ call.tool \in Writes =>
              \/ call.tool \in Unread
              \/ pc = "landed"
              \/ \E x \in Targets : call.tool \in Cached /\ cache[<<call.tool, x>>] = "success")
  BY DEF Answers
<1> QED BY <1>1, <1>2, <1>3, <1>4, <1>5, <1>6

\* Resolving a target notes the operation, which had no place in the cache.
LEMMA PrepareStep ==
  ASSUME TurnAssumption, TypeOK, CallInv, Prepare
  PROVE  /\ pc = "flight" /\ pc' = "recheck" /\ UNCHANGED <<seen, executed, effects, late, reply, edits, grants>>
         /\ call'.tool = call.tool /\ call'.raw = call.raw /\ call'.target \in Targets
         /\ call.tool \in Writes \ Approval /\ call.raw \in Raws
         /\ Operation' \in Operations
         /\ call.tool \notin Cached => cache' = cache
         /\ call.tool \in Cached => /\ cache[Operation'] = "none"
                                    /\ cache' = [cache EXCEPT ![Operation'] = "unknown"]
<1>1. PICK target \in Targets :
        /\ call.tool \in Cached => cache[<<call.tool, target>>] = "none"
        /\ call' = [call EXCEPT !.target = target]
        /\ cache' = IF call.tool \in Cached
                    THEN [cache EXCEPT ![<<call.tool, target>>] = "unknown"] ELSE cache
  BY DEF Prepare
<1>2. pc = "flight" /\ pc' = "recheck" /\ UNCHANGED <<seen, executed, effects, late, reply, edits, grants>>
  BY DEF Prepare, env, history
<1>3. call.tool \in Writes \ Approval
  BY DEF Prepare
<1>4. call \in [tool : Tools, raw : Raws, target : Targets \cup {NoTarget}]
  BY <1>2 DEF TypeOK, Inside
<1>5. call'.tool = call.tool /\ call'.raw = call.raw /\ call'.target = target /\ call.raw \in Raws
  BY <1>1, <1>4
<1>6. Operation' = <<call.tool, target>>
  BY <1>5 DEF Operation
<1>7. Operation' \in Operations
  BY <1>3, <1>6 DEF Operations
<1> QED BY <1>1, <1>2, <1>3, <1>5, <1>6, <1>7

\* The operation under way lands.
LEMMA LandStep ==
  ASSUME TurnAssumption, TypeOK, CallInv, Land
  PROVE  /\ pc = "doing" /\ pc' = "landed" /\ UNCHANGED <<call, seen, cache, executed, reply, edits, grants>>
         /\ call.tool \in Writes \ Approval /\ call.tool \in Tools /\ call.raw \in Raws
         /\ Operation \in Operations /\ Operation[1] = call.tool
         /\ Len(effects') = Len(effects) + 1 /\ Len(effects) \in Nat
         /\ DOMAIN effects = 1 .. Len(effects) /\ DOMAIN effects' = 1 .. (Len(effects) + 1)
         /\ \A i \in DOMAIN effects : effects'[i] = effects[i]
         /\ effects'[Len(effects) + 1] = Operation
<1>1. pc = "doing" /\ pc' = "landed" /\ effects' = Append(effects, Operation)
      /\ UNCHANGED <<call, seen, cache, executed, reply, edits, grants>>
  BY DEF Land, env
<1>2. call.tool \in Writes \ Approval /\ call.target \in Targets
  BY <1>1 DEF CallInv, Resolved
<1>3. Operation \in Operations /\ Operation[1] = call.tool
  BY <1>2 DEF Operation, Operations
<1>4. call \in [tool : Tools, raw : Raws, target : Targets \cup {NoTarget}]
  BY <1>1 DEF TypeOK, Inside
<1>5. effects \in Seq(Operations)
  BY DEF TypeOK
<1>6. /\ Len(effects') = Len(effects) + 1 /\ Len(effects) \in Nat
      /\ DOMAIN effects = 1 .. Len(effects)
      /\ effects' \in Seq(Operations)
      /\ \A i \in 1 .. Len(effects) : effects'[i] = effects[i]
      /\ effects'[Len(effects) + 1] = Operation
  BY <1>1, <1>3, <1>5, AppendProperties, LenProperties
<1>7. DOMAIN effects' = 1 .. (Len(effects) + 1)
  BY <1>6, LenProperties
<1> QED BY <1>1, <1>2, <1>3, <1>4, <1>6, <1>7

-----------------------------------------------------------------------------
(* Each part of the invariant.                                              *)

\* The places of the call in progress.
LEMMA CallKept ==
  ASSUME TurnAssumption, TypeOK, TypeOK', CallInv, Next, reply' # "none" => pc' = "done"
  PROVE  CallInv'
<1>a. Idle \/ Begin \/ Executor
  BY Steps
<1>1. CASE Idle
  <2>1. UNCHANGED <<call, seen, cache, executed, effects>> /\ Operation' = Operation /\ Key' = Key
    BY <1>1 DEF Idle, Operation, Key
  <2>2. CASE pc' = pc
    BY <2>1, <2>2 DEF CallInv, Nothing, Uncached
  <2>3. CASE pc' \notin Inside /\ (pc' = "start" => ~executed)
    BY <2>1, <2>3 DEF CallInv, Nothing, Uncached, Inside, Resolved
  <2> QED BY <1>1, <2>2, <2>3 DEF Idle
<1>2. CASE Begin
  <2>1. /\ call' \in [tool : Tools, raw : Raws, target : {NoTarget}]
        /\ pc' = "flight" /\ executed' = TRUE
        /\ call'.tool \in Writes => seen' = [seen EXCEPT ![<<call'.tool, call'.raw>>] = "unknown"]
    BY <1>2, BeginStep
  <2>2. call'.tool \in Writes => seen'[Key'] = "unknown"
    <3>1. seen \in [Keys -> Statuses]
      BY DEF TypeOK
    <3>2. call'.raw \in Raws
      BY <2>1
    <3> QED BY <2>1, <3>1, <3>2 DEF Key, Keys
  <2>3. call'.target = NoTarget
    BY <2>1
  <2> QED BY <2>1, <2>2, <2>3 DEF CallInv, Resolved
<1>3. CASE Prepare
  <2>1. /\ pc = "flight" /\ pc' = "recheck" /\ UNCHANGED <<seen, executed, effects>>
        /\ call'.tool = call.tool /\ call'.raw = call.raw /\ call'.target \in Targets
        /\ call.tool \in Writes \ Approval
        /\ Operation' \in Operations
        /\ call.tool \in Cached => cache' = [cache EXCEPT ![Operation'] = "unknown"]
    BY <1>3, PrepareStep
  <2>2. call.tool \in Cached => cache'[Operation'] = "unknown"
    <3>1. cache \in [Operations -> Statuses]
      BY DEF TypeOK
    <3> QED BY <2>1, <3>1
  <2>3. Key' = Key /\ pc \in Inside
    BY <2>1 DEF Key, Inside
  <2>4. executed /\ (call.tool \in Writes => seen[Key] = "unknown")
    BY <2>3 DEF CallInv
  <2> QED BY <2>1, <2>2, <2>3, <2>4 DEF CallInv
<1>4. CASE Recheck /\ Granted
  <2>1. pc = "recheck" /\ pc' = "doing" /\ UNCHANGED <<call, seen, cache, executed, effects>>
    BY <1>4 DEF Recheck, history
  <2>2. Operation' = Operation /\ Key' = Key
    BY <2>1 DEF Operation, Key
  <2> QED BY <2>1, <2>2 DEF CallInv, Resolved, Inside
<1>5. CASE Land
  <2>1. pc = "doing" /\ pc' = "landed" /\ UNCHANGED <<call, seen, cache, executed>>
    BY <1>5, LandStep
  <2>2. Operation' = Operation /\ Key' = Key
    BY <2>1 DEF Operation, Key
  <2> QED BY <2>1, <2>2 DEF CallInv, Resolved, Inside
<1>6. CASE \E status \in Statuses \ {"none"} : Answers(status)
  <2>1. PICK status \in Statuses \ {"none"} : Answers(status)
    BY <1>6
  <2>2. pc' \in {"ask", "calls"} /\ UNCHANGED <<executed, effects>>
    BY <2>1, AnswerStep
  <2>3. executed
    BY <2>1 DEF Answers, CallInv
  <2> QED BY <2>2, <2>3 DEF CallInv, Inside, Resolved
<1>7. Executor => Prepare \/ (Recheck /\ Granted) \/ Land \/ \E status \in Statuses \ {"none"} : Answers(status)
  BY ExecutorSteps
<1> QED BY <1>a, <1>1, <1>2, <1>3, <1>4, <1>5, <1>6, <1>7

\* While there are no receipts nothing has taken effect.
LEMMA NoReceipts ==
  ASSUME TurnAssumption, TypeOK, EffectInv, Receipts = {}
  PROVE  effects = <<>>
<1>1. ASSUME NEW i \in DOMAIN effects PROVE FALSE
  <2>1. effects[i][1] \in Writes
    BY DEF EffectInv
  <2>2. PICK raw \in Raws : seen[<<effects[i][1], raw>>] # "none"
    BY DEF EffectInv
  <2>3. <<effects[i][1], raw>> \in Keys
    BY <2>1 DEF Keys
  <2>4. seen[<<effects[i][1], raw>>] \in Receipts
    BY <2>2, <2>3 DEF Receipts
  <2> QED BY <2>4
<1>2. effects \in Seq(Operations)
  BY DEF TypeOK
<1>3. DOMAIN effects = 1 .. Len(effects) /\ Len(effects) \in Nat
  BY <1>2, LenProperties
<1>4. Len(effects) = 0
  BY <1>1, <1>3
<1> QED BY <1>2, <1>4, EmptySeq

\* What took effect, once and after an undo.
LEMMA EffectKept ==
  ASSUME TurnAssumption, TypeOK, TypeOK', CallInv, EffectInv, OnceEach, UndoFirst, Next
  PROVE  EffectInv' /\ OnceEach' /\ UndoFirst'
<1>a. Idle \/ Begin \/ Executor
  BY Steps
<1>b. ASSUME UNCHANGED effects PROVE OnceEach' /\ UndoFirst' /\ (\A o : Done(o)' <=> Done(o))
  BY <1>b DEF OnceEach, UndoFirst, Done
<1>c. effects \in Seq(Operations) /\ \A i \in DOMAIN effects : effects[i] \in Operations
  <2>1. effects \in Seq(Operations)
    BY DEF TypeOK
  <2> QED BY <2>1, ElementOfSeq, LenProperties
<1>d. \A o \in Operations, r \in Raws : <<o[1], r>> \in Keys
  BY DEF Operations, Keys
<1>e. seen \in [Keys -> Statuses] /\ cache \in [Operations -> Statuses]
  BY DEF TypeOK
<1>1. CASE Idle
  <2>1. UNCHANGED <<call, seen, cache, effects>> /\ Operation' = Operation
    BY <1>1 DEF Idle, Operation
  <2>2. pc' = pc \/ pc' \notin Inside
    BY <1>1 DEF Idle
  <2>3. Done(Operation)' <=> Done(Operation)
    BY <2>1 DEF Done, Operation
  <2> QED BY <1>b, <2>1, <2>2, <2>3 DEF EffectInv, Inside
<1>2. CASE Begin
  <2>1. /\ call' \in [tool : Tools, raw : Raws, target : {NoTarget}]
        /\ pc' = "flight" /\ UNCHANGED <<cache, effects>>
        /\ call'.tool \notin Writes => seen' = seen
        /\ call'.tool \in Writes => seen' = [seen EXCEPT ![<<call'.tool, call'.raw>>] = "unknown"]
        /\ call'.tool = Undo => Receipts = {}
    BY <1>2, BeginStep
  <2>2. \A k \in Keys : seen[k] # "none" => seen'[k] # "none"
    BY <1>e, <2>1
  <2>3. call'.tool = Undo => effects = <<>>
    BY <2>1, NoReceipts
  <2>4. \A i \in DOMAIN effects : \E raw \in Raws : seen'[<<effects[i][1], raw>>] # "none"
    BY <1>c, <1>d, <2>2 DEF EffectInv
  <2> QED BY <1>b, <2>1, <2>3, <2>4 DEF EffectInv
<1>3. CASE Prepare
  <2>1. /\ pc = "flight" /\ pc' = "recheck" /\ UNCHANGED <<seen, effects>>
        /\ call'.tool = call.tool /\ Operation' \in Operations
        /\ call.tool \notin Cached => cache' = cache
        /\ call.tool \in Cached => /\ cache[Operation'] = "none"
                                   /\ cache' = [cache EXCEPT ![Operation'] = "unknown"]
    BY <1>3, PrepareStep
  <2>2. \A o \in Operations : cache[o] # "none" => cache'[o] # "none"
    BY <1>e, <2>1
  <2> DEFINE op == Operation'
  <2>3. call.tool \in Cached => \A i \in DOMAIN effects : effects[i] # op
    <3> SUFFICES ASSUME call.tool \in Cached, NEW i \in DOMAIN effects, effects[i] = op PROVE FALSE
      OBVIOUS
    <3>1. op[1] = call.tool
      BY <2>1 DEF Operation
    <3>2. cache[effects[i]] # "none"
      BY <3>1 DEF EffectInv
    <3> QED BY <2>1, <3>2
  <2>4. call'.tool \in Cached => ~Done(Operation)'
    BY <2>1, <2>3 DEF Done
  <2>5. \A i \in DOMAIN effects : effects[i][1] \in Cached => cache'[effects[i]] # "none"
    BY <1>c, <2>2 DEF EffectInv
  <2> HIDE DEF op
  <2> QED BY <1>b, <2>1, <2>4, <2>5 DEF EffectInv
<1>4. CASE Recheck /\ Granted
  <2>1. pc = "recheck" /\ pc' = "doing" /\ UNCHANGED <<call, seen, cache, effects>>
    BY <1>4 DEF Recheck, history
  <2>2. Done(Operation)' <=> Done(Operation)
    BY <2>1 DEF Done, Operation
  <2> QED BY <1>b, <2>1, <2>2 DEF EffectInv
<1>5. CASE Land
  <2> DEFINE n == Len(effects) + 1
  <2>1. /\ pc = "doing" /\ pc' = "landed" /\ UNCHANGED <<call, seen, cache>>
        /\ call.tool \in Writes \ Approval /\ call.raw \in Raws
        /\ Operation \in Operations /\ Operation[1] = call.tool
        /\ Len(effects) \in Nat /\ DOMAIN effects = 1 .. Len(effects) /\ DOMAIN effects' = 1 .. n
        /\ \A i \in DOMAIN effects : effects'[i] = effects[i]
        /\ effects'[n] = Operation
    BY <1>5, LandStep
  <2> HIDE DEF n
  <2>2. n \in DOMAIN effects' /\ \A i \in DOMAIN effects' : i = n \/ i \in DOMAIN effects
    BY <2>1 DEF n
  <2>3. Operation' = Operation
    BY <2>1 DEF Operation
  <2>4. seen[Key] = "unknown" /\ (call.tool \in Cached => cache[Operation] = "unknown")
    BY <2>1 DEF CallInv, Inside, Resolved
  <2>5. \A i \in DOMAIN effects' :
          /\ effects'[i][1] \in Writes \ Approval
          /\ \E raw \in Raws : seen'[<<effects'[i][1], raw>>] # "none"
          /\ effects'[i][1] \in Cached => cache'[effects'[i]] # "none"
    <3> SUFFICES ASSUME NEW i \in DOMAIN effects'
                 PROVE  /\ effects'[i][1] \in Writes \ Approval
                        /\ \E raw \in Raws : seen[<<effects'[i][1], raw>>] # "none"
                        /\ effects'[i][1] \in Cached => cache[effects'[i]] # "none"
      BY <2>1
    <3>1. CASE i = n
      BY <2>1, <2>4, <3>1 DEF Key
    <3>2. CASE i \in DOMAIN effects
      BY <2>1, <3>2 DEF EffectInv
    <3> QED BY <2>2, <3>1, <3>2
  <2>6. Done(Operation)'
    BY <2>1, <2>2, <2>3 DEF Done
  <2>7. EffectInv'
    BY <2>1, <2>5, <2>6 DEF EffectInv
  <2>8. call.tool \in Cached => \A i \in DOMAIN effects : effects[i] # Operation
    BY <2>1 DEF EffectInv, Done
  <2>9. OnceEach'
    <3> SUFFICES ASSUME NEW i \in DOMAIN effects', NEW j \in DOMAIN effects',
                        effects'[i] = effects'[j], effects'[i][1] \in Cached
                 PROVE  i = j
      BY DEF OnceEach
    <3>1. CASE i = n /\ j \in DOMAIN effects
      BY <2>1, <2>8, <3>1
    <3>2. CASE j = n /\ i \in DOMAIN effects
      BY <2>1, <2>8, <3>2
    <3>3. CASE i \in DOMAIN effects /\ j \in DOMAIN effects
      BY <2>1, <3>3 DEF OnceEach
    <3> QED BY <2>2, <3>1, <3>2, <3>3
  <2>10. UndoFirst'
    <3> SUFFICES ASSUME NEW i \in DOMAIN effects', effects'[i][1] = Undo PROVE i = 1
      BY DEF UndoFirst
    <3>1. CASE i = n
      <4>1. effects = <<>>
        BY <2>1, <3>1 DEF EffectInv
      <4>2. Len(effects) = 0
        BY <4>1
      <4> QED BY <3>1, <4>2 DEF n
    <3>2. CASE i \in DOMAIN effects
      BY <2>1, <3>2 DEF UndoFirst
    <3> QED BY <2>2, <3>1, <3>2
  <2> QED BY <2>7, <2>9, <2>10
<1>6. CASE \E status \in Statuses \ {"none"} : Answers(status)
  <2>1. PICK status \in Statuses \ {"none"} : Answers(status)
    BY <1>6
  <2>2. /\ pc' \in {"ask", "calls"} /\ UNCHANGED effects
        /\ \A k \in Keys : seen'[k] = IF call.tool \in Writes /\ k = Key THEN status ELSE seen[k]
        /\ \/ cache' = cache
           \/ Operation \in Operations /\ cache' = [cache EXCEPT ![Operation] = status]
    BY <2>1, AnswerStep
  <2>3. \A k \in Keys : seen[k] # "none" => seen'[k] # "none"
    BY <2>2
  <2>4. \A o \in Operations : cache[o] # "none" => cache'[o] # "none"
    BY <1>e, <2>2
  <2>5. \A i \in DOMAIN effects :
          /\ effects[i][1] \in Writes \ Approval
          /\ \E raw \in Raws : seen'[<<effects[i][1], raw>>] # "none"
          /\ effects[i][1] \in Cached => cache'[effects[i]] # "none"
    BY <1>c, <1>d, <2>3, <2>4 DEF EffectInv
  <2> QED BY <1>b, <2>2, <2>5 DEF EffectInv
<1>7. Executor => Prepare \/ (Recheck /\ Granted) \/ Land \/ \E status \in Statuses \ {"none"} : Answers(status)
  BY ExecutorSteps
<1> QED BY <1>a, <1>1, <1>2, <1>3, <1>4, <1>5, <1>6, <1>7

\* Where a step may lead once an operation was late.
LEMMA LatePlaces ==
  ASSUME TurnAssumption, TypeOK, CallInv, Next, ~Land
  PROVE  /\ UNCHANGED <<edits, grants, late>> \/ Edit \/ Regrant
         /\ executed /\ Edited /\ pc \in {"landed", "calls", "ask", "raised", "done"} =>
              pc' \in {"landed", "calls", "ask", "raised", "done"}
         /\ pc' = "doing" => pc = "doing" \/ Granted
         /\ executed => executed'
<1> DEFINE L == {"landed", "calls", "ask", "raised", "done"}
           Fine == /\ UNCHANGED <<edits, grants, late>> \/ Edit \/ Regrant
                   /\ executed /\ Edited /\ pc \in L => pc' \in L
                   /\ pc' = "doing" => pc = "doing" \/ Granted
                   /\ executed => executed'
<1> SUFFICES Fine
  OBVIOUS
<1>a. \A with : Ends(with) => Fine
  BY DEF Ends, env, history
<1>b. \A locals : Unexecuted(locals) => Fine
  <2> SUFFICES ASSUME NEW locals, Unexecuted(locals) PROVE Fine
    OBVIOUS
  <2>1. pc' \in {"ask", "calls"} /\ UNCHANGED <<executed, edits, grants, late>>
    BY DEF Unexecuted, After, env, history
  <2> QED BY <2>1
<1>1. CASE Start
  <2>1. CASE Edited
    BY <1>1, <1>a, <2>1 DEF Start
  <2>2. CASE ~Edited
    BY <1>1, <2>2 DEF Start, env, history
  <2> QED BY <2>1, <2>2
<1>2. CASE Retry
  <2>1. CASE executed \/ try = 2
    BY <1>2, <1>a, <2>1 DEF Retry
  <2>2. CASE ~(executed \/ try = 2)
    BY <1>2, <2>2 DEF Retry, env, history
  <2> QED BY <2>1, <2>2
<1>3. CASE Round
  <2>1. CASE Edited \/ turn.expired \/ turn.round = MaxRounds
    BY <1>3, <1>a, <2>1 DEF Round
  <2>2. CASE ~(Edited \/ turn.expired \/ turn.round = MaxRounds)
    BY <1>3, <2>2 DEF Round, env, history
  <2> QED BY <2>1, <2>2
<1>4. CASE Model
  <2>1. pc = "wait"
    BY <1>4 DEF Model, NoResponse, Malformed, Batch
  <2>2. CASE Ends(Incomplete)
    BY <1>a, <2>2
  <2>3. CASE ~Ends(Incomplete)
    <3>1. CASE NoResponse
      <4>1. UNCHANGED <<pc, try, call, seen, cache, executed, env, history, reply>>
        BY <2>3, <3>1 DEF NoResponse
      <4> QED BY <2>1, <4>1 DEF env, history
    <3>2. CASE Malformed
      <4>1. pc' = "ask"
        BY <2>3, <3>2 DEF Malformed
      <4>2. UNCHANGED <<try, call, seen, cache, executed, env, history, reply>>
        BY <2>3, <3>2 DEF Malformed
      <4> QED BY <2>1, <4>1, <4>2 DEF env, history
    <3>3. CASE Batch
      <4>1. PICK n \in 1 .. MaxActions + 1 :
              IF Edited \/ n > MaxActions THEN Ends(Incomplete)
              ELSE /\ pc' = "calls"
                   /\ turn' = [turn EXCEPT !.left = n, !.alone = (n = 1), !.available = turn.loaded]
                   /\ UNCHANGED <<try, call, seen, cache, executed, env, history, reply>>
        BY <3>3 DEF Batch
      <4>2. pc' = "calls" /\ UNCHANGED <<call, seen, cache, executed, env, history>>
        BY <2>3, <4>1
      <4> QED BY <2>1, <4>2 DEF env, history
    <3> QED BY <1>4, <3>1, <3>2, <3>3 DEF Model
  <2> QED BY <2>2, <2>3
<1>5. CASE Stop \/ FinishResponse \/ AskUser
  BY <1>5, <1>a DEF Stop, FinishResponse, AskUser
<1>6. CASE Discover \/ Unrecorded \/ Reject \/ Duplicate \/ RefuseUndo
  <2>1. \E locals : Unexecuted(locals)
    <3>1. CASE Discover
      BY <3>1 DEF Discover
    <3>2. CASE Unrecorded
      BY <3>2 DEF Unrecorded
    <3>3. CASE Reject
      BY <3>3 DEF Reject
    <3>4. CASE Duplicate
      BY <3>4 DEF Duplicate
    <3>5. CASE RefuseUndo
      BY <3>5 DEF RefuseUndo
    <3> QED BY <1>6, <3>1, <3>2, <3>3, <3>4, <3>5
  <2> QED BY <1>b, <2>1
<1>7. CASE Begin
  BY <1>7, BeginStep
<1>8. CASE Raise
  BY <1>8 DEF Raise, env, history
<1>9. CASE Executor
  <2>1. CASE Prepare
    BY <2>1, PrepareStep
  <2>2. CASE Recheck /\ Granted
    BY <2>2 DEF Recheck, env, history
  <2>3. CASE \E status \in Statuses \ {"none"} : Answers(status)
    BY <2>3, AnswerStep
  <2> QED BY <1>9, <2>1, <2>2, <2>3, ExecutorSteps
<1>10. CASE Timeout
  <2>1. CASE pc = "wait" /\ Ends(Incomplete)
    BY <1>a, <2>1
  <2>2. CASE Interrupt
    BY <1>9, <2>2 DEF Executor
  <2> QED BY <1>10, <2>1, <2>2 DEF Timeout
<1>11. CASE Expire \/ Edit \/ Regrant
  BY <1>11 DEF Expire, Edit, Regrant, env, history
<1> QED BY <1>1, <1>2, <1>3, <1>4, <1>5, <1>6, <1>7, <1>8, <1>9, <1>10, <1>11
           DEF Next, Handle, Handling

\* At most one late operation.
LEMMA LateKept ==
  ASSUME TurnAssumption, TypeOK, TypeOK', CallInv, LateInv, StopsWhenLost, Next
  PROVE  LateInv' /\ StopsWhenLost'
<1>a. late.edited \in Nat /\ late.revoked \in Nat /\ late'.edited \in Nat /\ late'.revoked \in Nat
  BY DEF TypeOK
<1>1. CASE Land
  <2>1. late' = [edited |-> IF Edited THEN late.edited + 1 ELSE 0,
                 revoked |-> IF Granted THEN 0 ELSE late.revoked + 1]
    BY <1>1 DEF Land
  <2>2. pc = "doing" /\ pc' = "landed" /\ executed /\ UNCHANGED <<edits, grants, executed>>
    BY <1>1 DEF Land, env, CallInv, Inside
  <2>3. late.edited = 0 /\ late.revoked = 0
    BY <1>a, <2>2 DEF LateInv
  <2>4. (Edited' <=> Edited) /\ (Granted' <=> Granted)
    BY <2>2 DEF Edited, Granted
  <2> QED BY <2>1, <2>2, <2>3, <2>4 DEF LateInv, StopsWhenLost
<1>2. CASE ~Land
  <2> DEFINE L == {"landed", "calls", "ask", "raised", "done"}
  <2>1. /\ UNCHANGED <<edits, grants, late>> \/ Edit \/ Regrant
        /\ executed /\ Edited /\ pc \in L => pc' \in L
        /\ pc' = "doing" => pc = "doing" \/ Granted
        /\ executed => executed'
    BY <1>2, LatePlaces
  <2>2. CASE UNCHANGED <<edits, grants, late>>
    <3>1. (Edited' <=> Edited) /\ (Granted' <=> Granted)
      BY <2>2 DEF Edited, Granted
    <3> QED BY <2>1, <2>2, <3>1 DEF LateInv, StopsWhenLost
  <2>3. CASE Edit
    <3>1. late'.edited = 0 /\ late'.revoked = late.revoked /\ grants' = grants /\ pc' = pc
      BY <2>3 DEF Edit, TypeOK
    <3>2. Granted' <=> Granted
      BY <3>1 DEF Granted
    <3> QED BY <3>1, <3>2 DEF LateInv, StopsWhenLost
  <2>4. CASE Regrant
    <3>1. late'.revoked = 0 /\ late'.edited = late.edited /\ UNCHANGED <<edits, pc, executed>>
      BY <2>4 DEF Regrant, TypeOK
    <3>2. Edited' <=> Edited
      BY <3>1 DEF Edited
    <3> QED BY <3>1, <3>2 DEF LateInv, StopsWhenLost
  <2> QED BY <2>1, <2>2, <2>3, <2>4
<1> QED BY <1>1, <1>2

\* What has taken effect stays so.
LEMMA DoneStays ==
  ASSUME TurnAssumption, TypeOK, CallInv, Next
  PROVE  \A o : Done(o) => Done(o)'
<1>1. CASE Land
  <2>1. /\ DOMAIN effects = 1 .. Len(effects) /\ DOMAIN effects' = 1 .. (Len(effects) + 1)
        /\ Len(effects) \in Nat /\ \A i \in DOMAIN effects : effects'[i] = effects[i]
    BY <1>1, LandStep
  <2>2. \A i \in DOMAIN effects : i \in DOMAIN effects' /\ effects'[i] = effects[i]
    BY <2>1
  <2> QED BY <2>2 DEF Done
<1>2. CASE UNCHANGED effects
  BY <1>2 DEF Done
<1>3. Idle \/ Begin \/ Executor
  BY Steps
<1>4. CASE Executor /\ ~Land
  <2>1. CASE Prepare
    BY <1>2, <2>1, PrepareStep
  <2>2. CASE Recheck /\ Granted
    BY <1>2, <2>2 DEF Recheck, history
  <2>3. CASE \E status \in Statuses \ {"none"} : Answers(status)
    BY <1>2, <2>3, AnswerStep
  <2> QED BY <1>4, <2>1, <2>2, <2>3, ExecutorSteps
<1> QED BY <1>1, <1>2, <1>3, <1>4, BeginStep DEF Idle

\* A success stands for an effect, and a failure is not forgotten.
LEMMA SuccessKept ==
  ASSUME TurnAssumption, TypeOK, TypeOK', CallInv, EffectInv, SuccessInv, Next
  PROVE  SuccessInv'
<1>a. Idle \/ Begin \/ Executor
  BY Steps
<1>b. \A o : Done(o) => Done(o)'
  BY DoneStays
<1>c. seen \in [Keys -> Statuses] /\ cache \in [Operations -> Statuses]
  BY DEF TypeOK
<1>d. \A o \in Operations : o[1] \in Writes /\ \A r \in Raws : <<o[1], r>> \in Keys
  BY DEF Operations, Keys
<1>e. "none" \notin Bad /\ "success" \notin Bad /\ "unknown" \in Bad
  BY DEF Bad
<1>1. CASE Idle
  <2>1. UNCHANGED <<call, seen, cache, effects>> /\ Operation' = Operation /\ Key' = Key
    BY <1>1 DEF Idle, Operation, Key
  <2>2. pc' = pc \/ pc' \notin Inside
    BY <1>1 DEF Idle
  <2>3. \A o : Done(o)' <=> Done(o)
    BY <2>1 DEF Done
  <2> QED BY <1>b, <2>1, <2>2 DEF SuccessInv
<1>2. CASE Begin
  <2>1. /\ call' \in [tool : Tools, raw : Raws, target : {NoTarget}]
        /\ pc' = "flight" /\ UNCHANGED <<cache, effects>>
        /\ call'.tool \notin Writes => seen' = seen
        /\ call'.tool \in Writes =>
             /\ seen[<<call'.tool, call'.raw>>] = "none"
             /\ seen' = [seen EXCEPT ![<<call'.tool, call'.raw>>] = "unknown"]
    BY <1>2, BeginStep
  <2> DEFINE key == <<call'.tool, call'.raw>>
  <2>2. Key' = key /\ pc' \notin Resolved
    BY <2>1 DEF Key, Resolved
  <2>3. \A k \in Keys : seen[k] # "none" => seen'[k] = seen[k] /\ k # key
    <3> SUFFICES ASSUME NEW k \in Keys, seen[k] # "none" PROVE seen'[k] = seen[k] /\ k # key
      OBVIOUS
    <3>1. CASE call'.tool \in Writes
      BY <1>c, <2>1, <3>1
    <3>2. CASE call'.tool \notin Writes
      BY <2>1, <3>2 DEF Keys
    <3> QED BY <3>1, <3>2
  <2> HIDE DEF key
  <2>4. \A o \in Operations :
          cache'[o] \in Bad => \E raw \in Raws : seen'[<<o[1], raw>>] \in Bad /\ Key' # <<o[1], raw>>
    <3> SUFFICES ASSUME NEW o \in Operations, cache[o] \in Bad
                 PROVE  \E raw \in Raws : seen'[<<o[1], raw>>] \in Bad /\ key # <<o[1], raw>>
      BY <2>1, <2>2
    <3>1. PICK raw \in Raws : seen[<<o[1], raw>>] \in Bad
      BY DEF SuccessInv
    <3>2. <<o[1], raw>> \in Keys /\ seen[<<o[1], raw>>] # "none"
      BY <1>d, <1>e, <3>1
    <3> QED BY <2>3, <3>1, <3>2
  <2>5. \A k \in Keys : seen'[k] = "success" => seen[k] = "success"
    BY <1>c, <2>1
  <2> QED BY <1>b, <2>1, <2>4, <2>5 DEF SuccessInv
<1>3. CASE Prepare
  <2> DEFINE op == Operation'
  <2>1. /\ pc = "flight" /\ pc' = "recheck" /\ UNCHANGED <<seen, effects>>
        /\ call'.tool = call.tool /\ call'.raw = call.raw
        /\ call.tool \in Writes \ Approval /\ call.raw \in Raws
        /\ op \in Operations
        /\ call.tool \notin Cached => cache' = cache
        /\ call.tool \in Cached => cache[op] = "none" /\ cache' = [cache EXCEPT ![op] = "unknown"]
    BY <1>3, PrepareStep
  <2>2. Key' = Key /\ op[1] = call.tool /\ pc \in Inside /\ pc \notin Resolved /\ pc' \in Resolved
    BY <2>1 DEF Key, Operation, Inside, Resolved
  <2>3. seen[Key] = "unknown"
    BY <2>1, <2>2 DEF CallInv
  <2> HIDE DEF op
  <2>4. \A o \in Operations : cache'[o] = cache[o] \/ (o = op /\ call.tool \in Cached /\ cache'[o] = "unknown")
    BY <1>c, <2>1
  <2>5. \A o \in Operations :
          cache'[o] \in Bad =>
            \E raw \in Raws : /\ seen[<<o[1], raw>>] \in Bad
                              /\ ~(o = op) => Key # <<o[1], raw>>
    <3> SUFFICES ASSUME NEW o \in Operations, cache'[o] \in Bad
                 PROVE  \E raw \in Raws : /\ seen[<<o[1], raw>>] \in Bad
                                          /\ ~(o = op) => Key # <<o[1], raw>>
      OBVIOUS
    <3>1. CASE o = op
      BY <1>e, <2>1, <2>2, <2>3, <3>1 DEF Key
    <3>2. CASE o # op
      BY <2>2, <2>4, <3>2 DEF SuccessInv
    <3> QED BY <3>1, <3>2
  <2>6. \A o \in Operations :
          cache'[o] \in Bad =>
            \E raw \in Raws : /\ seen'[<<o[1], raw>>] \in Bad
                              /\ pc' \in Inside /\ ~(pc' \in Resolved /\ o = Operation') =>
                                   Key' # <<o[1], raw>>
    BY <2>1, <2>2, <2>5 DEF op
  <2>7. \A o \in Operations : cache'[o] # "none" => o[1] \in Cached
    BY <2>2, <2>4 DEF SuccessInv
  <2>8. \A o \in Operations : cache'[o] = "success" => cache[o] = "success"
    BY <2>4
  <2> QED BY <1>b, <2>1, <2>6, <2>7, <2>8 DEF SuccessInv
<1>4. CASE (Recheck /\ Granted) \/ Land
  <2>1. pc \in Resolved /\ pc' \in Resolved /\ pc \in Inside /\ UNCHANGED <<call, seen, cache>>
    <3>1. CASE Recheck /\ Granted
      BY <3>1 DEF Recheck, Resolved, Inside
    <3>2. CASE Land
      BY <3>2 DEF Land, Resolved, Inside
    <3> QED BY <1>4, <3>1, <3>2
  <2>2. Operation' = Operation /\ Key' = Key
    BY <2>1 DEF Operation, Key
  <2> QED BY <1>b, <2>1, <2>2 DEF SuccessInv
<1>5. CASE \E status \in Statuses \ {"none"} : Answers(status)
  <2>1. PICK status \in Statuses \ {"none"} : Answers(status)
    BY <1>5
  <2>2. /\ pc' \in {"ask", "calls"} /\ UNCHANGED effects
        /\ pc \in Inside /\ (pc \in Resolved /\ cache' = cache => status \in Bad \/ call.tool \notin Cached)
        /\ status = "success" /\ call.tool \in Writes =>
              \/ call.tool \in Unread
              \/ pc = "landed"
              \/ \E x \in Targets : call.tool \in Cached /\ cache[<<call.tool, x>>] = "success"
        /\ call.tool \in Tools /\ call.raw \in Raws
        /\ \A k \in Keys : seen'[k] = IF call.tool \in Writes /\ k = Key THEN status ELSE seen[k]
        /\ \/ cache' = cache
           \/ /\ call.tool \in Cached /\ pc \in Resolved /\ Operation \in Operations
              /\ cache' = [cache EXCEPT ![Operation] = status]
              /\ status = "success" => call.tool \in Unread \/ pc = "landed"
    BY <2>1, AnswerStep
  <2>3. pc' \notin Inside
    BY <2>2 DEF Inside
  <2>4. status = "success" \/ status \in Bad
    BY <2>1 DEF Statuses, Bad
  <2>5. \A o \in Operations :
          \/ cache'[o] = cache[o]
          \/ /\ o = Operation /\ call.tool \in Cached /\ pc \in Resolved /\ cache'[o] = status
             /\ status = "success" => call.tool \in Unread \/ pc = "landed"
    BY <1>c, <2>2
  <2>6. Operation[1] = call.tool /\ Key = <<call.tool, call.raw>>
    BY DEF Operation, Key
  <2>7. \A o \in Operations : cache'[o] # "none" => o[1] \in Cached
    BY <2>5, <2>6 DEF SuccessInv
  <2>8. \A o \in Operations : cache'[o] = "success" /\ o[1] \notin Unread => Done(o)
    <3> SUFFICES ASSUME NEW o \in Operations, cache'[o] = "success", o[1] \notin Unread PROVE Done(o)
      OBVIOUS
    <3>1. CASE cache'[o] = cache[o]
      BY <3>1 DEF SuccessInv
    <3>2. CASE o = Operation /\ pc = "landed"
      BY <3>2 DEF EffectInv
    <3> QED BY <2>5, <2>6, <3>1, <3>2
  <2>9. \A o \in Operations : cache'[o] \in Bad => \E raw \in Raws : seen'[<<o[1], raw>>] \in Bad
    <3> SUFFICES ASSUME NEW o \in Operations, cache'[o] \in Bad
                 PROVE  \E raw \in Raws : seen'[<<o[1], raw>>] \in Bad
      OBVIOUS
    <3>1. CASE status \in Bad /\ o[1] = call.tool
      <4>1. call.tool \in Writes /\ Key \in Keys
        BY <1>d, <2>2, <2>6, <3>1
      <4> QED BY <2>2, <2>6, <3>1, <4>1
    <3>2. CASE ~(status \in Bad /\ o[1] = call.tool)
      <4>1. cache[o] \in Bad
        BY <2>5, <2>6, <3>2
      <4>2. ~(pc \in Resolved /\ o = Operation)
        <5>1. CASE cache' = cache
          <6>1. o[1] \in Cached
            BY <2>7, <1>e
          <6> QED BY <2>2, <2>6, <3>2, <5>1, <6>1
        <5>2. CASE cache' = [cache EXCEPT ![Operation] = status] /\ Operation \in Operations
          <6>1. o = Operation => cache'[o] = status
            BY <1>c, <5>2
          <6> QED BY <2>6, <3>2, <6>1
        <5> QED BY <2>2, <5>1, <5>2
      <4>3. PICK raw \in Raws : seen[<<o[1], raw>>] \in Bad /\ Key # <<o[1], raw>>
        BY <2>2, <4>1, <4>2 DEF SuccessInv
      <4>4. seen'[<<o[1], raw>>] = seen[<<o[1], raw>>]
        BY <1>d, <2>2, <4>3
      <4> QED BY <4>3, <4>4
    <3> QED BY <3>1, <3>2
  <2>10. \A k \in Keys :
           seen'[k] = "success" /\ k[1] \notin Unread => \E x \in Targets : Done(<<k[1], x>>)
    <3> SUFFICES ASSUME NEW k \in Keys, seen'[k] = "success", k[1] \notin Unread
                 PROVE  \E x \in Targets : Done(<<k[1], x>>)
      OBVIOUS
    <3>1. CASE seen[k] = "success"
      BY <3>1 DEF SuccessInv
    <3>2. CASE seen[k] # "success"
      <4>1. call.tool \in Writes /\ k = Key /\ status = "success"
        BY <2>2, <3>2
      <4>2. k[1] = call.tool
        BY <2>6, <4>1
      <4>3. CASE pc = "landed"
        <5>1. Done(Operation) /\ call.target \in Targets
          BY <4>3 DEF EffectInv, CallInv, Resolved
        <5> QED BY <4>2, <5>1 DEF Operation
      <4>4. CASE \E x \in Targets : cache[<<call.tool, x>>] = "success"
        <5>1. PICK x \in Targets : cache[<<call.tool, x>>] = "success"
          BY <4>4
        <5>2. <<call.tool, x>> \in Operations
          BY <4>1, <5>1 DEF Operations
        <5>3. Done(<<call.tool, x>>)
          BY <4>2, <5>1, <5>2 DEF SuccessInv
        <5> QED BY <4>2, <5>3
      <4> QED BY <2>2, <4>1, <4>2, <4>3, <4>4
    <3> QED BY <3>1, <3>2
  <2> QED BY <1>b, <2>3, <2>7, <2>8, <2>9, <2>10 DEF SuccessInv
<1>6. Executor => Prepare \/ (Recheck /\ Granted) \/ Land \/ \E status \in Statuses \ {"none"} : Answers(status)
  BY ExecutorSteps
<1> QED BY <1>a, <1>1, <1>2, <1>3, <1>4, <1>5, <1>6

\* When every receipt says success, what was begun was carried out.
LEMMA AllCarriedOut ==
  ASSUME TurnAssumption, TypeOK, SuccessInv, Receipts = {"success"}
  PROVE  CarriedOut(Writes \ Unread)
<1>1. \A k \in Keys : seen[k] \in {"none", "success"}
  BY DEF Receipts
<1>2. cache \in [Operations -> Statuses]
  BY DEF TypeOK
<1>3. ASSUME NEW o \in Operations, o[1] \in Writes \ Unread, cache[o] # "none" PROVE Done(o)
  <2>1. CASE cache[o] \in Bad
    <3>1. PICK raw \in Raws : seen[<<o[1], raw>>] \in Bad
      BY <2>1 DEF SuccessInv
    <3>2. <<o[1], raw>> \in Keys
      BY DEF Operations, Keys
    <3> QED BY <1>1, <3>1, <3>2 DEF Bad
  <2>2. CASE cache[o] = "success"
    BY <1>3, <2>2 DEF SuccessInv
  <2> QED BY <1>2, <1>3, <2>1, <2>2 DEF Statuses, Bad
<1>4. ASSUME NEW k \in Keys, k[1] \in Writes \ Unread, seen[k] # "none"
      PROVE  \E x \in Targets : Done(<<k[1], x>>)
  BY <1>1, <1>4 DEF SuccessInv
<1> QED BY <1>3, <1>4 DEF CarriedOut

\* A request that ends without a claim, or with one that is true.
LEMMA EndsTruly ==
  ASSUME TypeOK, TypeOK', NEW with, Ends(with),
         with \in {"answered", "question", "unchanged"} => effects = <<>>,
         with = "completed" => CarriedOut(Writes \ Unread)
  PROVE  RepliesTrue' /\ (reply' # "none" => pc' = "done")
<1>1. reply' = with /\ pc' = "done" /\ UNCHANGED <<effects, cache, seen>>
  BY DEF Ends, history
<1>2. CarriedOut(Writes \ Unread)' <=> CarriedOut(Writes \ Unread)
  BY <1>1 DEF CarriedOut, Done
<1> QED BY <1>1, <1>2 DEF RepliesTrue

\* The user is told the truth.
LEMMA RepliesKept ==
  ASSUME TurnAssumption, TypeOK, TypeOK', CallInv, EffectInv, SuccessInv, Next
  PROVE  RepliesTrue' /\ (reply' # "none" => pc' = "done")
<1> DEFINE Fine == RepliesTrue' /\ (reply' # "none" => pc' = "done")
<1> SUFFICES Fine
  OBVIOUS
<1>a. pc # "done" => reply = "none"
  BY DEF CallInv
<1>b. ASSUME reply' = "none" PROVE Fine
  BY <1>b DEF RepliesTrue
<1>c. Receipts = {} => effects = <<>>
  BY NoReceipts
<1>d. Ends(Incomplete) => Fine
  <2> SUFFICES ASSUME Ends(Incomplete) PROVE Fine
    OBVIOUS
  <2>1. Incomplete \in {"listed", "unchanged"} /\ (Incomplete = "unchanged" => Receipts = {})
    BY DEF Incomplete
  <2>2. Incomplete \in {"answered", "question", "unchanged"} => effects = <<>>
    BY <1>c, <2>1
  <2>3. Incomplete = "completed" => CarriedOut(Writes \ Unread)
    BY <2>1
  <2> QED BY <2>2, <2>3, EndsTruly
<1>e. \A locals : Unexecuted(locals) /\ pc = "calls" => reply' = "none"
  <2> SUFFICES ASSUME NEW locals, Unexecuted(locals), pc = "calls" PROVE reply' = "none"
    OBVIOUS
  <2>1. reply' = reply
    BY DEF Unexecuted, After
  <2> QED BY <1>a, <2>1
<1>1. CASE Start
  <2>1. CASE Edited
    <3>1. Ends("unchanged") /\ effects = <<>>
      BY <1>1, <2>1 DEF Start, CallInv
    <3> QED BY <3>1, EndsTruly
  <2>2. CASE ~Edited
    BY <1>1, <1>a, <1>b, <2>2 DEF Start
  <2> QED BY <2>1, <2>2
<1>2. CASE Retry
  <2>1. CASE executed
    <3>1. Ends("silent")
      BY <1>2, <2>1 DEF Retry
    <3> QED BY <3>1, EndsTruly
  <2>2. CASE ~executed /\ try = 2
    <3>1. Ends("none")
      BY <1>2, <2>2 DEF Retry
    <3> QED BY <3>1, EndsTruly
  <2>3. CASE ~(executed \/ try = 2)
    BY <1>2, <1>a, <1>b, <2>3 DEF Retry
  <2> QED BY <2>1, <2>2, <2>3
<1>3. CASE Round
  <2>1. CASE Edited \/ turn.expired \/ turn.round = MaxRounds
    BY <1>3, <1>d, <2>1 DEF Round
  <2>2. CASE ~(Edited \/ turn.expired \/ turn.round = MaxRounds)
    BY <1>3, <1>a, <1>b, <2>2 DEF Round
  <2> QED BY <2>1, <2>2
<1>4. CASE Model
  <2>1. pc = "wait"
    BY <1>4 DEF Model, NoResponse, Malformed, Batch
  <2>2. Ends(Incomplete) \/ reply' = reply
    <3>1. CASE NoResponse
      BY <3>1 DEF NoResponse
    <3>2. CASE Malformed
      BY <3>2 DEF Malformed
    <3>3. CASE Batch
      <4>1. PICK n \in 1 .. MaxActions + 1 :
              IF Edited \/ n > MaxActions THEN Ends(Incomplete)
              ELSE /\ pc' = "calls"
                   /\ turn' = [turn EXCEPT !.left = n, !.alone = (n = 1), !.available = turn.loaded]
                   /\ UNCHANGED <<try, call, seen, cache, executed, env, history, reply>>
        BY <3>3 DEF Batch
      <4> QED BY <4>1
    <3> QED BY <1>4, <3>1, <3>2, <3>3 DEF Model
  <2> QED BY <1>a, <1>b, <1>d, <2>1, <2>2
<1>5. CASE Stop
  BY <1>5, <1>d DEF Stop
<1>6. CASE FinishResponse
  <2>1. PICK outcome \in {"answered", "completed", "partial", "blocked"} :
          Admissible(outcome) /\ Ends(outcome)
    BY <1>6 DEF FinishResponse
  <2>2. outcome = "answered" => effects = <<>>
    BY <1>c, <2>1 DEF Admissible
  <2>3. outcome = "completed" => CarriedOut(Writes \ Unread)
    BY <2>1, AllCarriedOut DEF Admissible
  <2>4. outcome \in {"answered", "question", "unchanged"} => effects = <<>>
    BY <2>1, <2>2
  <2> QED BY <2>1, <2>3, <2>4, EndsTruly
<1>7. CASE AskUser
  <2>1. CASE Receipts = {}
    <3>1. Ends("question") /\ effects = <<>>
      BY <1>7, <1>c, <2>1 DEF AskUser
    <3> QED BY <3>1, EndsTruly
  <2>2. CASE Receipts # {}
    <3>1. Ends("listed")
      BY <1>7, <2>2 DEF AskUser
    <3> QED BY <3>1, EndsTruly
  <2> QED BY <2>1, <2>2
<1>8. CASE Discover \/ Unrecorded \/ Reject \/ Duplicate \/ RefuseUndo
  <2>1. \E locals : Unexecuted(locals) /\ pc = "calls"
    <3>1. CASE Discover
      BY <3>1 DEF Discover, Calling
    <3>2. CASE Unrecorded
      BY <3>2 DEF Unrecorded, Calling
    <3>3. CASE Reject
      BY <3>3 DEF Reject, Calling
    <3>4. CASE Duplicate
      BY <3>4 DEF Duplicate, Allowed, Calling
    <3>5. CASE RefuseUndo
      BY <3>5 DEF RefuseUndo, Allowed, Calling
    <3> QED BY <1>8, <3>1, <3>2, <3>3, <3>4, <3>5
  <2> QED BY <1>b, <1>e, <2>1
<1>9. CASE Begin
  BY <1>9, <1>a, <1>b, BeginStep
<1>10. CASE Raise
  BY <1>10, <1>a, <1>b DEF Raise
<1>11. CASE Executor
  <2>1. reply' = reply /\ pc # "done"
    <3>1. CASE Prepare
      BY <3>1, PrepareStep
    <3>2. CASE Recheck /\ Granted
      BY <3>2 DEF Recheck
    <3>3. CASE Land
      BY <3>3, LandStep
    <3>4. CASE \E status \in Statuses \ {"none"} : Answers(status)
      BY <3>4, AnswerStep DEF Inside
    <3> QED BY <1>11, <3>1, <3>2, <3>3, <3>4, ExecutorSteps
  <2> QED BY <1>a, <1>b, <2>1
<1>12. CASE Timeout
  <2>1. CASE pc = "wait" /\ Ends(Incomplete)
    BY <1>d, <2>1
  <2>2. CASE Interrupt
    BY <1>11, <2>2 DEF Executor
  <2> QED BY <1>12, <2>1, <2>2 DEF Timeout
<1>13. CASE Expire \/ Edit \/ Regrant
  BY <1>13, <1>a, <1>b DEF Expire, Edit, Regrant
<1> QED BY <1>1, <1>2, <1>3, <1>4, <1>5, <1>6, <1>7, <1>8, <1>9, <1>10, <1>11, <1>12, <1>13
           DEF Next, Handle, Handling

-----------------------------------------------------------------------------
(* The theorems.                                                            *)

\* The invariant holds at first.
LEMMA InitTurn == Init => TurnInv
<1> USE TurnAssumption
<1> SUFFICES ASSUME Init PROVE TurnInv
  OBVIOUS
<1>1. TypeOK
  BY InitTypes
<1>2. pc = "start" /\ ~executed /\ effects = <<>> /\ seen = Nothing /\ cache = Uncached
      /\ reply = "none" /\ late.edited = 0 /\ late.revoked = 0
  BY DEF Init
<1>3. DOMAIN effects = {}
  <2>1. Len(effects) = 0 /\ effects \in Seq(Operations)
    BY <1>1, <1>2 DEF TypeOK
  <2> QED BY <2>1, LenProperties
<1>4. CallInv
  BY <1>2 DEF CallInv, Inside, Resolved
<1>5. EffectInv /\ OnceEach /\ UndoFirst
  BY <1>2, <1>3 DEF EffectInv, OnceEach, UndoFirst
<1>6. LateInv /\ StopsWhenLost
  BY <1>2 DEF LateInv, StopsWhenLost
<1>7. (\A o \in Operations : cache[o] = "none") /\ \A k \in Keys : seen[k] = "none"
  BY <1>2 DEF Nothing, Uncached
<1>8. SuccessInv
  BY <1>7 DEF SuccessInv, Bad
<1>9. RepliesTrue
  BY <1>2 DEF RepliesTrue
<1> QED BY <1>1, <1>4, <1>5, <1>6, <1>8, <1>9 DEF TurnInv

\* Every step keeps it.
LEMMA TurnStep == TurnInv /\ [Next]_vars => TurnInv'
<1> SUFFICES ASSUME TurnInv, [Next]_vars PROVE TurnInv'
  OBVIOUS
<1> USE TurnAssumption
<1>a. /\ TypeOK /\ CallInv /\ EffectInv /\ OnceEach /\ UndoFirst
      /\ LateInv /\ StopsWhenLost /\ SuccessInv /\ RepliesTrue
  BY DEF TurnInv
<1>1. CASE Next
  <2>1. TypeOK'
    BY <1>1, <1>a, TypesKept
  <2>2. RepliesTrue' /\ (reply' # "none" => pc' = "done")
    BY <1>1, <1>a, <2>1, RepliesKept
  <2>3. CallInv'
    BY <1>1, <1>a, <2>1, <2>2, CallKept
  <2>4. EffectInv' /\ OnceEach' /\ UndoFirst'
    BY <1>1, <1>a, <2>1, EffectKept
  <2>5. LateInv' /\ StopsWhenLost'
    BY <1>1, <1>a, <2>1, LateKept
  <2>6. SuccessInv'
    BY <1>1, <1>a, <2>1, SuccessKept
  <2> QED BY <2>1, <2>2, <2>3, <2>4, <2>5, <2>6 DEF TurnInv
<1>2. CASE UNCHANGED vars
  <2>1. UNCHANGED <<pc, try, turn, call, seen, cache, executed, edits, grants, effects, late, reply>>
    BY <1>2 DEF vars
  <2>2. TypeOK'
    BY <1>a, <2>1 DEF TypeOK
  <2>3. CallInv'
    BY <1>a, <2>1 DEF CallInv, Operation, Key
  <2>4. EffectInv' /\ OnceEach' /\ UndoFirst'
    BY <1>a, <2>1 DEF EffectInv, OnceEach, UndoFirst, Done, Operation
  <2>5. LateInv' /\ StopsWhenLost'
    BY <1>a, <2>1 DEF LateInv, StopsWhenLost, Edited, Granted
  <2>6. SuccessInv'
    BY <1>a, <2>1 DEF SuccessInv, Done, Operation, Key
  <2>7. RepliesTrue'
    BY <1>a, <2>1 DEF RepliesTrue, CarriedOut, Done
  <2> QED BY <2>2, <2>3, <2>4, <2>5, <2>6, <2>7 DEF TurnInv
<1> QED BY <1>1, <1>2

\* The invariant of a request, whatever the model answers and for any tools, names,
\* limits, edits and changes of the grant.
THEOREM TurnSafe == Spec => []TurnInv
<1>1. Init => TurnInv
  BY InitTurn
<1>2. TurnInv /\ [Next]_vars => TurnInv'
  BY TurnStep
<1> QED BY <1>1, <1>2, PTL DEF Spec

\* What a request changes, it changes once, an undo it asked for comes first, and at
\* most the operation under way takes effect once the message was edited or the grant
\* revoked (pos_ai.py:3971-3991, agent_runtime.py:181-182, 227-228).
THEOREM EffectsAreSound == Spec => []EffectsSound
<1>1. TurnInv => EffectsSound
  BY DEF TurnInv, EffectsSound
<1> QED BY <1>1, TurnSafe, PTL

\* Nothing is said to be unchanged or completed that is not (agent_runtime.py:54-84).
THEOREM RepliesAreTrue == Spec => []RepliesTrue
<1>1. TurnInv => RepliesTrue
  BY DEF TurnInv
<1> QED BY <1>1, TurnSafe, PTL

-----------------------------------------------------------------------------
(* The pool of model providers.                                            *)

\* The types.
PoolTypes ==
  /\ clock \in 0..MaxClock /\ cursor \in Routes /\ paused \in Nat
  /\ cooling \in [Routes -> Nat] /\ transient \in [Routes -> Nat] /\ resting \in [Routes -> Nat]
  /\ stage \in [Requests -> {"idle", "queued"} \cup Posts]
  /\ tried \in [Requests -> SUBSET Routes] /\ route \in [Requests -> 0..RouteCount]
  /\ pictures \subseteq Requests
  /\ pin \in [Turns -> 0..RouteCount] /\ retryAt \in [Turns -> Nat] /\ signer \in [Turns -> 0..RouteCount]
  /\ ending \in [Requests -> {"none", "queue", "refused", "answered", "cancelled"}]
  /\ disturbed \subseteq Turns /\ asks \in [Requests -> Nat]

\* Who is in flight, on which route, and how far a hint reaches.
FlightInv ==
  /\ \A p \in Routes : transient[p] <= cooling[p]
  /\ Cardinality(InFlight) <= SlotLimit
  /\ \A r \in InFlight : route[r] \in tried[r]
  /\ \A c \in Chats : c \notin InFlight => route[c] = 0
  /\ \A t \in Turns : retryAt[t] <= clock + HintLimit

\* A turn's pin is a route that can read what its signer wrote, and so is the route it
\* asks; it tries no route it may not use.
SignedInv(t) ==
  /\ signer[t] = 0 <=> pin[t] = 0
  /\ pin[t] # 0 => pin[t] \in Compatible(signer[t])
  /\ t \in InFlight /\ signer[t] # 0 => route[t] \in Compatible(signer[t])
  /\ stage[t] # "idle" => tried[t] \subseteq Eligible(t)

\* One of some routes is back when the hint comes due, and the pool soon after.
Kept(routes, t) == \E p \in routes : cooling[p] <= retryAt[t] /\ paused < retryAt[t] + Second
\* A refusal leaves no hint.  An undisturbed turn's hint is kept by a route it may use: while
\* the completion goes on, by one that has been asked before the present one, since only the
\* present one it can still put into cool-down itself.
HintInv(t) ==
  /\ stage[t] = "idle" /\ ending[t] = "refused" => retryAt[t] = 0
  /\ retryAt[t] # 0 /\ t \notin disturbed =>
       /\ stage[t] = "idle" /\ ending[t] = "none" => Kept(Eligible(t), t)
       /\ stage[t] # "idle" => Kept(tried[t] \ {route[t]}, t)
  /\ t \in InFlight /\ t \notin disturbed => cooling[route[t]] <= clock

\* The inductive invariant.
PoolInv ==
  /\ PoolTypes /\ FlightInv /\ PauseOnlyWhenAllCool
  /\ \A t \in Turns : SignedInv(t) /\ HintInv(t)

\* The earliest of some times is one of them, and none is earlier.
LEMMA LeastIs ==
  ASSUME NEW times \in SUBSET Nat, times # {}
  PROVE  Least(times) \in times /\ \A s \in times : Least(times) <= s
<1>1. \E t \in times : \A s \in times : t <= s
  BY NatLeast
<1> QED BY <1>1 DEF Least

\* The hint a turn is left with is the one it had, or one of those it is now given.
LEMMA NotedIs ==
  ASSUME PoolTypes, FlightInv, NEW t \in Turns, NEW delays \in SUBSET Int
  PROVE  /\ Noted(t, delays) \in Nat /\ Noted(t, delays) <= clock + HintLimit
         /\ Noted(t, delays) # 0 =>
              \/ Noted(t, delays) = retryAt[t]
              \/ \E d \in delays : 0 <= d /\ d <= HintLimit /\ Noted(t, delays) = clock + d
<1>1. clock \in Nat /\ HintLimit \in Nat /\ retryAt[t] \in Nat /\ retryAt[t] <= clock + HintLimit
  BY PoolAssumption DEF PoolTypes, FlightInv
<1> DEFINE Now == {clock + d : d \in {x \in delays : 0 <= x /\ x <= HintLimit}}
           Old == IF retryAt[t] = 0 THEN {} ELSE {retryAt[t]}
           times == Now \cup Old
<1>2. \A s \in times :
        /\ s \in Nat /\ s <= clock + HintLimit
        /\ s = retryAt[t] \/ \E d \in delays : 0 <= d /\ d <= HintLimit /\ s = clock + d
  BY <1>1
<1>3. Noted(t, delays) = IF times = {} THEN 0 ELSE Least(times)
  BY DEF Noted
<1>4. CASE times = {}
  BY <1>1, <1>3, <1>4
<1>5. CASE times # {}
  <2>1. times \in SUBSET Nat
    BY <1>2
  <2> HIDE DEF times
  <2>2. Least(times) \in times
    BY <1>5, <2>1, LeastIs
  <2> QED BY <1>2, <1>3, <1>5, <2>2
<1> QED BY <1>4, <1>5

\* A pause that is set or prolonged ends no later than a second after any route is back.
LEMMA PauseIs ==
  ASSUME PoolTypes, NEW delay \in Nat, cooling' \in [Routes -> Nat], Pause(delay)
  PROVE  paused' \in Nat /\ (paused' = paused \/ \A p \in Routes : paused' < cooling'[p] + Second)
<1>1. clock \in Nat /\ paused \in Nat /\ Second \in Nat \ {0}
  BY PoolAssumption DEF PoolTypes
<1> DEFINE rest == {cooling'[p] - clock : p \in Routes}
<1>2. paused' = IF \A d \in rest : d > 0
                THEN Greater(paused, clock + Greater(Second, Lesser(delay, Least(rest))))
                ELSE paused
  BY DEF Pause
<1>3. ASSUME \A d \in rest : d > 0, paused' # paused
      PROVE  paused' \in Nat /\ \A p \in Routes : paused' < cooling'[p] + Second
  <2>1. rest \in SUBSET Nat
    BY <1>1, <1>3
  <2>2. rest # {}
    <3>1. 1 \in Routes
      BY PoolAssumption DEF Routes
    <3> QED BY <3>1
  <2>3. \A p \in Routes : cooling'[p] - clock \in rest
    OBVIOUS
  <2> HIDE DEF rest
  <2>4. Least(rest) \in rest /\ \A s \in rest : Least(rest) <= s
    BY <2>1, <2>2, LeastIs
  <2>5. Least(rest) \in Nat
    BY <2>1, <2>4
  <2> DEFINE least == Least(rest)
  <2>6. least \in Nat /\ \A p \in Routes : least <= cooling'[p] - clock /\ cooling'[p] - clock > 0
    BY <1>3, <2>3, <2>4, <2>5
  <2>7. paused' = Greater(paused, clock + Greater(Second, Lesser(delay, least)))
    BY <1>2, <1>3
  <2> HIDE DEF least
  <2>8. paused' = clock + Greater(Second, Lesser(delay, least))
    BY <1>3, <2>7 DEF Greater
  <2>9. Lesser(delay, least) \in Nat /\ Lesser(delay, least) <= least
    BY <2>6 DEF Lesser
  <2>10. paused' \in Nat
    BY <1>1, <2>8, <2>9 DEF Greater
  <2>11. ASSUME NEW p \in Routes PROVE paused' < cooling'[p] + Second
    <3>1. cooling'[p] \in Nat
      OBVIOUS
    <3>2. least <= cooling'[p] - clock /\ cooling'[p] - clock > 0
      BY <2>6
    <3> QED BY <1>1, <2>6, <2>8, <2>9, <3>1, <3>2 DEF Greater
  <2> QED BY <2>10, <2>11
<1> HIDE DEF rest
<1>4. CASE paused' = paused
  BY <1>1, <1>4
<1>5. CASE paused' # paused
  BY <1>2, <1>3, <1>5
<1> QED BY <1>4, <1>5

\* Routes that can read a transcript of one another read the same ones.
LEMMA CompatibleIs ==
  ASSUME NEW p \in Routes
  PROVE  /\ p \in Compatible(p) /\ Compatible(p) \subseteq Routes
         /\ \A q \in Compatible(p) : Compatible(q) = Compatible(p)
BY PoolAssumption DEF Compatible

\* A route is reserved that has not been asked for this completion, does not cool down
\* and may be used.
LEMMA ChoiceFits ==
  ASSUME PoolTypes, NEW r \in Requests, NEW p \in Choice(r)
  PROVE  /\ p \in Routes /\ p \notin tried[r] /\ cooling[p] <= clock
         /\ Pinned(r) => p \in Compatible(pin[r])
         /\ r \in Chats /\ (r \in pictures => p \in Gemini) => p \in Eligible(r)
<1>1. Gemini \subseteq Routes
  BY PoolAssumption
<1>2. \A routes : InTurn(routes) \subseteq routes /\ Preferred(routes) \subseteq routes
  BY DEF InTurn, Preferred
<1>3. CASE Pinned(r)
  <2>1. p \in Pick(r)
    BY <1>3 DEF Choice
  <2>2. p \in Free(r) \cap Compatible(pin[r])
    BY <1>2, <2>1 DEF Pick
  <2> QED BY <1>3, <2>2 DEF Free, Eligible
<1>4. CASE ~Pinned(r) /\ r \in Chats \ pictures
  <2>1. p \in Preferred(Free(r))
    BY <1>4 DEF Choice
  <2>2. p \in Free(r)
    BY <1>2, <2>1
  <2>3. Eligible(r) = Routes
    BY <1>4 DEF Eligible
  <2> QED BY <1>4, <2>2, <2>3 DEF Free
<1>5. CASE ~Pinned(r) /\ r \notin Chats \ pictures
  <2>1. p \in Free(r) \cap Gemini
    <3>1. CASE r \in Searches \ Chats
      <4>1. p \in InTurn({q \in Free(r) \cap Gemini : resting[q] <= clock})
        BY <1>5, <3>1 DEF Choice
      <4>2. p \in {q \in Free(r) \cap Gemini : resting[q] <= clock}
        BY <1>2, <4>1
      <4> QED BY <4>2
    <3>2. CASE r \notin Searches \ Chats
      <4>1. p \in InTurn(Free(r) \cap Gemini)
        BY <1>5, <3>2 DEF Choice
      <4> QED BY <1>2, <4>1
    <3> QED BY <3>1, <3>2
  <2>2. Eligible(r) = Gemini
    BY <1>5 DEF Eligible
  <2> QED BY <1>5, <2>1, <2>2 DEF Free
<1> QED BY <1>3, <1>4, <1>5

\* Requests that leave their slots leave as few of them in use.
LEMMA Fewer ==
  ASSUME Cardinality(InFlight) <= SlotLimit, InFlight' \subseteq InFlight
  PROVE  Cardinality(InFlight') <= SlotLimit
<1>1. IsFiniteSet(InFlight)
  BY PoolAssumption, FS_Subset DEF InFlight
<1>2. IsFiniteSet(InFlight') /\ Cardinality(InFlight') <= Cardinality(InFlight)
  BY <1>1, FS_Subset
<1>3. Cardinality(InFlight) \in Nat /\ Cardinality(InFlight') \in Nat
  BY <1>1, <1>2, FS_CardinalityType
<1> QED BY <1>2, <1>3, PoolAssumption

\* A pause no longer than a second after any route is back keeps the promise about pauses.
LEMMA PausesKept ==
  ASSUME PoolTypes, PoolTypes', PauseOnlyWhenAllCool, clock' >= clock,
         \A p \in Routes : cooling'[p] >= cooling[p],
         paused' = paused \/ \A p \in Routes : paused' < cooling'[p] + Second
  PROVE  PauseOnlyWhenAllCool'
<1>1. clock \in Nat /\ clock' \in Nat /\ paused \in Nat /\ paused' \in Nat /\ Second \in Nat
  BY PoolAssumption DEF PoolTypes
<1>2. ASSUME NEW p \in Routes PROVE cooling[p] \in Nat /\ cooling'[p] \in Nat
  BY DEF PoolTypes
<1>3. ASSUME NEW p \in Routes, paused' > clock' PROVE paused' < cooling'[p] + Second
  <2>1. CASE paused' = paused
    <3>1. paused < cooling[p] + Second
      BY <1>1, <1>3, <2>1 DEF PauseOnlyWhenAllCool
    <3> QED BY <1>1, <1>2, <2>1, <3>1
  <2>2. CASE \A q \in Routes : paused' < cooling'[q] + Second
    BY <2>2
  <2> QED BY <2>1, <2>2
<1> QED BY <1>3 DEF PauseOnlyWhenAllCool

\* What other requests do leaves a turn's transcript and its hint alone, or disturbs it.
LEMMA Foreign ==
  ASSUME PoolTypes, PoolTypes', FlightInv, NEW t \in Turns, SignedInv(t), HintInv(t), clock' >= clock,
         stage'[t] = stage[t], tried'[t] = tried[t], route'[t] = route[t], pin'[t] = pin[t],
         retryAt'[t] = retryAt[t], signer'[t] = signer[t], ending'[t] = ending[t],
         t \in pictures' <=> t \in pictures,
         t \notin disturbed' => cooling' = cooling /\ t \notin disturbed,
         paused' = paused \/ \A p \in Routes : paused' < cooling'[p] + Second
  PROVE  SignedInv(t)' /\ HintInv(t)'
<1>1. t \in InFlight' <=> t \in InFlight
  BY DEF InFlight
<1>2. Pinned(t)' <=> Pinned(t)
  BY DEF Pinned
<1>3. Eligible(t)' = Eligible(t)
  BY <1>2 DEF Eligible, Compatible
<1>4. SignedInv(t)'
  BY <1>1, <1>3 DEF SignedInv, Compatible
<1>5. clock \in Nat /\ clock' \in Nat /\ paused \in Nat /\ paused' \in Nat /\ Second \in Nat /\ retryAt[t] \in Nat
  BY PoolAssumption DEF PoolTypes
<1>6. Eligible(t) \subseteq Routes /\ tried[t] \subseteq Routes
  <2>1. t \in Requests
    BY PoolAssumption DEF Requests
  <2>2. pin[t] \in 0..RouteCount
    BY DEF PoolTypes
  <2>3. Pinned(t) => pin[t] \in Routes
    BY <2>2, PoolAssumption DEF Pinned, Routes
  <2> QED BY <2>1, <2>3, PoolAssumption, CompatibleIs DEF PoolTypes, Eligible
<1>7. ASSUME NEW routes \in SUBSET Routes, t \notin disturbed',
             \E p \in routes : cooling[p] <= retryAt[t] /\ paused < retryAt[t] + Second
      PROVE  \E p \in routes : cooling'[p] <= retryAt'[t] /\ paused' < retryAt'[t] + Second
  <2>1. PICK p \in routes : cooling[p] <= retryAt[t] /\ paused < retryAt[t] + Second
    BY <1>7
  <2>2. cooling[p] \in Nat /\ cooling' = cooling
    BY <1>7 DEF PoolTypes
  <2>3. paused' < retryAt[t] + Second
    <3>1. CASE paused' = paused
      BY <2>1, <3>1
    <3>2. CASE \A q \in Routes : paused' < cooling'[q] + Second
      <4>1. paused' < cooling[p] + Second
        BY <2>2, <3>2
      <4> QED BY <1>5, <2>1, <2>2, <4>1
    <3> QED BY <3>1, <3>2
  <2> QED BY <2>1, <2>2, <2>3
<1>8. HintInv(t)'
  <2>1. stage'[t] = "idle" /\ ending'[t] = "refused" => retryAt'[t] = 0
    BY DEF HintInv
  <2>2. ASSUME retryAt'[t] # 0, t \notin disturbed', stage'[t] = "idle", ending'[t] = "none"
        PROVE  Kept(Eligible(t), t)'
    <3>1. \E p \in Eligible(t) : cooling[p] <= retryAt[t] /\ paused < retryAt[t] + Second
      BY <2>2 DEF HintInv, Kept
    <3>2. \E p \in Eligible(t) : cooling'[p] <= retryAt'[t] /\ paused' < retryAt'[t] + Second
      BY <1>6, <1>7, <2>2, <3>1
    <3> QED BY <1>3, <3>2 DEF Kept
  <2>3. ASSUME retryAt'[t] # 0, t \notin disturbed', stage'[t] # "idle"
        PROVE  Kept(tried[t] \ {route[t]}, t)'
    <3> DEFINE rest == tried[t] \ {route[t]}
    <3>1. \E p \in rest : cooling[p] <= retryAt[t] /\ paused < retryAt[t] + Second
      BY <2>3 DEF HintInv, Kept
    <3>2. \E p \in rest : cooling'[p] <= retryAt'[t] /\ paused' < retryAt'[t] + Second
      BY <1>6, <1>7, <2>3, <3>1
    <3>3. tried'[t] \ {route'[t]} = rest
      OBVIOUS
    <3> QED BY <3>2, <3>3 DEF Kept
  <2>4. ASSUME t \in InFlight', t \notin disturbed' PROVE cooling'[route'[t]] <= clock'
    <3>1. cooling[route[t]] <= clock
      BY <1>1, <2>4 DEF HintInv
    <3>2. cooling[route[t]] \in Nat
      <4>1. route[t] \in tried[t]
        BY <1>1, <2>4 DEF FlightInv
      <4> QED BY <1>6, <4>1 DEF PoolTypes
    <3>3. cooling'[route'[t]] = cooling[route[t]]
      BY <2>4
    <3> QED BY <1>5, <3>1, <3>2, <3>3
  <2> QED BY <2>1, <2>2, <2>3, <2>4 DEF HintInv
<1> QED BY <1>4, <1>8

\* A completion that ends gives its slot back; of the hint it leaves the turn it belongs to,
\* a refusal makes nothing and the end of its routes something worth following.
LEMMA Ended ==
  ASSUME PoolInv, NEW r \in Requests, stage[r] # "idle",
         NEW result \in {"none", "queue", "refused", "answered", "cancelled"}, Over(r, result),
         UNCHANGED <<clock, cooling, transient, resting, tried, pictures, disturbed, asks>>, cursor' \in Routes,
         paused' \in Nat, paused' = paused \/ \A p \in Routes : paused' < cooling'[p] + Second,
         pin' \in [Turns -> 0..RouteCount], signer' \in [Turns -> 0..RouteCount],
         \A t \in Turns \ {r} : pin'[t] = pin[t] /\ signer'[t] = signer[t],
         r \in Turns => /\ signer'[r] = 0 <=> pin'[r] = 0
                        /\ pin'[r] # 0 => pin'[r] \in Compatible(signer'[r]),
         NEW n \in Nat, n <= clock + HintLimit,
         retryAt' = (IF r \in Turns THEN [retryAt EXCEPT ![r] = n] ELSE retryAt),
         r \in Turns /\ result = "refused" => n = 0,
         r \in Turns /\ result = "none" => pin' = pin,
         r \in Turns /\ result = "none" /\ n # 0 /\ r \notin disturbed =>
           \E p \in Eligible(r) : cooling[p] <= n /\ paused' < n + Second
  PROVE  PoolInv'
<1> USE DEF PoolInv
<1>1. PoolTypes'
  <2>1. stage' \in [Requests -> {"idle", "queued"} \cup Posts]
    BY DEF PoolTypes, Over
  <2>2. route' \in [Requests -> 0..RouteCount]
    BY PoolAssumption DEF PoolTypes, Over
  <2>3. ending' \in [Requests -> {"none", "queue", "refused", "answered", "cancelled"}]
    BY DEF PoolTypes, Over
  <2>4. retryAt' \in [Turns -> Nat]
    BY DEF PoolTypes
  <2> QED BY <2>1, <2>2, <2>3, <2>4 DEF PoolTypes
<1>2. /\ \A s \in Requests \ {r} : stage'[s] = stage[s] /\ route'[s] = route[s] /\ ending'[s] = ending[s]
      /\ stage'[r] = "idle" /\ route'[r] = 0 /\ ending'[r] = result
  BY DEF PoolTypes, Over
<1>3. InFlight' \subseteq InFlight \ {r}
  BY <1>2 DEF InFlight
<1>4. \A t \in Turns : retryAt'[t] = IF t = r THEN n ELSE retryAt[t]
  BY DEF PoolTypes
<1>5. FlightInv'
  <2>1. \A p \in Routes : transient'[p] <= cooling'[p]
    BY DEF FlightInv
  <2>2. Cardinality(InFlight') <= SlotLimit
    BY <1>3, Fewer DEF FlightInv
  <2>3. \A s \in InFlight' : route'[s] \in tried'[s]
    BY <1>2, <1>3 DEF FlightInv, InFlight
  <2>4. \A c \in Chats : c \notin InFlight' => route'[c] = 0
    BY <1>2 DEF FlightInv, InFlight, Requests
  <2>5. \A t \in Turns : retryAt'[t] <= clock' + HintLimit
    BY <1>4 DEF FlightInv
  <2> QED BY <2>1, <2>2, <2>3, <2>4, <2>5 DEF FlightInv
<1>6. clock' >= clock /\ \A p \in Routes : cooling'[p] >= cooling[p]
  BY DEF PoolTypes
<1>7. PauseOnlyWhenAllCool'
  BY <1>1, <1>6, PausesKept
<1>8. ASSUME NEW t \in Turns, t # r PROVE SignedInv(t)' /\ HintInv(t)'
  <2>1. t \in Requests
    BY PoolAssumption DEF Requests
  <2> QED BY <1>1, <1>2, <1>4, <1>6, <1>8, <2>1, Foreign
<1>9. ASSUME r \in Turns PROVE SignedInv(r)' /\ HintInv(r)'
  <2>1. r \notin InFlight'
    BY <1>3
  <2>2. SignedInv(r)'
    BY <1>2, <1>9, <2>1 DEF SignedInv, Compatible
  <2>3. HintInv(r)'
    <3>1. stage'[r] = "idle" /\ ending'[r] = "refused" => retryAt'[r] = 0
      BY <1>2, <1>4, <1>9
    <3>2. ASSUME retryAt'[r] # 0, r \notin disturbed', ending'[r] = "none"
          PROVE  Kept(Eligible(r), r)'
      <4>1. Eligible(r)' = Eligible(r)
        BY <1>2, <1>9, <3>2 DEF Eligible, Compatible, Pinned
      <4>2. \E p \in Eligible(r) : cooling'[p] <= retryAt'[r] /\ paused' < retryAt'[r] + Second
        BY <1>2, <1>4, <1>9, <3>2
      <4> QED BY <4>1, <4>2 DEF Kept
    <3> QED BY <1>2, <2>1, <3>1, <3>2 DEF HintInv
  <2> QED BY <2>2, <2>3
<1> QED BY <1>1, <1>5, <1>7, <1>8, <1>9

\* A post that failed leaves the completion with its next route, or without one; a hint
\* it leaves is worth following.
LEMMA FailedPost ==
  ASSUME PoolInv, NEW r \in Requests, stage[r] \in Posts, GoOn(r),
         UNCHANGED <<clock, cursor, tried, pictures, pin, signer, asks>>, resting' \in [Routes -> Nat],
         cooling' \in [Routes -> Nat], transient' \in [Routes -> Nat],
         \A p \in Routes : transient'[p] <= cooling'[p] /\ cooling'[p] >= cooling[p],
         disturbed' \subseteq Turns, disturbed \subseteq disturbed',
         cooling' = cooling \/ Turns \ {r} \subseteq disturbed',
         paused' \in Nat, paused' = paused \/ \A p \in Routes : paused' < cooling'[p] + Second,
         NEW n \in Nat, r \in Turns => n <= clock + HintLimit,
         retryAt' = (IF r \in Turns THEN [retryAt EXCEPT ![r] = n] ELSE retryAt),
         r \in Turns /\ n # 0 /\ r \notin disturbed =>
           \E p \in tried[r] : cooling'[p] <= n /\ paused' < n + Second
  PROVE  PoolInv'
<1> USE DEF PoolInv
<1>a. UNCHANGED <<clock, cursor, tried, pictures, pin, signer, asks>>
  OBVIOUS
<1>b. r \in Requests
  OBVIOUS
<1>1. \/ stage' = [stage EXCEPT ![r] = "idle"] /\ ending' = [ending EXCEPT ![r] = "none"]
      \/ stage' = [stage EXCEPT ![r] = "queued"] /\ ending' = ending
  BY DEF GoOn, Over
<1>2. route' = [route EXCEPT ![r] = 0]
  BY DEF GoOn, Over
<1>3. PoolTypes'
  <2>1. stage' \in [Requests -> {"idle", "queued"} \cup Posts]
    BY <1>1, <1>2 DEF PoolTypes
  <2>2. route' \in [Requests -> 0..RouteCount]
    <3>1. 0 \in 0..RouteCount
      BY PoolAssumption
    <3> QED BY <1>2, <3>1 DEF PoolTypes
  <2>3. ending' \in [Requests -> {"none", "queue", "refused", "answered", "cancelled"}]
    BY <1>1, <1>2 DEF PoolTypes
  <2>4. retryAt' \in [Turns -> Nat]
    BY DEF PoolTypes
  <2> QED BY <1>a, <2>1, <2>2, <2>3, <2>4 DEF PoolTypes
<1>4. /\ \A s \in Requests \ {r} : stage'[s] = stage[s] /\ route'[s] = route[s] /\ ending'[s] = ending[s]
      /\ stage'[r] \in {"idle", "queued"} /\ route'[r] = 0
      /\ stage'[r] = "idle" => ending'[r] = "none"
  BY <1>b, <1>1, <1>2 DEF PoolTypes
<1>5. InFlight' \subseteq InFlight \ {r} /\ r \in InFlight
  BY <1>b, <1>4 DEF InFlight, Posts
<1>6. \A t \in Turns : retryAt'[t] = IF t = r THEN n ELSE retryAt[t]
  BY DEF PoolTypes
<1>7. FlightInv'
  <2>2. Cardinality(InFlight') <= SlotLimit
    BY <1>5, Fewer DEF FlightInv
  <2>3. \A s \in InFlight' : route'[s] \in tried'[s]
    BY <1>a, <1>4, <1>5 DEF FlightInv, InFlight
  <2>4. \A c \in Chats : c \notin InFlight' => route'[c] = 0
    BY <1>4 DEF FlightInv, InFlight, Requests
  <2>5. \A t \in Turns : retryAt'[t] <= clock' + HintLimit
    BY <1>a, <1>6 DEF FlightInv
  <2> QED BY <2>2, <2>3, <2>4, <2>5 DEF FlightInv
<1>8. clock' >= clock
  BY <1>a DEF PoolTypes
<1>9. PauseOnlyWhenAllCool'
  BY <1>3, <1>8, PausesKept
<1>10. ASSUME NEW t \in Turns, t # r PROVE SignedInv(t)' /\ HintInv(t)'
  <2>1. t \in Requests
    BY PoolAssumption DEF Requests
  <2>2. t \notin disturbed' => cooling' = cooling /\ t \notin disturbed
    BY <1>10
  <2> QED BY <1>a, <1>3, <1>4, <1>6, <1>8, <1>10, <2>1, <2>2, Foreign
<1>11. ASSUME r \in Turns PROVE SignedInv(r)' /\ HintInv(r)'
  <2>1. r \notin InFlight' /\ stage[r] # "idle"
    BY <1>5 DEF Posts
  <2>2. Eligible(r)' = Eligible(r)
    BY <1>a DEF Eligible, Compatible, Pinned
  <2>3. tried[r] \subseteq Eligible(r)
    BY <1>11, <2>1 DEF SignedInv
  <2>4. SignedInv(r)'
    BY <1>a, <1>11, <2>1, <2>2, <2>3 DEF SignedInv, Compatible
  <2>5. ASSUME retryAt'[r] # 0, r \notin disturbed'
        PROVE  \E p \in tried[r] : cooling'[p] <= retryAt'[r] /\ paused' < retryAt'[r] + Second
    BY <1>6, <1>11, <2>5
  <2>6. 0 \notin tried[r]
    <3>1. tried[r] \subseteq Routes
      BY <1>b DEF PoolTypes
    <3> QED BY <3>1 DEF Routes
  <2>7. HintInv(r)'
    <3>1. ASSUME retryAt'[r] # 0, r \notin disturbed' PROVE Kept(Eligible(r), r)'
      BY <2>2, <2>3, <2>5, <3>1 DEF Kept
    <3>2. ASSUME retryAt'[r] # 0, r \notin disturbed' PROVE Kept(tried[r] \ {route[r]}, r)'
      <4>1. tried'[r] \ {route'[r]} = tried[r]
        BY <1>a, <1>4, <2>6
      <4> QED BY <2>5, <3>2, <4>1 DEF Kept
    <3> QED BY <1>4, <2>1, <3>1, <3>2 DEF HintInv
  <2> QED BY <2>4, <2>7
<1> QED BY <1>3, <1>7, <1>9, <1>10, <1>11

\* The routes a request may use are routes of the pool.
LEMMA EligibleIs ==
  ASSUME PoolTypes, NEW r \in Requests
  PROVE  Eligible(r) \subseteq Routes
<1>1. Gemini \subseteq Routes
  BY PoolAssumption
<1>2. CASE Pinned(r)
  <2>1. pin[r] \in Routes
    BY <1>2, PoolAssumption DEF PoolTypes, Pinned, Routes
  <2>2. Compatible(pin[r]) \subseteq Routes
    BY <2>1, CompatibleIs
  <2>3. Eligible(r) \subseteq Compatible(pin[r])
    BY <1>2 DEF Eligible
  <2> QED BY <2>2, <2>3
<1>3. CASE ~Pinned(r)
  BY <1>1, <1>3 DEF Eligible
<1> QED BY <1>2, <1>3

\* A request in flight asks a route it counts among those it has tried.
LEMMA Asking ==
  ASSUME PoolInv, NEW r \in Requests, stage[r] \in Posts
  PROVE  r \in InFlight /\ route[r] \in tried[r] /\ route[r] \in Routes
<1>1. r \in InFlight
  BY DEF InFlight, Posts
<1>2. route[r] \in tried[r]
  BY <1>1 DEF PoolInv, FlightInv
<1> QED BY <1>1, <1>2 DEF PoolInv, PoolTypes

\* What a mark does to the pool.
LEMMA MarkIs ==
  ASSUME PoolInv, NEW r \in Requests, stage[r] \in Posts, NEW delay \in Nat,
         NEW retryable \in BOOLEAN, Mark(r, delay, retryable)
  PROVE  /\ cooling' \in [Routes -> Nat] /\ transient' \in [Routes -> Nat]
         /\ \A p \in Routes : transient'[p] <= cooling'[p] /\ cooling'[p] >= cooling[p]
         /\ \A p \in Routes \ {route[r]} : cooling'[p] = cooling[p]
         /\ cooling'[route[r]] = Cooled(route[r], delay) /\ cooling'[route[r]] >= clock
         /\ disturbed' \subseteq Turns /\ disturbed \subseteq disturbed' /\ Turns \ {r} \subseteq disturbed'
<1> USE DEF PoolInv
<1>1. route[r] \in Routes
  BY Asking
<1> DEFINE p0 == route[r]  c0 == Cooled(p0, delay)
<1>2. clock \in Nat /\ cooling[p0] \in Nat
  BY <1>1 DEF PoolTypes
<1>3. c0 \in Nat /\ c0 >= cooling[p0] /\ c0 >= clock
  BY <1>2 DEF Cooled, Greater
<1>4. /\ cooling' = [cooling EXCEPT ![p0] = c0]
      /\ transient' = [transient EXCEPT ![p0] = IF retryable /\ c0 - clock <= HintLimit THEN c0 ELSE 0]
      /\ disturbed' = disturbed \cup (Turns \ {r})
  BY DEF Mark, Disturb
<1> HIDE DEF c0
<1>5. cooling' \in [Routes -> Nat] /\ transient' \in [Routes -> Nat]
  BY <1>3, <1>4 DEF PoolTypes
<1>6. \A p \in Routes : /\ cooling'[p] = IF p = p0 THEN c0 ELSE cooling[p]
                        /\ p # p0 => transient'[p] = transient[p]
                        /\ p = p0 => transient'[p] \in {c0, 0}
  BY <1>4 DEF PoolTypes
<1>7. \A p \in Routes : transient'[p] <= cooling'[p] /\ cooling'[p] >= cooling[p]
  <2>1. \A p \in Routes : transient[p] <= cooling[p] /\ cooling[p] \in Nat
    BY DEF FlightInv, PoolTypes
  <2> QED BY <1>3, <1>6, <2>1
<1>8. disturbed' \subseteq Turns
  BY <1>4 DEF PoolTypes
<1> QED BY <1>1, <1>3, <1>4, <1>5, <1>6, <1>7, <1>8 DEF c0

\* When a route has cooled down, no pause lasts longer than another second.
LEMMA PauseBelow ==
  ASSUME PoolTypes, PauseOnlyWhenAllCool, cooling' \in [Routes -> Nat],
         \A p \in Routes : cooling'[p] >= cooling[p],
         paused' \in Nat, paused' = paused \/ \A p \in Routes : paused' < cooling'[p] + Second,
         NEW q \in Routes, NEW n \in Nat, n >= clock, cooling'[q] <= n
  PROVE  paused' < n + Second
<1>1. Second \in Nat \ {0} /\ clock \in Nat /\ paused \in Nat /\ cooling[q] \in Nat /\ cooling'[q] \in Nat
  BY PoolAssumption DEF PoolTypes
<1>2. cooling'[q] >= cooling[q]
  OBVIOUS
<1>3. CASE paused' = paused /\ paused <= clock
  BY <1>1, <1>3
<1>4. CASE paused' = paused /\ paused > clock
  <2>1. paused < cooling[q] + Second
    BY <1>4 DEF PauseOnlyWhenAllCool
  <2> QED BY <1>1, <1>2, <1>4, <2>1
<1>5. CASE \A p \in Routes : paused' < cooling'[p] + Second
  <2>1. paused' < cooling'[q] + Second
    BY <1>5
  <2> QED BY <1>1, <2>1
<1> QED BY <1>1, <1>3, <1>4, <1>5

\* The hint of a completion under way stays worth following while only its own route fails.
LEMMA OldHint ==
  ASSUME PoolInv, NEW r \in Turns, stage[r] # "idle", retryAt[r] # 0, r \notin disturbed,
         \A p \in Routes \ {route[r]} : cooling'[p] = cooling[p],
         paused' \in Nat, paused' = paused \/ \A p \in Routes : paused' < cooling'[p] + Second
  PROVE  \E p \in tried[r] \ {route[r]} : cooling'[p] <= retryAt[r] /\ paused' < retryAt[r] + Second
<1> USE DEF PoolInv
<1>1. PICK p \in tried[r] \ {route[r]} : cooling[p] <= retryAt[r] /\ paused < retryAt[r] + Second
  BY DEF HintInv, Kept
<1>2. r \in Requests
  BY PoolAssumption DEF Requests
<1>3. p \in Routes
  BY <1>1, <1>2 DEF PoolTypes
<1>4. cooling[p] \in Nat /\ retryAt[r] \in Nat /\ Second \in Nat /\ cooling'[p] = cooling[p]
  BY <1>1, <1>3, PoolAssumption DEF PoolTypes
<1>5. paused' < retryAt[r] + Second
  <2>1. CASE paused' = paused
    BY <1>1, <2>1
  <2>2. CASE \A q \in Routes : paused' < cooling'[q] + Second
    <3>1. paused' < cooling[p] + Second
      BY <1>3, <1>4, <2>2
    <3> QED BY <1>1, <1>4, <3>1
  <2> QED BY <2>1, <2>2
<1> QED BY <1>1, <1>4, <1>5

-----------------------------------------------------------------------------
(* The answers to a chat.                                                   *)

\* A passing failure: the route cools down and the turn is told until when.
LEMMA MarkedAndNoted ==
  ASSUME PoolInv, NEW r \in Chats, stage[r] \in Posts, NEW delay \in Nat, Mark(r, delay, TRUE),
         Note(r, {Cooled(route[r], delay) - clock}),
         (\E d \in Nat : Pause(d)) \/ paused' = paused, GoOn(r), UNCHANGED Rest
  PROVE  PoolInv'
<1> USE DEF PoolInv
<1>r. UNCHANGED <<clock, cursor, tried, pictures, pin, signer, asks>> /\ resting' \in [Routes -> Nat]
  BY DEF Rest, PoolTypes
<1>b. r \in Requests
  BY DEF Requests
<1>0. TRUE \in BOOLEAN
  OBVIOUS
<1>1. /\ cooling' \in [Routes -> Nat] /\ transient' \in [Routes -> Nat]
      /\ \A p \in Routes : transient'[p] <= cooling'[p] /\ cooling'[p] >= cooling[p]
      /\ \A p \in Routes \ {route[r]} : cooling'[p] = cooling[p]
      /\ cooling'[route[r]] = Cooled(route[r], delay) /\ cooling'[route[r]] >= clock
      /\ disturbed' \subseteq Turns /\ disturbed \subseteq disturbed' /\ Turns \ {r} \subseteq disturbed'
  BY <1>b, <1>0, MarkIs
<1>2. paused' \in Nat /\ (paused' = paused \/ \A p \in Routes : paused' < cooling'[p] + Second)
  BY <1>1, PauseIs DEF PoolTypes
<1>3. route[r] \in tried[r] /\ route[r] \in Routes
  BY <1>b, Asking
<1> DEFINE c0 == Cooled(route[r], delay)
           n == IF r \in Turns THEN Noted(r, {c0 - clock}) ELSE 0
<1>4. c0 \in Nat /\ clock \in Nat
  BY <1>1, <1>3 DEF PoolTypes
<1> HIDE DEF c0
<1>5. n \in Nat /\ (r \in Turns => n <= clock + HintLimit)
  BY <1>4, NotedIs
<1>6. retryAt' = IF r \in Turns THEN [retryAt EXCEPT ![r] = n] ELSE retryAt
  BY DEF Note, c0
<1>7. ASSUME r \in Turns, n # 0, r \notin disturbed
      PROVE  \E p \in tried[r] : cooling'[p] <= n /\ paused' < n + Second
  <2>1. n = retryAt[r] \/ n = clock + (c0 - clock)
    BY <1>4, <1>7, NotedIs
  <2>2. CASE n = retryAt[r]
    <3>1. stage[r] # "idle"
      BY DEF Posts
    <3> QED BY <1>1, <1>2, <1>7, <2>2, <3>1, OldHint
  <2>3. CASE n = clock + (c0 - clock)
    <3>1. n = cooling'[route[r]]
      BY <1>1, <1>4, <2>3 DEF c0
    <3>2. paused' < n + Second
      <4> HIDE DEF n
      <4>1. n >= clock /\ cooling'[route[r]] <= n
        BY <1>1, <1>5, <3>1
      <4> QED BY <1>1, <1>2, <1>3, <1>5, <4>1, PauseBelow
    <3>3. cooling'[route[r]] <= n
      BY <1>5, <3>1
    <3> QED BY <1>3, <3>2, <3>3
  <2> QED BY <2>1, <2>2, <2>3
<1> HIDE DEF n
<1> QED BY <1>1, <1>2, <1>5, <1>6, <1>7, <1>r, <1>b, FailedPost

\* A failure the turn is told nothing of leaves it the hint it had.
LEMMA NotNoted ==
  ASSUME PoolInv, NEW r \in Chats, stage[r] \in Posts, UNCHANGED retryAt,
         cooling' \in [Routes -> Nat], transient' \in [Routes -> Nat],
         \A p \in Routes : transient'[p] <= cooling'[p] /\ cooling'[p] >= cooling[p],
         \A p \in Routes \ {route[r]} : cooling'[p] = cooling[p],
         disturbed' \subseteq Turns, disturbed \subseteq disturbed',
         cooling' = cooling \/ Turns \ {r} \subseteq disturbed',
         (\E d \in Nat : Pause(d)) \/ paused' = paused, GoOn(r), UNCHANGED Rest
  PROVE  PoolInv'
<1> USE DEF PoolInv
<1>b. r \in Requests
  BY DEF Requests
<1>r. UNCHANGED <<clock, cursor, tried, pictures, pin, signer, asks>> /\ resting' \in [Routes -> Nat]
  BY DEF Rest, PoolTypes
<1>1. paused' \in Nat /\ (paused' = paused \/ \A p \in Routes : paused' < cooling'[p] + Second)
  BY PauseIs DEF PoolTypes
<1> DEFINE n == IF r \in Turns THEN retryAt[r] ELSE 0
<1>2. n \in Nat /\ (r \in Turns => n <= clock + HintLimit)
  BY DEF PoolTypes, FlightInv
<1>3. retryAt' = IF r \in Turns THEN [retryAt EXCEPT ![r] = n] ELSE retryAt
  BY DEF PoolTypes
<1>4. ASSUME r \in Turns, n # 0, r \notin disturbed
      PROVE  \E p \in tried[r] : cooling'[p] <= n /\ paused' < n + Second
  <2>1. stage[r] # "idle"
    BY DEF Posts
  <2> QED BY <1>1, <1>4, <2>1, OldHint
<1> HIDE DEF n
<1> QED BY <1>1, <1>2, <1>3, <1>4, <1>r, <1>b, FailedPost

\* An answer of nothing: the route stands as it did, and may be asked again soon.
LEMMA SilenceKeeps ==
  ASSUME PoolInv, NEW r \in Chats, Silent(r)
  PROVE  PoolInv'
<1> USE DEF PoolInv
<1>r. UNCHANGED <<clock, cursor, tried, pictures, pin, signer, asks>> /\ resting' \in [Routes -> Nat]
  BY DEF Rest, PoolTypes, Silent
<1>b. r \in Requests
  BY DEF Requests
<1>1. stage[r] \in Posts /\ Note(r, {HalfSecond}) /\ GoOn(r) /\ UNCHANGED Rest
  BY DEF Silent, Chat, Posts
<1>2. UNCHANGED <<cooling, transient, disturbed, paused>>
  BY DEF Silent, NoMark
<1>3. /\ cooling' \in [Routes -> Nat] /\ transient' \in [Routes -> Nat]
      /\ \A p \in Routes : transient'[p] <= cooling'[p] /\ cooling'[p] >= cooling[p]
      /\ disturbed' \subseteq Turns /\ paused' \in Nat
  BY <1>2 DEF PoolTypes, FlightInv
<1>4. r \in InFlight /\ route[r] \in tried[r] /\ route[r] \in Routes
  BY <1>b, <1>1, Asking
<1>5. HalfSecond \in Nat /\ clock \in Nat
  BY PoolAssumption DEF HalfSecond, PoolTypes
<1> DEFINE n == IF r \in Turns THEN Noted(r, {HalfSecond}) ELSE 0
<1>6. n \in Nat /\ (r \in Turns => n <= clock + HintLimit)
  BY <1>5, NotedIs
<1>7. retryAt' = IF r \in Turns THEN [retryAt EXCEPT ![r] = n] ELSE retryAt
  BY <1>1 DEF Note
<1>8. ASSUME r \in Turns, n # 0, r \notin disturbed
      PROVE  \E p \in tried[r] : cooling'[p] <= n /\ paused' < n + Second
  <2>1. n = retryAt[r] \/ n = clock + HalfSecond
    BY <1>5, <1>8, NotedIs
  <2>2. CASE n = retryAt[r]
    <3>1. stage[r] # "idle"
      BY <1>1 DEF Posts
    <3> QED BY <1>2, <1>3, <1>8, <2>2, <3>1, OldHint
  <2>3. CASE n = clock + HalfSecond
    <3>1. cooling[route[r]] <= clock
      BY <1>4, <1>8 DEF HintInv
    <3>2. n >= clock /\ cooling'[route[r]] <= n
      BY <1>2, <1>4, <1>5, <2>3, <3>1 DEF PoolTypes
    <3>3. paused' < n + Second
      <4> HIDE DEF n
      <4> QED BY <1>2, <1>3, <1>4, <1>6, <3>2, PauseBelow
    <3> QED BY <1>4, <3>2, <3>3
  <2> QED BY <2>1, <2>2, <2>3
<1> HIDE DEF n
<1> QED BY <1>1, <1>2, <1>3, <1>6, <1>7, <1>8, <1>r, <1>b, FailedPost

\* A post that is repeated is the same request on the same route.
LEMMA SamePost ==
  ASSUME PoolInv, NEW r \in Requests, stage[r] \in Posts, NEW next \in Posts,
         stage' = [stage EXCEPT ![r] = next],
         UNCHANGED <<cooling, transient, paused, route, retryAt, ending, disturbed>>, UNCHANGED Rest
  PROVE  PoolInv'
<1> USE DEF PoolInv
<1>1. UNCHANGED <<clock, resting, cursor, tried, pictures, pin, signer, asks>>
  BY DEF Rest
<1>2. PoolTypes'
  BY <1>1 DEF PoolTypes
<1>3. \A s \in Requests : /\ s # r => stage'[s] = stage[s]
                          /\ stage[s] = "idle" <=> stage'[s] = "idle"
                          /\ stage[s] = "queued" <=> stage'[s] = "queued"
  BY DEF PoolTypes, Posts
<1>4. InFlight' = InFlight
  BY <1>3 DEF InFlight
<1>5. FlightInv'
  BY <1>1, <1>4 DEF FlightInv
<1>6. PauseOnlyWhenAllCool'
  BY <1>1 DEF PauseOnlyWhenAllCool
<1>7. ASSUME NEW t \in Turns PROVE SignedInv(t)' /\ HintInv(t)'
  <2>1. t \in Requests
    BY PoolAssumption DEF Requests
  <2>2. stage'[t] = "idle" <=> stage[t] = "idle"
    BY <1>3, <2>1
  <2>3. Eligible(t)' = Eligible(t)
    BY <1>1 DEF Eligible, Compatible, Pinned
  <2>4. SignedInv(t)'
    BY <1>1, <1>4, <2>2, <2>3 DEF SignedInv, Compatible
  <2>5. Kept(Eligible(t), t)' <=> Kept(Eligible(t), t)
    BY <2>3 DEF Kept
  <2>6. Kept(tried[t] \ {route[t]}, t)' <=> Kept(tried[t] \ {route[t]}, t)
    BY <1>1 DEF Kept
  <2>7. HintInv(t)'
    BY <1>1, <1>4, <2>2, <2>5, <2>6 DEF HintInv
  <2> QED BY <2>4, <2>7
<1> QED BY <1>2, <1>5, <1>6, <1>7

\* A completion that ends without another hint leaves none, or the one there was.
LEMMA EndedBare ==
  ASSUME PoolInv, NEW r \in Requests, stage[r] # "idle",
         NEW result \in {"none", "queue", "refused", "answered", "cancelled"}, Over(r, result),
         UNCHANGED <<clock, cooling, transient, resting, tried, pictures, disturbed, asks, paused, pin, signer>>,
         cursor' \in Routes,
         UNCHANGED retryAt \/ ForgetHint(r), result = "refused" => ForgetHint(r)
  PROVE  PoolInv'
<1> USE DEF PoolInv
<1> DEFINE n == IF r \in Turns THEN retryAt'[r] ELSE 0
<1>1. /\ retryAt' = IF r \in Turns THEN [retryAt EXCEPT ![r] = n] ELSE retryAt
      /\ r \in Turns => n = 0 \/ n = retryAt[r]
      /\ r \in Turns /\ result = "refused" => n = 0
  BY DEF ForgetHint, PoolTypes
<1>2. n \in Nat /\ n <= clock + HintLimit
  BY <1>1, PoolAssumption DEF PoolTypes, FlightInv
<1>3. ASSUME r \in Turns, n # 0, r \notin disturbed
      PROVE  \E p \in Eligible(r) : cooling[p] <= n /\ paused' < n + Second
  <2>1. n = retryAt[r]
    BY <1>1, <1>3
  <2>2. paused' \in Nat
    BY DEF PoolTypes
  <2>3. \E p \in tried[r] \ {route[r]} : cooling'[p] <= n /\ paused' < n + Second
    BY <1>3, <2>1, <2>2, OldHint
  <2>4. tried[r] \subseteq Eligible(r)
    BY <1>3 DEF SignedInv
  <2> QED BY <2>3, <2>4
<1> HIDE DEF n
<1>4. paused' \in Nat /\ paused' = paused
      /\ pin' \in [Turns -> 0..RouteCount] /\ signer' \in [Turns -> 0..RouteCount]
  BY DEF PoolTypes
<1>5. r \in Turns => /\ signer'[r] = 0 <=> pin'[r] = 0
                     /\ pin'[r] # 0 => pin'[r] \in Compatible(signer'[r])
  BY DEF SignedInv
<1> QED BY <1>1, <1>2, <1>3, <1>4, <1>5, Ended

\* A completion that finds no route leaves a hint at the next that will be back soon.
LEMMA EndedSoon ==
  ASSUME PoolInv, NEW r \in Requests, stage[r] # "idle", Over(r, "none"), Note(r, CoolingSoon(r)),
         UNCHANGED <<clock, cooling, transient, resting, cursor, tried, pictures, pin, signer, disturbed, asks>>,
         paused' \in Nat, paused' = paused \/ \A p \in Routes : paused' < cooling'[p] + Second
  PROVE  PoolInv'
<1> USE DEF PoolInv
<1> DEFINE n == IF r \in Turns THEN Noted(r, CoolingSoon(r)) ELSE 0
<1>1. retryAt' = IF r \in Turns THEN [retryAt EXCEPT ![r] = n] ELSE retryAt
  BY DEF Note
<1>2. Eligible(r) \subseteq Routes /\ clock \in Nat
  BY EligibleIs DEF PoolTypes
<1>3. CoolingSoon(r) \in SUBSET Int
  BY <1>2 DEF CoolingSoon, PoolTypes
<1>4. n \in Nat /\ n <= clock + HintLimit
  BY <1>2, <1>3, NotedIs, PoolAssumption
<1>5. ASSUME r \in Turns, n # 0, r \notin disturbed
      PROVE  \E p \in Eligible(r) : cooling[p] <= n /\ paused' < n + Second
  <2>1. n = retryAt[r] \/ \E d \in CoolingSoon(r) : 0 <= d /\ n = clock + d
    BY <1>3, <1>5, NotedIs
  <2>2. CASE n = retryAt[r]
    <3>1. \E p \in tried[r] \ {route[r]} : cooling'[p] <= n /\ paused' < n + Second
      BY <1>5, <2>2, OldHint
    <3>2. tried[r] \subseteq Eligible(r)
      BY <1>5 DEF SignedInv
    <3> QED BY <3>1, <3>2
  <2>3. CASE \E d \in CoolingSoon(r) : 0 <= d /\ n = clock + d
    <3>1. PICK d \in CoolingSoon(r) : 0 <= d /\ n = clock + d
      BY <2>3
    <3>2. PICK p \in Eligible(r) : transient[p] = cooling[p] /\ d = transient[p] - clock
      BY <3>1 DEF CoolingSoon
    <3>3. p \in Routes /\ cooling[p] \in Nat
      BY <1>2, <3>2 DEF PoolTypes
    <3> HIDE DEF n
    <3>4. n = cooling[p] /\ n >= clock
      BY <1>2, <3>1, <3>2, <3>3
    <3>5. cooling' \in [Routes -> Nat] /\ \A q \in Routes : cooling'[q] >= cooling[q]
      BY DEF PoolTypes
    <3>6. cooling'[p] <= n
      BY <1>4, <3>4
    <3>7. paused' < n + Second
      BY <1>4, <3>3, <3>4, <3>5, <3>6, PauseBelow
    <3> QED BY <3>2, <3>6, <3>7
  <2> QED BY <2>1, <2>2, <2>3
<1> HIDE DEF n
<1>6. cursor' \in Routes /\ pin' \in [Turns -> 0..RouteCount] /\ signer' \in [Turns -> 0..RouteCount]
  BY DEF PoolTypes
<1>7. r \in Turns => /\ signer'[r] = 0 <=> pin'[r] = 0
                     /\ pin'[r] # 0 => pin'[r] \in Compatible(signer'[r])
  BY DEF SignedInv
<1> QED BY <1>1, <1>4, <1>5, <1>6, <1>7, Ended

-----------------------------------------------------------------------------
(* A completion begins, and reserves a route or ends without.               *)

\* A completion begins without routes tried, and its turn without a hint.
LEMMA AskKeeps ==
  ASSUME PoolInv, NEW r \in Requests, NEW shows \in BOOLEAN, Ask(r, shows)
  PROVE  PoolInv'
<1> USE DEF PoolInv
<1>1. /\ stage[r] = "idle" /\ stage' \in {[stage EXCEPT ![r] = s] : s \in {"idle", "queued"}}
      /\ tried' = [tried EXCEPT ![r] = {}] /\ ending' = [ending EXCEPT ![r] = "none"]
      /\ asks' = [asks EXCEPT ![r] = asks[r] + 1] /\ disturbed' = disturbed \ {r}
      /\ pictures' = (IF shows THEN pictures \cup {r} ELSE pictures \ {r})
      /\ retryAt' = (IF r \in Turns THEN [retryAt EXCEPT ![r] = 0] ELSE retryAt)
      /\ UNCHANGED <<clock, cooling, transient, resting, paused, cursor, route, pin, signer>>
  BY DEF Ask, ForgetHint
<1>2. PoolTypes'
  <2>1. stage' \in [Requests -> {"idle", "queued"} \cup Posts]
    BY <1>1 DEF PoolTypes
  <2>2. tried' \in [Requests -> SUBSET Routes]
    BY <1>1 DEF PoolTypes
  <2>3. ending' \in [Requests -> {"none", "queue", "refused", "answered", "cancelled"}]
    BY <1>1 DEF PoolTypes
  <2>4. asks' \in [Requests -> Nat]
    BY <1>1 DEF PoolTypes
  <2>5. retryAt' \in [Turns -> Nat]
    BY <1>1 DEF PoolTypes
  <2>6. pictures' \subseteq Requests /\ disturbed' \subseteq Turns
    BY <1>1 DEF PoolTypes
  <2> QED BY <1>1, <2>1, <2>2, <2>3, <2>4, <2>5, <2>6 DEF PoolTypes
<1>3. /\ \A s \in Requests \ {r} : stage'[s] = stage[s] /\ tried'[s] = tried[s] /\ ending'[s] = ending[s]
      /\ stage'[r] \in {"idle", "queued"} /\ tried'[r] = {} /\ ending'[r] = "none"
      /\ \A t \in Turns : retryAt'[t] = IF t = r THEN 0 ELSE retryAt[t]
  BY <1>1 DEF PoolTypes
<1>4. InFlight' = InFlight /\ r \notin InFlight
  BY <1>1, <1>3 DEF InFlight
<1>5. FlightInv'
  <2>1. \A s \in InFlight' : route'[s] \in tried'[s]
    BY <1>1, <1>3, <1>4 DEF FlightInv, InFlight
  <2>2. \A t \in Turns : retryAt'[t] <= clock' + HintLimit
    BY <1>1, <1>3, PoolAssumption DEF FlightInv, PoolTypes
  <2> QED BY <1>1, <1>4, <2>1, <2>2 DEF FlightInv
<1>6. PauseOnlyWhenAllCool'
  BY <1>1 DEF PauseOnlyWhenAllCool
<1>7. ASSUME NEW t \in Turns, t # r PROVE SignedInv(t)' /\ HintInv(t)'
  <2>1. t \in Requests
    BY PoolAssumption DEF Requests
  <2>2. clock' >= clock
    BY <1>1 DEF PoolTypes
  <2> QED BY <1>1, <1>2, <1>3, <1>7, <2>1, <2>2, Foreign
<1>8. ASSUME r \in Turns PROVE SignedInv(r)' /\ HintInv(r)'
  BY <1>1, <1>3, <1>4, <1>8 DEF SignedInv, HintInv, Compatible
<1> QED BY <1>2, <1>5, <1>6, <1>7, <1>8

\* A full queue leaves a hint, but is no answer of the pool's.
LEMMA QueueTimeoutKeeps ==
  ASSUME PoolInv, NEW r \in Requests, QueueTimeout(r)
  PROVE  PoolInv'
<1> USE DEF PoolInv
<1> DEFINE n == IF r \in Turns THEN Noted(r, {HalfSecond}) ELSE 0
<1>1. HalfSecond \in Nat /\ clock \in Nat
  BY PoolAssumption DEF HalfSecond, PoolTypes
<1>2. n \in Nat /\ n <= clock + HintLimit
  BY <1>1, NotedIs, PoolAssumption
<1>3. retryAt' = IF r \in Turns THEN [retryAt EXCEPT ![r] = n] ELSE retryAt
  BY DEF QueueTimeout, Note
<1> HIDE DEF n
<1>4. /\ stage[r] # "idle" /\ Over(r, "queue")
      /\ UNCHANGED <<clock, cooling, transient, resting, paused, cursor, tried, pictures, pin, signer,
                     disturbed, asks>>
  BY DEF QueueTimeout
<1>5. cursor' \in Routes /\ paused' \in Nat /\ pin' \in [Turns -> 0..RouteCount]
      /\ signer' \in [Turns -> 0..RouteCount]
  BY <1>4 DEF PoolTypes
<1>6. r \in Turns => /\ signer'[r] = 0 <=> pin'[r] = 0
                     /\ pin'[r] # 0 => pin'[r] \in Compatible(signer'[r])
  BY <1>4 DEF SignedInv
<1> QED BY <1>2, <1>3, <1>4, <1>5, <1>6, Ended

\* A paused chat leaves a hint at what the turn may use.
LEMMA FindPausedKeeps ==
  ASSUME PoolInv, NEW r \in Requests, FindPaused(r)
  PROVE  PoolInv'
<1>1. /\ stage[r] # "idle" /\ Over(r, "none") /\ Note(r, CoolingSoon(r))
      /\ UNCHANGED <<clock, cooling, transient, resting, paused, cursor, tried, pictures, pin, signer,
                     disturbed, asks>>
  BY DEF FindPaused, HasSlot
<1>2. paused' \in Nat
  BY <1>1 DEF PoolInv, PoolTypes
<1> QED BY <1>1, <1>2, EndedSoon

\* The time until the first of the routes a request may use is back.
LEMMA ShortestIs ==
  ASSUME PoolTypes, NEW r \in Requests
  PROVE  Shortest(r) \in Nat
<1>1. CASE Eligible(r) = {}
  BY <1>1, PoolAssumption DEF Shortest
<1>2. CASE Eligible(r) # {}
  <2> DEFINE waits == {Greater(0, cooling[p] - clock) : p \in Eligible(r)}
  <2>1. \A p \in Eligible(r) : cooling[p] \in Nat /\ clock \in Nat
    BY EligibleIs DEF PoolTypes
  <2>2. waits \in SUBSET Nat /\ waits # {}
    BY <1>2, <2>1 DEF Greater
  <2>3. Shortest(r) = Least(waits)
    BY <1>2 DEF Shortest
  <2> HIDE DEF waits
  <2>4. Least(waits) \in waits
    BY <2>2, LeastIs
  <2> QED BY <2>2, <2>3, <2>4
<1> QED BY <1>1, <1>2

\* When no route is left, a pause that is set is within the promise.
LEMMA FindNoneKeeps ==
  ASSUME PoolInv, NEW r \in Requests, FindNone(r)
  PROVE  PoolInv'
<1> USE DEF PoolInv
<1>1. /\ stage[r] # "idle" /\ Over(r, "none")
      /\ UNCHANGED <<clock, cooling, transient, resting, cursor, tried, pictures, pin, signer, disturbed, asks>>
  BY DEF FindNone, HasSlot
<1>2. CASE r \in Chats
  <2>1. Pause(Shortest(r)) /\ Note(r, CoolingSoon(r))
    BY <1>2 DEF FindNone
  <2>2. Shortest(r) \in Nat /\ cooling' \in [Routes -> Nat]
    BY <1>1, ShortestIs DEF PoolTypes
  <2>3. paused' \in Nat /\ (paused' = paused \/ \A p \in Routes : paused' < cooling'[p] + Second)
    BY <2>1, <2>2, PauseIs
  <2> QED BY <1>1, <2>1, <2>3, EndedSoon
<1>3. CASE r \notin Chats
  <2>1. UNCHANGED <<paused, retryAt>>
    BY <1>3 DEF FindNone
  <2>2. cursor' \in Routes
    BY <1>1 DEF PoolTypes
  <2> QED BY <1>1, <2>1, <2>2, EndedBare
<1> QED BY <1>2, <1>3

-----------------------------------------------------------------------------

\* A slot is taken only while there is one left.
LEMMA OneMore ==
  ASSUME PoolTypes, NEW r \in Requests, Cardinality(InFlight) < SlotLimit,
         InFlight' \subseteq InFlight \cup {r}
  PROVE  Cardinality(InFlight') <= SlotLimit
<1>1. IsFiniteSet(InFlight)
  BY PoolAssumption, FS_Subset DEF InFlight
<1>2. IsFiniteSet(InFlight \cup {r}) /\ Cardinality(InFlight \cup {r}) <= Cardinality(InFlight) + 1
  <2>1. Cardinality(InFlight) \in Nat
    BY <1>1, FS_CardinalityType
  <2>2. /\ IsFiniteSet(InFlight \cup {r})
        /\ Cardinality(InFlight \cup {r}) = IF r \in InFlight THEN Cardinality(InFlight) ELSE Cardinality(InFlight) + 1
    BY <1>1, FS_AddElement
  <2> QED BY <2>1, <2>2
<1>3. IsFiniteSet(InFlight') /\ Cardinality(InFlight') <= Cardinality(InFlight \cup {r})
  BY <1>2, FS_Subset
<1>4. /\ Cardinality(InFlight) \in Nat /\ Cardinality(InFlight') \in Nat
      /\ Cardinality(InFlight \cup {r}) \in Nat
  BY <1>1, <1>2, <1>3, FS_CardinalityType
<1> QED BY <1>2, <1>3, <1>4, PoolAssumption

\* A route is reserved that its transcript allows and that does not cool down.
LEMMA ReserveRouteKeeps ==
  ASSUME PoolInv, NEW r \in Requests, ReserveRoute(r)
  PROVE  PoolInv'
<1> USE DEF PoolInv
<1>1. /\ stage[r] = "queued" /\ Cardinality(InFlight) < SlotLimit
      /\ UNCHANGED <<clock, paused, retryAt, pictures, pin, signer, asks>>
  BY DEF ReserveRoute, HasSlot
<1>2. PICK p \in Choice(r) :
        /\ cursor' = (p % RouteCount) + 1
        /\ IF r \in pictures /\ p \notin Gemini
           THEN Over(r, "none") /\ UNCHANGED <<cooling, transient, resting, tried, disturbed>>
           ELSE /\ tried' = [tried EXCEPT ![r] = @ \cup {p}]
                /\ route' = [route EXCEPT ![r] = p]
                /\ IF r \in Chats \/ p \in Native
                   THEN /\ stage' = [stage EXCEPT ![r] = "first"]
                        /\ UNCHANGED <<cooling, transient, resting, ending, disturbed>>
                   ELSE /\ stage' = [stage EXCEPT ![r] =
                                       IF Cardinality(tried[r]) + 1 < Limit(r) THEN "queued" ELSE "idle"]
                        /\ UNCHANGED ending
                        /\ IF r \in Searches
                           THEN /\ resting' = [resting EXCEPT ![p] = Greater(@, clock + Long)]
                                /\ UNCHANGED <<cooling, transient, disturbed>>
                           ELSE /\ cooling' = [cooling EXCEPT ![p] = Greater(@, clock + Long)]
                                /\ transient' = [transient EXCEPT ![p] = 0]
                                /\ disturbed' = Turns
                                /\ UNCHANGED resting
  BY DEF ReserveRoute
<1>3. /\ p \in Routes /\ p \notin tried[r] /\ cooling[p] <= clock
      /\ Pinned(r) => p \in Compatible(pin[r])
      /\ r \in Chats /\ (r \in pictures => p \in Gemini) => p \in Eligible(r)
  BY ChoiceFits
<1>4. cursor' \in Routes
  <2>1. RouteCount \in Nat \ {0} /\ p \in 1..RouteCount
    BY <1>3, PoolAssumption DEF Routes
  <2>2. p % RouteCount \in 0..(RouteCount - 1)
    BY <2>1
  <2> QED BY <1>2, <2>1, <2>2 DEF Routes
<1>5. CASE r \in pictures /\ p \notin Gemini
  <2>1. Over(r, "none") /\ UNCHANGED <<cooling, transient, resting, tried, disturbed>>
    BY <1>2, <1>5
  <2> QED BY <1>1, <1>4, <2>1, EndedBare
<1>6. CASE ~(r \in pictures /\ p \notin Gemini)
  <2> DEFINE at == stage'[r]
  <2>1. /\ tried' = [tried EXCEPT ![r] = tried[r] \cup {p}] /\ route' = [route EXCEPT ![r] = p]
        /\ stage' = [stage EXCEPT ![r] = at] /\ UNCHANGED ending
        /\ at \in {"idle", "queued", "first"} /\ (r \in Chats => at = "first")
    BY <1>1, <1>2, <1>6 DEF PoolTypes
  <2>2. /\ cooling' \in [Routes -> Nat] /\ transient' \in [Routes -> Nat] /\ resting' \in [Routes -> Nat]
        /\ \A q \in Routes : transient'[q] <= cooling'[q] /\ cooling'[q] >= cooling[q]
        /\ \/ UNCHANGED <<cooling, disturbed>>
           \/ disturbed' = Turns /\ r \notin Chats
    <3>1. clock \in Nat /\ Long \in Nat /\ cooling[p] \in Nat /\ resting[p] \in Nat
      BY <1>3, PoolAssumption DEF PoolTypes
    <3> DEFINE c0 == Greater(cooling[p], clock + Long)  s0 == Greater(resting[p], clock + Long)
    <3>2. c0 \in Nat /\ c0 >= cooling[p] /\ s0 \in Nat
      BY <3>1 DEF Greater
    <3>3. \A q \in Routes : transient[q] <= cooling[q] /\ cooling[q] \in Nat
      BY DEF FlightInv, PoolTypes
    <3>4. CASE UNCHANGED <<cooling, transient, resting, disturbed>>
      BY <3>3, <3>4 DEF PoolTypes
    <3>5. CASE resting' = [resting EXCEPT ![p] = s0] /\ UNCHANGED <<cooling, transient, disturbed>>
      <4> HIDE DEF s0
      <4>1. resting' \in [Routes -> Nat]
        BY <3>2, <3>5 DEF PoolTypes
      <4>2. cooling' \in [Routes -> Nat] /\ transient' \in [Routes -> Nat]
        BY <3>5 DEF PoolTypes
      <4> QED BY <3>3, <3>5, <4>1, <4>2
    <3>6. CASE /\ cooling' = [cooling EXCEPT ![p] = c0] /\ transient' = [transient EXCEPT ![p] = 0]
               /\ disturbed' = Turns /\ UNCHANGED resting /\ r \notin Chats
      <4> HIDE DEF c0
      <4>1. cooling' \in [Routes -> Nat] /\ transient' \in [Routes -> Nat]
        BY <3>2, <3>6 DEF PoolTypes
      <4>2. \A q \in Routes : /\ cooling'[q] = IF q = p THEN c0 ELSE cooling[q]
                              /\ transient'[q] = IF q = p THEN 0 ELSE transient[q]
        BY <3>6 DEF PoolTypes
      <4>3. \A q \in Routes : transient'[q] <= cooling'[q] /\ cooling'[q] >= cooling[q]
        BY <3>2, <3>3, <4>2
      <4> QED BY <3>6, <4>1, <4>3 DEF PoolTypes
    <3> QED BY <1>2, <1>6, <3>4, <3>5, <3>6
  <2>3. r \in Requests /\ tried[r] \subseteq Routes /\ 0 \notin tried[r]
    BY DEF PoolTypes, Routes
  <2> HIDE DEF at
  <2>4. PoolTypes'
    <3>1. stage' \in [Requests -> {"idle", "queued"} \cup Posts]
      BY <2>1 DEF PoolTypes, Posts
    <3>2. tried' \in [Requests -> SUBSET Routes]
      BY <1>3, <2>1, <2>3 DEF PoolTypes
    <3>3. p \in 0..RouteCount
      BY <1>3, PoolAssumption DEF Routes
    <3>4. route' \in [Requests -> 0..RouteCount]
      BY <2>1, <3>3 DEF PoolTypes
    <3>5. disturbed' \subseteq Turns
      BY <2>2 DEF PoolTypes
    <3> QED BY <1>1, <1>4, <2>1, <2>2, <3>1, <3>2, <3>4, <3>5 DEF PoolTypes
  <2>5. /\ \A s \in Requests \ {r} : stage'[s] = stage[s] /\ route'[s] = route[s] /\ tried'[s] = tried[s]
        /\ stage'[r] = at /\ route'[r] = p /\ tried'[r] = tried[r] \cup {p}
    BY <2>1 DEF PoolTypes
  <2>6. InFlight' \subseteq InFlight \cup {r} /\ r \notin InFlight
    BY <1>1, <2>5 DEF InFlight
  <2>7. FlightInv'
    <3>1. Cardinality(InFlight') <= SlotLimit
      BY <1>1, <2>6, OneMore
    <3>2. \A s \in InFlight' : route'[s] \in tried'[s]
      BY <2>5, <2>6 DEF FlightInv, InFlight
    <3>3. \A c \in Chats : c \notin InFlight' => route'[c] = 0
      <4>1. ASSUME NEW c \in Chats, c # r, c \notin InFlight' PROVE route'[c] = 0
        <5>1. c \in Requests
          BY DEF Requests
        <5>2. c \notin InFlight
          BY <2>5, <4>1, <5>1 DEF InFlight
        <5> QED BY <2>5, <4>1, <5>1, <5>2 DEF FlightInv
      <4>2. r \in Chats => r \in InFlight'
        BY <2>1, <2>5 DEF InFlight
      <4> QED BY <4>1, <4>2
    <3> QED BY <1>1, <2>2, <3>1, <3>2, <3>3 DEF FlightInv
  <2>8. clock' >= clock /\ paused' = paused
    BY <1>1 DEF PoolTypes
  <2>9. PauseOnlyWhenAllCool'
    BY <2>2, <2>4, <2>8, PausesKept
  <2>10. ASSUME NEW t \in Turns, t # r PROVE SignedInv(t)' /\ HintInv(t)'
    <3>1. t \in Requests
      BY PoolAssumption DEF Requests
    <3>2. t \notin disturbed' => cooling' = cooling /\ t \notin disturbed
      BY <2>2
    <3> QED BY <1>1, <2>1, <2>4, <2>5, <2>8, <2>10, <3>1, <3>2, Foreign
  <2>11. ASSUME r \in Turns PROVE SignedInv(r)' /\ HintInv(r)'
    <3>1. r \in Chats /\ at = "first"
      BY <2>1, <2>11, PoolAssumption
    <3>2. UNCHANGED <<cooling, disturbed>>
      BY <2>2, <3>1
    <3>3. Eligible(r)' = Eligible(r)
      BY <1>1 DEF Eligible, Compatible, Pinned
    <3>4. tried'[r] \subseteq Eligible(r)
      BY <1>1, <1>3, <1>6, <2>5, <2>11, <3>1 DEF SignedInv
    <3>5. signer[r] # 0 => p \in Compatible(signer[r])
      <4>1. ASSUME signer[r] # 0 PROVE p \in Compatible(signer[r])
        <5>1. pin[r] # 0 /\ pin[r] \in Compatible(signer[r])
          BY <2>11, <4>1 DEF SignedInv
        <5>2. signer[r] \in Routes
          BY <2>11, <4>1, PoolAssumption DEF PoolTypes, Routes
        <5>3. Compatible(pin[r]) = Compatible(signer[r])
          BY <5>1, <5>2, CompatibleIs
        <5> QED BY <1>3, <2>11, <5>1, <5>3 DEF Pinned
      <4> QED BY <4>1
    <3>6. SignedInv(r)'
      BY <1>1, <2>5, <2>11, <3>3, <3>4, <3>5 DEF SignedInv, Compatible
    <3>7. r \notin InFlight /\ route[r] = 0
      BY <1>1, <2>6, <3>1 DEF FlightInv
    <3>8. ASSUME retryAt'[r] # 0, r \notin disturbed' PROVE Kept(tried[r] \ {route[r]}, r)'
      <4>1. \E q \in tried[r] \ {route[r]} : cooling[q] <= retryAt[r] /\ paused < retryAt[r] + Second
        BY <1>1, <2>11, <3>2, <3>8 DEF HintInv, Kept
      <4>2. tried[r] \subseteq tried'[r] \ {route'[r]}
        BY <1>3, <2>5
      <4>3. \E q \in tried'[r] \ {route'[r]} : cooling'[q] <= retryAt'[r] /\ paused' < retryAt'[r] + Second
        BY <1>1, <3>2, <4>1, <4>2
      <4> QED BY <4>3 DEF Kept
    <3>9. cooling'[route'[r]] <= clock'
      BY <1>1, <1>3, <2>5, <3>2
    <3>10. stage'[r] # "idle"
      BY <2>5, <3>1
    <3>11. HintInv(r)'
      BY <3>8, <3>9, <3>10 DEF HintInv
    <3> QED BY <3>6, <3>11
  <2> QED BY <2>4, <2>7, <2>9, <2>10, <2>11
<1> QED BY <1>5, <1>6

-----------------------------------------------------------------------------
(* The steps of a request in flight, of a turn and of the clock.            *)

\* A rate limit marks, tells the turn and may pause the pool.
LEMMA RateLimitedKeeps ==
  ASSUME PoolInv, NEW r \in Chats, NEW delay \in Nat, RateLimited(r, delay)
  PROVE  PoolInv'
<1>1. /\ stage[r] \in Posts /\ Mark(r, delay, TRUE) /\ Note(r, {Cooled(route[r], delay) - clock})
      /\ GoOn(r) /\ UNCHANGED Rest
  BY DEF RateLimited, Chat
<1>2. Lesser(delay, LimitPause) \in Nat
  BY PoolAssumption DEF Lesser
<1>3. (\E d \in Nat : Pause(d)) \/ paused' = paused
  BY <1>2 DEF RateLimited
<1> QED BY <1>1, <1>3, MarkedAndNoted

\* A passing failure of the server does the same.
LEMMA ServerFailsKeeps ==
  ASSUME PoolInv, NEW r \in Chats, NEW delay \in Nat, ServerFails(r, delay)
  PROVE  PoolInv'
<1>1. /\ stage[r] \in Posts /\ Mark(r, delay, TRUE) /\ Note(r, {Cooled(route[r], delay) - clock})
      /\ GoOn(r) /\ UNCHANGED Rest
  BY DEF ServerFails, Chat
<1>2. (\E d \in Nat : Pause(d)) \/ paused' = paused
  BY PoolAssumption DEF ServerFails
<1> QED BY <1>1, <1>2, MarkedAndNoted

\* A conflict marks and tells the turn.
LEMMA ConflictKeeps ==
  ASSUME PoolInv, NEW r \in Chats, Conflict(r)
  PROVE  PoolInv'
<1>1. /\ stage[r] \in Posts /\ Mark(r, HintLimit, TRUE) /\ Note(r, {Cooled(route[r], HintLimit) - clock})
      /\ GoOn(r) /\ UNCHANGED Rest /\ paused' = paused /\ HintLimit \in Nat
  BY PoolAssumption DEF Conflict, Chat
<1> QED BY <1>1, MarkedAndNoted

\* A failure of the server that will not pass, and a refusal of the key.
LEMMA SternKeeps ==
  ASSUME PoolInv, NEW r \in Chats, ServerGone(r) \/ Denied(r)
  PROVE  PoolInv'
<1>0. r \in Requests /\ FALSE \in BOOLEAN /\ Brief \in Nat /\ Long \in Nat /\ FaultPause \in Nat
  BY PoolAssumption DEF Requests
<1>1. /\ stage[r] \in Posts /\ UNCHANGED retryAt /\ GoOn(r) /\ UNCHANGED Rest
      /\ \E delay \in Nat : Mark(r, delay, FALSE)
      /\ (\E d \in Nat : Pause(d)) \/ paused' = paused
  <2>1. CASE ServerGone(r)
    BY <1>0, <2>1 DEF ServerGone, Chat
  <2>2. CASE Denied(r)
    BY <1>0, <2>2 DEF Denied, Chat
  <2> QED BY <2>1, <2>2
<1>2. /\ cooling' \in [Routes -> Nat] /\ transient' \in [Routes -> Nat]
      /\ \A p \in Routes : transient'[p] <= cooling'[p] /\ cooling'[p] >= cooling[p]
      /\ \A p \in Routes \ {route[r]} : cooling'[p] = cooling[p]
      /\ disturbed' \subseteq Turns /\ disturbed \subseteq disturbed' /\ Turns \ {r} \subseteq disturbed'
  BY <1>0, <1>1, MarkIs
<1> QED BY <1>1, <1>2, NotNoted

\* An error that says nothing of the route leaves it as it is.
LEMMA UnmarkedKeeps ==
  ASSUME PoolInv, NEW r \in Chats, stage[r] \in Posts, GoOn(r), NoMark,
         UNCHANGED <<paused, retryAt>>, UNCHANGED Rest
  PROVE  PoolInv'
<1>1. UNCHANGED <<cooling, transient, disturbed>>
  BY DEF NoMark
<1>2. /\ cooling' \in [Routes -> Nat] /\ transient' \in [Routes -> Nat]
      /\ \A p \in Routes : transient'[p] <= cooling'[p] /\ cooling'[p] >= cooling[p]
      /\ disturbed' \subseteq Turns
  BY <1>1 DEF PoolInv, PoolTypes, FlightInv
<1> QED BY <1>1, <1>2, NotNoted

\* An error without a hint moves on.
LEMMA FailedKeeps ==
  ASSUME PoolInv, NEW r \in Chats, Failed(r)
  PROVE  PoolInv'
<1>1. stage[r] \in Posts /\ GoOn(r) /\ NoMark /\ UNCHANGED <<paused, retryAt>> /\ UNCHANGED Rest
  BY DEF Failed, Chat
<1> QED BY <1>1, UnmarkedKeeps

\* A completion that is refused, cancelled or answered by the native API.
LEMMA StopKeeps ==
  ASSUME PoolInv, NEW r \in Requests, stage[r] # "idle", NoMark, UNCHANGED paused, UNCHANGED Rest,
         \/ Over(r, "refused") /\ ForgetHint(r)
         \/ Over(r, "cancelled") /\ UNCHANGED retryAt
         \/ Over(r, "answered") /\ UNCHANGED retryAt
  PROVE  PoolInv'
<1>1. /\ UNCHANGED <<clock, cooling, transient, resting, tried, pictures, disturbed, asks, paused, pin, signer>>
      /\ cursor' \in Routes
  BY DEF NoMark, Rest, PoolInv, PoolTypes
<1> QED BY <1>1, EndedBare

\* What is not accepted ends a signed transcript's completion without a hint.
LEMMA UnacceptableKeeps ==
  ASSUME PoolInv, NEW r \in Chats, Unacceptable(r)
  PROVE  PoolInv'
<1>1. r \in Requests /\ stage[r] \in Posts /\ stage[r] # "idle"
      /\ NoMark /\ UNCHANGED paused /\ UNCHANGED Rest
  BY DEF Unacceptable, Chat, Posts, Requests
<1>2. CASE Pinned(r)
  <2>1. Over(r, "refused") /\ ForgetHint(r)
    BY <1>2 DEF Unacceptable, NoHint
  <2> QED BY <1>1, <2>1, StopKeeps
<1>3. CASE ~Pinned(r)
  <2>1. GoOn(r) /\ UNCHANGED retryAt
    BY <1>3 DEF Unacceptable
  <2> QED BY <1>1, <2>1, UnmarkedKeeps
<1> QED BY <1>2, <1>3

\* A decline ends a completion without a hint.
LEMMA DeclinedKeeps ==
  ASSUME PoolInv, NEW r \in Chats, Declined(r)
  PROVE  PoolInv'
<1>1. r \in Requests /\ stage[r] # "idle" /\ NoMark /\ UNCHANGED paused /\ UNCHANGED Rest
      /\ Over(r, "refused") /\ ForgetHint(r)
  BY DEF Declined, Chat, Posts, Requests, NoHint
<1> QED BY <1>1, StopKeeps

\* A cancelled completion may keep its hint, which nobody follows.
LEMMA CancelAskKeeps ==
  ASSUME PoolInv, NEW r \in Chats, CancelAsk(r)
  PROVE  PoolInv'
<1>1. r \in Requests /\ stage[r] # "idle" /\ NoMark /\ UNCHANGED <<paused, retryAt>> /\ UNCHANGED Rest
      /\ Over(r, "cancelled")
  BY DEF CancelAsk, Requests
<1> QED BY <1>1, StopKeeps

\* A native answer ends its request.
LEMMA NativeAnswersKeeps ==
  ASSUME PoolInv, NEW r \in Searches \cup Listenings, NativeAnswers(r)
  PROVE  PoolInv'
<1>1. r \in Requests /\ stage[r] # "idle" /\ NoMark /\ UNCHANGED <<paused, retryAt>> /\ UNCHANGED Rest
      /\ Over(r, "answered")
  BY DEF NativeAnswers, Requests
<1> QED BY <1>1, StopKeeps

\* The first answer with calls pins the transcript to a route; a later one is of a route
\* that can read it.
LEMMA AnswerChatKeeps ==
  ASSUME PoolInv, NEW r \in Chats, NEW calls \in BOOLEAN, AnswerChat(r, calls)
  PROVE  PoolInv'
<1> USE DEF PoolInv
<1>b. r \in Requests
  BY DEF Requests
<1> DEFINE pins == r \in Turns /\ (pin[r] # 0 \/ calls)
<1>1. /\ stage[r] \in Posts /\ stage[r] # "idle" /\ Over(r, "answered")
      /\ UNCHANGED <<clock, cooling, transient, resting, paused, cursor, tried, pictures, disturbed, asks>>
      /\ retryAt' = (IF r \in Turns THEN [retryAt EXCEPT ![r] = 0] ELSE retryAt)
      /\ pin' = (IF pins THEN [pin EXCEPT ![r] = route[r]] ELSE pin)
      /\ signer' = (IF pins /\ signer[r] = 0 THEN [signer EXCEPT ![r] = route[r]] ELSE signer)
  BY DEF AnswerChat, Chat, Posts, NoMark, ForgetHint
<1>2. r \in InFlight /\ route[r] \in Routes
  BY <1>b, <1>1, Asking
<1>3. route[r] \in 0..RouteCount /\ route[r] # 0
  BY <1>2, PoolAssumption DEF Routes
<1>4. pin' \in [Turns -> 0..RouteCount] /\ signer' \in [Turns -> 0..RouteCount]
  BY <1>1, <1>3 DEF PoolTypes
<1>5. \A t \in Turns \ {r} : pin'[t] = pin[t] /\ signer'[t] = signer[t]
  BY <1>1 DEF PoolTypes
<1>6. ASSUME r \in Turns
      PROVE  (signer'[r] = 0 <=> pin'[r] = 0) /\ (pin'[r] # 0 => pin'[r] \in Compatible(signer'[r]))
  <2>1. /\ pin'[r] = (IF pins THEN route[r] ELSE pin[r])
        /\ signer'[r] = (IF pins /\ signer[r] = 0 THEN route[r] ELSE signer[r])
    BY <1>1, <1>6 DEF PoolTypes
  <2>2. signer[r] = 0 <=> pin[r] = 0
    BY <1>6 DEF SignedInv
  <2>3. signer[r] # 0 => route[r] \in Compatible(signer[r])
    BY <1>2, <1>6 DEF SignedInv
  <2>4. pin[r] # 0 => pin[r] \in Compatible(signer[r])
    BY <1>6 DEF SignedInv
  <2>5. route[r] \in Compatible(route[r])
    BY <1>2, CompatibleIs
  <2> HIDE DEF pins
  <2> QED BY <1>3, <2>1, <2>2, <2>3, <2>4, <2>5
<1>7. 0 \in Nat /\ 0 <= clock + HintLimit /\ cursor' \in Routes /\ paused' \in Nat
  BY <1>1, PoolAssumption DEF PoolTypes
<1> HIDE DEF pins
<1> QED BY <1>b, <1>1, <1>4, <1>5, <1>6, <1>7, Ended

\* A native request that fails leaves chats alone or disturbs every turn.
LEMMA NativeFailure ==
  ASSUME PoolInv, NEW r \in Searches \cup Listenings, stage[r] \in Posts, GoOn(r),
         UNCHANGED <<clock, cursor, tried, pictures, pin, signer, asks, paused, retryAt>>,
         resting' \in [Routes -> Nat],
         NoMark \/ \E delay \in Nat : Mark(r, delay, FALSE)
  PROVE  PoolInv'
<1>1. r \in Requests /\ r \notin Turns
  BY PoolAssumption DEF Requests
<1>2. /\ cooling' \in [Routes -> Nat] /\ transient' \in [Routes -> Nat]
      /\ \A p \in Routes : transient'[p] <= cooling'[p] /\ cooling'[p] >= cooling[p]
      /\ disturbed' \subseteq Turns /\ disturbed \subseteq disturbed'
      /\ cooling' = cooling \/ Turns \ {r} \subseteq disturbed'
  <2>1. CASE NoMark
    BY <2>1 DEF NoMark, PoolInv, PoolTypes, FlightInv
  <2>2. CASE \E delay \in Nat : Mark(r, delay, FALSE)
    <3>1. FALSE \in BOOLEAN
      OBVIOUS
    <3> QED BY <1>1, <2>2, <3>1, MarkIs
  <2> QED BY <2>1, <2>2
<1>3. paused' \in Nat /\ paused' = paused /\ 0 \in Nat
      /\ retryAt' = (IF r \in Turns THEN [retryAt EXCEPT ![r] = 0] ELSE retryAt)
  BY <1>1 DEF PoolInv, PoolTypes
<1> QED BY <1>1, <1>2, <1>3, FailedPost

\* A search that fails takes its route out of searches.
LEMMA SearchFailsKeeps ==
  ASSUME PoolInv, NEW r \in Searches, NEW delay \in Nat, SearchFails(r, delay)
  PROVE  PoolInv'
<1>1. /\ stage[r] \in Posts /\ GoOn(r) /\ NoMark
      /\ UNCHANGED <<clock, cursor, tried, pictures, pin, signer, asks, paused, retryAt>>
  BY DEF SearchFails, Posts, RestRoute
<1>2. resting' \in [Routes -> Nat]
  <2>1. r \in Requests
    BY DEF Requests
  <2>2. route[r] \in Routes
    BY <1>1, <2>1, Asking
  <2> DEFINE s0 == Greater(resting[route[r]], clock + delay)
  <2>3. s0 \in Nat
    BY <2>2 DEF Greater, PoolInv, PoolTypes
  <2>4. resting' = resting \/ resting' = [resting EXCEPT ![route[r]] = s0]
    BY DEF SearchFails, RestRoute
  <2> HIDE DEF s0
  <2> QED BY <2>3, <2>4 DEF PoolInv, PoolTypes
<1> QED BY <1>1, <1>2, NativeFailure

\* A listening that fails may put its route into cool-down, which disturbs every turn.
LEMMA ListeningFailsKeeps ==
  ASSUME PoolInv, NEW r \in Listenings, NEW delay \in Nat, ListeningFails(r, delay)
  PROVE  PoolInv'
<1>1. /\ stage[r] \in Posts /\ GoOn(r)
      /\ UNCHANGED <<clock, cursor, tried, pictures, pin, signer, asks, paused, retryAt>>
      /\ resting' \in [Routes -> Nat]
      /\ NoMark \/ Mark(r, delay, FALSE)
  BY DEF ListeningFails, Posts, Rest, PoolInv, PoolTypes
<1> QED BY <1>1, NativeFailure

\* Time ends pauses and cool-downs, and hints come due.
LEMMA PassKeeps ==
  ASSUME PoolInv, Pass
  PROVE  PoolInv'
<1> USE DEF PoolInv
<1>1. /\ clock' = clock + 1 /\ clock < MaxClock
      /\ UNCHANGED <<cooling, transient, resting, paused, cursor, stage, tried, route, pictures,
                     ending, disturbed, asks, pin, retryAt, signer>>
  BY DEF Pass, scopeVars
<1>2. clock \in Nat /\ clock' \in 0..MaxClock /\ clock' >= clock
  BY <1>1, PoolAssumption DEF PoolTypes
<1>3. PoolTypes'
  BY <1>1, <1>2 DEF PoolTypes
<1>4. InFlight' = InFlight
  BY <1>1 DEF InFlight
<1>5. FlightInv'
  <2>1. \A t \in Turns : retryAt[t] \in Nat /\ HintLimit \in Nat
    BY PoolAssumption DEF PoolTypes
  <2> QED BY <1>1, <1>2, <1>4, <2>1 DEF FlightInv
<1>6. \A p \in Routes : cooling'[p] >= cooling[p]
  BY <1>1 DEF PoolTypes
<1>7. PauseOnlyWhenAllCool'
  BY <1>1, <1>2, <1>3, <1>6, PausesKept
<1>8. ASSUME NEW t \in Turns PROVE SignedInv(t)' /\ HintInv(t)'
  BY <1>1, <1>2, <1>3, Foreign
<1> QED BY <1>3, <1>5, <1>7, <1>8

\* A turn that ends forgets its pin, its signer and its hint.
LEMMA LeaveScopeKeeps ==
  ASSUME PoolInv, NEW r \in Turns, LeaveScope(r)
  PROVE  PoolInv'
<1> USE DEF PoolInv
<1>1. /\ stage[r] = "idle"
      /\ pin' = [pin EXCEPT ![r] = 0] /\ retryAt' = [retryAt EXCEPT ![r] = 0] /\ signer' = [signer EXCEPT ![r] = 0]
      /\ UNCHANGED <<clock, cooling, transient, resting, paused, cursor, stage, tried, route,
                     pictures, ending, disturbed, asks>>
  BY DEF LeaveScope
<1>2. 0 \in 0..RouteCount /\ clock' >= clock /\ \A p \in Routes : cooling'[p] >= cooling[p]
  BY <1>1, PoolAssumption DEF PoolTypes
<1>3. PoolTypes'
  BY <1>1, <1>2 DEF PoolTypes
<1>4. /\ pin'[r] = 0 /\ retryAt'[r] = 0 /\ signer'[r] = 0
      /\ \A t \in Turns \ {r} : pin'[t] = pin[t] /\ retryAt'[t] = retryAt[t] /\ signer'[t] = signer[t]
  BY <1>1 DEF PoolTypes
<1>5. InFlight' = InFlight /\ r \notin InFlight
  BY <1>1 DEF InFlight
<1>6. FlightInv'
  <2>1. \A t \in Turns : retryAt'[t] <= clock' + HintLimit
    BY <1>1, <1>4, PoolAssumption DEF FlightInv, PoolTypes
  <2> QED BY <1>1, <1>5, <2>1 DEF FlightInv
<1>7. PauseOnlyWhenAllCool'
  BY <1>1, <1>2, <1>3, PausesKept
<1>8. ASSUME NEW t \in Turns, t # r PROVE SignedInv(t)' /\ HintInv(t)'
  BY <1>1, <1>2, <1>3, <1>4, <1>8, Foreign
<1>9. SignedInv(r)' /\ HintInv(r)'
  BY <1>1, <1>4, <1>5 DEF SignedInv, HintInv
<1> QED BY <1>3, <1>6, <1>7, <1>8, <1>9

\* An idle pool satisfies the invariant.
LEMMA PoolStarts == PoolInit => PoolInv
<1> SUFFICES ASSUME PoolInit PROVE PoolInv
  OBVIOUS
<1> USE DEF PoolInit
<1>1. /\ 0 \in 0..MaxClock /\ 0 \in 0..RouteCount /\ 1 \in Routes /\ 0 \in Nat
      /\ Turns \subseteq Requests /\ SlotLimit \in Nat /\ HintLimit \in Nat
  BY PoolAssumption DEF Routes, Requests
<1>2. PoolTypes
  BY <1>1 DEF PoolTypes
<1>3. InFlight = {}
  BY DEF InFlight
<1>4. FlightInv
  <2>1. Cardinality(InFlight) = 0
    BY <1>3, FS_EmptySet
  <2>2. \A c \in Chats : route[c] = 0
    BY DEF Requests
  <2> QED BY <1>1, <1>3, <2>1, <2>2 DEF FlightInv
<1>5. PauseOnlyWhenAllCool
  BY DEF PauseOnlyWhenAllCool
<1>6. ASSUME NEW t \in Turns PROVE SignedInv(t) /\ HintInv(t)
  BY <1>1, <1>3 DEF SignedInv, HintInv
<1> QED BY <1>2, <1>4, <1>5, <1>6 DEF PoolInv

\* Every step of the pool keeps the invariant.
LEMMA PoolSteps == PoolInv /\ [PoolNext]_poolVars => PoolInv'
<1> SUFFICES ASSUME PoolInv, [PoolNext]_poolVars PROVE PoolInv'
  OBVIOUS
<1>1. CASE Pass
  BY <1>1, PassKeeps
<1>2. ASSUME NEW r \in Requests, NEW shows \in BOOLEAN, Ask(r, shows) PROVE PoolInv'
  BY <1>2, AskKeeps
<1>3. ASSUME NEW r \in Requests, QueueTimeout(r) \/ FindPaused(r) \/ FindNone(r) \/ ReserveRoute(r)
      PROVE  PoolInv'
  BY <1>3, QueueTimeoutKeeps, FindPausedKeeps, FindNoneKeeps, ReserveRouteKeeps
<1>4. ASSUME NEW r \in Chats, PostAgain(r) \/ PostShrunk(r) PROVE PoolInv'
  <2>1. PICK next \in Posts : stage' = [stage EXCEPT ![r] = next]
    BY <1>4 DEF PostAgain, PostShrunk, Posts
  <2>2. r \in Requests /\ stage[r] \in Posts
        /\ UNCHANGED <<cooling, transient, paused, route, retryAt, ending, disturbed>> /\ UNCHANGED Rest
    BY <1>4 DEF PostAgain, PostShrunk, Posts, Chat, Requests
  <2> QED BY <2>1, <2>2, SamePost
<1>5. ASSUME NEW r \in Chats,
             \/ ServerGone(r) \/ Conflict(r) \/ Denied(r) \/ Unacceptable(r) \/ Silent(r)
             \/ Failed(r) \/ Declined(r) \/ CancelAsk(r)
      PROVE  PoolInv'
  BY <1>5, SternKeeps, ConflictKeeps, UnacceptableKeeps, SilenceKeeps, FailedKeeps, DeclinedKeeps,
     CancelAskKeeps
<1>6. ASSUME NEW r \in Chats, NEW delay \in Quota \cup {Brief}, RateLimited(r, delay) \/ ServerFails(r, delay)
      PROVE  PoolInv'
  <2>1. delay \in Nat
    BY PoolAssumption
  <2> QED BY <1>6, <2>1, RateLimitedKeeps, ServerFailsKeeps
<1>7. ASSUME NEW r \in Chats, NEW calls \in BOOLEAN, AnswerChat(r, calls) PROVE PoolInv'
  BY <1>7, AnswerChatKeeps
<1>8. ASSUME NEW t \in Turns, LeaveScope(t) PROVE PoolInv'
  BY <1>8, LeaveScopeKeeps
<1>9. ASSUME NEW r \in Searches \cup Listenings, NativeAnswers(r) PROVE PoolInv'
  BY <1>9, NativeAnswersKeeps
<1>10. ASSUME NEW r \in Searches \cup Listenings, OlderInterface(r) PROVE PoolInv'
  <2>1. "second" \in Posts /\ r \in Requests /\ stage[r] \in Posts /\ stage' = [stage EXCEPT ![r] = "second"]
        /\ UNCHANGED <<cooling, transient, paused, route, retryAt, ending, disturbed>> /\ UNCHANGED Rest
    BY <1>10 DEF OlderInterface, Posts, Requests
  <2> QED BY <2>1, SamePost
<1>11. ASSUME NEW r \in Searches \cup Listenings, NEW delay \in NativeDelays,
              SearchFails(r, delay) \/ ListeningFails(r, delay)
       PROVE  PoolInv'
  <2>1. delay \in Nat
    BY PoolAssumption
  <2>2. CASE SearchFails(r, delay)
    <3>1. r \in Searches
      BY <2>2 DEF SearchFails
    <3> QED BY <2>1, <2>2, <3>1, SearchFailsKeeps
  <2>3. CASE ListeningFails(r, delay)
    <3>1. r \in Listenings
      BY <2>3 DEF ListeningFails
    <3> QED BY <2>1, <2>3, <3>1, ListeningFailsKeeps
  <2> QED BY <1>11, <2>2, <2>3
<1>12. CASE UNCHANGED poolVars
  <2>1. UNCHANGED <<clock, cooling, transient, resting, paused, cursor, stage, tried, route, pictures,
                    pin, retryAt, ending, signer, disturbed, asks>>
    BY <1>12 DEF poolVars
  <2>2. PoolTypes'
    BY <2>1 DEF PoolInv, PoolTypes
  <2>3. FlightInv'
    BY <2>1 DEF PoolInv, FlightInv, InFlight
  <2>4. PauseOnlyWhenAllCool'
    BY <2>1 DEF PoolInv, PauseOnlyWhenAllCool
  <2>5. clock' >= clock
    BY <2>1 DEF PoolInv, PoolTypes
  <2>6. ASSUME NEW t \in Turns PROVE SignedInv(t)' /\ HintInv(t)'
    BY <2>1, <2>2, <2>5, Foreign DEF PoolInv
  <2> QED BY <2>2, <2>3, <2>4, <2>6 DEF PoolInv
<1> QED BY <1>1, <1>2, <1>3, <1>4, <1>5, <1>6, <1>7, <1>8, <1>9, <1>10, <1>11, <1>12 DEF PoolNext

\* The invariant holds throughout.
LEMMA PoolHolds == PoolSpec => []PoolInv
BY PoolStarts, PoolSteps, PTL DEF PoolSpec

\* The invariant implies what the runs check.
LEMMA PoolInvSound == PoolInv => RoutesSound
<1> SUFFICES ASSUME PoolInv PROVE RoutesSound
  OBVIOUS
<1> USE DEF PoolInv
<1>1. \A t \in Turns : retryAt[t] \in Nat /\ retryAt[t] <= clock + HintLimit /\ pin[t] \in 0..RouteCount
  BY DEF PoolTypes, FlightInv
<1>2. clock \in Nat /\ HintLimit \in Nat
  BY PoolAssumption DEF PoolTypes
<1>3. \A t \in Turns : retryAt[t] \in 0..(clock + HintLimit)
  BY <1>1, <1>2
<1>4. PoolTypeOK
  BY <1>1, <1>3 DEF PoolTypeOK, PoolTypes, FlightInv
<1>5. TranscriptStays
  BY DEF TranscriptStays, SignedInv
<1>6. RefusalFinal
  BY DEF RefusalFinal, HintInv
<1>7. HintUseful
  <2> SUFFICES ASSUME NEW t \in Turns, stage[t] = "idle", ending[t] = "none", retryAt[t] # 0, t \notin disturbed
               PROVE  (\E p \in Eligible(t) : cooling[p] <= retryAt[t]) /\ paused < retryAt[t] + Second
    BY DEF HintUseful
  <2>1. Kept(Eligible(t), t)
    BY DEF HintInv
  <2> QED BY <2>1 DEF Kept
<1> QED BY <1>4, <1>5, <1>6, <1>7 DEF RoutesSound

\* A signed transcript is sent only to routes that can read it; chat is paused only while
\* every route cools down, a refusal leaves no hint, and a hint is worth following
\* (ai_client.py:426-469, 1767-1780).
THEOREM RoutesAreSound == PoolSpec => []RoutesSound
BY PoolHolds, PoolInvSound, PTL

\* A search ends its post in two ways only.
LEMMA SearchSteps ==
  ASSUME PoolInv, [PoolNext]_poolVars, NEW r \in Searches, stage[r] = "first", stage'[r] # "first"
  PROVE  cooling' = cooling
<1>1. r \in Requests /\ r \notin Chats /\ r \notin Listenings /\ r \notin Turns
  BY PoolAssumption DEF Requests
<1>2. stage \in [Requests -> {"idle", "queued"} \cup Posts]
  BY DEF PoolInv, PoolTypes
<1>3. ASSUME NEW s, s # r, NEW at, stage' = [stage EXCEPT ![s] = at] PROVE FALSE
  BY <1>1, <1>2, <1>3
<1>4. CASE Pass \/ UNCHANGED poolVars
  BY <1>4 DEF Pass, poolVars
<1>5. ASSUME NEW s \in Requests, NEW shows \in BOOLEAN, Ask(s, shows) PROVE cooling' = cooling
  BY <1>5 DEF Ask
<1>6. ASSUME NEW s \in Requests, QueueTimeout(s) \/ FindPaused(s) \/ FindNone(s) PROVE cooling' = cooling
  BY <1>6 DEF QueueTimeout, FindPaused, FindNone
<1>7. ASSUME NEW s \in Requests, ReserveRoute(s) PROVE FALSE
  <2>1. s # r
    BY <1>7 DEF ReserveRoute, HasSlot
  <2>2. \E at : stage' = [stage EXCEPT ![s] = at]
    BY <1>7 DEF ReserveRoute, Over
  <2> QED BY <1>3, <2>1, <2>2
<1>8. ASSUME NEW s \in Chats,
             \/ PostAgain(s) \/ PostShrunk(s) \/ ServerGone(s) \/ Conflict(s) \/ Denied(s)
             \/ Unacceptable(s) \/ Silent(s) \/ Failed(s) \/ Declined(s) \/ CancelAsk(s)
             \/ \E delay \in Quota \cup {Brief} : RateLimited(s, delay) \/ ServerFails(s, delay)
             \/ \E calls \in BOOLEAN : AnswerChat(s, calls)
      PROVE  FALSE
  <2>1. \E at : stage' = [stage EXCEPT ![s] = at]
    BY <1>8 DEF PostAgain, PostShrunk, ServerGone, Conflict, Denied, Unacceptable, Silent, Failed, Declined,
                CancelAsk, RateLimited, ServerFails, AnswerChat, GoOn, Over
  <2> QED BY <1>1, <1>3, <2>1
<1>9. ASSUME NEW t \in Turns, LeaveScope(t) PROVE cooling' = cooling
  BY <1>9 DEF LeaveScope
<1>10. ASSUME NEW s \in Searches \cup Listenings, NativeAnswers(s) PROVE cooling' = cooling
  BY <1>10 DEF NativeAnswers, NoMark
<1>11. ASSUME NEW s \in Searches \cup Listenings, OlderInterface(s) PROVE cooling' = cooling
  BY <1>11 DEF OlderInterface
<1>12. ASSUME NEW s \in Searches \cup Listenings, NEW delay \in NativeDelays, SearchFails(s, delay)
       PROVE  cooling' = cooling
  BY <1>12 DEF SearchFails, RestRoute, NoMark
<1>13. ASSUME NEW s \in Searches \cup Listenings, NEW delay \in NativeDelays, ListeningFails(s, delay)
       PROVE  FALSE
  <2>1. s # r
    BY <1>1, <1>13 DEF ListeningFails
  <2>2. \E at : stage' = [stage EXCEPT ![s] = at]
    BY <1>13 DEF ListeningFails, GoOn, Over
  <2> QED BY <1>3, <2>1, <2>2
<1> QED BY <1>4, <1>5, <1>6, <1>7, <1>8, <1>9, <1>10, <1>11, <1>12, <1>13 DEF PoolNext

\* A search that fails puts no route into cool-down for chats.
THEOREM SearchesSpareChats == PoolSpec => SearchSparesChat
<1>1. PoolInv /\ [PoolNext]_poolVars =>
        [\A r \in Searches : stage[r] = "first" /\ stage'[r] # "first" => cooling' = cooling]_poolVars
  BY SearchSteps
<1> QED BY <1>1, PoolHolds, PTL DEF PoolSpec, SearchSparesChat

-----------------------------------------------------------------------------
(* Answers from the web.  What a fetch does is safe by itself, so any number  *)
(* of them is; the sources of an answer are well chosen from the moment they   *)
(* are found, and an answer is good from the moment it is made, in the memory  *)
(* as in a reply.                                                              *)

\* Sources as the properties want them: distinct, and at most two of a host.
FewOfAHost(list) ==
  \A i \in DOMAIN list :
    Cardinality({j \in DOMAIN list : HostOf[list[j]] = HostOf[list[i]]}) <= 2
WellChosen(list) == list \in Seq(PublicAddresses) /\ IsInjective(list) /\ FewOfAHost(list)

\* A fetch asks about an address before it requests it, hop by hop.
Fetch ==
  [at : PublicAddresses, state : {"check", "get", "read", "failed"}, hops : 0 .. RedirectLimit,
   cleared : SUBSET Addresses, requested : SUBSET Addresses]
SafeFetch ==
  {f \in Fetch : /\ f.requested \subseteq f.cleared \cap PublicAddresses
                 /\ f.state \in {"get", "read"} => f.at \in f.cleared}

\* A reply as the properties want it.
Cited(r) ==
  /\ r.kind # "fallback" => r.cited # {} /\ r.cited \subseteq DOMAIN r.sources
  /\ IsInjective(r.sources)
  /\ r.kind # "native" => ToSet(r.sources) \subseteq r.backed /\ FewOfAHost(r.sources)
  /\ r.kind = "native" /\ ~ r.renumbered => \A i \in r.cited : r.sources[i] \in r.backed
GoodReply ==
  {r \in WebReplies : r.kind \in {"native", "model", "fallback"} => Cited(r)}

\* What may be remembered, and how long it may still be at a time.
WebAnswer ==
  {e \in [question : Questions, until : Nat, reply : GoodReply] :
     /\ e.reply.kind \in {"native", "model", "fallback"}
     /\ Len(e.reply.sources) <= Wanted[e.question]}
AnswersKept(list, time) ==
  /\ list \in Seq(WebAnswer) /\ IsInjective(list) /\ Len(list) <= AnswerLimit
  /\ \A e, f \in ToSet(list) : e.question = f.question => e = f
  /\ \A e \in ToSet(list) : e.until <= time + AnswerLife

\* While pages are fetched there is a source, and a fetch for each.
FetchesSources(c) ==
  webStage[c] = "pages" =>
    /\ DOMAIN chains[c] = DOMAIN sources[c] /\ sources[c] # <<>>
    /\ c \in Researchers => Len(sources[c]) <= Wanted[question[c]]

\* The inductive invariant of research_web and read_web_page.
WebInv ==
  /\ webStage \in [Calls -> Stages] /\ question \in [Researchers -> Questions] /\ webTime \in Nat
  /\ sources \in [Calls -> Seq(PublicAddresses)] /\ \A c \in Calls : WellChosen(sources[c])
  /\ chains \in [Calls -> Seq(SafeFetch)] /\ \A c \in Calls : FetchesSources(c)
  /\ webReply \in [Calls -> GoodReply]
  /\ \A c \in Calls : webReply[c].age < AnswerLife \/ webReply[c].age = 0
  /\ AnswersKept(answers, webTime)

\* The first places of what a list names are places of different things.
LEMMA FirstsAre ==
  ASSUME NEW X, NEW list \in Seq(X)
  PROVE  /\ Firsts(list) \in SUBSET (1 .. Len(list))
         /\ \A i, j \in Firsts(list) : list[i] = list[j] => i = j
<1>1. Len(list) \in Nat /\ DOMAIN list = 1 .. Len(list)
  BY ListOf
<1>2. Firsts(list) \in SUBSET (1 .. Len(list))
  BY <1>1 DEF Firsts
<1>3. ASSUME NEW i \in Firsts(list), NEW j \in Firsts(list), list[i] = list[j] PROVE i = j
  <2>1. /\ \A k \in 1 .. i - 1 : list[k] # list[i]
        /\ \A k \in 1 .. j - 1 : list[k] # list[j]
    BY DEF Firsts
  <2>2. i \in 1 .. Len(list) /\ j \in 1 .. Len(list)
    BY <1>2
  <2>3. i < j => i \in 1 .. j - 1
    BY <1>1, <2>2
  <2>4. j < i => j \in 1 .. i - 1
    BY <1>1, <2>2
  <2>5. ~ (i < j) /\ ~ (j < i)
    BY <1>3, <2>1, <2>3, <2>4
  <2> QED BY <1>1, <2>2, <2>5
<1> QED BY <1>2, <1>3

\* The beginning of a list has at most the size asked for, and is distinct if the list is.
LEMMA FirstOfIs ==
  ASSUME NEW X, NEW list \in Seq(X), NEW size \in Nat
  PROVE  /\ FirstOf(list, size) \in Seq(X)
         /\ Len(FirstOf(list, size)) <= size /\ Len(FirstOf(list, size)) <= Len(list)
         /\ \A i \in DOMAIN FirstOf(list, size) : i \in DOMAIN list /\ FirstOf(list, size)[i] = list[i]
         /\ ToSet(FirstOf(list, size)) \subseteq ToSet(list)
         /\ IsInjective(list) => IsInjective(FirstOf(list, size))
<1> DEFINE n == IF Len(list) < size THEN Len(list) ELSE size
           part == SubSeq(list, 1, n)
<1>1. Len(list) \in Nat /\ n \in Nat /\ n <= Len(list) /\ n <= size /\ 1 \in Nat /\ 1 >= 1
  BY ListOf
<1> HIDE DEF n
<1>2. /\ part \in Seq(X) /\ Len(part) = IF 1 <= n THEN n - 1 + 1 ELSE 0
      /\ \A i \in DOMAIN part : 1 + i - 1 \in DOMAIN list /\ part[i] = list[1 + i - 1]
      /\ ToSet(part) \subseteq ToSet(list) /\ (IsInjective(list) => IsInjective(part))
  BY <1>1, PartIs
<1>3. DOMAIN part = 1 .. Len(part) /\ Len(part) \in Nat
  BY <1>2, ListOf
<1> HIDE DEF part
<1>4. \A i \in DOMAIN part : i \in DOMAIN list /\ part[i] = list[i]
  <2>1. \A i \in DOMAIN part : 1 + i - 1 = i
    BY <1>3
  <2> QED BY <1>2, <2>1
<1>5. Len(part) <= size /\ Len(part) <= Len(list)
  BY <1>1, <1>2
<1>6. FirstOf(list, size) = part
  BY DEF FirstOf, part, n
<1> QED BY <1>2, <1>4, <1>5, <1>6

\* Of a host, the results that stay are at most two: before the last of them there
\* are fewer than two, by the rule that let it stay.
LEMMA TwoOfAHost ==
  ASSUME NEW list \in Seq(PublicAddresses), NEW S \in SUBSET Firsts(list),
         \A i \in S : Cardinality({j \in Firsts(list) : j < i /\ HostOf[list[j]] = HostOf[list[i]]}) < 2,
         NEW part \in Seq(PublicAddresses),
         \A i \in DOMAIN part : i \in DOMAIN AtPositions(list, S) /\ part[i] = AtPositions(list, S)[i]
  PROVE  FewOfAHost(part)
<1>1. Firsts(list) \in SUBSET (1 .. Len(list))
  BY FirstsAre
<1>2. S \in SUBSET (1 .. Len(list)) /\ Len(list) \in Nat
  BY <1>1, ListOf
<1>3. /\ AtPositions(list, S) \in Seq(PublicAddresses)
      /\ Len(AtPositions(list, S)) = Cardinality(S) /\ Cardinality(S) \in Nat
  BY <1>2, StayingAre, Zenon
<1>3a. \E at \in [1 .. Cardinality(S) -> S] :
           /\ \A n, k \in 1 .. Cardinality(S) : n < k => at[n] < at[k]
           /\ \A i \in S : \E n \in 1 .. Cardinality(S) : at[n] = i
           /\ \A n \in 1 .. Cardinality(S) : AtPositions(list, S)[n] = list[at[n]]
  BY <1>2, StayingAre, SMTT(30)
<1> DEFINE left == AtPositions(list, S)
           size == Cardinality(S)
<1>4. PICK at \in [1 .. size -> S] :
        /\ \A n, k \in 1 .. size : n < k => at[n] < at[k]
        /\ \A n \in 1 .. size : left[n] = list[at[n]]
  BY <1>3a, Zenon
<1>5. DOMAIN left = 1 .. size
  BY <1>3, ListOf
<1> HIDE DEF left, size
<1>6. DOMAIN part = 1 .. Len(part) /\ Len(part) \in Nat
  BY ListOf
<1>7. \A i \in DOMAIN part : i \in 1 .. size /\ part[i] = list[at[i]] /\ at[i] \in S
  BY <1>4, <1>5 DEF left
<1> SUFFICES ASSUME NEW i \in DOMAIN part
             PROVE  Cardinality({j \in DOMAIN part : HostOf[part[j]] = HostOf[part[i]]}) <= 2
  BY DEF FewOfAHost
<1> DEFINE same == {j \in DOMAIN part : HostOf[part[j]] = HostOf[part[i]]}
<1>8. same \in SUBSET (1 .. Len(part))
  BY <1>6
<1>9. IsFiniteSet(same) /\ Cardinality(same) \in Nat
  BY <1>6, <1>8, RankFits
<1>10. i \in same
  OBVIOUS
<1>11. Cardinality(same) # 0
  BY <1>9, <1>10, FS_EmptySet
<1>12. PICK k \in same : Rank(same, k) = Cardinality(same)
  <2>1. Cardinality(same) \in 1 .. Cardinality(same)
    BY <1>9, <1>11
  <2> QED BY <1>6, <1>8, <2>1, RankReached
<1>13. k \in DOMAIN part /\ \A j \in same : j \in DOMAIN part /\ HostOf[part[j]] = HostOf[part[k]]
  OBVIOUS
<1>14. \A j \in same : j \in Nat
  BY <1>8
<1> HIDE DEF same
<1> DEFINE before == {j \in same : j < k}
           rivals == {j \in Firsts(list) : j < at[k] /\ HostOf[list[j]] = HostOf[list[at[k]]]}
           to == [j \in before |-> at[j]]
<1>15. IsFiniteSet(before)
  BY <1>9, FS_Subset
<1>16. {j \in same : j <= k} = before \cup {k} /\ k \notin before
  BY <1>14
<1>17. Cardinality(same) = Cardinality(before) + 1
  <2>1. Cardinality(before \cup {k}) = Cardinality(before) + 1
    BY <1>15, <1>16, FS_AddElement
  <2> QED BY <1>12, <1>16, <2>1 DEF Rank
<1>18. IsFiniteSet(rivals)
  <2>1. IsFiniteSet(Firsts(list))
    BY <1>1, <1>2, RankFits
  <2> QED BY <2>1, FS_Subset
<1>19. Cardinality(rivals) < 2
  BY <1>7, <1>13
<1>20. \A j \in before : at[j] \in rivals
  <2>1. ASSUME NEW j \in before PROVE at[j] \in rivals
    <3>1. j \in same /\ j < k /\ j \in 1 .. size /\ k \in 1 .. size
      BY <1>7, <1>13
    <3>2. at[j] < at[k]
      BY <1>4, <3>1
    <3>3. part[j] = list[at[j]] /\ part[k] = list[at[k]] /\ at[j] \in Firsts(list)
      BY <1>7, <1>13, <3>1
    <3> QED BY <1>13, <3>1, <3>2, <3>3
  <2> QED BY <2>1
<1>21. \A j, n \in before : at[j] = at[n] => j = n
  <2>1. ASSUME NEW j \in before, NEW n \in before, at[j] = at[n] PROVE j = n
    <3>1. j \in 1 .. size /\ n \in 1 .. size /\ j \in Nat /\ n \in Nat
      BY <1>7, <1>13, <1>14
    <3>2. at[j] \in Nat
      <4>1. at[j] \in S
        BY <3>1, <1>4
      <4> QED BY <1>2, <4>1
    <3>3. ~ (j < n) /\ ~ (n < j)
      BY <1>4, <2>1, <3>1, <3>2
    <3> QED BY <3>1, <3>3
  <2> QED BY <2>1
<1> HIDE DEF before, rivals
<1>22. to \in Injection(before, rivals)
  BY <1>20, <1>21 DEF Injection, IsInjective
<1>23. Cardinality(before) <= Cardinality(rivals)
  BY <1>18, <1>22, FS_Injection
<1>24. Cardinality(before) \in Nat /\ Cardinality(rivals) \in Nat
  BY <1>15, <1>18, FS_CardinalityType
<1>25. Cardinality(same) <= 2
  BY <1>17, <1>19, <1>23, <1>24
<1> QED BY <1>25 DEF same

\* The results chosen are distinct, at most two of a host, and as many as wanted.
LEMMA DedupeIs ==
  ASSUME NEW list \in Seq(PublicAddresses), NEW limit \in Nat
  PROVE  WellChosen(Dedupe(list, limit)) /\ Len(Dedupe(list, limit)) <= limit
<1> DEFINE rivals(i) == {j \in Firsts(list) : j < i /\ HostOf[list[j]] = HostOf[list[i]]}
           S == {i \in Firsts(list) : Cardinality(rivals(i)) < 2}
           left == AtPositions(list, S)
           part == FirstOf(left, limit)
<1>1. /\ Firsts(list) \in SUBSET (1 .. Len(list))
      /\ \A i, j \in Firsts(list) : list[i] = list[j] => i = j
  BY FirstsAre
<1>2. S \in SUBSET Firsts(list) /\ S \in SUBSET (1 .. Len(list))
  BY <1>1
<1>3. \A i \in S : Cardinality({j \in Firsts(list) : j < i /\ HostOf[list[j]] = HostOf[list[i]]}) < 2
  OBVIOUS
<1>4. \A i, j \in S : list[i] = list[j] => i = j
  BY <1>1, <1>2
<1>5. Dedupe(list, limit) = part
  BY DEF Dedupe
<1> HIDE DEF S
<1>6. left \in Seq(PublicAddresses)
  BY <1>2, StayingAre
<1>7. IsInjective(left)
  BY <1>2, <1>4, StayingHold
<1> HIDE DEF left
<1>8. /\ part \in Seq(PublicAddresses) /\ Len(part) <= limit /\ IsInjective(part)
      /\ \A i \in DOMAIN part : i \in DOMAIN left /\ part[i] = left[i]
  BY <1>6, <1>7, FirstOfIs
<1> HIDE DEF part
<1>9. FewOfAHost(part)
  BY <1>2, <1>3, <1>8, TwoOfAHost DEF left
<1> QED BY <1>5, <1>8, <1>9 DEF WellChosen

\* What a service lists, of the public addresses.
LEMMA ListedIs ==
  ASSUME NEW list \in Seq(Addresses), NEW size \in Nat
  PROVE  Listed(list, size) \in Seq(PublicAddresses)
<1> DEFINE only == OnlyFrom(list, PublicAddresses)
<1>1. only \in Seq(Addresses) /\ \A n \in DOMAIN only : only[n] \in PublicAddresses
  BY OnlyFromIs
<1> HIDE DEF only
<1>2. only \in Seq(PublicAddresses)
  BY <1>1, ListOf
<1>3. FirstOf(only, size) \in Seq(PublicAddresses)
  BY <1>2, FirstOfIs
<1> QED BY <1>3 DEF Listed, only

\* The sources of the native search are distinct and no more than wanted.
LEMMA GroundedAre ==
  ASSUME NEW chunks \in Seq(Addresses), NEW limit \in Nat
  PROVE  /\ GroundedSources(chunks, limit) \in Seq(Addresses)
         /\ IsInjective(GroundedSources(chunks, limit))
         /\ Len(GroundedSources(chunks, limit)) <= limit
<1> DEFINE ordinary == OnlyFrom(chunks, OrdinaryAddresses)
           left == AtPositions(ordinary, Firsts(ordinary))
<1>1. ordinary \in Seq(Addresses)
  BY OnlyFromIs
<1> HIDE DEF ordinary
<1>2. /\ Firsts(ordinary) \in SUBSET (1 .. Len(ordinary))
      /\ \A i, j \in Firsts(ordinary) : ordinary[i] = ordinary[j] => i = j
  BY <1>1, FirstsAre
<1>3. left \in Seq(Addresses)
  BY <1>1, <1>2, StayingAre
<1>4. IsInjective(left)
  BY <1>1, <1>2, StayingHold
<1> HIDE DEF left
<1>5. /\ FirstOf(left, limit) \in Seq(Addresses) /\ Len(FirstOf(left, limit)) <= limit
      /\ IsInjective(FirstOf(left, limit))
  BY <1>3, <1>4, FirstOfIs
<1> QED BY <1>5 DEF GroundedSources, left, ordinary

\* How many sources a question wants.
LEMMA WantedIs == \A q \in Questions : Wanted[q] \in Nat /\ Wanted[q] >= 1
BY WebAssumption

\* An answer with its addresses: what it lists, what it cites and what it rests on.
LEMMA ReplyIs ==
  ASSUME NEW kind \in {"native", "model", "fallback"}, NEW listed \in Seq(PublicAddresses),
         NEW cited \in SUBSET Nat, kind # "fallback" => cited # {} /\ cited \subseteq DOMAIN listed,
         NEW backed \in SUBSET Addresses, NEW renumbered \in BOOLEAN, IsInjective(listed),
         kind # "native" => ToSet(listed) \subseteq backed /\ FewOfAHost(listed),
         kind = "native" /\ ~ renumbered => \A i \in cited : listed[i] \in backed
  PROVE  LET a == AnswerWith(kind, listed, cited, backed, renumbered)
         IN a \in GoodReply /\ a.sources = listed /\ a.kind = kind /\ a.age = 0
<1> DEFINE a == AnswerWith(kind, listed, cited, backed, renumbered)
<1>1. a = [kind |-> kind, sources |-> listed, cited |-> cited, backed |-> backed,
           renumbered |-> renumbered, age |-> 0]
  BY DEF AnswerWith
<1> HIDE DEF a
<1>2. a \in WebReplies
  BY <1>1 DEF WebReplies
<1>3. Cited(a)
  BY <1>1 DEF Cited
<1> QED BY <1>1, <1>2, <1>3 DEF GoodReply, a

\* A call that found nothing, or was refused, has a reply too.
LEMMA NoAnswerIs ==
  NothingFound \in GoodReply /\ Refusal \in GoodReply /\ NothingFound.age = 0 /\ Refusal.age = 0
<1>1. <<>> \in Seq(PublicAddresses)
  BY EmptySeq
<1>2. ASSUME NEW kind \in {"none", "error"}
      PROVE  /\ AnswerWith(kind, <<>>, {}, {}, FALSE) \in GoodReply
             /\ AnswerWith(kind, <<>>, {}, {}, FALSE).age = 0
  <2> DEFINE a == AnswerWith(kind, <<>>, {}, {}, FALSE)
  <2>1. a = [kind |-> kind, sources |-> <<>>, cited |-> {}, backed |-> {},
             renumbered |-> FALSE, age |-> 0]
    BY DEF AnswerWith
  <2> HIDE DEF a
  <2>2. a \in WebReplies
    BY <1>1, <2>1 DEF WebReplies
  <2>3. a.kind \notin {"native", "model", "fallback"} /\ a.age = 0
    BY <2>1
  <2> QED BY <2>2, <2>3 DEF GoodReply, a
<1> QED BY <1>2 DEF NothingFound, Refusal

\* What the sources' answer is: the model's with its citations, or the descriptions'.
LEMMA JudgedIs ==
  ASSUME NEW listed \in Seq(PublicAddresses), listed # <<>>, NEW cited, NEW sound \in BOOLEAN,
         NEW stray \in SUBSET Unlisted(listed), NEW backed \in SUBSET Addresses, IsInjective(listed),
         ToSet(listed) \subseteq backed, FewOfAHost(listed)
  PROVE  LET a == Judged(listed, cited, sound, stray, backed)
         IN /\ a \in GoodReply /\ a.sources = listed /\ a.age = 0
            /\ a.kind \in {"native", "model", "fallback"}
<1> DEFINE model == AnswerWith("model", listed, cited, backed, FALSE)
           plain == AnswerWith("fallback", listed, DOMAIN listed \cup stray, backed, FALSE)
           a == Judged(listed, cited, sound, stray, backed)
<1>1. DOMAIN listed \subseteq Nat /\ DOMAIN listed \cup stray \in SUBSET Nat
  <2>1. DOMAIN listed = 1 .. Len(listed) /\ Len(listed) \in Nat
    BY ListOf
  <2>2. Unlisted(listed) \subseteq Nat /\ DOMAIN listed \subseteq Nat
    BY <2>1 DEF Unlisted
  <2> QED BY <2>2
<1>2. ASSUME NEW kind \in {"model", "fallback"}, NEW nums \in SUBSET Nat,
             kind # "fallback" => nums # {} /\ nums \subseteq DOMAIN listed,
             NEW renumbered \in BOOLEAN
      PROVE  LET r == AnswerWith(kind, listed, nums, backed, renumbered)
             IN r \in GoodReply /\ r.sources = listed /\ r.kind = kind /\ r.age = 0
  <2>1. kind \in {"native", "model", "fallback"} /\ kind # "native"
    OBVIOUS
  <2>2. kind # "native" => ToSet(listed) \subseteq backed /\ FewOfAHost(listed)
    OBVIOUS
  <2>3. kind = "native" /\ ~ renumbered => \A i \in nums : listed[i] \in backed
    BY <2>1
  <2> QED BY <1>2, <2>1, <2>2, <2>3, ReplyIs
<1>3. /\ plain \in GoodReply /\ plain.sources = listed /\ plain.kind = "fallback" /\ plain.age = 0
      /\ cited # {} /\ cited \subseteq DOMAIN listed =>
           model \in GoodReply /\ model.sources = listed /\ model.kind = "model" /\ model.age = 0
  BY <1>1, <1>2
<1>4. \/ a = model /\ cited # {} /\ cited \subseteq DOMAIN listed
      \/ a = plain
  BY DEF Judged, IsGrounded, FallbackNumbers
<1> HIDE DEF a, model, plain
<1>5. CASE a = plain
  BY <1>3, <1>5 DEF a
<1>6. CASE a = model /\ cited # {} /\ cited \subseteq DOMAIN listed
  BY <1>3, <1>6 DEF a
<1> QED BY <1>4, <1>5, <1>6

\* What is left of the answers without a question, which has none then; if it had
\* one there are fewer.
LEMMA WithoutIs ==
  ASSUME AnswersKept(answers, webTime), NEW q \in Questions
  PROVE  /\ AnswersKept(WithoutQuestion(q), webTime)
         /\ \A e \in ToSet(WithoutQuestion(q)) : e.question # q
         /\ EntryOf(q) # {} => Len(WithoutQuestion(q)) < Len(answers)
<1> DEFINE others == {e \in ToSet(answers) : e.question # q}
           left == OnlyFrom(answers, others)
<1>1. /\ answers \in Seq(WebAnswer) /\ IsInjective(answers) /\ Len(answers) <= AnswerLimit
      /\ \A e, f \in ToSet(answers) : e.question = f.question => e = f
      /\ \A e \in ToSet(answers) : e.until <= webTime + AnswerLife
  BY DEF AnswersKept
<1>2. left = WithoutQuestion(q)
  BY DEF WithoutQuestion
<1>3. /\ left \in Seq(WebAnswer) /\ Len(left) <= Len(answers)
      /\ ToSet(left) = ToSet(answers) \cap others
      /\ IsInjective(answers) => IsInjective(left)
      /\ (\E i \in DOMAIN answers : answers[i] \notin others) => Len(left) < Len(answers)
  BY <1>1, OnlyFromIs
<1> HIDE DEF left
<1>4. Len(left) \in Nat /\ Len(answers) \in Nat /\ AnswerLimit \in Nat
  BY <1>1, <1>3, ListOf, WebAssumption
<1>5. AnswersKept(left, webTime)
  BY <1>1, <1>3, <1>4 DEF AnswersKept
<1>6. \A e \in ToSet(left) : e.question # q
  BY <1>3
<1>7. EntryOf(q) # {} => \E i \in DOMAIN answers : answers[i] \notin others
  BY DEF EntryOf, ToSet
<1> QED BY <1>2, <1>3, <1>5, <1>6, <1>7

\* An answer is remembered: it is the only one of its question, and the oldest leaves
\* when there are too many.
LEMMA PutIs ==
  ASSUME AnswersKept(answers, webTime), webTime \in Nat, NEW q \in Questions, NEW a \in GoodReply,
         a.kind \in {"native", "model", "fallback"}, Len(a.sources) <= Wanted[q], CachePut(q, a)
  PROVE  AnswersKept(answers', webTime)
<1> DEFINE entry == [question |-> q, until |-> webTime + AnswerLife, reply |-> a]
           left == WithoutQuestion(q)
           longer == Append(left, entry)
<1>1. AnswerLife \in Nat /\ AnswerLimit \in Nat
  BY WebAssumption
<1>2. /\ entry \in WebAnswer /\ entry.question = q /\ entry.until <= webTime + AnswerLife
      /\ webTime + AnswerLife \in Nat
  BY <1>1 DEF WebAnswer
<1>3. /\ AnswersKept(left, webTime) /\ \A e \in ToSet(left) : e.question # q
  BY WithoutIs
<1>4. answers' = MostRecent(longer)
  BY DEF CachePut
<1> HIDE DEF entry, left
<1>5. /\ left \in Seq(WebAnswer) /\ IsInjective(left) /\ entry \notin ToSet(left)
      /\ \A e, f \in ToSet(left) : e.question = f.question => e = f
      /\ \A e \in ToSet(left) : e.until <= webTime + AnswerLife
  BY <1>2, <1>3 DEF AnswersKept
<1>6. /\ longer \in Seq(WebAnswer) /\ ToSet(longer) = ToSet(left) \cup {entry}
      /\ IsInjective(left) /\ entry \notin ToSet(left) => IsInjective(longer)
  BY <1>2, <1>5, AddedIs
<1> HIDE DEF longer
<1>7. /\ IsInjective(longer)
      /\ \A e, f \in ToSet(longer) : e.question = f.question => e = f
      /\ \A e \in ToSet(longer) : e.until <= webTime + AnswerLife
  BY <1>2, <1>3, <1>5, <1>6
<1>8. Len(longer) \in Nat
  BY <1>6, ListOf
<1>9. CASE Len(longer) > AnswerLimit
  <2> DEFINE m == Len(longer) - AnswerLimit + 1
             part == SubSeq(longer, m, Len(longer))
  <2>1. m \in Nat /\ m >= 1 /\ Len(longer) <= Len(longer)
        /\ (m <= Len(longer) => Len(longer) - m + 1 = AnswerLimit)
    BY <1>1, <1>8, <1>9
  <2>2. answers' = part
    BY <1>4, <1>9 DEF MostRecent
  <2> HIDE DEF m
  <2>3. /\ part \in Seq(WebAnswer) /\ ToSet(part) \subseteq ToSet(longer)
        /\ IsInjective(longer) => IsInjective(part)
    BY <1>6, <1>8, <2>1, PartIs
  <2>4. Len(part) = IF m <= Len(longer) THEN Len(longer) - m + 1 ELSE 0
    BY <1>6, <1>8, <2>1, PartIs
  <2> HIDE DEF part
  <2>5. Len(part) <= AnswerLimit
    BY <1>1, <2>1, <2>4
  <2> QED BY <1>7, <2>2, <2>3, <2>5 DEF AnswersKept
<1>10. CASE ~ (Len(longer) > AnswerLimit)
  <2>1. answers' = longer /\ Len(longer) <= AnswerLimit
    BY <1>1, <1>4, <1>8, <1>10 DEF MostRecent
  <2> QED BY <1>6, <1>7, <2>1 DEF AnswersKept
<1> QED BY <1>9, <1>10

\* An answer given again becomes the last to leave.
LEMMA AgainIs ==
  ASSUME AnswersKept(answers, webTime), NEW q \in Questions, NEW e \in EntryOf(q)
  PROVE  e \in WebAnswer /\ AnswersKept(Append(WithoutQuestion(q), e), webTime)
<1> DEFINE left == WithoutQuestion(q)
           longer == Append(left, e)
<1>1. e \in ToSet(answers) /\ e.question = q
  BY DEF EntryOf
<1>2. /\ answers \in Seq(WebAnswer) /\ Len(answers) <= AnswerLimit
      /\ e.until <= webTime + AnswerLife
  BY <1>1 DEF AnswersKept
<1>3. e \in WebAnswer
  BY <1>1, <1>2, ListOf DEF ToSet
<1>4. /\ AnswersKept(left, webTime) /\ (\A f \in ToSet(left) : f.question # q)
      /\ Len(left) < Len(answers)
  BY WithoutIs
<1> HIDE DEF left
<1>5. /\ left \in Seq(WebAnswer) /\ IsInjective(left) /\ e \notin ToSet(left)
      /\ \A f, h \in ToSet(left) : f.question = h.question => f = h
      /\ \A f \in ToSet(left) : f.until <= webTime + AnswerLife
  BY <1>1, <1>4 DEF AnswersKept
<1>6. /\ longer \in Seq(WebAnswer) /\ ToSet(longer) = ToSet(left) \cup {e}
      /\ IsInjective(left) /\ e \notin ToSet(left) => IsInjective(longer)
      /\ Len(longer) = Len(left) + 1
  BY <1>3, <1>5, AddedIs
<1> HIDE DEF longer
<1>7. Len(longer) <= AnswerLimit
  <2>1. Len(left) \in Nat /\ Len(answers) \in Nat /\ AnswerLimit \in Nat
    BY <1>2, <1>5, ListOf, WebAssumption
  <2> QED BY <1>2, <1>4, <1>6, <2>1
<1>8. /\ IsInjective(longer)
      /\ \A f, h \in ToSet(longer) : f.question = h.question => f = h
      /\ \A f \in ToSet(longer) : f.until <= webTime + AnswerLife
  BY <1>1, <1>2, <1>4, <1>5, <1>6
<1>9. AnswersKept(longer, webTime)
  BY <1>6, <1>7, <1>8 DEF AnswersKept
<1> QED BY <1>3, <1>9 DEF longer, left

\* A call returns: it has no sources any more, and its reply is good.
LEMMA CallEnds ==
  ASSUME WebInv, NEW c \in Calls, NEW a \in GoodReply, a.age < AnswerLife \/ a.age = 0, Returns(c, a),
         question' \in [Researchers -> Questions], \A x \in Researchers \ {c} : question'[x] = question[x],
         AnswersKept(answers', webTime), webTime' = webTime
  PROVE  WebInv'
<1>1. <<>> \in Seq(PublicAddresses) /\ <<>> \in Seq(SafeFetch) /\ DOMAIN <<>> = {}
  BY EmptySeq
<1>2. WellChosen(<<>>)
  BY <1>1 DEF WellChosen, FewOfAHost, IsInjective
<1>3. /\ webStage' \in [Calls -> Stages] /\ webStage'[c] = "idle"
      /\ sources' \in [Calls -> Seq(PublicAddresses)] /\ sources'[c] = <<>>
      /\ chains' \in [Calls -> Seq(SafeFetch)] /\ webReply' \in [Calls -> GoodReply] /\ webReply'[c] = a
      /\ \A x \in Calls \ {c} : /\ webStage'[x] = webStage[x] /\ sources'[x] = sources[x]
                                /\ chains'[x] = chains[x] /\ webReply'[x] = webReply[x]
  BY <1>1 DEF WebInv, Returns, Stages
<1>4. \A x \in Calls : WellChosen(sources'[x])
  BY <1>2, <1>3 DEF WebInv
<1>5. ASSUME NEW x \in Calls PROVE FetchesSources(x)'
  <2>1. CASE x = c
    BY <1>3, <2>1 DEF FetchesSources
  <2>2. CASE x # c
    BY <1>3, <2>2 DEF WebInv, FetchesSources
  <2> QED BY <2>1, <2>2
<1>6. \A x \in Calls : webReply'[x].age < AnswerLife \/ webReply'[x].age = 0
  BY <1>3 DEF WebInv
<1>7. webTime' \in Nat /\ AnswersKept(answers', webTime')
  BY DEF WebInv
<1> QED BY <1>3, <1>4, <1>5, <1>6, <1>7 DEF WebInv

\* A researcher goes on to the next search, with what it has found.
LEMMA CallGoesOn ==
  ASSUME WebInv, NEW c \in Calls, NEW later \in Stages, later # "pages", NEW listed, WellChosen(listed),
         webStage' = [webStage EXCEPT ![c] = later], sources' = [sources EXCEPT ![c] = listed],
         chains' = chains, webReply' = webReply,
         question' \in [Researchers -> Questions], \A x \in Researchers \ {c} : question'[x] = question[x],
         AnswersKept(answers', webTime), webTime' = webTime
  PROVE  WebInv'
<1>1. listed \in Seq(PublicAddresses)
  BY DEF WellChosen
<1>2. /\ webStage' \in [Calls -> Stages] /\ webStage'[c] = later
      /\ sources' \in [Calls -> Seq(PublicAddresses)] /\ sources'[c] = listed
      /\ \A x \in Calls \ {c} : webStage'[x] = webStage[x] /\ sources'[x] = sources[x]
  BY <1>1 DEF WebInv
<1>3. \A x \in Calls : WellChosen(sources'[x])
  BY <1>2 DEF WebInv
<1>4. ASSUME NEW x \in Calls PROVE FetchesSources(x)'
  <2>1. CASE x = c
    BY <1>2, <2>1 DEF FetchesSources
  <2>2. CASE x # c
    BY <1>2, <2>2 DEF WebInv, FetchesSources
  <2> QED BY <2>1, <2>2
<1>5. webTime' \in Nat /\ AnswersKept(answers', webTime')
  BY DEF WebInv
<1>6. /\ chains' \in [Calls -> Seq(SafeFetch)] /\ webReply' \in [Calls -> GoodReply]
      /\ \A x \in Calls : webReply'[x].age < AnswerLife \/ webReply'[x].age = 0
  BY DEF WebInv
<1> QED BY <1>2, <1>3, <1>4, <1>5, <1>6 DEF WebInv

\* Each source's fetch begins with its address, of which nobody has been asked.
LEMMA ChainedAre ==
  ASSUME NEW listed \in Seq(PublicAddresses)
  PROVE  Chained(listed) \in Seq(SafeFetch) /\ DOMAIN Chained(listed) = DOMAIN listed
<1>1. DOMAIN listed = 1 .. Len(listed) /\ Len(listed) \in Nat
      /\ \A i \in DOMAIN listed : listed[i] \in PublicAddresses
  BY ListOf
<1>2. 0 \in 0 .. RedirectLimit
  BY WebAssumption
<1>3. \A x \in PublicAddresses : Chain(x) \in SafeFetch
  BY <1>2 DEF Chain, SafeFetch, Fetch
<1>4. Chained(listed) \in [1 .. Len(listed) -> SafeFetch]
  BY <1>1, <1>3 DEF Chained
<1>5. Chained(listed) \in Seq(SafeFetch)
  BY <1>1, <1>4, SeqDef
<1> QED BY <1>1, <1>4, <1>5

\* A call has its sources and fetches them.
LEMMA CallFetches ==
  ASSUME WebInv, NEW c \in Calls, NEW listed, WellChosen(listed), listed # <<>>,
         c \in Researchers => Len(listed) <= Wanted[question[c]], Starts(c, listed),
         UNCHANGED <<question, webReply, answers, webTime>>
  PROVE  WebInv'
<1>1. listed \in Seq(PublicAddresses)
  BY DEF WellChosen
<1>2. Chained(listed) \in Seq(SafeFetch) /\ DOMAIN Chained(listed) = DOMAIN listed
  BY <1>1, ChainedAre
<1>3. question' = question /\ webReply' = webReply /\ answers' = answers /\ webTime' = webTime
  OBVIOUS
<1>4. /\ webStage' \in [Calls -> Stages] /\ webStage'[c] = "pages"
      /\ sources' \in [Calls -> Seq(PublicAddresses)] /\ sources'[c] = listed
      /\ chains' \in [Calls -> Seq(SafeFetch)] /\ chains'[c] = Chained(listed)
      /\ \A x \in Calls \ {c} : /\ webStage'[x] = webStage[x] /\ sources'[x] = sources[x]
                                /\ chains'[x] = chains[x]
  BY <1>1, <1>2 DEF WebInv, Starts, Stages
<1>5. \A x \in Calls : WellChosen(sources'[x])
  BY <1>4 DEF WebInv
<1>6. ASSUME NEW x \in Calls PROVE FetchesSources(x)'
  <2>1. CASE x = c
    BY <1>2, <1>3, <1>4, <2>1 DEF FetchesSources
  <2>2. CASE x # c
    BY <1>3, <1>4, <2>2 DEF WebInv, FetchesSources
  <2> QED BY <2>1, <2>2
<1> QED BY <1>3, <1>4, <1>5, <1>6 DEF WebInv

\* One fetch moves, safely.
LEMMA FetchMoves ==
  ASSUME WebInv, NEW c \in Calls, NEW i \in DOMAIN chains[c], NEW f \in SafeFetch,
         chains' = [chains EXCEPT ![c][i] = f],
         UNCHANGED <<webStage, question, sources, webReply, rounds, answers, webTime>>
  PROVE  WebInv'
<1>1. chains \in [Calls -> Seq(SafeFetch)]
  BY DEF WebInv
<1>2. PICK all \in Seq(SafeFetch) : all = chains[c]
  BY <1>1
<1>3. DOMAIN all = 1 .. Len(all) /\ Len(all) \in Nat /\ \A j \in 1 .. Len(all) : all[j] \in SafeFetch
  BY ListOf
<1>4. all \in [1 .. Len(all) -> SafeFetch]
  BY LenProperties
<1>5. [all EXCEPT ![i] = f] \in [1 .. Len(all) -> SafeFetch]
  BY <1>2, <1>3, <1>4
<1>6. [all EXCEPT ![i] = f] \in Seq(SafeFetch) /\ DOMAIN [all EXCEPT ![i] = f] = DOMAIN all
  BY <1>3, <1>5, SeqDef
<1>7. /\ chains' = [chains EXCEPT ![c] = [all EXCEPT ![i] = f]]
      /\ chains' \in [Calls -> Seq(SafeFetch)]
      /\ \A x \in Calls : DOMAIN chains'[x] = DOMAIN chains[x]
  BY <1>1, <1>2, <1>6
<1>8. /\ webStage' = webStage /\ question' = question /\ sources' = sources /\ webReply' = webReply
      /\ answers' = answers /\ webTime' = webTime
  OBVIOUS
<1>9. ASSUME NEW x \in Calls PROVE FetchesSources(x)'
  BY <1>7, <1>8 DEF WebInv, FetchesSources
<1> QED BY <1>7, <1>8, <1>9 DEF WebInv

\* A fetch that has asked may request its address; one that has not gives up.
LEMMA AskedIs ==
  ASSUME NEW x \in SafeFetch
  PROVE  /\ [x EXCEPT !.state = "failed"] \in SafeFetch
         /\ [x EXCEPT !.state = "get", !.cleared = @ \cup {x.at}] \in SafeFetch
<1>1. x \in Fetch /\ x.requested \subseteq x.cleared \cap PublicAddresses
  BY DEF SafeFetch
<1>2. x.at \in Addresses
  BY <1>1, WebAssumption DEF Fetch
<1>3. [x EXCEPT !.state = "failed"] \in SafeFetch
  <2> DEFINE f == [x EXCEPT !.state = "failed"]
  <2>1. f \in Fetch /\ f.state = "failed" /\ f.requested = x.requested /\ f.cleared = x.cleared
    BY <1>1 DEF Fetch
  <2> HIDE DEF f
  <2>2. f \in SafeFetch
    BY <1>1, <2>1 DEF SafeFetch
  <2> QED BY <2>2 DEF f
<1>4. [x EXCEPT !.state = "get", !.cleared = @ \cup {x.at}] \in SafeFetch
  <2> DEFINE f == [x EXCEPT !.state = "get", !.cleared = @ \cup {x.at}]
  <2>1. f \in Fetch /\ f.at = x.at /\ f.requested = x.requested /\ f.cleared = x.cleared \cup {x.at}
    BY <1>1, <1>2 DEF Fetch
  <2> HIDE DEF f
  <2>2. f \in SafeFetch
    BY <1>1, <2>1 DEF SafeFetch
  <2> QED BY <2>2 DEF f
<1> QED BY <1>3, <1>4

\* A fetch that was cleared for its address requests it, and is over or follows.
LEMMA RequestedIs ==
  ASSUME NEW x \in SafeFetch, x.state = "get"
  PROVE  LET y == [x EXCEPT !.requested = @ \cup {x.at}]
         IN /\ \A s \in {"read", "failed"} : [y EXCEPT !.state = s] \in SafeFetch
            /\ \A a \in Addresses : Follow(y, a) \in SafeFetch
<1> DEFINE y == [x EXCEPT !.requested = @ \cup {x.at}]
<1>1. x \in Fetch /\ x.requested \subseteq x.cleared \cap PublicAddresses /\ x.at \in x.cleared
  BY DEF SafeFetch
<1>2. x.at \in PublicAddresses /\ x.at \in Addresses
  BY <1>1, WebAssumption DEF Fetch
<1>3. /\ y \in Fetch /\ y.at = x.at /\ y.cleared = x.cleared
      /\ y.requested = x.requested \cup {x.at}
  BY <1>1, <1>2 DEF Fetch
<1> HIDE DEF y
<1>4. y.requested \subseteq y.cleared \cap PublicAddresses /\ y.at \in y.cleared
  BY <1>1, <1>2, <1>3
<1>5. ASSUME NEW s \in {"read", "failed"} PROVE [y EXCEPT !.state = s] \in SafeFetch
  <2> DEFINE f == [y EXCEPT !.state = s]
  <2>1. f \in Fetch /\ f.at = y.at /\ f.requested = y.requested /\ f.cleared = y.cleared
    BY <1>3 DEF Fetch
  <2> HIDE DEF f
  <2>2. f \in SafeFetch
    BY <1>4, <2>1 DEF SafeFetch
  <2> QED BY <2>2 DEF f
<1>6. ASSUME NEW a \in Addresses PROVE Follow(y, a) \in SafeFetch
  <2>1. CASE y.hops >= RedirectLimit \/ ~ Public(a)
    BY <1>5, <2>1 DEF Follow
  <2>2. CASE ~ (y.hops >= RedirectLimit \/ ~ Public(a))
    <3> DEFINE f == [y EXCEPT !.state = "check", !.at = a, !.hops = @ + 1]
    <3>1. y.hops + 1 \in 0 .. RedirectLimit /\ a \in PublicAddresses
      BY <1>3, <2>2, WebAssumption DEF Fetch, Public
    <3>2. /\ f \in Fetch /\ f.requested = y.requested /\ f.cleared = y.cleared
          /\ f.state = "check"
      BY <1>3, <3>1 DEF Fetch
    <3>3. Follow(y, a) = f
      BY <2>2 DEF Follow
    <3> HIDE DEF f
    <3> QED BY <1>4, <3>2, <3>3 DEF SafeFetch
  <2> QED BY <2>1, <2>2
<1> QED BY <1>5, <1>6 DEF y

\* What a fetch of a call is.
LEMMA FetchIs ==
  ASSUME WebInv, NEW c \in Calls, NEW i \in DOMAIN chains[c]
  PROVE  chains[c][i] \in SafeFetch
<1>1. PICK all \in Seq(SafeFetch) : all = chains[c]
  BY DEF WebInv
<1> QED BY <1>1, ListOf

\* Safe Browsing is asked.
LEMMA LookUpStep ==
  ASSUME WebInv, NEW c \in Calls, NEW i \in DOMAIN chains[c], LookUp(c, i)
  PROVE  WebInv'
<1>1. PICK x \in SafeFetch : x = chains[c][i]
  BY FetchIs
<1>2. PICK dangerous \in BOOLEAN :
        chains' = [chains EXCEPT ![c][i] =
          IF dangerous THEN [x EXCEPT !.state = "failed"]
          ELSE [x EXCEPT !.state = "get", !.cleared = @ \cup {x.at}]]
  BY <1>1 DEF LookUp
<1> DEFINE f == IF dangerous THEN [x EXCEPT !.state = "failed"]
                ELSE [x EXCEPT !.state = "get", !.cleared = @ \cup {x.at}]
<1>3. f \in SafeFetch
  BY AskedIs
<1>4. chains' = [chains EXCEPT ![c][i] = f]
  BY <1>2
<1>5. UNCHANGED <<webStage, question, sources, webReply, rounds, answers, webTime>>
  BY DEF LookUp
<1> HIDE DEF f
<1> QED BY <1>3, <1>4, <1>5, FetchMoves

\* A page is requested.
LEMMA RequestStep ==
  ASSUME WebInv, NEW c \in Calls, NEW i \in DOMAIN chains[c], Request(c, i)
  PROVE  WebInv'
<1>1. PICK x \in SafeFetch : x = chains[c][i]
  BY FetchIs
<1> DEFINE y == [x EXCEPT !.requested = @ \cup {x.at}]
<1>2. x.state = "get"
  BY <1>1 DEF Request
<1>3. /\ \A s \in {"read", "failed"} : [y EXCEPT !.state = s] \in SafeFetch
      /\ \A a \in Addresses : Follow(y, a) \in SafeFetch
  BY <1>2, RequestedIs
<1>4. \/ \E s \in {"read", "failed"} : chains' = [chains EXCEPT ![c][i] = [y EXCEPT !.state = s]]
      \/ \E a \in Addresses : chains' = [chains EXCEPT ![c][i] = Follow(y, a)]
  BY <1>1 DEF Request
<1>5. UNCHANGED <<webStage, question, sources, webReply, rounds, answers, webTime>>
  BY DEF Request
<1> HIDE DEF y
<1>6. \E f \in SafeFetch : chains' = [chains EXCEPT ![c][i] = f]
  BY <1>3, <1>4
<1>7. PICK f \in SafeFetch : chains' = [chains EXCEPT ![c][i] = f]
  BY <1>6
<1> QED BY <1>5, <1>7, FetchMoves

\* research_web begins: with an answer that is remembered, or with the native search.
LEMMA AskWebStep ==
  ASSUME WebInv, NEW c \in Researchers, AskWeb(c)
  PROVE  WebInv'
<1>1. PICK q \in Questions :
        LET live == {e \in EntryOf(q) : e.until > webTime} IN
        /\ question' = [question EXCEPT ![c] = q]
        /\ IF live = {}
           THEN /\ webStage' = [webStage EXCEPT ![c] = "native"]
                /\ answers' = WithoutQuestion(q)
                /\ UNCHANGED <<sources, chains, webReply>>
           ELSE \E e \in live :
                  /\ answers' = Append(WithoutQuestion(q), e)
                  /\ Returns(c, [e.reply EXCEPT !.age = webTime + AnswerLife - e.until])
  BY DEF AskWeb
<1>2. /\ question \in [Researchers -> Questions] /\ webTime \in Nat /\ AnswersKept(answers, webTime)
      /\ sources \in [Calls -> Seq(PublicAddresses)] /\ \A x \in Calls : WellChosen(sources[x])
  BY DEF WebInv
<1>3. c \in Calls /\ webTime' = webTime
  BY DEF Calls, AskWeb
<1>4. /\ question' \in [Researchers -> Questions]
      /\ \A x \in Researchers \ {c} : question'[x] = question[x]
  BY <1>1, <1>2
<1>5. CASE /\ webStage' = [webStage EXCEPT ![c] = "native"] /\ answers' = WithoutQuestion(q)
           /\ UNCHANGED <<sources, chains, webReply>>
  <2>1. AnswersKept(answers', webTime)
    BY <1>2, <1>5, WithoutIs
  <2>2. "native" \in Stages /\ "native" # "pages"
    BY DEF Stages
  <2>3. WellChosen(sources[c]) /\ sources' = [sources EXCEPT ![c] = sources[c]]
    BY <1>2, <1>3, <1>5
  <2>4. chains' = chains /\ webReply' = webReply
    BY <1>5
  <2> QED BY <1>3, <1>4, <1>5, <2>1, <2>2, <2>3, <2>4, CallGoesOn
<1>6. ASSUME NEW e \in EntryOf(q), e.until > webTime, answers' = Append(WithoutQuestion(q), e),
             Returns(c, [e.reply EXCEPT !.age = webTime + AnswerLife - e.until])
      PROVE  WebInv'
  <2>1. e \in WebAnswer /\ AnswersKept(answers', webTime)
    BY <1>2, <1>6, AgainIs
  <2>2. PICK r \in GoodReply : r = e.reply
    BY <2>1 DEF WebAnswer
  <2>3. e.until \in Nat /\ e.until <= webTime + AnswerLife /\ AnswerLife \in Nat
    <3>1. e \in ToSet(answers)
      BY DEF EntryOf
    <3> QED BY <1>2, <2>1, <3>1, WebAssumption DEF WebAnswer, AnswersKept
  <2>4. PICK age \in Nat : age = webTime + AnswerLife - e.until /\ age < AnswerLife
    BY <1>2, <1>6, <2>3
  <2> DEFINE a == [r EXCEPT !.age = age]
  <2>5. r \in WebReplies /\ (r.kind \in {"native", "model", "fallback"} => Cited(r))
    BY DEF GoodReply
  <2>6. /\ a \in WebReplies /\ a.age = age /\ a.kind = r.kind /\ a.sources = r.sources
        /\ a.cited = r.cited /\ a.backed = r.backed /\ a.renumbered = r.renumbered
    BY <2>5 DEF WebReplies
  <2>7. Returns(c, a)
    BY <1>6, <2>2, <2>4
  <2> HIDE DEF a
  <2>8. a \in GoodReply /\ a.age < AnswerLife
    BY <2>4, <2>5, <2>6 DEF GoodReply, Cited
  <2> QED BY <1>3, <1>4, <2>1, <2>7, <2>8, CallEnds
<1> QED BY <1>1, <1>5, <1>6

\* The native search answers, with citations of public sources, or does not.
LEMMA AskNativeStep ==
  ASSUME WebInv, NEW c \in Researchers, AskNative(c)
  PROVE  WebInv'
<1>1. /\ c \in Calls /\ question[c] \in Questions /\ webTime \in Nat /\ AnswersKept(answers, webTime)
      /\ sources \in [Calls -> Seq(PublicAddresses)] /\ WellChosen(sources[c])
      /\ question \in [Researchers -> Questions]
  BY DEF WebInv, Calls
<1>2. question' = question /\ webTime' = webTime
  BY DEF AskNative
<1>3. CASE webStage' = [webStage EXCEPT ![c] = "brave"] /\ UNCHANGED <<sources, chains, webReply, answers>>
  <2>1. "brave" \in Stages /\ "brave" # "pages"
    BY DEF Stages
  <2>2. sources' = [sources EXCEPT ![c] = sources[c]]
    BY <1>1, <1>3
  <2>3. chains' = chains /\ webReply' = webReply /\ AnswersKept(answers', webTime)
    BY <1>1, <1>3
  <2>4. question' \in [Researchers -> Questions] /\ \A x \in Researchers \ {c} : question'[x] = question[x]
    BY <1>1, <1>2
  <2> QED BY <1>1, <1>2, <1>3, <2>1, <2>2, <2>3, <2>4, CallGoesOn
<1>4. ASSUME NEW offer \in NativeOffers
      PROVE  LET q == question[c]
                 numbered == GroundedSources(offer.chunks, Wanted[q])
                 cited == GroundedNumbers(offer, numbered)
                 listed == OnlyFrom(numbered, PublicAddresses)
                 a == AnswerWith("native", listed, cited,
                                 {offer.chunks[s] : s \in offer.support}, listed # numbered)
             IN IsGrounded(cited, TRUE, listed) /\ Returns(c, a) /\ CachePut(q, a) => WebInv'
  <2> DEFINE q == question[c]
             numbered == GroundedSources(offer.chunks, Wanted[q])
             cited == GroundedNumbers(offer, numbered)
             listed == OnlyFrom(numbered, PublicAddresses)
             backed == {offer.chunks[s] : s \in offer.support}
             a == AnswerWith("native", listed, cited, backed, listed # numbered)
  <2> SUFFICES ASSUME IsGrounded(cited, TRUE, listed), Returns(c, a), CachePut(q, a)
               PROVE  WebInv'
    OBVIOUS
  <2>1. offer.chunks \in Seq(Addresses) /\ offer.support \subseteq DOMAIN offer.chunks
    BY WebAssumption
  <2>2. q \in Questions /\ Wanted[q] \in Nat
    BY <1>1, WantedIs
  <2>3. backed \in SUBSET Addresses
    <3>1. \A s \in DOMAIN offer.chunks : offer.chunks[s] \in Addresses
      BY <2>1, ListOf
    <3> QED BY <2>1, <3>1
  <2>4. cited # {} /\ cited \subseteq DOMAIN listed
    BY DEF IsGrounded
  <2>5. \A i \in cited : i \in DOMAIN numbered /\ numbered[i] \in backed
    BY DEF GroundedNumbers
  <2> HIDE DEF q, cited, backed
  <2>6. numbered \in Seq(Addresses) /\ IsInjective(numbered) /\ Len(numbered) <= Wanted[q]
    BY <2>1, <2>2, GroundedAre
  <2> HIDE DEF numbered
  <2>7. /\ listed \in Seq(Addresses) /\ \A n \in DOMAIN listed : listed[n] \in PublicAddresses
        /\ Len(listed) <= Len(numbered) /\ (IsInjective(numbered) => IsInjective(listed))
    BY <2>6, OnlyFromIs
  <2> HIDE DEF listed
  <2>8. listed \in Seq(PublicAddresses) /\ IsInjective(listed) /\ Len(listed) <= Wanted[q]
    <3>1. listed \in Seq(PublicAddresses)
      BY <2>7, ListOf
    <3>2. Len(listed) \in Nat /\ Len(numbered) \in Nat
      BY <2>6, <2>7, ListOf
    <3> QED BY <2>2, <2>6, <2>7, <3>1, <3>2
  <2>9. /\ a \in GoodReply /\ a.sources = listed /\ a.kind = "native" /\ a.age = 0
    <3>1. PICK renumbered \in BOOLEAN : renumbered <=> listed # numbered
      OBVIOUS
    <3>2. renumbered = (listed # numbered)
      BY <3>1
    <3>3. "native" \in {"native", "model", "fallback"}
      OBVIOUS
    <3>4. "native" # "native" => ToSet(listed) \subseteq backed /\ FewOfAHost(listed)
      OBVIOUS
    <3>5. "native" = "native" /\ ~ renumbered => \A i \in cited : listed[i] \in backed
      BY <2>5, <3>1
    <3>6. /\ AnswerWith("native", listed, cited, backed, renumbered) \in GoodReply
          /\ AnswerWith("native", listed, cited, backed, renumbered).sources = listed
          /\ AnswerWith("native", listed, cited, backed, renumbered).kind = "native"
          /\ AnswerWith("native", listed, cited, backed, renumbered).age = 0
      BY <2>3, <2>4, <2>8, <3>3, <3>4, <3>5, ReplyIs
    <3> QED BY <3>2, <3>6
  <2> HIDE DEF a
  <2>10. AnswersKept(answers', webTime)
    BY <1>1, <2>2, <2>8, <2>9, PutIs
  <2>11. question' \in [Researchers -> Questions] /\ \A x \in Researchers \ {c} : question'[x] = question[x]
    BY <1>1, <1>2
  <2> QED BY <1>1, <1>2, <2>9, <2>10, <2>11, CallEnds
<1>5. \/ webStage' = [webStage EXCEPT ![c] = "brave"] /\ UNCHANGED <<sources, chains, webReply, answers>>
      \/ \E offer \in NativeOffers :
           LET q == question[c]
               numbered == GroundedSources(offer.chunks, Wanted[q])
               cited == GroundedNumbers(offer, numbered)
               listed == OnlyFrom(numbered, PublicAddresses)
               a == AnswerWith("native", listed, cited,
                               {offer.chunks[s] : s \in offer.support}, listed # numbered)
           IN IsGrounded(cited, TRUE, listed) /\ Returns(c, a) /\ CachePut(q, a)
  BY DEF AskNative
<1> QED BY <1>3, <1>4, <1>5

\* The first service lists enough to fetch, or less.
LEMMA SearchBraveStep ==
  ASSUME WebInv, NEW c \in Researchers, SearchBrave(c)
  PROVE  WebInv'
<1> DEFINE limit == Wanted[question[c]]
<1>1. /\ c \in Calls /\ AnswersKept(answers, webTime) /\ question \in [Researchers -> Questions]
      /\ question[c] \in Questions
  BY DEF WebInv, Calls
<1>2. limit \in Nat /\ limit >= 1
  BY <1>1, WantedIs
<1>3. PICK list \in BraveLists :
        LET found == Dedupe(Listed(list, 2 * limit), limit) IN
        IF Len(found) = limit THEN Starts(c, found)
        ELSE /\ webStage' = [webStage EXCEPT ![c] = "wikipedia"]
             /\ sources' = [sources EXCEPT ![c] = found]
             /\ UNCHANGED chains
  BY DEF SearchBrave
<1>4. question' = question /\ webReply' = webReply /\ answers' = answers /\ webTime' = webTime
  BY DEF SearchBrave
<1> DEFINE found == Dedupe(Listed(list, 2 * limit), limit)
<1>5. WellChosen(found) /\ Len(found) <= limit
  <2>1. list \in Seq(Addresses) /\ 2 * limit \in Nat
    BY <1>2, WebAssumption
  <2>2. Listed(list, 2 * limit) \in Seq(PublicAddresses)
    BY <2>1, ListedIs
  <2> QED BY <1>2, <2>2, DedupeIs
<1>6. \/ Len(found) = limit /\ Starts(c, found)
      \/ /\ webStage' = [webStage EXCEPT ![c] = "wikipedia"]
         /\ sources' = [sources EXCEPT ![c] = found] /\ chains' = chains
  BY <1>3
<1> HIDE DEF found
<1>7. CASE Len(found) = limit /\ Starts(c, found)
  <2>1. found # <<>>
    <3>1. Len(<<>>) = 0
      OBVIOUS
    <3> QED BY <1>2, <1>7, <3>1
  <2>2. UNCHANGED <<question, webReply, answers, webTime>>
    BY <1>4
  <2>3. c \in Researchers => Len(found) <= Wanted[question[c]]
    BY <1>5
  <2> QED BY <1>1, <1>5, <1>7, <2>1, <2>2, <2>3, CallFetches
<1>8. CASE /\ webStage' = [webStage EXCEPT ![c] = "wikipedia"]
           /\ sources' = [sources EXCEPT ![c] = found] /\ chains' = chains
  <2>1. "wikipedia" \in Stages /\ "wikipedia" # "pages"
    BY DEF Stages
  <2>2. question' \in [Researchers -> Questions] /\ \A x \in Researchers \ {c} : question'[x] = question[x]
    BY <1>1, <1>4
  <2>3. AnswersKept(answers', webTime)
    BY <1>1, <1>4
  <2> QED BY <1>1, <1>4, <1>5, <1>8, <2>1, <2>2, <2>3, CallGoesOn
<1> QED BY <1>6, <1>7, <1>8

\* The second service fills up what the first has found.
LEMMA SearchWikipediaStep ==
  ASSUME WebInv, NEW c \in Researchers, SearchWikipedia(c)
  PROVE  WebInv'
<1> DEFINE limit == Wanted[question[c]]
<1>1. /\ c \in Calls /\ AnswersKept(answers, webTime) /\ question \in [Researchers -> Questions]
      /\ question[c] \in Questions /\ sources[c] \in Seq(PublicAddresses)
  BY DEF WebInv, Calls
<1>2. limit \in Nat
  BY <1>1, WantedIs
<1>3. PICK list \in WikipediaLists :
        LET found == Dedupe(sources[c] \o Listed(list, limit), limit) IN
        IF found = <<>> THEN Returns(c, NothingFound)
        ELSE Starts(c, found) /\ UNCHANGED webReply
  BY DEF SearchWikipedia
<1>4. question' = question /\ answers' = answers /\ webTime' = webTime
  BY DEF SearchWikipedia
<1> DEFINE found == Dedupe(sources[c] \o Listed(list, limit), limit)
<1>5. WellChosen(found) /\ Len(found) <= limit
  <2>1. list \in Seq(Addresses)
    BY WebAssumption
  <2>2. Listed(list, limit) \in Seq(PublicAddresses)
    BY <1>2, <2>1, ListedIs
  <2>3. sources[c] \o Listed(list, limit) \in Seq(PublicAddresses)
    BY <1>1, <2>2, ConcatProperties
  <2> QED BY <1>2, <2>3, DedupeIs
<1>6. \/ found = <<>> /\ Returns(c, NothingFound)
      \/ found # <<>> /\ Starts(c, found) /\ webReply' = webReply
  BY <1>3
<1> HIDE DEF found
<1>7. CASE found = <<>> /\ Returns(c, NothingFound)
  <2>1. question' \in [Researchers -> Questions] /\ \A x \in Researchers \ {c} : question'[x] = question[x]
    BY <1>1, <1>4
  <2>2. AnswersKept(answers', webTime)
    BY <1>1, <1>4
  <2>3. NothingFound \in GoodReply /\ NothingFound.age = 0
    BY NoAnswerIs
  <2> QED BY <1>1, <1>4, <1>7, <2>1, <2>2, <2>3, CallEnds
<1>8. CASE found # <<>> /\ Starts(c, found) /\ webReply' = webReply
  <2>1. UNCHANGED <<question, webReply, answers, webTime>>
    BY <1>4, <1>8
  <2>2. c \in Researchers => Len(found) <= Wanted[question[c]]
    BY <1>5
  <2> QED BY <1>1, <1>5, <1>8, <2>1, <2>2, CallFetches
<1> QED BY <1>6, <1>7, <1>8

\* The answer is made of the sources and remembered.
LEMMA SumUpStep ==
  ASSUME WebInv, NEW c \in Calls, SumUp(c)
  PROVE  WebInv'
<1>1. c \in Researchers /\ webStage[c] = "pages"
  BY DEF SumUp
<1>2. /\ AnswersKept(answers, webTime) /\ webTime \in Nat /\ question \in [Researchers -> Questions]
      /\ question[c] \in Questions /\ WellChosen(sources[c]) /\ FetchesSources(c)
  BY <1>1 DEF WebInv
<1>3. PICK cited \in SUBSET (0 .. Len(sources[c]) + 1), sound \in BOOLEAN,
             stray \in SUBSET Unlisted(sources[c]) :
        /\ Returns(c, Judged(sources[c], cited, sound, stray, ToSet(sources[c])))
        /\ CachePut(question[c], Judged(sources[c], cited, sound, stray, ToSet(sources[c])))
  BY DEF SumUp
<1>4. PICK listed \in Seq(PublicAddresses) :
        /\ listed = sources[c] /\ IsInjective(listed) /\ FewOfAHost(listed) /\ listed # <<>>
        /\ Len(listed) <= Wanted[question[c]]
  BY <1>1, <1>2 DEF WellChosen, FetchesSources
<1> DEFINE backed == ToSet(listed)
           a == Judged(listed, cited, sound, stray, backed)
<1>5. backed \in SUBSET Addresses
  <2>1. \A i \in DOMAIN listed : listed[i] \in PublicAddresses
    BY ListOf
  <2> QED BY <2>1, WebAssumption DEF ToSet
<1>6. ToSet(listed) \subseteq backed /\ Returns(c, a) /\ CachePut(question[c], a)
  BY <1>3, <1>4
<1> HIDE DEF backed
<1>7. /\ a \in GoodReply /\ a.sources = listed /\ a.age = 0 /\ a.kind \in {"native", "model", "fallback"}
  BY <1>4, <1>5, <1>6, JudgedIs
<1> HIDE DEF a
<1>8. AnswersKept(answers', webTime)
  BY <1>2, <1>4, <1>6, <1>7, PutIs
<1>9. question' = question /\ webTime' = webTime
  BY DEF SumUp
<1>10. question' \in [Researchers -> Questions] /\ \A x \in Researchers \ {c} : question'[x] = question[x]
  BY <1>2, <1>9
<1> QED BY <1>6, <1>7, <1>8, <1>9, <1>10, CallEnds

\* A list of one address is distinct, and of one host.
LEMMA SingleIs ==
  ASSUME NEW a \in PublicAddresses
  PROVE  WellChosen(<<a>>) /\ <<a>> # <<>> /\ ToSet(<<a>>) = {a}
<1> DEFINE list == <<a>>
<1>1. list \in Seq(PublicAddresses) /\ DOMAIN list = {1} /\ list[1] = a /\ list # <<>>
  OBVIOUS
<1> HIDE DEF list
<1>2. FewOfAHost(list)
  <2> SUFFICES ASSUME NEW i \in DOMAIN list
               PROVE  Cardinality({j \in DOMAIN list : HostOf[list[j]] = HostOf[list[i]]}) <= 2
    BY DEF FewOfAHost
  <2>1. {j \in DOMAIN list : HostOf[list[j]] = HostOf[list[i]]} = {1}
    BY <1>1
  <2>2. Cardinality({1}) = 1
    BY FS_Singleton
  <2> QED BY <2>1, <2>2
<1>3. IsInjective(list) /\ ToSet(list) = {a}
  BY <1>1 DEF IsInjective, ToSet
<1> QED BY <1>1, <1>2, <1>3 DEF WellChosen, list

\* read_web_page begins, for a public address only.
LEMMA VisitStep ==
  ASSUME WebInv, NEW c \in Visitors, Visit(c)
  PROVE  WebInv'
<1>1. c \in Calls /\ c \notin Researchers
  BY WebAssumption DEF Calls
<1>2. AnswersKept(answers, webTime) /\ question \in [Researchers -> Questions]
  BY DEF WebInv
<1>3. PICK a \in Addresses :
        IF Public(a) THEN Starts(c, <<a>>) /\ UNCHANGED webReply ELSE Returns(c, Refusal)
  BY DEF Visit
<1>4. question' = question /\ answers' = answers /\ webTime' = webTime
  BY DEF Visit
<1>5. CASE Public(a)
  <2>1. a \in PublicAddresses
    BY <1>5 DEF Public
  <2>2. WellChosen(<<a>>) /\ <<a>> # <<>>
    BY <2>1, SingleIs
  <2>3. Starts(c, <<a>>) /\ UNCHANGED <<question, webReply, answers, webTime>>
    BY <1>3, <1>4, <1>5
  <2>4. c \in Researchers => Len(<<a>>) <= Wanted[question[c]]
    BY <1>1
  <2> QED BY <1>1, <2>2, <2>3, <2>4, CallFetches
<1>6. CASE ~ Public(a)
  <2>1. Refusal \in GoodReply /\ Refusal.age = 0 /\ Returns(c, Refusal)
    BY <1>3, <1>6, NoAnswerIs
  <2>2. question' \in [Researchers -> Questions] /\ \A x \in Researchers \ {c} : question'[x] = question[x]
    BY <1>2, <1>4
  <2>3. AnswersKept(answers', webTime)
    BY <1>2, <1>4
  <2> QED BY <1>1, <1>4, <2>1, <2>2, <2>3, CallEnds
<1> QED BY <1>5, <1>6

\* What was read is told, under the address at which it was read.
LEMMA TellPageStep ==
  ASSUME WebInv, NEW c \in Calls, TellPage(c)
  PROVE  WebInv'
<1>1. /\ webStage[c] = "pages" /\ FetchesDone(c) /\ c \in Visitors
      /\ question' = question /\ answers' = answers /\ webTime' = webTime
  BY DEF TellPage
<1>2. /\ AnswersKept(answers, webTime) /\ question \in [Researchers -> Questions]
      /\ sources[c] \in Seq(PublicAddresses) /\ FetchesSources(c)
  BY DEF WebInv
<1>3. 1 \in DOMAIN chains[c]
  <2>1. DOMAIN chains[c] = DOMAIN sources[c] /\ sources[c] # <<>>
    BY <1>1, <1>2 DEF FetchesSources
  <2>2. Len(sources[c]) \in Nat /\ Len(sources[c]) >= 1
    BY <1>2, <2>1, RestIs
  <2>3. DOMAIN sources[c] = 1 .. Len(sources[c])
    BY <1>2, ListOf
  <2> QED BY <2>1, <2>2, <2>3
<1>4. PICK x \in SafeFetch : x = chains[c][1] /\ x.state \in {"read", "failed"}
  BY <1>1, <1>3, FetchIs DEF FetchesDone
<1>5. question' \in [Researchers -> Questions] /\ \A y \in Researchers \ {c} : question'[y] = question[y]
  BY <1>1, <1>2
<1>6. AnswersKept(answers', webTime)
  BY <1>1, <1>2
<1>7. CASE x.state = "failed"
  <2>1. Returns(c, Refusal)
    BY <1>4, <1>7 DEF TellPage
  <2>2. Refusal \in GoodReply /\ Refusal.age = 0
    BY NoAnswerIs
  <2> QED BY <1>1, <1>5, <1>6, <2>1, <2>2, CallEnds
<1>8. CASE x.state = "read"
  <2>1. PICK cited \in SUBSET (0 .. 2), sound \in BOOLEAN, stray \in SUBSET Unlisted(<<x.at>>) :
          Returns(c, Judged(<<x.at>>, cited, sound, stray, x.cleared))
    BY <1>4, <1>8 DEF TellPage
  <2>2. x.at \in PublicAddresses /\ x.at \in x.cleared /\ x.cleared \in SUBSET Addresses
    BY <1>8 DEF SafeFetch, Fetch
  <2>3. WellChosen(<<x.at>>) /\ <<x.at>> # <<>> /\ ToSet(<<x.at>>) = {x.at}
    BY <2>2, SingleIs
  <2> DEFINE listed == <<x.at>>
             backed == x.cleared
             a == Judged(listed, cited, sound, stray, backed)
  <2>4. /\ listed \in Seq(PublicAddresses) /\ listed # <<>> /\ IsInjective(listed)
        /\ FewOfAHost(listed) /\ ToSet(listed) \subseteq backed /\ backed \in SUBSET Addresses
    BY <2>2, <2>3 DEF WellChosen
  <2>5. Returns(c, a) /\ stray \in SUBSET Unlisted(listed)
    BY <2>1
  <2> HIDE DEF listed, backed
  <2>6. a \in GoodReply /\ a.age = 0
    BY <2>4, <2>5, JudgedIs
  <2> HIDE DEF a
  <2> QED BY <1>1, <1>5, <1>6, <2>5, <2>6, CallEnds
<1> QED BY <1>4, <1>7, <1>8

\* Before the first call nothing is asked and nothing remembered.
LEMMA WebStarts == WebInit => WebInv
<1> SUFFICES ASSUME WebInit PROVE WebInv
  OBVIOUS
<1>1. /\ <<>> \in Seq(PublicAddresses) /\ <<>> \in Seq(SafeFetch) /\ <<>> \in Seq(WebAnswer)
      /\ DOMAIN <<>> = {} /\ Len(<<>>) = 0
  BY EmptySeq
<1>2. WellChosen(<<>>) /\ IsInjective(<<>>) /\ ToSet(<<>>) = {}
  BY <1>1 DEF WellChosen, FewOfAHost, IsInjective, ToSet
<1>3. question \in [Researchers -> Questions]
  <2>1. (CHOOSE q \in Questions : TRUE) \in Questions
    BY WebAssumption
  <2> QED BY <2>1 DEF WebInit
<1>4. webTime = 0 /\ answers = <<>> /\ AnswerLimit \in Nat
  BY WebAssumption DEF WebInit
<1>5. AnswersKept(answers, webTime)
  BY <1>1, <1>2, <1>4 DEF AnswersKept
<1>6. /\ webStage \in [Calls -> Stages] /\ sources \in [Calls -> Seq(PublicAddresses)]
      /\ chains \in [Calls -> Seq(SafeFetch)] /\ webReply \in [Calls -> GoodReply]
      /\ \A c \in Calls : webStage[c] = "idle" /\ sources[c] = <<>> /\ webReply[c].age = 0
  BY <1>1, NoAnswerIs DEF WebInit, Stages
<1>7. \A c \in Calls : FetchesSources(c)
  BY <1>6 DEF FetchesSources
<1> QED BY <1>2, <1>3, <1>4, <1>5, <1>6, <1>7 DEF WebInv

\* Time makes nothing that is remembered live longer.
LEMMA WebTickStep ==
  ASSUME WebInv, WebTick
  PROVE  WebInv'
<1>1. /\ webStage' = webStage /\ question' = question /\ sources' = sources /\ chains' = chains
      /\ webReply' = webReply /\ answers' = answers /\ webTime' = webTime + 1
  BY DEF WebTick
<1>2. webTime \in Nat /\ AnswersKept(answers, webTime) /\ AnswerLife \in Nat
  BY WebAssumption DEF WebInv
<1>3. \A e \in ToSet(answers) : e.until \in Nat
  <2>1. ToSet(answers) \subseteq WebAnswer
    BY <1>2, ListOf DEF AnswersKept, ToSet
  <2> QED BY <2>1 DEF WebAnswer
<1>4. \A e \in ToSet(answers) : e.until <= webTime + 1 + AnswerLife
  BY <1>2, <1>3 DEF AnswersKept
<1>5. AnswersKept(answers', webTime') /\ webTime' \in Nat
  BY <1>1, <1>2, <1>4 DEF AnswersKept
<1>6. \A c \in Calls : FetchesSources(c)'
  BY <1>1 DEF WebInv, FetchesSources
<1> QED BY <1>1, <1>5, <1>6 DEF WebInv

\* Every step keeps the invariant.
LEMMA WebInvStep == WebInv /\ [WebNext]_webVars => WebInv'
<1> SUFFICES ASSUME WebInv, [WebNext]_webVars PROVE WebInv'
  OBVIOUS
<1>1. Researchers \subseteq Calls /\ Visitors \subseteq Calls
  BY DEF Calls
<1>2. ASSUME NEW c \in Researchers, AskWeb(c) PROVE WebInv'
  BY <1>2, AskWebStep
<1>3. ASSUME NEW c \in Researchers, AskNative(c) PROVE WebInv'
  BY <1>3, AskNativeStep
<1>4. ASSUME NEW c \in Researchers, SearchBrave(c) PROVE WebInv'
  BY <1>4, SearchBraveStep
<1>5. ASSUME NEW c \in Researchers, SearchWikipedia(c) PROVE WebInv'
  BY <1>5, SearchWikipediaStep
<1>6. ASSUME NEW c \in Researchers, SumUp(c) PROVE WebInv'
  BY <1>1, <1>6, SumUpStep
<1>7. ASSUME NEW c \in Visitors, Visit(c) PROVE WebInv'
  BY <1>7, VisitStep
<1>8. ASSUME NEW c \in Visitors, TellPage(c) PROVE WebInv'
  BY <1>1, <1>8, TellPageStep
<1>9. ASSUME NEW c \in Calls, NEW i \in DOMAIN chains[c], LookUp(c, i) PROVE WebInv'
  BY <1>9, LookUpStep
<1>10. ASSUME NEW c \in Calls, NEW i \in DOMAIN chains[c], Request(c, i) PROVE WebInv'
  BY <1>10, RequestStep
<1>11. CASE WebTick
  BY <1>11, WebTickStep
<1>12. CASE UNCHANGED webVars
  <2>1. /\ webStage' = webStage /\ question' = question /\ sources' = sources /\ chains' = chains
        /\ webReply' = webReply /\ answers' = answers /\ webTime' = webTime
    BY <1>12 DEF webVars
  <2>2. \A c \in Calls : FetchesSources(c)'
    BY <2>1 DEF WebInv, FetchesSources
  <2> QED BY <2>1, <2>2 DEF WebInv
<1> QED BY <1>2, <1>3, <1>4, <1>5, <1>6, <1>7, <1>8, <1>9, <1>10, <1>11, <1>12 DEF WebNext

\* What the invariant says of the fetches.
LEMMA WebInvAsks == WebInv => FetchesAsked
<1> SUFFICES ASSUME WebInv PROVE FetchesAsked
  OBVIOUS
<1>1. WebTypeOK
  <2>1. \A c \in Calls : sources[c] \in Seq(PublicAddresses) /\ webReply[c] \in WebReplies
    BY DEF WebInv, GoodReply
  <2>2. \A c \in Calls : webStage[c] = "pages" => DOMAIN chains[c] = DOMAIN sources[c]
    BY DEF WebInv, FetchesSources
  <2> QED BY <2>1, <2>2 DEF WebInv, WebTypeOK
<1>2. RequestsAsked
  <2>1. ASSUME NEW c \in Calls, NEW i \in DOMAIN chains[c]
        PROVE  /\ chains[c][i].requested \subseteq chains[c][i].cleared \cap PublicAddresses
               /\ chains[c][i].hops <= RedirectLimit
               /\ chains[c][i].state = "get" => chains[c][i].at \in chains[c][i].cleared
    <3>1. PICK x \in SafeFetch : x = chains[c][i]
      BY FetchIs
    <3>2. x.requested \subseteq x.cleared \cap PublicAddresses /\ (x.state = "get" => x.at \in x.cleared)
      BY DEF SafeFetch
    <3>3. x.hops <= RedirectLimit
      BY WebAssumption DEF SafeFetch, Fetch
    <3> QED BY <3>1, <3>2, <3>3
  <2> QED BY <2>1 DEF RequestsAsked
<1> QED BY <1>1, <1>2 DEF FetchesAsked

\* What it says of the answers.
LEMMA WebInvAnswers == WebInv => WebAnswersSound
<1> SUFFICES ASSUME WebInv PROVE WebAnswersSound
  OBVIOUS
<1>1. CitesListed
  <2>1. ASSUME NEW c \in Calls, webReply[c].kind \in {"native", "model", "fallback"}
        PROVE  /\ webReply[c].kind # "fallback" =>
                    webReply[c].cited # {} /\ webReply[c].cited \subseteq DOMAIN webReply[c].sources
               /\ Cardinality(ToSet(webReply[c].sources)) = Len(webReply[c].sources)
               /\ webReply[c].kind # "native" =>
                    /\ ToSet(webReply[c].sources) \subseteq webReply[c].backed
                    /\ \A i \in DOMAIN webReply[c].sources :
                         Cardinality({j \in DOMAIN webReply[c].sources :
                           HostOf[webReply[c].sources[j]] = HostOf[webReply[c].sources[i]]}) <= 2
    <3>1. Cited(webReply[c]) /\ webReply[c].sources \in Seq(PublicAddresses)
      BY <2>1 DEF WebInv, GoodReply, WebReplies
    <3>2. IsInjective(webReply[c].sources)
      BY <3>1 DEF Cited
    <3>3. Cardinality(ToSet(webReply[c].sources)) = Len(webReply[c].sources)
      BY <3>1, <3>2, DistinctCount
    <3> QED BY <3>1, <3>3 DEF Cited, FewOfAHost
  <2> QED BY <2>1 DEF CitesListed
<1>2. NativeCitesSupport
  <2>1. ASSUME NEW c \in Researchers, webReply[c].kind = "native", ~ webReply[c].renumbered,
               NEW i \in webReply[c].cited
        PROVE  webReply[c].sources[i] \in webReply[c].backed
    <3>1. c \in Calls
      BY DEF Calls
    <3>2. Cited(webReply[c])
      BY <2>1, <3>1 DEF WebInv, GoodReply
    <3> QED BY <2>1, <3>2 DEF Cited
  <2> QED BY <2>1 DEF NativeCitesSupport
<1>3. MemoryOfAnswers
  <2>1. AnswersKept(answers, webTime)
    BY DEF WebInv
  <2>2. ASSUME NEW i \in DOMAIN answers
        PROVE  /\ answers[i].reply.kind \in {"native", "model", "fallback"}
               /\ answers[i].until <= webTime + AnswerLife
               /\ Len(answers[i].reply.sources) <= Wanted[answers[i].question]
    <3>1. answers[i] \in ToSet(answers)
      BY DEF ToSet
    <3>2. answers[i] \in WebAnswer
      BY <2>1, ListOf DEF AnswersKept
    <3> QED BY <2>1, <3>1, <3>2 DEF AnswersKept, WebAnswer
  <2>3. ASSUME NEW i \in DOMAIN answers, NEW j \in DOMAIN answers, answers[i].question = answers[j].question
        PROVE  i = j
    <3>1. answers[i] \in ToSet(answers) /\ answers[j] \in ToSet(answers)
      BY DEF ToSet
    <3>2. answers[i] = answers[j]
      BY <2>1, <2>3, <3>1 DEF AnswersKept
    <3> QED BY <2>1, <3>2 DEF AnswersKept, IsInjective
  <2>4. Len(answers) <= AnswerLimit
    BY <2>1 DEF AnswersKept
  <2> QED BY <2>2, <2>3, <2>4 DEF WebInv, MemoryOfAnswers
<1> QED BY <1>1, <1>2, <1>3 DEF WebAnswersSound

\* No page is requested whose address was not found public and asked about, at no hop,
\* however many sources are fetched at once (web_research.py:429-502).
THEOREM FetchesAreAsked == WebSpec => []FetchesAsked
<1>1. WebInit => WebInv
  BY WebStarts
<1>2. WebInv /\ [WebNext]_webVars => WebInv'
  BY WebInvStep
<1>3. WebInv => FetchesAsked
  BY WebInvAsks
<1> QED BY <1>1, <1>2, <1>3, PTL DEF WebSpec

\* Every answer from the web rests on the sources listed below it, whichever searches
\* answered; one a model wrote cites only these; and it is remembered only for its
\* question and its time (web_research.py:717-733, 829-888).
THEOREM WebAnswersAreSound == WebSpec => []WebAnswersSound
<1>1. WebInit => WebInv
  BY WebStarts
<1>2. WebInv /\ [WebNext]_webVars => WebInv'
  BY WebInvStep
<1>3. WebInv => WebAnswersSound
  BY WebInvAnswers
<1> QED BY <1>1, <1>2, <1>3, PTL DEF WebSpec
=============================================================================
