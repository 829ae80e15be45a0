---------------------------- MODULE VerdictGate ----------------------------
(***************************************************************************)
(* The meeting point of the listeners of one gateway event (message_gate.py *)
(* and join_gate.py, the same algorithm twice).  A moderator announces that *)
(* it judges a key and later gives its verdict; the other listeners of the  *)
(* same event wait for it, for a bounded time.  They share one asyncio      *)
(* event object in the table, which a waiter that gives up removes: those   *)
(* that still wait on it are cut off and can only time out.                 *)
(***************************************************************************)
EXTENDS Integers, FiniteSets

CONSTANTS
  GateKeys,        \* messages or joins, each with an identity of its own
  GateWaiters,     \* the listeners that wait
  WaitsFor,        \* [GateWaiters -> GateKeys]
  GateLimit,       \* verdicts remembered (5000)
  ChecksAge,       \* does a waiter look at the age of a remembered verdict?
  MayAge           \* bound: the keys whose verdict may outlive its time

ASSUME GateAssumption == WaitsFor \in [GateWaiters -> GateKeys] /\ MayAge \subseteq GateKeys

VARIABLES
  results,         \* _results: "none", "blocked" or "clear" for every key
  order,           \* the times in _results: <<k, l>> if k's verdict is the older one
  aged,            \* the keys whose verdict is older than _RESULT_TTL_SECONDS
  open,            \* the keys with an event object in the table (_events)
  wait             \* every waiter: "idle", "on" the table's event, "off" it,
                   \* "woken", or its answer

gateVars == <<results, order, aged, open, wait>>

Verdicts == {"blocked", "clear"}
Answers == Verdicts \cup {"none"}

GateInit ==
  /\ results = [k \in GateKeys |-> "none"]
  /\ order = {} /\ aged = {} /\ open = {}
  /\ wait = [w \in GateWaiters |-> "idle"]

\* The waiters of the keys S that hold the table's event move to state s.
Moved(W, S, s) == [w \in GateWaiters |-> IF W[w] = "on" /\ WaitsFor[w] \in S THEN s ELSE W[w]]

GateBegin(k) == open' = open \cup {k} /\ UNCHANGED <<results, order, aged, wait>>

\* The keys with a verdict in R; an order of verdicts without the keys S.
Remembered(R) == {k \in GateKeys : R[k] # "none"}
Without(o, S) == {p \in o : p[1] \notin S /\ p[2] \notin S}

\* What finishing drops of the verdicts R in the order o: those in old, or the
\* older half when there are more than the limit.
Dropped(R, o, old) ==
  LET K == Remembered(R)
  IN IF Cardinality(K) <= GateLimit THEN old
     ELSE {k \in K : Cardinality({l \in K : <<l, k>> \in o}) < Cardinality(K) \div 2}

GateFinish(k, v) ==
  LET given == [results EXCEPT ![k] = v]
      now == Without(order, {k}) \cup ((Remembered(results) \ {k}) \X {k})
      gone == Dropped(given, now, aged \ {k})
  IN /\ results' = [x \in GateKeys |-> IF x \in gone THEN "none" ELSE given[x]]
     /\ order' = Without(now, gone)
     /\ aged' = aged \ (gone \cup {k})
     /\ open' = open \ (gone \cup {k})
     /\ wait' = Moved(Moved(wait, {k}, "woken"), gone, "off")

Stale(k) == ChecksAge /\ k \in aged

\* A remembered verdict is the answer at once.
Remember(w) ==
  LET k == WaitsFor[w]
  IN /\ wait[w] = "idle" /\ results[k] # "none" /\ ~Stale(k)
     /\ wait' = [wait EXCEPT ![w] = results[k]]
     /\ UNCHANGED <<results, order, aged, open>>

\* Otherwise the waiter takes the table's event, or puts one there.
StartWait(w) ==
  LET k == WaitsFor[w]
  IN /\ wait[w] = "idle" /\ (results[k] = "none" \/ Stale(k))
     /\ wait' = [wait EXCEPT ![w] = "on"]
     /\ open' = open \cup {k}
     /\ results' = [results EXCEPT ![k] = "none"]
     /\ order' = Without(order, {k})
     /\ aged' = aged \ {k}

\* A woken waiter reads the verdict, which may have been dropped meanwhile.
Wake(w) ==
  /\ wait[w] = "woken"
  /\ wait' = [wait EXCEPT ![w] = results[WaitsFor[w]]]
  /\ UNCHANGED <<results, order, aged, open>>

\* The time is up: the waiter removes the event if it is still the table's.
GiveUp(w) ==
  /\ wait[w] \in {"on", "off"}
  /\ LET k == WaitsFor[w]
         alone == Moved([wait EXCEPT ![w] = "none"], {k}, "off")
     IN IF wait[w] = "on" THEN open' = open \ {k} /\ wait' = alone
        ELSE open' = open /\ wait' = [wait EXCEPT ![w] = "none"]
  /\ UNCHANGED <<results, order, aged>>

\* _RESULT_TTL_SECONDS pass.
Age(k) == results[k] # "none" /\ k \notin aged /\ aged' = aged \cup {k}
          /\ UNCHANGED <<results, order, open, wait>>

Listen == \E w \in GateWaiters : Remember(w) \/ StartWait(w) \/ Wake(w) \/ GiveUp(w)
AgeSome == \E k \in MayAge : Age(k)

\* Verdicts are ordered by their age, and only a remembered one grows old; a waiter
\* holds the table's event only while there is one.
GateTypeOK ==
  /\ results \in [GateKeys -> Answers]
  /\ order \subseteq Remembered(results) \X Remembered(results)
  /\ \A k, l \in Remembered(results) : (<<k, l>> \in order) = (k # l /\ <<l, k>> \notin order)
  /\ \A k, l, m \in GateKeys : <<k, l>> \in order /\ <<l, m>> \in order => <<k, m>> \in order
  /\ aged \subseteq Remembered(results)
  /\ open \subseteq GateKeys
  /\ wait \in [GateWaiters -> {"idle", "on", "off", "woken"} \cup Answers]
  /\ \A w \in GateWaiters : wait[w] = "on" => WaitsFor[w] \in open
=============================================================================
