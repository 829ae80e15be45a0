---------------------------- MODULE MCRuntimeParts ----------------------------
(***************************************************************************)
(* Two small instances of AutomationRuntime in one run: in one a single    *)
(* task handles departures while the rule's cooldown is edited, in the     *)
(* other two tasks compete.  Departures are alike, so they are claimed in  *)
(* a fixed order.                                                          *)
(***************************************************************************)
EXTENDS MCAutomationRuntime

VARIABLE part

RuntimeInit == part \in {"spacing", "ends"} /\ Init

Begins(t) == pc[t] = "idle" /\ pc'[t] = "filter"
Before(k) == CASE k = r2 -> {r1} [] k = r3 -> {r1, r2} [] OTHER -> {}

Spacing ==
  /\ verdict' = verdict
  /\ \A t \in Tasks : Begins(t) =>
       t = t1 /\ key'[t] # m1 /\ \A k \in Before(key'[t]) : runs[1, k].st # "none"

Ends ==
  /\ \A t \in Tasks : Begins(t) => key'[t] \in {m1, r1}
  /\ \A id \in Ids : rules'[id] # NoRule => rules'[id].def = d3 /\ rules'[id].rev <= 1

RuntimeNext ==
  /\ Next /\ UNCHANGED part
  /\ part = "spacing" => Spacing
  /\ part = "ends" => Ends

RuntimeSpec == RuntimeInit /\ [][RuntimeNext]_<<part, vars>> /\ Fairness
=============================================================================
