----------------------------- MODULE RunLedger -----------------------------
(***************************************************************************)
(* What the automation runtime promises of one run, a rule answering one   *)
(* event: it is reserved once, before anything is done; its steps reach    *)
(* Discord in order and each at most once; when its status is written,     *)
(* nothing more is done; and a status that says nothing happened is true.  *)
(* (automation_rules.py:3-5, storage.py:421-423.)                          *)
(***************************************************************************)
EXTENDS Integers

CONSTANTS Jobs, StepNos

Terminal == {"completed", "failed", "partial", "skipped", "unknown"}
NothingDone == {"failed", "skipped"}

VARIABLES
  status,  \* [Jobs -> {"none", "reserved"} \cup Terminal]
  effects  \* [Jobs -> [StepNos -> Nat]]: how often a step took effect

ledgerVars == <<status, effects>>

Init ==
  /\ status = [j \in Jobs |-> "none"]
  /\ effects = [j \in Jobs |-> [s \in StepNos |-> 0]]

Reserve(j) ==
  /\ status[j] = "none"
  /\ status' = [status EXCEPT ![j] = "reserved"]
  /\ UNCHANGED effects

Perform(j, s) ==
  /\ status[j] = "reserved"
  /\ \A later \in StepNos : later >= s => effects[j][later] = 0
  /\ effects' = [effects EXCEPT ![j][s] = 1]
  /\ UNCHANGED status

Close(j, st) ==
  /\ status[j] = "reserved"
  /\ st \in NothingDone => \A s \in StepNos : effects[j][s] = 0
  /\ status' = [status EXCEPT ![j] = st]
  /\ UNCHANGED effects

Next ==
  \E j \in Jobs :
    \/ Reserve(j)
    \/ \E s \in StepNos : Perform(j, s)
    \/ \E st \in Terminal : Close(j, st)

Spec == Init /\ [][Next]_ledgerVars
=============================================================================
