------------------------------ MODULE FormClaims ------------------------------
(***************************************************************************)
(* The claim that makes a decision on a form happen once (forms.py,        *)
(* storage.py): a row of the table form_decisions, INSERT OR IGNORE, with  *)
(* a set of recent claims in memory before it.                             *)
(***************************************************************************)
EXTENDS FiniteSets, Integers

CONSTANTS
  FormMessages,    \* messages that carry the buttons of a decision
  ClaimMemory      \* bound: claims remembered before half of them are forgotten

ASSUME ClaimMemoryAssumption == ClaimMemory \in Nat

VARIABLES
  decided,      \* rows of form_decisions
  processed     \* the process's memory of claims

claimVars == <<decided, processed>>

ClaimTypeOK == decided \subseteq FormMessages /\ processed \subseteq FormMessages

ClaimInit == decided = {} /\ processed = {}

\* Over the limit half of the remembered claims go, whichever they are.
Remembered(claims) ==
  IF Cardinality(claims) <= ClaimMemory THEN {claims}
  ELSE {kept \in SUBSET claims : Cardinality(kept) = Cardinality(claims) - (ClaimMemory + 1) \div 2}

ClaimForm(m) ==
  /\ m \notin processed \cup decided
  /\ decided' = decided \cup {m}
  /\ processed' \in Remembered(processed \cup {m})

\* The message is claimed already, or the write fails; a row whose commit failed
\* stays in the open transaction of the shared connection, and the next writer
\* commits it.
ClaimFormRefused(m) ==
  /\ decided' \in {decided, decided \cup {m}}
  /\ UNCHANGED processed

\* A restart forgets the memory and keeps the table.
ForgetClaims == processed' = {} /\ UNCHANGED decided
=============================================================================
