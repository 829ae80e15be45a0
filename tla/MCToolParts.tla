----------------------------- MODULE MCToolParts -----------------------------
(***************************************************************************)
(* Two small instances of AutomationTool in one run: in one the owner's    *)
(* calls edit two rules, in the other the owner and a beta author one.     *)
(* Calls are alike, so the first idle one begins; there is one definition, *)
(* so passing it and not passing it are the same.                          *)
(***************************************************************************)
EXTENDS MCAutomationTool

VARIABLE part

ToolInit == part \in {"edits", "own"} /\ Init

Begins(c) == pc[c] = "idle" /\ pc'[c] = "list"
NamesOf(r) == IF r.op \in {"create", "update"} THEN {r.name} ELSE {}
Chosen(r) ==
  /\ r.op = "update" => r.def = Keep
  /\ part = "edits" => r.author = Owner
  /\ part = "own" => NamesOf(r) \subseteq {n1, Keep}

ToolNext ==
  /\ Next /\ UNCHANGED part
  /\ \A c \in Calls : Begins(c) => Chosen(req'[c]) /\ (c = c2 => pc[c1] # "idle")
  /\ part = "edits" => grants' = {}
  /\ part = "own" => nextId' <= 2

ToolSpec ==
  ToolInit /\ [][ToolNext]_<<part, vars>> /\ \A c \in Calls : SF_vars(Proceed(c))
=============================================================================
