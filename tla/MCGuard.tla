------------------------------ MODULE MCGuard ------------------------------
(***************************************************************************)
(* Small instances of the automations against edits of their rules and of   *)
(* the modules that guard a server: the check of messages, joins under the   *)
(* anti-raid guard, and the watch over the server's settings.  They share no *)
(* state, so a behaviour is one of one part, chosen at its start, and the    *)
(* variables of the others stand still.  Messages come two at a time: both   *)
(* of one author, or one of them of the staff.                               *)
(***************************************************************************)
EXTENDS MCAutomationRuntime, MessageModeration, JoinSecurity, PostureMonitor

CONSTANTS g1, g2, g3, a, x, s1, c1, c2, w1, j2, j3, h1, l1, e1, z0, z1, z2

MCAuthor == (g1 :> a) @@ (g2 :> a) @@ (g3 :> o)
MCServer == [m \in GateKeys |-> s1]
MCRoom == (g1 :> c1) @@ (g2 :> c2) @@ (g3 :> c1)
MCBody == [m \in GateKeys |-> x]
MCWaits == [w \in GateWaiters |-> g1]
\* The first message may be changed to a picture under suspicion, which its name
\* confirms; the third, of the staff, has a dangerous file.
MCNatures == (g1 :> {{}, {"seenMedia", "oddMedia"}}) @@ (g2 :> {{}}) @@ (g3 :> {{"badFile"}})
MCRaids == [m \in GateKeys |-> {m = g2}]
MCFilterSets ==
  {{}, {"enabled", "flood", "scam"},
   {"enabled", "scam", "ads", "nsfw", "mentions", "cross", "spam", "flood"}}

MCSignals == (j1 :> {"invite"}) @@ (j2 :> {"noAvatar", "digits"}) @@ (j3 :> {})

\* A calm server, one that was opened to others, the same when the bot that it let
\* in has left, and one that was weakened.
MCRule(active) == [on |-> active, actions |-> {"block"}, exempt |-> {}, terms |-> 0]
MCCalm ==
  [levels |-> [l \in Levels |-> 2], everyone |-> {}, bot |-> {"ban"},
   roles |-> [r \in Roles |-> {}], admins |-> {},
   channels |-> [c \in Channels |-> [there |-> FALSE, allows |-> {}, own |-> {}]],
   hooks |-> [ok |-> TRUE, seen |-> TRUE, items |-> [h \in Hooks |-> z0]],
   rules |-> [ok |-> TRUE, seen |-> TRUE, items |-> [r \in Rules |-> MCRule(TRUE)]],
   noticed |-> [y \in {"raid", "spam"} |-> FALSE], desk |-> z1]
MCOpened ==
  [MCCalm EXCEPT !.hooks.items = [h \in Hooks |-> z1], !.admins = {"other"}, !.everyone = {"ban"},
                 !.channels = [c \in Channels |-> [there |-> TRUE, allows |-> {"ban"}, own |-> {}]]]
MCWeakened ==
  [MCCalm EXCEPT !.hooks.items = [h \in Hooks |-> z1], !.roles = [r \in Roles |-> {"ban"}],
                 !.rules.items = [r \in Rules |-> MCRule(FALSE)], !.bot = {}, !.levels["mfa"] = 0]
MCLeft == [MCOpened EXCEPT !.admins = {}]
MCWorlds == {MCCalm, MCOpened, MCLeft, MCWeakened}

VARIABLE part

GuardInit ==
  /\ part \in {"automations", "messages", "staff", "joins", "posture"}
  /\ Init
  /\ ModerationInit
  /\ part \notin {"messages", "staff"} =>
       filters = {} /\ \A m \in GateKeys : nature[m] = CHOOSE f \in Natures[m] : TRUE
  /\ JoinInit /\ (part # "joins" => guarding)
  /\ PostureInit /\ (part # "posture" => world = MCCalm)

GuardNext ==
  /\ UNCHANGED part
  /\ \/ part = "automations" /\ Next /\ UNCHANGED <<gateVars, modVars, joinVars, postureVars>>
     \/ /\ part = "messages" /\ ModerationNext /\ stage'[<<g3, "new">>] = "idle"
        /\ UNCHANGED <<vars, joinVars, postureVars>>
     \/ /\ part = "staff" /\ ModerationNext /\ stage'[<<g2, "new">>] = "idle"
        /\ UNCHANGED <<vars, joinVars, postureVars>>
     \/ part = "joins" /\ JoinNext /\ UNCHANGED <<vars, gateVars, modVars, postureVars>>
     \/ part = "posture" /\ PostureNext /\ UNCHANGED <<vars, gateVars, modVars, joinVars>>

GuardSpec == GuardInit /\ [][GuardNext]_<<part, vars, gateVars, modVars, joinVars, postureVars>>
=============================================================================
