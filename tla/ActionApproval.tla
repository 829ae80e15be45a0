---------------------------- MODULE ActionApproval ----------------------------
(***************************************************************************)
(* Actions that only the owner may allow (pos_ai.py, forms.py).  A member's*)
(* request, or the owner's own request to stop the process, becomes a DM   *)
(* to the owner with two buttons that live for ten minutes and not beyond  *)
(* a restart.  The first press or the timeout resolves it; an approved     *)
(* action is performed, audited and journalled, and the owner is told what *)
(* came of it.                                                             *)
(***************************************************************************)
EXTENDS Integers, FiniteSets

CONSTANTS
  Requests,
  Requesters,
  Owner,
  RequesterOf,       \* [Requests -> Requesters]
  Presses,           \* button presses that may be at work at one time
  RequestCooldown,   \* ticks between two requests of one member
  ViewLifetime,      \* ticks without a press after which the buttons die
  MaxTime,           \* bound: the last tick
  Pressed            \* bound: the requests whose buttons are pressed

ASSUME ApprovalAssumption ==
  /\ RequesterOf \in [Requests -> Requesters] /\ Owner \in Requesters
  /\ Pressed \subseteq Requests
  /\ {RequestCooldown, ViewLifetime, MaxTime} \subseteq Nat

VARIABLES
  clock,
  request,     \* [Requests -> [pc, at, end]]: the tool call, when it asked, when its buttons die
  lastAsked,       \* [Requesters -> the tick of the last request, or Never]
  resolved,    \* [Requests -> "open", "approved", "denied" or "expired"]: the view's flag, and by whom
  press,       \* [Presses -> the handler at work]
  attempts,    \* [Requests -> how often Discord was asked to act]
  effect,      \* [Requests -> the action took effect]
  audited,     \* [Requests -> rows of ai_events about it]
  journalled,  \* [Requests -> rows of the action journal about it]
  told         \* [Requests -> what the owner was told]

approvalVars ==
  <<clock, request, lastAsked, resolved, press, attempts, effect, audited, journalled, told>>

Never == -1 - RequestCooldown
NoPress == [pc |-> "idle"]
Results == {"done", "not done", "unknown"}
Pressing == {NoPress} \cup
  [pc : {"claim", "act", "audit", "journal", "tell"}, of : Requests, allow : BOOLEAN,
   result : Results, warned : BOOLEAN]
Replies == {"denied", "done", "done with a warning", "not done"}

ApprovalTypeOK ==
  /\ clock \in 0..MaxTime
  /\ request \in [Requests -> [pc : {"new", "sending", "waiting", "refused", "failed", "gone"},
                               at : 0..MaxTime, end : 0..MaxTime + ViewLifetime]]
  /\ lastAsked \in [Requesters -> {Never} \cup 0..MaxTime]
  /\ resolved \in [Requests -> {"open", "approved", "denied", "expired"}]
  /\ press \in [Presses -> Pressing]
  /\ \A p \in Presses : press[p].pc \notin {"idle", "claim"} =>
       resolved[press[p].of] = IF press[p].allow THEN "approved" ELSE "denied"
  /\ attempts \in [Requests -> 0..2] /\ effect \in [Requests -> BOOLEAN]
  /\ audited \in [Requests -> 0..2] /\ journalled \in [Requests -> 0..2]
  /\ told \in [Requests -> SUBSET Replies]

ApprovalInit ==
  /\ clock = 0
  /\ request = [q \in Requests |-> [pc |-> "new", at |-> 0, end |-> 0]]
  /\ lastAsked = [u \in Requesters |-> Never]
  /\ resolved = [q \in Requests |-> "open"]
  /\ press = [p \in Presses |-> NoPress]
  /\ attempts = [q \in Requests |-> 0] /\ effect = [q \in Requests |-> FALSE]
  /\ audited = [q \in Requests |-> 0] /\ journalled = [q \in Requests |-> 0]
  /\ told = [q \in Requests |-> {}]

actionVars == <<attempts, effect, audited, journalled, told>>

-----------------------------------------------------------------------------
\* execute_pos_tool: the call names an existing target; a member who has asked
\* lately is put off.  The owner's own request has no cooldown.
Ask(q) ==
  /\ request[q].pc = "new"
  /\ IF RequesterOf[q] # Owner /\ clock < lastAsked[RequesterOf[q]] + RequestCooldown
     THEN request' = [request EXCEPT ![q].pc = "refused"] /\ UNCHANGED lastAsked
     ELSE /\ request' = [request EXCEPT ![q].pc = "sending", ![q].at = clock]
          /\ lastAsked' = IF RequesterOf[q] = Owner THEN lastAsked
                      ELSE [lastAsked EXCEPT ![RequesterOf[q]] = clock]
  /\ UNCHANGED <<clock, resolved, press, actionVars>>

\* owner.send: the DM with the buttons is there, and the view is bound to it.
DmSent(q) ==
  /\ request[q].pc = "sending"
  /\ request' = [request EXCEPT ![q].pc = "waiting", ![q].end = clock + ViewLifetime]
  /\ UNCHANGED <<lastAsked, clock, resolved, press, actionVars>>

\* The owner is not found or the DM fails: the requester may ask again at once,
\* whoever's request the entry stands for by now.
DmFails(q) ==
  /\ request[q].pc = "sending"
  /\ request' = [request EXCEPT ![q].pc = "failed", ![q].end = clock]
  /\ lastAsked' = IF RequesterOf[q] = Owner THEN lastAsked ELSE [lastAsked EXCEPT ![RequesterOf[q]] = Never]
  /\ UNCHANGED <<clock, resolved, press, actionVars>>

-----------------------------------------------------------------------------
\* The owner presses a button: a press that is let in prolongs the view.
PressButton(p, q, allow) ==
  /\ q \in Pressed /\ press[p] = NoPress /\ request[q].pc = "waiting"
  /\ clock < request[q].end /\ resolved[q] # "expired"
  /\ press' = [press EXCEPT ![p] = [pc |-> "claim", of |-> q, allow |-> allow,
                                    result |-> "not done", warned |-> FALSE]]
  /\ request' = [request EXCEPT ![q].end = clock + ViewLifetime]
  /\ UNCHANGED <<clock, lastAsked, resolved, actionVars>>

\* Mutant: only the other decision stops a press.
ClaimViewTwice(p) ==
  /\ press[p].pc = "claim"
  /\ LET mine == IF press[p].allow THEN "approved" ELSE "denied"
     IN  IF resolved[press[p].of] \notin {"open", mine}
         THEN press' = [press EXCEPT ![p] = NoPress] /\ UNCHANGED resolved
         ELSE /\ resolved' = [resolved EXCEPT ![press[p].of] = mine]
              /\ press' = [press EXCEPT ![p].pc = IF press[p].allow THEN "act" ELSE "tell"]
  /\ UNCHANGED <<clock, request, lastAsked, actionVars>>

\* _claim: the first press resolves the view; a later one is told so.
ClaimView(p) ==
  /\ press[p].pc = "claim"
  /\ IF resolved[press[p].of] # "open"
     THEN press' = [press EXCEPT ![p] = NoPress] /\ UNCHANGED resolved
     ELSE /\ resolved' = [resolved EXCEPT ![press[p].of] = IF press[p].allow THEN "approved" ELSE "denied"]
          /\ press' = [press EXCEPT ![p].pc = IF press[p].allow THEN "act" ELSE "tell"]
  /\ UNCHANGED <<clock, request, lastAsked, actionVars>>

\* on_timeout.
ViewTimesOut(q) ==
  /\ request[q].pc = "waiting" /\ clock >= request[q].end
  /\ resolved[q] = "open"
  /\ resolved' = [resolved EXCEPT ![q] = "expired"]
  /\ UNCHANGED <<clock, request, lastAsked, press, actionVars>>

\* The action is performed, or refused, or nobody knows: a call may fail after
\* Discord has acted on it.
Act(p) ==
  /\ press[p].pc = "act"
  /\ LET q == press[p].of
     IN  \E takes \in BOOLEAN, result \in Results :
           /\ (result = "done" => takes) /\ (result = "not done" => ~takes)
           /\ attempts' = [attempts EXCEPT ![q] = @ + 1]
           /\ effect' = [effect EXCEPT ![q] = @ \/ takes]
           /\ press' = [press EXCEPT ![p].pc = "audit", ![p].result = result]
  /\ UNCHANGED <<clock, request, lastAsked, resolved, audited, journalled, told>>

\* _log_pos_tool_result: the row is there, or a warning joins the result.
Audit(p) ==
  /\ press[p].pc = "audit"
  /\ \E stored \in BOOLEAN :
       /\ audited' = [audited EXCEPT ![press[p].of] = IF stored THEN @ + 1 ELSE @]
       /\ press' = [press EXCEPT ![p].pc = "journal", ![p].warned = ~stored]
  /\ UNCHANGED <<clock, request, lastAsked, resolved, attempts, effect, journalled, told>>

\* record_pos_tool_action, likewise.
Journal(p) ==
  /\ press[p].pc = "journal"
  /\ \E stored \in BOOLEAN :
       /\ journalled' = [journalled EXCEPT ![press[p].of] = IF stored THEN @ + 1 ELSE @]
       /\ press' = [press EXCEPT ![p].pc = "tell", ![p].warned = @ \/ ~stored]
  /\ UNCHANGED <<clock, request, lastAsked, resolved, attempts, effect, audited, told>>

\* The answer to the press and the reply under the DM, then the view is stopped.
TellOwner(p) ==
  /\ press[p].pc = "tell"
  /\ LET says == IF ~press[p].allow THEN "denied"
                 ELSE IF press[p].result # "done" THEN "not done"
                 ELSE IF press[p].warned THEN "done with a warning" ELSE "done"
     IN  told' = [told EXCEPT ![press[p].of] = @ \cup {says}]
  /\ press' = [press EXCEPT ![p] = NoPress]
  /\ UNCHANGED <<clock, request, lastAsked, resolved, attempts, effect, audited, journalled>>

-----------------------------------------------------------------------------
ApprovalTick ==
  /\ clock < MaxTime /\ clock' = clock + 1
  /\ UNCHANGED <<request, lastAsked, resolved, press, actionVars>>

\* The process stops and starts: the views and the cooldowns are gone.
ApprovalRestart ==
  /\ \E q \in Requests : request[q].pc \in {"sending", "waiting"}
  /\ request' = [q \in Requests |-> IF request[q].pc = "new" THEN request[q]
                                    ELSE [request[q] EXCEPT !.pc = "gone"]]
  /\ lastAsked' = [u \in Requesters |-> Never]
  /\ press' = [p \in Presses |-> NoPress]
  /\ UNCHANGED <<clock, resolved, actionVars>>

PressStep(p) ==
  \/ \E q \in Requests, allow \in BOOLEAN : PressButton(p, q, allow)
  \/ ClaimView(p) \/ Act(p) \/ Audit(p) \/ Journal(p) \/ TellOwner(p)

ApprovalNext ==
  \/ \E q \in Requests : Ask(q) \/ DmSent(q) \/ DmFails(q) \/ ViewTimesOut(q)
  \/ \E p \in Presses : PressStep(p)
  \/ ApprovalTick \/ ApprovalRestart

ApprovalSpec == ApprovalInit /\ [][ApprovalNext]_approvalVars

-----------------------------------------------------------------------------
\* An action is attempted once at most, and only when the press that resolved its
\* request approved it: not after a refusal or the timeout, not twice for two
\* presses, and not after a restart (forms.py:395-455).
ActsOnApproval ==
  \A q \in Requests :
    /\ attempts[q] <= (IF resolved[q] = "approved" THEN 1 ELSE 0)
    /\ "denied" \in told[q] => resolved[q] = "denied"

\* The owner is told without a warning only of an action that took effect, is in
\* the audit and is in the journal (pos_ai.py:3753-3800).
OwnerToldTrue ==
  \A q \in Requests :
    "done" \in told[q] => effect[q] /\ audited[q] = 1 /\ journalled[q] = 1

\* A member's requests reach the owner a cooldown apart, unless one of them took
\* longer than the cooldown to fail: then it takes the newer request's entry with
\* it (pos_ai.py:4004-4028, 4085).
RequestsSpaced ==
  \A q, s \in Requests :
    /\ q # s /\ RequesterOf[q] = RequesterOf[s] /\ RequesterOf[q] # Owner
    /\ request[q].pc = "waiting" /\ request[s].pc = "waiting"
    /\ request[q].at <= request[s].at
    => \/ request[s].at - request[q].at >= RequestCooldown
       \/ \E f \in Requests : /\ RequesterOf[f] = RequesterOf[q] /\ request[f].pc = "failed"
                              /\ request[f].end - request[f].at >= RequestCooldown

\* The owner's word is what happens: one attempt for one approval, a report that is
\* true, and no member who floods the owner with requests
\* (forms.py:395-455, pos_ai.py:3753-3800, 4004-4028).
ApprovalHonoured == ApprovalTypeOK /\ ActsOnApproval /\ OwnerToldTrue /\ RequestsSpaced
=============================================================================
