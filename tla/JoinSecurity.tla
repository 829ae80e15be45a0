---------------------------- MODULE JoinSecurity ----------------------------
(***************************************************************************)
(* Joins of one server under the anti-raid guard (antiraid.py,              *)
(* cogs/security.py): joins are counted in a window, a wave switches the     *)
(* raid mode on for a while, and suspicious accounts are restricted in it.   *)
(* The mode is kept in memory and, sparingly, in the database, from which a  *)
(* restart restores it; the owner may switch it off.  The welcome with its   *)
(* roles waits for the verdict of the join (join_gate.py).                   *)
(***************************************************************************)
EXTENDS Integers, Sequences, FiniteSetsExt

CONSTANTS
  Joins,           \* joins of members, each with a token of its own
  Signals,         \* [Joins -> SUBSET Weights]: what is odd about the account
  RaidAction,      \* raid_action: "alert", "quarantine", "kick" or "ban"
  JoinWindow, Threshold, RaidCooldown, Granularity,
  JoinLimit,       \* verdicts the gate remembers
  Watched,         \* bound: the joins whose welcome is followed
  MaxDay,          \* bound: the clock stops here
  MaxSwitches      \* bound: restarts and switchings together

ASSUME JoinAssumption ==
  /\ JoinWindow \in Nat /\ Threshold \in Nat \ {0} /\ RaidCooldown \in Nat \ {0}
  /\ Granularity \in Nat \ {0} /\ RaidAction \in {"alert", "quarantine", "kick", "ban"}
  /\ Watched \subseteq Joins /\ MaxDay \in Nat \ {0}

VARIABLES
  joinStage,       \* "idle", "begun", "writing", "reacting", "over" or "lost"
  decision,        \* what evaluate_join decided on each join
  measure,         \* what was done to the account: "none" or an action
  joins,           \* _joins: times within the window
  raidUntil,       \* _raid_until, 0 for none
  persisted,       \* _persisted_raid_until, 0 for none
  stored,          \* security_state.raid_until in the database, 0 for no row
  writes,          \* writes waiting for the lock of the database, in turn
  guarding,        \* the settings "enabled" and "filter_raid"
  came,            \* the times of all joins counted since the count began
  since,           \* the value of the mode when the count began
  announced,       \* which of them were announced to the owner as a raid
  lost,            \* has a write failed?
  switches, day,
  joinVerdict, joinOrder, joinAged, joinOpen, joinWait

joinGateVars == <<joinVerdict, joinOrder, joinAged, joinOpen, joinWait>>
raidVars == <<joins, raidUntil, persisted, stored, writes, guarding, came, since, announced, lost>>
joinVars == <<joinStage, decision, measure, raidVars, switches, day, joinGateVars>>

\* The welcome listener is the one waiter of a join.
JoinGate == INSTANCE VerdictGate WITH
  GateKeys <- Joins, GateWaiters <- Watched, WaitsFor <- [j \in Watched |-> j],
  GateLimit <- JoinLimit, ChecksAge <- TRUE, MayAge <- Watched,
  results <- joinVerdict, order <- joinOrder, aged <- joinAged, open <- joinOpen,
  wait <- joinWait

JoinInit ==
  /\ joinStage = [j \in Joins |-> "idle"]
  /\ decision = [j \in Joins |-> [raid |-> FALSE, mode |-> FALSE, action |-> "none"]]
  /\ measure = [j \in Joins |-> "none"]
  /\ joins = <<>> /\ raidUntil = 0 /\ persisted = 0 /\ stored = 0 /\ writes = <<>>
  /\ guarding \in BOOLEAN /\ came = <<>> /\ since = 0 /\ announced = {} /\ lost = FALSE
  /\ switches = 0 /\ day = 1
  /\ JoinGate!GateInit

\* join_risk_score: what each signal adds.
Weights == [newborn |-> 4, fresh |-> 2, noAvatar |-> 1, invite |-> 4, digits |-> 1, gibberish |-> 2]
Weight(j, s) == IF s \in Signals[j] THEN Weights[s] ELSE 0
Risk(j) == Weight(j, "newborn") + Weight(j, "fresh") + Weight(j, "noAvatar")
             + Weight(j, "invite") + Weight(j, "digits") + Weight(j, "gibberish")

\* The reaction to an account of that risk, in the raid mode or out of it.
ActionOn(mode, risk) ==
  IF ~mode THEN IF risk >= 2 THEN "alert" ELSE "none"
  ELSE IF RaidAction = "alert" \/ risk < 2 THEN "alert"
  ELSE IF risk = 2 /\ RaidAction \in {"kick", "ban"} THEN "quarantine"
  ELSE RaidAction

\* register_join: those that left the window are taken off the front.
InWindow(q) ==
  LET fresh == {i \in DOMAIN q : day - q[i] <= JoinWindow}
  IN IF fresh = {} THEN <<>> ELSE SubSeq(q, Min(fresh), Len(q))

JoinArrive(j) ==
  /\ joinStage[j] = "idle"
  /\ joinStage' = [joinStage EXCEPT ![j] = "begun"]
  /\ JoinGate!GateBegin(j)
  /\ UNCHANGED <<decision, measure, raidVars, switches, day>>

\* The settings say nothing is to be done, or evaluating fails.
PassUnguarded(j) ==
  /\ joinStage[j] = "begun"
  /\ joinStage' = [joinStage EXCEPT ![j] = "over"]
  /\ \/ ~guarding /\ JoinGate!GateFinish(j, "clear")
     \/ guarding /\ JoinGate!GateFinish(j, "blocked")
  /\ UNCHANGED <<decision, measure, raidVars, switches, day>>

\* evaluate_join, at once with the queueing of the write it calls for.
Evaluate(j) ==
  LET was == raidUntil > day
      recent == InWindow(joins)
      count == Len(recent) + 1
      triggered == (Len(recent) < Threshold /\ Threshold <= count) \/ (count >= Threshold /\ ~was)
      until == IF triggered \/ (was /\ count >= Threshold) THEN Max({raidUntil, day + RaidCooldown})
               ELSE raidUntil
      mode == until > day
      write == mode /\ (triggered \/ until - persisted >= Granularity)
  IN /\ joinStage[j] = "begun" /\ guarding
     /\ joins' = Append(recent, day)
     /\ raidUntil' = IF mode THEN until ELSE 0
     /\ came' = Append(came, day)
     /\ announced' = announced \cup (IF triggered THEN {Len(came')} ELSE {})
     /\ decision' = [decision EXCEPT ![j] =
                       [raid |-> triggered, mode |-> mode, action |-> ActionOn(mode, Risk(j))]]
     /\ writes' = IF write THEN Append(writes, [by |-> {j}, until |-> until]) ELSE writes
     /\ joinStage' = [joinStage EXCEPT ![j] = IF write THEN "writing" ELSE "reacting"]
     /\ UNCHANGED <<measure, persisted, stored, guarding, since, lost, switches, day, joinGateVars>>

\* What the process takes as stored after the write w.
MarkPersisted(ok, w) == IF ok /\ w.by # {} THEN w.until ELSE persisted

\* The next write gets the lock; it may fail, which is only logged.
WriteState ==
  /\ writes # <<>>
  /\ LET w == Head(writes)
     IN \E ok \in BOOLEAN :
          /\ stored' = IF ok THEN w.until ELSE stored
          /\ persisted' = MarkPersisted(ok, w)
          /\ lost' = (lost \/ ~ok)
          /\ joinStage' = [j \in Joins |-> IF j \in w.by THEN "reacting" ELSE joinStage[j]]
  /\ writes' = Tail(writes)
  /\ UNCHANGED <<decision, measure, joins, raidUntil, guarding, came, since, announced, switches, day,
                 joinGateVars>>

\* Mutant: only the join that switched the mode on is kept back.
VerdictOnTrigger(j) == IF decision[j].raid THEN "blocked" ELSE "clear"

\* _process_member_join returns the raid mode: it suppresses the welcome.
VerdictOn(j) == IF decision[j].mode THEN "blocked" ELSE "clear"

\* The owner's alert and the journal (left out), the action, which Discord may
\* refuse, and the verdict at the gate.
React(j) ==
  /\ joinStage[j] = "reacting"
  /\ joinStage' = [joinStage EXCEPT ![j] = "over"]
  /\ \E done \in {"none", decision[j].action} : measure' = [measure EXCEPT ![j] = done]
  /\ JoinGate!GateFinish(j, VerdictOn(j))
  /\ UNCHANGED <<decision, raidVars, switches, day>>

\* deactivate_raid_mode: memory at once, the row in its turn.
SwitchedOff ==
  /\ joins' = <<>> /\ raidUntil' = 0 /\ came' = <<>> /\ since' = 0 /\ announced' = {}
  /\ writes' = Append(writes, [by |-> {}, until |-> 0])

Deactivate ==
  /\ switches < MaxSwitches /\ switches' = switches + 1
  /\ SwitchedOff
  /\ UNCHANGED <<joinStage, decision, measure, persisted, stored, guarding, lost, day, joinGateVars>>

\* update_settings: switching the guard off also ends the raid mode.
SwitchGuard ==
  /\ switches < MaxSwitches /\ switches' = switches + 1
  /\ guarding' = ~guarding
  /\ IF guarding THEN SwitchedOff ELSE UNCHANGED <<joins, raidUntil, came, since, announced, writes>>
  /\ UNCHANGED <<joinStage, decision, measure, persisted, stored, lost, day, joinGateVars>>

\* restore_raid_modes: rows that have expired are deleted, the others restored.
RestoredMode == IF stored > day THEN stored ELSE 0

\* The process stops and starts: memory and waiting writes are gone.
JoinRestart ==
  /\ switches < MaxSwitches /\ switches' = switches + 1
  /\ joinStage' = [j \in Joins |-> IF joinStage[j] \in {"begun", "writing", "reacting"} THEN "lost"
                                   ELSE joinStage[j]]
  /\ joins' = <<>> /\ came' = <<>> /\ announced' = {} /\ persisted' = 0 /\ writes' = <<>>
  /\ raidUntil' = RestoredMode /\ since' = RestoredMode
  /\ stored' = IF stored > day THEN stored ELSE 0
  /\ joinVerdict' = [j \in Joins |-> "none"] /\ joinOrder' = {} /\ joinAged' = {} /\ joinOpen' = {}
  /\ joinWait' = [j \in Watched |-> IF joinWait[j] \in JoinGate!Answers THEN joinWait[j] ELSE "none"]
  /\ UNCHANGED <<decision, measure, guarding, lost, day>>

JoinTick ==
  /\ day < MaxDay /\ day' = day + 1
  /\ UNCHANGED <<joinStage, decision, measure, raidVars, switches, joinGateVars>>

\* Both listeners are started by the same event of the gateway.
Welcome == JoinGate!Listen /\ UNCHANGED <<joinStage, decision, measure, raidVars, switches, day>>
VerdictAges == JoinGate!AgeSome /\ UNCHANGED <<joinStage, decision, measure, raidVars, switches, day>>

JoinNext ==
  \/ \E j \in Joins : JoinArrive(j) \/ PassUnguarded(j) \/ Evaluate(j) \/ React(j)
  \/ WriteState \/ Deactivate \/ SwitchGuard \/ JoinRestart \/ JoinTick \/ Welcome \/ VerdictAges

JoinSpec == JoinInit /\ [][JoinNext]_joinVars

-----------------------------------------------------------------------------
\* Type correctness; a join waits for its write exactly while the write waits.
JoinTypeOK ==
  /\ joinStage \in [Joins -> {"idle", "begun", "writing", "reacting", "over", "lost"}]
  /\ measure \in [Joins -> {"none", "alert", "quarantine", "kick", "ban"}]
  /\ joins \in Seq(1..MaxDay) /\ came \in Seq(1..MaxDay)
  /\ {raidUntil, persisted, stored, since} \subseteq 0..(MaxDay + RaidCooldown)
  /\ guarding \in BOOLEAN /\ lost \in BOOLEAN
  /\ \A j \in Joins : (joinStage[j] = "writing") = (\E i \in DOMAIN writes : j \in writes[i].by)

\* The starting roles go only to a member whose own join was judged, outside the
\* raid mode or without the guard; never while the verdict is unknown
\* (cogs/logging_events.py:633 and 651-655).
RolesNotInRaid ==
  \A j \in Watched : joinWait[j] = "clear" => joinStage[j] # "idle" /\ ~decision[j].mode

\* The last Threshold joins up to the i-th one, all within the window.
Wave(i) == i >= Threshold /\ came[i] - came[i - Threshold + 1] <= JoinWindow

\* The mode in memory is what the waves since the count began call for: it is on
\* until RaidCooldown after the last join of a wave, or as long as what was
\* restored lasts, and never on without one (antiraid.py:105-130 and 196-202).
RaidModeByWaves ==
  LET untils == {since} \cup {came[i] + RaidCooldown : i \in {x \in DOMAIN came : Wave(x)}}
  IN raidUntil > day \/ Max(untils) > day => raidUntil = Max(untils)

\* The window was full before the i-th join; the mode was on when it came.
Overfull(i) == i > Threshold /\ came[i] - came[i - Threshold] <= JoinWindow
WasOn(i) ==
  since > came[i] \/ \E k \in 1..(i - 1) : Wave(k) /\ came[k] + RaidCooldown > came[i]

\* The owner is told of each join that makes a wave, unless the mode is on and the
\* window was full without it: none that switches the mode on is missed, and none
\* that only lengthens a full window is told again (antiraid.py:112-115, 199).  A
\* window that slides to one below the threshold makes the next join a new one.
WavesAnnounced ==
  announced = {i \in DOMAIN came : Wave(i) /\ ~(Overfull(i) /\ WasOn(i))}

\* The owner's decisions and the waves reach the database in their order: unless a
\* write fails, once none waits a restart restores the mode as it is, up to the
\* granularity, and never revives one that was switched off (cogs/security.py:419-432).
StoredModeFollows ==
  ~lost /\ writes = <<>> =>
    /\ raidUntil > day => stored + Granularity > raidUntil
    /\ stored > day => raidUntil >= stored

\* A raid removes only accounts with a real sign of abuse, and outside the mode
\* nobody is restricted ("weak cosmetic signals cannot cause a kick by
\* themselves", antiraid.py:85).
KickNeedsCause ==
  \A j \in Joins :
    /\ measure[j] \in {"kick", "ban"} =>
         decision[j].mode /\ Signals[j] \cap {"newborn", "fresh", "invite", "gibberish"} # {}
    /\ measure[j] = "quarantine" => decision[j].mode /\ Risk(j) >= 2

\* Whoever joins is let in, or kept out, for what is known of this join, and the
\* raid mode and what the owner is told of it follow the waves of joins and the
\* owner's word, in memory and, unless a write failed, in the database
\* (cogs/logging_events.py:633, 651-655, antiraid.py:85-130, 196-202,
\* cogs/security.py:419-432).
JoinsSound ==
  /\ JoinTypeOK /\ RolesNotInRaid /\ KickNeedsCause
  /\ RaidModeByWaves /\ WavesAnnounced /\ StoredModeFollows
=============================================================================
