---------------------------- MODULE PostureDiff ----------------------------
(***************************************************************************)
(* What a snapshot of a server's safety settings says, and what two of them *)
(* say together (security_monitor.py).  A snapshot is a record:             *)
(*   levels    2FA, verification and media filter: numbers, -1 if unknown   *)
(*   everyone  dangerous permissions of @everyone;  bot  those of P.OS      *)
(*   roles     permissions by role;  admins  other administrator bots       *)
(*   channels  by channel: is it there, what may everyone do in it, and     *)
(*             which of this does the channel itself allow                  *)
(*   hooks, rules  webhooks and AutoMod rules, read from the network:       *)
(*             ok (read this time), seen (ever read), items (as last read)  *)
(*   raid, spam, desk  what Discord itself noticed; its alert channel       *)
(* An alert is a pair or triple that names its kind and its subject.        *)
(***************************************************************************)
EXTENDS Integers, FiniteSets

CONSTANTS
  Perms,           \* CRITICAL_PERMISSIONS and the monitored ones of channels
  Powers,          \* POS_REQUIRED_PERMISSIONS
  Roles, Channels, Hooks, Rules,
  NoPlace          \* of a webhook that does not exist

Levels == {"mfa", "verification", "filter"}

\* Levels that fell, when both are known.
LevelAlerts(old, new) ==
  {<<"level", l>> : l \in {x \in Levels : /\ old.levels[x] >= 0 /\ new.levels[x] >= 0
                                          /\ new.levels[x] < old.levels[x]}}

GainedByAll(old, new) == new.everyone \ old.everyone
EveryoneAlerts(old, new) == {<<"everyone", p>> : p \in GainedByAll(old, new)}

\* A new channel is judged by what it allows itself, another one by what
\* everyone may newly do in it, unless @everyone gained just that.
ChannelAlerts(old, new) ==
  UNION {LET was == old.channels[c]
             is == new.channels[c]
             gained == is.allows \ was.allows
         IN IF ~is.there THEN {}
            ELSE IF ~was.there THEN {<<"channel", c, p>> : p \in is.own \ {"view_channel"}}
            ELSE {<<"channel", c, p>> : p \in (gained \cap {"view_channel"})
                                               \cup (gained \ GainedByAll(old, new))}
         : c \in Channels}

RoleAlerts(old, new) ==
  UNION {{<<"role", r, p>> : p \in new.roles[r] \ old.roles[r]} : r \in Roles}

BotAlerts(old, new) == {<<"lost", p>> : p \in old.bot \ new.bot}
AdminAlerts(old, new) == {<<"admin", b>> : b \in new.admins \ old.admins}

\* Mutant: the last reading is compared only if it was the one just before.
HookAlertsOnline(old, new) ==
  IF old.hooks.ok /\ new.hooks.ok
  THEN {<<"hook", h>> : h \in {x \in Hooks : /\ new.hooks.items[x] # NoPlace
                                             /\ new.hooks.items[x] # old.hooks.items[x]}}
  ELSE {}

\* Webhooks that are new or were moved, against the last successful reading.
HookAlerts(old, new) ==
  IF old.hooks.seen /\ new.hooks.ok
  THEN {<<"hook", h>> : h \in {x \in Hooks : /\ new.hooks.items[x] # NoPlace
                                             /\ new.hooks.items[x] # old.hooks.items[x]}}
  ELSE {}

\* An active rule that is gone, off, or weaker: fewer actions, more exceptions,
\* other details of an action or another condition.
RuleAlerts(old, new) ==
  IF old.rules.seen /\ new.rules.ok
  THEN UNION {LET was == old.rules.items[r]
                  is == new.rules.items[r]
              IN IF ~was.on THEN {}
                 ELSE IF ~is.on THEN {<<"rule", r, "off">>}
                 ELSE {<<"rule", r, what>> : what \in
                         {w \in {"actions", "exceptions", "details", "terms"} :
                            CASE w = "actions" -> was.actions \ is.actions # {}
                              [] w = "exceptions" -> is.exempt \ was.exempt # {}
                              [] w = "details" -> is.actions # was.actions /\ was.actions \subseteq is.actions
                              [] w = "terms" -> is.terms # was.terms}}
              : r \in Rules}
  ELSE {}

\* What Discord noticed itself, and the channel in which it says so.
NativeAlerts(old, new) ==
  {<<"native", x>> : x \in {y \in {"raid", "spam"} : new.noticed[y] /\ ~old.noticed[y]}}
    \cup (IF old.desk # NoPlace /\ new.desk # old.desk THEN {<<"native", "desk">>} ELSE {})

\* diff_security_snapshots
Diff(old, new) ==
  LevelAlerts(old, new) \cup EveryoneAlerts(old, new) \cup ChannelAlerts(old, new)
    \cup RoleAlerts(old, new) \cup BotAlerts(old, new) \cup AdminAlerts(old, new)
    \cup HookAlerts(old, new) \cup RuleAlerts(old, new) \cup NativeAlerts(old, new)

\* The alerts that the code puts into one: what one subject gained at once.
Subject(alert) ==
  CASE alert[1] \in {"everyone", "lost"} -> <<alert[1]>>
    [] alert[1] = "role" -> <<alert[1], alert[2]>>
    [] alert[1] = "channel" -> <<alert[1], alert[2], alert[3] = "view_channel">>
    [] OTHER -> alert

\* Their order in the list that diff_security_snapshots returns.
ListOrder == [level |-> 1, everyone |-> 2, channel |-> 3, role |-> 4, lost |-> 5, admin |-> 6,
              hook |-> 7, rule |-> 8, native |-> 9]

\* assess_security_snapshot: the risks a first snapshot already shows.
Enough == [mfa |-> 1, verification |-> 2, filter |-> 2]
Assess(s) ==
  {<<"level", l>> : l \in {x \in Levels : s.levels[x] >= 0 /\ s.levels[x] < Enough[x]}}
    \cup {<<"everyone", p>> : p \in s.everyone}
    \cup {<<"lost", p>> : p \in Powers \ s.bot}
    \cup UNION {{<<"channel", c, p>> : p \in (s.channels[c].allows \ {"view_channel"}) \ s.everyone}
                : c \in {x \in Channels : s.channels[x].there}}
    \cup (IF s.rules.ok /\ \A r \in Rules : ~s.rules.items[r].on THEN {<<"norules">>} ELSE {})
    \cup {<<"admin", b>> : b \in s.admins}
    \cup (IF s.hooks.ok THEN {<<"hook", h>> : h \in {x \in Hooks : s.hooks.items[x] # NoPlace}} ELSE {})
    \cup {<<"native", x>> : x \in {y \in {"raid", "spam"} : s.noticed[y]}}
    \cup (IF s.desk = NoPlace THEN {<<"native", "desk">>} ELSE {})

\* preserve_security_observations: a part that could not be read keeps what was
\* read last, marked as not read this time.
Preserve(hasOld, old, new) ==
  LET keep(n, o) == IF n.ok \/ ~hasOld \/ ~o.seen THEN n
                    ELSE [ok |-> FALSE, seen |-> TRUE, items |-> o.items]
  IN [new EXCEPT !.hooks = keep(new.hooks, old.hooks), !.rules = keep(new.rules, old.rules)]
=============================================================================
