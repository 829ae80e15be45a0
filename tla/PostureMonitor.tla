--------------------------- MODULE PostureMonitor ---------------------------
(***************************************************************************)
(* The watch over one server's safety settings (cogs/security.py): changes   *)
(* wake a scan after a pause, a periodic scan runs beside it under the same  *)
(* lock, and a scan compares what it collects, piece by piece while the      *)
(* server goes on changing, with the accepted snapshot in the database.  The *)
(* alert is stored before the new snapshot is accepted.                      *)
(***************************************************************************)
EXTENDS PostureDiff

CONSTANTS
  Worlds,          \* snapshots the server may really be in
  AlertRoom,       \* alerts of one scan whose text always fits into 8000 characters
  AlertLimit,      \* alerts[:50]
  MaxTroubles      \* bound: failures, restarts and outages together

\* What a server is like can be read, from the network as well.
ASSUME PostureAssumption ==
  /\ MaxTroubles \in Nat
  /\ AlertRoom \in Nat \ {0} /\ AlertLimit \in Nat /\ AlertRoom <= AlertLimit
  /\ \A w \in Worlds :
       /\ w = [levels |-> w.levels, everyone |-> w.everyone, bot |-> w.bot, roles |-> w.roles,
               admins |-> w.admins, channels |-> w.channels, hooks |-> w.hooks,
               rules |-> w.rules, noticed |-> w.noticed, desk |-> w.desk]
       /\ w.hooks.ok /\ w.hooks.seen /\ w.rules.ok /\ w.rules.seen

VARIABLES
  world,           \* the server as it is
  sources,         \* are events waiting to be looked at (_posture_sources)?
  watcher,         \* the queued task: "none", "pausing", "waiting" or "scanning"
  periodic,        \* the periodic task: "none", "waiting" or "scanning"
  scan,            \* what the scan that holds the lock does next, or "free"
  snap,            \* the snapshot it collects
  accepted,        \* the snapshot in the database
  hasAccepted,     \* is there one?
  alerts,          \* alerts stored in the journal since a snapshot was accepted
  cut,             \* does the last of these entries count more alerts than it lists?
  rebooted,        \* has no scan ended since the start?
  troubles

postureVars == <<world, sources, watcher, periodic, scan, snap, accepted, hasAccepted, alerts, cut,
                 rebooted, troubles>>

PostureInit ==
  /\ world \in Worlds
  /\ sources = FALSE /\ watcher = "none" /\ periodic = "none" /\ scan = "free"
  /\ snap = world /\ accepted = world /\ hasAccepted = FALSE
  /\ alerts = {} /\ cut = FALSE /\ rebooted = TRUE /\ troubles = 0

\* Something changes, and the event of the gateway wakes the watcher: roles,
\* channels, webhooks, rules, the server itself, a bot that comes or whose roles
\* change.
ChangeServer ==
  /\ \E w \in Worlds \ {world} : world' = w
  /\ sources' = TRUE
  /\ watcher' = IF watcher = "none" THEN "pausing" ELSE watcher
  /\ UNCHANGED <<periodic, scan, snap, accepted, hasAccepted, alerts, cut, rebooted, troubles>>

\* An administrator bot leaves or is removed: nobody listens to that, so the next
\* scan that something else causes, the periodic one at the latest, finds out.
BotLeaves ==
  /\ \E b \in world.admins : world' = [world EXCEPT !.admins = @ \ {b}]
  /\ world' \in Worlds
  /\ UNCHANGED <<sources, watcher, periodic, scan, snap, accepted, hasAccepted, alerts, cut,
                 rebooted, troubles>>

\* The pause is over: the watcher takes the events and waits for the lock.
WatcherStarts ==
  /\ watcher = "pausing"
  /\ watcher' = IF sources THEN "waiting" ELSE "none"
  /\ sources' = FALSE
  /\ UNCHANGED <<world, periodic, scan, snap, accepted, hasAccepted, alerts, cut, rebooted, troubles>>

PeriodStarts ==
  /\ periodic = "none" /\ periodic' = "waiting"
  /\ UNCHANGED <<world, sources, watcher, scan, snap, accepted, hasAccepted, alerts, cut, rebooted,
                 troubles>>

\* The lock of the server: one scan collects; first what the gateway told.
TakeScan ==
  /\ scan = "free" /\ scan' = "webhooks"
  /\ \/ watcher = "waiting" /\ watcher' = "scanning" /\ UNCHANGED periodic
     \/ periodic = "waiting" /\ periodic' = "scanning" /\ UNCHANGED watcher
  /\ snap' = [snap EXCEPT !.roles = world.roles, !.channels = world.channels,
                          !.admins = world.admins, !.bot = world.bot]
  /\ UNCHANGED <<world, sources, accepted, hasAccepted, alerts, cut, rebooted, troubles>>

\* A reading from the network, or nothing when Discord does not answer.
Reading(real) == {real} \cup
  IF troubles < MaxTroubles THEN {[ok |-> FALSE, seen |-> FALSE, items |-> real.items]} ELSE {}

CollectWebhooks ==
  /\ scan = "webhooks" /\ scan' = "rules"
  /\ \E r \in Reading(world.hooks) : /\ snap' = [snap EXCEPT !.hooks = r]
                                     /\ troubles' = IF r.ok THEN troubles ELSE troubles + 1
  /\ UNCHANGED <<world, sources, watcher, periodic, accepted, hasAccepted, alerts, cut, rebooted>>

\* The rules, and at the same time what is read from the gateway last.
CollectRules ==
  /\ scan = "rules" /\ scan' = "comparing"
  /\ \E r \in Reading(world.rules) :
       /\ snap' = Preserve(hasAccepted, accepted,
                    [snap EXCEPT !.rules = r, !.levels = world.levels,
                                 !.everyone = world.everyone, !.noticed = world.noticed,
                                 !.desk = world.desk])
       /\ troubles' = IF r.ok THEN troubles ELSE troubles + 1
  /\ UNCHANGED <<world, sources, watcher, periodic, accepted, hasAccepted, alerts, cut, rebooted>>

\* Mutant: events that come during the scan are taken for looked at.
GoesHome == "none"

\* The watcher looks for events that came during its scan.
Resumes == IF sources THEN "pausing" ELSE "none"

EndScan ==
  /\ scan' = "free"
  /\ IF watcher = "scanning"
     THEN watcher' = Resumes /\ UNCHANGED periodic
     ELSE periodic' = "none" /\ UNCHANGED watcher
  /\ UNCHANGED <<world, sources, snap>>

\* What is to be stored before the next snapshot is accepted.
News == Diff(accepted, snap)

\* Nothing to say and nothing new: the scan ends, or accepts at once.
NothingNew ==
  /\ scan = "comparing" /\ hasAccepted /\ accepted = snap
  /\ EndScan /\ rebooted' = FALSE
  /\ UNCHANGED <<accepted, hasAccepted, alerts, cut, troubles>>

\* The entry of the journal: all alerts, or a first part of their list; at most
\* AlertLimit, and what is beyond 8000 characters is cut off.
Listings(news) ==
  LET subjects == {Subject(a) : a \in news}
  IN IF Cardinality(subjects) <= AlertRoom THEN {subjects}
     ELSE {K \in SUBSET subjects :
             /\ Cardinality(K) \in AlertRoom .. AlertLimit
             /\ \A s \in K, t \in subjects \ K : ListOrder[s[1]] <= ListOrder[t[1]]}

\* A first snapshot has a dozen alerts at most, and each sums up its subjects.
Journal ==
  /\ scan = "comparing" /\ ~(hasAccepted /\ accepted = snap)
  /\ IF ~hasAccepted THEN alerts' = alerts \cup Assess(snap) /\ UNCHANGED cut
     ELSE \E kept \in Listings(News) :
            LET listed == {a \in News : Subject(a) \in kept}
            IN alerts' = alerts \cup listed /\ cut' = (listed # News)
  /\ scan' = "accepting"
  /\ UNCHANGED <<world, sources, watcher, periodic, snap, accepted, hasAccepted, rebooted, troubles>>

Accept ==
  /\ scan = "accepting"
  /\ accepted' = snap /\ hasAccepted' = TRUE /\ alerts' = {} /\ cut' = FALSE
  /\ EndScan /\ rebooted' = FALSE
  /\ UNCHANGED troubles

\* A read or a write fails: the scan ends, its change is found again next time.
ScanFails ==
  /\ scan # "free" /\ troubles < MaxTroubles
  /\ EndScan /\ troubles' = troubles + 1
  /\ UNCHANGED <<accepted, hasAccepted, alerts, cut, rebooted>>

\* The process stops and starts again; what the server does then wakes nobody
\* until the periodic scan.
MonitorRestart ==
  /\ troubles < MaxTroubles /\ troubles' = troubles + 1
  /\ sources' = FALSE /\ watcher' = "none" /\ periodic' = "none" /\ scan' = "free"
  /\ rebooted' = TRUE
  /\ world' \in Worlds
  /\ UNCHANGED <<snap, accepted, hasAccepted, alerts, cut>>

PostureNext ==
  \/ ChangeServer \/ BotLeaves \/ WatcherStarts \/ PeriodStarts \/ TakeScan
  \/ CollectWebhooks \/ CollectRules \/ NothingNew \/ Journal \/ Accept
  \/ ScanFails \/ MonitorRestart

PostureSpec == PostureInit /\ [][PostureNext]_postureVars

-----------------------------------------------------------------------------
\* Type correctness; exactly one task scans while the lock is held.
PostureTypeOK ==
  /\ world \in Worlds /\ sources \in BOOLEAN /\ hasAccepted \in BOOLEAN
  /\ cut \in BOOLEAN /\ rebooted \in BOOLEAN
  /\ watcher \in {"none", "pausing", "waiting", "scanning"}
  /\ periodic \in {"none", "waiting", "scanning"}
  /\ scan \in {"free", "webhooks", "rules", "comparing", "accepting"}
  /\ (scan = "free") = (watcher # "scanning" /\ periodic # "scanning")
  /\ ~(watcher = "scanning" /\ periodic = "scanning")

\* The risks of a snapshot, each the subject of an alert when it is new.
GrantRisks(s) ==
  {<<"everyone", p>> : p \in s.everyone} \cup {<<"admin", b>> : b \in s.admins}
    \cup {<<"lost", p>> : p \in Powers \ s.bot}
RoleRisks(s) == UNION {{<<"role", r, p>> : p \in s.roles[r]} : r \in Roles}
PlaceRisks(s) ==
  {<<"at", h, s.hooks.items[h]>> : h \in {x \in Hooks : s.hooks.seen /\ s.hooks.items[x] # NoPlace}}
IdleRisks(s) == {<<"idle", r>> : r \in {x \in Rules : s.rules.seen /\ ~s.rules.items[x].on}}
Risks(s) == GrantRisks(s) \cup RoleRisks(s) \cup PlaceRisks(s) \cup IdleRisks(s)

\* Is the risk covered by the alerts A?  A webhook's is named without its place.
Told(risk, A) ==
  CASE risk[1] = "at" -> <<"hook", risk[2]>> \in A
    [] risk[1] = "idle" -> <<"rule", risk[2], "off">> \in A
    [] OTHER -> risk \in A

\* A risk enters the accepted snapshot only after an alert about it is stored,
\* however scans, failures and changes of the server interleave ("Accept the new
\* baseline only after the durable alert exists", cogs/security.py:190-192).
\* What was never read before has nothing to be compared with; and of more alerts
\* than an entry holds, the last are not in its list, only in the number that it
\* gives (cogs/security.py:184-188, storage.py:1061).
NothingAcceptedSilently ==
  [][hasAccepted /\ accepted' # accepted =>
       \A risk \in Risks(accepted') \ Risks(accepted) :
         \/ Told(risk, alerts)
         \/ cut
         \/ risk[1] = "at" /\ ~accepted.hooks.seen
         \/ risk[1] = "idle" /\ ~accepted.rules.seen]_postureVars

\* The accepted snapshot is the server as it is, except for administrator bots
\* that have left since.
Current ==
  /\ accepted = [world EXCEPT !.admins = accepted.admins]
  /\ world.admins \subseteq accepted.admins

\* Type correctness; an event is never forgotten: while one waits, the task that
\* will look at it is there; and when nothing runs and nothing failed, the accepted
\* snapshot is current (cogs/security.py:77-116).
QuietMeansCurrent ==
  /\ PostureTypeOK
  /\ sources => watcher # "none"
  /\ watcher = "none" /\ periodic = "none" /\ ~rebooted /\ troubles = 0 => Current
=============================================================================
