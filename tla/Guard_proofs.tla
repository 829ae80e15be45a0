---------------------------- MODULE Guard_proofs ----------------------------
(***************************************************************************)
(* Proofs about the modules that guard a server: the watch over its safety  *)
(* settings, the check of messages, joins under the anti-raid guard, and    *)
(* what is remembered of the reputation of links and files.                 *)
(* Each part gives the inductive invariant that its properties need, with   *)
(* one step per action, and then the theorems.                              *)
(***************************************************************************)
EXTENDS MessageModeration, JoinSecurity, PostureMonitor, ReputationCache, Positions_proofs,
        FiniteSetTheorems, WellFoundedInduction, SequenceTheorems, TLAPS

-----------------------------------------------------------------------------
(* The watch over the server's settings.                                    *)

\* A snapshot has the fields of one.
Shaped(s) ==
  s = [levels |-> s.levels, everyone |-> s.everyone, bot |-> s.bot, roles |-> s.roles,
       admins |-> s.admins, channels |-> s.channels, hooks |-> s.hooks, rules |-> s.rules,
       noticed |-> s.noticed, desk |-> s.desk]

\* The lock's holder has seen all that happened, and nothing failed since the start.
Undisturbed ==
  scan # "free" /\ troubles = 0 /\ ~sources /\ watcher \in {"none", "scanning"}

\* What an undisturbed scan has collected is the server as it is, but for bots
\* that left meanwhile.
SnapFresh ==
  Undisturbed =>
    /\ snap.roles = world.roles /\ snap.channels = world.channels
    /\ world.admins \subseteq snap.admins /\ snap.bot = world.bot
    /\ scan # "webhooks" => snap.hooks = world.hooks
    /\ scan \notin {"webhooks", "rules"} => snap = [world EXCEPT !.admins = snap.admins]

\* A part of a snapshot that could not be read is what was accepted last.
KeptPart(old, new) == old.seen => new.ok \/ new.items = old.items
PartsKept ==
  scan \in {"comparing", "accepting"} /\ hasAccepted =>
    KeptPart(accepted.hooks, snap.hooks) /\ KeptPart(accepted.rules, snap.rules)

\* Nothing is accepted before the journal has what is new in it, in full or cut.
JournalFirst == scan = "accepting" /\ hasAccepted => cut \/ Diff(accepted, snap) \subseteq alerts

\* The inductive invariant of the watch.
PostureInv ==
  /\ PostureTypeOK
  /\ Shaped(snap) /\ Shaped(accepted) /\ troubles \in Nat
  /\ sources => watcher # "none"
  /\ watcher = "pausing" => sources
  /\ SnapFresh /\ PartsKept /\ JournalFirst
  /\ watcher = "none" /\ periodic = "none" /\ ~rebooted /\ troubles = 0 => Current

\* Every real server is shaped like a snapshot and was read in full.
LEMMA WorldsAreRead ==
  ASSUME NEW w \in Worlds
  PROVE  Shaped(w) /\ w.hooks.ok /\ w.hooks.seen /\ w.rules.ok /\ w.rules.seen
BY PostureAssumption DEF Shaped

\* What it is to be a risk of a snapshot.
LEMMA RisksAre ==
  ASSUME NEW s, NEW x
  PROVE  x \in Risks(s) <=>
           \/ \E p \in s.everyone : x = <<"everyone", p>>
           \/ \E r \in Roles : \E p \in s.roles[r] : x = <<"role", r, p>>
           \/ \E b \in s.admins : x = <<"admin", b>>
           \/ \E p \in Powers \ s.bot : x = <<"lost", p>>
           \/ \E h \in Hooks : /\ s.hooks.seen /\ s.hooks.items[h] # NoPlace
                               /\ x = <<"at", h, s.hooks.items[h]>>
           \/ \E r \in Rules : s.rules.seen /\ ~s.rules.items[r].on /\ x = <<"idle", r>>
<1>1. x \in GrantRisks(s) <=> \/ \E p \in s.everyone : x = <<"everyone", p>>
                              \/ \E b \in s.admins : x = <<"admin", b>>
                              \/ \E p \in Powers \ s.bot : x = <<"lost", p>>
  BY DEF GrantRisks
<1>2. x \in RoleRisks(s) <=> \E r \in Roles : \E p \in s.roles[r] : x = <<"role", r, p>>
  BY DEF RoleRisks
<1>3. x \in PlaceRisks(s) <=> \E h \in Hooks : /\ s.hooks.seen /\ s.hooks.items[h] # NoPlace
                                               /\ x = <<"at", h, s.hooks.items[h]>>
  BY DEF PlaceRisks
<1>4. x \in IdleRisks(s)
        <=> \E r \in Rules : s.rules.seen /\ ~s.rules.items[r].on /\ x = <<"idle", r>>
  BY DEF IdleRisks
<1>5. x \in Risks(s) <=> \/ x \in GrantRisks(s) \/ x \in RoleRisks(s)
                         \/ x \in PlaceRisks(s) \/ x \in IdleRisks(s)
  BY DEF Risks
<1> QED BY <1>1, <1>2, <1>3, <1>4, <1>5

\* A risk that is new in a snapshot is told by its comparison with the last one,
\* unless that part was never read before.
LEMMA NewRisksAreTold ==
  ASSUME NEW old, NEW new, NEW A, Diff(old, new) \subseteq A,
         KeptPart(old.hooks, new.hooks), KeptPart(old.rules, new.rules),
         NEW risk \in Risks(new) \ Risks(old)
  PROVE  \/ Told(risk, A)
         \/ risk[1] = "at" /\ ~old.hooks.seen
         \/ risk[1] = "idle" /\ ~old.rules.seen
<1>1. CASE \E p \in new.everyone : risk = <<"everyone", p>>
  <2>1. PICK p \in new.everyone : risk = <<"everyone", p>>
    BY <1>1
  <2>2. p \in new.everyone \ old.everyone
    BY <2>1, RisksAre
  <2>3. risk \in EveryoneAlerts(old, new)
    BY <2>1, <2>2 DEF EveryoneAlerts, GainedByAll
  <2>4. risk \in A /\ risk[1] = "everyone"
    BY <2>1, <2>3 DEF Diff
  <2> QED BY <2>4 DEF Told
<1>2. CASE \E r \in Roles : \E p \in new.roles[r] : risk = <<"role", r, p>>
  <2>1. PICK r \in Roles : \E p \in new.roles[r] : risk = <<"role", r, p>>
    BY <1>2
  <2>2. PICK p \in new.roles[r] : risk = <<"role", r, p>>
    BY <2>1
  <2>3. p \in new.roles[r] \ old.roles[r]
    BY <2>2, RisksAre
  <2>4. risk \in RoleAlerts(old, new)
    BY <2>2, <2>3 DEF RoleAlerts
  <2>5. risk \in A /\ risk[1] = "role"
    BY <2>2, <2>4 DEF Diff
  <2> QED BY <2>5 DEF Told
<1>3. CASE \E b \in new.admins : risk = <<"admin", b>>
  <2>1. PICK b \in new.admins : risk = <<"admin", b>>
    BY <1>3
  <2>2. b \in new.admins \ old.admins
    BY <2>1, RisksAre
  <2>3. risk \in AdminAlerts(old, new)
    BY <2>1, <2>2 DEF AdminAlerts
  <2>4. risk \in A /\ risk[1] = "admin"
    BY <2>1, <2>3 DEF Diff
  <2> QED BY <2>4 DEF Told
<1>4. CASE \E p \in Powers \ new.bot : risk = <<"lost", p>>
  <2>1. PICK p \in Powers \ new.bot : risk = <<"lost", p>>
    BY <1>4
  <2>2. p \in old.bot \ new.bot
    BY <2>1, RisksAre
  <2>3. risk \in BotAlerts(old, new)
    BY <2>1, <2>2 DEF BotAlerts
  <2>4. risk \in A /\ risk[1] = "lost"
    BY <2>1, <2>3 DEF Diff
  <2> QED BY <2>4 DEF Told
<1>5. CASE \E h \in Hooks : /\ new.hooks.seen /\ new.hooks.items[h] # NoPlace
                            /\ risk = <<"at", h, new.hooks.items[h]>>
  <2>1. PICK h \in Hooks : /\ new.hooks.seen /\ new.hooks.items[h] # NoPlace
                           /\ risk = <<"at", h, new.hooks.items[h]>>
    BY <1>5
  <2>2. risk[1] = "at" /\ risk[2] = h
    BY <2>1
  <2>3. CASE ~old.hooks.seen
    BY <2>2, <2>3
  <2>4. CASE old.hooks.seen
    <3>1. new.hooks.items[h] # old.hooks.items[h]
      BY <2>1, <2>4, RisksAre
    <3>2. new.hooks.ok
      BY <2>4, <3>1 DEF KeptPart
    <3>3. <<"hook", h>> \in HookAlerts(old, new)
      BY <2>1, <2>4, <3>1, <3>2 DEF HookAlerts
    <3>4. <<"hook", risk[2]>> \in A
      BY <2>2, <3>3 DEF Diff
    <3> QED BY <2>2, <3>4 DEF Told
  <2> QED BY <2>3, <2>4
<1>6. CASE \E r \in Rules : new.rules.seen /\ ~new.rules.items[r].on /\ risk = <<"idle", r>>
  <2>1. PICK r \in Rules : new.rules.seen /\ ~new.rules.items[r].on /\ risk = <<"idle", r>>
    BY <1>6
  <2>2. risk[1] = "idle" /\ risk[2] = r
    BY <2>1
  <2>3. CASE ~old.rules.seen
    BY <2>2, <2>3
  <2>4. CASE old.rules.seen
    <3>1. old.rules.items[r].on
      BY <2>1, <2>4, RisksAre
    <3>2. new.rules.ok
      BY <2>1, <2>4, <3>1 DEF KeptPart
    <3>3. <<"rule", r, "off">> \in RuleAlerts(old, new)
      BY <2>1, <2>4, <3>1, <3>2 DEF RuleAlerts
    <3>4. <<"rule", risk[2], "off">> \in A
      BY <2>2, <3>3 DEF Diff
    <3> QED BY <2>2, <3>4 DEF Told
  <2> QED BY <2>3, <2>4
<1> QED BY <1>1, <1>2, <1>3, <1>4, <1>5, <1>6, RisksAre

\* The watch starts with a server that can be read.
LEMMA PostureInvInit == PostureInit => PostureInv
<1> SUFFICES ASSUME PostureInit PROVE PostureInv
  OBVIOUS
<1>1. world \in Worlds /\ Shaped(world)
  BY WorldsAreRead DEF PostureInit
<1>2. Shaped(snap) /\ Shaped(accepted)
  BY <1>1 DEF PostureInit
<1>3. scan = "free" /\ rebooted
  BY DEF PostureInit
<1>4. PostureTypeOK
  BY <1>1 DEF PostureInit, PostureTypeOK
<1>5. SnapFresh /\ PartsKept /\ JournalFirst
  BY <1>3 DEF SnapFresh, Undisturbed, PartsKept, JournalFirst
<1> QED BY <1>2, <1>3, <1>4, <1>5 DEF PostureInv, PostureInit

\* A scan that ends lets the watcher look again if events came meanwhile.
LEMMA ScanEnds ==
  ASSUME PostureInv, EndScan, scan # "free"
  PROVE  /\ PostureTypeOK' = (rebooted' \in BOOLEAN /\ hasAccepted' \in BOOLEAN /\ cut' \in BOOLEAN)
         /\ sources' => watcher' # "none"
         /\ watcher' = "pausing" => sources'
         /\ SnapFresh' /\ PartsKept' /\ JournalFirst'
         /\ watcher' = "none" /\ periodic' = "none" => ~sources /\ watcher \in {"none", "scanning"}
<1>1. scan' = "free" /\ UNCHANGED <<world, sources, snap>>
  BY DEF EndScan
<1>2. CASE watcher = "scanning"
  <2>1. watcher' = (IF sources THEN "pausing" ELSE "none") /\ periodic' = periodic
    BY <1>2 DEF EndScan, Resumes
  <2>2. periodic # "scanning"
    BY <1>2 DEF PostureInv, PostureTypeOK
  <2> QED BY <1>1, <1>2, <2>1, <2>2 DEF PostureInv, PostureTypeOK, SnapFresh, Undisturbed, PartsKept,
          JournalFirst
<1>3. CASE watcher # "scanning"
  <2>1. watcher' = watcher /\ periodic' = "none"
    BY <1>3 DEF EndScan
  <2> QED BY <1>1, <1>3, <2>1 DEF PostureInv, PostureTypeOK, SnapFresh, Undisturbed, PartsKept,
          JournalFirst
<1> QED BY <1>2, <1>3

\* Every step of the watch keeps the invariant.
LEMMA PostureInvStep == PostureInv /\ [PostureNext]_postureVars => PostureInv'
<1> SUFFICES ASSUME PostureInv, [PostureNext]_postureVars PROVE PostureInv'
  OBVIOUS
<1>0. /\ Shaped(snap) /\ Shaped(accepted) /\ world \in Worlds /\ Shaped(world)
      /\ troubles \in Nat
  BY WorldsAreRead DEF PostureInv, PostureTypeOK
<1>1. CASE ChangeServer
  <2>1. world' \in Worlds /\ sources'
    BY <1>1 DEF ChangeServer
  <2>2. watcher' # "none" /\ (watcher # "none" => watcher' = watcher)
    BY <1>1 DEF ChangeServer
  <2>3. UNCHANGED <<periodic, scan, snap, accepted, hasAccepted, alerts, cut, rebooted, troubles>>
    BY <1>1 DEF ChangeServer
  <2>4. watcher = "none" => watcher' = "pausing"
    BY <1>1 DEF ChangeServer
  <2>5. PostureTypeOK'
    BY <2>1, <2>2, <2>3, <2>4 DEF PostureInv, PostureTypeOK
  <2>6. SnapFresh'
    BY <2>1 DEF SnapFresh, Undisturbed
  <2>7. PartsKept' /\ JournalFirst'
    BY <2>3 DEF PostureInv, PartsKept, JournalFirst
  <2> QED BY <1>0, <2>1, <2>2, <2>3, <2>5, <2>6, <2>7 DEF PostureInv
<1>2. CASE WatcherStarts
  <2>1. sources /\ watcher' = "waiting" /\ sources' = FALSE /\ watcher = "pausing"
    BY <1>2 DEF WatcherStarts, PostureInv
  <2>2. UNCHANGED <<world, periodic, scan, snap, accepted, hasAccepted, alerts, cut, rebooted, troubles>>
    BY <1>2 DEF WatcherStarts
  <2>3. SnapFresh' /\ PartsKept' /\ JournalFirst' /\ PostureTypeOK'
    BY <2>1, <2>2 DEF PostureInv, PostureTypeOK, SnapFresh, Undisturbed, PartsKept, JournalFirst
  <2> QED BY <1>0, <2>1, <2>2, <2>3 DEF PostureInv
<1>3. CASE PeriodStarts
  <2>1. periodic = "none" /\ periodic' = "waiting"
    BY <1>3 DEF PeriodStarts
  <2>2. UNCHANGED <<world, sources, watcher, scan, snap, accepted, hasAccepted, alerts, cut, rebooted, troubles>>
    BY <1>3 DEF PeriodStarts
  <2>3. SnapFresh' /\ PartsKept' /\ JournalFirst' /\ PostureTypeOK'
    BY <2>1, <2>2 DEF PostureInv, PostureTypeOK, SnapFresh, Undisturbed, PartsKept, JournalFirst
  <2> QED BY <1>0, <2>1, <2>2, <2>3 DEF PostureInv
<1>4. CASE TakeScan
  <2>1. scan = "free" /\ scan' = "webhooks"
    BY <1>4 DEF TakeScan
  <2>2. UNCHANGED <<world, sources, accepted, hasAccepted, alerts, cut, rebooted, troubles>>
    BY <1>4 DEF TakeScan
  <2>3. snap' = [snap EXCEPT !.roles = world.roles, !.channels = world.channels,
                             !.admins = world.admins, !.bot = world.bot]
    BY <1>4 DEF TakeScan
  <2>4. /\ Shaped(snap')
        /\ snap'.roles = world.roles /\ snap'.channels = world.channels
        /\ snap'.admins = world.admins /\ snap'.bot = world.bot
    BY <1>0, <2>3 DEF Shaped
  <2>5. \/ watcher = "waiting" /\ watcher' = "scanning" /\ periodic' = periodic
        \/ periodic = "waiting" /\ periodic' = "scanning" /\ watcher' = watcher
    BY <1>4 DEF TakeScan
  <2>6. PostureTypeOK'
    BY <2>1, <2>2, <2>5 DEF PostureInv, PostureTypeOK
  <2>7. SnapFresh' /\ PartsKept' /\ JournalFirst'
    BY <2>1, <2>2, <2>4 DEF SnapFresh, PartsKept, JournalFirst
  <2> QED BY <1>0, <2>1, <2>2, <2>4, <2>5, <2>6, <2>7 DEF PostureInv
<1>5. CASE CollectWebhooks
  <2>1. scan = "webhooks" /\ scan' = "rules"
    BY <1>5 DEF CollectWebhooks
  <2>2. UNCHANGED <<world, sources, watcher, periodic, accepted, hasAccepted, alerts, cut, rebooted>>
    BY <1>5 DEF CollectWebhooks
  <2>3. PICK r \in Reading(world.hooks) : /\ snap' = [snap EXCEPT !.hooks = r]
                                          /\ troubles' = IF r.ok THEN troubles ELSE troubles + 1
    BY <1>5 DEF CollectWebhooks
  <2>4. r = world.hooks \/ ~r.ok
    BY <2>3 DEF Reading
  <2>5. /\ Shaped(snap') /\ snap'.hooks = r
        /\ snap'.roles = snap.roles /\ snap'.channels = snap.channels
        /\ snap'.admins = snap.admins /\ snap'.bot = snap.bot
    BY <1>0, <2>3 DEF Shaped
  <2>6. troubles' \in Nat /\ (troubles' = 0 => r = world.hooks /\ troubles = 0)
    BY <1>0, <2>3, <2>4
  <2>7. PostureTypeOK' /\ PartsKept' /\ JournalFirst'
    BY <2>1, <2>2 DEF PostureInv, PostureTypeOK, PartsKept, JournalFirst
  <2>8. SnapFresh'
    BY <2>1, <2>2, <2>5, <2>6 DEF PostureInv, SnapFresh, Undisturbed
  <2> QED BY <1>0, <2>1, <2>2, <2>5, <2>6, <2>7, <2>8 DEF PostureInv, PostureTypeOK
<1>6. CASE CollectRules
  <2>1. scan = "rules" /\ scan' = "comparing"
    BY <1>6 DEF CollectRules
  <2>2. UNCHANGED <<world, sources, watcher, periodic, accepted, hasAccepted, alerts, cut, rebooted>>
    BY <1>6 DEF CollectRules
  <2> DEFINE Read(r) == [snap EXCEPT !.rules = r, !.levels = world.levels,
                                     !.everyone = world.everyone, !.noticed = world.noticed,
                                     !.desk = world.desk]
             Keep(n, o) == IF n.ok \/ ~hasAccepted \/ ~o.seen THEN n
                           ELSE [ok |-> FALSE, seen |-> TRUE, items |-> o.items]
  <2>3. PICK r \in Reading(world.rules) : /\ snap' = Preserve(hasAccepted, accepted, Read(r))
                                          /\ troubles' = IF r.ok THEN troubles ELSE troubles + 1
    BY <1>6 DEF CollectRules
  <2>4. r = world.rules \/ ~r.ok
    BY <2>3 DEF Reading
  <2> DEFINE n == Read(r)
  <2>a. n = [snap EXCEPT !.rules = r, !.levels = world.levels, !.everyone = world.everyone,
                         !.noticed = world.noticed, !.desk = world.desk]
    OBVIOUS
  <2> HIDE DEF n
  <2>5. /\ Shaped(n) /\ n.rules = r /\ n.hooks = snap.hooks
        /\ n.levels = world.levels /\ n.everyone = world.everyone /\ n.noticed = world.noticed
        /\ n.desk = world.desk /\ n.roles = snap.roles /\ n.channels = snap.channels
        /\ n.admins = snap.admins /\ n.bot = snap.bot
    BY <1>0, <2>a DEF Shaped
  <2>6. snap' = [n EXCEPT !.hooks = Keep(n.hooks, accepted.hooks), !.rules = Keep(n.rules, accepted.rules)]
    BY <2>3 DEF Preserve, n
  <2>7. /\ Shaped(snap')
        /\ snap'.hooks = Keep(snap.hooks, accepted.hooks) /\ snap'.rules = Keep(r, accepted.rules)
        /\ snap'.levels = n.levels /\ snap'.everyone = n.everyone /\ snap'.noticed = n.noticed
        /\ snap'.desk = n.desk /\ snap'.roles = n.roles /\ snap'.channels = n.channels
        /\ snap'.admins = n.admins /\ snap'.bot = n.bot
    BY <2>5, <2>6 DEF Shaped
  <2>8. troubles' \in Nat /\ (troubles' = 0 => r = world.rules /\ r.ok /\ troubles = 0)
    BY <1>0, <2>3, <2>4
  <2>9. PostureTypeOK' /\ JournalFirst'
    BY <2>1, <2>2 DEF PostureInv, PostureTypeOK, JournalFirst
  <2>10. ASSUME Undisturbed'
         PROVE  /\ snap' = [world EXCEPT !.admins = snap'.admins]
                /\ snap'.roles = world.roles /\ snap'.channels = world.channels
                /\ world.admins \subseteq snap'.admins /\ snap'.bot = world.bot
                /\ snap'.hooks = world.hooks
    <3>1. Undisturbed /\ r = world.rules /\ r.ok
      BY <2>1, <2>2, <2>8, <2>10 DEF Undisturbed
    <3>2. /\ snap.roles = world.roles /\ snap.channels = world.channels
          /\ world.admins \subseteq snap.admins /\ snap.bot = world.bot /\ snap.hooks = world.hooks
      BY <2>1, <3>1 DEF PostureInv, SnapFresh
    <3>3. world.hooks.ok
      BY <1>0, WorldsAreRead
    <3>4. snap'.hooks = world.hooks /\ snap'.rules = world.rules
      BY <2>7, <3>1, <3>2, <3>3
    <3>5. snap' = [world EXCEPT !.admins = snap'.admins]
      BY <1>0, <2>5, <2>7, <3>2, <3>4 DEF Shaped
    <3> QED BY <2>5, <2>7, <3>2, <3>4, <3>5
  <2>11. SnapFresh'
    <3> QED BY <2>2, <2>10 DEF SnapFresh
  <2>12. PartsKept'
    <3>1. ASSUME hasAccepted, NEW o, NEW p, o.seen
          PROVE  Keep(p, o).ok \/ Keep(p, o).items = o.items
      BY <3>1
    <3>2. hasAccepted => KeptPart(accepted.hooks, snap'.hooks) /\ KeptPart(accepted.rules, snap'.rules)
      BY <2>7, <3>1 DEF KeptPart
    <3> QED BY <2>2, <3>2 DEF PartsKept
  <2> QED BY <1>0, <2>1, <2>2, <2>7, <2>8, <2>9, <2>11, <2>12 DEF PostureInv, PostureTypeOK
<1>7. CASE NothingNew
  <2>1. EndScan /\ scan = "comparing" /\ accepted = snap /\ rebooted' = FALSE
    BY <1>7 DEF NothingNew
  <2>2. UNCHANGED <<accepted, hasAccepted, alerts, cut, troubles>> /\ UNCHANGED <<world, sources, snap>>
    BY <1>7, <2>1 DEF NothingNew, EndScan
  <2>3. hasAccepted' \in BOOLEAN /\ cut' \in BOOLEAN
    BY <2>2 DEF PostureInv, PostureTypeOK
  <2>4. ASSUME watcher' = "none", periodic' = "none", troubles' = 0 PROVE Current'
    <3>1. Undisturbed
      BY <2>1, <2>2, <2>4, ScanEnds DEF Undisturbed
    <3> QED BY <2>1, <2>2, <3>1 DEF PostureInv, SnapFresh, Current
  <2> QED BY <1>0, <2>1, <2>2, <2>3, <2>4, ScanEnds DEF PostureInv
<1>8. CASE Journal
  <2>1. scan = "comparing" /\ scan' = "accepting"
    BY <1>8 DEF Journal
  <2>2. UNCHANGED <<world, sources, watcher, periodic, snap, accepted, hasAccepted, rebooted, troubles>>
    BY <1>8 DEF Journal
  <2>3. hasAccepted => cut' \/ Diff(accepted, snap) \subseteq alerts'
    <3> SUFFICES ASSUME hasAccepted PROVE cut' \/ News \subseteq alerts'
      BY DEF News
    <3>1. PICK kept \in Listings(News) :
            /\ alerts' = alerts \cup {a \in News : Subject(a) \in kept}
            /\ cut' = ({a \in News : Subject(a) \in kept} # News)
      BY <1>8 DEF Journal
    <3>2. CASE {a \in News : Subject(a) \in kept} # News
      BY <3>1, <3>2
    <3>3. CASE {a \in News : Subject(a) \in kept} = News
      BY <3>1, <3>3
    <3> QED BY <3>2, <3>3
  <2>a. cut' \in BOOLEAN
    BY <1>8, Zenon DEF Journal, PostureInv, PostureTypeOK
  <2>4. PostureTypeOK' /\ SnapFresh' /\ PartsKept'
    BY <2>1, <2>2, <2>a DEF PostureInv, PostureTypeOK, SnapFresh, Undisturbed, PartsKept
  <2>5. JournalFirst'
    BY <2>2, <2>3 DEF JournalFirst
  <2> QED BY <1>0, <2>2, <2>4, <2>5 DEF PostureInv, Current
<1>9. CASE Accept
  <2>1. EndScan /\ scan = "accepting" /\ rebooted' = FALSE /\ hasAccepted' = TRUE /\ cut' = FALSE
    BY <1>9 DEF Accept
  <2>2. accepted' = snap /\ UNCHANGED troubles /\ UNCHANGED <<world, sources, snap>>
    BY <1>9, <2>1 DEF Accept, EndScan
  <2>3. ASSUME watcher' = "none", periodic' = "none", troubles' = 0 PROVE Current'
    <3>1. Undisturbed
      BY <2>1, <2>2, <2>3, ScanEnds DEF Undisturbed
    <3> QED BY <2>1, <2>2, <3>1 DEF PostureInv, SnapFresh, Current
  <2> QED BY <1>0, <2>1, <2>2, <2>3, ScanEnds DEF PostureInv
<1>10. CASE ScanFails
  <2>1. EndScan /\ scan # "free" /\ troubles' = troubles + 1
    BY <1>10 DEF ScanFails
  <2>2. UNCHANGED <<accepted, hasAccepted, alerts, cut, rebooted>> /\ UNCHANGED <<world, sources, snap>>
    BY <1>10, <2>1 DEF ScanFails, EndScan
  <2>3. troubles' \in Nat /\ troubles' # 0
    BY <1>0, <2>1
  <2>4. hasAccepted' \in BOOLEAN /\ rebooted' \in BOOLEAN /\ cut' \in BOOLEAN
    BY <2>2 DEF PostureInv, PostureTypeOK
  <2> QED BY <1>0, <2>1, <2>2, <2>3, <2>4, ScanEnds DEF PostureInv
<1>11. CASE MonitorRestart
  <2>1. /\ sources' = FALSE /\ watcher' = "none" /\ periodic' = "none" /\ scan' = "free"
        /\ rebooted' = TRUE /\ world' \in Worlds /\ troubles' = troubles + 1
        /\ UNCHANGED <<snap, accepted, hasAccepted, alerts, cut>>
    BY <1>11 DEF MonitorRestart
  <2>2. PostureTypeOK' /\ SnapFresh' /\ PartsKept' /\ JournalFirst'
    BY <2>1 DEF PostureInv, PostureTypeOK, SnapFresh, Undisturbed, PartsKept, JournalFirst
  <2> QED BY <1>0, <2>1, <2>2 DEF PostureInv
<1>12. CASE BotLeaves
  <2>1. PICK b \in world.admins : world' = [world EXCEPT !.admins = @ \ {b}]
    BY <1>12 DEF BotLeaves
  <2>2. /\ world' \in Worlds
        /\ UNCHANGED <<sources, watcher, periodic, scan, snap, accepted, hasAccepted, alerts, cut,
                       rebooted, troubles>>
    BY <1>12 DEF BotLeaves
  <2>3. /\ world'.roles = world.roles /\ world'.channels = world.channels /\ world'.bot = world.bot
        /\ world'.hooks = world.hooks /\ world'.admins \subseteq world.admins
    BY <1>0, <2>1 DEF Shaped
  <2>4. ASSUME NEW A PROVE [world' EXCEPT !.admins = A] = [world EXCEPT !.admins = A]
    BY <1>0, <2>1 DEF Shaped
  <2>5. PostureTypeOK' /\ PartsKept' /\ JournalFirst'
    BY <2>2 DEF PostureInv, PostureTypeOK, PartsKept, JournalFirst
  <2>6. SnapFresh'
    BY <2>2, <2>3, <2>4 DEF PostureInv, SnapFresh, Undisturbed
  <2>7. Current => Current'
    BY <2>2, <2>3, <2>4 DEF Current
  <2> QED BY <1>0, <2>2, <2>5, <2>6, <2>7 DEF PostureInv
<1>13. CASE UNCHANGED postureVars
  BY <1>13 DEF PostureInv, PostureTypeOK, Shaped, SnapFresh, Undisturbed, PartsKept, JournalFirst,
       Current, postureVars
<1> QED BY <1>1, <1>2, <1>3, <1>4, <1>5, <1>6, <1>7, <1>8, <1>9, <1>10, <1>11, <1>12, <1>13
        DEF PostureNext

\* In every behaviour the watch keeps its invariant.
LEMMA PostureSafe == PostureSpec => []PostureInv
<1> QED BY PostureInvInit, PostureInvStep, PTL DEF PostureSpec

\* No event of a server is forgotten, and when nothing runs and nothing failed
\* since the start, the accepted snapshot is the server as it is, except for
\* administrator bots that have left (cogs/security.py:77-116, 221-343).
THEOREM QuietIsCurrent == PostureSpec => []QuietMeansCurrent
<1>1. PostureInv => QuietMeansCurrent
  BY DEF PostureInv, QuietMeansCurrent
<1> QED BY <1>1, PostureSafe, PTL

\* A risk enters the accepted snapshot only after an alert about it is stored, for
\* any server, failures and restarts, whichever part of a list that is too long for
\* its entry is kept (cogs/security.py:184-192).
THEOREM NothingSlipsIn == PostureSpec => NothingAcceptedSilently
<1> DEFINE Silent == hasAccepted /\ accepted' # accepted =>
                       \A risk \in Risks(accepted') \ Risks(accepted) :
                         \/ Told(risk, alerts)
                         \/ cut
                         \/ risk[1] = "at" /\ ~accepted.hooks.seen
                         \/ risk[1] = "idle" /\ ~accepted.rules.seen
<1>1. ASSUME PostureInv, PostureNext PROVE Silent
  <2> SUFFICES ASSUME hasAccepted, accepted' # accepted,
                      NEW risk \in Risks(accepted') \ Risks(accepted)
               PROVE  \/ Told(risk, alerts)
                      \/ cut
                      \/ risk[1] = "at" /\ ~accepted.hooks.seen
                      \/ risk[1] = "idle" /\ ~accepted.rules.seen
    OBVIOUS
  <2>1. Accept
    BY <1>1 DEF PostureNext, ChangeServer, BotLeaves, WatcherStarts, PeriodStarts, TakeScan,
         CollectWebhooks, CollectRules, NothingNew, Journal, ScanFails, MonitorRestart
  <2>2. accepted' = snap /\ scan = "accepting"
    BY <2>1 DEF Accept
  <2>3. cut \/ Diff(accepted, snap) \subseteq alerts
    BY <1>1, <2>2 DEF PostureInv, JournalFirst
  <2>4. KeptPart(accepted.hooks, snap.hooks) /\ KeptPart(accepted.rules, snap.rules)
    BY <1>1, <2>2 DEF PostureInv, PartsKept
  <2> QED BY <2>2, <2>3, <2>4, NewRisksAreTold
<1>2. PostureInv /\ [PostureNext]_postureVars => [Silent]_postureVars
  BY <1>1
<1> QED BY <1>2, PostureSafe, PTL DEF PostureSpec, NothingAcceptedSilently

-----------------------------------------------------------------------------
(* The meeting point of the listeners of a message.                         *)

\* The pairs of o order the keys K by the age of their verdicts.
Orders(o, K) ==
  /\ o \subseteq K \X K
  /\ \A k, l \in K : (<<k, l>> \in o) = (k # l /\ <<l, k>> \notin o)
  /\ \A k, l, m \in GateKeys : <<k, l>> \in o /\ <<l, m>> \in o => <<k, m>> \in o

\* Without some keys an order is one of the others.
LEMMA WithoutOrders ==
  ASSUME NEW K \in SUBSET GateKeys, NEW o, Orders(o, K), NEW S
  PROVE  Orders(Without(o, S), K \ S)
<1>1. \A k, l : <<k, l>> \in Without(o, S) <=> <<k, l>> \in o /\ k \notin S /\ l \notin S
  BY DEF Without
<1>2. \A p \in Without(o, S) : p \in o /\ p[1] \notin S /\ p[2] \notin S
  BY DEF Without
<1>3. Without(o, S) \subseteq (K \ S) \X (K \ S)
  BY <1>2 DEF Orders
<1> QED BY <1>1, <1>3 DEF Orders

\* With a youngest key an order is one of that key as well.
LEMMA YoungestOrders ==
  ASSUME NEW K \in SUBSET GateKeys, NEW o, Orders(o, K), NEW k \in GateKeys, k \notin K
  PROVE  Orders(o \cup (K \X {k}), K \cup {k})
<1> DEFINE p == o \cup (K \X {k})
<1>1. \A x, y : <<x, y>> \in p <=> <<x, y>> \in o \/ (x \in K /\ y = k)
  OBVIOUS
<1>2. \A x, y : <<x, y>> \in o => x \in K /\ y \in K
  BY DEF Orders
<1>3. p \subseteq (K \cup {k}) \X (K \cup {k})
  BY DEF Orders
<1>4. ASSUME NEW x \in K \cup {k}, NEW y \in K \cup {k}
      PROVE  (<<x, y>> \in p) = (x # y /\ <<y, x>> \notin p)
  <2>1. CASE x \in K /\ y \in K
    BY <1>1, <2>1 DEF Orders
  <2>2. CASE x = k \/ y = k
    BY <1>1, <1>2, <2>2
  <2> QED BY <2>1, <2>2
<1>5. ASSUME NEW x \in GateKeys, NEW y \in GateKeys, NEW z \in GateKeys,
             <<x, y>> \in p, <<y, z>> \in p
      PROVE  <<x, z>> \in p
  BY <1>1, <1>2, <1>5 DEF Orders
<1> HIDE DEF p
<1>6. Orders(p, K \cup {k})
  BY <1>3, <1>4, <1>5 DEF Orders
<1> QED BY <1>6 DEF p

\* GateTypeOK in those words.
LEMMA GateTypes ==
  GateTypeOK <=>
    /\ results \in [GateKeys -> Answers] /\ Orders(order, Remembered(results))
    /\ aged \subseteq Remembered(results) /\ open \subseteq GateKeys
    /\ wait \in [GateWaiters -> {"idle", "on", "off", "woken"} \cup Answers]
    /\ \A w \in GateWaiters : wait[w] = "on" => WaitsFor[w] \in open
BY Zenon DEF GateTypeOK, Orders

\* The same of the next state.
LEMMA GateTypesNext ==
  GateTypeOK' <=>
    /\ results' \in [GateKeys -> Answers] /\ Orders(order', Remembered(results'))
    /\ aged' \subseteq Remembered(results') /\ open' \subseteq GateKeys
    /\ wait' \in [GateWaiters -> {"idle", "on", "off", "woken"} \cup Answers]
    /\ \A w \in GateWaiters : wait'[w] = "on" => WaitsFor[w] \in open'
BY Zenon DEF GateTypeOK, Orders

\* A verdict given is one, the answers given before stay, and what is known of other
\* messages is at most forgotten.
LEMMA GateFinishFits ==
  ASSUME GateTypeOK, NEW k \in GateKeys, NEW v \in Verdicts, GateFinish(k, v)
  PROVE  /\ GateTypeOK'
         /\ results'[k] \in {v, "none"}
         /\ \A x \in GateKeys \ {k} : results'[x] \in {results[x], "none"}
         /\ \A w \in GateWaiters : wait'[w] = "clear" <=> wait[w] = "clear"
<1> DEFINE given == [results EXCEPT ![k] = v]
           now == Without(order, {k}) \cup ((Remembered(results) \ {k}) \X {k})
           gone == Dropped(given, now, aged \ {k})
<1>0. /\ results \in [GateKeys -> Answers] /\ Orders(order, Remembered(results))
      /\ aged \subseteq Remembered(results) /\ open \subseteq GateKeys
      /\ wait \in [GateWaiters -> {"idle", "on", "off", "woken"} \cup Answers]
      /\ \A w \in GateWaiters : wait[w] = "on" => WaitsFor[w] \in open
  BY GateTypes
<1>1. /\ results' = [x \in GateKeys |-> IF x \in gone THEN "none" ELSE given[x]]
      /\ order' = Without(now, gone)
      /\ aged' = aged \ (gone \cup {k})
      /\ open' = open \ (gone \cup {k})
      /\ wait' = Moved(Moved(wait, {k}, "woken"), gone, "off")
  BY DEF GateFinish
<1>2. given \in [GateKeys -> Answers] /\ given[k] = v /\ v # "none"
        /\ \A x \in GateKeys \ {k} : given[x] = results[x]
  BY <1>0 DEF Answers, Verdicts
<1>3. Orders(now, (Remembered(results) \ {k}) \cup {k})
  <2>1. Remembered(results) \in SUBSET GateKeys
    BY DEF Remembered
  <2>2. Orders(Without(order, {k}), Remembered(results) \ {k})
    BY <1>0, <2>1, WithoutOrders
  <2>3. Remembered(results) \ {k} \in SUBSET GateKeys /\ k \notin Remembered(results) \ {k}
    BY <2>1
  <2> HIDE DEF given, gone
  <2> QED BY <2>2, <2>3, YoungestOrders
<1>4. Remembered(given) = (Remembered(results) \ {k}) \cup {k}
  BY <1>2 DEF Remembered
<1> HIDE DEF now, given, gone
<1>5. results' \in [GateKeys -> Answers]
  BY <1>1, <1>2 DEF Answers
<1>6. Remembered(results') = Remembered(given) \ gone
  BY <1>1, <1>2 DEF Remembered
<1>7. Orders(order', Remembered(results'))
  <2>1. Remembered(given) \in SUBSET GateKeys
    BY DEF Remembered
  <2> QED BY <1>1, <1>3, <1>4, <1>6, <2>1, WithoutOrders
<1>8. aged' \subseteq Remembered(results')
  BY <1>0, <1>1, <1>4, <1>6
<1>9. \A w \in GateWaiters :
        wait'[w] = IF wait[w] # "on" THEN wait[w]
                   ELSE IF WaitsFor[w] = k THEN "woken"
                   ELSE IF WaitsFor[w] \in gone THEN "off" ELSE "on"
  <2>1. \A w \in GateWaiters :
          Moved(wait, {k}, "woken")[w] = IF wait[w] = "on" /\ WaitsFor[w] = k THEN "woken" ELSE wait[w]
    BY DEF Moved
  <2> QED BY <1>1, <2>1 DEF Moved
<1>10. wait' \in [GateWaiters -> {"idle", "on", "off", "woken"} \cup Answers]
  <2>1. \A w \in GateWaiters : wait'[w] \in {"idle", "on", "off", "woken"} \cup Answers
    BY <1>0, <1>9
  <2>2. wait' = [w \in GateWaiters |-> wait'[w]]
    BY <1>1 DEF Moved
  <2> QED BY <2>1, <2>2
<1>11. \A w \in GateWaiters : wait'[w] = "on" => WaitsFor[w] \in open'
  BY <1>0, <1>1, <1>9
<1>12. GateTypeOK'
  <2>1. open' \subseteq GateKeys
    BY <1>0, <1>1
  <2> QED BY <1>5, <1>7, <1>8, <1>10, <1>11, <2>1, GateTypesNext
<1> QED BY <1>1, <1>2, <1>9, <1>12

\* Announcing a check keeps the gate's types.
LEMMA GateBeginFits ==
  ASSUME GateTypeOK, NEW k \in GateKeys, GateBegin(k)
  PROVE  GateTypeOK' /\ UNCHANGED <<results, wait>>
<1>1. open' = open \cup {k} /\ UNCHANGED <<results, order, aged, wait>>
  BY DEF GateBegin
<1>2. open' \subseteq GateKeys /\ \A w \in GateWaiters : wait'[w] = "on" => WaitsFor[w] \in open'
  BY <1>1 DEF GateTypeOK
<1> QED BY <1>1, <1>2, GateTypes, GateTypesNext

\* So does every step of a listener, which learns only what is remembered.
LEMMA ListenFits ==
  ASSUME GateTypeOK, Listen
  PROVE  /\ GateTypeOK'
         /\ \A x \in GateKeys : results'[x] \in {results[x], "none"}
         /\ \A w \in GateWaiters :
              wait'[w] = "clear" => wait[w] = "clear" \/ results[WaitsFor[w]] = "clear"
<1>0. /\ results \in [GateKeys -> Answers] /\ Orders(order, Remembered(results))
      /\ aged \subseteq Remembered(results) /\ open \subseteq GateKeys
      /\ wait \in [GateWaiters -> {"idle", "on", "off", "woken"} \cup Answers]
      /\ \A w \in GateWaiters : wait[w] = "on" => WaitsFor[w] \in open
      /\ \A w \in GateWaiters : WaitsFor[w] \in GateKeys
  BY GateTypes, GateAssumption
<1>1. PICK w \in GateWaiters : Remember(w) \/ StartWait(w) \/ Wake(w) \/ GiveUp(w)
  BY DEF Listen
<1> DEFINE k == WaitsFor[w]
<1>2. CASE Remember(w) \/ Wake(w)
  <2>1. wait' = [wait EXCEPT ![w] = results[k]] /\ UNCHANGED <<results, order, aged, open>>
    BY <1>2 DEF Remember, Wake
  <2>2. results[k] \in Answers
    BY <1>0
  <2>3. \A x \in GateWaiters : wait'[x] = IF x = w THEN results[k] ELSE wait[x]
    BY <1>0, <2>1
  <2>4. /\ wait' \in [GateWaiters -> {"idle", "on", "off", "woken"} \cup Answers]
        /\ \A x \in GateWaiters : wait'[x] = "on" => WaitsFor[x] \in open'
    BY <1>0, <2>1, <2>2, <2>3 DEF Answers, Verdicts
  <2>5. GateTypeOK'
    BY <1>0, <2>1, <2>4, GateTypesNext
  <2> QED BY <2>1, <2>3, <2>5
<1>3. CASE StartWait(w)
  <2>1. /\ wait' = [wait EXCEPT ![w] = "on"] /\ open' = open \cup {k}
        /\ results' = [results EXCEPT ![k] = "none"]
        /\ order' = Without(order, {k}) /\ aged' = aged \ {k}
    BY <1>3 DEF StartWait
  <2>2. results' \in [GateKeys -> Answers]
          /\ \A x \in GateKeys : results'[x] = IF x = k THEN "none" ELSE results[x]
    BY <1>0, <2>1 DEF Answers
  <2>3. Remembered(results') = Remembered(results) \ {k}
    BY <2>2 DEF Remembered
  <2>4. Remembered(results) \in SUBSET GateKeys
    BY DEF Remembered
  <2>5. Orders(order', Remembered(results'))
    <3>1. Orders(order, Remembered(results))
      BY <1>0
    <3>2. Orders(Without(order, {k}), Remembered(results) \ {k})
      BY <3>1, <2>4, WithoutOrders
    <3> QED BY <2>1, <2>3, <3>2
  <2>6. /\ wait' \in [GateWaiters -> {"idle", "on", "off", "woken"} \cup Answers]
        /\ \A x \in GateWaiters : wait'[x] = "on" => WaitsFor[x] \in open'
    BY <1>0, <2>1
  <2>7. aged' \subseteq Remembered(results') /\ open' \subseteq GateKeys
    BY <1>0, <2>1, <2>3
  <2>8. GateTypeOK'
    BY <2>2, <2>5, <2>6, <2>7, GateTypesNext
  <2> QED BY <1>0, <2>1, <2>2, <2>8
<1>4. CASE GiveUp(w)
  <2>1. UNCHANGED <<results, order, aged>>
    BY <1>4 DEF GiveUp
  <2>2. CASE wait[w] = "on"
    <3>1. open' = open \ {k} /\ wait' = Moved([wait EXCEPT ![w] = "none"], {k}, "off")
      BY <1>4, <2>2 DEF GiveUp
    <3>2. \A x \in GateWaiters :
            wait'[x] = IF x = w THEN "none"
                       ELSE IF wait[x] = "on" /\ WaitsFor[x] = k THEN "off" ELSE wait[x]
      BY <1>0, <3>1 DEF Moved
    <3>3. wait' = [x \in GateWaiters |-> wait'[x]]
      BY <3>1 DEF Moved
    <3>4. wait' \in [GateWaiters -> {"idle", "on", "off", "woken"} \cup Answers]
      <4>1. \A x \in GateWaiters : wait'[x] \in {"idle", "on", "off", "woken"} \cup Answers
        BY <1>0, <3>2 DEF Answers
      <4> QED BY <3>3, <4>1
    <3>5. open' \subseteq GateKeys /\ \A x \in GateWaiters : wait'[x] = "on" => WaitsFor[x] \in open'
      BY <1>0, <3>1, <3>2
    <3>6. GateTypeOK'
      BY <1>0, <2>1, <3>4, <3>5, GateTypesNext
    <3> QED BY <2>1, <3>2, <3>6
  <2>3. CASE wait[w] # "on"
    <3>1. open' = open /\ wait' = [wait EXCEPT ![w] = "none"]
      BY <1>4, <2>3 DEF GiveUp
    <3>2. /\ wait' \in [GateWaiters -> {"idle", "on", "off", "woken"} \cup Answers]
          /\ \A x \in GateWaiters : wait'[x] = "on" => WaitsFor[x] \in open'
      BY <1>0, <3>1 DEF Answers
    <3>3. GateTypeOK'
      BY <1>0, <2>1, <3>1, <3>2, GateTypesNext
    <3> QED BY <1>0, <2>1, <3>1, <3>3
  <2> QED BY <2>2, <2>3
<1> QED BY <1>1, <1>2, <1>3, <1>4

\* A verdict that grows old is still one.
LEMMA AgeFits ==
  ASSUME GateTypeOK, AgeSome
  PROVE  GateTypeOK' /\ UNCHANGED <<results, wait>>
<1>1. PICK k \in MayAge : Age(k)
  BY DEF AgeSome
<1>2. k \in Remembered(results) /\ aged' = aged \cup {k} /\ UNCHANGED <<results, order, open, wait>>
  BY <1>1, GateAssumption DEF Age, Remembered
<1> QED BY <1>2, GateTypes, GateTypesNext

-----------------------------------------------------------------------------
(* Numbers and queues.                                                      *)

\* Min is the least element.
LEMMA MinIs ==
  ASSUME NEW T \in SUBSET Nat, T # {}
  PROVE  Min(T) \in T /\ \A y \in T : Min(T) <= y
<1>1. \E x \in T : \A y \in T : x <= y
  BY NatLeast
<1> QED BY <1>1 DEF Min

\* The entries of the queue q are the times S of different messages of the tracker k,
\* in the order in which they were counted (C).
Queued(q, k, S, C) ==
  \E h \in [DOMAIN q -> Messages] :
    /\ \A i, j \in DOMAIN q : h[i] = h[j] => i = j
    /\ \A i \in DOMAIN q : TrackerOf(h[i]) = k /\ S[h[i]] = q[i]
    /\ \A i, j \in DOMAIN q : i < j => C[h[i]] <= C[h[j]]

\* What is known of a queue of times.
LEMMA QueueOfTimes ==
  ASSUME NEW q \in Seq(0 .. MaxClock)
  PROVE  /\ Len(q) \in Nat /\ DOMAIN q = 1 .. Len(q)
         /\ \A i \in 1 .. Len(q) : q[i] \in 0 .. MaxClock /\ q[i] # -1
<1>1. Len(q) \in Nat /\ DOMAIN q = 1 .. Len(q) /\ q \in [1 .. Len(q) -> 0 .. MaxClock]
  BY LenProperties
<1>2. \A i \in 1 .. Len(q) : q[i] \in 0 .. MaxClock
  BY <1>1
<1> QED BY <1>1, <1>2

\* A queue remains one when only other messages are counted.
LEMMA QueuedStays ==
  ASSUME NEW q \in Seq(0 .. MaxClock), NEW k, NEW S, NEW C, NEW S2, NEW C2, Queued(q, k, S, C),
         \A x \in Messages : S[x] # -1 => S2[x] = S[x] /\ C2[x] = C[x]
  PROVE  Queued(q, k, S2, C2)
<1>1. PICK h \in [DOMAIN q -> Messages] :
        /\ \A i, j \in DOMAIN q : h[i] = h[j] => i = j
        /\ \A i \in DOMAIN q : TrackerOf(h[i]) = k /\ S[h[i]] = q[i]
        /\ \A i, j \in DOMAIN q : i < j => C[h[i]] <= C[h[j]]
  BY DEF Queued
<1>2. \A i \in DOMAIN q : q[i] \in 0 .. MaxClock /\ q[i] # -1
  BY QueueOfTimes
<1>3. \A i \in DOMAIN q : h[i] \in Messages /\ S2[h[i]] = S[h[i]] /\ C2[h[i]] = C[h[i]]
  BY <1>1, <1>2
<1>4. /\ \A i \in DOMAIN q : TrackerOf(h[i]) = k /\ S2[h[i]] = q[i]
      /\ \A i, j \in DOMAIN q : i < j => C2[h[i]] <= C2[h[j]]
  BY <1>1, <1>3
<1> QED BY <1>1, <1>4 DEF Queued

\* The message counted last enters at the end.
LEMMA QueuedMore ==
  ASSUME NEW q \in Seq(0 .. MaxClock), NEW m \in Messages, NEW b \in 0 .. MaxClock, NEW t \in 0 .. MaxClock,
         NEW S \in [Messages -> -1 .. MaxClock], NEW C \in [Messages -> -1 .. MaxClock],
         Queued(q, TrackerOf(m), S, C), S[m] = -1, \A x \in Messages : C[x] <= t
  PROVE  Queued(Append(q, b), TrackerOf(m), [S EXCEPT ![m] = b], [C EXCEPT ![m] = t])
<1> DEFINE k == TrackerOf(m)
           S2 == [S EXCEPT ![m] = b]
           C2 == [C EXCEPT ![m] = t]
           p == Append(q, b)
           n == Len(q) + 1
<1>1. PICK h \in [DOMAIN q -> Messages] :
        /\ \A i, j \in DOMAIN q : h[i] = h[j] => i = j
        /\ \A i \in DOMAIN q : TrackerOf(h[i]) = k /\ S[h[i]] = q[i]
        /\ \A i, j \in DOMAIN q : i < j => C[h[i]] <= C[h[j]]
  BY DEF Queued
<1>2. /\ DOMAIN q = 1 .. Len(q) /\ Len(q) \in Nat /\ DOMAIN p = 1 .. n
      /\ p[n] = b /\ \A i \in DOMAIN q : p[i] = q[i] /\ q[i] \in 0 .. MaxClock
  <2>1. p \in Seq(0 .. MaxClock) /\ Len(p) = n
    BY AppendProperties
  <2>2. DOMAIN p = 1 .. n
    BY <2>1, LenProperties
  <2> QED BY <2>2, QueueOfTimes, AppendProperties
<1>3. \A i \in DOMAIN q : h[i] \in Messages \ {m}
  BY <1>1, <1>2
<1>4. /\ S2[m] = b /\ C2[m] = t
      /\ \A x \in Messages \ {m} : S2[x] = S[x] /\ C2[x] = C[x] /\ C[x] <= t
  OBVIOUS
<1> DEFINE g == [i \in DOMAIN p |-> IF i = n THEN m ELSE h[i]]
<1>5. \A i \in DOMAIN p : i = n \/ i \in DOMAIN q
  BY <1>2
<1>6. n \notin DOMAIN q /\ n \in DOMAIN p /\ \A i \in DOMAIN q : i \in DOMAIN p /\ i < n
  BY <1>2
<1>7. g[n] = m /\ \A i \in DOMAIN q : g[i] = h[i]
  BY <1>6
<1>8. g \in [DOMAIN p -> Messages]
  BY <1>3, <1>5
<1> HIDE DEF g, p, n, S2, C2, k
<1>9. \A i, j \in DOMAIN p : g[i] = g[j] => i = j
  BY <1>1, <1>3, <1>5, <1>7
<1>10. \A i \in DOMAIN p : TrackerOf(g[i]) = k /\ S2[g[i]] = p[i]
  <2>1. ASSUME NEW i \in DOMAIN q PROVE TrackerOf(g[i]) = k /\ S2[g[i]] = p[i]
    BY <1>1, <1>2, <1>3, <1>4, <1>7
  <2>2. TrackerOf(g[n]) = k /\ S2[g[n]] = p[n]
    BY <1>2, <1>4, <1>7 DEF k
  <2> QED BY <1>5, <2>1, <2>2
<1>11. ASSUME NEW i \in DOMAIN p, NEW j \in DOMAIN p, i < j PROVE C2[g[i]] <= C2[g[j]]
  <2>1. i \in DOMAIN q
    <3>1. i \in 1 .. n /\ j \in 1 .. n /\ n \in Nat
      BY <1>2 DEF n
    <3> QED BY <1>5, <1>11, <3>1
  <2>2. CASE j = n
    BY <1>3, <1>4, <1>7, <2>1, <2>2
  <2>3. CASE j \in DOMAIN q
    BY <1>1, <1>3, <1>4, <1>7, <1>11, <2>1, <2>3
  <2> QED BY <1>5, <2>2, <2>3
<1>12. Queued(p, k, S2, C2)
  BY <1>8, <1>9, <1>10, <1>11 DEF Queued
<1> QED BY <1>12 DEF p, k, S2, C2

\* A queue without some first entries is one.
LEMMA QueuedRest ==
  ASSUME NEW q \in Seq(0 .. MaxClock), NEW k, NEW S, NEW C, Queued(q, k, S, C),
         NEW a \in 1 .. Len(q)
  PROVE  Queued(SubSeq(q, a, Len(q)), k, S, C)
<1> DEFINE p == SubSeq(q, a, Len(q))
           n == Len(q) - a + 1
<1>1. PICK h \in [DOMAIN q -> Messages] :
        /\ \A i, j \in DOMAIN q : h[i] = h[j] => i = j
        /\ \A i \in DOMAIN q : TrackerOf(h[i]) = k /\ S[h[i]] = q[i]
        /\ \A i, j \in DOMAIN q : i < j => C[h[i]] <= C[h[j]]
  BY DEF Queued
<1>2. DOMAIN q = 1 .. Len(q) /\ Len(q) \in Nat /\ \A i \in DOMAIN q : q[i] \in 0 .. MaxClock
  BY QueueOfTimes
<1>3. p \in Seq(0 .. MaxClock) /\ Len(p) = n /\ \A i \in 1 .. n : p[i] = q[a + i - 1]
  <2>1. \A i \in a .. Len(q) : q[i] \in 0 .. MaxClock
    BY <1>2
  <2>2. a \in Int /\ Len(q) \in Int /\ a <= Len(q)
    BY <1>2
  <2> QED BY <2>1, <2>2, SubSeqProperties
<1>4. DOMAIN p = 1 .. n
  BY <1>3
<1>5. \A i \in 1 .. n : a + i - 1 \in DOMAIN q /\ p[i] = q[a + i - 1]
  BY <1>2, <1>3
<1> DEFINE g == [i \in 1 .. n |-> h[a + i - 1]]
<1> HIDE DEF p
<1>6. \A i \in 1 .. n : g[i] = h[a + i - 1]
  OBVIOUS
<1>7. g \in [1 .. n -> Messages]
  BY <1>5
<1> HIDE DEF g
<1>8. \A i, j \in 1 .. n : g[i] = g[j] => i = j
  <2>1. ASSUME NEW i \in 1 .. n, NEW j \in 1 .. n, g[i] = g[j] PROVE i = j
    <3>1. a + i - 1 = a + j - 1
      BY <1>1, <1>5, <1>6, <2>1
    <3> QED BY <3>1
  <2> QED BY <2>1
<1>9. \A i \in 1 .. n : TrackerOf(g[i]) = k /\ S[g[i]] = p[i]
  BY <1>1, <1>5, <1>6
<1>10. \A i, j \in 1 .. n : i < j => C[g[i]] <= C[g[j]]
  <2>1. ASSUME NEW i \in 1 .. n, NEW j \in 1 .. n, i < j PROVE C[g[i]] <= C[g[j]]
    <3>1. a + i - 1 < a + j - 1
      BY <2>1
    <3> QED BY <1>1, <1>5, <1>6, <3>1
  <2> QED BY <2>1
<1>11. Queued(p, k, S, C)
  <2>1. \E f \in [DOMAIN p -> Messages] :
          /\ \A i, j \in DOMAIN p : f[i] = f[j] => i = j
          /\ \A i \in DOMAIN p : TrackerOf(f[i]) = k /\ S[f[i]] = p[i]
          /\ \A i, j \in DOMAIN p : i < j => C[f[i]] <= C[f[j]]
    <3> HIDE DEF n
    <3> QED BY <1>4, <1>7, <1>8, <1>9, <1>10
  <2> QED BY <2>1 DEF Queued
<1> QED BY <1>11 DEF p

\* A queue whose first entry is not too old is not longer than the messages counted
\* in that time are many.
LEMMA QueuedAreCounted ==
  ASSUME NEW q \in Seq(0 .. MaxClock), NEW k, Len(q) > 0,
         NEW S \in [Messages -> -1 .. MaxClock], NEW C \in [Messages -> -1 .. MaxClock],
         Queued(q, k, S, C), \A x \in Messages : S[x] <= C[x],
         NEW b \in 0 .. MaxClock, NEW span \in Nat, b - q[1] <= span,
         NEW T \in SUBSET Messages,
         \A x \in Messages : TrackerOf(x) = k /\ C[x] >= 0 /\ b - C[x] <= span => x \in T
  PROVE  Len(q) <= Cardinality(T)
<1> DEFINE n == Len(q)
<1>1. PICK h \in [DOMAIN q -> Messages] :
        /\ \A i, j \in DOMAIN q : h[i] = h[j] => i = j
        /\ \A i \in DOMAIN q : TrackerOf(h[i]) = k /\ S[h[i]] = q[i]
        /\ \A i, j \in DOMAIN q : i < j => C[h[i]] <= C[h[j]]
  BY DEF Queued
<1>2. DOMAIN q = 1 .. n /\ n \in Nat /\ n >= 1 /\ \A i \in DOMAIN q : q[i] \in 0 .. MaxClock
  BY QueueOfTimes
<1>3. 1 \in DOMAIN q
  BY <1>2
<1>4. S[h[1]] = q[1] /\ h[1] \in Messages /\ C[h[1]] >= q[1] /\ C[h[1]] \in Int /\ q[1] \in 0 .. MaxClock
  BY <1>1, <1>2, <1>3
<1>5. ASSUME NEW i \in DOMAIN q PROVE h[i] \in T
  <2>1. i \in 1 .. n
    BY <1>2
  <2>2. C[h[i]] >= C[h[1]]
    <3>1. CASE i = 1
      BY <1>4, <3>1
    <3>2. CASE i # 1
      <4>1. 1 < i
        BY <2>1, <3>2
      <4>2. C[h[1]] <= C[h[i]]
        BY <1>1, <1>3, <4>1
      <4>3. C[h[i]] \in Int
        BY <1>1
      <4> QED BY <1>4, <4>2, <4>3
    <3> QED BY <3>1, <3>2
  <2>3. h[i] \in Messages /\ TrackerOf(h[i]) = k /\ C[h[i]] \in Int
    BY <1>1
  <2>4. C[h[i]] >= 0 /\ b - C[h[i]] <= span
    BY <1>4, <2>2, <2>3
  <2> QED BY <2>3, <2>4
<1>6. IsFiniteSet(T)
  BY ModerationAssumption, FS_Subset
<1>7. h \in Injection(1 .. n, T)
  BY <1>1, <1>2, <1>5 DEF Injection, IsInjective
<1>8. Cardinality(1 .. n) <= Cardinality(T)
  BY <1>6, <1>7, FS_Injection
<1>9. Cardinality(1 .. n) = n
  BY <1>2, FS_Interval
<1> QED BY <1>8, <1>9

-----------------------------------------------------------------------------
(* The check of messages.                                                   *)

Causes == {"none", "links", "files", "content", "pings", "cross", "spam", "flood"}
Proofs == {"badUrl", "adUrl", "repUrl", "badFile", "seenMedia", "adText"}
Suspicions == {"oddUrl", "oddMedia", "oddText"}
Entries == [msg : Messages, at : 0 .. MaxClock]

\* The types of the variables that belong to checks and trackers.
CheckTypes ==
  /\ filters \in FilterSets /\ nature \in [Messages -> UNION {Natures[m] : m \in Messages}]
  /\ stage \in [Checks -> Stages] /\ strict \in [Checks -> BOOLEAN]
  /\ began \in [Checks -> 0 .. MaxClock] /\ tick \in 0 .. MaxClock
  /\ sentence \in [Checks -> Causes] /\ evidence = [c \in Checks |-> evidence[c]]
  /\ deleted \subseteq Messages /\ muted \subseteq Checks
TrackerTypes ==
  /\ recent \in [Trackers -> SUBSET Entries] /\ flood \in [Trackers -> Seq(0 .. MaxClock)]
  /\ saidAt \in [Messages -> -1 .. MaxClock] /\ countedAt \in [Messages -> -1 .. MaxClock]

\* How far the check c can be with what it has found.
StageFits(c) ==
  /\ sentence[c] # "none" => stage[c] \in {"sentence", "over"}
  /\ stage[c] = "counting" => c[2] = "new"
  /\ sentence[c] \in {"spam", "flood"} => saidAt[c[1]] # -1
  /\ sentence[c] = "spam" => evidence[c] \subseteq Messages
  /\ began[c] <= tick

\* A message is counted once, by its first check, not before the check began to count.
ClockFits(m) ==
  /\ stage[<<m, "new">>] \in {"idle", "links", "behaviour", "counting"} => saidAt[m] = -1
  /\ saidAt[m] = -1 => countedAt[m] = -1
  /\ saidAt[m] <= countedAt[m] /\ countedAt[m] <= tick

\* A tracker holds messages counted for its server and author.
TrackerFits(k) ==
  /\ \A e \in recent[k] : TrackerOf(e.msg) = k /\ e.at = saidAt[e.msg]
  /\ Queued(flood[k], k, saidAt, countedAt)

\* A verdict is of a check that is over, and clear only if it found nothing.
VerdictFits(m) ==
  /\ results[m] # "none" => stage[<<m, "new">>] = "over"
  /\ results[m] = "clear" => sentence[<<m, "new">>] = "none"

\* So is the answer a listener had.
ListenerFits(w) ==
  wait[w] = "clear" =>
    stage[<<WaitsFor[w], "new">>] = "over" /\ sentence[<<WaitsFor[w], "new">>] = "none"

\* Content needs proof, and behaviour is counted, for one check.
ProofFor(c) ==
  sentence[c] \in {"links", "files", "content"} =>
    evidence[c] \cap Proofs # {} /\ evidence[c] \cap Suspicions = {}
CountedFor(c) ==
  /\ sentence[c] = "spam" =>
       Cardinality({x \in Said(c[1], saidAt, SpamWindow) : Body[x] = Body[c[1]]}) >= SpamLimit(c)
  /\ sentence[c] = "flood" => Cardinality(Said(c[1], countedAt, FloodSpan(c))) >= FloodLimit(c)
  /\ sentence[c] = "cross" => Cardinality(evidence[c]) >= CrossLimit(c)

\* The inductive invariant of the checks.
ModerationInv ==
  /\ GateTypeOK /\ CheckTypes /\ TrackerTypes
  /\ \A c \in Checks : StageFits(c) /\ ProofFor(c) /\ CountedFor(c)
  /\ \A m \in Messages : ClockFits(m) /\ VerdictFits(m)
  /\ \A k \in Trackers : TrackerFits(k)
  /\ \A w \in GateWaiters : ListenerFits(w)
  /\ StaffNeverRestricted

\* The first check of every message is a check; a check is of a message.
LEMMA ChecksAre ==
  /\ \A m \in Messages : <<m, "new">> \in Checks
  /\ \A m \in Edited : m \in Messages /\ <<m, "edit">> \in Checks
  /\ \A c \in Checks : /\ c[1] \in Messages /\ c = <<c[1], c[2]>>
                       /\ TrackerOf(c[1]) \in Trackers
  /\ \A m \in Messages : TrackerOf(m) \in Trackers
BY ModerationAssumption DEF Checks, Trackers, TrackerOf

\* The invariant holds at the start.
LEMMA ModerationInvInit == ModerationInit => ModerationInv
<1> SUFFICES ASSUME ModerationInit PROVE ModerationInv
  OBVIOUS
<1>1. GateTypeOK
  <2>1. Remembered(results) = {} /\ order = {} /\ aged = {} /\ open = {}
    BY DEF ModerationInit, GateInit, Remembered
  <2>2. Orders(order, Remembered(results))
    BY <2>1 DEF Orders
  <2> QED BY <2>1, <2>2, GateTypes DEF ModerationInit, GateInit, Answers
<1>2. 0 \in 0 .. MaxClock /\ -1 \in -1 .. MaxClock
  BY ModerationAssumption
<1>3. CheckTypes
  BY <1>2 DEF ModerationInit, CheckTypes, Stages, Causes
<1>4. TrackerTypes
  BY <1>2, EmptySeq DEF ModerationInit, TrackerTypes
<1>5. ASSUME NEW c \in Checks PROVE StageFits(c) /\ ProofFor(c) /\ CountedFor(c)
  BY <1>5, ChecksAre DEF ModerationInit, StageFits, ProofFor, CountedFor
<1>6. ASSUME NEW m \in Messages PROVE ClockFits(m) /\ VerdictFits(m)
  <2>1. <<m, "new">> \in Checks
    BY ChecksAre
  <2>2. stage[<<m, "new">>] = "idle" /\ saidAt[m] = -1 /\ countedAt[m] = -1 /\ tick = 0
    BY <2>1 DEF ModerationInit
  <2>3. results[m] = "none"
    BY DEF ModerationInit, GateInit, Messages
  <2> QED BY <2>2, <2>3 DEF ClockFits, VerdictFits
<1>7. ASSUME NEW k \in Trackers PROVE TrackerFits(k)
  <2>1. recent[k] = {} /\ flood[k] = <<>>
    BY <1>7 DEF ModerationInit
  <2>2. Queued(<<>>, k, saidAt, countedAt)
    <3>1. DOMAIN (<<>>) = {}
      OBVIOUS
    <3> DEFINE h == [i \in DOMAIN (<<>>) |-> 0]
    <3>2. h \in [DOMAIN (<<>>) -> Messages]
      BY <3>1
    <3> HIDE DEF h
    <3> QED BY <3>1, <3>2 DEF Queued
  <2> QED BY <2>1, <2>2 DEF TrackerFits
<1>8. ASSUME NEW w \in GateWaiters PROVE ListenerFits(w)
  BY <1>8 DEF ModerationInit, GateInit, ListenerFits
<1>9. StaffNeverRestricted
  BY DEF ModerationInit, StaffNeverRestricted
<1> QED BY <1>1, <1>3, <1>4, <1>5, <1>6, <1>7, <1>8, <1>9 DEF ModerationInv

\* What a step leaves alone that only looks.
Untouched ==
  UNCHANGED <<filters, nature, strict, recent, flood, orphan, deleted, muted, saidAt, countedAt,
              tick>>

\* A check that is not concerned by a step keeps what is said of it.
LEMMA OthersKept ==
  ASSUME ModerationInv, NEW c \in Checks, UNCHANGED <<saidAt, countedAt, tick>>,
         strict'[c] = strict[c], stage'[c] = stage[c], sentence'[c] = sentence[c], evidence'[c] = evidence[c],
         began'[c] = began[c]
  PROVE  StageFits(c)' /\ ProofFor(c)' /\ CountedFor(c)'
<1>1. StageFits(c) /\ ProofFor(c) /\ CountedFor(c)
  BY DEF ModerationInv
<1>2. StageFits(c)' /\ ProofFor(c)'
  BY <1>1 DEF StageFits, ProofFor
<1>3. CountedFor(c)'
  BY <1>1 DEF CountedFor, Said, SpamLimit, FloodLimit, FloodSpan, CrossLimit
<1> QED BY <1>2, <1>3

\* A message whose stage, cause and verdict a step leaves alone keeps what is said of it.
LEMMA MessageKept ==
  ASSUME ModerationInv, NEW m \in Messages, UNCHANGED <<saidAt, countedAt, tick>>,
         stage'[<<m, "new">>] = stage[<<m, "new">>], sentence'[<<m, "new">>] = sentence[<<m, "new">>],
         results'[m] \in {results[m], "none"}
  PROVE  ClockFits(m)' /\ VerdictFits(m)'
BY DEF ModerationInv, ClockFits, VerdictFits

\* A listener has had the answer of a check that is over, which is for good.
LEMMA ListenersKept ==
  ASSUME ModerationInv,
         \A w \in GateWaiters : wait'[w] = "clear" <=> wait[w] = "clear",
         \A c \in Checks : stage[c] = "over" => stage'[c] = "over" /\ sentence'[c] = sentence[c]
  PROVE  \A w \in GateWaiters : ListenerFits(w)'
<1> SUFFICES ASSUME NEW w \in GateWaiters, wait'[w] = "clear"
             PROVE  /\ stage'[<<WaitsFor[w], "new">>] = "over"
                    /\ sentence'[<<WaitsFor[w], "new">>] = "none"
  BY DEF ListenerFits
<1>1. ListenerFits(w) /\ wait[w] = "clear"
  BY DEF ModerationInv
<1>2. <<WaitsFor[w], "new">> \in Checks
  BY ChecksAre, GateAssumption DEF Messages
<1> QED BY <1>1, <1>2 DEF ListenerFits

\* The trackers are kept by what does not touch them.
LEMMA TrackersKept ==
  ASSUME ModerationInv, UNCHANGED <<recent, flood, saidAt, countedAt>>
  PROVE  TrackerTypes' /\ \A k \in Trackers : TrackerFits(k)'
<1>1. TrackerTypes'
  BY DEF ModerationInv, TrackerTypes
<1>2. ASSUME NEW k \in Trackers PROVE TrackerFits(k)'
  <2>1. TrackerFits(k)
    BY DEF ModerationInv
  <2> QED BY <2>1 DEF TrackerFits, Queued
<1> QED BY <1>1, <1>2

\* A check moves on to another stage.
LEMMA GoesOn ==
  ASSUME ModerationInv, Untouched, UNCHANGED <<gateVars, sentence, evidence>>,
         NEW c \in Checks, stage[c] \in {"links", "behaviour"},
         NEW s \in {"files", "behaviour", "counting", "content"}, Go(c, s),
         s = "counting" => c[2] = "new",
         \/ UNCHANGED began
         \/ began' = [began EXCEPT ![c] = tick]
  PROVE  ModerationInv'
<1>1. /\ CheckTypes /\ TrackerTypes /\ GateTypeOK
      /\ \A d \in Checks : StageFits(d) /\ ProofFor(d) /\ CountedFor(d)
      /\ \A m \in Messages : ClockFits(m) /\ VerdictFits(m)
  BY DEF ModerationInv
<1>2. UNCHANGED <<filters, nature, strict, recent, flood, orphan, deleted, muted, saidAt, countedAt, tick>>
  BY DEF Untouched
<1>3. UNCHANGED <<results, order, aged, open, wait>>
  BY DEF gateVars
<1>4. stage' = [stage EXCEPT ![c] = s] /\ s \in Stages
  BY DEF Go, Stages
<1>5. /\ stage'[c] = s /\ \A d \in Checks \ {c} : stage'[d] = stage[d]
      /\ stage' \in [Checks -> Stages]
  BY <1>1, <1>4 DEF CheckTypes
<1>6. /\ began' \in [Checks -> 0 .. MaxClock] /\ began'[c] <= tick
      /\ \A d \in Checks \ {c} : began'[d] = began[d]
  <2>1. began \in [Checks -> 0 .. MaxClock] /\ tick \in 0 .. MaxClock /\ began[c] <= tick
    BY <1>1 DEF CheckTypes, StageFits
  <2> QED BY <2>1
<1>7. CheckTypes' /\ GateTypeOK'
  <2>1. CheckTypes'
    BY <1>1, <1>2, <1>5, <1>6 DEF CheckTypes
  <2> QED BY <1>1, <1>3, <2>1, GateTypes, GateTypesNext
<1>8. ASSUME NEW d \in Checks PROVE StageFits(d)' /\ ProofFor(d)' /\ CountedFor(d)'
  <2>1. CASE d # c
    BY <1>2, <1>5, <1>6, <2>1, OthersKept
  <2>2. CASE d = c
    <3>1. sentence[c] = "none" /\ sentence'[c] = "none"
      BY <1>1 DEF StageFits
    <3>2. StageFits(c)'
      BY <1>2, <1>5, <1>6, <3>1 DEF StageFits
    <3> QED BY <2>2, <3>1, <3>2 DEF ProofFor, CountedFor
  <2> QED BY <2>1, <2>2
<1>9. ASSUME NEW m \in Messages PROVE ClockFits(m)' /\ VerdictFits(m)'
  <2>1. <<m, "new">> \in Checks
    BY ChecksAre
  <2>2. CASE c # <<m, "new">>
    BY <1>2, <1>3, <1>5, <2>1, <2>2, MessageKept
  <2>3. CASE c = <<m, "new">>
    <3>1. saidAt[m] = -1 /\ results[m] = "none"
      BY <1>1, <2>3 DEF ClockFits, VerdictFits
    <3> QED BY <1>1, <1>2, <1>3, <3>1 DEF ClockFits, VerdictFits
  <2> QED BY <2>2, <2>3
<1>10. \A w \in GateWaiters : ListenerFits(w)'
  BY <1>3, <1>5, ListenersKept
<1>11. StaffNeverRestricted'
  BY <1>2 DEF ModerationInv, StaffNeverRestricted
<1> QED BY <1>2, <1>7, <1>8, <1>9, <1>10, <1>11, TrackersKept DEF ModerationInv

\* A check finds a cause.
LEMMA Convicts ==
  ASSUME ModerationInv, Untouched, UNCHANGED <<gateVars, began>>,
         NEW c \in Checks, stage[c] \in {"links", "files", "behaviour", "content"},
         NEW cause \in {"links", "files", "content", "pings", "cross"}, NEW e, Convict(c, cause, e),
         cause \in {"links", "files", "content"} => e \cap Proofs # {} /\ e \cap Suspicions = {},
         cause = "cross" => Cardinality(e) >= CrossLimit(c)
  PROVE  ModerationInv'
<1>1. /\ CheckTypes /\ TrackerTypes /\ GateTypeOK
      /\ \A d \in Checks : StageFits(d) /\ ProofFor(d) /\ CountedFor(d)
      /\ \A m \in Messages : ClockFits(m) /\ VerdictFits(m)
  BY DEF ModerationInv
<1>2. UNCHANGED <<filters, nature, strict, recent, flood, orphan, deleted, muted, saidAt, countedAt, tick>>
  BY DEF Untouched
<1>3. UNCHANGED <<results, order, aged, open, wait>>
  BY DEF gateVars
<1>4. /\ stage' = [stage EXCEPT ![c] = "sentence"] /\ sentence' = [sentence EXCEPT ![c] = cause]
      /\ evidence' = [evidence EXCEPT ![c] = e]
  BY DEF Convict, Go
<1>5. /\ stage'[c] = "sentence" /\ sentence'[c] = cause /\ evidence'[c] = e
      /\ \A d \in Checks \ {c} : /\ stage'[d] = stage[d] /\ sentence'[d] = sentence[d]
                                 /\ evidence'[d] = evidence[d]
      /\ stage' \in [Checks -> Stages] /\ sentence' \in [Checks -> Causes]
      /\ evidence' = [d \in Checks |-> evidence'[d]]
  BY <1>1, <1>4 DEF CheckTypes, Stages, Causes
<1>6. CheckTypes' /\ GateTypeOK'
  <2>1. CheckTypes'
    BY <1>1, <1>2, <1>5 DEF CheckTypes
  <2> QED BY <1>1, <1>3, <2>1, GateTypes, GateTypesNext
<1>7. ASSUME NEW d \in Checks PROVE StageFits(d)' /\ ProofFor(d)' /\ CountedFor(d)'
  <2>1. CASE d # c
    BY <1>2, <1>5, <2>1, OthersKept
  <2>2. CASE d = c
    <3>1. StageFits(c)'
      BY <1>1, <1>2, <1>5 DEF StageFits
    <3>2. ProofFor(c)'
      BY <1>5 DEF ProofFor
    <3>3. CountedFor(c)'
      BY <1>2, <1>5 DEF CountedFor, CrossLimit
    <3> QED BY <2>2, <3>1, <3>2, <3>3
  <2> QED BY <2>1, <2>2
<1>8. ASSUME NEW m \in Messages PROVE ClockFits(m)' /\ VerdictFits(m)'
  <2>1. <<m, "new">> \in Checks
    BY ChecksAre
  <2>2. CASE c # <<m, "new">>
    BY <1>2, <1>3, <1>5, <2>1, <2>2, MessageKept
  <2>3. CASE c = <<m, "new">>
    <3>1. results[m] = "none"
      BY <1>1, <2>3 DEF VerdictFits
    <3> QED BY <1>1, <1>2, <1>3, <1>5, <2>3, <3>1 DEF ClockFits, VerdictFits
  <2> QED BY <2>2, <2>3
<1>9. \A w \in GateWaiters : ListenerFits(w)'
  BY <1>3, <1>5, ListenersKept
<1>10. StaffNeverRestricted'
  BY <1>2 DEF ModerationInv, StaffNeverRestricted
<1> QED BY <1>2, <1>6, <1>7, <1>8, <1>9, <1>10, TrackersKept DEF ModerationInv

\* A check ends with a verdict, clear only if it found nothing.
LEMMA Concludes ==
  ASSUME ModerationInv, UNCHANGED <<filters, nature, strict, began, sentence, evidence, saidAt,
                                    countedAt, tick>>,
         NEW c \in Checks, stage[c] \notin {"idle", "over"},
         NEW v \in Verdicts, Conclude(c, v), v = "clear" => sentence[c] = "none",
         deleted' \subseteq Messages, muted' \subseteq Checks, StaffNeverRestricted',
         TrackerTypes', \A k \in Trackers : TrackerFits(k)'
  PROVE  ModerationInv'
<1>1. /\ CheckTypes /\ TrackerTypes /\ GateTypeOK
      /\ \A d \in Checks : StageFits(d) /\ ProofFor(d) /\ CountedFor(d)
      /\ \A m \in Messages : ClockFits(m) /\ VerdictFits(m)
  BY DEF ModerationInv
<1>2. stage' = [stage EXCEPT ![c] = "over"]
  BY DEF Conclude, Go
<1>3. /\ stage'[c] = "over" /\ \A d \in Checks \ {c} : stage'[d] = stage[d]
      /\ stage' \in [Checks -> Stages]
  BY <1>1, <1>2 DEF CheckTypes, Stages
<1>4. /\ GateTypeOK'
      /\ \A w \in GateWaiters : wait'[w] = "clear" <=> wait[w] = "clear"
      /\ c[2] = "new" => results'[c[1]] \in {v, "none"}
      /\ \A x \in Messages : c # <<x, "new">> => results'[x] \in {results[x], "none"}
  <2>1. CASE c[2] = "new"
    <3>1. GateFinish(c[1], v) /\ c[1] \in GateKeys /\ c = <<c[1], "new">>
      BY <2>1, ChecksAre DEF Conclude, Messages
    <3> QED BY <1>1, <3>1, GateFinishFits DEF Messages
  <2>2. CASE c[2] # "new"
    <3>1. UNCHANGED <<results, order, aged, open, wait>>
      BY <2>2 DEF Conclude, gateVars
    <3> QED BY <1>1, <2>2, <3>1, GateTypes, GateTypesNext
  <2> QED BY <2>1, <2>2
<1>5. CheckTypes'
  BY <1>1, <1>3 DEF CheckTypes
<1>6. ASSUME NEW d \in Checks PROVE StageFits(d)' /\ ProofFor(d)' /\ CountedFor(d)'
  <2>1. CASE d # c
    BY <1>3, <2>1, OthersKept
  <2>2. CASE d = c
    <3>1. StageFits(c)'
      BY <1>1, <1>3 DEF StageFits
    <3>2. ProofFor(c)'
      BY <1>1 DEF ProofFor
    <3>3. CountedFor(c)'
      BY <1>1 DEF CountedFor, Said, SpamLimit, FloodLimit, FloodSpan, CrossLimit
    <3> QED BY <2>2, <3>1, <3>2, <3>3
  <2> QED BY <2>1, <2>2
<1>7. ASSUME NEW m \in Messages PROVE ClockFits(m)' /\ VerdictFits(m)'
  <2>1. <<m, "new">> \in Checks
    BY ChecksAre
  <2>2. CASE c # <<m, "new">>
    BY <1>3, <1>4, <2>1, <2>2, MessageKept
  <2>3. CASE c = <<m, "new">>
    <3>1. c[1] = m /\ c[2] = "new"
      BY <2>3
    <3>2. results'[m] \in {v, "none"} /\ stage'[<<m, "new">>] = "over" /\ sentence'[<<m, "new">>] = sentence[c]
      BY <1>3, <1>4, <2>3, <3>1
    <3>3. VerdictFits(m)'
      BY <3>2 DEF VerdictFits
    <3>4. ClockFits(m)'
      BY <1>1, <3>2 DEF ClockFits
    <3> QED BY <3>3, <3>4
  <2> QED BY <2>2, <2>3
<1>8. \A w \in GateWaiters : ListenerFits(w)'
  <2>1. \A d \in Checks : stage[d] = "over" => stage'[d] = "over" /\ sentence'[d] = sentence[d]
    BY <1>3
  <2> QED BY <1>4, <2>1, ListenersKept
<1> QED BY <1>4, <1>5, <1>6, <1>7, <1>8 DEF ModerationInv

\* A check begins, of a new message or of an edited one.
LEMMA Begins ==
  ASSUME ModerationInv,
         UNCHANGED <<filters, began, recent, flood, sentence, evidence, deleted, muted,
                     saidAt, countedAt, tick>>,
         NEW c \in Checks, stage[c] = "idle", Go(c, "links"),
         NEW raid \in BOOLEAN, strict' = [strict EXCEPT ![c] = raid],
         nature' \in [Messages -> UNION {Natures[m] : m \in Messages}],
         GateTypeOK', UNCHANGED <<results, wait>>
  PROVE  ModerationInv'
<1>1. /\ CheckTypes /\ TrackerTypes
      /\ \A d \in Checks : StageFits(d) /\ ProofFor(d) /\ CountedFor(d)
      /\ \A m \in Messages : ClockFits(m) /\ VerdictFits(m)
  BY DEF ModerationInv
<1>2. stage' = [stage EXCEPT ![c] = "links"]
  BY DEF Go
<1>3. /\ stage'[c] = "links" /\ \A d \in Checks \ {c} : stage'[d] = stage[d] /\ strict'[d] = strict[d]
      /\ stage' \in [Checks -> Stages] /\ strict' \in [Checks -> BOOLEAN]
  BY <1>1, <1>2 DEF CheckTypes, Stages
<1>4. CheckTypes'
  BY <1>1, <1>3 DEF CheckTypes
<1>5. ASSUME NEW d \in Checks PROVE StageFits(d)' /\ ProofFor(d)' /\ CountedFor(d)'
  <2>1. CASE d # c
    BY <1>3, <2>1, OthersKept
  <2>2. CASE d = c
    <3>1. sentence[c] = "none" /\ sentence'[c] = "none"
      BY <1>1 DEF StageFits
    <3>2. StageFits(c)'
      BY <1>1, <1>3, <3>1 DEF StageFits
    <3> QED BY <2>2, <3>1, <3>2 DEF ProofFor, CountedFor
  <2> QED BY <2>1, <2>2
<1>6. ASSUME NEW m \in Messages PROVE ClockFits(m)' /\ VerdictFits(m)'
  <2>1. <<m, "new">> \in Checks
    BY ChecksAre
  <2>2. CASE c # <<m, "new">>
    BY <1>3, <2>1, <2>2, MessageKept
  <2>3. CASE c = <<m, "new">>
    <3>1. saidAt[m] = -1 /\ results[m] = "none"
      BY <1>1, <2>3 DEF ClockFits, VerdictFits
    <3> QED BY <1>1, <3>1 DEF ClockFits, VerdictFits
  <2> QED BY <2>2, <2>3
<1>7. \A w \in GateWaiters : ListenerFits(w)'
  BY <1>3, ListenersKept
<1>8. StaffNeverRestricted'
  BY DEF ModerationInv, StaffNeverRestricted
<1> QED BY <1>4, <1>5, <1>6, <1>7, <1>8, TrackersKept DEF ModerationInv

\* A message arrives, or is edited.
LEMMA ArrivesAndEdits ==
  ASSUME ModerationInv, NEW m \in Messages, Arrive(m) \/ (m \in Edited /\ Edit(m))
  PROVE  ModerationInv'
<1>1. GateTypeOK /\ CheckTypes
  BY DEF ModerationInv
<1>2. Raids[m] \subseteq BOOLEAN
  BY ModerationAssumption
<1>3. CASE Arrive(m)
  <2>1. PICK raid \in Raids[m] : strict' = [strict EXCEPT ![<<m, "new">>] = raid]
    BY <1>3 DEF Arrive
  <2>2. raid \in BOOLEAN /\ <<m, "new">> \in Checks
    BY <1>2, ChecksAre
  <2>3. GateTypeOK' /\ UNCHANGED <<results, wait>>
    BY <1>1, <1>3, GateBeginFits DEF Arrive, Messages
  <2>4. nature' \in [Messages -> UNION {Natures[x] : x \in Messages}]
    BY <1>1, <1>3 DEF Arrive, CheckTypes
  <2>5. /\ stage[<<m, "new">>] = "idle" /\ Go(<<m, "new">>, "links")
        /\ UNCHANGED <<filters, began, recent, flood, sentence, evidence, deleted, muted,
                       saidAt, countedAt, tick>>
    BY <1>3 DEF Arrive
  <2> QED BY <2>1, <2>2, <2>3, <2>4, <2>5, Begins
<1>4. CASE m \in Edited /\ Edit(m)
  <2>1. PICK raid \in Raids[m] : strict' = [strict EXCEPT ![<<m, "edit">>] = raid]
    BY <1>4 DEF Edit
  <2>2. raid \in BOOLEAN /\ <<m, "edit">> \in Checks
    BY <1>2, <1>4, ChecksAre
  <2>3. /\ stage[<<m, "edit">>] = "idle" /\ Go(<<m, "edit">>, "links")
        /\ UNCHANGED <<gateVars, filters, began, recent, flood, sentence, evidence, deleted,
                       muted, saidAt, countedAt, tick>>
    BY <1>4 DEF Edit
  <2>4. UNCHANGED <<results, order, aged, open, wait>>
    BY <2>3 DEF gateVars
  <2>5. GateTypeOK'
    BY <1>1, <2>4, GateTypes, GateTypesNext
  <2>6. nature' \in [Messages -> UNION {Natures[x] : x \in Messages}]
    <3>1. PICK n \in Natures[m] \ {nature[m]} : nature' = [nature EXCEPT ![m] = n]
      BY <1>4 DEF Edit
    <3>2. n \in UNION {Natures[x] : x \in Messages}
      OBVIOUS
    <3> QED BY <1>1, <3>1, <3>2 DEF CheckTypes
  <2> QED BY <2>1, <2>2, <2>3, <2>4, <2>5, <2>6, Begins
<1> QED BY <1>3, <1>4

\* The checks that end at once.
LEMMA ExemptAndCrash ==
  ASSUME ModerationInv, NEW c \in Checks, Exempt(c) \/ Crash(c)
  PROVE  ModerationInv'
<1>1. /\ UNCHANGED <<filters, nature, strict, began, recent, flood, sentence, evidence, deleted, muted,
                     saidAt, countedAt, tick>>
      /\ stage[c] = "links" /\ \E v \in Verdicts : Conclude(c, v)
  BY DEF Exempt, Crash, Verdicts
<1>2. CheckTypes /\ StageFits(c) /\ StaffNeverRestricted
  BY DEF ModerationInv
<1>3. sentence[c] = "none" /\ deleted' \subseteq Messages /\ muted' \subseteq Checks
  BY <1>1, <1>2 DEF StageFits, CheckTypes
<1>4. StaffNeverRestricted'
  BY <1>1, <1>2 DEF StaffNeverRestricted
<1>5. TrackerTypes' /\ \A k \in Trackers : TrackerFits(k)'
  BY <1>1, TrackersKept
<1>6. PICK v \in Verdicts : Conclude(c, v)
  BY <1>1
<1> QED BY <1>1, <1>3, <1>4, <1>5, <1>6, Concludes

\* Links.
LEMMA LinksFit ==
  ASSUME ModerationInv, NEW c \in Checks, CheckLinks(c)
  PROVE  ModerationInv'
<1> DEFINE sure == LocalLinks(nature[c[1]])
<1>1. PICK e \in IF sure # {} THEN {sure} ELSE SUBSET KnownLinks(nature[c[1]]) :
        IF e # {} THEN Convict(c, "links", e) ELSE AfterLinks(c) /\ UNCHANGED <<sentence, evidence>>
  BY DEF CheckLinks
<1>2. /\ stage[c] = "links" /\ UNCHANGED gateVars /\ UNCHANGED began
      /\ Untouched
  BY DEF CheckLinks, Untouched
<1>3. e \subseteq {"badUrl", "adUrl", "repUrl"}
  <2>1. sure \subseteq {"badUrl", "adUrl"} /\ KnownLinks(nature[c[1]]) \subseteq {"repUrl"}
    BY DEF LocalLinks, KnownLinks, IfOn
  <2> QED BY <1>1, <2>1
<1>4. CASE e # {}
  <2>1. e \cap Proofs # {} /\ e \cap Suspicions = {}
    BY <1>3, <1>4 DEF Proofs, Suspicions
  <2>2. UNCHANGED <<gateVars, began>> /\ Convict(c, "links", e)
    BY <1>1, <1>2, <1>4
  <2>3. stage[c] \in {"links", "files", "behaviour", "content"}
    BY <1>2
  <2>4. "links" \in {"links", "files", "content", "pings", "cross"}
    OBVIOUS
  <2> QED BY <1>2, <2>1, <2>2, <2>3, <2>4, Convicts
<1>5. CASE e = {}
  <2>1. UNCHANGED <<gateVars, sentence, evidence>> /\ (Go(c, "files") \/ Go(c, "behaviour"))
    BY <1>1, <1>2, <1>5 DEF AfterLinks
  <2> QED BY <1>2, <2>1, GoesOn
<1> QED BY <1>4, <1>5

\* Attachments alone, and text with attachments.
LEMMA FilesFit ==
  ASSUME ModerationInv, NEW c \in Checks, CheckFiles(c) \/ CheckContent(c)
  PROVE  ModerationInv'
<1>1. FileProof(nature[c[1]]) \subseteq {"badFile", "seenMedia"}
  BY DEF FileProof, IfOn
<1>2. IfOn({"ads"}, nature[c[1]] \cap {"adText"}) \subseteq {"adText"}
  BY DEF IfOn
<1>3. \E e \in SUBSET {"badFile", "seenMedia", "adText"}, cause \in {"files", "content"} :
        IF e # {} THEN Convict(c, cause, e) /\ UNCHANGED gateVars
        ELSE Conclude(c, "clear") /\ UNCHANGED <<sentence, evidence>>
  <2>1. CASE CheckFiles(c)
    BY <1>1, <2>1 DEF CheckFiles
  <2>2. CASE CheckContent(c)
    <3>1. PICK e \in {{}} \cup {IfOn({"ads"}, nature[c[1]] \cap {"adText"}) \cup f :
                                 f \in SUBSET FileProof(nature[c[1]])} :
            IF e # {} THEN Convict(c, "content", e) /\ UNCHANGED gateVars
            ELSE Conclude(c, "clear") /\ UNCHANGED <<sentence, evidence>>
      BY <2>2 DEF CheckContent
    <3>2. e \in SUBSET {"badFile", "seenMedia", "adText"}
      BY <1>1, <1>2
    <3> QED BY <3>1, <3>2
  <2> QED BY <2>1, <2>2
<1>4. PICK e \in SUBSET {"badFile", "seenMedia", "adText"} :
        \E cause \in {"files", "content"} :
          IF e # {} THEN Convict(c, cause, e) /\ UNCHANGED gateVars
          ELSE Conclude(c, "clear") /\ UNCHANGED <<sentence, evidence>>
  BY <1>3
<1>5. PICK cause \in {"files", "content"} :
        IF e # {} THEN Convict(c, cause, e) /\ UNCHANGED gateVars
        ELSE Conclude(c, "clear") /\ UNCHANGED <<sentence, evidence>>
  BY <1>4
<1>6. /\ stage[c] \in {"files", "content"} /\ UNCHANGED began /\ Untouched
  BY DEF CheckFiles, CheckContent, Untouched
<1>7. CASE e # {}
  <2>1. e \cap Proofs # {} /\ e \cap Suspicions = {}
    BY <1>7 DEF Proofs, Suspicions
  <2>2. UNCHANGED <<gateVars, began>> /\ Convict(c, cause, e)
    BY <1>5, <1>6, <1>7
  <2>3. stage[c] \in {"links", "files", "behaviour", "content"}
    BY <1>6
  <2>4. cause \in {"links", "files", "content", "pings", "cross"} /\ cause # "cross"
    OBVIOUS
  <2> QED BY <1>6, <2>1, <2>2, <2>3, <2>4, Convicts
<1>8. CASE e = {}
  <2>1. Conclude(c, "clear") /\ UNCHANGED <<sentence, evidence>> /\ "clear" \in Verdicts
    BY <1>5, <1>8 DEF Verdicts
  <2>2. UNCHANGED <<filters, nature, strict, began, recent, flood, deleted, muted, saidAt, countedAt, tick>>
    BY <1>6 DEF Untouched
  <2>3. CheckTypes /\ StageFits(c) /\ StaffNeverRestricted
    BY DEF ModerationInv
  <2>4. sentence[c] = "none" /\ deleted' \subseteq Messages /\ muted' \subseteq Checks
    BY <1>6, <2>2, <2>3 DEF StageFits, CheckTypes
  <2>5. StaffNeverRestricted'
    BY <2>2, <2>3 DEF StaffNeverRestricted
  <2>6. TrackerTypes' /\ \A k \in Trackers : TrackerFits(k)'
    BY <2>2, TrackersKept
  <2>7. UNCHANGED <<filters, nature, strict, began, sentence, evidence, saidAt, countedAt, tick>>
    BY <2>1, <2>2
  <2>8. stage[c] \notin {"idle", "over"}
    BY <1>6
  <2> QED BY <2>1, <2>4, <2>5, <2>6, <2>7, <2>8, Concludes
<1> QED BY <1>7, <1>8

\* Mentions and the same text in several channels.
LEMMA BehaviourFits ==
  ASSUME ModerationInv, NEW c \in Checks, CheckBehaviour(c)
  PROVE  ModerationInv'
<1> DEFINE cross == c[2] = "new" /\ "cross" \in filters /\ Cardinality(CrossRooms(c)) >= CrossLimit(c)
<1>1. /\ stage[c] = "behaviour" /\ UNCHANGED gateVars /\ Untouched
  BY DEF CheckBehaviour, Untouched
<1>2. \/ Pings(c) # {} /\ Convict(c, "pings", Pings(c)) /\ UNCHANGED began
      \/ cross /\ Convict(c, "cross", CrossRooms(c)) /\ UNCHANGED began
      \/ /\ Go(c, IF c[2] = "new" THEN "counting" ELSE "content")
         /\ began' = [began EXCEPT ![c] = tick]
         /\ UNCHANGED <<sentence, evidence>>
  BY DEF CheckBehaviour
<1>3. CASE Pings(c) # {} /\ Convict(c, "pings", Pings(c)) /\ UNCHANGED began
  <2>1. UNCHANGED <<gateVars, began>> /\ Convict(c, "pings", Pings(c))
    BY <1>1, <1>3
  <2>2. "pings" \in {"links", "files", "content", "pings", "cross"}
        /\ stage[c] \in {"links", "files", "behaviour", "content"}
    BY <1>1
  <2> HIDE DEF cross
  <2> QED BY <1>1, <2>1, <2>2, Convicts
<1>4. CASE cross /\ Convict(c, "cross", CrossRooms(c)) /\ UNCHANGED began
  <2>1. UNCHANGED <<gateVars, began>> /\ Convict(c, "cross", CrossRooms(c))
          /\ Cardinality(CrossRooms(c)) >= CrossLimit(c)
    BY <1>1, <1>4
  <2>2. "cross" \in {"links", "files", "content", "pings", "cross"}
        /\ stage[c] \in {"links", "files", "behaviour", "content"}
    BY <1>1
  <2> QED BY <1>1, <2>1, <2>2, Convicts
<1>5. CASE /\ Go(c, IF c[2] = "new" THEN "counting" ELSE "content")
           /\ began' = [began EXCEPT ![c] = tick]
           /\ UNCHANGED <<sentence, evidence>>
  <2>1. UNCHANGED <<gateVars, sentence, evidence>> /\ began' = [began EXCEPT ![c] = tick]
    BY <1>1, <1>5
  <2>2. \E s \in {"files", "behaviour", "counting", "content"} :
          Go(c, s) /\ (s = "counting" => c[2] = "new")
    BY <1>5
  <2> QED BY <1>1, <2>1, <2>2, GoesOn
<1> QED BY <1>2, <1>3, <1>4, <1>5

\* The larger of two numbers is a number.
LEMMA MaxOfTwo ==
  ASSUME NEW a \in Nat, NEW b \in Nat
  PROVE  Max({a, b}) \in {a, b}
<1>1. \E x \in {a, b} : \A y \in {a, b} : y <= x
  <2>1. CASE a <= b
    BY <2>1
  <2>2. CASE ~ (a <= b)
    BY <2>2
  <2> QED BY <2>1, <2>2
<1> QED BY <1>1 DEF Max

\* The limits of a check are numbers.
LEMMA LimitsAre ==
  ASSUME NEW c
  PROVE  SpamLimit(c) \in Nat /\ FloodLimit(c) \in Nat /\ FloodSpan(c) \in Nat
<1>1. SpamCount \in Nat /\ FloodCount \in Nat /\ FloodWindow \in Nat
  BY ModerationAssumption
<1>2. Min({SpamCount, 2}) \in Nat
  <2>1. {SpamCount, 2} \in SUBSET Nat /\ {SpamCount, 2} # {}
    BY <1>1
  <2>2. Min({SpamCount, 2}) \in {SpamCount, 2}
    BY <2>1, MinIs
  <2> QED BY <1>1, <2>2
<1>3. Min({FloodCount, 4}) \in Nat
  <2>1. {FloodCount, 4} \in SUBSET Nat /\ {FloodCount, 4} # {}
    BY <1>1
  <2>2. Min({FloodCount, 4}) \in {FloodCount, 4}
    BY <2>1, MinIs
  <2> QED BY <1>1, <2>2
<1>4. Max({FloodWindow, 8}) \in Nat
  BY <1>1, MaxOfTwo
<1> QED BY <1>1, <1>2, <1>3, <1>4 DEF SpamLimit, FloodLimit, FloodSpan

\* Counting: what is said of the pace.
LEMMA PacedFits ==
  ASSUME ModerationInv, NEW c \in Checks, stage[c] = "counting",
         saidAt' = [saidAt EXCEPT ![c[1]] = began[c]], countedAt' = [countedAt EXCEPT ![c[1]] = tick]
  PROVE  /\ Paced(c) \in Seq(0 .. MaxClock)
         /\ Queued(Paced(c), TrackerOf(c[1]), saidAt', countedAt')
         /\ Len(Paced(c)) <= Cardinality({x \in Messages :
              TrackerOf(x) = TrackerOf(c[1]) /\ countedAt'[x] >= 0
              /\ began[c] - countedAt'[x] <= FloodSpan(c)})
<1> DEFINE m == c[1]
           k == TrackerOf(m)
           b == began[c]
           q == Append(flood[k], b)
           fresh == {i \in DOMAIN q : b - q[i] <= FloodSpan(c)}
           a == Min(fresh)
           p == SubSeq(q, a, Len(q))
<1>1. /\ m \in Messages /\ k \in Trackers /\ c = <<m, "new">> /\ saidAt[m] = -1
      /\ flood[k] \in Seq(0 .. MaxClock) /\ b \in 0 .. MaxClock /\ tick \in 0 .. MaxClock
      /\ Queued(flood[k], k, saidAt, countedAt)
      /\ b <= tick
      /\ saidAt \in [Messages -> -1 .. MaxClock] /\ countedAt \in [Messages -> -1 .. MaxClock]
      /\ \A x \in Messages : saidAt[x] <= countedAt[x] /\ countedAt[x] <= tick
  <2>1. CheckTypes /\ TrackerTypes /\ StageFits(c)
    BY DEF ModerationInv
  <2>2. m \in Messages /\ k \in Trackers /\ c = <<m, "new">>
    BY <2>1, ChecksAre DEF StageFits
  <2>3. ClockFits(m) /\ TrackerFits(k) /\ \A x \in Messages : ClockFits(x)
    BY <2>2 DEF ModerationInv
  <2>4. saidAt[m] = -1
    BY <2>2, <2>3 DEF ClockFits
  <2> HIDE DEF m, k
  <2> QED BY <2>1, <2>2, <2>3, <2>4
          DEF CheckTypes, TrackerTypes, StageFits, ClockFits, TrackerFits
<1> HIDE DEF m, k, b
<1>2. /\ saidAt' = [saidAt EXCEPT ![m] = b] /\ countedAt' = [countedAt EXCEPT ![m] = tick]
      /\ Paced(c) = p
  BY DEF Paced, m, k, b
<1>3. Queued(q, k, saidAt', countedAt')
  <2>1. Queued(flood[k], TrackerOf(m), saidAt, countedAt) /\ \A x \in Messages : countedAt[x] <= tick
    BY <1>1 DEF k
  <2>2. Queued(Append(flood[k], b), TrackerOf(m), [saidAt EXCEPT ![m] = b], [countedAt EXCEPT ![m] = tick])
    BY <1>1, <2>1, QueuedMore
  <2> QED BY <1>2, <2>2 DEF k
<1>4. /\ q \in Seq(0 .. MaxClock) /\ Len(q) = Len(flood[k]) + 1 /\ q[Len(q)] = b /\ Len(flood[k]) \in Nat
  BY <1>1, AppendProperties, LenProperties
<1> HIDE DEF q
<1>5. DOMAIN q = 1 .. Len(q) /\ Len(q) \in Nat /\ Len(q) >= 1 /\ Len(q) \in DOMAIN q
      /\ \A i \in 1 .. Len(q) : q[i] \in 0 .. MaxClock
  BY <1>4, QueueOfTimes
<1>6. a \in fresh /\ a \in 1 .. Len(q) /\ b - q[a] <= FloodSpan(c)
  <2>1. FloodSpan(c) \in Nat
    BY LimitsAre
  <2>2. Len(q) \in fresh
    BY <1>1, <1>4, <1>5, <2>1
  <2>3. fresh \in SUBSET Nat /\ fresh # {}
    BY <1>5, <2>2
  <2>4. a \in fresh
    BY <2>3, MinIs
  <2> QED BY <1>5, <2>4
<1> HIDE DEF a, fresh
<1>7. p \in Seq(0 .. MaxClock) /\ Len(p) = Len(q) - a + 1 /\ p[1] = q[a] /\ Len(p) > 0
  <2>1. \A i \in a .. Len(q) : q[i] \in 0 .. MaxClock
    BY <1>5, <1>6
  <2>2. a \in Int /\ Len(q) \in Int /\ a <= Len(q)
    BY <1>5, <1>6
  <2>3. /\ p \in Seq(0 .. MaxClock) /\ Len(p) = Len(q) - a + 1
        /\ \A i \in 1 .. Len(q) - a + 1 : p[i] = q[a + i - 1]
    BY <2>1, <2>2, SubSeqProperties
  <2>4. 1 \in 1 .. Len(q) - a + 1 /\ a + 1 - 1 = a
    BY <2>2
  <2> QED BY <2>2, <2>3, <2>4
<1>8. Queued(p, k, saidAt', countedAt')
  BY <1>3, <1>4, <1>6, QueuedRest
<1> HIDE DEF p
<1>9. /\ saidAt' \in [Messages -> -1 .. MaxClock] /\ countedAt' \in [Messages -> -1 .. MaxClock]
      /\ \A x \in Messages : saidAt'[x] <= countedAt'[x]
  <2>1. b \in -1 .. MaxClock /\ tick \in -1 .. MaxClock
    BY <1>1
  <2>2. saidAt'[m] = b /\ countedAt'[m] = tick
        /\ \A x \in Messages \ {m} : saidAt'[x] = saidAt[x] /\ countedAt'[x] = countedAt[x]
    BY <1>1, <1>2
  <2>3. \A x \in Messages : saidAt'[x] <= countedAt'[x]
    BY <1>1, <2>2
  <2>4. saidAt' \in [Messages -> -1 .. MaxClock] /\ countedAt' \in [Messages -> -1 .. MaxClock]
    BY <1>1, <1>2, <2>1
  <2> QED BY <2>3, <2>4
<1> DEFINE T == {x \in Messages : TrackerOf(x) = k /\ countedAt'[x] >= 0
                                   /\ b - countedAt'[x] <= FloodSpan(c)}
<1>10. Len(p) <= Cardinality(T)
  <2>1. FloodSpan(c) \in Nat /\ b - p[1] <= FloodSpan(c)
    BY <1>6, <1>7, LimitsAre
  <2>2. p \in Seq(0 .. MaxClock) /\ Len(p) > 0 /\ b \in 0 .. MaxClock
    BY <1>1, <1>7
  <2>3. /\ saidAt' \in [Messages -> -1 .. MaxClock] /\ countedAt' \in [Messages -> -1 .. MaxClock]
        /\ \A x \in Messages : saidAt'[x] <= countedAt'[x]
    BY <1>9
  <2>4. /\ T \in SUBSET Messages
        /\ \A x \in Messages :
             TrackerOf(x) = k /\ countedAt'[x] >= 0 /\ b - countedAt'[x] <= FloodSpan(c) => x \in T
    OBVIOUS
  <2> HIDE DEF T
  <2> QED BY <1>8, <2>1, <2>2, <2>3, <2>4, QueuedAreCounted
<1> QED BY <1>2, <1>7, <1>8, <1>10 DEF m, k, b

\* Counting: what is said of repeated text.
LEMMA CountedTextFits ==
  ASSUME ModerationInv, NEW c \in Checks, stage[c] = "counting",
         saidAt' = [saidAt EXCEPT ![c[1]] = began[c]],
         NEW kept, kept \subseteq recent[TrackerOf(c[1])] \cup {[msg |-> c[1], at |-> began[c]]}
  PROVE  /\ kept \subseteq Entries
         /\ \A e \in kept : e.msg \in Messages /\ TrackerOf(e.msg) = TrackerOf(c[1])
                            /\ e.at = saidAt'[e.msg] /\ e.at \in 0 .. MaxClock
<1> DEFINE m == c[1]
           k == TrackerOf(m)
<1>1. /\ m \in Messages /\ saidAt[m] = -1 /\ began[c] \in 0 .. MaxClock
      /\ saidAt \in [Messages -> -1 .. MaxClock] /\ recent[k] \subseteq Entries
      /\ \A e \in recent[k] : TrackerOf(e.msg) = k /\ e.at = saidAt[e.msg]
  <2>1. CheckTypes /\ TrackerTypes /\ StageFits(c)
    BY DEF ModerationInv
  <2>2. m \in Messages /\ k \in Trackers /\ c = <<m, "new">>
    BY <2>1, ChecksAre DEF StageFits
  <2>3. ClockFits(m) /\ TrackerFits(k)
    BY <2>2 DEF ModerationInv
  <2> HIDE DEF m, k
  <2> QED BY <2>1, <2>2, <2>3 DEF CheckTypes, TrackerTypes, ClockFits, TrackerFits
<1> HIDE DEF m, k
<1>2. saidAt'[m] = began[c] /\ \A x \in Messages \ {m} : saidAt'[x] = saidAt[x]
  BY <1>1 DEF m
<1>3. ASSUME NEW e \in recent[k]
      PROVE  e \in Entries /\ e.msg \in Messages /\ TrackerOf(e.msg) = k
             /\ e.at = saidAt'[e.msg] /\ e.at \in 0 .. MaxClock
  <2>1. e \in Entries /\ e.at = saidAt[e.msg] /\ TrackerOf(e.msg) = k
    BY <1>1
  <2>2. e.msg \in Messages /\ e.at \in 0 .. MaxClock
    BY <2>1 DEF Entries
  <2>3. e.msg # m
    BY <1>1, <2>1, <2>2
  <2> QED BY <1>2, <2>1, <2>2, <2>3
<1>4. ASSUME NEW e, e = [msg |-> m, at |-> began[c]]
      PROVE  e \in Entries /\ e.msg \in Messages /\ TrackerOf(e.msg) = k
             /\ e.at = saidAt'[e.msg] /\ e.at \in 0 .. MaxClock
  BY <1>1, <1>2, <1>4 DEF Entries, k
<1>5. \A e \in kept : e \in recent[k] \/ e = [msg |-> m, at |-> began[c]]
  BY DEF k, m
<1>6. \A e \in kept : e \in Entries /\ e.msg \in Messages /\ TrackerOf(e.msg) = k
                      /\ e.at = saidAt'[e.msg] /\ e.at \in 0 .. MaxClock
  BY <1>3, <1>4, <1>5
<1> QED BY <1>6 DEF k, m

\* A message is counted, and its author perhaps convicted.
LEMMA CountFits ==
  ASSUME ModerationInv, NEW c \in Checks, Count(c)
  PROVE  ModerationInv'
<1> DEFINE m == c[1]
           k == TrackerOf(m)
           kept == {e \in recent[k] \cup {[msg |-> m, at |-> began[c]]} : began[c] - e.at <= Horizon(c)}
           same == {e.msg : e \in {x \in kept : Body[x.msg] = Body[m] /\ began[c] - x.at <= SpamWindow}}
           spam == "spam" \in filters /\ Cardinality(same) >= SpamLimit(c)
           pace == ~spam /\ "flood" \in filters
<1>1. /\ stage[c] = "counting"
      /\ recent' = [recent EXCEPT ![k] = kept]
      /\ saidAt' = [saidAt EXCEPT ![m] = began[c]] /\ countedAt' = [countedAt EXCEPT ![m] = tick]
      /\ flood' = IF pace THEN [flood EXCEPT ![k] = Paced(c)] ELSE flood
      /\ \/ Convict(c, "spam", same) /\ Cardinality(same) >= SpamLimit(c)
         \/ Convict(c, "flood", {}) /\ Len(Paced(c)) >= FloodLimit(c)
         \/ Go(c, "content") /\ UNCHANGED <<sentence, evidence>>
      /\ UNCHANGED <<gateVars, filters, nature, strict, began, deleted, muted, tick>>
  BY DEF Count
<1>2. /\ GateTypeOK /\ CheckTypes /\ TrackerTypes
      /\ \A d \in Checks : StageFits(d) /\ ProofFor(d) /\ CountedFor(d)
      /\ \A x \in Messages : ClockFits(x) /\ VerdictFits(x)
      /\ \A j \in Trackers : TrackerFits(j)
  BY DEF ModerationInv
<1>3. /\ m \in Messages /\ k \in Trackers /\ c = <<m, "new">> /\ saidAt[m] = -1 /\ countedAt[m] = -1
      /\ began[c] \in 0 .. MaxClock /\ tick \in 0 .. MaxClock /\ began[c] <= tick
  <2>1. m \in Messages /\ k \in Trackers /\ c = <<m, "new">>
    BY <1>1, <1>2, ChecksAre DEF StageFits
  <2>2. saidAt[m] = -1 /\ countedAt[m] = -1
    BY <1>1, <1>2, <2>1 DEF ClockFits
  <2> HIDE DEF m, k
  <2> QED BY <1>2, <2>1, <2>2 DEF StageFits, CheckTypes
<1>4. /\ kept \subseteq Entries
      /\ \A e \in kept : e.msg \in Messages /\ TrackerOf(e.msg) = k
                         /\ e.at = saidAt'[e.msg] /\ e.at \in 0 .. MaxClock
  <2>1. kept \subseteq recent[TrackerOf(c[1])] \cup {[msg |-> c[1], at |-> began[c]]}
    OBVIOUS
  <2> HIDE DEF kept
  <2> QED BY <1>1, <2>1, CountedTextFits
<1>5. same \subseteq {x \in {y \in Messages : TrackerOf(y) = TrackerOf(m) /\ saidAt'[y] >= 0
                                              /\ saidAt'[m] - saidAt'[y] <= SpamWindow} :
                      Body[x] = Body[m]}
  <2>1. saidAt'[m] = began[c]
    BY <1>1, <1>2, <1>3 DEF TrackerTypes
  <2>2. \A x \in same : \E e \in kept : x = e.msg /\ Body[e.msg] = Body[m] /\ began[c] - e.at <= SpamWindow
    OBVIOUS
  <2> HIDE DEF kept, same
  <2>3. ASSUME NEW x \in same
        PROVE  /\ x \in Messages /\ TrackerOf(x) = TrackerOf(m) /\ saidAt'[x] >= 0
               /\ saidAt'[m] - saidAt'[x] <= SpamWindow /\ Body[x] = Body[m]
    <3>1. PICK e \in kept : x = e.msg /\ Body[e.msg] = Body[m] /\ began[c] - e.at <= SpamWindow
      BY <2>2
    <3> QED BY <1>4, <2>1, <3>1
  <2> QED BY <2>3
<1>6. /\ Paced(c) \in Seq(0 .. MaxClock)
      /\ Queued(Paced(c), TrackerOf(c[1]), saidAt', countedAt')
      /\ Len(Paced(c)) <= Cardinality({x \in Messages :
           TrackerOf(x) = TrackerOf(c[1]) /\ countedAt'[x] >= 0
           /\ began[c] - countedAt'[x] <= FloodSpan(c)})
  BY <1>1, PacedFits
<1> HIDE DEF same, spam, kept, k, m
<1>7. flood' = flood \/ flood' = [flood EXCEPT ![k] = Paced(c)]
  BY <1>1
<1> HIDE DEF pace
<1>8. /\ saidAt'[m] = began[c] /\ countedAt'[m] = tick
      /\ \A x \in Messages \ {m} : saidAt'[x] = saidAt[x] /\ countedAt'[x] = countedAt[x]
      /\ saidAt' \in [Messages -> -1 .. MaxClock] /\ countedAt' \in [Messages -> -1 .. MaxClock]
  <2>1. began[c] \in -1 .. MaxClock /\ tick \in -1 .. MaxClock
    BY <1>3
  <2>2. saidAt \in [Messages -> -1 .. MaxClock] /\ countedAt \in [Messages -> -1 .. MaxClock]
    BY <1>2 DEF TrackerTypes
  <2> QED BY <1>1, <1>3, <2>1, <2>2
<1>9. TrackerTypes'
  <2>1. recent' \in [Trackers -> SUBSET Entries]
    BY <1>1, <1>2, <1>3, <1>4 DEF TrackerTypes
  <2>2. flood' \in [Trackers -> Seq(0 .. MaxClock)]
    BY <1>2, <1>3, <1>6, <1>7 DEF TrackerTypes
  <2> QED BY <1>8, <2>1, <2>2 DEF TrackerTypes
<1>10. ASSUME NEW j \in Trackers PROVE TrackerFits(j)'
  <2>1. recent[j] \subseteq Entries /\ flood[j] \in Seq(0 .. MaxClock)
    BY <1>2 DEF TrackerTypes
  <2>2. /\ \A e \in recent[j] : TrackerOf(e.msg) = j /\ e.at = saidAt[e.msg]
        /\ Queued(flood[j], j, saidAt, countedAt)
    BY <1>2 DEF TrackerFits
  <2>3. ASSUME NEW e \in recent'[j] PROVE TrackerOf(e.msg) = j /\ e.at = saidAt'[e.msg]
    <3>1. CASE j = k
      <4>1. recent'[k] = kept
        BY <1>1, <1>2, <1>3 DEF TrackerTypes
      <4> QED BY <1>4, <2>3, <3>1, <4>1
    <3>2. CASE j # k
      <4>1. e \in recent[j]
        BY <1>1, <1>2, <2>3, <3>2 DEF TrackerTypes
      <4>2. e.msg \in Messages /\ e.at \in 0 .. MaxClock /\ e.at = saidAt[e.msg]
        BY <2>1, <2>2, <4>1 DEF Entries
      <4>3. e.msg # m
        BY <1>3, <4>2
      <4> QED BY <1>8, <2>2, <4>1, <4>2, <4>3
    <3> QED BY <3>1, <3>2
  <2>4. Queued(flood'[j], j, saidAt', countedAt')
    <3>1. CASE j = k /\ flood' = [flood EXCEPT ![k] = Paced(c)]
      <4>1. flood'[j] = Paced(c)
        BY <1>2, <1>3, <3>1 DEF TrackerTypes
      <4> QED BY <1>6, <3>1, <4>1 DEF k, m
    <3>2. CASE j # k \/ flood' = flood
      <4>1. flood'[j] = flood[j]
        BY <1>2, <1>7, <3>2 DEF TrackerTypes
      <4>2. \A x \in Messages : saidAt[x] # -1 => saidAt'[x] = saidAt[x] /\ countedAt'[x] = countedAt[x]
        BY <1>3, <1>8
      <4>3. Queued(flood[j], j, saidAt', countedAt')
        BY <2>1, <2>2, <4>2, QueuedStays
      <4> QED BY <4>1, <4>3
    <3> QED BY <1>7, <3>1, <3>2
  <2> QED BY <2>3, <2>4 DEF TrackerFits
<1>11. /\ stage'[c] \in {"sentence", "content"} /\ (stage'[c] = "content" => sentence'[c] = sentence[c])
       /\ sentence'[c] \in {"spam", "flood", "none"}
       /\ sentence'[c] = "spam" => evidence'[c] = same /\ Cardinality(same) >= SpamLimit(c)
       /\ sentence'[c] = "flood" => Len(Paced(c)) >= FloodLimit(c)
       /\ sentence'[c] # "none" => stage'[c] = "sentence"
       /\ \A d \in Checks \ {c} : /\ stage'[d] = stage[d] /\ sentence'[d] = sentence[d]
                                  /\ evidence'[d] = evidence[d]
       /\ stage' \in [Checks -> Stages] /\ sentence' \in [Checks -> Causes]
       /\ evidence' = [d \in Checks |-> evidence'[d]]
  <2>1. /\ sentence[c] = "none" /\ stage \in [Checks -> Stages] /\ sentence \in [Checks -> Causes]
        /\ evidence = [d \in Checks |-> evidence[d]]
    BY <1>1, <1>2 DEF StageFits, CheckTypes
  <2>2. CASE Convict(c, "spam", same) /\ Cardinality(same) >= SpamLimit(c)
    BY <2>1, <2>2 DEF Convict, Go, Stages, Causes
  <2>3. CASE Convict(c, "flood", {}) /\ Len(Paced(c)) >= FloodLimit(c)
    BY <2>1, <2>3 DEF Convict, Go, Stages, Causes
  <2>4. CASE Go(c, "content") /\ UNCHANGED <<sentence, evidence>>
    BY <2>1, <2>4 DEF Go, Stages
  <2> QED BY <1>1, <2>2, <2>3, <2>4
<1>12. CheckTypes'
  BY <1>1, <1>2, <1>11 DEF CheckTypes
<1>13. UNCHANGED <<results, order, aged, open, wait>>
  BY <1>1 DEF gateVars
<1>14. GateTypeOK'
  BY <1>2, <1>13, GateTypes, GateTypesNext
<1>15. StageFits(c)' /\ ProofFor(c)' /\ CountedFor(c)'
  <2>1. same \subseteq Messages
    BY <1>5
  <2>2. StageFits(c)'
    BY <1>1, <1>3, <1>8, <1>11, <2>1 DEF StageFits, m
  <2>3. ProofFor(c)'
    BY <1>11 DEF ProofFor
  <2>4. ASSUME sentence'[c] = "spam"
        PROVE  Cardinality({x \in Said(m, saidAt, SpamWindow) : Body[x] = Body[m]})' >= SpamLimit(c)'
    <3> DEFINE T == {x \in {y \in Messages : TrackerOf(y) = TrackerOf(m) /\ saidAt'[y] >= 0
                                              /\ saidAt'[m] - saidAt'[y] <= SpamWindow} :
                      Body[x] = Body[m]}
    <3>1. T \subseteq Messages /\ same \subseteq T
      BY <1>5
    <3>2. {x \in Said(m, saidAt, SpamWindow) : Body[x] = Body[m]}' = T
      BY DEF Said
    <3> HIDE DEF T
    <3>3. IsFiniteSet(T)
      BY <3>1, ModerationAssumption, FS_Subset
    <3>4. Cardinality(same) <= Cardinality(T) /\ Cardinality(T) \in Nat /\ Cardinality(same) \in Nat
      BY <3>1, <3>3, FS_Subset, FS_CardinalityType
    <3>5. SpamLimit(c)' = SpamLimit(c) /\ SpamLimit(c) \in Nat /\ Cardinality(same) >= SpamLimit(c)
      BY <1>1, <1>11, <2>4, LimitsAre DEF SpamLimit
    <3> QED BY <3>2, <3>4, <3>5
  <2>5. ASSUME sentence'[c] = "flood"
        PROVE  Cardinality(Said(m, countedAt, FloodSpan(c)))' >= FloodLimit(c)'
    <3> DEFINE T == {x \in Messages : TrackerOf(x) = TrackerOf(m) /\ countedAt'[x] >= 0
                                      /\ began[c] - countedAt'[x] <= FloodSpan(c)}
    <3>1. T \subseteq Messages /\ Len(Paced(c)) <= Cardinality(T)
      BY <1>6 DEF m
    <3>2. FloodSpan(c)' = FloodSpan(c) /\ FloodLimit(c)' = FloodLimit(c)
      BY <1>1 DEF FloodSpan, FloodLimit
    <3>3. Said(m, countedAt, FloodSpan(c))' = T
      BY <1>8, <3>2 DEF Said
    <3> HIDE DEF T
    <3>4. IsFiniteSet(T)
      BY <3>1, ModerationAssumption, FS_Subset
    <3>5. Cardinality(T) \in Nat /\ FloodLimit(c) \in Nat /\ Len(Paced(c)) >= FloodLimit(c)
      BY <1>11, <2>5, <3>4, FS_CardinalityType, LimitsAre
    <3>6. Len(Paced(c)) \in Nat
      BY <1>6, LenProperties
    <3> QED BY <3>1, <3>2, <3>3, <3>5, <3>6
  <2>6. CountedFor(c)'
    BY <1>11, <2>4, <2>5 DEF CountedFor, m
  <2> QED BY <2>2, <2>3, <2>6
<1>16. ASSUME NEW d \in Checks, d # c PROVE StageFits(d)' /\ ProofFor(d)' /\ CountedFor(d)'
  <2>1. /\ stage'[d] = stage[d] /\ sentence'[d] = sentence[d] /\ evidence'[d] = evidence[d]
        /\ began'[d] = began[d] /\ strict'[d] = strict[d] /\ tick' = tick
    BY <1>1, <1>11, <1>16
  <2>2. StageFits(d) /\ ProofFor(d) /\ CountedFor(d) /\ d[1] \in Messages
    BY <1>2, ChecksAre
  <2>3. sentence[d] \in {"spam", "flood"} => d[1] # m /\ saidAt'[d[1]] = saidAt[d[1]]
    BY <1>3, <1>8, <2>2 DEF StageFits
  <2>4. StageFits(d)'
    BY <2>1, <2>2, <2>3 DEF StageFits
  <2>5. ProofFor(d)'
    BY <2>1, <2>2 DEF ProofFor
  <2>6. \A x \in Messages : /\ saidAt[x] >= 0 => saidAt'[x] = saidAt[x]
                            /\ countedAt[x] >= 0 => countedAt'[x] = countedAt[x]
    BY <1>3, <1>8
  <2>7. /\ SpamLimit(d)' = SpamLimit(d) /\ FloodLimit(d)' = FloodLimit(d)
        /\ FloodSpan(d)' = FloodSpan(d) /\ CrossLimit(d)' = CrossLimit(d)
    BY <2>1 DEF SpamLimit, FloodLimit, FloodSpan, CrossLimit
  <2>8. ASSUME sentence[d] = "spam"
        PROVE  Cardinality({x \in Said(d[1], saidAt, SpamWindow) : Body[x] = Body[d[1]]})' >= SpamLimit(d)'
    <3> DEFINE new == {x \in {y \in Messages : TrackerOf(y) = TrackerOf(d[1]) /\ saidAt'[y] >= 0
                                               /\ saidAt'[d[1]] - saidAt'[y] <= SpamWindow} :
                       Body[x] = Body[d[1]]}
               old == {x \in Said(d[1], saidAt, SpamWindow) : Body[x] = Body[d[1]]}
    <3>1. Cardinality(old) <= Cardinality(new) /\ Cardinality(old) \in Nat
      <4>1. old \subseteq new /\ new \subseteq Messages
        BY <2>2, <2>3, <2>6, <2>8 DEF Said
      <4> HIDE DEF new, old
      <4>2. IsFiniteSet(new)
        BY <4>1, ModerationAssumption, FS_Subset
      <4> QED BY <4>1, <4>2, FS_Subset, FS_CardinalityType
    <3>2. {x \in Said(d[1], saidAt, SpamWindow) : Body[x] = Body[d[1]]}' = new
      BY DEF Said
    <3>3. Cardinality(old) >= SpamLimit(d)
      BY <2>2, <2>8 DEF CountedFor
    <3>4. IsFiniteSet(new)
      <4>1. new \subseteq Messages
        OBVIOUS
      <4> HIDE DEF new
      <4> QED BY <4>1, ModerationAssumption, FS_Subset
    <3>5. Cardinality(new) \in Nat /\ SpamLimit(d) \in Nat
      BY <3>4, FS_CardinalityType, LimitsAre
    <3> HIDE DEF new, old
    <3> QED BY <2>7, <3>1, <3>2, <3>3, <3>5
  <2>9. ASSUME sentence[d] = "flood"
        PROVE  Cardinality(Said(d[1], countedAt, FloodSpan(d)))' >= FloodLimit(d)'
    <3> DEFINE new == {x \in Messages : TrackerOf(x) = TrackerOf(d[1]) /\ countedAt'[x] >= 0
                                        /\ saidAt'[d[1]] - countedAt'[x] <= FloodSpan(d)}
               old == Said(d[1], countedAt, FloodSpan(d))
    <3>1. Cardinality(old) <= Cardinality(new) /\ Cardinality(old) \in Nat
      <4>1. old \subseteq new /\ new \subseteq Messages
        BY <2>2, <2>3, <2>6, <2>9 DEF Said
      <4> HIDE DEF new, old
      <4>2. IsFiniteSet(new)
        BY <4>1, ModerationAssumption, FS_Subset
      <4> QED BY <4>1, <4>2, FS_Subset, FS_CardinalityType
    <3>2. Said(d[1], countedAt, FloodSpan(d))' = new
      BY <2>7 DEF Said
    <3>3. Cardinality(old) >= FloodLimit(d)
      BY <2>2, <2>9 DEF CountedFor
    <3>4. IsFiniteSet(new)
      <4>1. new \subseteq Messages
        OBVIOUS
      <4> HIDE DEF new
      <4> QED BY <4>1, ModerationAssumption, FS_Subset
    <3>5. Cardinality(new) \in Nat /\ FloodLimit(d) \in Nat
      BY <3>4, FS_CardinalityType, LimitsAre
    <3> HIDE DEF new, old
    <3> QED BY <2>7, <3>1, <3>2, <3>3, <3>5
  <2>10. CountedFor(d)'
    BY <2>1, <2>2, <2>7, <2>8, <2>9 DEF CountedFor
  <2> QED BY <2>4, <2>5, <2>10
<1>17. ASSUME NEW x \in Messages PROVE ClockFits(x)' /\ VerdictFits(x)'
  <2>1. <<x, "new">> \in Checks /\ ClockFits(x) /\ VerdictFits(x) /\ results'[x] = results[x]
    BY <1>2, <1>13, ChecksAre
  <2>2. CASE x # m
    <3>1. <<x, "new">> # c
      BY <1>3, <2>2
    <3> QED BY <1>1, <1>8, <1>11, <2>1, <2>2, <3>1 DEF ClockFits, VerdictFits
  <2>3. CASE x = m
    <3>1. results[m] = "none" /\ <<x, "new">> = c
      BY <1>1, <1>3, <2>1, <2>3 DEF VerdictFits
    <3> QED BY <1>1, <1>3, <1>8, <1>11, <2>1, <2>3, <3>1 DEF ClockFits, VerdictFits
  <2> QED BY <2>2, <2>3
<1>18. \A w \in GateWaiters : ListenerFits(w)'
  BY <1>1, <1>11, <1>13, ListenersKept
<1>19. StaffNeverRestricted'
  BY <1>1 DEF ModerationInv, StaffNeverRestricted
<1> QED BY <1>9, <1>10, <1>12, <1>14, <1>15, <1>16, <1>17, <1>18, <1>19 DEF ModerationInv

\* A sentence is carried out.
LEMMA PunishFits ==
  ASSUME ModerationInv, NEW c \in Checks, Punish(c)
  PROVE  ModerationInv'
<1> DEFINE k == TrackerOf(c[1])
<1>1. /\ stage[c] = "sentence" /\ Conclude(c, "blocked")
      /\ \E gone \in {{}, Victims(c)} : deleted' = deleted \cup gone
      /\ \E on \in {{}} \cup (IF Restricts(c) THEN {{c}} ELSE {}) : muted' = muted \cup on
      /\ recent' = recent \/ recent' = [recent EXCEPT ![k] = {}]
      /\ flood' = flood \/ flood' = [flood EXCEPT ![k] = <<>>]
      /\ UNCHANGED <<filters, nature, strict, began, sentence, evidence, saidAt, countedAt, tick>>
  BY DEF Punish
<1>2. /\ CheckTypes /\ TrackerTypes /\ StageFits(c) /\ StaffNeverRestricted
      /\ \A j \in Trackers : TrackerFits(j)
  BY DEF ModerationInv
<1>3. c[1] \in Messages /\ k \in Trackers
  BY ChecksAre
<1> HIDE DEF k
<1>4. deleted' \subseteq Messages
  <2>1. Victims(c) \subseteq Messages
    BY <1>2, <1>3 DEF Victims, StageFits
  <2> QED BY <1>1, <1>2, <2>1 DEF CheckTypes
<1>5. muted' \subseteq Checks /\ StaffNeverRestricted'
  <2>1. \A d \in muted' : d \in muted \/ (d = c /\ Author[c[1]] \notin Staff)
    BY <1>1 DEF Restricts
  <2> QED BY <1>2, <2>1 DEF CheckTypes, StaffNeverRestricted
<1>6. TrackerTypes'
  <2>1. recent' \in [Trackers -> SUBSET Entries]
    BY <1>1, <1>2 DEF TrackerTypes
  <2>2. flood' \in [Trackers -> Seq(0 .. MaxClock)]
    BY <1>1, <1>2, EmptySeq DEF TrackerTypes
  <2> QED BY <1>1, <1>2, <2>1, <2>2 DEF TrackerTypes
<1>7. ASSUME NEW j \in Trackers PROVE TrackerFits(j)'
  <2>1. TrackerFits(j)
    BY <1>2
  <2>2. recent'[j] = recent[j] \/ recent'[j] = {}
    BY <1>1, <1>2 DEF TrackerTypes
  <2>3. flood'[j] = flood[j] \/ flood'[j] = <<>>
    BY <1>1, <1>2 DEF TrackerTypes
  <2>4. Queued(<<>>, j, saidAt', countedAt')
    <3>1. DOMAIN (<<>>) = {}
      OBVIOUS
    <3> DEFINE h == [i \in DOMAIN (<<>>) |-> 0]
    <3>2. h \in [DOMAIN (<<>>) -> Messages]
      BY <3>1
    <3> HIDE DEF h
    <3> QED BY <3>1, <3>2 DEF Queued
  <2>5. Queued(flood[j], j, saidAt', countedAt')
    BY <1>1, <2>1 DEF TrackerFits
  <2> QED BY <1>1, <2>1, <2>2, <2>3, <2>4, <2>5 DEF TrackerFits
<1>8. "blocked" \in Verdicts
  BY DEF Verdicts
<1>9. stage[c] \notin {"idle", "over"}
  BY <1>1
<1>10. \A j \in Trackers : TrackerFits(j)'
  BY <1>7
<1> QED BY <1>1, <1>4, <1>5, <1>6, <1>8, <1>9, <1>10, Concludes

\* Time passes.
LEMMA TickFits ==
  ASSUME ModerationInv, ModerationTick
  PROVE  ModerationInv'
<1>1. /\ CheckTypes /\ TrackerTypes /\ GateTypeOK /\ StaffNeverRestricted
      /\ \A d \in Checks : StageFits(d) /\ ProofFor(d) /\ CountedFor(d)
      /\ \A m \in Messages : ClockFits(m) /\ VerdictFits(m)
      /\ \A w \in GateWaiters : ListenerFits(w)
  BY DEF ModerationInv
<1>2. /\ tick < MaxClock /\ tick' = tick + 1 /\ tick \in 0 .. MaxClock /\ MaxClock \in Nat
      /\ UNCHANGED <<gateVars, filters, nature, stage, strict, began, recent, flood, sentence,
                     evidence, orphan, deleted, muted, saidAt, countedAt>>
  BY <1>1, ModerationAssumption DEF ModerationTick, CheckTypes
<1>3. UNCHANGED <<results, order, aged, open, wait>>
  BY <1>2 DEF gateVars
<1>4. CheckTypes' /\ GateTypeOK'
  <2>1. tick' \in 0 .. MaxClock
    BY <1>2
  <2>2. CheckTypes'
    BY <1>1, <1>2, <2>1 DEF CheckTypes
  <2> QED BY <1>1, <1>3, <2>2, GateTypes, GateTypesNext
<1>5. ASSUME NEW d \in Checks PROVE StageFits(d)' /\ ProofFor(d)' /\ CountedFor(d)'
  <2>1. StageFits(d) /\ ProofFor(d) /\ CountedFor(d) /\ began[d] \in 0 .. MaxClock
    BY <1>1 DEF CheckTypes
  <2>2. StageFits(d)'
    BY <1>2, <2>1 DEF StageFits
  <2>3. CountedFor(d)'
    BY <1>2, <2>1 DEF CountedFor, Said, SpamLimit, FloodLimit, FloodSpan, CrossLimit
  <2> QED BY <1>2, <2>1, <2>2, <2>3 DEF ProofFor
<1>6. ASSUME NEW m \in Messages PROVE ClockFits(m)' /\ VerdictFits(m)'
  <2>1. ClockFits(m) /\ VerdictFits(m) /\ countedAt[m] \in -1 .. MaxClock
    BY <1>1 DEF TrackerTypes
  <2>2. ClockFits(m)'
    BY <1>2, <2>1 DEF ClockFits
  <2> QED BY <1>2, <1>3, <2>1, <2>2 DEF VerdictFits
<1>7. \A w \in GateWaiters : ListenerFits(w)'
  BY <1>1, <1>2, <1>3 DEF ListenerFits
<1>8. StaffNeverRestricted'
  BY <1>1, <1>2 DEF StaffNeverRestricted
<1> QED BY <1>2, <1>4, <1>5, <1>6, <1>7, <1>8, TrackersKept DEF ModerationInv

\* A listener learns a verdict, waits or gives up; a verdict grows old.
LEMMA ListenersFit ==
  ASSUME ModerationInv, Listen \/ AgeSome, UNCHANGED modVars
  PROVE  ModerationInv'
<1>1. /\ CheckTypes /\ GateTypeOK /\ StaffNeverRestricted
      /\ \A d \in Checks : StageFits(d) /\ ProofFor(d) /\ CountedFor(d)
      /\ \A m \in Messages : ClockFits(m) /\ VerdictFits(m)
      /\ \A w \in GateWaiters : ListenerFits(w)
  BY DEF ModerationInv
<1>2. UNCHANGED <<filters, nature, stage, strict, began, recent, flood, sentence, evidence,
                  orphan, deleted, muted, saidAt, countedAt, tick>>
  BY DEF modVars
<1>3. /\ GateTypeOK'
      /\ \A x \in Messages : results'[x] \in {results[x], "none"}
      /\ \A w \in GateWaiters :
           wait'[w] = "clear" => wait[w] = "clear" \/ results[WaitsFor[w]] = "clear"
  <2>1. CASE Listen
    BY <1>1, <2>1, ListenFits DEF Messages
  <2>2. CASE AgeSome
    BY <1>1, <2>2, AgeFits
  <2> QED BY <2>1, <2>2
<1>4. CheckTypes'
  BY <1>1, <1>2 DEF CheckTypes
<1>5. ASSUME NEW d \in Checks PROVE StageFits(d)' /\ ProofFor(d)' /\ CountedFor(d)'
  BY <1>2, OthersKept
<1>6. ASSUME NEW m \in Messages PROVE ClockFits(m)' /\ VerdictFits(m)'
  BY <1>2, <1>3, MessageKept
<1>7. ASSUME NEW w \in GateWaiters PROVE ListenerFits(w)'
  <2>1. ListenerFits(w) /\ VerdictFits(WaitsFor[w])
    BY <1>1, GateAssumption DEF Messages
  <2> QED BY <1>2, <1>3, <2>1 DEF ListenerFits, VerdictFits
<1>8. StaffNeverRestricted'
  BY <1>1, <1>2 DEF StaffNeverRestricted
<1> QED BY <1>2, <1>3, <1>4, <1>5, <1>6, <1>7, <1>8, TrackersKept DEF ModerationInv

\* Every step keeps the invariant.
LEMMA ModerationInvStep ==
  ModerationInv /\ [ModerationNext]_<<gateVars, modVars>> => ModerationInv'
<1> SUFFICES ASSUME ModerationInv, [ModerationNext]_<<gateVars, modVars>> PROVE ModerationInv'
  OBVIOUS
<1>1. CASE \E m \in Messages : Arrive(m)
  BY <1>1, ArrivesAndEdits
<1>2. CASE \E m \in Edited : Edit(m)
  BY <1>2, ArrivesAndEdits, ModerationAssumption
<1>3. CASE CheckStep
  <2>1. PICK c \in Checks : Exempt(c) \/ Crash(c) \/ CheckLinks(c) \/ CheckFiles(c) \/ CheckBehaviour(c)
                            \/ Count(c) \/ CheckContent(c) \/ Punish(c)
    BY <1>3 DEF CheckStep
  <2> QED BY <2>1, ExemptAndCrash, LinksFit, FilesFit, BehaviourFits, CountFits, PunishFits
<1>4. CASE ModerationTick
  BY <1>4, TickFits
<1>5. CASE (Listen \/ AgeSome) /\ UNCHANGED modVars
  BY <1>5, ListenersFit
<1>6. CASE UNCHANGED <<gateVars, modVars>>
  <2>1. UNCHANGED <<filters, nature, stage, strict, began, recent, flood, sentence, evidence,
                    orphan, deleted, muted, saidAt, countedAt, tick>>
    BY <1>6 DEF modVars
  <2>2. UNCHANGED <<results, order, aged, open, wait>>
    BY <1>6 DEF gateVars
  <2>3. CheckTypes' /\ GateTypeOK' /\ StaffNeverRestricted'
    <3>1. CheckTypes /\ GateTypeOK /\ StaffNeverRestricted
      BY DEF ModerationInv
    <3>2. CheckTypes' /\ StaffNeverRestricted'
      BY <2>1, <3>1 DEF CheckTypes, StaffNeverRestricted
    <3> QED BY <2>2, <3>1, <3>2, GateTypes, GateTypesNext
  <2>4. \A d \in Checks : StageFits(d)' /\ ProofFor(d)' /\ CountedFor(d)'
    BY <2>1, OthersKept
  <2>5. \A m \in Messages : ClockFits(m)' /\ VerdictFits(m)'
    BY <2>1, <2>2, MessageKept
  <2>6. \A w \in GateWaiters : ListenerFits(w)'
    BY <2>1, <2>2, ListenersKept
  <2> QED BY <2>1, <2>3, <2>4, <2>5, <2>6, TrackersKept DEF ModerationInv
<1> QED BY <1>1, <1>2, <1>3, <1>4, <1>5, <1>6 DEF ModerationNext

\* The inductive invariant holds throughout.
LEMMA ModerationSafe == ModerationSpec => []ModerationInv
BY ModerationInvInit, ModerationInvStep, PTL DEF ModerationSpec

\* Who is judged is judged for a cause: content is deleted on proof alone, a text
\* or a pace is punished only when the messages were really sent, and nobody of the
\* staff is restricted, for any number of messages checked side by side
\* (cogs/mod.py:149-181, 243, moderation.py:1891-1962).
THEOREM JudgedWithCause == ModerationSpec => []JudgedForCause
<1>1. ModerationInv => JudgedForCause
  <2> SUFFICES ASSUME ModerationInv PROVE JudgedForCause
    OBVIOUS
  <2>1. /\ GateTypeOK /\ CheckTypes /\ TrackerTypes /\ StaffNeverRestricted
        /\ \A c \in Checks : StageFits(c) /\ ProofFor(c) /\ CountedFor(c)
        /\ \A m \in Messages : ClockFits(m) /\ VerdictFits(m)
        /\ \A k \in Trackers : TrackerFits(k)
    BY DEF ModerationInv
  <2>2. ModerationTypeOK
    BY <2>1 DEF ModerationTypeOK, CheckTypes, TrackerTypes, StageFits, VerdictFits, TrackerFits
  <2>3. ContentNeedsProof
    BY <2>1 DEF ContentNeedsProof, ProofFor, Proofs, Suspicions
  <2>4. BehaviourCounted
    BY <2>1 DEF BehaviourCounted, CountedFor
  <2> QED BY <2>1, <2>2, <2>3, <2>4 DEF JudgedForCause
<1> QED BY <1>1, ModerationSafe, PTL

\* A listener that goes on with a message had the verdict of a check that is over and
\* found nothing, however many verdicts were dropped and whoever gave up waiting
\* (cogs/forms.py:95-102).
THEOREM ClearMeansClear == ModerationSpec => []UsedOnlyIfClear
<1>1. ModerationInv => UsedOnlyIfClear
  BY DEF ModerationInv, ListenerFits, UsedOnlyIfClear
<1> QED BY <1>1, ModerationSafe, PTL

-----------------------------------------------------------------------------
(* Joins and the raid mode.                                                 *)

Days == 1 .. MaxDay
Untils == 0 .. (MaxDay + RaidCooldown)
Waiting == [by : SUBSET Joins, until : Untils]
Actions == {"none", "alert", "quarantine", "kick", "ban"}

\* The types of the variables of the guard.
JoinTypes ==
  /\ joinStage \in [Joins -> {"idle", "begun", "writing", "reacting", "over", "lost"}]
  /\ decision \in [Joins -> [raid : BOOLEAN, mode : BOOLEAN, action : Actions]]
  /\ measure \in [Joins -> Actions] /\ guarding \in BOOLEAN /\ lost \in BOOLEAN
  /\ day \in Days /\ {raidUntil, persisted, stored, since} \subseteq Untils
  /\ joinVerdict = [j \in Joins |-> joinVerdict[j]] /\ joinWait = [j \in Watched |-> joinWait[j]]

\* What is decided on a join, done to its account and said of it at the gate.
DecisionFits(j) ==
  /\ joinStage[j] \in {"idle", "begun"} => ~decision[j].mode
  /\ decision[j].action \in {"none", ActionOn(decision[j].mode, Risk(j))}
  /\ measure[j] # "none" => joinStage[j] = "over" /\ measure[j] = decision[j].action
  /\ joinVerdict[j] = "clear" => joinStage[j] = "over" /\ ~decision[j].mode

\* So is what its welcome was told.
WelcomeFits(j) == joinWait[j] = "clear" => joinStage[j] = "over" /\ ~decision[j].mode

\* A join waits for its write, and for no other.
WritesFit ==
  /\ writes \in Seq(Waiting)
  /\ \A j \in Joins : (joinStage[j] = "writing") = (\E i \in DOMAIN writes : j \in writes[i].by)
  /\ \A i, k \in DOMAIN writes : \A j \in Joins : j \in writes[i].by /\ j \in writes[k].by => i = k

\* The times counted are the last of all that came: the others left the window.
CameInOrder ==
  /\ came \in Seq(Days)
  /\ \A i, k \in 1 .. Len(came) : i < k => came[i] <= came[k]
  /\ \A i \in 1 .. Len(came) : came[i] <= day
LastOf(q, s) ==
  /\ Len(q) = Len(came) - s /\ \A i \in 1 .. Len(q) : q[i] = came[s + i]
  /\ \A i \in 1 .. s : came[Len(came)] - came[i] > JoinWindow
JoinsCounted == joins \in Seq(Days) /\ \E s \in 0 .. Len(came) : LastOf(joins, s)

\* The time u is one the mode is called for until.
CalledFor(u) == u = since \/ \E i \in 1 .. Len(came) : Wave(i) /\ u = came[i] + RaidCooldown
ModeFollows ==
  /\ \A u \in Untils : CalledFor(u) /\ u > day => raidUntil >= u
  /\ raidUntil > day => CalledFor(raidUntil)

\* What the database will hold when the last write is done, unless one fails.
Final == IF writes = <<>> THEN stored ELSE writes[Len(writes)].until
Bounded ==
  /\ raidUntil <= day + RaidCooldown /\ persisted <= day + RaidCooldown
  /\ stored <= day + RaidCooldown
  /\ \A i \in DOMAIN writes : writes[i].until <= day + RaidCooldown
StoredFollows ==
  ~lost =>
    /\ raidUntil > day => /\ Final + Granularity > raidUntil /\ persisted <= Final
                          /\ \A i \in DOMAIN writes : writes[i].until <= Final
    /\ Final > day => raidUntil >= Final

\* The inductive invariant of the joins.
JoinInv ==
  /\ JoinTypes /\ WritesFit /\ CameInOrder /\ JoinsCounted /\ ModeFollows /\ Bounded /\ StoredFollows
  /\ WavesAnnounced
  /\ \A j \in Joins : DecisionFits(j)
  /\ \A j \in Watched : WelcomeFits(j)

\* The invariant holds at the start.
LEMMA JoinInvInit == JoinInit => JoinInv
<1> SUFFICES ASSUME JoinInit PROVE JoinInv
  OBVIOUS
<1>1. /\ MaxDay \in Nat \ {0} /\ RaidCooldown \in Nat \ {0} /\ Granularity \in Nat \ {0}
      /\ joins = <<>> /\ raidUntil = 0 /\ persisted = 0 /\ stored = 0 /\ writes = <<>>
      /\ came = <<>> /\ since = 0 /\ announced = {} /\ lost = FALSE /\ day = 1 /\ guarding \in BOOLEAN
  BY JoinAssumption DEF JoinInit
<1>2. /\ joinStage = [j \in Joins |-> "idle"] /\ measure = [j \in Joins |-> "none"]
      /\ decision = [j \in Joins |-> [raid |-> FALSE, mode |-> FALSE, action |-> "none"]]
      /\ joinVerdict = [j \in Joins |-> "none"] /\ joinWait = [j \in Watched |-> "idle"]
  BY DEF JoinInit, JoinGate!GateInit
<1>3. JoinTypes
  <2>1. 1 \in Days /\ 0 \in Untils /\ "none" \in Actions
    BY <1>1 DEF Days, Untils, Actions
  <2>2. [raid |-> FALSE, mode |-> FALSE, action |-> "none"] \in [raid : BOOLEAN, mode : BOOLEAN, action : Actions]
    BY <2>1
  <2>3. decision \in [Joins -> [raid : BOOLEAN, mode : BOOLEAN, action : Actions]]
    BY <1>2, <2>2
  <2>4. {raidUntil, persisted, stored, since} \subseteq Untils
    BY <1>1, <2>1
  <2>5. /\ joinVerdict = [j \in Joins |-> joinVerdict[j]]
        /\ joinWait = [j \in Watched |-> joinWait[j]]
    BY <1>2
  <2>6. measure \in [Joins -> Actions]
    BY <1>2, <2>1
  <2> QED BY <1>1, <1>2, <2>1, <2>3, <2>4, <2>5, <2>6 DEF JoinTypes
<1>4. WritesFit
  <2>1. writes \in Seq(Waiting) /\ DOMAIN writes = {}
    BY <1>1, EmptySeq
  <2> QED BY <1>2, <2>1 DEF WritesFit
<1>5. CameInOrder /\ JoinsCounted
  <2>1. joins \in Seq(Days) /\ came \in Seq(Days) /\ Len(came) = 0 /\ Len(joins) = 0
    BY <1>1, EmptySeq
  <2>2. LastOf(joins, 0) /\ 0 \in 0 .. Len(came)
    BY <2>1 DEF LastOf
  <2>3. CameInOrder
    BY <2>1 DEF CameInOrder
  <2> QED BY <2>1, <2>2, <2>3 DEF JoinsCounted
<1>6. ModeFollows
  <2>1. Len(came) = 0
    BY <1>1, EmptySeq
  <2> QED BY <1>1, <2>1 DEF ModeFollows, CalledFor
<1>7. Bounded /\ StoredFollows
  <2>1. DOMAIN writes = {}
    BY <1>1
  <2> QED BY <1>1, <2>1 DEF Bounded, StoredFollows, Final
<1>8. (\A j \in Joins : DecisionFits(j)) /\ \A j \in Watched : WelcomeFits(j)
  BY <1>2, JoinAssumption DEF DecisionFits, WelcomeFits
<1>9. WavesAnnounced
  BY <1>1 DEF WavesAnnounced
<1> QED BY <1>3, <1>4, <1>5, <1>6, <1>7, <1>8, <1>9 DEF JoinInv

\* What is said of the mode and the database is kept by what touches neither.
LEMMA RaidKept ==
  ASSUME JoinInv,
         UNCHANGED <<joins, raidUntil, persisted, stored, writes, came, since, announced, lost, day>>
  PROVE  /\ CameInOrder' /\ JoinsCounted' /\ ModeFollows' /\ Bounded' /\ StoredFollows'
         /\ WavesAnnounced'
<1>1. CameInOrder /\ JoinsCounted /\ ModeFollows /\ Bounded /\ StoredFollows /\ WavesAnnounced
  BY DEF JoinInv
<1>2. CameInOrder' /\ Bounded'
  BY <1>1 DEF CameInOrder, Bounded
<1>3. JoinsCounted'
  BY <1>1 DEF JoinsCounted, LastOf
<1>4. ModeFollows'
  BY <1>1 DEF ModeFollows, CalledFor, Wave
<1>5. StoredFollows'
  BY <1>1 DEF StoredFollows, Final
<1>6. WavesAnnounced'
  BY <1>1 DEF WavesAnnounced, Wave, Overfull, WasOn
<1> QED BY <1>2, <1>3, <1>4, <1>5, <1>6

\* A verdict at the gate becomes the answer of the join alone, and of no welcome yet.
LEMMA JoinVerdictGiven ==
  ASSUME JoinTypes, NEW j \in Joins, NEW v, JoinGate!GateFinish(j, v)
  PROVE  /\ joinVerdict' = [x \in Joins |-> joinVerdict'[x]]
         /\ joinWait' = [x \in Watched |-> joinWait'[x]]
         /\ joinVerdict'[j] \in {v, "none"}
         /\ \A x \in Joins \ {j} : joinVerdict'[x] \in {joinVerdict[x], "none"}
         /\ \A x \in Watched : joinWait'[x] = "clear" => joinWait[x] = "clear"
<1> DEFINE given == [joinVerdict EXCEPT ![j] = v]
<1>1. PICK gone : /\ joinVerdict' = [x \in Joins |-> IF x \in gone THEN "none" ELSE given[x]]
                  /\ joinWait' = JoinGate!Moved(JoinGate!Moved(joinWait, {j}, "woken"), gone, "off")
  BY DEF JoinGate!GateFinish
<1>2. given[j] = v /\ \A x \in Joins \ {j} : given[x] = joinVerdict[x]
  BY DEF JoinTypes
<1> HIDE DEF given
<1>3. /\ joinVerdict'[j] \in {v, "none"}
      /\ \A x \in Joins \ {j} : joinVerdict'[x] \in {joinVerdict[x], "none"}
  BY <1>1, <1>2
<1>4. /\ joinWait' = [x \in Watched |-> joinWait'[x]]
      /\ \A x \in Watched : joinWait'[x] = "clear" => joinWait[x] = "clear"
  <2>1. \A x \in Watched : JoinGate!Moved(joinWait, {j}, "woken")[x] \in {joinWait[x], "woken"}
    BY DEF JoinGate!Moved
  <2>2. \A x \in Watched :
          joinWait'[x] \in {JoinGate!Moved(joinWait, {j}, "woken")[x], "off"}
    BY <1>1 DEF JoinGate!Moved
  <2>3. joinWait' = [x \in Watched |-> joinWait'[x]]
    BY <1>1 DEF JoinGate!Moved
  <2> QED BY <2>1, <2>2, <2>3
<1> QED BY <1>1, <1>3, <1>4

\* A welcome is told only what is remembered of its join.
LEMMA WelcomeTold ==
  ASSUME JoinTypes, JoinGate!Listen \/ JoinGate!AgeSome
  PROVE  /\ joinVerdict' = [x \in Joins |-> joinVerdict'[x]]
         /\ joinWait' = [x \in Watched |-> joinWait'[x]]
         /\ \A x \in Joins : joinVerdict'[x] \in {joinVerdict[x], "none"}
         /\ \A x \in Watched :
              joinWait'[x] = "clear" => joinWait[x] = "clear" \/ joinVerdict[x] = "clear"
<1>1. CASE JoinGate!AgeSome
  BY <1>1 DEF JoinGate!AgeSome, JoinGate!Age, JoinTypes
<1>2. CASE JoinGate!Listen
  <2>1. PICK w \in Watched : \/ JoinGate!Remember(w) \/ JoinGate!StartWait(w)
                             \/ JoinGate!Wake(w) \/ JoinGate!GiveUp(w)
    BY <1>2 DEF JoinGate!Listen
  <2>2. [x \in Watched |-> x][w] = w
    OBVIOUS
  <2>3. CASE JoinGate!Remember(w) \/ JoinGate!Wake(w)
    <3>1. joinVerdict' = joinVerdict /\ joinWait' = [joinWait EXCEPT ![w] = joinVerdict[w]]
      BY <2>2, <2>3 DEF JoinGate!Remember, JoinGate!Wake
    <3> QED BY <3>1 DEF JoinTypes
  <2>4. CASE JoinGate!StartWait(w)
    <3>1. joinVerdict' = [joinVerdict EXCEPT ![w] = "none"] /\ joinWait' = [joinWait EXCEPT ![w] = "on"]
      BY <2>2, <2>4 DEF JoinGate!StartWait
    <3> QED BY <3>1, JoinAssumption DEF JoinTypes
  <2>5. CASE JoinGate!GiveUp(w)
    <3> DEFINE told == [joinWait EXCEPT ![w] = "none"]
    <3>1. joinVerdict' = joinVerdict /\ \/ joinWait' = told
                                        \/ joinWait' = JoinGate!Moved(told, {w}, "off")
      BY <2>2, <2>5 DEF JoinGate!GiveUp
    <3>2. told = [x \in Watched |-> told[x]] /\ \A x \in Watched : told[x] \in {joinWait[x], "none"}
      BY DEF JoinTypes
    <3> HIDE DEF told
    <3>3. \A x \in Watched : joinWait'[x] \in {told[x], "off"}
      BY <3>1 DEF JoinGate!Moved
    <3>4. joinWait' = [x \in Watched |-> joinWait'[x]]
      BY <3>1, <3>2 DEF JoinGate!Moved
    <3> QED BY <3>1, <3>2, <3>3, <3>4 DEF JoinTypes
  <2> QED BY <2>1, <2>3, <2>4, <2>5
<1> QED BY <1>1, <1>2

\* A join moves on that does not begin or end to wait for its write.
LEMMA JoinMoves ==
  ASSUME JoinInv, UNCHANGED <<decision, raidVars, day>>,
         NEW j \in Joins, NEW s \in {"begun", "over"}, joinStage' = [joinStage EXCEPT ![j] = s],
         joinStage[j] \in {"idle", "begun", "reacting"},
         measure' = measure \/ \E a \in Actions : measure' = [measure EXCEPT ![j] = a],
         /\ joinVerdict' = [x \in Joins |-> joinVerdict'[x]]
         /\ joinWait' = [x \in Watched |-> joinWait'[x]],
         \A x \in Joins \ {j} : joinVerdict'[x] \in {joinVerdict[x], "none"},
         \A x \in Watched : joinWait'[x] = "clear" => joinWait[x] = "clear",
         DecisionFits(j)'
  PROVE  JoinInv'
<1>1. JoinTypes /\ WritesFit /\ (\A x \in Joins : DecisionFits(x)) /\ \A x \in Watched : WelcomeFits(x)
  BY DEF JoinInv
<1>2. UNCHANGED <<joins, raidUntil, persisted, stored, writes, guarding, came, since, announced, lost>>
  BY DEF raidVars
<1>3. /\ joinStage'[j] = s /\ \A x \in Joins \ {j} : joinStage'[x] = joinStage[x]
      /\ joinStage' \in [Joins -> {"idle", "begun", "writing", "reacting", "over", "lost"}]
  BY <1>1 DEF JoinTypes
<1>4. /\ measure' \in [Joins -> Actions]
      /\ \A x \in Joins \ {j} : measure'[x] = measure[x]
  BY <1>1 DEF JoinTypes
<1>5. JoinTypes'
  BY <1>1, <1>2, <1>3, <1>4 DEF JoinTypes
<1>6. WritesFit'
  <2>1. \A x \in Joins : (joinStage'[x] = "writing") = (joinStage[x] = "writing")
    BY <1>3
  <2> QED BY <1>1, <1>2, <2>1 DEF WritesFit
<1>7. ASSUME NEW x \in Joins PROVE DecisionFits(x)'
  <2>1. CASE x # j
    BY <1>1, <1>3, <1>4, <2>1 DEF DecisionFits
  <2> QED BY <2>1
<1>8. ASSUME NEW x \in Watched PROVE WelcomeFits(x)'
  <2>1. WelcomeFits(x) /\ x \in Joins
    BY <1>1, JoinAssumption
  <2> QED BY <1>3, <2>1 DEF WelcomeFits
<1> QED BY <1>2, <1>5, <1>6, <1>7, <1>8, RaidKept DEF JoinInv

\* A member joins.
LEMMA JoinArriveFits ==
  ASSUME JoinInv, NEW j \in Joins, JoinArrive(j)
  PROVE  JoinInv'
<1>1. /\ joinStage[j] = "idle" /\ joinStage' = [joinStage EXCEPT ![j] = "begun"]
      /\ UNCHANGED <<decision, measure, raidVars, switches, day, joinVerdict, joinWait>>
  BY DEF JoinArrive, JoinGate!GateBegin
<1>2. JoinTypes /\ DecisionFits(j)
  BY DEF JoinInv
<1>3. joinStage'[j] = "begun"
  BY <1>1, <1>2 DEF JoinTypes
<1>4. DecisionFits(j)'
  BY <1>1, <1>2, <1>3 DEF DecisionFits
<1>5. /\ joinVerdict' = [x \in Joins |-> joinVerdict'[x]]
      /\ joinWait' = [x \in Watched |-> joinWait'[x]]
  BY <1>1, <1>2 DEF JoinTypes
<1>6. \A x \in Joins \ {j} : joinVerdict'[x] \in {joinVerdict[x], "none"}
  BY <1>1
<1>7. \A x \in Watched : joinWait'[x] = "clear" => joinWait[x] = "clear"
  BY <1>1
<1>8. measure' = measure \/ \E a \in Actions : measure' = [measure EXCEPT ![j] = a]
  BY <1>1
<1> QED BY <1>1, <1>4, <1>5, <1>6, <1>7, <1>8, JoinMoves

\* A join is let pass without being judged, or is kept out by an error.
LEMMA PassUnguardedFits ==
  ASSUME JoinInv, NEW j \in Joins, PassUnguarded(j)
  PROVE  JoinInv'
<1>1. /\ joinStage[j] = "begun" /\ joinStage' = [joinStage EXCEPT ![j] = "over"]
      /\ UNCHANGED <<decision, measure, raidVars, switches, day>>
      /\ \E v \in {"clear", "blocked"} : JoinGate!GateFinish(j, v)
  BY DEF PassUnguarded
<1>2. JoinTypes /\ DecisionFits(j)
  BY DEF JoinInv
<1>3. PICK v \in {"clear", "blocked"} : JoinGate!GateFinish(j, v)
  BY <1>1
<1>4. /\ joinVerdict' = [x \in Joins |-> joinVerdict'[x]]
      /\ joinWait' = [x \in Watched |-> joinWait'[x]]
      /\ \A x \in Joins \ {j} : joinVerdict'[x] \in {joinVerdict[x], "none"}
      /\ \A x \in Watched : joinWait'[x] = "clear" => joinWait[x] = "clear"
  BY <1>2, <1>3, JoinVerdictGiven
<1>5. joinStage'[j] = "over"
  BY <1>1, <1>2 DEF JoinTypes
<1>6. DecisionFits(j)'
  BY <1>1, <1>2, <1>5 DEF DecisionFits
<1>7. measure' = measure \/ \E a \in Actions : measure' = [measure EXCEPT ![j] = a]
  BY <1>1
<1> QED BY <1>1, <1>4, <1>6, <1>7, JoinMoves

\* The account is dealt with, and the verdict given.
LEMMA ReactFits ==
  ASSUME JoinInv, NEW j \in Joins, React(j)
  PROVE  JoinInv'
<1>1. /\ joinStage[j] = "reacting" /\ joinStage' = [joinStage EXCEPT ![j] = "over"]
      /\ \E done \in {"none", decision[j].action} : measure' = [measure EXCEPT ![j] = done]
      /\ JoinGate!GateFinish(j, VerdictOn(j)) /\ UNCHANGED <<decision, raidVars, switches, day>>
  BY DEF React
<1>2. JoinTypes /\ DecisionFits(j)
  BY DEF JoinInv
<1>3. /\ joinVerdict' = [x \in Joins |-> joinVerdict'[x]]
      /\ joinWait' = [x \in Watched |-> joinWait'[x]]
      /\ joinVerdict'[j] \in {VerdictOn(j), "none"}
      /\ \A x \in Joins \ {j} : joinVerdict'[x] \in {joinVerdict[x], "none"}
      /\ \A x \in Watched : joinWait'[x] = "clear" => joinWait[x] = "clear"
  BY <1>1, <1>2, JoinVerdictGiven
<1>4. PICK done \in {"none", decision[j].action} : measure' = [measure EXCEPT ![j] = done]
  BY <1>1
<1>5. joinStage'[j] = "over" /\ measure'[j] = done /\ done \in Actions
  BY <1>1, <1>2, <1>4 DEF JoinTypes, Actions
<1>6. DecisionFits(j)'
  BY <1>1, <1>2, <1>3, <1>5 DEF DecisionFits, VerdictOn
<1>7. measure' = measure \/ \E a \in Actions : measure' = [measure EXCEPT ![j] = a]
  BY <1>4, <1>5
<1>8. UNCHANGED <<decision, raidVars, day>>
  BY <1>1
<1> QED BY <1>1, <1>3, <1>6, <1>7, <1>8, JoinMoves

\* The welcome asks for the verdict, or a verdict grows old.
LEMMA WelcomeStepFits ==
  ASSUME JoinInv, Welcome \/ VerdictAges
  PROVE  JoinInv'
<1>1. /\ UNCHANGED <<joinStage, decision, measure, raidVars, switches, day>>
      /\ JoinGate!Listen \/ JoinGate!AgeSome
  BY DEF Welcome, VerdictAges
<1>2. JoinTypes /\ WritesFit /\ (\A x \in Joins : DecisionFits(x)) /\ \A x \in Watched : WelcomeFits(x)
  BY DEF JoinInv
<1>3. UNCHANGED <<joins, raidUntil, persisted, stored, writes, guarding, came, since, announced, lost>>
  BY <1>1 DEF raidVars
<1>4. /\ joinVerdict' = [x \in Joins |-> joinVerdict'[x]]
      /\ joinWait' = [x \in Watched |-> joinWait'[x]]
      /\ \A x \in Joins : joinVerdict'[x] \in {joinVerdict[x], "none"}
      /\ \A x \in Watched :
           joinWait'[x] = "clear" => joinWait[x] = "clear" \/ joinVerdict[x] = "clear"
  BY <1>1, <1>2, WelcomeTold
<1>5. JoinTypes' /\ WritesFit'
  BY <1>1, <1>2, <1>3, <1>4 DEF JoinTypes, WritesFit
<1>6. \A x \in Joins : DecisionFits(x)'
  BY <1>1, <1>2, <1>4 DEF DecisionFits
<1>7. ASSUME NEW x \in Watched PROVE WelcomeFits(x)'
  <2>1. WelcomeFits(x) /\ DecisionFits(x)
    BY <1>2, JoinAssumption
  <2> QED BY <1>1, <1>4, <2>1 DEF WelcomeFits, DecisionFits
<1> QED BY <1>1, <1>3, <1>5, <1>6, <1>7, RaidKept DEF JoinInv

\* A day passes.
LEMMA JoinTickFits ==
  ASSUME JoinInv, JoinTick
  PROVE  JoinInv'
<1>1. /\ day < MaxDay /\ day' = day + 1
      /\ UNCHANGED <<joinStage, decision, measure, raidVars, switches, joinGateVars>>
  BY DEF JoinTick
<1>2. UNCHANGED <<joins, raidUntil, persisted, stored, writes, guarding, came, since, announced, lost,
                  joinVerdict, joinWait>>
  BY <1>1 DEF raidVars, joinGateVars
<1>3. /\ JoinTypes /\ WritesFit /\ (\A x \in Joins : DecisionFits(x)) /\ (\A x \in Watched : WelcomeFits(x))
      /\ CameInOrder /\ JoinsCounted /\ ModeFollows /\ Bounded /\ StoredFollows
  BY DEF JoinInv
<1>4. MaxDay \in Nat /\ RaidCooldown \in Nat /\ day \in 1 .. MaxDay
  BY <1>3, JoinAssumption DEF JoinTypes, Days
<1>5. raidUntil \in Nat /\ persisted \in Nat /\ stored \in Nat /\ since \in Nat
  BY <1>3, <1>4 DEF JoinTypes, Untils
<1>6. writes \in Seq(Waiting) /\ \A i \in DOMAIN writes : writes[i].until \in Nat
  <2>1. DOMAIN writes = 1 .. Len(writes) /\ \A i \in 1 .. Len(writes) : writes[i] \in Waiting
    BY <1>3, LenProperties DEF WritesFit
  <2> QED BY <1>3, <1>4, <2>1 DEF WritesFit, Waiting, Untils
<1>7. JoinTypes' /\ WritesFit'
  <2>1. day' \in Days
    BY <1>1, <1>4 DEF Days
  <2>2. JoinTypes'
    BY <1>1, <1>2, <1>3, <2>1 DEF JoinTypes
  <2>3. WritesFit'
    <3>1. \A x \in Joins : (joinStage'[x] = "writing") = (joinStage[x] = "writing")
      BY <1>1
    <3> QED BY <1>2, <1>3, <3>1 DEF WritesFit
  <2> QED BY <2>2, <2>3
<1>8. CameInOrder'
  <2>1. \A i \in 1 .. Len(came) : came[i] \in Days
    BY <1>3, LenProperties DEF CameInOrder
  <2> QED BY <1>1, <1>2, <1>3, <1>4, <2>1 DEF CameInOrder, Days
<1>9. JoinsCounted'
  BY <1>2, <1>3 DEF JoinsCounted, LastOf
<1>10. ModeFollows'
  <2>1. \A u : CalledFor(u)' = CalledFor(u)
    BY <1>2 DEF CalledFor, Wave
  <2>2. ASSUME NEW u \in Untils, u > day' PROVE u > day
    BY <1>1, <1>4, <2>2 DEF Untils
  <2> QED BY <1>1, <1>2, <1>3, <1>4, <1>5, <2>1, <2>2 DEF ModeFollows
<1>11. Bounded'
  BY <1>1, <1>2, <1>3, <1>4, <1>5, <1>6 DEF Bounded
<1>12. StoredFollows'
  <2>1. Final' = Final /\ Final \in Nat
    <3>1. writes # <<>> => Len(writes) \in DOMAIN writes
      BY <1>6, LenProperties, EmptySeq
    <3> QED BY <1>2, <1>5, <1>6, <3>1 DEF Final
  <2> QED BY <1>1, <1>2, <1>3, <1>4, <1>5, <2>1 DEF StoredFollows
<1>13. (\A x \in Joins : DecisionFits(x)') /\ \A x \in Watched : WelcomeFits(x)'
  BY <1>1, <1>2, <1>3 DEF DecisionFits, WelcomeFits
<1>14. WavesAnnounced'
  <2>1. WavesAnnounced
    BY DEF JoinInv
  <2> QED BY <1>2, <2>1 DEF WavesAnnounced, Wave, Overfull, WasOn
<1> QED BY <1>7, <1>8, <1>9, <1>10, <1>11, <1>12, <1>13, <1>14 DEF JoinInv

\* The raid mode is switched off: nothing is counted, and the row is to be emptied.
LEMMA SwitchedOffFits ==
  ASSUME JoinInv, SwitchedOff, UNCHANGED <<joinStage, persisted, stored, lost, day>>
  PROVE  /\ CameInOrder' /\ JoinsCounted' /\ ModeFollows' /\ Bounded' /\ StoredFollows'
         /\ WavesAnnounced' /\ WritesFit' /\ {raidUntil', since'} \subseteq Untils
<1> DEFINE w == [by |-> {}, until |-> 0]
<1>1. /\ joins' = <<>> /\ raidUntil' = 0 /\ came' = <<>> /\ since' = 0 /\ announced' = {}
      /\ writes' = Append(writes, w)
  BY DEF SwitchedOff
<1>2. /\ JoinTypes /\ WritesFit /\ Bounded /\ MaxDay \in Nat /\ RaidCooldown \in Nat
      /\ writes \in Seq(Waiting) /\ day \in Nat
  <2>1. JoinTypes /\ WritesFit /\ Bounded
    BY DEF JoinInv
  <2>2. MaxDay \in Nat /\ RaidCooldown \in Nat
    BY JoinAssumption
  <2>3. writes \in Seq(Waiting)
    BY <2>1 DEF WritesFit
  <2>4. day \in Nat
    BY <2>1, <2>2 DEF JoinTypes, Days
  <2> QED BY <2>1, <2>2, <2>3, <2>4
<1>3. w \in Waiting /\ w.by = {} /\ w.until = 0
  BY <1>2 DEF Waiting, Untils
<1> HIDE DEF w
<1>4. /\ writes' \in Seq(Waiting) /\ Len(writes) \in Nat /\ Len(writes') = Len(writes) + 1
      /\ (\A i \in 1 .. Len(writes) : writes'[i] = writes[i]) /\ writes'[Len(writes) + 1] = w
      /\ writes' # <<>>
  BY <1>1, <1>2, <1>3, AppendProperties, LenProperties
<1>5. DOMAIN writes = 1 .. Len(writes) /\ DOMAIN writes' = 1 .. (Len(writes) + 1)
  BY <1>2, <1>4, LenProperties
<1>6. \A i \in DOMAIN writes' : (i \in DOMAIN writes /\ writes'[i] = writes[i]) \/ writes'[i] = w
  BY <1>4, <1>5
<1>7. \A i \in DOMAIN writes : i \in DOMAIN writes' /\ writes'[i] = writes[i]
  BY <1>4, <1>5
<1>8. WritesFit'
  <2>1. \A j \in Joins : (joinStage[j] = "writing") = (\E i \in DOMAIN writes' : j \in writes'[i].by)
    <3>1. ASSUME NEW j \in Joins
          PROVE  (\E i \in DOMAIN writes : j \in writes[i].by) <=> (\E i \in DOMAIN writes' : j \in writes'[i].by)
      BY <1>3, <1>6, <1>7
    <3> QED BY <1>2, <3>1 DEF WritesFit
  <2>2. ASSUME NEW i \in DOMAIN writes', NEW k \in DOMAIN writes', NEW j \in Joins,
               j \in writes'[i].by, j \in writes'[k].by
        PROVE  i = k
    <3>1. i \in DOMAIN writes /\ k \in DOMAIN writes /\ j \in writes[i].by /\ j \in writes[k].by
      BY <1>3, <1>6, <2>2
    <3> QED BY <1>2, <3>1 DEF WritesFit
  <2> QED BY <1>4, <2>1, <2>2 DEF WritesFit
<1>9. joins' \in Seq(Days) /\ came' \in Seq(Days) /\ Len(joins') = 0 /\ Len(came') = 0
  BY <1>1, EmptySeq
<1>10. CameInOrder' /\ JoinsCounted'
  <2>1. LastOf(joins, 0)' /\ 0 \in 0 .. Len(came')
    BY <1>9 DEF LastOf
  <2>2. CameInOrder'
    BY <1>9 DEF CameInOrder
  <2>3. JoinsCounted'
    BY <1>9, <2>1 DEF JoinsCounted, LastOf
  <2> QED BY <2>2, <2>3
<1>11. ModeFollows'
  BY <1>1, <1>2, <1>9 DEF ModeFollows, CalledFor
<1>12. Bounded'
  BY <1>1, <1>2, <1>3, <1>6 DEF Bounded
<1>13. StoredFollows'
  <2>1. Final' = 0
    BY <1>3, <1>4 DEF Final
  <2> QED BY <1>1, <1>2, <2>1 DEF StoredFollows
<1>14. {raidUntil', since'} \subseteq Untils
  BY <1>1, <1>2 DEF Untils
<1>15. WavesAnnounced'
  BY <1>1 DEF WavesAnnounced
<1> QED BY <1>8, <1>10, <1>11, <1>12, <1>13, <1>14, <1>15

\* The owner switches the mode or the guard.
LEMMA SwitchFits ==
  ASSUME JoinInv, Deactivate \/ SwitchGuard
  PROVE  JoinInv'
<1>1. /\ UNCHANGED <<joinStage, decision, measure, persisted, stored, lost, day, joinVerdict, joinWait>>
      /\ guarding' \in BOOLEAN
      /\ SwitchedOff \/ UNCHANGED <<joins, raidUntil, came, since, announced, writes>>
  BY DEF Deactivate, SwitchGuard, joinGateVars, JoinInv, JoinTypes
<1>2. JoinTypes /\ WritesFit /\ (\A x \in Joins : DecisionFits(x)) /\ \A x \in Watched : WelcomeFits(x)
  BY DEF JoinInv
<1>3. (\A x \in Joins : DecisionFits(x)') /\ \A x \in Watched : WelcomeFits(x)'
  BY <1>1, <1>2 DEF DecisionFits, WelcomeFits
<1>4. CASE SwitchedOff
  <2>1. /\ CameInOrder' /\ JoinsCounted' /\ ModeFollows' /\ Bounded' /\ StoredFollows'
        /\ WavesAnnounced' /\ WritesFit' /\ {raidUntil', since'} \subseteq Untils
    BY <1>1, <1>4, SwitchedOffFits
  <2>2. JoinTypes'
    BY <1>1, <1>2, <2>1 DEF JoinTypes
  <2> QED BY <1>3, <2>1, <2>2 DEF JoinInv
<1>5. CASE UNCHANGED <<joins, raidUntil, came, since, announced, writes>>
  <2>1. JoinTypes' /\ WritesFit'
    BY <1>1, <1>2, <1>5 DEF JoinTypes, WritesFit
  <2> QED BY <1>1, <1>3, <1>5, <2>1, RaidKept DEF JoinInv
<1> QED BY <1>1, <1>4, <1>5

\* The process stops and starts.
LEMMA JoinRestartFits ==
  ASSUME JoinInv, JoinRestart
  PROVE  JoinInv'
<1>1. /\ joinStage' = [j \in Joins |-> IF joinStage[j] \in {"begun", "writing", "reacting"} THEN "lost"
                                       ELSE joinStage[j]]
      /\ joins' = <<>> /\ came' = <<>> /\ announced' = {} /\ persisted' = 0 /\ writes' = <<>>
      /\ raidUntil' = stored' /\ since' = stored'
      /\ stored' = IF stored > day THEN stored ELSE 0
      /\ joinVerdict' = [j \in Joins |-> "none"]
      /\ joinWait' = [j \in Watched |-> IF joinWait[j] \in JoinGate!Answers THEN joinWait[j] ELSE "none"]
      /\ UNCHANGED <<decision, measure, guarding, lost, day>>
  BY DEF JoinRestart, RestoredMode
<1>2. /\ JoinTypes /\ WritesFit /\ (\A x \in Joins : DecisionFits(x)) /\ (\A x \in Watched : WelcomeFits(x))
      /\ Bounded
  BY DEF JoinInv
<1>3. /\ MaxDay \in Nat /\ RaidCooldown \in Nat /\ Granularity \in Nat \ {0} /\ day \in Nat
      /\ stored \in Untils /\ stored \in Nat
  BY <1>2, JoinAssumption DEF JoinTypes, Days, Untils
<1>4. stored' \in Untils /\ stored' \in Nat /\ stored' <= day + RaidCooldown
  BY <1>1, <1>2, <1>3 DEF Untils, Bounded
<1>5. /\ \A j \in Joins : joinStage'[j] \in {joinStage[j], "lost"} /\ joinStage'[j] # "writing"
      /\ \A j \in Joins : joinStage'[j] \in {"idle", "begun"} => joinStage[j] = joinStage'[j]
      /\ \A j \in Joins : joinStage[j] = "over" => joinStage'[j] = "over"
  BY <1>1
<1>6. JoinTypes'
  <2>1. joinStage' \in [Joins -> {"idle", "begun", "writing", "reacting", "over", "lost"}]
    BY <1>1, <1>2 DEF JoinTypes
  <2>2. 0 \in Untils
    BY <1>3 DEF Untils
  <2>3. {raidUntil', persisted', stored', since'} \subseteq Untils
    BY <1>1, <1>4, <2>2
  <2>4. /\ joinVerdict' = [j \in Joins |-> joinVerdict'[j]]
        /\ joinWait' = [j \in Watched |-> joinWait'[j]]
    BY <1>1
  <2> QED BY <1>1, <1>2, <2>1, <2>3, <2>4 DEF JoinTypes
<1>7. writes' \in Seq(Waiting) /\ DOMAIN writes' = {}
  BY <1>1, EmptySeq
<1>8. WritesFit'
  BY <1>5, <1>7 DEF WritesFit
<1>9. joins' \in Seq(Days) /\ came' \in Seq(Days) /\ Len(joins') = 0 /\ Len(came') = 0
  BY <1>1, EmptySeq
<1>10. CameInOrder' /\ JoinsCounted'
  <2>1. LastOf(joins, 0)' /\ 0 \in 0 .. Len(came')
    BY <1>9 DEF LastOf
  <2>2. CameInOrder'
    BY <1>9 DEF CameInOrder
  <2>3. JoinsCounted'
    BY <1>9, <2>1 DEF JoinsCounted, LastOf
  <2> QED BY <2>2, <2>3
<1>11. ModeFollows'
  BY <1>1, <1>4, <1>9 DEF ModeFollows, CalledFor
<1>12. Bounded'
  BY <1>1, <1>3, <1>4, <1>7 DEF Bounded
<1>13. StoredFollows'
  <2>1. Final' = stored'
    BY <1>1 DEF Final
  <2> QED BY <1>1, <1>3, <1>4, <1>7, <2>1 DEF StoredFollows
<1>14. \A j \in Joins : DecisionFits(j)'
  BY <1>1, <1>2, <1>5 DEF DecisionFits
<1>15. ASSUME NEW j \in Watched PROVE WelcomeFits(j)'
  <2>1. WelcomeFits(j) /\ j \in Joins
    BY <1>2, JoinAssumption
  <2>2. joinWait'[j] \in {joinWait[j], "none"}
    BY <1>1
  <2> QED BY <1>1, <1>5, <2>1, <2>2 DEF WelcomeFits
<1>16. WavesAnnounced'
  BY <1>1 DEF WavesAnnounced
<1> QED BY <1>6, <1>8, <1>10, <1>11, <1>12, <1>13, <1>14, <1>15, <1>16 DEF JoinInv

\* A write gets its turn.
LEMMA WriteStateFits ==
  ASSUME JoinInv, WriteState
  PROVE  JoinInv'
<1> DEFINE w == Head(writes)
<1>1. /\ writes # <<>> /\ writes' = Tail(writes)
      /\ \E ok \in BOOLEAN : /\ stored' = IF ok THEN w.until ELSE stored
                             /\ persisted' = MarkPersisted(ok, w) /\ lost' = (lost \/ ~ok)
      /\ joinStage' = [j \in Joins |-> IF j \in w.by THEN "reacting" ELSE joinStage[j]]
      /\ UNCHANGED <<decision, measure, joins, raidUntil, guarding, came, since, announced, day,
                     joinVerdict, joinWait>>
  BY DEF WriteState, joinGateVars
<1>2. /\ JoinTypes /\ WritesFit /\ (\A x \in Joins : DecisionFits(x)) /\ (\A x \in Watched : WelcomeFits(x))
      /\ Bounded /\ StoredFollows /\ CameInOrder /\ JoinsCounted /\ ModeFollows /\ WavesAnnounced
  BY DEF JoinInv
<1>3. writes \in Seq(Waiting) /\ MaxDay \in Nat /\ RaidCooldown \in Nat
  BY <1>2, JoinAssumption DEF WritesFit
<1>4. /\ Tail(writes) \in Seq(Waiting) /\ Len(Tail(writes)) = Len(writes) - 1
      /\ \A i \in 1 .. Len(Tail(writes)) : Tail(writes)[i] = writes[i + 1]
      /\ w \in Waiting /\ w = writes[1] /\ Len(writes) \in Nat /\ Len(writes) >= 1
  BY <1>1, <1>3, HeadTailProperties, EmptySeq, LenProperties
<1> HIDE DEF w
<1>5. DOMAIN writes = 1 .. Len(writes) /\ DOMAIN writes' = 1 .. (Len(writes) - 1)
      /\ 1 \in DOMAIN writes
  BY <1>1, <1>3, <1>4, LenProperties
<1>6. \A i \in DOMAIN writes' : i + 1 \in DOMAIN writes /\ writes'[i] = writes[i + 1] /\ i + 1 # 1
  BY <1>1, <1>4, <1>5
<1>7. \A i \in DOMAIN writes : i = 1 \/ (i - 1 \in DOMAIN writes' /\ writes'[i - 1] = writes[i])
  BY <1>4, <1>5, <1>6
<1>8. PICK ok \in BOOLEAN : /\ stored' = IF ok THEN w.until ELSE stored
                            /\ persisted' = MarkPersisted(ok, w) /\ lost' = (lost \/ ~ok)
  BY <1>1
<1>9. w.until \in Untils /\ w.by \subseteq Joins
  BY <1>4 DEF Waiting
<1>10. /\ \A j \in Joins : joinStage'[j] = IF j \in w.by THEN "reacting" ELSE joinStage[j]
       /\ \A j \in Joins : j \in w.by => joinStage[j] = "writing"
  BY <1>1, <1>2, <1>4, <1>5 DEF WritesFit
<1>11. JoinTypes'
  <2>1. joinStage' \in [Joins -> {"idle", "begun", "writing", "reacting", "over", "lost"}]
    BY <1>1, <1>2 DEF JoinTypes
  <2>2. {stored', persisted'} \subseteq Untils
    BY <1>2, <1>8, <1>9 DEF JoinTypes, MarkPersisted
  <2>3. lost' \in BOOLEAN
    BY <1>2, <1>8 DEF JoinTypes
  <2> QED BY <1>1, <1>2, <2>1, <2>2, <2>3 DEF JoinTypes
<1>12. WritesFit'
  <2>1. ASSUME NEW j \in Joins
        PROVE  (joinStage'[j] = "writing") = (\E i \in DOMAIN writes' : j \in writes'[i].by)
    <3>1. CASE j \in w.by
      <4>1. ASSUME NEW i \in DOMAIN writes', j \in writes'[i].by PROVE FALSE
        <5>1. j \in writes[i + 1].by /\ j \in writes[1].by /\ i + 1 \in DOMAIN writes /\ i + 1 # 1
          BY <1>4, <1>6, <3>1, <4>1
        <5> QED BY <1>2, <1>5, <5>1 DEF WritesFit
      <4> QED BY <1>10, <3>1, <4>1
    <3>2. CASE j \notin w.by
      <4>1. (\E i \in DOMAIN writes' : j \in writes'[i].by) <=> \E i \in DOMAIN writes : j \in writes[i].by
        BY <1>4, <1>6, <1>7, <3>2
      <4> QED BY <1>2, <1>10, <3>2, <4>1 DEF WritesFit
    <3> QED BY <3>1, <3>2
  <2>2. ASSUME NEW i \in DOMAIN writes', NEW k \in DOMAIN writes', NEW j \in Joins,
               j \in writes'[i].by, j \in writes'[k].by
        PROVE  i = k
    <3>1. i + 1 = k + 1
      BY <1>2, <1>6, <2>2 DEF WritesFit
    <3>2. i \in Int /\ k \in Int
      BY <1>4, <1>5
    <3> QED BY <3>1, <3>2
  <2> QED BY <1>1, <1>4, <2>1, <2>2 DEF WritesFit
<1>13. CameInOrder' /\ JoinsCounted' /\ ModeFollows'
  <2>1. CameInOrder' /\ JoinsCounted'
    BY <1>1, <1>2 DEF CameInOrder, JoinsCounted, LastOf
  <2> QED BY <1>1, <1>2, <2>1 DEF ModeFollows, CalledFor, Wave
<1>14. Bounded'
  <2>1. w.until <= day + RaidCooldown
    BY <1>2, <1>4, <1>5 DEF Bounded
  <2>2. \A i \in DOMAIN writes' : writes'[i].until <= day + RaidCooldown
    BY <1>2, <1>6 DEF Bounded
  <2> QED BY <1>1, <1>2, <1>8, <2>1, <2>2 DEF Bounded, MarkPersisted
<1>15. StoredFollows'
  <2> SUFFICES ASSUME ~lost' PROVE StoredFollows'
    BY DEF StoredFollows
  <2>1. ~lost /\ ok /\ stored' = w.until
    BY <1>2, <1>8 DEF JoinTypes
  <2>2. Final' = Final
    <3>1. CASE Len(writes) = 1
      <4>1. writes' = <<>>
        BY <1>1, <1>4, <3>1, EmptySeq
      <4> QED BY <1>1, <1>4, <2>1, <3>1, <4>1 DEF Final
    <3>2. CASE Len(writes) # 1
      <4>1. Len(writes) - 1 \in DOMAIN writes' /\ Len(writes') = Len(writes) - 1
        BY <1>1, <1>4, <1>5, <3>2
      <4>2. writes' # <<>>
        BY <4>1, EmptySeq
      <4> QED BY <1>1, <1>4, <1>6, <4>1, <4>2 DEF Final
    <3> QED BY <3>1, <3>2
  <2>3. ASSUME raidUntil > day
        PROVE  /\ Final + Granularity > raidUntil /\ persisted' <= Final
               /\ \A i \in DOMAIN writes' : writes'[i].until <= Final
    <3>1. /\ Final + Granularity > raidUntil /\ persisted <= Final
          /\ \A i \in DOMAIN writes : writes[i].until <= Final
      BY <1>2, <2>1, <2>3 DEF StoredFollows
    <3>2. w.until <= Final
      BY <1>4, <1>5, <3>1
    <3> QED BY <1>6, <1>8, <3>1, <3>2 DEF MarkPersisted
  <2> QED BY <1>1, <1>2, <2>1, <2>2, <2>3 DEF StoredFollows
<1>16. \A j \in Joins : DecisionFits(j)'
  BY <1>1, <1>2, <1>10 DEF DecisionFits
<1>17. ASSUME NEW j \in Watched PROVE WelcomeFits(j)'
  <2>1. WelcomeFits(j) /\ j \in Joins
    BY <1>2, JoinAssumption
  <2> QED BY <1>1, <1>10, <2>1 DEF WelcomeFits
<1>18. WavesAnnounced'
  BY <1>1, <1>2 DEF WavesAnnounced, Wave, Overfull, WasOn
<1> QED BY <1>11, <1>12, <1>13, <1>14, <1>15, <1>16, <1>17, <1>18 DEF JoinInv

\* The larger of two numbers, when it is known which one that is.
LEMMA MaxOfOrdered ==
  ASSUME NEW u \in Nat, NEW v \in Nat, u <= v
  PROVE  Max({u, v}) = v
<1>1. Max({u, v}) \in {u, v} /\ \A y \in {u, v} : Max({u, v}) >= y
  <2>1. \E x \in {u, v} : \A y \in {u, v} : x >= y
    BY u <= v
  <2> QED BY <2>1 DEF Max
<1> QED BY <1>1

\* The times still in the window are the last ones that came.
LEMMA WindowIs ==
  ASSUME JoinInv
  PROVE  \E s \in 0 .. Len(came) :
           /\ InWindow(joins) \in Seq(Days) /\ Len(InWindow(joins)) = Len(came) - s
           /\ \A i \in 1 .. Len(InWindow(joins)) : InWindow(joins)[i] = came[s + i]
           /\ \A i \in 1 .. s : day - came[i] > JoinWindow
           /\ \A i \in (s + 1) .. Len(came) : day - came[i] <= JoinWindow
<1> DEFINE fresh == {i \in DOMAIN joins : day - joins[i] <= JoinWindow}
           least == Min(fresh)
           n == Len(came)
           q == InWindow(joins)
<1>1. /\ JoinTypes /\ CameInOrder /\ JoinsCounted
      /\ JoinWindow \in Nat /\ MaxDay \in Nat
  BY JoinAssumption DEF JoinInv
<1>2. PICK s \in 0 .. n : LastOf(joins, s)
  BY <1>1 DEF JoinsCounted
<1>3. /\ n \in Nat /\ Len(joins) = n - s /\ joins \in Seq(Days) /\ DOMAIN joins = 1 .. (n - s)
      /\ day \in Nat
      /\ \A i \in 1 .. n : came[i] \in Nat /\ came[i] <= day
      /\ \A i, k \in 1 .. n : i < k => came[i] <= came[k]
      /\ \A i \in 1 .. (n - s) : joins[i] = came[s + i] /\ joins[i] \in Days
      /\ \A i \in 1 .. s : came[n] - came[i] > JoinWindow
  <2>1. n \in Nat /\ \A i \in 1 .. n : came[i] \in Days
    BY <1>1, LenProperties DEF CameInOrder
  <2>2. joins \in Seq(Days) /\ Len(joins) = n - s /\ DOMAIN joins = 1 .. Len(joins)
        /\ \A i \in 1 .. Len(joins) : joins[i] \in Days
    BY <1>1, <1>2, LenProperties DEF JoinsCounted, LastOf
  <2>3. day \in Nat /\ Days \subseteq Nat
    BY <1>1 DEF JoinTypes, Days
  <2> HIDE DEF n
  <2> QED BY <1>1, <1>2, <2>1, <2>2, <2>3 DEF CameInOrder, LastOf, n
<1>4. \A i \in 1 .. s : day - came[i] > JoinWindow
  <2>1. ASSUME NEW i \in 1 .. s PROVE day - came[i] > JoinWindow
    <3>1. n \in 1 .. n /\ i \in 1 .. n
      BY <1>3
    <3>2. came[n] - came[i] > JoinWindow /\ came[n] <= day /\ came[n] \in Nat /\ came[i] \in Nat
      BY <1>3, <3>1
    <3> QED BY <1>1, <1>3, <3>2
  <2> QED BY <2>1
<1>5. q = IF fresh = {} THEN <<>> ELSE SubSeq(joins, least, Len(joins))
  BY DEF InWindow
<1> HIDE DEF q
<1>6. CASE fresh = {}
  <2>1. q = <<>> /\ q \in Seq(Days) /\ Len(q) = 0
    BY <1>5, <1>6, EmptySeq
  <2>2. ASSUME NEW i \in 1 .. n PROVE day - came[i] > JoinWindow
    <3>1. CASE i \in 1 .. s
      BY <1>4, <3>1
    <3>2. CASE i \notin 1 .. s
      <4>1. i - s \in 1 .. (n - s) /\ s + (i - s) = i
        BY <1>3, <3>2
      <4>2. joins[i - s] = came[i] /\ ~ (day - joins[i - s] <= JoinWindow)
        BY <1>3, <1>6, <4>1
      <4>3. came[i] \in Nat
        BY <1>3
      <4> QED BY <1>1, <1>3, <4>2, <4>3
    <3> QED BY <3>1, <3>2
  <2>3. n \in 0 .. n /\ Len(q) = n - n /\ (1 .. Len(q)) = {} /\ ((n + 1) .. n) = {}
    BY <1>3, <2>1
  <2> QED BY <2>1, <2>2, <2>3 DEF q
<1>7. CASE fresh # {}
  <2>1. least \in fresh /\ \A i \in fresh : least <= i
    <3>1. fresh \in SUBSET Nat
      BY <1>3
    <3> QED BY <1>7, <3>1, MinIs
  <2>2. least \in 1 .. (n - s) /\ day - joins[least] <= JoinWindow
    BY <1>3, <2>1
  <2>3. \A i \in 1 .. (n - s) : i < least => ~ (day - joins[i] <= JoinWindow)
    <3>1. ASSUME NEW i \in 1 .. (n - s), i < least PROVE ~ (day - joins[i] <= JoinWindow)
      <4>1. i \notin fresh
        <5> HIDE DEF fresh, least
        <5>1. least \in Nat /\ i \in Nat
          BY <1>3, <2>2
        <5> QED BY <2>1, <3>1, <5>1
      <4> QED BY <1>3, <4>1
    <3> QED BY <3>1
  <2> HIDE DEF least, fresh
  <2> DEFINE t == s + least - 1
  <2>4. t \in 0 .. n /\ n - s = Len(joins) /\ Len(joins) - least + 1 = n - t
    BY <1>3, <2>2
  <2>5. q \in Seq(Days) /\ Len(q) = n - t /\ \A i \in 1 .. (n - t) : q[i] = joins[least + i - 1]
    <3>1. \A i \in least .. Len(joins) : joins[i] \in Days
      BY <1>3, <2>2, <2>4
    <3>2. least \in Int /\ Len(joins) \in Int /\ least <= Len(joins)
      BY <1>3, <2>2, <2>4
    <3>3. /\ SubSeq(joins, least, Len(joins)) \in Seq(Days)
          /\ Len(SubSeq(joins, least, Len(joins))) = Len(joins) - least + 1
          /\ \A i \in 1 .. Len(joins) - least + 1 : SubSeq(joins, least, Len(joins))[i] = joins[least + i - 1]
      BY <3>1, <3>2, SubSeqProperties
    <3> HIDE DEF t
    <3> QED BY <1>5, <1>7, <2>4, <3>3
  <2>6. ASSUME NEW i \in 1 .. (n - t) PROVE q[i] = came[t + i]
    <3>1. least + i - 1 \in 1 .. (n - s) /\ s + (least + i - 1) = t + i
      BY <1>3, <2>2, <2>4
    <3> QED BY <1>3, <2>5, <3>1
  <2>7. ASSUME NEW i \in 1 .. t PROVE day - came[i] > JoinWindow
    <3>1. CASE i \in 1 .. s
      BY <1>4, <3>1
    <3>2. CASE i \notin 1 .. s
      <4>1. i - s \in 1 .. (n - s) /\ s + (i - s) = i /\ i - s < least
        BY <1>3, <2>2, <2>4, <3>2
      <4>2. joins[i - s] = came[i] /\ ~ (day - joins[i - s] <= JoinWindow)
        BY <1>3, <2>3, <4>1
      <4>3. came[i] \in Nat
        <5>1. i \in 1 .. n
          BY <1>3, <2>4
        <5> QED BY <1>3, <5>1
      <4> QED BY <1>1, <1>3, <4>2, <4>3
    <3> QED BY <3>1, <3>2
  <2>8. ASSUME NEW i \in (t + 1) .. n PROVE day - came[i] <= JoinWindow
    <3>1. s + least \in 1 .. n /\ i \in 1 .. n /\ (i = s + least \/ s + least < i)
      BY <1>3, <2>2, <2>4
    <3>2. joins[least] = came[s + least]
      BY <1>3, <2>2
    <3>3. came[s + least] <= came[i] /\ came[i] \in Nat /\ came[s + least] \in Nat
      BY <1>3, <3>1
    <3> QED BY <1>1, <1>3, <2>2, <3>2, <3>3
  <2> HIDE DEF t
  <2> QED BY <2>4, <2>5, <2>6, <2>7, <2>8 DEF q
<1> QED BY <1>6, <1>7

\* A join is counted: it ends a wave exactly when the window holds enough.
LEMMA CountedNext ==
  ASSUME JoinInv, came' = Append(came, day), joins' = Append(InWindow(joins), day), day' = day
  PROVE  /\ CameInOrder' /\ JoinsCounted'
         /\ Len(came) \in Nat /\ Len(came') = Len(came) + 1 /\ came'[Len(came) + 1] = day
         /\ \A i \in 1 .. Len(came) : came'[i] = came[i] /\ Wave(i)' = Wave(i)
                                      /\ Overfull(i)' = Overfull(i)
         /\ \A k \in Nat : k = Len(came) + 1 =>
              /\ Wave(k)' <=> Len(InWindow(joins)) + 1 >= Threshold
              /\ Overfull(k)' <=> Len(InWindow(joins)) >= Threshold
         /\ Len(InWindow(joins)) \in Nat
<1> DEFINE n == Len(came)
           q == InWindow(joins)
<1>1. /\ JoinTypes /\ CameInOrder
      /\ JoinWindow \in Nat /\ MaxDay \in Nat /\ Threshold \in Nat /\ Threshold >= 1
  BY JoinAssumption DEF JoinInv
<1>2. PICK s \in 0 .. n :
        /\ q \in Seq(Days) /\ Len(q) = n - s
        /\ \A i \in 1 .. Len(q) : q[i] = came[s + i]
        /\ \A i \in 1 .. s : day - came[i] > JoinWindow
        /\ \A i \in (s + 1) .. n : day - came[i] <= JoinWindow
  BY WindowIs
<1>3. /\ n \in Nat /\ came \in Seq(Days) /\ day \in Days /\ day \in Nat
      /\ \A i \in 1 .. n : came[i] \in Days /\ came[i] \in Nat /\ came[i] <= day
      /\ \A i, k \in 1 .. n : i < k => came[i] <= came[k]
  <2>1. n \in Nat /\ \A i \in 1 .. n : came[i] \in Days
    BY <1>1, LenProperties DEF CameInOrder
  <2>2. day \in Days /\ day \in Nat /\ Days \subseteq Nat
    BY <1>1 DEF JoinTypes, Days
  <2> HIDE DEF n
  <2> QED BY <1>1, <2>1, <2>2 DEF CameInOrder, n
<1> HIDE DEF q
<1>4. /\ came' \in Seq(Days) /\ Len(came') = n + 1 /\ came'[n + 1] = day
      /\ \A i \in 1 .. n : came'[i] = came[i]
  BY <1>3, AppendProperties
<1>5. /\ joins' \in Seq(Days) /\ Len(joins') = n - s + 1 /\ joins'[n - s + 1] = day
      /\ \A i \in 1 .. (n - s) : joins'[i] = came[s + i]
  <2>1. joins' = Append(q, day)
    BY DEF q
  <2>2. /\ joins' \in Seq(Days) /\ Len(joins') = Len(q) + 1 /\ joins'[Len(q) + 1] = day
        /\ \A i \in 1 .. Len(q) : joins'[i] = q[i]
    BY <1>2, <1>3, <2>1, AppendProperties
  <2> HIDE DEF n
  <2> QED BY <1>2, <2>2
<1> HIDE DEF n
<1>6. CameInOrder'
  <2>1. ASSUME NEW i \in 1 .. (n + 1), NEW k \in 1 .. (n + 1), i < k PROVE came'[i] <= came'[k]
    <3>1. i \in 1 .. n /\ (k = n + 1 \/ k \in 1 .. n)
      BY <1>3, <2>1
    <3> QED BY <1>3, <1>4, <2>1, <3>1
  <2>2. ASSUME NEW i \in 1 .. (n + 1) PROVE came'[i] <= day
    <3>1. i = n + 1 \/ i \in 1 .. n
      BY <1>3
    <3> QED BY <1>3, <1>4, <3>1
  <2> QED BY <1>4, <2>1, <2>2 DEF CameInOrder
<1>7. JoinsCounted'
  <2>1. ASSUME NEW i \in 1 .. (n - s + 1) PROVE joins'[i] = came'[s + i]
    <3>1. CASE i = n - s + 1
      <4>1. s + i = n + 1
        BY <1>3, <3>1
      <4> QED BY <1>4, <1>5, <3>1, <4>1
    <3>2. CASE i # n - s + 1
      <4>1. i \in 1 .. (n - s) /\ s + i \in 1 .. n
        BY <1>3, <3>2
      <4> QED BY <1>4, <1>5, <4>1
    <3> QED BY <3>1, <3>2
  <2>2. ASSUME NEW i \in 1 .. s PROVE came'[n + 1] - came'[i] > JoinWindow
    <3>1. i \in 1 .. n
      BY <1>3
    <3> QED BY <1>2, <1>4, <3>1
  <2>3. Len(joins') = Len(came') - s /\ s \in 0 .. Len(came')
    BY <1>3, <1>4, <1>5
  <2>4. LastOf(joins, s)'
    BY <1>4, <1>5, <2>1, <2>2, <2>3 DEF LastOf
  <2> QED BY <1>5, <2>3, <2>4 DEF JoinsCounted, LastOf
<1>8. ASSUME NEW i \in 1 .. n
      PROVE  came'[i] = came[i] /\ Wave(i)' = Wave(i) /\ Overfull(i)' = Overfull(i)
  <2>1. came'[i] = came[i]
    BY <1>4
  <2>2. i >= Threshold => i - Threshold + 1 \in 1 .. n
    BY <1>1, <1>3
  <2>3. i >= Threshold => came'[i - Threshold + 1] = came[i - Threshold + 1]
    BY <1>4, <2>2
  <2>4. i > Threshold => i - Threshold \in 1 .. n
    BY <1>1, <1>3
  <2>5. i > Threshold => came'[i - Threshold] = came[i - Threshold]
    BY <1>4, <2>4
  <2> QED BY <2>1, <2>3, <2>5 DEF Wave, Overfull
<1>9. ASSUME NEW k \in Nat, k = n + 1 PROVE Wave(k)' <=> (n - s + 1 >= Threshold)
  <2> DEFINE f == k - Threshold + 1
  <2>1. Wave(k)' <=> n + 1 >= Threshold /\ day - came'[f] <= JoinWindow
    BY <1>4, <1>9 DEF Wave
  <2>2. CASE n - s + 1 >= Threshold
    <3>1. n + 1 >= Threshold /\ f \in (s + 1) .. (n + 1) /\ (f = n + 1 \/ f \in (s + 1) .. n)
      BY <1>1, <1>3, <1>9, <2>2
    <3>2. CASE f = n + 1
      <4>1. came'[f] = day
        BY <1>4, <3>2
      <4>2. day - came'[f] <= JoinWindow
        BY <1>1, <1>3, <4>1
      <4> HIDE DEF f
      <4> QED BY <2>1, <2>2, <3>1, <4>2
    <3>3. CASE f \in (s + 1) .. n
      <4>1. f \in 1 .. n
        BY <1>3, <3>3
      <4> HIDE DEF f
      <4> QED BY <1>2, <1>4, <2>1, <2>2, <3>1, <3>3, <4>1
    <3> QED BY <3>1, <3>2, <3>3
  <2>3. CASE ~ (n - s + 1 >= Threshold) /\ n + 1 >= Threshold
    <3>1. f \in 1 .. s /\ f \in 1 .. n
      BY <1>1, <1>3, <1>9, <2>3
    <3> HIDE DEF f
    <3>2. came'[f] = came[f] /\ day - came[f] > JoinWindow /\ came[f] \in Nat
      BY <1>2, <1>3, <1>4, <3>1
    <3> QED BY <1>1, <1>3, <2>1, <2>3, <3>2
  <2>4. CASE ~ (n - s + 1 >= Threshold) /\ ~ (n + 1 >= Threshold)
    BY <2>1, <2>4
  <2> QED BY <2>2, <2>3, <2>4
<1>10. ASSUME NEW k \in Nat, k = n + 1 PROVE Overfull(k)' <=> (n - s >= Threshold)
  <2> DEFINE f == k - Threshold
  <2>1. Overfull(k)' <=> n >= Threshold /\ day - came'[f] <= JoinWindow
    BY <1>1, <1>3, <1>4, <1>10 DEF Overfull
  <2>2. n >= Threshold => f \in 1 .. n
    BY <1>1, <1>3, <1>10
  <2>3. CASE n - s >= Threshold
    <3>1. n >= Threshold /\ f \in (s + 1) .. n
      BY <1>1, <1>3, <1>10, <2>3
    <3> HIDE DEF f
    <3> QED BY <1>2, <1>4, <2>1, <2>2, <2>3, <3>1
  <2>4. CASE ~ (n - s >= Threshold) /\ n >= Threshold
    <3>1. f \in 1 .. s /\ f \in 1 .. n
      BY <1>1, <1>3, <1>10, <2>4
    <3> HIDE DEF f
    <3>2. came'[f] = came[f] /\ day - came[f] > JoinWindow /\ came[f] \in Nat
      BY <1>2, <1>3, <1>4, <3>1
    <3> QED BY <1>1, <1>3, <2>1, <2>4, <3>2
  <2>5. CASE ~ (n - s >= Threshold) /\ ~ (n >= Threshold)
    BY <2>1, <2>5
  <2> QED BY <2>3, <2>4, <2>5
<1>11. Len(q) = n - s /\ Len(q) \in Nat
  BY <1>2, <1>3
<1> QED BY <1>3, <1>4, <1>6, <1>7, <1>8, <1>9, <1>10, <1>11 DEF n, q

\* The join that comes now is told the owner as a raid.
MakesWave ==
  \/ Len(InWindow(joins)) < Threshold /\ Threshold <= Len(InWindow(joins)) + 1
  \/ Len(InWindow(joins)) + 1 >= Threshold /\ ~(raidUntil > day)

\* A join is judged: what is decided, and how long the mode is to last.
LEMMA EvaluateIs ==
  ASSUME JoinInv, NEW j \in Joins, Evaluate(j)
  PROVE  \E until \in Nat, write \in BOOLEAN, wave \in BOOLEAN :
           /\ wave <=> Len(InWindow(joins)) + 1 >= Threshold
           /\ until = IF wave THEN day + RaidCooldown ELSE raidUntil
           /\ raidUntil' = IF until > day THEN until ELSE 0
           /\ write => until > day
           /\ until > day /\ ~write => raidUntil > day /\ until - persisted < Granularity
           /\ writes' = IF write THEN Append(writes, [by |-> {j}, until |-> until]) ELSE writes
           /\ joinStage' = [joinStage EXCEPT ![j] = IF write THEN "writing" ELSE "reacting"]
           /\ \E raid \in BOOLEAN, mode \in BOOLEAN :
                /\ raid <=> MakesWave
                /\ announced' = announced \cup (IF raid THEN {Len(came')} ELSE {})
                /\ decision' = [decision EXCEPT ![j] =
                                  [raid |-> raid, mode |-> mode, action |-> ActionOn(mode, Risk(j))]]
<1> DEFINE was == raidUntil > day
           inside == InWindow(joins)
           count == Len(inside) + 1
           triggered == (Len(inside) < Threshold /\ Threshold <= count) \/ (count >= Threshold /\ ~was)
           until == IF triggered \/ (was /\ count >= Threshold) THEN Max({raidUntil, day + RaidCooldown})
                    ELSE raidUntil
           mode == until > day
           write == mode /\ (triggered \/ until - persisted >= Granularity)
           wave == count >= Threshold
<1>1. /\ raidUntil' = IF mode THEN until ELSE 0
      /\ decision' = [decision EXCEPT ![j] =
                        [raid |-> triggered, mode |-> mode, action |-> ActionOn(mode, Risk(j))]]
      /\ writes' = IF write THEN Append(writes, [by |-> {j}, until |-> until]) ELSE writes
      /\ joinStage' = [joinStage EXCEPT ![j] = IF write THEN "writing" ELSE "reacting"]
      /\ announced' = announced \cup (IF triggered THEN {Len(came')} ELSE {})
  BY DEF Evaluate
<1>2. /\ Len(inside) \in Nat /\ Threshold \in Nat /\ RaidCooldown \in Nat /\ day \in Nat
      /\ Granularity \in Nat /\ raidUntil \in Nat /\ persisted \in Nat /\ raidUntil <= day + RaidCooldown
  <2>1. JoinTypes /\ Bounded /\ MaxDay \in Nat /\ RaidCooldown \in Nat
    BY JoinAssumption DEF JoinInv
  <2>2. inside \in Seq(Days)
    BY WindowIs
  <2>3. Len(inside) \in Nat
    BY <2>2, LenProperties
  <2> HIDE DEF inside
  <2> QED BY <2>1, <2>3, JoinAssumption DEF JoinTypes, Bounded, Days, Untils
<1>a. triggered <=> MakesWave
  BY DEF MakesWave
<1> HIDE DEF inside
<1>3. Max({raidUntil, day + RaidCooldown}) = day + RaidCooldown
  BY <1>2, MaxOfOrdered
<1>4. (triggered \/ (was /\ count >= Threshold)) <=> wave
  BY <1>2
<1>5. until = IF wave THEN day + RaidCooldown ELSE raidUntil
  BY <1>3, <1>4
<1>6. until > day /\ ~was => triggered
  BY <1>2, <1>4, <1>5
<1> HIDE DEF wave, triggered
<1>7. until \in Nat
  BY <1>2, <1>5
<1> HIDE DEF until
<1>8. until > day /\ ~write => raidUntil > day /\ until - persisted < Granularity
  BY <1>2, <1>6, <1>7
<1>9. write => until > day
  OBVIOUS
<1>10. triggered \in BOOLEAN /\ wave \in BOOLEAN
  BY DEF triggered, wave
<1>11. write \in BOOLEAN /\ mode \in BOOLEAN
  OBVIOUS
<1>12. \E raid \in BOOLEAN, m \in BOOLEAN :
         /\ raid <=> MakesWave
         /\ announced' = announced \cup (IF raid THEN {Len(came')} ELSE {})
         /\ decision' = [decision EXCEPT ![j] =
                           [raid |-> raid, mode |-> m, action |-> ActionOn(m, Risk(j))]]
  <2> HIDE DEF mode
  <2> QED BY <1>1, <1>a, <1>10, <1>11
<1>13. wave <=> Len(InWindow(joins)) + 1 >= Threshold
  BY DEF wave, inside
<1>14. raidUntil' = IF until > day THEN until ELSE 0
  BY <1>1
<1> HIDE DEF write, mode
<1> QED BY <1>1, <1>5, <1>7, <1>8, <1>9, <1>10, <1>11, <1>12, <1>13, <1>14

\* The mode follows the join that was counted.
LEMMA ModeFollowsNext ==
  ASSUME JoinInv, NEW until \in Nat, NEW wave \in BOOLEAN,
         wave <=> Len(InWindow(joins)) + 1 >= Threshold,
         until = IF wave THEN day + RaidCooldown ELSE raidUntil,
         raidUntil' = IF until > day THEN until ELSE 0,
         came' = Append(came, day), joins' = Append(InWindow(joins), day), UNCHANGED <<since, day>>
  PROVE  ModeFollows'
<1>1. /\ Len(came) \in Nat /\ Len(came') = Len(came) + 1 /\ came'[Len(came) + 1] = day
      /\ \A i \in 1 .. Len(came) : came'[i] = came[i] /\ Wave(i)' = Wave(i)
      /\ \A k \in Nat : k = Len(came) + 1 => (Wave(k)' <=> wave)
  BY CountedNext
<1>2. /\ JoinTypes /\ Bounded /\ ModeFollows /\ RaidCooldown \in Nat \ {0} /\ MaxDay \in Nat
  BY JoinAssumption DEF JoinInv
<1>3. day \in Nat /\ raidUntil \in Nat /\ raidUntil \in Untils /\ raidUntil <= day + RaidCooldown
  BY <1>2 DEF JoinTypes, Bounded, Days, Untils
<1>4. ASSUME NEW u PROVE CalledFor(u)' <=> CalledFor(u) \/ (wave /\ u = day + RaidCooldown)
  <2>1. CalledFor(u)' <=> u = since \/ \E i \in 1 .. (Len(came) + 1) : Wave(i)' /\ u = came'[i] + RaidCooldown
    BY <1>1 DEF CalledFor
  <2>2. \A i \in 1 .. (Len(came) + 1) : i \in 1 .. Len(came) \/ (i = Len(came) + 1 /\ i \in Nat)
    BY <1>1
  <2>3. \A i \in 1 .. Len(came) : i \in 1 .. (Len(came) + 1)
    BY <1>1
  <2>4. Len(came) + 1 \in 1 .. (Len(came) + 1) /\ Len(came) + 1 \in Nat
    BY <1>1
  <2>5. ASSUME CalledFor(u)' PROVE CalledFor(u) \/ (wave /\ u = day + RaidCooldown)
    <3>1. CASE u = since
      BY <3>1 DEF CalledFor
    <3>2. CASE \E i \in 1 .. (Len(came) + 1) : Wave(i)' /\ u = came'[i] + RaidCooldown
      <4>1. PICK i \in 1 .. (Len(came) + 1) : Wave(i)' /\ u = came'[i] + RaidCooldown
        BY <3>2
      <4>2. CASE i \in 1 .. Len(came)
        <5>1. Wave(i) /\ u = came[i] + RaidCooldown
          BY <1>1, <4>1, <4>2
        <5> QED BY <4>2, <5>1 DEF CalledFor
      <4>3. CASE i = Len(came) + 1 /\ i \in Nat
        BY <1>1, <4>1, <4>3
      <4> QED BY <2>2, <4>2, <4>3
    <3> QED BY <2>1, <2>5, <3>1, <3>2
  <2>6. ASSUME CalledFor(u) PROVE CalledFor(u)'
    <3>1. CASE u = since
      BY <2>1, <3>1
    <3>2. CASE \E i \in 1 .. Len(came) : Wave(i) /\ u = came[i] + RaidCooldown
      <4>1. PICK i \in 1 .. Len(came) : Wave(i) /\ u = came[i] + RaidCooldown
        BY <3>2
      <4>2. Wave(i)' /\ u = came'[i] + RaidCooldown
        BY <1>1, <4>1
      <4> QED BY <2>1, <2>3, <4>2
    <3> QED BY <2>6, <3>1, <3>2 DEF CalledFor
  <2>7. ASSUME wave, u = day + RaidCooldown PROVE CalledFor(u)'
    <3>1. PICK k \in Nat : k = Len(came) + 1
      BY <2>4
    <3>2. Wave(k)' /\ u = came'[k] + RaidCooldown /\ k \in 1 .. (Len(came) + 1)
      BY <1>1, <2>4, <2>7, <3>1
    <3> QED BY <2>1, <3>2
  <2> QED BY <2>5, <2>6, <2>7
<1>5. ASSUME NEW u \in Untils, CalledFor(u)', u > day PROVE raidUntil' >= u
  <2>1. u \in Nat
    BY <1>2 DEF Untils
  <2>2. CASE wave /\ u = day + RaidCooldown
    BY <1>2, <1>3, <1>5, <2>2
  <2>3. CASE CalledFor(u)
    <3>1. raidUntil >= u
      BY <1>2, <1>5, <2>3 DEF ModeFollows
    <3>2. until >= raidUntil
      BY <1>2, <1>3
    <3> QED BY <1>3, <1>5, <2>1, <3>1, <3>2
  <2> QED BY <1>4, <1>5, <2>2, <2>3
<1>6. ASSUME raidUntil' > day PROVE CalledFor(raidUntil)'
  <2>1. raidUntil' = until /\ until > day
    BY <1>3, <1>6
  <2>2. CalledFor(until)'
    <3>1. CASE wave
      BY <1>4, <2>1, <3>1
    <3>2. CASE ~ wave
      <4>1. CalledFor(raidUntil) /\ until = raidUntil
        BY <1>2, <2>1, <3>2 DEF ModeFollows
      <4> QED BY <1>4, <4>1
    <3> QED BY <3>1, <3>2
  <2> QED BY <2>1, <2>2 DEF CalledFor
<1> QED BY <1>5, <1>6 DEF ModeFollows

\* So does what the owner is told.
LEMMA WavesAnnouncedNext ==
  ASSUME JoinInv, NEW raid \in BOOLEAN, raid <=> MakesWave,
         announced' = announced \cup (IF raid THEN {Len(came')} ELSE {}),
         came' = Append(came, day), joins' = Append(InWindow(joins), day), UNCHANGED <<since, day>>
  PROVE  WavesAnnounced'
<1> DEFINE n == Len(came)
           inside == Len(InWindow(joins))
           Told1(i) == Wave(i) /\ ~(Overfull(i) /\ WasOn(i))
<1>1. /\ n \in Nat /\ Len(came') = n + 1 /\ came'[n + 1] = day /\ inside \in Nat
      /\ \A i \in 1 .. n : came'[i] = came[i] /\ Wave(i)' = Wave(i) /\ Overfull(i)' = Overfull(i)
      /\ \A k \in Nat : k = n + 1 => /\ Wave(k)' <=> inside + 1 >= Threshold
                                     /\ Overfull(k)' <=> inside >= Threshold
      /\ CameInOrder'
  BY CountedNext
<1>2. /\ JoinTypes /\ CameInOrder /\ ModeFollows /\ WavesAnnounced
      /\ RaidCooldown \in Nat /\ MaxDay \in Nat /\ Threshold \in Nat
  BY JoinAssumption DEF JoinInv
<1>3. DOMAIN came = 1 .. n /\ DOMAIN came' = 1 .. (n + 1) /\ \A i \in 1 .. n : came[i] \in Days
  BY <1>1, <1>2, LenProperties DEF CameInOrder
<1>4. since \in Untils /\ since \in Nat /\ raidUntil \in Untils /\ raidUntil \in Nat /\ day \in Nat
  BY <1>2 DEF JoinTypes, Untils, Days
<1> HIDE DEF n, inside
<1>5. ASSUME NEW i \in 1 .. n PROVE WasOn(i)' = WasOn(i)
  <2>1. \A k \in 1 .. (i - 1) : came'[k] = came[k] /\ Wave(k)' = Wave(k)
    BY <1>1, <1>5
  <2>2. came'[i] = came[i] /\ since' = since
    BY <1>1, <1>5
  <2> QED BY <2>1, <2>2 DEF WasOn
<1>6. ASSUME NEW k \in Nat, k = n + 1 PROVE WasOn(k)' <=> raidUntil > day
  <2>1. WasOn(k)' <=> since > day \/ \E i \in 1 .. n : Wave(i) /\ came[i] + RaidCooldown > day
    <3>1. WasOn(k)' <=> since > day \/ \E i \in 1 .. (k - 1) : Wave(i)' /\ came'[i] + RaidCooldown > day
      BY <1>1, <1>6 DEF WasOn
    <3>2. 1 .. (k - 1) = 1 .. n
      BY <1>1, <1>6
    <3> QED BY <1>1, <3>1, <3>2
  <2>2. (since > day \/ \E i \in 1 .. n : Wave(i) /\ came[i] + RaidCooldown > day)
          <=> \E u \in Untils : CalledFor(u) /\ u > day
    <3>1. \A i \in 1 .. n : came[i] + RaidCooldown \in Untils
      BY <1>2, <1>3 DEF Days, Untils
    <3> QED BY <1>4, <3>1 DEF CalledFor, n
  <2>3. (\E u \in Untils : CalledFor(u) /\ u > day) <=> raidUntil > day
    <3>1. ASSUME NEW u \in Untils, CalledFor(u), u > day PROVE raidUntil > day
      <4>1. u \in Nat /\ raidUntil >= u
        BY <1>2, <3>1 DEF ModeFollows, Untils
      <4> QED BY <1>4, <3>1, <4>1
    <3> QED BY <1>2, <1>4, <3>1 DEF ModeFollows
  <2> QED BY <2>1, <2>2, <2>3
<1>7. ASSUME NEW i \in 1 .. n PROVE Told1(i)' <=> i \in announced
  <2>1. Told1(i)' <=> Told1(i)
    BY <1>1, <1>5
  <2>2. i \in announced <=> Told1(i)
    BY <1>2, <1>3 DEF WavesAnnounced
  <2> QED BY <2>1, <2>2
<1>8. ASSUME NEW k \in Nat, k = n + 1 PROVE Told1(k)' <=> raid
  <2>1. MakesWave <=> \/ inside < Threshold /\ Threshold <= inside + 1
                      \/ inside + 1 >= Threshold /\ ~(raidUntil > day)
    BY DEF MakesWave, inside
  <2>2. Told1(k)' <=> inside + 1 >= Threshold /\ ~(inside >= Threshold /\ raidUntil > day)
    BY <1>1, <1>6, <1>8
  <2> QED BY <1>1, <1>2, <2>1, <2>2
<1>9. announced \subseteq 1 .. n
  BY <1>2, <1>3 DEF WavesAnnounced
<1>10. announced' = {i \in 1 .. (n + 1) : Told1(i)'}
  <2>1. \A i \in 1 .. (n + 1) : i \in 1 .. n \/ (i = n + 1 /\ i \in Nat)
    BY <1>1
  <2>2. n + 1 \in 1 .. (n + 1) /\ n + 1 \in Nat /\ n + 1 \notin 1 .. n /\ 1 .. n \subseteq 1 .. (n + 1)
    BY <1>1
  <2>3. announced' = announced \cup (IF raid THEN {n + 1} ELSE {})
    BY <1>1
  <2> HIDE DEF Told1
  <2> QED BY <1>7, <1>8, <1>9, <2>1, <2>2, <2>3
<1> QED BY <1>3, <1>10 DEF WavesAnnounced

\* The database follows the mode when a join is counted.
LEMMA StoredFollowsNext ==
  ASSUME JoinInv, NEW j \in Joins, NEW until \in Nat, NEW write \in BOOLEAN, NEW wave \in BOOLEAN,
         until = IF wave THEN day + RaidCooldown ELSE raidUntil,
         raidUntil' = IF until > day THEN until ELSE 0,
         write => until > day,
         until > day /\ ~write => raidUntil > day /\ until - persisted < Granularity,
         writes' = IF write THEN Append(writes, [by |-> {j}, until |-> until]) ELSE writes,
         UNCHANGED <<persisted, stored, lost, day>>
  PROVE  Bounded' /\ StoredFollows'
<1> DEFINE w == [by |-> {j}, until |-> until]
<1>1. /\ JoinTypes /\ Bounded /\ WritesFit /\ StoredFollows
      /\ RaidCooldown \in Nat \ {0} /\ MaxDay \in Nat /\ Granularity \in Nat \ {0}
  BY JoinAssumption DEF JoinInv
<1>2. day \in Days /\ day \in Nat /\ raidUntil \in Nat /\ persisted \in Nat /\ stored \in Nat
  BY <1>1 DEF JoinTypes, Days, Untils
<1>3. writes \in Seq(Waiting) /\ DOMAIN writes = 1 .. Len(writes) /\ Len(writes) \in Nat
      /\ \A i \in DOMAIN writes : writes[i].until \in Nat
  <2>1. writes \in Seq(Waiting) /\ DOMAIN writes = 1 .. Len(writes) /\ Len(writes) \in Nat
    BY <1>1, LenProperties DEF WritesFit
  <2>2. \A i \in DOMAIN writes : writes[i] \in Waiting
    BY <2>1, LenProperties
  <2> QED BY <1>1, <2>1, <2>2 DEF Waiting, Untils
<1>4. Final \in Nat /\ Final <= day + RaidCooldown
  <2>1. writes # <<>> => Len(writes) \in DOMAIN writes
    BY <1>3, EmptySeq
  <2> QED BY <1>1, <1>2, <1>3, <2>1 DEF Final, Bounded
<1>5. until <= day + RaidCooldown /\ raidUntil' <= day + RaidCooldown /\ until >= raidUntil
  BY <1>1, <1>2 DEF Bounded
<1>6. /\ persisted <= day + RaidCooldown /\ stored <= day + RaidCooldown
      /\ \A i \in DOMAIN writes : writes[i].until <= day + RaidCooldown
  BY <1>1 DEF Bounded
<1>7. CASE ~write
  <2>1. writes' = writes /\ Final' = Final
    BY <1>7 DEF Final
  <2>2. Bounded'
    BY <1>5, <1>6, <2>1 DEF Bounded
  <2>3. CASE until > day
    <3>1. raidUntil' = until /\ raidUntil > day /\ until - persisted < Granularity
      BY <1>7, <2>3
    <3>2. ASSUME ~lost
          PROVE  /\ Final + Granularity > until /\ persisted <= Final
                 /\ \A i \in DOMAIN writes : writes[i].until <= Final
                 /\ Final > day => until >= Final
      <4>1. /\ persisted <= Final /\ \A i \in DOMAIN writes : writes[i].until <= Final
            /\ Final > day => raidUntil >= Final
        BY <1>1, <3>1, <3>2 DEF StoredFollows
      <4> QED BY <1>1, <1>2, <1>4, <1>5, <3>1, <4>1
    <3>3. StoredFollows'
      BY <2>1, <3>1, <3>2 DEF StoredFollows
    <3> QED BY <2>2, <3>3
  <2>4. CASE ~ (until > day)
    <3>1. raidUntil' = 0 /\ ~ (raidUntil > day)
      BY <1>2, <1>5, <2>4
    <3>2. ~lost => ~ (Final > day)
      BY <1>1, <1>2, <1>4, <3>1 DEF StoredFollows
    <3> QED BY <1>1, <1>2, <2>1, <2>2, <3>1, <3>2 DEF StoredFollows
  <2> QED BY <2>3, <2>4
<1>8. CASE write
  <2>1. raidUntil' = until /\ until > day
    BY <1>8
  <2>2. w \in Waiting
    <3>1. until \in Untils
      BY <1>1, <1>2, <1>5 DEF Untils, Days
    <3> QED BY <3>1 DEF Waiting
  <2>3. w.until = until
    OBVIOUS
  <2>4. writes' = Append(writes, w)
    BY <1>8
  <2> HIDE DEF w
  <2>5. /\ writes' \in Seq(Waiting) /\ Len(writes') = Len(writes) + 1 /\ writes'[Len(writes) + 1] = w
        /\ (\A i \in 1 .. Len(writes) : writes'[i] = writes[i]) /\ writes' # <<>>
    BY <1>3, <2>2, <2>4, AppendProperties
  <2>6. DOMAIN writes' = 1 .. (Len(writes) + 1)
    BY <2>5, LenProperties
  <2>7. \A i \in DOMAIN writes' : (i \in DOMAIN writes /\ writes'[i] = writes[i]) \/ writes'[i] = w
    BY <1>3, <2>5, <2>6
  <2>8. Final' = until
    BY <2>3, <2>5 DEF Final
  <2>9. Bounded'
    BY <1>5, <1>6, <2>3, <2>7 DEF Bounded
  <2>10. ASSUME ~lost
         PROVE  persisted <= until /\ \A i \in DOMAIN writes : writes[i].until <= until
    <3>1. CASE wave
      BY <1>6, <3>1
    <3>2. CASE ~wave
      <4>1. raidUntil = until /\ raidUntil > day
        BY <2>1, <3>2
      <4>2. persisted <= Final /\ \A i \in DOMAIN writes : writes[i].until <= Final
        BY <1>1, <2>10, <4>1 DEF StoredFollows
      <4>3. Final <= until
        <5>1. CASE Final > day
          BY <1>1, <1>2, <1>4, <2>10, <4>1, <5>1 DEF StoredFollows
        <5>2. CASE ~ (Final > day)
          BY <1>2, <1>4, <2>1, <5>2
        <5> QED BY <5>1, <5>2
      <4> QED BY <1>2, <1>3, <1>4, <4>2, <4>3
    <3> QED BY <3>1, <3>2
  <2>11. ASSUME ~lost
         PROVE  persisted <= until /\ \A i \in DOMAIN writes' : writes'[i].until <= until
    <3>1. persisted <= until /\ \A i \in DOMAIN writes : writes[i].until <= until
      BY <2>10, <2>11
    <3> QED BY <2>3, <2>7, <3>1
  <2>12. StoredFollows'
    BY <1>1, <1>2, <2>1, <2>8, <2>11 DEF StoredFollows
  <2> QED BY <2>9, <2>12
<1> QED BY <1>7, <1>8

\* A join is judged.
LEMMA EvaluateFits ==
  ASSUME JoinInv, NEW j \in Joins, Evaluate(j)
  PROVE  JoinInv'
<1>1. /\ joinStage[j] = "begun" /\ joins' = Append(InWindow(joins), day) /\ came' = Append(came, day)
      /\ UNCHANGED <<measure, persisted, stored, guarding, since, lost, switches, day, joinVerdict, joinWait>>
  BY DEF Evaluate, joinGateVars
<1>2. PICK until \in Nat : \E write \in BOOLEAN, wave \in BOOLEAN :
           /\ wave <=> Len(InWindow(joins)) + 1 >= Threshold
           /\ until = IF wave THEN day + RaidCooldown ELSE raidUntil
           /\ raidUntil' = IF until > day THEN until ELSE 0
           /\ write => until > day
           /\ until > day /\ ~write => raidUntil > day /\ until - persisted < Granularity
           /\ writes' = IF write THEN Append(writes, [by |-> {j}, until |-> until]) ELSE writes
           /\ joinStage' = [joinStage EXCEPT ![j] = IF write THEN "writing" ELSE "reacting"]
           /\ \E raid \in BOOLEAN, mode \in BOOLEAN :
                /\ raid <=> MakesWave
                /\ announced' = announced \cup (IF raid THEN {Len(came')} ELSE {})
                /\ decision' = [decision EXCEPT ![j] =
                                  [raid |-> raid, mode |-> mode, action |-> ActionOn(mode, Risk(j))]]
  BY EvaluateIs
<1>3. PICK write \in BOOLEAN, wave \in BOOLEAN :
           /\ wave <=> Len(InWindow(joins)) + 1 >= Threshold
           /\ until = IF wave THEN day + RaidCooldown ELSE raidUntil
           /\ raidUntil' = IF until > day THEN until ELSE 0
           /\ write => until > day
           /\ until > day /\ ~write => raidUntil > day /\ until - persisted < Granularity
           /\ writes' = IF write THEN Append(writes, [by |-> {j}, until |-> until]) ELSE writes
           /\ joinStage' = [joinStage EXCEPT ![j] = IF write THEN "writing" ELSE "reacting"]
           /\ \E raid \in BOOLEAN, mode \in BOOLEAN :
                /\ raid <=> MakesWave
                /\ announced' = announced \cup (IF raid THEN {Len(came')} ELSE {})
                /\ decision' = [decision EXCEPT ![j] =
                                  [raid |-> raid, mode |-> mode, action |-> ActionOn(mode, Risk(j))]]
  BY <1>2
<1>4. /\ JoinTypes /\ WritesFit /\ Bounded
      /\ (\A x \in Joins : DecisionFits(x)) /\ \A x \in Watched : WelcomeFits(x)
  BY DEF JoinInv
<1>5. CameInOrder' /\ JoinsCounted'
  BY <1>1, CountedNext
<1>6. ModeFollows'
  BY <1>1, <1>3, ModeFollowsNext
<1>7. Bounded' /\ StoredFollows'
  BY <1>1, <1>3, StoredFollowsNext
<1>8. until \in Untils
  <2>1. raidUntil \in Untils /\ day \in 1 .. MaxDay /\ MaxDay \in Nat /\ RaidCooldown \in Nat
    BY <1>4, JoinAssumption DEF JoinTypes, Days
  <2> QED BY <1>3, <2>1 DEF Untils
<1>9. PICK raid \in BOOLEAN, mode \in BOOLEAN :
        /\ raid <=> MakesWave
        /\ announced' = announced \cup (IF raid THEN {Len(came')} ELSE {})
        /\ decision' = [decision EXCEPT ![j] =
                          [raid |-> raid, mode |-> mode, action |-> ActionOn(mode, Risk(j))]]
  BY <1>3
<1>a. WavesAnnounced'
  BY <1>1, <1>9, WavesAnnouncedNext
<1> DEFINE made == [raid |-> raid, mode |-> mode, action |-> ActionOn(mode, Risk(j))]
<1>10. /\ made \in [raid : BOOLEAN, mode : BOOLEAN, action : Actions]
       /\ made.mode = mode /\ made.action = ActionOn(mode, Risk(j))
  <2>1. ActionOn(mode, Risk(j)) \in Actions
    BY JoinAssumption DEF ActionOn, Actions
  <2> QED BY <2>1
<1> HIDE DEF made
<1>11. /\ decision' \in [Joins -> [raid : BOOLEAN, mode : BOOLEAN, action : Actions]]
       /\ decision'[j] = made /\ \A x \in Joins \ {j} : decision'[x] = decision[x]
  BY <1>4, <1>9, <1>10 DEF JoinTypes, made
<1>12. /\ joinStage' \in [Joins -> {"idle", "begun", "writing", "reacting", "over", "lost"}]
       /\ joinStage'[j] = (IF write THEN "writing" ELSE "reacting")
       /\ \A x \in Joins \ {j} : joinStage'[x] = joinStage[x]
  BY <1>3, <1>4 DEF JoinTypes
<1>13. JoinTypes'
  <2>1. raidUntil' \in Untils
    <3>1. 0 \in Untils
      BY JoinAssumption DEF Untils
    <3> QED BY <1>3, <1>8, <3>1
  <2> QED BY <1>1, <1>4, <1>11, <1>12, <2>1 DEF JoinTypes
<1>14. WritesFit'
  <2>1. CASE ~write
    <3>1. \A x \in Joins : (joinStage'[x] = "writing") = (joinStage[x] = "writing")
      BY <1>1, <1>12, <2>1
    <3>2. writes' = writes
      BY <1>3, <2>1
    <3> QED BY <1>4, <3>1, <3>2 DEF WritesFit
  <2>2. CASE write
    <3> DEFINE w == [by |-> {j}, until |-> until]
    <3>1. w \in Waiting /\ w.by = {j}
      BY <1>8 DEF Waiting
    <3>2. writes' = Append(writes, w)
      BY <1>3, <2>2
    <3> HIDE DEF w
    <3>3. writes \in Seq(Waiting) /\ DOMAIN writes = 1 .. Len(writes) /\ Len(writes) \in Nat
      BY <1>4, LenProperties DEF WritesFit
    <3>4. /\ writes' \in Seq(Waiting) /\ Len(writes') = Len(writes) + 1
          /\ writes'[Len(writes) + 1] = w /\ \A i \in 1 .. Len(writes) : writes'[i] = writes[i]
      BY <3>1, <3>2, <3>3, AppendProperties
    <3>5. DOMAIN writes' = 1 .. (Len(writes) + 1)
      BY <3>4, LenProperties
    <3>6. \A i \in DOMAIN writes' : (i \in DOMAIN writes /\ writes'[i] = writes[i])
                                    \/ (i = Len(writes) + 1 /\ writes'[i] = w)
      BY <3>3, <3>4, <3>5
    <3>7. (\A i \in DOMAIN writes : i \in DOMAIN writes' /\ writes'[i] = writes[i])
          /\ Len(writes) + 1 \in DOMAIN writes'
      BY <3>3, <3>4, <3>5
    <3>8. \A i \in DOMAIN writes : j \notin writes[i].by
      BY <1>1, <1>4 DEF WritesFit
    <3>9. ASSUME NEW x \in Joins
          PROVE  (joinStage'[x] = "writing") = (\E i \in DOMAIN writes' : x \in writes'[i].by)
      <4>1. CASE x = j
        BY <1>12, <2>2, <3>1, <3>4, <3>7, <4>1
      <4>2. CASE x # j
        <5>1. (\E i \in DOMAIN writes' : x \in writes'[i].by) <=> \E i \in DOMAIN writes : x \in writes[i].by
          BY <3>1, <3>6, <3>7, <4>2
        <5>2. joinStage'[x] = joinStage[x]
          BY <1>12, <4>2
        <5> QED BY <1>4, <5>1, <5>2 DEF WritesFit
      <4> QED BY <4>1, <4>2
    <3>10. ASSUME NEW i \in DOMAIN writes', NEW k \in DOMAIN writes', NEW x \in Joins,
                  x \in writes'[i].by, x \in writes'[k].by
           PROVE  i = k
      <4>1. CASE x = j
        <5>1. i = Len(writes) + 1 /\ k = Len(writes) + 1
          BY <3>6, <3>8, <3>10, <4>1
        <5> QED BY <5>1
      <4>2. CASE x # j
        <5>1. /\ i \in DOMAIN writes /\ x \in writes[i].by
              /\ k \in DOMAIN writes /\ x \in writes[k].by
          BY <3>1, <3>6, <3>10, <4>2
        <5> QED BY <1>4, <5>1 DEF WritesFit
      <4> QED BY <4>1, <4>2
    <3> QED BY <3>4, <3>9, <3>10 DEF WritesFit
  <2> QED BY <2>1, <2>2
<1>15. ASSUME NEW x \in Joins PROVE DecisionFits(x)'
  <2>1. CASE x = j
    <3>1. DecisionFits(j) /\ joinVerdict[j] # "clear" /\ measure[j] = "none"
      BY <1>1, <1>4 DEF DecisionFits
    <3> QED BY <1>1, <1>10, <1>11, <1>12, <2>1, <3>1 DEF DecisionFits
  <2>2. CASE x # j
    BY <1>1, <1>4, <1>11, <1>12, <2>2 DEF DecisionFits
  <2> QED BY <2>1, <2>2
<1>16. ASSUME NEW x \in Watched PROVE WelcomeFits(x)'
  <2>1. WelcomeFits(x) /\ x \in Joins
    BY <1>4, JoinAssumption
  <2> QED BY <1>1, <1>11, <1>12, <2>1 DEF WelcomeFits
<1> QED BY <1>5, <1>6, <1>7, <1>a, <1>13, <1>14, <1>15, <1>16 DEF JoinInv

\* Every step keeps the invariant.
LEMMA JoinInvStep == JoinInv /\ [JoinNext]_joinVars => JoinInv'
<1> SUFFICES ASSUME JoinInv, [JoinNext]_joinVars PROVE JoinInv'
  OBVIOUS
<1>1. CASE \E j \in Joins : JoinArrive(j) \/ PassUnguarded(j) \/ Evaluate(j) \/ React(j)
  BY <1>1, JoinArriveFits, PassUnguardedFits, EvaluateFits, ReactFits
<1>2. CASE WriteState
  BY <1>2, WriteStateFits
<1>3. CASE Deactivate \/ SwitchGuard
  BY <1>3, SwitchFits
<1>4. CASE JoinRestart
  BY <1>4, JoinRestartFits
<1>5. CASE JoinTick
  BY <1>5, JoinTickFits
<1>6. CASE Welcome \/ VerdictAges
  BY <1>6, WelcomeStepFits
<1>7. CASE UNCHANGED joinVars
  <2>1. UNCHANGED <<joinStage, decision, measure, joins, raidUntil, persisted, stored, writes, guarding,
                    came, since, announced, lost, day, joinVerdict, joinWait>>
    BY <1>7 DEF joinVars, raidVars, joinGateVars
  <2>2. JoinTypes /\ WritesFit /\ (\A x \in Joins : DecisionFits(x)) /\ \A x \in Watched : WelcomeFits(x)
    BY DEF JoinInv
  <2>3. JoinTypes' /\ WritesFit'
    BY <2>1, <2>2 DEF JoinTypes, WritesFit
  <2>4. (\A x \in Joins : DecisionFits(x)') /\ \A x \in Watched : WelcomeFits(x)'
    BY <2>1, <2>2 DEF DecisionFits, WelcomeFits
  <2> QED BY <2>1, <2>3, <2>4, RaidKept DEF JoinInv
<1> QED BY <1>1, <1>2, <1>3, <1>4, <1>5, <1>6, <1>7 DEF JoinNext

\* The inductive invariant holds throughout.
LEMMA JoinSafe == JoinSpec => []JoinInv
BY JoinInvInit, JoinInvStep, PTL DEF JoinSpec

\* Only a real sign of abuse adds up to more than what two cosmetic signals do.
LEMMA RiskHasCause ==
  ASSUME NEW j \in Joins
  PROVE  /\ Risk(j) \in Nat
         /\ Risk(j) > 2 => Signals[j] \cap {"newborn", "fresh", "invite", "gibberish"} # {}
<1>1. /\ Weight(j, "newborn") \in {0, 4} /\ (Weight(j, "newborn") # 0 => "newborn" \in Signals[j])
      /\ Weight(j, "fresh") \in {0, 2} /\ (Weight(j, "fresh") # 0 => "fresh" \in Signals[j])
      /\ Weight(j, "noAvatar") \in {0, 1}
      /\ Weight(j, "invite") \in {0, 4} /\ (Weight(j, "invite") # 0 => "invite" \in Signals[j])
      /\ Weight(j, "digits") \in {0, 1}
      /\ Weight(j, "gibberish") \in {0, 2} /\ (Weight(j, "gibberish") # 0 => "gibberish" \in Signals[j])
  BY DEF Weight, Weights
<1>2. Risk(j) \in Nat
  BY <1>1 DEF Risk
<1>3. ASSUME Risk(j) > 2
      PROVE  \/ Weight(j, "newborn") # 0 \/ Weight(j, "fresh") # 0
             \/ Weight(j, "invite") # 0 \/ Weight(j, "gibberish") # 0
  BY <1>1, <1>3 DEF Risk
<1> QED BY <1>1, <1>2, <1>3

\* A finite set of times has a latest one.
LEMMA MaxIs ==
  ASSUME NEW bound \in Nat, NEW T \in SUBSET (0 .. bound), T # {}
  PROVE  Max(T) \in T /\ \A y \in T : Max(T) >= y
<1> DEFINE D == {x \in 0 .. bound : bound - x \in T}
<1>1. D \in SUBSET Nat /\ D # {}
  <2>1. PICK x \in T : TRUE
    OBVIOUS
  <2>2. bound - x \in 0 .. bound /\ bound - (bound - x) = x
    OBVIOUS
  <2>3. bound - x \in D
    BY <2>2
  <2>4. D \in SUBSET Nat
    OBVIOUS
  <2> HIDE DEF D
  <2> QED BY <2>3, <2>4
<1>2. PICK d \in D : \A y \in D : d <= y
  BY <1>1, NatLeast
<1>3. bound - d \in T /\ \A y \in T : bound - d >= y
  <2>1. ASSUME NEW y \in T PROVE bound - d >= y
    <3>1. bound - y \in 0 .. bound /\ bound - (bound - y) = y
      OBVIOUS
    <3>2. d <= bound - y /\ d \in 0 .. bound
      BY <1>2, <3>1
    <3> QED BY <3>1, <3>2
  <2> QED BY <1>2, <2>1
<1> HIDE DEF D
<1>4. \E x \in T : \A y \in T : x >= y
  BY <1>3
<1> QED BY <1>4 DEF Max

\* Whoever joins is let in, restricted or kept out for what is known of this join;
\* the raid mode in memory is on exactly as long as the waves of joins and the owner
\* call for, the owner is told of each join that makes a wave, and a
\* restart brings back that mode unless a write failed, for any number of joins,
\* writes waiting and restarts (cogs/logging_events.py:633, 651-655,
\* antiraid.py:85-130, 196-202, cogs/security.py:419-432).
THEOREM JoinsAreSound == JoinSpec => []JoinsSound
<1>1. JoinInv => JoinsSound
  <2> SUFFICES ASSUME JoinInv PROVE JoinsSound
    OBVIOUS
  <2>1. /\ JoinTypes /\ WritesFit /\ CameInOrder /\ JoinsCounted /\ ModeFollows /\ Bounded /\ StoredFollows
        /\ (\A j \in Joins : DecisionFits(j)) /\ (\A j \in Watched : WelcomeFits(j))
        /\ WavesAnnounced /\ MaxDay \in Nat /\ RaidCooldown \in Nat
    BY JoinAssumption DEF JoinInv
  <2>2. JoinTypeOK
    <3>1. joins \in Seq(1 .. MaxDay) /\ came \in Seq(1 .. MaxDay)
      BY <2>1 DEF JoinsCounted, CameInOrder, Days
    <3>2. \A j \in Joins : (joinStage[j] = "writing") = (\E i \in DOMAIN writes : j \in writes[i].by)
      BY <2>1 DEF WritesFit
    <3> QED BY <2>1, <3>1, <3>2 DEF JoinTypeOK, JoinTypes, Actions, Untils
  <2>3. RolesNotInRaid
    BY <2>1 DEF RolesNotInRaid, WelcomeFits
  <2>4. KickNeedsCause
    <3>1. ASSUME NEW j \in Joins
          PROVE  /\ measure[j] \in {"kick", "ban"} =>
                      decision[j].mode /\ Signals[j] \cap {"newborn", "fresh", "invite", "gibberish"} # {}
                 /\ measure[j] = "quarantine" => decision[j].mode /\ Risk(j) >= 2
      <4>1. DecisionFits(j) /\ Risk(j) \in Nat /\ decision[j].mode \in BOOLEAN
        BY <2>1, RiskHasCause DEF JoinTypes
      <4>2. measure[j] \notin {"none", "alert"} => /\ measure[j] = ActionOn(decision[j].mode, Risk(j))
        BY <2>1, <4>1 DEF DecisionFits, JoinTypes
      <4>3. measure[j] \in {"kick", "ban"} => decision[j].mode /\ Risk(j) > 2
        BY <4>1, <4>2, JoinAssumption DEF ActionOn
      <4>4. measure[j] = "quarantine" => decision[j].mode /\ Risk(j) >= 2
        BY <4>1, <4>2, JoinAssumption DEF ActionOn
      <4> QED BY <4>3, <4>4, RiskHasCause
    <3> QED BY <3>1 DEF KickNeedsCause
  <2>5. RaidModeByWaves
    <3> DEFINE untils == {since} \cup {came[i] + RaidCooldown : i \in {x \in DOMAIN came : Wave(x)}}
    <3>1. DOMAIN came = 1 .. Len(came) /\ \A i \in DOMAIN came : came[i] \in Days
      BY <2>1, LenProperties DEF CameInOrder
    <3>2. \A u : u \in untils <=> CalledFor(u)
      BY <3>1 DEF CalledFor
    <3>3. \A u \in untils : u \in Untils
      BY <2>1, <3>1 DEF Untils, Days, JoinTypes
    <3>4. untils # {}
      OBVIOUS
    <3> HIDE DEF untils
    <3>5. Max(untils) \in untils /\ \A u \in untils : Max(untils) >= u
      <4>1. untils \in SUBSET (0 .. (MaxDay + RaidCooldown)) /\ MaxDay + RaidCooldown \in Nat
        BY <2>1, <3>3 DEF Untils
      <4> QED BY <3>4, <4>1, MaxIs
    <3>6. raidUntil \in Nat /\ day \in Nat /\ Max(untils) \in Nat /\ raidUntil \in Untils
      BY <2>1, <3>3, <3>5 DEF JoinTypes, Days, Untils
    <3>7. ASSUME Max(untils) > day PROVE raidUntil = Max(untils)
      <4>1. raidUntil >= Max(untils)
        BY <2>1, <3>2, <3>3, <3>5, <3>7 DEF ModeFollows
      <4>2. raidUntil \in untils
        BY <2>1, <3>2, <3>6, <3>7, <4>1 DEF ModeFollows
      <4> QED BY <3>5, <3>6, <4>1, <4>2
    <3>8. ASSUME raidUntil > day PROVE Max(untils) > day
      <4>1. raidUntil \in untils
        BY <2>1, <3>2, <3>8 DEF ModeFollows
      <4> QED BY <3>5, <3>6, <3>8, <4>1
    <3> QED BY <3>7, <3>8 DEF RaidModeByWaves, untils
  <2>6. StoredModeFollows
    <3>1. writes = <<>> => Final = stored
      BY DEF Final
    <3> QED BY <2>1, <3>1 DEF StoredFollows, StoredModeFollows
  <2> QED BY <2>1, <2>2, <2>3, <2>4, <2>5, <2>6 DEF JoinsSound
<1> QED BY <1>1, JoinSafe, PTL

-----------------------------------------------------------------------------
(* The memories of reputations.                                             *)

\* What the memories hold: nothing that was not said, and nothing for longer than it was
\* said for; the check adds a second at most to the life of an answer of Google's.
GoogleFit ==
  /\ IsFiniteSet(DOMAIN google) /\ Cardinality(DOMAIN google) <= EntryLimit
  /\ \A l \in DOMAIN google : /\ l \in Links /\ google[l] \in GoogleEntries
                              /\ google[l].until = google[l].ends /\ <<l, google[l].bad>> \in said
OuterFit ==
  \A l \in DOMAIN outer : /\ l \in Links /\ outer[l] \in GoogleEntries
                          /\ outer[l].until <= outer[l].ends + LeastLife /\ <<l, outer[l].bad>> \in said
DatedFit(memory, things) ==
  \A t \in DOMAIN memory : /\ t \in things /\ memory[t] \in DatedEntries
                           /\ memory[t].since <= moment /\ <<t, memory[t].bad>> \in said
MemoriesFit ==
  /\ moment \in 0..MaxMoment /\ GoogleFit /\ OuterFit
  /\ DatedFit(total, Links) /\ DatedFit(scanned, Files) /\ DatedFit(judged, Links)

\* What a user waits for.
AskedFit(u) ==
  /\ asking[u] \in {"google", "total", "model"} => about[u] \subseteq Links
  /\ asking[u] = "file" => about[u] \subseteq Files
  /\ asking[u] \in {"google", "total", "file"} => \E x \in Links \cup Files : about[u] = {x}
  /\ asking[u] \in {"free", "going"} => about[u] = {}
  /\ asking[u] = "google" => moment <= turn[u] + Patience
AskingFit ==
  /\ asking \in [Users -> {"free", "going", "google", "total", "model", "file"}]
  /\ about \in [Users -> SUBSET (Links \cup Files)] /\ turn \in [Users -> Nat]
  /\ \A u \in Users : turn[u] <= moment /\ AskedFit(u)

\* What a check has found was said.
ChecksFit ==
  /\ left \in [Checkers -> SUBSET Links] /\ found \in [Checkers -> SUBSET Links]
  /\ \A c \in Checkers : \A l \in found[c] : <<l, TRUE>> \in said

\* The inductive invariant.
MarkInv == MemoriesFit /\ AskingFit /\ ChecksFit /\ UsedInTime

-----------------------------------------------------------------------------
\* The memories.

\* What is cut keeps the entries that stay.
LEMMA DroppingKeeps ==
  ASSUME NEW memory, NEW things
  PROVE  /\ DOMAIN Dropping(things, memory) = DOMAIN memory \ things
         /\ \A t \in DOMAIN Dropping(things, memory) : Dropping(things, memory)[t] = memory[t]
BY DEF Dropping, Restrict

\* And so does a memory that is cut to its limit.
LEMMA CutKeeps ==
  ASSUME NEW memory
  PROVE  /\ DOMAIN Cut(memory) \subseteq DOMAIN memory
         /\ \A t \in DOMAIN Cut(memory) : Cut(memory)[t] = memory[t]
<1>1. CASE Cardinality(DOMAIN memory) <= EntryLimit
  BY <1>1 DEF Cut
<1>2. CASE ~(Cardinality(DOMAIN memory) <= EntryLimit)
  <2>1. PICK gone : Cut(memory) = Dropping(gone, memory)
    BY <1>2 DEF Cut
  <2>2. /\ DOMAIN Dropping(gone, memory) = DOMAIN memory \ gone
        /\ \A t \in DOMAIN Dropping(gone, memory) : Dropping(gone, memory)[t] = memory[t]
    BY DroppingKeeps
  <2>3. DOMAIN Cut(memory) = DOMAIN memory \ gone
    BY <2>1, <2>2
  <2>4. \A t \in DOMAIN Cut(memory) : Cut(memory)[t] = memory[t]
    BY <2>1, <2>2
  <2> QED BY <2>3, <2>4
<1> QED BY <1>1, <1>2

\* An entry is put in for some things; the others keep theirs.
LEMMA WithHas ==
  ASSUME NEW memory, NEW things, NEW entry
  PROVE  /\ DOMAIN With(memory, things, entry) = DOMAIN memory \cup things
         /\ \A t \in DOMAIN memory \cup things :
              With(memory, things, entry)[t] = IF t \in things THEN entry ELSE memory[t]
BY DEF With

\* Of a finite set with ranks one can take the least few.
LEMMA LeastFew ==
  ASSUME NEW D, IsFiniteSet(D), NEW r \in [D -> Nat], NEW k \in Nat, k <= Cardinality(D)
  PROVE  \E s \in SUBSET D : Cardinality(s) = k /\ \A a \in s, b \in D \ s : r[a] <= r[b]
<1> DEFINE Good(n) == \E s \in SUBSET D : Cardinality(s) = n /\ \A a \in s, b \in D \ s : r[a] <= r[b]
           Bad == {n \in Nat : n <= Cardinality(D) /\ ~Good(n)}
<1>1. Cardinality(D) \in Nat
  BY FS_CardinalityType
<1>2. SUFFICES ASSUME Bad # {} PROVE FALSE
  OBVIOUS
<1>3. PICK n \in Bad : \A y \in Bad : n <= y
  BY <1>2, NatLeast
<1>4. Good(0)
  <2>1. {} \in SUBSET D /\ Cardinality({}) = 0
    BY FS_EmptySet
  <2> QED BY <2>1
<1>5. n \in Nat /\ n # 0 /\ n <= Cardinality(D)
  BY <1>3, <1>4
<1>6. PICK p \in Nat : n = p + 1
  <2>1. n - 1 \in Nat /\ n = (n - 1) + 1
    BY <1>5
  <2> QED BY <2>1
<1>7. Good(p)
  BY <1>1, <1>3, <1>5, <1>6
<1>8. PICK s \in SUBSET D : Cardinality(s) = p /\ \A a \in s, b \in D \ s : r[a] <= r[b]
  BY <1>7
<1>9. IsFiniteSet(s)
  BY FS_Subset
<1>10. D \ s # {}
  <2>1. D \ s = {} => s = D
    OBVIOUS
  <2>2. Cardinality(s) # Cardinality(D)
    BY <1>1, <1>5, <1>6, <1>8
  <2> QED BY <2>1, <2>2
<1>11. PICK x \in D \ s : \A b \in D \ s : r[x] <= r[b]
  <2> DEFINE T == {r[b] : b \in D \ s}
  <2>1. T \in SUBSET Nat /\ T # {}
    BY <1>10
  <2>2. PICK y \in T : \A z \in T : y <= z
    <3> HIDE DEF T
    <3> QED BY <2>1, NatLeast
  <2> QED BY <2>2
<1>12. Cardinality(s \cup {x}) = n
  <2>1. Cardinality(s \cup {x}) = Cardinality(s) + 1
    BY <1>9, <1>11, FS_AddElement
  <2> QED BY <1>6, <1>8, <2>1
<1>13. \A a \in s \cup {x}, b \in D \ (s \cup {x}) : r[a] <= r[b]
  BY <1>8, <1>11
<1>14. Good(n)
  BY <1>12, <1>13
<1> QED BY <1>3, <1>14

\* A memory with one entry more than its limit is within it when it is cut.
LEMMA CutBounds ==
  ASSUME NEW memory, IsFiniteSet(DOMAIN memory), \A t \in DOMAIN memory : memory[t] \in GoogleEntries,
         Cardinality(DOMAIN memory) <= EntryLimit + 1
  PROVE  IsFiniteSet(DOMAIN Cut(memory)) /\ Cardinality(DOMAIN Cut(memory)) <= EntryLimit
<1> DEFINE D == DOMAIN memory
           half == EntryLimit \div 2
           Fits(s) == \A a \in s, b \in D \ s : Order(memory[a]) <= Order(memory[b])
<1>1. EntryLimit \in Nat /\ EntryLimit >= 2 /\ half \in Nat /\ half >= 1 /\ half <= EntryLimit
  BY ReputationAssumption
<1>2. Cardinality(D) \in Nat
  BY FS_CardinalityType
<1>3. CASE Cardinality(D) <= EntryLimit
  BY <1>3 DEF Cut
<1>4. CASE ~(Cardinality(D) <= EntryLimit)
  <2>1. Cardinality(D) = EntryLimit + 1
    BY <1>1, <1>2, <1>4
  <2>2. \A t \in D : Order(memory[t]) \in Nat
    <3> SUFFICES ASSUME NEW t \in D PROVE Order(memory[t]) \in Nat
      OBVIOUS
    <3>1. memory[t] \in [bad : BOOLEAN, until : Nat \ {0}, ends : Nat \ {0}]
      BY DEF GoogleEntries
    <3>2. "until" \in DOMAIN memory[t] /\ memory[t].until \in Nat
      BY <3>1
    <3> QED BY <3>2 DEF Order
  <2>3. PICK r \in [D -> Nat] : \A t \in D : r[t] = Order(memory[t])
    <3> DEFINE f == [t \in D |-> Order(memory[t])]
    <3>1. f \in [D -> Nat] /\ \A t \in D : f[t] = Order(memory[t])
      BY <2>2
    <3> QED BY <3>1
  <2> HIDE DEF D, half
  <2>4. IsFiniteSet(D) /\ half <= Cardinality(D)
    BY <1>1, <2>1 DEF D
  <2>5. PICK s \in SUBSET D : Cardinality(s) = half /\ \A a \in s, b \in D \ s : r[a] <= r[b]
    BY <1>1, <2>4, LeastFew
  <2>6. s \in kSubset(half, D) /\ Fits(s)
    BY <2>3, <2>5 DEF kSubset
  <2>7. PICK gone \in kSubset(half, D) : Cut(memory) = Dropping(gone, memory)
    <3> HIDE DEF Fits
    <3>1. PICK gone : gone = CHOOSE x \in kSubset(half, D) : Fits(x)
      OBVIOUS
    <3>2. gone \in kSubset(half, D)
      BY <2>6, <3>1
    <3>3. Cut(memory) = Dropping(gone, memory)
      BY <1>4, <3>1 DEF Cut, Fits, D, half
    <3> QED BY <3>2, <3>3
  <2>8. gone \in SUBSET D /\ Cardinality(gone) = half
    BY <2>7 DEF kSubset
  <2>9. DOMAIN Cut(memory) = D \ gone
    BY <2>7, DroppingKeeps DEF D
  <2>10. IsFiniteSet(D \ gone)
    BY <2>4, FS_Subset
  <2>11. Cardinality(D \ gone) = Cardinality(D) - Cardinality(D \cap gone)
    BY <2>4, FS_Difference
  <2>12. D \cap gone = gone
    BY <2>8
  <2>13. Cardinality(D \ gone) <= EntryLimit
    <3>1. Cardinality(D \cap gone) = half
      BY <2>8, <2>12
    <3>2. Cardinality(D \ gone) = EntryLimit + 1 - half
      BY <1>1, <1>2, <2>1, <2>11, <3>1
    <3> QED BY <1>1, <3>2
  <2> QED BY <2>9, <2>10, <2>13
<1> QED BY <1>3, <1>4

-----------------------------------------------------------------------------
\* What a memory keeps of another.
Keeps(new, old) == DOMAIN new \subseteq DOMAIN old /\ \A t \in DOMAIN new : new[t] = old[t]

\* What is dropped from a memory or stays does no harm.
LEMMA KeptFit ==
  ASSUME MemoriesFit, moment' \in 0..MaxMoment, moment <= moment', said \subseteq said'
  PROVE  /\ Keeps(google', google) => GoogleFit'
         /\ Keeps(outer', outer) => OuterFit'
         /\ Keeps(total', total) => DatedFit(total, Links)'
         /\ Keeps(scanned', scanned) => DatedFit(scanned, Files)'
         /\ Keeps(judged', judged) => DatedFit(judged, Links)'
<1>0. moment \in Nat /\ moment' \in Nat
  BY ReputationAssumption DEF MemoriesFit
<1>1. ASSUME Keeps(google', google) PROVE GoogleFit'
  <2>1. IsFiniteSet(DOMAIN google) /\ Cardinality(DOMAIN google) <= EntryLimit /\ DOMAIN google' \subseteq DOMAIN google
    BY <1>1 DEF MemoriesFit, GoogleFit, Keeps
  <2>2. IsFiniteSet(DOMAIN google') /\ Cardinality(DOMAIN google') <= Cardinality(DOMAIN google)
    BY <2>1, FS_Subset
  <2>3. Cardinality(DOMAIN google) \in Nat /\ Cardinality(DOMAIN google') \in Nat /\ EntryLimit \in Nat
    BY <2>1, <2>2, FS_CardinalityType, ReputationAssumption
  <2>4. Cardinality(DOMAIN google') <= EntryLimit
    BY <2>1, <2>2, <2>3
  <2> QED BY <1>1, <2>2, <2>4 DEF MemoriesFit, GoogleFit, Keeps
<1>2. Keeps(outer', outer) => OuterFit'
  BY DEF MemoriesFit, OuterFit, Keeps
<1>3. ASSUME NEW old, NEW new, NEW things, Keeps(new, old),
             \A t \in DOMAIN old : /\ t \in things /\ old[t] \in DatedEntries
                                   /\ old[t].since <= moment /\ <<t, old[t].bad>> \in said
      PROVE  \A t \in DOMAIN new : /\ t \in things /\ new[t] \in DatedEntries
                                   /\ new[t].since <= moment' /\ <<t, new[t].bad>> \in said'
  <2> SUFFICES ASSUME NEW t \in DOMAIN new
               PROVE  /\ t \in things /\ new[t] \in DatedEntries
                      /\ new[t].since <= moment' /\ <<t, new[t].bad>> \in said'
    OBVIOUS
  <2>1. t \in DOMAIN old /\ new[t] = old[t]
    BY <1>3 DEF Keeps
  <2>2. old[t].since \in 0..MaxMoment
    BY <1>3, <2>1 DEF DatedEntries
  <2>3. old[t].since <= moment'
    <3>1. old[t].since \in Nat
      BY <2>2, ReputationAssumption
    <3>2. old[t].since <= moment
      BY <1>3, <2>1
    <3> QED BY <1>0, <3>1, <3>2
  <2> QED BY <1>3, <2>1, <2>3
<1>4. Keeps(total', total) => DatedFit(total, Links)'
  BY <1>3 DEF MemoriesFit, DatedFit
<1>5. Keeps(scanned', scanned) => DatedFit(scanned, Files)'
  BY <1>3 DEF MemoriesFit, DatedFit
<1>6. Keeps(judged', judged) => DatedFit(judged, Links)'
  BY <1>3 DEF MemoriesFit, DatedFit
<1> QED BY <1>1, <1>2, <1>4, <1>5, <1>6

\* A memory keeps itself, what is left of it when it is cut, and all but one entry.
LEMMA KeepsWhat ==
  ASSUME NEW memory, NEW things
  PROVE  Keeps(memory, memory) /\ Keeps(Cut(memory), memory) /\ Keeps(Dropping(things, memory), memory)
<1>1. Keeps(memory, memory)
  BY DEF Keeps
<1>2. Keeps(Cut(memory), memory)
  BY CutKeeps DEF Keeps
<1>3. Keeps(Dropping(things, memory), memory)
  <2>1. DOMAIN Dropping(things, memory) = DOMAIN memory \ things
        /\ \A t \in DOMAIN Dropping(things, memory) : Dropping(things, memory)[t] = memory[t]
    BY DroppingKeeps
  <2> QED BY <2>1 DEF Keeps
<1> QED BY <1>1, <1>2, <1>3

\* One user asks, or is answered.
LEMMA OneAsks ==
  ASSUME AskingFit, moment \in Nat, moment' = moment,
         NEW u \in Users, NEW what \in {"free", "going", "google", "total", "model", "file"},
         NEW things \in SUBSET (Links \cup Files), NEW t \in Nat, t <= moment,
         asking' = [asking EXCEPT ![u] = what], about' = [about EXCEPT ![u] = things],
         turn' = [turn EXCEPT ![u] = t],
         what \in {"google", "total", "model"} => things \subseteq Links,
         what = "file" => things \subseteq Files,
         what \in {"google", "total", "file"} => \E x \in Links \cup Files : things = {x},
         what \in {"free", "going"} => things = {},
         what = "google" => moment <= t + Patience
  PROVE  AskingFit'
<1>1. /\ asking' \in [Users -> {"free", "going", "google", "total", "model", "file"}]
      /\ about' \in [Users -> SUBSET (Links \cup Files)] /\ turn' \in [Users -> Nat]
  BY DEF AskingFit
<1>2. /\ asking'[u] = what /\ about'[u] = things /\ turn'[u] = t
      /\ \A x \in Users \ {u} : asking'[x] = asking[x] /\ about'[x] = about[x] /\ turn'[x] = turn[x]
  BY DEF AskingFit
<1>3. AskedFit(u)' /\ turn'[u] <= moment'
  BY <1>2 DEF AskedFit
<1>4. \A x \in Users \ {u} : AskedFit(x)' /\ turn'[x] <= moment'
  BY <1>2 DEF AskingFit, AskedFit
<1> QED BY <1>1, <1>3, <1>4 DEF AskingFit

\* Nothing of VirusTotal's is used too late.
LEMMA TotalInTime ==
  ASSUME MemoriesFit, NEW l, NEW t \in Nat, moment <= t + Patience
  PROVE  LateTotal(l, t) = {}
<1> SUFFICES ASSUME Recent(total, l, t, KnownFor) PROVE moment < total[l].since + KnownFor + Patience
  BY DEF LateTotal, Late
<1>1. l \in DOMAIN total /\ t - total[l].since < KnownFor
  BY DEF Recent
<1>2. total[l].since \in 0..MaxMoment
  BY <1>1 DEF MemoriesFit, DatedFit, DatedEntries
<1>3. moment \in Nat /\ KnownFor \in Nat /\ Patience \in Nat /\ total[l].since \in Nat
  BY <1>2, ReputationAssumption DEF MemoriesFit
<1> QED BY <1>1, <1>3

\* After Google a check goes on, or asks VirusTotal.
LEMMA OpinionStep ==
  ASSUME MarkInv, moment' = moment, said \subseteq said',
         NEW c \in Checkers, NEW l \in Links, NEW bad \in BOOLEAN, NEW t \in Nat, t <= moment,
         bad => <<l, TRUE>> \in said', SecondOpinion(c, l, bad, t)
  PROVE  AskingFit' /\ ChecksFit'
<1> USE DEF MarkInv
<1>0. moment \in Nat
  BY ReputationAssumption DEF MemoriesFit
<1> DEFINE known == Recent(total, l, t, KnownFor)
           worse == bad \/ (known /\ total[l].bad)
<1>1. /\ asking' = [asking EXCEPT ![c] = IF bad \/ known THEN "going" ELSE "total"]
      /\ about' = [about EXCEPT ![c] = IF bad \/ known THEN {} ELSE {l}]
      /\ turn' = [turn EXCEPT ![c] = t]
      /\ left' = [left EXCEPT ![c] = left[c] \ {l}]
      /\ found' = [found EXCEPT ![c] = IF worse THEN found[c] \cup {l} ELSE found[c]]
  BY DEF SecondOpinion
<1>2. c \in Users
  BY DEF Users
<1>3. AskingFit'
  <2>1. CASE bad \/ known
    <3>1. asking' = [asking EXCEPT ![c] = "going"] /\ about' = [about EXCEPT ![c] = {}]
          /\ turn' = [turn EXCEPT ![c] = t]
      BY <1>1, <2>1
    <3>2. {} \in SUBSET (Links \cup Files)
      OBVIOUS
    <3> HIDE DEF known, worse
    <3> QED BY <1>0, <1>2, <3>1, <3>2, OneAsks
  <2>2. CASE ~(bad \/ known)
    <3>1. asking' = [asking EXCEPT ![c] = "total"] /\ about' = [about EXCEPT ![c] = {l}]
          /\ turn' = [turn EXCEPT ![c] = t]
      BY <1>1, <2>2
    <3>2. {l} \in SUBSET (Links \cup Files) /\ {l} \subseteq Links /\ \E x \in Links \cup Files : {l} = {x}
      OBVIOUS
    <3> HIDE DEF known, worse
    <3> QED BY <1>0, <1>2, <3>1, <3>2, OneAsks
  <2> QED BY <2>1, <2>2
<1>4. ChecksFit'
  <2>1. worse => <<l, TRUE>> \in said'
    <3>1. ASSUME known, total[l].bad PROVE <<l, TRUE>> \in said'
      <4>1. l \in DOMAIN total
        BY <3>1 DEF Recent
      <4>2. total[l].bad \in BOOLEAN /\ <<l, total[l].bad>> \in said
        BY <4>1 DEF MemoriesFit, DatedFit, DatedEntries
      <4>3. total[l].bad = TRUE
        BY <3>1, <4>2
      <4> QED BY <4>2, <4>3
    <3> QED BY <3>1
  <2> HIDE DEF worse
  <2>2. left' \in [Checkers -> SUBSET Links] /\ found' \in [Checkers -> SUBSET Links]
    BY <1>1 DEF ChecksFit
  <2>3. \A x \in Checkers : \A y \in found'[x] : <<y, TRUE>> \in said'
    BY <1>1, <2>1 DEF ChecksFit
  <2> QED BY <2>2, <2>3 DEF ChecksFit
<1> QED BY <1>3, <1>4

-----------------------------------------------------------------------------
\* The actions.

\* What an answer of Google's leaves in the client's memory.
LEMMA GoogleKeeps ==
  ASSUME MemoriesFit, said \subseteq said', NEW l \in Links, NEW entry \in GoogleEntries,
         entry.until = entry.ends, <<l, entry.bad>> \in said', google' = Cut(With(google, {l}, entry))
  PROVE  GoogleFit'
<1> DEFINE D == DOMAIN google
<1>1. PICK more : more = With(google, {l}, entry)
  OBVIOUS
<1>2. DOMAIN more = D \cup {l} /\ \A t \in D \cup {l} : more[t] = IF t \in {l} THEN entry ELSE google[t]
  BY <1>1, WithHas
<1>3. IsFiniteSet(D) /\ Cardinality(D) <= EntryLimit /\ Cardinality(D) \in Nat /\ EntryLimit \in Nat
  <2>1. IsFiniteSet(D) /\ Cardinality(D) <= EntryLimit
    BY DEF MemoriesFit, GoogleFit
  <2> QED BY <2>1, FS_CardinalityType, ReputationAssumption
<1> HIDE DEF D
<1>4. IsFiniteSet(D \cup {l}) /\ Cardinality(D \cup {l}) <= EntryLimit + 1
  <2>1. IsFiniteSet(D \cup {l}) /\ Cardinality(D \cup {l}) = IF l \in D THEN Cardinality(D) ELSE Cardinality(D) + 1
    BY <1>3, FS_AddElement
  <2> QED BY <1>3, <2>1
<1>5. \A t \in DOMAIN more : t \in Links /\ more[t] \in GoogleEntries /\ more[t].until = more[t].ends /\ <<t, more[t].bad>> \in said'
  BY <1>2 DEF MemoriesFit, GoogleFit, D
<1>6. IsFiniteSet(DOMAIN Cut(more)) /\ Cardinality(DOMAIN Cut(more)) <= EntryLimit
  BY <1>2, <1>4, <1>5, CutBounds
<1>7. DOMAIN Cut(more) \subseteq DOMAIN more /\ \A t \in DOMAIN Cut(more) : Cut(more)[t] = more[t]
  BY CutKeeps
<1>8. google' = Cut(more)
  BY <1>1
<1> QED BY <1>5, <1>6, <1>7, <1>8 DEF GoogleFit

\* And what it leaves in the memory of a check.
LEMMA OuterKeeps ==
  ASSUME MemoriesFit, said \subseteq said', NEW l \in Links, NEW entry \in GoogleEntries,
         entry.until <= entry.ends + LeastLife, <<l, entry.bad>> \in said', outer' = With(outer, {l}, entry)
  PROVE  OuterFit'
<1>1. DOMAIN outer' = DOMAIN outer \cup {l}
      /\ \A t \in DOMAIN outer \cup {l} : outer'[t] = IF t \in {l} THEN entry ELSE outer[t]
  BY WithHas
<1> QED BY <1>1 DEF MemoriesFit, OuterFit

\* A memory has learnt at a time what was said of some things.
Learns(new, memory, some, learnt, words) ==
  /\ DOMAIN new = DOMAIN memory \cup some
  /\ \A t \in DOMAIN memory \ some : new[t] = memory[t]
  /\ \A t \in some : \E bad \in BOOLEAN : new[t] = [bad |-> bad, since |-> learnt] /\ <<t, bad>> \in words

\* An answer of another service is remembered with its time.
LEMMA DatedKeeps ==
  ASSUME NEW memory, NEW new, NEW things, NEW some \in SUBSET things, DatedFit(memory, things), said \subseteq said',
         moment' = moment, NEW learnt \in 0..MaxMoment, learnt <= moment,
         Learns(new, memory, some, learnt, said')
  PROVE  \A t \in DOMAIN new : /\ t \in things /\ new[t] \in DatedEntries
                               /\ new[t].since <= moment' /\ <<t, new[t].bad>> \in said'
<1> SUFFICES ASSUME NEW t \in DOMAIN new
             PROVE  /\ t \in things /\ new[t] \in DatedEntries
                    /\ new[t].since <= moment' /\ <<t, new[t].bad>> \in said'
  OBVIOUS
<1>1. CASE t \in some
  <2>1. PICK bad \in BOOLEAN : new[t] = [bad |-> bad, since |-> learnt] /\ <<t, bad>> \in said'
    BY <1>1 DEF Learns
  <2>2. new[t].bad = bad /\ new[t].since = learnt /\ new[t] \in DatedEntries
    BY <2>1 DEF DatedEntries
  <2> QED BY <1>1, <2>1, <2>2
<1>2. CASE t \notin some
  <2>1. t \in DOMAIN memory /\ new[t] = memory[t]
    BY <1>2 DEF Learns
  <2> QED BY <2>1 DEF DatedFit
<1> QED BY <1>1, <1>2

\* An answer about one link or file is one that its user waits for.
LEMMA AboutOne ==
  ASSUME MarkInv, NEW u \in Users, asking[u] \in {"google", "total", "file"}
  PROVE  /\ \E x \in Links \cup Files : about[u] = {x}
         /\ asking[u] \in {"google", "total"} => \E l \in Links : about[u] = {l}
         /\ asking[u] = "file" => \E f \in Files : about[u] = {f}
         /\ turn[u] \in Nat /\ turn[u] <= moment /\ moment \in Nat
         /\ asking[u] = "google" => moment <= turn[u] + Patience
<1>1. AskedFit(u) /\ turn[u] \in Nat /\ turn[u] <= moment /\ moment \in Nat
  BY ReputationAssumption DEF MarkInv, AskingFit, MemoriesFit
<1> QED BY <1>1 DEF AskedFit

\* Time makes nothing that is remembered younger, and a question to Google is given up in time.
LEMMA TickStep ==
  ASSUME MarkInv, Tick
  PROVE  MarkInv'
<1> USE DEF MarkInv
<1>0. /\ UNCHANGED <<google, outer, total, scanned, judged, asking, about, turn, left, found, said, stale>>
      /\ moment < MaxMoment /\ moment' = moment + 1
      /\ \A u \in Users : asking[u] = "google" => moment - turn[u] < Patience
  BY DEF Tick
<1>1. moment \in Nat /\ moment' \in 0..MaxMoment /\ moment <= moment' /\ Patience \in Nat
  BY <1>0, ReputationAssumption DEF MemoriesFit
<1>2. MemoriesFit'
  <2>1. /\ Keeps(google', google) /\ Keeps(outer', outer) /\ Keeps(total', total)
        /\ Keeps(scanned', scanned) /\ Keeps(judged', judged)
    BY <1>0, KeepsWhat
  <2> QED BY <1>0, <1>1, <2>1, KeptFit DEF MemoriesFit
<1>3. AskingFit'
  <2>1. ASSUME NEW u \in Users PROVE turn'[u] <= moment' /\ AskedFit(u)'
    <3>1. turn[u] \in Nat /\ turn[u] <= moment /\ AskedFit(u)
      BY DEF AskingFit
    <3>2. turn'[u] <= moment'
      BY <1>0, <1>1, <3>1
    <3>3. asking[u] = "google" => moment' <= turn[u] + Patience
      BY <1>0, <1>1, <3>1
    <3> QED BY <1>0, <3>1, <3>2, <3>3 DEF AskedFit
  <2> QED BY <1>0, <2>1 DEF AskingFit
<1>4. ChecksFit' /\ UsedInTime'
  BY <1>0 DEF ChecksFit, UsedInTime
<1> QED BY <1>2, <1>3, <1>4

\* A check begins with memories cut to their limits.
LEMMA BeginCheckStep ==
  ASSUME MarkInv, NEW c \in Checkers, NEW links \in SUBSET Links, BeginCheck(c, links)
  PROVE  MarkInv'
<1> USE DEF MarkInv
<1>0. /\ UNCHANGED <<moment, google, about, turn, said, stale>> /\ asking[c] = "free"
      /\ asking' = [asking EXCEPT ![c] = "going"]
      /\ left' = [left EXCEPT ![c] = links] /\ found' = [found EXCEPT ![c] = {}]
  BY DEF BeginCheck
<1>1. MemoriesFit'
  <2>1. moment \in Nat /\ moment \in 0..MaxMoment /\ moment' = moment /\ said' = said
    BY <1>0, ReputationAssumption DEF MemoriesFit
  <2>2. /\ Keeps(google', google) /\ Keeps(outer', outer) /\ Keeps(total', total)
        /\ Keeps(scanned', scanned) /\ Keeps(judged', judged)
    BY <1>0, KeepsWhat DEF BeginCheck
  <2> QED BY <2>1, <2>2, KeptFit DEF MemoriesFit
<1>2. c \in Users /\ moment \in Nat /\ turn[c] \in Nat /\ turn[c] <= moment /\ about[c] = {}
  BY <1>0, ReputationAssumption DEF MemoriesFit, AskingFit, AskedFit, Users
<1>3. about' = [about EXCEPT ![c] = {}] /\ turn' = [turn EXCEPT ![c] = turn[c]]
  BY <1>0, <1>2 DEF AskingFit
<1>4. {} \in SUBSET (Links \cup Files) /\ moment' = moment
  BY <1>0
<1>5. AskingFit'
  BY <1>0, <1>2, <1>3, <1>4, OneAsks
<1>6. ChecksFit' /\ UsedInTime'
  BY <1>0 DEF ChecksFit, UsedInTime
<1> QED BY <1>1, <1>5, <1>6

\* A link's turn comes: a memory knows it, or Google is asked.
LEMMA LookAtStep ==
  ASSUME MarkInv, NEW c \in Checkers, NEW l \in Links, LookAt(c, l)
  PROVE  MarkInv'
<1> USE DEF MarkInv
<1>0. UNCHANGED <<moment, total, scanned, judged, said>>
  BY DEF LookAt
<1>1. moment \in Nat /\ moment \in 0..MaxMoment /\ moment' = moment /\ said' = said /\ moment <= moment'
      /\ Patience \in Nat /\ LeastLife \in Nat \ {0}
  BY <1>0, ReputationAssumption DEF MemoriesFit
<1>2. DatedFit(total, Links)' /\ DatedFit(scanned, Files)' /\ DatedFit(judged, Links)'
  BY <1>0, <1>1 DEF MemoriesFit, DatedFit
<1>3. LateTotal(l, moment) = {}
  BY <1>1, TotalInTime
<1>4. c \in Users /\ stale = {}
  BY DEF Users, UsedInTime
<1>5. CASE /\ Known(outer, l)
           /\ SecondOpinion(c, l, outer[l].bad, moment)
           /\ stale' = stale \cup LateOuter(l) \cup (IF outer[l].bad THEN {} ELSE LateTotal(l, moment))
           /\ UNCHANGED <<google, outer>>
  <2>1. l \in DOMAIN outer /\ moment < outer[l].until
    BY <1>5 DEF Known
  <2>2. outer[l] \in GoogleEntries /\ outer[l].until <= outer[l].ends + LeastLife /\ <<l, outer[l].bad>> \in said
    BY <2>1 DEF MemoriesFit, OuterFit
  <2>3. outer[l].bad \in BOOLEAN /\ outer[l].until \in Nat /\ outer[l].ends \in Nat
    BY <2>2 DEF GoogleEntries
  <2>4. moment < outer[l].ends + LeastLife
    BY <1>1, <2>1, <2>2, <2>3
  <2>5. stale' = {}
    BY <1>3, <1>4, <1>5, <2>4 DEF LateOuter, Late
  <2>6. PICK bad \in BOOLEAN : bad = outer[l].bad
    BY <2>3
  <2>7. bad => <<l, TRUE>> \in said'
    <3>1. bad => outer[l].bad = TRUE
      BY <2>6
    <3> QED BY <1>1, <2>2, <3>1
  <2>8. SecondOpinion(c, l, bad, moment)
    BY <1>5, <2>6
  <2>9. AskingFit' /\ ChecksFit'
    BY <1>1, <2>7, <2>8, OpinionStep
  <2>10. GoogleFit' /\ OuterFit'
    BY <1>1, <1>5, KeepsWhat, KeptFit
  <2> QED BY <1>1, <1>2, <2>5, <2>9, <2>10 DEF MemoriesFit, UsedInTime
<1>6. CASE /\ ~Known(outer, l) /\ Known(google, l)
           /\ SecondOpinion(c, l, google[l].bad, moment)
           /\ KeepRest(l) /\ UNCHANGED google
           /\ stale' = stale \cup Late("google", google[l].ends)
                            \cup (IF google[l].bad THEN {} ELSE LateTotal(l, moment))
  <2>1. l \in DOMAIN google /\ moment < google[l].until
    BY <1>6 DEF Known
  <2>2. google[l] \in GoogleEntries /\ google[l].until = google[l].ends /\ <<l, google[l].bad>> \in said
    BY <2>1 DEF MemoriesFit, GoogleFit
  <2>3. google[l].bad \in BOOLEAN /\ google[l].until \in Nat /\ google[l].ends \in Nat
    BY <2>2 DEF GoogleEntries
  <2>4. stale' = {}
    BY <1>3, <1>4, <1>6, <2>1, <2>2 DEF Late
  <2>5. PICK bad \in BOOLEAN : bad = google[l].bad
    BY <2>3
  <2>6. bad => <<l, TRUE>> \in said'
    <3>1. bad => google[l].bad = TRUE
      BY <2>5
    <3> QED BY <1>1, <2>2, <3>1
  <2>7. SecondOpinion(c, l, bad, moment)
    BY <1>6, <2>5
  <2>8. AskingFit' /\ ChecksFit'
    BY <1>1, <2>6, <2>7, OpinionStep
  <2>9. GoogleFit'
    BY <1>1, <1>6, KeepsWhat, KeptFit
  <2>10. PICK rest \in Nat \ {0} : /\ rest = moment + Longer(LeastLife, google[l].until - moment)
                                   /\ rest <= google[l].ends + LeastLife
    <3>1. google[l].until - moment \in Nat /\ google[l].until - moment > 0
      BY <1>1, <2>1, <2>3
    <3>2. CASE LeastLife > google[l].until - moment
      <4>1. Longer(LeastLife, google[l].until - moment) = LeastLife
        BY <3>2 DEF Longer
      <4>2. moment + LeastLife \in Nat \ {0} /\ moment + LeastLife <= google[l].ends + LeastLife
        BY <1>1, <2>1, <2>2, <2>3
      <4> QED BY <4>1, <4>2
    <3>3. CASE ~(LeastLife > google[l].until - moment)
      <4>1. Longer(LeastLife, google[l].until - moment) = google[l].until - moment
        BY <3>3 DEF Longer
      <4>2. moment + (google[l].until - moment) = google[l].until /\ google[l].until # 0
            /\ google[l].until <= google[l].ends + LeastLife
        BY <1>1, <2>1, <2>2, <2>3
      <4> QED BY <2>3, <4>1, <4>2
    <3> QED BY <3>2, <3>3
  <2>11. PICK entry \in GoogleEntries : /\ entry = [google[l] EXCEPT !.until = rest]
                                        /\ entry.until = rest /\ entry.ends = google[l].ends
                                        /\ entry.bad = google[l].bad
    <3>1. PICK e \in GoogleEntries : e = google[l]
      BY <2>2
    <3>2. PICK x : x = [e EXCEPT !.until = rest]
      OBVIOUS
    <3>3. x \in GoogleEntries /\ x.until = rest /\ x.ends = e.ends /\ x.bad = e.bad
      BY <3>2, <2>10 DEF GoogleEntries
    <3> QED BY <3>1, <3>2, <3>3
  <2>12. entry.until <= entry.ends + LeastLife /\ <<l, entry.bad>> \in said'
    BY <1>1, <2>2, <2>10, <2>11
  <2>13. outer' = With(outer, {l}, entry)
    BY <1>6, <2>10, <2>11 DEF KeepRest
  <2>14. OuterFit'
    BY <1>1, <2>12, <2>13, OuterKeeps
  <2> QED BY <1>1, <1>2, <2>4, <2>8, <2>9, <2>14 DEF MemoriesFit, UsedInTime
<1>7. CASE /\ ~Known(outer, l) /\ ~Known(google, l)
           /\ google' = Dropping({l}, google)
           /\ asking' = [asking EXCEPT ![c] = "google"]
           /\ about' = [about EXCEPT ![c] = {l}]
           /\ turn' = [turn EXCEPT ![c] = moment]
           /\ UNCHANGED <<outer, left, found, stale>>
  <2>1. GoogleFit' /\ OuterFit'
    BY <1>1, <1>7, KeepsWhat, KeptFit
  <2>2. {l} \in SUBSET (Links \cup Files) /\ (\E x \in Links \cup Files : {l} = {x}) /\ {l} \subseteq Links
        /\ moment <= moment + Patience /\ moment <= moment
    BY <1>1
  <2>3. AskingFit'
    BY <1>1, <1>4, <1>7, <2>2, OneAsks
  <2>4. ChecksFit' /\ UsedInTime'
    BY <1>1, <1>7 DEF ChecksFit, UsedInTime
  <2> QED BY <1>1, <1>2, <2>1, <2>3, <2>4 DEF MemoriesFit
<1> QED BY <1>5, <1>6, <1>7 DEF LookAt

\* The life of an answer counts from the question.
LEMMA AnswerFits ==
  ASSUME MarkInv, NEW u \in Users, asking[u] = "google", NEW bad \in BOOLEAN, NEW life \in Lives
  PROVE  /\ Answered(u, bad, life) \in GoogleEntries
         /\ Answered(u, bad, life).bad = bad
         /\ Answered(u, bad, life).until = Answered(u, bad, life).ends
<1>1. turn[u] \in Nat
  BY AboutOne
<1>2. Longer(LeastLife, life) \in Nat \ {0}
  BY ReputationAssumption DEF Longer
<1>3. turn[u] + Longer(LeastLife, life) \in Nat \ {0}
  BY <1>1, <1>2
<1> QED BY <1>3 DEF Answered, GoogleEntries

\* Google answers a check or a reader of pages.
LEMMA GoogleAnswersStep ==
  ASSUME MarkInv, NEW u \in Users, NEW bad \in BOOLEAN, NEW life \in Lives, GoogleAnswers(u, bad, life)
  PROVE  MarkInv'
<1> USE DEF MarkInv
<1>0. /\ UNCHANGED <<moment, total, scanned, judged>> /\ asking[u] = "google"
      /\ said' = said \cup {<<l, bad>> : l \in about[u]}
  BY DEF GoogleAnswers
<1>1. PICK l \in Links : about[u] = {l}
  BY <1>0, AboutOne
<1>2. moment \in Nat /\ moment \in 0..MaxMoment /\ moment' = moment /\ moment <= moment' /\ said \subseteq said'
      /\ <<l, bad>> \in said' /\ Patience \in Nat /\ LeastLife \in Nat
  BY <1>0, <1>1, ReputationAssumption DEF MemoriesFit
<1>3. turn[u] \in Nat /\ turn[u] <= moment /\ moment <= turn[u] + Patience
  BY <1>0, AboutOne
<1>4. PICK entry \in GoogleEntries : /\ entry = Answered(u, bad, life) /\ entry.bad = bad
                                     /\ entry.until = entry.ends
  BY <1>0, AnswerFits
<1>5. <<l, entry.bad>> \in said' /\ entry.until <= entry.ends + LeastLife
  BY <1>2, <1>4 DEF GoogleEntries
<1>6. GoogleFit'
  <2>1. google' = Cut(With(google, {l}, entry))
    BY <1>1, <1>4 DEF GoogleAnswers
  <2> QED BY <1>2, <1>4, <1>5, <2>1, GoogleKeeps
<1>7. DatedFit(total, Links)' /\ DatedFit(scanned, Files)' /\ DatedFit(judged, Links)'
  BY <1>0, <1>2 DEF MemoriesFit, DatedFit
<1>8. CASE /\ u \in Checkers
           /\ outer' = With(outer, about[u], Answered(u, bad, life))
           /\ \E x \in about[u] :
                /\ SecondOpinion(u, x, bad, turn[u])
                /\ stale' = stale \cup (IF bad THEN {} ELSE LateTotal(x, turn[u]))
  <2>1. SecondOpinion(u, l, bad, turn[u]) /\ stale' = stale \cup (IF bad THEN {} ELSE LateTotal(l, turn[u]))
    BY <1>1, <1>8
  <2>2. LateTotal(l, turn[u]) = {}
    BY <1>3, TotalInTime
  <2>3. UsedInTime'
    BY <2>1, <2>2 DEF UsedInTime
  <2>4. OuterFit'
    <3>1. outer' = With(outer, {l}, entry)
      BY <1>1, <1>4, <1>8
    <3> QED BY <1>2, <1>5, <3>1, OuterKeeps
  <2>5. PICK t \in Nat : t = turn[u]
    BY <1>3
  <2>6. t <= moment /\ SecondOpinion(u, l, bad, t) /\ (bad => <<l, TRUE>> \in said')
    <3>1. bad => bad = TRUE
      OBVIOUS
    <3> QED BY <1>2, <1>3, <2>1, <2>5, <3>1
  <2>7. AskingFit' /\ ChecksFit'
    BY <1>2, <1>8, <2>6, OpinionStep
  <2> QED BY <1>2, <1>6, <1>7, <2>3, <2>4, <2>7 DEF MemoriesFit
<1>9. CASE /\ u \in Readers
           /\ asking' = [asking EXCEPT ![u] = "free"]
           /\ about' = [about EXCEPT ![u] = {}]
           /\ UNCHANGED <<outer, turn, left, found, stale>>
  <2>1. turn' = [turn EXCEPT ![u] = turn[u]] /\ {} \in SUBSET (Links \cup Files)
    BY <1>9 DEF AskingFit
  <2>2. AskingFit'
    BY <1>2, <1>3, <1>9, <2>1, OneAsks
  <2>3. OuterFit'
    BY <1>2, <1>9, KeepsWhat, KeptFit
  <2>4. ChecksFit' /\ UsedInTime'
    BY <1>2, <1>9 DEF ChecksFit, UsedInTime
  <2> QED BY <1>2, <1>6, <1>7, <2>2, <2>3, <2>4 DEF MemoriesFit
<1> QED BY <1>8, <1>9 DEF GoogleAnswers

\* Google says nothing, and nothing is remembered.
LEMMA GoogleFailsStep ==
  ASSUME MarkInv, NEW u \in Users, GoogleFails(u)
  PROVE  MarkInv'
<1> USE DEF MarkInv
<1>0. UNCHANGED <<moment, google, outer, total, scanned, judged, said>> /\ asking[u] = "google"
  BY DEF GoogleFails, Silence
<1>1. PICK l \in Links : about[u] = {l}
  BY <1>0, AboutOne
<1>2. moment \in Nat /\ moment \in 0..MaxMoment /\ moment' = moment /\ said' = said
      /\ turn[u] \in Nat /\ turn[u] <= moment /\ moment <= turn[u] + Patience
  BY <1>0, AboutOne DEF MemoriesFit
<1>3. MemoriesFit'
  BY <1>0, <1>2 DEF MemoriesFit, GoogleFit, OuterFit, DatedFit
<1>4. CASE /\ u \in Checkers
           /\ \E x \in about[u] : /\ SecondOpinion(u, x, FALSE, turn[u])
                                  /\ stale' = stale \cup LateTotal(x, turn[u])
  <2>1. SecondOpinion(u, l, FALSE, turn[u]) /\ stale' = stale \cup LateTotal(l, turn[u])
    BY <1>1, <1>4
  <2>2. UsedInTime'
    BY <1>2, <2>1, TotalInTime DEF UsedInTime
  <2>3. PICK t \in Nat : t = turn[u]
    BY <1>2
  <2>4. t <= moment /\ SecondOpinion(u, l, FALSE, t)
    BY <1>2, <2>1, <2>3
  <2>5. AskingFit' /\ ChecksFit'
    BY <1>2, <1>4, <2>4, OpinionStep
  <2> QED BY <1>3, <2>2, <2>5
<1>5. CASE /\ u \in Readers
           /\ asking' = [asking EXCEPT ![u] = "free"]
           /\ about' = [about EXCEPT ![u] = {}]
           /\ UNCHANGED <<turn, left, found, stale>>
  <2>1. turn' = [turn EXCEPT ![u] = turn[u]] /\ {} \in SUBSET (Links \cup Files)
    BY <1>5 DEF AskingFit
  <2>2. AskingFit'
    BY <1>2, <1>5, <2>1, OneAsks
  <2>3. ChecksFit' /\ UsedInTime'
    BY <1>2, <1>5 DEF ChecksFit, UsedInTime
  <2> QED BY <1>3, <2>2, <2>3
<1> QED BY <1>4, <1>5 DEF GoogleFails

\* A page is read with what the client remembers, or Google is asked.
LEMMA ReadPageStep ==
  ASSUME MarkInv, NEW r \in Readers, NEW l \in Links, ReadPage(r, l)
  PROVE  MarkInv'
<1> USE DEF MarkInv
<1>0. UNCHANGED <<moment, outer, total, scanned, judged, left, found, said>>
  BY DEF ReadPage
<1>1. moment \in Nat /\ moment \in 0..MaxMoment /\ moment' = moment /\ said' = said /\ moment <= moment'
      /\ Patience \in Nat /\ r \in Users
  BY <1>0, ReputationAssumption DEF MemoriesFit, Users
<1>2. CASE Known(google, l)
  <2>1. stale' = stale \cup Late("google", google[l].ends) /\ UNCHANGED <<google, asking, about, turn>>
    BY <1>2 DEF ReadPage
  <2>2. l \in DOMAIN google /\ moment < google[l].until /\ google[l].until = google[l].ends
    BY <1>2 DEF Known, MemoriesFit, GoogleFit
  <2>3. UsedInTime'
    BY <2>1, <2>2 DEF UsedInTime, Late
  <2>4. MemoriesFit'
    BY <1>0, <1>1, <2>1 DEF MemoriesFit, GoogleFit, OuterFit, DatedFit
  <2>5. AskingFit' /\ ChecksFit'
    BY <1>0, <1>1, <2>1 DEF AskingFit, AskedFit, ChecksFit
  <2> QED BY <2>3, <2>4, <2>5
<1>3. CASE ~Known(google, l)
  <2>1. /\ google' = Dropping({l}, google)
        /\ asking' = [asking EXCEPT ![r] = "google"]
        /\ about' = [about EXCEPT ![r] = {l}]
        /\ turn' = [turn EXCEPT ![r] = moment]
        /\ UNCHANGED stale
    BY <1>3 DEF ReadPage
  <2>2. MemoriesFit'
    <3>1. Keeps(google', google) /\ Keeps(outer', outer) /\ Keeps(total', total)
          /\ Keeps(scanned', scanned) /\ Keeps(judged', judged)
      BY <1>0, <2>1, KeepsWhat
    <3> QED BY <1>1, <3>1, KeptFit DEF MemoriesFit
  <2>3. {l} \in SUBSET (Links \cup Files) /\ (\E x \in Links \cup Files : {l} = {x}) /\ {l} \subseteq Links
        /\ moment <= moment + Patience /\ moment <= moment
    BY <1>1
  <2>4. AskingFit'
    BY <1>1, <2>1, <2>3, OneAsks
  <2>5. ChecksFit' /\ UsedInTime'
    BY <1>0, <2>1 DEF ChecksFit, UsedInTime
  <2> QED BY <2>2, <2>4, <2>5
<1> QED BY <1>2, <1>3

\* VirusTotal has an analysis.
LEMMA TotalAnswersStep ==
  ASSUME MarkInv, NEW c \in Checkers, NEW bad \in BOOLEAN, TotalAnswers(c, bad)
  PROVE  MarkInv'
<1> USE DEF MarkInv
<1>0. /\ UNCHANGED <<moment, google, outer, scanned, judged, turn, left, stale>> /\ asking[c] = "total"
      /\ total' = With(total, about[c], [bad |-> bad, since |-> turn[c]])
      /\ said' = said \cup {<<l, bad>> : l \in about[c]}
      /\ asking' = [asking EXCEPT ![c] = "going"] /\ about' = [about EXCEPT ![c] = {}]
      /\ found' = [found EXCEPT ![c] = found[c] \cup (IF bad THEN about[c] ELSE {})]
  BY DEF TotalAnswers, BackFrom
<1>1. c \in Users
  BY DEF Users
<1>2. PICK l \in Links : about[c] = {l}
  BY <1>0, <1>1, AboutOne
<1>3. moment \in Nat /\ moment \in 0..MaxMoment /\ moment' = moment /\ moment <= moment' /\ said \subseteq said'
      /\ <<l, bad>> \in said' /\ turn[c] \in Nat /\ turn[c] <= moment
  BY <1>0, <1>1, <1>2, AboutOne DEF MemoriesFit
<1>4. DatedFit(total, Links)'
  <2>1. PICK learnt \in 0..MaxMoment : learnt = turn[c] /\ learnt <= moment
    BY <1>3, ReputationAssumption
  <2>2. PICK old, new : old = total /\ new = total'
    OBVIOUS
  <2>3. PICK entry : entry = [bad |-> bad, since |-> learnt]
    OBVIOUS
  <2>4. new = With(old, {l}, entry)
    BY <1>0, <1>2, <2>1, <2>2, <2>3
  <2>5. DOMAIN new = DOMAIN old \cup {l}
        /\ \A t \in DOMAIN old \cup {l} : new[t] = IF t \in {l} THEN entry ELSE old[t]
    BY <2>4, WithHas
  <2>6. DatedFit(old, Links) /\ {l} \in SUBSET Links
    BY <2>2 DEF MemoriesFit
  <2>7. \A t \in DOMAIN old \ {l} : new[t] = old[t]
    BY <2>5
  <2>8. \A t \in {l} : \E b \in BOOLEAN : new[t] = [bad |-> b, since |-> learnt] /\ <<t, b>> \in said'
    BY <1>3, <2>3, <2>5
  <2>9. \A t \in DOMAIN new : /\ t \in Links /\ new[t] \in DatedEntries
                              /\ new[t].since <= moment' /\ <<t, new[t].bad>> \in said'
    <3>1. moment' = moment /\ said \subseteq said' /\ learnt <= moment
      BY <1>3, <2>1
    <3>2. Learns(new, old, {l}, learnt, said')
      BY <2>5, <2>7, <2>8 DEF Learns
    <3> QED BY <2>6, <3>1, <3>2, DatedKeeps
  <2> QED BY <2>2, <2>9 DEF DatedFit
<1>5. MemoriesFit'
  <2>1. /\ Keeps(google', google) /\ Keeps(outer', outer)
        /\ Keeps(scanned', scanned) /\ Keeps(judged', judged)
    BY <1>0, KeepsWhat
  <2> QED BY <1>3, <1>4, <2>1, KeptFit DEF MemoriesFit
<1>6. AskingFit'
  <2>1. turn' = [turn EXCEPT ![c] = turn[c]] /\ {} \in SUBSET (Links \cup Files)
    BY <1>0 DEF AskingFit
  <2> QED BY <1>0, <1>1, <1>3, <2>1, OneAsks
<1>7. ChecksFit' /\ UsedInTime'
  <2>1. bad => <<l, TRUE>> \in said'
    <3>1. bad => bad = TRUE
      OBVIOUS
    <3> QED BY <1>3, <3>1
  <2>2. found' \in [Checkers -> SUBSET Links] /\ \A x \in Checkers : \A y \in found'[x] : <<y, TRUE>> \in said'
    BY <1>0, <1>2, <1>3, <2>1 DEF ChecksFit
  <2> QED BY <1>0, <2>2 DEF ChecksFit, UsedInTime
<1> QED BY <1>5, <1>6, <1>7

\* VirusTotal has none.
LEMMA TotalSilentStep ==
  ASSUME MarkInv, NEW c \in Checkers, TotalSilent(c)
  PROVE  MarkInv'
<1> USE DEF MarkInv
<1>0. /\ UNCHANGED <<moment, google, outer, total, scanned, judged, turn, left, said, stale>> /\ asking[c] = "total"
      /\ asking' = [asking EXCEPT ![c] = "going"] /\ about' = [about EXCEPT ![c] = {}]
      /\ found' = [found EXCEPT ![c] = found[c] \cup {}]
  BY DEF TotalSilent, BackFrom
<1>1. c \in Users
  BY DEF Users
<1>2. moment \in Nat /\ moment' = moment /\ turn[c] \in Nat /\ turn[c] <= moment
  BY <1>0, <1>1, AboutOne
<1>3. MemoriesFit'
  BY <1>0 DEF MemoriesFit, GoogleFit, OuterFit, DatedFit
<1>4. AskingFit'
  <2>1. turn' = [turn EXCEPT ![c] = turn[c]] /\ {} \in SUBSET (Links \cup Files)
    BY <1>0 DEF AskingFit
  <2> QED BY <1>0, <1>1, <1>2, <2>1, OneAsks
<1>5. ChecksFit' /\ UsedInTime'
  BY <1>0 DEF ChecksFit, UsedInTime
<1> QED BY <1>3, <1>4, <1>5

\* Recent labels are used, and the language model is asked for the others.
LEMMA AskModelStep ==
  ASSUME MarkInv, NEW c \in Checkers, NEW doubtful \in SUBSET Doubtful, AskModel(c, doubtful)
  PROVE  MarkInv'
<1> USE DEF MarkInv
<1> DEFINE asked == {l \in doubtful : ~Recent(judged, l, moment, JudgedFor)}
<1>0. /\ UNCHANGED <<moment, google, outer, total, scanned, judged, left, found, said>>
      /\ asking' = [asking EXCEPT ![c] = IF asked = {} THEN "free" ELSE "model"]
      /\ about' = [about EXCEPT ![c] = asked] /\ turn' = [turn EXCEPT ![c] = moment]
      /\ stale' = stale \cup UNION {Late("model", judged[l].since + JudgedFor) : l \in doubtful \ asked}
  BY DEF AskModel
<1>1. moment \in Nat /\ moment' = moment /\ moment <= moment /\ c \in Users
  BY <1>0, ReputationAssumption DEF MemoriesFit, Users
<1>2. MemoriesFit'
  BY <1>0 DEF MemoriesFit, GoogleFit, OuterFit, DatedFit
<1>3. PICK what \in {"free", "model"} : what = IF asked = {} THEN "free" ELSE "model"
  OBVIOUS
<1>4. asked \subseteq Links
  BY ReputationAssumption
<1>5. PICK things \in SUBSET (Links \cup Files) : things = asked
  BY <1>4
<1>6. AskingFit'
  <2>1. asking' = [asking EXCEPT ![c] = what] /\ about' = [about EXCEPT ![c] = things]
    BY <1>0, <1>3, <1>5
  <2>2. things \subseteq Links /\ (what = "free" => things = {})
    BY <1>3, <1>4, <1>5
  <2>3. turn' = [turn EXCEPT ![c] = moment]
    BY <1>0
  <2> HIDE DEF asked
  <2> QED BY <1>1, <2>1, <2>2, <2>3, OneAsks
<1>7. UsedInTime'
  <2>1. ASSUME NEW l \in doubtful \ asked PROVE Late("model", judged[l].since + JudgedFor) = {}
    <3>1. l \in DOMAIN judged /\ moment - judged[l].since < JudgedFor
      BY <2>1 DEF Recent
    <3>2. judged[l].since \in 0..MaxMoment
      BY <3>1 DEF MemoriesFit, DatedFit, DatedEntries
    <3>3. judged[l].since \in Nat /\ JudgedFor \in Nat
      BY <3>2, ReputationAssumption
    <3>4. moment < judged[l].since + JudgedFor
      BY <1>1, <3>1, <3>3
    <3> QED BY <3>4 DEF Late
  <2> QED BY <1>0, <2>1 DEF UsedInTime
<1>8. ChecksFit'
  BY <1>0 DEF ChecksFit
<1> QED BY <1>2, <1>6, <1>7, <1>8

\* Its labels are remembered.
LEMMA ModelAnswersStep ==
  ASSUME MarkInv, NEW c \in Checkers, NEW labelled \in SUBSET Doubtful, NEW blocked \in SUBSET Doubtful,
         ModelAnswers(c, labelled, blocked)
  PROVE  MarkInv'
<1> USE DEF MarkInv
<1>0. /\ UNCHANGED <<moment, google, outer, total, scanned, turn, left, found, stale>> /\ asking[c] = "model"
      /\ judged' = [l \in DOMAIN judged \cup labelled |->
                      IF l \in labelled THEN [bad |-> l \in blocked, since |-> moment] ELSE judged[l]]
      /\ said' = said \cup {<<l, l \in blocked>> : l \in labelled}
      /\ asking' = [asking EXCEPT ![c] = "free"] /\ about' = [about EXCEPT ![c] = {}]
  BY DEF ModelAnswers
<1>1. c \in Users
  BY DEF Users
<1>2. moment \in Nat /\ moment \in 0..MaxMoment /\ moment' = moment /\ moment <= moment' /\ said \subseteq said'
      /\ turn[c] \in Nat /\ turn[c] <= moment
  BY <1>0, <1>1, ReputationAssumption DEF MemoriesFit, AskingFit
<1>3. DatedFit(judged, Links)'
  <2>1. PICK learnt \in 0..MaxMoment : learnt = moment /\ learnt <= moment
    BY <1>2
  <2>2. PICK old, new : old = judged /\ new = judged'
    OBVIOUS
  <2>3. DOMAIN new = DOMAIN old \cup labelled
        /\ \A t \in DOMAIN old \cup labelled :
             new[t] = IF t \in labelled THEN [bad |-> t \in blocked, since |-> learnt] ELSE old[t]
    BY <1>0, <2>1, <2>2
  <2>4. DatedFit(old, Links) /\ labelled \in SUBSET Links
    BY <2>2, ReputationAssumption DEF MemoriesFit
  <2>5. \A t \in DOMAIN old \ labelled : new[t] = old[t]
    BY <2>3
  <2>6. \A t \in labelled : \E b \in BOOLEAN : new[t] = [bad |-> b, since |-> learnt] /\ <<t, b>> \in said'
    <3> SUFFICES ASSUME NEW t \in labelled
                 PROVE  \E b \in BOOLEAN : new[t] = [bad |-> b, since |-> learnt] /\ <<t, b>> \in said'
      OBVIOUS
    <3>1. (t \in blocked) \in BOOLEAN
      OBVIOUS
    <3>2. new[t] = [bad |-> t \in blocked, since |-> learnt]
      BY <2>3
    <3>3. <<t, t \in blocked>> \in said'
      BY <1>0
    <3> QED BY <3>1, <3>2, <3>3, Zenon
  <2>7. \A t \in DOMAIN new : /\ t \in Links /\ new[t] \in DatedEntries
                              /\ new[t].since <= moment' /\ <<t, new[t].bad>> \in said'
    <3>1. moment' = moment /\ said \subseteq said' /\ learnt <= moment
      BY <1>2, <2>1
    <3>2. Learns(new, old, labelled, learnt, said')
      BY <2>3, <2>5, <2>6 DEF Learns
    <3> QED BY <2>4, <3>1, <3>2, DatedKeeps
  <2> QED BY <2>2, <2>7 DEF DatedFit
<1>4. MemoriesFit'
  <2>1. /\ Keeps(google', google) /\ Keeps(outer', outer)
        /\ Keeps(total', total) /\ Keeps(scanned', scanned)
    BY <1>0, KeepsWhat
  <2> QED BY <1>2, <1>3, <2>1, KeptFit DEF MemoriesFit
<1>5. AskingFit'
  <2>1. turn' = [turn EXCEPT ![c] = turn[c]] /\ {} \in SUBSET (Links \cup Files)
    BY <1>0 DEF AskingFit
  <2> QED BY <1>0, <1>1, <1>2, <2>1, OneAsks
<1>6. ChecksFit' /\ UsedInTime'
  BY <1>0 DEF ChecksFit, UsedInTime
<1> QED BY <1>4, <1>5, <1>6

\* A check ends.
LEMMA EndCheckStep ==
  ASSUME MarkInv, NEW c \in Checkers, EndCheck(c)
  PROVE  MarkInv'
<1> USE DEF MarkInv
<1>0. /\ UNCHANGED <<moment, google, outer, total, scanned, judged, about, turn, left, found, said, stale>>
      /\ asking[c] = "going" /\ asking' = [asking EXCEPT ![c] = "free"]
  BY DEF EndCheck
<1>1. c \in Users /\ moment \in Nat /\ moment' = moment /\ about[c] = {} /\ turn[c] \in Nat /\ turn[c] <= moment
  BY <1>0, ReputationAssumption DEF MemoriesFit, AskingFit, AskedFit, Users
<1>2. MemoriesFit'
  BY <1>0 DEF MemoriesFit, GoogleFit, OuterFit, DatedFit
<1>3. AskingFit'
  <2>1. about' = [about EXCEPT ![c] = {}] /\ turn' = [turn EXCEPT ![c] = turn[c]] /\ {} \in SUBSET (Links \cup Files)
    BY <1>0, <1>1 DEF AskingFit
  <2> QED BY <1>0, <1>1, <2>1, OneAsks
<1>4. ChecksFit' /\ UsedInTime'
  BY <1>0 DEF ChecksFit, UsedInTime
<1> QED BY <1>2, <1>3, <1>4

\* A file's recent analysis is used, or VirusTotal is asked.
LEMMA InspectFileStep ==
  ASSUME MarkInv, NEW c \in Checkers, NEW f \in Files, InspectFile(c, f)
  PROVE  MarkInv'
<1> USE DEF MarkInv
<1>0. UNCHANGED <<moment, google, outer, total, scanned, judged, left, found, said>>
  BY DEF InspectFile
<1>1. c \in Users /\ moment \in Nat /\ moment' = moment /\ moment <= moment
  BY <1>0, ReputationAssumption DEF MemoriesFit, Users
<1>2. MemoriesFit' /\ ChecksFit'
  BY <1>0 DEF MemoriesFit, GoogleFit, OuterFit, DatedFit, ChecksFit
<1>3. CASE Recent(scanned, f, moment, KnownFor)
  <2>1. stale' = stale \cup Late("file", scanned[f].since + KnownFor) /\ UNCHANGED <<asking, about, turn>>
    BY <1>3 DEF InspectFile
  <2>2. f \in DOMAIN scanned /\ moment - scanned[f].since < KnownFor
    BY <1>3 DEF Recent
  <2>3. scanned[f].since \in 0..MaxMoment
    BY <2>2 DEF MemoriesFit, DatedFit, DatedEntries
  <2>4. scanned[f].since \in Nat /\ KnownFor \in Nat
    BY <2>3, ReputationAssumption
  <2>5. moment < scanned[f].since + KnownFor
    BY <1>1, <2>2, <2>4
  <2>6. UsedInTime'
    BY <2>1, <2>5 DEF UsedInTime, Late
  <2>7. AskingFit'
    BY <1>1, <2>1 DEF AskingFit, AskedFit
  <2> QED BY <1>2, <2>6, <2>7
<1>4. CASE ~Recent(scanned, f, moment, KnownFor)
  <2>1. /\ asking' = [asking EXCEPT ![c] = "file"]
        /\ about' = [about EXCEPT ![c] = {f}]
        /\ turn' = [turn EXCEPT ![c] = moment]
        /\ UNCHANGED stale
    BY <1>4 DEF InspectFile
  <2>2. {f} \in SUBSET (Links \cup Files) /\ (\E x \in Links \cup Files : {f} = {x}) /\ {f} \subseteq Files
    OBVIOUS
  <2>3. AskingFit'
    BY <1>1, <2>1, <2>2, OneAsks
  <2>4. UsedInTime'
    BY <2>1 DEF UsedInTime
  <2> QED BY <1>2, <2>3, <2>4
<1> QED BY <1>3, <1>4

\* What VirusTotal knows of a file is remembered.
LEMMA FileAnswersStep ==
  ASSUME MarkInv, NEW c \in Checkers, NEW known \in BOOLEAN, NEW bad \in BOOLEAN, FileAnswers(c, known, bad)
  PROVE  MarkInv'
<1> USE DEF MarkInv
<1>0. /\ UNCHANGED <<moment, google, outer, total, judged, turn, left, found, stale>> /\ asking[c] = "file"
      /\ scanned' = IF known THEN With(scanned, about[c], [bad |-> bad, since |-> moment]) ELSE scanned
      /\ said' = IF known THEN said \cup {<<f, bad>> : f \in about[c]} ELSE said
      /\ asking' = [asking EXCEPT ![c] = "free"] /\ about' = [about EXCEPT ![c] = {}]
  BY DEF FileAnswers
<1>1. c \in Users
  BY DEF Users
<1>2. PICK f \in Files : about[c] = {f}
  BY <1>0, <1>1, AboutOne
<1>3. moment \in Nat /\ moment \in 0..MaxMoment /\ moment' = moment /\ moment <= moment' /\ said \subseteq said'
      /\ turn[c] \in Nat /\ turn[c] <= moment
  BY <1>0, <1>1, AboutOne DEF MemoriesFit
<1>4. DatedFit(scanned, Files)'
  <2>1. CASE ~known
    <3>1. Keeps(scanned', scanned)
      BY <1>0, <2>1, KeepsWhat
    <3> QED BY <1>3, <3>1, KeptFit
  <2>2. CASE known
    <3>1. PICK learnt \in 0..MaxMoment : learnt = moment /\ learnt <= moment
      BY <1>3
    <3>2. PICK old, new : old = scanned /\ new = scanned'
      OBVIOUS
    <3>3. PICK entry : entry = [bad |-> bad, since |-> learnt]
      OBVIOUS
    <3>4. new = With(old, {f}, entry) /\ <<f, bad>> \in said'
      BY <1>0, <1>2, <2>2, <3>1, <3>2, <3>3
    <3>5. DOMAIN new = DOMAIN old \cup {f}
          /\ \A t \in DOMAIN old \cup {f} : new[t] = IF t \in {f} THEN entry ELSE old[t]
      BY <3>4, WithHas
    <3>6. DatedFit(old, Files) /\ {f} \in SUBSET Files
      BY <3>2 DEF MemoriesFit
    <3>7. \A t \in DOMAIN old \ {f} : new[t] = old[t]
      BY <3>5
    <3>8. \A t \in {f} : \E b \in BOOLEAN : new[t] = [bad |-> b, since |-> learnt] /\ <<t, b>> \in said'
      BY <3>3, <3>4, <3>5
    <3>9. \A t \in DOMAIN new : /\ t \in Files /\ new[t] \in DatedEntries
                                /\ new[t].since <= moment' /\ <<t, new[t].bad>> \in said'
      <4>1. moment' = moment /\ said \subseteq said' /\ learnt <= moment
        BY <1>3, <3>1
      <4>2. Learns(new, old, {f}, learnt, said')
        BY <3>5, <3>7, <3>8 DEF Learns
      <4> QED BY <3>6, <4>1, <4>2, DatedKeeps
    <3> QED BY <3>2, <3>9 DEF DatedFit
  <2> QED BY <2>1, <2>2
<1>5. MemoriesFit'
  <2>1. /\ Keeps(google', google) /\ Keeps(outer', outer)
        /\ Keeps(total', total) /\ Keeps(judged', judged)
    BY <1>0, KeepsWhat
  <2> QED BY <1>3, <1>4, <2>1, KeptFit DEF MemoriesFit
<1>6. AskingFit'
  <2>1. turn' = [turn EXCEPT ![c] = turn[c]] /\ {} \in SUBSET (Links \cup Files)
    BY <1>0 DEF AskingFit
  <2> QED BY <1>0, <1>1, <1>3, <2>1, OneAsks
<1>7. ChecksFit' /\ UsedInTime'
  BY <1>0, <1>3 DEF ChecksFit, UsedInTime
<1> QED BY <1>5, <1>6, <1>7

\* Every step keeps the invariant.
LEMMA ReputationStep == MarkInv /\ [ReputationNext]_reputationVars => MarkInv'
<1> SUFFICES ASSUME MarkInv, [ReputationNext]_reputationVars PROVE MarkInv'
  OBVIOUS
<1>1. CASE Tick
  BY <1>1, TickStep
<1>2. ASSUME NEW c \in Checkers,
             \/ \E links \in (SUBSET Links) \ {{}} : BeginCheck(c, links)
             \/ \E l \in Links : LookAt(c, l)
             \/ \E bad \in BOOLEAN : TotalAnswers(c, bad)
             \/ TotalSilent(c)
      PROVE  MarkInv'
  BY <1>2, BeginCheckStep, LookAtStep, TotalAnswersStep, TotalSilentStep
<1>3. ASSUME NEW c \in Checkers,
             \/ \E doubtful \in (SUBSET Doubtful) \ {{}} : AskModel(c, doubtful)
             \/ \E labelled, blocked \in SUBSET Doubtful : blocked \subseteq labelled /\ ModelAnswers(c, labelled, blocked)
             \/ EndCheck(c)
             \/ \E f \in Files : InspectFile(c, f)
             \/ \E known, bad \in BOOLEAN : (bad => known) /\ FileAnswers(c, known, bad)
      PROVE  MarkInv'
  BY <1>3, AskModelStep, ModelAnswersStep, EndCheckStep, InspectFileStep, FileAnswersStep
<1>4. ASSUME NEW u \in Users,
             \/ \E bad \in BOOLEAN, life \in Lives : GoogleAnswers(u, bad, life)
             \/ GoogleFails(u)
      PROVE  MarkInv'
  BY <1>4, GoogleAnswersStep, GoogleFailsStep
<1>5. ASSUME NEW r \in Readers, NEW l \in Links, ReadPage(r, l)
      PROVE  MarkInv'
  BY <1>5, ReadPageStep
<1>6. CASE UNCHANGED reputationVars
  <2>1. UNCHANGED <<moment, google, outer, total, scanned, judged, asking, about, turn, left, found, said, stale>>
    BY <1>6 DEF reputationVars
  <2>2. MemoriesFit'
    BY <2>1 DEF MarkInv, MemoriesFit, GoogleFit, OuterFit, DatedFit
  <2>3. AskingFit' /\ ChecksFit' /\ UsedInTime'
    BY <2>1 DEF MarkInv, AskingFit, AskedFit, ChecksFit, UsedInTime
  <2> QED BY <2>2, <2>3 DEF MarkInv
<1> QED BY <1>1, <1>2, <1>3, <1>4, <1>5, <1>6 DEF ReputationNext

\* It holds at the start.
LEMMA ReputationStart == ReputationInit => MarkInv
<1> SUFFICES ASSUME ReputationInit PROVE MarkInv
  OBVIOUS
<1>1. DOMAIN Empty = {}
  BY DEF Empty
<1>2. google = Empty /\ outer = Empty /\ total = Empty /\ scanned = Empty /\ judged = Empty /\ moment = 0
  BY DEF ReputationInit
<1>3. IsFiniteSet({}) /\ Cardinality({}) = 0 /\ 0 <= EntryLimit
  BY FS_EmptySet, ReputationAssumption
<1>4. MemoriesFit
  BY <1>1, <1>2, <1>3, ReputationAssumption DEF MemoriesFit, GoogleFit, OuterFit, DatedFit
<1>5. AskingFit /\ ChecksFit /\ UsedInTime
  BY <1>2 DEF ReputationInit, AskingFit, AskedFit, ChecksFit, UsedInTime
<1> QED BY <1>4, <1>5 DEF MarkInv

\* What the invariant says of the memories.
LEMMA MarksHold == MarkInv => MarksTrue
<1> SUFFICES ASSUME MarkInv PROVE MarksTrue
  OBVIOUS
<1> USE DEF MarkInv
<1>1. ReputationTypeOK
  <2>1. /\ moment \in 0..MaxMoment
        /\ IsMemory(google, Links, GoogleEntries) /\ IsMemory(outer, Links, GoogleEntries)
        /\ IsMemory(total, Links, DatedEntries) /\ IsMemory(scanned, Files, DatedEntries)
        /\ IsMemory(judged, Links, DatedEntries) /\ Cardinality(DOMAIN google) <= EntryLimit
    BY DEF MemoriesFit, GoogleFit, OuterFit, DatedFit, IsMemory
  <2>2. \A x : Cardinality({x}) = 1
    BY FS_Singleton
  <2>3. ASSUME NEW u \in Users
        PROVE  /\ about[u] \subseteq Links \cup Files /\ turn[u] \in 0..moment
               /\ asking[u] \in {"google", "total", "file"} => Cardinality(about[u]) = 1
               /\ asking[u] \in {"free", "going"} => about[u] = {}
    <3>1. AskedFit(u) /\ turn[u] \in Nat /\ turn[u] <= moment /\ moment \in Nat /\ about[u] \subseteq Links \cup Files
      BY ReputationAssumption DEF AskingFit, MemoriesFit
    <3>2. turn[u] \in 0..moment
      BY <3>1
    <3>3. asking[u] \in {"google", "total", "file"} => Cardinality(about[u]) = 1
      BY <2>2, <3>1 DEF AskedFit
    <3> QED BY <3>1, <3>2, <3>3 DEF AskedFit
  <2> QED BY <2>1, <2>3 DEF ReputationTypeOK, AskingFit, ChecksFit
<1>2. OnlyWhatWasSaid
  <2>1. /\ \A t \in DOMAIN google : <<t, google[t].bad>> \in said
        /\ \A t \in DOMAIN outer : <<t, outer[t].bad>> \in said
        /\ \A t \in DOMAIN total : <<t, total[t].bad>> \in said
        /\ \A t \in DOMAIN scanned : <<t, scanned[t].bad>> \in said
        /\ \A t \in DOMAIN judged : <<t, judged[t].bad>> \in said
    BY DEF MemoriesFit, GoogleFit, OuterFit, DatedFit
  <2> QED BY <2>1 DEF OnlyWhatWasSaid, ChecksFit
<1> QED BY <1>1, <1>2 DEF MarksTrue

\* What is held against a link or a file was said of it, and not used for longer than it was
\* said for, through both memories of Google's answers (safe_browsing.py:56-80,
\* moderation.py:1230-1273).
THEOREM MarksAreTrue == ReputationSpec => []MarksTrue
<1>1. ReputationInit => MarkInv
  BY ReputationStart
<1>2. MarkInv /\ [ReputationNext]_reputationVars => MarkInv'
  BY ReputationStep
<1>3. MarkInv => MarksTrue
  BY MarksHold
<1> QED BY <1>1, <1>2, <1>3, PTL DEF ReputationSpec
=============================================================================
