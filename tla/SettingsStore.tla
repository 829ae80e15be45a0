--------------------------- MODULE SettingsStore ---------------------------
(***************************************************************************)
(* Small tables written through the one connection all tasks share: a         *)
(* server's settings with their cache (guild_config.py), the groups of beta  *)
(* administrators (storage.py, beta_access.py), the owner's vacation mode     *)
(* (vacation_mode.py).  A statement is seen by every task at once and is on   *)
(* disk with the next commit, whoever makes it.  A call may be cancelled, or   *)
(* its commit fail; the beta functions then roll back, the others do not.     *)
(***************************************************************************)
EXTENDS Integers, FiniteSets

CONSTANTS
  Callers,
  Global, Servers,        \* guild_id 0, and the guilds
  SettingKeys, SettingValues, Default,   \* DEFAULT_MODERATION_SETTINGS
  AccessGroups, Admins,
  MaxRequests, MaxInterrupts   \* bounds

Unset == "unset"
Nothing == [k \in {} |-> Unset]   \* not cached, or nothing promised
Nobody == "nobody"

ASSUME SettingsAssumption ==
  /\ Global \notin Servers /\ Nobody \notin Callers
  /\ Default \in [SettingKeys -> SettingValues]

SettingSlots == {Global} \cup Servers
Overrides == [SettingKeys -> SettingValues \cup {Unset}]

Requests ==
  [op : {"update"}, slot : SettingSlots, key : SettingKeys, to : SettingValues]
  \cup [op : {"get"}, slot : SettingSlots]
  \cup [op : {"away"}, on : BOOLEAN]
  \cup [op : {"save"}, group : AccessGroups, servers : (SUBSET Servers) \ {{}}]
  \cup [op : {"delete"}, group : AccessGroups]
  \cup [op : {"grant"}, group : AccessGroups, user : Admins, on : BOOLEAN]
BetaOps == {"save", "delete", "grant"}
NoCall == [req |-> [op |-> "none"], at |-> "none", base |-> Unset]

VARIABLES
  seen,          \* the tables as the connection shows them
  disk,          \* the tables as committed
  writer,        \* who holds the write lock
  settingsLock,  \* who holds guild_config's lock
  shown,         \* guild_config._cache
  calls,         \* the call each of Callers is in
  dubious,       \* history: slots, and the mode, an interrupted write may have changed
  promised,      \* history: what the last finished update of a slot promised
  promisedAway,  \* history: the mode the owner was last told, if any
  revoked,       \* history: administrators of groups the owner was told have no access
  repliedUnder,  \* history: the modes told when somebody was answered for the owner
  requests, interrupts

tables == <<seen, disk>>
told == <<dubious, promised, promisedAway, revoked, repliedUnder>>
bounds == <<requests, interrupts>>
settingsVars == <<seen, disk, writer, settingsLock, shown, calls, dubious, promised, promisedAway,
                  revoked, repliedUnder, requests, interrupts>>

NoTables ==
  [over |-> [s \in SettingSlots |-> [k \in SettingKeys |-> Unset]],
   groups |-> {}, servers |-> [g \in AccessGroups |-> {}], admins |-> [g \in AccessGroups |-> {}],
   away |-> FALSE]

SettingsInit ==
  /\ seen = NoTables /\ disk = NoTables
  /\ writer = Nobody /\ settingsLock = Nobody
  /\ shown = [s \in SettingSlots |-> Nothing]
  /\ calls = [c \in Callers |-> NoCall]
  /\ promised = [s \in SettingSlots |-> Nothing] /\ promisedAway = {}
  /\ dubious = {} /\ revoked = {} /\ repliedUnder = {}
  /\ requests = 0 /\ interrupts = 0

\* _load_effective_settings: the defaults, the global overrides, the guild's.
Effective(t, s) ==
  [k \in SettingKeys |->
     IF t.over[s][k] # Unset THEN t.over[s][k]
     ELSE IF t.over[Global][k] # Unset THEN t.over[Global][k] ELSE Default[k]]

Acl(t) == <<t.groups, t.servers, t.admins>>
Op(c) == calls[c].req.op

\* get_beta_access: the servers of the user's groups that hold the one asked from.
Access(t, user, source) ==
  UNION {t.servers[g] : g \in {x \in t.groups : user \in t.admins[x] /\ source \in t.servers[x]}}

Step(c, at) == calls' = [calls EXCEPT ![c].at = at]
Done(c) == calls' = [calls EXCEPT ![c] = NoCall]

-----------------------------------------------------------------------------
\* Settings are read and changed under guild_config's lock.

Request(c, r) ==
  /\ calls[c] = NoCall /\ requests < MaxRequests
  /\ r.op = "get" => shown[r.slot] = Nothing
  /\ requests' = requests + 1
  /\ calls' = [calls EXCEPT ![c] = [req |-> r, base |-> Unset,
       at |-> CASE r.op \in {"update", "get"} -> "settings lock"
                [] r.op = "away" -> "read" [] OTHER -> "first"]]
  /\ UNCHANGED <<tables, writer, settingsLock, shown, interrupts, told>>

\* Somebody else may have put the settings into the cache meanwhile.
TakeSettingsLock(c) ==
  /\ calls[c].at = "settings lock" /\ settingsLock = Nobody
  /\ settingsLock' = c
  /\ Step(c, IF Op(c) = "update" THEN "read"
             ELSE IF shown[calls[c].req.slot] = Nothing THEN "reload" ELSE "answer")
  /\ UNCHANGED <<tables, writer, shown, told, bounds>>

\* The old value is read, without the write lock.
ReadOld(c) ==
  /\ calls[c].at = "read" /\ Op(c) = "update"
  /\ calls' = [calls EXCEPT ![c].at = "first", ![c].base = seen.over[calls[c].req.slot]]
  /\ UNCHANGED <<tables, writer, settingsLock, shown, told, bounds>>

\* set_owner_vacation_mode: a mode that is on already is not written again.
ReadAway(c) ==
  /\ calls[c].at = "read" /\ Op(c) = "away"
  /\ IF seen.away = calls[c].req.on
     THEN Done(c) /\ promisedAway' = {seen.away}
     ELSE Step(c, "first") /\ UNCHANGED promisedAway
  /\ UNCHANGED <<tables, writer, settingsLock, shown, dubious, promised, revoked, repliedUnder, bounds>>

\* The settings as the rows have them go into the cache, and the lock is free.
Reload(c) ==
  /\ calls[c].at \in {"reload", "answer"}
  /\ LET s == calls[c].req.slot
     IN shown' = IF calls[c].at = "answer" THEN shown
                 ELSE [shown EXCEPT ![s] = Effective(seen, s)]
  /\ settingsLock' = Nobody /\ Done(c)
  /\ UNCHANGED <<tables, writer, told, bounds>>

\* handle_owner_vacation_ping: a member's message names the owner, or a role; it is
\* answered only if the mode is on and the owner, or a role of the owner, is named.
\* The step is the reading of the mode, which decides; the answer follows, if need be
\* after a look at the owner's roles.
Mentions == [bot : BOOLEAN, owners : BOOLEAN, logged : BOOLEAN, named : BOOLEAN,
             role : {"none", "owner's", "other"}]

AnswersFor(m) ==
  /\ ~m.bot /\ ~m.owners /\ ~m.logged
  /\ m.named \/ m.role = "owner's"
  /\ seen.away

Ping(m) ==
  /\ AnswersFor(m)
  /\ repliedUnder' = repliedUnder \cup promisedAway
  /\ UNCHANGED <<tables, writer, settingsLock, shown, calls, dubious, promised, promisedAway, revoked, bounds>>

\* A cached value is older than _CACHE_TTL.
Expire(s) ==
  /\ shown[s] # Nothing
  /\ shown' = [shown EXCEPT ![s] = Nothing]
  /\ UNCHANGED <<tables, writer, settingsLock, calls, told, bounds>>

-----------------------------------------------------------------------------
\* Writing, under the write lock.

\* What the first statements of a call make of the tables, and the last ones of a
\* change of a group: a group's servers are replaced, its administrators stay.
FirstStatement(r, base) ==
  CASE r.op = "update" -> [seen EXCEPT !.over[r.slot] = [base EXCEPT ![r.key] = r.to]]
    [] r.op = "away" -> [seen EXCEPT !.away = r.on]
    [] r.op = "save" -> [seen EXCEPT !.groups = @ \cup {r.group}, !.servers[r.group] = {}]
    [] r.op = "delete" -> [seen EXCEPT !.admins[r.group] = {}]
    [] r.op = "grant" -> [seen EXCEPT !.admins[r.group] = IF r.on THEN @ \cup {r.user} ELSE @ \ {r.user}]
SecondStatement(r) ==
  IF r.op = "save" THEN [seen EXCEPT !.servers[r.group] = r.servers]
  ELSE [seen EXCEPT !.groups = @ \ {r.group}, !.servers[r.group] = {}]

First(c) ==
  LET r == calls[c].req
  IN /\ calls[c].at = "first" /\ writer = Nobody
     /\ r.op = "grant" => r.group \in seen.groups
     /\ writer' = c
     /\ seen' = FirstStatement(r, calls[c].base)
     /\ promised' = IF r.op = "update" THEN [promised EXCEPT ![r.slot] = Nothing] ELSE promised
     /\ promisedAway' = IF r.op = "away" THEN {} ELSE promisedAway
     /\ Step(c, IF r.op \in {"save", "delete"} THEN "second" ELSE "commit")
     /\ revoked' = IF r.op = "grant" /\ r.on THEN revoked \ {<<r.group, r.user>>} ELSE revoked
     /\ UNCHANGED <<disk, settingsLock, shown, dubious, repliedUnder, bounds>>

\* A grant for a group that does not exist is refused.
RefuseGrant(c) ==
  /\ calls[c].at = "first" /\ writer = Nobody
  /\ Op(c) = "grant" /\ calls[c].req.group \notin seen.groups
  /\ Done(c)
  /\ UNCHANGED <<tables, writer, settingsLock, shown, told, bounds>>

Second(c) ==
  /\ calls[c].at = "second"
  /\ seen' = SecondStatement(calls[c].req)
  /\ Step(c, "commit")
  /\ UNCHANGED <<disk, writer, settingsLock, shown, told, bounds>>

\* Mutant: a change of the defaults leaves what is cached for the guilds.
OwnInvalidated(s) == [shown EXCEPT ![s] = Nothing]

\* invalidate: a change of the global slot concerns every guild.
Invalidated(s) ==
  IF s = Global THEN [x \in SettingSlots |-> Nothing] ELSE [shown EXCEPT ![s] = Nothing]

\* A commit writes whatever the transaction holds.
NowOnDisk == seen

Commit(c) ==
  LET r == calls[c].req
  IN /\ calls[c].at = "commit"
     /\ disk' = NowOnDisk /\ writer' = Nobody
     /\ IF r.op = "update"
        THEN /\ shown' = Invalidated(r.slot) /\ Step(c, "reload")
             /\ promised' = [promised EXCEPT ![r.slot] = seen.over[r.slot]]
        ELSE Done(c) /\ UNCHANGED <<shown, promised>>
     /\ promisedAway' = IF r.op = "away" THEN {r.on} ELSE promisedAway
     /\ revoked' = revoked \cup (CASE r.op = "delete" -> {r.group} \X Admins
                                   [] r.op = "grant" /\ ~r.on -> {<<r.group, r.user>>}
                                   [] OTHER -> {})
     /\ UNCHANGED <<seen, settingsLock, dubious, repliedUnder, bounds>>

-----------------------------------------------------------------------------
\* The call is cancelled or its commit fails.

\* The beta functions roll back what is in the open transaction, and with it what
\* another call has left there.  After the others it stays, or has been rolled back by
\* the failed commit itself.
AfterFailure(c) == IF Op(c) \in BetaOps THEN {disk} ELSE {seen, disk}

\* The commit of a cancelled call may yet be made.
Interrupt(c) ==
  /\ calls[c] # NoCall /\ interrupts < MaxInterrupts /\ interrupts' = interrupts + 1
  /\ IF writer = c
     THEN \/ seen' \in AfterFailure(c) /\ UNCHANGED disk
          \/ calls[c].at = "commit" /\ disk' = seen /\ UNCHANGED seen
     ELSE UNCHANGED <<seen, disk>>
  /\ dubious' = dubious \cup (IF writer # c THEN {}
                           ELSE CASE Op(c) = "update" -> {calls[c].req.slot}
                                  [] Op(c) = "away" -> {"away"} [] OTHER -> {})
  /\ writer' = IF writer = c THEN Nobody ELSE writer
  /\ settingsLock' = IF settingsLock = c THEN Nobody ELSE settingsLock
  /\ Done(c)
  /\ UNCHANGED <<shown, promised, promisedAway, revoked, repliedUnder, requests>>

\* The process stops: what is not committed is lost.
SettingsCrash ==
  /\ interrupts < MaxInterrupts /\ interrupts' = interrupts + 1
  /\ seen' = disk /\ writer' = Nobody /\ settingsLock' = Nobody
  /\ shown' = [s \in SettingSlots |-> Nothing]
  /\ calls' = [c \in Callers |-> NoCall]
  /\ dubious' = dubious \cup (IF seen.away # disk.away THEN {"away"} ELSE {})
  /\ UNCHANGED <<disk, promised, promisedAway, revoked, repliedUnder, requests>>

SettingsNext ==
  \/ \E c \in Callers :
       \/ \E r \in Requests : Request(c, r)
       \/ TakeSettingsLock(c) \/ ReadOld(c) \/ ReadAway(c) \/ Reload(c)
       \/ First(c) \/ RefuseGrant(c) \/ Second(c) \/ Commit(c) \/ Interrupt(c)
  \/ \E s \in SettingSlots : Expire(s)
  \/ \E m \in Mentions : Ping(m)
  \/ SettingsCrash

SettingsSpec == SettingsInit /\ [][SettingsNext]_settingsVars

-----------------------------------------------------------------------------
\* Type correctness; a call that writes holds the write lock, and one that changes
\* settings holds guild_config's lock from its first read to its last.
SettingsTypeOK ==
  /\ \A t \in {seen, disk} :
       /\ t.over \in [SettingSlots -> Overrides] /\ t.away \in BOOLEAN
       /\ t.servers \in [AccessGroups -> SUBSET Servers] /\ t.admins \in [AccessGroups -> SUBSET Admins]
  /\ \A c \in Callers :
       /\ calls[c].at \in {"second", "commit"} <=> writer = c
       /\ Op(c) = "update" /\ calls[c].at # "settings lock" => settingsLock = c

\* The settings a guild is moderated by are those on disk, a change of the
\* defaults included, as long as no write to its rows was interrupted
\* (guild_config.py:128-150, 178-213).
CacheTrue ==
  \A s \in SettingSlots : shown[s] # Nothing /\ dubious \cap {s, Global} = {} =>
    shown[s] = Effective(disk, s)

\* An update that was reported is on disk with the keys changed before it, until the
\* next one begins, whatever other calls commit or roll back (guild_config.py:204-213).
UpdateDurable ==
  \A s \in SettingSlots : promised[s] # Nothing => disk.over[s] = promised[s]

\* On disk a group has servers, and a group that does not exist has neither servers
\* nor administrators: one made again under the same name gives access to nobody
\* (storage.py:182-197).
GroupsWhole ==
  \A g \in AccessGroups :
    /\ g \in disk.groups <=> disk.servers[g] # {}
    /\ disk.admins[g] # {} => g \in disk.groups

\* Whoever may read the groups reads them as committed, also when the transaction of
\* another call is left open ("Read one committed ACL snapshot", storage.py:121).
AclCommitted == writer = Nobody => Acl(seen) = Acl(disk)

\* Who was told to have lost a group, or whose group was deleted, has access only by
\* other groups, also when a group of that name is made again (beta_access.py:48-64).
RevokedStay ==
  \A u \in Admins, s \in Servers :
    Access(seen, u, s) \subseteq UNION {seen.servers[g] : g \in {x \in AccessGroups : <<x, u>> \notin revoked}}

\* No mention that is looked at once the owner was told that the mode is off, and before
\* it is changed again, is answered for the owner, as long as no change of the mode was
\* interrupted (vacation_mode.py:57-93, 147-184).
NoReplyWhenBack == "away" \notin dubious => FALSE \notin repliedUnder

\* Settings, groups and the vacation mode on one connection: what was reported is
\* committed, what is cached or answered by is what is there, and access that was
\* taken away stays away (guild_config.py:128-213, beta_access.py:48-64, storage.py:121).
SettingsSound ==
  /\ SettingsTypeOK
  /\ CacheTrue /\ UpdateDurable
  /\ GroupsWhole /\ AclCommitted /\ RevokedStay
  /\ NoReplyWhenBack
=============================================================================
