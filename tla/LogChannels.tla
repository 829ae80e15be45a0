----------------------------- MODULE LogChannels -----------------------------
(***************************************************************************)
(* The log channels of one server (logging_utils.py): setup_guild_logging      *)
(* finds or creates a category, closes it to ordinary members, and then, one     *)
(* key after another, synchronises or creates the channels; send_log_embed         *)
(* adds a row to the log, looks the key's channel up and sends under that            *)
(* channel's lock.  Setups run beside each other and beside reports, and members       *)
(* with the right remove channels meanwhile.                                             *)
(* Discord keeps a category's first channel of a name in front: of several with           *)
(* one name the eldest is found.  A category with a name of the caller's own and the        *)
(* one channel an owner may name for everything (PRIMARY_LOG_CHANNEL_ID) are left out.        *)
(***************************************************************************)
EXTENDS Naturals, Sequences, FiniteSets, SequencesExt

CONSTANTS
  LogKeys,        \* the keys of LOG_CHANNEL_CONFIGS in their order, "server" among them
  Setups,         \* calls of setup_guild_logging
  HandMade,       \* a category and its channels that exist from the start and are open
  ReportCap, RemovalCap, RefusalCap   \* bounds of the model

ASSUME ChannelAssumption ==
  /\ LogKeys \in Seq(ToSet(LogKeys)) /\ "server" \in ToSet(LogKeys)
  /\ HandMade \subseteq ToSet(LogKeys) /\ IsFiniteSet(HandMade)
  /\ {ReportCap, RemovalCap, RefusalCap} \subseteq Nat

Keys == ToSet(LogKeys)

VARIABLES
  shut,       \* category -> whether ordinary members cannot see it; the eldest is 1
  channels,   \* the channels there are: [id, area, key, shut]
  made,       \* how many there ever were
  channelCache,      \* _LOG_CHANNEL_CACHE: key -> a channel's id or 0
  setup,      \* the progress of each setup
  reports,    \* how many reports there were, in the order of their rows in the journal
  sendQueue,      \* channel -> reports waiting for its lock, the first one being sent
  entries,      \* channel -> reports it shows
  removals, refusals

logChannelVars == <<shut, channels, made, channelCache, setup, reports, sendQueue, entries, removals, refusals>>

Channel(id) == CHOOSE ch \in channels : ch.id = id
There(id) == \E ch \in channels : ch.id = id

\* _find_category: the eldest; and in a category the eldest channel of the key.
Category == IF shut = <<>> THEN 0 ELSE 1
FindIn(among, area, k) ==
  LET found == {ch.id : ch \in {c \in among : c.area = area /\ c.key = k}} IN
  IF found = {} THEN 0 ELSE CHOOSE i \in found : \A j \in found : i <= j

(* --------------------------------- Reports --------------------------------- *)

\* get_log_channel: the cached channel while it exists, else one found in the
\* category, else the server's own.
LookUpKey(k) ==
  LET own == IF channelCache[k] # 0 /\ There(channelCache[k]) THEN channelCache[k] ELSE FindIn(channels, Category, k) IN
  IF own # 0 \/ k = "server" THEN [id |-> own, key |-> k]
  ELSE [id |-> IF channelCache["server"] # 0 /\ There(channelCache["server"]) THEN channelCache["server"]
               ELSE FindIn(channels, Category, "server"), key |-> "server"]

\* send_log_embed: a row is added, and without another await the report is in line
\* at its channel's lock; without a channel it stays in the journal alone.  (A row
\* that cannot be added is only reported, and the rest goes on as here.)
ReportEvent(k) ==
  LET found == LookUpKey(k) IN
  /\ reports < ReportCap /\ reports' = reports + 1
  /\ IF found.id = 0 THEN UNCHANGED <<channelCache, sendQueue>>
     ELSE /\ channelCache' = [channelCache EXCEPT ![found.key] = found.id]
          /\ sendQueue' = [sendQueue EXCEPT ![found.id] = Append(@, [row |-> reports + 1, key |-> k])]
  /\ UNCHANGED <<shut, channels, made, setup, entries, removals, refusals>>

\* ensure_log_category_and_channels, when the connection is ready: the cache starts
\* anew with what the category holds.
Discover ==
  /\ channelCache' = [k \in Keys |-> FindIn(channels, Category, k)]
  /\ UNCHANGED <<shut, channels, made, setup, reports, sendQueue, entries, removals, refusals>>

Refused == refusals < RefusalCap /\ refusals' = refusals + 1

\* Mutant: the reports of a channel are sent without its lock.
SentUnlocked(i) == i >= 1
\* Only the report that came first holds the lock.
HoldsLock(i) == i = 1
\* Discord accepts the report that holds the lock, or it is dropped.
SendReport(id) ==
  /\ \E i \in DOMAIN sendQueue[id] :
       /\ HoldsLock(i)
       /\ sendQueue' = [sendQueue EXCEPT ![id] = RemoveAt(@, i)]
       /\ \/ There(id) /\ UNCHANGED refusals /\ entries' = [entries EXCEPT ![id] = Append(@, sendQueue[id][i])]
          \/ (IF There(id) THEN Refused ELSE UNCHANGED refusals) /\ UNCHANGED entries
  /\ UNCHANGED <<shut, channels, made, channelCache, setup, reports, removals>>

(* ---------------------------------- Setups ---------------------------------- *)

\* For each key the channel is looked for when the one before is done: what is found
\* then is synchronised with its category, whatever happens to it meanwhile.
KeyStep(area, i, failed, among) ==
  [stage |-> "keys", area |-> area, at |-> i, failed |-> failed,
   target |-> FindIn(among, area, LogKeys[i])]
Unbegun == [stage |-> "idle", area |-> 0, at |-> 0, failed |-> 0, target |-> 0]

\* After the last key the channels found replace the cache.
Over(s, area, failed, among) ==
  LET found == [k \in Keys |-> FindIn(among, area, k)] IN
  /\ channelCache' = IF \A k \in Keys : found[k] = 0 THEN channelCache ELSE found
  /\ setup' = [setup EXCEPT ![s] = [Unbegun EXCEPT !.stage = "done", !.area = area, !.failed = failed]]
Advance(s, failed, among) ==
  LET i == setup[s].at + 1 IN
  IF i > Len(LogKeys) THEN Over(s, setup[s].area, failed, among)
  ELSE setup' = [setup EXCEPT ![s] = KeyStep(setup[s].area, i, failed, among)] /\ UNCHANGED channelCache

BeginSetup(s) ==
  /\ setup[s].stage = "idle"
  /\ setup' = [setup EXCEPT ![s] =
       [@ EXCEPT !.stage = IF Category = 0 THEN "create" ELSE "close", !.area = Category]]
  /\ UNCHANGED <<shut, channels, made, channelCache, reports, sendQueue, entries, removals, refusals>>

\* The category is created closed, or an existing one is closed; a refusal ends the setup.
CloseCategory(s) ==
  /\ setup[s].stage \in {"create", "close"}
  /\ UNCHANGED <<channels, made, channelCache, reports, sendQueue, entries, removals>>
  /\ \/ /\ shut' = IF setup[s].stage = "create" THEN Append(shut, TRUE)
                   ELSE [shut EXCEPT ![setup[s].area] = TRUE]
        /\ LET area == IF setup[s].stage = "create" THEN Len(shut) + 1 ELSE setup[s].area
           IN setup' = [setup EXCEPT ![s] = KeyStep(area, 1, 0, channels)]
        /\ UNCHANGED refusals
     \/ /\ Refused /\ UNCHANGED shut
        /\ setup' = [setup EXCEPT ![s] = [Unbegun EXCEPT !.stage = "refused"]]

\* A synchronised channel has the rights of its category.
Synchronised(ch) == [ch EXCEPT !.shut = shut[ch.area]]

SyncChannel(s) ==
  LET id == setup[s].target IN
  /\ setup[s].stage = "keys" /\ id # 0
  /\ \/ /\ There(id) /\ UNCHANGED refusals
        /\ channels' = (channels \ {Channel(id)}) \cup {Synchronised(Channel(id))}
        /\ Advance(s, setup[s].failed, channels')
     \/ /\ (IF There(id) THEN Refused ELSE UNCHANGED refusals) /\ UNCHANGED channels
        /\ Advance(s, setup[s].failed + 1, channels)
  /\ UNCHANGED <<shut, made, reports, sendQueue, entries, removals>>

CreateChannel(s) ==
  /\ setup[s].stage = "keys" /\ setup[s].target = 0
  /\ \/ /\ made' = made + 1 /\ UNCHANGED refusals
        /\ channels' = channels \cup {[id |-> made + 1, area |-> setup[s].area,
                                       key |-> LogKeys[setup[s].at], shut |-> TRUE]}
        /\ sendQueue' = Append(sendQueue, <<>>) /\ entries' = Append(entries, <<>>)
        /\ Advance(s, setup[s].failed, channels')
     \/ /\ Refused /\ UNCHANGED <<made, channels, sendQueue, entries>>
        /\ Advance(s, setup[s].failed + 1, channels)
  /\ UNCHANGED <<shut, reports, removals>>

\* Someone removes a channel.
RemoveChannel(id) ==
  /\ There(id) /\ removals < RemovalCap /\ removals' = removals + 1
  /\ channels' = channels \ {Channel(id)}
  /\ UNCHANGED <<shut, made, channelCache, setup, reports, sendQueue, entries, refusals>>

ChannelInit ==
  /\ \/ shut = <<>> /\ made = 0 /\ channels = {}
     \/ /\ shut = <<FALSE>> /\ made = Cardinality(HandMade)
        /\ \E order \in SetToSeqs(HandMade) :
             channels = {[id |-> i, area |-> 1, key |-> order[i], shut |-> FALSE] : i \in DOMAIN order}
  /\ channelCache = [k \in Keys |-> 0] /\ setup = [s \in Setups |-> Unbegun]
  /\ reports = 0 /\ sendQueue = [i \in 1 .. made |-> <<>>] /\ entries = [i \in 1 .. made |-> <<>>]
  /\ removals = 0 /\ refusals = 0

ChannelNext ==
  \/ Discover
  \/ \E k \in Keys : ReportEvent(k)
  \/ \E id \in 1 .. made : SendReport(id) \/ RemoveChannel(id)
  \/ \E s \in Setups : BeginSetup(s) \/ CloseCategory(s) \/ SyncChannel(s) \/ CreateChannel(s)

(* -------------------------------- Properties -------------------------------- *)

ChannelTypeOK ==
  /\ \A ch \in channels : ch.id \in 1 .. made /\ ch.area \in DOMAIN shut /\ ch.key \in Keys
  /\ \A a, b \in channels : a.id = b.id => a = b
  /\ channelCache \in [Keys -> 0 .. made]
  /\ DOMAIN sendQueue = 1 .. made /\ DOMAIN entries = 1 .. made

\* Each channel shows its reports in the order of the journal, and only reports of its
\* own key, or, in the server's own channel, of a key that had none.
ReportsInOrder ==
  \A ch \in channels : \A i, j \in DOMAIN entries[ch.id] :
    /\ i < j => entries[ch.id][i].row < entries[ch.id][j].row
    /\ entries[ch.id][i].key = ch.key \/ ch.key = "server"

\* A setup that reports no failure leaves no log channel it found open, and the
\* category is closed ("closed to everyone but the bot and the administrators",
\* logging_utils.py:219-221), whatever other setups did at the same time.
SetupCloses ==
  \A s \in Setups : setup[s].stage = "done" =>
    /\ shut[setup[s].area]
    /\ setup[s].failed = 0 => \A k \in Keys :
         LET id == FindIn(channels, setup[s].area, k) IN
         id # 0 => Channel(id).shut

\* After setups without failure, and while none is at work, every report has a channel of its own key, until a
\* channel is removed.  (Of two that run at once each may make a category of its own,
\* and the cache holds those of the last; a later one that fails leaves it with less.)
SetupServes ==
  (/\ removals = 0 /\ \E s \in Setups : setup[s].stage = "done"
   /\ \A s \in Setups : setup[s].stage # "keys" /\ setup[s].failed = 0)
    => \A k \in Keys : LookUpKey(k).key = k /\ LookUpKey(k).id # 0

\* Log channels are closed, complete and in order (logging_utils.py:252-361, 450-522).
ChannelsSound == ChannelTypeOK /\ ReportsInOrder /\ SetupCloses /\ SetupServes
=============================================================================
