------------------------------ MODULE AIMemory ------------------------------
(***************************************************************************)
(* What P.OS remembers of a guild (pos_ai.py:5107-5410): a list of messages  *)
(* for the guild and one for each author, kept in caches and written to the  *)
(* table ai_context later.  Messages are remembered and forgotten by the     *)
(* gateway's handlers (cogs/logging_events.py); flushes are started by them, *)
(* by the periodic backup and by a shutdown.  All of them run side by side,  *)
(* and give way only where a list is read or a row is written.               *)
(***************************************************************************)
EXTENDS Positions, SequencesExt

CONSTANTS
  Writers,                     \* concurrent handlers and flushes
  Messages, Users,
  AuthorOf, ChannelOf,         \* of each message
  PerChannel, PerGuild, PerUser,   \* AI_MEMORY_... and AI_USER_MEMORY_... (180, 1200, 80)
  MaxSlots, EvictCount,        \* _MAX_USER_CTX_CACHE (5000) and half of it
  MaxEvents, MaxWriteFaults, MaxMemCrashes   \* bounds

ASSUME MemoryAssumption ==
  /\ AuthorOf \in [Messages -> Users]
  /\ {PerChannel, PerGuild, PerUser, MaxSlots, EvictCount} \subseteq Nat \ {0}
  /\ IsFiniteSet(Writers)
  /\ "not loaded" \notin Messages /\ {"guild", "none", "first", "second"} \cap Users = {}

GuildSlot == "guild"
Lists == {GuildSlot} \cup Users
NotLoaded == <<"not loaded">>
Resting == [op |-> "none", ms |-> {}, at |-> "none", todo |-> {}]

VARIABLES
  cache,   \* _guild_memory_cache, _user_ctx_cache: [Lists -> list or NotLoaded]
  stored,  \* the rows of ai_context
  dirty,   \* _guild_memory_dirty, _user_ctx_dirty
  queue,   \* [Lists -> tasks at the lock of the list, in order]
  writes,  \* rows on their way, in the order of the write lock
  task,    \* what each of Writers does
  truth,   \* history: what each list should hold
  torn,    \* history: lists dropped from the cache while somebody used them
  erased,  \* history: messages found in the guild's list and deleted since
  events, writeFaults, memCrashes

memHistory == <<truth, torn, erased>>
memBounds == <<events, writeFaults, memCrashes>>
memVars == <<cache, stored, dirty, queue, writes, task, truth, torn, erased,
             events, writeFaults, memCrashes>>

MemoryInit ==
  /\ cache = [s \in Lists |-> NotLoaded] /\ stored = [s \in Lists |-> <<>>]
  /\ dirty = {} /\ queue = [s \in Lists |-> <<>>] /\ writes = <<>>
  /\ task = [w \in Writers |-> Resting]
  /\ truth = stored /\ torn = {} /\ erased = {}
  /\ events = 0 /\ writeFaults = 0 /\ memCrashes = 0

Loaded(s) == cache[s] # NotLoaded
View(s) == IF Loaded(s) THEN cache[s] ELSE stored[s]

-----------------------------------------------------------------------------
\* The lists.

\* _prune_guild_memory: the newest of each channel, and of all.
PruneGuild(list) ==
  LET newer(i) == Cardinality({j \in i + 1 .. Len(list) :
                                 ChannelOf[list[j]] = ChannelOf[list[i]]})
      kept == {i \in 1 .. Len(list) : newer(i) < PerChannel}
      last == {i \in kept : Cardinality({j \in kept : j > i}) < PerGuild}
  IN AtPositions(list, last)

Newest(list, limit) ==
  IF Len(list) > limit THEN SubSeq(list, Len(list) - limit + 1, Len(list)) ELSE list

Forgotten(list, ms) == OnlyFrom(list, Messages \ ms)

\* _upsert_memory_item: an edited message moves to the end.
Upserted(list, m) == Append(Forgotten(list, {m}), m)

Remembered(s, list, m) ==
  IF s = GuildSlot THEN PruneGuild(Upserted(list, m)) ELSE Newest(Upserted(list, m), PerUser)

-----------------------------------------------------------------------------
\* Remembering and forgetting.

MayReach(w, s) ==
  \/ Loaded(s) /\ w \notin ToSet(queue[s])
  \/ queue[s] # <<>> /\ w = Head(queue[s])

\* What the task w does to a list, and to which lists after the one it is at.
Changed(w, s, list) ==
  IF task[w].op = "remember"
  THEN Remembered(s, list, CHOOSE m \in task[w].ms : TRUE)
  ELSE Forgotten(list, task[w].ms)

\* Mutant: forgetting cleans the authors' lists only where they are in memory.
LoadedAfter(w, s) ==
  IF s # GuildSlot THEN task[w].todo \ {s}
  ELSE IF task[w].op = "remember" THEN {AuthorOf[m] : m \in task[w].ms}
  ELSE {u \in {AuthorOf[m] : m \in task[w].ms \cap ToSet(View(s))} : Loaded(u)}

ListsAfter(w, s) ==
  IF s # GuildSlot THEN task[w].todo \ {s}
  ELSE IF task[w].op = "remember" THEN {AuthorOf[m] : m \in task[w].ms}
  ELSE {AuthorOf[m] : m \in task[w].ms \cap ToSet(View(s))}

\* A message is posted or edited, or some are deleted.
Arrive(w, op, ms) ==
  /\ task[w] = Resting /\ events < MaxEvents
  /\ task' = [task EXCEPT ![w] = [op |-> op, ms |-> ms, at |-> GuildSlot, todo |-> {}]]
  /\ events' = events + 1
  /\ erased' = IF op = "remember" THEN erased \ ms ELSE erased
  /\ UNCHANGED <<cache, stored, dirty, queue, writes, truth, torn, writeFaults, memCrashes>>

\* The guild's list is not in memory: the task lines up at its lock.
LineUp(w) ==
  /\ task[w].at = GuildSlot /\ ~Loaded(GuildSlot) /\ w \notin ToSet(queue[GuildSlot])
  /\ queue' = [queue EXCEPT ![GuildSlot] = Append(@, w)]
  /\ UNCHANGED <<cache, stored, dirty, writes, task, memHistory, memBounds>>

\* What has been forgotten for good: found, and remembered by nobody meanwhile.
Erased(w) ==
  LET busy == UNION {task[x].ms : x \in {y \in Writers : task[y].op = "remember"}}
  IN IF task[w].op # "forget" THEN erased
     ELSE erased \cup ((task[w].ms \cap ToSet(truth[GuildSlot])) \ busy)

\* remember_server_message, forget_server_messages: the list the task is at is
\* fetched if need be and changed, and those of the authors after it as long as
\* they are loaded; at the first that is not the task lines up.
Work(w) ==
  LET s == task[w].at
      lists == [cache EXCEPT ![s] = View(s)]
      lined == [queue EXCEPT ![s] = IF w \in ToSet(@) THEN Tail(@) ELSE @]
  IN /\ s \in Lists /\ MayReach(w, s)
     /\ \E now \in SUBSET {x \in ListsAfter(w, s) : Loaded(x)} :
          LET done == {s} \cup now
              left == ListsAfter(w, s) \ now
              new == [x \in Lists |-> IF x \in done THEN Changed(w, x, lists[x]) ELSE lists[x]]
          IN /\ cache' = new
             /\ truth' = [x \in Lists |-> IF x \in done THEN Changed(w, x, truth[x]) ELSE truth[x]]
             /\ dirty' = dirty \cup {x \in done : task[w].op = "remember" \/ new[x] # lists[x]}
             /\ \/ left = {} /\ task' = [task EXCEPT ![w] = Resting] /\ queue' = lined
                \/ \E x \in left :
                     /\ ~Loaded(x)
                     /\ task' = [task EXCEPT ![w].at = x, ![w].todo = left]
                     /\ queue' = [lined EXCEPT ![x] = Append(@, w)]
     /\ erased' = IF s = GuildSlot THEN Erased(w) ELSE erased
     /\ UNCHANGED <<stored, writes, torn, memBounds>>

-----------------------------------------------------------------------------
\* flush_ai_memory: the guild's list, then those of the authors, each without its
\* mark from the moment its text is made.

\* The lists a flush may drop when there are too many.
CleanUsers(D) == {u \in Users : Loaded(u) /\ u \notin D}

\* Somebody is reading the list, writing it, or about to.
InUse(u, W, self) ==
  \/ queue[u] # <<>>
  \/ \E i \in 1 .. Len(W) : W[i].slot = u
  \/ \E x \in Writers \ {self} : task[x].op = "flush" /\ u \in task[x].todo

\* The flush w, with D marked and W on their way, starts its next write or ends.
\* Half of the lists are dropped if there are too many, the oldest first.
FlushOn(w, stage, todo, D, W) ==
  LET users == IF stage = "first" THEN D \cap Users ELSE todo
      next == IF stage = "first" /\ todo # {} THEN todo ELSE users
      now == IF next = todo THEN stage ELSE "second"
  IN \/ \E s \in next :
          /\ dirty' = D \ {s}
          /\ writes' = Append(W, [by |-> w, slot |-> s,
                                  data |-> IF Loaded(s) THEN cache[s] ELSE <<>>])
          /\ task' = [task EXCEPT ![w] = [op |-> "flush", ms |-> {}, at |-> now,
                                          todo |-> next \ {s}]]
          /\ UNCHANGED <<cache, torn>>
     \/ /\ next = {}
        /\ dirty' = D /\ writes' = W /\ task' = [task EXCEPT ![w] = Resting]
        /\ \E gone \in SUBSET CleanUsers(D) :
             /\ Cardinality(gone) <= EvictCount
             /\ gone # {} => Cardinality({u \in Users : Loaded(u)}) > MaxSlots
             /\ cache' = [s \in Lists |-> IF s \in gone THEN NotLoaded ELSE cache[s]]
             /\ torn' = torn \cup {u \in gone : InUse(u, W, w)}

StartFlush(w) ==
  /\ task[w] = Resting /\ dirty # {}
  /\ FlushOn(w, "first", dirty \cap {GuildSlot}, dirty, writes)
  /\ UNCHANGED <<stored, queue, truth, erased, memBounds>>

Remarked(D, s) == D \cup {s}

\* update_ai_context, one at a time: the row is committed, or the write fails.
Written ==
  /\ writes # <<>>
  /\ LET x == Head(writes)
         flush(D) == FlushOn(x.by, task[x.by].at, task[x.by].todo, D, Tail(writes))
     IN \/ /\ stored' = [stored EXCEPT ![x.slot] = x.data]
           /\ flush(dirty) /\ UNCHANGED writeFaults
        \/ /\ writeFaults < MaxWriteFaults /\ writeFaults' = writeFaults + 1
           /\ flush(Remarked(dirty, x.slot)) /\ UNCHANGED stored
  /\ UNCHANGED <<queue, truth, erased, events, memCrashes>>

\* The process stops and starts again with what the rows hold.
MemoryCrash ==
  /\ memCrashes < MaxMemCrashes /\ memCrashes' = memCrashes + 1
  /\ cache' = [s \in Lists |-> NotLoaded] /\ dirty' = {}
  /\ queue' = [s \in Lists |-> <<>>] /\ writes' = <<>>
  /\ task' = [w \in Writers |-> Resting]
  /\ truth' = stored /\ torn' = {} /\ erased' = {}
  /\ UNCHANGED <<stored, events, writeFaults>>

MemoryNext ==
  \/ \E w \in Writers :
       \/ \E m \in Messages : Arrive(w, "remember", {m})
       \/ \E ms \in (SUBSET Messages) \ {{}} : Arrive(w, "forget", ms)
       \/ LineUp(w) \/ Work(w) \/ StartFlush(w)
  \/ Written \/ MemoryCrash

MemorySpec == MemoryInit /\ [][MemoryNext]_memVars

-----------------------------------------------------------------------------
\* Type correctness; each message is in a list once (pos_ai.py:5277-5285).
MemoryTypeOK ==
  /\ dirty \subseteq Lists /\ torn \subseteq Users /\ erased \subseteq Messages
  /\ \A s \in Lists : View(s) \in Seq(Messages) /\ IsInjective(View(s))
  /\ \A w \in Writers : task[w].op \in {"none", "remember", "forget", "flush"}
  /\ \A s \in Lists : IsInjective(queue[s])
  /\ Len(writes) <= Cardinality(Writers)

\* Nothing that was remembered is lost while the process runs: a list is what it
\* should be, in memory or else in its row, unless it was dropped from the cache
\* while somebody was using it (pos_ai.py:5107-5112, 5178-5199).
MemoryKept == \A s \in Lists \ torn : View(s) = truth[s]

\* Every list that is not marked and not on its way to its row is in its row as it
\* is in memory, so a flush after which nothing is marked has saved everything.
MarkedOrSaved ==
  \A s \in Lists \ (dirty \cup torn) :
    Loaded(s) /\ (\A i \in 1 .. Len(writes) : writes[i].slot # s) => stored[s] = cache[s]

\* What was found in the guild's list and forgotten comes back in no list, however
\* loads, flushes and other messages interleave (pos_ai.py:5287).
ForgottenStay ==
  (\A w \in Writers : task[w].op # "forget") =>
    \A s \in Lists \ torn : erased \cap ToSet(View(s)) = {}

\* Nothing is lost from the memory while the process runs, nothing unsaved looks
\* saved, and nothing forgotten returns (pos_ai.py:5107-5112, 5178-5199, 5287).
MemorySound == MemoryTypeOK /\ MemoryKept /\ MarkedOrSaved /\ ForgottenStay
=============================================================================
