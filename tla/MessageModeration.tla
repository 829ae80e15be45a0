------------------------- MODULE MessageModeration -------------------------
(***************************************************************************)
(* The check of every member's message (cogs/mod.py, moderation.py): links, *)
(* then for ordinary members mentions, the same text in several channels,   *)
(* repeated text and pace, then text and attachments.  Checks of several    *)
(* messages interleave at their awaits and share the trackers of an         *)
(* author's recent messages; an edit is checked again, for its content.     *)
(* The other listeners of a message wait for its verdict at the gate.       *)
(***************************************************************************)
EXTENDS VerdictGate, Sequences, FiniteSetsExt

CONSTANTS
  Author, Server, Room, Body,     \* of every message, a function of GateKeys
  Staff, Protected,               \* authors who moderate; whom Discord never restricts
  FormRooms, LogRooms,            \* structured channels; channels of the journal
  Natures,                        \* what each message may contain: sets of findings
  Raids,                          \* bound: what each message may see of the raid mode
  FilterSets,                     \* the settings a server may have: sets of filters
  SpamWindow, SpamCount, FloodWindow, FloodCount, CrossWindow, CrossCount,
  Edited,                         \* bound: the messages that may be edited, once
  MaxClock                        \* bound: the clock stops here

Messages == GateKeys
Findings == {"badUrl", "adUrl", "repUrl", "oddUrl", "pings", "fewPings", "badFile",
             "seenMedia", "oddMedia", "adText", "oddText"}

ASSUME ModerationAssumption ==
  /\ IsFiniteSet(Messages) /\ Edited \subseteq Messages
  /\ Natures \in [Messages -> SUBSET SUBSET Findings] /\ Raids \in [Messages -> SUBSET BOOLEAN]
  /\ {SpamWindow, SpamCount, FloodWindow, FloodCount, CrossWindow, CrossCount, MaxClock} \subseteq Nat

Checks == (Messages \X {"new"}) \cup (Edited \X {"edit"})
Trackers == {<<Server[m], Author[m]>> : m \in Messages}
TrackerOf(m) == <<Server[m], Author[m]>>

VARIABLES
  filters,         \* the filters that are on
  nature,          \* what each message contains now
  stage,           \* how far each check is
  strict,          \* the raid mode each check saw at its start
  began,           \* the time each check took when it began to count
  recent,          \* recent_messages: per server and author, the messages counted
  flood,           \* _flood_messages: per server and author, times
  sentence,        \* the cause of each check's punishment, or "none"
  evidence,        \* the findings of a check, or the messages it counted
  orphan,          \* the checks whose flood queue was replaced meanwhile
  deleted, muted,  \* messages deleted; checks whose author was timed out
  saidAt,          \* the time each message was counted with, or -1
  countedAt,       \* when it was counted, or -1
  tick             \* time.time()

modVars == <<filters, nature, stage, strict, began, recent, flood, sentence, evidence,
             orphan, deleted, muted, saidAt, countedAt, tick>>

Stages == {"idle", "links", "behaviour", "counting", "content", "files", "sentence", "over"}

IfOn(f, S) == IF filters \cap f # {} THEN S ELSE {}

ModerationInit ==
  /\ GateInit
  /\ filters \in FilterSets
  /\ nature \in [Messages -> UNION {Natures[m] : m \in Messages}]
  /\ \A m \in Messages : nature[m] \in Natures[m]
  /\ stage = [c \in Checks |-> "idle"] /\ strict = [c \in Checks |-> FALSE]
  /\ began = [c \in Checks |-> 0]
  /\ recent = [k \in Trackers |-> {}] /\ flood = [k \in Trackers |-> <<>>]
  /\ sentence = [c \in Checks |-> "none"] /\ evidence = [c \in Checks |-> {}]
  /\ orphan = {} /\ deleted = {} /\ muted = {}
  /\ saidAt = [m \in Messages |-> -1] /\ countedAt = [m \in Messages |-> -1] /\ tick = 0

\* A check goes on to stage s.
Go(c, s) == stage' = [stage EXCEPT ![c] = s]

\* Mutant: the check does not return after a punishment for the pace.
ConcludeForgetful(c, v) ==
  /\ Go(c, "over")
  /\ IF c[2] = "new" THEN GateFinish(c[1], IF sentence[c] = "flood" THEN "clear" ELSE v)
     ELSE UNCHANGED gateVars

\* A check ends with v; the gate hears of the first check of a message only.
Conclude(c, v) ==
  /\ Go(c, "over")
  /\ IF c[2] = "new" THEN GateFinish(c[1], v) ELSE UNCHANGED gateVars

\* A check has found the cause and punishes next.
Convict(c, cause, e) ==
  /\ Go(c, "sentence")
  /\ sentence' = [sentence EXCEPT ![c] = cause]
  /\ evidence' = [evidence EXCEPT ![c] = e]

Arrive(m) ==
  /\ stage[<<m, "new">>] = "idle"
  /\ Go(<<m, "new">>, "links")
  /\ \E raid \in Raids[m] : strict' = [strict EXCEPT ![<<m, "new">>] = raid]
  /\ GateBegin(m)
  /\ UNCHANGED <<filters, nature, began, recent, flood, sentence, evidence, orphan, deleted,
                 muted, saidAt, countedAt, tick>>

\* The author changes the message, of which the first check may hold the object.
Edit(m) ==
  /\ m \in Edited /\ m \notin deleted
  /\ stage[<<m, "new">>] # "idle" /\ stage[<<m, "edit">>] = "idle"
  /\ \E n \in Natures[m] \ {nature[m]} : nature' = [nature EXCEPT ![m] = n]
  /\ Go(<<m, "edit">>, "links")
  /\ \E raid \in Raids[m] : strict' = [strict EXCEPT ![<<m, "edit">>] = raid]
  /\ UNCHANGED <<gateVars, filters, began, recent, flood, sentence, evidence, orphan,
                 deleted, muted, saidAt, countedAt, tick>>

\* A channel of the journal, or moderation switched off on the server.
Exempt(c) ==
  /\ stage[c] = "links" /\ (Room[c[1]] \in LogRooms \/ "enabled" \notin filters)
  /\ Conclude(c, "clear")
  /\ UNCHANGED <<filters, nature, strict, began, recent, flood, sentence, evidence, orphan,
                 deleted, muted, saidAt, countedAt, tick>>

\* An error outside the stages that catch theirs: the message counts as blocked.
Crash(c) ==
  /\ stage[c] = "links"
  /\ Conclude(c, "blocked")
  /\ UNCHANGED <<filters, nature, strict, began, recent, flood, sentence, evidence, orphan,
                 deleted, muted, saidAt, countedAt, tick>>

\* What the links prove without asking anyone, and what a reputation service would say.
LocalLinks(n) == IfOn({"scam"}, n \cap {"badUrl"}) \cup IfOn({"ads"}, n \cap {"adUrl"})
KnownLinks(n) == IfOn({"scam"}, n \cap {"repUrl"})

AfterLinks(c) ==
  Go(c, IF Author[c[1]] \in Staff \/ Room[c[1]] \in FormRooms THEN "files" ELSE "behaviour")

\* The services are asked only when no link is bad for sure, and may not answer;
\* what the language model suspects ("oddUrl") is only written to the journal.
CheckLinks(c) ==
  /\ stage[c] = "links" /\ Room[c[1]] \notin LogRooms /\ "enabled" \in filters
  /\ LET sure == LocalLinks(nature[c[1]])
     IN \E e \in IF sure # {} THEN {sure} ELSE SUBSET KnownLinks(nature[c[1]]) :
          IF e # {} THEN Convict(c, "links", e)
          ELSE AfterLinks(c) /\ UNCHANGED <<sentence, evidence>>
  /\ UNCHANGED <<gateVars, filters, nature, strict, began, recent, flood, orphan, deleted,
                 muted, saidAt, countedAt, tick>>

\* Mutant: a picture only the language model objects to is enough.
FileProofSuspects(n) ==
  IfOn({"scam"}, n \cap {"badFile"}) \cup IfOn({"nsfw", "ads"}, n \cap {"seenMedia", "oddMedia"})

\* A dangerous file is proof; so is a picture that its name and the model both tell.
FileProof(n) ==
  IfOn({"scam"}, n \cap {"badFile"}) \cup IfOn({"nsfw", "ads"}, n \cap {"seenMedia"})

\* Staff and the structured channels: attachments only.  Reading them may fail.
CheckFiles(c) ==
  /\ stage[c] = "files"
  /\ \E e \in SUBSET FileProof(nature[c[1]]) :
       IF e # {} THEN Convict(c, "files", e) /\ UNCHANGED gateVars
       ELSE Conclude(c, "clear") /\ UNCHANGED <<sentence, evidence>>
  /\ UNCHANGED <<filters, nature, strict, began, recent, flood, orphan, deleted, muted,
                 saidAt, countedAt, tick>>

Pings(c) ==
  IfOn({"mentions"}, nature[c[1]] \cap ({"pings"} \cup IF strict[c] THEN {"fewPings"} ELSE {}))

\* Entries of the author's tracker with the text of m, not older than the window.
SameText(m, window, t) ==
  {e \in recent[TrackerOf(m)] : Body[e.msg] = Body[m] /\ t - e.at <= window}

CrossRooms(c) ==
  {Room[e.msg] : e \in SameText(c[1], IF strict[c] THEN Max({CrossWindow, 30}) ELSE CrossWindow, tick)}
    \cup {Room[c[1]]}
CrossLimit(c) == Max({2, IF strict[c] THEN Min({CrossCount, 2}) ELSE CrossCount})

\* Mentions, then the same text in several channels; both only look.
CheckBehaviour(c) ==
  /\ stage[c] = "behaviour"
  /\ LET cross == c[2] = "new" /\ "cross" \in filters /\ Cardinality(CrossRooms(c)) >= CrossLimit(c)
     IN CASE Pings(c) # {} -> Convict(c, "pings", Pings(c)) /\ UNCHANGED began
          [] Pings(c) = {} /\ cross -> Convict(c, "cross", CrossRooms(c)) /\ UNCHANGED began
          [] OTHER -> /\ Go(c, IF c[2] = "new" THEN "counting" ELSE "content")
                      /\ began' = [began EXCEPT ![c] = tick]
                      /\ UNCHANGED <<sentence, evidence>>
  /\ UNCHANGED <<gateVars, filters, nature, strict, recent, flood, orphan, deleted, muted,
                 saidAt, countedAt, tick>>

SpamLimit(c) == IF strict[c] THEN Min({SpamCount, 2}) ELSE SpamCount
FloodLimit(c) == IF strict[c] THEN Min({FloodCount, 4}) ELSE FloodCount
FloodSpan(c) == IF strict[c] THEN Max({FloodWindow, 8}) ELSE FloodWindow
Horizon(c) == Max({SpamWindow, FloodSpan(c), CrossWindow})

\* The times of the author's messages with this one, the old ones taken off the front.
Paced(c) ==
  LET q == Append(flood[TrackerOf(c[1])], began[c])
      fresh == {i \in DOMAIN q : began[c] - q[i] <= FloodSpan(c)}
  IN SubSeq(q, Min(fresh), Len(q))

\* The message enters the tracker with the time taken before the settings were
\* read; repeated text convicts, else the pace does.
Count(c) ==
  LET m == c[1]
      k == TrackerOf(m)
      kept == {e \in recent[k] \cup {[msg |-> m, at |-> began[c]]} : began[c] - e.at <= Horizon(c)}
      same == {e.msg : e \in {x \in kept : Body[x.msg] = Body[m] /\ began[c] - x.at <= SpamWindow}}
      spam == "spam" \in filters /\ Cardinality(same) >= SpamLimit(c)
      pace == ~spam /\ "flood" \in filters
  IN /\ stage[c] = "counting"
     /\ recent' = [recent EXCEPT ![k] = kept]
     /\ saidAt' = [saidAt EXCEPT ![m] = began[c]]
     /\ countedAt' = [countedAt EXCEPT ![m] = tick]
     /\ flood' = IF pace THEN [flood EXCEPT ![k] = Paced(c)] ELSE flood
     /\ IF spam THEN Convict(c, "spam", same)
        ELSE IF pace /\ Len(Paced(c)) >= FloodLimit(c) THEN Convict(c, "flood", {})
        ELSE Go(c, "content") /\ UNCHANGED <<sentence, evidence>>
     /\ UNCHANGED <<gateVars, filters, nature, strict, began, orphan, deleted, muted, tick>>

\* Text and attachments: an error in the second loses the findings of the first.
CheckContent(c) ==
  LET text == IfOn({"ads"}, nature[c[1]] \cap {"adText"})
  IN /\ stage[c] = "content"
     /\ \E e \in {{}} \cup {text \cup f : f \in SUBSET FileProof(nature[c[1]])} :
          IF e # {} THEN Convict(c, "content", e) /\ UNCHANGED gateVars
          ELSE Conclude(c, "clear") /\ UNCHANGED <<sentence, evidence>>
     /\ UNCHANGED <<filters, nature, strict, began, recent, flood, orphan, deleted, muted,
                    saidAt, countedAt, tick>>

Victims(c) ==
  CASE sentence[c] = "spam" -> {x \in evidence[c] : Room[x] = Room[c[1]]}
    [] sentence[c] = "flood" -> {}
    [] OTHER -> {c[1]}

\* May this sentence time its author out?
Restricts(c) == Author[c[1]] \notin Protected \cup Staff

\* Delete, restrict, journal and tell, each of which may fail; then the trackers
\* of a repeated text, or of a pace, are emptied.
Punish(c) ==
  LET k == TrackerOf(c[1])
      spam == sentence[c] = "spam"
  IN /\ stage[c] = "sentence"
     /\ \E gone \in {{}, Victims(c)} : deleted' = deleted \cup gone
     /\ \E on \in {{}} \cup (IF Restricts(c) THEN {{c}} ELSE {}) : muted' = muted \cup on
     /\ recent' = IF spam THEN [recent EXCEPT ![k] = {}] ELSE recent
     /\ flood' = IF spam \/ (sentence[c] = "flood" /\ c \notin orphan)
                 THEN [flood EXCEPT ![k] = <<>>] ELSE flood
     /\ orphan' = IF spam
                  THEN orphan \cup {d \in Checks : stage[d] = "sentence" /\ sentence[d] = "flood"
                                                   /\ TrackerOf(d[1]) = k}
                  ELSE orphan
     /\ Conclude(c, "blocked")
     /\ UNCHANGED <<filters, nature, strict, began, sentence, evidence, saidAt, countedAt, tick>>

ModerationTick ==
  /\ tick < MaxClock /\ tick' = tick + 1
  /\ UNCHANGED <<gateVars, filters, nature, stage, strict, began, recent, flood, sentence,
                 evidence, orphan, deleted, muted, saidAt, countedAt>>

CheckStep ==
  \E c \in Checks : Exempt(c) \/ Crash(c) \/ CheckLinks(c) \/ CheckFiles(c) \/ CheckBehaviour(c)
                    \/ Count(c) \/ CheckContent(c) \/ Punish(c)

ModerationNext ==
  \/ \E m \in Messages : Arrive(m)
  \/ \E m \in Edited : Edit(m)
  \/ CheckStep \/ ModerationTick
  \/ (Listen \/ AgeSome) /\ UNCHANGED modVars

ModerationSpec == ModerationInit /\ [][ModerationNext]_<<gateVars, modVars>>

-----------------------------------------------------------------------------
\* Type correctness; a check is convicted exactly when it has a cause, and the
\* verdict remembered is that of the message's first check (cogs/mod.py:90-102).
ModerationTypeOK ==
  /\ filters \in FilterSets /\ nature \in [Messages -> UNION {Natures[m] : m \in Messages}]
  /\ stage \in [Checks -> Stages] /\ strict \in [Checks -> BOOLEAN]
  /\ began \in [Checks -> 0..MaxClock] /\ tick \in 0..MaxClock
  /\ \A k \in Trackers : /\ \A e \in recent[k] : TrackerOf(e.msg) = k /\ e.at = saidAt[e.msg]
                         /\ flood[k] \in Seq(0..MaxClock)
  /\ deleted \subseteq Messages /\ muted \subseteq Checks
  /\ \A c \in Checks : (sentence[c] # "none") => stage[c] \in {"sentence", "over"}
  /\ \A m \in Messages : results[m] # "none" => stage[<<m, "new">>] = "over"

\* A message is deleted and its author restricted for what it contains only on
\* proof; what a language model alone suspects never suffices (cogs/mod.py:243).
ContentNeedsProof ==
  \A c \in Checks : sentence[c] \in {"links", "files", "content"} =>
    evidence[c] \cap {"badUrl", "adUrl", "repUrl", "badFile", "seenMedia", "adText"} # {}
      /\ evidence[c] \cap {"oddUrl", "oddMedia", "oddText"} = {}

\* Messages of the author of m on its server that were counted by the clock At, not
\* earlier than the window before m.
Said(m, At, window) ==
  {x \in Messages : TrackerOf(x) = TrackerOf(m) /\ At[x] >= 0 /\ saidAt[m] - At[x] <= window}

\* An author is punished for repeating a text only after really sending it that many
\* times on that server in that time, and for the pace after that many messages were
\* counted in that time, whatever the checks running side by side and the emptied
\* trackers did (moderation.py:1891-1962).
BehaviourCounted ==
  \A c \in Checks :
    /\ sentence[c] = "spam" =>
         Cardinality({x \in Said(c[1], saidAt, SpamWindow) : Body[x] = Body[c[1]]}) >= SpamLimit(c)
    /\ sentence[c] = "flood" => Cardinality(Said(c[1], countedAt, FloodSpan(c))) >= FloodLimit(c)
    /\ sentence[c] = "cross" => Cardinality(evidence[c]) >= CrossLimit(c)

\* Whoever moderates is never timed out, whatever the message or file
\* (apply_timeout=not is_staff, cogs/mod.py:149-160 and 175-181).
StaffNeverRestricted == \A c \in muted : Author[c[1]] \notin Staff

\* A listener goes on with a message only when its check is over and found
\* nothing: timeouts, dropped verdicts and late events never read as consent
\* ("A timeout is fail-closed", cogs/forms.py:95-102).
UsedOnlyIfClear ==
  \A w \in GateWaiters : wait[w] = "clear" =>
    stage[<<WaitsFor[w], "new">>] = "over" /\ sentence[<<WaitsFor[w], "new">>] = "none"

\* Who is judged is judged for a cause: content on proof, behaviour when counted,
\* and nobody of the staff is restricted (cogs/mod.py:149-181, 243,
\* moderation.py:1891-1962).
JudgedForCause ==
  GateTypeOK /\ ModerationTypeOK /\ ContentNeedsProof /\ BehaviourCounted /\ StaffNeverRestricted
=============================================================================
