-------------------------- MODULE ReputationCache --------------------------
(***************************************************************************)
(* What the bot remembers of the reputation of links and files.  Google's   *)
(* answer about a link is kept twice: by the client of its service           *)
(* (safe_browsing.py), which the reader of web pages asks too, and by the    *)
(* check of messages (moderation.py), which afterwards asks VirusTotal and,   *)
(* for doubtful links, the language model.  Each answer has a lifetime of    *)
(* its own, an answer may take long, checks run side by side, and a service  *)
(* that fails has said nothing.                                              *)
(*                                                                           *)
(* Time is counted in units smaller than the second that is the least        *)
(* lifetime the code gives an answer.  The normalisation of a link and the   *)
(* local rules about it are left out: `Links` are links whose status the     *)
(* local rules leave open.                                                   *)
(***************************************************************************)
EXTENDS Naturals, FiniteSets, Functions, FiniteSetsExt

CONSTANTS
  Checkers,       \* checks of messages that may run at the same time
  Readers,        \* readings of web pages
  Links,          \* links whose reputation is asked for
  Files,          \* digests of attached files
  LeastLife,      \* the least life an answer of Google is given: a second
  Lives,          \* lifetimes Google gives its answers
  KnownFor,       \* how long an answer of VirusTotal is used
  Doubtful,       \* links the local rules leave to the language model
  JudgedFor,      \* how long a judgement of the language model is used
  Patience,       \* how long Google is waited for
  EntryLimit,     \* entries a memory holds before half of the limit is dropped
  MaxMoment          \* bound: the time a behaviour lasts

ASSUME ReputationAssumption ==
  /\ LeastLife \in Nat \ {0} /\ Patience \in Nat \ {0} /\ EntryLimit \in Nat \ {0, 1}
  /\ Lives \subseteq Nat \ {0} /\ KnownFor \in Nat \ {0} /\ JudgedFor \in Nat \ {0}
  /\ MaxMoment \in Nat /\ Doubtful \subseteq Links

Users == Checkers \cup Readers

VARIABLES
  moment,         \* the clock
  google,         \* the client's memory: link -> [bad, until, ends]; `ends` is
                  \* history: when the answer's own life is over, whatever memory it is in
  outer,          \* the check's own memory of Google's answers, of the same form
  total,          \* VirusTotal on links: link -> [bad, since]
  scanned,        \* VirusTotal on files: digest -> [bad, since]
  judged,         \* the language model's labels: link -> [bad, since]
  asking,         \* user -> the service whose answer it awaits, or "free", "going"
  about,          \* user -> the links (or digests) it asks about
  turn,           \* user -> the time read when the turn of that link came
  left,           \* checker -> links it has still to look at
  found,          \* checker -> links it found to be dangerous
  said,           \* history: <<thing, verdict>> pairs some service has answered
  stale           \* history: the memories a verdict was taken from too late

reputationVars == <<moment, google, outer, total, scanned, judged, asking, about, turn, left, found, said, stale>>

Empty == [l \in {} |-> 0]

\* The memories live in the process and start empty.
ReputationInit ==
  /\ moment = 0
  /\ google = Empty /\ outer = Empty /\ total = Empty /\ scanned = Empty /\ judged = Empty
  /\ asking = [u \in Users |-> "free"]
  /\ about = [u \in Users |-> {}]
  /\ turn = [u \in Users |-> 0]
  /\ left = [c \in Checkers |-> {}]
  /\ found = [c \in Checkers |-> {}]
  /\ said = {} /\ stale = {}

(***************************************************************************)
(* The memories.                                                            *)
(***************************************************************************)

Longer(a, b) == IF a > b THEN a ELSE b

With(memory, things, entry) ==
  [t \in DOMAIN memory \cup things |-> IF t \in things THEN entry ELSE memory[t]]

Dropping(things, memory) == Restrict(memory, DOMAIN memory \ things)

Order(entry) == IF "until" \in DOMAIN entry THEN entry.until ELSE entry.since

\* Over the limit, as many as half of it, those that run out (or were
\* learnt) first, are dropped.
Cut(memory) ==
  IF Cardinality(DOMAIN memory) <= EntryLimit THEN memory
  ELSE LET gone == CHOOSE s \in kSubset(EntryLimit \div 2, DOMAIN memory) :
                      \A a \in s, b \in DOMAIN memory \ s : Order(memory[a]) <= Order(memory[b])
       IN Dropping(gone, memory)

\* An entry of Google's counts until it runs out; its client then drops it when asked.
Known(memory, l) == l \in DOMAIN memory /\ moment < memory[l].until

Recent(memory, l, t, span) == l \in DOMAIN memory /\ t - memory[l].since < span

\* A verdict is taken from one of the memories.  Its life counts from the moment its
\* question was put; the check's own memory may add a second to it, and an answer of
\* VirusTotal's is looked up with the time read before Google was asked.
Late(from, ends) == IF moment < ends THEN {} ELSE {from}
LateOuter(l) == Late("outer", outer[l].ends + LeastLife)
LateTotal(l, t) ==
  IF Recent(total, l, t, KnownFor) THEN Late("total", total[l].since + KnownFor + Patience) ELSE {}

(***************************************************************************)
(* A message is checked.                                                    *)
(***************************************************************************)

\* The memories are cut when a check begins, not when they grow.
BeginCheck(c, links) ==
  /\ asking[c] = "free"
  /\ outer' = Cut(outer)
  /\ total' = Cut(total)
  /\ scanned' = Cut(scanned)
  /\ judged' = Cut(judged)
  /\ asking' = [asking EXCEPT ![c] = "going"]
  /\ left' = [left EXCEPT ![c] = links]
  /\ found' = [found EXCEPT ![c] = {}]
  /\ UNCHANGED <<moment, google, about, turn, said, stale>>

\* After Google, with what it said or without: a bad link needs no second opinion,
\* a known one none either, and for the rest VirusTotal is asked.
SecondOpinion(c, l, bad, t) ==
  LET known == Recent(total, l, t, KnownFor)
      worse == bad \/ (known /\ total[l].bad)
  IN /\ asking' = [asking EXCEPT ![c] = IF bad \/ known THEN "going" ELSE "total"]
     /\ about' = [about EXCEPT ![c] = IF bad \/ known THEN {} ELSE {l}]
     /\ turn' = [turn EXCEPT ![c] = t]
     /\ left' = [left EXCEPT ![c] = @ \ {l}]
     /\ found' = [found EXCEPT ![c] = IF worse THEN @ \cup {l} ELSE @]

\* What the client answers from its memory is kept by the check for the rest of its
\* life, a second at least.
KeepRest(l) ==
  outer' = With(outer, {l}, [google[l] EXCEPT !.until = moment + Longer(LeastLife, google[l].until - moment)])

LookAt(c, l) ==
  /\ asking[c] = "going" /\ l \in left[c]
  /\ UNCHANGED <<moment, total, scanned, judged, said>>
  /\ \/ /\ Known(outer, l)
        /\ SecondOpinion(c, l, outer[l].bad, moment)
        /\ stale' = stale \cup LateOuter(l) \cup (IF outer[l].bad THEN {} ELSE LateTotal(l, moment))
        /\ UNCHANGED <<google, outer>>
     \/ /\ ~Known(outer, l) /\ Known(google, l)
        /\ SecondOpinion(c, l, google[l].bad, moment)
        /\ KeepRest(l) /\ UNCHANGED google
        /\ stale' = stale \cup Late("google", google[l].ends)
                         \cup (IF google[l].bad THEN {} ELSE LateTotal(l, moment))
     \/ /\ ~Known(outer, l) /\ ~Known(google, l)
        /\ google' = Dropping({l}, google)
        /\ asking' = [asking EXCEPT ![c] = "google"]
        /\ about' = [about EXCEPT ![c] = {l}]
        /\ turn' = [turn EXCEPT ![c] = moment]
        /\ UNCHANGED <<outer, left, found, stale>>

(***************************************************************************)
(* Google answers, or fails.  A reader of web pages asks without a memory of *)
(* its own and goes on in every case but that of a known threat.             *)
(***************************************************************************)

\* Mutant: an answer's life is counted from its arrival.
FromArrival(u, bad, life) ==
  [bad |-> bad, until |-> moment + Longer(LeastLife, life), ends |-> turn[u] + Longer(LeastLife, life)]

\* An answer's life is counted from the moment the question was put.
Answered(u, bad, life) ==
  [bad |-> bad, until |-> turn[u] + Longer(LeastLife, life), ends |-> turn[u] + Longer(LeastLife, life)]

GoogleAnswers(u, bad, life) ==
  /\ asking[u] = "google"
  /\ google' = Cut(With(google, about[u], Answered(u, bad, life)))
  /\ said' = said \cup {<<l, bad>> : l \in about[u]}
  /\ UNCHANGED <<moment, total, scanned, judged>>
  /\ \/ /\ u \in Checkers
        /\ outer' = With(outer, about[u], Answered(u, bad, life))
        /\ \E l \in about[u] :
             /\ SecondOpinion(u, l, bad, turn[u])
             /\ stale' = stale \cup (IF bad THEN {} ELSE LateTotal(l, turn[u]))
     \/ /\ u \in Readers
        /\ asking' = [asking EXCEPT ![u] = "free"]
        /\ about' = [about EXCEPT ![u] = {}]
        /\ UNCHANGED <<outer, turn, left, found, stale>>

\* A failure leaves the memory as it is.
Silence(u) == UNCHANGED google

GoogleFails(u) ==
  /\ asking[u] = "google"
  /\ Silence(u)
  /\ UNCHANGED <<moment, outer, total, scanned, judged, said>>
  /\ \/ /\ u \in Checkers
        /\ \E l \in about[u] :
             /\ SecondOpinion(u, l, FALSE, turn[u])
             /\ stale' = stale \cup LateTotal(l, turn[u])
     \/ /\ u \in Readers
        /\ asking' = [asking EXCEPT ![u] = "free"]
        /\ about' = [about EXCEPT ![u] = {}]
        /\ UNCHANGED <<turn, left, found, stale>>

\* A page is about to be read: the client answers from its memory, or asks.
ReadPage(r, l) ==
  /\ asking[r] = "free"
  /\ UNCHANGED <<moment, outer, total, scanned, judged, left, found, said>>
  /\ IF Known(google, l)
     THEN stale' = stale \cup Late("google", google[l].ends) /\ UNCHANGED <<google, asking, about, turn>>
     ELSE /\ google' = Dropping({l}, google)
          /\ asking' = [asking EXCEPT ![r] = "google"]
          /\ about' = [about EXCEPT ![r] = {l}]
          /\ turn' = [turn EXCEPT ![r] = moment]
          /\ UNCHANGED stale

(***************************************************************************)
(* VirusTotal, and the language model.                                      *)
(***************************************************************************)

BackFrom(c, links) ==
  /\ asking' = [asking EXCEPT ![c] = "going"]
  /\ about' = [about EXCEPT ![c] = {}]
  /\ found' = [found EXCEPT ![c] = @ \cup links]

\* Its last analysis is remembered from the time the link's turn came.
TotalAnswers(c, bad) ==
  /\ asking[c] = "total"
  /\ total' = With(total, about[c], [bad |-> bad, since |-> turn[c]])
  /\ said' = said \cup {<<l, bad>> : l \in about[c]}
  /\ BackFrom(c, IF bad THEN about[c] ELSE {})
  /\ UNCHANGED <<moment, google, outer, scanned, judged, turn, left, stale>>

\* It does not know the link, or it fails.
TotalSilent(c) ==
  /\ asking[c] = "total"
  /\ BackFrom(c, {})
  /\ UNCHANGED <<moment, google, outer, total, scanned, judged, turn, left, said, stale>>

\* Nothing was found and doubtful links are left: labels still remembered are used
\* and the others are asked for together; the time is read before the answer.
AskModel(c, doubtful) ==
  /\ asking[c] = "going" /\ left[c] = {} /\ found[c] = {}
  /\ LET open == {l \in doubtful : ~Recent(judged, l, moment, JudgedFor)}
     IN /\ asking' = [asking EXCEPT ![c] = IF open = {} THEN "free" ELSE "model"]
        /\ about' = [about EXCEPT ![c] = open]
        /\ turn' = [turn EXCEPT ![c] = moment]
        /\ stale' = stale \cup UNION {Late("model", judged[l].since + JudgedFor) : l \in doubtful \ open}
  /\ UNCHANGED <<moment, google, outer, total, scanned, judged, left, found, said>>

\* It labels some of the links it was asked about; an answer that cannot be read, or a
\* label for another link, is dropped.
ModelAnswers(c, labelled, blocked) ==
  /\ asking[c] = "model" /\ labelled \subseteq about[c]
  /\ judged' = [l \in DOMAIN judged \cup labelled |->
                  IF l \in labelled THEN [bad |-> l \in blocked, since |-> moment] ELSE judged[l]]
  /\ said' = said \cup {<<l, l \in blocked>> : l \in labelled}
  /\ asking' = [asking EXCEPT ![c] = "free"]
  /\ about' = [about EXCEPT ![c] = {}]
  /\ UNCHANGED <<moment, google, outer, total, scanned, turn, left, found, stale>>

\* A check with a finding, or without a doubtful link, ends.
EndCheck(c) ==
  /\ asking[c] = "going" /\ left[c] = {}
  /\ asking' = [asking EXCEPT ![c] = "free"]
  /\ UNCHANGED <<moment, google, outer, total, scanned, judged, about, turn, left, found, said, stale>>

(***************************************************************************)
(* An attached file.                                                        *)
(***************************************************************************)

InspectFile(c, f) ==
  /\ asking[c] = "free"
  /\ UNCHANGED <<moment, google, outer, total, scanned, judged, left, found, said>>
  /\ IF Recent(scanned, f, moment, KnownFor)
     THEN stale' = stale \cup Late("file", scanned[f].since + KnownFor) /\ UNCHANGED <<asking, about, turn>>
     ELSE /\ asking' = [asking EXCEPT ![c] = "file"]
          /\ about' = [about EXCEPT ![c] = {f}]
          /\ turn' = [turn EXCEPT ![c] = moment]
          /\ UNCHANGED stale

FileAnswers(c, known, bad) ==
  /\ asking[c] = "file"
  /\ scanned' = IF known THEN With(scanned, about[c], [bad |-> bad, since |-> moment]) ELSE scanned
  /\ said' = IF known THEN said \cup {<<f, bad>> : f \in about[c]} ELSE said
  /\ asking' = [asking EXCEPT ![c] = "free"]
  /\ about' = [about EXCEPT ![c] = {}]
  /\ UNCHANGED <<moment, google, outer, total, judged, turn, left, found, stale>>

\* Time passes, but a question to Google is given up in time.
Tick ==
  /\ moment < MaxMoment
  /\ \A u \in Users : asking[u] = "google" => moment - turn[u] < Patience
  /\ moment' = moment + 1
  /\ UNCHANGED <<google, outer, total, scanned, judged, asking, about, turn, left, found, said, stale>>

ReputationNext ==
  \/ Tick
  \/ \E c \in Checkers :
       \/ \E links \in (SUBSET Links) \ {{}} : BeginCheck(c, links)
       \/ \E l \in Links : LookAt(c, l)
       \/ \E bad \in BOOLEAN : TotalAnswers(c, bad)
       \/ TotalSilent(c)
       \/ \E doubtful \in (SUBSET Doubtful) \ {{}} : AskModel(c, doubtful)
       \/ \E labelled, blocked \in SUBSET Doubtful : blocked \subseteq labelled /\ ModelAnswers(c, labelled, blocked)
       \/ EndCheck(c)
       \/ \E f \in Files : InspectFile(c, f)
       \/ \E known, bad \in BOOLEAN : (bad => known) /\ FileAnswers(c, known, bad)
  \/ \E u \in Users :
       \/ \E bad \in BOOLEAN, life \in Lives : GoogleAnswers(u, bad, life)
       \/ GoogleFails(u)
  \/ \E r \in Readers, l \in Links : ReadPage(r, l)

ReputationSpec == ReputationInit /\ [][ReputationNext]_reputationVars

(***************************************************************************)
(* Properties.                                                              *)
(***************************************************************************)

GoogleEntries == [bad : BOOLEAN, until : Nat \ {0}, ends : Nat \ {0}]
DatedEntries == [bad : BOOLEAN, since : 0..MaxMoment]
IsMemory(memory, things, entries) ==
  DOMAIN memory \subseteq things /\ \A t \in DOMAIN memory : memory[t] \in entries

\* The types; the client's memory never exceeds its limit, and a checker that awaits an
\* answer of Google's or VirusTotal's awaits it about one thing.
ReputationTypeOK ==
  /\ moment \in 0..MaxMoment
  /\ IsMemory(google, Links, GoogleEntries) /\ IsMemory(outer, Links, GoogleEntries)
  /\ IsMemory(total, Links, DatedEntries) /\ IsMemory(scanned, Files, DatedEntries)
  /\ IsMemory(judged, Links, DatedEntries)
  /\ Cardinality(DOMAIN google) <= EntryLimit
  /\ asking \in [Users -> {"free", "going", "google", "total", "model", "file"}]
  /\ \A u \in Users :
       /\ about[u] \subseteq Links \cup Files /\ turn[u] \in 0..moment
       /\ asking[u] \in {"google", "total", "file"} => Cardinality(about[u]) = 1
       /\ asking[u] \in {"free", "going"} => about[u] = {}
  /\ left \in [Checkers -> SUBSET Links] /\ found \in [Checkers -> SUBSET Links]

\* A verdict that is taken from a memory is no older than its life, counted from the
\* moment its question was put, although it passes through two memories, of which the
\* second may add a second, and may have been long on its way.
UsedInTime == stale = {}

\* No memory holds a verdict no service has given: one that failed, did not know the link
\* or could not be read is not remembered as having no objection, and what a check holds
\* against a link some service has said of that very link.
OnlyWhatWasSaid ==
  /\ \A memory \in {google, outer, total, scanned, judged} :
       \A t \in DOMAIN memory : <<t, memory[t].bad>> \in said
  /\ \A c \in Checkers : \A l \in found[c] : <<l, TRUE>> \in said

\* What is held against a link was said of it, and is not used for longer than it
\* was said for (safe_browsing.py:56-80, moderation.py:1230-1273).
MarksTrue == ReputationTypeOK /\ UsedInTime /\ OnlyWhatWasSaid
=============================================================================
