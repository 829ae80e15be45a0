---------------------------- MODULE ComplaintForms ----------------------------
(***************************************************************************)
(* Complaints (cogs/forms.py, forms.py).  A message in the complaints      *)
(* channel is handed over to a private channel of its own, with its        *)
(* evidence, and then removed.  Staff decide it there: the channel is      *)
(* archived, the decision claimed, the author told and the channel         *)
(* deleted.  Two decisions, the hand-over and the author's own messages    *)
(* may overlap, Discord may refuse each call, and the process may stop.    *)
(***************************************************************************)
EXTENDS FormClaims

CONSTANTS
  Complaints,      \* messages in the complaints channel; decided under the same names
  Authors,
  AuthorOf,        \* [Complaints -> Authors]
  Decidable        \* bound: the complaints that staff decide

NoComplaint == "nobody"

ASSUME ComplaintAssumption ==
  /\ AuthorOf \in [Complaints -> Authors] /\ Complaints \subseteq FormMessages
  /\ Decidable \subseteq Complaints /\ NoComplaint \notin Complaints

VARIABLES
  source,       \* complaints whose message still stands
  intake,       \* [Complaints -> how far the hand-over is]
  intakeLock,   \* the complaint that holds the guild's lock, or NoComplaint
  cooling,      \* authors who have handed over a complaint within ten minutes
  channel,      \* [Complaints -> "none", "open", "withdrawn" or "closed"]
  known,        \* complaints whose channel the bot's cache shows
  inChannel,       \* [Complaints -> what was posted in the channel]
  archive,      \* [Complaints -> what complete archives hold of it]
  deciding,     \* [Complaints -> [Verdicts -> how far a decision is]]
  verdicts,     \* ghost: [Complaints -> the verdicts that were carried out]
  tooLate       \* ghost: [Complaints -> what was posted after a decision had read the channel]

complaintVars == <<decided, processed, source, intake, intakeLock, cooling, channel, known,
                   inChannel, archive, deciding, verdicts, tooLate>>

Verdicts == {"approve", "reject"}
Items == {"complaint", "evidence", "message"}
NotDeciding == [pc |-> "idle", read |-> {}]

ComplaintTypeOK ==
  /\ ClaimTypeOK
  /\ source \subseteq Complaints /\ known \subseteq Complaints /\ cooling \subseteq Authors
  /\ intake \in [Complaints -> [pc : {"new", "lock", "create", "complaint", "evidence", "remove",
                                      "withdraw", "refused", "malformed", "done"}, evidence : BOOLEAN]]
  /\ intakeLock \in Complaints \cup {NoComplaint}
  /\ intakeLock # NoComplaint => intake[intakeLock].pc = "create"
  /\ channel \in [Complaints -> {"none", "open", "withdrawn", "closed"}]
  /\ inChannel \in [Complaints -> SUBSET Items] /\ archive \in [Complaints -> SUBSET Items]
  /\ deciding \in [Complaints -> [Verdicts -> [pc : {"idle", "archive", "claim", "delete"},
                                               read : SUBSET Items]]]
  /\ verdicts \in [Complaints -> SUBSET Verdicts] /\ tooLate \in [Complaints -> SUBSET Items]

ComplaintInit ==
  /\ ClaimInit
  /\ source = Complaints
  /\ intake \in [Complaints -> [pc : {"new"}, evidence : BOOLEAN]]
  /\ intakeLock = NoComplaint
  /\ cooling = {}
  /\ channel = [c \in Complaints |-> "none"]
  /\ known = {}
  /\ inChannel = [c \in Complaints |-> {}]
  /\ archive = [c \in Complaints |-> {}]
  /\ deciding = [c \in Complaints |-> [v \in Verdicts |-> NotDeciding]]
  /\ verdicts = [c \in Complaints |-> {}]
  /\ tooLate = [c \in Complaints |-> {}]

intakeVars == <<source, intake, intakeLock, cooling>>
channelVars == <<channel, known, inChannel, archive>>
decisionVars == <<deciding, verdicts>>

-----------------------------------------------------------------------------
\* The hand-over.

IntakeAt(c, pc) == intake[c].pc = pc
Go(c, pc) == intake' = [intake EXCEPT ![c].pc = pc]

\* A channel with the author's topic is in the cache.
HasOpen(a) == \E d \in known : AuthorOf[d] = a

\* A complaint without its two lines is removed and its form explained.
Malformed(c) ==
  /\ IntakeAt(c, "new") /\ Go(c, "malformed")
  /\ source' = source \ {c}
  /\ UNCHANGED <<intakeLock, cooling, channelVars, decisionVars, claimVars, tooLate>>

\* Too many or too large files, the cooldown, or an open complaint: a refusal.
Screen(c) ==
  /\ IntakeAt(c, "new")
  /\ \/ Go(c, "refused")
     \/ /\ AuthorOf[c] \notin cooling /\ ~HasOpen(AuthorOf[c])
        /\ Go(c, "lock")
  /\ UNCHANGED <<source, intakeLock, cooling, channelVars, decisionVars, claimVars, tooLate>>

\* Mutant: the open complaint is looked for before the lock only.
TakeLockUnchecked(c) ==
  /\ IntakeAt(c, "lock") /\ intakeLock = NoComplaint
  /\ intakeLock' = c /\ Go(c, "create")
  /\ UNCHANGED <<source, cooling, channelVars, decisionVars, claimVars, tooLate>>

\* Under the lock the author's open complaint is looked for again.
TakeLock(c) ==
  /\ IntakeAt(c, "lock") /\ intakeLock = NoComplaint
  /\ IF HasOpen(AuthorOf[c])
     THEN Go(c, "refused") /\ UNCHANGED intakeLock
     ELSE Go(c, "create") /\ intakeLock' = c
  /\ UNCHANGED <<source, cooling, channelVars, decisionVars, claimVars, tooLate>>

\* The channel is created and cached, or Discord refuses, or its answer is lost and
\* the channel stands although the author is told that it could not be made.
CreateChannel(c) ==
  /\ IntakeAt(c, "create") /\ intakeLock = c
  /\ intakeLock' = NoComplaint
  /\ \/ /\ channel' = [channel EXCEPT ![c] = "open"] /\ known' = known \cup {c}
        /\ Go(c, "complaint")
     \/ /\ channel' \in {channel, [channel EXCEPT ![c] = "open"]}
        /\ Go(c, "refused") /\ UNCHANGED known
  /\ UNCHANGED <<source, cooling, inChannel, archive, decisionVars, claimVars, tooLate>>

HasRead(c) == \E v \in Verdicts : deciding[c][v].pc # "idle"

PostIn(c, item) ==
  /\ channel[c] = "open"
  /\ inChannel' = [inChannel EXCEPT ![c] = @ \cup {item}]
  /\ tooLate' = [tooLate EXCEPT ![c] = IF HasRead(c) THEN @ \cup {item} ELSE @]

HandedOver(c) == IF intake[c].evidence THEN "evidence" ELSE "remove"

\* The complaint with its buttons is posted; the answer may be lost.
PostComplaint(c) ==
  /\ IntakeAt(c, "complaint")
  /\ \/ PostIn(c, "complaint") /\ intake' \in {[intake EXCEPT ![c].pc = HandedOver(c)],
                                             [intake EXCEPT ![c].pc = "withdraw"]}
     \/ UNCHANGED <<inChannel, tooLate>> /\ Go(c, "withdraw")
  /\ UNCHANGED <<source, intakeLock, cooling, channel, known, archive, decisionVars, claimVars>>

\* The files are read and posted in one message.
PostEvidence(c) ==
  /\ IntakeAt(c, "evidence")
  /\ \/ PostIn(c, "evidence") /\ intake' \in {[intake EXCEPT ![c].pc = "remove"],
                                            [intake EXCEPT ![c].pc = "withdraw"]}
     \/ UNCHANGED <<inChannel, tooLate>> /\ Go(c, "withdraw")
  /\ UNCHANGED <<source, intakeLock, cooling, channel, known, archive, decisionVars, claimVars>>

\* An incomplete hand-over is taken back, if Discord lets it; the message stays.
Withdraw(c) ==
  /\ IntakeAt(c, "withdraw") /\ Go(c, "refused")
  /\ channel' \in {channel} \cup (IF channel[c] = "open" THEN {[channel EXCEPT ![c] = "withdrawn"]} ELSE {})
  /\ UNCHANGED <<source, intakeLock, cooling, known, inChannel, archive, decisionVars, claimVars, tooLate>>

\* Only now the cooldown starts and the message goes, if Discord lets it.
RemoveSource(c) ==
  /\ IntakeAt(c, "remove") /\ Go(c, "done")
  /\ cooling' = cooling \cup {AuthorOf[c]}
  /\ source' \in {source, source \ {c}}
  /\ UNCHANGED <<intakeLock, channelVars, decisionVars, claimVars, tooLate>>

-----------------------------------------------------------------------------
\* The decision.

Step(c, v, pc) == deciding' = [deciding EXCEPT ![c][v].pc = pc]
Stop(c, v) == deciding' = [deciding EXCEPT ![c][v] = NotDeciding]

\* A member with the right presses a button of the complaint's message (a reason
\* is asked for when it is rejected), and _archive_complaint reads the channel to
\* its end and copies the evidence.
ReadChannel(c, v) ==
  /\ c \in Decidable /\ deciding[c][v].pc = "idle"
  /\ "complaint" \in inChannel[c] /\ channel[c] = "open" /\ c \in known
  /\ deciding' = [deciding EXCEPT ![c][v] = [pc |-> "archive", read |-> inChannel[c]]]
  /\ UNCHANGED <<verdicts, intakeVars, channelVars, claimVars, tooLate>>

\* The transcript is sent to the archive; without an answer the channel is kept.
SendArchive(c, v) ==
  /\ deciding[c][v].pc = "archive"
  /\ \E sent, answered \in BOOLEAN :
       /\ archive' = [archive EXCEPT ![c] = IF sent THEN @ \cup deciding[c][v].read ELSE @]
       /\ IF sent /\ answered THEN Step(c, v, "claim") ELSE Stop(c, v)
  /\ UNCHANGED <<verdicts, intakeVars, channel, known, inChannel, claimVars, tooLate>>

ClaimComplaint(c, v) ==
  /\ deciding[c][v].pc = "claim"
  /\ \/ ClaimForm(c) /\ Step(c, v, "delete") /\ verdicts' = [verdicts EXCEPT ![c] = @ \cup {v}]
     \/ ClaimFormRefused(c) /\ Stop(c, v) /\ UNCHANGED verdicts
  /\ UNCHANGED <<intakeVars, channelVars, tooLate>>

\* The author and the log are told, as far as they can be reached, and the channel
\* is deleted; a refusal is not tried again.
DeleteChannel(c, v) ==
  /\ deciding[c][v].pc = "delete"
  /\ Stop(c, v)
  /\ channel' \in {channel} \cup (IF channel[c] = "open" THEN {[channel EXCEPT ![c] = "closed"]} ELSE {})
  /\ UNCHANGED <<verdicts, intakeVars, known, inChannel, archive, claimVars, tooLate>>

-----------------------------------------------------------------------------
\* External: a message in the private channel, the gateway's news of channels, time.

Talk(c) ==
  /\ "message" \notin inChannel[c] /\ PostIn(c, "message")
  /\ UNCHANGED <<intakeVars, channel, known, archive, decisionVars, claimVars>>

ChannelSeen(c) ==
  /\ (c \in known) # (channel[c] = "open")
  /\ known' = IF channel[c] = "open" THEN known \cup {c} ELSE known \ {c}
  /\ UNCHANGED <<intakeVars, channel, inChannel, archive, decisionVars, claimVars, tooLate>>

CooldownOver(a) ==
  /\ a \in cooling /\ cooling' = cooling \ {a}
  /\ UNCHANGED <<source, intake, intakeLock, channelVars, decisionVars, claimVars, tooLate>>

\* The process stops and starts: hand-overs and decisions at work are lost, the
\* buttons still answer, and the cache is what Discord says.
FormsRestart ==
  /\ ForgetClaims
  /\ intake' = [c \in Complaints |-> IF intake[c].pc \in {"new", "malformed", "done"} THEN intake[c]
                                     ELSE [intake[c] EXCEPT !.pc = "refused"]]
  /\ intakeLock' = NoComplaint /\ cooling' = {}
  /\ deciding' = [c \in Complaints |-> [v \in Verdicts |-> NotDeciding]]
  /\ known' = {c \in Complaints : channel[c] = "open"}
  /\ UNCHANGED <<source, channel, inChannel, archive, verdicts, tooLate>>

ComplaintStep(c) ==
  \/ Malformed(c) \/ Screen(c) \/ TakeLock(c) \/ CreateChannel(c) \/ PostComplaint(c)
  \/ PostEvidence(c) \/ Withdraw(c) \/ RemoveSource(c) \/ Talk(c) \/ ChannelSeen(c)

DecisionStep(c, v) ==
  \/ ReadChannel(c, v) \/ SendArchive(c, v) \/ ClaimComplaint(c, v) \/ DeleteChannel(c, v)

ComplaintNext ==
  \/ \E c \in Complaints : ComplaintStep(c) \/ \E v \in Verdicts : DecisionStep(c, v)
  \/ \E a \in Authors : CooldownOver(a)
  \/ FormsRestart

ComplaintSpec == ComplaintInit /\ [][ComplaintNext]_complaintVars

-----------------------------------------------------------------------------
Content(c) == {"complaint"} \cup (IF intake[c].evidence THEN {"evidence"} ELSE {})

\* An accepted complaint's message is gone only after all of it was posted in the
\* private channel, whatever was refused or lost on the way (cogs/forms.py:288-320).
SourceGoesLast ==
  \A c \in Complaints \ source : IntakeAt(c, "malformed") \/ Content(c) \subseteq inChannel[c]

\* When a decision deletes the channel, the archive holds everything that was
\* posted before the decision read it (forms.py:96-163, 623-634).
ArchivedBeforeDeleted ==
  \A c \in Complaints : channel[c] = "closed" => inChannel[c] \subseteq archive[c] \cup tooLate[c]

\* An author has at most one open complaint that staff can see and decide, however
\* many messages are handed over at once (cogs/forms.py:222-263).
OneOpenComplaint ==
  \A c, d \in Complaints :
    /\ AuthorOf[c] = AuthorOf[d]
    /\ channel[c] = "open" /\ channel[d] = "open"
    /\ "complaint" \in inChannel[c] /\ "complaint" \in inChannel[d]
    => c = d

\* Of two decisions on one complaint one is carried out, across restarts too
\* (forms.py:31-62).
OneVerdict == \A c \in Complaints : Cardinality(verdicts[c]) <= 1

\* No text of a complaint is lost on its way from the author's message to the
\* private channel and from there to the archive, and an author's complaint is open
\* once and decided once (cogs/forms.py:222-263, 288-320, forms.py:31-62, 96-163).
ComplaintSound ==
  ComplaintTypeOK /\ SourceGoesLast /\ ArchivedBeforeDeleted /\ OneOpenComplaint /\ OneVerdict
=============================================================================
