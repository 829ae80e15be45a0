--------------------------- MODULE BackupRestore ---------------------------
(***************************************************************************)
(* The database and its copies in a Discord channel (storage.py), from the  *)
(* restore before the gateway opens to the last upload of a shutdown        *)
(* (main.py, cogs/general.py, pos_ai.py).  A copy is one message, or parts   *)
(* and a manifest that names them, posted last.  What a database or a copy   *)
(* holds is the set of the facts written to it; each fact is a number.       *)
(* The process may stop anywhere, its disk may be lost with it, a request to *)
(* Discord may fail and still have been carried out.                         *)
(***************************************************************************)
EXTENDS Integers, FiniteSets, FiniteSetsExt

CONSTANTS
  PartCount,       \* parts of a copy above the upload limit
  KeepLast,        \* _BACKUP_KEEP_LAST (50)
  MaxAttempts,     \* restore attempts before the start is given up (3)
  MaxFacts, MaxPosts, MaxStops, MaxFaults   \* bounds

ASSUME BackupAssumption ==
  /\ {PartCount, KeepLast, MaxAttempts} \subseteq Nat \ {0}
  /\ {MaxFacts, MaxPosts, MaxStops, MaxFaults} \subseteq Nat

VARIABLES
  channel,         \* the messages: [number -> [kind, data, parts]]
  posts,           \* message numbers given so far
  db,              \* the facts in the database file
  cached,          \* facts only in the AI memory's caches
  facts,           \* numbers of facts given so far
  life,            \* "down", "restoring", "running", "refused"
  attempt, cursor, \* which attempt; the messages below are still to be looked at
  trusted,         \* persistent_state_trusted, and _backup_uploads_allowed
  job,             \* the backup that holds the lock, or NoJob
  asker,           \* periodic task, shutdown and tool: what each does next
  drained,         \* have the automations been stopped?
  outcomes,        \* history: run outcomes of this process
  audit,           \* history: the fact of the tool call's audit, 0 for none
  skipped,         \* history: has a complete copy ever been passed over?
  ended,           \* history: how the last process ended
  saved,           \* history: did the last backup of the shutdown succeed?
  stops, faults

channelVars == <<channel, posts>>
dataVars == <<db, cached, facts>>
startVars == <<life, attempt, cursor, trusted, skipped>>
stopVars == <<drained, outcomes, audit>>
endVars == <<ended, saved, stops>>
backupVars == <<channel, posts, db, cached, facts, life, attempt, cursor, trusted, skipped, job,
                asker, drained, outcomes, audit, ended, saved, stops, faults>>

Askers == {"periodic", "signal", "tool"}
NoJob == [by |-> "nobody", data |-> {}, parts |-> {}, left |-> 0]
Quiet == [a \in Askers |-> "none"]
Fault == faults < MaxFaults /\ faults' = faults + 1
NoFault == UNCHANGED faults

BackupInit ==
  /\ channel = [m \in {} |-> NoJob] /\ posts = 0
  /\ db = {} /\ cached = {} /\ facts = 0
  /\ life = "down" /\ attempt = 0 /\ cursor = 0 /\ trusted = FALSE /\ skipped = FALSE
  /\ job = NoJob /\ asker = Quiet
  /\ drained = FALSE /\ outcomes = {} /\ audit = 0
  /\ ended = "none" /\ saved = FALSE /\ stops = 0 /\ faults = 0

\* A copy from which everything can be restored.
Complete(ch, m) ==
  \/ ch[m].kind = "single"
  \/ ch[m].kind = "manifest" /\ ch[m].parts \subseteq DOMAIN ch
Points(ch) == {m \in DOMAIN ch : Complete(ch, m)}
HeadsOf(ch) == {m \in DOMAIN ch : ch[m].kind # "part"}
Ahead == {m \in HeadsOf(channel) : m < cursor}

-----------------------------------------------------------------------------
\* The start: init_db creates a missing file, and the first attempt begins.
Boot ==
  /\ life = "down" /\ stops <= MaxStops
  /\ life' = "restoring" /\ attempt' = 1 /\ cursor' = posts + 1 /\ trusted' = FALSE
  /\ \E lost \in BOOLEAN : db' = IF lost THEN {} ELSE db
  /\ drained' = FALSE /\ outcomes' = {} /\ audit' = 0
  /\ ended' = "none" /\ saved' = FALSE
  /\ UNCHANGED <<channelVars, cached, facts, skipped, job, asker, stops, faults>>

\* The history is read from the newest message.
NextCandidate == Max(Ahead)

Opened == life' = "running" /\ trusted' = TRUE /\ UNCHANGED attempt

\* The next copy is whole and is checked, swapped in and migrated; the caches are
\* reset.  Or it is passed over, since it is damaged, reading it fails, or the
\* migration does, after which the original file is back.
TryCandidate ==
  /\ life = "restoring" /\ Ahead # {}
  /\ LET m == NextCandidate
     IN \/ /\ Complete(channel, m)
           /\ db' = channel[m].data /\ cached' = {}
           /\ Opened /\ NoFault /\ UNCHANGED <<cursor, skipped>>
        \/ /\ \/ Complete(channel, m) /\ Fault /\ skipped' = TRUE
              \/ ~Complete(channel, m) /\ NoFault /\ UNCHANGED skipped
           /\ cursor' = m
           /\ UNCHANGED <<db, cached, life, attempt, trusted>>
  /\ UNCHANGED <<channelVars, facts, job, asker, stopVars, endVars>>

\* An attempt has failed: the next one, or the start is given up.
GiveUp ==
  /\ IF attempt < MaxAttempts
     THEN attempt' = attempt + 1 /\ cursor' = posts + 1 /\ UNCHANGED life
     ELSE life' = "refused" /\ UNCHANGED <<attempt, cursor>>
  /\ UNCHANGED trusted

\* Nothing is left to try.  Only a channel without any piece of a backup lets the
\* bot run on the file it has.  The channel may also not be there or not answer.
EndScan ==
  /\ life = "restoring"
  /\ \/ Ahead = {} /\ DOMAIN channel # {} /\ GiveUp /\ NoFault
     \/ DOMAIN channel = {} /\ Opened /\ NoFault /\ UNCHANGED cursor
     \/ GiveUp /\ Fault
  /\ UNCHANGED <<channelVars, dataVars, skipped, job, asker, stopVars, endVars>>

-----------------------------------------------------------------------------
\* The program runs: an automation's outcome, something said in a channel.
NewFact == life = "running" /\ facts < MaxFacts /\ facts' = facts + 1

RecordOutcome ==
  /\ NewFact /\ ~drained
  /\ db' = db \cup {facts'} /\ outcomes' = outcomes \cup {facts'}
  /\ UNCHANGED <<channelVars, cached, startVars, job, asker, drained, audit, endVars, faults>>

HearSomething ==
  /\ NewFact
  /\ cached' = cached \cup {facts'}
  /\ UNCHANGED <<channelVars, db, startVars, job, asker, stopVars, endVars, faults>>

Goes(a, where) == asker' = [asker EXCEPT ![a] = where]

\* db_backup_task, every ten minutes: it flushes first.
AskPeriodic ==
  /\ life = "running" /\ asker["periodic"] = "none" /\ Goes("periodic", "flush")
  /\ UNCHANGED <<channelVars, dataVars, startVars, job, stopVars, endVars, faults>>

\* shutdown_bot, approved by the owner.
AskTool ==
  /\ life = "running" /\ asker["tool"] = "none" /\ Goes("tool", "flush")
  /\ UNCHANGED <<channelVars, dataVars, startVars, job, stopVars, endVars, faults>>

\* _on_signal, and the end of run_bot: whether anything is to be saved is decided now.
Signal ==
  /\ life \in {"restoring", "running"} /\ asker["signal"] = "none"
  /\ Goes("signal", IF trusted THEN "drain" ELSE "drop")
  /\ UNCHANGED <<channelVars, dataVars, startVars, job, stopVars, endVars, faults>>

\* Mutant: the automations are stopped only when everything is closed.
DrainLater ==
  /\ \/ asker["signal"] = "drain" /\ Goes("signal", "flush")
     \/ asker["signal"] = "drop" /\ Goes("signal", "close")
  /\ UNCHANGED drained

\* _shutdown: the automations first, then the memory and the backup.
Drain ==
  /\ \/ asker["signal"] = "drain" /\ Goes("signal", "flush")
     \/ asker["signal"] = "drop" /\ Goes("signal", "close")
  /\ drained' = TRUE

ShutdownDrains ==
  /\ Drain
  /\ UNCHANGED <<channelVars, dataVars, startVars, job, outcomes, audit, endVars, faults>>

\* flush_ai_memory keeps what it cannot write, and says nothing about it.
Flush(a) ==
  /\ asker[a] = "flush"
  /\ \/ db' = db \cup cached /\ cached' = {} /\ NoFault
     \/ UNCHANGED <<db, cached>> /\ cached # {} /\ Fault
  /\ Goes(a, IF a = "tool" THEN "audit" ELSE "backup")
  /\ UNCHANGED <<channelVars, facts, startVars, job, stopVars, endVars>>

\* The call is written to the audit, without which it is not carried out.
AuditStop ==
  /\ asker["tool"] = "audit"
  /\ \/ NewFact /\ db' = db \cup {facts'} /\ audit' = facts' /\ Goes("tool", "backup") /\ NoFault
     \/ Goes("tool", "none") /\ Fault /\ UNCHANGED <<facts, db, audit>>
  /\ UNCHANGED <<channelVars, cached, startVars, job, drained, outcomes, endVars>>

-----------------------------------------------------------------------------
\* backup_db_to_discord, one at a time under its lock.

\* The backup of a has ended: ok says what the caller hears.
TellAsker(a, ok) ==
  /\ Goes(a, IF a = "signal" \/ (a = "tool" /\ ok) THEN "close" ELSE "none")
  /\ saved' = IF a = "signal" THEN ok ELSE saved

\* The snapshot is taken under the write lock; it may fail.
TakeSnapshot(a) ==
  /\ job = NoJob /\ asker[a] = "backup" /\ trusted
  /\ \/ /\ posts < MaxPosts
        /\ \E n \in {0, PartCount} : job' = [by |-> a, data |-> db, parts |-> {}, left |-> n]
        /\ NoFault /\ UNCHANGED <<asker, saved>>
     \/ TellAsker(a, FALSE) /\ Fault /\ UNCHANGED job
  /\ UNCHANGED <<channelVars, dataVars, startVars, stopVars, ended, stops>>

\* The channel without some messages, and with the next message of the job.
Without(ch, gone) == [x \in DOMAIN ch \ gone |-> ch[x]]
NextKind == IF job.left > 0 THEN "part" ELSE IF job.parts = {} THEN "single" ELSE "manifest"
Posted ==
  LET new == [kind |-> NextKind, data |-> job.data, parts |-> IF job.left > 0 THEN {} ELSE job.parts]
  IN [x \in DOMAIN channel \cup {posts + 1} |-> IF x = posts + 1 THEN new ELSE channel[x]]

PostPart ==
  /\ job # NoJob /\ job.left > 0 /\ posts < MaxPosts
  /\ posts' = posts + 1 /\ channel' = Posted
  /\ job' = [job EXCEPT !.left = @ - 1, !.parts = @ \cup {posts'}]
  /\ UNCHANGED <<dataVars, startVars, asker, stopVars, endVars, faults>>

\* _prune_old_backups: all copies but the newest ones.
OldOnes(ch) ==
  {m \in HeadsOf(ch) : Cardinality({x \in HeadsOf(ch) : x > m}) >= KeepLast}

\* Each deletion may fail; the parts go after their manifest.
Pruned(ch) ==
  UNION {{Without(ch, heads \cup parts) : parts \in SUBSET UNION {ch[m].parts : m \in heads}}
         : heads \in SUBSET OldOnes(ch)}

\* The last message: the single copy or the manifest.  Then old copies go.
PostHead ==
  /\ job # NoJob /\ job.left = 0 /\ posts < MaxPosts
  /\ posts' = posts + 1 /\ channel' \in Pruned(Posted)
  /\ TellAsker(job.by, TRUE) /\ job' = NoJob
  /\ UNCHANGED <<dataVars, startVars, stopVars, ended, stops, faults>>

\* Mutant: the messages of other copies go too.
CleanedTooFar(ch) == {Without(ch, gone) : gone \in SUBSET (IF job = NoJob THEN {} ELSE DOMAIN ch)}

\* Only the parts of this attempt are disposable; removing one may fail.
Cleaned(ch) == {Without(ch, gone) : gone \in SUBSET job.parts}

\* The upload fails or is cancelled.  Its last request may have been carried out
\* all the same.
UploadFails ==
  /\ job # NoJob /\ Fault
  /\ \/ posts' = posts /\ channel' \in Cleaned(channel)
     \/ posts < MaxPosts /\ posts' = posts + 1 /\ channel' \in Cleaned(Posted)
  /\ TellAsker(job.by, FALSE) /\ job' = NoJob
  /\ UNCHANGED <<dataVars, startVars, stopVars, ended, stops>>

-----------------------------------------------------------------------------
\* The process is over: nothing of it but the file is left.
ProcessOver(how) ==
  /\ life' = "down" /\ ended' = how /\ stops' = stops + 1
  /\ cached' = {} /\ job' = NoJob /\ asker' = Quiet
  /\ attempt' = 0 /\ cursor' = 0
  /\ UNCHANGED <<posts, facts, trusted, skipped, stopVars, saved, faults>>

\* bot.close() and the connections; an upload on its way is cancelled.
CloseDown ==
  /\ \E a \in {"signal", "tool"} : asker[a] = "close" /\ ProcessOver(a)
  /\ channel' \in Cleaned(channel)
  /\ UNCHANGED db

\* The start was given up, so the process ends without a backup.
EndRefused ==
  /\ life = "refused" /\ ProcessOver("refused")
  /\ UNCHANGED <<channel, db>>

\* A crash, also in the middle of an upload, and of a restore: the file is then
\* there, moved away, or already that of the copy.
Crash ==
  /\ life # "down" /\ ProcessOver("crash")
  /\ db' \in {db} \cup (IF life = "restoring" THEN {{}} \cup {channel[m].data : m \in Points(channel)}
                        ELSE {})
  /\ UNCHANGED channel

BackupNext ==
  \/ Boot \/ TryCandidate \/ EndScan
  \/ RecordOutcome \/ HearSomething
  \/ AskPeriodic \/ AskTool \/ Signal \/ ShutdownDrains \/ AuditStop
  \/ \E a \in Askers : Flush(a) \/ TakeSnapshot(a)
  \/ PostPart \/ PostHead \/ UploadFails
  \/ CloseDown \/ EndRefused \/ Crash

BackupSpec == BackupInit /\ [][BackupNext]_backupVars

-----------------------------------------------------------------------------
\* Type correctness; memory is flushed and a backup made for a shutdown only in a
\* process whose state is trusted ("never upload an untrusted startup database",
\* main.py:86).
BackupTypeOK ==
  /\ DOMAIN channel \subseteq 1..posts /\ posts \in 0..MaxPosts
  /\ \A m \in DOMAIN channel : channel[m].kind \in {"single", "manifest", "part"}
  /\ db \subseteq 1..facts /\ cached \subseteq 1..facts /\ facts \in 0..MaxFacts
  /\ life \in {"down", "restoring", "running", "refused"}
  /\ asker \in [Askers -> {"none", "drain", "drop", "flush", "audit", "backup", "close"}]
  /\ job # NoJob => asker[job.by] = "backup"
  /\ \A a \in Askers : asker[a] \in {"flush", "backup"} => trusted

\* Type correctness; the bot runs on the newest complete copy or what came after it: as long as no
\* complete copy had to be passed over, a running bot knows everything any copy
\* in the channel holds (storage.py:2113-2117, main.py:176-180).
RunsOnNewest ==
  /\ BackupTypeOK
  /\ life = "running" /\ ~skipped =>
       \A m \in Points(channel) : channel[m].data \subseteq db

\* Once there is a complete copy in the channel there always is one: failed
\* uploads, clean-ups, pruning and crashes in between never remove the last
\* ("Prior backups remain intact", storage.py:1993).
CopyRemains == [][Points(channel) # {} => Points(channel') # {}]_backupVars

\* A bot stopped by the tool has its audit in a complete copy
\* ("Остановка отменена: обязательный бэкап БД не подтверждён", pos_ai.py:3796-3804).
ToolStopAudited ==
  ended = "tool" => \E m \in Points(channel) : audit \in channel[m].data

\* After a stop by signal with a confirmed backup, a copy has the outcome of every
\* automation this process ran ("before the final backup captures their run
\* outcomes", main.py:93-95).
OutcomesSaved ==
  ended = "signal" /\ saved => \E m \in Points(channel) : outcomes \subseteq channel[m].data

\* A bot never runs behind a complete copy, and what a stop says it saved is in one:
\* the tool's audit, and the outcomes of the automations that were drained
\* (storage.py:2113-2117, pos_ai.py:3796-3804, main.py:93-95).
BackupsTrue == RunsOnNewest /\ ToolStopAudited /\ OutcomesSaved
=============================================================================
