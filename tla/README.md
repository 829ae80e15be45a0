# PSC-HELPER: TLA+ models and proofs

PSC-HELPER is a Discord bot (Python, discord.py, one asyncio loop, one SQLite
file) with an AI agent, P.OS, that administers servers on request. This
directory holds TLA+ modules of the parts where steps of several tasks, Discord,
Telegram, model providers, web services and restarts interleave, the TLC
configurations that check them on small instances, and TLAPS proofs of the most
important results for every instance. Paths such as `storage.py:683` are relative to
the repository's root.

Contents: [inventory](#inventory), [plan](#plan), [modules and code](#modules-and-code),
[runs](#runs-bounds-and-what-they-show), [fairness](#fairness), [proofs](#proofs),
[disagreements found](#disagreements-between-code-and-documents),
[abstractions](#abstractions-and-what-is-not-modelled).

## How to run

    tlc -workers 2 -config Services.cfg MCServices.tla
    tlapm AutomationRuntime_proofs.tla

`PROJECT.json` lists every run with its module and properties, for every property
a mutant (a plausible bug in a definition, kept beside it under "Mutant:") that
the run must find, and the source lines each definition stands for.

## Inventory

Everything runs in one process and one event loop: interleaving happens at
`await`s only. The parts share one SQLite connection (`_get_conn`), guarded by one
write lock which readers mostly do not take, and they meet Discord, Telegram, model
providers and web services through requests that may take effect although their
answer is lost.

| Component | State | Operations | Hard behaviour | What makes it correct | Modules |
|---|---|---|---|---|---|
| Event automations, runtime (`automation_rules.py:458`) | `_active`, a semaphore of 4, table `pos_automation_runs` | `handle_event`, `_run_rule`, `_execute_action`, `close` | duplicate events, two tasks, rules edited during a chain, lost answers, cancellation, restart | every step at most once, an honest ledger, gates obeyed, stale chains stop | `AutomationRuntime`, `RunLedger`, `RuleStore` |
| Event automations, tools (`automation_rules.py:277`) | table `pos_automations` | create, update, pause, delete | read, then wait for the lock, then write; cancellation in a transaction | unique names and ids, versions, an author's own rules, access read again | `AutomationTool`, `RuleStore` |
| Telegram relay (`telegram_bridge.py`) | `telegram_contact_requests`, the poll offset | `forward_contact`, `_poll_loop`, `_handle_update` | concurrent forwards, expired reservations, replayed updates, crash before the offset is saved | each request posted once, answered once, limits kept | `TelegramContact` |
| Action journal and undo (`action_undo.py`, `storage.py:1222`) | `pos_tool_actions` | record, claim, inverse, finish | two undos, claims taken back, failing inverses, others' changes | exclusive claims, honest and exact restoration | `UndoJournal` |
| AI agent turn (`agent_runtime.py`, `pos_ai.py:3825`) | receipts, `writes_seen`, `execution_cache` | rounds, discovery, calls, final answer, retry | unpredictable model, aliases of a target, deadline, edits of the message | no operation twice, an undo only first, replies that match the effects | `AgentTurn` |
| Owner approval (`forms.py:343`, `pos_ai.py:3993`) | `resolved`, a lock, a timeout, a cooldown | request, approve, deny, expire | two presses, press against timeout, restart | one outcome, nothing after a refusal | `ActionApproval` |
| Application, complaint and punishment forms (`forms.py`, `cogs/forms.py`) | `form_decisions`, `_pending_complaints`, roles in the cache | hand over, accept, reject, archive, delete channel, punish | two moderators, a stop after the claim, two forms for one member | one decision, no loss of evidence, a true record | `FormClaims`, `ComplaintForms`, `ApplicationForms`, `PunishmentForms` |
| Moderation and join gates (`message_gate.py`, `join_gate.py`) | events and verdicts by id | begin, finish, wait | waiters that time out, pruning, edits | no verdict invented, a verdict wakes its waiters | `VerdictGate` |
| Moderation of messages (`cogs/mod.py`, `moderation.py`) | trackers of recent messages, verdict caches | check, classify, punish | several checks of one author, edits, failing services | judged for a cause only; failures are never cached as safe | `MessageModeration`, `ReputationCache` |
| Anti-raid (`antiraid.py`, `cogs/security.py`) | window of joins, deadline, `security_state` | register, set, lift, restore | window edges, steps of persistence, restart | the mode follows the waves, the start of each is announced, no revival of a lifted mode | `JoinSecurity` |
| Security posture (`security_monitor.py`, `cogs/security.py:77`) | queue of scans, stored baseline | queue, scan, alert | events during a scan, a stop between alert and baseline, changes without an event, long lists of alerts | each change with an event is scanned, a new risk is alerted before it is accepted | `PostureDiff`, `PostureMonitor` |
| Backup, restore, shutdown (`storage.py:2002`, `main.py:85`) | the file, messages of the backup channel | upload, prune, restore, shut down | a stop between any two steps, invalid copies | never upload over what was not restored, always a complete copy | `BackupRestore` |
| Shared connection (`storage.py:49`) | connection, locks | transactions, unlocked reads | uncommitted data read | reads that matter are of committed rows | `RuleStore`, `SettingsStore` |
| Guild settings, beta grants, vacation mode | caches over tables | get, update, replace | cached while another layer changes | what was reported is committed, no stale answer | `SettingsStore` |
| AI memory (`pos_ai.py:5113`) | two write-back caches | remember, forget, flush, evict | deletion during remembering, failing flush | deleted messages are gone, nothing lost | `AIMemory` |
| Event logging (`cogs/logging_events.py`, `logging_utils.py`) | `ai_event_log`, `ai_event_recipients`, cached channels | record, mark, search, set up, send | a message deleted while it is recorded; two set-ups | deletions are noted once, whom a message called can find it, reports in order, closed channels | `EventLog`, `LogChannels` |
| Provider pool (`ai_client.py`) | cursor, cool-downs, slots, affinity | reserve, back off, fail over | concurrent reservations, cancelled waiters | no leaked slot, a tool chain keeps its model | `ProviderPool` |
| Web research (`web_research.py`) | a memory of answers | search, fetch, follow, sum up | redirects hop by hop, many calls, answers without sources | nothing unasked is fetched, answers rest on their sources | `WebResearch` |
| Tool routing, Discord operations, media, GIFs, adapters, site | little or none | pure functions, single API calls | I/O | out of scope, see the last section | |

They interact as follows. A gateway event reaches the moderation or security
cog, which decides a gate, and the automation and logging cogs, whose tasks wait for that
gate. A message to P.OS waits for the same gate, becomes an agent turn, and the turn
asks the pool of providers; its tools write rules, journal actions, claim undos, research
the web, forward to Telegram or ask the owner. Everything persistent goes through the
shared connection, and a backup or a restore replaces all of it at once.

## Plan

Written, in order of importance:

1. `RuleStore` (the rule table and its transaction), `AutomationRuntime` and
   `AutomationTool` which both extend it, and the abstract `RunLedger` which the
   runtime implements.
2. `TelegramContact`.
3. `UndoJournal` and `AgentTurn`.
4. The people who decide: `ActionApproval`; `FormClaims` with `ComplaintForms` and
   `ApplicationForms`, which share its table; `PunishmentForms`.
5. The guard of a server: `VerdictGate`, which both moderators extend
   (`MessageModeration`; `JoinSecurity` has the join gate's own copy of its table);
   `PostureDiff` and, on top of it, `PostureMonitor`.
6. What keeps state: `BackupRestore`, `AIMemory`, `SettingsStore`, `EventLog`,
   `LogChannels`.
7. What asks others: `ReputationCache`, `ProviderPool`, `WebResearch`.
8. `Positions`, what is left of a list when some of its positions stay: the pruning of the
   memory and the choice of sources, stated so that it can be proved about.

Independent small modules share a run. An MC module extends several of them, a
variable `part` chosen by Init says which one moves, and the state space is the sum of
theirs, not the product.

Every safety property of the runs that hold is proved.
To come: refinements of smaller abstract specifications, as `RunLedger` is one of the
runtime: a request to the owner by Telegram (posted once, answered once or given up) and
an owner's approval (decided once, carried out once).

## Modules and code

**`RuleStore`** is `pos_automations` behind the shared connection: `rules`, `nextId`
(AUTOINCREMENT), and `tx`, the upsert whose transaction is open, with what a rollback
brings back. An upsert holds the write lock over several awaits, so its statements
and its COMMIT are two steps and a reader may see the row in between. The other
writes are one statement. Revisions are bounded by `MaxRev`, ids by `MaxId`.

**`AutomationRuntime`** has one record per task: `pc` follows `handle_event` and
`_run_rule` from await to await (filter by author, gate, slot, claim, the two checks
before a step, the request in flight, its effect, the end), `listed`/`todo` are the rules
still to filter and run, `cur` the definition the run was claimed with. `runs` is the
ledger; `effects` counts, as history, how often each step took effect. `Land` is Discord: a
request takes effect before it is answered, or although its answer is lost (`Lose`). The
world edits rules, revokes grants, decides gates, sets the clock, closes and restarts.

**`RunLedger`** is the promise: reserve once, perform in order and at most once, close
with a true status. The runtime implements it with `status` mapped to the ledger's column.

**`AutomationTool`** has concurrent calls of the tool: a call lists the rules (unlocked),
a beta author's grant is read again, then the write waits for the lock. `seen` is
the row the call read; what it writes is merged from that row. The deadline of the turn may
cancel a call at any await before its transaction (`Cancel`) and inside it (`Abort`), which rolls
back. `Fail` is an answer without a write, which the code gives only with the lock in hand.
Two history variables say which calls the properties are about: `phantom`, those holding a row whose
insert has been rolled back since they read it, and `barred`, those not let through yet when their
author lost access.

**`TelegramContact`** has a row per Discord message, the workers (`forward_contact`) and the
single poller. `Reserve` is the whole transaction of `reserve_telegram_contact_request`
with its expiry and every limit; `Post` and `Show` are Telegram and Discord taking a
message; `updates` is the owner's replies in Telegram's order, `offset` and `saved` the
position in memory and in the database.

**`UndoJournal`** has Discord as a set of attributes, turns that capture, change and record,
and undos that claim a group, apply inverses last first, and report. A claim does not
carry a time but becomes old (`Age`).

**`AgentTurn`** is one request: `handle_pos_ai` with its retry, the loop with its budgets, and
`execute_pos_tool` with the execution cache. The model chooses every answer. An operation
is a tool and a resolved target; the model writes a target in several ways (`Raws`), which is
what the cache is for. The message may be edited and the grant revoked at every step.

**`ActionApproval`** follows a request from the tool call (cooldown, DM) over the view's
buttons and timeout to the execution with its audit, its journal row and the owner's
notice. A press is a record of its own: it reads `resolved`, waits, claims it under the
view's lock and acts; a restart loses the closure but not the message.

**`FormClaims`** is `INSERT OR IGNORE` into `form_decisions` with the set of recent claims in
front of it, half of which is forgotten at a limit. **`ComplaintForms`** has the hand-over
(`intake`: lock, channel, evidence, source deleted last) and the decisions (archive, claim,
tell, delete the channel) as steps that Discord may refuse; `inChannel` and `archive` are what
was posted and what a complete archive holds. **`ApplicationForms`** has the cards and the
interactions of reviewers, one role request after another. **`PunishmentForms`** decides by
`cached`, what the bot's cache shows, and changes `record`, what Discord has, one request at a
time.

**`VerdictGate`** is the table of asyncio events and verdicts of both gates; a waiter that gives
up removes the event other waiters share, which cuts them off. **`MessageModeration`** extends it
with the checks of `cogs/mod.py`, one stage per await, the trackers of an author's recent
messages and edits that are checked again. **`JoinSecurity`** has the window of joins, the
mode's deadline with its sparing persistence and restoration, and an INSTANCE of the gate. `came` and
`announced` are history: the times of all joins counted, and the ones the owner was told of.

**`PostureDiff`** is what a snapshot says and what two say together: pure operators over records.
**`PostureMonitor`** runs the queued and the periodic scan under their lock, collects a snapshot
piece by piece while the server changes, stores the alert and then accepts the snapshot.
`ChangeServer` is every change with a listener; `BotLeaves` has none (`cogs/security.py:221-343` has no
`on_member_remove`) and wakes nobody, so that only a later scan sees it. The deletion of a bot's own role, if
Discord reports it, is a change of the first kind. `Listings` are the alerts that one journal entry may hold: all
of them up to `AlertRoom`, and otherwise a part chosen by their order, of at most `AlertLimit`
subjects (`alerts[:50]`, then 8000 characters); `cut` says that the last entry counts more than it lists.

**`BackupRestore`** has the messages of the backup channel (`single`, `part`, `manifest`), the
restore with its cursor and attempts, the periodic task, the signal and the stop tool, each
with what it does next, the lock (`job`), clean-up and pruning, and a stop, or a loss of the
disk, at any step. A database or a copy is the set of facts written to it.

**`AIMemory`** has a list for the guild and for each author in a cache, dirty marks, the locks of
the lists (`queue`) and the rows on their way (`writes`). `truth` is what a list should hold.

**`SettingsStore`** has the tables as the connection shows them (`seen`) and as committed
(`disk`): a statement is visible to every task at once, and a commit by anybody makes all of it
durable. Updates, groups and the vacation switch are calls with two statements and a commit;
`Interrupt` is a cancelled call or a failing commit, after which only the beta functions roll
back.

**`EventLog`** has one listener for each gateway event of a message, which adds or marks rows in
one piece and gives way in between; a deletion reaches one listener or two. `since` is the
row after which a member joined. Of a message's mentions the first `MentionLimit` are recorded
(`logging_events.py:168`). `PingsFor` is the tool's search: five of the log, each cut to the newest
`SearchLimit` rows, one row a message, and cut again (`pos_ai.py:3172-3229`). **`LogChannels`** has the
set-up, one key after another, the look-up with its cache, and the queue of reports at each
channel's lock.

**`ReputationCache`** has the four memories of verdicts with their lifetimes, for checks and
readers that await one service at a time; `turn` is the time read when a link's turn came.
**`ProviderPool`** has the routes with their cool-downs, the pause of the pool, the cursor, slots,
and the requests: completions of chats and turns, searches and listenings. `pin` is the route
that signed a turn's transcript, `retryAt` the hint. **`WebResearch`** has the calls of `research_web`
and `read_web_page`: native search, two services, and then all fetches at once, each a chain
of addresses that is asked of Safe Browsing before it is requested; `answers` is the memory. An answer
is a model's, or put together from the sources' own descriptions (`_fallback_summary`), whose text is
not checked: `stray` is the numbers a page's own text brings into it.

## Runs, bounds and what they show

| Run | Instance | Shows |
|---|---|---|
| RuntimeLiveness: spacing | 1 task, 2 departures, a rule whose edits change its cooldown, a clock of 3 readings that jumps, restarts | each later run is its own version's cooldown after the earlier (`CooldownSpacing`) |
| RuntimeLiveness: ends | 2 tasks, one slot, a message and a departure, a rule that is edited | every task ends (`TaskEnds`) |
| ToolEdits: edits | 2 calls of the owner, 2 names, 2 ids, 2 revisions, crashes, cancelled and rolled-back transactions | the table is sound (`TableSound`); changes are versions, nothing is resurrected (`VersionsKept`) |
| ToolEdits: own | 2 calls of the owner and a beta author, 1 rule whose id is given again after a rollback, access that comes and goes | a beta author stays within their own rules and access, but for rows that never were (`BetasStayWithin`); in both parts every call ends (`CallsEnd`) |
| ToolForeign | 2 calls of the owner and a beta author | the violation described below |
| ToolPause | 2 calls | the violation described below |
| ContactAnswers | 2 messages, 2 workers, 2 replies, crashes, errors | posted once, answered once, rows are true, every reply handled |
| TurnOnce | 4 tools (one undo, one for approval, one that reads), 2 spellings of one target, 3 rounds, 2 operations, one edit, one revocation | no operation twice; an undo only first; replies and effects agree; the turn ends |
| TurnCompleted | 2 tools | the violation described below |
| UndoFull | 1 message, 1 undo, 2 rows | the violation described below |
| Decisions: contact | 3 messages, 2 users, 1 worker, a clock of 4 readings that jumps | limits per hour, day, pending and interval hold, whatever the clock does (`LimitsKept`) |
| Decisions: complaints | 2 complaints of one author, one of them decided, both verdicts at once, restarts | evidence before deletion, one open complaint, one verdict (`ComplaintSound`) |
| Decisions: applications | 2 cards, 2 roles, 2 reviewers, claims forgotten, restarts | decided once, no role asked for twice, true reports (`ApplicationDecided`) |
| Decisions: approvals | 3 requests of one member, 2 presses, a clock of 3 readings | one attempt for an approval, true notices, requests are spaced (`ApprovalHonoured`) |
| Decisions: punishments | 2 forms for one member with any record | the log is true, the record rises (`RecordTrue`), warnings are replaced and never dropped (`ReplacedNotDropped`) |
| Guard: automations | 1 task, chains of two steps, two definitions, up to three revisions, rollbacks, a grant that comes and goes | an old version or an author without a grant gets at most the step already checked (`ChainStops`) |
| Guard: messages, staff | 2 messages side by side, of one author or one of them of the staff; three sets of filters; an edit; 3 readings of the clock | `JudgedForCause`; a waiter at the gate goes on only if clear (`UsedOnlyIfClear`) |
| Guard: joins | 3 joins of which 2 are a wave, 1 waiter, restarts, failing writes, one switching, the mode running out | the mode is on just as the waves and the owner say, their starts are announced, members are judged for their own join (`JoinsSound`) |
| Guard: posture | 4 states of a server that move freely, an administrator bot that leaves unnoticed, entries with room for 2 or 3 alerts, one failure, restart or outage | `QuietMeansCurrent`, `NothingAcceptedSilently` |
| Upkeep: journal | 2 messages, 2 undos, 2 rows | claims are exclusive; "completely undone" is true and exact (`UndoSound`), final states stay (`ResolvedStays`) |
| Upkeep: copies | copies of 1 part and a manifest, or single; 3 posts, 1 copy kept, 2 attempts, one fault, one stop | a complete copy always remains (`CopyRemains`), and the start and the stops are true to it (`BackupsTrue`) |
| Upkeep: memory | 2 handlers or flushes, 3 messages of 2 authors in 2 channels, a failing write, a crash, room for one list of an author | `MemorySound` |
| Upkeep: settings | 2 callers, one of them interrupted; a guild below the global layer, a group, an administrator | `SettingsSound` |
| Upkeep: events | one message that calls a role, a member and everyone while roles change; or two others, one hidden; or one that is edited; 2 mentions recorded, 1 row a search; one failing step | `EventLogTrue` |
| Upkeep: channels | 2 set-ups, 2 reports, one removal, one refusal, with or without an open category from before | `ChannelsSound` |
| Services: automations | 2 tasks, a message, a join and a leave, one rule of two steps, cancellation and a crash | steps at most once and honest rows (`RunInv`), cleared events and true closings (`OutcomesTrue`), refinement of `RunLedger` (`LedgerSpec`) |
| Services: links, pages, kept, doubts | 2 checks of one link; a reader of 3 links with room for 2; a reader beside a check; a check with a file and the language model; 2 lifetimes below and above the least | verdicts are used in their time and were given (`MarksTrue`) |
| Services: turn, chats, search, listen, queue | 3 routes, 2 of one provider; a turn alone, with pictures, or beside one other request; three requests for 2 slots | a transcript stays with its endpoint, pauses and hints are justified (`RoutesSound`), searches do not delay chats (`SearchSparesChat`) |
| Services: wide, often, visit | a question whose sources come from every service; 2 questioners, 3 questions and room for 2 answers; a page with two redirects | nothing is fetched unasked (`FetchesAsked`), a model's answer cites its own sources only, and answers are remembered for their question and time (`WebAnswersSound`) |

Why the bounds are enough: every property relates at most two tasks, calls, rows,
messages or operations, and each instance has two of what must collide and one more step
than the chain needs (two steps, so that "partly done" exists; three rounds, so that
discovery, use and the final answer exist; two ids, and an id that a rollback gives back;
three routes, so that two of a kind and one of another exist; memories with room for one
less than is put into them, so that forgetting happens). Faults are counted where they are
bounded (`MaxFaults`, `MaxStops`, `MaxTroubles`, `MaxInterrupts`, `FaultCap`, `RefusalCap`): one at any
place, since each property is about what one failure leaves behind. `Rollbacks`, a
constant of `AutomationRuntime` only, is FALSE in `RuntimeLiveness` and `Services`, whose question is
not what an upsert leaves that fails after its statement, and TRUE in `Guard`; in `AutomationTool` a
transaction may always be rolled back. Where actors are alike, `MCToolParts` and `MCRuntimeParts`
take them in a fixed order, since symmetry is not sound for liveness. `Upkeep` and `UndoFull` use
symmetry in the journal's message groups, undos and values, and `ToolPause` in its calls, which no
operator tells apart; none of them checks liveness. The effects of a run or request are counted without a bound; nothing needs a
state constraint, but the parts of `Services` forbid some steps of actors that belong to
another part (`PoolPart`, `WebPart`, `ReputationPart`), which names all bounds of that run.

## Fairness

* Runtime: strong fairness of each task's steps and weak fairness of the commit or
  rollback of an open upsert. Gates, Discord calls and AI calls have timeouts
  (`asyncio.wait_for`), the semaphore and the lock of asyncio are FIFO queues, so a task
  that waits for one that is free again and again gets it; a transaction ends.
* Tools: strong fairness of the steps a call takes by itself (`Proceed`), for the same lock. None of
  being cancelled: a call ends because it gets the lock, not because a deadline is near.
* Telegram: weak fairness of the poller, strong fairness of `Tell` (a note to the
  owner cannot fail for ever), and the process is not restarted for ever. Without the last two
  an update really is handled again and again (`telegram_bridge.py:361`).
* Agent turn: weak fairness of the handler's own steps and of the deadline; neither the
  model nor Discord ever has to answer, and `TurnEnds` holds.
* The modules of `Decisions`, `Guard`, `Upkeep` and `Services` are checked for safety. What they wait
  for are people, Discord and services, which need never answer, behind timeouts each of
  which is an action the model may take.

`CHECK_DEADLOCK FALSE` is used where the system may stop: a finished turn, a relay whose
bounded messages and replies are used up, and the composed runs, whose parts have bounded
faults, clocks and requests.

## Proofs

Eight modules hold theorems, each for the parts it names. A theorem is about
every value of the constants that the module's named assumption admits: any numbers of tasks,
messages, members, calls, any limits and windows. The assumptions give the constants their
types and say what the code fixes; the bounds of the models (`MaxRev`, `MaxClock`, `ReportCap` and their
like) are any natural numbers, so that no theorem depends on how far a run goes. Two kinds of
assumption say more: names for "nothing" (`Keep`, `Nobody`, `NoComplaint`) are not also names of
something, and what a run makes finite (`Tasks`, `Calls`, `Names`, `Messages`, `HandMade`) is finite.

An invariant of a run is seldom inductive. Each proof has one that is, and each of them was
checked by TLC on the instance of its run before it was proved; the sections name what had to
be added and why.

**`RuleStore_proofs`** has the lemmas about the rule table that the next two share: an upsert,
a switch and a deletion keep names and ids unique and move the committed table forward
(`StoreInv`), whoever makes them.

**`AutomationRuntime_proofs`**

* `TypeCorrect`: `Spec => []TypeOK`.
* `RunsSafe`: `Spec => []RunInv`. `AtMostOnce` and `HonestLedger` are not inductive: they need that a
  task in a run holds a reserved row, that no other task has that run (`OneTaskPerRun`, from the
  atomic claim), and that nothing after the step at hand has been done (`TaskInv`). Each step of a
  task touches only its own run, so the lemma `OtherTask` carries `TaskInv` of the others over.
* `EffectsAtMostOnce`, `LedgerIsHonest`: the two properties, from `RunInv`.
* `ImplementsLedger`: `Spec => Ledger!Spec` (`LedgerSpec`). A claim is `Reserve`, `Land` is `Perform`,
  `WriteOutcome` is `Close`, every other step leaves status and effects alone.
* `OutcomesAreTrue`: `OutcomesTrue`. `OutcomeInv` keeps with a task which messages it has sent
  (`StepsSent`) and which gate it has passed (`GatePassed`).
* `ChainsStop`: `ChainStops`. A task remembers a version of its rule that was committed when it was
  claimed; versions only move forward (`StoreInv`), so once it is stale it is stale for good, and
  `ChainInv` says that a step taken late stands before a check that will find it out.
* `RunsAreSpaced`: `CooldownSpacing`, which is inductive: each run remembers the definition it was
  claimed under and the runs that counted then (`under`, `before`); of two runs that count one was
  there when the other was claimed, and the claim measured the distance by its own cooldown, whatever
  the clock does between them.

**`AutomationTool_proofs`**: `ToolSafe` (`ToolInv`: the open transaction has one writer and its undo image is
a well-formed table), from it `TablesAreSound` and `VersionsAreKept`. `BetasEditOwn` (`BetasStayWithin`),
rollbacks included, needs `OwnInv`: the row a call has read keeps its owner or is gone, or it is a
pending insert, which a COMMIT makes lasting and a rollback makes a phantom (`RowKept`); an open
transaction of a beta author has changed only rows of that author (`OwnChanges`). That access taken
away holds a call up is `BarredInv`: the check is read again after the rules, so a call that had not
passed it stays before it.

**`Decisions_proofs`**

* `PunishmentsAreTrue` and `WarningsAreReplaced` (`RecordTrue`, `ReplacedNotDropped`), from `PunishInv`: the cache never shows
  a strike that Discord does not know, a form gives before it takes and only what the rung
  decided, and the record of a member whom nobody else touches is what the form made of it.
* `ApplicationsDecidedOnce` (`ApplicationDecided`), from `ApplicationInv`: an outcome has its row in the table of
  decisions, hence one worker for each application, and that worker has asked for exactly the
  roles it has counted.
* `ApprovalsAreHonoured` (`ApprovalHonoured`), from `ApprovalInv`: one press resolves a request, and how far its handler is
  says what has been done, audited, journalled and told (`Traces`). The distance between two
  requests needs `EntryStands`: the last entry of a requester stands for every request younger than
  the cooldown, as long as no request took longer than the cooldown to fail.
* `ComplaintsAreSound` (`ComplaintSound`), from `ComplaintInv`: the hand-over goes in order, an author's live channel is in
  the cache and while a hand-over holds the lock there is none, and what a decision has not read
  came after it began.
* `ContactTypeCorrect`: type correctness.
* `RelaySafe`: `PostedOnce`, `AnsweredOnce`, `RowsTrue` and `NoOrphanAnswer` with what they rest
  on: a worker beyond `classify` is the only one with its message and its row is
  reserved or given up (`WorkInv`), and the poller between claim and completion has
  the only `responding` row that is not orphaned, not yet answered before the answer
  is shown (`AnswerInv`).
* `RelayPostsOnce`, `RelayAnswersOnce`: `PostedOnce`, and `AnswersTrue` (type correctness with the other
  three).
* `RelayWithinLimits`: `LimitsKept`, that is `PendingBound`, `WindowBound` and `IntervalKept`. The argument is
  about the table: a reservation is made only if, with it, each window that contains it
  stays within its limit, other steps only remove rows from what is counted, and times never
  change. It uses the cardinality facts of `FiniteSetTheorems`.

**`Guard_proofs`**

* `QuietIsCurrent` and `NothingSlipsIn` (`QuietMeansCurrent`, `NothingAcceptedSilently`), from `PostureInv`: what an undisturbed scan
  has collected is the server as it is, but for bots that have left since (`SnapFresh`), a part that could
  not be read is what was accepted last, and the journal has what is new, or counts more alerts
  than it lists, before anything is accepted.
* `JudgedWithCause` and `ClearMeansClear` (`JudgedForCause`, `UsedOnlyIfClear`), from `ModerationInv`: a message is counted once, a
  tracker's queue is the times of different messages in the order they were counted, so its
  length is at most the number of messages said in the window, and a verdict is clear only if
  its check is over and found nothing.
* `JoinsAreSound` (`JoinsSound`), from `JoinInv`: the times counted are the last of all that came and the rest have left
  the window (`LastOf`), so a full window is a wave; the mode's end is the latest that a wave or the owner
  called for, and no other (`CalledFor`, `ModeFollows`); and what the database will hold when the writes under way are done is within
  `Granularity` of it (`Final`).
* `MarksAreTrue` (`MarksTrue`), from `MarkInv`: in the client's memory an answer's `until` is the end of its own life, in
  the check's memory it is a second later at most (`GoogleFit`, `OuterFit`), a question to Google is given
  up in time, and nothing was learnt in the future; so nothing is found in a memory too late. That a
  cut brings the client's memory under its limit needs the half that is dropped to exist
  (`LeastFew`: of a finite set with ranks one can take the least few).

**`Upkeep_proofs`**

* `UndosAreSound` and `ResolvedRowsStay` (`UndoSound`, `ResolvedStays`), from `UndoInv`: no row is held by two calls, a call takes the
  last row first, and as long as it would say that the group is undone, each attribute that it
  was the last to write is what the first row it has been through wants (`RestoredSoFar`).
* `BackupsAreTrue` and `CopiesRemain` (`BackupsTrue`, `CopyRemains`), from `BackupInv`: as long as no complete copy was passed over,
  a newer copy has all that an older one has, and so have the database that runs and the
  snapshot being uploaded (`NewerHasMore`); a manifest names earlier messages, an upload's parts are
  named by nobody.
* `SettingsAreSound` (`SettingsSound`), from `SettingsInv`: rows are on disk as they are seen, unless an update of them is being
  written or was interrupted; groups differ from the disk only while a change of a group holds the
  write lock; the mode the owner was told is the one that is seen.
* `ChannelsHold` (`ChannelsSound`), from `ChannelInv`: what is open in the log was made by hand and stands before all
  others of its key, so that a set-up finds it; a set-up has closed every channel of the keys
  before the one it is at (`SetupFits`); the eldest category is the work of a set-up, unless it is the only
  one there will be; what waits at a channel comes after what it shows. That a step may add closed
  channels, close some or remove one, and open none, is `Moves`, and what follows from it alone is
  proved once for all steps.
* `EventsAreTrue` (`EventLogTrue`), from `LogInv`: whoever a message called has a row that tells him, or its listener
  has him still to tell (`Told`, `Coming`); a deletion has one row or one listener that will write
  it, never both and never two (`Noters`, `DeletionFits`); a row that stood when its message was deleted
  is marked, or a listener has yet to mark it (`MarksFit`). That `everyone` reaches who joined before a row
  was written rests on `CreateFits`: whoever is there when a listener comes to it was called, or has
  joined while it was at work. Every step of a listener is either a failure or adds one row, so
  `FailStep` and `AddStep` are proved once for all of them.
* `MemoryIsSound` (`MemorySound`), from `MemInv`: what the rows on their way will leave of a list's row, the
  last one of its list or else the row itself, is what is in memory, unless the list is marked
  (`WillBeSaved`, `Settled`); what is marked, on its way or yet to be flushed is in memory
  (`NeededInMemory`), which is why a list that nobody uses may be dropped; what was forgotten for
  good and is still in a list has a task that will take it from there (`Leaving`), and a task waits at
  one lock only (`Waiting`). `FlushStep` is proved once for a flush that starts, one whose write
  succeeded and one whose write failed: it starts from what the three leave (`Ready`).

**`AgentTurn_proofs`**

* `TurnSafe` (`Spec => []TurnInv`), from it `EffectsAreSound` and `RepliesAreTrue` (`EffectsSound`, `RepliesTrue`). A call is
  noted before anything is done (`CallInv`); what took effect has a receipt and a place in the cache
  (`EffectInv`), which is why an alias of its target does not bring it back; after a late operation there is
  no way to another (`LateInv`); a success stands for an effect, and a failure is not overwritten by
  a later call of the same name (`SuccessInv`), which is why a request with a failed operation is not
  reported as completed.
* `RoutesAreSound` and `SearchesSpareChats` (`RoutesSound`, `SearchSparesChat`), from `PoolInv`: a turn's pin and the route it asks can read what
  its signer wrote (`SignedInv`), and an undisturbed turn's hint is kept by a route that it has already asked
  (`HintInv`): while a completion goes on, only the route in hand can still be put into cool-down by it,
  so a hint that rested on that one would not last. Turns that another request or a listening
  disturbed are promised nothing, as in the property. Requests are finitely many, and chats, searches
  and listenings are different ones.
* `FetchesAreAsked` and `WebAnswersAreSound` (`FetchesAsked`, `WebAnswersSound`), from `WebInv`: each fetch is safe by itself
  (`SafeFetch`), so any number of them is; sources are distinct and few of a host from the moment they
  are chosen (`DedupeIs`: before the last that stays of a host there are fewer than two, so the
  earlier ones inject into these); an answer is good when it is made, and stays so in the memory,
  whose list never has two of a question (`AnswersKept`).

**`Positions_proofs`** is used by three of the others: that the positions that stay are counted off
in their order (`StayingAre`, by way of a least counterexample), and from it
what pruning, filtering and cutting keep of a list's elements, order and distinctness.

How the models are written for the prover: where a recursive or folding operator would compute
something, the model says what is computed. `VerdictGate`'s order of entries is a relation, `InWindow`
takes the old times off the front, `Positions` says which places of a list stay, `Risk` is a sum, a group of the journal is a set whose last row is
its `Max`. Minima and maxima of sets of numbers come from `NatLeast`, which follows from the
well-foundedness of the numbers. Alternatives of a CASE that overlapped (`Rung`, `ActionOn`, `Choice`) are
disjoint now: TLC takes the first that holds, as the code does, but the definition of CASE does not
say which.

Only model-checked: all liveness (`TaskEnds`, `CallsEnd`, `RepliesHandled`, `TurnEnds`), which is beyond the prover, and
the four properties that are violated.

## Disagreements between code and documents

Each of the first four has a run that shows it.

* `PauseHolds` (run ToolPause): `update_automation` fills an absent `enabled` from the row it
  read before waiting for the lock, so it resumes a rule paused in between
  (`automation_rules.py:355`, against the tool's description at line 95).
* `BetaEditsOwn` (run ToolForeign): a pause or a deletion writes `WHERE id = ? AND guild_id = ?` only
  (`storage.py:656`, `storage.py:674`), so a beta author's call that had read a row of a transaction which was then
  rolled back acts on the rule the id was given to next, whoever owns it, against
  `automation_rules.py:317` and README.md:47. Comparing the owner there, as the upsert
  does at line 585, would close it.
* `FullMeansFull` (run UndoFull): a second undo of a message takes the failed rows only and
  says the group is completely undone although the first acknowledged a row that
  cannot be undone (`action_undo.py:669`).
* `CompletedTrue` (run TurnCompleted): a refusal counts as a failure only if it begins with one of
  ten prefixes (`action_undo.py:58`). "Не нашёл в этом канале …" of an undo with nothing to undo
  does not, and the request may be reported as completed, against README.md:45. Partial undos
  (`action_undo.py:672`), `telegram_bridge.py:146` and two answers of `create_invite`
  (`pos_ai.py:3326`, `pos_ai.py:3334`) read as successes in the same way. `RepliesTrue` shows
  that the loop is right about everything that is told apart.

Met while modelling; the models contain them, and the properties are stated so as to say
what holds beside them.

Automations:

* A grant revoked between the check of a tool call (`automation_rules.py:305`) and its write, which may
  wait long for the lock, does not stop the write, although README.md:70 says that every operation
  rechecks access and that revoking stops further ones. `BarredWriteNothing` says which calls
  are stopped.

Decisions and records:

* A complaint's archive that was read before a last message of the author does not hold
  that message (`tooLate`), although `forms.py:100` says that all is preserved.
* A form for one warning, given to a member with both warnings and the first strike,
  leaves a lighter record (`cogs/forms.py:694`).
* A DM to the owner that fails takes the cooldown entry of a newer request with it
  (`pos_ai.py:4085`).
* A claim of a form whose commit fails stays in the open shared transaction; a complaint
  channel left behind by a stop blocks its author; an approved undo can outlive its claim
  (`forms.py:415`).

Guard:

* A raid is announced a second time when the window slides from the threshold to one below it and
  the next join fills it again (`antiraid.py:114` asks for `previous_count < threshold <= count` only), although
  `cogs/security.py:432` announces once: joins at 0, 1 and 2 with a window of 1 and a threshold of 2.
* Nothing listens to a bot that leaves (`cogs/security.py:221-343`), so the accepted posture may name an
  administrator bot that is gone until another event or the periodic scan.
* Of more than fifty alerts of one comparison, or more text than 8000 characters, the rest is not in the
  journal's entry, only in its count, and is accepted with it (`cogs/security.py:188`, `storage.py:1061`).
* Webhooks and rules that become readable only after a baseline in which they were not are
  accepted without an alert (`security_monitor.py:529`).
* The time a message is counted with is taken before the settings are read, so the queue of the
  flood check may have an old time behind a newer one, which is still counted
  (`moderation.py:1867`-`1895`): "N messages in W seconds" may say more than were sent in them.
* Identical messages in two channels whose checks run side by side can each miss the other;
  an exception in the checks of attachments drops what the text had shown (`cogs/mod.py:243`).

State:

* Of a message with more than thirty mentions the last are never recorded (`logging_events.py:168`), and a
  search for mentions shows 25 rows, or 50 on request (`pos_ai.py:3188`). `EventLogTrue` speaks of the recorded
  ones, and of those that newer ones do not crowd out (`Crowded`).
* The stop tool uploads before automations are drained, so their last outcomes are not in
  the copy; a restart always takes the newest copy, also when the local file is newer, and
  a passing read error of that copy makes it restore an older one silently.
* A manifest whose request failed but arrived loses its parts to the clean-up.
* A failing flush of the memory is swallowed, so that the stop tool never says that the memory is
  not confirmed (`pos_ai.py:2086` against `pos_ai.py:5178`); a second flush may write an empty list over
  a list that was dropped, and a list read during a write is stale (`torn`). A message can be
  remembered after it was deleted (`pos_ai.py:5287`).
* An interrupted write of a setting or of the vacation mode stays visible, and blocks backups,
  until the next commit; the owner may be told a mode that is not durable (`vacation_mode.py:73`).
* A row of a message's own listener that is written after the deletion was marked stays
  unmarked (`logging_events.py:148`), and the mirror row of a log channel, which carries the text, is
  never marked. The search's fallback to roles (`pos_ai.py:3206`), meant for old rows, applies to all.
* Two set-ups of log channels side by side make two categories; one that fails halfway leaves fewer
  channels in the cache than it found.

Services:

* An older answer of Safe Browsing overwrites a newer one, and the floor of a second is more
  than the duration the service gave (`safe_browsing.py:91`); a verdict of VirusTotal is looked up with the
  time read before Google's answer. `MarksTrue` grants the second
  memory that second and a stale look-up the time Google may take, and nothing more.
* The pause of the pool lasts a second at least, which can be longer than the cool-down of the first route;
  a hint may be old when another request has cooled its route.
* The answer put together from descriptions quotes pages as they are (`web_research.py:736-743`, `950`), so a
  "[12]" in a page reads as a citation of a source that is not listed. `CitesListed` is about the
  answers a model wrote.
* A source that validation removes after numbering shifts the numbers of a grounded answer
  (`web_research.py:850`), and the model may cite a source whose text it was not shown when the room was used
  up (`web_research.py:790`).

## Abstractions and what is not modelled

Automations: an event's conditions and the rendering of texts are folded into which steps
a definition takes for an event; Discord's permissions into `Refuse`. Bots' joins are
not gated by the code and are left out. A request lost at its timeout is assumed not to take
effect later; an error answered by Discord means that nothing was done. The claim reads the clock
before it waits for the lock; a clock that may jump at any step covers it. The owner's
two checks before a step have no await between them; the model allows one. A statement
other than an upsert that is cancelled before its commit is not modelled. A restart keeps the
database file: a restored older copy, and with it an older ledger, is `BackupRestore`'s subject and
not composed with the runtime. The unlocked listing can start a run from a version that is rolled
back (`storage.py:636`); no property forbids it.

Relay: urgency, `/status` and messages that are no replies change nothing modelled; database
errors are modelled only where a sent request is recorded. A reply that comes before the link
to the request is stored is answered "not found" (`telegram_bridge.py:400`), as in the code. A
stop between claim and completion leaves a request `responding` for ever: at most once is chosen over
at least once.

Undo: which inverse belongs to which of about thirty operations is abstracted to restoring
an attribute's earlier value. The undos are those of turns, which end before a claim is old.

Agent turn: prompts, tool eligibility, the routing that never executes tools, and the bodies of
operations are left out; an effect means that the operation took place. The access check at the
beginning and the resolution of the target are one step, the check before the operation
another. Operations that need approval only become pending; what becomes of them is
`ActionApproval`. Nothing of a turn is persistent, so a stop of the process just ends it. The
legacy path of `request_pos_reply` (`pos_ai.py:6034`) is not reached in production, where every
plan's decision is "agent". An exception that leaves the loop after operations makes the handler
say that nothing was done (`pos_ai.py:7034`); it is not modelled.

Forms and approvals: the two announcement shortcuts of the forms' listener are single messages. What
is written in a form is a member of a small set. Staff are staff for the whole behaviour.

Guard: what a pattern, a signature or a model finds in a text is the message's `nature`; wording,
severities and embeds are left out. The pruning of the trackers beyond their windows changes no
decision. The posture compares permissions as sets, and
the alerts of one first snapshot, each a summary, fit into one entry.

State: a fact stands for a row, a copy for the set of its facts; digests and sizes are only what
makes a copy complete. The short memory of an author that is never written (`_user_memory`) is left
out. The answer to a mention on vacation is read as one step with the decision. The schema's
migration and the tables of a single caller are left out. In `EventLog` bots' messages and the
listeners of members, roles, voice and channels, each one report, are left out, and so is the cut of
a row's recipients at 50 000; searches are by `include_roles`, which is the default, and the order of the
rows' times is that of their ids; the mirrors of
messages go through `LogChannels` and are not composed with it. `LogChannels` has no category of a
custom name and no `PRIMARY_LOG_CHANNEL_ID`.

Services: links are those whose status the local rules leave open. What is asked and answered is one of
the ways the code tells apart. `WebResearch` leaves out texts, passages and the room for them: a
source is its address, an answer the numbers it cites and whether its prose passes the other tests.

Not modelled at all, because they are pure functions over text, single requests or formatting:
tool routing (`tool_router.py`), the bodies of Discord operations (`discord_capabilities.py`, most of
`pos_ai.py` and `cogs/ai_tools.py`), the analysis of media, how HTML becomes text, GIF conversion (a worker
process behind a semaphore of one), the adapters that hand Discord's events on, configuration and
the static site.
