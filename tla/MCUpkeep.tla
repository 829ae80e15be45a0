------------------------------ MODULE MCUpkeep ------------------------------
(***************************************************************************)
(* Small instances of what keeps state: the journal of actions and their    *)
(* undo, the copies of the database and the end of the process, the memory   *)
(* of conversations, the settings, the log of events and its channels.  A      *)
(* behaviour is one of one part, chosen at its start, and the variables of      *)
(* the others stand still.                                                       *)
(***************************************************************************)
EXTENDS MCUndoJournal, BackupRestore, AIMemory, SettingsStore, EventLog, LogChannels

CONSTANTS w1, w2, x1, x2, x3, e1, e2, c1, c2, gl, k1, k2, s1, G1, ad,
  y1, y2, y3, y4, f1, f2, t1, z1, z2

MCAuthor == (x1 :> e1 @@ x2 :> e1 @@ x3 :> e2)
MCChannel == (x1 :> c1 @@ x2 :> c2 @@ x3 :> c2)
\* One message calls a member, a role and everyone, which is one mention more than is
\* recorded; another calls everyone alone; the others call nobody.
MCAddressed ==
  LET all == [kind |-> "everyone", who |-> "all"] IN
  [m \in Posts |-> CASE m = y1 -> <<[kind |-> "member", who |-> f1], [kind |-> "role", who |-> t1], all>>
                     [] m = y2 -> <<all>>
                     [] OTHER -> <<>>]
MCLogKeys == <<"server", "messages">>
MCDefault == [k \in SettingKeys |-> "off"]

VARIABLE part

UpkeepInit ==
  /\ part \in {"journal", "copies", "memory", "settings", "events", "channels"}
  /\ Init /\ BackupInit /\ MemoryInit /\ SettingsInit /\ LogInit /\ ChannelInit
  /\ part # "events" => \A t \in Titles : holders[t] = {}
  /\ part # "channels" => shut = <<>>

\* Either the two messages that call somebody, if both then only while nothing fails,
\* changes or is deleted; or two of all but the first, or one of these that is edited.
Sent == {m \in Posts : post'[m] # "unsent"}
LogPart ==
  \/ Sent \in SUBSET {y1} \cup {{y2}} /\ edits' = 0
  \/ Sent = {y1, y2} /\ edits' + changes' + failures' = 0 /\ \A m \in Sent : post'[m] = "there"
  \/ y1 \notin Sent /\ changes' = 0 /\ since' = since /\ Cardinality(Sent) + edits' <= 2

\* While something is undone one message at most is being acted on.
JournalPart ==
  (\E u \in Undos : undo'[u] # Idle) => Cardinality({g \in Groups : turns'[g] # Idle}) <= 1

UpkeepNext ==
  /\ UNCHANGED part
  /\ \/ /\ part = "journal" /\ Next /\ JournalPart
        /\ UNCHANGED <<backupVars, memVars, settingsVars, logVars, logChannelVars>>
     \/ /\ part = "copies" /\ BackupNext
        /\ UNCHANGED <<vars, memVars, settingsVars, logVars, logChannelVars>>
     \/ /\ part = "memory" /\ MemoryNext
        /\ UNCHANGED <<vars, backupVars, settingsVars, logVars, logChannelVars>>
     \/ /\ part = "settings" /\ SettingsNext
        /\ UNCHANGED <<vars, backupVars, memVars, logVars, logChannelVars>>
     \/ /\ part = "events" /\ LogNext /\ LogPart
        /\ UNCHANGED <<vars, backupVars, memVars, settingsVars, logChannelVars>>
     \/ /\ part = "channels" /\ ChannelNext
        /\ UNCHANGED <<vars, backupVars, memVars, settingsVars, logVars>>

UpkeepSpec ==
  UpkeepInit /\ [][UpkeepNext]_<<part, vars, backupVars, memVars, settingsVars, logVars, logChannelVars>>
=============================================================================
