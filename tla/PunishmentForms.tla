--------------------------- MODULE PunishmentForms ---------------------------
(***************************************************************************)
(* Staff punish a member by a message in the form channel (cogs/forms.py,  *)
(* on_message): warnings and strikes are four roles.  A form is decided by *)
(* the roles the bot's cache shows, then Discord is asked for one role     *)
(* after the other, and a log entry says what happened.  Several forms may *)
(* be at work on one member.                                               *)
(***************************************************************************)
EXTENDS Integers, FiniteSets

CONSTANTS
  Members,
  PunishForms    \* messages in the form channel

Warnings == {"warning 1", "warning 2"}
Strikes == {"strike 1", "strike 2"}
Ladder == Warnings \cup Strikes
Punishments == {"1 warning", "2 warnings", "1 strike", "2 strikes"}

VARIABLES
  record,     \* [Members -> the punishment roles a member has at Discord]
  cached,     \* [Members -> the roles the bot knows of]
  form        \* [PunishForms -> what is being done about a form]

punishVars == <<record, cached, form>>

NoForm == [pc |-> "new"]
FormState == {NoForm} \cup
  [pc : {"add", "drop", "log", "closed"}, who : Members, held : SUBSET Ladder,
   add : SUBSET Ladder, drop : SUBSET Ladder, given : SUBSET Ladder, taken : SUBSET Ladder,
   ok : BOOLEAN, alone : BOOLEAN]

\* Every variable holds a value of its kind, and a form takes away warnings only.
PunishTypeOK ==
  /\ record \in [Members -> SUBSET Ladder]
  /\ cached \in [Members -> SUBSET Ladder]
  /\ form \in [PunishForms -> FormState]
  /\ \A f \in PunishForms : form[f] # NoForm => form[f].drop \subseteq Warnings

PunishInit ==
  /\ record \in [Members -> SUBSET Ladder]
  /\ cached = record
  /\ form = [f \in PunishForms |-> NoForm]

-----------------------------------------------------------------------------
\* What a punishment adds and removes, given the roles a member holds.  Strikes
\* that are full are only reported.

Change(add, drop) == [add |-> add, drop |-> drop]

\* Mutant: two warnings are dropped without the strike that replaces them.
RungForgetful(kind, held) == Change({}, Warnings)

Rung(kind, held) ==
  IF Ladder \subseteq held THEN Change({}, {})
  ELSE CASE kind = "1 warning"  -> IF Warnings \subseteq held THEN Change({"strike 1"}, Warnings)
                                   ELSE IF "warning 1" \in held THEN Change({"warning 2"}, {})
                                   ELSE Change({"warning 1"}, {})
         [] kind = "2 warnings" -> IF Warnings \subseteq held THEN Change({"strike 1"}, Warnings)
                                   ELSE IF "warning 1" \in held THEN Change({"strike 1"}, {"warning 1"})
                                   ELSE Change(Warnings, {})
         [] kind = "1 strike"   -> IF Strikes \subseteq held THEN Change({}, {})
                                   ELSE IF "strike 1" \in held THEN Change({"strike 2"}, {})
                                   ELSE Change({"strike 1"}, {})
         [] kind = "2 strikes"  -> IF Strikes \cap held # {} THEN Change({}, {})
                                   ELSE Change(Strikes, {})

\* Nobody else has touched the member since the form was read.
Disturbed(m, but) ==
  [f \in PunishForms |-> IF f # but /\ form[f] # NoForm /\ form[f].who = m
                         THEN [form[f] EXCEPT !.alone = FALSE] ELSE form[f]]

\* The form passes its checks (staff, template, a member below the bot, roles
\* that exist and can be given), and member.roles is read from the cache.
Decide(f) ==
  /\ form[f] = NoForm
  /\ \E m \in Members, kind \in Punishments :
       LET rung == Rung(kind, cached[m])
       IN  form' = [form EXCEPT ![f] =
             [pc |-> "add", who |-> m, held |-> cached[m],
              add |-> rung.add \ cached[m], drop |-> rung.drop \cap cached[m],
              given |-> {}, taken |-> {}, ok |-> TRUE,
              alone |-> cached[m] = record[m]
                        /\ \A g \in PunishForms \ {f} :
                             form[g].pc \in {"add", "drop"} => form[g].who # m]]
  /\ UNCHANGED <<record, cached>>

\* Mutant: the old roles go first, the new ones come after them.
DropFirst(f) ==
  /\ form[f].pc \in {"add", "drop"}
  /\ \E r \in form[f].drop \ form[f].taken :
       /\ record' = [record EXCEPT ![form[f].who] = @ \ {r}]
       /\ form' = [Disturbed(form[f].who, f) EXCEPT ![f].taken = @ \cup {r}]
  /\ UNCHANGED cached

\* member.add_roles asks for one role after the other.
AddRole(f) ==
  /\ form[f].pc = "add"
  /\ \E r \in form[f].add \ form[f].given :
       /\ record' = [record EXCEPT ![form[f].who] = @ \cup {r}]
       /\ form' = [Disturbed(form[f].who, f) EXCEPT ![f].given = @ \cup {r}]
  /\ UNCHANGED cached

DropRole(f) ==
  /\ form[f].pc = "drop"
  /\ \E r \in form[f].drop \ form[f].taken :
       /\ record' = [record EXCEPT ![form[f].who] = @ \ {r}]
       /\ form' = [Disturbed(form[f].who, f) EXCEPT ![f].taken = @ \cup {r}]
  /\ UNCHANGED cached

AllAdded(f) ==
  /\ form[f].pc = "add"
  /\ form[f].given = form[f].add
  /\ form' = [form EXCEPT ![f].pc = "drop"]
  /\ UNCHANGED <<record, cached>>

AllDropped(f) ==
  /\ form[f].pc = "drop"
  /\ form[f].taken = form[f].drop
  /\ form' = [form EXCEPT ![f].pc = "log"]
  /\ UNCHANGED <<record, cached>>

\* Discord refuses, or its answer is lost: apply_roles gives up, and with a role
\* that could not be given none is taken away.
RoleRefused(f) ==
  /\ \/ form[f].pc = "add" /\ form[f].given # form[f].add
     \/ form[f].pc = "drop" /\ form[f].taken # form[f].drop
  /\ form' = [form EXCEPT ![f].pc = "log", ![f].ok = FALSE]
  /\ UNCHANGED <<record, cached>>

\* log_action: the entry is complete, or lists the errors and tells the staff.
LogAction(f) ==
  /\ form[f].pc = "log"
  /\ form' = [form EXCEPT ![f].pc = "closed"]
  /\ UNCHANGED <<record, cached>>

\* External: the gateway tells the bot about the member.
RolesSeen(m) ==
  /\ cached[m] # record[m]
  /\ cached' = [cached EXCEPT ![m] = record[m]]
  /\ UNCHANGED <<record, form>>

FormStep(f) ==
  \/ Decide(f) \/ AddRole(f) \/ AllAdded(f) \/ DropRole(f) \/ AllDropped(f)
  \/ RoleRefused(f) \/ LogAction(f)

PunishNext == (\E f \in PunishForms : FormStep(f)) \/ \E m \in Members : RolesSeen(m)

PunishSpec == PunishInit /\ [][PunishNext]_punishVars

-----------------------------------------------------------------------------
\* Warnings are replaced by a strike, never dropped: whoever loses a warning has a
\* strike at that moment, whatever fails and however many forms are at work
\* (cogs/forms.py:624-643).
ReplacedNotDropped ==
  [][\A m \in Members : record[m] \ record'[m] # {} => record[m] \cap Strikes # {}]_punishVars

\* An entry without errors means that every role was given and taken as decided
\* (cogs/forms.py:602-622).
LogTrue ==
  \A f \in PunishForms : form[f].pc = "log" /\ form[f].ok =>
    form[f].given = form[f].add /\ form[f].taken = form[f].drop

Weight(roles) == Cardinality(roles \cap Warnings) + 3 * Cardinality(roles \cap Strikes)

\* A member without a strike who is punished while nobody else changes the roles has
\* a heavier record when the entry is written (cogs/forms.py:691-734).
RecordRises ==
  \A f \in PunishForms :
    form[f].pc = "log" /\ form[f].ok /\ form[f].alone /\ form[f].held \cap Strikes = {} =>
      Weight(record[form[f].who]) > Weight(form[f].held)

\* What the log says of a punishment is so, and a punishment is one
\* (cogs/forms.py:602-622, 691-734).
RecordTrue == PunishTypeOK /\ LogTrue /\ RecordRises
=============================================================================
