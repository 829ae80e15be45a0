--------------------------- MODULE Decisions_proofs ---------------------------
(***************************************************************************)
(* Proofs about the forms, buttons and messages with which people decide:  *)
(* staff punishments, applications, complaints, the owner's approvals and  *)
(* his answers by Telegram.  Each part has its own inductive invariant and *)
(* shares nothing with the others but the table of claims.                 *)
(***************************************************************************)
EXTENDS ComplaintForms, ApplicationForms, ActionApproval, PunishmentForms, TelegramContact,
        FiniteSetTheorems, TLAPS

-----------------------------------------------------------------------------
\* Punishments.

\* The cache may lack a strike, it never shows one that Discord does not know.
CacheBehind == \A m \in Members : cached[m] \cap Strikes \subseteq record[m]

\* What a form was decided to do follows from the roles it was decided on.
DecidedByRung ==
  \A f \in PunishForms : form[f] # NoForm =>
    \E kind \in Punishments :
      /\ form[f].add = Rung(kind, form[f].held).add \ form[f].held
      /\ form[f].drop = Rung(kind, form[f].held).drop \cap form[f].held

\* A form gives before it takes, and only what was decided.
GivesFirst ==
  \A f \in PunishForms : form[f] # NoForm =>
    /\ form[f].given \subseteq form[f].add /\ form[f].taken \subseteq form[f].drop
    /\ form[f].pc = "add" => form[f].taken = {}
    /\ form[f].pc = "drop" => form[f].given = form[f].add

\* The strikes a form knows of or gave are on the record, and the record of a
\* member whom nobody else touches is what the form made of it.
RecordFollows ==
  \A f \in PunishForms : form[f] # NoForm =>
    /\ (form[f].held \cup form[f].given) \cap Strikes \subseteq record[form[f].who]
    /\ form[f].alone => record[form[f].who] = (form[f].held \cup form[f].given) \ form[f].taken

PunishInv ==
  PunishTypeOK /\ CacheBehind /\ DecidedByRung /\ GivesFirst /\ RecordFollows /\ LogTrue

\* Warnings go only with a strike in their place (cogs/forms.py:624-643).
LEMMA RungReplaces ==
  ASSUME NEW kind \in Punishments, NEW held \in SUBSET Ladder
  PROVE  /\ Rung(kind, held).add \in SUBSET Ladder
         /\ Rung(kind, held).drop \in SUBSET Warnings
         /\ Rung(kind, held).drop # {} => "strike 1" \in Rung(kind, held).add
<1>1. CASE kind = "1 warning"
  BY <1>1 DEF Rung, Change, Ladder, Warnings, Strikes
<1>2. CASE kind = "2 warnings"
  BY <1>2 DEF Rung, Change, Ladder, Warnings, Strikes
<1>3. CASE kind = "1 strike"
  BY <1>3 DEF Rung, Change, Ladder, Warnings, Strikes
<1>4. CASE kind = "2 strikes"
  BY <1>4 DEF Rung, Change, Ladder, Warnings, Strikes
<1> QED
  BY <1>1, <1>2, <1>3, <1>4 DEF Punishments

Has(S, r) == IF r \in S THEN 1 ELSE 0

\* How many of two roles a member holds.
LEMMA TwoRoles ==
  ASSUME NEW S, NEW a, NEW b, a # b
  PROVE  /\ IsFiniteSet(S \cap {a, b})
         /\ Cardinality(S \cap {a, b}) = Has(S, a) + Has(S, b)
<1>1. CASE a \in S /\ b \in S
  <2>1. S \cap {a, b} = {a} \cup {b}
    BY <1>1
  <2>2. IsFiniteSet({a}) /\ Cardinality({a}) = 1
    BY FS_Singleton
  <2>3. b \notin {a}
    OBVIOUS
  <2>4. IsFiniteSet({a} \cup {b}) /\ Cardinality({a} \cup {b}) = 2
    BY <2>2, <2>3, FS_AddElement
  <2> QED
    BY <1>1, <2>1, <2>4 DEF Has
<1>2. CASE a \in S /\ b \notin S
  <2>1. S \cap {a, b} = {a}
    BY <1>2
  <2>2. IsFiniteSet({a}) /\ Cardinality({a}) = 1
    BY FS_Singleton
  <2> QED
    BY <1>2, <2>1, <2>2 DEF Has
<1>3. CASE a \notin S /\ b \in S
  <2>1. S \cap {a, b} = {b}
    BY <1>3
  <2>2. IsFiniteSet({b}) /\ Cardinality({b}) = 1
    BY FS_Singleton
  <2> QED
    BY <1>3, <2>1, <2>2 DEF Has
<1>4. CASE a \notin S /\ b \notin S
  <2>1. S \cap {a, b} = {}
    BY <1>4
  <2> QED
    BY <1>4, <2>1, FS_EmptySet DEF Has
<1> QED
  BY <1>1, <1>2, <1>3, <1>4

\* A strike weighs more than both warnings, and one role more is more.
LEMMA Heavier ==
  ASSUME NEW w1 \in 0..1, NEW w2 \in 0..1, NEW s1 \in 0..1, NEW s2 \in 0..1,
         NEW x1 \in 0..1, NEW x2 \in 0..1, NEW y1 \in 0..1, NEW y2 \in 0..1,
         \/ y1 = 1 /\ s1 = 0 /\ s2 = 0
         \/ /\ x1 >= w1 /\ x2 >= w2 /\ y1 >= s1 /\ y2 >= s2
            /\ x1 > w1 \/ x2 > w2 \/ y1 > s1 \/ y2 > s2
  PROVE  x1 + x2 + 3 * (y1 + y2) > w1 + w2 + 3 * (s1 + s2)
OBVIOUS

\* A punishment of a member without strikes makes the record heavier
\* (cogs/forms.py:691-734).
LEMMA RungRises ==
  ASSUME NEW kind \in Punishments, NEW held \in SUBSET Ladder, held \cap Strikes = {}
  PROVE  Weight((held \cup (Rung(kind, held).add \ held)) \ (Rung(kind, held).drop \cap held)) > Weight(held)
<1> DEFINE after == (held \cup (Rung(kind, held).add \ held)) \ (Rung(kind, held).drop \cap held)
           Sum4(S) == Has(S, "warning 1") + Has(S, "warning 2") + 3 * (Has(S, "strike 1") + Has(S, "strike 2"))
<1>1. ASSUME NEW S PROVE Weight(S) = Sum4(S)
  <2>1. Cardinality(S \cap Warnings) = Has(S, "warning 1") + Has(S, "warning 2")
    <3>1. "warning 1" # "warning 2"
      OBVIOUS
    <3>2. Cardinality(S \cap {"warning 1", "warning 2"}) = Has(S, "warning 1") + Has(S, "warning 2")
      BY <3>1, TwoRoles
    <3> QED
      BY <3>2 DEF Warnings
  <2>2. Cardinality(S \cap Strikes) = Has(S, "strike 1") + Has(S, "strike 2")
    <3>1. "strike 1" # "strike 2"
      OBVIOUS
    <3>2. Cardinality(S \cap {"strike 1", "strike 2"}) = Has(S, "strike 1") + Has(S, "strike 2")
      BY <3>1, TwoRoles
    <3> QED
      BY <3>2 DEF Strikes
  <2> QED
    BY <2>1, <2>2 DEF Weight
<1>2. PICK add \in SUBSET Ladder, drop \in SUBSET Ladder :
        /\ Rung(kind, held).add = add /\ Rung(kind, held).drop = drop
        /\ \/ /\ "strike 1" \in add
           \/ /\ drop = {} /\ \E r \in add : r \notin held
  <2>1. CASE kind = "1 warning"
    BY <2>1 DEF Rung, Change, Ladder, Warnings, Strikes
  <2>2. CASE kind = "2 warnings"
    BY <2>2 DEF Rung, Change, Ladder, Warnings, Strikes
  <2>3. CASE kind = "1 strike"
    BY <2>3 DEF Rung, Change, Ladder, Warnings, Strikes
  <2>4. CASE kind = "2 strikes"
    BY <2>4 DEF Rung, Change, Ladder, Warnings, Strikes
  <2> QED
    BY <2>1, <2>2, <2>3, <2>4 DEF Punishments
<1>3. /\ "strike 1" \notin held /\ "strike 2" \notin held /\ drop \subseteq Warnings
      /\ after = (held \cup (add \ held)) \ (drop \cap held)
  BY <1>2, RungReplaces DEF Strikes
<1> HIDE DEF after
<1>4. \A S, r : (r \in S => Has(S, r) = 1) /\ (r \notin S => Has(S, r) = 0)
  BY DEF Has
<1>0. ASSUME NEW S, NEW r PROVE Has(S, r) \in 0..1
  BY DEF Has
<1>5. Sum4(after) > Sum4(held)
  <2>1. CASE "strike 1" \in add
    <3>1. Has(after, "strike 1") = 1 /\ Has(held, "strike 1") = 0 /\ Has(held, "strike 2") = 0
      <4>1. "strike 1" \in after
        BY <1>3, <2>1 DEF Warnings
      <4> QED
        BY <4>1, <1>3, <1>4
    <3> QED
      BY <3>1, <1>0, Heavier
  <2>2. CASE drop = {} /\ \E r \in add : r \notin held
    <3>1. PICK r \in Ladder : r \in add /\ r \notin held
      BY <2>2
    <3>2. Has(after, r) = 1 /\ Has(held, r) = 0
      <4>1. r \in after
        BY <1>3, <2>2, <3>1
      <4> QED
        BY <3>1, <4>1, <1>4
    <3>3. \A x \in held : x \in after
      BY <1>3, <2>2
    <3>4. /\ Has(after, "warning 1") >= Has(held, "warning 1")
          /\ Has(after, "warning 2") >= Has(held, "warning 2")
          /\ Has(after, "strike 1") >= Has(held, "strike 1")
          /\ Has(after, "strike 2") >= Has(held, "strike 2")
      <4>1. ASSUME NEW x PROVE Has(after, x) >= Has(held, x)
        BY <3>3 DEF Has
      <4> QED
        BY <4>1
    <3>5. r \in {"warning 1", "warning 2", "strike 1", "strike 2"}
      BY DEF Ladder, Warnings, Strikes
    <3>6. \/ Has(after, "warning 1") > Has(held, "warning 1")
          \/ Has(after, "warning 2") > Has(held, "warning 2")
          \/ Has(after, "strike 1") > Has(held, "strike 1")
          \/ Has(after, "strike 2") > Has(held, "strike 2")
      <4>1. Has(after, r) > Has(held, r)
        BY <3>2
      <4> QED
        BY <3>5, <4>1, Zenon
    <3> QED
      BY <3>4, <3>6, <1>0, Heavier
  <2> QED
    BY <1>2, <2>1, <2>2
<1>6. Weight(after) > Weight(held)
  BY <1>1, <1>5
<1> QED
  BY <1>6 DEF after

\* No warning is recorded and no hand-out under way when the forms start.
LEMMA PunishInvInit == PunishInit => PunishInv
BY DEF PunishInit, PunishInv, PunishTypeOK, CacheBehind, DecidedByRung, GivesFirst, RecordFollows,
       LogTrue, FormState, NoForm

\* What the fields of a form that is at work are.
LEMMA FormFields ==
  ASSUME PunishTypeOK, NEW f \in PunishForms, form[f] # NoForm
  PROVE  /\ form[f] \in [pc : {"add", "drop", "log", "closed"}, who : Members, held : SUBSET Ladder,
                         add : SUBSET Ladder, drop : SUBSET Ladder, given : SUBSET Ladder,
                         taken : SUBSET Ladder, ok : BOOLEAN, alone : BOOLEAN]
         /\ form[f].drop \subseteq Warnings
BY DEF PunishTypeOK, FormState

\* A step on a form that leaves the others and the decision alone keeps what was
\* decided, and a step of the form that gives or takes a role ends the loneliness of
\* every other form on the member.
LEMMA PunishInvStep ==
  PunishInv /\ [PunishNext]_punishVars => PunishInv'
<1> SUFFICES ASSUME PunishInv, [PunishNext]_punishVars PROVE PunishInv'
  OBVIOUS
<1> USE DEF PunishInv
<1>1. ASSUME NEW f \in PunishForms, Decide(f) PROVE PunishInv'
  <2>1. PICK m \in Members, kind \in Punishments :
          form' = [form EXCEPT ![f] =
             [pc |-> "add", who |-> m, held |-> cached[m],
              add |-> Rung(kind, cached[m]).add \ cached[m],
              drop |-> Rung(kind, cached[m]).drop \cap cached[m],
              given |-> {}, taken |-> {}, ok |-> TRUE,
              alone |-> cached[m] = record[m]
                        /\ \A g \in PunishForms \ {f} :
                             form[g].pc \in {"add", "drop"} => form[g].who # m]]
    BY <1>1 DEF Decide
  <2>2. UNCHANGED <<record, cached>>
    BY <1>1 DEF Decide
  <2>3. cached[m] \in SUBSET Ladder /\ record[m] \in SUBSET Ladder
    BY DEF PunishTypeOK
  <2>4. /\ Rung(kind, cached[m]).add \in SUBSET Ladder
        /\ Rung(kind, cached[m]).drop \in SUBSET Warnings
    BY <2>3, RungReplaces
  <2>5. PICK a \in SUBSET Ladder, d \in SUBSET Warnings, alone \in BOOLEAN :
          /\ form' = [form EXCEPT ![f] =
               [pc |-> "add", who |-> m, held |-> cached[m], add |-> a, drop |-> d,
                given |-> {}, taken |-> {}, ok |-> TRUE, alone |-> alone]]
          /\ a = Rung(kind, cached[m]).add \ cached[m]
          /\ d = Rung(kind, cached[m]).drop \cap cached[m]
          /\ alone => cached[m] = record[m]
    BY <2>1, <2>4
  <2>6. /\ form \in [PunishForms -> FormState]
        /\ \A g \in PunishForms \ {f} : form'[g] = form[g]
        /\ form'[f] = [pc |-> "add", who |-> m, held |-> cached[m], add |-> a, drop |-> d,
                       given |-> {}, taken |-> {}, ok |-> TRUE, alone |-> alone]
        /\ form'[f] # NoForm
    BY <2>5 DEF PunishTypeOK, NoForm
  <2>7. PunishTypeOK'
    <3>1. form' \in [PunishForms -> FormState]
      BY <2>3, <2>5, <2>6 DEF FormState, Ladder
    <3> QED
      BY <2>2, <2>6, <3>1 DEF PunishTypeOK
  <2>8. CacheBehind' /\ LogTrue'
    BY <2>2, <2>6 DEF CacheBehind, LogTrue, NoForm
  <2>9. DecidedByRung'
    BY <2>5, <2>6 DEF DecidedByRung
  <2>10. GivesFirst' /\ RecordFollows'
    BY <2>2, <2>3, <2>5, <2>6 DEF GivesFirst, RecordFollows, CacheBehind
  <2> QED
    BY <2>7, <2>8, <2>9, <2>10
<1>2. ASSUME NEW f \in PunishForms, AddRole(f) PROVE PunishInv'
  <2> DEFINE m == form[f].who
  <2>1. PICK r \in form[f].add \ form[f].given :
          /\ record' = [record EXCEPT ![m] = @ \cup {r}]
          /\ form' = [Disturbed(m, f) EXCEPT ![f].given = @ \cup {r}]
    BY <1>2 DEF AddRole
  <2>2. cached' = cached /\ form[f].pc = "add" /\ form[f] # NoForm
    BY <1>2 DEF AddRole, NoForm
  <2>3. m \in Members /\ r \in Ladder /\ r \in form[f].add
    BY <2>1, <2>2, FormFields
  <2>4. /\ form'[f] = [form[f] EXCEPT !.given = @ \cup {r}]
        /\ \A g \in PunishForms \ {f} :
             form'[g] = IF form[g] # NoForm /\ form[g].who = m
                        THEN [form[g] EXCEPT !.alone = FALSE] ELSE form[g]
        /\ form' \in [PunishForms -> FormState]
    <3>1. DOMAIN Disturbed(m, f) = PunishForms /\ Disturbed(m, f)[f] = form[f]
      BY DEF Disturbed
    <3>2. /\ form'[f] = [form[f] EXCEPT !.given = @ \cup {r}]
          /\ \A g \in PunishForms \ {f} : form'[g] = Disturbed(m, f)[g]
          /\ form' = [g \in PunishForms |-> form'[g]]
      BY <2>1, <3>1
    <3>3. \A g \in PunishForms \ {f} :
             form'[g] = IF form[g] # NoForm /\ form[g].who = m
                        THEN [form[g] EXCEPT !.alone = FALSE] ELSE form[g]
      BY <3>2 DEF Disturbed
    <3>4. form'[f] \in FormState
      BY <2>2, <2>3, <3>2, FormFields DEF FormState
    <3>5. ASSUME NEW g \in PunishForms \ {f} PROVE form'[g] \in FormState
      <4>1. CASE form[g] = NoForm
        BY <3>3, <4>1 DEF FormState
      <4>2. CASE form[g] # NoForm
        BY <3>3, <4>2, FormFields DEF FormState
      <4> QED
        BY <4>1, <4>2
    <3> QED
      BY <3>2, <3>3, <3>4, <3>5
  <2>5. /\ record' \in [Members -> SUBSET Ladder]
        /\ record'[m] = record[m] \cup {r}
        /\ \A n \in Members \ {m} : record'[n] = record[n]
    BY <2>1, <2>3 DEF PunishTypeOK
  <2>6. ASSUME NEW g \in PunishForms, form'[g] # NoForm
        PROVE  /\ form[g] # NoForm /\ form'[g].pc = form[g].pc /\ form'[g].who = form[g].who
               /\ form'[g].held = form[g].held /\ form'[g].add = form[g].add
               /\ form'[g].drop = form[g].drop /\ form'[g].taken = form[g].taken
               /\ form'[g].ok = form[g].ok
               /\ form'[g].given = IF g = f THEN form[g].given \cup {r} ELSE form[g].given
               /\ form'[g].alone => form[g].alone /\ (g # f => form[g].who # m)
    <3>1. form[g] # NoForm
      BY <2>2, <2>4, <2>6
    <3>2. CASE g = f
      BY <2>4, <3>1, <3>2, FormFields
    <3>3. CASE g # f /\ form[g].who = m
      BY <2>4, <3>1, <3>3, FormFields
    <3>4. CASE g # f /\ form[g].who # m
      BY <2>4, <3>1, <3>4, FormFields
    <3> QED
      BY <3>2, <3>3, <3>4
  <2>7. PunishTypeOK' /\ CacheBehind'
    <3>1. \A g \in PunishForms : form'[g] # NoForm => form'[g].drop \subseteq Warnings
      BY <2>6, FormFields
    <3> QED
      BY <2>2, <2>4, <2>5, <3>1 DEF PunishTypeOK, CacheBehind
  <2>8. DecidedByRung'
    <3> SUFFICES ASSUME NEW g \in PunishForms, form'[g] # NoForm
                 PROVE  \E kind \in Punishments :
                          /\ form'[g].add = Rung(kind, form'[g].held).add \ form'[g].held
                          /\ form'[g].drop = Rung(kind, form'[g].held).drop \cap form'[g].held
      BY DEF DecidedByRung
    <3>1. form[g] # NoForm /\ form'[g].held = form[g].held /\ form'[g].add = form[g].add
          /\ form'[g].drop = form[g].drop
      BY <2>6
    <3> QED
      BY <3>1 DEF DecidedByRung
  <2>9. GivesFirst' /\ LogTrue'
    <3>1. ASSUME NEW g \in PunishForms, form'[g] # NoForm
          PROVE  /\ form'[g].given \subseteq form'[g].add /\ form'[g].taken \subseteq form'[g].drop
                 /\ form'[g].pc = "add" => form'[g].taken = {}
                 /\ form'[g].pc = "drop" => form'[g].given = form'[g].add
      <4>1. CASE g = f
        <5>1. /\ form[f].given \subseteq form[f].add /\ form[f].taken \subseteq form[f].drop
              /\ form[f].pc = "add" => form[f].taken = {}
              /\ form[f].pc = "drop" => form[f].given = form[f].add
          BY <2>2 DEF GivesFirst
        <5>2. /\ form'[f].pc = form[f].pc /\ form'[f].add = form[f].add /\ form'[f].drop = form[f].drop
              /\ form'[f].given = form[f].given \cup {r} /\ form'[f].taken = form[f].taken
          BY <2>6, <3>1, <4>1
        <5> QED
          BY <2>2, <2>3, <4>1, <5>1, <5>2
      <4>2. CASE g # f
        <5>1. /\ form[g] # NoForm /\ form'[g].pc = form[g].pc /\ form'[g].add = form[g].add
              /\ form'[g].drop = form[g].drop /\ form'[g].given = form[g].given
              /\ form'[g].taken = form[g].taken
          BY <2>6, <3>1, <4>2
        <5> QED
          BY <5>1 DEF GivesFirst
      <4> QED
        BY <4>1, <4>2
    <3>2. ASSUME NEW g \in PunishForms, form'[g].pc = "log", form'[g].ok
          PROVE  form'[g].given = form'[g].add /\ form'[g].taken = form'[g].drop
      <4>1. form'[g] # NoForm
        BY <3>2 DEF NoForm
      <4>2. g # f
        BY <2>2, <2>6, <3>2, <4>1
      <4> QED
        BY <2>6, <3>2, <4>1, <4>2 DEF LogTrue
    <3> QED
      BY <3>1, <3>2 DEF GivesFirst, LogTrue
  <2>10. RecordFollows'
    <3> SUFFICES ASSUME NEW g \in PunishForms, form'[g] # NoForm
                 PROVE  /\ (form'[g].held \cup form'[g].given) \cap Strikes \subseteq record'[form'[g].who]
                        /\ form'[g].alone => record'[form'[g].who]
                                               = (form'[g].held \cup form'[g].given) \ form'[g].taken
      BY DEF RecordFollows
    <3>1. form[g] # NoForm /\ form[g].who \in Members
      BY <2>6, FormFields
    <3>2. CASE g = f
      <4>1. /\ (form[f].held \cup form[f].given) \cap Strikes \subseteq record[m]
            /\ form[f].alone => record[m] = form[f].held \cup form[f].given
            /\ form[f].taken = {}
        BY <2>2 DEF RecordFollows, GivesFirst
      <4>2. /\ form'[f].held = form[f].held /\ form'[f].given = form[f].given \cup {r}
            /\ form'[f].taken = {} /\ form'[f].who = m
            /\ form'[f].alone => form[f].alone
        BY <2>2, <2>6, <3>2, <4>1
      <4> QED
        BY <2>3, <2>5, <3>2, <4>1, <4>2 DEF Strikes
    <3>3. CASE g # f
      <4>1. /\ (form[g].held \cup form[g].given) \cap Strikes \subseteq record[form[g].who]
            /\ form[g].alone => record[form[g].who] = (form[g].held \cup form[g].given) \ form[g].taken
        BY <3>1 DEF RecordFollows
      <4>2. /\ form'[g].held = form[g].held /\ form'[g].given = form[g].given
            /\ form'[g].taken = form[g].taken /\ form'[g].who = form[g].who
            /\ form'[g].alone => form[g].alone /\ form[g].who # m
        BY <2>6, <3>3
      <4>3. record[form[g].who] \subseteq record'[form[g].who]
        BY <2>5, <3>1
      <4> QED
        BY <2>5, <3>1, <4>1, <4>2, <4>3
    <3> QED
      BY <3>2, <3>3
  <2> QED
    BY <2>7, <2>8, <2>9, <2>10
<1>3. ASSUME NEW f \in PunishForms, DropRole(f) PROVE PunishInv'
  <2> DEFINE m == form[f].who
  <2>1. PICK r \in form[f].drop \ form[f].taken :
          /\ record' = [record EXCEPT ![m] = @ \ {r}]
          /\ form' = [Disturbed(m, f) EXCEPT ![f].taken = @ \cup {r}]
    BY <1>3 DEF DropRole
  <2>2. cached' = cached /\ form[f].pc = "drop" /\ form[f] # NoForm
    BY <1>3 DEF DropRole, NoForm
  <2>3. m \in Members /\ r \in Ladder /\ r \in form[f].drop /\ r \notin Strikes
    BY <2>1, <2>2, FormFields DEF Ladder, Warnings, Strikes
  <2>4. /\ form'[f] = [form[f] EXCEPT !.taken = @ \cup {r}]
        /\ \A g \in PunishForms \ {f} :
             form'[g] = IF form[g] # NoForm /\ form[g].who = m
                        THEN [form[g] EXCEPT !.alone = FALSE] ELSE form[g]
        /\ form' \in [PunishForms -> FormState]
    <3>1. DOMAIN Disturbed(m, f) = PunishForms /\ Disturbed(m, f)[f] = form[f]
      BY DEF Disturbed
    <3>2. /\ form'[f] = [form[f] EXCEPT !.taken = @ \cup {r}]
          /\ \A g \in PunishForms \ {f} : form'[g] = Disturbed(m, f)[g]
          /\ form' = [g \in PunishForms |-> form'[g]]
      BY <2>1, <3>1
    <3>3. \A g \in PunishForms \ {f} :
             form'[g] = IF form[g] # NoForm /\ form[g].who = m
                        THEN [form[g] EXCEPT !.alone = FALSE] ELSE form[g]
      BY <3>2 DEF Disturbed
    <3>4. form'[f] \in FormState
      BY <2>2, <2>3, <3>2, FormFields DEF FormState
    <3>5. ASSUME NEW g \in PunishForms \ {f} PROVE form'[g] \in FormState
      <4>1. CASE form[g] = NoForm
        BY <3>3, <4>1 DEF FormState
      <4>2. CASE form[g] # NoForm
        BY <3>3, <4>2, FormFields DEF FormState
      <4> QED
        BY <4>1, <4>2
    <3> QED
      BY <3>2, <3>3, <3>4, <3>5
  <2>5. /\ record' \in [Members -> SUBSET Ladder]
        /\ record'[m] = record[m] \ {r}
        /\ \A n \in Members \ {m} : record'[n] = record[n]
    BY <2>1, <2>3 DEF PunishTypeOK
  <2>6. ASSUME NEW g \in PunishForms, form'[g] # NoForm
        PROVE  /\ form[g] # NoForm /\ form'[g].pc = form[g].pc /\ form'[g].who = form[g].who
               /\ form'[g].held = form[g].held /\ form'[g].add = form[g].add
               /\ form'[g].drop = form[g].drop /\ form'[g].given = form[g].given
               /\ form'[g].ok = form[g].ok
               /\ form'[g].taken = IF g = f THEN form[g].taken \cup {r} ELSE form[g].taken
               /\ form'[g].alone => form[g].alone /\ (g # f => form[g].who # m)
    <3>1. form[g] # NoForm
      BY <2>2, <2>4, <2>6
    <3>2. CASE g = f
      BY <2>4, <3>1, <3>2, FormFields
    <3>3. CASE g # f /\ form[g].who = m
      BY <2>4, <3>1, <3>3, FormFields
    <3>4. CASE g # f /\ form[g].who # m
      BY <2>4, <3>1, <3>4, FormFields
    <3> QED
      BY <3>2, <3>3, <3>4
  <2>7. PunishTypeOK' /\ CacheBehind'
    <3>1. \A g \in PunishForms : form'[g] # NoForm => form'[g].drop \subseteq Warnings
      BY <2>6, FormFields
    <3> QED
      BY <2>2, <2>3, <2>4, <2>5, <3>1 DEF PunishTypeOK, CacheBehind
  <2>8. DecidedByRung'
    <3> SUFFICES ASSUME NEW g \in PunishForms, form'[g] # NoForm
                 PROVE  \E kind \in Punishments :
                          /\ form'[g].add = Rung(kind, form'[g].held).add \ form'[g].held
                          /\ form'[g].drop = Rung(kind, form'[g].held).drop \cap form'[g].held
      BY DEF DecidedByRung
    <3>1. form[g] # NoForm /\ form'[g].held = form[g].held /\ form'[g].add = form[g].add
          /\ form'[g].drop = form[g].drop
      BY <2>6
    <3> QED
      BY <3>1 DEF DecidedByRung
  <2>9. GivesFirst' /\ LogTrue'
    <3>1. ASSUME NEW g \in PunishForms, form'[g] # NoForm
          PROVE  /\ form'[g].given \subseteq form'[g].add /\ form'[g].taken \subseteq form'[g].drop
                 /\ form'[g].pc = "add" => form'[g].taken = {}
                 /\ form'[g].pc = "drop" => form'[g].given = form'[g].add
      <4>1. CASE g = f
        <5>1. /\ form[f].given \subseteq form[f].add /\ form[f].taken \subseteq form[f].drop
              /\ form[f].pc = "add" => form[f].taken = {}
              /\ form[f].pc = "drop" => form[f].given = form[f].add
          BY <2>2 DEF GivesFirst
        <5>2. /\ form'[f].pc = form[f].pc /\ form'[f].add = form[f].add /\ form'[f].drop = form[f].drop
              /\ form'[f].given = form[f].given /\ form'[f].taken = form[f].taken \cup {r}
          BY <2>6, <3>1, <4>1
        <5> QED
          BY <2>2, <2>3, <4>1, <5>1, <5>2
      <4>2. CASE g # f
        <5>1. /\ form[g] # NoForm /\ form'[g].pc = form[g].pc /\ form'[g].add = form[g].add
              /\ form'[g].drop = form[g].drop /\ form'[g].given = form[g].given
              /\ form'[g].taken = form[g].taken
          BY <2>6, <3>1, <4>2
        <5> QED
          BY <5>1 DEF GivesFirst
      <4> QED
        BY <4>1, <4>2
    <3>2. ASSUME NEW g \in PunishForms, form'[g].pc = "log", form'[g].ok
          PROVE  form'[g].given = form'[g].add /\ form'[g].taken = form'[g].drop
      <4>1. form'[g] # NoForm
        BY <3>2 DEF NoForm
      <4>2. g # f
        BY <2>2, <2>6, <3>2, <4>1
      <4> QED
        BY <2>6, <3>2, <4>1, <4>2 DEF LogTrue
    <3> QED
      BY <3>1, <3>2 DEF GivesFirst, LogTrue
  <2>10. RecordFollows'
    <3> SUFFICES ASSUME NEW g \in PunishForms, form'[g] # NoForm
                 PROVE  /\ (form'[g].held \cup form'[g].given) \cap Strikes \subseteq record'[form'[g].who]
                        /\ form'[g].alone => record'[form'[g].who]
                                               = (form'[g].held \cup form'[g].given) \ form'[g].taken
      BY DEF RecordFollows
    <3>1. form[g] # NoForm /\ form[g].who \in Members
      BY <2>6, FormFields
    <3>2. CASE g = f
      BY <2>3, <2>5, <2>6, <3>1, <3>2 DEF RecordFollows
    <3>3. CASE g # f
      <4>1. /\ (form[g].held \cup form[g].given) \cap Strikes \subseteq record[form[g].who]
            /\ form[g].alone => record[form[g].who] = (form[g].held \cup form[g].given) \ form[g].taken
        BY <3>1 DEF RecordFollows
      <4>2. /\ form'[g].held = form[g].held /\ form'[g].given = form[g].given
            /\ form'[g].taken = form[g].taken /\ form'[g].who = form[g].who
            /\ form'[g].alone => form[g].alone /\ form[g].who # m
        BY <2>6, <3>3
      <4>3. record[form[g].who] \cap Strikes \subseteq record'[form[g].who]
        BY <2>3, <2>5, <3>1
      <4> QED
        BY <2>5, <3>1, <4>1, <4>2, <4>3
    <3> QED
      BY <3>2, <3>3
  <2> QED
    BY <2>7, <2>8, <2>9, <2>10
<1>4. ASSUME NEW f \in PunishForms, AllAdded(f) \/ AllDropped(f) \/ RoleRefused(f) \/ LogAction(f)
      PROVE PunishInv'
  <2>1. form[f] # NoForm /\ UNCHANGED <<record, cached>>
    BY <1>4 DEF AllAdded, AllDropped, RoleRefused, LogAction, NoForm
  <2>2. PICK pc \in {"drop", "log", "closed"}, ok \in BOOLEAN :
          /\ form' = [form EXCEPT ![f] = [form[f] EXCEPT !.pc = pc, !.ok = ok]]
          /\ pc = "drop" => form[f].given = form[f].add
          /\ pc = "log" /\ ok => form[f].pc = "drop" /\ form[f].taken = form[f].drop
    <3>1. form[f].ok \in BOOLEAN /\ form[f] = [form[f] EXCEPT !.ok = form[f].ok]
      BY <2>1, FormFields
    <3>2. CASE AllAdded(f)
      <4>1. form' = [form EXCEPT ![f] = [form[f] EXCEPT !.pc = "drop", !.ok = form[f].ok]]
        BY <2>1, <3>2, FormFields DEF AllAdded
      <4> QED
        BY <3>1, <3>2, <4>1 DEF AllAdded
    <3>3. CASE AllDropped(f)
      <4>1. form' = [form EXCEPT ![f] = [form[f] EXCEPT !.pc = "log", !.ok = form[f].ok]]
        BY <2>1, <3>3, FormFields DEF AllDropped
      <4> QED
        BY <3>1, <3>3, <4>1 DEF AllDropped
    <3>4. CASE RoleRefused(f)
      <4>1. form' = [form EXCEPT ![f] = [form[f] EXCEPT !.pc = "log", !.ok = FALSE]]
        BY <2>1, <3>4, FormFields DEF RoleRefused
      <4> QED
        BY <3>1, <3>4, <4>1
    <3>5. CASE LogAction(f)
      <4>1. form' = [form EXCEPT ![f] = [form[f] EXCEPT !.pc = "closed", !.ok = form[f].ok]]
        BY <2>1, <3>5, FormFields DEF LogAction
      <4> QED
        BY <3>1, <3>5, <4>1
    <3> QED
      BY <1>4, <3>2, <3>3, <3>4, <3>5
  <2>3. /\ \A g \in PunishForms \ {f} : form'[g] = form[g]
        /\ form'[f] = [form[f] EXCEPT !.pc = pc, !.ok = ok]
        /\ form'[f].pc = pc /\ form'[f].ok = ok /\ form'[f] # NoForm
        /\ form'[f].who = form[f].who /\ form'[f].held = form[f].held
        /\ form'[f].add = form[f].add /\ form'[f].drop = form[f].drop
        /\ form'[f].given = form[f].given /\ form'[f].taken = form[f].taken
        /\ form'[f].alone = form[f].alone
        /\ form' \in [PunishForms -> FormState]
    <3>1. form \in [PunishForms -> FormState]
      BY DEF PunishTypeOK
    <3>2. /\ \A g \in PunishForms \ {f} : form'[g] = form[g]
          /\ form'[f] = [form[f] EXCEPT !.pc = pc, !.ok = ok]
      BY <2>2, <3>1
    <3>3. form'[f] \in FormState /\ form'[f].pc = pc
      BY <2>1, <3>2, FormFields DEF FormState
    <3> QED
      BY <2>1, <2>2, <3>1, <3>2, <3>3, FormFields DEF NoForm
  <2>4. PunishTypeOK' /\ CacheBehind'
    BY <2>1, <2>3, FormFields DEF PunishTypeOK, CacheBehind
  <2>5. DecidedByRung' /\ RecordFollows'
    <3>1. DecidedByRung'
      <4> SUFFICES ASSUME NEW g \in PunishForms, form'[g] # NoForm
                   PROVE  \E kind \in Punishments :
                            /\ form'[g].add = Rung(kind, form'[g].held).add \ form'[g].held
                            /\ form'[g].drop = Rung(kind, form'[g].held).drop \cap form'[g].held
        BY DEF DecidedByRung
      <4>1. form[g] # NoForm /\ form'[g].held = form[g].held /\ form'[g].add = form[g].add
            /\ form'[g].drop = form[g].drop
        BY <2>1, <2>3
      <4> QED
        BY <4>1 DEF DecidedByRung
    <3>2. RecordFollows'
      <4> SUFFICES ASSUME NEW g \in PunishForms, form'[g] # NoForm
                   PROVE  /\ (form'[g].held \cup form'[g].given) \cap Strikes \subseteq record[form'[g].who]
                          /\ form'[g].alone => record[form'[g].who]
                                                 = (form'[g].held \cup form'[g].given) \ form'[g].taken
        BY <2>1 DEF RecordFollows
      <4>1. /\ form[g] # NoForm /\ form'[g].held = form[g].held /\ form'[g].given = form[g].given
            /\ form'[g].taken = form[g].taken /\ form'[g].who = form[g].who
            /\ form'[g].alone = form[g].alone
        BY <2>1, <2>3
      <4> QED
        BY <4>1 DEF RecordFollows
    <3> QED
      BY <3>1, <3>2
  <2>6. GivesFirst' /\ LogTrue'
    BY <2>1, <2>2, <2>3 DEF GivesFirst, LogTrue, NoForm
  <2> QED
    BY <2>4, <2>5, <2>6
<1>5. ASSUME NEW m \in Members, RolesSeen(m) PROVE PunishInv'
  BY <1>5 DEF RolesSeen, PunishTypeOK, CacheBehind, DecidedByRung, GivesFirst, RecordFollows, LogTrue
<1>6. CASE UNCHANGED punishVars
  BY <1>6 DEF punishVars, PunishTypeOK, CacheBehind, DecidedByRung, GivesFirst, RecordFollows, LogTrue
<1> QED
  BY <1>1, <1>2, <1>3, <1>4, <1>5, <1>6 DEF PunishNext, FormStep

\* An entry without errors about a member whom nobody else touched is about a
\* heavier record (cogs/forms.py:691-734).
LEMMA PunishInvRises == PunishInv => RecordRises
<1> SUFFICES ASSUME PunishInv, NEW f \in PunishForms, form[f].pc = "log", form[f].ok, form[f].alone,
                    form[f].held \cap Strikes = {}
             PROVE  Weight(record[form[f].who]) > Weight(form[f].held)
  BY DEF RecordRises
<1>1. form[f] # NoForm
  BY DEF NoForm
<1>2. PICK kind \in Punishments :
        /\ form[f].add = Rung(kind, form[f].held).add \ form[f].held
        /\ form[f].drop = Rung(kind, form[f].held).drop \cap form[f].held
  BY <1>1 DEF PunishInv, DecidedByRung
<1>3. form[f].held \in SUBSET Ladder
  BY <1>1, FormFields DEF PunishInv
<1>4. record[form[f].who] = (form[f].held \cup form[f].add) \ form[f].drop
  BY <1>1 DEF PunishInv, RecordFollows, LogTrue
<1> QED
  BY <1>2, <1>3, <1>4, RungRises

\* What the log says of a punishment is so, and a punishment makes the record
\* heavier, for every number of members and of forms at work
\* (cogs/forms.py:602-622, 691-734).
THEOREM PunishmentsAreTrue == PunishSpec => []RecordTrue
<1>1. PunishInv => RecordTrue
  BY PunishInvRises DEF PunishInv, RecordTrue
<1> QED
  BY <1>1, PunishInvInit, PunishInvStep, PTL DEF PunishSpec

\* Whoever loses a warning has a strike at that moment (cogs/forms.py:624-643).
THEOREM WarningsAreReplaced == PunishSpec => ReplacedNotDropped
<1>1. PunishInv /\ [PunishNext]_punishVars
        => [\A m \in Members : record[m] \ record'[m] # {} => record[m] \cap Strikes # {}]_punishVars
  <2> SUFFICES ASSUME PunishInv, PunishNext, NEW m \in Members, record[m] \ record'[m] # {}
               PROVE  record[m] \cap Strikes # {}
    OBVIOUS
  <2>1. ASSUME NEW f \in PunishForms, DropRole(f) PROVE record[m] \cap Strikes # {}
    <3>1. form[f] # NoForm /\ form[f].pc = "drop"
      BY <2>1 DEF DropRole, NoForm
    <3>2. form[f].who = m /\ form[f].drop # {}
      BY <2>1 DEF DropRole, PunishInv, PunishTypeOK
    <3>3. PICK kind \in Punishments :
            /\ form[f].add = Rung(kind, form[f].held).add \ form[f].held
            /\ form[f].drop = Rung(kind, form[f].held).drop \cap form[f].held
      BY <3>1 DEF PunishInv, DecidedByRung
    <3>4. "strike 1" \in form[f].held \cup form[f].add
      <4>1. form[f].held \in SUBSET Ladder
        BY <3>1, FormFields DEF PunishInv
      <4>2. Rung(kind, form[f].held).drop # {}
        BY <3>2, <3>3
      <4> QED
        BY <3>3, <4>1, <4>2, RungReplaces
    <3>5. form[f].given = form[f].add
      BY <3>1 DEF PunishInv, GivesFirst
    <3> QED
      BY <3>1, <3>2, <3>4, <3>5 DEF PunishInv, RecordFollows, Strikes
  <2>2. ASSUME NEW f \in PunishForms, AddRole(f) PROVE record[m] \subseteq record'[m]
    BY <2>2 DEF AddRole, PunishInv, PunishTypeOK
  <2>3. ASSUME NEW f \in PunishForms,
               Decide(f) \/ AllAdded(f) \/ AllDropped(f) \/ RoleRefused(f) \/ LogAction(f)
        PROVE  record' = record
    BY <2>3 DEF Decide, AllAdded, AllDropped, RoleRefused, LogAction
  <2>4. ASSUME NEW n \in Members, RolesSeen(n) PROVE record' = record
    BY <2>4 DEF RolesSeen
  <2> QED
    BY <2>1, <2>2, <2>3, <2>4 DEF PunishNext, FormStep
<1> QED
  BY <1>1, PunishInvInit, PunishInvStep, PTL DEF PunishSpec, ReplacedNotDropped

-----------------------------------------------------------------------------
\* Applications.

Working(k) == review[k].pc \in {"roles", "report"}

\* A decision has its row in the table, so there is one decision of an application
\* and at most one interaction that carries it out.
RowFirst == \A a \in Applications : outcome[a] # {} => a \in decided
OneOutcome == \A a \in Applications : \A x, y \in outcome[a] : x = y
WorkDecided == \A k \in Reviewers : Working(k) => outcome[review[k].of] = {review[k].accept}
OneWorker ==
  \A k, l \in Reviewers : Working(k) /\ Working(l) /\ review[k].of = review[l].of => k = l
Claimed == RowFirst /\ OneOutcome /\ WorkDecided /\ OneWorker

\* Discord is asked for a role once and by the interaction that accepted; what it
\* says it gave the applicant has.
AskedMost ==
  \A a \in Applications : \A r \in SquadRoles : asked[a][r] <= (IF TRUE \in outcome[a] THEN 1 ELSE 0)
NothingYet == \A k \in Reviewers : review[k].pc = "claim" => review[k].given = {}
NotAskedYet ==
  \A k \in Reviewers : review[k].pc = "roles" =>
    /\ review[k].accept
    /\ \A r \in SquadRoles \ (review[k].given \cup review[k].failed) : asked[review[k].of][r] = 0
GivenTrue == \A k \in Reviewers : Working(k) => review[k].given \subseteq granted[review[k].of]
AskedOnce == AskedMost /\ NothingYet /\ NotAskedYet /\ GivenTrue

ApplicationInv == ApplicationTypeOK /\ Claimed /\ AskedOnce /\ ReportTrue

\* No application is decided when the forms start.
LEMMA ApplicationInvInit == ApplicationInit => ApplicationInv
<1> SUFFICES ASSUME ApplicationInit PROVE ApplicationInv
  OBVIOUS
<1>1. ApplicationTypeOK
  BY DEF ApplicationInit, ApplicationTypeOK, ClaimInit, ClaimTypeOK, Reviews, NoReview
<1>2. Claimed /\ AskedOnce /\ ReportTrue
  BY DEF ApplicationInit, Claimed, RowFirst, OneOutcome, WorkDecided, OneWorker, AskedOnce, AskedMost, NothingYet, NotAskedYet, GivenTrue, ReportTrue, Working, NoReview
<1> QED
  BY <1>1, <1>2 DEF ApplicationInv

\* What the fields of a decision at work are.
LEMMA ReviewFields ==
  ASSUME ApplicationTypeOK, NEW k \in Reviewers, review[k] # NoReview
  PROVE  review[k] \in [pc : {"claim", "roles", "report"}, of : Applications, accept : BOOLEAN,
                        given : SUBSET SquadRoles, failed : SUBSET SquadRoles]
BY DEF ApplicationTypeOK, Reviews

\* Each step of a decision, a restart and a forgotten claim keep the applications' invariant.
LEMMA ApplicationInvStep ==
  ApplicationInv /\ [ApplicationNext]_applicationVars => ApplicationInv'
<1> SUFFICES ASSUME ApplicationInv, [ApplicationNext]_applicationVars PROVE ApplicationInv'
  OBVIOUS
<1> USE DEF ApplicationInv
<1>1. ASSUME NEW a \in Applications, Apply(a) PROVE ApplicationInv'
  <2>1. ApplicationTypeOK' /\ ReportTrue'
    BY <1>1 DEF Apply, ApplicationTypeOK, ClaimTypeOK, claimVars, ReportTrue
  <2>2. Claimed' /\ AskedOnce'
    BY <1>1 DEF Apply, claimVars, Claimed, RowFirst, OneOutcome, WorkDecided, OneWorker, AskedOnce, AskedMost, NothingYet, NotAskedYet, GivenTrue, Working
  <2> QED
    BY <2>1, <2>2
<1>2. ASSUME NEW a \in Applications, PostCard(a) PROVE ApplicationInv'
  <2>1. ApplicationTypeOK' /\ ReportTrue'
    BY <1>2 DEF PostCard, ApplicationTypeOK, ClaimTypeOK, claimVars, ReportTrue
  <2>2. Claimed' /\ AskedOnce'
    BY <1>2 DEF PostCard, claimVars, Claimed, RowFirst, OneOutcome, WorkDecided, OneWorker, AskedOnce, AskedMost, NothingYet, NotAskedYet, GivenTrue, Working
  <2> QED
    BY <2>1, <2>2
<1>3. ASSUME NEW k \in Reviewers, NEW a \in Applications, NEW accept \in BOOLEAN, PressCard(k, a, accept)
      PROVE  ApplicationInv'
  <2>1. /\ review'[k] = [pc |-> "claim", of |-> a, accept |-> accept, given |-> {}, failed |-> {}]
        /\ \A l \in Reviewers \ {k} : review'[l] = review[l]
        /\ review' \in [Reviewers -> Reviews]
    BY <1>3 DEF PressCard, ApplicationTypeOK, Reviews
  <2>2. ApplicationTypeOK' /\ ReportTrue'
    BY <1>3, <2>1 DEF PressCard, ApplicationTypeOK, ClaimTypeOK, claimVars, cardVars, ReportTrue
  <2>3. Claimed'
    BY <1>3, <2>1 DEF PressCard, claimVars, Claimed, RowFirst, OneOutcome, WorkDecided, OneWorker, Working
  <2>4. AskedOnce'
    BY <1>3, <2>1 DEF PressCard, AskedOnce, AskedMost, NothingYet, NotAskedYet, GivenTrue, Working
  <2> QED
    BY <2>2, <2>3, <2>4
<1>4. ASSUME NEW k \in Reviewers, ClaimCard(k) PROVE ApplicationInv'
  <2> DEFINE a == review[k].of
  <2>1. review[k] # NoReview /\ review[k].pc = "claim" /\ a \in Applications
    BY <1>4, ReviewFields DEF ClaimCard, NoReview
  <2>2. CASE ClaimForm(a) /\ review' = [review EXCEPT ![k].pc = IF review[k].accept THEN "roles" ELSE "report"]
             /\ outcome' = [outcome EXCEPT ![a] = @ \cup {review[k].accept}]
    <3>1. outcome[a] = {}
      BY <2>1, <2>2 DEF ClaimForm, Claimed, RowFirst, OneOutcome, WorkDecided, OneWorker
    <3>2. /\ review'[k] = [review[k] EXCEPT !.pc = IF review[k].accept THEN "roles" ELSE "report"]
          /\ \A l \in Reviewers \ {k} : review'[l] = review[l]
          /\ review' \in [Reviewers -> Reviews]
          /\ review'[k].pc = (IF review[k].accept THEN "roles" ELSE "report")
          /\ review'[k].of = a /\ review'[k].accept = review[k].accept /\ review'[k].given = review[k].given
      <4>1. review[k] \in Reviews /\ review \in [Reviewers -> Reviews]
        BY DEF ApplicationTypeOK
      <4>2. /\ review'[k] = [review[k] EXCEPT !.pc = IF review[k].accept THEN "roles" ELSE "report"]
            /\ \A l \in Reviewers \ {k} : review'[l] = review[l]
        BY <2>2, <4>1
      <4>3. review'[k] \in Reviews
        BY <2>1, <4>2, ReviewFields DEF Reviews
      <4> QED
        BY <2>1, <2>2, <4>1, <4>2, <4>3, ReviewFields
    <3>3. /\ outcome' \in [Applications -> SUBSET BOOLEAN]
          /\ outcome'[a] = {review[k].accept}
          /\ \A b \in Applications \ {a} : outcome'[b] = outcome[b]
      BY <2>1, <2>2, <3>1, ReviewFields DEF ApplicationTypeOK
    <3>4. decided' = decided \cup {a} /\ ClaimTypeOK'
      BY <2>1, <2>2, ApplicationAssumption DEF ClaimForm, ClaimTypeOK, Remembered, ApplicationTypeOK
    <3>5. UNCHANGED <<card, applicant, granted, asked, report>>
      BY <1>4 DEF ClaimCard, cardVars
    <3>6. ApplicationTypeOK' /\ ReportTrue'
      BY <3>2, <3>3, <3>4, <3>5 DEF ApplicationTypeOK, ReportTrue
    <3>7. \A l \in Reviewers \ {k} : Working(l) => review[l].of # a
      BY <3>1 DEF Claimed, RowFirst, OneOutcome, WorkDecided, OneWorker
    <3>8. Claimed'
      <4>1. RowFirst'
        BY <3>3, <3>4 DEF Claimed, RowFirst
      <4>2. OneOutcome'
        BY <3>3 DEF Claimed, OneOutcome
      <4>3. WorkDecided'
        <5> SUFFICES ASSUME NEW l \in Reviewers, Working(l)'
                     PROVE  outcome'[review'[l].of] = {review'[l].accept}
          BY DEF WorkDecided
        <5>1. CASE l = k
          BY <3>2, <3>3, <5>1
        <5>2. CASE l # k
          <6>1. review'[l] = review[l] /\ Working(l) /\ review[l] # NoReview
            BY <3>2, <5>2 DEF Working, NoReview
          <6> QED
            BY <3>3, <3>7, <5>2, <6>1, ReviewFields DEF Claimed, WorkDecided
        <5> QED
          BY <5>1, <5>2
      <4>4. OneWorker'
        <5>1. \A l \in Reviewers \ {k} : Working(l)' => Working(l) /\ review'[l].of # a
          BY <3>2, <3>7 DEF Working
        <5> QED
          BY <3>2, <5>1 DEF Claimed, OneWorker
      <4> QED
        BY <4>1, <4>2, <4>3, <4>4 DEF Claimed
    <3>9. AskedOnce'
      <4>1. ASSUME NEW b \in Applications, NEW r \in SquadRoles
            PROVE  asked'[b][r] <= (IF TRUE \in outcome'[b] THEN 1 ELSE 0)
        <5>1. asked[b][r] <= (IF TRUE \in outcome[b] THEN 1 ELSE 0) /\ outcome[b] \subseteq outcome'[b]
          BY <3>1, <3>3 DEF AskedOnce, AskedMost
        <5>2. asked' = asked
          BY <3>5
        <5>3. TRUE \in outcome[b] => TRUE \in outcome'[b]
          BY <5>1
        <5>4. asked[b][r] \in Nat
          <6>1. asked \in [Applications -> [SquadRoles -> Nat]]
            BY DEF ApplicationTypeOK
          <6> QED
            BY <6>1
        <5>5. CASE TRUE \in outcome[b]
          BY <5>1, <5>2, <5>3, <5>4, <5>5
        <5>6. CASE TRUE \notin outcome[b]
          <6>1. asked[b][r] = 0
            BY <5>1, <5>4, <5>6
          <6> QED
            BY <5>2, <6>1
        <5> QED
          BY <5>5, <5>6
      <4>2. \A r \in SquadRoles : asked'[a][r] = 0
        <5> SUFFICES ASSUME NEW r \in SquadRoles PROVE asked[a][r] = 0
          BY <3>5
        <5>1. asked[a][r] <= 0
          BY <2>1, <3>1 DEF AskedOnce, AskedMost
        <5>2. asked[a][r] \in Nat
          <6>1. asked \in [Applications -> [SquadRoles -> Nat]]
            BY DEF ApplicationTypeOK
          <6> QED
            BY <2>1, <6>1
        <5> QED
          BY <5>1, <5>2
      <4>3. NothingYet'
        BY <3>2 DEF AskedOnce, NothingYet
      <4>4. NotAskedYet'
        <5> SUFFICES ASSUME NEW l \in Reviewers, review'[l].pc = "roles"
                     PROVE  /\ review'[l].accept
                            /\ \A r \in SquadRoles \ (review'[l].given \cup review'[l].failed) :
                                 asked'[review'[l].of][r] = 0
          BY DEF NotAskedYet
        <5>1. CASE l = k
          BY <3>2, <4>2, <5>1
        <5>2. CASE l # k
          BY <3>2, <3>5, <5>2 DEF AskedOnce, NotAskedYet
        <5> QED
          BY <5>1, <5>2
      <4>5. GivenTrue'
        <5> SUFFICES ASSUME NEW l \in Reviewers, Working(l)'
                     PROVE  review'[l].given \subseteq granted'[review'[l].of]
          BY DEF GivenTrue
        <5>1. CASE l = k
          BY <2>1, <3>2, <5>1 DEF AskedOnce, NothingYet
        <5>2. CASE l # k
          BY <3>2, <3>5, <5>2 DEF AskedOnce, GivenTrue, Working
        <5> QED
          BY <5>1, <5>2
      <4> QED
        BY <4>1, <4>3, <4>4, <4>5 DEF AskedOnce, AskedMost
    <3> QED
      BY <3>6, <3>8, <3>9
  <2>3. CASE ClaimFormRefused(a) /\ review' = [review EXCEPT ![k] = NoReview] /\ UNCHANGED outcome
    <3>1. /\ review'[k] = NoReview /\ \A l \in Reviewers \ {k} : review'[l] = review[l]
          /\ review' \in [Reviewers -> Reviews]
      BY <2>3 DEF ApplicationTypeOK, Reviews
    <3>2. decided \subseteq decided' /\ ClaimTypeOK'
      BY <2>1, <2>3, ApplicationAssumption DEF ClaimFormRefused, ClaimTypeOK, ApplicationTypeOK
    <3>3. UNCHANGED <<card, applicant, granted, asked, report, outcome>>
      BY <1>4, <2>3 DEF ClaimCard, cardVars
    <3>4. ApplicationTypeOK' /\ ReportTrue'
      BY <3>1, <3>2, <3>3 DEF ApplicationTypeOK, ReportTrue
    <3>5. \A l \in Reviewers : review'[l] = review[l] \/ review'[l].pc = "idle"
      BY <3>1 DEF NoReview
    <3>6. Claimed'
      BY <3>2, <3>3, <3>5 DEF Claimed, RowFirst, OneOutcome, WorkDecided, OneWorker, Working
    <3>7. AskedOnce'
      <4>1. AskedMost' /\ NothingYet'
        BY <3>3, <3>5 DEF AskedOnce, AskedMost, NothingYet
      <4>2. NotAskedYet'
        BY <3>3, <3>5 DEF AskedOnce, NotAskedYet
      <4>3. GivenTrue'
        BY <3>3, <3>5 DEF AskedOnce, GivenTrue, Working
      <4> QED
        BY <4>1, <4>2, <4>3 DEF AskedOnce
    <3> QED
      BY <3>4, <3>6, <3>7
  <2> QED
    BY <1>4, <2>2, <2>3 DEF ClaimCard
<1>5. ASSUME NEW k \in Reviewers, NEW r \in SquadRoles, GrantRole(k, r) PROVE ApplicationInv'
  <2> DEFINE a == review[k].of
  <2>1. review[k] # NoReview /\ review[k].pc = "roles" /\ Working(k) /\ a \in Applications
        /\ review[k].accept /\ r \notin review[k].given \cup review[k].failed
    BY <1>5, ReviewFields DEF GrantRole, NoReview, Working, AskedOnce, AskedMost, NothingYet, NotAskedYet, GivenTrue
  <2>2. PICK gives \in BOOLEAN, answered \in BOOLEAN :
          /\ granted' = [granted EXCEPT ![a] = IF gives THEN @ \cup {r} ELSE @]
          /\ review' = IF gives /\ answered THEN [review EXCEPT ![k].given = @ \cup {r}]
                       ELSE [review EXCEPT ![k].failed = @ \cup {r}]
    BY <1>5 DEF GrantRole
  <2>3. /\ granted' \in [Applications -> SUBSET SquadRoles]
        /\ \A b \in Applications : granted[b] \subseteq granted'[b]
        /\ gives => r \in granted'[a]
    BY <2>1, <2>2 DEF ApplicationTypeOK
  <2>4. /\ review' \in [Reviewers -> Reviews]
        /\ \A l \in Reviewers \ {k} : review'[l] = review[l]
        /\ review'[k] # NoReview
        /\ review'[k].pc = "roles" /\ review'[k].of = a /\ review'[k].accept = review[k].accept
        /\ review'[k].given \cup review'[k].failed = review[k].given \cup review[k].failed \cup {r}
        /\ review'[k].given = IF gives /\ answered THEN review[k].given \cup {r} ELSE review[k].given
    <3>1. review[k] \in Reviews /\ review \in [Reviewers -> Reviews]
      BY DEF ApplicationTypeOK
    <3>2. CASE gives /\ answered
      BY <2>1, <2>2, <3>1, <3>2, ReviewFields DEF Reviews, NoReview
    <3>3. CASE ~(gives /\ answered)
      BY <2>1, <2>2, <3>1, <3>3, ReviewFields DEF Reviews, NoReview
    <3> QED
      BY <3>2, <3>3
  <2>5. /\ asked' \in [Applications -> [SquadRoles -> Nat]]
        /\ asked'[a][r] = 1
        /\ \A b \in Applications, s \in SquadRoles : b # a \/ s # r => asked'[b][s] = asked[b][s]
    <3>1. asked[a][r] = 0 /\ asked \in [Applications -> [SquadRoles -> Nat]]
      BY <2>1 DEF AskedOnce, AskedMost, NothingYet, NotAskedYet, GivenTrue, ApplicationTypeOK
    <3> QED
      BY <1>5, <2>1, <3>1 DEF GrantRole
  <2>6. UNCHANGED <<card, applicant, outcome, report, decided, processed>>
    BY <1>5 DEF GrantRole, cardVars, claimVars
  <2>7. ApplicationTypeOK'
    BY <2>3, <2>4, <2>5, <2>6 DEF ApplicationTypeOK, ClaimTypeOK
  <2>8. ReportTrue'
    BY <2>3, <2>6 DEF ReportTrue
  <2>9. Claimed'
    <3>1. ASSUME NEW l \in Reviewers, Working(l)'
          PROVE  Working(l) /\ review'[l].of = review[l].of /\ review'[l].accept = review[l].accept
      BY <2>1, <2>4, <3>1 DEF Working
    <3>2. RowFirst' /\ OneOutcome'
      BY <2>6 DEF Claimed, RowFirst, OneOutcome
    <3>3. WorkDecided'
      <4> SUFFICES ASSUME NEW l \in Reviewers, Working(l)'
                   PROVE  outcome'[review'[l].of] = {review'[l].accept}
        BY DEF WorkDecided
      <4>1. Working(l) /\ review'[l].of = review[l].of /\ review'[l].accept = review[l].accept
        BY <3>1
      <4> QED
        BY <2>6, <4>1 DEF Claimed, WorkDecided
    <3>4. OneWorker'
      <4> SUFFICES ASSUME NEW l \in Reviewers, NEW n \in Reviewers, Working(l)', Working(n)',
                          review'[l].of = review'[n].of
                   PROVE  l = n
        BY DEF OneWorker
      <4>1. Working(l) /\ Working(n) /\ review[l].of = review[n].of
        BY <3>1
      <4> QED
        BY <4>1 DEF Claimed, OneWorker
    <3> QED
      BY <3>2, <3>3, <3>4 DEF Claimed
  <2>10. AskedOnce'
    <3>1. TRUE \in outcome[a]
      BY <2>1 DEF Claimed, RowFirst, OneOutcome, WorkDecided, OneWorker
    <3>2. \A b \in Applications : \A s \in SquadRoles :
            asked'[b][s] <= (IF TRUE \in outcome'[b] THEN 1 ELSE 0)
      <4> SUFFICES ASSUME NEW b \in Applications, NEW s \in SquadRoles
                   PROVE  asked'[b][s] <= (IF TRUE \in outcome'[b] THEN 1 ELSE 0)
        OBVIOUS
      <4>1. CASE b = a /\ s = r
        BY <2>5, <2>6, <3>1, <4>1
      <4>2. CASE b # a \/ s # r
        <5>1. asked'[b][s] = asked[b][s] /\ outcome' = outcome
          BY <2>5, <2>6, <4>2
        <5> QED
          BY <5>1 DEF AskedOnce, AskedMost
      <4> QED
        BY <4>1, <4>2
    <3>3. \A l \in Reviewers : review'[l].pc = "claim" => review'[l].given = {}
      BY <2>4 DEF AskedOnce, AskedMost, NothingYet, NotAskedYet, GivenTrue
    <3>4. ASSUME NEW l \in Reviewers, review'[l].pc = "roles"
          PROVE  /\ review'[l].accept
                 /\ \A s \in SquadRoles \ (review'[l].given \cup review'[l].failed) :
                      asked'[review'[l].of][s] = 0
      <4>1. CASE l = k
        <5>1. \A s \in SquadRoles \ (review[k].given \cup review[k].failed) : asked[a][s] = 0
          BY <2>1 DEF AskedOnce, NotAskedYet
        <5>2. \A s \in SquadRoles : s # r => asked'[a][s] = asked[a][s]
          BY <2>1, <2>5
        <5> QED
          BY <2>1, <2>4, <4>1, <5>1, <5>2
      <4>2. CASE l # k
        <5>1. review'[l] = review[l] /\ Working(l) /\ review[l].of # a /\ review[l] # NoReview
          BY <2>1, <2>4, <3>4, <4>2 DEF Claimed, RowFirst, OneOutcome, WorkDecided, OneWorker, Working, NoReview
        <5> QED
          BY <2>5, <3>4, <5>1, ReviewFields DEF AskedOnce, AskedMost, NothingYet, NotAskedYet, GivenTrue
      <4> QED
        BY <4>1, <4>2
    <3>5. ASSUME NEW l \in Reviewers, Working(l)' PROVE review'[l].given \subseteq granted'[review'[l].of]
      <4>1. CASE l = k
        BY <2>1, <2>3, <2>4, <4>1 DEF AskedOnce, AskedMost, NothingYet, NotAskedYet, GivenTrue
      <4>2. CASE l # k
        <5>1. review'[l] = review[l] /\ Working(l) /\ review[l] # NoReview
          BY <2>4, <3>5, <4>2 DEF Working, NoReview
        <5> QED
          BY <2>3, <5>1, ReviewFields DEF AskedOnce, AskedMost, NothingYet, NotAskedYet, GivenTrue
      <4> QED
        BY <4>1, <4>2
    <3> QED
      BY <3>2, <3>3, <3>4, <3>5 DEF AskedOnce, AskedMost, NothingYet, NotAskedYet, GivenTrue
  <2> QED
    BY <2>7, <2>8, <2>9, <2>10
<1>6. ASSUME NEW k \in Reviewers, RolesDone(k) PROVE ApplicationInv'
  <2>1. review[k] # NoReview /\ review[k].pc = "roles"
    BY <1>6 DEF RolesDone, NoReview
  <2>2. /\ review' \in [Reviewers -> Reviews]
        /\ \A l \in Reviewers \ {k} : review'[l] = review[l]
        /\ review'[k].pc = "report" /\ review'[k].of = review[k].of /\ review'[k].accept = review[k].accept
        /\ review'[k].given = review[k].given /\ review'[k].failed = review[k].failed
    BY <1>6, <2>1, ReviewFields DEF RolesDone, ApplicationTypeOK, Reviews
  <2>3. ApplicationTypeOK' /\ ReportTrue'
    BY <1>6, <2>2 DEF RolesDone, ApplicationTypeOK, ClaimTypeOK, claimVars, cardVars, ReportTrue
  <2>4. Claimed'
    BY <1>6, <2>1, <2>2 DEF RolesDone, claimVars, Claimed, RowFirst, OneOutcome, WorkDecided, OneWorker, Working
  <2>5. AskedOnce'
    <3>1. UNCHANGED <<granted, asked, outcome>>
      BY <1>6 DEF RolesDone
    <3>2. \A l \in Reviewers : review'[l].pc \in {"claim", "roles"} => l # k /\ review'[l] = review[l]
      BY <2>2
    <3>3. AskedMost' /\ NothingYet' /\ NotAskedYet'
      <4>1. AskedMost' /\ NothingYet'
        BY <3>1, <3>2 DEF AskedOnce, AskedMost, NothingYet
      <4>2. NotAskedYet'
        BY <3>1, <3>2 DEF AskedOnce, NotAskedYet
      <4> QED
        BY <4>1, <4>2
    <3>4. GivenTrue'
      BY <2>1, <2>2, <3>1 DEF AskedOnce, GivenTrue, Working
    <3> QED
      BY <3>3, <3>4 DEF AskedOnce
  <2> QED
    BY <2>3, <2>4, <2>5
<1>7. ASSUME NEW k \in Reviewers, ReportOutcome(k) PROVE ApplicationInv'
  <2> DEFINE a == review[k].of
  <2>1. review[k] # NoReview /\ review[k].pc = "report" /\ Working(k) /\ a \in Applications
    <3>1. review[k].pc = "report"
      BY <1>7 DEF ReportOutcome
    <3>2. review[k] # NoReview
      BY <3>1 DEF NoReview
    <3> QED
      BY <3>1, <3>2, ReviewFields DEF Working
  <2>2. /\ review'[k] = NoReview /\ \A l \in Reviewers \ {k} : review'[l] = review[l]
        /\ review' \in [Reviewers -> Reviews]
    BY <1>7 DEF ReportOutcome, ApplicationTypeOK, Reviews
  <2>3. UNCHANGED <<card, applicant, granted, asked, outcome, decided, processed>>
    BY <1>7 DEF ReportOutcome, cardVars, claimVars
  <2>4. PICK says \in {"rejected", "accepted", "partly accepted"} :
          /\ report' = [report EXCEPT ![a] = @ \cup {says}]
          /\ says = "accepted" => review[k].accept /\ review[k].failed = {}
    BY <1>7 DEF ReportOutcome
  <2>5. says = "accepted" => granted[a] = SquadRoles
    <3> SUFFICES ASSUME says = "accepted" PROVE granted[a] = SquadRoles
      OBVIOUS
    <3>1. review[k].given \cup review[k].failed = SquadRoles /\ granted[a] \subseteq SquadRoles
      BY <2>1, <2>4 DEF ApplicationTypeOK
    <3>2. review[k].given \subseteq granted[a]
      BY <2>1 DEF AskedOnce, GivenTrue
    <3> QED
      BY <2>4, <3>1, <3>2
  <2>6. ApplicationTypeOK'
    BY <2>1, <2>2, <2>3, <2>4 DEF ApplicationTypeOK, ClaimTypeOK
  <2>7. ReportTrue'
    BY <2>1, <2>3, <2>4, <2>5 DEF ReportTrue, ApplicationTypeOK
  <2>8. \A l \in Reviewers : review'[l] = review[l] \/ review'[l].pc = "idle"
    <3>1. review'[k].pc = "idle"
      <4>1. review'[k] = NoReview
        BY <2>2
      <4>2. NoReview.pc = "idle"
        BY DEF NoReview
      <4> QED
        BY <4>1, <4>2
    <3> QED
      BY <2>2, <3>1
  <2>9. Claimed'
    BY <2>3, <2>8 DEF Claimed, RowFirst, OneOutcome, WorkDecided, OneWorker, Working
  <2>10. AskedOnce'
    <3>1. AskedMost' /\ NothingYet'
      BY <2>3, <2>8 DEF AskedOnce, AskedMost, NothingYet
    <3>2. NotAskedYet'
      BY <2>3, <2>8 DEF AskedOnce, NotAskedYet
    <3>3. GivenTrue'
      BY <2>3, <2>8 DEF AskedOnce, GivenTrue, Working
    <3> QED
      BY <3>1, <3>2, <3>3 DEF AskedOnce
  <2> QED
    BY <2>6, <2>7, <2>9, <2>10
<1>8. CASE ApplicationRestart
  <2>1. \A k \in Reviewers : review'[k] = NoReview
    BY <1>8 DEF ApplicationRestart
  <2>2. ApplicationTypeOK' /\ ReportTrue'
    BY <1>8 DEF ApplicationRestart, ForgetClaims, ApplicationTypeOK, ClaimTypeOK, Reviews, ReportTrue
  <2>3. Claimed' /\ AskedOnce'
    BY <1>8, <2>1 DEF ApplicationRestart, ForgetClaims, Claimed, RowFirst, OneOutcome, WorkDecided, OneWorker, AskedOnce, AskedMost, NothingYet, NotAskedYet, GivenTrue, Working, NoReview
  <2> QED
    BY <2>2, <2>3
<1>9. CASE UNCHANGED applicationVars
  <2>1. ApplicationTypeOK' /\ ReportTrue'
    BY <1>9 DEF applicationVars, ApplicationTypeOK, ClaimTypeOK, ReportTrue
  <2>2. Claimed'
    BY <1>9 DEF applicationVars, Claimed, RowFirst, OneOutcome, WorkDecided, OneWorker, Working
  <2>3. AskedOnce'
    BY <1>9 DEF applicationVars, AskedOnce, AskedMost, NothingYet, NotAskedYet, GivenTrue, Working
  <2> QED
    BY <2>1, <2>2, <2>3
<1> QED
  BY <1>1, <1>2, <1>3, <1>4, <1>5, <1>6, <1>7, <1>8, <1>9 DEF ApplicationNext, ReviewStep

\* An application is decided once, each role asked for once and only after it was
\* accepted, and what is said about it is so, for every number of cards, roles and
\* reviewers (forms.py:31-46, 218-310, cogs/forms.py:494-528).
THEOREM ApplicationsDecidedOnce == ApplicationSpec => []ApplicationDecided
<1>1. ApplicationInv => ApplicationDecided
  <2> SUFFICES ASSUME ApplicationInv PROVE ApplicationDecided
    OBVIOUS
  <2>1. ASSUME NEW a \in Applications PROVE Cardinality(outcome[a]) <= 1
    <3>1. CASE outcome[a] = {}
      BY <3>1, FS_EmptySet
    <3>2. CASE outcome[a] # {}
      <4>1. PICK x \in outcome[a] : TRUE
        BY <3>2
      <4>2. outcome[a] = {x}
        BY <4>1 DEF ApplicationInv, Claimed, RowFirst, OneOutcome, WorkDecided, OneWorker
      <4>3. Cardinality({x}) = 1
        BY FS_Singleton
      <4> QED
        BY <4>2, <4>3
    <3> QED
      BY <3>1, <3>2
  <2> QED
    BY <2>1 DEF ApplicationInv, ApplicationDecided, DecidedOnce, AskedOnce, AskedMost, NothingYet, NotAskedYet, GivenTrue
<1> QED
  BY <1>1, ApplicationInvInit, ApplicationInvStep, PTL DEF ApplicationSpec

-----------------------------------------------------------------------------
\* The owner's approvals.

\* The handler of a press that resolved its request.
Handles(p) == press[p].pc \in {"act", "audit", "journal", "tell"}

\* One press resolves a request, and before that nothing has been done about it.
OneHandler ==
  \A p, r \in Presses : Handles(p) /\ Handles(r) /\ press[p].of = press[r].of => p = r
UntouchedWhileOpen ==
  \A q \in Requests : resolved[q] # "approved" => attempts[q] = 0 /\ audited[q] = 0 /\ journalled[q] = 0
NothingSaidEarly ==
  /\ \A q \in Requests : resolved[q] = "open" => told[q] = {}
  /\ \A p \in Presses : Handles(p) => told[press[p].of] = {}
  /\ \A q \in Requests : "denied" \in told[q] => resolved[q] = "denied"

\* How far a handler is, and what that leaves on the request.
Traces(p) ==
  LET q == press[p].of
  IN  /\ press[p].pc = "act" => attempts[q] = 0
      /\ press[p].pc \in {"act", "audit"} => audited[q] = 0
      /\ press[p].pc \in {"act", "audit", "journal"} => journalled[q] = 0 /\ press[p].allow
      /\ press[p].pc \in {"audit", "journal", "tell"} /\ press[p].allow /\ press[p].result = "done" => effect[q]
      /\ press[p].pc \in {"journal", "tell"} /\ press[p].allow /\ ~press[p].warned => audited[q] = 1
      /\ press[p].pc = "tell" /\ press[p].allow /\ ~press[p].warned => journalled[q] = 1
DoneSoFar == \A p \in Presses : Traces(p)
AtMostOnce == \A q \in Requests : attempts[q] <= 1 /\ audited[q] <= 1 /\ journalled[q] <= 1

ActionInv ==
  OneHandler /\ UntouchedWhileOpen /\ NothingSaidEarly /\ DoneSoFar /\ AtMostOnce /\ OwnerToldTrue

\* A request on its way to the owner.
OnItsWay(q) == request[q].pc \in {"sending", "waiting"}

\* A request of u that took longer than the cooldown to fail.
FailedLate(u) ==
  \E f \in Requests : /\ RequesterOf[f] = u /\ request[f].pc = "failed"
                      /\ request[f].end - request[f].at >= RequestCooldown

\* Without one, the last entry stands for every request that is younger than the
\* cooldown, so two requests on their way are a cooldown apart.
NotAhead == \A q \in Requests : OnItsWay(q) => request[q].at <= clock
EntryStands ==
  \A q \in Requests :
    OnItsWay(q) /\ RequesterOf[q] # Owner /\ ~FailedLate(RequesterOf[q]) =>
      clock >= request[q].at + RequestCooldown \/ lastAsked[RequesterOf[q]] >= request[q].at
Apart ==
  \A q, s \in Requests :
    /\ q # s /\ RequesterOf[q] = RequesterOf[s] /\ RequesterOf[q] # Owner
    /\ OnItsWay(q) /\ OnItsWay(s) /\ ~FailedLate(RequesterOf[q]) /\ request[q].at <= request[s].at
    => request[s].at - request[q].at >= RequestCooldown
SpacingInv == NotAhead /\ EntryStands /\ Apart

ApprovalInv == ApprovalTypeOK /\ ActionInv /\ SpacingInv

\* What the fields of a request and of a press at work are.
LEMMA RequestFields ==
  ASSUME ApprovalTypeOK, NEW q \in Requests
  PROVE  request[q] \in [pc : {"new", "sending", "waiting", "refused", "failed", "gone"},
                         at : 0..MaxTime, end : 0..MaxTime + ViewLifetime]
BY DEF ApprovalTypeOK

\* A press that is under way has its fields, each of its type.
LEMMA PressFields ==
  ASSUME ApprovalTypeOK, NEW p \in Presses, press[p] # NoPress
  PROVE  press[p] \in [pc : {"claim", "act", "audit", "journal", "tell"}, of : Requests, allow : BOOLEAN,
                       result : Results, warned : BOOLEAN]
BY DEF ApprovalTypeOK, Pressing

\* A handler's request was resolved by its press.
LEMMA HandlerResolved ==
  ASSUME ApprovalTypeOK, NEW p \in Presses, Handles(p)
  PROVE  /\ press[p] # NoPress
         /\ resolved[press[p].of] = IF press[p].allow THEN "approved" ELSE "denied"
BY DEF ApprovalTypeOK, Handles, NoPress

\* What an action left behind, each function by itself: its counts are at most two.
LEMMA CountsAreSmall ==
  ASSUME ApprovalTypeOK
  PROVE  /\ attempts \in [Requests -> 0..2] /\ audited \in [Requests -> 0..2]
         /\ journalled \in [Requests -> 0..2] /\ effect \in [Requests -> BOOLEAN]
         /\ told \in [Requests -> SUBSET Replies] /\ press \in [Presses -> Pressing]
         /\ resolved \in [Requests -> {"open", "approved", "denied", "expired"}]
BY DEF ApprovalTypeOK

\* No action is proposed or pressed when the bot starts.
LEMMA ApprovalInvInit == ApprovalInit => ApprovalInv
<1> SUFFICES ASSUME ApprovalInit PROVE ApprovalInv
  OBVIOUS
<1>1. RequestCooldown \in Nat /\ ViewLifetime \in Nat /\ MaxTime \in Nat
  BY ApprovalAssumption
<1>2. ApprovalTypeOK
  BY <1>1 DEF ApprovalInit, ApprovalTypeOK, Never, Pressing, NoPress, Replies
<1>3. ActionInv
  BY DEF ApprovalInit, ActionInv, OneHandler, UntouchedWhileOpen, NothingSaidEarly, DoneSoFar, Traces,
         AtMostOnce, OwnerToldTrue, Handles, NoPress
<1>4. SpacingInv
  BY DEF ApprovalInit, SpacingInv, NotAhead, EntryStands, Apart, OnItsWay
<1> QED
  BY <1>2, <1>3, <1>4 DEF ApprovalInv

\* The claim: the press that finds the request open becomes its only handler.
LEMMA ClaimViewKeeps ==
  ASSUME ApprovalTypeOK, ActionInv, NEW p \in Presses, ClaimView(p)
  PROVE  ApprovalTypeOK' /\ ActionInv'
<1> DEFINE q == press[p].of
<1>1. press[p].pc = "claim" /\ press[p] # NoPress
  BY DEF ClaimView, NoPress
<1>2. q \in Requests /\ press[p].allow \in BOOLEAN
  BY <1>1, PressFields
<1>3. UNCHANGED <<clock, request, lastAsked, attempts, effect, audited, journalled, told>>
  BY DEF ClaimView, actionVars
<1>4. CASE resolved[q] # "open"
  <2>1. press' = [press EXCEPT ![p] = NoPress] /\ resolved' = resolved
    BY <1>4 DEF ClaimView
  <2>2. /\ press' \in [Presses -> Pressing]
        /\ \A r \in Presses : press'[r].pc = "idle" \/ (r # p /\ press'[r] = press[r])
    <3>1. NoPress \in Pressing /\ NoPress.pc = "idle"
      BY DEF Pressing, NoPress
    <3>2. press \in [Presses -> Pressing]
      BY CountsAreSmall
    <3>3. press'[p] = NoPress /\ \A r \in Presses : r # p => press'[r] = press[r]
      BY <2>1, <3>2
    <3> QED
      <4>1. press' \in [Presses -> Pressing]
        BY <2>1, <3>1, <3>2
      <4>2. press'[p].pc = "idle"
        BY <3>1, <3>3
      <4>3. ASSUME NEW r \in Presses PROVE press'[r].pc = "idle" \/ (r # p /\ press'[r] = press[r])
        BY <3>3, <4>2
      <4> QED
        BY <4>1, <4>3
  <2>3. ApprovalTypeOK'
    BY <1>3, <2>1, <2>2 DEF ApprovalTypeOK
  <2>4. OneHandler' /\ DoneSoFar'
    BY <1>3, <2>2 DEF ActionInv, OneHandler, DoneSoFar, Traces, Handles
  <2>5. UntouchedWhileOpen' /\ AtMostOnce' /\ OwnerToldTrue'
    BY <1>3, <2>1 DEF ActionInv, UntouchedWhileOpen, AtMostOnce, OwnerToldTrue
  <2>6. NothingSaidEarly'
    BY <1>3, <2>1, <2>2 DEF ActionInv, NothingSaidEarly, Handles
  <2> QED
    BY <2>3, <2>4, <2>5, <2>6 DEF ActionInv
<1>5. CASE resolved[q] = "open"
  <2> DEFINE says == IF press[p].allow THEN "approved" ELSE "denied"
             next == IF press[p].allow THEN "act" ELSE "tell"
  <2>1. /\ resolved' = [resolved EXCEPT ![q] = says]
        /\ press' = [press EXCEPT ![p].pc = next]
    BY <1>5 DEF ClaimView
  <2>2. /\ press' \in [Presses -> Pressing]
        /\ \A r \in Presses \ {p} : press'[r] = press[r]
        /\ press'[p].pc = next /\ press'[p].of = q /\ press'[p].allow = press[p].allow
    BY <1>1, <2>1, CountsAreSmall, PressFields DEF Pressing
  <2>3. /\ resolved' \in [Requests -> {"open", "approved", "denied", "expired"}]
        /\ resolved'[q] = says
        /\ \A s \in Requests \ {q} : resolved'[s] = resolved[s]
    BY <1>2, <2>1, CountsAreSmall
  <2>4. \A r \in Presses \ {p} : Handles(r) => press[r].of # q /\ press[r].of \in Requests
    BY <1>5, HandlerResolved, PressFields
  <2>5. ApprovalTypeOK'
    <3>1. ASSUME NEW r \in Presses, press'[r].pc \notin {"idle", "claim"}
          PROVE  resolved'[press'[r].of] = IF press'[r].allow THEN "approved" ELSE "denied"
      <4>1. CASE r = p
        BY <2>2, <2>3, <4>1
      <4>2. CASE r # p
        <5>1. press'[r] = press[r] /\ press[r] # NoPress
          BY <2>2, <3>1, <4>2 DEF NoPress
        <5>2. Handles(r)
          BY <3>1, <5>1, PressFields DEF Handles
        <5> QED
          BY <2>3, <2>4, <4>2, <5>1, <5>2, HandlerResolved
      <4> QED
        BY <4>1, <4>2
    <3> QED
      BY <1>3, <2>2, <2>3, <3>1 DEF ApprovalTypeOK
  <2>6. attempts[q] = 0 /\ audited[q] = 0 /\ journalled[q] = 0 /\ told[q] = {}
    BY <1>2, <1>5 DEF ActionInv, UntouchedWhileOpen, NothingSaidEarly
  <2>7. OneHandler'
    BY <2>2, <2>4 DEF ActionInv, OneHandler, Handles
  <2>8. UntouchedWhileOpen' /\ AtMostOnce' /\ OwnerToldTrue'
    BY <1>3, <2>3, <2>6 DEF ActionInv, UntouchedWhileOpen, AtMostOnce, OwnerToldTrue
  <2>9. NothingSaidEarly'
    <3>1. \A s \in Requests : resolved'[s] = "open" => told'[s] = {}
      BY <1>3, <2>3 DEF ActionInv, NothingSaidEarly
    <3>2. \A s \in Requests : "denied" \in told'[s] => resolved'[s] = "denied"
      BY <1>3, <2>3, <2>6 DEF ActionInv, NothingSaidEarly
    <3>3. ASSUME NEW r \in Presses, Handles(r)' PROVE told'[press'[r].of] = {}
      <4>1. CASE r = p
        BY <1>3, <2>2, <2>6, <4>1
      <4>2. CASE r # p
        BY <1>3, <2>2, <3>3, <4>2 DEF ActionInv, NothingSaidEarly, Handles
      <4> QED
        BY <4>1, <4>2
    <3> QED
      BY <3>1, <3>2, <3>3 DEF NothingSaidEarly
  <2>10. DoneSoFar'
    <3> SUFFICES ASSUME NEW r \in Presses
                 PROVE  Traces(r)'
      BY DEF DoneSoFar
    <3>1. CASE r = p
      BY <1>3, <2>2, <2>6, <3>1 DEF Traces
    <3>2. CASE r # p
      BY <1>3, <2>2, <3>2 DEF ActionInv, DoneSoFar, Traces
    <3> QED
      BY <3>1, <3>2
  <2> QED
    BY <2>5, <2>7, <2>8, <2>9, <2>10 DEF ActionInv
<1> QED
  BY <1>4, <1>5

\* A step of the handler of a request concerns that request only.
LEMMA HandlerStep ==
  ASSUME ApprovalTypeOK, ActionInv, NEW p \in Presses, Handles(p),
         UNCHANGED <<clock, request, lastAsked, resolved>>,
         NEW q, q = press[p].of,
         press' \in [Presses -> Pressing], \A r \in Presses \ {p} : press'[r] = press[r],
         press'[p] = NoPress \/ (Handles(p)' /\ press'[p].of = q /\ press'[p].allow = press[p].allow),
         attempts' \in [Requests -> 0..2], effect' \in [Requests -> BOOLEAN],
         audited' \in [Requests -> 0..2], journalled' \in [Requests -> 0..2],
         told' \in [Requests -> SUBSET Replies],
         \A s \in Requests \ {q} : /\ attempts'[s] = attempts[s] /\ effect'[s] = effect[s]
                                   /\ audited'[s] = audited[s] /\ journalled'[s] = journalled[s]
                                   /\ told'[s] = told[s],
         attempts'[q] <= 1 /\ audited'[q] <= 1 /\ journalled'[q] <= 1,
         ~press[p].allow => UNCHANGED <<attempts, audited, journalled>>,
         press'[p] # NoPress => told'[q] = {} /\ Traces(p)',
         "denied" \in told'[q] => ~press[p].allow,
         "done" \in told'[q] => effect'[q] /\ audited'[q] = 1 /\ journalled'[q] = 1
  PROVE  ApprovalTypeOK' /\ ActionInv'
<1>1. /\ press[p] # NoPress /\ q \in Requests /\ press[p].allow \in BOOLEAN
      /\ resolved[q] = IF press[p].allow THEN "approved" ELSE "denied"
  BY HandlerResolved, PressFields
<1>2. ApprovalTypeOK'
  <2>1. ASSUME NEW r \in Presses, press'[r].pc \notin {"idle", "claim"}
        PROVE  resolved'[press'[r].of] = IF press'[r].allow THEN "approved" ELSE "denied"
    <3>1. CASE r = p
      <4>1. press'[p] # NoPress
        BY <2>1, <3>1 DEF NoPress
      <4> QED
        BY <1>1, <3>1, <4>1
    <3>2. CASE r # p
      BY <2>1, <3>2 DEF ApprovalTypeOK
    <3> QED
      BY <3>1, <3>2
  <2> QED
    BY <2>1 DEF ApprovalTypeOK
<1>3. ASSUME NEW r \in Presses, r # p, Handles(r)
      PROVE  press[r].of # q /\ press[r].of \in Requests
  BY <1>3, HandlerResolved, PressFields DEF ActionInv, OneHandler
<1>4. \A r \in Presses : Handles(r)' => Handles(r) /\ press'[r].of = press[r].of
  BY DEF Handles, NoPress
<1>5. OneHandler'
  <2> SUFFICES ASSUME NEW r \in Presses, NEW t \in Presses, Handles(r)', Handles(t)',
                      press'[r].of = press'[t].of
               PROVE  r = t
    BY DEF OneHandler
  <2>1. Handles(r) /\ Handles(t) /\ press[r].of = press[t].of
    BY <1>4
  <2> QED
    BY <2>1 DEF ActionInv, OneHandler
<1>6. UntouchedWhileOpen'
  <2> SUFFICES ASSUME NEW s \in Requests, resolved[s] # "approved"
               PROVE  attempts'[s] = 0 /\ audited'[s] = 0 /\ journalled'[s] = 0
    BY DEF UntouchedWhileOpen
  <2>1. attempts[s] = 0 /\ audited[s] = 0 /\ journalled[s] = 0
    BY DEF ActionInv, UntouchedWhileOpen
  <2>2. CASE s = q
    <3>1. ~press[p].allow
      BY <1>1, <2>2
    <3> QED
      BY <2>1, <3>1
  <2>3. CASE s # q
    BY <2>1, <2>3
  <2> QED
    BY <2>2, <2>3
<1>7. NothingSaidEarly'
  <2>1. ASSUME NEW s \in Requests, resolved[s] = "open" PROVE told'[s] = {}
    <3>1. s # q
      BY <1>1, <2>1
    <3> QED
      BY <2>1, <3>1 DEF ActionInv, NothingSaidEarly
  <2>2. ASSUME NEW r \in Presses, Handles(r)' PROVE told'[press'[r].of] = {}
    <3>1. CASE r = p
      <4>1. press'[p] # NoPress
        BY <2>2, <3>1 DEF Handles, NoPress
      <4> QED
        BY <3>1, <4>1
    <3>2. CASE r # p
      <4>1. Handles(r) /\ press'[r] = press[r]
        BY <1>4, <2>2, <3>2
      <4>2. press[r].of # q /\ press[r].of \in Requests
        BY <1>3, <3>2, <4>1
      <4> QED
        BY <4>1, <4>2 DEF ActionInv, NothingSaidEarly
    <3> QED
      BY <3>1, <3>2
  <2>3. ASSUME NEW s \in Requests, "denied" \in told'[s] PROVE resolved[s] = "denied"
    <3>1. CASE s = q
      BY <1>1, <2>3, <3>1
    <3>2. CASE s # q
      BY <2>3, <3>2 DEF ActionInv, NothingSaidEarly
    <3> QED
      BY <3>1, <3>2
  <2> QED
    BY <2>1, <2>2, <2>3 DEF NothingSaidEarly
<1>8. DoneSoFar'
  <2> SUFFICES ASSUME NEW r \in Presses PROVE Traces(r)'
    BY DEF DoneSoFar
  <2>1. CASE r = p /\ press'[p] # NoPress
    BY <2>1
  <2>2. CASE r = p /\ press'[p] = NoPress
    <3>1. press'[p].pc = "idle"
      <4>1. NoPress.pc = "idle"
        BY DEF NoPress
      <4> QED
        BY <2>2, <4>1
    <3> QED
      BY <2>2, <3>1 DEF Traces
  <2>3. CASE r # p /\ Handles(r)
    <3>1. press'[r] = press[r] /\ press[r].of # q /\ press[r].of \in Requests
      BY <1>3, <2>3
    <3>2. Traces(r)
      BY DEF ActionInv, DoneSoFar
    <3> QED
      BY <3>1, <3>2 DEF Traces
  <2>4. CASE r # p /\ ~Handles(r)
    BY <2>4 DEF Handles, Traces
  <2> QED
    BY <2>1, <2>2, <2>3, <2>4
<1>9. AtMostOnce' /\ OwnerToldTrue'
  <2> SUFFICES ASSUME NEW s \in Requests
               PROVE  /\ attempts'[s] <= 1 /\ audited'[s] <= 1 /\ journalled'[s] <= 1
                      /\ "done" \in told'[s] => effect'[s] /\ audited'[s] = 1 /\ journalled'[s] = 1
    BY DEF AtMostOnce, OwnerToldTrue
  <2>1. CASE s = q
    BY <2>1
  <2>2. CASE s # q
    BY <2>2 DEF ActionInv, AtMostOnce, OwnerToldTrue
  <2> QED
    BY <2>1, <2>2
<1> QED
  BY <1>2, <1>5, <1>6, <1>7, <1>8, <1>9 DEF ActionInv

\* The steps of a handler: each does what it does once and for its own request.
LEMMA HandlerKeeps ==
  ASSUME ApprovalTypeOK, ActionInv, NEW p \in Presses, Act(p) \/ Audit(p) \/ Journal(p) \/ TellOwner(p)
  PROVE  ApprovalTypeOK' /\ ActionInv'
<1> DEFINE q == press[p].of
<1>0. q = press[p].of
  OBVIOUS
<1>1. Handles(p) /\ press[p] # NoPress
  <2>1. press[p].pc \in {"act", "audit", "journal", "tell"}
    BY DEF Act, Audit, Journal, TellOwner
  <2> QED
    BY <2>1, HandlerResolved DEF Handles
<1>2. /\ q \in Requests /\ press[p].allow \in BOOLEAN /\ press[p].warned \in BOOLEAN
      /\ press[p].result \in Results
  BY <1>1, PressFields
<1>3. /\ attempts \in [Requests -> 0..2] /\ audited \in [Requests -> 0..2]
      /\ journalled \in [Requests -> 0..2] /\ effect \in [Requests -> BOOLEAN]
      /\ told \in [Requests -> SUBSET Replies] /\ press \in [Presses -> Pressing]
  BY CountsAreSmall
<1>4. /\ attempts[q] <= 1 /\ audited[q] <= 1 /\ journalled[q] <= 1 /\ told[q] = {} /\ Traces(p)
  BY <1>1, <1>2 DEF ActionInv, AtMostOnce, NothingSaidEarly, DoneSoFar
<1>5. ASSUME NEW e, e \in Pressing, press' = [press EXCEPT ![p] = e]
      PROVE  /\ press' \in [Presses -> Pressing] /\ press'[p] = e
             /\ \A r \in Presses \ {p} : press'[r] = press[r]
  BY <1>3, <1>5
<1>6. CASE Act(p)
  <2>1. PICK takes \in BOOLEAN, result \in Results :
          /\ result = "done" => takes
          /\ attempts' = [attempts EXCEPT ![q] = @ + 1]
          /\ effect' = [effect EXCEPT ![q] = @ \/ takes]
          /\ press' = [press EXCEPT ![p].pc = "audit", ![p].result = result]
    BY <1>6 DEF Act
  <2>2. /\ press[p].pc = "act"
        /\ UNCHANGED <<clock, request, lastAsked, resolved, audited, journalled, told>>
    BY <1>6 DEF Act
  <2>3. attempts[q] = 0 /\ audited[q] = 0 /\ journalled[q] = 0 /\ press[p].allow
    BY <1>4, <2>2 DEF Traces
  <2>4. /\ press' \in [Presses -> Pressing] /\ \A r \in Presses \ {p} : press'[r] = press[r]
        /\ press'[p].pc = "audit" /\ press'[p].of = q /\ press'[p].allow = press[p].allow
        /\ press'[p].result = result
    <3>1. [press[p] EXCEPT !.pc = "audit", !.result = result] \in Pressing
      BY <1>1, PressFields DEF Pressing
    <3>2. press' = [press EXCEPT ![p] = [press[p] EXCEPT !.pc = "audit", !.result = result]]
      BY <2>1
    <3> QED
      BY <1>1, <1>5, <3>1, <3>2, PressFields
  <2>5. /\ attempts' \in [Requests -> 0..2] /\ attempts'[q] = 1
        /\ \A s \in Requests \ {q} : attempts'[s] = attempts[s]
    BY <1>2, <1>3, <2>1, <2>3
  <2>6. /\ effect' \in [Requests -> BOOLEAN] /\ (result = "done" => effect'[q])
        /\ \A s \in Requests \ {q} : effect'[s] = effect[s]
    BY <1>2, <1>3, <2>1
  <2>7. Traces(p)' /\ Handles(p)'
    BY <2>2, <2>3, <2>4, <2>6 DEF Traces, Handles
  <2>8. /\ UNCHANGED <<clock, request, lastAsked, resolved>>
        /\ audited' \in [Requests -> 0..2] /\ journalled' \in [Requests -> 0..2]
        /\ told' \in [Requests -> SUBSET Replies]
    BY <1>3, <2>2
  <2>9. /\ \A s \in Requests \ {q} : /\ attempts'[s] = attempts[s] /\ effect'[s] = effect[s]
                                     /\ audited'[s] = audited[s] /\ journalled'[s] = journalled[s]
                                     /\ told'[s] = told[s]
        /\ attempts'[q] <= 1 /\ audited'[q] <= 1 /\ journalled'[q] <= 1
    BY <1>4, <2>2, <2>5, <2>6
  <2>10. /\ ~press[p].allow => UNCHANGED <<attempts, audited, journalled>>
         /\ press'[p] # NoPress => told'[q] = {} /\ Traces(p)'
         /\ "denied" \in told'[q] => ~press[p].allow
         /\ "done" \in told'[q] => effect'[q] /\ audited'[q] = 1 /\ journalled'[q] = 1
    BY <1>4, <2>2, <2>3, <2>7
  <2>11. press'[p] = NoPress \/ (Handles(p)' /\ press'[p].of = q /\ press'[p].allow = press[p].allow)
    BY <2>4, <2>7
  <2> HIDE DEF q
  <2> QED
    BY <1>0, <1>1, <2>4, <2>5, <2>6, <2>8, <2>9, <2>10, <2>11, HandlerStep
<1>7. CASE Audit(p)
  <2>1. PICK stored \in BOOLEAN :
          /\ audited' = [audited EXCEPT ![q] = IF stored THEN @ + 1 ELSE @]
          /\ press' = [press EXCEPT ![p].pc = "journal", ![p].warned = ~stored]
    BY <1>7 DEF Audit
  <2>2. /\ press[p].pc = "audit"
        /\ UNCHANGED <<clock, request, lastAsked, resolved, attempts, effect, journalled, told>>
    BY <1>7 DEF Audit
  <2>3. /\ audited[q] = 0 /\ journalled[q] = 0 /\ press[p].allow
        /\ press[p].result = "done" => effect[q]
    BY <1>4, <2>2 DEF Traces
  <2>4. /\ press' \in [Presses -> Pressing] /\ \A r \in Presses \ {p} : press'[r] = press[r]
        /\ press'[p].pc = "journal" /\ press'[p].of = q /\ press'[p].allow = press[p].allow
        /\ press'[p].result = press[p].result /\ press'[p].warned = (~stored)
    <3>1. [press[p] EXCEPT !.pc = "journal", !.warned = (~stored)] \in Pressing
      BY <1>1, PressFields DEF Pressing
    <3>2. press' = [press EXCEPT ![p] = [press[p] EXCEPT !.pc = "journal", !.warned = (~stored)]]
      BY <2>1
    <3> QED
      BY <1>1, <1>5, <3>1, <3>2, PressFields
  <2>5. /\ audited' \in [Requests -> 0..2] /\ audited'[q] <= 1
        /\ stored => audited'[q] = 1
        /\ \A s \in Requests \ {q} : audited'[s] = audited[s]
    BY <1>2, <1>3, <2>1, <2>3
  <2>6. Traces(p)' /\ Handles(p)'
    BY <2>2, <2>3, <2>4, <2>5 DEF Traces, Handles
  <2>7. /\ UNCHANGED <<clock, request, lastAsked, resolved>>
        /\ attempts' \in [Requests -> 0..2] /\ effect' \in [Requests -> BOOLEAN]
        /\ audited' \in [Requests -> 0..2] /\ journalled' \in [Requests -> 0..2]
        /\ told' \in [Requests -> SUBSET Replies]
    BY <1>3, <2>2, <2>5
  <2>8. /\ \A s \in Requests \ {q} : /\ attempts'[s] = attempts[s] /\ effect'[s] = effect[s]
                                     /\ audited'[s] = audited[s] /\ journalled'[s] = journalled[s]
                                     /\ told'[s] = told[s]
        /\ attempts'[q] <= 1 /\ audited'[q] <= 1 /\ journalled'[q] <= 1
    BY <1>4, <2>2, <2>5
  <2>9. /\ ~press[p].allow => UNCHANGED <<attempts, audited, journalled>>
        /\ press'[p] # NoPress => told'[q] = {} /\ Traces(p)'
        /\ "denied" \in told'[q] => ~press[p].allow
        /\ "done" \in told'[q] => effect'[q] /\ audited'[q] = 1 /\ journalled'[q] = 1
    BY <1>4, <2>2, <2>3, <2>6
  <2>10. press'[p] = NoPress \/ (Handles(p)' /\ press'[p].of = q /\ press'[p].allow = press[p].allow)
    BY <2>4, <2>6
  <2> HIDE DEF q
  <2> QED
    BY <1>0, <1>1, <2>4, <2>7, <2>8, <2>9, <2>10, HandlerStep
<1>8. CASE Journal(p)
  <2>1. PICK stored \in BOOLEAN :
          /\ journalled' = [journalled EXCEPT ![q] = IF stored THEN @ + 1 ELSE @]
          /\ press' = [press EXCEPT ![p].pc = "tell", ![p].warned = @ \/ ~stored]
    BY <1>8 DEF Journal
  <2>2. /\ press[p].pc = "journal"
        /\ UNCHANGED <<clock, request, lastAsked, resolved, attempts, effect, audited, told>>
    BY <1>8 DEF Journal
  <2>3. /\ journalled[q] = 0 /\ press[p].allow /\ (~press[p].warned => audited[q] = 1)
        /\ press[p].result = "done" => effect[q]
    BY <1>4, <2>2 DEF Traces
  <2>4. /\ press' \in [Presses -> Pressing] /\ \A r \in Presses \ {p} : press'[r] = press[r]
        /\ press'[p].pc = "tell" /\ press'[p].of = q /\ press'[p].allow = press[p].allow
        /\ press'[p].result = press[p].result /\ press'[p].warned = (press[p].warned \/ ~stored)
    <3>1. [press[p] EXCEPT !.pc = "tell", !.warned = (press[p].warned \/ ~stored)] \in Pressing
      BY <1>1, PressFields DEF Pressing
    <3>2. press' = [press EXCEPT ![p] = [press[p] EXCEPT !.pc = "tell", !.warned = (press[p].warned \/ ~stored)]]
      BY <2>1
    <3> QED
      BY <1>1, <1>5, <3>1, <3>2, PressFields
  <2>5. /\ journalled' \in [Requests -> 0..2] /\ journalled'[q] <= 1
        /\ stored => journalled'[q] = 1
        /\ \A s \in Requests \ {q} : journalled'[s] = journalled[s]
    BY <1>2, <1>3, <2>1, <2>3
  <2>6. Traces(p)' /\ Handles(p)'
    BY <2>2, <2>3, <2>4, <2>5 DEF Traces, Handles
  <2>7. /\ UNCHANGED <<clock, request, lastAsked, resolved>>
        /\ attempts' \in [Requests -> 0..2] /\ effect' \in [Requests -> BOOLEAN]
        /\ audited' \in [Requests -> 0..2] /\ journalled' \in [Requests -> 0..2]
        /\ told' \in [Requests -> SUBSET Replies]
    BY <1>3, <2>2, <2>5
  <2>8. /\ \A s \in Requests \ {q} : /\ attempts'[s] = attempts[s] /\ effect'[s] = effect[s]
                                     /\ audited'[s] = audited[s] /\ journalled'[s] = journalled[s]
                                     /\ told'[s] = told[s]
        /\ attempts'[q] <= 1 /\ audited'[q] <= 1 /\ journalled'[q] <= 1
    BY <1>4, <2>2, <2>5
  <2>9. /\ ~press[p].allow => UNCHANGED <<attempts, audited, journalled>>
        /\ press'[p] # NoPress => told'[q] = {} /\ Traces(p)'
        /\ "denied" \in told'[q] => ~press[p].allow
        /\ "done" \in told'[q] => effect'[q] /\ audited'[q] = 1 /\ journalled'[q] = 1
    BY <1>4, <2>2, <2>3, <2>6
  <2>10. press'[p] = NoPress \/ (Handles(p)' /\ press'[p].of = q /\ press'[p].allow = press[p].allow)
    BY <2>4, <2>6
  <2> HIDE DEF q
  <2> QED
    BY <1>0, <1>1, <2>4, <2>7, <2>8, <2>9, <2>10, HandlerStep
<1>9. CASE TellOwner(p)
  <2>1. PICK says \in Replies :
          /\ told' = [told EXCEPT ![q] = @ \cup {says}]
          /\ says = "denied" => ~press[p].allow
          /\ says = "done" => press[p].allow /\ press[p].result = "done" /\ ~press[p].warned
    BY <1>9 DEF TellOwner, Replies
  <2>2. /\ press[p].pc = "tell"
        /\ UNCHANGED <<clock, request, lastAsked, resolved, attempts, effect, audited, journalled>>
    BY <1>9 DEF TellOwner
  <2>3. says = "done" => effect[q] /\ audited[q] = 1 /\ journalled[q] = 1
    BY <1>4, <2>1, <2>2 DEF Traces
  <2>4. /\ press' \in [Presses -> Pressing] /\ \A r \in Presses \ {p} : press'[r] = press[r]
        /\ press'[p] = NoPress
    <3>1. NoPress \in Pressing /\ press' = [press EXCEPT ![p] = NoPress]
      BY <1>9 DEF TellOwner, Pressing
    <3> QED
      BY <1>5, <3>1
  <2>5. /\ told' \in [Requests -> SUBSET Replies] /\ told'[q] = {says}
        /\ \A s \in Requests \ {q} : told'[s] = told[s]
    BY <1>2, <1>3, <1>4, <2>1
  <2>6. press'[p] = NoPress /\ ("denied" \in told'[q] => ~press[p].allow)
        /\ ("done" \in told'[q] => effect'[q] /\ audited'[q] = 1 /\ journalled'[q] = 1)
    BY <2>1, <2>2, <2>3, <2>4, <2>5
  <2>7. /\ UNCHANGED <<clock, request, lastAsked, resolved>>
        /\ attempts' \in [Requests -> 0..2] /\ effect' \in [Requests -> BOOLEAN]
        /\ audited' \in [Requests -> 0..2] /\ journalled' \in [Requests -> 0..2]
        /\ told' \in [Requests -> SUBSET Replies]
    BY <1>3, <2>2, <2>5
  <2>8. /\ \A s \in Requests \ {q} : /\ attempts'[s] = attempts[s] /\ effect'[s] = effect[s]
                                     /\ audited'[s] = audited[s] /\ journalled'[s] = journalled[s]
                                     /\ told'[s] = told[s]
        /\ attempts'[q] <= 1 /\ audited'[q] <= 1 /\ journalled'[q] <= 1
    BY <1>4, <2>2, <2>5
  <2>9. /\ ~press[p].allow => UNCHANGED <<attempts, audited, journalled>>
        /\ press'[p] # NoPress => told'[q] = {} /\ Traces(p)'
        /\ "denied" \in told'[q] => ~press[p].allow
        /\ "done" \in told'[q] => effect'[q] /\ audited'[q] = 1 /\ journalled'[q] = 1
    BY <1>4, <2>2, <2>3, <2>6
  <2>10. press'[p] = NoPress \/ (Handles(p)' /\ press'[p].of = q /\ press'[p].allow = press[p].allow)
    BY <2>4, <2>6
  <2> HIDE DEF q
  <2> QED
    BY <1>0, <1>1, <2>4, <2>7, <2>8, <2>9, <2>10, HandlerStep
<1> QED
  BY <1>6, <1>7, <1>8, <1>9

\* Everything but the steps of a press leaves what was done about a request alone.
LEMMA ActionInvKeeps ==
  ASSUME ApprovalTypeOK, ActionInv,
         UNCHANGED <<resolved, actionVars>>,
         \A p \in Presses : press'[p] = press[p] \/ press'[p].pc \in {"idle", "claim"}
  PROVE  ActionInv'
<1>1. \A p \in Presses : Handles(p)' => Handles(p) /\ press'[p] = press[p]
  BY DEF Handles
<1>2. OneHandler'
  <2> SUFFICES ASSUME NEW p \in Presses, NEW r \in Presses, Handles(p)', Handles(r)',
                      press'[p].of = press'[r].of
               PROVE  p = r
    BY DEF OneHandler
  <2>1. Handles(p) /\ Handles(r) /\ press[p].of = press[r].of
    BY <1>1
  <2> QED
    BY <2>1 DEF ActionInv, OneHandler
<1>3. UntouchedWhileOpen' /\ AtMostOnce' /\ OwnerToldTrue'
  BY DEF ActionInv, UntouchedWhileOpen, AtMostOnce, OwnerToldTrue, actionVars
<1>4. NothingSaidEarly'
  BY <1>1 DEF ActionInv, NothingSaidEarly, actionVars
<1>5. DoneSoFar'
  <2> SUFFICES ASSUME NEW p \in Presses PROVE Traces(p)'
    BY DEF DoneSoFar
  <2>1. CASE press'[p] = press[p]
    BY <2>1 DEF ActionInv, DoneSoFar, Traces, actionVars
  <2>2. CASE press'[p].pc \in {"idle", "claim"}
    BY <2>2 DEF Traces
  <2> QED
    BY <2>1, <2>2
<1> QED
  BY <1>2, <1>3, <1>4, <1>5 DEF ActionInv

\* Whatever leaves the requests' way, their times and the last entries alone keeps
\* the members' requests apart.
LEMMA SpacingKeeps ==
  ASSUME ApprovalTypeOK, SpacingInv, clock' \in Nat, clock' >= clock, lastAsked' = lastAsked,
         \A q \in Requests : /\ OnItsWay(q)' => OnItsWay(q) /\ request'[q].at = request[q].at
                             /\ request[q].pc = "failed" => request'[q] = request[q]
  PROVE  SpacingInv'
<1>1. clock \in Nat /\ RequestCooldown \in Nat
  BY ApprovalAssumption DEF ApprovalTypeOK
<1>2. \A q \in Requests : request[q].at \in Nat /\ RequesterOf[q] \in Requesters
  BY RequestFields, ApprovalAssumption
<1>3. \A u \in Requesters : lastAsked[u] \in Int
  BY <1>1 DEF ApprovalTypeOK, Never
<1>4. \A u : FailedLate(u) => FailedLate(u)'
  BY DEF FailedLate
<1>5. NotAhead'
  <2> SUFFICES ASSUME NEW q \in Requests, OnItsWay(q)' PROVE request'[q].at <= clock'
    BY DEF NotAhead
  <2> QED
    BY <1>1, <1>2 DEF SpacingInv, NotAhead
<1>6. EntryStands'
  <2> SUFFICES ASSUME NEW q \in Requests, OnItsWay(q)', RequesterOf[q] # Owner, ~FailedLate(RequesterOf[q])'
               PROVE  clock' >= request'[q].at + RequestCooldown
                        \/ lastAsked'[RequesterOf[q]] >= request'[q].at
    BY DEF EntryStands
  <2>1. OnItsWay(q) /\ request'[q].at = request[q].at /\ ~FailedLate(RequesterOf[q])
    BY <1>4
  <2>2. clock >= request[q].at + RequestCooldown \/ lastAsked[RequesterOf[q]] >= request[q].at
    BY <2>1 DEF SpacingInv, EntryStands
  <2> QED
    BY <1>1, <1>2, <2>1, <2>2
<1>7. Apart'
  <2> SUFFICES ASSUME NEW q \in Requests, NEW s \in Requests, q # s, RequesterOf[q] = RequesterOf[s],
                      RequesterOf[q] # Owner, OnItsWay(q)', OnItsWay(s)', ~FailedLate(RequesterOf[q])',
                      request'[q].at <= request'[s].at
               PROVE  request'[s].at - request'[q].at >= RequestCooldown
    BY DEF Apart
  <2>1. /\ OnItsWay(q) /\ request'[q].at = request[q].at /\ ~FailedLate(RequesterOf[q])
        /\ OnItsWay(s) /\ request'[s].at = request[s].at
    BY <1>4
  <2> QED
    BY <2>1 DEF SpacingInv, Apart
<1> QED
  BY <1>5, <1>6, <1>7 DEF SpacingInv

\* A request that is let through is a cooldown behind every other one on its way
\* (pos_ai.py:4004-4028).
LEMMA AskKeeps ==
  ASSUME ApprovalInv, NEW q \in Requests, Ask(q)
  PROVE  ApprovalTypeOK' /\ SpacingInv'
<1> DEFINE u == RequesterOf[q]
<1>0. ApprovalTypeOK /\ SpacingInv
  BY DEF ApprovalInv
<1>1. clock \in Nat /\ RequestCooldown \in Nat /\ clock \in 0..MaxTime /\ u \in Requesters
  BY <1>0, ApprovalAssumption DEF ApprovalTypeOK
<1>2. \A s \in Requests : request[s].at \in Nat /\ RequesterOf[s] \in Requesters
  BY <1>0, RequestFields, ApprovalAssumption
<1>3. \A v \in Requesters : lastAsked[v] \in Int
  BY <1>0, <1>1 DEF ApprovalTypeOK, Never
<1>4. /\ request[q].pc = "new" /\ UNCHANGED <<clock, resolved, press, actionVars>>
      /\ request \in [Requests -> [pc : {"new", "sending", "waiting", "refused", "failed", "gone"},
                                   at : 0..MaxTime, end : 0..MaxTime + ViewLifetime]]
  BY <1>0 DEF Ask, ApprovalTypeOK
<1>5. CASE request' = [request EXCEPT ![q].pc = "refused"] /\ UNCHANGED lastAsked
  <2>1. /\ \A s \in Requests \ {q} : request'[s] = request[s]
        /\ request'[q].pc = "refused"
        /\ request' \in [Requests -> [pc : {"new", "sending", "waiting", "refused", "failed", "gone"},
                                      at : 0..MaxTime, end : 0..MaxTime + ViewLifetime]]
    BY <1>4, <1>5
  <2>2. ApprovalTypeOK'
    BY <1>0, <1>4, <1>5, <2>1 DEF ApprovalTypeOK, actionVars
  <2>3. clock' \in Nat /\ clock' >= clock /\ lastAsked' = lastAsked
    BY <1>1, <1>4, <1>5
  <2>4. ASSUME NEW s \in Requests
        PROVE  /\ OnItsWay(s)' => OnItsWay(s) /\ request'[s].at = request[s].at
               /\ request[s].pc = "failed" => request'[s] = request[s]
    BY <1>4, <2>1 DEF OnItsWay
  <2> QED
    BY <1>0, <2>2, <2>3, <2>4, SpacingKeeps
<1>6. CASE /\ u = Owner \/ clock >= lastAsked[u] + RequestCooldown
           /\ request' = [request EXCEPT ![q].pc = "sending", ![q].at = clock]
           /\ lastAsked' = IF u = Owner THEN lastAsked ELSE [lastAsked EXCEPT ![u] = clock]
  <2>1. /\ \A s \in Requests \ {q} : request'[s] = request[s]
        /\ request'[q].pc = "sending" /\ request'[q].at = clock
        /\ request' \in [Requests -> [pc : {"new", "sending", "waiting", "refused", "failed", "gone"},
                                      at : 0..MaxTime, end : 0..MaxTime + ViewLifetime]]
    <3>1. request'[q] = [request[q] EXCEPT !.pc = "sending", !.at = clock]
          /\ \A s \in Requests \ {q} : request'[s] = request[s]
      BY <1>4, <1>6
    <3> QED
      BY <1>1, <1>4, <1>6, <3>1
  <2>2. /\ lastAsked' \in [Requesters -> {Never} \cup 0..MaxTime]
        /\ \A v \in Requesters : v # u \/ v = Owner => lastAsked'[v] = lastAsked[v]
        /\ u # Owner => lastAsked'[u] = clock
    BY <1>0, <1>1, <1>6 DEF ApprovalTypeOK
  <2>3. ApprovalTypeOK'
    BY <1>0, <1>4, <2>1, <2>2 DEF ApprovalTypeOK, actionVars
  <2>4. \A v : FailedLate(v)' <=> FailedLate(v)
    <3>1. \A f \in Requests : (request'[f].pc = "failed" <=> request[f].pc = "failed")
                              /\ (request[f].pc = "failed" => request'[f] = request[f])
      BY <1>4, <2>1
    <3> QED
      BY <3>1 DEF FailedLate
  <2>5. \A s \in Requests \ {q} : (OnItsWay(s)' <=> OnItsWay(s)) /\ request'[s].at = request[s].at
    BY <2>1 DEF OnItsWay
  <2>6. ASSUME NEW s \in Requests \ {q}, OnItsWay(s), RequesterOf[s] = u, u # Owner, ~FailedLate(u)
        PROVE  clock >= request[s].at + RequestCooldown
    <3>1. clock >= request[s].at + RequestCooldown \/ lastAsked[u] >= request[s].at
      BY <1>0, <2>6 DEF SpacingInv, EntryStands
    <3> QED
      BY <1>1, <1>2, <1>3, <1>6, <2>6, <3>1
  <2>7. NotAhead'
    BY <1>0, <1>1, <1>4, <2>1, <2>5 DEF SpacingInv, NotAhead
  <2>8. EntryStands'
    <3> SUFFICES ASSUME NEW s \in Requests, OnItsWay(s)', RequesterOf[s] # Owner,
                        ~FailedLate(RequesterOf[s])'
                 PROVE  clock' >= request'[s].at + RequestCooldown
                          \/ lastAsked'[RequesterOf[s]] >= request'[s].at
      BY DEF EntryStands
    <3>1. CASE s = q
      BY <1>1, <2>1, <2>2, <3>1
    <3>2. CASE s # q /\ RequesterOf[s] = u
      BY <1>1, <1>4, <2>4, <2>5, <2>6, <3>2
    <3>3. CASE s # q /\ RequesterOf[s] # u
      <4>1. clock >= request[s].at + RequestCooldown \/ lastAsked[RequesterOf[s]] >= request[s].at
        BY <1>0, <2>4, <2>5, <3>3 DEF SpacingInv, EntryStands
      <4> QED
        BY <1>2, <1>4, <2>2, <2>5, <3>3, <4>1
    <3> QED
      BY <3>1, <3>2, <3>3
  <2>9. Apart'
    <3> SUFFICES ASSUME NEW r \in Requests, NEW s \in Requests, r # s, RequesterOf[r] = RequesterOf[s],
                        RequesterOf[r] # Owner, OnItsWay(r)', OnItsWay(s)', ~FailedLate(RequesterOf[r])',
                        request'[r].at <= request'[s].at
                 PROVE  request'[s].at - request'[r].at >= RequestCooldown
      BY DEF Apart
    <3>1. CASE s = q
      <4>1. clock >= request[r].at + RequestCooldown /\ request'[r].at = request[r].at
        BY <2>4, <2>5, <2>6, <3>1
      <4> QED
        BY <1>1, <1>2, <2>1, <3>1, <4>1
    <3>2. CASE r = q
      <4>1. clock >= request[s].at + RequestCooldown /\ request'[s].at = request[s].at
        BY <2>4, <2>5, <2>6, <3>2
      <4> QED
        BY <1>1, <1>2, <2>1, <3>2, <4>1
    <3>3. CASE r # q /\ s # q
      BY <1>0, <2>4, <2>5, <3>3 DEF SpacingInv, Apart
    <3> QED
      BY <3>1, <3>2, <3>3
  <2> QED
    BY <2>3, <2>7, <2>8, <2>9 DEF SpacingInv
<1>7. ~(clock < lastAsked[u] + RequestCooldown) => clock >= lastAsked[u] + RequestCooldown
  BY <1>1, <1>3
<1> QED
  BY <1>5, <1>6, <1>7 DEF Ask

\* A failed request takes the entry with it: within the cooldown no other one of
\* the member is younger, and the older ones are a cooldown old (pos_ai.py:4085).
LEMMA DmFailsKeeps ==
  ASSUME ApprovalInv, NEW q \in Requests, DmFails(q)
  PROVE  ApprovalTypeOK' /\ SpacingInv'
<1> DEFINE u == RequesterOf[q]
<1>0. ApprovalTypeOK /\ SpacingInv
  BY DEF ApprovalInv
<1>1. clock \in Nat /\ RequestCooldown \in Nat /\ clock \in 0..MaxTime /\ u \in Requesters
      /\ ViewLifetime \in Nat /\ MaxTime \in Nat
  BY <1>0, ApprovalAssumption DEF ApprovalTypeOK
<1>2. \A s \in Requests : request[s].at \in Nat /\ RequesterOf[s] \in Requesters
  BY <1>0, RequestFields, ApprovalAssumption
<1>3. \A v \in Requesters : lastAsked[v] \in Int
  BY <1>0, <1>1 DEF ApprovalTypeOK, Never
<1>4. /\ request[q].pc = "sending" /\ UNCHANGED <<clock, resolved, press, actionVars>>
      /\ request \in [Requests -> [pc : {"new", "sending", "waiting", "refused", "failed", "gone"},
                                   at : 0..MaxTime, end : 0..MaxTime + ViewLifetime]]
      /\ request' = [request EXCEPT ![q].pc = "failed", ![q].end = clock]
      /\ lastAsked' = IF u = Owner THEN lastAsked ELSE [lastAsked EXCEPT ![u] = Never]
  BY <1>0 DEF DmFails, ApprovalTypeOK
<1>5. /\ \A s \in Requests \ {q} : request'[s] = request[s]
      /\ request'[q].pc = "failed" /\ request'[q].at = request[q].at /\ request'[q].end = clock
      /\ request' \in [Requests -> [pc : {"new", "sending", "waiting", "refused", "failed", "gone"},
                                    at : 0..MaxTime, end : 0..MaxTime + ViewLifetime]]
  <2>1. request'[q] = [request[q] EXCEPT !.pc = "failed", !.end = clock]
        /\ \A s \in Requests \ {q} : request'[s] = request[s]
    BY <1>4
  <2>2. clock \in 0..MaxTime + ViewLifetime
    BY <1>1
  <2> QED
    BY <1>4, <2>1, <2>2
<1>6. /\ lastAsked' \in [Requesters -> {Never} \cup 0..MaxTime]
      /\ \A v \in Requesters : v # u \/ v = Owner => lastAsked'[v] = lastAsked[v]
  BY <1>0, <1>1, <1>4 DEF ApprovalTypeOK
<1>7. ApprovalTypeOK'
  BY <1>0, <1>4, <1>5, <1>6 DEF ApprovalTypeOK, actionVars
<1>8. ASSUME NEW v PROVE FailedLate(v) => FailedLate(v)'
  BY <1>4, <1>5 DEF FailedLate
<1>9. ASSUME NEW s \in Requests, OnItsWay(s)'
      PROVE  s # q /\ OnItsWay(s) /\ request'[s].at = request[s].at
  BY <1>5, <1>9 DEF OnItsWay
<1>10. OnItsWay(q)
  BY <1>4 DEF OnItsWay
<1>11. ASSUME NEW s \in Requests, OnItsWay(s)', RequesterOf[s] = u, u # Owner, ~FailedLate(u)'
       PROVE  clock >= request[s].at + RequestCooldown
  <2>1. s # q /\ OnItsWay(s) /\ ~FailedLate(u)
    BY <1>8, <1>9, <1>11
  <2>2. ~(clock - request[q].at >= RequestCooldown)
    BY <1>5, <1>11 DEF FailedLate
  <2>3. request[q].at <= clock /\ request[s].at <= clock
    BY <1>0, <1>10, <2>1 DEF SpacingInv, NotAhead
  <2>4. CASE request[q].at <= request[s].at
    <3>1. request[s].at - request[q].at >= RequestCooldown
      BY <1>0, <1>10, <1>11, <2>1, <2>4 DEF SpacingInv, Apart
    <3> QED
      BY <1>1, <1>2, <2>2, <2>3, <3>1
  <2>5. CASE request[s].at <= request[q].at
    <3>1. request[q].at - request[s].at >= RequestCooldown
      BY <1>0, <1>10, <1>11, <2>1, <2>5 DEF SpacingInv, Apart
    <3> QED
      BY <1>1, <1>2, <2>3, <3>1
  <2> QED
    BY <1>2, <2>4, <2>5
<1>12. NotAhead'
  BY <1>0, <1>4, <1>9 DEF SpacingInv, NotAhead
<1>13. EntryStands'
  <2> SUFFICES ASSUME NEW s \in Requests, OnItsWay(s)', RequesterOf[s] # Owner,
                      ~FailedLate(RequesterOf[s])'
               PROVE  clock' >= request'[s].at + RequestCooldown
                        \/ lastAsked'[RequesterOf[s]] >= request'[s].at
    BY DEF EntryStands
  <2>1. CASE RequesterOf[s] = u
    BY <1>4, <1>9, <1>11, <2>1
  <2>2. CASE RequesterOf[s] # u
    <3>1. OnItsWay(s) /\ request'[s].at = request[s].at /\ ~FailedLate(RequesterOf[s])
      BY <1>8, <1>9
    <3>2. clock >= request[s].at + RequestCooldown \/ lastAsked[RequesterOf[s]] >= request[s].at
      BY <1>0, <3>1 DEF SpacingInv, EntryStands
    <3> QED
      BY <1>2, <1>4, <1>6, <2>2, <3>1, <3>2
  <2> QED
    BY <2>1, <2>2
<1>14. Apart'
  <2> SUFFICES ASSUME NEW r \in Requests, NEW s \in Requests, r # s, RequesterOf[r] = RequesterOf[s],
                      RequesterOf[r] # Owner, OnItsWay(r)', OnItsWay(s)', ~FailedLate(RequesterOf[r])',
                      request'[r].at <= request'[s].at
               PROVE  request'[s].at - request'[r].at >= RequestCooldown
    BY DEF Apart
  <2>1. /\ OnItsWay(r) /\ request'[r].at = request[r].at /\ ~FailedLate(RequesterOf[r])
        /\ OnItsWay(s) /\ request'[s].at = request[s].at
    BY <1>8, <1>9
  <2> QED
    BY <1>0, <2>1 DEF SpacingInv, Apart
<1> QED
  BY <1>7, <1>12, <1>13, <1>14 DEF SpacingInv

\* Each step of a proposal, a press and the clock keeps the approvals' invariant.
LEMMA ApprovalInvStep ==
  ApprovalInv /\ [ApprovalNext]_approvalVars => ApprovalInv'
<1> SUFFICES ASSUME ApprovalInv, [ApprovalNext]_approvalVars PROVE ApprovalInv'
  OBVIOUS
<1>0. ApprovalTypeOK /\ ActionInv /\ SpacingInv
  BY DEF ApprovalInv
<1>1. /\ clock \in Nat /\ clock \in 0..MaxTime /\ MaxTime \in Nat /\ ViewLifetime \in Nat
      /\ RequestCooldown \in Nat
      /\ request \in [Requests -> [pc : {"new", "sending", "waiting", "refused", "failed", "gone"},
                                   at : 0..MaxTime, end : 0..MaxTime + ViewLifetime]]
  BY <1>0, ApprovalAssumption DEF ApprovalTypeOK
<1>2. ASSUME NEW q \in Requests, Ask(q) PROVE ApprovalInv'
  <2>1. ActionInv'
    BY <1>0, <1>2, ActionInvKeeps DEF Ask
  <2> QED
    BY <1>2, <2>1, AskKeeps DEF ApprovalInv
<1>3. ASSUME NEW q \in Requests, DmFails(q) PROVE ApprovalInv'
  <2>1. ActionInv'
    BY <1>0, <1>3, ActionInvKeeps DEF DmFails
  <2> QED
    BY <1>3, <2>1, DmFailsKeeps DEF ApprovalInv
<1>4. ASSUME NEW q \in Requests, NEW end \in 0..MaxTime + ViewLifetime, NEW pc \in {"waiting"},
             request[q].pc \in {"sending", "waiting"},
             request' = [request EXCEPT ![q] = [request[q] EXCEPT !.pc = pc, !.end = end]],
             UNCHANGED <<clock, lastAsked>>
      PROVE  /\ request' \in [Requests -> [pc : {"new", "sending", "waiting", "refused", "failed", "gone"},
                                           at : 0..MaxTime, end : 0..MaxTime + ViewLifetime]]
             /\ SpacingInv'
  <2>1. /\ request'[q] = [request[q] EXCEPT !.pc = pc, !.end = end]
        /\ \A s \in Requests \ {q} : request'[s] = request[s]
        /\ request' \in [Requests -> [pc : {"new", "sending", "waiting", "refused", "failed", "gone"},
                                      at : 0..MaxTime, end : 0..MaxTime + ViewLifetime]]
    BY <1>1, <1>4
  <2>2. ASSUME NEW s \in Requests
        PROVE  /\ OnItsWay(s)' => OnItsWay(s) /\ request'[s].at = request[s].at
               /\ request[s].pc = "failed" => request'[s] = request[s]
    BY <1>1, <1>4, <2>1 DEF OnItsWay
  <2>3. clock' \in Nat /\ clock' >= clock /\ lastAsked' = lastAsked
    BY <1>1, <1>4
  <2> QED
    BY <1>0, <2>1, <2>2, <2>3, SpacingKeeps
<1>5. clock + ViewLifetime \in 0..MaxTime + ViewLifetime
  BY <1>1
<1>6. ASSUME NEW q \in Requests, DmSent(q) PROVE ApprovalInv'
  <2>1. /\ request[q].pc = "sending" /\ UNCHANGED <<lastAsked, clock, resolved, press, actionVars>>
        /\ request' = [request EXCEPT ![q] = [request[q] EXCEPT !.pc = "waiting", !.end = clock + ViewLifetime]]
    BY <1>1, <1>6 DEF DmSent
  <2>2. SpacingInv' /\ request' \in [Requests -> [pc : {"new", "sending", "waiting", "refused", "failed", "gone"},
                                           at : 0..MaxTime, end : 0..MaxTime + ViewLifetime]]
    BY <1>4, <1>5, <2>1
  <2>3. ActionInv'
    BY <1>0, <2>1, ActionInvKeeps
  <2>4. ApprovalTypeOK'
    BY <1>0, <2>1, <2>2 DEF ApprovalTypeOK, actionVars
  <2> QED
    BY <2>2, <2>3, <2>4 DEF ApprovalInv
<1>7. ASSUME NEW p \in Presses, NEW q \in Requests, NEW allow \in BOOLEAN, PressButton(p, q, allow)
      PROVE  ApprovalInv'
  <2>1. /\ request[q].pc = "waiting" /\ press[p] = NoPress
        /\ UNCHANGED <<clock, lastAsked, resolved, actionVars>>
        /\ press' = [press EXCEPT ![p] = [pc |-> "claim", of |-> q, allow |-> allow,
                                          result |-> "not done", warned |-> FALSE]]
    BY <1>7 DEF PressButton
  <2>2. request' = [request EXCEPT ![q] = [request[q] EXCEPT !.pc = "waiting", !.end = clock + ViewLifetime]]
    <3>1. request' = [request EXCEPT ![q] = [request[q] EXCEPT !.end = clock + ViewLifetime]]
      BY <1>7 DEF PressButton
    <3>2. [request[q] EXCEPT !.end = clock + ViewLifetime]
            = [request[q] EXCEPT !.pc = "waiting", !.end = clock + ViewLifetime]
      BY <1>1, <2>1
    <3> QED
      BY <3>1, <3>2
  <2>3. SpacingInv' /\ request' \in [Requests -> [pc : {"new", "sending", "waiting", "refused", "failed", "gone"},
                                           at : 0..MaxTime, end : 0..MaxTime + ViewLifetime]]
    BY <1>4, <1>5, <2>1, <2>2
  <2>4. /\ press' \in [Presses -> Pressing] /\ press'[p].pc = "claim"
        /\ \A r \in Presses \ {p} : press'[r] = press[r]
    BY <1>0, <2>1 DEF ApprovalTypeOK, Pressing, Results
  <2>5. ActionInv'
    BY <1>0, <2>1, <2>4, ActionInvKeeps
  <2>6. ApprovalTypeOK'
    BY <1>0, <2>1, <2>3, <2>4 DEF ApprovalTypeOK, actionVars
  <2> QED
    BY <2>3, <2>5, <2>6 DEF ApprovalInv
<1>8. ASSUME NEW p \in Presses, ClaimView(p) \/ Act(p) \/ Audit(p) \/ Journal(p) \/ TellOwner(p)
      PROVE  ApprovalInv'
  <2>1. ApprovalTypeOK' /\ ActionInv'
    BY <1>0, <1>8, ClaimViewKeeps, HandlerKeeps
  <2>2. UNCHANGED <<clock, request, lastAsked>>
    BY <1>8 DEF ClaimView, Act, Audit, Journal, TellOwner
  <2>3. SpacingInv'
    BY <1>0, <1>1, <2>2, SpacingKeeps DEF OnItsWay
  <2> QED
    BY <2>1, <2>3 DEF ApprovalInv
<1>9. ASSUME NEW q \in Requests, ViewTimesOut(q) PROVE ApprovalInv'
  <2>1. /\ resolved[q] = "open" /\ resolved' = [resolved EXCEPT ![q] = "expired"]
        /\ UNCHANGED <<clock, request, lastAsked, press, actionVars>>
    BY <1>9 DEF ViewTimesOut
  <2>2. /\ resolved' \in [Requests -> {"open", "approved", "denied", "expired"}]
        /\ resolved'[q] = "expired" /\ \A s \in Requests \ {q} : resolved'[s] = resolved[s]
    BY <1>0, <2>1, CountsAreSmall
  <2>3. ApprovalTypeOK'
    <3>1. ASSUME NEW p \in Presses, press[p].pc \notin {"idle", "claim"}
          PROVE  resolved'[press[p].of] = IF press[p].allow THEN "approved" ELSE "denied"
      <4>1. press[p] # NoPress
        BY <3>1 DEF NoPress
      <4>2. press[p].of \in Requests /\ press[p].allow \in BOOLEAN
        BY <1>0, <4>1, PressFields
      <4>3. resolved[press[p].of] = IF press[p].allow THEN "approved" ELSE "denied"
        BY <1>0, <3>1 DEF ApprovalTypeOK
      <4> QED
        BY <2>1, <2>2, <4>2, <4>3
    <3> QED
      BY <1>0, <2>1, <2>2, <3>1 DEF ApprovalTypeOK, actionVars
  <2>4. SpacingInv'
    BY <1>0, <1>1, <2>1, SpacingKeeps DEF OnItsWay
  <2>5. told[q] = {} /\ attempts[q] = 0 /\ audited[q] = 0 /\ journalled[q] = 0
    BY <1>0, <2>1 DEF ActionInv, NothingSaidEarly, UntouchedWhileOpen
  <2>6. OneHandler' /\ DoneSoFar' /\ AtMostOnce' /\ OwnerToldTrue'
    BY <1>0, <2>1 DEF ActionInv, OneHandler, DoneSoFar, Traces, Handles, AtMostOnce, OwnerToldTrue, actionVars
  <2>7. UntouchedWhileOpen'
    BY <1>0, <2>1, <2>2, <2>5 DEF ActionInv, UntouchedWhileOpen, actionVars
  <2>8. NothingSaidEarly'
    BY <1>0, <2>1, <2>2, <2>5 DEF ActionInv, NothingSaidEarly, Handles, actionVars
  <2> QED
    BY <2>3, <2>4, <2>6, <2>7, <2>8 DEF ApprovalInv, ActionInv
<1>10. CASE ApprovalTick
  <2>1. /\ clock < MaxTime /\ clock' = clock + 1
        /\ UNCHANGED <<request, lastAsked, resolved, press, actionVars>>
    BY <1>10 DEF ApprovalTick
  <2>2. ApprovalTypeOK'
    BY <1>0, <1>1, <2>1 DEF ApprovalTypeOK, actionVars
  <2>3. SpacingInv'
    BY <1>0, <1>1, <2>1, SpacingKeeps DEF OnItsWay
  <2>4. ActionInv'
    BY <1>0, <2>1, ActionInvKeeps
  <2> QED
    BY <2>2, <2>3, <2>4 DEF ApprovalInv
<1>11. CASE ApprovalRestart
  <2>1. /\ UNCHANGED <<clock, resolved, actionVars>>
        /\ request' = [q \in Requests |-> IF request[q].pc = "new" THEN request[q]
                                          ELSE [request[q] EXCEPT !.pc = "gone"]]
        /\ lastAsked' = [u \in Requesters |-> Never]
        /\ press' = [p \in Presses |-> NoPress]
    BY <1>11 DEF ApprovalRestart
  <2>2. /\ press' \in [Presses -> Pressing] /\ \A p \in Presses : press'[p].pc = "idle"
    BY <2>1 DEF Pressing, NoPress
  <2>3. /\ \A q \in Requests : request'[q].pc \in {"new", "gone"}
        /\ request' \in [Requests -> [pc : {"new", "sending", "waiting", "refused", "failed", "gone"},
                                      at : 0..MaxTime, end : 0..MaxTime + ViewLifetime]]
    BY <1>1, <2>1
  <2>4. ApprovalTypeOK'
    BY <1>0, <2>1, <2>2, <2>3 DEF ApprovalTypeOK, actionVars
  <2>5. ActionInv'
    BY <1>0, <2>1, <2>2, ActionInvKeeps
  <2>6. SpacingInv'
    BY <2>3 DEF SpacingInv, NotAhead, EntryStands, Apart, OnItsWay
  <2> QED
    BY <2>4, <2>5, <2>6 DEF ApprovalInv
<1>12. CASE UNCHANGED approvalVars
  <2>1. UNCHANGED <<clock, request, lastAsked, resolved, press, actionVars>>
    BY <1>12 DEF approvalVars, actionVars
  <2>2. ApprovalTypeOK'
    BY <1>0, <2>1 DEF ApprovalTypeOK, actionVars
  <2>3. SpacingInv'
    BY <1>0, <1>1, <2>1, SpacingKeeps DEF OnItsWay
  <2>4. ActionInv'
    BY <1>0, <2>1, ActionInvKeeps
  <2> QED
    BY <2>2, <2>3, <2>4 DEF ApprovalInv
<1> QED
  BY <1>2, <1>3, <1>6, <1>7, <1>8, <1>9, <1>10, <1>11, <1>12 DEF ApprovalNext, PressStep

\* The owner's word is what happens, for every number of requests, members and
\* presses and every length of the cooldown and of a view's life
\* (forms.py:395-455, pos_ai.py:3753-3800, 4004-4028).
THEOREM ApprovalsAreHonoured == ApprovalSpec => []ApprovalHonoured
<1>1. ApprovalInv => ApprovalHonoured
  <2> SUFFICES ASSUME ApprovalInv PROVE ApprovalHonoured
    OBVIOUS
  <2>1. ActsOnApproval
    BY DEF ApprovalInv, ActionInv, AtMostOnce, UntouchedWhileOpen, NothingSaidEarly, ActsOnApproval
  <2>2. RequestsSpaced
    <3> SUFFICES ASSUME NEW q \in Requests, NEW s \in Requests, q # s,
                        RequesterOf[q] = RequesterOf[s], RequesterOf[q] # Owner,
                        request[q].pc = "waiting", request[s].pc = "waiting",
                        request[q].at <= request[s].at, ~FailedLate(RequesterOf[q])
                 PROVE  request[s].at - request[q].at >= RequestCooldown
      BY DEF RequestsSpaced, FailedLate
    <3>1. OnItsWay(q) /\ OnItsWay(s)
      BY DEF OnItsWay
    <3> QED
      BY <3>1 DEF ApprovalInv, SpacingInv, Apart
  <2> QED
    BY <2>1, <2>2 DEF ApprovalInv, ActionInv, ApprovalHonoured
<1> QED
  BY <1>1, ApprovalInvInit, ApprovalInvStep, PTL DEF ApprovalSpec

-----------------------------------------------------------------------------
\* Complaints.

\* A channel in which the complaint is posted or about to be.
Live(c) == channel[c] = "open" /\ (IntakeAt(c, "complaint") \/ "complaint" \in inChannel[c])

\* The message goes last: what is still to be posted is not posted, and who is
\* about to remove the message has posted all of it.
HandedInOrder ==
  \A c \in Complaints :
    /\ intake[c].pc \in {"new", "lock", "create"} => "complaint" \notin inChannel[c]
    /\ IntakeAt(c, "evidence") => "complaint" \in inChannel[c]
    /\ IntakeAt(c, "remove") => Content(c) \subseteq inChannel[c]

\* An author's live channel is in the cache, is the only one, and while a hand-over
\* holds the lock its author has none.
LiveKnown == \A c \in Complaints : Live(c) => c \in known
OneLive == \A c, d \in Complaints : Live(c) /\ Live(d) /\ AuthorOf[c] = AuthorOf[d] => c = d
LockedAlone ==
  \A c, d \in Complaints : intakeLock = c /\ Live(d) => AuthorOf[d] # AuthorOf[c]

\* What a decision has not read came after it began, and from its claim on the rest
\* is in the archive.
ReadInTime ==
  \A c \in Complaints : \A v \in Verdicts :
    /\ deciding[c][v].pc = "archive" => inChannel[c] \subseteq deciding[c][v].read \cup tooLate[c]
    /\ deciding[c][v].pc \in {"claim", "delete"} => inChannel[c] \subseteq archive[c] \cup tooLate[c]

\* A verdict has its row in the table, so there is one.
VerdictClaimed ==
  \A c \in Complaints : /\ verdicts[c] # {} => c \in decided
                        /\ \A v, w \in verdicts[c] : v = w

ComplaintInv ==
  /\ ComplaintTypeOK /\ HandedInOrder /\ SourceGoesLast /\ LiveKnown /\ OneLive /\ LockedAlone
  /\ ReadInTime /\ ArchivedBeforeDeleted /\ VerdictClaimed

IntakePlaces ==
  {"new", "lock", "create", "complaint", "evidence", "remove", "withdraw", "refused", "malformed", "done"}

\* The types of the functions a complaint's steps update, each by itself.
LEMMA ComplaintTypes ==
  ASSUME ComplaintTypeOK
  PROVE  /\ intake \in [Complaints -> [pc : IntakePlaces, evidence : BOOLEAN]]
         /\ channel \in [Complaints -> {"none", "open", "withdrawn", "closed"}]
         /\ inChannel \in [Complaints -> SUBSET Items] /\ archive \in [Complaints -> SUBSET Items]
         /\ tooLate \in [Complaints -> SUBSET Items] /\ verdicts \in [Complaints -> SUBSET Verdicts]
         /\ deciding \in [Complaints -> [Verdicts -> [pc : {"idle", "archive", "claim", "delete"},
                                                      read : SUBSET Items]]]
BY DEF ComplaintTypeOK, IntakePlaces

\* A hand-over moves on and the others stay where they are.
LEMMA GoMoves ==
  ASSUME ComplaintTypeOK, NEW c \in Complaints, NEW pc \in IntakePlaces, Go(c, pc)
  PROVE  /\ intake' \in [Complaints -> [pc : IntakePlaces, evidence : BOOLEAN]]
         /\ intake'[c].pc = pc /\ intake'[c].evidence = intake[c].evidence
         /\ \A d \in Complaints \ {c} : intake'[d] = intake[d]
<1>1. intake \in [Complaints -> [pc : IntakePlaces, evidence : BOOLEAN]]
  BY ComplaintTypes
<1>2. intake' = [intake EXCEPT ![c].pc = pc]
  BY DEF Go
<1> QED
  BY <1>1, <1>2

\* As long as no channel comes alive and those that live stay in the cache, the
\* authors' channels stay single.
LEMMA LivesKeep ==
  ASSUME LiveKnown, OneLive, LockedAlone, NoComplaint \notin Complaints,
         \A c \in Complaints : Live(c)' => Live(c) /\ c \in known',
         intakeLock' \in {intakeLock, NoComplaint}
  PROVE  LiveKnown' /\ OneLive' /\ LockedAlone'
<1>1. LiveKnown'
  BY DEF LiveKnown
<1>2. OneLive'
  <2> SUFFICES ASSUME NEW c \in Complaints, NEW d \in Complaints, Live(c)', Live(d)', AuthorOf[c] = AuthorOf[d]
               PROVE  c = d
    BY DEF OneLive
  <2> QED
    BY DEF OneLive
<1>3. LockedAlone'
  <2> SUFFICES ASSUME NEW c \in Complaints, NEW d \in Complaints, intakeLock' = c, Live(d)'
               PROVE  AuthorOf[d] # AuthorOf[c]
    BY DEF LockedAlone
  <2>1. intakeLock = c /\ Live(d)
    OBVIOUS
  <2> QED
    BY <2>1 DEF LockedAlone
<1> QED
  BY <1>1, <1>2, <1>3

\* What a decision has read and sent stays read and sent while nothing is posted and
\* nothing decided.
LEMMA ReadsKeep ==
  ASSUME ReadInTime, ArchivedBeforeDeleted, UNCHANGED <<deciding, inChannel, archive, tooLate>>,
         \A c \in Complaints : channel'[c] = "closed" => channel[c] = "closed"
  PROVE  ReadInTime' /\ ArchivedBeforeDeleted'
BY DEF ReadInTime, ArchivedBeforeDeleted

\* A message in an open channel is in time for the archive or counted as too late.
LEMMA PostsKeep ==
  ASSUME ComplaintTypeOK, ReadInTime, ArchivedBeforeDeleted, NEW c \in Complaints, NEW item \in Items,
         PostIn(c, item), UNCHANGED <<deciding, archive, channel>>
  PROVE  /\ inChannel' \in [Complaints -> SUBSET Items] /\ tooLate' \in [Complaints -> SUBSET Items]
         /\ inChannel'[c] = inChannel[c] \cup {item} /\ channel[c] = "open"
         /\ \A d \in Complaints \ {c} : inChannel'[d] = inChannel[d]
         /\ ReadInTime' /\ ArchivedBeforeDeleted'
<1>1. /\ inChannel \in [Complaints -> SUBSET Items] /\ tooLate \in [Complaints -> SUBSET Items]
  BY ComplaintTypes
<1>2. /\ inChannel' = [inChannel EXCEPT ![c] = @ \cup {item}] /\ channel[c] = "open"
      /\ tooLate' = [tooLate EXCEPT ![c] = IF HasRead(c) THEN @ \cup {item} ELSE @]
  BY DEF PostIn
<1>3. /\ inChannel'[c] = inChannel[c] \cup {item}
      /\ tooLate'[c] = IF HasRead(c) THEN tooLate[c] \cup {item} ELSE tooLate[c]
      /\ \A d \in Complaints \ {c} : inChannel'[d] = inChannel[d] /\ tooLate'[d] = tooLate[d]
      /\ inChannel' \in [Complaints -> SUBSET Items] /\ tooLate' \in [Complaints -> SUBSET Items]
  BY <1>1, <1>2
<1>4. ReadInTime'
  <2> SUFFICES ASSUME NEW d \in Complaints, NEW v \in Verdicts
               PROVE  /\ deciding[d][v].pc = "archive" => inChannel'[d] \subseteq deciding[d][v].read \cup tooLate'[d]
                      /\ deciding[d][v].pc \in {"claim", "delete"} => inChannel'[d] \subseteq archive[d] \cup tooLate'[d]
    BY DEF ReadInTime
  <2>1. CASE d = c
    <3>1. deciding[c][v].pc # "idle" => tooLate'[c] = tooLate[c] \cup {item}
      BY <1>3 DEF HasRead
    <3> QED
      BY <1>3, <2>1, <3>1 DEF ReadInTime
  <2>2. CASE d # c
    BY <1>3, <2>2 DEF ReadInTime
  <2> QED
    BY <2>1, <2>2
<1>5. ArchivedBeforeDeleted'
  BY <1>2, <1>3 DEF ArchivedBeforeDeleted
<1> QED
  BY <1>2, <1>3, <1>4, <1>5

\* A step of one decision that leaves the channels' content alone.
LEMMA DecisionMoves ==
  ASSUME ComplaintTypeOK, NEW c \in Complaints, NEW v \in Verdicts,
         NEW e \in [pc : {"idle", "archive", "claim", "delete"}, read : SUBSET Items],
         deciding' = [deciding EXCEPT ![c][v] = e]
  PROVE  /\ deciding' \in [Complaints -> [Verdicts -> [pc : {"idle", "archive", "claim", "delete"},
                                                       read : SUBSET Items]]]
         /\ deciding'[c][v] = e
         /\ \A d \in Complaints, w \in Verdicts : d # c \/ w # v => deciding'[d][w] = deciding[d][w]
<1>1. deciding \in [Complaints -> [Verdicts -> [pc : {"idle", "archive", "claim", "delete"},
                                                read : SUBSET Items]]]
  BY ComplaintTypes
<1> QED
  BY <1>1

\* No complaint is handed over or decided when the forms start.
LEMMA ComplaintInvInit == ComplaintInit => ComplaintInv
<1> SUFFICES ASSUME ComplaintInit PROVE ComplaintInv
  OBVIOUS
<1>1. ComplaintTypeOK
  BY ComplaintAssumption DEF ComplaintInit, ComplaintTypeOK, ClaimInit, ClaimTypeOK, NotDeciding
<1>2. HandedInOrder /\ SourceGoesLast
  BY DEF ComplaintInit, HandedInOrder, SourceGoesLast, IntakeAt
<1>3. LiveKnown /\ OneLive /\ LockedAlone
  BY DEF ComplaintInit, LiveKnown, OneLive, LockedAlone, Live
<1>4. ReadInTime /\ ArchivedBeforeDeleted /\ VerdictClaimed
  BY DEF ComplaintInit, ReadInTime, ArchivedBeforeDeleted, VerdictClaimed, NotDeciding
<1> QED
  BY <1>1, <1>2, <1>3, <1>4 DEF ComplaintInv

\* Each step of a hand-over, a decision, the gateway and a restart keeps the complaints' invariant.
LEMMA ComplaintInvStep ==
  ComplaintInv /\ [ComplaintNext]_complaintVars => ComplaintInv'
<1> SUFFICES ASSUME ComplaintInv, [ComplaintNext]_complaintVars PROVE ComplaintInv'
  OBVIOUS
<1>0. /\ ComplaintTypeOK /\ HandedInOrder /\ SourceGoesLast /\ LiveKnown /\ OneLive /\ LockedAlone
      /\ ReadInTime /\ ArchivedBeforeDeleted /\ VerdictClaimed
  BY DEF ComplaintInv
<1>a. /\ intake \in [Complaints -> [pc : IntakePlaces, evidence : BOOLEAN]]
      /\ channel \in [Complaints -> {"none", "open", "withdrawn", "closed"}]
      /\ inChannel \in [Complaints -> SUBSET Items] /\ archive \in [Complaints -> SUBSET Items]
      /\ NoComplaint \notin Complaints
  BY <1>0, ComplaintTypes, ComplaintAssumption
<1>1. ASSUME NEW c \in Complaints, Malformed(c) PROVE ComplaintInv'
  <2>1. /\ IntakeAt(c, "new") /\ Go(c, "malformed") /\ source' = source \ {c}
        /\ UNCHANGED <<decided, processed, intakeLock, cooling, channel, known, inChannel, archive,
                       deciding, verdicts, tooLate>>
    BY <1>1 DEF Malformed, channelVars, decisionVars, claimVars
  <2>2. /\ intake' \in [Complaints -> [pc : IntakePlaces, evidence : BOOLEAN]]
        /\ intake'[c].pc = "malformed" /\ intake'[c].evidence = intake[c].evidence
        /\ \A d \in Complaints \ {c} : intake'[d] = intake[d]
    BY <1>0, <2>1, GoMoves DEF IntakePlaces
  <2>3. ComplaintTypeOK'
    BY <1>0, <2>1, <2>2 DEF ComplaintTypeOK, ClaimTypeOK, IntakePlaces, IntakeAt
  <2>4. HandedInOrder' /\ SourceGoesLast'
    BY <1>0, <2>1, <2>2 DEF HandedInOrder, SourceGoesLast, IntakeAt, Content
  <2>5. \A d \in Complaints : Live(d)' => Live(d) /\ d \in known'
    BY <1>0, <2>1, <2>2 DEF Live, LiveKnown, IntakeAt
  <2>6. LiveKnown' /\ OneLive' /\ LockedAlone'
    BY <1>0, <1>a, <2>1, <2>5, LivesKeep
  <2>7. ReadInTime' /\ ArchivedBeforeDeleted' /\ VerdictClaimed'
    BY <1>0, <2>1, ReadsKeep DEF VerdictClaimed
  <2> QED
    BY <2>3, <2>4, <2>6, <2>7 DEF ComplaintInv
<1>2. ASSUME NEW c \in Complaints, Screen(c) PROVE ComplaintInv'
  <2>1. /\ IntakeAt(c, "new")
        /\ UNCHANGED <<decided, processed, source, intakeLock, cooling, channel, known, inChannel, archive,
                       deciding, verdicts, tooLate>>
    BY <1>2 DEF Screen, channelVars, decisionVars, claimVars
  <2>2. PICK pc \in {"refused", "lock"} : Go(c, pc)
    BY <1>2 DEF Screen
  <2>3. /\ intake' \in [Complaints -> [pc : IntakePlaces, evidence : BOOLEAN]]
        /\ intake'[c].pc = pc /\ intake'[c].evidence = intake[c].evidence
        /\ \A d \in Complaints \ {c} : intake'[d] = intake[d]
    BY <1>0, <2>2, GoMoves DEF IntakePlaces
  <2>4. ComplaintTypeOK'
    BY <1>0, <2>1, <2>3 DEF ComplaintTypeOK, ClaimTypeOK, IntakePlaces, IntakeAt
  <2>5. HandedInOrder' /\ SourceGoesLast'
    BY <1>0, <2>1, <2>3 DEF HandedInOrder, SourceGoesLast, IntakeAt, Content
  <2>6. \A d \in Complaints : Live(d)' => Live(d) /\ d \in known'
    BY <1>0, <2>1, <2>3 DEF Live, LiveKnown, IntakeAt
  <2>7. LiveKnown' /\ OneLive' /\ LockedAlone'
    BY <1>0, <1>a, <2>1, <2>6, LivesKeep
  <2>8. ReadInTime' /\ ArchivedBeforeDeleted' /\ VerdictClaimed'
    BY <1>0, <2>1, ReadsKeep DEF VerdictClaimed
  <2> QED
    BY <2>4, <2>5, <2>7, <2>8 DEF ComplaintInv
<1>3. ASSUME NEW c \in Complaints, TakeLock(c) PROVE ComplaintInv'
  <2>1. /\ IntakeAt(c, "lock") /\ intakeLock = NoComplaint
        /\ UNCHANGED <<decided, processed, source, cooling, channel, known, inChannel, archive,
                       deciding, verdicts, tooLate>>
    BY <1>3 DEF TakeLock, channelVars, decisionVars, claimVars
  <2>2. PICK pc \in {"refused", "create"} :
          /\ Go(c, pc)
          /\ \/ pc = "refused" /\ intakeLock' = intakeLock
             \/ pc = "create" /\ intakeLock' = c /\ ~HasOpen(AuthorOf[c])
    BY <1>3 DEF TakeLock
  <2>3. /\ intake' \in [Complaints -> [pc : IntakePlaces, evidence : BOOLEAN]]
        /\ intake'[c].pc = pc /\ intake'[c].evidence = intake[c].evidence
        /\ \A d \in Complaints \ {c} : intake'[d] = intake[d]
    BY <1>0, <2>2, GoMoves DEF IntakePlaces
  <2>4. ComplaintTypeOK'
    BY <1>0, <2>1, <2>2, <2>3 DEF ComplaintTypeOK, ClaimTypeOK, IntakePlaces, IntakeAt
  <2>5. HandedInOrder' /\ SourceGoesLast'
    BY <1>0, <2>1, <2>3 DEF HandedInOrder, SourceGoesLast, IntakeAt, Content
  <2>6. \A d \in Complaints : Live(d)' => Live(d) /\ d \in known'
    BY <1>0, <2>1, <2>3 DEF Live, LiveKnown, IntakeAt
  <2>7. LiveKnown' /\ OneLive'
    <3>1. LiveKnown'
      BY <2>6 DEF LiveKnown
    <3>2. OneLive'
      <4> SUFFICES ASSUME NEW d \in Complaints, NEW e \in Complaints, Live(d)', Live(e)',
                          AuthorOf[d] = AuthorOf[e]
                   PROVE  d = e
        BY DEF OneLive
      <4> QED
        BY <1>0, <2>6 DEF OneLive
    <3> QED
      BY <3>1, <3>2
  <2>8. LockedAlone'
    <3> SUFFICES ASSUME NEW d \in Complaints, NEW e \in Complaints, intakeLock' = d, Live(e)'
                 PROVE  AuthorOf[e] # AuthorOf[d]
      BY DEF LockedAlone
    <3>1. d = c /\ ~HasOpen(AuthorOf[c])
      BY <1>a, <2>1, <2>2
    <3>2. e \in known
      BY <2>1, <2>6
    <3> QED
      BY <3>1, <3>2 DEF HasOpen
  <2>9. ReadInTime' /\ ArchivedBeforeDeleted' /\ VerdictClaimed'
    BY <1>0, <2>1, ReadsKeep DEF VerdictClaimed
  <2> QED
    BY <2>4, <2>5, <2>7, <2>8, <2>9 DEF ComplaintInv
<1>4. ASSUME NEW c \in Complaints, CreateChannel(c) PROVE ComplaintInv'
  <2>1. /\ IntakeAt(c, "create") /\ intakeLock = c /\ intakeLock' = NoComplaint
        /\ UNCHANGED <<decided, processed, source, cooling, inChannel, archive, deciding, verdicts, tooLate>>
    BY <1>4 DEF CreateChannel, decisionVars, claimVars
  <2>2. PICK pc \in {"complaint", "refused"} :
          /\ Go(c, pc)
          /\ \/ /\ pc = "complaint"
                /\ channel' = [channel EXCEPT ![c] = "open"] /\ known' = known \cup {c}
             \/ /\ pc = "refused" /\ known' = known
                /\ channel' \in {channel, [channel EXCEPT ![c] = "open"]}
    BY <1>4 DEF CreateChannel
  <2>3. /\ intake' \in [Complaints -> [pc : IntakePlaces, evidence : BOOLEAN]]
        /\ intake'[c].pc = pc /\ intake'[c].evidence = intake[c].evidence
        /\ \A d \in Complaints \ {c} : intake'[d] = intake[d]
    BY <1>0, <2>2, GoMoves DEF IntakePlaces
  <2>4. /\ channel' \in [Complaints -> {"none", "open", "withdrawn", "closed"}]
        /\ \A d \in Complaints \ {c} : channel'[d] = channel[d]
        /\ channel'[c] \in {channel[c], "open"}
        /\ known \subseteq known' /\ known' \subseteq Complaints /\ (pc = "complaint" => c \in known')
    BY <1>0, <1>a, <2>2 DEF ComplaintTypeOK
  <2>5. ComplaintTypeOK'
    BY <1>0, <1>a, <2>1, <2>3, <2>4 DEF ComplaintTypeOK, ClaimTypeOK, IntakePlaces
  <2>6. "complaint" \notin inChannel[c]
    BY <1>0, <2>1 DEF HandedInOrder, IntakeAt
  <2>7. HandedInOrder' /\ SourceGoesLast'
    BY <1>0, <2>1, <2>2, <2>3, <2>6 DEF HandedInOrder, SourceGoesLast, IntakeAt, Content
  <2>8. ASSUME NEW d \in Complaints, Live(d)'
        PROVE  d \in known' /\ (d = c \/ Live(d))
    <3>1. CASE d = c
      BY <2>1, <2>3, <2>4, <2>6, <2>8, <3>1 DEF Live, IntakeAt
    <3>2. CASE d # c
      <4>1. Live(d)
        BY <2>1, <2>3, <2>4, <2>8, <3>2 DEF Live, IntakeAt
      <4> QED
        BY <1>0, <2>4, <4>1 DEF LiveKnown
    <3> QED
      BY <3>1, <3>2
  <2>9. LiveKnown' /\ LockedAlone'
    BY <1>a, <2>1, <2>8 DEF LiveKnown, LockedAlone
  <2>10. OneLive'
    <3> SUFFICES ASSUME NEW d \in Complaints, NEW e \in Complaints, Live(d)', Live(e)',
                        AuthorOf[d] = AuthorOf[e]
                 PROVE  d = e
      BY DEF OneLive
    <3>1. \A x \in Complaints : Live(x) => AuthorOf[x] # AuthorOf[c]
      BY <1>0, <2>1 DEF LockedAlone
    <3>2. (d = c \/ Live(d)) /\ (e = c \/ Live(e))
      BY <2>8
    <3> QED
      BY <1>0, <3>1, <3>2 DEF OneLive
  <2>11. ReadInTime' /\ ArchivedBeforeDeleted' /\ VerdictClaimed'
    BY <1>0, <2>1, <2>4, ReadsKeep DEF VerdictClaimed
  <2> QED
    BY <2>5, <2>7, <2>9, <2>10, <2>11 DEF ComplaintInv
<1>5. ASSUME NEW c \in Complaints, PostComplaint(c) \/ PostEvidence(c) PROVE ComplaintInv'
  <2>1. UNCHANGED <<decided, processed, source, intakeLock, cooling, channel, known, archive, deciding, verdicts>>
    BY <1>5 DEF PostComplaint, PostEvidence, decisionVars, claimVars
  <2>2. PICK item \in {"complaint", "evidence"}, pc \in {"evidence", "remove", "withdraw"} :
          /\ Go(c, pc)
          /\ IntakeAt(c, item)
          /\ \/ PostIn(c, item)
             \/ pc = "withdraw" /\ UNCHANGED <<inChannel, tooLate>>
          /\ pc = "evidence" => item = "complaint"
          /\ pc = "remove" => item = "evidence" \/ ~intake[c].evidence
    <3>1. CASE PostComplaint(c)
      <4>1. HandedOver(c) \in {"evidence", "remove"} /\ (HandedOver(c) = "remove" => ~intake[c].evidence)
        BY DEF HandedOver
      <4> QED
        BY <3>1, <4>1 DEF PostComplaint, Go
    <3>2. CASE PostEvidence(c)
      BY <3>2 DEF PostEvidence, Go
    <3> QED
      BY <1>5, <3>1, <3>2
  <2>3. /\ intake' \in [Complaints -> [pc : IntakePlaces, evidence : BOOLEAN]]
        /\ intake'[c].pc = pc /\ intake'[c].evidence = intake[c].evidence
        /\ \A d \in Complaints \ {c} : intake'[d] = intake[d]
    BY <1>0, <2>2, GoMoves DEF IntakePlaces
  <2>4. /\ inChannel' \in [Complaints -> SUBSET Items] /\ tooLate' \in [Complaints -> SUBSET Items]
        /\ inChannel[c] \subseteq inChannel'[c] /\ (pc # "withdraw" => item \in inChannel'[c])
        /\ inChannel'[c] # inChannel[c] => channel[c] = "open"
        /\ \A d \in Complaints \ {c} : inChannel'[d] = inChannel[d]
        /\ ReadInTime' /\ ArchivedBeforeDeleted'
    <3>1. CASE PostIn(c, item)
      <4>1. item \in Items
        BY DEF Items
      <4> QED
        BY <1>0, <2>1, <3>1, <4>1, PostsKeep
    <3>2. CASE pc = "withdraw" /\ UNCHANGED <<inChannel, tooLate>>
      <4>1. ReadInTime' /\ ArchivedBeforeDeleted'
        BY <1>0, <2>1, <3>2, ReadsKeep
      <4> QED
        BY <1>0, <3>2, <4>1, ComplaintTypes
    <3> QED
      BY <2>2, <3>1, <3>2
  <2>5. ComplaintTypeOK'
    BY <1>0, <2>1, <2>2, <2>3, <2>4 DEF ComplaintTypeOK, ClaimTypeOK, IntakePlaces, IntakeAt
  <2>6. HandedInOrder'
    <3> SUFFICES ASSUME NEW d \in Complaints
                 PROVE  /\ intake'[d].pc \in {"new", "lock", "create"} => "complaint" \notin inChannel'[d]
                        /\ intake'[d].pc = "evidence" => "complaint" \in inChannel'[d]
                        /\ intake'[d].pc = "remove" => Content(d)' \subseteq inChannel'[d]
      BY DEF HandedInOrder, IntakeAt
    <3>1. CASE d = c
      <4>1. item = "evidence" => "complaint" \in inChannel[c]
        BY <1>0, <2>2 DEF HandedInOrder, IntakeAt
      <4> QED
        BY <2>2, <2>3, <2>4, <3>1, <4>1 DEF Content
    <3>2. CASE d # c
      BY <1>0, <2>3, <2>4, <3>2 DEF HandedInOrder, IntakeAt, Content
    <3> QED
      BY <3>1, <3>2
  <2>7. SourceGoesLast'
    BY <1>0, <2>1, <2>2, <2>3, <2>4 DEF SourceGoesLast, IntakeAt, Content
  <2>8. ASSUME NEW d \in Complaints, Live(d)' PROVE Live(d) /\ d \in known'
    <3>1. CASE d = c
      <4>1. channel[c] = "open"
        BY <2>1, <2>8, <3>1 DEF Live
      <4>2. IntakeAt(c, "complaint") \/ "complaint" \in inChannel[c]
        BY <1>0, <2>2 DEF HandedInOrder
      <4> QED
        BY <1>0, <2>1, <3>1, <4>1, <4>2 DEF Live, LiveKnown
    <3>2. CASE d # c
      BY <1>0, <2>1, <2>3, <2>4, <2>8, <3>2 DEF Live, LiveKnown, IntakeAt
    <3> QED
      BY <3>1, <3>2
  <2>9. LiveKnown' /\ OneLive' /\ LockedAlone'
    BY <1>0, <1>a, <2>1, <2>8, LivesKeep
  <2>10. VerdictClaimed'
    BY <1>0, <2>1 DEF VerdictClaimed
  <2> QED
    BY <2>4, <2>5, <2>6, <2>7, <2>9, <2>10 DEF ComplaintInv
<1>6. ASSUME NEW c \in Complaints, Withdraw(c) PROVE ComplaintInv'
  <2>1. /\ IntakeAt(c, "withdraw") /\ Go(c, "refused")
        /\ UNCHANGED <<decided, processed, source, intakeLock, cooling, known, inChannel, archive,
                       deciding, verdicts, tooLate>>
        /\ channel' \in {channel, [channel EXCEPT ![c] = "withdrawn"]}
    BY <1>6 DEF Withdraw, decisionVars, claimVars
  <2>2. /\ intake' \in [Complaints -> [pc : IntakePlaces, evidence : BOOLEAN]]
        /\ intake'[c].pc = "refused" /\ intake'[c].evidence = intake[c].evidence
        /\ \A d \in Complaints \ {c} : intake'[d] = intake[d]
    BY <1>0, <2>1, GoMoves DEF IntakePlaces
  <2>3. /\ channel' \in [Complaints -> {"none", "open", "withdrawn", "closed"}]
        /\ \A d \in Complaints : channel'[d] \in {channel[d], "withdrawn"}
    BY <1>a, <2>1
  <2>4. ComplaintTypeOK'
    BY <1>0, <2>1, <2>2, <2>3 DEF ComplaintTypeOK, ClaimTypeOK, IntakePlaces, IntakeAt
  <2>5. HandedInOrder' /\ SourceGoesLast'
    BY <1>0, <2>1, <2>2 DEF HandedInOrder, SourceGoesLast, IntakeAt, Content
  <2>6. \A d \in Complaints : Live(d)' => Live(d) /\ d \in known'
    BY <1>0, <2>1, <2>2, <2>3 DEF Live, LiveKnown, IntakeAt
  <2>7. LiveKnown' /\ OneLive' /\ LockedAlone'
    BY <1>0, <1>a, <2>1, <2>6, LivesKeep
  <2>8. ReadInTime' /\ ArchivedBeforeDeleted' /\ VerdictClaimed'
    BY <1>0, <2>1, <2>3, ReadsKeep DEF VerdictClaimed
  <2> QED
    BY <2>4, <2>5, <2>7, <2>8 DEF ComplaintInv
<1>7. ASSUME NEW c \in Complaints, RemoveSource(c) PROVE ComplaintInv'
  <2>1. /\ IntakeAt(c, "remove") /\ Go(c, "done") /\ source' \in {source, source \ {c}}
        /\ cooling' = cooling \cup {AuthorOf[c]}
        /\ UNCHANGED <<decided, processed, intakeLock, channel, known, inChannel, archive,
                       deciding, verdicts, tooLate>>
    BY <1>7 DEF RemoveSource, channelVars, decisionVars, claimVars
  <2>2. /\ intake' \in [Complaints -> [pc : IntakePlaces, evidence : BOOLEAN]]
        /\ intake'[c].pc = "done" /\ intake'[c].evidence = intake[c].evidence
        /\ \A d \in Complaints \ {c} : intake'[d] = intake[d]
    BY <1>0, <2>1, GoMoves DEF IntakePlaces
  <2>3. ComplaintTypeOK'
    <3>1. AuthorOf[c] \in Authors
      BY ComplaintAssumption
    <3>2. source' \subseteq Complaints /\ cooling' \subseteq Authors
      BY <1>0, <2>1, <3>1 DEF ComplaintTypeOK
    <3>3. intakeLock # NoComplaint => intakeLock # c /\ intakeLock \in Complaints
      BY <1>0, <2>1 DEF ComplaintTypeOK, IntakeAt
    <3>4. intakeLock' # NoComplaint => intake'[intakeLock'].pc = "create"
      BY <1>0, <2>1, <2>2, <3>3 DEF ComplaintTypeOK
    <3> QED
      BY <1>0, <2>1, <2>2, <3>2, <3>4 DEF ComplaintTypeOK, ClaimTypeOK, IntakePlaces
  <2>4. Content(c) \subseteq inChannel[c]
    BY <1>0, <2>1 DEF HandedInOrder
  <2>5. HandedInOrder' /\ SourceGoesLast'
    BY <1>0, <2>1, <2>2, <2>4 DEF HandedInOrder, SourceGoesLast, IntakeAt, Content
  <2>6. \A d \in Complaints : Live(d)' => Live(d) /\ d \in known'
    BY <1>0, <2>1, <2>2 DEF Live, LiveKnown, IntakeAt
  <2>7. LiveKnown' /\ OneLive' /\ LockedAlone'
    BY <1>0, <1>a, <2>1, <2>6, LivesKeep
  <2>8. ReadInTime' /\ ArchivedBeforeDeleted' /\ VerdictClaimed'
    BY <1>0, <2>1, ReadsKeep DEF VerdictClaimed
  <2> QED
    BY <2>3, <2>5, <2>7, <2>8 DEF ComplaintInv
<1>8. ASSUME NEW c \in Complaints, Talk(c) PROVE ComplaintInv'
  <2>1. /\ PostIn(c, "message") /\ "message" \in Items
        /\ UNCHANGED <<decided, processed, source, intake, intakeLock, cooling, channel, known, archive,
                       deciding, verdicts>>
    BY <1>8 DEF Talk, Items, intakeVars, decisionVars, claimVars
  <2>2. /\ inChannel' \in [Complaints -> SUBSET Items] /\ tooLate' \in [Complaints -> SUBSET Items]
        /\ inChannel'[c] = inChannel[c] \cup {"message"} /\ channel[c] = "open"
        /\ \A d \in Complaints \ {c} : inChannel'[d] = inChannel[d]
        /\ ReadInTime' /\ ArchivedBeforeDeleted'
    BY <1>0, <2>1, PostsKeep
  <2>3. ComplaintTypeOK'
    BY <1>0, <2>1, <2>2 DEF ComplaintTypeOK, ClaimTypeOK
  <2>4. \A d \in Complaints : /\ inChannel[d] \subseteq inChannel'[d]
                              /\ "complaint" \in inChannel'[d] => "complaint" \in inChannel[d]
    BY <2>2
  <2>5. HandedInOrder' /\ SourceGoesLast'
    BY <1>0, <2>1, <2>4 DEF HandedInOrder, SourceGoesLast, IntakeAt, Content
  <2>6. \A d \in Complaints : Live(d)' => Live(d) /\ d \in known'
    BY <1>0, <2>1, <2>4 DEF Live, LiveKnown, IntakeAt
  <2>7. LiveKnown' /\ OneLive' /\ LockedAlone'
    BY <1>0, <1>a, <2>1, <2>6, LivesKeep
  <2>8. VerdictClaimed'
    BY <1>0, <2>1 DEF VerdictClaimed
  <2> QED
    BY <2>2, <2>3, <2>5, <2>7, <2>8 DEF ComplaintInv
<1>9. ASSUME NEW c \in Complaints, ChannelSeen(c) PROVE ComplaintInv'
  <2>1. /\ known' = IF channel[c] = "open" THEN known \cup {c} ELSE known \ {c}
        /\ UNCHANGED <<decided, processed, source, intake, intakeLock, cooling, channel, inChannel, archive,
                       deciding, verdicts, tooLate>>
    BY <1>9 DEF ChannelSeen, intakeVars, decisionVars, claimVars
  <2>2. ComplaintTypeOK'
    BY <1>0, <2>1 DEF ComplaintTypeOK, ClaimTypeOK
  <2>3. HandedInOrder' /\ SourceGoesLast' /\ VerdictClaimed'
    BY <1>0, <2>1 DEF HandedInOrder, SourceGoesLast, VerdictClaimed, IntakeAt, Content
  <2>4. \A d \in Complaints : Live(d)' => Live(d) /\ d \in known'
    BY <1>0, <2>1 DEF Live, LiveKnown, IntakeAt
  <2>5. LiveKnown' /\ OneLive' /\ LockedAlone'
    BY <1>0, <1>a, <2>1, <2>4, LivesKeep
  <2>6. ReadInTime' /\ ArchivedBeforeDeleted'
    BY <1>0, <2>1, ReadsKeep
  <2> QED
    BY <2>2, <2>3, <2>5, <2>6 DEF ComplaintInv
<1>10. ASSUME NEW c \in Complaints, NEW v \in Verdicts, DecisionStep(c, v) PROVE ComplaintInv'
  <2>1. UNCHANGED <<source, intake, intakeLock, cooling, known, inChannel, tooLate>>
    BY <1>10 DEF DecisionStep, ReadChannel, SendArchive, ClaimComplaint, DeleteChannel, intakeVars, channelVars
  <2>2. /\ deciding[c][v] \in [pc : {"idle", "archive", "claim", "delete"}, read : SUBSET Items]
        /\ inChannel[c] \in SUBSET Items
    BY <1>0, <1>a, ComplaintTypes
  <2>3. PICK e \in [pc : {"idle", "archive", "claim", "delete"}, read : SUBSET Items] :
          /\ deciding' = [deciding EXCEPT ![c][v] = e]
          /\ \/ ReadChannel(c, v) /\ e = [pc |-> "archive", read |-> inChannel[c]]
             \/ SendArchive(c, v) /\ e.pc = "claim" /\ archive' = [archive EXCEPT ![c] = @ \cup deciding[c][v].read]
             \/ ClaimComplaint(c, v) /\ e.pc = "delete"
             \/ (SendArchive(c, v) \/ ClaimComplaint(c, v) \/ DeleteChannel(c, v)) /\ e.pc = "idle"
    <3>1. NotDeciding \in [pc : {"idle", "archive", "claim", "delete"}, read : SUBSET Items]
          /\ NotDeciding.pc = "idle"
      BY DEF NotDeciding
    <3>2. ASSUME NEW pc \in {"claim", "delete"}, Step(c, v, pc)
          PROVE  /\ deciding' = [deciding EXCEPT ![c][v] = [deciding[c][v] EXCEPT !.pc = pc]]
                 /\ [deciding[c][v] EXCEPT !.pc = pc]
                      \in [pc : {"idle", "archive", "claim", "delete"}, read : SUBSET Items]
                 /\ [deciding[c][v] EXCEPT !.pc = pc].pc = pc
      BY <2>2, <3>2 DEF Step
    <3>3. CASE ReadChannel(c, v)
      <4>1. [pc |-> "archive", read |-> inChannel[c]] \in [pc : {"idle", "archive", "claim", "delete"}, read : SUBSET Items]
        BY <2>2
      <4> QED
        BY <3>3, <4>1 DEF ReadChannel
    <3>4. CASE SendArchive(c, v)
      <4>1. \/ Stop(c, v)
            \/ Step(c, v, "claim") /\ archive' = [archive EXCEPT ![c] = @ \cup deciding[c][v].read]
        BY <3>4 DEF SendArchive
      <4> QED
        BY <3>1, <3>2, <3>4, <4>1 DEF Stop
    <3>5. CASE ClaimComplaint(c, v)
      <4>1. Stop(c, v) \/ Step(c, v, "delete")
        BY <3>5 DEF ClaimComplaint
      <4> QED
        BY <3>1, <3>2, <3>5, <4>1 DEF Stop
    <3>6. CASE DeleteChannel(c, v)
      BY <3>1, <3>6 DEF DeleteChannel, Stop
    <3> QED
      BY <1>10, <3>3, <3>4, <3>5, <3>6 DEF DecisionStep
  <2>4. /\ deciding' \in [Complaints -> [Verdicts -> [pc : {"idle", "archive", "claim", "delete"},
                                                       read : SUBSET Items]]]
        /\ deciding'[c][v] = e
        /\ \A d \in Complaints, w \in Verdicts : d # c \/ w # v => deciding'[d][w] = deciding[d][w]
    BY <1>0, <2>3, DecisionMoves
  <2>5. /\ archive' \in [Complaints -> SUBSET Items]
        /\ \A d \in Complaints : archive[d] \subseteq archive'[d]
    <3>1. archive' = archive \/ archive' = [archive EXCEPT ![c] = @ \cup deciding[c][v].read]
      <4>1. CASE ReadChannel(c, v)
        BY <4>1 DEF ReadChannel, channelVars
      <4>2. CASE SendArchive(c, v)
        <5>1. PICK sent \in BOOLEAN :
                archive' = [archive EXCEPT ![c] = IF sent THEN @ \cup deciding[c][v].read ELSE @]
          BY <4>2 DEF SendArchive
        <5>2. CASE ~sent
          BY <1>a, <5>1, <5>2
        <5> QED
          BY <5>1, <5>2
      <4>3. CASE ClaimComplaint(c, v)
        BY <4>3 DEF ClaimComplaint, channelVars
      <4>4. CASE DeleteChannel(c, v)
        BY <4>4 DEF DeleteChannel
      <4> QED
        BY <1>10, <4>1, <4>2, <4>3, <4>4 DEF DecisionStep
    <3> QED
      BY <1>a, <2>2, <3>1
  <2>6. /\ channel' \in [Complaints -> {"none", "open", "withdrawn", "closed"}]
        /\ \A d \in Complaints : channel'[d] # channel[d] =>
             d = c /\ channel'[d] = "closed" /\ channel[d] = "open" /\ deciding[c][v].pc = "delete"
    <3>1. \/ channel' = channel
          \/ channel' = [channel EXCEPT ![c] = "closed"] /\ channel[c] = "open" /\ deciding[c][v].pc = "delete"
      <4>1. CASE ReadChannel(c, v)
        BY <4>1 DEF ReadChannel, channelVars
      <4>2. CASE SendArchive(c, v)
        BY <4>2 DEF SendArchive, channelVars
      <4>3. CASE ClaimComplaint(c, v)
        BY <4>3 DEF ClaimComplaint, channelVars
      <4>4. CASE DeleteChannel(c, v)
        BY <4>4 DEF DeleteChannel, channelVars
      <4> QED
        BY <1>10, <4>1, <4>2, <4>3, <4>4 DEF DecisionStep
    <3> QED
      BY <1>a, <3>1
  <2>7. /\ ClaimTypeOK' /\ decided \subseteq decided'
        /\ \/ verdicts' = verdicts
           \/ verdicts' = [verdicts EXCEPT ![c] = @ \cup {v}] /\ c \notin decided /\ c \in decided'
    <3>1. CASE ReadChannel(c, v) \/ SendArchive(c, v) \/ DeleteChannel(c, v)
      BY <1>0, <3>1 DEF ReadChannel, SendArchive, DeleteChannel, claimVars, ComplaintTypeOK, ClaimTypeOK
    <3>2. CASE ClaimComplaint(c, v)
      <4>1. c \in FormMessages /\ decided \subseteq FormMessages /\ processed \subseteq FormMessages
        BY <1>0, ComplaintAssumption DEF ComplaintTypeOK, ClaimTypeOK
      <4>2. CASE ClaimForm(c) /\ verdicts' = [verdicts EXCEPT ![c] = @ \cup {v}]
        BY <4>1, <4>2 DEF ClaimForm, Remembered, ClaimTypeOK
      <4>3. CASE ClaimFormRefused(c) /\ UNCHANGED verdicts
        BY <4>1, <4>3 DEF ClaimFormRefused, ClaimTypeOK
      <4> QED
        BY <3>2, <4>2, <4>3 DEF ClaimComplaint
    <3> QED
      BY <1>10, <3>1, <3>2 DEF DecisionStep
  <2>8. VerdictClaimed' /\ verdicts' \in [Complaints -> SUBSET Verdicts]
    <3>1. verdicts \in [Complaints -> SUBSET Verdicts]
      BY <1>0, ComplaintTypes
    <3>2. CASE verdicts' = verdicts
      BY <1>0, <2>7, <3>1, <3>2 DEF VerdictClaimed
    <3>3. CASE verdicts' = [verdicts EXCEPT ![c] = @ \cup {v}] /\ c \notin decided /\ c \in decided'
      <4>1. verdicts[c] = {}
        BY <1>0, <3>3 DEF VerdictClaimed
      <4>2. verdicts'[c] = {v} /\ \A d \in Complaints \ {c} : verdicts'[d] = verdicts[d]
        BY <3>1, <3>3, <4>1
      <4> QED
        BY <1>0, <2>7, <3>1, <3>3, <4>2 DEF VerdictClaimed
    <3> QED
      BY <2>7, <3>2, <3>3
  <2>9. ComplaintTypeOK'
    BY <1>0, <2>1, <2>4, <2>5, <2>6, <2>7, <2>8 DEF ComplaintTypeOK
  <2>10. HandedInOrder' /\ SourceGoesLast'
    BY <1>0, <2>1 DEF HandedInOrder, SourceGoesLast, IntakeAt, Content
  <2>11. \A d \in Complaints : Live(d)' => Live(d) /\ d \in known'
    BY <1>0, <2>1, <2>6 DEF Live, LiveKnown, IntakeAt
  <2>12. LiveKnown' /\ OneLive' /\ LockedAlone'
    BY <1>0, <1>a, <2>1, <2>11, LivesKeep
  <2>13. ReadInTime'
    <3> SUFFICES ASSUME NEW d \in Complaints, NEW w \in Verdicts
                 PROVE  /\ deciding'[d][w].pc = "archive" =>
                             inChannel[d] \subseteq deciding'[d][w].read \cup tooLate[d]
                        /\ deciding'[d][w].pc \in {"claim", "delete"} =>
                             inChannel[d] \subseteq archive'[d] \cup tooLate[d]
      BY <2>1 DEF ReadInTime
    <3>1. CASE d = c /\ w = v
      <4>1. CASE e = [pc |-> "archive", read |-> inChannel[c]]
        BY <2>4, <3>1, <4>1
      <4>2. CASE SendArchive(c, v) /\ e.pc = "claim" /\ archive' = [archive EXCEPT ![c] = @ \cup deciding[c][v].read]
        <5>1. inChannel[c] \subseteq deciding[c][v].read \cup tooLate[c]
          BY <1>0, <4>2 DEF SendArchive, ReadInTime
        <5>2. archive'[c] = archive[c] \cup deciding[c][v].read
          BY <1>a, <4>2
        <5> QED
          BY <2>4, <3>1, <4>2, <5>1, <5>2
      <4>3. CASE ClaimComplaint(c, v) /\ e.pc = "delete"
        <5>1. inChannel[c] \subseteq archive[c] \cup tooLate[c]
          BY <1>0, <4>3 DEF ClaimComplaint, ReadInTime
        <5> QED
          BY <2>4, <2>5, <3>1, <4>3, <5>1
      <4>4. CASE e.pc = "idle"
        BY <2>4, <3>1, <4>4
      <4> QED
        BY <2>3, <4>1, <4>2, <4>3, <4>4
    <3>2. CASE ~(d = c /\ w = v)
      <4>1. deciding'[d][w] = deciding[d][w]
        BY <2>4, <3>2
      <4> QED
        BY <1>0, <2>5, <4>1 DEF ReadInTime
    <3> QED
      BY <3>1, <3>2
  <2>14. ArchivedBeforeDeleted'
    <3> SUFFICES ASSUME NEW d \in Complaints, channel'[d] = "closed"
                 PROVE  inChannel[d] \subseteq archive'[d] \cup tooLate[d]
      BY <2>1 DEF ArchivedBeforeDeleted
    <3>1. CASE channel'[d] = channel[d]
      BY <1>0, <2>5, <3>1 DEF ArchivedBeforeDeleted
    <3>2. CASE channel'[d] # channel[d]
      BY <1>0, <2>5, <2>6, <3>2 DEF ReadInTime
    <3> QED
      BY <3>1, <3>2
  <2> QED
    BY <2>8, <2>9, <2>10, <2>12, <2>13, <2>14 DEF ComplaintInv
<1>11. ASSUME NEW a \in Authors, CooldownOver(a) PROVE ComplaintInv'
  <2>1. /\ cooling' = cooling \ {a}
        /\ UNCHANGED <<decided, processed, source, intake, intakeLock, channel, known, inChannel, archive,
                       deciding, verdicts, tooLate>>
    BY <1>11 DEF CooldownOver, channelVars, decisionVars, claimVars
  <2>2. ComplaintTypeOK'
    BY <1>0, <2>1 DEF ComplaintTypeOK, ClaimTypeOK
  <2>3. HandedInOrder' /\ SourceGoesLast' /\ VerdictClaimed'
    BY <1>0, <2>1 DEF HandedInOrder, SourceGoesLast, VerdictClaimed, IntakeAt, Content
  <2>4. \A d \in Complaints : Live(d)' => Live(d) /\ d \in known'
    BY <1>0, <2>1 DEF Live, LiveKnown, IntakeAt
  <2>5. LiveKnown' /\ OneLive' /\ LockedAlone'
    BY <1>0, <1>a, <2>1, <2>4, LivesKeep
  <2>6. ReadInTime' /\ ArchivedBeforeDeleted'
    BY <1>0, <2>1, ReadsKeep
  <2> QED
    BY <2>2, <2>3, <2>5, <2>6 DEF ComplaintInv
<1>12. CASE FormsRestart
  <2>1. /\ processed' = {} /\ decided' = decided /\ intakeLock' = NoComplaint /\ cooling' = {}
        /\ intake' = [c \in Complaints |-> IF intake[c].pc \in {"new", "malformed", "done"} THEN intake[c]
                                           ELSE [intake[c] EXCEPT !.pc = "refused"]]
        /\ deciding' = [c \in Complaints |-> [v \in Verdicts |-> NotDeciding]]
        /\ known' = {c \in Complaints : channel[c] = "open"}
        /\ UNCHANGED <<source, channel, inChannel, archive, verdicts, tooLate>>
    BY <1>12 DEF FormsRestart, ForgetClaims
  <2>2. /\ intake' \in [Complaints -> [pc : IntakePlaces, evidence : BOOLEAN]]
        /\ \A c \in Complaints : /\ intake'[c].evidence = intake[c].evidence
                                 /\ intake'[c].pc \in {"new", "malformed", "done", "refused"}
                                 /\ intake'[c].pc # "refused" => intake'[c] = intake[c]
                                 /\ intake[c].pc \in {"new", "malformed", "done"} => intake'[c] = intake[c]
    BY <1>a, <2>1 DEF IntakePlaces
  <2>3. ComplaintTypeOK'
    BY <1>0, <2>1, <2>2 DEF ComplaintTypeOK, ClaimTypeOK, IntakePlaces, NotDeciding
  <2>4. HandedInOrder' /\ SourceGoesLast' /\ VerdictClaimed'
    BY <1>0, <2>1, <2>2 DEF HandedInOrder, SourceGoesLast, VerdictClaimed, IntakeAt, Content
  <2>5. \A d \in Complaints : Live(d)' => Live(d) /\ d \in known'
    BY <1>0, <2>1, <2>2 DEF Live, LiveKnown, IntakeAt
  <2>6. LiveKnown' /\ OneLive' /\ LockedAlone'
    BY <1>0, <1>a, <2>1, <2>5, LivesKeep
  <2>7. ReadInTime' /\ ArchivedBeforeDeleted'
    BY <1>0, <2>1 DEF ReadInTime, ArchivedBeforeDeleted, NotDeciding
  <2> QED
    BY <2>3, <2>4, <2>6, <2>7 DEF ComplaintInv
<1>13. CASE UNCHANGED complaintVars
  <2>1. UNCHANGED <<decided, processed, source, intake, intakeLock, cooling, channel, known, inChannel,
                    archive, deciding, verdicts, tooLate>>
    BY <1>13 DEF complaintVars
  <2>2. ComplaintTypeOK'
    BY <1>0, <2>1 DEF ComplaintTypeOK, ClaimTypeOK
  <2>3. HandedInOrder' /\ SourceGoesLast' /\ VerdictClaimed'
    BY <1>0, <2>1 DEF HandedInOrder, SourceGoesLast, VerdictClaimed, IntakeAt, Content
  <2>4. \A d \in Complaints : Live(d)' => Live(d) /\ d \in known'
    BY <1>0, <2>1 DEF Live, LiveKnown, IntakeAt
  <2>5. LiveKnown' /\ OneLive' /\ LockedAlone'
    BY <1>0, <1>a, <2>1, <2>4, LivesKeep
  <2>6. ReadInTime' /\ ArchivedBeforeDeleted'
    BY <1>0, <2>1, ReadsKeep
  <2> QED
    BY <2>2, <2>3, <2>5, <2>6 DEF ComplaintInv
<1> QED
  BY <1>1, <1>2, <1>3, <1>4, <1>5, <1>6, <1>7, <1>8, <1>9, <1>10, <1>11, <1>12, <1>13
     DEF ComplaintNext, ComplaintStep

\* No text of a complaint is lost between the message, the private channel and the
\* archive, an author has one open complaint, and one verdict is carried out, for
\* every number of complaints and authors (cogs/forms.py:222-263, 288-320,
\* forms.py:31-62, 96-163).
THEOREM ComplaintsAreSound == ComplaintSpec => []ComplaintSound
<1>1. ComplaintInv => ComplaintSound
  <2> SUFFICES ASSUME ComplaintInv PROVE ComplaintSound
    OBVIOUS
  <2>1. OneOpenComplaint
    BY DEF ComplaintInv, OneLive, Live, OneOpenComplaint
  <2>2. ASSUME NEW c \in Complaints PROVE Cardinality(verdicts[c]) <= 1
    <3>1. CASE verdicts[c] = {}
      BY <3>1, FS_EmptySet
    <3>2. CASE verdicts[c] # {}
      <4>1. PICK v \in verdicts[c] : TRUE
        BY <3>2
      <4>2. verdicts[c] = {v}
        BY <4>1 DEF ComplaintInv, VerdictClaimed
      <4>3. Cardinality({v}) = 1
        BY FS_Singleton
      <4> QED
        BY <4>2, <4>3
    <3> QED
      BY <3>1, <3>2
  <2> QED
    BY <2>1, <2>2 DEF ComplaintInv, ComplaintSound, OneVerdict
<1> QED
  BY <1>1, ComplaintInvInit, ComplaintInvStep, PTL DEF ComplaintSpec

-----------------------------------------------------------------------------
\* The owner's answers by Telegram.

Row == [st : Statuses, at : Times, linked : BOOLEAN]

\* The types of the table, of the workers and of the poller.
RowsType == rows \in [Msgs -> Row] /\ now \in 1 .. MaxNow
WorkType ==
  /\ wpc \in [Workers -> {"idle", "classify", "flight", "landed", "mark", "fail"}]
  /\ wmsg \in [Workers -> Msgs \cup {NoMsg}]
  /\ \A w \in Workers : wpc[w] # "idle" => wmsg[w] \in Msgs
PollType ==
  /\ ppc \in {"idle", "claim", "deliver", "landed", "complete", "tell", "unknown", "save"}
  /\ replied \in {"", "ok", "error"}
  /\ updates \in Seq(Msgs)
  /\ Len(updates) <= MaxReplies
  /\ offset \in 0 .. Len(updates)
  /\ saved \in 0 .. offset
  /\ ppc # "idle" => offset < Len(updates)
HistoryType ==
  /\ posted \in [Msgs -> Nat]
  /\ answers \in [Msgs -> Nat]
  /\ stopped \in BOOLEAN

\* TypeOK is these four together.
LEMMA TypeParts == TypeOK <=> RowsType /\ WorkType /\ PollType /\ HistoryType
BY DEF TypeOK, RowsType, WorkType, PollType, HistoryType, Row

\* While the poller is busy it holds an update that has arrived
\* (telegram_bridge.py:355-367).
LEMMA HandledMessage ==
  ASSUME PollType, ppc # "idle" \/ offset < Len(updates)
  PROVE  /\ Handled \in Msgs
         /\ offset + 1 \in 1 .. Len(updates)
<1>1. updates \in Seq(Msgs) /\ offset \in 0 .. Len(updates) /\ offset < Len(updates)
  BY Zenon DEF PollType
<1>2. offset + 1 \in 1 .. Len(updates)
  BY <1>1
<1> QED BY <1>1, <1>2 DEF Handled

\* Giving up a reservation keeps a row's time and link (storage.py:1485-1496).
LEMMA ExpiredRow ==
  ASSUME RowsType
  PROVE  /\ Expired(rows) \in [Msgs -> Row]
         /\ \A m \in Msgs :
              /\ Expired(rows)[m].at = rows[m].at
              /\ Expired(rows)[m].linked = rows[m].linked
              /\ \/ Expired(rows)[m].st = rows[m].st
                 \/ rows[m].st = "reserved" /\ Expired(rows)[m].st = "failed"
<1>1. \A k \in Msgs : rows[k] \in Row
  BY DEF RowsType
<1>2. ASSUME NEW k \in Msgs
      PROVE  [rows[k] EXCEPT !.st = "failed"] \in Row
  BY <1>1 DEF Row, Statuses
<1> DEFINE gone(k) == rows[k].st = "reserved" /\ rows[k].at < now - Ttl
<1>3. \A k \in Msgs : Expired(rows)[k] = IF gone(k) THEN [rows[k] EXCEPT !.st = "failed"] ELSE rows[k]
  BY DEF Expired
<1>4. Expired(rows) \in [Msgs -> Row]
  <2>1. Expired(rows) = [k \in Msgs |-> Expired(rows)[k]]
    BY DEF Expired
  <2>2. \A k \in Msgs : Expired(rows)[k] \in Row
    BY <1>1, <1>2, <1>3
  <2> QED BY <2>1, <2>2
<1>5. ASSUME NEW m \in Msgs
      PROVE  /\ Expired(rows)[m].at = rows[m].at
             /\ Expired(rows)[m].linked = rows[m].linked
             /\ \/ Expired(rows)[m].st = rows[m].st
                \/ rows[m].st = "reserved" /\ Expired(rows)[m].st = "failed"
  BY <1>1, <1>3 DEF Row
<1> QED BY <1>4, <1>5

\* A change of one row's status or link keeps the table's type.
LEMMA OneRow ==
  ASSUME NEW table \in [Msgs -> Row], NEW m \in Msgs, NEW st \in Statuses, NEW linked \in BOOLEAN
  PROVE  /\ [table EXCEPT ![m].st = st] \in [Msgs -> Row]
         /\ [table EXCEPT ![m].st = st, ![m].linked = linked] \in [Msgs -> Row]
<1>1. table[m] \in Row
  OBVIOUS
<1>2. [table[m] EXCEPT !.st = st] \in Row
  BY <1>1 DEF Row
<1>3. [table[m] EXCEPT !.st = st, !.linked = linked] \in Row
  BY <1>1 DEF Row
<1> QED BY <1>2, <1>3

\* A worker that becomes idle leaves the others where they are.
LEMMA DoneType ==
  ASSUME WorkType, NEW w \in Workers, WorkerDone(w)
  PROVE  WorkType'
BY DEF WorkType, WorkerDone

\* A step of a worker keeps the types (telegram_bridge.py:259-340).
LEMMA ForwardType ==
  ASSUME TypeOK, NEW w \in Workers, Forward(w)
  PROVE  TypeOK'
<1>0. RowsType /\ WorkType /\ PollType /\ HistoryType
  BY TypeParts
<1> SUFFICES RowsType' /\ WorkType' /\ PollType' /\ HistoryType'
  BY TypeParts, PTL
<1>1. ASSUME NEW m \in Msgs, Reserve(w, m)
      PROVE  RowsType' /\ WorkType' /\ PollType' /\ HistoryType'
  <2>1. Expired(rows) \in [Msgs -> Row]
    BY <1>0, ExpiredRow
  <2>2. [st |-> "reserved", at |-> now, linked |-> FALSE] \in Row
    BY <1>0 DEF RowsType, Row, Statuses, Times
  <2>3. rows' \in [Msgs -> Row]
    BY <1>1, <2>1, <2>2 DEF Reserve
  <2>4. RowsType'
    BY <1>0, <1>1, <2>3 DEF Reserve, RowsType
  <2>5. WorkType'
    BY <1>0, <1>1 DEF Reserve, WorkType
  <2> QED BY <1>0, <1>1, <2>4, <2>5 DEF Reserve, PollType, HistoryType, pollVars, history, Handled
<1>2. CASE Send(w) \/ Accepted(w) \/ SendFails(w)
  <2>1. WorkType'
    BY <1>0, <1>2 DEF Send, Accepted, SendFails, WorkerAt, WorkType
  <2> QED BY <1>0, <1>2, <2>1
          DEF Send, Accepted, SendFails, RowsType, PollType, HistoryType, pollVars, history
<1>3. CASE Post(w)
  <2>1. WorkType' /\ wmsg[w] \in Msgs
    BY <1>0, <1>3 DEF Post, WorkerAt, WorkType
  <2>2. HistoryType'
    BY <1>0, <1>3, <2>1 DEF Post, HistoryType
  <2> QED BY <1>0, <1>3, <2>1, <2>2 DEF Post, RowsType, PollType, pollVars
<1>4. CASE MarkSent(w) \/ MarkFailed(w)
  <2>1. wmsg[w] \in Msgs
    BY <1>0, <1>4 DEF MarkSent, MarkFailed, WorkType
  <2>2. rows' \in [Msgs -> Row]
    <3>1. "sent" \in Statuses /\ "failed" \in Statuses /\ TRUE \in BOOLEAN
      BY DEF Statuses
    <3>2. rows \in [Msgs -> Row]
      BY <1>0 DEF RowsType
    <3>3. /\ [rows EXCEPT ![wmsg[w]].st = "sent", ![wmsg[w]].linked = TRUE] \in [Msgs -> Row]
          /\ [rows EXCEPT ![wmsg[w]].st = "failed"] \in [Msgs -> Row]
      BY <2>1, <3>1, <3>2, OneRow
    <3> QED BY <1>4, <3>2, <3>3 DEF MarkSent, MarkFailed
  <2>3. WorkType'
    BY <1>0, <1>4, DoneType DEF MarkSent, MarkFailed
  <2> QED BY <1>0, <1>4, <2>2, <2>3
          DEF MarkSent, MarkFailed, RowsType, PollType, HistoryType, pollVars, history
<1>5. CASE CancelForward(w)
  BY <1>0, <1>5, DoneType DEF CancelForward, RowsType, PollType, HistoryType, pollVars, history
<1> QED BY <1>1, <1>2, <1>3, <1>4, <1>5 DEF Forward

\* A step of the poller keeps the types (telegram_bridge.py:344-431).
LEMMA PollTypeStep ==
  ASSUME TypeOK, Poll
  PROVE  TypeOK'
<1>0. RowsType /\ WorkType /\ PollType /\ HistoryType
  BY TypeParts
<1> SUFFICES RowsType' /\ WorkType' /\ PollType' /\ HistoryType'
  BY TypeParts, PTL
<1>1. CASE Lookup \/ Tell \/ TellFails \/ Delivered \/ DeliveryFails \/ Save
  <2>1. ASSUME Lookup PROVE PollType'
    BY <1>0, <2>1 DEF Lookup, PollerAt, PollType
  <2>2. ASSUME Tell \/ TellFails \/ Delivered \/ DeliveryFails
        PROVE  PollType'
    BY <1>0, <2>2 DEF Tell, TellFails, Delivered, DeliveryFails, PollerAt, PollType
  <2>3. ASSUME Save PROVE PollType'
    <3>1. updates \in Seq(Msgs) /\ offset \in 0 .. Len(updates) /\ offset < Len(updates)
      BY <1>0, <2>3 DEF Save, PollerAt, PollType
    <3>2. offset' \in 0 .. Len(updates) /\ saved' \in 0 .. offset' /\ updates' = updates
      BY <2>3, <3>1 DEF Save
    <3> QED BY <1>0, <2>3, <3>2 DEF Save, PollerAt, PollType
  <2>4. PollType'
    BY <1>1, <2>1, <2>2, <2>3
  <2> QED BY <1>0, <1>1, <2>4
          DEF Lookup, Tell, TellFails, Delivered, DeliveryFails, Save,
              RowsType, WorkType, HistoryType, workVars, history
<1>2. CASE Claim
  <2>1. Handled \in Msgs
    BY <1>0, <1>2, HandledMessage DEF Claim
  <2>2. rows' \in [Msgs -> Row]
    <3>1. rows \in [Msgs -> Row]
      BY <1>0 DEF RowsType
    <3>2. [rows EXCEPT ![Handled].st = "responding"] \in [Msgs -> Row]
      BY <2>1, <3>1, OneRow DEF Statuses
    <3> QED BY <1>2, <3>1, <3>2 DEF Claim
  <2>3. PollType'
    BY <1>0, <1>2 DEF Claim, PollerAt, PollType
  <2> QED BY <1>0, <1>2, <2>2, <2>3 DEF Claim, RowsType, WorkType, HistoryType, workVars, history
<1>3. CASE Show
  <2>1. Handled \in Msgs
    BY <1>0, <1>3, HandledMessage DEF Show, PollerAt
  <2>2. HistoryType'
    BY <1>0, <1>3, <2>1 DEF Show, HistoryType
  <2>3. PollType'
    BY <1>0, <1>3 DEF Show, PollerAt, PollType
  <2> QED BY <1>0, <1>3, <2>2, <2>3 DEF Show, RowsType, WorkType, workVars
<1>4. CASE Complete
  <2>1. Handled \in Msgs
    BY <1>0, <1>4, HandledMessage DEF Complete, PollerAt
  <2>2. rows' \in [Msgs -> Row]
    <3>1. (IF replied = "ok" THEN "delivered" ELSE "delivery_failed") \in Statuses
      BY DEF Statuses
    <3> QED BY <1>0, <1>4, <2>1, <3>1, OneRow DEF Complete, RowsType
  <2>3. PollType'
    BY <1>0, <1>4 DEF Complete, PollerAt, PollType
  <2> QED BY <1>0, <1>4, <2>2, <2>3
          DEF Complete, RowsType, WorkType, HistoryType, workVars, history
<1> QED BY <1>1, <1>2, <1>3, <1>4 DEF Poll

\* Every step keeps the types (storage.py:335-353).
LEMMA TypeStep ==
  ASSUME TypeOK, [Next]_vars
  PROVE  TypeOK'
<1>0. RowsType /\ WorkType /\ PollType /\ HistoryType
  BY TypeParts
<1>1. CASE \E w \in Workers : Forward(w)
  BY <1>1, ForwardType
<1>2. CASE Poll
  BY <1>2, PollTypeStep
<1>3. ASSUME RowsType', WorkType', PollType', HistoryType'
      PROVE  TypeOK'
  BY <1>3, TypeParts, PTL
<1>4. CASE Refuse
  <2>1. RowsType'
    BY <1>0, <1>4, ExpiredRow DEF Refuse, RowsType
  <2> QED BY <1>0, <1>3, <1>4, <2>1
          DEF Refuse, WorkType, PollType, HistoryType, pollVars, workVars, history
<1>5. ASSUME NEW m \in Msgs, OwnerReplies(m)
      PROVE  TypeOK'
  <2>1. updates' \in Seq(Msgs) /\ Len(updates') = Len(updates) + 1 /\ Len(updates) \in Nat
    <3>1. updates \in Seq(Msgs)
      BY <1>0 DEF PollType
    <3> QED BY <1>5, <3>1 DEF OwnerReplies
  <2>2. PollType'
    <3>1. Len(updates') <= MaxReplies
      BY <1>5, <2>1, ContactAssumption DEF OwnerReplies, ContactAssumption
    <3>2. updates \in Seq(Msgs) /\ offset \in 0 .. Len(updates)
      BY <1>0 DEF PollType
    <3>3. offset \in 0 .. Len(updates') /\ offset < Len(updates')
      BY <2>1, <3>2
    <3> QED BY <1>0, <1>5, <2>1, <3>1, <3>3 DEF OwnerReplies, PollType, pollVars
  <2> QED BY <1>0, <1>3, <1>5, <2>2 DEF OwnerReplies, RowsType, WorkType, HistoryType, workVars, history
<1>6. CASE Restart
  <2>1. PollType'
    <3>1. updates \in Seq(Msgs) /\ offset \in 0 .. Len(updates) /\ saved \in 0 .. offset
      BY <1>0 DEF PollType
    <3>2. saved \in 0 .. Len(updates) /\ saved \in 0 .. saved
      BY <3>1
    <3> QED BY <1>0, <1>6, <3>2 DEF Restart, PollType
  <2>2. WorkType'
    BY <1>0, <1>6 DEF Restart, WorkType
  <2> QED BY <1>0, <1>3, <1>6, <2>1, <2>2 DEF Restart, RowsType, HistoryType
<1>7. CASE Clock
  BY <1>0, <1>3, <1>7 DEF Clock, RowsType, WorkType, PollType, HistoryType, pollVars, workVars, history
<1>8. CASE UNCHANGED vars
  BY <1>0, <1>3, <1>8 DEF vars, RowsType, WorkType, PollType, HistoryType
<1> QED BY <1>1, <1>2, <1>4, <1>5, <1>6, <1>7, <1>8 DEF Next

\* Rows, workers, poller and offsets keep their types in every behaviour
\* (storage.py:335-353).
THEOREM ContactTypeCorrect == Spec => []TypeOK
<1>1. Init => TypeOK
  <2> SUFFICES ASSUME Init PROVE RowsType /\ WorkType /\ PollType /\ HistoryType
    BY TypeParts
  <2>1. RowsType
    <3>1. MaxNow \in Nat \ {0}
      BY ContactAssumption DEF ContactAssumption
    <3>2. [st |-> "none", at |-> 0, linked |-> FALSE] \in Row
      BY <3>1 DEF Row, Statuses, Times
    <3>3. rows = [m \in Msgs |-> [st |-> "none", at |-> 0, linked |-> FALSE]] /\ now = 1
      BY DEF Init
    <3>4. 1 \in 1 .. MaxNow
      BY <3>1
    <3> QED BY <3>2, <3>3, <3>4 DEF RowsType
  <2>2. updates = <<>> /\ offset = 0 /\ saved = 0 /\ ppc = "idle" /\ replied = ""
    BY DEF Init
  <2>3. PollType
    <3>1. <<>> \in Seq(Msgs) /\ Len(<<>>) = 0 /\ MaxReplies >= 0
      BY ContactAssumption DEF ContactAssumption
    <3>2. Len(updates) = 0 /\ updates \in Seq(Msgs)
      BY <2>2, <3>1
    <3>3. 0 \in 0 .. 0 /\ 0 <= MaxReplies
      BY <3>1
    <3> QED BY <2>2, <3>2, <3>3 DEF PollType
  <2> QED BY <2>1, <2>3 DEF Init, WorkType, HistoryType
<1>2. TypeOK /\ [Next]_vars => TypeOK'
  BY TypeStep
<1> QED BY <1>1, <1>2, PTL DEF Spec

-----------------------------------------------------------------------------
(* Nothing is posted or answered twice, and no row says what is not so. *)

\* A worker works on a row of its own, which has been posted exactly when its
\* request has taken effect (telegram_bridge.py:259-340).
WorkInv ==
  /\ \A w \in Workers :
       /\ wpc[w] # "idle" => rows[wmsg[w]].st # "none"
       /\ wpc[w] \in {"classify", "flight"} => posted[wmsg[w]] = 0
       /\ wpc[w] \in {"landed", "mark"} => posted[wmsg[w]] = 1
       /\ \A v \in Workers : v # w /\ wpc[w] # "idle" /\ wpc[v] # "idle" => wmsg[v] # wmsg[w]
  /\ \A m \in Msgs : rows[m].st = "none" => posted[m] = 0

\* While the poller delivers an answer, the row is claimed and the answer has been
\* shown exactly when Discord has performed the request (telegram_bridge.py:414-431).
AnswerInv ==
  /\ ppc \in {"deliver", "landed", "complete"} => rows[Handled].st = "responding"
  /\ ppc = "deliver" => answers[Handled] = 0
  /\ ppc = "landed" => answers[Handled] = 1
  /\ ppc = "complete" /\ replied = "ok" => answers[Handled] = 1

RelayInv == WorkInv /\ AnswerInv /\ PostedOnce /\ AnsweredOnce /\ RowsTrue /\ NoOrphanAnswer

\* A change of statuses that takes no row out of or into an answer, and leaves
\* links and histories alone, keeps what is true of answers.
LEMMA AnswerKept ==
  ASSUME TypeOK, RelayInv, UNCHANGED <<pollVars, updates, answers, stopped>>,
         \A m \in Msgs : \/ rows'[m].st = rows[m].st
                         \/ /\ rows[m].st \in {"none", "reserved"}
                            /\ rows'[m].st \in {"reserved", "sent", "failed"}
  PROVE  AnswerInv' /\ AnsweredOnce' /\ NoOrphanAnswer'
<1>1. PollType
  BY TypeParts
<1>2. ppc \in {"deliver", "landed", "complete"} => Handled \in Msgs
  BY <1>1, HandledMessage
<1>3. Handled' = Handled
  BY DEF Handled, pollVars
<1>4. AnswerInv'
  BY <1>2, <1>3 DEF RelayInv, AnswerInv, pollVars
<1>5. NoOrphanAnswer'
  BY <1>3 DEF RelayInv, NoOrphanAnswer, pollVars
<1> QED BY <1>4, <1>5 DEF RelayInv, AnsweredOnce

\* A worker's step keeps the invariant (telegram_bridge.py:259-340).
LEMMA RelayForward ==
  ASSUME TypeOK, RelayInv, NEW w \in Workers, Forward(w)
  PROVE  RelayInv'
<1>0. RowsType /\ WorkType /\ PollType /\ HistoryType
  BY TypeParts
<1>r. \A m \in Msgs : rows[m] \in Row
  BY <1>0 DEF RowsType
<1>1. ASSUME NEW m \in Msgs, Reserve(w, m)
      PROVE  RelayInv'
  <2>1. /\ rows'[m].st = "reserved" /\ ~ rows'[m].linked
        /\ \A k \in Msgs \ {m} : rows'[k] = Expired(rows)[k]
    BY <1>0, <1>1, ExpiredRow DEF Reserve
  <2>2. rows[m].st = "none"
    BY <1>0, <1>1, ExpiredRow DEF Reserve, Admissible
  <2>3. \A k \in Msgs \ {m} :
          /\ rows'[k].linked = rows[k].linked
          /\ \/ rows'[k].st = rows[k].st
             \/ rows[k].st = "reserved" /\ rows'[k].st = "failed"
    <3>1. \A k \in Msgs : /\ Expired(rows)[k].linked = rows[k].linked
                         /\ \/ Expired(rows)[k].st = rows[k].st
                            \/ rows[k].st = "reserved" /\ Expired(rows)[k].st = "failed"
      BY <1>0, ExpiredRow
    <3> QED BY <2>1, <3>1
  <2>4. AnswerInv' /\ AnsweredOnce' /\ NoOrphanAnswer'
    BY <1>1, <2>1, <2>2, <2>3, AnswerKept DEF Reserve, pollVars, history
  <2>5. WorkInv'
    <3>1. \A k \in Msgs : rows'[k].st = "none" => rows[k].st = "none"
      BY <2>1, <2>3
    <3>2. wpc' = [wpc EXCEPT ![w] = "classify"] /\ wmsg' = [wmsg EXCEPT ![w] = m] /\ posted' = posted
      BY <1>1 DEF Reserve, history
    <3>3. \A v \in Workers : wpc[v] # "idle" => wmsg[v] \in Msgs /\ wmsg[v] # m
      BY <1>0, <2>2 DEF RelayInv, WorkInv, WorkType
    <3>4. posted[m] = 0 /\ rows'[m].st # "none"
      BY <2>1, <2>2 DEF RelayInv, WorkInv
    <3> QED BY <1>0, <3>1, <3>2, <3>3, <3>4 DEF RelayInv, WorkInv, WorkType
  <2>6. PostedOnce' /\ RowsTrue'
    BY <1>1, <2>1, <2>2, <2>3 DEF Reserve, history, RelayInv, PostedOnce, RowsTrue
  <2> QED BY <2>4, <2>5, <2>6 DEF RelayInv
<1>2. CASE Send(w) \/ Accepted(w) \/ SendFails(w) \/ CancelForward(w)
  <2>1. /\ UNCHANGED <<rows, pollVars, updates, posted, answers, stopped>>
        /\ \A v \in Workers \ {w} : wpc'[v] = wpc[v] /\ wmsg'[v] = wmsg[v]
        /\ \/ wpc'[w] = "idle"
           \/ wmsg'[w] = wmsg[w] /\ wpc[w] # "idle" /\ wpc'[w] = "fail"
           \/ wmsg'[w] = wmsg[w] /\ wpc[w] = "classify" /\ wpc'[w] = "flight"
           \/ wmsg'[w] = wmsg[w] /\ wpc[w] = "landed" /\ wpc'[w] = "mark"
    BY <1>0, <1>2 DEF Send, Accepted, SendFails, CancelForward, WorkerAt, WorkerDone, WorkType, history
  <2>2. AnswerInv' /\ AnsweredOnce' /\ NoOrphanAnswer'
    BY <2>1, AnswerKept
  <2>3. WorkInv'
    BY <2>1 DEF RelayInv, WorkInv
  <2>4. PostedOnce' /\ RowsTrue'
    BY <2>1 DEF RelayInv, PostedOnce, RowsTrue
  <2> QED BY <2>2, <2>3, <2>4 DEF RelayInv
<1>3. CASE Post(w)
  <2>1. wmsg[w] \in Msgs /\ posted[wmsg[w]] = 0 /\ rows[wmsg[w]].st # "none"
    BY <1>0, <1>3 DEF Post, WorkerAt, WorkType, RelayInv, WorkInv
  <2>2. /\ UNCHANGED <<rows, pollVars, updates, wmsg, answers, stopped>>
        /\ posted'[wmsg[w]] = 1
        /\ \A m \in Msgs \ {wmsg[w]} : posted'[m] = posted[m]
        /\ wpc[w] = "flight" /\ wpc' = [wpc EXCEPT ![w] = "landed"]
    BY <1>0, <1>3, <2>1 DEF Post, WorkerAt, HistoryType
  <2>3. AnswerInv' /\ AnsweredOnce' /\ NoOrphanAnswer'
    BY <2>2, AnswerKept
  <2>4. WorkInv'
    <3>1. \A v \in Workers \ {w} : wpc[v] # "idle" => wmsg[v] \in Msgs \ {wmsg[w]}
      BY <1>0, <2>2 DEF WorkType, RelayInv, WorkInv
    <3> QED BY <1>0, <2>1, <2>2, <3>1 DEF WorkType, RelayInv, WorkInv
  <2>5. PostedOnce' /\ RowsTrue'
    BY <2>1, <2>2 DEF RelayInv, PostedOnce, RowsTrue
  <2> QED BY <2>3, <2>4, <2>5 DEF RelayInv
<1>4. CASE MarkSent(w) \/ MarkFailed(w)
  <2> DEFINE m == wmsg[w]
  <2>1. m \in Msgs /\ (MarkSent(w) => posted[m] = 1)
    BY <1>0, <1>4 DEF MarkSent, MarkFailed, WorkType, RelayInv, WorkInv
  <2>2. /\ \A k \in Msgs \ {m} : rows'[k] = rows[k]
        /\ \/ rows' = rows
           \/ /\ rows[m].st = "reserved" /\ rows'[m].st = "sent" /\ rows'[m].linked
              /\ posted[m] = 1
           \/ /\ rows[m].st = "reserved" /\ rows'[m].st = "failed"
              /\ rows'[m].linked = rows[m].linked
    BY <1>0, <1>4, <1>r, <2>1 DEF MarkSent, MarkFailed, RowsType, Row
  <2>3. /\ UNCHANGED <<pollVars, updates, posted, answers, stopped>>
        /\ wpc'[w] = "idle"
        /\ \A v \in Workers \ {w} : wpc'[v] = wpc[v] /\ wmsg'[v] = wmsg[v]
    BY <1>0, <1>4 DEF MarkSent, MarkFailed, WorkerDone, WorkType, history
  <2> HIDE DEF m
  <2>4. AnswerInv' /\ AnsweredOnce' /\ NoOrphanAnswer'
    BY <2>1, <2>2, <2>3, AnswerKept
  <2>5. WorkInv'
    BY <1>0, <2>1, <2>2, <2>3 DEF WorkType, RelayInv, WorkInv
  <2>6. PostedOnce' /\ RowsTrue'
    BY <2>1, <2>2, <2>3 DEF RelayInv, PostedOnce, RowsTrue
  <2> QED BY <2>4, <2>5, <2>6 DEF RelayInv
<1> QED BY <1>1, <1>2, <1>3, <1>4 DEF Forward

\* A step of the poller keeps the invariant (telegram_bridge.py:344-431).
LEMMA RelayPoll ==
  ASSUME TypeOK, RelayInv, Poll
  PROVE  RelayInv'
<1>0. RowsType /\ WorkType /\ PollType /\ HistoryType
  BY TypeParts
<1>r. \A m \in Msgs : rows[m] \in Row
  BY <1>0 DEF RowsType
<1>w. ASSUME UNCHANGED <<workVars, posted>>,
             \A m \in Msgs : rows[m].st # "none" => rows'[m].st # "none",
             \A m \in Msgs : rows[m].st = "none" => rows'[m].st = "none"
      PROVE  WorkInv' /\ PostedOnce'
  BY <1>0, <1>w DEF RelayInv, WorkInv, WorkType, PostedOnce, workVars
<1>1. CASE Lookup \/ Tell \/ TellFails \/ Save
  <2>1. UNCHANGED <<rows, workVars, posted, answers, stopped>>
    BY <1>1 DEF Lookup, Tell, TellFails, Save, history
  <2>2. /\ ppc \in {"idle", "tell", "unknown", "save"}
        /\ ppc' \in {"claim", "unknown", "save", "idle"}
    BY <1>1 DEF Lookup, Tell, TellFails, Save, PollerAt
  <2>3. WorkInv' /\ PostedOnce'
    BY <1>w, <2>1
  <2>4. AnsweredOnce' /\ RowsTrue'
    BY <2>1 DEF RelayInv, AnsweredOnce, RowsTrue
  <2>5. AnswerInv' /\ NoOrphanAnswer'
    BY <2>1, <2>2 DEF RelayInv, AnswerInv, NoOrphanAnswer
  <2> QED BY <2>3, <2>4, <2>5 DEF RelayInv
<1>2. ASSUME ppc \in {"claim", "deliver", "landed", "complete"}, UNCHANGED <<updates, offset>>
      PROVE  Handled \in Msgs /\ Handled' = Handled
  BY <1>0, <1>2, HandledMessage DEF Handled
<1>3. CASE Claim
  <2>1. ppc = "claim" /\ UNCHANGED <<workVars, updates, offset, posted, answers, stopped>>
    BY <1>3 DEF Claim, PollerAt, history
  <2>2. Handled \in Msgs /\ Handled' = Handled
    BY <1>2, <2>1
  <2> DEFINE h == Handled
  <2>3. \/ rows' = rows /\ ppc' = "tell"
        \/ /\ rows[h].st = "sent" /\ rows'[h].st = "responding" /\ ppc' = "deliver"
           /\ rows'[h].linked = rows[h].linked
           /\ \A k \in Msgs \ {h} : rows'[k] = rows[k]
    BY <1>0, <1>3, <1>r, <2>2 DEF Claim, Claimable, PollerAt, RowsType, Row
  <2>4. h \in Msgs /\ h' = h
    BY <2>2
  <2> HIDE DEF h
  <2>5. WorkInv' /\ PostedOnce'
    BY <1>w, <2>1, <2>3, <2>4
  <2>6. AnsweredOnce' /\ RowsTrue'
    BY <2>1, <2>3, <2>4 DEF RelayInv, AnsweredOnce, RowsTrue
  <2>7. AnswerInv' /\ NoOrphanAnswer'
    <3>1. rows[h].st = "sent" => answers[h] = 0
      BY <2>4 DEF RelayInv, RowsTrue
    <3> QED BY <2>1, <2>3, <2>4, <3>1 DEF h, RelayInv, AnswerInv, NoOrphanAnswer
  <2> QED BY <2>5, <2>6, <2>7 DEF RelayInv
<1>4. CASE Show
  <2>1. /\ ppc = "deliver" /\ ppc' = "landed"
        /\ UNCHANGED <<rows, workVars, updates, offset, posted, stopped>>
    BY <1>4 DEF Show, PollerAt
  <2>2. Handled \in Msgs /\ Handled' = Handled
    BY <1>2, <2>1
  <2>3. rows[Handled].st = "responding" /\ answers[Handled] = 0
    BY <2>1 DEF RelayInv, AnswerInv
  <2>4. answers'[Handled] = 1 /\ \A m \in Msgs \ {Handled} : answers'[m] = answers[m]
    BY <1>0, <1>4, <2>2, <2>3 DEF Show, HistoryType
  <2>5. WorkInv' /\ PostedOnce'
    BY <1>w, <2>1
  <2>6. AnsweredOnce' /\ RowsTrue'
    BY <2>1, <2>2, <2>3, <2>4 DEF RelayInv, AnsweredOnce, RowsTrue
  <2>7. AnswerInv' /\ NoOrphanAnswer'
    BY <2>1, <2>2, <2>3, <2>4 DEF RelayInv, AnswerInv, NoOrphanAnswer
  <2> QED BY <2>5, <2>6, <2>7 DEF RelayInv
<1>5. CASE Delivered \/ DeliveryFails
  <2>1. /\ UNCHANGED <<rows, workVars, updates, offset, posted, answers, stopped>>
        /\ ppc \in {"deliver", "landed"} /\ ppc' = "complete"
        /\ replied' = "ok" => ppc = "landed"
    BY <1>5 DEF Delivered, DeliveryFails, PollerAt, history
  <2>2. Handled \in Msgs /\ Handled' = Handled
    BY <1>2, <2>1
  <2>3. WorkInv' /\ PostedOnce'
    BY <1>w, <2>1
  <2>4. AnsweredOnce' /\ RowsTrue'
    BY <2>1 DEF RelayInv, AnsweredOnce, RowsTrue
  <2>5. AnswerInv' /\ NoOrphanAnswer'
    BY <2>1, <2>2 DEF RelayInv, AnswerInv, NoOrphanAnswer
  <2> QED BY <2>3, <2>4, <2>5 DEF RelayInv
<1>6. CASE Complete
  <2>1. /\ ppc = "complete" /\ ppc' = "tell"
        /\ UNCHANGED <<workVars, updates, offset, posted, answers, stopped>>
    BY <1>6 DEF Complete, PollerAt, history
  <2>2. Handled \in Msgs /\ Handled' = Handled
    BY <1>2, <2>1
  <2> DEFINE h == Handled
  <2>3. rows[h].st = "responding" /\ (replied = "ok" => answers[h] = 1)
    BY <2>1 DEF RelayInv, AnswerInv
  <2>4. /\ rows'[h].st = (IF replied = "ok" THEN "delivered" ELSE "delivery_failed")
        /\ rows'[h].linked = rows[h].linked
        /\ \A k \in Msgs \ {h} : rows'[k] = rows[k]
    BY <1>0, <1>6, <1>r, <2>2, <2>3 DEF Complete, RowsType, Row
  <2>5. h \in Msgs /\ h' = h
    BY <2>2
  <2>6. ~stopped => \A m \in Msgs : rows[m].st = "responding" => m = h
    BY DEF RelayInv, NoOrphanAnswer
  <2> HIDE DEF h
  <2>7. WorkInv' /\ PostedOnce'
    BY <1>w, <2>1, <2>3, <2>4, <2>5
  <2>8. AnsweredOnce' /\ RowsTrue'
    BY <2>1, <2>3, <2>4, <2>5 DEF RelayInv, AnsweredOnce, RowsTrue
  <2>9. AnswerInv' /\ NoOrphanAnswer'
    BY <2>1, <2>3, <2>4, <2>5, <2>6 DEF AnswerInv, NoOrphanAnswer
  <2> QED BY <2>7, <2>8, <2>9 DEF RelayInv
<1> QED BY <1>1, <1>3, <1>4, <1>5, <1>6 DEF Poll

\* Every step keeps the invariant.
LEMMA RelayStep ==
  ASSUME TypeOK, RelayInv, [Next]_vars
  PROVE  RelayInv'
<1>0. RowsType /\ WorkType /\ PollType /\ HistoryType
  BY TypeParts
<1>1. CASE \E w \in Workers : Forward(w)
  BY <1>1, RelayForward
<1>2. CASE Poll
  BY <1>2, RelayPoll
<1>3. CASE Refuse
  <2>1. \A m \in Msgs :
          /\ rows'[m].linked = rows[m].linked
          /\ \/ rows'[m].st = rows[m].st
             \/ rows[m].st = "reserved" /\ rows'[m].st = "failed"
    BY <1>0, <1>3, ExpiredRow DEF Refuse
  <2>2. UNCHANGED <<workVars, pollVars, updates, posted, answers, stopped>>
    BY <1>3 DEF Refuse, history
  <2>3. AnswerInv' /\ AnsweredOnce' /\ NoOrphanAnswer'
    BY <2>1, <2>2, AnswerKept
  <2>4. WorkInv'
    BY <1>0, <2>1, <2>2 DEF RelayInv, WorkInv, WorkType, workVars
  <2>5. PostedOnce' /\ RowsTrue'
    BY <2>1, <2>2 DEF RelayInv, PostedOnce, RowsTrue
  <2> QED BY <2>3, <2>4, <2>5 DEF RelayInv
<1>4. ASSUME NEW m \in Msgs, OwnerReplies(m)
      PROVE  RelayInv'
  <2>1. /\ UNCHANGED <<rows, workVars, pollVars, posted, answers, stopped>>
        /\ updates' = Append(updates, m)
    BY <1>4 DEF OwnerReplies, history
  <2>2. ppc # "idle" => Handled' = Handled
    <3>1. updates \in Seq(Msgs) /\ (ppc # "idle" => offset + 1 \in 1 .. Len(updates))
      BY <1>0, HandledMessage DEF PollType
    <3>2. \A n \in 1 .. Len(updates) : updates'[n] = updates[n]
      BY <2>1, <3>1
    <3> QED BY <2>1, <3>1, <3>2 DEF Handled, pollVars
  <2>3. AnswerInv' /\ NoOrphanAnswer'
    BY <2>1, <2>2 DEF RelayInv, AnswerInv, NoOrphanAnswer, pollVars
  <2> QED BY <2>1, <2>3 DEF RelayInv, WorkInv, PostedOnce, AnsweredOnce, RowsTrue, workVars
<1>5. CASE Restart
  <2>1. /\ UNCHANGED <<rows, posted, answers>>
        /\ stopped' /\ ppc' = "idle" /\ \A w \in Workers : wpc'[w] = "idle"
    BY <1>5 DEF Restart
  <2> QED BY <2>1 DEF RelayInv, WorkInv, AnswerInv, PostedOnce, AnsweredOnce, RowsTrue, NoOrphanAnswer
<1>6. CASE Clock \/ UNCHANGED vars
  <2>1. UNCHANGED <<rows, workVars, pollVars, updates, posted, answers, stopped>>
    BY <1>6 DEF Clock, vars, history, workVars, pollVars
  <2>2. Handled' = Handled
    BY <2>1 DEF Handled, pollVars
  <2> QED BY <2>1, <2>2
      DEF RelayInv, WorkInv, AnswerInv, PostedOnce, AnsweredOnce, RowsTrue, NoOrphanAnswer,
          workVars, pollVars
<1> QED BY <1>1, <1>2, <1>3, <1>4, <1>5, <1>6 DEF Next

\* The relay's invariant holds in every behaviour.
THEOREM RelaySafe == Spec => []RelayInv
<1>1. Init => RelayInv
  <2> SUFFICES ASSUME Init PROVE RelayInv
    OBVIOUS
  <2>1. \A m \in Msgs : /\ rows[m].st = "none" /\ ~ rows[m].linked
                       /\ posted[m] = 0 /\ answers[m] = 0
    BY DEF Init
  <2>2. ppc = "idle" /\ \A w \in Workers : wpc[w] = "idle"
    BY DEF Init
  <2> QED BY <2>1, <2>2
      DEF RelayInv, WorkInv, AnswerInv, PostedOnce, AnsweredOnce, RowsTrue, NoOrphanAnswer
<1>2. TypeOK /\ RelayInv /\ [Next]_vars => RelayInv'
  BY RelayStep
<1> QED BY <1>1, <1>2, ContactTypeCorrect, PTL DEF Spec

\* A message reaches the owner at most once, however many workers forward it,
\* whatever answers are lost and whenever the process stops
\* (storage.py:1453-1455, 1585-1594).
THEOREM RelayPostsOnce == Spec => []PostedOnce
<1>1. RelayInv => PostedOnce
  BY DEF RelayInv
<1> QED BY <1>1, RelaySafe, PTL

\* A request is answered at most once, what its row says is so, and an answer
\* under way has the poller behind it, unless the process stopped
\* (storage.py:1589-1698, telegram_bridge.py:414-431).
THEOREM RelayAnswersOnce == Spec => []AnswersTrue
<1>1. TypeOK /\ RelayInv => AnswersTrue
  BY DEF RelayInv, AnswersTrue
<1> QED BY <1>1, ContactTypeCorrect, RelaySafe, PTL

-----------------------------------------------------------------------------
(* The limits of storage.py:1498-1533, which only count rows of the table. *)

\* Any set of messages has a size, and a part of it is no larger.
LEMMA Fewer ==
  ASSUME NEW S \in SUBSET Msgs, NEW T \in SUBSET S
  PROVE  Cardinality(T) \in Nat /\ Cardinality(S) \in Nat /\ Cardinality(T) <= Cardinality(S)
<1>1. IsFiniteSet(S)
  BY ContactAssumption, FS_Subset DEF ContactAssumption
<1>2. IsFiniteSet(T) /\ Cardinality(T) <= Cardinality(S)
  BY <1>1, FS_Subset
<1> QED BY <1>1, <1>2, FS_CardinalityType

\* A set that is below a limit reaches it at most when one message joins.
LEMMA OneMore ==
  ASSUME NEW S \in SUBSET Msgs, NEW m \in Msgs, NEW n \in Nat, Cardinality(S) < n,
         NEW T \in SUBSET (S \cup {m})
  PROVE  Cardinality(T) <= n
<1>1. IsFiniteSet(S)
  BY ContactAssumption, FS_Subset DEF ContactAssumption
<1>2. Cardinality(S) \in Nat /\ Cardinality(S \cup {m}) <= Cardinality(S) + 1
  <2>1. Cardinality(S) \in Nat
    BY <1>1, FS_CardinalityType
  <2>2. Cardinality(S \cup {m}) = IF m \in S THEN Cardinality(S) ELSE Cardinality(S) + 1
    BY <1>1, FS_AddElement
  <2> QED BY <2>1, <2>2
<1>3. S \cup {m} \in SUBSET Msgs
  OBVIOUS
<1>4. /\ Cardinality(T) \in Nat /\ Cardinality(S \cup {m}) \in Nat
      /\ Cardinality(T) <= Cardinality(S \cup {m})
  BY <1>3, Fewer
<1> QED BY <1>2, <1>4

\* A row that is not counted any more, or not pending any more, disturbs no limit.
LEMMA LimitsShrink ==
  ASSUME LimitsKept, TypeOK,
         \A m \in Msgs : /\ rows'[m].at = rows[m].at
                         /\ m \in Counted(rows') => m \in Counted(rows)
                         /\ m \in Pending(rows') => m \in Pending(rows)
  PROVE  LimitsKept'
<1>1. Counted(rows') \subseteq Counted(rows) /\ Pending(rows') \subseteq Pending(rows)
  BY DEF Counted, Pending
<1>2. PendingBound'
  <2> SUFFICES ASSUME NEW u \in Users
               PROVE  Cardinality(Of(u, Pending(rows'))) <= MaxPending
    BY DEF PendingBound
  <2>1. /\ Of(u, Pending(rows)) \in SUBSET Msgs
        /\ Of(u, Pending(rows')) \in SUBSET Of(u, Pending(rows))
    BY <1>1 DEF Of, Pending
  <2>2. /\ Cardinality(Of(u, Pending(rows'))) <= Cardinality(Of(u, Pending(rows)))
        /\ Cardinality(Of(u, Pending(rows'))) \in Nat
        /\ Cardinality(Of(u, Pending(rows))) \in Nat
    BY <2>1, Fewer
  <2>3. Cardinality(Of(u, Pending(rows))) <= MaxPending /\ MaxPending \in Nat
    BY ContactAssumption DEF LimitsKept, PendingBound, ContactAssumption
  <2> QED BY <2>2, <2>3
<1>3. WindowBound'
  <2> SUFFICES ASSUME NEW from \in Times
               PROVE  /\ Cardinality({m \in Counted(rows') : rows'[m].at \in from .. from + Hour})
                           <= HourLimit
                      /\ \A u \in Users :
                           Cardinality({m \in Of(u, Counted(rows')) :
                                          rows'[m].at \in from .. from + Day}) <= DayLimit
    BY DEF WindowBound
  <2>0. HourLimit \in Nat /\ DayLimit \in Nat
    BY ContactAssumption DEF ContactAssumption
  <2> DEFINE H == {m \in Counted(rows) : rows[m].at \in from .. from + Hour}
             G == {m \in Counted(rows') : rows'[m].at \in from .. from + Hour}
  <2>1. H \in SUBSET Msgs /\ G \in SUBSET H
    BY <1>1 DEF Counted
  <2>2. Cardinality(H) <= HourLimit
    BY DEF LimitsKept, WindowBound
  <2>3. Cardinality(G) <= HourLimit
    <3> HIDE DEF H, G
    <3>1. Cardinality(G) \in Nat /\ Cardinality(H) \in Nat /\ Cardinality(G) <= Cardinality(H)
      BY <2>1, Fewer
    <3> QED BY <2>0, <2>2, <3>1
  <2>4. ASSUME NEW u \in Users
        PROVE  Cardinality({m \in Of(u, Counted(rows')) : rows'[m].at \in from .. from + Day})
                 <= DayLimit
    <3> DEFINE D == {m \in Of(u, Counted(rows)) : rows[m].at \in from .. from + Day}
               E == {m \in Of(u, Counted(rows')) : rows'[m].at \in from .. from + Day}
    <3>1. D \in SUBSET Msgs /\ E \in SUBSET D
      BY <1>1 DEF Counted, Of
    <3>2. Cardinality(D) <= DayLimit
      BY DEF LimitsKept, WindowBound
    <3>3. Cardinality(E) <= DayLimit
      <4> HIDE DEF D, E
      <4>1. Cardinality(E) \in Nat /\ Cardinality(D) \in Nat /\ Cardinality(E) <= Cardinality(D)
        BY <3>1, Fewer
      <4> QED BY <2>0, <3>2, <4>1
    <3> QED BY <3>3
  <2> QED BY <2>3, <2>4
<1>4. IntervalKept'
  BY <1>1 DEF LimitsKept, IntervalKept, Counted
<1> QED BY <1>2, <1>3, <1>4 DEF LimitsKept

\* A reservation is made only where every limit leaves room for it
\* (storage.py:1498-1543).
LEMMA LimitsReserve ==
  ASSUME LimitsKept, TypeOK, NEW w \in Workers, NEW m \in Msgs, Reserve(w, m)
  PROVE  LimitsKept'
<1>0. RowsType /\ ContactAssumption
  BY TypeParts, ContactAssumption
<1>a. /\ MaxPending \in Nat /\ HourLimit \in Nat /\ DayLimit \in Nat
      /\ Hour \in Nat /\ Day \in Nat /\ Interval \in Nat
      /\ Author[m] \in Users /\ now \in Int /\ MaxNow \in Nat
  BY <1>0 DEF ContactAssumption, RowsType
<1> DEFINE X == Expired(rows)
<1>1. X \in [Msgs -> Row] /\ Admissible(X, m)
  BY <1>0, ExpiredRow DEF Reserve
<1>2. /\ rows'[m].at = now
      /\ \A k \in Msgs \ {m} : rows'[k] = X[k]
  BY <1>1 DEF Reserve
<1>3. \A k \in Msgs : X[k].at = rows[k].at /\ X[k].at \in Times
  BY <1>0, <1>1, ExpiredRow DEF Row
<1>4. /\ Counted(X) \subseteq Counted(rows)
      /\ Pending(X) \subseteq Pending(rows)
  BY <1>0, ExpiredRow DEF Counted, Pending
<1>5. /\ Counted(rows') \subseteq Counted(X) \cup {m}
      /\ Pending(rows') \subseteq Pending(X) \cup {m}
  BY <1>2 DEF Counted, Pending
<1> HIDE DEF X
<1>6. PendingBound'
  <2> SUFFICES ASSUME NEW u \in Users
               PROVE  Cardinality(Of(u, Pending(rows'))) <= MaxPending
    BY DEF PendingBound
  <2>1. CASE u = Author[m]
    <3>1. Cardinality(Of(u, Pending(X))) < MaxPending
      BY <1>1, <2>1 DEF Admissible, BelowPending
    <3>2. /\ Of(u, Pending(X)) \in SUBSET Msgs
          /\ Of(u, Pending(rows')) \in SUBSET (Of(u, Pending(X)) \cup {m})
      BY <1>5 DEF Of, Pending
    <3> QED BY <1>a, <3>1, <3>2, OneMore
  <2>2. CASE u # Author[m]
    <3>1. /\ Of(u, Pending(rows)) \in SUBSET Msgs
          /\ Of(u, Pending(rows')) \in SUBSET Of(u, Pending(rows))
      BY <1>4, <1>5, <2>2 DEF Of, Pending
    <3>2. /\ Cardinality(Of(u, Pending(rows'))) <= Cardinality(Of(u, Pending(rows)))
          /\ Cardinality(Of(u, Pending(rows'))) \in Nat
          /\ Cardinality(Of(u, Pending(rows))) \in Nat
      BY <3>1, Fewer
    <3>3. Cardinality(Of(u, Pending(rows))) <= MaxPending
      BY DEF LimitsKept, PendingBound
    <3> QED BY <1>a, <3>2, <3>3
  <2> QED BY <2>1, <2>2
<1> DEFINE Since(T, span) == {k \in T : X[k].at >= now - span}
           Within(T, from, span) == {k \in T : X[k].at \in from .. from + span}
           WithinNext(S, from, span) == {k \in S : rows'[k].at \in from .. from + span}
<1>7. ASSUME NEW T \in SUBSET Msgs, NEW from \in Times, NEW span \in Nat, NEW n \in Nat,
             Cardinality(Since(T, span)) < n,
             Cardinality(Within(T, from, span)) <= n,
             NEW S \in SUBSET (T \cup {m})
      PROVE  Cardinality(WithinNext(S, from, span)) <= n
  <2> DEFINE G == {k \in S : rows'[k].at \in from .. from + span}
             A == {k \in T : X[k].at >= now - span}
             B == {k \in T : X[k].at \in from .. from + span}
  <2>0. from \in Int
    BY <1>a DEF Times
  <2>1. CASE now \in from .. from + span
    <3>1. A \in SUBSET Msgs /\ G \in SUBSET (A \cup {m})
      <4>1. ASSUME NEW k \in G, k # m
            PROVE  k \in A
        <5>1. k \in T /\ rows'[k] = X[k] /\ X[k].at \in from .. from + span
          BY <1>2, <4>1
        <5>2. X[k].at \in Int
          BY <1>3, <1>a, <5>1 DEF Times
        <5> QED BY <1>a, <2>0, <2>1, <5>1, <5>2
      <4> QED BY <4>1
    <3>2. Cardinality(A) < n
      BY <1>7
    <3> HIDE DEF G, A
    <3>3. Cardinality(G) <= n
      BY <3>1, <3>2, OneMore
    <3> QED BY <3>3 DEF G
  <2>2. CASE now \notin from .. from + span
    <3>1. B \in SUBSET Msgs /\ G \in SUBSET B
      BY <1>2, <2>2
    <3>2. Cardinality(B) <= n
      BY <1>7
    <3> HIDE DEF G, B
    <3>3. Cardinality(G) \in Nat /\ Cardinality(B) \in Nat /\ Cardinality(G) <= Cardinality(B)
      BY <3>1, Fewer
    <3>4. Cardinality(G) <= n
      BY <3>2, <3>3
    <3> QED BY <3>4 DEF G
  <2> QED BY <2>1, <2>2
<1>8. WindowBound'
  <2> SUFFICES ASSUME NEW from \in Times
               PROVE  /\ Cardinality({k \in Counted(rows') : rows'[k].at \in from .. from + Hour})
                           <= HourLimit
                      /\ \A u \in Users :
                           Cardinality({k \in Of(u, Counted(rows')) :
                                          rows'[k].at \in from .. from + Day}) <= DayLimit
    BY DEF WindowBound
  <2>1. Cardinality({k \in Counted(rows') : rows'[k].at \in from .. from + Hour}) <= HourLimit
    <3>1. Cardinality({k \in Counted(X) : X[k].at >= now - Hour}) < HourLimit
      BY <1>1 DEF Admissible, BelowWindows
    <3>2. Cardinality({k \in Counted(X) : X[k].at \in from .. from + Hour}) <= HourLimit
      <4> DEFINE A == {k \in Counted(X) : X[k].at \in from .. from + Hour}
                 B == {k \in Counted(rows) : rows[k].at \in from .. from + Hour}
      <4>1. B \in SUBSET Msgs /\ A \in SUBSET B
        BY <1>3, <1>4 DEF Counted
      <4>2. Cardinality(B) <= HourLimit
        BY DEF LimitsKept, WindowBound
      <4> HIDE DEF A, B
      <4>3. Cardinality(A) \in Nat /\ Cardinality(B) \in Nat /\ Cardinality(A) <= Cardinality(B)
        BY <4>1, Fewer
      <4>4. Cardinality(A) <= HourLimit
        BY <1>a, <4>2, <4>3
      <4> QED BY <4>4 DEF A
    <3>3. Counted(X) \in SUBSET Msgs /\ Counted(rows') \in SUBSET (Counted(X) \cup {m})
      BY <1>5 DEF Counted
    <3>4. /\ Cardinality(Since(Counted(X), Hour)) < HourLimit
          /\ Cardinality(Within(Counted(X), from, Hour)) <= HourLimit
      BY <3>1, <3>2
    <3>5. Cardinality(WithinNext(Counted(rows'), from, Hour)) <= HourLimit
      <4> HIDE DEF Since, Within, WithinNext
      <4> QED BY <1>a, <1>7, <3>3, <3>4
    <3> QED BY <3>5
  <2>2. ASSUME NEW u \in Users
        PROVE  Cardinality({k \in Of(u, Counted(rows')) : rows'[k].at \in from .. from + Day})
                 <= DayLimit
    <3> DEFINE A == {k \in Of(u, Counted(X)) : X[k].at \in from .. from + Day}
               B == {k \in Of(u, Counted(rows)) : rows[k].at \in from .. from + Day}
    <3>1. B \in SUBSET Msgs /\ A \in SUBSET B
      BY <1>3, <1>4 DEF Counted, Of
    <3>2. Cardinality(B) <= DayLimit
      BY DEF LimitsKept, WindowBound
    <3>3. Cardinality(A) <= DayLimit
      <4> HIDE DEF A, B
      <4>1. Cardinality(A) \in Nat /\ Cardinality(B) \in Nat /\ Cardinality(A) <= Cardinality(B)
        BY <3>1, Fewer
      <4> QED BY <1>a, <3>2, <4>1
    <3>4. CASE u = Author[m]
      <4>1. Cardinality({k \in Of(u, Counted(X)) : X[k].at >= now - Day}) < DayLimit
        BY <1>1, <3>4 DEF Admissible, BelowWindows
      <4>2. /\ Of(u, Counted(X)) \in SUBSET Msgs
            /\ Of(u, Counted(rows')) \in SUBSET (Of(u, Counted(X)) \cup {m})
        BY <1>5 DEF Counted, Of
      <4>3. /\ Cardinality(Since(Of(u, Counted(X)), Day)) < DayLimit
            /\ Cardinality(Within(Of(u, Counted(X)), from, Day)) <= DayLimit
        BY <3>3, <4>1
      <4>4. Cardinality(WithinNext(Of(u, Counted(rows')), from, Day)) <= DayLimit
        <5> HIDE DEF Since, Within, WithinNext
        <5> QED BY <1>a, <1>7, <4>2, <4>3
      <4> QED BY <4>4
    <3>5. CASE u # Author[m]
      <4> DEFINE E == {k \in Of(u, Counted(rows')) : rows'[k].at \in from .. from + Day}
      <4>1. A \in SUBSET Msgs /\ E \in SUBSET A
        BY <1>2, <1>5, <3>5 DEF Of, Counted
      <4> HIDE DEF A, E
      <4>2. Cardinality(E) \in Nat /\ Cardinality(A) \in Nat /\ Cardinality(E) <= Cardinality(A)
        BY <4>1, Fewer
      <4>3. Cardinality(E) <= DayLimit
        BY <1>a, <3>3, <4>2
      <4> QED BY <4>3 DEF E
    <3> QED BY <3>4, <3>5
  <2> QED BY <2>1, <2>2
<1>9. IntervalKept'
  <2>1. \A k \in Msgs \ {m} : k \in Counted(rows') =>
          k \in Counted(X) /\ k \in Counted(rows) /\ rows'[k].at = rows[k].at
    BY <1>2, <1>3, <1>4 DEF Counted
  <2>2. \A k \in Msgs \ {m} : k \in Counted(X) /\ Author[k] = Author[m] =>
          now - rows[k].at >= Interval
    BY <1>1, <1>3 DEF Admissible, Spaced, Of, Counted
  <2> QED BY <1>2, <2>1, <2>2 DEF LimitsKept, IntervalKept
<1> QED BY <1>6, <1>8, <1>9 DEF LimitsKept

\* Every step keeps the limits.
LEMMA LimitsStep ==
  ASSUME LimitsKept, TypeOK, [Next]_vars
  PROVE  LimitsKept'
<1>0. RowsType /\ WorkType /\ PollType
  BY TypeParts
<1>r. \A m \in Msgs : rows[m] \in Row
  BY <1>0 DEF RowsType
<1>1. ASSUME NEW w \in Workers, NEW m \in Msgs, Reserve(w, m)
      PROVE  LimitsKept'
  BY <1>1, LimitsReserve
<1>2. CASE rows' = rows
  BY <1>2, LimitsShrink
<1>3. CASE Refuse
  <2>1. \A m \in Msgs : /\ rows'[m].at = rows[m].at
                       /\ \/ rows'[m].st = rows[m].st
                          \/ rows[m].st = "reserved" /\ rows'[m].st = "failed"
    BY <1>0, <1>3, ExpiredRow DEF Refuse
  <2> QED BY <2>1, LimitsShrink DEF Counted, Pending
<1>4. ASSUME NEW w \in Workers, MarkSent(w) \/ MarkFailed(w)
      PROVE  LimitsKept'
  <2>1. wmsg[w] \in Msgs
    BY <1>0, <1>4 DEF MarkSent, MarkFailed, WorkType
  <2>2. \A m \in Msgs : /\ rows'[m].at = rows[m].at
                       /\ \/ rows'[m].st = rows[m].st
                          \/ rows[m].st = "reserved" /\ rows'[m].st \in {"sent", "failed"}
    BY <1>0, <1>4, <1>r, <2>1 DEF MarkSent, MarkFailed, RowsType, Row
  <2> QED BY <2>2, LimitsShrink DEF Counted, Pending
<1>5. CASE Claim \/ Complete
  <2>1. Handled \in Msgs
    BY <1>0, <1>5, HandledMessage DEF Claim, Complete, PollerAt
  <2>2. \A m \in Msgs : /\ rows'[m].at = rows[m].at
                       /\ \/ rows'[m].st = rows[m].st
                          \/ rows[m].st = "sent" /\ rows'[m].st = "responding"
                          \/ /\ rows[m].st = "responding"
                             /\ rows'[m].st \in {"delivered", "delivery_failed"}
    <3>1. CASE Claim
      BY <1>0, <1>r, <2>1, <3>1 DEF Claim, Claimable, RowsType, Row
    <3>2. CASE Complete
      BY <1>0, <1>r, <2>1, <3>2 DEF Complete, RowsType, Row
    <3> QED BY <1>5, <3>1, <3>2
  <2> QED BY <2>2, LimitsShrink DEF Counted, Pending
<1> QED
  BY <1>1, <1>2, <1>3, <1>4, <1>5
  DEF Next, Forward, Poll, Send, Post, Accepted, SendFails, CancelForward, OwnerReplies,
      Lookup, Show, Delivered, DeliveryFails, Tell, TellFails, Save, Restart, Clock, vars

\* A user never has more requests waiting than allowed, no hour and no user's day
\* holds more requests than allowed, and a user's requests keep their distance,
\* also when the clock is set back (storage.py:1498-1543).
THEOREM RelayWithinLimits == Spec => []LimitsKept
<1>1. Init => LimitsKept
  <2> SUFFICES ASSUME Init PROVE LimitsKept
    OBVIOUS
  <2>1. Counted(rows) = {} /\ Pending(rows) = {}
    BY DEF Init, Counted, Pending
  <2>2. Cardinality({}) = 0
    BY FS_EmptySet
  <2>3. MaxPending >= 0 /\ HourLimit >= 0 /\ DayLimit >= 0
    BY ContactAssumption DEF ContactAssumption
  <2>4. PendingBound
    <3>1. \A u \in Users : Of(u, Pending(rows)) = {}
      BY <2>1 DEF Of
    <3> QED BY <2>2, <2>3, <3>1 DEF PendingBound
  <2>5. WindowBound
    <3>1. \A from \in Times :
            /\ {m \in Counted(rows) : rows[m].at \in from .. from + Hour} = {}
            /\ \A u \in Users : {m \in Of(u, Counted(rows)) : rows[m].at \in from .. from + Day} = {}
      BY <2>1 DEF Of
    <3> QED BY <2>2, <2>3, <3>1 DEF WindowBound
  <2>6. IntervalKept
    BY <2>1 DEF IntervalKept
  <2> QED BY <2>4, <2>5, <2>6 DEF LimitsKept
<1>2. LimitsKept /\ TypeOK /\ [Next]_vars => LimitsKept'
  BY LimitsStep
<1> QED BY <1>1, <1>2, ContactTypeCorrect, PTL DEF Spec
=============================================================================
