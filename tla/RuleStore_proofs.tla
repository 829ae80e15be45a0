--------------------------- MODULE RuleStore_proofs ---------------------------
(***************************************************************************)
(* Lemmas about the rule table, for the proofs of the modules that use it: *)
(* what every transaction keeps, and that what is committed only moves     *)
(* forward, whatever is rolled back.                                       *)
(***************************************************************************)
EXTENDS RuleStore, FiniteSetTheorems, TLAPS

\* A transaction of the rule table, or the commit of one.
ForwardStep ==
  \/ \E a \in Authors, n \in Names, d \in Defs, e \in BOOLEAN :
       UpsertByName(a, n, d, e) \/ \E id \in Ids : UpsertById(id, a, n, d, e)
  \/ UpsertCommit
  \/ \E id \in Ids, e \in BOOLEAN : SetEnabled(id, e)
  \/ \E id \in Ids : Delete(id)

StoreStep == ForwardStep \/ UpsertRollback \/ StoreCrash

\* A rollback or a crash finds in the open transaction a table of rules and an
\* id, whatever statement opened it (storage.py:570-626).
LEMMA CommittedType ==
  ASSUME StoreTypeOK
  PROVE  Committed \in Table /\ CommittedNext \in 1 .. MaxId + 1
<1>1. CASE tx = NoTx
  BY <1>1 DEF StoreTypeOK, Committed, CommittedNext
<1>2. CASE tx \in OpenTx
  <2>1. tx # NoTx
    BY <1>2 DEF OpenTx, NoTx
  <2> QED BY <1>2, <2>1 DEF StoreTypeOK, Committed, CommittedNext, OpenTx
<1> QED BY <1>1, <1>2 DEF StoreTypeOK

\* Every transaction of the rule table keeps its type (storage.py:537-680).
LEMMA StoreStepType ==
  ASSUME StoreTypeOK,
         StoreStep
  PROVE  StoreTypeOK'
<1> USE StoreAssumption
<1>1. ASSUME NEW a \in Authors, NEW n \in Names, NEW d \in Defs, NEW e \in BOOLEAN,
             NEW id \in Ids, UpdateRow(id, a, n, d, e)
      PROVE  rules' \in Table /\ nextId' \in 1 .. MaxId + 1
  <2>1. rules[id] \in Rule
    BY <1>1 DEF StoreTypeOK, Table, UpdateRow, Exists
  <2>2. rules[id].rev + 1 \in Revs
    BY <1>1, <2>1 DEF Rule, Revs, UpdateRow
  <2>3. [owner |-> a, name |-> n, def |-> d, enabled |-> e, rev |-> rules[id].rev + 1] \in Rule
    BY <2>2 DEF Rule
  <2> QED BY <1>1, <2>3 DEF StoreTypeOK, Table, UpdateRow
<1>2. ASSUME NEW a \in Authors, NEW n \in Names, NEW d \in Defs, NEW e \in BOOLEAN,
             InsertRow(a, n, d, e)
      PROVE  rules' \in Table /\ nextId' \in 1 .. MaxId + 1
  <2>1. [owner |-> a, name |-> n, def |-> d, enabled |-> e, rev |-> 1] \in Rule
    BY DEF Rule, Revs
  <2> QED BY <1>2, <2>1 DEF StoreTypeOK, Table, InsertRow, Ids
<1>3. [open |-> TRUE, rules |-> rules, nextId |-> nextId] \in OpenTx
  BY DEF OpenTx, StoreTypeOK
<1>4. ASSUME NEW a \in Authors, NEW n \in Names, NEW d \in Defs, NEW e \in BOOLEAN,
             UpsertByName(a, n, d, e)
      PROVE  StoreTypeOK'
  <2>1. SameKey(a, n) \subseteq Ids
    BY DEF SameKey
  <2> QED BY <1>1, <1>2, <1>3, <1>4, <2>1 DEF UpsertByName, StoreTypeOK
<1>5. ASSUME NEW a \in Authors, NEW n \in Names, NEW d \in Defs, NEW e \in BOOLEAN,
             NEW id \in Ids, UpsertById(id, a, n, d, e)
      PROVE  StoreTypeOK'
  BY <1>1, <1>3, <1>5 DEF UpsertById, StoreTypeOK
<1>6. ASSUME UpsertCommit PROVE StoreTypeOK'
  BY <1>6 DEF UpsertCommit, StoreTypeOK
<1>7. ASSUME UpsertRollback PROVE StoreTypeOK'
  BY <1>7, CommittedType DEF UpsertRollback, LockFree, Committed, CommittedNext, StoreTypeOK
<1>8. ASSUME NEW id \in Ids, NEW e \in BOOLEAN, SetEnabled(id, e) PROVE StoreTypeOK'
  <2>1. rules[id] \in Rule
    BY <1>8 DEF StoreTypeOK, Table, SetEnabled, Exists
  <2>2. rules[id].rev + 1 \in Revs
    BY <1>8, <2>1 DEF Rule, Revs, SetEnabled
  <2>3. rules' \in Table
    BY <1>8, <2>1, <2>2 DEF StoreTypeOK, Table, SetEnabled, Rule
  <2> QED BY <1>8, <2>3 DEF StoreTypeOK, SetEnabled
<1>9. ASSUME NEW id \in Ids, Delete(id) PROVE StoreTypeOK'
  BY <1>9 DEF Delete, StoreTypeOK, Table
<1>10. ASSUME StoreCrash PROVE StoreTypeOK'
  BY <1>10, CommittedType DEF StoreCrash, StoreTypeOK
<1> QED BY <1>4, <1>5, <1>6, <1>7, <1>8, <1>9, <1>10 DEF StoreStep, ForwardStep

-----------------------------------------------------------------------------
\* What is true of a table and of the ids handed out with it.

\* Every rule has an id that was handed out.
Handed(table, next) == \A id \in Ids : table[id] # NoRule => id < next

\* The unique index over guild, owner and name.
KeysDiffer(table) ==
  \A i, j \in Ids : table[i] # NoRule /\ table[j] # NoRule /\ i # j =>
    <<table[i].owner, table[i].name>> # <<table[j].owner, table[j].name>>

Fits(table) == Cardinality({id \in Ids : table[id] # NoRule}) <= RuleLimit

Sound(table, next) == Handed(table, next) /\ KeysDiffer(table) /\ Fits(table)

\* The second table comes after the first: no id is taken back, a deleted rule
\* stays deleted, and a rule that is not the same is a later revision of it.
Later(table, next, after, afterNext) ==
  /\ next <= afterNext
  /\ \A id \in Ids : id < next =>
       \/ after[id] = NoRule
       \/ /\ table[id] # NoRule
          /\ \/ after[id] = table[id]
             \/ after[id].owner = table[id].owner /\ after[id].rev > table[id].rev

StoreInv ==
  /\ Sound(rules, nextId)
  /\ Sound(Committed, CommittedNext)
  /\ Later(Committed, CommittedNext, rules, nextId)

\* The ids are finitely many.
LEMMA IdsFinite ==
  ASSUME NEW S, S \subseteq Ids
  PROVE  IsFiniteSet(S) /\ Cardinality(S) \in Nat
<1>1. IsFiniteSet(Ids)
  BY StoreAssumption, FS_Interval DEF Ids
<1> QED BY <1>1, FS_Subset, FS_CardinalityType

\* A rule that is replaced by a later revision of its owner's, under a name the
\* owner does not use elsewhere, keeps the table sound (storage.py:578-592).
LEMMA UpdateRowSound ==
  ASSUME StoreTypeOK, Sound(rules, nextId),
         NEW a \in Authors, NEW n \in Names, NEW d \in Defs, NEW e \in BOOLEAN, NEW id \in Ids,
         UpdateRow(id, a, n, d, e)
  PROVE  Sound(rules, nextId)' /\ Later(rules, nextId, rules', nextId')
<1> DEFINE row == [owner |-> a, name |-> n, def |-> d, enabled |-> e, rev |-> rules[id].rev + 1]
<1>1. /\ rules[id] \in Rule /\ rules[id] # NoRule /\ rules[id].owner = a
      /\ rules' = [rules EXCEPT ![id] = row] /\ nextId' = nextId
      /\ SameKey(a, n) \subseteq {id}
  BY DEF UpdateRow, StoreTypeOK, Table, Exists
<1>2. rules'[id] = row /\ \A i \in Ids \ {id} : rules'[i] = rules[i]
  BY <1>1 DEF StoreTypeOK, Table
<1>3. row.rev > rules[id].rev /\ row # NoRule /\ row.owner = a /\ row.name = n
  <2>1. rules[id].rev \in Nat /\ rules[id].rev >= 1
    BY <1>1, StoreAssumption DEF Rule, Revs
  <2>2. row.rev # 0
    BY <2>1
  <2> QED BY <2>1, <2>2 DEF NoRule
<1>4. nextId \in Nat
  BY StoreAssumption DEF StoreTypeOK
<1> HIDE DEF row
<1>5. {i \in Ids : rules'[i] # NoRule} = {i \in Ids : rules[i] # NoRule}
  BY <1>1, <1>2, <1>3
<1>6. Handed(rules, nextId)' /\ Fits(rules)'
  BY <1>1, <1>5 DEF Sound, Handed, Fits
<1>7. \A i \in Ids : rules[i] # NoRule /\ rules[i].owner = a /\ rules[i].name = n => i = id
  BY <1>1 DEF SameKey, Exists
<1>8. KeysDiffer(rules)'
  BY <1>2, <1>3, <1>7 DEF Sound, KeysDiffer
<1>9. Later(rules, nextId, rules', nextId')
  BY <1>1, <1>2, <1>3, <1>4 DEF Later, Sound, Handed
<1> QED BY <1>6, <1>8, <1>9 DEF Sound

\* A new rule has an id of its own and a place under the limit
\* (storage.py:594-607).
LEMMA InsertRowSound ==
  ASSUME StoreTypeOK, Sound(rules, nextId),
         NEW a \in Authors, NEW n \in Names, NEW d \in Defs, NEW e \in BOOLEAN,
         SameKey(a, n) = {}, InsertRow(a, n, d, e)
  PROVE  Sound(rules, nextId)' /\ Later(rules, nextId, rules', nextId')
<1> DEFINE row == [owner |-> a, name |-> n, def |-> d, enabled |-> e, rev |-> 1]
           Old == {i \in Ids : rules[i] # NoRule}
<1>1. /\ nextId \in Ids /\ nextId' = nextId + 1
      /\ rules' = [rules EXCEPT ![nextId] = row]
      /\ Cardinality(Old) < RuleLimit
  BY DEF InsertRow, Exists
<1>2. rules'[nextId] = row /\ \A i \in Ids \ {nextId} : rules'[i] = rules[i]
  BY <1>1 DEF StoreTypeOK, Table
<1>3. row # NoRule /\ row.owner = a /\ row.name = n
  <2>1. row.rev = 1 /\ NoRule.rev = 0
    BY DEF NoRule
  <2> QED BY <2>1
<1>4. nextId \in Nat /\ RuleLimit \in Nat /\ \A i \in Ids : i \in Nat
  BY StoreAssumption DEF StoreTypeOK, Ids
<1>5. nextId \notin Old
  BY <1>4 DEF Sound, Handed
<1> HIDE DEF row
<1>6. {i \in Ids : rules'[i] # NoRule} = Old \cup {nextId}
  BY <1>1, <1>2, <1>3
<1>7. IsFiniteSet(Old) /\ Cardinality(Old) \in Nat
  BY IdsFinite
<1>8. Cardinality(Old \cup {nextId}) = Cardinality(Old) + 1
  BY <1>5, <1>7, FS_AddElement
<1>9. Fits(rules)'
  BY <1>1, <1>4, <1>6, <1>7, <1>8 DEF Fits
<1>10. Handed(rules, nextId)'
  BY <1>1, <1>2, <1>4 DEF Sound, Handed
<1>11. \A i \in Ids : rules[i] # NoRule => ~(rules[i].owner = a /\ rules[i].name = n)
  BY DEF SameKey, Exists
<1>12. KeysDiffer(rules)'
  BY <1>2, <1>3, <1>11 DEF Sound, KeysDiffer
<1>13. Later(rules, nextId, rules', nextId')
  BY <1>1, <1>2, <1>4 DEF Later
<1> QED BY <1>9, <1>10, <1>12, <1>13 DEF Sound

\* A pause is a later revision of the row (storage.py:649-663).
LEMMA SetEnabledSound ==
  ASSUME StoreTypeOK, Sound(rules, nextId), NEW id \in Ids, NEW e \in BOOLEAN, SetEnabled(id, e)
  PROVE  Sound(rules, nextId)' /\ Later(rules, nextId, rules', nextId')
<1>1. rules[id] \in Rule /\ rules[id] # NoRule
  BY DEF SetEnabled, StoreTypeOK, Table, Exists
<1>2. /\ rules'[id] = [rules[id] EXCEPT !.enabled = e, !.rev = rules[id].rev + 1]
      /\ \A i \in Ids \ {id} : rules'[i] = rules[i]
      /\ nextId' = nextId
  BY DEF SetEnabled, StoreTypeOK, Table
<1>3. /\ rules'[id].owner = rules[id].owner /\ rules'[id].name = rules[id].name
      /\ rules'[id].rev > rules[id].rev /\ rules'[id] # NoRule
  <2>1. rules[id].rev \in Nat /\ rules[id].rev >= 1
    BY <1>1, StoreAssumption DEF Rule, Revs
  <2>2. /\ rules'[id].owner = rules[id].owner /\ rules'[id].name = rules[id].name
        /\ rules'[id].rev = rules[id].rev + 1
    BY <1>1, <1>2 DEF Rule
  <2>3. rules'[id].rev # 0
    BY <2>1, <2>2
  <2> QED BY <2>1, <2>2, <2>3 DEF NoRule
<1>4. {i \in Ids : rules'[i] # NoRule} = {i \in Ids : rules[i] # NoRule}
  BY <1>1, <1>2, <1>3
<1>5. Handed(rules, nextId)' /\ Fits(rules)'
  BY <1>2, <1>4 DEF Sound, Handed, Fits
<1>9. \A i \in Ids :
        /\ rules'[i].owner = rules[i].owner /\ rules'[i].name = rules[i].name
        /\ rules'[i] # NoRule => rules[i] # NoRule
  BY <1>1, <1>2, <1>3
<1>6. KeysDiffer(rules)'
  <2> SUFFICES ASSUME NEW i \in Ids, NEW j \in Ids, rules'[i] # NoRule, rules'[j] # NoRule, i # j
               PROVE  <<rules'[i].owner, rules'[i].name>> # <<rules'[j].owner, rules'[j].name>>
    BY DEF KeysDiffer
  <2>1. <<rules[i].owner, rules[i].name>> # <<rules[j].owner, rules[j].name>>
    BY <1>9 DEF Sound, KeysDiffer
  <2> QED BY <1>9, <2>1
<1>7. nextId \in Nat
  BY StoreAssumption DEF StoreTypeOK
<1>8. Later(rules, nextId, rules', nextId')
  <2> SUFFICES ASSUME NEW i \in Ids, rules'[i] # NoRule
               PROVE  /\ rules[i] # NoRule
                      /\ \/ rules'[i] = rules[i]
                         \/ rules'[i].owner = rules[i].owner /\ rules'[i].rev > rules[i].rev
    BY <1>2, <1>7 DEF Later
  <2>1. CASE i = id
    BY <2>1, <1>1, <1>3
  <2>2. CASE i # id
    BY <2>2, <1>2
  <2> QED BY <2>1, <2>2
<1> QED BY <1>5, <1>6, <1>8 DEF Sound

\* A deletion only takes a row away (storage.py:667-680).
LEMMA DeleteSound ==
  ASSUME StoreTypeOK, Sound(rules, nextId), NEW id \in Ids, Delete(id)
  PROVE  Sound(rules, nextId)' /\ Later(rules, nextId, rules', nextId')
<1> DEFINE Old == {i \in Ids : rules[i] # NoRule}
           New == {i \in Ids : rules'[i] # NoRule}
<1>1. /\ rules'[id] = NoRule /\ nextId' = nextId
      /\ \A i \in Ids \ {id} : rules'[i] = rules[i]
  BY DEF Delete, StoreTypeOK, Table
<1>2. Handed(rules, nextId)' /\ KeysDiffer(rules)'
  BY <1>1 DEF Sound, Handed, KeysDiffer
<1>3. New \subseteq Old
  BY <1>1
<1>4. Cardinality(New) <= Cardinality(Old) /\ Cardinality(New) \in Nat /\ Cardinality(Old) \in Nat
  BY <1>3, IdsFinite, FS_Subset
<1>5. Fits(rules)'
  BY <1>4, StoreAssumption DEF Sound, Fits
<1>6. nextId \in Nat
  BY StoreAssumption DEF StoreTypeOK
<1>7. Later(rules, nextId, rules', nextId')
  BY <1>1, <1>6 DEF Later, Sound, Handed
<1> QED BY <1>2, <1>5, <1>7 DEF Sound

\* A table comes after itself.
LEMMA LaterSame ==
  ASSUME NEW table, NEW next \in Int
  PROVE  Later(table, next, table, next)
BY DEF Later

\* A statement that is not taken back moves the table this connection sees
\* forward as well (storage.py:578-680).
LEMMA ForwardStepLater ==
  ASSUME StoreTypeOK, StoreInv, ForwardStep
  PROVE  Later(rules, nextId, rules', nextId')
<1>1. CASE UpsertCommit
  BY <1>1, LaterSame DEF UpsertCommit, StoreTypeOK
<1>2. ASSUME NEW a \in Authors, NEW n \in Names, NEW d \in Defs, NEW e \in BOOLEAN,
             UpsertByName(a, n, d, e)
      PROVE  Later(rules, nextId, rules', nextId')
  <2>1. SameKey(a, n) \subseteq Ids
    BY DEF SameKey
  <2> QED BY <1>2, <2>1, InsertRowSound, UpdateRowSound DEF UpsertByName, StoreInv
<1>3. ASSUME NEW a \in Authors, NEW n \in Names, NEW d \in Defs, NEW e \in BOOLEAN,
             NEW id \in Ids, UpsertById(id, a, n, d, e)
      PROVE  Later(rules, nextId, rules', nextId')
  BY <1>3, UpdateRowSound DEF UpsertById, StoreInv
<1>4. ASSUME NEW id \in Ids, NEW e \in BOOLEAN, SetEnabled(id, e) \/ Delete(id)
      PROVE  Later(rules, nextId, rules', nextId')
  BY <1>4, SetEnabledSound, DeleteSound DEF StoreInv
<1> QED BY <1>1, <1>2, <1>3, <1>4 DEF ForwardStep

\* What is committed stays sound and only moves forward: an upsert that is rolled
\* back, or lost in a crash, leaves what was committed before it, and its id is
\* handed out again only because no reader that committed ever had it
\* (storage.py:565-626).
LEMMA StoreInvStep ==
  ASSUME StoreTypeOK, StoreInv, StoreStep \/ UNCHANGED storeVars
  PROVE  StoreInv' /\ Later(Committed, CommittedNext, Committed', CommittedNext')
<1>0. nextId \in Int /\ CommittedNext \in Int /\ Committed \in Table
  BY CommittedType DEF StoreTypeOK
<1>c. LockFree => Committed = rules /\ CommittedNext = nextId
  BY DEF LockFree, Committed, CommittedNext
<1>1. ASSUME LockFree, tx' = [open |-> TRUE, rules |-> rules, nextId |-> nextId],
             Sound(rules, nextId)', Later(rules, nextId, rules', nextId')
      PROVE  StoreInv' /\ Later(Committed, CommittedNext, Committed', CommittedNext')
  <2>1. tx' # NoTx
    BY <1>1 DEF NoTx
  <2>2. Committed' = rules /\ CommittedNext' = nextId
    BY <1>1, <2>1 DEF Committed, CommittedNext
  <2> QED BY <1>0, <1>c, <1>1, <2>2, LaterSame DEF StoreInv, Sound, Handed, KeysDiffer, Fits, Later
<1>2. ASSUME LockFree, tx' = tx, nextId' = nextId, Sound(rules, nextId)',
             Later(rules, nextId, rules', nextId')
      PROVE  StoreInv' /\ Later(Committed, CommittedNext, Committed', CommittedNext')
  <2>1. Committed' = rules' /\ CommittedNext' = nextId'
    BY <1>2 DEF LockFree, Committed, CommittedNext
  <2> QED BY <1>0, <1>c, <1>2, <2>1, LaterSame DEF StoreInv
<1>3. ASSUME tx' = NoTx, nextId' \in Int, Sound(rules, nextId)',
             Later(Committed, CommittedNext, rules', nextId')
      PROVE  StoreInv' /\ Later(Committed, CommittedNext, Committed', CommittedNext')
  <2>1. Committed' = rules' /\ CommittedNext' = nextId'
    BY <1>3 DEF Committed, CommittedNext
  <2> QED BY <1>3, <2>1, LaterSame DEF StoreInv, Sound, Handed, KeysDiffer, Fits, Later
<1>4. ASSUME NEW a \in Authors, NEW n \in Names, NEW d \in Defs, NEW e \in BOOLEAN,
             UpsertByName(a, n, d, e)
      PROVE  StoreInv' /\ Later(Committed, CommittedNext, Committed', CommittedNext')
  <2>1. CASE SameKey(a, n) = {} /\ InsertRow(a, n, d, e)
    BY <1>1, <1>4, <2>1, InsertRowSound DEF UpsertByName, StoreInv
  <2>2. ASSUME NEW id \in SameKey(a, n), UpdateRow(id, a, n, d, e)
        PROVE  StoreInv' /\ Later(Committed, CommittedNext, Committed', CommittedNext')
    <3>1. id \in Ids
      BY DEF SameKey
    <3> QED BY <1>1, <1>4, <2>2, <3>1, UpdateRowSound DEF UpsertByName, StoreInv
  <2> QED BY <1>4, <2>1, <2>2 DEF UpsertByName
<1>5. ASSUME NEW a \in Authors, NEW n \in Names, NEW d \in Defs, NEW e \in BOOLEAN,
             NEW id \in Ids, UpsertById(id, a, n, d, e)
      PROVE  StoreInv' /\ Later(Committed, CommittedNext, Committed', CommittedNext')
  BY <1>1, <1>5, UpdateRowSound DEF UpsertById, StoreInv
<1>6. CASE UpsertCommit
  BY <1>0, <1>3, <1>6 DEF UpsertCommit, StoreInv, Sound, Handed, KeysDiffer, Fits, Later
<1>7. CASE UpsertRollback \/ StoreCrash
  <2>1. rules' = Committed /\ nextId' = CommittedNext /\ tx' = NoTx
    BY <1>7 DEF UpsertRollback, StoreCrash, LockFree, Committed, CommittedNext
  <2> QED BY <1>0, <1>3, <2>1, LaterSame DEF StoreInv, Sound, Handed, KeysDiffer, Fits
<1>8. ASSUME NEW id \in Ids, NEW e \in BOOLEAN, SetEnabled(id, e)
      PROVE  StoreInv' /\ Later(Committed, CommittedNext, Committed', CommittedNext')
  BY <1>2, <1>8, SetEnabledSound DEF SetEnabled, StoreInv
<1>9. ASSUME NEW id \in Ids, Delete(id)
      PROVE  StoreInv' /\ Later(Committed, CommittedNext, Committed', CommittedNext')
  BY <1>2, <1>9, DeleteSound DEF Delete, StoreInv
<1>10. CASE UNCHANGED storeVars
  <2>1. Committed' = Committed /\ CommittedNext' = CommittedNext /\ rules' = rules /\ nextId' = nextId
    BY <1>10 DEF storeVars, Committed, CommittedNext
  <2> QED BY <1>0, <2>1, LaterSame DEF StoreInv, Sound, Handed, KeysDiffer, Fits
<1> QED BY <1>4, <1>5, <1>6, <1>7, <1>8, <1>9, <1>10 DEF StoreStep, ForwardStep

\* An empty table is sound.
LEMMA StoreInvInit == StoreInit => StoreInv
<1> SUFFICES ASSUME StoreInit PROVE StoreInv
  OBVIOUS
<1>1. Committed = rules /\ CommittedNext = nextId /\ \A id \in Ids : rules[id] = NoRule
  BY DEF StoreInit, Committed, CommittedNext
<1>2. Cardinality({id \in Ids : rules[id] # NoRule}) = 0
  <2>1. {id \in Ids : rules[id] # NoRule} = {}
    BY <1>1
  <2> QED BY <2>1, FS_EmptySet
<1>3. Sound(rules, nextId)
  BY <1>1, <1>2, StoreAssumption DEF Sound, Handed, KeysDiffer, Fits
<1>4. nextId \in Int
  BY DEF StoreInit
<1> QED BY <1>1, <1>3, <1>4, LaterSame DEF StoreInv
=============================================================================
