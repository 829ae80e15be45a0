---------------------------- MODULE Upkeep_proofs ----------------------------
(***************************************************************************)
(* Proofs about what keeps state: the journal of actions and their undo,    *)
(* the copies of the database, the small tables on its connection, the log  *)
(* channels, the log of messages and the memory of P.OS.                    *)
(***************************************************************************)
EXTENDS UndoJournal, BackupRestore, SettingsStore, LogChannels, EventLog, AIMemory,
        Positions_proofs, FiniteSetTheorems, WellFoundedInduction, SequenceTheorems, TLAPS

-----------------------------------------------------------------------------
\* Numbers.

\* A bounded set of natural numbers has a greatest element, and Max is it.
LEMMA MaxIs ==
  ASSUME NEW n \in Nat, NEW S \in SUBSET (0 .. n), S # {}
  PROVE  Max(S) \in S /\ \A s \in S : s <= Max(S)
<1> DEFINE T == {n - s : s \in S}
<1>1. T \in SUBSET Nat /\ T # {}
  <2>1. \A s \in S : s \in 0 .. n
    OBVIOUS
  <2>2. \A s \in S : n - s \in Nat
    BY <2>1
  <2> QED BY <2>2
<1>2. PICK t \in T : \A y \in T : t <= y
  BY <1>1, NatLeast
<1>3. PICK m \in S : t = n - m
  BY <1>2
<1>4. ASSUME NEW s \in S PROVE m >= s
  <2>1. n - s \in T
    OBVIOUS
  <2>2. t <= n - s
    BY <1>2, <2>1
  <2> QED BY <1>3, <2>2
<1>5. \E x \in S : \A y \in S : x >= y
  BY <1>4
<1>6. Max(S) \in S /\ \A y \in S : Max(S) >= y
  BY <1>5 DEF Max
<1> QED BY <1>6

-----------------------------------------------------------------------------
\* The journal of actions and their undo.

\* What a call is at, when it is at work.
Working ==
  [pc : {"row", "finish"}, all : SUBSET Ids, left : SUBSET Ids, put : SUBSET Attrs,
   outcome : Final, full : BOOLEAN]

\* A row is to be finished while it is left, and only an exact one was tried.
FinishFits(u) ==
  undo[u].pc = "finish" =>
    undo[u].left # {} /\ (undo[u].outcome # "acknowledged" => rows[Current(u)].exact)

\* What is left comes before all that is finished.
LastFirst(u) == \A r \in undo[u].left, s \in undo[u].all \ undo[u].left : r < s

\* As long as the call would say that the group is undone, all it has finished is.
UndoneSoFar(u) ==
  undo[u].full => \A r \in undo[u].all \ undo[u].left : rows[r].exact /\ rows[r].st = "undone"

\* The rows a call has been through: what is no longer left, and what is to be finished.
Through(u) ==
  (undo[u].all \ undo[u].left) \cup (IF undo[u].pc = "finish" THEN {Current(u)} ELSE {})

\* So far an attribute that the call was the last to write is what the first row
\* it has been through wants it to be.
RestoredSoFar(u) ==
  undo[u].full /\ (undo[u].pc = "finish" => undo[u].outcome = "undone") =>
    \A r \in Through(u) :
      /\ rows[r].attr \in undo[u].put
      /\ \A s \in Through(u) : rows[s].attr = rows[r].attr => r <= s
      => world[rows[r].attr] = rows[r].old

\* What a call at work relies on: its rows are claimed and no one takes them back.
CallFits(u) ==
  undo[u] # Idle =>
    /\ \A r \in undo[u].left : rows[r].st = "in_progress" /\ ~rows[r].aged
    /\ FinishFits(u) /\ LastFirst(u) /\ UndoneSoFar(u) /\ RestoredSoFar(u)

\* No row is held by two calls.
HeldOnce == \A u, w \in Undos : u # w => \A r \in Ids : ~ (Holds(u, r) /\ Holds(w, r))

\* The inductive invariant of the journal.
UndoInv == TypeOK /\ HeldOnce /\ \A u \in Undos : CallFits(u)

-----------------------------------------------------------------------------
\* Idling is nothing a call is at.
LEMMA IdleIsNot == \A c \in Working : c # Idle
<1>1. Idle.pc = "idle"
  BY DEF Idle
<1> QED BY <1>1 DEF Working

\* A call at work has the fields of one.
LEMMA WorkingCall ==
  ASSUME TypeOK, NEW u \in Undos, undo[u] # Idle
  PROVE  undo[u] \in Working
<1>1. undo[u] \in UndoState
  BY DEF TypeOK
<1> QED BY <1>1 DEF UndoState, Working

\* A row of the journal, its fields and its number.
LEMMA JournalRow ==
  ASSUME TypeOK, NEW r \in 1 .. Len(rows)
  PROVE  /\ rows[r] \in Row /\ r \in Ids
         /\ rows[r].st \in {"ready", "undone", "failed"} => rows[r].exact
         /\ rows[r].st = "not_reversible" => ~rows[r].exact
         /\ rows[r].aged => rows[r].st = "in_progress"
<1>1. rows[r] \in Row
  BY ElementOfSeq DEF TypeOK
<1>2. Len(rows) \in Nat /\ Len(rows) <= MaxRows
  BY LenProperties DEF TypeOK
<1> QED BY <1>1, <1>2, UndoAssumption DEF TypeOK, Ids

\* The rows of a call at work are in the journal.
LEMMA CallRows ==
  ASSUME TypeOK, NEW u \in Undos, undo[u] # Idle
  PROVE  /\ undo[u].all \subseteq 1 .. Len(rows) /\ undo[u].left \subseteq undo[u].all
         /\ \A r, s \in undo[u].all : rows[r].grp = rows[s].grp
BY DEF TypeOK

\* The row a call is at is the last of those left.
LEMMA CurrentIs ==
  ASSUME TypeOK, NEW u \in Undos, undo[u] # Idle, undo[u].left # {}
  PROVE  Current(u) \in undo[u].left /\ \A s \in undo[u].left : s <= Current(u)
<1>1. Len(rows) \in Nat
  BY LenProperties DEF TypeOK
<1>2. undo[u].left \in SUBSET (0 .. Len(rows))
  BY <1>1, CallRows
<1> QED BY <1>1, <1>2, MaxIs DEF Current

\* What an attribute's new value leaves of the calls: all, but it is no longer theirs.
LEMMA OverwrittenCalls ==
  ASSUME TypeOK, NEW a \in Attrs
  PROVE  /\ Overwritten(a) \in [Undos -> UndoState]
         /\ \A u \in Undos :
              /\ undo[u] = Idle => Overwritten(a)[u] = Idle
              /\ undo[u] # Idle =>
                   /\ Overwritten(a)[u] \in Working
                   /\ Overwritten(a)[u].pc = undo[u].pc /\ Overwritten(a)[u].all = undo[u].all
                   /\ Overwritten(a)[u].left = undo[u].left
                   /\ Overwritten(a)[u].outcome = undo[u].outcome
                   /\ Overwritten(a)[u].full = undo[u].full
                   /\ Overwritten(a)[u].put = undo[u].put \ {a}
<1>1. ASSUME NEW u \in Undos, undo[u] # Idle
      PROVE  /\ Overwritten(a)[u] \in Working
             /\ Overwritten(a)[u].pc = undo[u].pc /\ Overwritten(a)[u].all = undo[u].all
             /\ Overwritten(a)[u].left = undo[u].left
             /\ Overwritten(a)[u].outcome = undo[u].outcome
             /\ Overwritten(a)[u].full = undo[u].full
             /\ Overwritten(a)[u].put = undo[u].put \ {a}
  <2>1. undo[u] \in Working
    BY <1>1, WorkingCall
  <2>2. Overwritten(a)[u] = [undo[u] EXCEPT !.put = undo[u].put \ {a}]
    BY <1>1 DEF Overwritten
  <2> QED BY <2>1, <2>2 DEF Working
<1>2. ASSUME NEW u \in Undos, undo[u] = Idle PROVE Overwritten(a)[u] = Idle
  BY <1>2 DEF Overwritten
<1>3. Overwritten(a) = [u \in Undos |-> Overwritten(a)[u]]
  BY DEF Overwritten
<1>4. \A u \in Undos : Overwritten(a)[u] \in UndoState
  BY <1>1, <1>2 DEF Working, UndoState
<1> QED BY <1>1, <1>2, <1>3, <1>4

-----------------------------------------------------------------------------
\* A call goes on as it was: it may have lost attributes, but not its rows, and what
\* it had undone stays undone.
GoesOn(w) ==
  /\ undo'[w] # Idle
  /\ undo'[w].pc = undo[w].pc /\ undo'[w].all = undo[w].all /\ undo'[w].left = undo[w].left
  /\ undo'[w].outcome = undo[w].outcome /\ undo'[w].full = undo[w].full
  /\ undo'[w].put \subseteq undo[w].put /\ \A a \in undo'[w].put : world'[a] = world[a]
  /\ \A r \in undo[w].left : rows'[r] = rows[r]
  /\ \A r \in undo[w].all : /\ rows'[r].attr = rows[r].attr /\ rows'[r].old = rows[r].old
                            /\ rows'[r].exact = rows[r].exact
                            /\ rows[r].st = "undone" => rows'[r].st = "undone"

\* Such a call still fits.
LEMMA CallGoesOn ==
  ASSUME TypeOK, NEW w \in Undos, CallFits(w), undo[w] # Idle, GoesOn(w)
  PROVE  CallFits(w)'
<1>1. undo[w].left \subseteq undo[w].all
  BY CallRows
<1>2. Current(w)' = Current(w) /\ Through(w)' = Through(w)
  BY DEF GoesOn, Current, Through
<1>3. undo[w].left # {} => Current(w) \in undo[w].left
  BY CurrentIs
<1>4. FinishFits(w)'
  BY <1>1, <1>2, <1>3 DEF CallFits, FinishFits, GoesOn
<1>5. LastFirst(w)' /\ UndoneSoFar(w)'
  BY <1>1 DEF CallFits, LastFirst, UndoneSoFar, GoesOn
<1>6. RestoredSoFar(w)'
  <2>1. SUFFICES ASSUME undo'[w].full, undo'[w].pc = "finish" => undo'[w].outcome = "undone",
                        NEW r \in Through(w)', rows'[r].attr \in undo'[w].put,
                        \A s \in Through(w)' : rows'[s].attr = rows'[r].attr => r <= s
                 PROVE  world'[rows'[r].attr] = rows'[r].old
    BY DEF RestoredSoFar
  <2>2. Through(w) \subseteq undo[w].all
    BY <1>1, <1>3 DEF Through, CallFits, FinishFits
  <2>3. r \in Through(w) /\ rows'[r].attr = rows[r].attr /\ rows'[r].old = rows[r].old
    BY <1>2, <2>2 DEF GoesOn
  <2>4. \A s \in Through(w) : rows[s].attr = rows[r].attr => r <= s
    BY <1>2, <2>1, <2>2, <2>3 DEF GoesOn
  <2>5. world[rows[r].attr] = rows[r].old
    BY <2>1, <2>3, <2>4 DEF CallFits, RestoredSoFar, GoesOn
  <2> QED BY <2>1, <2>3, <2>5 DEF GoesOn
<1> QED BY <1>4, <1>5, <1>6 DEF CallFits, GoesOn

-----------------------------------------------------------------------------
\* Steps that change no row: what is left to check is the calls.
LEMMA UndoTypes ==
  ASSUME TypeOK, world' \in [Attrs -> Values], turns' \in [Groups -> TurnState],
         undo' \in [Undos -> UndoState], rows' \in Seq(Row), Len(rows') \in Len(rows) .. MaxRows,
         \A r \in 1 .. Len(rows) : rows'[r].grp = rows[r].grp,
         \A r \in 1 .. Len(rows') :
           /\ rows'[r].st \in {"ready", "undone", "failed"} => rows'[r].exact
           /\ rows'[r].st = "not_reversible" => ~rows'[r].exact
           /\ rows'[r].aged => rows'[r].st = "in_progress",
         \A w \in Undos : undo'[w] # Idle =>
           /\ undo[w] # Idle
           /\ undo'[w].all = undo[w].all /\ undo'[w].left \subseteq undo[w].left
  PROVE  TypeOK'
<1>1. Len(rows) \in Nat /\ Len(rows') \in Nat
  BY LenProperties DEF TypeOK
<1>2. \A w \in Undos : undo'[w] # Idle =>
        /\ undo'[w].all \subseteq 1 .. Len(rows')
        /\ undo'[w].left \subseteq undo'[w].all
        /\ \A r, s \in undo'[w].all : rows'[r].grp = rows'[s].grp
  <2>1. SUFFICES ASSUME NEW w \in Undos, undo'[w] # Idle
                 PROVE  /\ undo'[w].all \subseteq 1 .. Len(rows')
                        /\ undo'[w].left \subseteq undo'[w].all
                        /\ \A r, s \in undo'[w].all : rows'[r].grp = rows'[s].grp
    OBVIOUS
  <2>2. /\ undo[w].all \subseteq 1 .. Len(rows) /\ undo[w].left \subseteq undo[w].all
        /\ \A r, s \in undo[w].all : rows[r].grp = rows[s].grp
    BY <2>1, CallRows
  <2> QED BY <1>1, <2>1, <2>2
<1>3. \A r \in 1 .. Len(rows') :
           /\ rows'[r].st \in {"ready", "undone", "failed"} => rows'[r].exact
           /\ rows'[r].st = "not_reversible" => ~rows'[r].exact
           /\ rows'[r].aged => rows'[r].st = "in_progress"
  OBVIOUS
<1> QED BY <1>1, <1>2, <1>3 DEF TypeOK

\* The calls stay apart when each holds no more than before.
LEMMA HoldsKeep ==
  ASSUME HeldOnce, \A w \in Undos, r \in Ids : Holds(w, r)' => Holds(w, r)
  PROVE  HeldOnce'
BY DEF HeldOnce

\* Where no call changes, every call fits as before.
LEMMA NoCallChanges ==
  ASSUME UndoInv, UNCHANGED undo, UNCHANGED world,
         \A w \in Undos : undo[w] # Idle =>
           \A r \in undo[w].all : rows'[r] = rows[r]
  PROVE  HeldOnce' /\ \A w \in Undos : CallFits(w)'
<1>1. HeldOnce'
  BY HoldsKeep DEF UndoInv, Holds
<1>2. ASSUME NEW w \in Undos PROVE CallFits(w)'
  <2>1. CASE undo[w] = Idle
    BY <2>1 DEF CallFits
  <2>2. CASE undo[w] # Idle
    <3>1. undo[w].left \subseteq undo[w].all
      BY <2>2, CallRows DEF UndoInv
    <3>2. GoesOn(w)
      BY <2>2, <3>1 DEF GoesOn
    <3> QED BY <2>2, <3>2, CallGoesOn DEF UndoInv
  <2> QED BY <2>1, <2>2
<1> QED BY <1>1, <1>2

\* A row of the journal as it stands.
LEMMA RowsStand ==
  ASSUME TypeOK
  PROVE  /\ rows \in [1 .. Len(rows) -> Row] /\ Len(rows) \in 0 .. MaxRows
         /\ DOMAIN rows = 1 .. Len(rows)
BY LenProperties, UndoAssumption DEF TypeOK

\* Any table with the same numbers is a journal.
LEMMA TableIsSeq ==
  ASSUME NEW n \in Nat, NEW t \in [1 .. n -> Row]
  PROVE  t \in Seq(Row) /\ Len(t) = n
<1>1. t \in UNION {[1 .. k -> Row] : k \in Nat}
  OBVIOUS
<1>2. t \in Seq(Row)
  BY <1>1, SeqDef
<1> QED BY <1>2, LenProperties

\* An attribute gets a new value while no row changes.
LEMMA WritesFit ==
  ASSUME UndoInv, NEW a \in Attrs, NEW v \in Values,
         world' = [world EXCEPT ![a] = v], undo' = Overwritten(a), UNCHANGED rows,
         turns' \in [Groups -> TurnState]
  PROVE  UndoInv'
<1>1. TypeOK
  BY DEF UndoInv
<1>2. world' \in [Attrs -> Values] /\ \A b \in Attrs \ {a} : world'[b] = world[b]
  BY <1>1 DEF TypeOK
<1>3. /\ undo' \in [Undos -> UndoState]
      /\ \A w \in Undos : /\ undo[w] = Idle => undo'[w] = Idle
                          /\ undo[w] # Idle =>
                               /\ undo'[w] \in Working
                               /\ undo'[w].pc = undo[w].pc /\ undo'[w].all = undo[w].all
                               /\ undo'[w].left = undo[w].left
                               /\ undo'[w].outcome = undo[w].outcome
                               /\ undo'[w].full = undo[w].full
                               /\ undo'[w].put = undo[w].put \ {a}
  BY <1>1, OverwrittenCalls
<1>4. \A c \in Working : c # Idle
  BY IdleIsNot
<1>5. TypeOK'
  BY <1>1, <1>2, <1>3, RowsStand, UndoTypes, JournalRow
<1>6. HeldOnce'
  BY <1>3, <1>4, HoldsKeep DEF UndoInv, Holds
<1>7. ASSUME NEW w \in Undos PROVE CallFits(w)'
  <2>1. CASE undo[w] = Idle
    BY <1>3, <2>1 DEF CallFits
  <2>2. CASE undo[w] # Idle
    <3>1. undo[w].left \subseteq undo[w].all /\ undo[w] \in Working
      BY <1>1, <2>2, CallRows, WorkingCall
    <3>2. undo[w].put \subseteq Attrs
      BY <3>1 DEF Working
    <3>3. GoesOn(w)
      BY <1>2, <1>3, <1>4, <2>2, <3>1, <3>2 DEF GoesOn
    <3> QED BY <1>1, <2>2, <3>3, CallGoesOn DEF UndoInv
  <2> QED BY <2>1, <2>2
<1> QED BY <1>5, <1>6, <1>7 DEF UndoInv

-----------------------------------------------------------------------------
\* A turn that looks, or gives up, changes neither rows nor calls.
LEMMA TurnsOnly ==
  ASSUME UndoInv, UNCHANGED <<world, rows, undo>>, turns' \in [Groups -> TurnState]
  PROVE  UndoInv'
<1>1. TypeOK'
  BY RowsStand, JournalRow, UndoTypes, CallRows DEF UndoInv, TypeOK
<1>2. HeldOnce' /\ \A w \in Undos : CallFits(w)'
  BY NoCallChanges
<1> QED BY <1>1, <1>2 DEF UndoInv

\* A turn records what it has done behind the rows there are.
LEMMA RecordFits ==
  ASSUME UndoInv, NEW g \in Groups, Record(g)
  PROVE  UndoInv'
<1>0. TypeOK
  BY DEF UndoInv
<1>1. /\ turns[g].pc = "record" /\ Len(rows) < MaxRows
      /\ turns' = [turns EXCEPT ![g] = Idle] /\ UNCHANGED <<world, undo>>
  BY DEF Record
<1>2. PICK exact \in BOOLEAN :
        rows' = Append(rows, [grp |-> g, attr |-> turns[g].attr, old |-> turns[g].old,
                              exact |-> exact, aged |-> FALSE,
                              st |-> IF exact THEN "ready" ELSE "not_reversible"])
  BY DEF Record
<1> DEFINE row == [grp |-> g, attr |-> turns[g].attr, old |-> turns[g].old,
                   exact |-> exact, aged |-> FALSE,
                   st |-> IF exact THEN "ready" ELSE "not_reversible"]
<1>3. turns[g].attr \in Attrs /\ turns[g].old \in Values
  <2>1. turns[g] \in TurnState /\ Idle.pc = "idle"
    BY <1>0 DEF TypeOK, Idle
  <2> QED BY <1>1, <2>1 DEF TurnState
<1>4. row \in Row
  BY <1>3 DEF Row, Statuses, Final
<1>5. rows \in Seq(Row) /\ Len(rows) \in Nat
  BY <1>0, LenProperties DEF TypeOK
<1>6. /\ rows' \in Seq(Row) /\ Len(rows') = Len(rows) + 1
      /\ \A r \in 1 .. Len(rows) : rows'[r] = rows[r]
      /\ rows'[Len(rows) + 1] = row
  BY <1>2, <1>4, <1>5, AppendProperties
<1>7. \A r \in 1 .. Len(rows') :
        /\ rows'[r].st \in {"ready", "undone", "failed"} => rows'[r].exact
        /\ rows'[r].st = "not_reversible" => ~rows'[r].exact
        /\ rows'[r].aged => rows'[r].st = "in_progress"
  <2>1. SUFFICES ASSUME NEW r \in 1 .. Len(rows')
                 PROVE  /\ rows'[r].st \in {"ready", "undone", "failed"} => rows'[r].exact
                        /\ rows'[r].st = "not_reversible" => ~rows'[r].exact
                        /\ rows'[r].aged => rows'[r].st = "in_progress"
    OBVIOUS
  <2>2. CASE r \in 1 .. Len(rows)
    BY <1>0, <1>6, <2>2, JournalRow
  <2>3. CASE r = Len(rows) + 1
    BY <1>6, <2>3
  <2> QED BY <1>5, <1>6, <2>2, <2>3
<1>8. turns' \in [Groups -> TurnState]
  BY <1>0, <1>1 DEF TypeOK, TurnState
<1>9. TypeOK'
  <2>1. Len(rows') \in Len(rows) .. MaxRows
    BY <1>1, <1>5, <1>6, UndoAssumption
  <2>2. \A r \in 1 .. Len(rows) : rows'[r].grp = rows[r].grp
    BY <1>6
  <2>3. world' \in [Attrs -> Values] /\ undo' \in [Undos -> UndoState]
    BY <1>0, <1>1 DEF TypeOK
  <2>4. \A w \in Undos : undo'[w] # Idle =>
          /\ undo[w] # Idle
          /\ undo'[w].all = undo[w].all /\ undo'[w].left \subseteq undo[w].left
    BY <1>1
  <2> QED BY <1>0, <1>6, <1>7, <1>8, <2>1, <2>2, <2>3, <2>4, UndoTypes
<1>10. \A w \in Undos : undo[w] # Idle => \A r \in undo[w].all : rows'[r] = rows[r]
  BY <1>0, <1>6, CallRows
<1>11. HeldOnce' /\ \A w \in Undos : CallFits(w)'
  BY <1>1, <1>10, NoCallChanges
<1> QED BY <1>9, <1>11 DEF UndoInv

\* A call ends, or dies, and lets go of its rows.
LEMMA EndsFit ==
  ASSUME UndoInv, NEW u \in Undos, undo' = [undo EXCEPT ![u] = Idle],
         UNCHANGED <<world, rows, turns>>
  PROVE  UndoInv'
<1>0. TypeOK
  BY DEF UndoInv
<1>1. /\ undo' \in [Undos -> UndoState] /\ undo'[u] = Idle
      /\ \A w \in Undos \ {u} : undo'[w] = undo[w]
  BY <1>0 DEF TypeOK, UndoState
<1>2. TypeOK'
  <2>1. \A w \in Undos : undo'[w] # Idle =>
          /\ undo[w] # Idle
          /\ undo'[w].all = undo[w].all /\ undo'[w].left \subseteq undo[w].left
    BY <1>1
  <2>2. Len(rows') \in Len(rows) .. MaxRows /\ rows' \in Seq(Row)
    BY <1>0, RowsStand DEF TypeOK
  <2> QED BY <1>0, <1>1, <2>1, <2>2, JournalRow, UndoTypes DEF TypeOK
<1>3. HeldOnce'
  BY <1>1, HoldsKeep DEF UndoInv, Holds
<1>4. ASSUME NEW w \in Undos PROVE CallFits(w)'
  <2>1. CASE w = u \/ undo[w] = Idle
    BY <1>1, <2>1 DEF CallFits
  <2>2. CASE w # u /\ undo[w] # Idle
    <3>1. GoesOn(w)
      BY <1>1, <2>2 DEF GoesOn
    <3> QED BY <1>0, <2>2, <3>1, CallGoesOn DEF UndoInv
  <2> QED BY <2>1, <2>2
<1> QED BY <1>2, <1>3, <1>4 DEF UndoInv

\* Claims become old only when nobody holds them.
LEMMA AgeFits ==
  ASSUME UndoInv, NEW g \in Groups, Age(g)
  PROVE  UndoInv'
<1>0. TypeOK
  BY DEF UndoInv
<1>1. /\ \A u \in Undos, r \in OfGroup(rows, g) : ~Holds(u, r)
      /\ rows' = [r \in DOMAIN rows |->
                    IF rows[r].grp = g /\ rows[r].st = "in_progress"
                    THEN [rows[r] EXCEPT !.aged = TRUE] ELSE rows[r]]
      /\ UNCHANGED <<world, turns, undo>>
  BY DEF Age
<1>2. \A r \in 1 .. Len(rows) :
        /\ rows'[r] \in Row
        /\ rows'[r].grp = rows[r].grp /\ rows'[r].attr = rows[r].attr /\ rows'[r].old = rows[r].old
        /\ rows'[r].exact = rows[r].exact /\ rows'[r].st = rows[r].st
        /\ rows'[r].aged => rows'[r].st = "in_progress"
        /\ rows[r].grp # g => rows'[r] = rows[r]
  <2>1. SUFFICES ASSUME NEW r \in 1 .. Len(rows)
                 PROVE  /\ rows'[r] \in Row
                        /\ rows'[r].grp = rows[r].grp /\ rows'[r].attr = rows[r].attr
                        /\ rows'[r].old = rows[r].old
                        /\ rows'[r].exact = rows[r].exact /\ rows'[r].st = rows[r].st
                        /\ rows'[r].aged => rows'[r].st = "in_progress"
                        /\ rows[r].grp # g => rows'[r] = rows[r]
    OBVIOUS
  <2>2. rows[r] \in Row /\ (rows[r].aged => rows[r].st = "in_progress") /\ r \in DOMAIN rows
    BY <1>0, JournalRow, RowsStand
  <2>3. rows'[r] = IF rows[r].grp = g /\ rows[r].st = "in_progress"
                   THEN [rows[r] EXCEPT !.aged = TRUE] ELSE rows[r]
    BY <1>1, <2>2
  <2> QED BY <2>2, <2>3 DEF Row
<1>3. rows' \in Seq(Row) /\ Len(rows') = Len(rows)
  <2>1. rows' \in [1 .. Len(rows) -> Row]
    BY <1>0, <1>1, <1>2, RowsStand
  <2> QED BY <1>0, <2>1, TableIsSeq, RowsStand
<1>4. TypeOK'
  <2>1. Len(rows') \in Len(rows) .. MaxRows
    BY <1>0, <1>3, RowsStand
  <2>2. \A r \in 1 .. Len(rows') :
          /\ rows'[r].st \in {"ready", "undone", "failed"} => rows'[r].exact
          /\ rows'[r].st = "not_reversible" => ~rows'[r].exact
          /\ rows'[r].aged => rows'[r].st = "in_progress"
    BY <1>0, <1>2, <1>3, JournalRow
  <2>3. \A w \in Undos : undo'[w] # Idle =>
          /\ undo[w] # Idle
          /\ undo'[w].all = undo[w].all /\ undo'[w].left \subseteq undo[w].left
    BY <1>1
  <2>4. /\ world' \in [Attrs -> Values] /\ turns' \in [Groups -> TurnState]
        /\ undo' \in [Undos -> UndoState]
    BY <1>0, <1>1 DEF TypeOK
  <2> QED BY <1>0, <1>2, <1>3, <2>1, <2>2, <2>3, <2>4, UndoTypes
<1>5. HeldOnce'
  BY <1>1, HoldsKeep DEF UndoInv, Holds
<1>6. ASSUME NEW w \in Undos PROVE CallFits(w)'
  <2>1. CASE undo[w] = Idle
    BY <1>1, <2>1 DEF CallFits
  <2>2. CASE undo[w] # Idle
    <3>1. undo[w].all \subseteq 1 .. Len(rows) /\ undo[w].left \subseteq undo[w].all
      BY <1>0, <2>2, CallRows
    <3>2. \A r \in undo[w].left : rows[r].grp # g
      BY <1>0, <1>1, <2>2, <3>1, RowsStand DEF OfGroup, Holds
    <3>3. GoesOn(w)
      BY <1>1, <1>2, <2>2, <3>1, <3>2 DEF GoesOn
    <3> QED BY <1>0, <2>2, <3>3, CallGoesOn DEF UndoInv
  <2> QED BY <2>1, <2>2
<1> QED BY <1>4, <1>5, <1>6 DEF UndoInv

\* A call finds its row without an inverse, or fails at it, and Discord is left alone.
LEMMA KeptFits ==
  ASSUME UndoInv, NEW u \in Undos, At(u, "row"), NEW outcome \in {"failed", "acknowledged"},
         Kept(u, outcome), outcome = "failed" => rows[Current(u)].exact,
         UNCHANGED <<rows, turns>>
  PROVE  UndoInv'
<1>0. TypeOK
  BY DEF UndoInv
<1>1. undo[u] # Idle /\ undo[u].pc = "row" /\ undo[u].left # {} /\ undo[u] \in Working
  BY <1>0, WorkingCall DEF At
<1>2. /\ undo' = [undo EXCEPT ![u].pc = "finish", ![u].outcome = outcome]
      /\ UNCHANGED world
  BY DEF Kept, Resolved
<1>3. /\ undo'[u] = [undo[u] EXCEPT !.pc = "finish", !.outcome = outcome]
      /\ \A w \in Undos \ {u} : undo'[w] = undo[w]
  BY <1>0, <1>2 DEF TypeOK
<1>4. /\ undo'[u] \in Working /\ undo'[u] # Idle
      /\ undo'[u].pc = "finish" /\ undo'[u].outcome = outcome
      /\ undo'[u].all = undo[u].all /\ undo'[u].left = undo[u].left
      /\ undo'[u].full = undo[u].full /\ undo'[u].put = undo[u].put
  <2>1. undo'[u] \in Working
    BY <1>1, <1>3 DEF Working, Final
  <2> QED BY <1>1, <1>3, <2>1, IdleIsNot DEF Working
<1>5. undo' \in [Undos -> UndoState]
  BY <1>0, <1>2, <1>3, <1>4 DEF TypeOK, Working, UndoState
<1>6. TypeOK'
  <2>1. \A w \in Undos : undo'[w] # Idle =>
          /\ undo[w] # Idle
          /\ undo'[w].all = undo[w].all /\ undo'[w].left \subseteq undo[w].left
    BY <1>1, <1>3, <1>4
  <2>2. Len(rows') \in Len(rows) .. MaxRows /\ rows' \in Seq(Row)
    BY <1>0, RowsStand DEF TypeOK
  <2> QED BY <1>0, <1>2, <1>5, <2>1, <2>2, JournalRow, UndoTypes DEF TypeOK
<1>7. HeldOnce'
  BY <1>1, <1>3, <1>4, HoldsKeep DEF UndoInv, Holds
<1>8. CallFits(u)'
  <2>1. Current(u)' = Current(u)
    BY <1>4 DEF Current
  <2>2. FinishFits(u)'
    BY <1>1, <1>4, <2>1 DEF FinishFits
  <2>3. RestoredSoFar(u)'
    BY <1>4 DEF RestoredSoFar
  <2>4. LastFirst(u)' /\ UndoneSoFar(u)'
    BY <1>1, <1>4 DEF UndoInv, CallFits, LastFirst, UndoneSoFar
  <2> QED BY <1>1, <1>4, <2>2, <2>3, <2>4 DEF UndoInv, CallFits
<1>9. ASSUME NEW w \in Undos \ {u} PROVE CallFits(w)'
  <2>1. CASE undo[w] = Idle
    BY <1>3, <2>1 DEF CallFits
  <2>2. CASE undo[w] # Idle
    <3>1. GoesOn(w)
      BY <1>2, <1>3, <2>2 DEF GoesOn
    <3> QED BY <1>0, <2>2, <3>1, CallGoesOn DEF UndoInv
  <2> QED BY <2>1, <2>2
<1> QED BY <1>6, <1>7, <1>8, <1>9 DEF UndoInv

\* An inverse is applied, or was in spite of a lost answer: Discord has the old value.
LEMMA PutBackFits ==
  ASSUME UndoInv, NEW u \in Undos, At(u, "row"), rows[Current(u)].exact,
         NEW outcome \in Final, PutBack(u, outcome), UNCHANGED <<rows, turns>>
  PROVE  UndoInv'
<1>0. TypeOK
  BY DEF UndoInv
<1>1. undo[u] # Idle /\ undo[u].pc = "row" /\ undo[u].left # {} /\ undo[u] \in Working
  BY <1>0, WorkingCall DEF At
<1> DEFINE cur == Current(u)
           a == rows[cur].attr
           old == rows[cur].old
<1>2. /\ cur \in undo[u].left /\ \A s \in undo[u].left : s <= cur
      /\ undo[u].left \subseteq undo[u].all /\ undo[u].all \subseteq 1 .. Len(rows)
  BY <1>0, <1>1, CurrentIs, CallRows
<1>3. a \in Attrs /\ old \in Values
  BY <1>0, <1>2, JournalRow DEF Row
<1>4. /\ world' = [world EXCEPT ![a] = old]
      /\ undo' = [[Overwritten(a) EXCEPT ![u].put = @ \cup {a}]
                    EXCEPT ![u].pc = "finish", ![u].outcome = outcome]
  BY DEF PutBack, Resolved
<1>5. Current(u)' = cur
  <2>1. undo'[u].left = undo[u].left
    BY <1>0, <1>1, <1>3, <1>4, OverwrittenCalls DEF Working
  <2> QED BY <2>1 DEF Current
<1> HIDE DEF cur, a, old
<1>6. /\ world' \in [Attrs -> Values] /\ world'[a] = old
      /\ \A b \in Attrs \ {a} : world'[b] = world[b]
  BY <1>0, <1>3, <1>4 DEF TypeOK
<1>7. /\ undo'[u] \in Working /\ undo'[u] # Idle
      /\ undo'[u].pc = "finish" /\ undo'[u].outcome = outcome
      /\ undo'[u].all = undo[u].all /\ undo'[u].left = undo[u].left
      /\ undo'[u].full = undo[u].full /\ undo'[u].put \subseteq undo[u].put \cup {a}
  <2>1. /\ Overwritten(a) \in [Undos -> UndoState] /\ Overwritten(a)[u] \in Working
        /\ Overwritten(a)[u].all = undo[u].all /\ Overwritten(a)[u].left = undo[u].left
        /\ Overwritten(a)[u].full = undo[u].full /\ Overwritten(a)[u].put = undo[u].put \ {a}
    BY <1>0, <1>1, <1>3, OverwrittenCalls
  <2>2. undo'[u] = [[Overwritten(a)[u] EXCEPT !.put = @ \cup {a}] EXCEPT !.pc = "finish", !.outcome = outcome]
    BY <1>4, <2>1
  <2> DEFINE c == Overwritten(a)[u]
             d == [c EXCEPT !.put = c.put \cup {a}]
  <2>3. d \in Working /\ d.all = c.all /\ d.left = c.left /\ d.full = c.full /\ d.put = c.put \cup {a}
    BY <1>3, <2>1 DEF Working
  <2>4. undo'[u] = [d EXCEPT !.pc = "finish", !.outcome = outcome]
    BY <2>2
  <2> HIDE DEF d
  <2>5. undo'[u] \in Working
    BY <2>3, <2>4 DEF Working
  <2> QED BY <2>1, <2>3, <2>4, <2>5, IdleIsNot DEF Working
<1>8. \A w \in Undos \ {u} : undo'[w] = Overwritten(a)[w]
  BY <1>0, <1>3, <1>4, OverwrittenCalls
<1>9. undo' \in [Undos -> UndoState]
  <2>1. \A w \in Undos : undo'[w] \in UndoState
    BY <1>0, <1>3, <1>7, <1>8, OverwrittenCalls DEF UndoState, Working
  <2>2. Overwritten(a) \in [Undos -> UndoState]
    BY <1>0, <1>3, OverwrittenCalls
  <2>3. undo' = [w \in Undos |-> undo'[w]]
    BY <1>4, <2>2
  <2> QED BY <2>1, <2>3
<1>10. \A w \in Undos \ {u} :
         /\ undo[w] = Idle => undo'[w] = Idle
         /\ undo[w] # Idle =>
              /\ undo'[w] # Idle
              /\ undo'[w].pc = undo[w].pc /\ undo'[w].all = undo[w].all
              /\ undo'[w].left = undo[w].left /\ undo'[w].outcome = undo[w].outcome
              /\ undo'[w].full = undo[w].full /\ undo'[w].put = undo[w].put \ {a}
  BY <1>0, <1>3, <1>8, OverwrittenCalls, IdleIsNot
<1>11. TypeOK'
  <2>1. \A w \in Undos : undo'[w] # Idle =>
          /\ undo[w] # Idle
          /\ undo'[w].all = undo[w].all /\ undo'[w].left \subseteq undo[w].left
    BY <1>1, <1>7, <1>10
  <2>2. Len(rows') \in Len(rows) .. MaxRows /\ rows' \in Seq(Row)
    BY <1>0, RowsStand DEF TypeOK
  <2> QED BY <1>0, <1>6, <1>9, <2>1, <2>2, JournalRow, UndoTypes DEF TypeOK
<1>12. HeldOnce'
  <2>1. \A w \in Undos : undo'[w] # Idle => undo[w] # Idle /\ undo'[w].left = undo[w].left
    BY <1>1, <1>7, <1>10
  <2> QED BY <2>1, HoldsKeep DEF UndoInv, Holds
<1>13. CallFits(u)'
  <2>1. FinishFits(u)'
    BY <1>1, <1>5, <1>7 DEF FinishFits, cur
  <2>2. LastFirst(u)' /\ UndoneSoFar(u)'
    BY <1>1, <1>7 DEF UndoInv, CallFits, LastFirst, UndoneSoFar
  <2>3. RestoredSoFar(u)'
    <3>1. SUFFICES ASSUME undo'[u].full,
                          NEW r \in Through(u)', rows'[r].attr \in undo'[u].put,
                          \A s \in Through(u)' : rows'[s].attr = rows'[r].attr => r <= s
                   PROVE  world'[rows'[r].attr] = rows'[r].old
      BY DEF RestoredSoFar
    <3>2. Through(u)' = (undo[u].all \ undo[u].left) \cup {cur}
      BY <1>5, <1>7 DEF Through
    <3>3. Through(u) = undo[u].all \ undo[u].left
      BY <1>1 DEF Through
    <3>4. CASE rows[r].attr = a
      <4>1. r <= cur
        BY <3>1, <3>2, <3>4 DEF a
      <4>2. r \in undo[u].all \ undo[u].left => cur < r
        BY <1>1, <1>2 DEF UndoInv, CallFits, LastFirst
      <4>3. r = cur
        <5>1. r \in 1 .. Len(rows) /\ cur \in 1 .. Len(rows)
          BY <1>2, <3>1, <3>2
        <5> QED BY <3>1, <3>2, <4>1, <4>2, <5>1
      <4> QED BY <1>6, <3>4, <4>3 DEF old
    <3>5. CASE rows[r].attr # a
      <4>1. r \in Through(u) /\ rows[r].attr \in undo[u].put
        BY <1>7, <3>1, <3>2, <3>3, <3>5 DEF a
      <4>2. \A s \in Through(u) : rows[s].attr = rows[r].attr => r <= s
        BY <3>1, <3>2, <3>3
      <4>3. world[rows[r].attr] = rows[r].old
        BY <1>1, <1>7, <3>1, <4>1, <4>2 DEF UndoInv, CallFits, RestoredSoFar
      <4>4. rows[r].attr \in Attrs
        BY <1>1, <4>1 DEF Working
      <4> QED BY <1>6, <3>5, <4>3, <4>4
    <3> QED BY <3>4, <3>5
  <2>4. \A r \in undo[u].left : rows[r].st = "in_progress" /\ ~rows[r].aged
    BY <1>1 DEF UndoInv, CallFits
  <2> QED BY <1>7, <2>1, <2>2, <2>3, <2>4 DEF CallFits
<1>14. ASSUME NEW w \in Undos \ {u} PROVE CallFits(w)'
  <2>1. CASE undo[w] = Idle
    BY <1>10, <2>1 DEF CallFits
  <2>2. CASE undo[w] # Idle
    <3>1. undo[w] \in Working
      BY <1>0, <2>2, WorkingCall
    <3>2. GoesOn(w)
      BY <1>6, <1>10, <2>2, <3>1 DEF GoesOn, Working
    <3> QED BY <1>0, <2>2, <3>2, CallGoesOn DEF UndoInv
  <2> QED BY <2>1, <2>2
<1> QED BY <1>11, <1>12, <1>13, <1>14 DEF UndoInv

\* The outcome of a row is recorded, and the call goes to the row before it.
LEMMA FinishFitsIn ==
  ASSUME UndoInv, NEW u \in Undos, Finish(u)
  PROVE  UndoInv'
<1>0. TypeOK
  BY DEF UndoInv
<1>1. undo[u] # Idle /\ undo[u].pc = "finish" /\ undo[u].left # {} /\ undo[u] \in Working
  BY <1>0, WorkingCall DEF Finish, At
<1> DEFINE cur == Current(u)
           out == undo[u].outcome
<1>2. /\ cur \in undo[u].left /\ \A s \in undo[u].left : s <= cur
      /\ undo[u].left \subseteq undo[u].all /\ undo[u].all \subseteq 1 .. Len(rows)
  BY <1>0, <1>1, CurrentIs, CallRows
<1>3. rows[cur].st = "in_progress" /\ out \in Final /\ (out # "acknowledged" => rows[cur].exact)
  BY <1>1, <1>2 DEF UndoInv, CallFits, FinishFits, Working
<1>4. /\ rows' = [rows EXCEPT ![cur].st = out, ![cur].aged = FALSE]
      /\ undo' = [undo EXCEPT ![u].pc = "row", ![u].left = @ \ {cur}, ![u].outcome = "failed",
                              ![u].full = @ /\ undo[u].outcome = "undone"]
      /\ UNCHANGED <<world, turns>>
  BY <1>3 DEF Finish
<1>5. Through(u) = (undo[u].all \ undo[u].left) \cup {cur}
  BY <1>1 DEF Through
<1> HIDE DEF cur
<1>6. /\ \A r \in 1 .. Len(rows) : r # cur => rows'[r] = rows[r]
      /\ rows'[cur] \in Row /\ rows'[cur].st = out /\ ~rows'[cur].aged
      /\ rows'[cur].grp = rows[cur].grp /\ rows'[cur].attr = rows[cur].attr
      /\ rows'[cur].old = rows[cur].old /\ rows'[cur].exact = rows[cur].exact
  <2>1. cur \in 1 .. Len(rows) /\ rows[cur] \in Row
    BY <1>0, <1>2, JournalRow
  <2>2. rows'[cur] = [rows[cur] EXCEPT !.st = out, !.aged = FALSE]
    BY <1>0, <1>4, <2>1, RowsStand
  <2>3. \A r \in 1 .. Len(rows) : r # cur => rows'[r] = rows[r]
    BY <1>0, <1>4, <2>1, RowsStand
  <2> QED BY <1>3, <2>1, <2>2, <2>3 DEF Row, Statuses
<1>7. rows' \in Seq(Row) /\ Len(rows') = Len(rows)
  <2>1. \A r \in 1 .. Len(rows) : rows'[r] \in Row
    BY <1>0, <1>6, JournalRow
  <2>2. rows' = [r \in 1 .. Len(rows) |-> rows'[r]]
    BY <1>0, <1>4, RowsStand
  <2>3. rows' \in [1 .. Len(rows) -> Row]
    BY <2>1, <2>2
  <2> QED BY <1>0, <2>3, TableIsSeq, RowsStand
<1>8. /\ undo'[u] \in Working /\ undo'[u] # Idle /\ undo'[u].pc = "row"
      /\ undo'[u].all = undo[u].all /\ undo'[u].left = undo[u].left \ {cur}
      /\ undo'[u].full = (undo[u].full /\ out = "undone") /\ undo'[u].put = undo[u].put
  <2>1. undo'[u] = [undo[u] EXCEPT !.pc = "row", !.left = @ \ {cur}, !.outcome = "failed",
                                   !.full = @ /\ undo[u].outcome = "undone"]
    BY <1>0, <1>4 DEF TypeOK
  <2>2. undo'[u] \in Working
    BY <1>1, <2>1 DEF Working, Final
  <2> QED BY <1>1, <2>1, <2>2, IdleIsNot DEF Working
<1>9. \A w \in Undos \ {u} : undo'[w] = undo[w]
  BY <1>0, <1>4 DEF TypeOK
<1>10. TypeOK'
  <2>1. undo' \in [Undos -> UndoState]
    BY <1>0, <1>4, <1>8, <1>9 DEF TypeOK, UndoState, Working
  <2>2. \A w \in Undos : undo'[w] # Idle =>
          /\ undo[w] # Idle
          /\ undo'[w].all = undo[w].all /\ undo'[w].left \subseteq undo[w].left
    BY <1>1, <1>8, <1>9
  <2>3. \A r \in 1 .. Len(rows') :
          /\ rows'[r].st \in {"ready", "undone", "failed"} => rows'[r].exact
          /\ rows'[r].st = "not_reversible" => ~rows'[r].exact
          /\ rows'[r].aged => rows'[r].st = "in_progress"
    BY <1>0, <1>3, <1>6, <1>7, JournalRow DEF Final
  <2>4. Len(rows') \in Len(rows) .. MaxRows /\ \A r \in 1 .. Len(rows) : rows'[r].grp = rows[r].grp
    BY <1>0, <1>6, <1>7, RowsStand
  <2>5. world' \in [Attrs -> Values] /\ turns' \in [Groups -> TurnState]
    BY <1>0, <1>4 DEF TypeOK
  <2> QED BY <1>0, <1>7, <2>1, <2>2, <2>3, <2>4, <2>5, UndoTypes
<1>11. HeldOnce'
  BY <1>1, <1>8, <1>9, HoldsKeep DEF UndoInv, Holds
<1>12. CallFits(u)'
  <2>0. LastFirst(u) /\ UndoneSoFar(u) /\ RestoredSoFar(u)
    BY <1>1 DEF UndoInv, CallFits
  <2>1. FinishFits(u)'
    BY <1>8 DEF FinishFits
  <2>2. LastFirst(u)'
    <3>1. ASSUME NEW r \in undo'[u].left, NEW s \in undo'[u].all \ undo'[u].left
          PROVE  r < s
      <4>1. r \in undo[u].left /\ r # cur /\ r \in 1 .. Len(rows) /\ cur \in 1 .. Len(rows)
        BY <1>2, <1>8, <3>1
      <4>2. r < cur
        BY <1>2, <4>1
      <4>3. s = cur \/ s \in undo[u].all \ undo[u].left
        BY <1>8, <3>1
      <4> QED BY <2>0, <4>1, <4>2, <4>3 DEF LastFirst
    <3> QED BY <3>1 DEF LastFirst
  <2>3. UndoneSoFar(u)'
    <3>1. SUFFICES ASSUME undo[u].full, out = "undone", NEW r \in undo'[u].all \ undo'[u].left
                   PROVE  rows'[r].exact /\ rows'[r].st = "undone"
      BY <1>8 DEF UndoneSoFar
    <3>2. CASE r = cur
      BY <1>3, <1>6, <3>1, <3>2
    <3>3. CASE r # cur
      <4>1. r \in undo[u].all \ undo[u].left /\ r \in 1 .. Len(rows)
        BY <1>2, <1>8, <3>1, <3>3
      <4> QED BY <1>6, <2>0, <3>1, <3>3, <4>1 DEF UndoneSoFar
    <3> QED BY <3>2, <3>3
  <2>4. RestoredSoFar(u)'
    <3>1. SUFFICES ASSUME undo[u].full, out = "undone",
                          NEW r \in Through(u)', rows'[r].attr \in undo'[u].put,
                          \A s \in Through(u)' : rows'[s].attr = rows'[r].attr => r <= s
                   PROVE  world'[rows'[r].attr] = rows'[r].old
      BY <1>8 DEF RestoredSoFar
    <3>2. Through(u)' = Through(u) /\ Through(u) \subseteq 1 .. Len(rows)
      BY <1>2, <1>5, <1>8 DEF Through
    <3>3. \A s \in Through(u) : rows'[s].attr = rows[s].attr /\ rows'[s].old = rows[s].old
      BY <1>6, <3>2
    <3>4. \A s \in Through(u) : rows[s].attr = rows[r].attr => r <= s
      BY <3>1, <3>2, <3>3
    <3>5. world[rows[r].attr] = rows[r].old
      BY <1>8, <2>0, <3>1, <3>2, <3>3, <3>4 DEF RestoredSoFar
    <3> QED BY <1>4, <3>1, <3>2, <3>3, <3>5
  <2>5. \A r \in undo'[u].left : rows'[r].st = "in_progress" /\ ~rows'[r].aged
    BY <1>1, <1>2, <1>6, <1>8 DEF UndoInv, CallFits
  <2> QED BY <1>8, <2>1, <2>2, <2>3, <2>4, <2>5 DEF CallFits
<1>13. ASSUME NEW w \in Undos \ {u} PROVE CallFits(w)'
  <2>1. CASE undo[w] = Idle
    BY <1>9, <2>1 DEF CallFits
  <2>2. CASE undo[w] # Idle
    <3>1. undo[w].all \subseteq 1 .. Len(rows) /\ undo[w].left \subseteq undo[w].all
      BY <1>0, <2>2, CallRows
    <3>2. cur \notin undo[w].left
      <4>1. Holds(u, cur) /\ cur \in Ids
        BY <1>0, <1>1, <1>2, JournalRow DEF Holds
      <4> QED BY <2>2, <4>1 DEF UndoInv, HeldOnce, Holds
    <3>3. GoesOn(w)
      <4>1. \A r \in undo[w].left : rows'[r] = rows[r]
        BY <1>6, <3>1, <3>2
      <4>2. \A r \in undo[w].all : /\ rows'[r].attr = rows[r].attr /\ rows'[r].old = rows[r].old
                                   /\ rows'[r].exact = rows[r].exact
                                   /\ rows[r].st = "undone" => rows'[r].st = "undone"
        BY <1>3, <1>6, <3>1
      <4> QED BY <1>4, <1>9, <2>2, <4>1, <4>2 DEF GoesOn
    <3> QED BY <1>0, <2>2, <3>3, CallGoesOn DEF UndoInv
  <2> QED BY <2>1, <2>2
<1> QED BY <1>10, <1>11, <1>12, <1>13 DEF UndoInv

-----------------------------------------------------------------------------
\* A claim.

\* Old claims are taken back: those rows are open again, the others as before.
LEMMA ReopenedRows ==
  ASSUME TypeOK
  PROVE  /\ DOMAIN Reopened(rows) = 1 .. Len(rows)
         /\ \A r \in 1 .. Len(rows) :
              /\ Reopened(rows)[r] \in Row /\ ~Reopened(rows)[r].aged
              /\ Reopened(rows)[r].grp = rows[r].grp /\ Reopened(rows)[r].attr = rows[r].attr
              /\ Reopened(rows)[r].old = rows[r].old /\ Reopened(rows)[r].exact = rows[r].exact
              /\ ~rows[r].aged => Reopened(rows)[r] = rows[r]
              /\ Reopened(rows)[r].st \in {"ready", "undone", "failed"} => rows[r].exact
              /\ Reopened(rows)[r].st = "not_reversible" => ~rows[r].exact
<1> DEFINE t == Reopened(rows)
<1>1. DOMAIN t = 1 .. Len(rows)
  BY RowsStand DEF Reopened
<1>2. ASSUME NEW r \in 1 .. Len(rows)
      PROVE  /\ t[r] \in Row /\ ~t[r].aged
             /\ t[r].grp = rows[r].grp /\ t[r].attr = rows[r].attr
             /\ t[r].old = rows[r].old /\ t[r].exact = rows[r].exact
             /\ ~rows[r].aged => t[r] = rows[r]
             /\ t[r].st \in {"ready", "undone", "failed"} => rows[r].exact
             /\ t[r].st = "not_reversible" => ~rows[r].exact
  <2>1. /\ rows[r] \in Row
        /\ rows[r].st \in {"ready", "undone", "failed"} => rows[r].exact
        /\ rows[r].st = "not_reversible" => ~rows[r].exact
    BY JournalRow
  <2>2. CASE rows[r].aged
    <3>1. t[r] = [rows[r] EXCEPT !.st = IF rows[r].exact THEN "ready" ELSE "not_reversible", !.aged = FALSE]
      BY <2>2, RowsStand DEF Reopened, Released
    <3> HIDE DEF t
    <3>2. CASE rows[r].exact
      BY <2>1, <2>2, <3>1, <3>2 DEF Row, Statuses
    <3>3. CASE ~rows[r].exact
      BY <2>1, <2>2, <3>1, <3>3 DEF Row, Statuses
    <3> QED BY <3>2, <3>3
  <2>3. CASE ~rows[r].aged
    <3>1. t[r] = rows[r]
      BY <2>3, RowsStand DEF Reopened
    <3> QED BY <2>1, <2>3, <3>1
  <2> QED BY <2>2, <2>3
<1> QED BY <1>1, <1>2

\* A call takes open rows of one message, which nobody holds, and no others.
LEMMA ClaimFits ==
  ASSUME UndoInv, NEW u \in Undos, Claim(u)
  PROVE  /\ UndoInv'
         /\ \A r \in 1 .. Len(rows) :
              rows[r].st \in {"undone", "acknowledged"} => rows'[r].st = rows[r].st
<1>0. TypeOK
  BY DEF UndoInv
<1>1. undo[u] = Idle /\ UNCHANGED <<world, turns>>
  BY DEF Claim
<1> DEFINE t == Reopened(rows)
<1>2. PICK from \in 1 .. Len(rows) + 1 :
        /\ rows' = Taken(t, Claimable(t, from))
        /\ undo' = IF Claimable(t, from) = {} THEN undo
                   ELSE [undo EXCEPT ![u] = [pc |-> "row", all |-> Claimable(t, from),
                                             left |-> Claimable(t, from), put |-> {},
                                             outcome |-> "failed", full |-> TRUE]]
  BY DEF Claim
<1> DEFINE S == Claimable(t, from)
<1>3. /\ DOMAIN t = 1 .. Len(rows)
      /\ \A r \in 1 .. Len(rows) :
              /\ t[r] \in Row /\ ~t[r].aged
              /\ t[r].grp = rows[r].grp /\ t[r].attr = rows[r].attr
              /\ t[r].old = rows[r].old /\ t[r].exact = rows[r].exact
              /\ ~rows[r].aged => t[r] = rows[r]
              /\ t[r].st \in {"ready", "undone", "failed"} => rows[r].exact
              /\ t[r].st = "not_reversible" => ~rows[r].exact
  BY <1>0, ReopenedRows
<1>4. /\ S \subseteq 1 .. Len(rows)
      /\ \A r \in S : t[r].st \in Open
      /\ \A r, s \in S : rows[r].grp = rows[s].grp
  <2>1. S \subseteq {r \in DOMAIN t : t[r].st \in Open}
    BY DEF Claimable, OpenRows
  <2>2. S \subseteq {r \in DOMAIN t : t[r].grp = t[Latest(t, from)].grp}
    BY DEF Claimable, OfGroup
  <2> HIDE DEF S, t
  <2>3. \A r \in S : r \in 1 .. Len(rows) /\ t[r].grp = rows[r].grp
    BY <1>3, <2>1
  <2> QED BY <1>3, <2>1, <2>2, <2>3
<1>5. \A r \in 1 .. Len(rows) :
        rows'[r] = IF r \in S THEN [t[r] EXCEPT !.st = "in_progress"] ELSE t[r]
  BY <1>2, <1>3 DEF Taken
<1>6. DOMAIN rows' = 1 .. Len(rows) /\ rows' = [r \in 1 .. Len(rows) |-> rows'[r]]
  BY <1>2, <1>3 DEF Taken
<1>7. S # {} => undo' = [undo EXCEPT ![u] = [pc |-> "row", all |-> S, left |-> S, put |-> {},
                                             outcome |-> "failed", full |-> TRUE]]
  BY <1>2
<1>8. S = {} => undo' = undo
  BY <1>2
<1> HIDE DEF S, t
<1>9. \A r \in 1 .. Len(rows) :
        /\ rows'[r] \in Row /\ ~rows'[r].aged
        /\ rows'[r].grp = rows[r].grp /\ rows'[r].attr = rows[r].attr
        /\ rows'[r].old = rows[r].old /\ rows'[r].exact = rows[r].exact
        /\ rows'[r].st \in {"ready", "undone", "failed"} => rows'[r].exact
        /\ rows'[r].st = "not_reversible" => ~rows'[r].exact
        /\ r \in S => rows'[r].st = "in_progress"
        /\ r \notin S /\ ~rows[r].aged => rows'[r] = rows[r]
  <2>1. SUFFICES ASSUME NEW r \in 1 .. Len(rows)
                 PROVE  /\ rows'[r] \in Row /\ ~rows'[r].aged
                        /\ rows'[r].grp = rows[r].grp /\ rows'[r].attr = rows[r].attr
                        /\ rows'[r].old = rows[r].old /\ rows'[r].exact = rows[r].exact
                        /\ rows'[r].st \in {"ready", "undone", "failed"} => rows'[r].exact
                        /\ rows'[r].st = "not_reversible" => ~rows'[r].exact
                        /\ r \in S => rows'[r].st = "in_progress"
                        /\ r \notin S /\ ~rows[r].aged => rows'[r] = rows[r]
    OBVIOUS
  <2>2. CASE r \in S
    <3>1. rows'[r] = [t[r] EXCEPT !.st = "in_progress"] /\ t[r] \in Row
      BY <1>3, <1>5, <2>2
    <3> QED BY <1>3, <2>2, <3>1 DEF Row, Statuses
  <2>3. CASE r \notin S
    BY <1>3, <1>5, <2>3
  <2> QED BY <2>2, <2>3
<1>10. \A r \in S : rows[r].aged \/ rows[r].st \in Open
  BY <1>3, <1>4
<1>11. \A r \in 1 .. Len(rows) :
         rows[r].st \in {"undone", "acknowledged"} => r \notin S /\ rows'[r] = rows[r]
  <2>1. SUFFICES ASSUME NEW r \in 1 .. Len(rows), rows[r].st \in {"undone", "acknowledged"}
                 PROVE  r \notin S /\ rows'[r] = rows[r]
    OBVIOUS
  <2>2. ~rows[r].aged
    BY <1>0, <2>1, JournalRow
  <2>3. r \notin S
    BY <1>10, <2>1, <2>2 DEF Open
  <2> QED BY <1>9, <2>2, <2>3
<1>12. rows' \in Seq(Row) /\ Len(rows') = Len(rows)
  <2>1. rows' \in [1 .. Len(rows) -> Row]
    BY <1>6, <1>9
  <2> QED BY <1>0, <2>1, TableIsSeq, RowsStand
<1>13. \A w \in Undos, r \in S : ~Holds(w, r)
  <2>1. SUFFICES ASSUME NEW w \in Undos, NEW r \in S, undo[w] # Idle, r \in undo[w].left
                 PROVE  FALSE
    BY DEF Holds
  <2>2. rows[r].st = "in_progress" /\ ~rows[r].aged
    BY <2>1 DEF UndoInv, CallFits
  <2> QED BY <1>10, <2>2 DEF Open
<1> DEFINE c == [pc |-> "row", all |-> S, left |-> S, put |-> {}, outcome |-> "failed", full |-> TRUE]
<1>14. c \in Working
  <2>1. S \subseteq Ids
    BY <1>0, <1>4, JournalRow
  <2> QED BY <2>1 DEF Working, Final
<1>15. /\ \A w \in Undos \ {u} : undo'[w] = undo[w]
       /\ undo'[u] = IF S = {} THEN Idle ELSE c
       /\ undo' \in [Undos -> UndoState]
  BY <1>0, <1>1, <1>7, <1>8, <1>14 DEF TypeOK, UndoState, Working
<1>16. c.all = S /\ c.left = S /\ c.pc = "row" /\ c.put = {} /\ c # Idle
  BY <1>14, IdleIsNot
<1> HIDE DEF c
<1>17. TypeOK'
  <2>1. \A w \in Undos : undo'[w] # Idle =>
          /\ undo'[w].all \subseteq 1 .. Len(rows')
          /\ undo'[w].left \subseteq undo'[w].all
          /\ \A r, s \in undo'[w].all : rows'[r].grp = rows'[s].grp
    <3>1. SUFFICES ASSUME NEW w \in Undos, undo'[w] # Idle
                   PROVE  /\ undo'[w].all \subseteq 1 .. Len(rows)
                          /\ undo'[w].left \subseteq undo'[w].all
                          /\ \A r, s \in undo'[w].all : rows'[r].grp = rows'[s].grp
      BY <1>12
    <3>2. CASE w = u
      <4>1. undo'[u].all = S /\ undo'[u].left = S
        BY <1>15, <1>16, <3>1, <3>2
      <4>2. \A r, s \in S : rows'[r].grp = rows'[s].grp
        BY <1>4, <1>9
      <4> QED BY <1>4, <3>2, <4>1, <4>2
    <3>3. CASE w # u
      <4>1. /\ undo[w].all \subseteq 1 .. Len(rows) /\ undo[w].left \subseteq undo[w].all
            /\ \A r, s \in undo[w].all : rows[r].grp = rows[s].grp
        BY <1>0, <1>15, <3>1, <3>3, CallRows
      <4> QED BY <1>9, <1>15, <3>3, <4>1
    <3> QED BY <3>2, <3>3
  <2>2. \A r \in 1 .. Len(rows') :
          /\ rows'[r].st \in {"ready", "undone", "failed"} => rows'[r].exact
          /\ rows'[r].st = "not_reversible" => ~rows'[r].exact
          /\ rows'[r].aged => rows'[r].st = "in_progress"
    BY <1>9, <1>12
  <2> QED BY <1>0, <1>1, <1>12, <1>15, <2>1, <2>2 DEF TypeOK
<1>18. HeldOnce'
  <2>1. \A w \in Undos \ {u}, r \in Ids : Holds(w, r)' <=> Holds(w, r)
    BY <1>15 DEF Holds
  <2>2. \A r \in Ids : Holds(u, r)' => r \in S
    BY <1>15, <1>16 DEF Holds
  <2>3. SUFFICES ASSUME NEW v \in Undos, NEW w \in Undos, v # w, NEW r \in Ids
                 PROVE  ~ (Holds(v, r)' /\ Holds(w, r)')
    BY DEF HeldOnce
  <2>4. CASE v # u /\ w # u
    BY <2>1, <2>3, <2>4 DEF UndoInv, HeldOnce
  <2>5. CASE v = u
    BY <1>13, <2>1, <2>2, <2>3, <2>5
  <2>6. CASE w = u
    BY <1>13, <2>1, <2>2, <2>3, <2>6
  <2> QED BY <2>4, <2>5, <2>6
<1>19. CallFits(u)'
  <2>1. CASE S = {}
    BY <1>15, <2>1 DEF CallFits
  <2>2. CASE S # {}
    <3>1. undo'[u].all = S /\ undo'[u].left = S /\ undo'[u].pc = "row" /\ undo'[u].put = {}
      BY <1>15, <1>16, <2>2
    <3>2. \A r \in S : rows'[r].st = "in_progress" /\ ~rows'[r].aged
      BY <1>4, <1>9
    <3> QED BY <3>1, <3>2 DEF CallFits, FinishFits, LastFirst, UndoneSoFar, RestoredSoFar
  <2> QED BY <2>1, <2>2
<1>20. ASSUME NEW w \in Undos \ {u} PROVE CallFits(w)'
  <2>1. CASE undo[w] = Idle
    BY <1>15, <2>1 DEF CallFits
  <2>2. CASE undo[w] # Idle
    <3>1. undo[w].all \subseteq 1 .. Len(rows) /\ undo[w].left \subseteq undo[w].all
      BY <1>0, <2>2, CallRows
    <3>2. \A r \in undo[w].left : r \notin S /\ ~rows[r].aged
      BY <1>13, <2>2 DEF Holds, UndoInv, CallFits
    <3>3. \A r \in undo[w].left : rows'[r] = rows[r]
      BY <1>9, <3>1, <3>2
    <3>4. \A r \in undo[w].all : /\ rows'[r].attr = rows[r].attr /\ rows'[r].old = rows[r].old
                                 /\ rows'[r].exact = rows[r].exact
                                 /\ rows[r].st = "undone" => rows'[r].st = "undone"
      BY <1>9, <1>11, <3>1
    <3>5. GoesOn(w)
      BY <1>1, <1>15, <2>2, <3>3, <3>4 DEF GoesOn
    <3> QED BY <1>0, <2>2, <3>5, CallGoesOn DEF UndoInv
  <2> QED BY <2>1, <2>2
<1> QED BY <1>11, <1>17, <1>18, <1>19, <1>20 DEF UndoInv

-----------------------------------------------------------------------------
\* When the bot starts the journal is empty and nobody undoes anything.
LEMMA UndoInvInit == Init => UndoInv
<1> SUFFICES ASSUME Init PROVE UndoInv
  OBVIOUS
<1>1. rows \in Seq(Row) /\ Len(rows) = 0
  BY EmptySeq DEF Init
<1>2. undo \in [Undos -> UndoState] /\ turns \in [Groups -> TurnState]
  BY DEF Init, UndoState, TurnState
<1>3. TypeOK
  BY <1>1, <1>2, UndoAssumption DEF Init, TypeOK
<1> QED BY <1>3 DEF Init, UndoInv, HeldOnce, Holds, CallFits

\* Every step of the turns, of the undos and of the others keeps the invariant, and
\* no row that has been resolved for good is touched.
LEMMA UndoInvStep ==
  ASSUME UndoInv, [Next]_vars
  PROVE  /\ UndoInv'
         /\ \A r \in 1 .. Len(rows) :
              rows[r].st \in {"undone", "acknowledged"} => rows'[r].st = rows[r].st
<1> DEFINE Stays == \A r \in 1 .. Len(rows) :
             rows[r].st \in {"undone", "acknowledged"} => rows'[r].st = rows[r].st
<1>0. TypeOK /\ (UNCHANGED rows => Stays)
  BY DEF UndoInv
<1> SUFFICES UndoInv' /\ Stays
  OBVIOUS
<1>1. CASE UNCHANGED vars
  <2>1. turns' \in [Groups -> TurnState] /\ UNCHANGED <<world, rows, undo>>
    BY <1>0, <1>1 DEF vars, TypeOK
  <2> QED BY <1>0, <2>1, TurnsOnly
<1>2. ASSUME NEW g \in Groups, Capture(g) PROVE UndoInv' /\ Stays
  <2>1. turns' \in [Groups -> TurnState]
    <3>1. PICK a \in Attrs, v \in Values :
            turns' = [turns EXCEPT ![g] = [pc |-> "perform", attr |-> a, val |-> v, old |-> world[a]]]
      BY <1>2 DEF Capture
    <3>2. world[a] \in Values
      BY <1>0 DEF TypeOK
    <3> QED BY <1>0, <3>1, <3>2 DEF TypeOK, TurnState
  <2>2. UNCHANGED <<world, rows, undo>>
    BY <1>2 DEF Capture
  <2> QED BY <1>0, <2>1, <2>2, TurnsOnly
<1>3. ASSUME NEW g \in Groups, Perform(g) PROVE UndoInv' /\ Stays
  <2>1. turns[g].pc = "perform" /\ turns[g] \in TurnState /\ Idle.pc = "idle"
    BY <1>0, <1>3 DEF Perform, TypeOK, Idle
  <2>2. turns[g].attr \in Attrs /\ turns[g].val \in Values
    BY <2>1 DEF TurnState
  <2>3. turns' \in [Groups -> TurnState]
    <3>1. [turns[g] EXCEPT !.pc = "record"] \in TurnState
      BY <2>1 DEF TurnState
    <3>2. turns' = [turns EXCEPT ![g] = [turns[g] EXCEPT !.pc = "record"]]
      BY <1>3 DEF Perform
    <3> QED BY <1>0, <3>1, <3>2 DEF TypeOK
  <2>4. /\ world' = [world EXCEPT ![turns[g].attr] = turns[g].val]
        /\ undo' = Overwritten(turns[g].attr) /\ UNCHANGED rows
    BY <1>3 DEF Perform
  <2> QED BY <1>0, <2>2, <2>3, <2>4, WritesFit
<1>4. ASSUME NEW g \in Groups, Record(g) PROVE UndoInv' /\ Stays
  <2>1. Stays
    <3>1. /\ rows \in Seq(Row)
          /\ \E x : rows' = Append(rows, x)
      BY <1>0, <1>4 DEF Record, TypeOK
    <3> QED BY <3>1
  <2> QED BY <1>4, <2>1, RecordFits
<1>5. ASSUME NEW g \in Groups, Drop(g) PROVE UndoInv' /\ Stays
  <2>1. turns' \in [Groups -> TurnState] /\ UNCHANGED <<world, rows, undo>>
    BY <1>0, <1>5 DEF Drop, TypeOK, TurnState
  <2> QED BY <1>0, <2>1, TurnsOnly
<1>6. ASSUME NEW g \in Groups, Age(g) PROVE UndoInv' /\ Stays
  <2>1. Stays
    BY <1>0, <1>6, RowsStand DEF Age
  <2> QED BY <1>6, <2>1, AgeFits
<1>7. ASSUME NEW u \in Undos, Claim(u) PROVE UndoInv' /\ Stays
  BY <1>7, ClaimFits
<1>8. ASSUME NEW u \in Undos, UndoExact(u) PROVE UndoInv' /\ Stays
  BY <1>0, <1>8, PutBackFits DEF UndoExact, Final
<1>9. ASSUME NEW u \in Undos, NoInverse(u) PROVE UndoInv' /\ Stays
  BY <1>0, <1>9, KeptFits DEF NoInverse
<1>10. ASSUME NEW u \in Undos, InverseFails(u) PROVE UndoInv' /\ Stays
  <2>1. PICK outcome \in {"failed", "acknowledged"} : PutBack(u, outcome) \/ Kept(u, outcome)
    BY <1>10 DEF InverseFails
  <2>2. At(u, "row") /\ rows[Current(u)].exact /\ UNCHANGED <<rows, turns>> /\ outcome \in Final
    BY <1>10 DEF InverseFails, Final
  <2> QED BY <1>0, <2>1, <2>2, PutBackFits, KeptFits
<1>11. ASSUME NEW u \in Undos, Finish(u) PROVE UndoInv' /\ Stays
  <2>1. undo[u] # Idle /\ undo[u].left # {}
    BY <1>11 DEF Finish, At
  <2>2. Current(u) \in undo[u].left
    BY <1>0, <2>1, CurrentIs
  <2>3. rows[Current(u)].st = "in_progress"
    BY <2>1, <2>2 DEF UndoInv, CallFits
  <2>4. \A r \in 1 .. Len(rows) : r # Current(u) => rows'[r] = rows[r]
    BY <1>0, <1>11, RowsStand DEF Finish
  <2>5. Stays
    BY <2>3, <2>4
  <2> QED BY <1>11, <2>5, FinishFitsIn
<1>12. ASSUME NEW u \in Undos, Report(u) \/ Die(u) PROVE UndoInv' /\ Stays
  BY <1>0, <1>12, EndsFit DEF Report, Die
<1>13. ASSUME Meddle PROVE UndoInv' /\ Stays
  <2>1. turns' \in [Groups -> TurnState] /\ UNCHANGED rows
    BY <1>0, <1>13 DEF Meddle, TypeOK
  <2>2. PICK a \in Attrs, v \in Values : world' = [world EXCEPT ![a] = v] /\ undo' = Overwritten(a)
    BY <1>13 DEF Meddle
  <2> QED BY <1>0, <2>1, <2>2, WritesFit
<1> QED BY <1>1, <1>2, <1>3, <1>4, <1>5, <1>6, <1>7, <1>8, <1>9, <1>10, <1>11, <1>12, <1>13
        DEF Next, Turn, UndoStep

\* A claim is one call's alone, and a call that says the group is undone has undone
\* all it claimed and put back what was there before, unless somebody has written
\* it since (storage.py:1351-1366, 1414, action_undo.py:669-671).
THEOREM UndosAreSound == Spec => []UndoSound
<1>1. UndoInv /\ [Next]_vars => UndoInv'
  BY UndoInvStep
<1>2. UndoInv => UndoSound
  <2> SUFFICES ASSUME UndoInv PROVE UndoSound
    OBVIOUS
  <2>1. ClaimStands
    <3>1. SUFFICES ASSUME NEW u \in Undos, undo[u] # Idle, NEW r \in undo[u].left,
                          NEW w \in Undos \ {u}
                   PROVE  rows[r].st = "in_progress" /\ ~Holds(w, r)
      <4>1. ASSUME NEW u \in Undos, undo[u] # Idle, NEW r \in undo[u].left
            PROVE  rows[r].st = "in_progress"
        BY <4>1 DEF UndoInv, CallFits
      <4> QED BY <4>1 DEF ClaimStands
    <3>2. r \in Ids /\ Holds(u, r)
      BY <3>1, CallRows, JournalRow DEF UndoInv, Holds
    <3> QED BY <3>1, <3>2 DEF UndoInv, CallFits, HeldOnce
  <2>2. FullHonest
    BY DEF FullHonest, SaysFull, UndoInv, CallFits, UndoneSoFar
  <2>3. FullRestores
    <3>1. SUFFICES ASSUME NEW u \in Undos, SaysFull(u), NEW a \in undo[u].put, NEW r \in undo[u].all,
                          rows[r].attr = a, \A s \in undo[u].all : rows[s].attr = a => r <= s
                   PROVE  world[a] = rows[r].old
      BY DEF FullRestores
    <3>2. undo[u] # Idle /\ undo[u].left = {} /\ undo[u].full
      BY <3>1 DEF SaysFull
    <3>3. undo[u].pc # "finish" /\ RestoredSoFar(u)
      BY <3>2 DEF UndoInv, CallFits, FinishFits
    <3>4. Through(u) = undo[u].all
      BY <3>2, <3>3 DEF Through
    <3> QED BY <3>1, <3>2, <3>3, <3>4 DEF RestoredSoFar
  <2> QED BY <2>1, <2>2, <2>3 DEF UndoSound, UndoInv
<1> QED BY <1>1, <1>2, UndoInvInit, PTL DEF Spec

\* A row that has been resolved for good stays so, however many calls claim, die and
\* are called again (storage.py:1437-1438).
THEOREM ResolvedRowsStay == Spec => ResolvedStays
<1>1. UndoInv /\ [Next]_vars => UndoInv'
  BY UndoInvStep
<1>2. UndoInv /\ [Next]_vars =>
        [\A r \in 1 .. Len(rows) : rows[r].st \in {"undone", "acknowledged"} =>
           rows'[r].st = rows[r].st]_vars
  BY UndoInvStep
<1> QED BY <1>1, <1>2, UndoInvInit, PTL DEF Spec, ResolvedStays

-----------------------------------------------------------------------------
\* The database and its copies.

\* What a message of the channel is.
Message == [kind : {"single", "manifest", "part"}, data : SUBSET (1 .. facts), parts : SUBSET (1 .. posts)]

\* The messages are what was posted, and a manifest names earlier ones.
ChannelFits == \A m \in DOMAIN channel : channel[m] \in Message

\* An upload's parts are messages of its own, which no copy names.
JobFits ==
  job # NoJob =>
    /\ job \in [by : Askers, data : SUBSET (1 .. facts), parts : SUBSET DOMAIN channel, left : Nat]
    /\ \A x \in job.parts : channel[x].kind = "part" /\ \A m \in DOMAIN channel : x \notin channel[m].parts

\* Who is at what in which phase of the process; only a running one saves.
LifeFits ==
  /\ life = "down" => asker = Quiet
  /\ life # "down" => ended = "none"
  /\ life = "restoring" => cursor \in 0 .. posts + 1
  /\ life = "running" => trusted
  /\ life \in {"restoring", "refused"} => ~trusted /\ outcomes = {}
  /\ \A a \in Askers : asker[a] \in {"drain", "flush", "audit", "backup"} => life = "running"
  /\ \A a \in Askers : asker[a] = "audit" => a = "tool"

\* As long as no complete copy was passed over, a newer copy has all that an older
\* one has, and so have the database that runs and the snapshot being uploaded.
NewerHasMore ==
  ~skipped =>
    /\ \A m, n \in Points(channel) : m <= n => channel[m].data \subseteq channel[n].data
    /\ life = "running" => \A m \in Points(channel) : channel[m].data \subseteq db
    /\ life = "restoring" => \A m \in Points(channel) : m < cursor
    /\ job # NoJob => \A m \in Points(channel) : channel[m].data \subseteq job.data

\* What is being uploaded is in the database.
JobKnown == job # NoJob => job.data \subseteq db

\* A complete copy has these facts.
InACopy(S) == \E m \in Points(channel) : S \subseteq channel[m].data

\* The tool's audit is in the database from its backup on, and in a copy before it closes.
AuditKept ==
  /\ asker["tool"] \in {"backup", "close"} => audit \in db
  /\ job # NoJob /\ (job.by = "tool" \/ asker["tool"] = "close") => audit \in job.data
  /\ asker["tool"] = "close" => life = "running" /\ InACopy({audit})
  /\ ended = "tool" => InACopy({audit})

\* The outcomes are in the database, settled once the automations have been stopped,
\* and in a copy when the signal's backup has succeeded.
OutcomesKept ==
  /\ life # "down" => outcomes \subseteq db
  /\ asker["signal"] \in {"flush", "backup", "close"} => drained
  /\ job # NoJob /\ (job.by = "signal" \/ saved) => outcomes \subseteq job.data
  /\ life # "down" /\ saved => asker["signal"] = "close"
  /\ life # "down" /\ saved => InACopy(outcomes)
  /\ ended = "signal" /\ saved => InACopy(outcomes)

\* The inductive invariant of the copies.
BackupInv ==
  BackupTypeOK /\ ChannelFits /\ JobFits /\ JobKnown /\ LifeFits /\ NewerHasMore /\ AuditKept
  /\ OutcomesKept

-----------------------------------------------------------------------------
\* A job is one of an asker, NoJob is nobody's.
LEMMA JobOrNot ==
  /\ NoJob.by = "nobody" /\ NoJob.data = {} /\ NoJob.parts = {} /\ NoJob.left = 0
  /\ \A a \in Askers : \A d, q, n : [by |-> a, data |-> d, parts |-> q, left |-> n] # NoJob
<1>1. NoJob.by = "nobody" /\ NoJob.data = {} /\ NoJob.parts = {} /\ NoJob.left = 0
  BY DEF NoJob
<1>2. ASSUME NEW a \in Askers, NEW d, NEW q, NEW n
      PROVE  [by |-> a, data |-> d, parts |-> q, left |-> n] # NoJob
  <2>1. [by |-> a, data |-> d, parts |-> q, left |-> n].by = a
    OBVIOUS
  <2>2. a # "nobody"
    BY DEF Askers
  <2> QED BY <1>1, <2>1, <2>2
<1> QED BY <1>1, <1>2

\* An upload is under way in a running process only, whose state is trusted.
LEMMA JobRuns ==
  ASSUME BackupInv, job # NoJob
  PROVE  asker[job.by] = "backup" /\ life = "running" /\ trusted /\ job.by \in Askers
BY DEF BackupInv, BackupTypeOK, LifeFits, JobFits

\* The bounds are numbers.
LEMMA BoundsAre ==
  /\ MaxFacts \in Nat /\ MaxPosts \in Nat /\ KeepLast \in Nat \ {0} /\ PartCount \in Nat \ {0}
  /\ MaxAttempts \in Nat \ {0}
BY BackupAssumption

\* A copy is a message of the channel.
LEMMA PointsAre == Points(channel) \subseteq HeadsOf(channel) /\ HeadsOf(channel) \subseteq DOMAIN channel
BY DEF Points, HeadsOf, Complete

\* While no message comes or goes the copies are as they were, and the upload too.
LEMMA SameChannel ==
  ASSUME BackupInv, UNCHANGED <<channel, posts, job>>, facts' \in facts .. MaxFacts
  PROVE  /\ ChannelFits' /\ JobFits' /\ Points(channel)' = Points(channel)
         /\ DOMAIN channel' \subseteq 1 .. posts' /\ posts' \in 0 .. MaxPosts
         /\ \A m \in DOMAIN channel' : channel'[m].kind \in {"single", "manifest", "part"}
         /\ facts \in 0 .. MaxFacts /\ 1 .. facts \subseteq 1 .. facts'
<1>1. facts \in 0 .. MaxFacts /\ 1 .. facts \subseteq 1 .. facts'
  BY BoundsAre DEF BackupInv, BackupTypeOK
<1>2. ChannelFits'
  BY <1>1 DEF BackupInv, ChannelFits, Message
<1>3. JobFits'
  BY <1>1 DEF BackupInv, JobFits
<1> QED BY <1>1, <1>2, <1>3 DEF BackupInv, BackupTypeOK

\* The start of a process.
LEMMA BootFits == ASSUME BackupInv, Boot PROVE BackupInv'
<1>0. /\ BackupTypeOK /\ JobFits /\ LifeFits /\ NewerHasMore
      /\ life = "down" /\ asker = Quiet /\ job = NoJob
  <2>1. \A a \in Askers : asker[a] # "backup"
    BY DEF BackupInv, LifeFits, Boot, Quiet
  <2>2. job = NoJob
    BY <2>1 DEF BackupInv, JobFits, BackupTypeOK
  <2> QED BY <2>2 DEF BackupInv, LifeFits, Boot
<1>1. /\ life' = "restoring" /\ cursor' = posts + 1 /\ ~trusted'
      /\ db' \subseteq db /\ outcomes' = {} /\ audit' = 0 /\ ended' = "none" /\ ~saved'
      /\ UNCHANGED <<channel, posts, cached, facts, skipped, job, asker>>
  BY DEF Boot, channelVars
<1>2. facts' \in facts .. MaxFacts
  BY <1>0, <1>1, BoundsAre DEF BackupTypeOK
<1>3. \A a \in Askers : asker'[a] = "none"
  BY <1>0, <1>1 DEF Quiet
<1>4. BackupTypeOK'
  BY <1>0, <1>1, <1>2, <1>3, SameChannel DEF BackupTypeOK
<1>5. LifeFits'
  BY <1>0, <1>1, <1>3 DEF LifeFits, BackupTypeOK
<1>6. NewerHasMore'
  <2>1. \A m \in Points(channel) : m < posts + 1
    BY <1>0, PointsAre DEF BackupTypeOK
  <2> QED BY <1>0, <1>1, <1>2, <2>1, SameChannel DEF NewerHasMore
<1>7. AuditKept' /\ OutcomesKept'
  BY <1>0, <1>1, <1>3 DEF AuditKept, OutcomesKept, Askers
<1> QED BY <1>0, <1>1, <1>2, <1>4, <1>5, <1>6, <1>7, SameChannel DEF BackupInv, JobKnown

\* The start opens the gateway on the newest copy that is whole, or passes one over.
LEMMA TryCandidateFits == ASSUME BackupInv, TryCandidate PROVE BackupInv'
<1>0. /\ BackupTypeOK /\ ChannelFits /\ JobFits /\ LifeFits /\ NewerHasMore /\ AuditKept /\ OutcomesKept
      /\ life = "restoring" /\ ~trusted /\ job = NoJob /\ cursor \in 0 .. posts + 1 /\ posts \in Nat
  <2>1. ~trusted /\ cursor \in 0 .. posts + 1
    BY DEF BackupInv, LifeFits, TryCandidate
  <2>2. job = NoJob
    BY <2>1, JobRuns
  <2> QED BY <2>1, <2>2, BoundsAre DEF BackupInv, TryCandidate, BackupTypeOK
<1> DEFINE m == NextCandidate
<1>1. m \in HeadsOf(channel) /\ m < cursor /\ m \in DOMAIN channel /\ \A n \in Ahead : n <= m
  <2>1. Ahead # {} /\ Ahead \in SUBSET (0 .. posts)
    BY <1>0, PointsAre DEF TryCandidate, Ahead, BackupTypeOK, HeadsOf
  <2>2. m \in Ahead /\ \A n \in Ahead : n <= m
    BY <1>0, <2>1, MaxIs DEF NextCandidate
  <2> QED BY <2>2 DEF Ahead, HeadsOf
<1>2. UNCHANGED <<channel, posts, facts, job, asker, drained, outcomes, audit, ended, saved, stops>>
  BY DEF TryCandidate, channelVars, stopVars, endVars
<1>3. facts' \in facts .. MaxFacts
  BY <1>0, <1>2, BoundsAre DEF BackupTypeOK
<1>4. CASE /\ Complete(channel, m) /\ db' = channel[m].data /\ cached' = {}
           /\ life' = "running" /\ trusted' = TRUE /\ UNCHANGED <<cursor, skipped>>
  <2>1. db' \subseteq 1 .. facts
    BY <1>0, <1>1, <1>4 DEF ChannelFits, Message
  <2>2. BackupTypeOK'
    BY <1>0, <1>2, <1>3, <1>4, <2>1, SameChannel DEF BackupTypeOK
  <2>3. LifeFits'
    BY <1>0, <1>2, <1>4 DEF LifeFits
  <2>4. NewerHasMore'
    <3>1. SUFFICES ASSUME ~skipped PROVE \A n \in Points(channel) : channel[n].data \subseteq db'
      BY <1>0, <1>2, <1>3, <1>4, SameChannel DEF NewerHasMore
    <3>2. m \in Points(channel)
      BY <1>1, <1>4 DEF Points
    <3>3. \A n \in Points(channel) : n <= m
      BY <1>0, <1>1, <3>1, PointsAre DEF NewerHasMore, Ahead
    <3> QED BY <1>0, <1>4, <3>1, <3>2, <3>3 DEF NewerHasMore
  <2>5. AuditKept' /\ OutcomesKept'
    <3>1. outcomes = {} /\ \A a \in Askers : asker[a] # "backup"
      BY <1>0 DEF LifeFits
    <3>2. asker["tool"] \notin {"backup", "close"}
      BY <1>0, <3>1 DEF AuditKept, Askers
    <3> QED BY <1>0, <1>2, <1>3, <1>4, <3>1, <3>2, SameChannel DEF AuditKept, OutcomesKept, InACopy
  <2> QED BY <1>0, <1>2, <1>3, <2>2, <2>3, <2>4, <2>5, SameChannel DEF BackupInv, JobKnown
<1>5. CASE /\ \/ Complete(channel, m) /\ skipped' = TRUE
              \/ ~Complete(channel, m) /\ UNCHANGED skipped
           /\ cursor' = m /\ UNCHANGED <<db, cached, life, attempt, trusted>>
  <2>1. BackupTypeOK'
    BY <1>0, <1>2, <1>3, <1>5, SameChannel DEF BackupTypeOK
  <2>2. LifeFits'
    <3>1. m \in 0 .. posts + 1
      BY <1>0, <1>1 DEF BackupTypeOK
    <3> QED BY <1>0, <1>2, <1>5, <3>1 DEF LifeFits
  <2>3. NewerHasMore'
    <3>1. SUFFICES ASSUME ~skipped' PROVE \A n \in Points(channel) : n < m
      BY <1>0, <1>2, <1>3, <1>5, SameChannel DEF NewerHasMore
    <3>2. ~skipped /\ m \notin Points(channel)
      BY <1>5, <3>1 DEF Points
    <3>3. \A n \in Points(channel) : n <= m /\ n # m
      BY <1>0, <1>1, <3>2, PointsAre DEF NewerHasMore, Ahead
    <3>4. \A n \in Points(channel) : n \in Nat /\ m \in Nat
      BY <1>0, <1>1, PointsAre DEF BackupTypeOK
    <3> QED BY <3>3, <3>4
  <2>4. AuditKept' /\ OutcomesKept'
    BY <1>0, <1>2, <1>3, <1>5, SameChannel DEF AuditKept, OutcomesKept, InACopy
  <2> QED BY <1>0, <1>2, <1>3, <2>1, <2>2, <2>3, <2>4, SameChannel DEF BackupInv, JobKnown
<1> QED BY <1>4, <1>5 DEF TryCandidate, Opened

\* The start gives an attempt up, or finds a channel without any copy.
LEMMA EndScanFits == ASSUME BackupInv, EndScan PROVE BackupInv'
<1>0. /\ BackupTypeOK /\ ChannelFits /\ JobFits /\ LifeFits /\ NewerHasMore /\ AuditKept /\ OutcomesKept
      /\ life = "restoring" /\ ~trusted /\ job = NoJob /\ outcomes = {} /\ posts \in Nat
  <2>1. ~trusted /\ outcomes = {}
    BY DEF BackupInv, LifeFits, EndScan
  <2>2. job = NoJob
    BY <2>1, JobRuns
  <2> QED BY <2>1, <2>2, BoundsAre DEF BackupInv, EndScan, BackupTypeOK
<1>1. UNCHANGED <<channel, posts, db, cached, facts, skipped, job, asker, drained, outcomes, audit,
                  ended, saved, stops>>
  BY DEF EndScan, channelVars, dataVars, stopVars, endVars
<1>2. facts' \in facts .. MaxFacts
  BY <1>0, <1>1, BoundsAre DEF BackupTypeOK
<1>3. \/ life' = "restoring" /\ cursor' = posts + 1 /\ ~trusted'
      \/ life' = "refused" /\ ~trusted'
      \/ life' = "running" /\ trusted' /\ DOMAIN channel = {}
  BY <1>0 DEF EndScan, GiveUp, Opened
<1>4. BackupTypeOK'
  BY <1>0, <1>1, <1>2, <1>3, SameChannel DEF BackupTypeOK, LifeFits
<1>5. LifeFits'
  BY <1>0, <1>1, <1>3 DEF LifeFits
<1>6. NewerHasMore'
  <2>1. \A m \in Points(channel) : m < posts + 1 /\ DOMAIN channel # {}
    BY <1>0, PointsAre DEF BackupTypeOK
  <2> QED BY <1>0, <1>1, <1>2, <1>3, <2>1, SameChannel DEF NewerHasMore
<1>7. AuditKept' /\ OutcomesKept'
  BY <1>0, <1>1, <1>2, <1>3, SameChannel DEF AuditKept, OutcomesKept, InACopy
<1> QED BY <1>0, <1>1, <1>2, <1>4, <1>5, <1>6, <1>7, SameChannel DEF BackupInv, JobKnown

\* The database of a running process grows while the channel stands: the copies and
\* what was said of them keep their truth.
LEMMA DatabaseGrows ==
  ASSUME BackupInv, UNCHANGED <<channel, posts, job, life, cursor, trusted, skipped, ended, saved>>,
         facts' \in facts .. MaxFacts, db \subseteq db', db' \subseteq 1 .. facts',
         cached' \subseteq 1 .. facts'
  PROVE  /\ ChannelFits' /\ JobFits' /\ JobKnown' /\ NewerHasMore'
         /\ Points(channel)' = Points(channel)
         /\ (job # NoJob => asker'[job.by] = "backup")
            /\ (\A a \in Askers : asker'[a] \in {"flush", "backup"} => trusted)
            /\ asker' \in [Askers -> {"none", "drain", "drop", "flush", "audit", "backup", "close"}]
            => BackupTypeOK'
<1>1. ChannelFits' /\ JobFits' /\ Points(channel)' = Points(channel)
  BY SameChannel
<1>2. NewerHasMore' /\ JobKnown'
  BY <1>1 DEF BackupInv, NewerHasMore, JobKnown
<1>3. facts' \in 0 .. MaxFacts
  BY BoundsAre DEF BackupInv, BackupTypeOK
<1> QED BY <1>1, <1>2, <1>3, SameChannel DEF BackupInv, BackupTypeOK

\* An outcome is recorded, or something is said in a channel.
LEMMA FactFits == ASSUME BackupInv, RecordOutcome \/ HearSomething PROVE BackupInv'
<1>0. /\ BackupTypeOK /\ JobFits /\ LifeFits /\ AuditKept /\ OutcomesKept /\ facts \in Nat /\ facts < MaxFacts
      /\ life = "running" /\ facts' = facts + 1
  BY BoundsAre DEF BackupInv, BackupTypeOK, RecordOutcome, HearSomething, NewFact
<1>1. /\ UNCHANGED <<channel, posts, job, life, attempt, cursor, trusted, skipped, asker, drained, audit,
                     ended, saved, stops>>
      /\ facts' \in facts .. MaxFacts /\ facts' \in 1 .. facts' /\ 1 .. facts \subseteq 1 .. facts'
      /\ db \subseteq db' /\ db' \subseteq 1 .. facts' /\ cached' \subseteq 1 .. facts'
  <2>1. /\ UNCHANGED <<channel, posts, job, life, attempt, cursor, trusted, skipped, asker, drained, audit,
                       ended, saved, stops>>
        /\ db' \in {db, db \cup {facts'}} /\ cached' \in {cached, cached \cup {facts'}}
    BY DEF RecordOutcome, HearSomething, channelVars, startVars, endVars, stopVars
  <2>2. facts' \in facts .. MaxFacts /\ facts' \in 1 .. facts' /\ 1 .. facts \subseteq 1 .. facts'
    BY <1>0, BoundsAre
  <2> QED BY <1>0, <2>1, <2>2 DEF BackupTypeOK
<1>2. ChannelFits' /\ JobFits' /\ JobKnown' /\ NewerHasMore' /\ BackupTypeOK'
      /\ Points(channel)' = Points(channel)
  BY <1>0, <1>1, DatabaseGrows DEF BackupTypeOK
<1>3. LifeFits' /\ AuditKept'
  BY <1>0, <1>1, <1>2 DEF LifeFits, AuditKept, InACopy
<1>4. OutcomesKept'
  <2>1. \/ outcomes' = outcomes
        \/ outcomes' = outcomes \cup {facts'} /\ ~drained /\ facts' \in db'
    BY DEF RecordOutcome, HearSomething, stopVars
  <2>2. CASE outcomes' = outcomes
    BY <1>0, <1>1, <1>2, <2>2 DEF OutcomesKept, InACopy
  <2>3. CASE outcomes' = outcomes \cup {facts'} /\ ~drained /\ facts' \in db'
    <3>1. asker["signal"] \notin {"flush", "backup", "close"} /\ ~saved
      BY <1>0, <2>3 DEF OutcomesKept
    <3>2. job # NoJob => job.by # "signal"
      BY <1>0, <3>1 DEF BackupTypeOK
    <3>3. ended = "none"
      BY <1>0 DEF LifeFits
    <3> QED BY <1>0, <1>1, <2>3, <3>1, <3>2, <3>3 DEF OutcomesKept
  <2> QED BY <2>1, <2>2, <2>3
<1> QED BY <1>2, <1>3, <1>4 DEF BackupInv

\* A backup is asked for, or the end, or the automations are stopped.
LEMMA AskingFits ==
  ASSUME BackupInv, AskPeriodic \/ AskTool \/ Signal \/ ShutdownDrains
  PROVE  BackupInv'
<1>0. BackupTypeOK /\ JobFits /\ LifeFits /\ AuditKept /\ OutcomesKept
  BY DEF BackupInv
<1>1. UNCHANGED <<channel, posts, job, db, cached, facts, life, attempt, cursor, trusted, skipped, outcomes,
                  audit, ended, saved, stops>>
  BY DEF AskPeriodic, AskTool, Signal, ShutdownDrains, Drain, channelVars, dataVars, startVars, stopVars, endVars
<1>2. PICK a \in Askers, where \in {"flush", "drain", "drop", "close"} :
        /\ asker' = [asker EXCEPT ![a] = where] /\ asker[a] \in {"none", "drain", "drop"}
        /\ life # "down"
        /\ where \in {"flush", "drain"} => life = "running"
        /\ where # "flush" => a = "signal"
        /\ where = "close" => asker[a] = "drop"
        /\ a = "signal" /\ where \in {"flush", "close"} => drained'
        /\ drained => drained'
  <2>1. CASE AskPeriodic
    BY <2>1 DEF AskPeriodic, Goes, Askers, stopVars
  <2>2. CASE AskTool
    BY <2>2 DEF AskTool, Goes, Askers, stopVars
  <2>3. CASE Signal
    <3>1. trusted => life = "running"
      BY <1>0, <2>3 DEF LifeFits, Signal
    <3> QED BY <2>3, <3>1 DEF Signal, Goes, Askers, stopVars
  <2>4. CASE ShutdownDrains
    <3>1. /\ drained' = TRUE
          /\ \/ asker["signal"] = "drain" /\ asker' = [asker EXCEPT !["signal"] = "flush"]
             \/ asker["signal"] = "drop" /\ asker' = [asker EXCEPT !["signal"] = "close"]
      BY <2>4 DEF ShutdownDrains, Drain, Goes
    <3>2. "signal" \in Askers /\ life # "down"
      BY <1>0, <3>1 DEF LifeFits, Quiet, Askers
    <3>3. asker["signal"] = "drain" => life = "running"
      BY <1>0, <3>2 DEF LifeFits
    <3> QED BY <3>1, <3>2, <3>3
  <2> QED BY <2>1, <2>2, <2>3, <2>4
<1>3. asker'[a] = where /\ \A b \in Askers \ {a} : asker'[b] = asker[b]
  BY <1>0, <1>2 DEF BackupTypeOK
<1>4. facts' \in facts .. MaxFacts /\ db' \subseteq 1 .. facts' /\ cached' \subseteq 1 .. facts'
  BY <1>0, <1>1, BoundsAre DEF BackupTypeOK
<1>5. ChannelFits' /\ JobFits' /\ JobKnown' /\ NewerHasMore' /\ BackupTypeOK'
      /\ Points(channel)' = Points(channel)
  <2>1. asker' \in [Askers -> {"none", "drain", "drop", "flush", "audit", "backup", "close"}]
    BY <1>0, <1>2 DEF BackupTypeOK
  <2>2. \A b \in Askers : asker'[b] \in {"flush", "backup"} => trusted
    BY <1>0, <1>2, <1>3 DEF BackupTypeOK, LifeFits
  <2>3. job # NoJob => asker'[job.by] = "backup"
    BY <1>0, <1>2, <1>3 DEF BackupTypeOK, JobFits
  <2> QED BY <1>1, <1>4, <2>1, <2>2, <2>3, DatabaseGrows
<1>6. LifeFits'
  BY <1>0, <1>1, <1>2, <1>3 DEF LifeFits
<1>7. AuditKept'
  <2>1. asker'["tool"] \in {"backup", "close"} => asker["tool"] = asker'["tool"]
    BY <1>2, <1>3 DEF Askers
  <2> QED BY <1>0, <1>1, <1>5, <2>1 DEF AuditKept, InACopy
<1>8. OutcomesKept'
  <2>1. asker'["signal"] \in {"flush", "backup", "close"} => drained'
    BY <1>0, <1>2, <1>3 DEF OutcomesKept, Askers
  <2>2. saved => asker'["signal"] = "close"
    BY <1>0, <1>2, <1>3 DEF OutcomesKept, Askers
  <2> QED BY <1>0, <1>1, <1>5, <2>1, <2>2 DEF OutcomesKept, InACopy
<1> QED BY <1>5, <1>6, <1>7, <1>8 DEF BackupInv

\* The memory is written, and the tool's call.
LEMMA WritingFits ==
  ASSUME BackupInv, AuditStop \/ \E a \in Askers : Flush(a)
  PROVE  BackupInv'
<1>0. BackupTypeOK /\ JobFits /\ LifeFits /\ AuditKept /\ OutcomesKept
  BY DEF BackupInv
<1>1. UNCHANGED <<channel, posts, job, life, attempt, cursor, trusted, skipped, drained, outcomes,
                  ended, saved, stops>>
  BY DEF AuditStop, Flush, channelVars, startVars, stopVars, endVars
<1>2. PICK a \in Askers, where \in {"none", "audit", "backup"} :
        /\ asker' = [asker EXCEPT ![a] = where] /\ asker[a] \in {"flush", "audit"}
        /\ where = "audit" => a = "tool"
        /\ a = "tool" /\ where = "backup" => audit' \in db'
        /\ a # "tool" => UNCHANGED audit
        /\ facts' \in facts .. MaxFacts /\ db \subseteq db' /\ db' \subseteq 1 .. facts'
        /\ cached' \subseteq 1 .. facts'
  <2>1. ASSUME NEW a \in Askers, Flush(a)
        PROVE  /\ asker' = [asker EXCEPT ![a] = IF a = "tool" THEN "audit" ELSE "backup"]
               /\ asker[a] = "flush" /\ UNCHANGED <<audit, facts>>
               /\ db' \in {db, db \cup cached} /\ cached' \subseteq cached
    BY <2>1 DEF Flush, Goes, stopVars
  <2>2. facts \in facts .. MaxFacts /\ db \subseteq 1 .. facts /\ cached \subseteq 1 .. facts
    BY <1>0, BoundsAre DEF BackupTypeOK
  <2>3. CASE \E a \in Askers : Flush(a)
    BY <2>1, <2>2, <2>3
  <2>4. CASE AuditStop
    <3>1. /\ asker["tool"] = "audit" /\ UNCHANGED cached /\ "tool" \in Askers
          /\ \/ /\ facts < MaxFacts /\ facts' = facts + 1 /\ db' = db \cup {facts'} /\ audit' = facts'
                /\ asker' = [asker EXCEPT !["tool"] = "backup"]
             \/ asker' = [asker EXCEPT !["tool"] = "none"] /\ UNCHANGED <<facts, db, audit>>
      BY <2>4 DEF AuditStop, NewFact, Goes, Askers
    <3>2. facts \in Nat
      BY <1>0 DEF BackupTypeOK
    <3>3. CASE facts' = facts + 1 /\ facts < MaxFacts /\ db' = db \cup {facts'} /\ audit' = facts'
               /\ asker' = [asker EXCEPT !["tool"] = "backup"]
      <4>1. facts' \in facts .. MaxFacts /\ 1 .. facts \subseteq 1 .. facts' /\ facts' \in 1 .. facts'
        BY <3>2, <3>3, BoundsAre
      <4> QED BY <2>2, <3>1, <3>3, <4>1
    <3> QED BY <2>2, <3>1, <3>3
  <2> QED BY <2>3, <2>4
<1>3. asker'[a] = where /\ \A b \in Askers \ {a} : asker'[b] = asker[b]
  BY <1>0, <1>2 DEF BackupTypeOK
<1>4. life = "running" /\ trusted
  BY <1>0, <1>2 DEF LifeFits
<1>5. ChannelFits' /\ JobFits' /\ JobKnown' /\ NewerHasMore' /\ BackupTypeOK'
      /\ Points(channel)' = Points(channel)
  <2>1. asker' \in [Askers -> {"none", "drain", "drop", "flush", "audit", "backup", "close"}]
    BY <1>0, <1>2 DEF BackupTypeOK
  <2>2. \A b \in Askers : asker'[b] \in {"flush", "backup"} => trusted
    BY <1>4
  <2>3. job # NoJob => asker'[job.by] = "backup"
    BY <1>0, <1>2, <1>3 DEF BackupTypeOK, JobFits
  <2> QED BY <1>1, <1>2, <2>1, <2>2, <2>3, DatabaseGrows
<1>6. LifeFits'
  BY <1>0, <1>1, <1>2, <1>3, <1>4 DEF LifeFits
<1>7. AuditKept'
  <2>1. ended # "tool"
    BY <1>0, <1>4 DEF LifeFits
  <2>2. CASE a = "tool"
    <3>1. asker["tool"] \notin {"backup", "close"} /\ (job # NoJob => job.by # "tool")
      BY <1>0, <1>2, <2>2 DEF BackupTypeOK
    <3> QED BY <1>1, <1>2, <1>3, <2>1, <2>2, <3>1 DEF AuditKept
  <2>3. CASE a # "tool"
    <3>1. asker'["tool"] = asker["tool"] /\ audit' = audit
      BY <1>2, <1>3, <2>3 DEF Askers
    <3> QED BY <1>0, <1>1, <1>2, <1>5, <2>1, <3>1 DEF AuditKept, InACopy
  <2> QED BY <2>2, <2>3
<1>8. OutcomesKept'
  <2>1. asker'["signal"] \in {"flush", "backup", "close"} => drained'
    BY <1>0, <1>1, <1>2, <1>3 DEF OutcomesKept, LifeFits, Askers
  <2>2. saved => asker'["signal"] = "close"
    BY <1>0, <1>2, <1>3, <1>4 DEF OutcomesKept, Askers
  <2> QED BY <1>0, <1>1, <1>2, <1>4, <1>5, <2>1, <2>2 DEF OutcomesKept, InACopy
<1> QED BY <1>5, <1>6, <1>7, <1>8 DEF BackupInv

\* A snapshot is what the database has, or cannot be taken.
LEMMA SnapshotFits ==
  ASSUME BackupInv, NEW a \in Askers, TakeSnapshot(a)
  PROVE  BackupInv'
<1>0. /\ BackupTypeOK /\ ChannelFits /\ LifeFits /\ NewerHasMore /\ AuditKept /\ OutcomesKept
      /\ job = NoJob /\ asker[a] = "backup" /\ trusted /\ life = "running" /\ ended = "none"
  BY DEF BackupInv, TakeSnapshot, LifeFits
<1>1. /\ UNCHANGED <<channel, posts, db, cached, facts, life, attempt, cursor, trusted, skipped, drained,
                     outcomes, audit, ended, stops>>
      /\ facts' \in facts .. MaxFacts /\ facts \in Nat
  BY <1>0, BoundsAre DEF TakeSnapshot, channelVars, dataVars, startVars, stopVars, BackupTypeOK
<1>2. Points(channel)' = Points(channel) /\ ChannelFits'
  BY <1>1 DEF BackupInv, ChannelFits, Message
<1>3. CASE (\E n \in {0, PartCount} : job' = [by |-> a, data |-> db, parts |-> {}, left |-> n])
           /\ UNCHANGED <<asker, saved>>
  <2>1. PICK n \in {0, PartCount} : job' = [by |-> a, data |-> db, parts |-> {}, left |-> n]
    BY <1>3
  <2>2. job' # NoJob /\ job'.by = a /\ job'.data = db /\ job'.parts = {} /\ job'.left = n /\ n \in Nat
    BY <2>1, JobOrNot, BoundsAre
  <2>3. BackupTypeOK' /\ JobFits' /\ LifeFits'
    BY <1>0, <1>1, <1>3, <2>2 DEF BackupTypeOK, JobFits, LifeFits
  <2>4. NewerHasMore'
    BY <1>0, <1>1, <1>2, <2>2 DEF NewerHasMore
  <2>5. AuditKept'
    BY <1>0, <1>1, <1>2, <1>3, <2>2 DEF AuditKept, InACopy
  <2>6. OutcomesKept'
    BY <1>0, <1>1, <1>2, <1>3, <2>2 DEF OutcomesKept, InACopy
  <2> QED BY <1>1, <1>2, <2>2, <2>3, <2>4, <2>5, <2>6 DEF BackupInv, JobKnown
<1>4. CASE TellAsker(a, FALSE) /\ UNCHANGED job
  <2>1. /\ asker' = [asker EXCEPT ![a] = IF a = "signal" THEN "close" ELSE "none"]
        /\ saved' = IF a = "signal" THEN FALSE ELSE saved
    BY <1>4 DEF TellAsker, Goes
  <2>2. /\ asker'[a] = (IF a = "signal" THEN "close" ELSE "none")
        /\ \A b \in Askers \ {a} : asker'[b] = asker[b]
    BY <1>0, <2>1 DEF BackupTypeOK
  <2>3. BackupTypeOK'
    BY <1>0, <1>1, <1>4, <2>1, <2>2 DEF BackupTypeOK
  <2>4. JobFits' /\ LifeFits'
    BY <1>0, <1>1, <1>4, <2>2 DEF JobFits, LifeFits
  <2>5. NewerHasMore'
    BY <1>0, <1>1, <1>2, <1>4 DEF NewerHasMore
  <2>6. AuditKept'
    <3>1. asker'["tool"] \in {"backup", "close"} => asker["tool"] = asker'["tool"]
      BY <2>2 DEF Askers
    <3> QED BY <1>0, <1>1, <1>2, <1>4, <3>1 DEF AuditKept, InACopy
  <2>7. OutcomesKept'
    <3>1. asker'["signal"] \in {"flush", "backup", "close"} => drained
      BY <1>0, <2>2 DEF OutcomesKept, Askers
    <3>2. saved' => saved /\ a # "signal" /\ asker'["signal"] = asker["signal"]
      BY <2>1, <2>2 DEF Askers
    <3> QED BY <1>0, <1>1, <1>2, <1>4, <3>1, <3>2 DEF OutcomesKept, InACopy
  <2> QED BY <1>0, <1>2, <1>4, <2>3, <2>4, <2>5, <2>6, <2>7 DEF BackupInv, JobKnown
<1> QED BY <1>3, <1>4 DEF TakeSnapshot

-----------------------------------------------------------------------------
\* Messages come and go.

\* The message a job posts next.
Next1 == [kind |-> NextKind, data |-> job.data, parts |-> IF job.left > 0 THEN {} ELSE job.parts]

\* The channel with that message has the others too.
LEMMA PostedHas ==
  ASSUME BackupInv, job # NoJob
  PROVE  /\ DOMAIN Posted = DOMAIN channel \cup {posts + 1} /\ posts + 1 \notin DOMAIN channel
         /\ Posted[posts + 1] = Next1
         /\ \A m \in DOMAIN channel : Posted[m] = channel[m]
<1>1. posts + 1 \notin DOMAIN channel
  BY DEF BackupInv, BackupTypeOK
<1> QED BY <1>1 DEF Posted, Next1

\* What is in the channel was there or is that message.
FromBefore ==
  \A m \in DOMAIN channel' :
    \/ m \in DOMAIN channel /\ channel'[m] = channel[m]
    \/ m = posts + 1 /\ posts' = posts + 1 /\ job # NoJob /\ channel'[m] = Next1

\* Then all is still a message, and no copy has become whole but the new one.
LEMMA FromBeforeFits ==
  ASSUME BackupInv, FromBefore, posts' \in {posts, posts + 1}, UNCHANGED facts, posts' <= MaxPosts
  PROVE  /\ ChannelFits'
         /\ DOMAIN channel' \subseteq 1 .. posts' /\ posts' \in 0 .. MaxPosts
         /\ \A m \in DOMAIN channel' : channel'[m].kind \in {"single", "manifest", "part"}
         /\ \A m \in Points(channel') : /\ m \in DOMAIN channel'
                                        /\ \/ m \in Points(channel) /\ channel'[m] = channel[m] /\ m <= posts
                                           \/ m = posts + 1 /\ job # NoJob /\ channel'[m].data = job.data
<1>0. BackupTypeOK /\ ChannelFits /\ JobFits /\ posts \in Nat /\ MaxPosts \in Nat
  BY BoundsAre DEF BackupInv, BackupTypeOK
<1>1. job # NoJob => Next1 \in Message /\ Next1.data = job.data
  <2>1. job # NoJob => job.parts \subseteq 1 .. posts /\ job.data \subseteq 1 .. facts
    BY <1>0 DEF BackupTypeOK, JobFits
  <2> QED BY <2>1 DEF Next1, NextKind, Message
<1>2. Message \subseteq Message'
  BY <1>0 DEF Message
<1>3. ChannelFits'
  BY <1>0, <1>1, <1>2 DEF ChannelFits, FromBefore
<1>4. DOMAIN channel' \subseteq 1 .. posts' /\ posts' \in 0 .. MaxPosts
  BY <1>0 DEF FromBefore, BackupTypeOK
<1>5. \A m \in DOMAIN channel' : channel'[m].kind \in {"single", "manifest", "part"}
  BY <1>3 DEF ChannelFits, Message
<1>6. ASSUME NEW m \in Points(channel')
      PROVE  /\ m \in DOMAIN channel'
             /\ \/ m \in Points(channel) /\ channel'[m] = channel[m] /\ m <= posts
                \/ m = posts + 1 /\ job # NoJob /\ channel'[m].data = job.data
  <2>1. m \in DOMAIN channel' /\ Complete(channel', m)
    BY <1>6 DEF Points
  <2>2. CASE m \in DOMAIN channel /\ channel'[m] = channel[m]
    <3>1. channel[m].parts \subseteq 1 .. posts /\ m <= posts
      BY <1>0, <2>2 DEF ChannelFits, Message, BackupTypeOK
    <3>2. channel[m].parts \subseteq DOMAIN channel' => channel[m].parts \subseteq DOMAIN channel
      BY <1>0, <3>1 DEF FromBefore
    <3> QED BY <2>1, <2>2, <3>1, <3>2 DEF Points, Complete
  <2>3. CASE m = posts + 1 /\ job # NoJob /\ channel'[m] = Next1
    BY <1>1, <2>1, <2>3
  <2> QED BY <2>1, <2>2, <2>3 DEF FromBefore
<1> QED BY <1>3, <1>4, <1>5, <1>6

\* A removal of an upload's own parts leaves every whole copy whole.
LEMMA CleanedKeeps ==
  ASSUME BackupInv, NEW c, c = channel \/ (c = Posted /\ job # NoJob), channel' \in Cleaned(c),
         c = channel => posts' \in {posts, posts + 1}, c # channel => posts' = posts + 1
  PROVE  /\ FromBefore
         /\ \A m \in Points(channel) : m \in Points(channel') /\ channel'[m] = channel[m]
<1>0. BackupTypeOK /\ ChannelFits /\ JobFits
  BY DEF BackupInv
<1>1. PICK gone \in SUBSET job.parts : channel' = [x \in DOMAIN c \ gone |-> c[x]]
  BY DEF Cleaned, Without
<1>2. \A x \in gone : /\ job # NoJob /\ x \in DOMAIN channel /\ channel[x].kind = "part"
                      /\ \A m \in DOMAIN channel : x \notin channel[m].parts
  <2>1. job = NoJob => gone = {}
    BY JobOrNot
  <2> QED BY <1>0, <2>1 DEF JobFits
<1>3. /\ DOMAIN channel \subseteq DOMAIN c /\ \A m \in DOMAIN channel : c[m] = channel[m]
      /\ \A m \in DOMAIN c : m \in DOMAIN channel \/ (m = posts + 1 /\ c # channel /\ c[m] = Next1)
  BY PostedHas
<1>4. FromBefore
  BY <1>1, <1>3 DEF FromBefore
<1>5. ASSUME NEW m \in Points(channel) PROVE m \in Points(channel') /\ channel'[m] = channel[m]
  <2>1. m \in DOMAIN channel /\ Complete(channel, m)
    BY <1>5 DEF Points
  <2>2. channel[m].kind # "part"
    BY <2>1 DEF Complete
  <2>3. m \notin gone /\ m \in DOMAIN channel' /\ channel'[m] = channel[m]
    BY <1>1, <1>2, <1>3, <2>1, <2>2
  <2>4. channel[m].parts \subseteq DOMAIN channel => channel[m].parts \subseteq DOMAIN channel'
    BY <1>1, <1>2, <1>3, <2>1
  <2> QED BY <2>1, <2>3, <2>4 DEF Points, Complete
<1> QED BY <1>4, <1>5

\* Pruning takes older copies only: the new one is there, and whole.
LEMMA PrunedKeeps ==
  ASSUME BackupInv, job # NoJob, job.left = 0, channel' \in Pruned(Posted), posts' = posts + 1
  PROVE  /\ FromBefore
         /\ posts + 1 \in Points(channel') /\ channel'[posts + 1].data = job.data
<1>0. BackupTypeOK /\ ChannelFits /\ JobFits
  BY DEF BackupInv
<1>a. PICK heads \in SUBSET OldOnes(Posted) :
        channel' \in {Without(Posted, heads \cup parts) : parts \in SUBSET UNION {Posted[m].parts : m \in heads}}
  BY DEF Pruned
<1>1. PICK parts \in SUBSET UNION {Posted[m].parts : m \in heads} :
        channel' = [x \in DOMAIN Posted \ (heads \cup parts) |-> Posted[x]]
  BY <1>a DEF Without
<1>2. /\ DOMAIN Posted = DOMAIN channel \cup {posts + 1} /\ posts + 1 \notin DOMAIN channel
      /\ Posted[posts + 1] = Next1 /\ \A m \in DOMAIN channel : Posted[m] = channel[m]
  BY PostedHas
<1>3. FromBefore
  BY <1>1, <1>2 DEF FromBefore
<1>4. posts + 1 \notin heads /\ heads \subseteq DOMAIN channel
  <2>1. {x \in HeadsOf(Posted) : x > posts + 1} = {}
    BY <1>0, <1>2 DEF HeadsOf, BackupTypeOK
  <2>2. Cardinality({}) = 0
    BY FS_EmptySet
  <2>3. ~ (Cardinality({x \in HeadsOf(Posted) : x > posts + 1}) >= KeepLast)
    BY <2>1, <2>2, BoundsAre
  <2>4. posts + 1 \notin heads
    BY <2>3 DEF OldOnes
  <2>5. heads \subseteq DOMAIN Posted
    BY DEF OldOnes, HeadsOf
  <2> QED BY <1>2, <2>4, <2>5
<1>5. \A x \in parts : x \in 1 .. posts /\ \E m \in DOMAIN channel : x \in channel[m].parts
  <2>1. SUFFICES ASSUME NEW x \in parts
                 PROVE  x \in 1 .. posts /\ \E m \in DOMAIN channel : x \in channel[m].parts
    OBVIOUS
  <2>2. PICK m \in heads : x \in Posted[m].parts
    OBVIOUS
  <2>3. m \in DOMAIN channel /\ x \in channel[m].parts
    BY <1>2, <1>4, <2>2
  <2> QED BY <1>0, <2>3 DEF ChannelFits, Message
<1>6. posts \in Nat
  BY <1>0, BoundsAre DEF BackupTypeOK
<1>7. posts + 1 \in DOMAIN channel' /\ channel'[posts + 1] = Next1
  BY <1>1, <1>2, <1>4, <1>5, <1>6
<1>8. job.parts \subseteq DOMAIN channel'
  <2>1. SUFFICES ASSUME NEW x \in job.parts PROVE x \in DOMAIN channel'
    OBVIOUS
  <2>2. /\ x \in DOMAIN channel /\ channel[x].kind = "part"
        /\ \A m \in DOMAIN channel : x \notin channel[m].parts
    BY <1>0 DEF JobFits
  <2>3. x \notin parts
    BY <1>5, <2>2
  <2>4. x \notin heads
    BY <1>2, <2>2 DEF OldOnes, HeadsOf
  <2> QED BY <1>1, <1>2, <2>2, <2>3, <2>4
<1>9. Next1.data = job.data /\ Next1.parts = job.parts /\ Next1.kind \in {"single", "manifest"}
  BY DEF Next1, NextKind
<1>10. Complete(channel', posts + 1)
  BY <1>7, <1>8, <1>9 DEF Complete
<1> QED BY <1>3, <1>7, <1>9, <1>10 DEF Points

\* A part is posted.
LEMMA PostPartFits == ASSUME BackupInv, PostPart PROVE BackupInv'
<1>0. /\ BackupTypeOK /\ ChannelFits /\ JobFits /\ LifeFits /\ NewerHasMore /\ AuditKept /\ OutcomesKept
      /\ job # NoJob /\ job.left > 0 /\ posts < MaxPosts /\ posts \in Nat
  BY BoundsAre DEF BackupInv, PostPart, BackupTypeOK
<1>1. /\ posts' = posts + 1 /\ channel' = Posted
      /\ job' = [job EXCEPT !.left = @ - 1, !.parts = @ \cup {posts'}]
      /\ UNCHANGED <<db, cached, facts, life, attempt, cursor, trusted, skipped, asker, drained,
                     outcomes, audit, ended, saved, stops>>
  BY DEF PostPart, dataVars, startVars, stopVars, endVars
<1>2. /\ DOMAIN channel' = DOMAIN channel \cup {posts + 1} /\ posts + 1 \notin DOMAIN channel
      /\ channel'[posts + 1] = Next1 /\ \A m \in DOMAIN channel : channel'[m] = channel[m]
      /\ Next1.kind = "part" /\ Next1.parts = {}
  BY <1>0, <1>1, PostedHas DEF Next1, NextKind
<1>3. FromBefore /\ posts' <= MaxPosts
  BY <1>0, <1>1, <1>2, BoundsAre DEF FromBefore
<1>4. /\ ChannelFits'
      /\ DOMAIN channel' \subseteq 1 .. posts' /\ posts' \in 0 .. MaxPosts
      /\ \A m \in DOMAIN channel' : channel'[m].kind \in {"single", "manifest", "part"}
  BY <1>1, <1>3, FromBeforeFits
<1>5. Points(channel') = Points(channel) /\ \A m \in Points(channel) : channel'[m] = channel[m]
  <2>1. ASSUME NEW m \in Points(channel') PROVE m \in Points(channel)
    <3>1. m \in DOMAIN channel' /\ Complete(channel', m)
      BY <2>1 DEF Points
    <3>2. m # posts + 1
      BY <1>2, <3>1 DEF Complete
    <3>3. \/ m \in Points(channel) /\ channel'[m] = channel[m] /\ m <= posts
          \/ m = posts + 1 /\ job # NoJob /\ channel'[m].data = job.data
      BY <1>1, <1>3, FromBeforeFits
    <3> QED BY <3>2, <3>3
  <2>2. ASSUME NEW m \in Points(channel) PROVE m \in Points(channel') /\ channel'[m] = channel[m]
    BY <1>2 DEF Points, Complete
  <2> QED BY <2>1, <2>2
<1>6. /\ job' \in [by : Askers, data : SUBSET (1 .. facts), parts : SUBSET DOMAIN channel', left : Nat]
      /\ job'.by = job.by /\ job'.data = job.data /\ job'.parts = job.parts \cup {posts + 1}
      /\ job' # NoJob
  <2>1. job \in [by : Askers, data : SUBSET (1 .. facts), parts : SUBSET DOMAIN channel, left : Nat]
    BY <1>0 DEF JobFits
  <2>2. /\ job'.by = job.by /\ job'.data = job.data /\ job'.parts = job.parts \cup {posts + 1}
        /\ job' \in [by : Askers, data : SUBSET (1 .. facts), parts : SUBSET DOMAIN channel', left : Nat]
    <3>1. job.left - 1 \in Nat
      BY <1>0, <2>1
    <3>2. job.parts \cup {posts + 1} \in SUBSET DOMAIN channel'
      BY <1>2, <2>1
    <3>3. job' = [job EXCEPT !.left = job.left - 1, !.parts = job.parts \cup {posts + 1}]
      BY <1>1
    <3> QED BY <2>1, <3>1, <3>2, <3>3
  <2>3. job'.by # "nobody"
    BY <2>2 DEF Askers
  <2> QED BY <2>2, <2>3, JobOrNot
<1>7. JobFits'
  <2>1. ASSUME NEW x \in job'.parts
        PROVE  channel'[x].kind = "part" /\ \A m \in DOMAIN channel' : x \notin channel'[m].parts
    <3>1. CASE x = posts + 1
      <4>1. \A m \in DOMAIN channel : posts + 1 \notin channel[m].parts
        BY <1>0 DEF ChannelFits, Message
      <4> QED BY <1>2, <3>1, <4>1
    <3>2. CASE x \in job.parts
      <4>1. /\ x \in DOMAIN channel /\ channel[x].kind = "part"
            /\ \A m \in DOMAIN channel : x \notin channel[m].parts
        BY <1>0, <3>2 DEF JobFits
      <4> QED BY <1>2, <4>1
    <3> QED BY <1>6, <2>1, <3>1, <3>2
  <2> QED BY <1>1, <1>6, <2>1 DEF JobFits
<1>8. BackupTypeOK'
  BY <1>0, <1>1, <1>4, <1>6 DEF BackupTypeOK
<1>9. LifeFits'
  <2>1. life # "restoring"
    BY <1>0, JobRuns
  <2> QED BY <1>0, <1>1, <2>1 DEF LifeFits
<1>10. NewerHasMore'
  BY <1>0, <1>1, <1>5, <1>6 DEF NewerHasMore
<1>11. AuditKept' /\ OutcomesKept'
  BY <1>0, <1>1, <1>5, <1>6 DEF AuditKept, OutcomesKept, InACopy
<1> QED BY <1>0, <1>1, <1>4, <1>6, <1>7, <1>8, <1>9, <1>10, <1>11 DEF BackupInv, JobKnown

\* The last message of a copy is posted, or the upload fails in any way: what its
\* asker hears is so.
LEMMA UploadEndFits ==
  ASSUME BackupInv, PostHead \/ UploadFails
  PROVE  BackupInv' /\ (Points(channel) # {} => Points(channel') # {})
<1>0. /\ BackupTypeOK /\ ChannelFits /\ JobFits /\ LifeFits /\ NewerHasMore /\ AuditKept /\ OutcomesKept
      /\ job # NoJob /\ posts \in Nat
  <2>1. job # NoJob
    BY DEF PostHead, UploadFails
  <2> QED BY <2>1, BoundsAre DEF BackupInv, BackupTypeOK
<1>a. asker[job.by] = "backup" /\ life = "running" /\ trusted /\ job.by \in Askers
  BY <1>0, JobRuns
<1>1. PICK ok \in BOOLEAN :
        /\ TellAsker(job.by, ok) /\ job' = NoJob /\ posts' \in {posts, posts + 1} /\ posts' <= MaxPosts
        /\ FromBefore
        /\ IF ok THEN posts + 1 \in Points(channel') /\ channel'[posts + 1].data = job.data
                 ELSE \A m \in Points(channel) : m \in Points(channel') /\ channel'[m] = channel[m]
  <2>1. CASE PostHead
    <3>1. /\ job.left = 0 /\ posts < MaxPosts /\ posts' = posts + 1 /\ channel' \in Pruned(Posted)
          /\ TellAsker(job.by, TRUE) /\ job' = NoJob
      BY <2>1 DEF PostHead
    <3>2. FromBefore /\ posts + 1 \in Points(channel') /\ channel'[posts + 1].data = job.data
      BY <1>0, <3>1, PrunedKeeps
    <3>3. posts' \in {posts, posts + 1} /\ posts' <= MaxPosts
      BY <1>0, <3>1, BoundsAre
    <3>4. TRUE \in BOOLEAN
      OBVIOUS
    <3> QED BY <3>1, <3>2, <3>3, <3>4
  <2>2. CASE UploadFails
    <3>1. TellAsker(job.by, FALSE) /\ job' = NoJob
      BY <2>2 DEF UploadFails
    <3>2. CASE posts' = posts /\ channel' \in Cleaned(channel)
      <4>1. /\ FromBefore
            /\ \A m \in Points(channel) : m \in Points(channel') /\ channel'[m] = channel[m]
        BY <3>2, CleanedKeeps
      <4>2. posts' <= MaxPosts
        BY <1>0, <3>2 DEF BackupTypeOK
      <4> QED BY <3>1, <3>2, <4>1, <4>2
    <3>3. CASE posts < MaxPosts /\ posts' = posts + 1 /\ channel' \in Cleaned(Posted)
      <4>1. /\ FromBefore
            /\ \A m \in Points(channel) : m \in Points(channel') /\ channel'[m] = channel[m]
        BY <1>0, <3>3, CleanedKeeps
      <4>2. posts' <= MaxPosts
        BY <1>0, <3>3, BoundsAre
      <4> QED BY <3>1, <3>3, <4>1, <4>2
    <3> QED BY <2>2, <3>2, <3>3 DEF UploadFails
  <2> QED BY <2>1, <2>2
<1>2. /\ UNCHANGED <<db, cached, facts, life, attempt, cursor, trusted, skipped, drained,
                     outcomes, audit, ended, stops>>
      /\ ended = "none"
  BY <1>0, <1>a DEF PostHead, UploadFails, dataVars, startVars, stopVars, LifeFits
<1>3. /\ ChannelFits'
      /\ DOMAIN channel' \subseteq 1 .. posts' /\ posts' \in 0 .. MaxPosts
      /\ \A m \in DOMAIN channel' : channel'[m].kind \in {"single", "manifest", "part"}
      /\ \A m \in Points(channel') : /\ m \in DOMAIN channel'
                                     /\ \/ m \in Points(channel) /\ channel'[m] = channel[m] /\ m <= posts
                                        \/ m = posts + 1 /\ job # NoJob /\ channel'[m].data = job.data
  BY <1>1, <1>2, FromBeforeFits
<1> DEFINE a == job.by
<1>4. /\ asker' = [asker EXCEPT ![a] = IF a = "signal" \/ (a = "tool" /\ ok) THEN "close" ELSE "none"]
      /\ saved' = IF a = "signal" THEN ok ELSE saved
  BY <1>1 DEF TellAsker, Goes
<1>5. /\ asker'[a] = (IF a = "signal" \/ (a = "tool" /\ ok) THEN "close" ELSE "none")
      /\ \A b \in Askers \ {a} : asker'[b] = asker[b]
  BY <1>0, <1>a, <1>4 DEF BackupTypeOK
<1>6. BackupTypeOK'
  <2>1. asker' \in [Askers -> {"none", "drain", "drop", "flush", "audit", "backup", "close"}]
    BY <1>0, <1>4 DEF BackupTypeOK
  <2>2. \A b \in Askers : asker'[b] \in {"flush", "backup"} => trusted
    BY <1>a
  <2> QED BY <1>0, <1>1, <1>2, <1>3, <2>1, <2>2 DEF BackupTypeOK
<1>7. LifeFits' /\ JobFits'
  BY <1>0, <1>a, <1>1, <1>2, <1>5 DEF LifeFits, JobFits
<1>8. NewerHasMore'
  <2>1. SUFFICES ASSUME ~skipped
                 PROVE  /\ \A m, n \in Points(channel') : m <= n => channel'[m].data \subseteq channel'[n].data
                        /\ \A m \in Points(channel') : channel'[m].data \subseteq db
    BY <1>a, <1>1, <1>2 DEF NewerHasMore
  <2>2. job.data \subseteq db
    BY <1>0, <1>a, <2>1 DEF BackupInv, JobKnown
  <2>3. ASSUME NEW m \in Points(channel') PROVE channel'[m].data \subseteq db
    BY <1>0, <1>a, <1>3, <2>1, <2>2 DEF NewerHasMore
  <2>4. ASSUME NEW m \in Points(channel'), NEW n \in Points(channel'), m <= n
        PROVE  channel'[m].data \subseteq channel'[n].data
    <3>1. CASE n \in Points(channel) /\ channel'[n] = channel[n] /\ n <= posts
      <4>1. m # posts + 1
        BY <1>0, <1>3, <2>4, <3>1 DEF BackupTypeOK
      <4> QED BY <1>0, <1>3, <2>1, <2>4, <3>1, <4>1 DEF NewerHasMore
    <3>2. CASE n = posts + 1 /\ channel'[n].data = job.data
      BY <1>0, <1>3, <2>1, <3>2 DEF NewerHasMore
    <3> QED BY <1>3, <3>1, <3>2
  <2> QED BY <2>3, <2>4
<1>9. AuditKept'
  <2>1. asker'["tool"] = "backup" => asker["tool"] = "backup"
    BY <1>5 DEF Askers
  <2>2. asker'["tool"] = "close" => asker["tool"] = "close" \/ (a = "tool" /\ ok)
    BY <1>5 DEF Askers
  <2>3. asker'["tool"] = "close" => audit \in job.data /\ audit \in db
    BY <1>0, <1>a, <2>2 DEF AuditKept
  <2>4. asker'["tool"] = "close" => InACopy({audit})'
    <3>1. CASE ok
      BY <1>1, <1>2, <2>3, <3>1 DEF InACopy
    <3>2. CASE ~ok
      <4>1. asker'["tool"] = "close" => asker["tool"] = "close"
        BY <2>2, <3>2
      <4> QED BY <1>0, <1>1, <1>2, <3>2, <4>1 DEF AuditKept, InACopy
    <3> QED BY <3>1, <3>2
  <2> QED BY <1>0, <1>a, <1>1, <1>2, <2>1, <2>3, <2>4 DEF AuditKept
<1>10. OutcomesKept'
  <2>1. asker'["signal"] \in {"flush", "backup", "close"} => drained
    BY <1>0, <1>a, <1>5 DEF OutcomesKept, Askers
  <2>2. saved' => asker'["signal"] = "close" /\ outcomes \subseteq job.data
    <3>1. CASE a = "signal"
      BY <1>0, <1>4, <1>5, <3>1 DEF OutcomesKept, Askers
    <3>2. CASE a # "signal"
      BY <1>0, <1>a, <1>4, <1>5, <3>2 DEF OutcomesKept, Askers
    <3> QED BY <3>1, <3>2
  <2>3. saved' => InACopy(outcomes)'
    <3>1. CASE ok
      BY <1>1, <1>2, <2>2, <3>1 DEF InACopy
    <3>2. CASE ~ok
      <4>1. saved' => saved
        BY <1>4, <3>2
      <4> QED BY <1>0, <1>a, <1>1, <1>2, <3>2, <4>1 DEF OutcomesKept, InACopy
    <3> QED BY <3>1, <3>2
  <2> QED BY <1>0, <1>a, <1>1, <1>2, <2>1, <2>2, <2>3 DEF OutcomesKept
<1>11. Points(channel) # {} => Points(channel') # {}
  BY <1>1
<1> QED BY <1>1, <1>3, <1>6, <1>7, <1>8, <1>9, <1>10, <1>11 DEF BackupInv, JobKnown

\* The process ends, as it means to or not: what it said it saved is in a copy.
LEMMA EndingFits ==
  ASSUME BackupInv, CloseDown \/ EndRefused \/ Crash
  PROVE  BackupInv' /\ (Points(channel) # {} => Points(channel') # {})
<1>0. /\ BackupTypeOK /\ ChannelFits /\ JobFits /\ LifeFits /\ NewerHasMore /\ AuditKept /\ OutcomesKept
      /\ posts \in Nat /\ posts <= MaxPosts
  BY BoundsAre DEF BackupInv, BackupTypeOK
<1>1. PICK how \in {"signal", "tool", "refused", "crash"} :
        /\ life' = "down" /\ ended' = how /\ cached' = {} /\ job' = NoJob /\ asker' = Quiet
        /\ UNCHANGED <<posts, facts, trusted, skipped, drained, outcomes, audit, saved>>
        /\ how \in {"signal", "tool"} => asker[how] = "close"
        /\ life # "down"
  <2>1. CASE CloseDown
    <3>1. PICK a \in {"signal", "tool"} : asker[a] = "close" /\ ProcessOver(a)
      BY <2>1 DEF CloseDown
    <3>2. life # "down"
      BY <1>0, <3>1 DEF LifeFits, Quiet, Askers
    <3> QED BY <3>1, <3>2 DEF ProcessOver, stopVars
  <2>2. CASE EndRefused
    BY <2>2 DEF EndRefused, ProcessOver, stopVars
  <2>3. CASE Crash
    BY <2>3 DEF Crash, ProcessOver, stopVars
  <2> QED BY <2>1, <2>2, <2>3
<1>2. /\ FromBefore
      /\ \A m \in Points(channel) : m \in Points(channel') /\ channel'[m] = channel[m]
  <2>1. CASE CloseDown
    BY <1>1, <2>1, CleanedKeeps DEF CloseDown
  <2>2. CASE EndRefused \/ Crash
    <3>1. channel' = channel
      BY <2>2 DEF EndRefused, Crash
    <3> QED BY <3>1 DEF FromBefore
  <2> QED BY <2>1, <2>2
<1>3. /\ ChannelFits'
      /\ DOMAIN channel' \subseteq 1 .. posts' /\ posts' \in 0 .. MaxPosts
      /\ \A m \in DOMAIN channel' : channel'[m].kind \in {"single", "manifest", "part"}
      /\ \A m \in Points(channel') : /\ m \in DOMAIN channel'
                                     /\ \/ m \in Points(channel) /\ channel'[m] = channel[m] /\ m <= posts
                                        \/ m = posts + 1 /\ job # NoJob /\ channel'[m].data = job.data
  BY <1>0, <1>1, <1>2, FromBeforeFits
<1>4. \A m \in Points(channel') : m \in Points(channel) /\ channel'[m] = channel[m]
  <2>1. \A m \in Points(channel') : m <= posts
    BY <1>0, <1>1, <1>3
  <2> QED BY <1>0, <1>3, <2>1
<1>5. db' \subseteq 1 .. facts
  <2>1. CASE CloseDown \/ EndRefused
    BY <1>0, <2>1 DEF CloseDown, EndRefused, BackupTypeOK
  <2>2. CASE Crash
    <3>1. db' \in {db, {}} \cup {channel[m].data : m \in Points(channel)}
      BY <2>2 DEF Crash
    <3>2. \A m \in Points(channel) : channel[m].data \subseteq 1 .. facts
      BY <1>0, PointsAre DEF ChannelFits, Message
    <3> QED BY <1>0, <3>1, <3>2 DEF BackupTypeOK
  <2> QED BY <2>1, <2>2
<1>6. \A a \in Askers : asker'[a] = "none"
  BY <1>1 DEF Quiet
<1>7. BackupTypeOK'
  <2>1. asker' \in [Askers -> {"none", "drain", "drop", "flush", "audit", "backup", "close"}]
    BY <1>1 DEF Quiet
  <2> QED BY <1>0, <1>1, <1>3, <1>5, <1>6, <2>1 DEF BackupTypeOK
<1>8. JobFits' /\ JobKnown' /\ LifeFits'
  BY <1>1, <1>6 DEF JobFits, JobKnown, LifeFits
<1>9. NewerHasMore'
  BY <1>0, <1>1, <1>4 DEF NewerHasMore
<1>10. AuditKept'
  <2>1. how = "tool" => InACopy({audit})
    BY <1>0, <1>1 DEF AuditKept
  <2>2. how = "tool" => InACopy({audit})'
    BY <1>1, <1>2, <2>1 DEF InACopy
  <2> QED BY <1>1, <1>6, <2>2 DEF AuditKept, Askers
<1>11. OutcomesKept'
  <2>1. how = "signal" /\ saved => InACopy(outcomes)
    BY <1>0, <1>1 DEF OutcomesKept
  <2>2. how = "signal" /\ saved => InACopy(outcomes)'
    BY <1>1, <1>2, <2>1 DEF InACopy
  <2> QED BY <1>1, <1>6, <2>2 DEF OutcomesKept, Askers
<1>12. Points(channel) # {} => Points(channel') # {}
  BY <1>2
<1> QED BY <1>3, <1>7, <1>8, <1>9, <1>10, <1>11, <1>12 DEF BackupInv

\* Before the first start there is no message and nothing is said to be saved.
LEMMA BackupInvInit == BackupInit => BackupInv
<1> SUFFICES ASSUME BackupInit PROVE BackupInv
  OBVIOUS
<1>1. DOMAIN channel = {} /\ Points(channel) = {} /\ job = NoJob
  BY DEF BackupInit, Points
<1>2. \A a \in Askers : asker[a] = "none"
  BY DEF BackupInit, Quiet
<1>3. BackupTypeOK
  BY <1>1, <1>2, BoundsAre DEF BackupInit, BackupTypeOK, Quiet
<1>4. ChannelFits /\ JobFits /\ JobKnown /\ LifeFits /\ NewerHasMore
  BY <1>1, <1>2 DEF BackupInit, ChannelFits, JobFits, JobKnown, LifeFits, NewerHasMore
<1>5. AuditKept /\ OutcomesKept
  BY <1>1, <1>2 DEF BackupInit, AuditKept, OutcomesKept, Askers
<1> QED BY <1>3, <1>4, <1>5 DEF BackupInv

\* Every step keeps the invariant, and the last whole copy.
LEMMA BackupInvStep ==
  ASSUME BackupInv, [BackupNext]_backupVars
  PROVE  BackupInv' /\ (Points(channel) # {} => Points(channel') # {})
<1>1. CASE UNCHANGED backupVars
  <2>1. /\ BackupTypeOK' = BackupTypeOK /\ ChannelFits' = ChannelFits /\ JobFits' = JobFits
        /\ JobKnown' = JobKnown /\ LifeFits' = LifeFits
    BY <1>1 DEF backupVars, BackupTypeOK, ChannelFits, Message, JobFits, JobKnown, LifeFits
  <2>2. Points(channel)' = Points(channel)
    BY <1>1 DEF backupVars
  <2>3. NewerHasMore' = NewerHasMore /\ AuditKept' = AuditKept /\ OutcomesKept' = OutcomesKept
    BY <1>1, <2>2 DEF backupVars, NewerHasMore, AuditKept, OutcomesKept, InACopy
  <2> QED BY <2>1, <2>2, <2>3 DEF BackupInv
<1>2. CASE Boot \/ TryCandidate \/ EndScan
  <2>1. channel' = channel
    BY <1>2 DEF Boot, TryCandidate, EndScan, channelVars
  <2> QED BY <1>2, <2>1, BootFits, TryCandidateFits, EndScanFits
<1>3. CASE RecordOutcome \/ HearSomething
  <2>1. channel' = channel
    BY <1>3 DEF RecordOutcome, HearSomething, channelVars
  <2> QED BY <1>3, <2>1, FactFits
<1>4. CASE AskPeriodic \/ AskTool \/ Signal \/ ShutdownDrains
  <2>1. channel' = channel
    BY <1>4 DEF AskPeriodic, AskTool, Signal, ShutdownDrains, channelVars
  <2> QED BY <1>4, <2>1, AskingFits
<1>5. CASE AuditStop \/ \E a \in Askers : Flush(a)
  <2>1. channel' = channel
    BY <1>5 DEF AuditStop, Flush, channelVars
  <2> QED BY <1>5, <2>1, WritingFits
<1>6. ASSUME NEW a \in Askers, TakeSnapshot(a)
      PROVE  BackupInv' /\ (Points(channel) # {} => Points(channel') # {})
  <2>1. channel' = channel
    BY <1>6 DEF TakeSnapshot, channelVars
  <2> QED BY <1>6, <2>1, SnapshotFits
<1>7. CASE PostPart
  <2>1. job # NoJob /\ channel' = Posted
    BY <1>7 DEF PostPart
  <2>2. \A m \in Points(channel) : m \in Points(channel')
    BY <2>1, PostedHas DEF Points, Complete
  <2> QED BY <1>7, <2>2, PostPartFits
<1>8. CASE PostHead \/ UploadFails
  BY <1>8, UploadEndFits
<1>9. CASE CloseDown \/ EndRefused \/ Crash
  BY <1>9, EndingFits
<1> QED BY <1>1, <1>2, <1>3, <1>4, <1>5, <1>6, <1>7, <1>8, <1>9 DEF BackupNext

\* A bot never runs behind a whole copy, and what a stop says it saved is in one: the
\* tool's audit, and the outcomes of the automations that were drained
\* (storage.py:2113-2117, pos_ai.py:3796-3804, main.py:93-95).
THEOREM BackupsAreTrue == BackupSpec => []BackupsTrue
<1>1. BackupInv /\ [BackupNext]_backupVars => BackupInv'
  BY BackupInvStep
<1>2. BackupInv => BackupsTrue
  <2> SUFFICES ASSUME BackupInv PROVE BackupsTrue
    OBVIOUS
  <2>1. RunsOnNewest
    BY DEF BackupInv, NewerHasMore, RunsOnNewest
  <2>2. ToolStopAudited
    BY DEF BackupInv, AuditKept, InACopy, ToolStopAudited
  <2>3. OutcomesSaved
    BY DEF BackupInv, OutcomesKept, InACopy, OutcomesSaved
  <2> QED BY <2>1, <2>2, <2>3 DEF BackupsTrue
<1> QED BY <1>1, <1>2, BackupInvInit, PTL DEF BackupSpec

\* Once there is a whole copy in the channel there always is one, whatever fails and
\* whenever the process dies (storage.py:1993).
THEOREM CopiesRemain == BackupSpec => CopyRemains
<1>1. BackupInv /\ [BackupNext]_backupVars => BackupInv'
  BY BackupInvStep
<1>2. BackupInv /\ [BackupNext]_backupVars => [Points(channel) # {} => Points(channel') # {}]_backupVars
  BY BackupInvStep
<1> QED BY <1>1, <1>2, BackupInvInit, PTL DEF BackupSpec, CopyRemains
-----------------------------------------------------------------------------
(* The small tables on the shared connection.                               *)

Tables ==
  [over : [SettingSlots -> Overrides], groups : SUBSET AccessGroups,
   servers : [AccessGroups -> SUBSET Servers], admins : [AccessGroups -> SUBSET Admins],
   away : BOOLEAN]
Places == {"settings lock", "read", "first", "second", "commit", "reload", "answer"}
StoreCalls == [req : Requests, at : Places, base : Overrides \cup {Unset}]

Writing(c, op) == writer = c /\ Op(c) = op
WholeGroup(t, g) == (g \in t.groups <=> t.servers[g] # {}) /\ (t.admins[g] # {} => g \in t.groups)

StoreTypes ==
  /\ seen \in Tables /\ disk \in Tables
  /\ calls \in [Callers -> StoreCalls \cup {NoCall}]
  /\ shown \in [SettingSlots -> Overrides \cup {Nothing}]
  /\ promised \in [SettingSlots -> Overrides \cup {Nothing}]
  /\ revoked \subseteq AccessGroups \X Admins
  /\ promisedAway \subseteq BOOLEAN

\* Each call is at a place of its kind, with the locks it needs there.
LocksOf(c) ==
  /\ calls[c].at \in {"second", "commit"} <=> writer = c
  /\ Op(c) = "update" /\ calls[c].at # "settings lock" => settingsLock = c
  /\ calls[c].at = "settings lock" => Op(c) \in {"update", "get"}
  /\ calls[c].at \in {"reload", "answer"} => Op(c) \in {"update", "get"} /\ settingsLock = c
  /\ calls[c].at = "read" => Op(c) \in {"update", "away"}
  /\ calls[c].at = "second" => Op(c) \in {"save", "delete"}
  /\ calls[c].at \in {"first", "commit"} => Op(c) # "get"
  /\ Op(c) = "update" /\ calls[c].at = "first" => calls[c].base \in Overrides
StoreLocks ==
  /\ settingsLock \in Callers \cup {Nobody} /\ writer \in Callers \cup {Nobody}
  /\ \A c \in Callers : LocksOf(c)

\* The rows of a slot are on disk as they are seen, unless an update of it is being
\* written or was interrupted; what was promised of it is still seen.
SlotsInv ==
  \A s \in SettingSlots :
    /\ \/ s \in dubious
       \/ seen.over[s] = disk.over[s]
       \/ \E c \in Callers : Writing(c, "update") /\ calls[c].req.slot = s
    /\ promised[s] # Nothing => seen.over[s] = promised[s] /\ disk.over[s] = promised[s]

\* Groups are whole on disk and, but for the one being saved, as they are seen; only a
\* change of a group makes a difference between the two.
AclInv ==
  /\ \A g \in AccessGroups :
       /\ WholeGroup(disk, g)
       /\ \/ WholeGroup(seen, g)
          \/ \E c \in Callers : calls[c].at = "second" /\ Op(c) = "save" /\ calls[c].req.group = g
       /\ seen.admins[g] # {} => g \in seen.groups
  /\ Acl(seen) = Acl(disk) \/ \E c \in Callers : writer = c /\ Op(c) \in BetaOps
  /\ \A c \in Callers : calls[c].at \in {"second", "commit"} =>
       /\ Op(c) = "save" => calls[c].req.group \in seen.groups
       /\ Op(c) = "delete" => seen.admins[calls[c].req.group] = {}
       /\ Op(c) = "grant" /\ ~calls[c].req.on => calls[c].req.user \notin seen.admins[calls[c].req.group]
  /\ \A p \in revoked : p[2] \notin seen.admins[p[1]] /\ p[2] \notin disk.admins[p[1]]

\* The mode the owner was told is the one that is seen.
AwayInv ==
  /\ "away" \notin dubious =>
       /\ seen.away = disk.away \/ \E c \in Callers : Writing(c, "away")
       /\ promisedAway \subseteq {seen.away}
  /\ \A c \in Callers : Writing(c, "away") => seen.away = calls[c].req.on

SettingsInv ==
  /\ StoreTypes /\ StoreLocks
  /\ SlotsInv /\ CacheTrue
  /\ AclInv
  /\ AwayInv /\ NoReplyWhenBack

\* What a request carries.
LEMMA RequestFields ==
  ASSUME NEW r \in Requests
  PROVE  /\ r.op \in {"update", "get", "away", "save", "delete", "grant"}
         /\ r.op \in {"update", "get"} => r.slot \in SettingSlots
         /\ r.op = "update" => r.key \in SettingKeys /\ r.to \in SettingValues
         /\ r.op \in {"away", "grant"} => r.on \in BOOLEAN
         /\ r.op \in BetaOps => r.group \in AccessGroups
         /\ r.op = "save" => r.servers \in SUBSET Servers /\ r.servers # {}
         /\ r.op = "grant" => r.user \in Admins
<1>1. CASE r \in [op : {"update"}, slot : SettingSlots, key : SettingKeys, to : SettingValues]
  BY <1>1 DEF BetaOps
<1>2. CASE r \in [op : {"get"}, slot : SettingSlots]
  BY <1>2 DEF BetaOps
<1>3. CASE r \in [op : {"away"}, on : BOOLEAN]
  BY <1>3 DEF BetaOps
<1>4. CASE r \in [op : {"save"}, group : AccessGroups, servers : (SUBSET Servers) \ {{}}]
  <2> DEFINE some == (SUBSET Servers) \ {{}}
  <2>0. r \in [op : {"save"}, group : AccessGroups, servers : some]
    BY <1>4
  <2> HIDE DEF some
  <2>1. r.op = "save" /\ r.group \in AccessGroups /\ r.servers \in some
    BY <2>0
  <2>2. r.servers \in SUBSET Servers /\ r.servers # {}
    BY <2>1 DEF some
  <2> QED BY <2>1, <2>2 DEF BetaOps
<1>5. CASE r \in [op : {"delete"}, group : AccessGroups]
  BY <1>5 DEF BetaOps
<1>6. CASE r \in [op : {"grant"}, group : AccessGroups, user : Admins, on : BOOLEAN]
  BY <1>6 DEF BetaOps
<1> QED BY <1>1, <1>2, <1>3, <1>4, <1>5, <1>6 DEF Requests

\* No call is at no place.
LEMMA NoCallIs ==
  /\ NoCall.at \notin Places /\ NoCall.req.op = "none"
  /\ NoCall \notin StoreCalls
<1>1. NoCall.at = "none" /\ NoCall.req.op = "none"
  BY DEF NoCall
<1>2. \A x \in StoreCalls : x.at \in Places
  BY DEF StoreCalls
<1> QED BY <1>1, <1>2 DEF Places

\* A caller at a place is in a call.
LEMMA InCall ==
  ASSUME StoreTypes, NEW c \in Callers, calls[c] # NoCall \/ calls[c].at \in Places \/ Op(c) # "none"
  PROVE  /\ calls[c] \in StoreCalls /\ calls[c].req \in Requests /\ Op(c) = calls[c].req.op
         /\ Op(c) \in {"update", "get", "away", "save", "delete", "grant"}
         /\ calls[c].at \in Places
<1>1. calls[c] \in StoreCalls \cup {NoCall}
  BY DEF StoreTypes
<1>2. calls[c] # NoCall
  BY NoCallIs DEF Op
<1>3. calls[c] \in StoreCalls
  BY <1>1, <1>2
<1> QED BY <1>3, RequestFields DEF StoreCalls, Op

\* A call that goes on.
LEMMA StepCalls ==
  ASSUME StoreTypes, NEW c \in Callers, calls[c] # NoCall, NEW at \in Places, Step(c, at)
  PROVE  /\ calls' \in [Callers -> StoreCalls \cup {NoCall}]
         /\ calls'[c].at = at /\ calls'[c].req = calls[c].req /\ calls'[c].base = calls[c].base
         /\ Op(c)' = Op(c)
         /\ \A x \in Callers \ {c} : calls'[x] = calls[x] /\ Op(x)' = Op(x)
<1>1. calls \in [Callers -> StoreCalls \cup {NoCall}] /\ calls[c] \in StoreCalls
  BY InCall DEF StoreTypes
<1>2. calls' = [calls EXCEPT ![c] = [calls[c] EXCEPT !.at = at]]
  BY DEF Step
<1>3. [calls[c] EXCEPT !.at = at] \in StoreCalls
  BY <1>1 DEF StoreCalls
<1>4. calls'[c] = [calls[c] EXCEPT !.at = at] /\ \A x \in Callers \ {c} : calls'[x] = calls[x]
  BY <1>1, <1>2
<1>5. calls' \in [Callers -> StoreCalls \cup {NoCall}]
  BY <1>1, <1>2, <1>3
<1>6. calls'[c].at = at /\ calls'[c].req = calls[c].req /\ calls'[c].base = calls[c].base
  BY <1>1, <1>4 DEF StoreCalls
<1> QED BY <1>4, <1>5, <1>6 DEF Op

\* A call that is over.
LEMMA DoneCalls ==
  ASSUME StoreTypes, NEW c \in Callers, Done(c)
  PROVE  /\ calls' \in [Callers -> StoreCalls \cup {NoCall}]
         /\ calls'[c] = NoCall /\ calls'[c].at = "none" /\ Op(c)' = "none"
         /\ \A x \in Callers \ {c} : calls'[x] = calls[x] /\ Op(x)' = Op(x)
<1>1. calls \in [Callers -> StoreCalls \cup {NoCall}]
  BY DEF StoreTypes
<1>2. calls' \in [Callers -> StoreCalls \cup {NoCall}] /\ calls'[c] = NoCall
      /\ \A x \in Callers \ {c} : calls'[x] = calls[x]
  BY <1>1 DEF Done
<1> QED BY <1>2 DEF Op, NoCall

\* What the first statements of a call change.
FirstChanges(r, t) ==
  /\ t \in Tables
  /\ r.op # "update" => t.over = seen.over
  /\ r.op = "update" => \A s \in SettingSlots \ {r.slot} : t.over[s] = seen.over[s]
  /\ r.op # "away" => t.away = seen.away
  /\ r.op = "away" => t.away = r.on
  /\ r.op \notin BetaOps => Acl(t) = Acl(seen)
  /\ r.op \in BetaOps => \A g \in AccessGroups \ {r.group} :
       (g \in t.groups <=> g \in seen.groups) /\ t.servers[g] = seen.servers[g] /\ t.admins[g] = seen.admins[g]
  /\ r.op = "save" => r.group \in t.groups /\ t.admins = seen.admins
  /\ r.op = "delete" => t.admins[r.group] = {} /\ t.groups = seen.groups /\ t.servers = seen.servers
  /\ r.op = "grant" =>
       /\ t.groups = seen.groups /\ t.servers = seen.servers
       /\ t.admins[r.group] = IF r.on THEN seen.admins[r.group] \cup {r.user} ELSE seen.admins[r.group] \ {r.user}

\* They change that.
LEMMA FirstIs ==
  ASSUME seen \in Tables, NEW r \in Requests, r.op # "get", NEW base,
         r.op = "update" => base \in Overrides, NEW t, t = FirstStatement(r, base)
  PROVE  FirstChanges(r, t)
<1>0. /\ seen.over \in [SettingSlots -> Overrides] /\ seen.groups \in SUBSET AccessGroups
      /\ seen.servers \in [AccessGroups -> SUBSET Servers] /\ seen.admins \in [AccessGroups -> SUBSET Admins]
      /\ seen.away \in BOOLEAN
  BY DEF Tables
<1>1. CASE r.op = "update"
  <2>1. t = [seen EXCEPT !.over = [seen.over EXCEPT ![r.slot] = [base EXCEPT ![r.key] = r.to]]]
    BY <1>1 DEF FirstStatement
  <2>2. r.slot \in SettingSlots /\ r.key \in SettingKeys /\ r.to \in SettingValues
    BY <1>1, RequestFields
  <2>3. [base EXCEPT ![r.key] = r.to] \in Overrides
    BY <1>1, <2>2 DEF Overrides
  <2>4. t.over = [seen.over EXCEPT ![r.slot] = [base EXCEPT ![r.key] = r.to]]
        /\ t.groups = seen.groups /\ t.servers = seen.servers /\ t.admins = seen.admins /\ t.away = seen.away
        /\ t = [over |-> t.over, groups |-> seen.groups, servers |-> seen.servers, admins |-> seen.admins, away |-> seen.away]
    BY <2>1 DEF Tables
  <2>5. t.over \in [SettingSlots -> Overrides] /\ \A s \in SettingSlots \ {r.slot} : t.over[s] = seen.over[s]
    BY <1>0, <2>2, <2>3, <2>4
  <2>6. t \in Tables
    BY <1>0, <2>4, <2>5 DEF Tables
  <2> QED BY <1>1, <2>4, <2>5, <2>6 DEF FirstChanges, BetaOps, Acl
<1>2. CASE r.op = "away"
  <2>1. t = [seen EXCEPT !.away = r.on] /\ r.on \in BOOLEAN
    BY <1>2, RequestFields DEF FirstStatement
  <2> QED BY <1>2, <2>1 DEF FirstChanges, BetaOps, Acl, Tables
<1>3. CASE r.op = "save"
  <2>1. t = [seen EXCEPT !.groups = seen.groups \cup {r.group}, !.servers = [seen.servers EXCEPT ![r.group] = {}]]
    BY <1>3 DEF FirstStatement
  <2>2. r.group \in AccessGroups
    BY <1>3, RequestFields DEF FirstChanges, BetaOps
  <2>3. t.groups = seen.groups \cup {r.group} /\ t.servers = [seen.servers EXCEPT ![r.group] = {}]
        /\ t.over = seen.over /\ t.admins = seen.admins /\ t.away = seen.away
        /\ t = [over |-> seen.over, groups |-> t.groups, servers |-> t.servers, admins |-> seen.admins, away |-> seen.away]
    BY <2>1 DEF Tables
  <2>4. t.servers \in [AccessGroups -> SUBSET Servers] /\ \A g \in AccessGroups \ {r.group} : t.servers[g] = seen.servers[g]
    BY <1>0, <2>2, <2>3
  <2>5. t \in Tables
    BY <1>0, <2>2, <2>3, <2>4 DEF Tables
  <2> QED BY <1>3, <2>3, <2>4, <2>5 DEF FirstChanges, BetaOps
<1>4. CASE r.op \in {"delete", "grant"}
  <2> DEFINE mine == IF r.op = "delete" THEN {}
                     ELSE IF r.on THEN seen.admins[r.group] \cup {r.user} ELSE seen.admins[r.group] \ {r.user}
  <2>1. t = [seen EXCEPT !.admins = [seen.admins EXCEPT ![r.group] = mine]]
    BY <1>4 DEF FirstStatement
  <2>2. r.group \in AccessGroups
    BY <1>4, RequestFields DEF FirstChanges, BetaOps
  <2>3. mine \in SUBSET Admins
    BY <1>0, <1>4, <2>2, RequestFields
  <2>4. CASE r.op = "delete"
    <3>1. mine = {}
      BY <2>4
    <3> HIDE DEF mine
    <3>2. t.admins = [seen.admins EXCEPT ![r.group] = mine] /\ t.groups = seen.groups /\ t.servers = seen.servers
          /\ t.over = seen.over /\ t.away = seen.away
          /\ t = [over |-> seen.over, groups |-> seen.groups, servers |-> seen.servers, admins |-> t.admins, away |-> seen.away]
      BY <2>1 DEF Tables
    <3>3. t.admins \in [AccessGroups -> SUBSET Admins] /\ t.admins[r.group] = mine
          /\ \A g \in AccessGroups \ {r.group} : t.admins[g] = seen.admins[g]
      BY <1>0, <2>2, <2>3, <3>2
    <3>4. t \in Tables
      BY <1>0, <3>2, <3>3 DEF Tables
    <3> QED BY <2>4, <3>1, <3>2, <3>3, <3>4 DEF FirstChanges, BetaOps
  <2>5. CASE r.op = "grant"
    <3>1. mine = IF r.on THEN seen.admins[r.group] \cup {r.user} ELSE seen.admins[r.group] \ {r.user}
      BY <2>5
    <3> HIDE DEF mine
    <3>2. t.admins = [seen.admins EXCEPT ![r.group] = mine] /\ t.groups = seen.groups /\ t.servers = seen.servers
          /\ t.over = seen.over /\ t.away = seen.away
          /\ t = [over |-> seen.over, groups |-> seen.groups, servers |-> seen.servers, admins |-> t.admins, away |-> seen.away]
      BY <2>1 DEF Tables
    <3>3. t.admins \in [AccessGroups -> SUBSET Admins] /\ t.admins[r.group] = mine
          /\ \A g \in AccessGroups \ {r.group} : t.admins[g] = seen.admins[g]
      BY <1>0, <2>2, <2>3, <3>2
    <3>4. t \in Tables
      BY <1>0, <3>2, <3>3 DEF Tables
    <3> QED BY <2>5, <3>1, <3>2, <3>3, <3>4 DEF FirstChanges, BetaOps
  <2> QED BY <1>4, <2>4, <2>5
<1> QED BY <1>1, <1>2, <1>3, <1>4, RequestFields

\* What the last statements of a change of a group change.
SecondChanges(r, t) ==
  /\ t \in Tables /\ t.over = seen.over /\ t.away = seen.away /\ t.admins = seen.admins
  /\ \A g \in AccessGroups \ {r.group} : (g \in t.groups <=> g \in seen.groups) /\ t.servers[g] = seen.servers[g]
  /\ r.op = "save" => t.groups = seen.groups /\ t.servers[r.group] = r.servers /\ r.servers # {}
  /\ r.op = "delete" => r.group \notin t.groups /\ t.servers[r.group] = {}

\* They change that.
LEMMA SecondIs ==
  ASSUME seen \in Tables, NEW r \in Requests, r.op \in {"save", "delete"}, NEW t, t = SecondStatement(r)
  PROVE  SecondChanges(r, t)
<1>0. /\ seen.over \in [SettingSlots -> Overrides] /\ seen.groups \in SUBSET AccessGroups
      /\ seen.servers \in [AccessGroups -> SUBSET Servers] /\ seen.admins \in [AccessGroups -> SUBSET Admins]
      /\ seen.away \in BOOLEAN
  BY DEF Tables
<1>1. r.group \in AccessGroups /\ (r.op = "save" => r.servers \in SUBSET Servers /\ r.servers # {})
  BY RequestFields DEF BetaOps
<1> DEFINE mine == IF r.op = "save" THEN r.servers ELSE {}
           left == IF r.op = "save" THEN seen.groups ELSE seen.groups \ {r.group}
<1>2. t = [seen EXCEPT !.groups = left, !.servers = [seen.servers EXCEPT ![r.group] = mine]]
  <2>1. CASE r.op = "save"
    <3>1. t = [seen EXCEPT !.servers = [seen.servers EXCEPT ![r.group] = r.servers]]
      BY <2>1 DEF SecondStatement
    <3> QED BY <2>1, <3>1 DEF Tables
  <2>2. CASE r.op = "delete"
    BY <2>2 DEF SecondStatement
  <2> QED BY <2>1, <2>2
<1>3. mine \in SUBSET Servers /\ left \in SUBSET AccessGroups
  BY <1>0, <1>1
<1>4. /\ r.op = "save" => left = seen.groups /\ mine = r.servers
      /\ r.op = "delete" => left = seen.groups \ {r.group} /\ mine = {}
  OBVIOUS
<1> HIDE DEF mine, left
<1>5. t.groups = left /\ t.servers = [seen.servers EXCEPT ![r.group] = mine]
      /\ t.over = seen.over /\ t.admins = seen.admins /\ t.away = seen.away
      /\ t = [over |-> seen.over, groups |-> left, servers |-> t.servers, admins |-> seen.admins, away |-> seen.away]
  BY <1>2 DEF Tables
<1>6. t.servers \in [AccessGroups -> SUBSET Servers] /\ t.servers[r.group] = mine
      /\ \A g \in AccessGroups \ {r.group} : t.servers[g] = seen.servers[g]
  BY <1>0, <1>1, <1>3, <1>5
<1>7. t \in Tables
  BY <1>0, <1>3, <1>5, <1>6 DEF Tables
<1> QED BY <1>1, <1>4, <1>5, <1>6, <1>7 DEF SecondChanges

\* A step of one caller leaves the places and locks of the others.
LEMMA OthersLocks ==
  ASSUME StoreLocks, NEW c \in Callers, NEW x \in Callers \ {c}, calls'[x] = calls[x],
         writer' = writer \/ (writer \in {c, Nobody} /\ writer' \in {c, Nobody}),
         settingsLock' = settingsLock \/ (settingsLock \in {c, Nobody} /\ settingsLock' \in {c, Nobody})
  PROVE  LocksOf(x)'
<1>1. LocksOf(x) /\ Op(x)' = Op(x)
  BY DEF StoreLocks, Op
<1>2. x # c /\ x # Nobody
  BY SettingsAssumption
<1>3. (writer' = x <=> writer = x) /\ (settingsLock = x => settingsLock' = x)
  BY <1>2
<1> QED BY <1>1, <1>3 DEF LocksOf

\* A step that writes nothing.
Unwritten ==
  /\ UNCHANGED <<seen, disk, writer, dubious, revoked, promised>>
  /\ \A x \in Callers :
       \/ calls'[x] = calls[x]
       \/ calls[x].at \notin {"second", "commit"} /\ calls'[x].at \notin {"second", "commit"}

\* What it leaves alone.
LEMMA UnwrittenKeeps ==
  ASSUME SettingsInv, Unwritten, promisedAway' = promisedAway \/ promisedAway' = {seen.away}
  PROVE  SlotsInv' /\ AclInv' /\ AwayInv'
<1>1. \A x \in Callers : writer = x \/ calls'[x].at \in {"second", "commit"} =>
                         calls'[x] = calls[x] /\ Op(x)' = Op(x)
  BY DEF Unwritten, SettingsInv, StoreLocks, LocksOf, Op
<1>2. \A x \in Callers : calls[x].at = "second" => calls'[x] = calls[x] /\ Op(x)' = Op(x)
  BY DEF Unwritten, Op
<1>3. UNCHANGED <<seen, disk, writer, dubious, revoked, promised>>
  BY DEF Unwritten
<1>4. \A x \in Callers : \A op : Writing(x, op)' <=> Writing(x, op)
  BY <1>1, <1>3 DEF Writing
<1>5. SlotsInv'
  BY <1>1, <1>3, <1>4 DEF SettingsInv, SlotsInv, Writing
<1>6. AclInv'
  <2>1. AclInv
    BY DEF SettingsInv
  <2>2. \A g \in AccessGroups :
       /\ WholeGroup(disk, g)'
       /\ \/ WholeGroup(seen, g)'
          \/ \E c \in Callers : calls'[c].at = "second" /\ Op(c)' = "save" /\ calls'[c].req.group = g
       /\ seen'.admins[g] # {} => g \in seen'.groups
    BY <1>2, <1>3, <2>1 DEF AclInv, WholeGroup
  <2>3. Acl(seen)' = Acl(disk)' \/ \E c \in Callers : writer' = c /\ Op(c)' \in BetaOps
    BY <1>1, <1>3, <2>1 DEF AclInv, Acl
  <2>4. \A c \in Callers : calls'[c].at \in {"second", "commit"} =>
       /\ Op(c)' = "save" => calls'[c].req.group \in seen'.groups
       /\ Op(c)' = "delete" => seen'.admins[calls'[c].req.group] = {}
       /\ Op(c)' = "grant" /\ ~calls'[c].req.on => calls'[c].req.user \notin seen'.admins[calls'[c].req.group]
    BY <1>1, <1>3, <2>1 DEF AclInv
  <2>5. \A p \in revoked' : p[2] \notin seen'.admins[p[1]] /\ p[2] \notin disk'.admins[p[1]]
    BY <1>3, <2>1 DEF AclInv
  <2> QED BY <2>2, <2>3, <2>4, <2>5 DEF AclInv
<1>7. AwayInv'
  BY <1>1, <1>3, <1>4 DEF SettingsInv, AwayInv, Writing
<1> QED BY <1>5, <1>6, <1>7

\* The settings as the rows show them are those on disk while no update is being
\* written.
LEMMA EffectiveTrue ==
  ASSUME SettingsInv, NEW s \in SettingSlots, dubious \cap {s, Global} = {},
         \A c \in Callers : Writing(c, "update") => calls[c].req.slot \notin {s, Global}
  PROVE  Effective(seen, s) = Effective(disk, s)
<1>1. Global \in SettingSlots
  BY DEF SettingSlots
<1>2. seen.over[s] = disk.over[s] /\ seen.over[Global] = disk.over[Global]
  BY <1>1 DEF SettingsInv, SlotsInv
<1> QED BY <1>2 DEF Effective

\* Settings are settings.
LEMMA EffectiveType ==
  ASSUME NEW t \in Tables, NEW s \in SettingSlots
  PROVE  Effective(t, s) \in Overrides
<1>1. t.over[s] \in Overrides /\ t.over[Global] \in Overrides
  BY DEF Tables, SettingSlots
<1>2. \A k \in SettingKeys : Effective(t, s)[k] \in SettingValues \cup {Unset}
  BY <1>1, SettingsAssumption DEF Effective, Overrides
<1>3. Effective(t, s) = [k \in SettingKeys |-> Effective(t, s)[k]]
  BY DEF Effective
<1> HIDE DEF Effective
<1> QED BY <1>2, <1>3 DEF Overrides

\* The steps that write nothing, from here to the first statements: a call begins.
LEMMA RequestStep ==
  ASSUME SettingsInv, NEW c \in Callers, NEW r \in Requests, Request(c, r)
  PROVE  SettingsInv'
<1>1. calls[c] = NoCall /\ UNCHANGED <<seen, disk, writer, settingsLock, shown, dubious, promised, promisedAway, revoked, repliedUnder>>
  BY DEF Request, tables, told
<1> DEFINE at == CASE r.op \in {"update", "get"} -> "settings lock"
                   [] r.op = "away" -> "read" [] OTHER -> "first"
           call == [req |-> r, base |-> Unset, at |-> at]
<1>2. calls' = [calls EXCEPT ![c] = call]
  BY DEF Request
<1>3. /\ at \in {"settings lock", "read", "first"}
      /\ at = "settings lock" => r.op \in {"update", "get"}
      /\ at = "read" => r.op = "away"
      /\ at = "first" => r.op \in BetaOps
  BY RequestFields DEF BetaOps
<1> HIDE DEF at
<1>4. call \in StoreCalls
  BY <1>3 DEF StoreCalls, Places
<1>5. calls \in [Callers -> StoreCalls \cup {NoCall}]
  BY DEF SettingsInv, StoreTypes
<1>6. calls' \in [Callers -> StoreCalls \cup {NoCall}] /\ calls'[c] = call /\ \A x \in Callers \ {c} : calls'[x] = calls[x]
  BY <1>2, <1>4, <1>5
<1>7. calls'[c].at = at /\ calls'[c].req = r /\ Op(c)' = r.op
  BY <1>6 DEF Op
<1>8. StoreTypes'
  BY <1>1, <1>6 DEF SettingsInv, StoreTypes
<1>9. calls[c].at = "none"
  BY <1>1 DEF NoCall
<1>10. Unwritten
  BY <1>1, <1>3, <1>6, <1>7, <1>9 DEF Unwritten
<1>11. LocksOf(c)'
  <2>1. LocksOf(c)
    BY DEF SettingsInv, StoreLocks
  <2>2. writer' # c
    BY <1>1, <1>9, <2>1 DEF LocksOf
  <2> QED BY <1>3, <1>7, <2>2 DEF LocksOf, BetaOps
<1>12. StoreLocks'
  <2>1. \A x \in Callers \ {c} : LocksOf(x)'
    BY <1>1, <1>6, OthersLocks DEF SettingsInv
  <2> QED BY <1>1, <1>11, <2>1 DEF SettingsInv, StoreLocks
<1>13. CacheTrue' /\ NoReplyWhenBack'
  BY <1>1 DEF SettingsInv, CacheTrue, NoReplyWhenBack, Effective
<1> QED BY <1>1, <1>8, <1>10, <1>12, <1>13, UnwrittenKeeps DEF SettingsInv

\* A call takes guild_config's lock.
LEMMA TakeLockStep ==
  ASSUME SettingsInv, NEW c \in Callers, TakeSettingsLock(c)
  PROVE  SettingsInv'
<1> DEFINE at == IF Op(c) = "update" THEN "read"
                 ELSE IF shown[calls[c].req.slot] = Nothing THEN "reload" ELSE "answer"
<1>1. calls[c].at = "settings lock" /\ settingsLock = Nobody /\ settingsLock' = c /\ Step(c, at)
      /\ UNCHANGED <<seen, disk, writer, shown, dubious, promised, promisedAway, revoked, repliedUnder>>
  BY DEF TakeSettingsLock, tables, told
<1>2. at \in {"read", "reload", "answer"} /\ (at = "read" <=> Op(c) = "update")
  OBVIOUS
<1> HIDE DEF at
<1>3. StoreTypes /\ LocksOf(c) /\ Op(c) \in {"update", "get"}
  BY <1>1 DEF SettingsInv, StoreLocks, LocksOf
<1>4. calls[c] # NoCall /\ at \in Places
  <2>1. calls[c].at \in Places /\ at \in Places
    BY <1>1, <1>2 DEF Places
  <2> QED BY <2>1, NoCallIs
<1>5. /\ calls' \in [Callers -> StoreCalls \cup {NoCall}]
      /\ calls'[c].at = at /\ Op(c)' = Op(c)
      /\ \A x \in Callers \ {c} : calls'[x] = calls[x]
  BY <1>1, <1>3, <1>4, StepCalls
<1>6. StoreTypes'
  BY <1>1, <1>5 DEF SettingsInv, StoreTypes
<1>7. Unwritten
  BY <1>1, <1>2, <1>5 DEF Unwritten
<1>8. LocksOf(c)'
  BY <1>1, <1>2, <1>3, <1>5 DEF LocksOf
<1>9. StoreLocks'
  <2>1. \A x \in Callers \ {c} : LocksOf(x)'
    BY <1>1, <1>5, OthersLocks DEF SettingsInv
  <2> QED BY <1>1, <1>8, <2>1 DEF SettingsInv, StoreLocks
<1>10. CacheTrue' /\ NoReplyWhenBack'
  BY <1>1 DEF SettingsInv, CacheTrue, NoReplyWhenBack, Effective
<1> QED BY <1>1, <1>6, <1>7, <1>9, <1>10, UnwrittenKeeps DEF SettingsInv

\* A call reads what it is about to change, without the write lock.
LEMMA ReadStep ==
  ASSUME SettingsInv, NEW c \in Callers, ReadOld(c) \/ ReadAway(c)
  PROVE  SettingsInv'
<1>1. calls[c].at = "read" /\ UNCHANGED <<seen, disk, writer, settingsLock, shown, dubious, promised, revoked, repliedUnder>>
      /\ (promisedAway' = promisedAway \/ promisedAway' = {seen.away})
  BY DEF ReadOld, ReadAway, tables, told
<1>2. StoreTypes /\ LocksOf(c)
  BY DEF SettingsInv, StoreLocks
<1>3. /\ calls' \in [Callers -> StoreCalls \cup {NoCall}]
      /\ calls'[c].at \in {"first", "none"}
      /\ calls'[c].at = "first" => Op(c)' = Op(c) /\ (Op(c) = "update" => calls'[c].base \in Overrides)
      /\ calls'[c].at = "none" => Op(c)' = "none"
      /\ \A x \in Callers \ {c} : calls'[x] = calls[x]
  <2>1. CASE ReadOld(c)
    <3>1. calls[c] \in StoreCalls /\ calls[c].req \in Requests /\ calls[c].req.slot \in SettingSlots
          /\ calls \in [Callers -> StoreCalls \cup {NoCall}] /\ Op(c) = "update"
      BY <2>1, <1>2, InCall, RequestFields DEF ReadOld, StoreTypes, Op
    <3>2. seen.over[calls[c].req.slot] \in Overrides
      BY <1>2, <3>1 DEF StoreTypes, Tables
    <3>3. calls' = [calls EXCEPT ![c] = [calls[c] EXCEPT !.at = "first", !.base = seen.over[calls[c].req.slot]]]
      BY <2>1, <3>1 DEF ReadOld
    <3> DEFINE call == [calls[c] EXCEPT !.at = "first", !.base = seen.over[calls[c].req.slot]]
    <3>4. call \in StoreCalls /\ call.at = "first" /\ call.req = calls[c].req /\ call.base \in Overrides
      BY <3>1, <3>2 DEF StoreCalls, Places
    <3> HIDE DEF call
    <3>5. calls' \in [Callers -> StoreCalls \cup {NoCall}] /\ calls'[c] = call /\ \A x \in Callers \ {c} : calls'[x] = calls[x]
      BY <3>1, <3>3, <3>4 DEF call
    <3> QED BY <3>4, <3>5 DEF Op
  <2>2. CASE ReadAway(c) /\ Done(c)
    BY <1>2, <2>2, DoneCalls
  <2>3. CASE ReadAway(c) /\ Step(c, "first")
    <3>1. calls[c] # NoCall /\ "first" \in Places /\ Op(c) = "away"
      BY <1>1, <2>3 DEF NoCall, Places, ReadAway
    <3> QED BY <1>2, <2>3, <3>1, StepCalls
  <2> QED BY <2>1, <2>2, <2>3 DEF ReadAway
<1>4. StoreTypes'
  <2>1. seen.away \in BOOLEAN
    BY <1>2 DEF StoreTypes, Tables
  <2> QED BY <1>1, <1>3, <2>1 DEF SettingsInv, StoreTypes
<1>5. Unwritten
  BY <1>1, <1>3 DEF Unwritten
<1>6. LocksOf(c)'
  BY <1>1, <1>2, <1>3 DEF LocksOf
<1>7. StoreLocks'
  <2>1. \A x \in Callers \ {c} : LocksOf(x)'
    BY <1>1, <1>3, OthersLocks DEF SettingsInv
  <2> QED BY <1>1, <1>6, <2>1 DEF SettingsInv, StoreLocks
<1>8. CacheTrue' /\ NoReplyWhenBack'
  BY <1>1 DEF SettingsInv, CacheTrue, NoReplyWhenBack, Effective
<1> QED BY <1>1, <1>4, <1>5, <1>7, <1>8, UnwrittenKeeps DEF SettingsInv

\* Settings are read into the cache, under their lock.
LEMMA ReloadStep ==
  ASSUME SettingsInv, NEW c \in Callers, Reload(c)
  PROVE  SettingsInv'
<1>1. calls[c].at \in {"reload", "answer"} /\ settingsLock' = Nobody /\ Done(c)
      /\ UNCHANGED <<seen, disk, writer, dubious, promised, promisedAway, revoked, repliedUnder>>
  BY DEF Reload, tables, told
<1>2. StoreTypes /\ StoreLocks /\ LocksOf(c)
  BY DEF SettingsInv, StoreLocks
<1>3. settingsLock = c /\ Op(c) \in {"update", "get"}
  BY <1>1, <1>2 DEF LocksOf
<1>4. /\ calls' \in [Callers -> StoreCalls \cup {NoCall}]
      /\ calls'[c].at = "none" /\ Op(c)' = "none"
      /\ \A x \in Callers \ {c} : calls'[x] = calls[x]
  BY <1>1, <1>2, DoneCalls
<1> DEFINE s == calls[c].req.slot
<1>5. s \in SettingSlots
  BY <1>2, <1>3, InCall, RequestFields
<1>6. shown' = shown \/ shown' = [shown EXCEPT ![s] = Effective(seen, s)]
  BY DEF Reload
<1> HIDE DEF s
<1>7. Effective(seen, s) \in Overrides
  BY <1>2, <1>5, EffectiveType DEF StoreTypes
<1>8. StoreTypes'
  BY <1>1, <1>4, <1>5, <1>6, <1>7 DEF SettingsInv, StoreTypes
<1>9. Unwritten
  BY <1>1, <1>4 DEF Unwritten
<1>10. LocksOf(c)'
  <2>1. writer' # c
    BY <1>1, <1>2 DEF LocksOf
  <2> QED BY <1>4, <2>1 DEF LocksOf
<1>11. StoreLocks'
  <2>1. \A x \in Callers \ {c} : LocksOf(x)'
    BY <1>1, <1>2, <1>3, <1>4, OthersLocks
  <2> QED BY <1>1, <1>2, <1>10, <2>1 DEF StoreLocks
<1>12. \A x \in Callers : ~Writing(x, "update")
  <2> SUFFICES ASSUME NEW x \in Callers, Writing(x, "update") PROVE FALSE
    OBVIOUS
  <2>1. LocksOf(x) /\ writer = x /\ Op(x) = "update"
    BY <1>2 DEF StoreLocks, Writing
  <2>2. calls[x].at \in {"second", "commit"}
    BY <2>1 DEF LocksOf
  <2>3. settingsLock = x
    BY <2>1, <2>2 DEF LocksOf
  <2> QED BY <1>1, <1>3, <2>2, <2>3
<1>13. CacheTrue'
  <2> SUFFICES ASSUME NEW z \in SettingSlots, shown'[z] # Nothing, dubious \cap {z, Global} = {}
               PROVE  shown'[z] = Effective(disk, z)
    BY <1>1 DEF CacheTrue, Effective
  <2>1. CASE shown'[z] = shown[z]
    BY <2>1 DEF SettingsInv, CacheTrue
  <2>2. CASE shown'[z] = Effective(seen, z)
    BY <1>12, <2>2, EffectiveTrue
  <2>3. shown \in [SettingSlots -> Overrides \cup {Nothing}]
    BY <1>2 DEF StoreTypes
  <2> QED BY <1>5, <1>6, <2>1, <2>2, <2>3
<1>14. NoReplyWhenBack'
  BY <1>1 DEF SettingsInv, NoReplyWhenBack
<1> QED BY <1>1, <1>8, <1>9, <1>11, <1>13, <1>14, UnwrittenKeeps DEF SettingsInv

\* A grant for a group that is not there is over.
LEMMA RefuseStep ==
  ASSUME SettingsInv, NEW c \in Callers, RefuseGrant(c)
  PROVE  SettingsInv'
<1>1. calls[c].at = "first" /\ Done(c)
      /\ UNCHANGED <<seen, disk, writer, settingsLock, shown, dubious, promised, promisedAway, revoked, repliedUnder>>
  BY DEF RefuseGrant, tables, told
<1>2. StoreTypes /\ StoreLocks /\ LocksOf(c)
  BY DEF SettingsInv, StoreLocks
<1>3. /\ calls' \in [Callers -> StoreCalls \cup {NoCall}]
      /\ calls'[c].at = "none" /\ Op(c)' = "none"
      /\ \A x \in Callers \ {c} : calls'[x] = calls[x]
  BY <1>1, <1>2, DoneCalls
<1>4. StoreTypes'
  BY <1>1, <1>3 DEF SettingsInv, StoreTypes
<1>5. Unwritten
  BY <1>1, <1>3 DEF Unwritten
<1>6. LocksOf(c)'
  <2>1. writer' # c
    BY <1>1, <1>2 DEF LocksOf
  <2> QED BY <1>3, <2>1 DEF LocksOf
<1>7. StoreLocks'
  <2>1. \A x \in Callers \ {c} : LocksOf(x)'
    BY <1>1, <1>2, <1>3, OthersLocks
  <2> QED BY <1>1, <1>2, <1>6, <2>1 DEF StoreLocks
<1>8. CacheTrue' /\ NoReplyWhenBack'
  BY <1>1 DEF SettingsInv, CacheTrue, NoReplyWhenBack, Effective
<1> QED BY <1>1, <1>4, <1>5, <1>7, <1>8, UnwrittenKeeps DEF SettingsInv

\* A cached value grows old; a mention of the owner is answered, or not.
LEMMA ExpirePingStep ==
  ASSUME SettingsInv, (\E s \in SettingSlots : Expire(s)) \/ (\E m \in Mentions : Ping(m))
  PROVE  SettingsInv'
<1>1. UNCHANGED <<seen, disk, writer, settingsLock, calls, dubious, promised, promisedAway, revoked>>
  BY DEF Expire, Ping, tables, told
<1>2. \/ shown' = shown
      \/ \E s \in SettingSlots : shown' = [shown EXCEPT ![s] = Nothing]
  BY DEF Expire, Ping
<1>3. repliedUnder' = repliedUnder \/ (seen.away /\ repliedUnder' = repliedUnder \cup promisedAway)
  BY DEF Expire, Ping, AnswersFor, told
<1>4. shown \in [SettingSlots -> Overrides \cup {Nothing}]
  BY DEF SettingsInv, StoreTypes
<1>5. shown' \in [SettingSlots -> Overrides \cup {Nothing}] /\ \A s \in SettingSlots : shown'[s] \in {shown[s], Nothing}
  BY <1>2, <1>4
<1>6. StoreTypes'
  BY <1>1, <1>5 DEF SettingsInv, StoreTypes
<1>7. StoreLocks'
  BY <1>1 DEF SettingsInv, StoreLocks, LocksOf, Op
<1>8. Unwritten
  BY <1>1 DEF Unwritten
<1>9. CacheTrue'
  BY <1>1, <1>5 DEF SettingsInv, CacheTrue, Effective
<1>10. NoReplyWhenBack'
  BY <1>1, <1>3 DEF SettingsInv, NoReplyWhenBack, AwayInv
<1> QED BY <1>1, <1>6, <1>7, <1>8, <1>9, <1>10, UnwrittenKeeps DEF SettingsInv

\* The first statements: nobody else writes.
LEMMA FirstStep ==
  ASSUME SettingsInv, NEW c \in Callers, First(c)
  PROVE  SettingsInv'
<1> DEFINE r == calls[c].req
           at == IF r.op \in {"save", "delete"} THEN "second" ELSE "commit"
<1>1. /\ calls[c].at = "first" /\ writer = Nobody /\ writer' = c /\ Step(c, at)
      /\ seen' = FirstStatement(r, calls[c].base)
      /\ r.op = "grant" => r.group \in seen.groups
      /\ promised' = IF r.op = "update" THEN [promised EXCEPT ![r.slot] = Nothing] ELSE promised
      /\ promisedAway' = IF r.op = "away" THEN {} ELSE promisedAway
      /\ revoked' = IF r.op = "grant" /\ r.on THEN revoked \ {<<r.group, r.user>>} ELSE revoked
      /\ UNCHANGED <<disk, settingsLock, shown, dubious, repliedUnder>>
  BY DEF First, bounds
<1>2. StoreTypes /\ StoreLocks /\ LocksOf(c) /\ SlotsInv /\ AclInv /\ AwayInv
  BY DEF SettingsInv, StoreLocks
<1>3. at \in {"second", "commit"} /\ (at = "second" <=> r.op \in {"save", "delete"})
  OBVIOUS
<1>4. r \in Requests /\ r.op = Op(c) /\ r.op # "get" /\ (r.op = "update" => calls[c].base \in Overrides)
  <2>1. calls[c].at \in Places
    BY <1>1 DEF Places
  <2> QED BY <1>1, <1>2, <2>1, InCall DEF LocksOf
<1> HIDE DEF at
<1>5. calls[c] # NoCall /\ at \in Places
  <2>1. calls[c].at \in Places /\ at \in Places
    BY <1>1, <1>3 DEF Places
  <2> QED BY <2>1, NoCallIs
<1>6. /\ calls' \in [Callers -> StoreCalls \cup {NoCall}]
      /\ calls'[c].at = at /\ calls'[c].req = r /\ Op(c)' = Op(c)
      /\ \A x \in Callers \ {c} : calls'[x] = calls[x] /\ Op(x)' = Op(x)
  BY <1>1, <1>2, <1>5, StepCalls
<1> HIDE DEF r
<1> DEFINE t == seen'
<1>0. FirstChanges(r, t)
  <2> DEFINE base == calls[c].base
  <2>1. seen \in Tables /\ r \in Requests /\ r.op # "get" /\ (r.op = "update" => base \in Overrides)
    BY <1>2, <1>4 DEF StoreTypes
  <2>2. t = FirstStatement(r, base)
    BY <1>1 DEF r
  <2> HIDE DEF base, t
  <2> QED BY <2>1, <2>2, FirstIs
<1>7. /\ t \in Tables
      /\ r.op # "update" => t.over = seen.over
      /\ r.op = "update" => \A s \in SettingSlots \ {r.slot} : t.over[s] = seen.over[s]
      /\ r.op # "away" => t.away = seen.away
      /\ r.op = "away" => t.away = r.on
      /\ r.op \notin BetaOps => Acl(t) = Acl(seen)
      /\ r.op \in BetaOps => \A g \in AccessGroups \ {r.group} :
           (g \in t.groups <=> g \in seen.groups) /\ t.servers[g] = seen.servers[g] /\ t.admins[g] = seen.admins[g]
      /\ r.op = "save" => r.group \in t.groups /\ t.admins = seen.admins
      /\ r.op = "delete" => t.admins[r.group] = {} /\ t.groups = seen.groups /\ t.servers = seen.servers
      /\ r.op = "grant" =>
           /\ t.groups = seen.groups /\ t.servers = seen.servers
           /\ t.admins[r.group] = IF r.on THEN seen.admins[r.group] \cup {r.user} ELSE seen.admins[r.group] \ {r.user}
  BY <1>0 DEF FirstChanges
<1>8. r.op = "update" => r.slot \in SettingSlots
  BY <1>4, RequestFields
<1>9. StoreTypes'
  <2>1. promised' \in [SettingSlots -> Overrides \cup {Nothing}]
    BY <1>1, <1>2, <1>8 DEF StoreTypes
  <2>2. revoked' \subseteq AccessGroups \X Admins /\ promisedAway' \subseteq BOOLEAN
    BY <1>1, <1>2 DEF StoreTypes
  <2> QED BY <1>1, <1>2, <1>6, <1>7, <2>1, <2>2 DEF StoreTypes
<1>10. LocksOf(c)'
  BY <1>1, <1>2, <1>3, <1>4, <1>6 DEF LocksOf
<1>11. StoreLocks'
  <2>1. \A x \in Callers \ {c} : LocksOf(x)'
    BY <1>1, <1>2, <1>6, OthersLocks
  <2> QED BY <1>1, <1>2, <1>10, <2>1 DEF StoreLocks
<1>12. \A x \in Callers : writer # x /\ calls[x].at \notin {"second", "commit"} /\ \A op : ~Writing(x, op)
  BY <1>1, <1>2, SettingsAssumption DEF StoreLocks, LocksOf, Writing
<1>13. \A op : Writing(c, op)' <=> r.op = op
  BY <1>1, <1>4, <1>6 DEF Writing
<1>14. \A x \in Callers \ {c} : calls'[x].at \notin {"second", "commit"} /\ writer' # x
  BY <1>1, <1>6, <1>12
<1>15. SlotsInv'
  <2> SUFFICES ASSUME NEW s \in SettingSlots
               PROVE  /\ \/ s \in dubious
                         \/ t.over[s] = disk.over[s]
                         \/ Writing(c, "update")' /\ calls'[c].req.slot = s
                      /\ promised'[s] # Nothing => t.over[s] = promised'[s] /\ disk.over[s] = promised'[s]
    BY <1>1 DEF SlotsInv
  <2>0. promised \in [SettingSlots -> Overrides \cup {Nothing}]
    BY <1>2 DEF StoreTypes
  <2>1. CASE r.op = "update" /\ s = r.slot
    BY <1>1, <1>6, <1>8, <1>13, <2>0, <2>1
  <2>2. CASE ~(r.op = "update" /\ s = r.slot)
    <3>1. t.over[s] = seen.over[s] /\ promised'[s] = promised[s]
      BY <1>1, <1>7, <1>8, <2>0, <2>2
    <3>2. s \in dubious \/ seen.over[s] = disk.over[s]
      BY <1>2, <1>12 DEF SlotsInv
    <3> QED BY <1>2, <3>1, <3>2 DEF SlotsInv
  <2> QED BY <2>1, <2>2
<1>16. CacheTrue' /\ NoReplyWhenBack'
  BY <1>1 DEF SettingsInv, CacheTrue, NoReplyWhenBack, Effective
<1>17. AclInv'
  <2>1. Acl(seen) = Acl(disk)
    BY <1>2, <1>12 DEF AclInv
  <2>2. \A g \in AccessGroups : WholeGroup(seen, g) /\ WholeGroup(disk, g)
    BY <1>2, <1>12 DEF AclInv
  <2>3. \A g \in AccessGroups : WholeGroup(disk, g)'
    BY <1>1, <2>2 DEF WholeGroup
  <2>4. r.op \in BetaOps => r.group \in AccessGroups
    BY <1>4, RequestFields
  <2>5. ASSUME NEW g \in AccessGroups
        PROVE  /\ \/ WholeGroup(t, g)
                  \/ calls'[c].at = "second" /\ Op(c)' = "save" /\ calls'[c].req.group = g
               /\ t.admins[g] # {} => g \in t.groups
    <3>1. CASE r.op \notin BetaOps
      <4>1. t.groups = seen.groups /\ t.servers = seen.servers /\ t.admins = seen.admins
        BY <1>7, <3>1 DEF Acl
      <4> QED BY <2>2, <4>1 DEF WholeGroup
    <3>2. CASE r.op \in BetaOps /\ g # r.group
      <4>1. (g \in t.groups <=> g \in seen.groups) /\ t.servers[g] = seen.servers[g] /\ t.admins[g] = seen.admins[g]
        BY <1>7, <3>2
      <4> QED BY <2>2, <4>1 DEF WholeGroup
    <3>3. CASE r.op = "save" /\ g = r.group
      BY <1>3, <1>4, <1>6, <1>7, <3>3
    <3>4. CASE r.op = "delete" /\ g = r.group
      BY <1>7, <2>2, <3>4 DEF WholeGroup
    <3>5. CASE r.op = "grant" /\ g = r.group
      BY <1>1, <1>7, <2>2, <3>5 DEF WholeGroup
    <3> QED BY <3>1, <3>2, <3>3, <3>4, <3>5 DEF BetaOps
  <2>6. \A g \in AccessGroups :
          /\ WholeGroup(seen, g)' \/ \E x \in Callers : calls'[x].at = "second" /\ Op(x)' = "save" /\ calls'[x].req.group = g
          /\ t.admins[g] # {} => g \in t.groups
    BY <2>5 DEF WholeGroup
  <2>7. Acl(seen)' = Acl(disk)' \/ \E x \in Callers : writer' = x /\ Op(x)' \in BetaOps
    <3>1. CASE r.op \in BetaOps
      BY <1>1, <1>4, <1>6, <3>1
    <3>2. CASE r.op \notin BetaOps
      <4>1. Acl(t) = Acl(disk)
        BY <1>7, <2>1, <3>2
      <4>2. Acl(seen)' = Acl(t) /\ Acl(disk)' = Acl(disk)
        BY <1>1 DEF Acl
      <4> QED BY <4>1, <4>2
    <3> QED BY <3>1, <3>2
  <2>8. \A x \in Callers : calls'[x].at \in {"second", "commit"} =>
       /\ Op(x)' = "save" => calls'[x].req.group \in t.groups
       /\ Op(x)' = "delete" => t.admins[calls'[x].req.group] = {}
       /\ Op(x)' = "grant" /\ ~calls'[x].req.on => calls'[x].req.user \notin t.admins[calls'[x].req.group]
    <3>1. Op(c)' = r.op /\ calls'[c].req = r
      BY <1>4, <1>6
    <3>2. r.op = "grant" /\ ~r.on => r.user \notin t.admins[r.group]
      BY <1>7
    <3> QED BY <1>7, <1>14, <3>1, <3>2
  <2>9. \A p \in revoked' : p[2] \notin t.admins[p[1]] /\ p[2] \notin disk'.admins[p[1]]
    <3> SUFFICES ASSUME NEW p \in revoked' PROVE p[2] \notin t.admins[p[1]] /\ p[2] \notin disk.admins[p[1]]
      BY <1>1
    <3>1. p \in revoked /\ p \in AccessGroups \X Admins
      BY <1>1, <1>2 DEF StoreTypes
    <3>2. p[2] \notin seen.admins[p[1]] /\ p[2] \notin disk.admins[p[1]] /\ p[1] \in AccessGroups /\ p = <<p[1], p[2]>>
      BY <1>2, <3>1 DEF AclInv
    <3>3. CASE r.op \notin BetaOps
      BY <1>7, <3>2, <3>3 DEF Acl
    <3>4. CASE r.op \in BetaOps /\ p[1] # r.group
      BY <1>7, <3>2, <3>4
    <3>5. CASE r.op \in {"save", "delete"} /\ p[1] = r.group
      BY <1>7, <3>2, <3>5
    <3>6. CASE r.op = "grant" /\ p[1] = r.group
      <4>1. r.on => p[2] # r.user
        BY <1>1, <3>2, <3>6
      <4> QED BY <1>7, <3>2, <3>6, <4>1
    <3> QED BY <3>3, <3>4, <3>5, <3>6 DEF BetaOps
  <2> QED BY <2>3, <2>6, <2>7, <2>8, <2>9 DEF AclInv
<1>18. AwayInv'
  <2>1. ASSUME "away" \notin dubious'
        PROVE  /\ t.away = disk'.away \/ \E x \in Callers : Writing(x, "away")'
               /\ promisedAway' \subseteq {t.away}
    <3>1. seen.away = disk.away /\ promisedAway \subseteq {seen.away}
      BY <1>1, <1>2, <1>12, <2>1 DEF AwayInv
    <3>2. CASE r.op = "away"
      BY <1>1, <1>13, <3>2
    <3>3. CASE r.op # "away"
      BY <1>1, <1>7, <3>1, <3>3
    <3> QED BY <3>2, <3>3
  <2>2. \A x \in Callers : Writing(x, "away")' => t.away = calls'[x].req.on
    <3>1. \A x \in Callers \ {c} : ~Writing(x, "away")'
      BY <1>14 DEF Writing
    <3>2. Writing(c, "away")' => t.away = r.on /\ calls'[c].req = r
      BY <1>6, <1>7, <1>13
    <3> QED BY <3>1, <3>2
  <2> QED BY <2>1, <2>2 DEF AwayInv
<1> QED BY <1>9, <1>11, <1>15, <1>16, <1>17, <1>18 DEF SettingsInv

\* The last statements of a change of a group.
LEMMA SecondStep ==
  ASSUME SettingsInv, NEW c \in Callers, Second(c)
  PROVE  SettingsInv'
<1> DEFINE r == calls[c].req
           t == seen'
<1>1. /\ calls[c].at = "second" /\ Step(c, "commit") /\ seen' = SecondStatement(r)
      /\ UNCHANGED <<disk, writer, settingsLock, shown, dubious, promised, promisedAway, revoked, repliedUnder>>
  BY DEF Second, bounds, told
<1>2. StoreTypes /\ StoreLocks /\ LocksOf(c) /\ SlotsInv /\ AclInv /\ AwayInv
  BY DEF SettingsInv, StoreLocks
<1>3. calls[c] # NoCall /\ "commit" \in Places /\ calls[c].at \in Places
  BY <1>1, NoCallIs DEF Places
<1>4. r \in Requests /\ r.op = Op(c) /\ r.op \in {"save", "delete"} /\ writer = c
  BY <1>1, <1>2, <1>3, InCall DEF LocksOf
<1>5. /\ calls' \in [Callers -> StoreCalls \cup {NoCall}]
      /\ calls'[c].at = "commit" /\ calls'[c].req = r /\ Op(c)' = Op(c)
      /\ \A x \in Callers \ {c} : calls'[x] = calls[x] /\ Op(x)' = Op(x)
  BY <1>1, <1>2, <1>3, StepCalls
<1>6. SecondChanges(r, t)
  <2>1. seen \in Tables /\ t = SecondStatement(r)
    BY <1>1, <1>2 DEF StoreTypes
  <2> HIDE DEF r, t
  <2> QED BY <1>4, <2>1, SecondIs
<1> HIDE DEF r
<1>7. t \in Tables /\ t.over = seen.over /\ t.away = seen.away /\ t.admins = seen.admins
  BY <1>6 DEF SecondChanges
<1>8. StoreTypes'
  BY <1>1, <1>2, <1>5, <1>7 DEF StoreTypes
<1>9. LocksOf(c)'
  BY <1>1, <1>2, <1>4, <1>5 DEF LocksOf
<1>10. StoreLocks'
  <2>1. \A x \in Callers \ {c} : LocksOf(x)'
    BY <1>1, <1>2, <1>5, OthersLocks
  <2> QED BY <1>1, <1>2, <1>9, <2>1 DEF StoreLocks
<1>11. \A x \in Callers : writer = x \/ calls[x].at \in {"second", "commit"} => x = c
  BY <1>2, <1>4 DEF StoreLocks, LocksOf
<1>12. \A x \in Callers : ~Writing(x, "update") /\ ~Writing(x, "away")
  BY <1>4, <1>11 DEF Writing
<1>13. SlotsInv'
  BY <1>1, <1>2, <1>7, <1>12 DEF SlotsInv
<1>14. CacheTrue' /\ NoReplyWhenBack'
  BY <1>1 DEF SettingsInv, CacheTrue, NoReplyWhenBack, Effective
<1>15. AclInv'
  <2>1. \A g \in AccessGroups : WholeGroup(disk, g)'
    BY <1>1, <1>2 DEF AclInv, WholeGroup
  <2>2. ASSUME NEW g \in AccessGroups PROVE WholeGroup(t, g)
    <3>1. CASE g # r.group
      <4>1. WholeGroup(seen, g)
        BY <1>2, <1>11, <3>1 DEF AclInv, r
      <4> QED BY <1>6, <1>7, <3>1, <4>1 DEF WholeGroup, SecondChanges
    <3>2. CASE g = r.group /\ r.op = "save"
      <4>1. t.groups = seen.groups /\ t.servers[g] # {}
        BY <1>6, <3>2 DEF SecondChanges
      <4>2. g \in seen.groups
        BY <1>1, <1>2, <1>4, <3>2 DEF AclInv, r
      <4>3. t.admins[g] # {} => g \in t.groups
        BY <4>1, <4>2
      <4> QED BY <4>1, <4>2, <4>3 DEF WholeGroup
    <3>3. CASE g = r.group /\ r.op = "delete"
      <4>1. seen.admins[g] = {}
        BY <1>1, <1>2, <1>4, <3>3 DEF AclInv, r
      <4> QED BY <1>6, <1>7, <3>3, <4>1 DEF WholeGroup, SecondChanges
    <3> QED BY <1>4, <3>1, <3>2, <3>3
  <2>3. \A g \in AccessGroups : WholeGroup(seen, g)' /\ (t.admins[g] # {} => g \in t.groups)
    BY <2>2 DEF WholeGroup
  <2>4. writer' = c /\ Op(c)' \in BetaOps
    BY <1>1, <1>4, <1>5 DEF BetaOps
  <2>5. \A x \in Callers : calls'[x].at \in {"second", "commit"} =>
       /\ Op(x)' = "save" => calls'[x].req.group \in t.groups
       /\ Op(x)' = "delete" => t.admins[calls'[x].req.group] = {}
       /\ Op(x)' = "grant" /\ ~calls'[x].req.on => calls'[x].req.user \notin t.admins[calls'[x].req.group]
    <3>1. Op(c) = "delete" => seen.admins[r.group] = {}
      BY <1>1, <1>2 DEF AclInv, r
    <3>3. Op(c) = "save" => r.group \in t.groups
      <4>1. Op(c) = "save" => r.group \in seen.groups
        BY <1>1, <1>2 DEF AclInv, r
      <4> QED BY <1>4, <1>6, <4>1 DEF SecondChanges
    <3>2. \A x \in Callers \ {c} : calls'[x].at \notin {"second", "commit"}
      BY <1>5, <1>11
    <3> QED BY <1>4, <1>5, <1>7, <3>1, <3>2, <3>3
  <2>6. \A p \in revoked' : p[2] \notin t.admins[p[1]] /\ p[2] \notin disk'.admins[p[1]]
    BY <1>1, <1>2, <1>7 DEF AclInv
  <2> QED BY <2>1, <2>3, <2>4, <2>5, <2>6 DEF AclInv
<1>16. AwayInv'
  <2>1. \A x \in Callers : ~Writing(x, "away")'
    BY <1>1, <1>4, <1>5, <1>11 DEF Writing
  <2> QED BY <1>1, <1>2, <1>7, <1>12, <2>1 DEF AwayInv
<1> QED BY <1>8, <1>10, <1>13, <1>14, <1>15, <1>16 DEF SettingsInv

\* A commit: what is seen is on disk, and nobody writes.
LEMMA CommitStep ==
  ASSUME SettingsInv, NEW c \in Callers, Commit(c)
  PROVE  SettingsInv'
<1> DEFINE r == calls[c].req
           lost == CASE r.op = "delete" -> {r.group} \X Admins
                     [] r.op = "grant" /\ ~r.on -> {<<r.group, r.user>>}
                     [] OTHER -> {}
<1>1. /\ calls[c].at = "commit" /\ disk' = seen /\ writer' = Nobody
      /\ IF r.op = "update"
         THEN /\ shown' = Invalidated(r.slot) /\ Step(c, "reload")
              /\ promised' = [promised EXCEPT ![r.slot] = seen.over[r.slot]]
         ELSE Done(c) /\ UNCHANGED <<shown, promised>>
      /\ promisedAway' = IF r.op = "away" THEN {r.on} ELSE promisedAway
      /\ revoked' = revoked \cup lost
      /\ UNCHANGED <<seen, settingsLock, dubious, repliedUnder>>
  BY DEF Commit, NowOnDisk, bounds
<1>2. StoreTypes /\ StoreLocks /\ LocksOf(c) /\ SlotsInv /\ AclInv /\ AwayInv
  BY DEF SettingsInv, StoreLocks
<1>3. calls[c] # NoCall /\ "reload" \in Places /\ calls[c].at \in Places
  BY <1>1, NoCallIs DEF Places
<1>4. r \in Requests /\ r.op = Op(c) /\ writer = c /\ (r.op = "update" => settingsLock = c)
  BY <1>1, <1>2, <1>3, InCall DEF LocksOf
<1>5. /\ r.op \in BetaOps => r.group \in AccessGroups
      /\ r.op = "update" => r.slot \in SettingSlots
      /\ r.op = "grant" => r.user \in Admins
      /\ r.op = "away" => r.on \in BOOLEAN
  BY <1>4, RequestFields
<1>6. /\ calls' \in [Callers -> StoreCalls \cup {NoCall}]
      /\ r.op = "update" => calls'[c].at = "reload" /\ Op(c)' = "update"
      /\ r.op # "update" => calls'[c].at = "none" /\ Op(c)' = "none"
      /\ \A x \in Callers \ {c} : calls'[x] = calls[x] /\ Op(x)' = Op(x)
  <2>1. CASE r.op = "update"
    BY <1>1, <1>2, <1>3, <1>4, <2>1, StepCalls
  <2>2. CASE r.op # "update"
    BY <1>1, <1>2, <2>2, DoneCalls
  <2> QED BY <2>1, <2>2
<1>7. \A p \in lost : /\ p \in AccessGroups \X Admins
                      /\ p[2] \notin seen.admins[p[1]]
  <2>1. /\ r.op = "delete" => seen.admins[r.group] = {}
        /\ r.op = "grant" /\ ~r.on => r.user \notin seen.admins[r.group]
    BY <1>1, <1>2, <1>4 DEF AclInv
  <2>2. CASE r.op = "delete"
    BY <1>5, <2>1, <2>2 DEF BetaOps
  <2>3. CASE r.op = "grant" /\ ~r.on
    <3>1. lost = {<<r.group, r.user>>}
      BY <2>3
    <3> QED BY <1>5, <2>1, <2>3, <3>1 DEF BetaOps
  <2>4. CASE ~(r.op = "delete") /\ ~(r.op = "grant" /\ ~r.on)
    <3>1. lost = {}
      BY <2>4
    <3> QED BY <3>1
  <2> QED BY <2>2, <2>3, <2>4
<1> HIDE DEF r, lost
<1>8. promised' \in [SettingSlots -> Overrides \cup {Nothing}]
      /\ \A s \in SettingSlots : promised'[s] \in {promised[s], seen.over[s]}
  <2>1. seen.over \in [SettingSlots -> Overrides] /\ promised \in [SettingSlots -> Overrides \cup {Nothing}]
    BY <1>2 DEF StoreTypes, Tables
  <2> QED BY <1>1, <1>5, <2>1
<1>9. /\ shown' \in [SettingSlots -> Overrides \cup {Nothing}]
      /\ \A s \in SettingSlots : shown'[s] # Nothing =>
           shown'[s] = shown[s] /\ (r.op = "update" => r.slot \notin {s, Global})
  <2>1. shown \in [SettingSlots -> Overrides \cup {Nothing}]
    BY <1>2 DEF StoreTypes
  <2>2. CASE r.op = "update"
    <3>1. \/ r.slot = Global /\ shown' = [x \in SettingSlots |-> Nothing]
          \/ r.slot # Global /\ shown' = [shown EXCEPT ![r.slot] = Nothing]
      BY <1>1, <2>2 DEF Invalidated
    <3> QED BY <1>5, <2>1, <2>2, <3>1
  <2>3. CASE r.op # "update"
    BY <1>1, <2>1, <2>3
  <2> QED BY <2>2, <2>3
<1>10. StoreTypes'
  <2>1. revoked' \subseteq AccessGroups \X Admins
    BY <1>1, <1>2, <1>7 DEF StoreTypes
  <2>2. promisedAway' \subseteq BOOLEAN
    BY <1>1, <1>2, <1>5 DEF StoreTypes
  <2> QED BY <1>1, <1>2, <1>6, <1>8, <1>9, <2>1, <2>2 DEF StoreTypes
<1>11. LocksOf(c)'
  BY <1>1, <1>4, <1>6, SettingsAssumption DEF LocksOf
<1>12. StoreLocks'
  <2>1. \A x \in Callers \ {c} : LocksOf(x)'
    BY <1>1, <1>2, <1>4, <1>6, OthersLocks
  <2> QED BY <1>1, <1>2, <1>11, <2>1 DEF StoreLocks
<1>13. \A x \in Callers : writer = x \/ calls[x].at \in {"second", "commit"} => x = c
  BY <1>2, <1>4 DEF StoreLocks, LocksOf
<1>14. \A x \in Callers : calls'[x].at \notin {"second", "commit"} /\ \A op : ~Writing(x, op)'
  BY <1>1, <1>6, <1>13, SettingsAssumption DEF Writing
<1>15. SlotsInv'
  BY <1>1, <1>2, <1>8 DEF SlotsInv
<1>16. CacheTrue'
  <2> SUFFICES ASSUME NEW s \in SettingSlots, shown'[s] # Nothing, dubious \cap {s, Global} = {}
               PROVE  shown'[s] = Effective(seen, s)
    BY <1>1 DEF CacheTrue, Effective
  <2>1. shown[s] = Effective(disk, s) /\ shown'[s] = shown[s]
    BY <1>9 DEF SettingsInv, CacheTrue
  <2>2. \A x \in Callers : Writing(x, "update") => calls[x].req.slot \notin {s, Global}
    BY <1>4, <1>9, <1>13 DEF Writing, r
  <2> QED BY <2>1, <2>2, EffectiveTrue
<1>17. AclInv'
  <2>1. \A g \in AccessGroups : WholeGroup(seen, g)
    <3>1. \A x \in Callers : calls[x].at # "second"
      BY <1>1, <1>13
    <3> QED BY <1>2, <3>1 DEF AclInv
  <2>2. \A g \in AccessGroups : WholeGroup(seen, g)' /\ WholeGroup(disk, g)' /\ (seen'.admins[g] # {} => g \in seen'.groups)
    BY <1>1, <2>1 DEF WholeGroup
  <2>3. Acl(seen)' = Acl(disk)'
    BY <1>1 DEF Acl
  <2>4. \A p \in revoked' : p[2] \notin seen'.admins[p[1]] /\ p[2] \notin disk'.admins[p[1]]
    BY <1>1, <1>2, <1>7 DEF AclInv
  <2> QED BY <1>14, <2>2, <2>3, <2>4 DEF AclInv
<1>18. AwayInv' /\ NoReplyWhenBack'
  <2>1. r.op = "away" => seen.away = r.on
    BY <1>2, <1>4 DEF AwayInv, Writing, r
  <2> QED BY <1>1, <1>2, <1>14, <2>1 DEF AwayInv, NoReplyWhenBack, SettingsInv
<1> QED BY <1>10, <1>12, <1>15, <1>16, <1>17, <1>18 DEF SettingsInv

\* A call is interrupted: without the write lock nothing is lost but the call, with it
\* the tables are as seen, or as on disk, and the slot or the mode is dubious.
LEMMA InterruptStep ==
  ASSUME SettingsInv, NEW c \in Callers, Interrupt(c)
  PROVE  SettingsInv'
<1> DEFINE more == IF writer # c THEN {}
                   ELSE CASE Op(c) = "update" -> {calls[c].req.slot}
                          [] Op(c) = "away" -> {"away"} [] OTHER -> {}
<1>1. /\ calls[c] # NoCall /\ Done(c)
      /\ IF writer = c
         THEN \/ seen' \in AfterFailure(c) /\ UNCHANGED disk
              \/ calls[c].at = "commit" /\ disk' = seen /\ UNCHANGED seen
         ELSE UNCHANGED <<seen, disk>>
      /\ dubious' = dubious \cup more
      /\ writer' = IF writer = c THEN Nobody ELSE writer
      /\ settingsLock' = IF settingsLock = c THEN Nobody ELSE settingsLock
      /\ UNCHANGED <<shown, promised, promisedAway, revoked, repliedUnder>>
  BY DEF Interrupt
<1>2. StoreTypes /\ StoreLocks /\ LocksOf(c) /\ SlotsInv /\ AclInv /\ AwayInv
  BY DEF SettingsInv, StoreLocks
<1>3. /\ calls' \in [Callers -> StoreCalls \cup {NoCall}]
      /\ calls'[c].at = "none" /\ Op(c)' = "none"
      /\ \A x \in Callers \ {c} : calls'[x] = calls[x] /\ Op(x)' = Op(x)
  BY <1>1, <1>2, DoneCalls
<1>4. /\ writer # c => more = {}
      /\ writer = c /\ Op(c) = "update" => calls[c].req.slot \in more
      /\ writer = c /\ Op(c) = "away" => "away" \in more
  OBVIOUS
<1> HIDE DEF more
<1>5. seen' \in {seen, disk} /\ disk' \in {seen, disk}
  BY <1>1 DEF AfterFailure
<1>6. StoreTypes'
  BY <1>1, <1>2, <1>3, <1>5 DEF StoreTypes
<1>7. writer' # c /\ c # Nobody
  BY <1>1, SettingsAssumption
<1>8. LocksOf(c)'
  BY <1>3, <1>7 DEF LocksOf
<1>9. StoreLocks'
  <2>1. \A x \in Callers \ {c} : LocksOf(x)'
    BY <1>1, <1>2, <1>3, OthersLocks
  <2> QED BY <1>1, <1>2, <1>8, <2>1 DEF StoreLocks
<1>10. NoReplyWhenBack'
  BY <1>1 DEF SettingsInv, NoReplyWhenBack
<1>11. CASE writer # c
  <2>1. UNCHANGED <<seen, disk, writer, dubious, revoked, promised, promisedAway>>
    BY <1>1, <1>4, <1>11
  <2>2. calls[c].at \notin {"second", "commit"}
    BY <1>2, <1>11 DEF LocksOf
  <2>3. Unwritten
    BY <1>3, <2>1, <2>2 DEF Unwritten
  <2>4. CacheTrue'
    BY <1>1, <2>1 DEF SettingsInv, CacheTrue, Effective
  <2> QED BY <1>6, <1>9, <1>10, <2>1, <2>3, <2>4, UnwrittenKeeps DEF SettingsInv
<1>12. CASE writer = c
  <2>1. \A x \in Callers : writer = x \/ calls[x].at \in {"second", "commit"} => x = c
    BY <1>2, <1>12 DEF StoreLocks, LocksOf
  <2>2. writer' = Nobody /\ \A x \in Callers : calls'[x].at \notin {"second", "commit"} /\ \A op : ~Writing(x, op)'
    BY <1>1, <1>3, <1>12, <2>1, SettingsAssumption DEF Writing
  <2>3. \A s \in SettingSlots : s \notin dubious' => seen.over[s] = disk.over[s]
    BY <1>1, <1>2, <1>4, <1>12, <2>1 DEF SlotsInv, Writing
  <2>4. SlotsInv'
    BY <1>1, <1>2, <1>5, <2>3 DEF SlotsInv
  <2>5. CacheTrue'
    <3> SUFFICES ASSUME NEW s \in SettingSlots, shown[s] # Nothing, dubious' \cap {s, Global} = {}
                 PROVE  shown[s] = Effective(disk', s)
      BY <1>1 DEF CacheTrue, Effective
    <3>1. shown[s] = Effective(disk, s)
      BY <1>1 DEF SettingsInv, CacheTrue
    <3>2. seen.over[s] = disk.over[s] /\ seen.over[Global] = disk.over[Global]
      BY <2>3 DEF SettingSlots
    <3>3. disk'.over[s] = disk.over[s] /\ disk'.over[Global] = disk.over[Global]
      BY <1>5, <3>2
    <3> QED BY <3>1, <3>3 DEF Effective
  <2>6. /\ Acl(seen') = Acl(disk')
        /\ \A g \in AccessGroups : WholeGroup(seen', g)
    <3>1. \A g \in AccessGroups : WholeGroup(disk, g)
      BY <1>2 DEF AclInv
    <3>2. CASE Op(c) \in BetaOps
      <4>1. \/ seen' = disk /\ disk' = disk
            \/ calls[c].at = "commit" /\ seen' = seen /\ disk' = seen
        BY <1>1, <1>12, <3>2 DEF AfterFailure
      <4>2. CASE seen' = disk /\ disk' = disk
        BY <3>1, <4>2 DEF WholeGroup
      <4>3. CASE calls[c].at = "commit" /\ seen' = seen /\ disk' = seen
        <5>1. \A x \in Callers : calls[x].at # "second"
          BY <2>1, <4>3
        <5>2. \A g \in AccessGroups : WholeGroup(seen, g)
          BY <1>2, <5>1 DEF AclInv
        <5> QED BY <4>3, <5>2 DEF WholeGroup
      <4> QED BY <4>1, <4>2, <4>3
    <3>3. CASE Op(c) \notin BetaOps
      <4>1. Acl(seen) = Acl(disk)
        BY <1>2, <2>1, <3>3 DEF AclInv
      <4>2. \A x \in Callers : ~(calls[x].at = "second" /\ Op(x) = "save")
        BY <2>1, <3>3 DEF BetaOps
      <4>3. \A g \in AccessGroups : WholeGroup(seen, g)
        BY <1>2, <4>2 DEF AclInv
      <4>4. Acl(seen') = Acl(seen) /\ Acl(disk') = Acl(disk)
        BY <1>5, <4>1
      <4>5. \A g \in AccessGroups : WholeGroup(seen', g)
        BY <1>5, <3>1, <4>3
      <4> QED BY <4>1, <4>4, <4>5
    <3> QED BY <3>2, <3>3
  <2>7. AclInv'
    <3>1. Acl(seen)' = Acl(disk)'
      BY <2>6 DEF Acl
    <3>2. seen'.groups = disk'.groups /\ seen'.servers = disk'.servers /\ seen'.admins = disk'.admins
      BY <2>6 DEF Acl
    <3>3. \A g \in AccessGroups : WholeGroup(seen, g)' /\ WholeGroup(disk, g)' /\ (seen'.admins[g] # {} => g \in seen'.groups)
      BY <2>6, <3>2 DEF WholeGroup
    <3>4. \A p \in revoked' : p[2] \notin seen'.admins[p[1]] /\ p[2] \notin disk'.admins[p[1]]
      BY <1>1, <1>2, <1>5 DEF AclInv
    <3> QED BY <2>2, <3>1, <3>3, <3>4 DEF AclInv
  <2>8. AwayInv'
    <3>1. "away" \notin dubious' => Op(c) # "away" /\ "away" \notin dubious
      BY <1>1, <1>4, <1>12
    <3>2. "away" \notin dubious' => seen.away = disk.away /\ promisedAway \subseteq {seen.away}
      BY <1>2, <2>1, <3>1 DEF AwayInv, Writing
    <3> QED BY <1>1, <1>5, <2>2, <3>2 DEF AwayInv
  <2> QED BY <1>6, <1>9, <1>10, <2>4, <2>5, <2>7, <2>8 DEF SettingsInv
<1> QED BY <1>11, <1>12

\* The process stops: what is seen is what is on disk.
LEMMA CrashStep ==
  ASSUME SettingsInv, SettingsCrash
  PROVE  SettingsInv'
<1>1. /\ seen' = disk /\ writer' = Nobody /\ settingsLock' = Nobody
      /\ shown' = [s \in SettingSlots |-> Nothing]
      /\ calls' = [c \in Callers |-> NoCall]
      /\ dubious' = dubious \cup (IF seen.away # disk.away THEN {"away"} ELSE {})
      /\ UNCHANGED <<disk, promised, promisedAway, revoked, repliedUnder>>
  BY DEF SettingsCrash
<1>2. StoreTypes /\ SlotsInv /\ AclInv /\ AwayInv
  BY DEF SettingsInv
<1>3. \A c \in Callers : calls'[c].at = "none" /\ Op(c)' = "none"
  BY <1>1 DEF Op, NoCall
<1>4. StoreTypes'
  BY <1>1, <1>2 DEF StoreTypes
<1>5. StoreLocks'
  <2>1. \A c \in Callers : LocksOf(c)'
    BY <1>1, <1>3, SettingsAssumption DEF LocksOf
  <2> QED BY <1>1, <2>1 DEF StoreLocks
<1>6. SlotsInv' /\ CacheTrue'
  BY <1>1, <1>2 DEF SlotsInv, CacheTrue
<1>7. AclInv'
  <2>1. \A g \in AccessGroups : WholeGroup(disk, g)
    BY <1>2 DEF AclInv
  <2>2. \A g \in AccessGroups : WholeGroup(seen, g)' /\ WholeGroup(disk, g)' /\ (seen'.admins[g] # {} => g \in seen'.groups)
    BY <1>1, <2>1 DEF WholeGroup
  <2>3. Acl(seen)' = Acl(disk)'
    BY <1>1 DEF Acl
  <2>4. \A p \in revoked' : p[2] \notin seen'.admins[p[1]] /\ p[2] \notin disk'.admins[p[1]]
    BY <1>1, <1>2 DEF AclInv
  <2> QED BY <1>3, <2>2, <2>3, <2>4 DEF AclInv
<1>8. AwayInv' /\ NoReplyWhenBack'
  <2>1. \A c \in Callers : ~Writing(c, "away")'
    BY <1>3 DEF Writing
  <2>2. "away" \notin dubious' => "away" \notin dubious /\ seen.away = disk.away
    BY <1>1
  <2> QED BY <1>1, <1>2, <2>1, <2>2 DEF AwayInv, NoReplyWhenBack, SettingsInv
<1> QED BY <1>4, <1>5, <1>6, <1>7, <1>8 DEF SettingsInv

\* At the start nothing is set, and nothing was promised.
LEMMA SettingsStart ==
  ASSUME SettingsInit
  PROVE  SettingsInv
<1>1. NoTables \in Tables
  BY DEF NoTables, Tables, Overrides
<1>2. \A c \in Callers : calls[c].at = "none" /\ Op(c) = "none"
  BY DEF SettingsInit, Op, NoCall
<1>3. StoreTypes
  BY <1>1 DEF SettingsInit, StoreTypes
<1>4. StoreLocks
  <2>1. \A c \in Callers : LocksOf(c)
    BY <1>2, SettingsAssumption DEF SettingsInit, LocksOf
  <2> QED BY <2>1 DEF SettingsInit, StoreLocks
<1>5. SlotsInv /\ CacheTrue
  BY DEF SettingsInit, SlotsInv, CacheTrue
<1>6. AclInv
  BY <1>2 DEF SettingsInit, AclInv, NoTables, WholeGroup
<1>7. AwayInv /\ NoReplyWhenBack
  BY <1>2 DEF SettingsInit, AwayInv, NoReplyWhenBack, NoTables, Writing
<1> QED BY <1>3, <1>4, <1>5, <1>6, <1>7 DEF SettingsInv

\* Every step keeps it.
LEMMA SettingsKept ==
  ASSUME SettingsInv, [SettingsNext]_settingsVars
  PROVE  SettingsInv'
<1>1. CASE \E c \in Callers : \E r \in Requests : Request(c, r)
  BY <1>1, RequestStep
<1>2. CASE \E c \in Callers : TakeSettingsLock(c)
  BY <1>2, TakeLockStep
<1>3. CASE \E c \in Callers : ReadOld(c) \/ ReadAway(c)
  BY <1>3, ReadStep
<1>4. CASE \E c \in Callers : Reload(c)
  BY <1>4, ReloadStep
<1>5. CASE \E c \in Callers : First(c)
  BY <1>5, FirstStep
<1>6. CASE \E c \in Callers : RefuseGrant(c)
  BY <1>6, RefuseStep
<1>7. CASE \E c \in Callers : Second(c)
  BY <1>7, SecondStep
<1>8. CASE \E c \in Callers : Commit(c)
  BY <1>8, CommitStep
<1>9. CASE \E c \in Callers : Interrupt(c)
  BY <1>9, InterruptStep
<1>10. CASE (\E s \in SettingSlots : Expire(s)) \/ (\E m \in Mentions : Ping(m))
  BY <1>10, ExpirePingStep
<1>11. CASE SettingsCrash
  BY <1>11, CrashStep
<1>12. CASE UNCHANGED settingsVars
  <2>1. UNCHANGED <<seen, disk, writer, settingsLock, shown, calls, dubious, promised, promisedAway, revoked, repliedUnder>>
    BY <1>12 DEF settingsVars
  <2>2. StoreTypes' /\ StoreLocks'
    BY <2>1 DEF SettingsInv, StoreTypes, StoreLocks, LocksOf, Op
  <2>3. Unwritten
    BY <2>1 DEF Unwritten
  <2>4. CacheTrue' /\ NoReplyWhenBack'
    BY <2>1 DEF SettingsInv, CacheTrue, NoReplyWhenBack, Effective
  <2> QED BY <2>1, <2>2, <2>3, <2>4, UnwrittenKeeps DEF SettingsInv
<1> QED BY <1>1, <1>2, <1>3, <1>4, <1>5, <1>6, <1>7, <1>8, <1>9, <1>10, <1>11, <1>12 DEF SettingsNext

\* What the invariant says of settings, groups and the mode.
LEMMA SettingsInvSound ==
  ASSUME SettingsInv
  PROVE  SettingsSound
<1>1. StoreTypes /\ StoreLocks /\ SlotsInv /\ AclInv
  BY DEF SettingsInv
<1>2. SettingsTypeOK
  <2>1. \A t \in Tables : /\ t.over \in [SettingSlots -> Overrides] /\ t.away \in BOOLEAN
       /\ t.servers \in [AccessGroups -> SUBSET Servers] /\ t.admins \in [AccessGroups -> SUBSET Admins]
    BY DEF Tables
  <2>2. \A c \in Callers :
       /\ calls[c].at \in {"second", "commit"} <=> writer = c
       /\ Op(c) = "update" /\ calls[c].at # "settings lock" => settingsLock = c
    BY <1>1 DEF StoreLocks, LocksOf
  <2> QED BY <1>1, <2>1, <2>2 DEF SettingsTypeOK, StoreTypes
<1>3. UpdateDurable
  BY <1>1 DEF SlotsInv, UpdateDurable
<1>4. GroupsWhole
  BY <1>1 DEF AclInv, WholeGroup, GroupsWhole
<1>5. AclCommitted
  BY <1>1, SettingsAssumption DEF AclInv, AclCommitted
<1>6. RevokedStay
  <2> SUFFICES ASSUME NEW u \in Admins, NEW s \in Servers, NEW z \in Access(seen, u, s)
               PROVE  z \in UNION {seen.servers[g] : g \in {x \in AccessGroups : <<x, u>> \notin revoked}}
    BY DEF RevokedStay
  <2>1. PICK g \in seen.groups : u \in seen.admins[g] /\ s \in seen.servers[g] /\ z \in seen.servers[g]
    BY DEF Access
  <2>2. g \in AccessGroups
    BY <1>1, <2>1 DEF StoreTypes, Tables
  <2>3. <<g, u>> \notin revoked
    BY <1>1, <2>1 DEF AclInv
  <2> QED BY <2>1, <2>2, <2>3
<1> QED BY <1>2, <1>3, <1>4, <1>5, <1>6 DEF SettingsInv, SettingsSound

\* Settings, groups and the vacation mode on one connection are as SettingsSound says,
\* whatever calls meet and however they end (guild_config.py:128-213,
\* beta_access.py:48-64, storage.py:121-197, vacation_mode.py:57-93).
THEOREM SettingsAreSound == SettingsSpec => []SettingsSound
<1>1. SettingsInit => SettingsInv
  BY SettingsStart
<1>2. SettingsInv /\ [SettingsNext]_settingsVars => SettingsInv'
  BY SettingsKept
<1>3. SettingsInv => SettingsSound
  BY SettingsInvSound
<1> QED BY <1>1, <1>2, <1>3, PTL DEF SettingsSpec

-----------------------------------------------------------------------------
(* The log channels of a server.                                             *)

Reported == [row : Nat, key : Keys]
SetupStages == {"idle", "create", "close", "refused", "keys", "done"}
Shapes(last, areas) == [id : 1 .. last, area : 1 .. areas, key : Keys, shut : BOOLEAN]
Progress(last, areas) ==
  [stage : SetupStages, area : 0 .. areas, at : 0 .. Len(LogKeys), failed : Nat, target : 0 .. last]

ChannelShapes ==
  /\ made \in Nat /\ reports \in Nat /\ removals \in Nat /\ shut \in Seq(BOOLEAN)
  /\ channels \subseteq Shapes(made, Len(shut))
  /\ \A a, b \in channels : a.id = b.id => a = b
  /\ channelCache \in [Keys -> 0 .. made]
  /\ sendQueue \in [1 .. made -> Seq(Reported)] /\ entries \in [1 .. made -> Seq(Reported)]
  /\ setup \in [Setups -> Progress(made, Len(shut))]

\* All channels of a key in a category are closed; there is one.
KeyShut(area, k) == \A ch \in channels : ch.area = area /\ ch.key = k => ch.shut
KeyThere(area, k) == \E ch \in channels : ch.area = area /\ ch.key = k

\* What is open was made by hand, and stands before all others of its key.
OpenFirst ==
  \A a, b \in channels : ~a.shut /\ a.area = b.area /\ a.key = b.key => a.id <= b.id

\* A setup has closed its category, and at its key every channel of the keys before; the
\* one it found is all that may be open of the key it is at.
SetupFits(s) ==
  LET u == setup[s] IN
  /\ u.stage = "create" => u.area = 0
  /\ u.stage = "close" => u.area = 1 /\ shut # <<>>
  /\ u.stage \in {"keys", "done"} => u.area \in DOMAIN shut /\ shut[u.area]
  /\ u.stage = "keys" =>
       /\ u.at \in 1 .. Len(LogKeys)
       /\ \A ch \in channels :
            /\ ch.id = u.target => ch.area = u.area /\ ch.key = LogKeys[u.at]
            /\ ch.area = u.area /\ ch.key = LogKeys[u.at] /\ ~ch.shut => ch.id = u.target
       /\ u.failed = 0 => \A i \in 1 .. u.at - 1 :
            KeyShut(u.area, LogKeys[i]) /\ (removals = 0 => KeyThere(u.area, LogKeys[i]))
  /\ u.stage = "done" /\ u.failed = 0 => \A k \in Keys :
       KeyShut(u.area, k) /\ (removals = 0 => KeyThere(u.area, k))

\* The eldest category is the work of a setup, unless it is the only one there will be.
EldestMade ==
  shut # <<>> =>
    \/ \E s \in Setups : setup[s].stage \in {"keys", "done"} /\ setup[s].area = 1
    \/ \A s \in Setups : /\ setup[s].stage # "create"
                         /\ setup[s].stage \in {"close", "keys", "done"} => setup[s].area = 1

\* A cached channel is one of its key.
CachedOfKey == \A k \in Keys : \A ch \in channels : ch.id = channelCache[k] => ch.key = k

\* What waits at a channel comes after what it shows, and is for it.
Ordered(list) == \A i, j \in DOMAIN list : i < j => list[i].row < list[j].row
LinesFit ==
  /\ \A id \in 1 .. made :
       /\ Ordered(entries[id]) /\ Ordered(sendQueue[id])
       /\ \A i \in DOMAIN sendQueue[id] :
            /\ sendQueue[id][i].row <= reports
            /\ \A j \in DOMAIN entries[id] : entries[id][j].row < sendQueue[id][i].row
       /\ \A j \in DOMAIN entries[id] : entries[id][j].row <= reports
  /\ \A ch \in channels :
       /\ \A i \in DOMAIN sendQueue[ch.id] : sendQueue[ch.id][i].key = ch.key \/ ch.key = "server"
       /\ \A j \in DOMAIN entries[ch.id] : entries[ch.id][j].key = ch.key \/ ch.key = "server"

NoneRemoved == removals = 0 => \A id \in 1 .. made : There(id)

ChannelInv ==
  /\ ChannelShapes /\ NoneRemoved
  /\ OpenFirst /\ EldestMade /\ \A s \in Setups : SetupFits(s)
  /\ CachedOfKey /\ LinesFit
ChannelSpec == ChannelInit /\ [][ChannelNext]_logChannelVars

\* What a step may do to the channels: those there are stay as they are or are closed,
\* unless one is removed; a new one is closed; no category is opened.
Moves ==
  /\ made' \in {made, made + 1} /\ removals' \in {removals, removals + 1}
  /\ \A n \in channels' :
       \/ n.id = made + 1 /\ made' = made + 1 /\ n.shut
       \/ \E o \in channels : o.id = n.id /\ o.area = n.area /\ o.key = n.key /\ (o.shut => n.shut)
  /\ removals' = removals =>
       \A o \in channels : \E n \in channels' : n.id = o.id /\ n.area = o.area /\ n.key = o.key
  /\ DOMAIN shut \subseteq DOMAIN shut' /\ \A i \in DOMAIN shut : shut[i] => shut'[i]

\* The eldest channel of a key, if there is one.
EldestIs(among, area, k, t) ==
  \/ t = 0 /\ ~\E ch \in among : ch.area = area /\ ch.key = k
  \/ /\ t # 0
     /\ \E ch \in among : ch.area = area /\ ch.key = k /\ ch.id = t
     /\ \A ch \in among : ch.area = area /\ ch.key = k => t <= ch.id

\* It is found.
LEMMA FindInIs ==
  ASSUME NEW among, \A ch \in among : ch.id \in Nat \ {0}, NEW area, NEW k
  PROVE  EldestIs(among, area, k, FindIn(among, area, k))
<1> DEFINE found == {ch.id : ch \in {c \in among : c.area = area /\ c.key = k}}
<1>1. \A i : i \in found <=> \E ch \in among : ch.area = area /\ ch.key = k /\ ch.id = i
  OBVIOUS
<1>2. FindIn(among, area, k) = IF found = {} THEN 0 ELSE CHOOSE i \in found : \A j \in found : i <= j
  BY DEF FindIn
<1>3. found \in SUBSET Nat
  BY <1>1
<1>6. \A i \in found : i # 0
  OBVIOUS
<1> HIDE DEF found
<1>4. CASE found = {}
  BY <1>1, <1>2, <1>4 DEF EldestIs
<1>5. CASE found # {}
  <2>1. \E i \in found : \A j \in found : i <= j
    BY <1>3, <1>5, NatLeast
  <2>2. FindIn(among, area, k) \in found /\ \A j \in found : FindIn(among, area, k) <= j
    BY <1>2, <1>5, <2>1
  <2> QED BY <1>1, <1>6, <2>2 DEF EldestIs
<1> QED BY <1>4, <1>5

\* A number names one channel.
LEMMA ChannelIs ==
  ASSUME ChannelShapes, NEW id, There(id)
  PROVE  Channel(id) \in channels /\ Channel(id).id = id
  BY DEF There, Channel

\* Closed channels stay closed, and none is lost while none is removed.
LEMMA KeysStay ==
  ASSUME Moves, ChannelShapes, NEW area, NEW k
  PROVE  /\ KeyShut(area, k) => KeyShut(area, k)'
         /\ removals' = 0 => removals = 0 /\ (KeyThere(area, k) => KeyThere(area, k)')
<1>1. KeyShut(area, k) => KeyShut(area, k)'
  BY DEF KeyShut, Moves
<1>2. removals' = 0 => removals = 0 /\ removals' = removals
  BY DEF Moves, ChannelShapes
<1>3. removals' = 0 => (KeyThere(area, k) => KeyThere(area, k)')
  BY <1>2 DEF KeyThere, Moves
<1> QED BY <1>1, <1>2, <1>3

\* What is open stands first.
LEMMA OpenStays ==
  ASSUME Moves, ChannelShapes, OpenFirst
  PROVE  OpenFirst'
<1> SUFFICES ASSUME NEW a \in channels', NEW b \in channels', ~a.shut, a.area = b.area, a.key = b.key
             PROVE  a.id <= b.id
  BY DEF OpenFirst
<1>1. PICK o \in channels : o.id = a.id /\ o.area = a.area /\ o.key = a.key /\ ~o.shut
  BY DEF Moves
<1>2. o.id \in 1 .. made /\ made \in Nat
  BY DEF ChannelShapes, Shapes
<1>3. CASE b.id = made + 1
  BY <1>1, <1>2, <1>3
<1>4. CASE \E p \in channels : p.id = b.id /\ p.area = b.area /\ p.key = b.key
  BY <1>1, <1>4 DEF OpenFirst
<1> QED BY <1>3, <1>4 DEF Moves

\* A setup that does nothing itself.
LEMMA SetupStays ==
  ASSUME Moves, ChannelShapes, NEW s \in Setups, SetupFits(s), setup'[s] = setup[s]
  PROVE  SetupFits(s)'
<1> DEFINE u == setup[s]
<1>1. u.target \in 0 .. made /\ made \in Nat /\ u.area \in 0 .. Len(shut) /\ u.at \in 0 .. Len(LogKeys)
  BY DEF ChannelShapes, Progress
<1>2. shut \in Seq(BOOLEAN)
  BY DEF ChannelShapes
<1>3. u.stage = "close" => u.area = 1 /\ shut' # <<>>
  BY <1>2 DEF SetupFits, Moves
<1>4. u.stage \in {"keys", "done"} => u.area \in DOMAIN shut' /\ shut'[u.area]
  BY DEF SetupFits, Moves
<1>5. ASSUME u.stage = "keys", NEW ch \in channels'
      PROVE  /\ ch.id = u.target => ch.area = u.area /\ ch.key = LogKeys[u.at]
             /\ ch.area = u.area /\ ch.key = LogKeys[u.at] /\ ~ch.shut => ch.id = u.target
  <2>1. \/ ch.id = made + 1 /\ ch.shut
        \/ \E o \in channels : o.id = ch.id /\ o.area = ch.area /\ o.key = ch.key /\ (o.shut => ch.shut)
    BY DEF Moves
  <2>2. \A o \in channels :
             /\ o.id = u.target => o.area = u.area /\ o.key = LogKeys[u.at]
             /\ o.area = u.area /\ o.key = LogKeys[u.at] /\ ~o.shut => o.id = u.target
    BY <1>5 DEF SetupFits
  <2> HIDE DEF u
  <2>3. CASE ch.id = made + 1 /\ ch.shut
    <3>1. ch.id # u.target
      BY <1>1, <2>3
    <3> QED BY <2>3, <3>1
  <2>4. CASE \E o \in channels : o.id = ch.id /\ o.area = ch.area /\ o.key = ch.key /\ (o.shut => ch.shut)
    <3>1. PICK o \in channels : o.id = ch.id /\ o.area = ch.area /\ o.key = ch.key /\ (o.shut => ch.shut)
      BY <2>4
    <3>2. /\ o.id = u.target => o.area = u.area /\ o.key = LogKeys[u.at]
          /\ o.area = u.area /\ o.key = LogKeys[u.at] /\ ~o.shut => o.id = u.target
      BY <2>2
    <3>3. ~ch.shut => ~o.shut
      BY <3>1
    <3>4. ch.id = u.target => ch.area = u.area /\ ch.key = LogKeys[u.at]
      BY <3>1, <3>2
    <3>5. ch.area = u.area /\ ch.key = LogKeys[u.at] /\ ~ch.shut => ch.id = u.target
      BY <3>1, <3>2, <3>3
    <3> QED BY <3>4, <3>5
  <2> QED BY <2>1, <2>3, <2>4
<1>6. u.stage = "keys" /\ u.failed = 0 => \A i \in 1 .. u.at - 1 :
         KeyShut(u.area, LogKeys[i])' /\ (removals' = 0 => KeyThere(u.area, LogKeys[i])')
  BY KeysStay DEF SetupFits
<1>7. u.stage = "done" /\ u.failed = 0 => \A k \in Keys :
         KeyShut(u.area, k)' /\ (removals' = 0 => KeyThere(u.area, k)')
  BY KeysStay DEF SetupFits
<1>8. u.stage = "create" => u.area = 0
  BY DEF SetupFits
<1>9. u.stage = "keys" => u.at \in 1 .. Len(LogKeys)
  BY DEF SetupFits
<1>10. \A area, k : (KeyShut(area, k)' <=> \A ch \in channels' : ch.area = area /\ ch.key = k => ch.shut)
                 /\ (KeyThere(area, k)' <=> \E ch \in channels' : ch.area = area /\ ch.key = k)
  BY DEF KeyShut, KeyThere
<1> QED BY <1>3, <1>4, <1>5, <1>6, <1>7, <1>8, <1>9, <1>10 DEF SetupFits

\* The numbers of channels and categories only grow.
LEMMA ProgressGrows ==
  ASSUME Moves, ChannelShapes, shut' \in Seq(BOOLEAN)
  PROVE  /\ made \in Nat /\ made' \in Nat /\ made <= made' /\ Len(shut) \in Nat /\ Len(shut') \in Nat
         /\ Len(shut) <= Len(shut')
         /\ Progress(made, Len(shut)) \subseteq Progress(made', Len(shut'))
<1>1. made \in Nat /\ made' \in Nat /\ made <= made'
  BY DEF Moves, ChannelShapes
<1>2. Len(shut) \in Nat /\ Len(shut') \in Nat /\ DOMAIN shut = 1 .. Len(shut) /\ DOMAIN shut' = 1 .. Len(shut')
  BY LenProperties DEF ChannelShapes
<1>3. Len(shut) <= Len(shut')
  <2>1. Len(shut) = 0 \/ Len(shut) \in DOMAIN shut'
    BY <1>2 DEF Moves
  <2> QED BY <1>2, <2>1
<1>4. 0 .. made \subseteq 0 .. made' /\ 0 .. Len(shut) \subseteq 0 .. Len(shut')
  BY <1>1, <1>2, <1>3
<1> QED BY <1>1, <1>2, <1>3, <1>4 DEF Progress

\* A setup that begins with a key, after those before it are done.
LEMMA KeyStepFits ==
  ASSUME NEW s \in Setups, NEW area \in DOMAIN shut', shut'[area], NEW i \in 1 .. Len(LogKeys), NEW failed \in Nat,
         setup'[s] = KeyStep(area, i, failed, channels'), made' \in Nat, shut' \in Seq(BOOLEAN),
         channels' \subseteq Shapes(made', Len(shut')), \A a, b \in channels' : a.id = b.id => a = b, OpenFirst',
         failed = 0 => \A j \in 1 .. i - 1 :
           KeyShut(area, LogKeys[j])' /\ (removals' = 0 => KeyThere(area, LogKeys[j])')
  PROVE  SetupFits(s)' /\ setup'[s] \in Progress(made', Len(shut'))
<1> DEFINE t == FindIn(channels', area, LogKeys[i])
<1>1. setup'[s] = [stage |-> "keys", area |-> area, at |-> i, failed |-> failed, target |-> t]
  BY DEF KeyStep
<1>2. /\ \A ch \in channels' : ch.id \in 1 .. made'
      /\ \A ch \in channels' : ch.id \in Nat \ {0}
  BY DEF Shapes
<1>3. EldestIs(channels', area, LogKeys[i], t)
  BY <1>2, FindInIs
<1> HIDE DEF t
<1>4. t \in 0 .. made'
  BY <1>2, <1>3 DEF EldestIs
<1>5. ASSUME NEW ch \in channels'
      PROVE  /\ ch.id = t => ch.area = area /\ ch.key = LogKeys[i]
             /\ ch.area = area /\ ch.key = LogKeys[i] /\ ~ch.shut => ch.id = t
  <2>1. CASE t = 0 /\ ~\E c \in channels' : c.area = area /\ c.key = LogKeys[i]
    BY <1>2, <2>1
  <2>2. CASE /\ \E c \in channels' : c.area = area /\ c.key = LogKeys[i] /\ c.id = t
             /\ \A c \in channels' : c.area = area /\ c.key = LogKeys[i] => t <= c.id
    <3>1. PICK c \in channels' : c.area = area /\ c.key = LogKeys[i] /\ c.id = t
      BY <2>2
    <3>2. ch.id = t => ch = c
      BY <3>1
    <3>3. ch.area = area /\ ch.key = LogKeys[i] /\ ~ch.shut => ch.id <= t /\ t <= ch.id
      BY <2>2, <3>1 DEF OpenFirst
    <3>4. ch.id \in Nat /\ t \in Nat
      BY <1>2, <3>1
    <3> QED BY <3>1, <3>2, <3>3, <3>4
  <2> QED BY <1>3, <2>1, <2>2 DEF EldestIs
<1>6. area \in 0 .. Len(shut') /\ i \in 0 .. Len(LogKeys) /\ Len(LogKeys) \in Nat
  BY LenProperties, ChannelAssumption
<1>7. setup'[s] \in Progress(made', Len(shut'))
  BY <1>1, <1>4, <1>6 DEF Progress, SetupStages
<1>8. /\ setup'[s].stage = "keys" /\ setup'[s].area = area /\ setup'[s].at = i /\ setup'[s].failed = failed
      /\ setup'[s].target = t
  BY <1>1
<1>9. SetupFits(s)'
  BY <1>5, <1>8 DEF SetupFits
<1> QED BY <1>7, <1>9

\* A setup that goes on to its next key, or is over.
LEMMA AdvanceFits ==
  ASSUME Moves, ChannelShapes, shut' = shut, OpenFirst',
         channels' \subseteq Shapes(made', Len(shut')), \A a, b \in channels' : a.id = b.id => a = b,
         NEW s \in Setups, NEW u, setup[s] = u, SetupFits(s), u.stage = "keys", NEW failed \in Nat,
         Advance(s, failed, channels'),
         failed = 0 =>
           /\ u.failed = 0
           /\ KeyShut(u.area, LogKeys[u.at])'
           /\ removals' = 0 => KeyThere(u.area, LogKeys[u.at])',
         \A k \in Keys : \A ch \in channels' : ch.id = channelCache[k] => ch.key = k
  PROVE  /\ setup' \in [Setups -> Progress(made', Len(shut'))]
         /\ SetupFits(s)' /\ setup'[s].stage \in {"keys", "done"} /\ setup'[s].area = u.area
         /\ \A x \in Setups \ {s} : setup'[x] = setup[x]
         /\ channelCache' \in [Keys -> 0 .. made'] /\ CachedOfKey'
<1> DEFINE i == u.at + 1
<1>0. made' \in Nat /\ shut' \in Seq(BOOLEAN) /\ made \in Nat /\ made <= made'
      /\ setup \in [Setups -> Progress(made', Len(shut'))] /\ u \in Progress(made', Len(shut'))
  BY ProgressGrows DEF ChannelShapes
<1>1. u.area \in DOMAIN shut' /\ shut'[u.area] /\ u.at \in 1 .. Len(LogKeys) /\ Len(LogKeys) \in Nat
  BY LenProperties, ChannelAssumption DEF SetupFits
<1>2. failed = 0 => \A j \in 1 .. u.at :
           KeyShut(u.area, LogKeys[j])' /\ (removals' = 0 => KeyThere(u.area, LogKeys[j])')
  <2> SUFFICES ASSUME failed = 0, NEW j \in 1 .. u.at
               PROVE  KeyShut(u.area, LogKeys[j])' /\ (removals' = 0 => KeyThere(u.area, LogKeys[j])')
    OBVIOUS
  <2>1. CASE j = u.at
    BY <2>1
  <2>2. CASE j \in 1 .. u.at - 1
    <3>1. KeyShut(u.area, LogKeys[j]) /\ (removals = 0 => KeyThere(u.area, LogKeys[j]))
      BY <2>2 DEF SetupFits
    <3> QED BY <3>1, KeysStay
  <2> QED BY <1>1, <2>1, <2>2
<1>3. /\ \A ch \in channels' : ch.id \in 1 .. made'
      /\ \A ch \in channels' : ch.id \in Nat \ {0}
  BY <1>0 DEF Shapes
<1>4. channelCache \in [Keys -> 0 .. made']
  BY <1>0 DEF ChannelShapes
<1>5. CASE i > Len(LogKeys)
  <2> DEFINE found == [k \in Keys |-> FindIn(channels', u.area, k)]
             over == [Unbegun EXCEPT !.stage = "done", !.area = u.area, !.failed = failed]
  <2>1. /\ channelCache' = IF \A k \in Keys : found[k] = 0 THEN channelCache ELSE found
        /\ setup' = [setup EXCEPT ![s] = over]
    BY <1>5 DEF Advance, Over
  <2>2. Unbegun \in Progress(made', Len(shut')) /\ u.area \in 0 .. Len(shut')
    <3>1. Unbegun = [stage |-> "idle", area |-> 0, at |-> 0, failed |-> 0, target |-> 0]
      BY DEF Unbegun
    <3>2. 0 \in 0 .. Len(shut') /\ 0 \in 0 .. Len(LogKeys) /\ 0 \in 0 .. made' /\ u.area \in 0 .. Len(shut')
      BY <1>0, <1>1, LenProperties
    <3> QED BY <3>1, <3>2 DEF Progress, SetupStages
  <2>3. over \in Progress(made', Len(shut'))
    BY <2>2 DEF Progress, SetupStages
  <2>4. /\ over.stage = "done" /\ over.area = u.area /\ over.failed = failed
    BY <2>2 DEF Progress
  <2> HIDE DEF over
  <2>5. setup' \in [Setups -> Progress(made', Len(shut'))] /\ setup'[s] = over
        /\ \A x \in Setups \ {s} : setup'[x] = setup[x]
    BY <1>0, <2>1, <2>3
  <2>6. \A k \in Keys : \E j \in 1 .. u.at : k = LogKeys[j]
    BY <1>1, <1>5, LenProperties, ChannelAssumption DEF Keys, ToSet
  <2>7. failed = 0 => \A k \in Keys : KeyShut(u.area, k)' /\ (removals' = 0 => KeyThere(u.area, k)')
    BY <1>2, <2>6
  <2>8. SetupFits(s)'
    BY <1>1, <2>4, <2>5, <2>7 DEF SetupFits
  <2>9. \A k \in Keys : found[k] \in 0 .. made' /\ \A ch \in channels' : ch.id = found[k] => ch.key = k
    <3> SUFFICES ASSUME NEW k \in Keys
                 PROVE  /\ FindIn(channels', u.area, k) \in 0 .. made'
                        /\ \A ch \in channels' : ch.id = FindIn(channels', u.area, k) => ch.key = k
      OBVIOUS
    <3>1. EldestIs(channels', u.area, k, FindIn(channels', u.area, k))
      BY <1>3, FindInIs
    <3> QED BY <1>0, <1>3, <3>1 DEF EldestIs
  <2>10. found \in [Keys -> 0 .. made']
    BY <2>9
  <2> HIDE DEF found
  <2>11. channelCache' \in [Keys -> 0 .. made'] /\ CachedOfKey'
    BY <1>4, <2>1, <2>9, <2>10 DEF CachedOfKey
  <2> QED BY <2>4, <2>5, <2>8, <2>11
<1>6. CASE ~(i > Len(LogKeys))
  <2>1. setup' = [setup EXCEPT ![s] = KeyStep(u.area, i, failed, channels')] /\ channelCache' = channelCache
    BY <1>6 DEF Advance
  <2>2. setup'[s] = KeyStep(u.area, i, failed, channels') /\ \A x \in Setups \ {s} : setup'[x] = setup[x]
    BY <1>0, <2>1
  <2>3. i \in 1 .. Len(LogKeys) /\ (failed = 0 => \A j \in 1 .. i - 1 :
           KeyShut(u.area, LogKeys[j])' /\ (removals' = 0 => KeyThere(u.area, LogKeys[j])'))
    <3>1. i \in 1 .. Len(LogKeys) /\ i - 1 = u.at
      BY <1>1, <1>6
    <3> HIDE DEF i
    <3> QED BY <1>2, <3>1
  <2> HIDE DEF i
  <2>4. SetupFits(s)' /\ setup'[s] \in Progress(made', Len(shut'))
    BY <1>0, <1>1, <2>2, <2>3, KeyStepFits
  <2>5. setup'[s].stage = "keys" /\ setup'[s].area = u.area
    BY <2>2 DEF KeyStep
  <2>6. setup' \in [Setups -> Progress(made', Len(shut'))]
    BY <1>0, <2>1, <2>4
  <2>7. CachedOfKey'
    BY <2>1 DEF CachedOfKey
  <2> QED BY <1>4, <2>1, <2>2, <2>4, <2>5, <2>6, <2>7
<1> QED BY <1>5, <1>6

\* Reports, removals and the start of the cache leave the setups alone.
LEMMA SetupsRest ==
  ASSUME ChannelInv, Moves, setup' = setup, shut' = shut
  PROVE  OpenFirst' /\ EldestMade' /\ \A s \in Setups : SetupFits(s)'
<1>1. ChannelShapes /\ OpenFirst /\ EldestMade /\ \A s \in Setups : SetupFits(s)
  BY DEF ChannelInv
<1>2. OpenFirst'
  BY <1>1, OpenStays
<1>3. \A s \in Setups : SetupFits(s)'
  BY <1>1, SetupStays
<1>4. EldestMade'
  BY <1>1 DEF EldestMade
<1> QED BY <1>2, <1>3, <1>4

\* Without a change of the channels nothing else about them changes.
LEMMA ChannelsRest ==
  ASSUME ChannelInv, UNCHANGED <<shut, channels, made, setup, removals>>
  PROVE  NoneRemoved' /\ OpenFirst' /\ EldestMade' /\ \A s \in Setups : SetupFits(s)'
<1>1. Moves
  BY DEF Moves
<1>2. NoneRemoved'
  BY DEF ChannelInv, NoneRemoved, There
<1> QED BY <1>1, <1>2, SetupsRest

\* The channel a report goes to.
LEMMA LookUpIs ==
  ASSUME ChannelInv, NEW k \in Keys, NEW found, found = LookUpKey(k)
  PROVE  /\ found.id \in 0 .. made /\ found.key \in Keys
         /\ found.id # 0 => /\ found.key \in {k, "server"}
                            /\ \E ch \in channels : ch.id = found.id /\ ch.key = found.key
<1> DEFINE Held(key) == IF channelCache[key] # 0 /\ There(channelCache[key]) THEN channelCache[key]
                      ELSE FindIn(channels, Category, key)
<1>0. "server" \in Keys
  BY ChannelAssumption DEF Keys
<1>1. ChannelShapes /\ CachedOfKey
  BY DEF ChannelInv
<1>2. /\ \A ch \in channels : ch.id \in 1 .. made
      /\ \A ch \in channels : ch.id \in Nat \ {0}
      /\ made \in Nat
  BY <1>1 DEF ChannelShapes, Shapes
<1>3. ASSUME NEW key \in Keys
      PROVE  Held(key) \in 0 .. made /\ (Held(key) # 0 => \E ch \in channels : ch.id = Held(key) /\ ch.key = key)
  <2>1. CASE channelCache[key] # 0 /\ There(channelCache[key])
    <3>1. PICK ch \in channels : ch.id = channelCache[key]
      BY <2>1 DEF There
    <3> QED BY <1>1, <1>2, <2>1, <3>1 DEF CachedOfKey
  <2>2. CASE ~(channelCache[key] # 0 /\ There(channelCache[key]))
    <3>1. EldestIs(channels, Category, key, FindIn(channels, Category, key))
      BY <1>2, FindInIs
    <3>2. Held(key) = FindIn(channels, Category, key)
      BY <2>2
    <3> QED BY <1>2, <3>1, <3>2 DEF EldestIs
  <2> QED BY <2>1, <2>2
<1>4. found = IF Held(k) # 0 \/ k = "server" THEN [id |-> Held(k), key |-> k] ELSE [id |-> Held("server"), key |-> "server"]
  BY DEF LookUpKey
<1> HIDE DEF Held
<1>5. Held(k) \in 0 .. made /\ (Held(k) # 0 => \E ch \in channels : ch.id = Held(k) /\ ch.key = k)
  BY <1>3
<1>6. Held("server") \in 0 .. made /\ (Held("server") # 0 => \E ch \in channels : ch.id = Held("server") /\ ch.key = "server")
  BY <1>0, <1>3
<1>7. CASE Held(k) # 0 \/ k = "server"
  <2>1. found.id = Held(k) /\ found.key = k
    BY <1>4, <1>7
  <2> QED BY <1>5, <2>1
<1>8. CASE ~(Held(k) # 0 \/ k = "server")
  <2>1. found.id = Held("server") /\ found.key = "server"
    BY <1>4, <1>8
  <2> QED BY <1>0, <1>6, <2>1
<1> QED BY <1>7, <1>8

\* A report gets in line at its channel.
LEMMA ReportStep ==
  ASSUME ChannelInv, NEW k \in Keys, ReportEvent(k)
  PROVE  ChannelInv'
<1> DEFINE found == LookUpKey(k)
           new == [row |-> reports + 1, key |-> k]
<1>1. /\ reports' = reports + 1 /\ UNCHANGED <<shut, channels, made, setup, entries, removals>>
      /\ \/ UNCHANGED <<channelCache, sendQueue>>
         \/ /\ found.id # 0
            /\ channelCache' = [channelCache EXCEPT ![found.key] = found.id]
            /\ sendQueue' = [sendQueue EXCEPT ![found.id] = Append(sendQueue[found.id], new)]
  BY DEF ReportEvent
<1>2. ChannelShapes /\ CachedOfKey /\ LinesFit
  BY DEF ChannelInv
<1>3. /\ found.id \in 0 .. made /\ found.key \in Keys
      /\ found.id # 0 => /\ found.key \in {k, "server"}
                         /\ \E ch \in channels : ch.id = found.id /\ ch.key = found.key
  <2> HIDE DEF found
  <2>1. found = LookUpKey(k)
    BY DEF found
  <2> QED BY <2>1, LookUpIs
<1> HIDE DEF found
<1>4. NoneRemoved' /\ OpenFirst' /\ EldestMade' /\ \A s \in Setups : SetupFits(s)'
  BY <1>1, ChannelsRest
<1>5. /\ made \in Nat /\ reports \in Nat /\ reports' \in Nat /\ new \in Reported
      /\ sendQueue \in [1 .. made -> Seq(Reported)] /\ entries \in [1 .. made -> Seq(Reported)]
      /\ channelCache \in [Keys -> 0 .. made]
  <2>1. reports \in Nat /\ reports + 1 \in Nat
    BY <1>2 DEF ChannelShapes
  <2>2. new \in Reported
    BY <2>1 DEF Reported
  <2> HIDE DEF new
  <2> QED BY <1>1, <1>2, <2>1, <2>2 DEF ChannelShapes
<1>6. channelCache' \in [Keys -> 0 .. made] /\ CachedOfKey'
  <2>1. CASE channelCache' = channelCache
    BY <1>1, <1>2, <1>5, <2>1 DEF CachedOfKey
  <2>2. CASE found.id # 0 /\ channelCache' = [channelCache EXCEPT ![found.key] = found.id]
    <3>1. \A x \in Keys : channelCache'[x] = IF x = found.key THEN found.id ELSE channelCache[x]
      BY <1>5, <2>2
    <3>2. \A ch \in channels : ch.id = found.id => ch.key = found.key
      BY <1>2, <1>3, <2>2 DEF ChannelShapes
    <3>3. CachedOfKey'
      BY <1>1, <1>2, <3>1, <3>2 DEF CachedOfKey
    <3> QED BY <1>3, <1>5, <2>2, <3>3
  <2> QED BY <1>1, <2>1, <2>2
<1>7. \A id \in 1 .. made : \/ sendQueue'[id] = sendQueue[id]
                            \/ id = found.id /\ sendQueue'[id] = Append(sendQueue[id], new)
  BY <1>1, <1>5
<1>8. sendQueue' \in [1 .. made -> Seq(Reported)]
  <2>1. CASE sendQueue' = sendQueue
    BY <1>5, <2>1
  <2>2. CASE found.id # 0 /\ sendQueue' = [sendQueue EXCEPT ![found.id] = Append(sendQueue[found.id], new)]
    <3>1. found.id \in 1 .. made
      BY <1>3, <1>5, <2>2
    <3>2. Append(sendQueue[found.id], new) \in Seq(Reported)
      BY <1>5, <3>1, AppendProperties
    <3> QED BY <1>5, <2>2, <3>1, <3>2
  <2> QED BY <1>1, <2>1, <2>2
<1>9. ChannelShapes'
  BY <1>1, <1>2, <1>5, <1>6, <1>8 DEF ChannelShapes
<1>10. ASSUME NEW id \in 1 .. made
       PROVE  /\ DOMAIN sendQueue[id] \subseteq DOMAIN sendQueue'[id]
              /\ \A i \in DOMAIN sendQueue'[id] :
                   \/ i \in DOMAIN sendQueue[id] /\ sendQueue'[id][i] = sendQueue[id][i]
                   \/ /\ id = found.id /\ sendQueue'[id][i] = new
                      /\ \A j \in DOMAIN sendQueue'[id] : j # i => j \in DOMAIN sendQueue[id] /\ j < i
  <2> DEFINE old == sendQueue[id]
  <2>1. old \in Seq(Reported) /\ new \in Reported
    BY <1>5
  <2> HIDE DEF old, new
  <2>2. CASE sendQueue'[id] = old
    BY <2>2 DEF old
  <2>3. CASE id = found.id /\ sendQueue'[id] = Append(old, new)
    <3>1. /\ Len(Append(old, new)) = Len(old) + 1 /\ Append(old, new)[Len(old) + 1] = new
          /\ \A i \in 1 .. Len(old) : Append(old, new)[i] = old[i]
          /\ DOMAIN old = 1 .. Len(old) /\ DOMAIN Append(old, new) = 1 .. Len(old) + 1 /\ Len(old) \in Nat
      BY <2>1, AppendProperties, LenProperties
    <3> QED BY <2>3, <3>1 DEF old
  <2> QED BY <1>7, <2>2, <2>3 DEF old
<1>11. LinesFit'
  <2>1. ASSUME NEW id \in 1 .. made
        PROVE  /\ Ordered(entries[id]) /\ Ordered(sendQueue'[id])
               /\ \A i \in DOMAIN sendQueue'[id] :
                    /\ sendQueue'[id][i].row <= reports'
                    /\ \A j \in DOMAIN entries[id] : entries[id][j].row < sendQueue'[id][i].row
               /\ \A j \in DOMAIN entries[id] : entries[id][j].row <= reports'
    <3>1. /\ \A j \in DOMAIN entries[id] : entries[id][j].row \in Nat /\ entries[id][j].row <= reports
          /\ \A i \in DOMAIN sendQueue[id] : sendQueue[id][i].row \in Nat /\ sendQueue[id][i].row <= reports
      <4>1. entries[id] \in Seq(Reported) /\ sendQueue[id] \in Seq(Reported)
        BY <1>5
      <4>2. \A j \in DOMAIN entries[id] : entries[id][j] \in Reported
        BY <4>1, ElementOfSeq, LenProperties
      <4>3. \A i \in DOMAIN sendQueue[id] : sendQueue[id][i] \in Reported
        BY <4>1, ElementOfSeq, LenProperties
      <4> QED BY <1>2, <4>2, <4>3 DEF LinesFit, Reported
    <3>2. new.row = reports + 1
      OBVIOUS
    <3> HIDE DEF new
    <3>3. Ordered(entries[id]) /\ Ordered(sendQueue[id])
          /\ \A i \in DOMAIN sendQueue[id] : \A j \in DOMAIN entries[id] : entries[id][j].row < sendQueue[id][i].row
      BY <1>2 DEF LinesFit
    <3>4. Ordered(sendQueue'[id])
      <4> SUFFICES ASSUME NEW i \in DOMAIN sendQueue'[id], NEW j \in DOMAIN sendQueue'[id], i < j
                   PROVE  sendQueue'[id][i].row < sendQueue'[id][j].row
        BY DEF Ordered
      <4>0. i \in Nat /\ j \in Nat
        BY <1>8, LenProperties
      <4>1. CASE j \in DOMAIN sendQueue[id] /\ sendQueue'[id][j] = sendQueue[id][j]
        <5>1. i \in DOMAIN sendQueue[id] /\ sendQueue'[id][i] = sendQueue[id][i]
          BY <1>10, <4>0, <4>1
        <5> QED BY <3>3, <4>1, <5>1 DEF Ordered
      <4>2. CASE /\ sendQueue'[id][j] = new
                 /\ \A l \in DOMAIN sendQueue'[id] : l # j => l \in DOMAIN sendQueue[id] /\ l < j
        <5>1. i \in DOMAIN sendQueue[id] /\ i # j
          BY <4>0, <4>2
        <5>2. sendQueue'[id][i] = sendQueue[id][i]
          BY <1>10, <4>0, <4>2, <5>1
        <5> QED BY <1>5, <3>1, <3>2, <4>2, <5>1, <5>2
      <4> QED BY <1>10, <4>1, <4>2
    <3>5. \A i \in DOMAIN sendQueue'[id] :
            /\ sendQueue'[id][i].row <= reports'
            /\ \A j \in DOMAIN entries[id] : entries[id][j].row < sendQueue'[id][i].row
      <4> SUFFICES ASSUME NEW i \in DOMAIN sendQueue'[id]
                   PROVE  /\ sendQueue'[id][i].row <= reports'
                          /\ \A j \in DOMAIN entries[id] : entries[id][j].row < sendQueue'[id][i].row
        OBVIOUS
      <4>1. CASE i \in DOMAIN sendQueue[id] /\ sendQueue'[id][i] = sendQueue[id][i]
        BY <1>1, <1>5, <3>1, <3>3, <4>1
      <4>2. CASE sendQueue'[id][i] = new
        BY <1>1, <1>5, <3>1, <3>2, <4>2
      <4> QED BY <1>10, <4>1, <4>2
    <3>6. \A j \in DOMAIN entries[id] : entries[id][j].row <= reports'
      BY <1>1, <1>5, <3>1
    <3> QED BY <3>3, <3>4, <3>5, <3>6
  <2>2. ASSUME NEW ch \in channels
        PROVE  /\ \A i \in DOMAIN sendQueue'[ch.id] : sendQueue'[ch.id][i].key = ch.key \/ ch.key = "server"
               /\ \A j \in DOMAIN entries[ch.id] : entries[ch.id][j].key = ch.key \/ ch.key = "server"
    <3>1. ch.id \in 1 .. made
      BY <1>2 DEF ChannelShapes, Shapes
    <3>2. /\ \A i \in DOMAIN sendQueue[ch.id] : sendQueue[ch.id][i].key = ch.key \/ ch.key = "server"
          /\ \A j \in DOMAIN entries[ch.id] : entries[ch.id][j].key = ch.key \/ ch.key = "server"
      BY <1>2 DEF LinesFit
    <3>3. ch.id = found.id /\ found.id # 0 => ch.key \in {k, "server"}
      BY <1>2, <1>3 DEF ChannelShapes
    <3>4. new.key = k /\ ch.id # 0
      BY <3>1, <1>5
    <3> HIDE DEF new
    <3> QED BY <1>10, <3>1, <3>2, <3>3, <3>4
  <2> QED BY <1>1, <2>1, <2>2 DEF LinesFit
<1> QED BY <1>4, <1>6, <1>9, <1>11 DEF ChannelInv

\* The cache starts anew.
LEMMA DiscoverStep ==
  ASSUME ChannelInv, Discover
  PROVE  ChannelInv'
<1>1. /\ channelCache' = [k \in Keys |-> FindIn(channels, Category, k)]
      /\ UNCHANGED <<shut, channels, made, setup, reports, sendQueue, entries, removals, refusals>>
  BY DEF Discover
<1>2. ChannelShapes /\ LinesFit
  BY DEF ChannelInv
<1>3. /\ \A ch \in channels : ch.id \in 1 .. made
      /\ \A ch \in channels : ch.id \in Nat \ {0}
      /\ made \in Nat
  BY <1>2 DEF ChannelShapes, Shapes
<1>4. ASSUME NEW k \in Keys
      PROVE  /\ FindIn(channels, Category, k) \in 0 .. made
             /\ \A ch \in channels : ch.id = FindIn(channels, Category, k) => ch.key = k
  <2>1. EldestIs(channels, Category, k, FindIn(channels, Category, k))
    BY <1>3, FindInIs
  <2>2. \A a, b \in channels : a.id = b.id => a = b
    BY <1>2 DEF ChannelShapes
  <2> QED BY <1>3, <2>1, <2>2 DEF EldestIs
<1>5. channelCache' \in [Keys -> 0 .. made] /\ CachedOfKey'
  BY <1>1, <1>4 DEF CachedOfKey
<1>6. ChannelShapes'
  BY <1>1, <1>2, <1>5 DEF ChannelShapes
<1>7. LinesFit'
  BY <1>1, <1>2 DEF LinesFit, Ordered
<1>8. NoneRemoved' /\ OpenFirst' /\ EldestMade' /\ \A s \in Setups : SetupFits(s)'
  BY <1>1, ChannelsRest
<1> QED BY <1>5, <1>6, <1>7, <1>8 DEF ChannelInv

\* What is left of a line when its first is served.
LEMMA FirstServed ==
  ASSUME NEW S, NEW list \in Seq(S), list # <<>>, NEW rest, rest = RemoveAt(list, 1)
  PROVE  /\ rest \in Seq(S) /\ Len(rest) = Len(list) - 1 /\ Len(list) \in Nat
         /\ \A i \in 1 .. Len(list) - 1 : rest[i] = list[i + 1]
<1> DEFINE tail == Tail(list)
<1>1. Len(list) \in Nat /\ Len(list) >= 1
  BY LenProperties, EmptySeq
<1>2. SubSeq(list, 1, 0) = <<>>
  BY SubSeqEmpty, <1>1
<1>3. tail = SubSeq(list, 2, Len(list)) /\ tail \in Seq(S)
  BY TailIsSubSeq, HeadTailProperties
<1>4. Len(tail) = Len(list) - 1 /\ \A i \in 1 .. Len(list) - 1 : tail[i] = list[i + 1]
  BY HeadTailProperties
<1> HIDE DEF tail
<1>5. rest = SubSeq(list, 1, 1 - 1) \o SubSeq(list, 1 + 1, Len(list))
  BY DEF RemoveAt
<1>6. 1 - 1 = 0 /\ 1 + 1 = 2
  OBVIOUS
<1>7. rest = <<>> \o tail
  BY <1>2, <1>3, <1>5, <1>6
<1>8. <<>> \o tail = tail
  BY <1>3, ConcatEmptySeq
<1>9. rest = tail
  BY <1>7, <1>8
<1> QED BY <1>1, <1>3, <1>4, <1>9

\* The first report of a line is shown or dropped.
LEMMA SendStep ==
  ASSUME ChannelInv, NEW id \in 1 .. made, SendReport(id)
  PROVE  ChannelInv'
<1>1. ChannelShapes /\ LinesFit /\ CachedOfKey
  BY DEF ChannelInv
<1>2. /\ 1 \in DOMAIN sendQueue[id]
      /\ sendQueue' = [sendQueue EXCEPT ![id] = RemoveAt(sendQueue[id], 1)]
      /\ entries' = entries \/ entries' = [entries EXCEPT ![id] = Append(entries[id], sendQueue[id][1])]
      /\ UNCHANGED <<shut, channels, made, channelCache, setup, reports, removals>>
  <2>1. PICK i \in DOMAIN sendQueue[id] :
       /\ HoldsLock(i)
       /\ sendQueue' = [sendQueue EXCEPT ![id] = RemoveAt(sendQueue[id], i)]
       /\ entries' = entries \/ entries' = [entries EXCEPT ![id] = Append(entries[id], sendQueue[id][i])]
    BY DEF SendReport
  <2>2. i = 1
    BY <2>1 DEF HoldsLock
  <2> QED BY <2>1, <2>2 DEF SendReport
<1>3. /\ sendQueue \in [1 .. made -> Seq(Reported)] /\ entries \in [1 .. made -> Seq(Reported)]
      /\ reports \in Nat
  BY <1>1 DEF ChannelShapes
<1> DEFINE line == sendQueue[id]
           first == sendQueue[id][1]
           rest == RemoveAt(sendQueue[id], 1)
           past == entries[id]
<1>4. /\ line \in Seq(Reported) /\ past \in Seq(Reported) /\ rest \in Seq(Reported) /\ first \in Reported
      /\ \A i \in DOMAIN rest : i + 1 \in DOMAIN line /\ i \in Nat /\ rest[i] = line[i + 1]
  <2>1. line \in Seq(Reported) /\ past \in Seq(Reported)
    BY <1>3
  <2>2. first \in Reported
    BY <1>2, <2>1, ElementOfSeq, LenProperties
  <2>3. line # <<>> /\ rest = RemoveAt(line, 1)
    BY <1>2, <2>1, EmptySeq
  <2> HIDE DEF line, rest
  <2>5. /\ rest \in Seq(Reported) /\ Len(rest) = Len(line) - 1 /\ Len(line) \in Nat
        /\ \A i \in 1 .. Len(line) - 1 : rest[i] = line[i + 1]
    BY <2>1, <2>3, FirstServed
  <2>6. /\ rest \in Seq(Reported) /\ Len(rest) = Len(line) - 1 /\ Len(line) \in Nat
        /\ \A i \in 1 .. Len(rest) : rest[i] = line[i + 1]
        /\ DOMAIN rest = 1 .. Len(rest) /\ DOMAIN line = 1 .. Len(line)
    BY <2>1, <2>5, LenProperties
  <2>4. \A i \in DOMAIN rest : i + 1 \in DOMAIN line /\ i \in Nat /\ rest[i] = line[i + 1]
    BY <2>6
  <2> QED BY <2>1, <2>2, <2>4, <2>6
<1>5. /\ sendQueue' = [sendQueue EXCEPT ![id] = rest]
      /\ entries' = entries \/ entries' = [entries EXCEPT ![id] = Append(past, first)]
  BY <1>2
<1>6. /\ Ordered(past) /\ Ordered(line)
      /\ \A i \in DOMAIN line : line[i].row <= reports /\ \A j \in DOMAIN past : past[j].row < line[i].row
      /\ \A j \in DOMAIN past : past[j].row <= reports
  BY <1>1 DEF LinesFit
<1>7. first = line[1] /\ 1 \in DOMAIN line
  BY <1>2
<1> HIDE DEF line, first, rest, past
<1>8. /\ \A i \in DOMAIN line : line[i].row \in Nat
      /\ \A j \in DOMAIN past : past[j].row \in Nat
  <2>1. \A i \in DOMAIN line : line[i] \in Reported
    BY <1>4, ElementOfSeq, LenProperties
  <2>2. \A j \in DOMAIN past : past[j] \in Reported
    BY <1>4, ElementOfSeq, LenProperties
  <2> QED BY <2>1, <2>2 DEF Reported
<1>9. sendQueue' \in [1 .. made -> Seq(Reported)] /\ entries' \in [1 .. made -> Seq(Reported)]
  <2>1. Append(past, first) \in Seq(Reported)
    BY <1>4, AppendProperties
  <2> QED BY <1>3, <1>4, <1>5, <2>1
<1>10. /\ sendQueue'[id] = rest /\ entries'[id] \in {past, Append(past, first)}
       /\ \A x \in 1 .. made \ {id} : sendQueue'[x] = sendQueue[x] /\ entries'[x] = entries[x]
  BY <1>3, <1>5 DEF past
<1>11. Ordered(rest)
  <2> SUFFICES ASSUME NEW i \in DOMAIN rest, NEW j \in DOMAIN rest, i < j PROVE rest[i].row < rest[j].row
    BY DEF Ordered
  <2>1. i + 1 \in DOMAIN line /\ j + 1 \in DOMAIN line /\ i + 1 < j + 1 /\ rest[i] = line[i + 1] /\ rest[j] = line[j + 1]
    BY <1>4
  <2> QED BY <1>6, <2>1 DEF Ordered
<1>12. \A i \in DOMAIN rest : first.row < rest[i].row /\ rest[i].row <= reports
  <2> SUFFICES ASSUME NEW i \in DOMAIN rest PROVE first.row < rest[i].row /\ rest[i].row <= reports
    OBVIOUS
  <2>0. i \in 1 .. Len(rest)
    BY <1>4, LenProperties
  <2>1. i + 1 \in DOMAIN line /\ 1 < i + 1 /\ rest[i] = line[i + 1]
    BY <1>4, <2>0
  <2> QED BY <1>6, <1>7, <2>1 DEF Ordered
<1>13. \A j \in DOMAIN entries'[id] :
         \/ j \in DOMAIN past /\ entries'[id][j] = past[j]
         \/ /\ entries'[id][j] = first
            /\ \A l \in DOMAIN entries'[id] : l # j => l \in DOMAIN past /\ l < j
  <2>1. CASE entries'[id] = past
    BY <2>1
  <2>2. CASE entries'[id] = Append(past, first)
    <3>1. /\ Append(past, first)[Len(past) + 1] = first
          /\ \A i \in 1 .. Len(past) : Append(past, first)[i] = past[i]
          /\ DOMAIN past = 1 .. Len(past) /\ DOMAIN Append(past, first) = 1 .. Len(past) + 1 /\ Len(past) \in Nat
      BY <1>4, AppendProperties, LenProperties
    <3> QED BY <2>2, <3>1
  <2> QED BY <1>10, <2>1, <2>2
<1>14. entries'[id] \in Seq(Reported)
  BY <1>9
<1>15. Ordered(entries'[id])
  <2> SUFFICES ASSUME NEW i \in DOMAIN entries'[id], NEW j \in DOMAIN entries'[id], i < j
               PROVE  entries'[id][i].row < entries'[id][j].row
    BY DEF Ordered
  <2>0. i \in Nat /\ j \in Nat
    BY <1>14, LenProperties
  <2>1. CASE j \in DOMAIN past /\ entries'[id][j] = past[j]
    <3>1. i \in DOMAIN past /\ entries'[id][i] = past[i]
      BY <1>13, <2>0, <2>1
    <3> QED BY <1>6, <2>1, <3>1 DEF Ordered
  <2>2. CASE /\ entries'[id][j] = first
             /\ \A l \in DOMAIN entries'[id] : l # j => l \in DOMAIN past /\ l < j
    <3>1. i # j /\ i \in DOMAIN past /\ ~(j < i)
      BY <2>0, <2>2
    <3>2. entries'[id][i] = past[i]
      BY <1>13, <2>0, <2>2, <3>1
    <3> QED BY <1>6, <1>7, <2>2, <3>1, <3>2
  <2> QED BY <1>13, <2>1, <2>2
<1>16. LinesFit'
  <2>1. ASSUME NEW x \in 1 .. made
        PROVE  /\ Ordered(entries'[x]) /\ Ordered(sendQueue'[x])
               /\ \A i \in DOMAIN sendQueue'[x] :
                    /\ sendQueue'[x][i].row <= reports
                    /\ \A j \in DOMAIN entries'[x] : entries'[x][j].row < sendQueue'[x][i].row
               /\ \A j \in DOMAIN entries'[x] : entries'[x][j].row <= reports
    <3>1. CASE x # id
      BY <1>1, <1>10, <3>1 DEF LinesFit
    <3>2. CASE x = id
      <4>1. first.row \in Nat /\ \A i \in DOMAIN rest : rest[i].row \in Nat
        BY <1>4, <1>7, <1>8
      <4>2. \A j \in DOMAIN entries'[id] : \A i \in DOMAIN rest : entries'[id][j].row < rest[i].row
        <5> SUFFICES ASSUME NEW j \in DOMAIN entries'[id], NEW i \in DOMAIN rest PROVE entries'[id][j].row < rest[i].row
          OBVIOUS
        <5>1. CASE j \in DOMAIN past /\ entries'[id][j] = past[j]
          BY <1>4, <1>6, <5>1
        <5>2. CASE entries'[id][j] = first
          BY <1>12, <5>2
        <5> QED BY <1>13, <5>1, <5>2
      <4>3. \A j \in DOMAIN entries'[id] : entries'[id][j].row <= reports
        BY <1>6, <1>7, <1>13
      <4> QED BY <1>10, <1>11, <1>12, <1>15, <3>2, <4>2, <4>3
    <3> QED BY <3>1, <3>2
  <2>2. ASSUME NEW ch \in channels
        PROVE  /\ \A i \in DOMAIN sendQueue'[ch.id] : sendQueue'[ch.id][i].key = ch.key \/ ch.key = "server"
               /\ \A j \in DOMAIN entries'[ch.id] : entries'[ch.id][j].key = ch.key \/ ch.key = "server"
    <3>1. ch.id \in 1 .. made
      BY <1>1 DEF ChannelShapes, Shapes
    <3>2. /\ \A i \in DOMAIN sendQueue[ch.id] : sendQueue[ch.id][i].key = ch.key \/ ch.key = "server"
          /\ \A j \in DOMAIN entries[ch.id] : entries[ch.id][j].key = ch.key \/ ch.key = "server"
      BY <1>1 DEF LinesFit
    <3>3. CASE ch.id # id
      BY <1>10, <3>1, <3>2, <3>3
    <3>4. CASE ch.id = id
      <4>1. /\ \A i \in DOMAIN line : line[i].key = ch.key \/ ch.key = "server"
            /\ \A j \in DOMAIN past : past[j].key = ch.key \/ ch.key = "server"
        BY <3>2, <3>4 DEF line, past
      <4> QED BY <1>4, <1>7, <1>10, <1>13, <3>4, <4>1
    <3> QED BY <3>3, <3>4
  <2> QED BY <1>2, <2>1, <2>2 DEF LinesFit
<1>17. ChannelShapes'
  BY <1>1, <1>2, <1>9 DEF ChannelShapes
<1>18. CachedOfKey'
  BY <1>1, <1>2 DEF CachedOfKey
<1>19. NoneRemoved' /\ OpenFirst' /\ EldestMade' /\ \A s \in Setups : SetupFits(s)'
  BY <1>2, ChannelsRest
<1> QED BY <1>16, <1>17, <1>18, <1>19 DEF ChannelInv

\* A channel is removed.
LEMMA RemoveStep ==
  ASSUME ChannelInv, NEW id \in 1 .. made, RemoveChannel(id)
  PROVE  ChannelInv'
<1>1. /\ removals' = removals + 1 /\ channels' = channels \ {Channel(id)}
      /\ UNCHANGED <<shut, made, channelCache, setup, reports, sendQueue, entries, refusals>>
  BY DEF RemoveChannel
<1>2. ChannelShapes /\ LinesFit /\ CachedOfKey
  BY DEF ChannelInv
<1>3. removals \in Nat
  BY <1>2 DEF ChannelShapes
<1>4. Moves
  BY <1>1, <1>3 DEF Moves
<1>5. OpenFirst' /\ EldestMade' /\ \A s \in Setups : SetupFits(s)'
  BY <1>1, <1>4, SetupsRest
<1>6. ChannelShapes'
  BY <1>1, <1>2, <1>3 DEF ChannelShapes
<1>7. LinesFit'
  BY <1>1, <1>2 DEF LinesFit, Ordered
<1>8. CachedOfKey' /\ NoneRemoved'
  BY <1>1, <1>2, <1>3 DEF CachedOfKey, NoneRemoved
<1> QED BY <1>5, <1>6, <1>7, <1>8 DEF ChannelInv

\* A setup whose step lets it go on.
LEMMA AdvanceKeeps ==
  ASSUME ChannelInv, Moves, shut' = shut,
         channels' \subseteq Shapes(made', Len(shut')), \A a, b \in channels' : a.id = b.id => a = b,
         NEW s \in Setups, NEW u, setup[s] = u, u.stage = "keys", NEW failed \in Nat,
         Advance(s, failed, channels'),
         failed = 0 =>
           /\ u.failed = 0
           /\ KeyShut(u.area, LogKeys[u.at])'
           /\ removals' = 0 => KeyThere(u.area, LogKeys[u.at])',
         \A k \in Keys : \A ch \in channels' : ch.id = channelCache[k] => ch.key = k
  PROVE  /\ setup' \in [Setups -> Progress(made', Len(shut'))] /\ channelCache' \in [Keys -> 0 .. made']
         /\ OpenFirst' /\ EldestMade' /\ (\A x \in Setups : SetupFits(x)') /\ CachedOfKey'
<1>1. ChannelShapes /\ OpenFirst /\ EldestMade /\ \A x \in Setups : SetupFits(x)
  BY DEF ChannelInv
<1>2. OpenFirst'
  BY <1>1, OpenStays
<1>3. /\ setup' \in [Setups -> Progress(made', Len(shut'))]
      /\ SetupFits(s)' /\ setup'[s].stage \in {"keys", "done"} /\ setup'[s].area = u.area
      /\ \A x \in Setups \ {s} : setup'[x] = setup[x]
      /\ channelCache' \in [Keys -> 0 .. made'] /\ CachedOfKey'
  BY <1>1, <1>2, AdvanceFits
<1>4. \A x \in Setups : SetupFits(x)'
  <2> SUFFICES ASSUME NEW x \in Setups PROVE SetupFits(x)'
    OBVIOUS
  <2>1. CASE x = s
    BY <1>3, <2>1
  <2>2. CASE x # s
    BY <1>1, <1>3, <2>2, SetupStays
  <2> QED BY <2>1, <2>2
<1>5. EldestMade'
  BY <1>1, <1>3 DEF EldestMade
<1> QED BY <1>2, <1>3, <1>4, <1>5

\* A channel of a setup is synchronised, or fails.
LEMMA SyncStep ==
  ASSUME ChannelInv, NEW s \in Setups, SyncChannel(s)
  PROVE  ChannelInv'
<1> DEFINE v == setup[s]
<1>1. PICK u : u = v
  OBVIOUS
<1> HIDE DEF v
<1>2. setup[s] = u
  BY <1>1 DEF v
<1>3. ChannelShapes /\ LinesFit /\ CachedOfKey /\ NoneRemoved /\ OpenFirst /\ SetupFits(s)
  BY DEF ChannelInv
<1>4. u.stage = "keys" /\ u.target # 0 /\ UNCHANGED <<shut, made, reports, sendQueue, entries, removals>>
  BY <1>2 DEF SyncChannel
<1>5. /\ u.failed \in Nat /\ u.target \in 0 .. made /\ made \in Nat /\ removals \in Nat
  BY <1>2, <1>3 DEF ChannelShapes, Progress
<1>6. /\ u.area \in DOMAIN shut /\ shut[u.area]
      /\ \A ch \in channels :
            /\ ch.id = u.target => ch.area = u.area /\ ch.key = LogKeys[u.at]
            /\ ch.area = u.area /\ ch.key = LogKeys[u.at] /\ ~ch.shut => ch.id = u.target
  BY <1>2, <1>3, <1>4 DEF SetupFits
<1>7. CASE /\ There(u.target) /\ channels' = (channels \ {Channel(u.target)}) \cup {Synchronised(Channel(u.target))}
           /\ Advance(s, u.failed, channels')
  <2> DEFINE ch == Channel(u.target)
             new == Synchronised(ch)
  <2>1. ch \in channels /\ ch.id = u.target
    BY <1>3, <1>7, ChannelIs
  <2>2. channels' = (channels \ {ch}) \cup {new}
    BY <1>7
  <2>3. new = [ch EXCEPT !.shut = shut[ch.area]]
    BY DEF Synchronised
  <2> HIDE DEF ch, new
  <2>4. /\ ch \in Shapes(made, Len(shut)) /\ ch.area = u.area /\ ch.key = LogKeys[u.at]
    BY <1>3, <1>6, <2>1 DEF ChannelShapes
  <2>5. /\ new \in Shapes(made, Len(shut)) /\ new.id = u.target /\ new.area = u.area /\ new.key = LogKeys[u.at]
        /\ new.shut
    <3>1. shut[ch.area] \in BOOLEAN /\ shut[ch.area]
      BY <1>3, <1>6, <2>4, ElementOfSeq, LenProperties DEF ChannelShapes
    <3>2. new \in Shapes(made, Len(shut)) /\ new.id = ch.id /\ new.area = ch.area /\ new.key = ch.key
          /\ new.shut = shut[ch.area]
      BY <2>3, <2>4, <3>1 DEF Shapes
    <3> QED BY <2>1, <2>4, <3>1, <3>2
  <2>6. channels' \subseteq Shapes(made', Len(shut'))
    BY <1>3, <1>4, <2>2, <2>5 DEF ChannelShapes
  <2>7. \A a, b \in channels' : a.id = b.id => a = b
    BY <1>3, <2>1, <2>2, <2>5 DEF ChannelShapes
  <2>8. Moves
    <3>1. \A n \in channels' : \E o \in channels : o.id = n.id /\ o.area = n.area /\ o.key = n.key /\ (o.shut => n.shut)
      BY <2>1, <2>2, <2>4, <2>5
    <3>2. \A o \in channels : \E n \in channels' : n.id = o.id /\ n.area = o.area /\ n.key = o.key
      BY <2>1, <2>2, <2>4, <2>5
    <3> QED BY <1>4, <3>1, <3>2 DEF Moves
  <2>9. KeyShut(u.area, LogKeys[u.at])' /\ KeyThere(u.area, LogKeys[u.at])'
    <3>1. \A n \in channels' : n.area = u.area /\ n.key = LogKeys[u.at] => n.shut
      BY <1>3, <1>6, <2>1, <2>2, <2>5 DEF ChannelShapes
    <3>2. \E n \in channels' : n.area = u.area /\ n.key = LogKeys[u.at]
      BY <2>2, <2>5
    <3> QED BY <3>1, <3>2 DEF KeyShut, KeyThere
  <2>10. \A k \in Keys : \A n \in channels' : n.id = channelCache[k] => n.key = k
    BY <1>3, <2>1, <2>2, <2>4, <2>5 DEF CachedOfKey
  <2>11. u.failed = 0 =>
           /\ u.failed = 0
           /\ KeyShut(u.area, LogKeys[u.at])'
           /\ removals' = 0 => KeyThere(u.area, LogKeys[u.at])'
    BY <2>9
  <2>12. shut' = shut
    BY <1>4
  <2>13. /\ setup' \in [Setups -> Progress(made', Len(shut'))] /\ channelCache' \in [Keys -> 0 .. made']
         /\ OpenFirst' /\ EldestMade' /\ (\A x \in Setups : SetupFits(x)') /\ CachedOfKey'
    BY <1>2, <1>4, <1>5, <1>7, <2>6, <2>7, <2>8, <2>10, <2>11, <2>12, AdvanceKeeps
  <2>14. ChannelShapes'
    BY <1>3, <1>4, <2>6, <2>7, <2>13 DEF ChannelShapes
  <2>15. LinesFit'
    <3>1. \A n \in channels' : \E o \in channels : n.id = o.id /\ n.key = o.key
      BY <2>1, <2>2, <2>4, <2>5
    <3>2. \A n \in channels' :
            /\ \A i \in DOMAIN sendQueue[n.id] : sendQueue[n.id][i].key = n.key \/ n.key = "server"
            /\ \A j \in DOMAIN entries[n.id] : entries[n.id][j].key = n.key \/ n.key = "server"
      BY <1>3, <3>1 DEF LinesFit
    <3> QED BY <1>3, <1>4, <3>2 DEF LinesFit, Ordered
  <2>16. NoneRemoved'
    <3>1. \A o \in channels : \E n \in channels' : n.id = o.id
      BY <2>1, <2>2, <2>5
    <3> QED BY <1>3, <1>4, <3>1 DEF NoneRemoved, There
  <2> QED BY <2>13, <2>14, <2>15, <2>16 DEF ChannelInv
<1>8. CASE UNCHANGED channels /\ Advance(s, u.failed + 1, channels)
  <2>1. channels' = channels
    BY <1>8
  <2>2. Moves
    BY <1>4, <2>1 DEF Moves
  <2>3. channels' \subseteq Shapes(made', Len(shut')) /\ shut' = shut /\ \A a, b \in channels' : a.id = b.id => a = b
    BY <1>3, <1>4, <2>1 DEF ChannelShapes
  <2>4. u.failed + 1 \in Nat /\ u.failed + 1 # 0 /\ Advance(s, u.failed + 1, channels')
    BY <1>5, <1>8, <2>1
  <2>5. \A k \in Keys : \A n \in channels' : n.id = channelCache[k] => n.key = k
    BY <1>3, <2>1 DEF CachedOfKey
  <2>6. u.failed + 1 = 0 =>
           /\ u.failed = 0
           /\ KeyShut(u.area, LogKeys[u.at])'
           /\ removals' = 0 => KeyThere(u.area, LogKeys[u.at])'
    BY <2>4
  <2> DEFINE failed == u.failed + 1
  <2>7. failed \in Nat /\ Advance(s, failed, channels')
    BY <2>4
  <2>8. failed = 0 =>
           /\ u.failed = 0
           /\ KeyShut(u.area, LogKeys[u.at])'
           /\ removals' = 0 => KeyThere(u.area, LogKeys[u.at])'
    BY <2>6
  <2> HIDE DEF failed
  <2>9. /\ setup' \in [Setups -> Progress(made', Len(shut'))] /\ channelCache' \in [Keys -> 0 .. made']
        /\ OpenFirst' /\ EldestMade' /\ (\A x \in Setups : SetupFits(x)') /\ CachedOfKey'
    BY <1>2, <1>4, <2>2, <2>3, <2>5, <2>7, <2>8, AdvanceKeeps
  <2>10. ChannelShapes'
    BY <1>3, <1>4, <2>3, <2>9 DEF ChannelShapes
  <2>11. LinesFit' /\ NoneRemoved'
    BY <1>3, <1>4, <2>1 DEF LinesFit, Ordered, NoneRemoved, There
  <2> QED BY <2>9, <2>10, <2>11 DEF ChannelInv
<1> QED BY <1>2, <1>7, <1>8 DEF SyncChannel

\* A channel of a setup is created, or fails.
LEMMA CreateStep ==
  ASSUME ChannelInv, NEW s \in Setups, CreateChannel(s)
  PROVE  ChannelInv'
<1> DEFINE v == setup[s]
<1>1. PICK u : u = v
  OBVIOUS
<1> HIDE DEF v
<1>2. setup[s] = u
  BY <1>1 DEF v
<1>3. ChannelShapes /\ LinesFit /\ CachedOfKey /\ NoneRemoved /\ OpenFirst /\ SetupFits(s)
  BY DEF ChannelInv
<1>4. u.stage = "keys" /\ u.target = 0 /\ UNCHANGED <<shut, reports, removals>>
  BY <1>2 DEF CreateChannel
<1>5. /\ u.failed \in Nat /\ made \in Nat /\ removals \in Nat /\ channels \subseteq Shapes(made, Len(shut))
      /\ shut \in Seq(BOOLEAN) /\ DOMAIN shut = 1 .. Len(shut) /\ Len(shut) \in Nat
  BY <1>2, <1>3, LenProperties DEF ChannelShapes, Progress
<1>6. /\ u.area \in DOMAIN shut /\ u.at \in 1 .. Len(LogKeys)
      /\ \A ch \in channels : ch.area = u.area /\ ch.key = LogKeys[u.at] /\ ~ch.shut => ch.id = u.target
  BY <1>2, <1>3, <1>4 DEF SetupFits
<1>7. LogKeys[u.at] \in Keys
  BY <1>6, LenProperties, ChannelAssumption DEF Keys, ToSet
<1>8. \A ch \in channels : ch.id \in 1 .. made
  BY <1>5 DEF Shapes
<1>9. CASE /\ made' = made + 1
           /\ channels' = channels \cup {[id |-> made + 1, area |-> u.area, key |-> LogKeys[u.at], shut |-> TRUE]}
           /\ sendQueue' = Append(sendQueue, <<>>) /\ entries' = Append(entries, <<>>)
           /\ Advance(s, u.failed, channels')
  <2> DEFINE new == [id |-> made + 1, area |-> u.area, key |-> LogKeys[u.at], shut |-> TRUE]
  <2>1. channels' = channels \cup {new}
    BY <1>9
  <2>2. /\ new \in Shapes(made + 1, Len(shut)) /\ new.id = made + 1 /\ new.area = u.area /\ new.key = LogKeys[u.at]
        /\ new.shut
    BY <1>5, <1>6, <1>7 DEF Shapes
  <2> HIDE DEF new
  <2>3. channels' \subseteq Shapes(made', Len(shut'))
    <3>1. Shapes(made, Len(shut)) \subseteq Shapes(made + 1, Len(shut))
      <4>1. 1 .. made \subseteq 1 .. made + 1
        BY <1>5
      <4> QED BY <4>1 DEF Shapes
    <3> QED BY <1>4, <1>5, <1>9, <2>1, <2>2, <3>1
  <2>4. \A a, b \in channels' : a.id = b.id => a = b
    BY <1>3, <1>5, <1>8, <2>1, <2>2 DEF ChannelShapes
  <2>5. Moves
    BY <1>4, <1>9, <2>1, <2>2 DEF Moves
  <2>6. KeyShut(u.area, LogKeys[u.at])' /\ KeyThere(u.area, LogKeys[u.at])'
    <3>1. \A n \in channels' : n.area = u.area /\ n.key = LogKeys[u.at] => n.shut
      BY <1>4, <1>6, <1>8, <2>1, <2>2
    <3>2. \E n \in channels' : n.area = u.area /\ n.key = LogKeys[u.at]
      BY <2>1, <2>2
    <3> QED BY <3>1, <3>2 DEF KeyShut, KeyThere
  <2>7. \A k \in Keys : channelCache[k] \in 0 .. made
    BY <1>3 DEF ChannelShapes
  <2>8. \A k \in Keys : \A n \in channels' : n.id = channelCache[k] => n.key = k
    BY <1>3, <1>5, <2>1, <2>2, <2>7 DEF CachedOfKey
  <2>9. u.failed = 0 =>
           /\ u.failed = 0
           /\ KeyShut(u.area, LogKeys[u.at])'
           /\ removals' = 0 => KeyThere(u.area, LogKeys[u.at])'
    BY <2>6
  <2>10. shut' = shut
    BY <1>4
  <2>11. /\ setup' \in [Setups -> Progress(made', Len(shut'))] /\ channelCache' \in [Keys -> 0 .. made']
         /\ OpenFirst' /\ EldestMade' /\ (\A x \in Setups : SetupFits(x)') /\ CachedOfKey'
    BY <1>2, <1>4, <1>5, <1>9, <2>3, <2>4, <2>5, <2>8, <2>9, <2>10, AdvanceKeeps
  <2>12. ASSUME NEW f \in [1 .. made -> Seq(Reported)]
         PROVE  /\ Append(f, <<>>) \in [1 .. made + 1 -> Seq(Reported)] /\ Append(f, <<>>)[made + 1] = <<>>
                /\ \A i \in 1 .. made : Append(f, <<>>)[i] = f[i]
    <3>1. f \in Seq(Seq(Reported)) /\ <<>> \in Seq(Reported)
      BY <1>5, IsASeq, EmptySeq
    <3>2. Len(f) = made
      BY <1>5, <3>1, LenProperties
    <3>3. /\ Append(f, <<>>) \in Seq(Seq(Reported)) /\ Len(Append(f, <<>>)) = made + 1
          /\ Append(f, <<>>)[made + 1] = <<>> /\ \A i \in 1 .. made : Append(f, <<>>)[i] = f[i]
      BY <3>1, <3>2, AppendProperties
    <3>4. Append(f, <<>>) \in [1 .. made + 1 -> Seq(Reported)]
      BY <3>3, LenProperties
    <3> QED BY <3>3, <3>4
  <2>13. /\ sendQueue \in [1 .. made -> Seq(Reported)] /\ entries \in [1 .. made -> Seq(Reported)]
    BY <1>3 DEF ChannelShapes
  <2>14. /\ sendQueue' \in [1 .. made' -> Seq(Reported)] /\ sendQueue'[made + 1] = <<>>
         /\ \A i \in 1 .. made : sendQueue'[i] = sendQueue[i]
    BY <1>9, <2>12, <2>13
  <2>15. /\ entries' \in [1 .. made' -> Seq(Reported)] /\ entries'[made + 1] = <<>>
         /\ \A i \in 1 .. made : entries'[i] = entries[i]
    BY <1>9, <2>12, <2>13
  <2>16. ChannelShapes'
    BY <1>3, <1>4, <1>5, <1>9, <2>3, <2>4, <2>11, <2>14, <2>15 DEF ChannelShapes
  <2>17. LinesFit'
    <3>1. DOMAIN sendQueue'[made + 1] = {} /\ DOMAIN entries'[made + 1] = {}
      BY <2>14, <2>15
    <3>2. \A i \in 1 .. made' : i \in 1 .. made \/ i = made + 1
      BY <1>5, <1>9
    <3>3. ASSUME NEW id \in 1 .. made'
          PROVE  /\ Ordered(entries'[id]) /\ Ordered(sendQueue'[id])
                 /\ \A i \in DOMAIN sendQueue'[id] :
                      /\ sendQueue'[id][i].row <= reports'
                      /\ \A j \in DOMAIN entries'[id] : entries'[id][j].row < sendQueue'[id][i].row
                 /\ \A j \in DOMAIN entries'[id] : entries'[id][j].row <= reports'
      <4>1. CASE id \in 1 .. made
        <5>1. /\ Ordered(entries[id]) /\ Ordered(sendQueue[id])
              /\ \A i \in DOMAIN sendQueue[id] :
                   /\ sendQueue[id][i].row <= reports
                   /\ \A j \in DOMAIN entries[id] : entries[id][j].row < sendQueue[id][i].row
              /\ \A j \in DOMAIN entries[id] : entries[id][j].row <= reports
          BY <1>3, <4>1 DEF LinesFit
        <5> QED BY <1>4, <2>14, <2>15, <4>1, <5>1
      <4>2. CASE id = made + 1
        <5>1. DOMAIN sendQueue'[id] = {} /\ DOMAIN entries'[id] = {}
          BY <3>1, <4>2
        <5> QED BY <5>1 DEF Ordered
      <4> QED BY <3>2, <4>1, <4>2
    <3>4. ASSUME NEW n \in channels'
          PROVE  /\ \A i \in DOMAIN sendQueue'[n.id] : sendQueue'[n.id][i].key = n.key \/ n.key = "server"
                 /\ \A j \in DOMAIN entries'[n.id] : entries'[n.id][j].key = n.key \/ n.key = "server"
      <4>1. CASE n \in channels
        <5>1. n.id \in 1 .. made
          BY <1>8, <4>1
        <5>2. /\ \A i \in DOMAIN sendQueue[n.id] : sendQueue[n.id][i].key = n.key \/ n.key = "server"
              /\ \A j \in DOMAIN entries[n.id] : entries[n.id][j].key = n.key \/ n.key = "server"
          BY <1>3, <4>1 DEF LinesFit
        <5> QED BY <2>14, <2>15, <5>1, <5>2
      <4>2. CASE n = new
        <5>1. DOMAIN sendQueue'[n.id] = {} /\ DOMAIN entries'[n.id] = {}
          BY <2>2, <3>1, <4>2
        <5> QED BY <5>1
      <4> QED BY <2>1, <4>1, <4>2
    <3> QED BY <3>3, <3>4 DEF LinesFit
  <2>18. NoneRemoved'
    <3>1. \A i \in 1 .. made' : i \in 1 .. made \/ i = made + 1
      BY <1>5, <1>9
    <3> QED BY <1>3, <1>4, <2>1, <2>2, <3>1 DEF NoneRemoved, There
  <2> QED BY <2>11, <2>16, <2>17, <2>18 DEF ChannelInv
<1>10. CASE UNCHANGED <<made, channels, sendQueue, entries>> /\ Advance(s, u.failed + 1, channels)
  <2>1. channels' = channels /\ made' = made /\ UNCHANGED <<sendQueue, entries>>
    BY <1>10
  <2>2. Moves
    BY <1>4, <2>1 DEF Moves
  <2>3. channels' \subseteq Shapes(made', Len(shut')) /\ shut' = shut /\ \A a, b \in channels' : a.id = b.id => a = b
    BY <1>3, <1>4, <2>1 DEF ChannelShapes
  <2> DEFINE failed == u.failed + 1
  <2>4. failed \in Nat /\ Advance(s, failed, channels') /\ failed # 0
    BY <1>5, <1>10, <2>1
  <2>5. \A k \in Keys : \A n \in channels' : n.id = channelCache[k] => n.key = k
    BY <1>3, <2>1 DEF CachedOfKey
  <2> HIDE DEF failed
  <2>6. failed = 0 =>
           /\ u.failed = 0
           /\ KeyShut(u.area, LogKeys[u.at])'
           /\ removals' = 0 => KeyThere(u.area, LogKeys[u.at])'
    BY <2>4
  <2>7. /\ setup' \in [Setups -> Progress(made', Len(shut'))] /\ channelCache' \in [Keys -> 0 .. made']
        /\ OpenFirst' /\ EldestMade' /\ (\A x \in Setups : SetupFits(x)') /\ CachedOfKey'
    BY <1>2, <1>4, <2>2, <2>3, <2>4, <2>5, <2>6, AdvanceKeeps
  <2>8. ChannelShapes'
    BY <1>3, <1>4, <2>1, <2>3, <2>7 DEF ChannelShapes
  <2>9. LinesFit' /\ NoneRemoved'
    BY <1>3, <1>4, <2>1 DEF LinesFit, Ordered, NoneRemoved, There
  <2> QED BY <2>7, <2>8, <2>9 DEF ChannelInv
<1> QED BY <1>2, <1>9, <1>10 DEF CreateChannel

\* A setup begins.
LEMMA BeginStep ==
  ASSUME ChannelInv, NEW s \in Setups, BeginSetup(s)
  PROVE  ChannelInv'
<1>1. /\ setup[s].stage = "idle"
      /\ setup' = [setup EXCEPT ![s] =
           [setup[s] EXCEPT !.stage = IF Category = 0 THEN "create" ELSE "close", !.area = Category]]
      /\ UNCHANGED <<shut, channels, made, channelCache, reports, sendQueue, entries, removals, refusals>>
  BY DEF BeginSetup
<1>2. ChannelShapes /\ LinesFit /\ CachedOfKey /\ NoneRemoved /\ OpenFirst /\ EldestMade /\ \A x \in Setups : SetupFits(x)
  BY DEF ChannelInv
<1>3. /\ Category \in 0 .. Len(shut) /\ (Category = 0 <=> shut = <<>>) /\ (Category # 0 => Category = 1)
      /\ setup \in [Setups -> Progress(made, Len(shut))]
  <2>1. shut \in Seq(BOOLEAN)
    BY <1>2 DEF ChannelShapes
  <2>2. Len(shut) \in Nat /\ (Len(shut) = 0 <=> shut = <<>>)
    BY <2>1, LenProperties, EmptySeq
  <2> QED BY <1>2, <2>2 DEF ChannelShapes, Category
<1> DEFINE new == [setup[s] EXCEPT !.stage = IF Category = 0 THEN "create" ELSE "close", !.area = Category]
<1>4. /\ new \in Progress(made, Len(shut)) /\ new.stage = (IF Category = 0 THEN "create" ELSE "close")
      /\ new.area = Category
  <2>1. setup[s] \in Progress(made, Len(shut))
    BY <1>3
  <2> QED BY <1>3, <2>1 DEF Progress, SetupStages
<1>5. setup' = [setup EXCEPT ![s] = new]
  BY <1>1
<1> HIDE DEF new
<1>6. /\ setup' \in [Setups -> Progress(made, Len(shut))] /\ setup'[s] = new
      /\ \A x \in Setups \ {s} : setup'[x] = setup[x]
  BY <1>3, <1>4, <1>5
<1>7. Moves
  BY <1>1 DEF Moves
<1>8. SetupFits(s)'
  BY <1>1, <1>3, <1>4, <1>6 DEF SetupFits
<1>9. \A x \in Setups : SetupFits(x)'
  <2> SUFFICES ASSUME NEW x \in Setups PROVE SetupFits(x)'
    OBVIOUS
  <2>1. CASE x # s
    BY <1>2, <1>6, <1>7, <2>1, SetupStays
  <2> QED BY <1>8, <2>1
<1>10. EldestMade'
  <2> SUFFICES ASSUME shut # <<>> PROVE EldestMade'
    BY <1>1 DEF EldestMade
  <2>1. new.stage = "close" /\ new.area = 1
    BY <1>3, <1>4
  <2> QED BY <1>1, <1>2, <1>6, <2>1 DEF EldestMade
<1>11. ChannelShapes'
  BY <1>1, <1>2, <1>6 DEF ChannelShapes
<1>12. LinesFit' /\ NoneRemoved' /\ CachedOfKey' /\ OpenFirst'
  BY <1>1, <1>2 DEF LinesFit, Ordered, NoneRemoved, There, CachedOfKey, OpenFirst
<1> QED BY <1>9, <1>10, <1>11, <1>12 DEF ChannelInv

\* A category is created closed, or closed, and the setup begins with its first key.
LEMMA CloseStep ==
  ASSUME ChannelInv, NEW s \in Setups, CloseCategory(s)
  PROVE  ChannelInv'
<1> DEFINE v == setup[s]
<1>1. PICK u : u = v
  OBVIOUS
<1> HIDE DEF v
<1>2. setup[s] = u
  BY <1>1 DEF v
<1>3. /\ ChannelShapes /\ LinesFit /\ CachedOfKey /\ NoneRemoved /\ OpenFirst /\ EldestMade
      /\ \A x \in Setups : SetupFits(x)
  BY DEF ChannelInv
<1>4. /\ u.stage \in {"create", "close"}
      /\ UNCHANGED <<channels, made, channelCache, reports, sendQueue, entries, removals>>
  BY <1>2 DEF CloseCategory
<1>5. /\ shut \in Seq(BOOLEAN) /\ DOMAIN shut = 1 .. Len(shut) /\ Len(shut) \in Nat /\ made \in Nat
      /\ setup \in [Setups -> Progress(made, Len(shut))]
  BY <1>3, LenProperties DEF ChannelShapes
<1>6. CASE /\ shut' = IF u.stage = "create" THEN Append(shut, TRUE) ELSE [shut EXCEPT ![u.area] = TRUE]
           /\ LET area == IF u.stage = "create" THEN Len(shut) + 1 ELSE u.area
              IN setup' = [setup EXCEPT ![s] = KeyStep(area, 1, 0, channels)]
  <2> DEFINE area == IF u.stage = "create" THEN Len(shut) + 1 ELSE u.area
  <2>1. setup' = [setup EXCEPT ![s] = KeyStep(area, 1, 0, channels)]
    BY <1>6
  <2>2. /\ shut' \in Seq(BOOLEAN) /\ area \in DOMAIN shut' /\ shut'[area]
        /\ DOMAIN shut \subseteq DOMAIN shut' /\ \A i \in DOMAIN shut : shut[i] => shut'[i]
        /\ shut = <<>> => area = 1
        /\ u.stage = "close" => area = 1
    <3>1. CASE u.stage = "create"
      <4>1. /\ Append(shut, TRUE) \in Seq(BOOLEAN) /\ Len(Append(shut, TRUE)) = Len(shut) + 1
            /\ Append(shut, TRUE)[Len(shut) + 1] = TRUE
            /\ \A i \in 1 .. Len(shut) : Append(shut, TRUE)[i] = shut[i]
        BY <1>5, AppendProperties
      <4>2. shut' = Append(shut, TRUE) /\ area = Len(shut) + 1
        BY <1>6, <3>1
      <4>3. shut = <<>> => Len(shut) = 0
        BY <1>5, EmptySeq
      <4> HIDE DEF area
      <4>4. DOMAIN shut' = 1 .. Len(shut) + 1
        BY <4>1, <4>2, LenProperties
      <4> QED BY <1>5, <3>1, <4>1, <4>2, <4>3, <4>4
    <3>2. CASE u.stage = "close"
      <4>1. u.area = 1 /\ shut # <<>>
        BY <1>2, <1>3, <3>2 DEF SetupFits
      <4>2. 1 \in DOMAIN shut
        BY <1>5, <4>1, EmptySeq
      <4>3. shut' = [shut EXCEPT ![1] = TRUE] /\ area = 1
        BY <1>6, <3>2, <4>1
      <4>4. [shut EXCEPT ![1] = TRUE] \in Seq(BOOLEAN)
        BY <1>5, <4>2, ExceptSeq
      <4> QED BY <1>5, <4>2, <4>3, <4>4
    <3> QED BY <1>4, <3>1, <3>2
  <2> HIDE DEF area
  <2>3. setup'[s] = KeyStep(area, 1, 0, channels') /\ \A x \in Setups \ {s} : setup'[x] = setup[x]
    BY <1>4, <1>5, <2>1
  <2>4. Moves
    BY <1>4, <2>2 DEF Moves
  <2>5. made' \in Nat /\ made \in Nat /\ Progress(made, Len(shut)) \subseteq Progress(made', Len(shut'))
        /\ Len(shut) \in Nat /\ Len(shut') \in Nat /\ Len(shut) <= Len(shut')
    BY <1>3, <2>2, <2>4, ProgressGrows
  <2>6. channels' \subseteq Shapes(made', Len(shut')) /\ \A a, b \in channels' : a.id = b.id => a = b
    <3>1. 1 .. Len(shut) \subseteq 1 .. Len(shut')
      BY <2>5
    <3>2. Shapes(made, Len(shut)) \subseteq Shapes(made, Len(shut'))
      BY <3>1 DEF Shapes
    <3> QED BY <1>3, <1>4, <3>2 DEF ChannelShapes
  <2>7. OpenFirst'
    BY <1>3, <2>4, OpenStays
  <2>8. 1 \in 1 .. Len(LogKeys) /\ 0 \in Nat
    <3>1. Len(LogKeys) \in Nat /\ \E i \in 1 .. Len(LogKeys) : "server" = LogKeys[i]
      BY LenProperties, ChannelAssumption DEF ToSet
    <3> QED BY <3>1
  <2>9. 0 = 0 => \A j \in 1 .. 1 - 1 :
           KeyShut(area, LogKeys[j])' /\ (removals' = 0 => KeyThere(area, LogKeys[j])')
    OBVIOUS
  <2>10. SetupFits(s)' /\ setup'[s] \in Progress(made', Len(shut'))
    BY <2>2, <2>3, <2>5, <2>6, <2>7, <2>8, <2>9, KeyStepFits
  <2>11. setup' \in [Setups -> Progress(made', Len(shut'))]
    BY <1>5, <2>1, <2>5, <2>10
  <2>12. \A x \in Setups : SetupFits(x)'
    <3> SUFFICES ASSUME NEW x \in Setups PROVE SetupFits(x)'
      OBVIOUS
    <3>1. CASE x # s
      BY <1>3, <2>3, <2>4, <3>1, SetupStays
    <3> QED BY <2>10, <3>1
  <2>13. setup'[s].stage = "keys" /\ setup'[s].area = area
    BY <2>3 DEF KeyStep
  <2>14. EldestMade'
    <3>1. CASE shut = <<>> \/ u.stage = "close"
      BY <2>2, <2>13, <3>1 DEF EldestMade
    <3>2. CASE shut # <<>> /\ u.stage = "create"
      <4>1. PICK w \in Setups : setup[w].stage \in {"keys", "done"} /\ setup[w].area = 1
        BY <1>2, <1>3, <3>2 DEF EldestMade
      <4>2. w # s
        BY <1>2, <3>2, <4>1
      <4> QED BY <2>3, <4>1, <4>2 DEF EldestMade
    <3> QED BY <1>4, <3>1, <3>2
  <2>15. ChannelShapes'
    BY <1>3, <1>4, <2>2, <2>6, <2>11 DEF ChannelShapes
  <2>16. LinesFit' /\ NoneRemoved' /\ CachedOfKey'
    BY <1>3, <1>4 DEF LinesFit, Ordered, NoneRemoved, There, CachedOfKey
  <2> QED BY <2>7, <2>12, <2>14, <2>15, <2>16 DEF ChannelInv
<1>7. CASE shut' = shut /\ setup' = [setup EXCEPT ![s] = [Unbegun EXCEPT !.stage = "refused"]]
  <2> DEFINE new == [Unbegun EXCEPT !.stage = "refused"]
  <2>1. new \in Progress(made, Len(shut)) /\ new.stage = "refused"
    <3>1. Unbegun = [stage |-> "idle", area |-> 0, at |-> 0, failed |-> 0, target |-> 0]
      BY DEF Unbegun
    <3>2. new = [stage |-> "refused", area |-> 0, at |-> 0, failed |-> 0, target |-> 0]
      BY <3>1
    <3>3. 0 \in 0 .. Len(shut) /\ 0 \in 0 .. Len(LogKeys) /\ 0 \in 0 .. made
      BY <1>5, LenProperties, ChannelAssumption
    <3> QED BY <3>2, <3>3 DEF Progress, SetupStages
  <2> HIDE DEF new
  <2>2. /\ setup' \in [Setups -> Progress(made, Len(shut))] /\ setup'[s] = new
        /\ \A x \in Setups \ {s} : setup'[x] = setup[x]
    <3>1. setup' = [setup EXCEPT ![s] = new]
      BY <1>7 DEF new
    <3> QED BY <1>5, <2>1, <3>1
  <2>3. Moves
    BY <1>4, <1>7 DEF Moves
  <2>4. SetupFits(s)'
    BY <2>1, <2>2 DEF SetupFits
  <2>5. \A x \in Setups : SetupFits(x)'
    <3> SUFFICES ASSUME NEW x \in Setups PROVE SetupFits(x)'
      OBVIOUS
    <3>1. CASE x # s
      BY <1>3, <2>2, <2>3, <3>1, SetupStays
    <3> QED BY <2>4, <3>1
  <2>6. EldestMade'
    BY <1>2, <1>3, <1>4, <1>7, <2>1, <2>2 DEF EldestMade
  <2>7. ChannelShapes'
    BY <1>3, <1>4, <1>7, <2>2 DEF ChannelShapes
  <2>8. LinesFit' /\ NoneRemoved' /\ CachedOfKey' /\ OpenFirst'
    BY <1>3, <1>4 DEF LinesFit, Ordered, NoneRemoved, There, CachedOfKey, OpenFirst
  <2> QED BY <2>5, <2>6, <2>7, <2>8 DEF ChannelInv
<1> QED BY <1>2, <1>6, <1>7 DEF CloseCategory

\* At the start there is what was made by hand, each channel of a key of its own.
LEMMA ChannelsBegin == ChannelInit => ChannelInv
<1> SUFFICES ASSUME ChannelInit PROVE ChannelInv
  OBVIOUS
<1>1. /\ channelCache = [k \in Keys |-> 0] /\ setup = [s \in Setups |-> Unbegun]
      /\ reports = 0 /\ sendQueue = [i \in 1 .. made |-> <<>>] /\ entries = [i \in 1 .. made |-> <<>>]
      /\ removals = 0 /\ refusals = 0
  BY DEF ChannelInit
<1>2. /\ made \in Nat /\ shut \in Seq(BOOLEAN)
      /\ \E order \in [1 .. made -> Keys] :
           /\ \A i, j \in 1 .. made : i # j => order[i] # order[j]
           /\ channels = {[id |-> i, area |-> 1, key |-> order[i], shut |-> FALSE] : i \in 1 .. made}
      /\ made # 0 => shut # <<>>
  <2>1. CASE shut = <<>> /\ made = 0 /\ channels = {}
    <3>1. 1 .. made = {}
      BY <2>1
    <3>2. [i \in 1 .. made |-> "server"] \in [1 .. made -> Keys]
      BY <3>1
    <3>3. channels = {[id |-> i, area |-> 1, key |-> [j \in 1 .. made |-> "server"][i], shut |-> FALSE] : i \in 1 .. made}
      BY <2>1, <3>1
    <3>4. shut \in Seq(BOOLEAN)
      BY <2>1, EmptySeq
    <3> QED BY <2>1, <3>1, <3>2, <3>3, <3>4
  <2>2. CASE /\ shut = <<FALSE>> /\ made = Cardinality(HandMade)
             /\ \E order \in SetToSeqs(HandMade) :
                  channels = {[id |-> i, area |-> 1, key |-> order[i], shut |-> FALSE] : i \in DOMAIN order}
    <3>1. made \in Nat /\ HandMade \subseteq Keys
      BY <2>2, FS_CardinalityType, ChannelAssumption DEF Keys
    <3>2. PICK order \in SetToSeqs(HandMade) :
            channels = {[id |-> i, area |-> 1, key |-> order[i], shut |-> FALSE] : i \in DOMAIN order}
      BY <2>2
    <3>3. order \in [1 .. made -> HandMade] /\ \A i, j \in 1 .. made : i # j => order[i] # order[j]
      BY <2>2, <3>2 DEF SetToSeqs
    <3>4. shut \in Seq(BOOLEAN) /\ shut # <<>>
      BY <2>2
    <3> QED BY <3>1, <3>2, <3>3, <3>4
  <2> QED BY <2>1, <2>2 DEF ChannelInit
<1>3. PICK order \in [1 .. made -> Keys] :
           /\ \A i, j \in 1 .. made : i # j => order[i] # order[j]
           /\ channels = {[id |-> i, area |-> 1, key |-> order[i], shut |-> FALSE] : i \in 1 .. made}
  BY <1>2
<1>4. Len(shut) \in Nat /\ (made # 0 => 1 \in 1 .. Len(shut))
  <2>1. Len(shut) \in Nat /\ (Len(shut) = 0 => shut = <<>>)
    BY <1>2, LenProperties, EmptySeq
  <2> QED BY <1>2, <2>1
<1>5. \A ch \in channels :
         /\ ch.id \in 1 .. made /\ ch.key = order[ch.id] /\ ch \in Shapes(made, Len(shut)) /\ ch.area = 1
         /\ ch = [id |-> ch.id, area |-> 1, key |-> order[ch.id], shut |-> FALSE]
  <2> SUFFICES ASSUME NEW ch \in channels
               PROVE  /\ ch.id \in 1 .. made /\ ch.key = order[ch.id] /\ ch \in Shapes(made, Len(shut)) /\ ch.area = 1
                      /\ ch = [id |-> ch.id, area |-> 1, key |-> order[ch.id], shut |-> FALSE]
    OBVIOUS
  <2>1. PICK i \in 1 .. made : ch = [id |-> i, area |-> 1, key |-> order[i], shut |-> FALSE]
    BY <1>3
  <2>2. made # 0
    BY <1>2, <2>1
  <2>3. order[i] \in Keys /\ 1 \in 1 .. Len(shut)
    BY <1>3, <1>4, <2>1, <2>2
  <2> QED BY <2>1, <2>3 DEF Shapes
<1>6. <<>> \in Seq(Reported)
  BY EmptySeq
<1>7. Unbegun \in Progress(made, Len(shut)) /\ Unbegun.stage = "idle"
  <2>1. Unbegun = [stage |-> "idle", area |-> 0, at |-> 0, failed |-> 0, target |-> 0]
    BY DEF Unbegun
  <2>2. 0 \in 0 .. Len(shut) /\ 0 \in 0 .. Len(LogKeys) /\ 0 \in 0 .. made
    BY <1>2, <1>4, LenProperties, ChannelAssumption
  <2> QED BY <2>1, <2>2 DEF Progress, SetupStages
<1>8. ChannelShapes
  <2>1. \A a, b \in channels : a.id = b.id => a = b
    BY <1>5
  <2>2. sendQueue \in [1 .. made -> Seq(Reported)] /\ entries \in [1 .. made -> Seq(Reported)]
    BY <1>1, <1>6
  <2>3. setup \in [Setups -> Progress(made, Len(shut))] /\ channelCache \in [Keys -> 0 .. made]
    BY <1>1, <1>2, <1>7
  <2> QED BY <1>1, <1>2, <1>5, <2>1, <2>2, <2>3 DEF ChannelShapes
<1>9. NoneRemoved
  <2> SUFFICES ASSUME NEW id \in 1 .. made PROVE There(id)
    BY DEF NoneRemoved
  <2>1. [id |-> id, area |-> 1, key |-> order[id], shut |-> FALSE] \in channels
    BY <1>3
  <2> QED BY <2>1 DEF There
<1>10. OpenFirst
  <2> SUFFICES ASSUME NEW a \in channels, NEW b \in channels, a.key = b.key PROVE a.id <= b.id
    BY DEF OpenFirst
  <2>1. a.id \in 1 .. made /\ b.id \in 1 .. made /\ order[a.id] = order[b.id]
    BY <1>5
  <2>2. a.id = b.id
    BY <1>3, <2>1
  <2> QED BY <1>2, <2>1, <2>2
<1>11. EldestMade /\ \A s \in Setups : SetupFits(s)
  BY <1>1, <1>7 DEF EldestMade, SetupFits
<1>12. CachedOfKey
  BY <1>1, <1>2, <1>5 DEF CachedOfKey
<1>13. LinesFit
  <2>1. \A id \in 1 .. made : DOMAIN sendQueue[id] = {} /\ DOMAIN entries[id] = {}
    BY <1>1
  <2> QED BY <1>5, <2>1 DEF LinesFit, Ordered
<1> QED BY <1>8, <1>9, <1>10, <1>11, <1>12, <1>13 DEF ChannelInv

\* What the invariant says of the log.
LEMMA ChannelsAreSound == ChannelInv => ChannelsSound
<1> SUFFICES ASSUME ChannelInv PROVE ChannelsSound
  OBVIOUS
<1>1. /\ ChannelShapes /\ LinesFit /\ NoneRemoved /\ EldestMade /\ \A x \in Setups : SetupFits(x)
  BY DEF ChannelInv
<1>2. /\ \A ch \in channels : ch.id \in 1 .. made /\ ch.area \in 1 .. Len(shut) /\ ch.key \in Keys /\ ch.id \in Nat \ {0}
      /\ DOMAIN shut = 1 .. Len(shut)
  BY <1>1, LenProperties DEF ChannelShapes, Shapes
<1>3. ChannelTypeOK
  BY <1>1, <1>2 DEF ChannelTypeOK, ChannelShapes
<1>4. ReportsInOrder
  BY <1>1, <1>2 DEF LinesFit, Ordered, ReportsInOrder
<1>5. SetupCloses
  <2> SUFFICES ASSUME NEW s \in Setups, NEW u, setup[s] = u, u.stage = "done"
               PROVE  /\ shut[u.area]
                      /\ u.failed = 0 => \A k \in Keys :
                           FindIn(channels, u.area, k) # 0 => Channel(FindIn(channels, u.area, k)).shut
    BY DEF SetupCloses
  <2>1. shut[u.area] /\ (u.failed = 0 => \A k \in Keys : KeyShut(u.area, k))
    BY <1>1 DEF SetupFits
  <2>2. ASSUME NEW k \in Keys, KeyShut(u.area, k), NEW id, id = FindIn(channels, u.area, k), id # 0
        PROVE  Channel(id).shut
    <3>1. EldestIs(channels, u.area, k, id)
      BY <1>2, <2>2, FindInIs
    <3>2. PICK ch \in channels : ch.area = u.area /\ ch.key = k /\ ch.id = id
      BY <2>2, <3>1 DEF EldestIs
    <3>3. There(id)
      BY <3>2 DEF There
    <3>4. Channel(id) \in channels /\ Channel(id).id = id
      BY <1>1, <3>3, ChannelIs
    <3>5. Channel(id) = ch
      BY <1>1, <3>2, <3>4 DEF ChannelShapes
    <3> QED BY <2>2, <3>2, <3>5 DEF KeyShut
  <2> QED BY <2>1, <2>2
<1>6. SetupServes
  <2> SUFFICES ASSUME removals = 0, NEW s \in Setups, setup[s].stage = "done",
                      \A x \in Setups : setup[x].stage # "keys" /\ setup[x].failed = 0, NEW k \in Keys
               PROVE  LookUpKey(k).key = k /\ LookUpKey(k).id # 0
    BY DEF SetupServes
  <2>1. shut # <<>>
    BY <1>1 DEF SetupFits
  <2>2. PICK w \in Setups : setup[w].stage = "done" /\ setup[w].area = 1
    BY <1>1, <2>1 DEF EldestMade
  <2>3. KeyThere(1, k)
    BY <1>1, <2>2 DEF SetupFits
  <2>4. Category = 1
    BY <2>1 DEF Category
  <2>5. FindIn(channels, Category, k) # 0
    <3>1. EldestIs(channels, Category, k, FindIn(channels, Category, k))
      BY <1>2, FindInIs
    <3> QED BY <2>3, <2>4, <3>1 DEF EldestIs, KeyThere
  <2> DEFINE own == IF channelCache[k] # 0 /\ There(channelCache[k]) THEN channelCache[k] ELSE FindIn(channels, Category, k)
  <2>6. own # 0
    BY <2>5
  <2>7. LookUpKey(k) = [id |-> own, key |-> k]
    BY <2>6 DEF LookUpKey
  <2> HIDE DEF own
  <2> QED BY <2>6, <2>7
<1> QED BY <1>3, <1>4, <1>5, <1>6 DEF ChannelsSound

\* Log channels are closed, complete and in order, for any number of keys, setups and
\* reports, however setups, reports, refusals and removals alternate.
THEOREM ChannelsHold == ChannelSpec => []ChannelsSound
<1>1. ChannelInit => ChannelInv
  BY ChannelsBegin
<1>2. ChannelInv /\ [ChannelNext]_logChannelVars => ChannelInv'
  <2> SUFFICES ASSUME ChannelInv, [ChannelNext]_logChannelVars PROVE ChannelInv'
    OBVIOUS
  <2>1. CASE Discover
    BY <2>1, DiscoverStep
  <2>2. ASSUME NEW k \in Keys, ReportEvent(k) PROVE ChannelInv'
    BY <2>2, ReportStep
  <2>3. ASSUME NEW id \in 1 .. made, SendReport(id) PROVE ChannelInv'
    BY <2>3, SendStep
  <2>4. ASSUME NEW id \in 1 .. made, RemoveChannel(id) PROVE ChannelInv'
    BY <2>4, RemoveStep
  <2>5. ASSUME NEW s \in Setups, BeginSetup(s) PROVE ChannelInv'
    BY <2>5, BeginStep
  <2>6. ASSUME NEW s \in Setups, CloseCategory(s) PROVE ChannelInv'
    BY <2>6, CloseStep
  <2>7. ASSUME NEW s \in Setups, SyncChannel(s) PROVE ChannelInv'
    BY <2>7, SyncStep
  <2>8. ASSUME NEW s \in Setups, CreateChannel(s) PROVE ChannelInv'
    BY <2>8, CreateStep
  <2>9. CASE UNCHANGED logChannelVars
    BY <2>9 DEF logChannelVars, ChannelInv, ChannelShapes, NoneRemoved, There, OpenFirst, EldestMade, SetupFits,
                KeyShut, KeyThere, CachedOfKey, LinesFit, Ordered
  <2> QED BY <2>1, <2>2, <2>3, <2>4, <2>5, <2>6, <2>7, <2>8, <2>9 DEF ChannelNext
<1>3. ChannelInv => ChannelsSound
  BY ChannelsAreSound
<1> QED BY <1>1, <1>2, <1>3, PTL DEF ChannelSpec

-----------------------------------------------------------------------------
(* The log of messages.                                                     *)

\* The members and roles a message mentions, of the mentions that are recorded.
Calls(m) == ToSet(Mentioned(m))

\* The types.
Deleters == {"gone", "raw", "bulk", "bulkraw"}
RowSet ==
  [kind : {"message_create", "message_mention", "message_edit", "message_delete"}, about : SUBSET Posts,
   deleted : BOOLEAN, call : Addressees \cup {NoMention}, recipients : SUBSET Folk]
Collected == [call : Addressees, recipients : SUBSET Folk]
WorkSet ==
  [kind : {"create", "edit"} \cup Deleters, about : SUBSET Posts, stage : {"record", "mention", "mark"},
   left : Seq(Collected)]
LogTypes ==
  /\ post \in [Posts -> {"unsent", "there", "gone"}] /\ holders \in [Titles -> SUBSET Folk]
  /\ since \in [Folk -> Nat] /\ called \in [Posts -> SUBSET Folk] /\ shifted \in [Posts -> SUBSET Folk]
  /\ goneAt \in [Posts -> Nat] /\ alone \subseteq Posts /\ missed \subseteq Posts
  /\ edits \in Nat /\ changes \in Nat /\ failures \in Nat
  /\ listeners \subseteq WorkSet /\ eventRows \in Seq(RowSet)
  /\ \A u \in Folk : since[u] <= Len(eventRows) + 1

\* Who may rightly be told of a message.
Sent(m) == m \in Posts \ HiddenPosts /\ post[m] # "unsent"
Touched(m) == called[m] \cup shifted[m]

\* The listener of a new message: everyone there when it has to do with all was called, or
\* has joined under its eyes; so it is with the holders of a role until it collects them.
CreateFits(l, m) ==
  /\ l.about = {m} /\ Sent(m) /\ l.stage \in {"record", "mention"}
  /\ \A c \in Calls(m), u \in Folk : c.kind = "everyone" /\ since[u] # 0 => u \in Touched(m)
  /\ l.stage = "record" => \A c \in Calls(m) : c.kind = "role" => holders[c.who] \subseteq Touched(m)
  /\ l.stage = "mention" =>
       /\ l.left # <<>>
       /\ \A i \in DOMAIN l.left : l.left[i].call \in Calls(m) /\ l.left[i].recipients \subseteq Touched(m)

WorkFits(l) ==
  /\ l.kind = "create" => \E m \in Posts : CreateFits(l, m)
  /\ l.kind = "edit" => (\E m \in Posts : l.about = {m}) /\ l.stage = "record"
  /\ l.kind \in Deleters => (\A m \in l.about : post[m] = "gone") /\ l.stage \in {"mark", "record"}
ListenersFit == \A l \in listeners : WorkFits(l)

\* Rows about deleted messages only are marked, and the row of a mention names nobody else.
MentionFits(row, j, m) ==
  /\ row.about = {m} /\ Sent(m) /\ row.call \in Calls(m) /\ row.recipients \subseteq Touched(m)
  /\ row.call.kind = "everyone" => \A u \in Folk : since[u] \in 1..j => u \in Touched(m)
RowFits(row, j) ==
  /\ row.deleted => \A m \in row.about : post[m] = "gone"
  /\ ~row.deleted => \E m \in Posts : row.about = {m}
  /\ row.kind = "message_delete" => row.deleted
  /\ row.kind = "message_mention" => \E m \in Posts : MentionFits(row, j, m)
RowsFit == \A j \in DOMAIN eventRows : RowFits(eventRows[j], j)

\* Whoever was called is told by a row, or by what a listener has left to do.
Reached(c, u) == IF c.kind = "everyone" THEN since[u] # 0 ELSE u \in Recipients(c)
StillToTell(e, u) == u \in e.recipients \/ (e.call.kind = "everyone" /\ since[u] # 0)
Tells(row, j, m, u) ==
  /\ row.kind = "message_mention" /\ row.about = {m}
  /\ u \in row.recipients \/ (row.call.kind = "everyone" /\ since[u] \in 1..j)
Told(m, u) == \E j \in DOMAIN eventRows : Tells(eventRows[j], j, m, u)
Claims(l, m, u) ==
  \/ l.stage = "record" /\ \E c \in Calls(m) : Reached(c, u)
  \/ l.stage = "mention" /\ \E i \in DOMAIN l.left : StillToTell(l.left[i], u)
Coming(m, u) == \E l \in listeners : l.kind = "create" /\ l.about = {m} /\ Claims(l, m, u)
CallsFit ==
  \A m \in Posts : post[m] # "unsent" =>
    /\ \A c \in Calls(m) : c.kind = "member" => c.who \in called[m]
    /\ m \notin HiddenPosts \cup missed => \A u \in called[m] \ shifted[m] : Told(m, u) \/ Coming(m, u)

\* A deletion has its row, or one listener that will write it.
NotedRows(m) == {i \in DOMAIN eventRows : eventRows[i].kind = "message_delete" /\ m \in eventRows[i].about}
Notes(l, m) ==
  l.kind \in {"gone", "raw", "bulkraw"} /\ m \in l.about /\ (l.stage = "record" \/ AfterMark(l))
Noters(m) == {l \in listeners : Notes(l, m)}
Silent(m) == m \in alone /\ m \in RememberedPosts \cap HiddenPosts
DeletionFits(m) ==
  /\ m \in alone => post[m] = "gone"
  /\ post[m] # "gone" => NotedRows(m) = {}
  /\ post[m] = "gone" /\ m \notin missed =>
       IF Silent(m) THEN NotedRows(m) = {} /\ Noters(m) = {}
       ELSE \/ NotedRows(m) = {} /\ \E l \in listeners : Noters(m) = {l}
            \/ (\E i \in DOMAIN eventRows : NotedRows(m) = {i}) /\ Noters(m) = {}
DeletionsFit == \A m \in Posts : DeletionFits(m)

\* A row that stood when its message was deleted is marked, or a listener will mark it.
ToMark(m) == \E l \in listeners : l.kind \in Deleters /\ l.stage = "mark" /\ m \in l.about
MarksFit ==
  \A m \in Posts :
    /\ goneAt[m] <= Len(eventRows)
    /\ post[m] = "gone" /\ m \notin missed =>
         \A i \in 1..goneAt[m] : m \in eventRows[i].about => eventRows[i].deleted \/ ToMark(m)

\* The inductive invariant.
LogInv == LogTypes /\ ListenersFit /\ RowsFit /\ CallsFit /\ DeletionsFit /\ MarksFit

-----------------------------------------------------------------------------
\* The rows of the log.
LEMMA RowsAre ==
  ASSUME LogTypes
  PROVE  /\ Len(eventRows) \in Nat /\ DOMAIN eventRows = 1..Len(eventRows)
         /\ \A i \in 1..Len(eventRows) : eventRows[i] \in RowSet
BY LenProperties, ElementOfSeq DEF LogTypes

\* A row is added at the end.
LEMMA RowAdded ==
  ASSUME LogTypes, NEW row \in RowSet, eventRows' = Append(eventRows, row)
  PROVE  /\ eventRows' \in Seq(RowSet) /\ Len(eventRows') = Len(eventRows) + 1
         /\ DOMAIN eventRows' = 1..(Len(eventRows) + 1)
         /\ \A i \in 1..Len(eventRows) : eventRows'[i] = eventRows[i]
         /\ eventRows'[Len(eventRows) + 1] = row
<1>1. eventRows \in Seq(RowSet)
  BY DEF LogTypes
<1>2. /\ Append(eventRows, row) \in Seq(RowSet) /\ Len(Append(eventRows, row)) = Len(eventRows) + 1
      /\ \A i \in 1..Len(eventRows) : Append(eventRows, row)[i] = eventRows[i]
      /\ Append(eventRows, row)[Len(eventRows) + 1] = row
  BY <1>1, AppendProperties
<1>3. DOMAIN Append(eventRows, row) = 1..(Len(eventRows) + 1)
  BY <1>2, LenProperties
<1> QED BY <1>2, <1>3

\* The mentions that are recorded are some of those of the message.
LEMMA MentionedAre ==
  ASSUME NEW m \in Posts
  PROVE  /\ Mentioned(m) \in Seq(Addressees) /\ Len(Mentioned(m)) \in Nat
         /\ DOMAIN Mentioned(m) = 1..Len(Mentioned(m))
<1>1. /\ Addressed[m] \in Seq(Addressees) /\ Len(Addressed[m]) \in Nat /\ MentionLimit \in Nat
      /\ \A i \in 1..Len(Addressed[m]) : Addressed[m][i] \in Addressees
  BY LogAssumption, LenProperties, ElementOfSeq
<1>2. Len(Addressed[m]) > MentionLimit => SubSeq(Addressed[m], 1, MentionLimit) \in Seq(Addressees)
  BY <1>1, SubSeqProperties
<1>3. Mentioned(m) \in Seq(Addressees)
  BY <1>1, <1>2 DEF Mentioned
<1> QED BY <1>3, LenProperties

\* What a message mentions is a member, a role or everyone.
LEMMA CallsAre ==
  ASSUME NEW m \in Posts
  PROVE  /\ Calls(m) \subseteq Addressees
         /\ \A c \in Calls(m) : /\ c.kind \in {"member", "role", "everyone"}
                                /\ c.kind = "member" => c.who \in Folk
                                /\ c.kind = "role" => c.who \in Titles
<1>1. Mentioned(m) \in Seq(Addressees)
  BY MentionedAre
<1>2. \A i \in DOMAIN Mentioned(m) : Mentioned(m)[i] \in Addressees
  BY <1>1, LenProperties, ElementOfSeq
<1>3. Calls(m) \subseteq Addressees
  BY <1>2 DEF Calls, ToSet
<1>4. \A c \in Addressees : /\ c.kind \in {"member", "role", "everyone"}
                            /\ c.kind = "member" => c.who \in Folk
                            /\ c.kind = "role" => c.who \in Titles
  BY DEF Addressees
<1> QED BY <1>3, <1>4

\* Recipients are members.
LEMMA RecipientsAre ==
  ASSUME LogTypes, NEW m \in Posts, NEW c \in Calls(m)
  PROVE  /\ Recipients(c) \subseteq Folk
         /\ c.kind = "member" => Recipients(c) = {c.who}
         /\ c.kind = "role" => Recipients(c) = holders[c.who]
         /\ c.kind = "everyone" => Recipients(c) = {}
<1>1. /\ c.kind \in {"member", "role", "everyone"}
      /\ c.kind = "member" => c.who \in Folk
      /\ c.kind = "role" => c.who \in Titles
  BY CallsAre
<1>2. CASE c.kind = "member"
  BY <1>1, <1>2 DEF Recipients
<1>3. CASE c.kind = "role"
  BY <1>1, <1>3 DEF Recipients, LogTypes
<1>4. CASE c.kind = "everyone"
  BY <1>1, <1>4 DEF Recipients
<1> QED BY <1>1, <1>2, <1>3, <1>4

\* While nothing happens at the gateway, what fits goes on to fit.
LEMMA StillFits ==
  ASSUME Still
  PROVE  /\ \A l \in WorkSet : WorkFits(l)' <=> WorkFits(l)
         /\ \A row \in RowSet, j \in Nat : RowFits(row, j)' <=> RowFits(row, j)
         /\ \A l \in WorkSet, m \in Posts, u \in Folk : Claims(l, m, u)' <=> Claims(l, m, u)
         /\ \A row \in RowSet, j \in Nat, m \in Posts, u \in Folk : Tells(row, j, m, u)' <=> Tells(row, j, m, u)
<1>0. UNCHANGED <<post, holders, since, called, shifted>>
  BY DEF Still
<1>1. \A l \in WorkSet : WorkFits(l)' <=> WorkFits(l)
  <2>1. \A l \in WorkSet, m \in Posts : CreateFits(l, m)' <=> CreateFits(l, m)
    BY <1>0 DEF CreateFits, Sent, Touched
  <2> QED BY <1>0, <2>1 DEF WorkFits
<1>2. \A row \in RowSet, j \in Nat : RowFits(row, j)' <=> RowFits(row, j)
  <2>1. \A row \in RowSet, j \in Nat, m \in Posts : MentionFits(row, j, m)' <=> MentionFits(row, j, m)
    BY <1>0 DEF MentionFits, Sent, Touched
  <2> QED BY <1>0, <2>1 DEF RowFits
<1>3. \A l \in WorkSet, m \in Posts, u \in Folk : Claims(l, m, u)' <=> Claims(l, m, u)
  BY <1>0 DEF Claims, Reached, Recipients, StillToTell
<1>4. \A row \in RowSet, j \in Nat, m \in Posts, u \in Folk : Tells(row, j, m, u)' <=> Tells(row, j, m, u)
  BY <1>0 DEF Tells
<1> QED BY <1>1, <1>2, <1>3, <1>4

\* A step of a listener that fails is held against what it was about.
LEMMA FailStep ==
  ASSUME LogInv, NEW l \in listeners, NEW new \in SUBSET WorkSet, Still, Fails(l, new),
         \A x \in new : x.about = l.about /\ WorkFits(x)
  PROVE  LogInv'
<1> USE DEF LogInv
<1>0. /\ UNCHANGED <<post, holders, since, called, shifted, goneAt, alone, edits, changes, eventRows>>
      /\ failures' = failures + 1 /\ missed' = missed \cup l.about /\ listeners' = (listeners \ {l}) \cup new
  BY DEF Still, Fails, Becomes
<1>1. l \in WorkSet /\ l.about \subseteq Posts
  BY DEF LogTypes, WorkSet
<1>2. LogTypes'
  BY <1>0, <1>1 DEF LogTypes
<1>3. ListenersFit'
  <2>1. \A x \in listeners' : x \in WorkSet /\ WorkFits(x)
    BY <1>0 DEF ListenersFit, LogTypes
  <2> QED BY <2>1, StillFits DEF ListenersFit
<1>4. RowsFit'
  BY <1>0, StillFits, RowsAre DEF RowsFit
<1>5. CallsFit'
  <2>1. ASSUME NEW m \in Posts, post'[m] # "unsent"
        PROVE  \A c \in Calls(m) : c.kind = "member" => c.who \in called'[m]
    BY <1>0, <2>1 DEF CallsFit
  <2>2. ASSUME NEW m \in Posts, post'[m] # "unsent", m \notin HiddenPosts \cup missed',
               NEW u \in called'[m] \ shifted'[m]
        PROVE  Told(m, u)' \/ Coming(m, u)'
    <3>1. m \notin l.about /\ u \in Folk /\ (Told(m, u) \/ Coming(m, u))
      BY <1>0, <2>2 DEF CallsFit, LogTypes
    <3>2. CASE Told(m, u)
      <4>1. PICK j \in DOMAIN eventRows : Tells(eventRows[j], j, m, u)
        BY <3>2 DEF Told
      <4>2. PICK r \in RowSet : r = eventRows[j] /\ j \in Nat
        BY <4>1, RowsAre
      <4>3. Tells(r, j, m, u)'
        BY <3>1, <4>1, <4>2, StillFits
      <4>4. j \in DOMAIN eventRows' /\ eventRows'[j] = r
        BY <1>0, <4>1, <4>2
      <4> QED BY <4>3, <4>4 DEF Told, Tells
    <3>3. CASE Coming(m, u)
      <4>1. PICK x \in listeners : x.kind = "create" /\ x.about = {m} /\ Claims(x, m, u)
        BY <3>3 DEF Coming
      <4>2. x \in listeners' /\ x \in WorkSet
        BY <1>0, <3>1, <4>1 DEF LogTypes
      <4>3. Claims(x, m, u)'
        BY <3>1, <4>1, <4>2, StillFits
      <4> QED BY <4>1, <4>2, <4>3 DEF Coming
    <3> QED BY <3>1, <3>2, <3>3
  <2> QED BY <2>1, <2>2 DEF CallsFit
<1>6. DeletionsFit'
  <2> SUFFICES ASSUME NEW m \in Posts PROVE DeletionFits(m)'
    BY DEF DeletionsFit
  <2>1. NotedRows(m)' = NotedRows(m)
    BY <1>0 DEF NotedRows
  <2>2. m \notin missed' => Noters(m)' = Noters(m)
    BY <1>0 DEF Noters, Notes
  <2>3. m \notin missed' => \A x \in Noters(m) : x \in listeners'
    BY <2>2 DEF Noters
  <2>4. DeletionFits(m)
    BY DEF DeletionsFit
  <2> QED BY <1>0, <2>1, <2>2, <2>3, <2>4 DEF DeletionFits, Silent
<1>7. MarksFit'
  <2>1. \A m \in Posts : m \notin missed' /\ ToMark(m) => ToMark(m)'
    BY <1>0 DEF ToMark
  <2> QED BY <1>0, <2>1 DEF MarksFit
<1> QED BY <1>2, <1>3, <1>4, <1>5, <1>6, <1>7

\* A step that adds a row says whom the row tells, and which deletion it notes.
LEMMA AddStep ==
  ASSUME LogInv, NEW l \in listeners, NEW new \in SUBSET WorkSet, NEW row \in RowSet,
         Still, eventRows' = Append(eventRows, row), Succeeds(l, new),
         l.stage # "mark", RowFits(row, Len(eventRows) + 1),
         \A x \in new : WorkFits(x),
         \A m \in Posts, u \in Folk :
           l.kind = "create" /\ l.about = {m} /\ Claims(l, m, u) =>
             \/ Tells(row, Len(eventRows) + 1, m, u)
             \/ \E x \in new : x.kind = "create" /\ x.about = {m} /\ Claims(x, m, u),
         \/ row.kind # "message_delete" /\ l.kind \in {"create", "edit"} /\ \A x \in new : x.kind \in {"create", "edit"}
         \/ row.kind = "message_delete" /\ row.about = l.about /\ new = {} /\ \A m \in l.about : Notes(l, m)
  PROVE  LogInv'
<1> USE DEF LogInv
<1>0. /\ UNCHANGED <<post, holders, since, called, shifted, goneAt, alone, edits, changes, missed, failures>>
      /\ listeners' = (listeners \ {l}) \cup new
  BY DEF Still, Succeeds, Becomes
<1> DEFINE n == Len(eventRows) + 1
<1>1. /\ eventRows' \in Seq(RowSet) /\ Len(eventRows') = n /\ DOMAIN eventRows' = 1..n
      /\ \A i \in 1..Len(eventRows) : eventRows'[i] = eventRows[i]
      /\ eventRows'[n] = row
  BY RowAdded
<1>2. /\ Len(eventRows) \in Nat /\ DOMAIN eventRows = 1..Len(eventRows)
      /\ \A i \in 1..Len(eventRows) : eventRows[i] \in RowSet
  BY RowsAre
<1>3. n \in Nat /\ 1..n = (1..Len(eventRows)) \cup {n} /\ n \notin 1..Len(eventRows)
  BY <1>2
<1>4. l \in WorkSet
  BY DEF LogTypes
<1>5. LogTypes'
  <2>1. \A u \in Folk : since'[u] <= Len(eventRows') + 1
    BY <1>0, <1>1, <1>2 DEF LogTypes
  <2> QED BY <1>0, <1>1, <2>1 DEF LogTypes
<1>6. ListenersFit'
  <2>1. \A x \in listeners' : x \in WorkSet /\ WorkFits(x)
    BY <1>0 DEF ListenersFit, LogTypes
  <2> QED BY <2>1, StillFits DEF ListenersFit
<1> HIDE DEF n
<1>7. RowsFit'
  <2> SUFFICES ASSUME NEW j \in DOMAIN eventRows' PROVE RowFits(eventRows[j], j)'
    BY DEF RowsFit
  <2>1. j \in Nat /\ (j \in 1..Len(eventRows) \/ j = n)
    BY <1>1, <1>3
  <2>2. PICK r \in RowSet : r = eventRows'[j] /\ RowFits(r, j)
    <3>1. CASE j \in 1..Len(eventRows)
      BY <1>1, <1>2, <3>1 DEF RowsFit
    <3>2. CASE j = n
      BY <1>1, <3>2 DEF n
    <3> QED BY <2>1, <3>1, <3>2
  <2>3. RowFits(r, j)'
    BY <2>1, <2>2, StillFits
  <2> QED BY <2>2, <2>3 DEF RowFits, MentionFits
<1>8. CallsFit'
  <2>1. ASSUME NEW m \in Posts, post'[m] # "unsent"
        PROVE  \A c \in Calls(m) : c.kind = "member" => c.who \in called'[m]
    BY <1>0, <2>1 DEF CallsFit
  <2>2. ASSUME NEW m \in Posts, post'[m] # "unsent", m \notin HiddenPosts \cup missed',
               NEW u \in called'[m] \ shifted'[m]
        PROVE  Told(m, u)' \/ Coming(m, u)'
    <3>1. u \in Folk /\ (Told(m, u) \/ Coming(m, u))
      BY <1>0, <2>2 DEF CallsFit, LogTypes
    <3>2. CASE Told(m, u)
      <4>1. PICK j \in 1..Len(eventRows) : Tells(eventRows[j], j, m, u)
        BY <1>2, <3>2 DEF Told
      <4>2. PICK r \in RowSet : r = eventRows[j] /\ j \in Nat
        BY <1>2
      <4>3. Tells(r, j, m, u)'
        BY <3>1, <4>1, <4>2, StillFits
      <4>4. j \in DOMAIN eventRows' /\ eventRows'[j] = r
        BY <1>1, <1>3, <4>2
      <4> QED BY <4>3, <4>4 DEF Told, Tells
    <3>3. CASE Coming(m, u)
      <4>1. PICK x \in listeners : x.kind = "create" /\ x.about = {m} /\ Claims(x, m, u)
        BY <3>3 DEF Coming
      <4>2. CASE x # l
        <5>1. x \in listeners' /\ x \in WorkSet
          BY <1>0, <4>1, <4>2 DEF LogTypes
        <5>2. Claims(x, m, u)'
          BY <3>1, <4>1, <5>1, StillFits
        <5> QED BY <4>1, <5>1, <5>2 DEF Coming
      <4>3. CASE x = l
        <5>1. \/ Tells(row, n, m, u)
              \/ \E y \in new : y.kind = "create" /\ y.about = {m} /\ Claims(y, m, u)
          BY <3>1, <4>1, <4>3 DEF n
        <5>2. CASE Tells(row, n, m, u)
          <6>1. PICK j \in Nat : j = n
            BY <1>3
          <6>2. Tells(row, j, m, u)'
            BY <3>1, <5>2, <6>1, StillFits
          <6>3. j \in DOMAIN eventRows' /\ eventRows'[j] = row
            BY <1>1, <1>3, <6>1
          <6> QED BY <6>2, <6>3 DEF Told, Tells
        <5>3. CASE \E y \in new : y.kind = "create" /\ y.about = {m} /\ Claims(y, m, u)
          <6>1. PICK y \in new : y.kind = "create" /\ y.about = {m} /\ Claims(y, m, u)
            BY <5>3
          <6>2. Claims(y, m, u)'
            BY <3>1, <6>1, StillFits
          <6> QED BY <1>0, <6>1, <6>2 DEF Coming
        <5> QED BY <5>1, <5>2, <5>3
      <4> QED BY <4>2, <4>3
    <3> QED BY <3>1, <3>2, <3>3
  <2> QED BY <2>1, <2>2 DEF CallsFit
<1>9. DeletionsFit'
  <2> SUFFICES ASSUME NEW m \in Posts PROVE DeletionFits(m)'
    BY DEF DeletionsFit
  <2>1. DeletionFits(m)
    BY DEF DeletionsFit
  <2>2. NotedRows(m)' = NotedRows(m) \cup (IF row.kind = "message_delete" /\ m \in row.about THEN {n} ELSE {})
    BY <1>1, <1>2, <1>3 DEF NotedRows
  <2>3. NotedRows(m) \subseteq 1..Len(eventRows)
    BY <1>2 DEF NotedRows
  <2>4. CASE ~(row.kind = "message_delete" /\ m \in row.about)
    <3>1. NotedRows(m)' = NotedRows(m)
      BY <2>2, <2>4
    <3>2. Noters(m)' = Noters(m)
      <4>1. ~Notes(l, m) /\ \A x \in new : ~Notes(x, m)
        BY <2>4 DEF Notes
      <4> QED BY <1>0, <4>1 DEF Noters
    <3>3. Noters(m)' \subseteq listeners'
      BY DEF Noters
    <3> QED BY <1>0, <1>1, <1>2, <1>3, <2>1, <3>1, <3>2, <3>3 DEF DeletionFits, Silent
  <2>5. CASE row.kind = "message_delete" /\ m \in row.about
    <3>1. l \in Noters(m) /\ new = {} /\ row.about = l.about
      BY <2>5 DEF Noters
    <3>2. post[m] = "gone"
      BY <2>5, <3>1 DEF ListenersFit, WorkFits, Noters, Notes, Deleters
    <3>3. ASSUME m \notin missed PROVE NotedRows(m) = {} /\ Noters(m) = {l} /\ ~Silent(m)
      BY <2>1, <3>1, <3>2, <3>3 DEF DeletionFits
    <3>4. ASSUME m \notin missed PROVE NotedRows(m)' = {n} /\ Noters(m)' = {}
      <4>1. NotedRows(m)' = {n}
        BY <2>2, <2>5, <3>3, <3>4
      <4>2. Noters(m)' = Noters(m) \ {l}
        BY <1>0, <3>1 DEF Noters
      <4> QED BY <3>3, <3>4, <4>1, <4>2
    <3>5. n \in DOMAIN eventRows'
      BY <1>1, <1>3
    <3> QED BY <1>0, <2>1, <3>2, <3>3, <3>4, <3>5 DEF DeletionFits, Silent
  <2> QED BY <2>4, <2>5
<1>10. MarksFit'
  <2>1. \A m \in Posts : ToMark(m) => ToMark(m)'
    BY <1>0 DEF ToMark
  <2>2. ASSUME NEW m \in Posts
        PROVE  /\ goneAt'[m] <= Len(eventRows')
               /\ post'[m] = "gone" /\ m \notin missed' =>
                    \A i \in 1..goneAt'[m] : m \in eventRows'[i].about => eventRows'[i].deleted \/ ToMark(m)'
    <3>1. goneAt[m] <= Len(eventRows) /\ goneAt[m] \in Nat
      BY DEF MarksFit, LogTypes
    <3>2. goneAt'[m] <= Len(eventRows')
      BY <1>0, <1>1, <1>2, <3>1 DEF n
    <3>3. \A i \in 1..goneAt[m] : eventRows'[i] = eventRows[i]
      BY <1>1, <1>2, <3>1
    <3> QED BY <1>0, <2>1, <3>2, <3>3 DEF MarksFit
  <2> QED BY <2>2 DEF MarksFit
<1> QED BY <1>5, <1>6, <1>7, <1>8, <1>9, <1>10

\* The rows of some messages are marked; nothing else of them changes.
LEMMA RowsMarked ==
  ASSUME LogTypes, NEW about, eventRows' = Marked(about)
  PROVE  /\ eventRows' \in Seq(RowSet) /\ Len(eventRows') = Len(eventRows)
         /\ DOMAIN eventRows' = DOMAIN eventRows
         /\ \A i \in DOMAIN eventRows :
              /\ eventRows'[i].kind = eventRows[i].kind /\ eventRows'[i].about = eventRows[i].about
              /\ eventRows'[i].call = eventRows[i].call
              /\ eventRows'[i].recipients = eventRows[i].recipients
              /\ eventRows'[i].deleted <=> eventRows[i].deleted \/ \E m \in about : eventRows[i].about = {m}
<1>1. /\ Len(eventRows) \in Nat /\ DOMAIN eventRows = 1..Len(eventRows)
      /\ \A i \in 1..Len(eventRows) : eventRows[i] \in RowSet
  BY RowsAre
<1>2. ASSUME NEW i \in DOMAIN eventRows
      PROVE  /\ eventRows'[i] \in RowSet
             /\ eventRows'[i].kind = eventRows[i].kind /\ eventRows'[i].about = eventRows[i].about
             /\ eventRows'[i].call = eventRows[i].call
             /\ eventRows'[i].recipients = eventRows[i].recipients
             /\ eventRows'[i].deleted <=> eventRows[i].deleted \/ \E m \in about : eventRows[i].about = {m}
  <2>1. eventRows[i] \in RowSet
    BY <1>1
  <2>2. CASE eventRows[i].about \in {{m} : m \in about}
    <3>1. eventRows'[i] = [eventRows[i] EXCEPT !.deleted = TRUE]
      BY <2>2 DEF Marked
    <3> QED BY <2>1, <2>2, <3>1 DEF RowSet
  <2>3. CASE eventRows[i].about \notin {{m} : m \in about}
    <3>1. eventRows'[i] = eventRows[i]
      BY <2>3 DEF Marked
    <3> QED BY <2>1, <2>3, <3>1
  <2> QED BY <2>2, <2>3
<1>3. DOMAIN eventRows' = DOMAIN eventRows /\ eventRows' \in [1..Len(eventRows) -> RowSet]
  BY <1>1, <1>2 DEF Marked
<1>4. eventRows' \in Seq(RowSet)
  BY <1>1, <1>3, SeqDef
<1>5. Len(eventRows') = Len(eventRows)
  BY <1>1, <1>3, <1>4, LenProperties
<1> QED BY <1>2, <1>3, <1>4, <1>5

\* A listener of a deletion marks the rows, and goes on when the row is its to write.
LEMMA MarkStep ==
  ASSUME LogInv, NEW l \in listeners, Mark(l)
  PROVE  LogInv'
<1> USE DEF LogInv
<1>1. l \in WorkSet /\ l.stage = "mark" /\ l.kind \in Deleters /\ WorkFits(l)
  <2>1. WorkFits(l) /\ l \in WorkSet /\ l.stage = "mark"
    BY DEF ListenersFit, LogTypes, Mark
  <2> QED BY <2>1 DEF WorkFits, CreateFits, WorkSet
<1>2. PICK x \in WorkSet : x = [l EXCEPT !.stage = "record"]
  BY <1>1 DEF WorkSet
<1>3. x.kind = l.kind /\ x.about = l.about /\ x.stage = "record" /\ WorkFits(x)
  BY <1>1, <1>2 DEF WorkFits, WorkSet, Deleters
<1> DEFINE next == IF AfterMark(l) THEN {x} ELSE {}
<1>4. Still
  BY DEF Mark
<1>5. CASE \E new \in {next, {}} : Fails(l, new)
  <2>1. PICK new \in SUBSET WorkSet : Fails(l, new) /\ new \subseteq {x}
    BY <1>2, <1>5
  <2> QED BY <1>3, <1>4, <2>1, FailStep
<1>6. CASE eventRows' = Marked(l.about) /\ Succeeds(l, next)
  <2>0. /\ UNCHANGED <<post, holders, since, called, shifted, goneAt, alone, edits, changes, missed, failures>>
        /\ listeners' = (listeners \ {l}) \cup next
    BY <1>4, <1>6 DEF Still, Succeeds, Becomes
  <2>1. /\ eventRows' \in Seq(RowSet) /\ Len(eventRows') = Len(eventRows)
        /\ DOMAIN eventRows' = DOMAIN eventRows
        /\ \A i \in DOMAIN eventRows :
             /\ eventRows'[i].kind = eventRows[i].kind /\ eventRows'[i].about = eventRows[i].about
             /\ eventRows'[i].call = eventRows[i].call
             /\ eventRows'[i].recipients = eventRows[i].recipients
             /\ eventRows'[i].deleted <=> eventRows[i].deleted \/ \E m \in l.about : eventRows[i].about = {m}
    BY <1>6, RowsMarked
  <2>2. next \subseteq {x}
    OBVIOUS
  <2>3. LogTypes'
    BY <1>2, <2>0, <2>1, <2>2 DEF LogTypes
  <2>4. ListenersFit'
    <3>1. \A y \in listeners' : y \in WorkSet /\ WorkFits(y)
      BY <1>2, <1>3, <2>0, <2>2 DEF ListenersFit, LogTypes
    <3> QED BY <1>4, <3>1, StillFits DEF ListenersFit
  <2>5. RowsFit'
    <3> SUFFICES ASSUME NEW j \in DOMAIN eventRows' PROVE RowFits(eventRows[j], j)'
      BY DEF RowsFit
    <3>1. RowFits(eventRows[j], j)
      BY <2>1 DEF RowsFit
    <3>2. UNCHANGED <<post, since, called, shifted>>
      BY <2>0
    <3>3. \A m \in Posts : MentionFits(eventRows[j], j, m) => MentionFits(eventRows[j], j, m)'
      BY <2>1, <3>2 DEF MentionFits, Sent, Touched
    <3>4. (\E m \in l.about : eventRows[j].about = {m}) => \A m \in eventRows[j].about : post[m] = "gone"
      BY <1>1 DEF WorkFits
    <3> QED BY <2>1, <3>1, <3>2, <3>3, <3>4 DEF RowFits
  <2>6. CallsFit'
    <3>1. ASSUME NEW m \in Posts, NEW u \in Folk, Told(m, u) PROVE Told(m, u)'
      <4>1. PICK j \in DOMAIN eventRows : Tells(eventRows[j], j, m, u)
        BY <3>1 DEF Told
      <4> QED BY <2>0, <2>1, <4>1 DEF Told, Tells
    <3>2. ASSUME NEW m \in Posts, NEW u \in Folk, Coming(m, u) PROVE Coming(m, u)'
      <4>1. PICK y \in listeners : y.kind = "create" /\ y.about = {m} /\ Claims(y, m, u)
        BY <3>2 DEF Coming
      <4>2. y \in listeners' /\ y \in WorkSet
        BY <1>1, <2>0, <4>1 DEF LogTypes, Deleters
      <4>3. Claims(y, m, u)'
        BY <1>4, <4>1, <4>2, StillFits
      <4> QED BY <4>1, <4>2, <4>3 DEF Coming
    <3>3. called \in [Posts -> SUBSET Folk]
      BY DEF LogTypes
    <3> QED BY <2>0, <3>1, <3>2, <3>3 DEF CallsFit
  <2>7. DeletionsFit'
    <3> SUFFICES ASSUME NEW m \in Posts PROVE DeletionFits(m)'
      BY DEF DeletionsFit
    <3>1. DeletionFits(m)
      BY DEF DeletionsFit
    <3>2. NotedRows(m)' = NotedRows(m)
      BY <2>1 DEF NotedRows
    <3>3. Noters(m)' = IF Notes(l, m) THEN (Noters(m) \ {l}) \cup {x} ELSE Noters(m)
      <4>1. Notes(l, m) => AfterMark(l) /\ Notes(x, m)
        BY <1>1, <1>3 DEF Notes
      <4>2. AfterMark(l) /\ Notes(x, m) => Notes(l, m)
        BY <1>3 DEF Notes
      <4> QED BY <2>0, <4>1, <4>2 DEF Noters
    <3>4. Notes(l, m) => l \in Noters(m) /\ x \in listeners'
      <4>1. Notes(l, m) => AfterMark(l)
        BY <1>1 DEF Notes
      <4> QED BY <2>0, <4>1 DEF Noters
    <3>5. Noters(m)' \subseteq listeners'
      BY DEF Noters
    <3>6. CASE Notes(l, m)
      BY <2>0, <2>1, <3>1, <3>2, <3>3, <3>4, <3>6 DEF DeletionFits, Silent
    <3>7. CASE ~Notes(l, m)
      BY <2>0, <2>1, <3>1, <3>2, <3>3, <3>5, <3>7 DEF DeletionFits, Silent
    <3> QED BY <3>6, <3>7
  <2>8. MarksFit'
    <3> SUFFICES ASSUME NEW m \in Posts
                 PROVE  /\ goneAt'[m] <= Len(eventRows')
                        /\ post'[m] = "gone" /\ m \notin missed' =>
                             \A i \in 1..goneAt'[m] : m \in eventRows'[i].about => eventRows'[i].deleted \/ ToMark(m)'
      BY DEF MarksFit
    <3>1. goneAt[m] <= Len(eventRows) /\ goneAt[m] \in Nat /\ Len(eventRows) \in Nat
          /\ DOMAIN eventRows = 1..Len(eventRows)
      BY RowsAre DEF MarksFit, LogTypes
    <3>2. ASSUME post[m] = "gone", m \notin missed, NEW i \in 1..goneAt[m], m \in eventRows[i].about
          PROVE  eventRows'[i].deleted \/ ToMark(m)'
      <4>1. i \in DOMAIN eventRows
        BY <3>1
      <4>2. eventRows[i].deleted \/ ToMark(m)
        BY <3>2 DEF MarksFit
      <4>3. CASE eventRows[i].deleted
        BY <2>1, <4>1, <4>3
      <4>4. CASE ToMark(m) /\ ~eventRows[i].deleted
        <5>1. PICK y \in listeners : y.kind \in Deleters /\ y.stage = "mark" /\ m \in y.about
          BY <4>4 DEF ToMark
        <5>2. CASE y = l
          <6>1. eventRows[i].about = {m}
            BY <3>2, <4>1, <4>4 DEF RowsFit, RowFits
          <6> QED BY <2>1, <4>1, <5>1, <5>2, <6>1
        <5>3. CASE y # l
          BY <2>0, <5>1, <5>3 DEF ToMark
        <5> QED BY <5>2, <5>3
      <4> QED BY <4>2, <4>3, <4>4
    <3>3. \A i \in 1..goneAt[m] : eventRows'[i].about = eventRows[i].about
      BY <2>1, <3>1
    <3> QED BY <2>0, <2>1, <3>1, <3>2, <3>3
  <2> QED BY <2>3, <2>4, <2>5, <2>6, <2>7, <2>8
<1> QED BY <1>2, <1>5, <1>6 DEF Mark

\* The row of a deletion.
LEMMA RecordDeleteStep ==
  ASSUME LogInv, NEW l \in listeners, RecordDelete(l)
  PROVE  LogInv'
<1> USE DEF LogInv
<1>1. l \in WorkSet /\ WorkFits(l) /\ l.kind \in {"gone", "raw", "bulkraw"} /\ l.stage = "record" /\ Still
  BY DEF ListenersFit, LogTypes, RecordDelete
<1>2. CASE Fails(l, {})
  BY <1>1, <1>2, FailStep
<1>3. CASE AddEvent("message_delete", l.about, TRUE, NoMention, {}) /\ Succeeds(l, {})
  <2>1. PICK row \in RowSet : row = LogRow("message_delete", l.about, TRUE, NoMention, {})
    BY <1>1 DEF LogRow, RowSet, WorkSet
  <2>2. row.kind = "message_delete" /\ row.about = l.about /\ row.deleted
    BY <2>1 DEF LogRow
  <2>3. RowFits(row, Len(eventRows) + 1)
    BY <1>1, <2>2 DEF RowFits, WorkFits, Deleters
  <2>4. \A m \in l.about : Notes(l, m)
    BY <1>1 DEF Notes
  <2>5. eventRows' = Append(eventRows, row) /\ Succeeds(l, {})
    BY <1>3, <2>1 DEF AddEvent
  <2> QED BY <1>1, <2>2, <2>3, <2>4, <2>5, AddStep
<1> QED BY <1>2, <1>3 DEF RecordDelete

\* The row of an edit.
LEMMA RecordEditStep ==
  ASSUME LogInv, NEW l \in listeners, RecordEdit(l)
  PROVE  LogInv'
<1> USE DEF LogInv
<1>1. l \in WorkSet /\ WorkFits(l) /\ l.kind = "edit" /\ Still
  BY DEF ListenersFit, LogTypes, RecordEdit
<1>2. CASE Fails(l, {})
  BY <1>1, <1>2, FailStep
<1>3. CASE AddEvent("message_edit", l.about, FALSE, NoMention, {}) /\ Succeeds(l, {})
  <2>1. PICK row \in RowSet : row = LogRow("message_edit", l.about, FALSE, NoMention, {})
    BY <1>1 DEF LogRow, RowSet, WorkSet
  <2>2. row.kind = "message_edit" /\ row.about = l.about /\ ~row.deleted
    BY <2>1 DEF LogRow
  <2>3. RowFits(row, Len(eventRows) + 1) /\ l.stage # "mark"
    BY <1>1, <2>2 DEF RowFits, WorkFits
  <2>4. eventRows' = Append(eventRows, row) /\ Succeeds(l, {})
    BY <1>3, <2>1 DEF AddEvent
  <2> QED BY <1>1, <2>2, <2>3, <2>4, AddStep
<1> QED BY <1>2, <1>3 DEF RecordEdit

\* The row of a mention; the listener goes on with those that are left.
LEMMA RecordMentionStep ==
  ASSUME LogInv, NEW l \in listeners, RecordMention(l)
  PROVE  LogInv'
<1> USE DEF LogInv
<1>1. l \in WorkSet /\ WorkFits(l) /\ l.kind = "create" /\ l.stage = "mention" /\ Still
  BY DEF ListenersFit, LogTypes, RecordMention
<1>2. PICK m \in Posts : CreateFits(l, m)
  BY <1>1 DEF WorkFits
<1>3. CASE Fails(l, {})
  BY <1>1, <1>3, FailStep
<1> DEFINE rest == IF Len(l.left) = 1 THEN {} ELSE {[l EXCEPT !.left = Tail(@)]}
<1>4. CASE /\ AddEvent("message_mention", l.about, FALSE, Head(l.left).call, Head(l.left).recipients)
           /\ Succeeds(l, rest)
  <2>1. PICK left \in Seq(Collected) : left = l.left
    BY <1>1 DEF WorkSet
  <2>2. left # <<>> /\ l.about = {m} /\ Sent(m)
        /\ \A i \in DOMAIN left : left[i].call \in Calls(m) /\ left[i].recipients \subseteq Touched(m)
    BY <1>1, <1>2, <2>1 DEF CreateFits
  <2>3. Len(left) \in Nat /\ DOMAIN left = 1..Len(left) /\ Len(left) >= 1
    <3>1. Len(left) \in Nat /\ DOMAIN left = 1..Len(left)
      BY LenProperties
    <3>2. Len(left) # 0
      BY <2>2, EmptySeq
    <3> QED BY <3>1, <3>2
  <2>4. Head(left) = left[1] /\ Tail(left) \in Seq(Collected) /\ Len(Tail(left)) = Len(left) - 1
        /\ \A i \in 1..Len(Tail(left)) : Tail(left)[i] = left[i + 1]
    BY <2>2, <2>3, HeadTailProperties
  <2>5. PICK h \in Collected : h = left[1]
    BY <2>3, ElementOfSeq
  <2>6. h.call \in Calls(m) /\ h.recipients \subseteq Touched(m) /\ h = Head(l.left)
    BY <2>1, <2>2, <2>3, <2>4, <2>5
  <2>7. PICK row \in RowSet : row = LogRow("message_mention", {m}, FALSE, h.call, h.recipients)
    BY <2>5 DEF LogRow, RowSet, Collected
  <2>8. row.kind = "message_mention" /\ row.about = {m} /\ ~row.deleted
        /\ row.call = h.call /\ row.recipients = h.recipients
    BY <2>7 DEF LogRow
  <2>9. eventRows' = Append(eventRows, row) /\ Succeeds(l, rest)
    BY <1>4, <2>2, <2>6, <2>7 DEF AddEvent
  <2>10. PICK n \in Nat : n = Len(eventRows) + 1
    BY RowsAre
  <2>11. RowFits(row, n)
    <3>1. row.call.kind = "everyone" => \A u \in Folk : since[u] \in 1..n => u \in Touched(m)
      BY <1>2, <2>6, <2>8 DEF CreateFits
    <3>2. MentionFits(row, n, m)
      BY <2>2, <2>6, <2>8, <3>1 DEF MentionFits
    <3> QED BY <2>8, <3>2 DEF RowFits
  <2>12. \A u \in Folk : since[u] \in 0..n
    BY <2>10, RowsAre DEF LogTypes
  <2>13. CASE Len(left) = 1
    <3>1. rest = {}
      BY <2>1, <2>13
    <3>2. \A p \in Posts, u \in Folk :
            l.kind = "create" /\ l.about = {p} /\ Claims(l, p, u) => Tells(row, n, p, u)
      <4>1. ASSUME NEW u \in Folk, Claims(l, m, u) PROVE Tells(row, n, m, u)
        <5>1. StillToTell(h, u)
          BY <1>1, <2>1, <2>3, <2>5, <2>13, <4>1 DEF Claims
        <5> QED BY <2>8, <2>12, <5>1 DEF StillToTell, Tells
      <4> QED BY <2>2, <4>1
    <3>3. Succeeds(l, {})
      BY <2>9, <3>1
    <3> QED BY <1>1, <2>8, <2>9, <2>10, <2>11, <3>2, <3>3, AddStep
  <2>14. CASE Len(left) # 1
    <3>1. PICK x \in WorkSet : x = [l EXCEPT !.left = Tail(l.left)]
      BY <1>1, <2>1, <2>4 DEF WorkSet
    <3>2. x.kind = "create" /\ x.about = {m} /\ x.stage = "mention" /\ x.left = Tail(left)
      BY <1>1, <2>1, <2>2, <3>1 DEF WorkSet
    <3>3. rest = {x}
      BY <2>1, <2>14, <3>1
    <3>4. Len(Tail(left)) \in Nat /\ Tail(left) # <<>> /\ DOMAIN Tail(left) = 1..(Len(left) - 1)
      <4>1. Len(Tail(left)) # 0
        BY <2>3, <2>4, <2>14
      <4>2. Tail(left) # <<>>
        BY <2>4, <4>1, EmptySeq
      <4> QED BY <2>3, <2>4, <2>14, <4>2, LenProperties
    <3>5. \A i \in 1..(Len(left) - 1) : Tail(left)[i] = left[i + 1] /\ i + 1 \in 1..Len(left)
      BY <2>3, <2>4, <2>14
    <3>6. CreateFits(x, m)
      <4>1. \A i \in DOMAIN x.left : x.left[i].call \in Calls(m) /\ x.left[i].recipients \subseteq Touched(m)
        BY <2>2, <2>3, <3>2, <3>4, <3>5
      <4> QED BY <1>2, <3>2, <3>4, <4>1 DEF CreateFits
    <3>7. WorkFits(x)
      BY <3>2, <3>6 DEF WorkFits, Deleters
    <3>8. \A p \in Posts, u \in Folk :
            l.kind = "create" /\ l.about = {p} /\ Claims(l, p, u) =>
              \/ Tells(row, n, p, u)
              \/ \E y \in {x} : y.kind = "create" /\ y.about = {p} /\ Claims(y, p, u)
      <4>1. ASSUME NEW u \in Folk, Claims(l, m, u) PROVE Tells(row, n, m, u) \/ Claims(x, m, u)
        <5>1. PICK i \in 1..Len(left) : StillToTell(left[i], u)
          BY <1>1, <2>1, <2>3, <4>1 DEF Claims
        <5>2. CASE i = 1
          BY <2>5, <2>8, <2>12, <5>1, <5>2 DEF StillToTell, Tells
        <5>3. CASE i # 1
          <6>1. i - 1 \in 1..(Len(left) - 1) /\ (i - 1) + 1 = i
            BY <2>3, <5>3
          <6>2. Tail(left)[i - 1] = left[i]
            BY <3>5, <6>1
          <6> QED BY <3>2, <3>4, <5>1, <6>1, <6>2 DEF Claims
        <5> QED BY <5>2, <5>3
      <4> QED BY <2>2, <3>2, <4>1
    <3>9. Succeeds(l, {x})
      BY <2>9, <3>3
    <3>10. {x} \in SUBSET WorkSet /\ \A y \in {x} : WorkFits(y) /\ y.kind \in {"create", "edit"}
      BY <3>2, <3>7
    <3> QED BY <1>1, <2>8, <2>9, <2>10, <2>11, <3>8, <3>9, <3>10, AddStep
  <2> QED BY <2>13, <2>14
<1> QED BY <1>3, <1>4 DEF RecordMention

\* What the listener of a new message collects covers whom it had to reach.
LEMMA CollectedFits ==
  ASSUME LogInv, NEW l \in listeners, l.kind = "create", l.stage = "record", NEW m \in Posts, CreateFits(l, m)
  PROVE  /\ CollectCalls(m) \in SUBSET WorkSet
         /\ \A x \in CollectCalls(m) : x.kind = "create" /\ x.about = {m} /\ WorkFits(x)
         /\ \A u \in Folk : Claims(l, m, u) => \E x \in CollectCalls(m) : Claims(x, m, u)
<1> USE DEF LogInv
<1> DEFINE Collect(c) == [call |-> c, recipients |-> Recipients(c)]
           gathered == [i \in DOMAIN Mentioned(m) |-> Collect(Mentioned(m)[i])]
<1>1. /\ Mentioned(m) \in Seq(Addressees) /\ Len(Mentioned(m)) \in Nat
      /\ DOMAIN Mentioned(m) = 1..Len(Mentioned(m))
  BY MentionedAre
<1>2. \A i \in DOMAIN Mentioned(m) : Mentioned(m)[i] \in Calls(m)
  BY DEF Calls, ToSet
<1>3. \A c \in Calls(m) : \E i \in DOMAIN Mentioned(m) : c = Mentioned(m)[i]
  BY DEF Calls, ToSet
<1>4. \A c \in Calls(m) : c \in Addressees /\ c.kind \in {"member", "role", "everyone"}
  BY CallsAre
<1>5. \A c \in Calls(m) : /\ Recipients(c) \subseteq Folk
                          /\ c.kind = "member" => Recipients(c) = {c.who}
                          /\ c.kind = "role" => Recipients(c) = holders[c.who]
                          /\ c.kind = "everyone" => Recipients(c) = {}
  BY RecipientsAre
<1>6. \A c \in Calls(m) : Collect(c) \in Collected
  BY <1>4, <1>5 DEF Collected
<1>7. gathered \in [1..Len(Mentioned(m)) -> Collected]
  BY <1>1, <1>2, <1>6
<1>8. gathered \in Seq(Collected) /\ DOMAIN gathered = DOMAIN Mentioned(m)
  BY <1>1, <1>7, SeqDef
<1>9. \A c \in Calls(m) : Recipients(c) \subseteq Touched(m)
  <2>1. \A c \in Calls(m) : c.kind = "member" => c.who \in called[m]
    BY DEF CreateFits, Sent, CallsFit
  <2>2. \A c \in Calls(m) : c.kind = "role" => holders[c.who] \subseteq Touched(m)
    BY DEF CreateFits
  <2> QED BY <1>4, <1>5, <2>1, <2>2 DEF Touched
<1>10. PICK left \in Seq(Collected) : left = gathered
  BY <1>8
<1>11. /\ DOMAIN left = DOMAIN Mentioned(m)
       /\ \A i \in DOMAIN Mentioned(m) : left[i].call = Mentioned(m)[i] /\ left[i].recipients = Recipients(Mentioned(m)[i])
  BY <1>8, <1>10
<1>12. CollectCalls(m) = IF left = <<>> THEN {}
                         ELSE {[kind |-> "create", about |-> {m}, stage |-> "mention", left |-> left]}
  BY <1>10 DEF CollectCalls
<1> HIDE DEF gathered, Collect
<1>13. CASE left = <<>>
  <2>1. Calls(m) = {}
    <3>1. DOMAIN left = {}
      BY <1>13
    <3> QED BY <1>3, <1>11, <3>1
  <2>2. \A u \in Folk : ~Claims(l, m, u)
    BY <2>1 DEF Claims
  <2> QED BY <1>12, <1>13, <2>2
<1>14. CASE left # <<>>
  <2>1. PICK x \in WorkSet : x = [kind |-> "create", about |-> {m}, stage |-> "mention", left |-> left]
    BY DEF WorkSet
  <2>2. x.kind = "create" /\ x.about = {m} /\ x.stage = "mention" /\ x.left = left
    BY <2>1
  <2>3. CollectCalls(m) = {x}
    BY <1>12, <1>14, <2>1
  <2>4. CreateFits(x, m)
    <3>1. \A i \in DOMAIN x.left : x.left[i].call \in Calls(m) /\ x.left[i].recipients \subseteq Touched(m)
      BY <1>2, <1>9, <1>11, <2>2
    <3> QED BY <1>14, <2>2, <3>1 DEF CreateFits
  <2>5. WorkFits(x)
    BY <2>2, <2>4 DEF WorkFits, Deleters
  <2>6. ASSUME NEW u \in Folk, Claims(l, m, u) PROVE Claims(x, m, u)
    <3>1. PICK c \in Calls(m) : Reached(c, u)
      BY <2>6 DEF Claims
    <3>2. PICK i \in DOMAIN Mentioned(m) : c = Mentioned(m)[i]
      BY <1>3
    <3>3. left[i].call = c /\ left[i].recipients = Recipients(c)
      BY <1>11, <3>2
    <3>4. StillToTell(left[i], u)
      BY <3>1, <3>3 DEF StillToTell, Reached
    <3> QED BY <1>11, <2>2, <3>2, <3>4 DEF Claims
  <2> QED BY <2>2, <2>3, <2>5, <2>6
<1> QED BY <1>13, <1>14

\* The row of a new message; then come the mentions.
LEMMA RecordCreateStep ==
  ASSUME LogInv, NEW l \in listeners, RecordCreate(l)
  PROVE  LogInv'
<1> USE DEF LogInv
<1>1. l \in WorkSet /\ WorkFits(l) /\ l.kind = "create" /\ l.stage = "record" /\ Still
  BY DEF ListenersFit, LogTypes, RecordCreate
<1>2. PICK m \in Posts : CreateFits(l, m)
  BY <1>1 DEF WorkFits
<1>3. l.about = {m} /\ (CHOOSE x \in l.about : TRUE) = m
  BY <1>2 DEF CreateFits
<1>4. PICK new : new = CollectCalls(m)
  OBVIOUS
<1>5. /\ new \in SUBSET WorkSet
      /\ \A x \in new : x.kind = "create" /\ x.about = {m} /\ WorkFits(x)
      /\ \A u \in Folk : Claims(l, m, u) => \E x \in new : Claims(x, m, u)
  BY <1>1, <1>2, <1>4, CollectedFits
<1>6. \/ AddEvent("message_create", {m}, FALSE, NoMention, {}) /\ Succeeds(l, new)
      \/ Fails(l, new)
  BY <1>3, <1>4 DEF RecordCreate
<1>7. CASE Fails(l, new)
  <2>1. \A x \in new : x.about = l.about /\ WorkFits(x)
    BY <1>3, <1>5
  <2> QED BY <1>1, <1>5, <1>7, <2>1, FailStep
<1>8. CASE AddEvent("message_create", {m}, FALSE, NoMention, {}) /\ Succeeds(l, new)
  <2>1. PICK row \in RowSet : row = LogRow("message_create", {m}, FALSE, NoMention, {})
    BY DEF LogRow, RowSet
  <2>2. row.kind = "message_create" /\ row.about = {m} /\ ~row.deleted
    BY <2>1 DEF LogRow
  <2>3. RowFits(row, Len(eventRows) + 1) /\ l.stage # "mark"
    BY <1>1, <2>2 DEF RowFits
  <2>4. eventRows' = Append(eventRows, row) /\ Succeeds(l, new)
    BY <1>8, <2>1 DEF AddEvent
  <2>5. \A p \in Posts, u \in Folk :
          l.kind = "create" /\ l.about = {p} /\ Claims(l, p, u) =>
            \E x \in new : x.kind = "create" /\ x.about = {p} /\ Claims(x, p, u)
    BY <1>3, <1>5
  <2>6. (\A x \in new : WorkFits(x) /\ x.kind \in {"create", "edit"}) /\ row.kind # "message_delete"
        /\ l.kind \in {"create", "edit"}
    BY <1>1, <1>5, <2>2
  <2> QED BY <1>1, <1>5, <2>3, <2>4, <2>5, <2>6, AddStep
<1> QED BY <1>6, <1>7, <1>8

\* What fits goes on to fit when messages are sent and deleted and nobody's roles change.
LEMMA GateFits ==
  ASSUME LogInv, eventRows' = eventRows, since' = since, holders' = holders,
         \A p \in Posts : /\ post[p] # "unsent" => post'[p] # "unsent"
                          /\ post[p] = "gone" => post'[p] = "gone",
         \A p \in Posts : post[p] # "unsent" => called'[p] = called[p] /\ shifted'[p] = shifted[p],
         listeners \subseteq listeners'
  PROVE  /\ \A l \in listeners : WorkFits(l)'
         /\ RowsFit'
         /\ \A p \in Posts, u \in Folk : Told(p, u) => Told(p, u)'
         /\ \A p \in Posts, u \in Folk : Coming(p, u) => Coming(p, u)'
<1> USE DEF LogInv
<1>1. \A p \in Posts : Sent(p) => Sent(p)' /\ Touched(p)' = Touched(p)
  BY DEF Sent, Touched
<1>2. ASSUME NEW l \in listeners PROVE WorkFits(l)'
  <2>1. WorkFits(l) /\ l.about \subseteq Posts
    BY DEF ListenersFit, LogTypes, WorkSet
  <2>2. \A p \in Posts : CreateFits(l, p) => CreateFits(l, p)'
    BY <1>1 DEF CreateFits
  <2> QED BY <2>1, <2>2 DEF WorkFits
<1>3. RowsFit'
  <2> SUFFICES ASSUME NEW j \in DOMAIN eventRows PROVE RowFits(eventRows[j], j)'
    BY DEF RowsFit
  <2>1. RowFits(eventRows[j], j) /\ eventRows[j].about \subseteq Posts
    BY RowsAre DEF RowsFit, RowSet
  <2>2. \A p \in Posts : MentionFits(eventRows[j], j, p) => MentionFits(eventRows[j], j, p)'
    BY <1>1 DEF MentionFits
  <2> QED BY <2>1, <2>2 DEF RowFits
<1>4. \A p \in Posts, u \in Folk : Told(p, u) => Told(p, u)'
  BY DEF Told, Tells
<1>5. \A p \in Posts, u \in Folk : Coming(p, u) => Coming(p, u)'
  BY DEF Coming, Claims, Reached, Recipients, StillToTell
<1> QED BY <1>2, <1>3, <1>4, <1>5

\* A new message, which its own listener follows.
LEMMA SayStep ==
  ASSUME LogInv, NEW m \in Posts, Say(m)
  PROVE  LogInv'
<1> USE DEF LogInv
<1>0. /\ UNCHANGED <<eventRows, holders, since, shifted, goneAt, alone, missed, edits, changes, failures>>
      /\ post[m] = "unsent" /\ post' = [post EXCEPT ![m] = "there"]
      /\ called' = [called EXCEPT ![m] = CalledBy(m)]
  BY DEF Say
<1>1. PICK l \in WorkSet : l = Listener("create", {m}, "record")
  <2>1. <<>> \in Seq(Collected)
    BY EmptySeq
  <2> QED BY <2>1 DEF Listener, WorkSet
<1>2. l.kind = "create" /\ l.about = {m} /\ l.stage = "record"
  BY <1>1 DEF Listener
<1>3. listeners' = IF m \in HiddenPosts THEN listeners ELSE listeners \cup {l}
  BY <1>1 DEF Say
<1>4. /\ post'[m] = "there" /\ \A p \in Posts \ {m} : post'[p] = post[p] /\ called'[p] = called[p]
      /\ called'[m] = CalledBy(m)
  BY <1>0 DEF LogTypes
<1>5. /\ CalledBy(m) \subseteq Folk
      /\ \A c \in Calls(m) : Recipients(c) \subseteq CalledBy(m)
      /\ \A c \in Calls(m), u \in Folk : c.kind = "everyone" /\ since[u] # 0 => u \in CalledBy(m)
      /\ \A u \in CalledBy(m) : \E c \in Calls(m) : Reached(c, u)
  <2>1. \A c \in Calls(m) : Recipients(c) \subseteq Folk /\ (c.kind = "everyone" => Recipients(c) = {})
    BY RecipientsAre
  <2>2. CalledBy(m) = UNION {IF c.kind = "everyone" THEN {u \in Folk : since[u] # 0} ELSE Recipients(c) : c \in Calls(m)}
    BY DEF CalledBy, Calls
  <2> QED BY <2>1, <2>2 DEF Reached
<1>6. /\ \A x \in listeners : WorkFits(x)'
      /\ RowsFit'
      /\ \A p \in Posts, u \in Folk : Told(p, u) => Told(p, u)'
      /\ \A p \in Posts, u \in Folk : Coming(p, u) => Coming(p, u)'
  <2>1. listeners \subseteq listeners'
    BY <1>3
  <2>2. \A p \in Posts : /\ post[p] # "unsent" => post'[p] # "unsent"
                         /\ post[p] = "gone" => post'[p] = "gone"
    BY <1>0, <1>4
  <2>3. \A p \in Posts : post[p] # "unsent" => called'[p] = called[p] /\ shifted'[p] = shifted[p]
    BY <1>0, <1>4
  <2>4. eventRows' = eventRows /\ since' = since /\ holders' = holders
    BY <1>0
  <2> QED BY <2>1, <2>2, <2>3, <2>4, GateFits
<1>7. LogTypes'
  BY <1>0, <1>3, <1>5 DEF LogTypes
<1>8. ListenersFit'
  <2>1. m \notin HiddenPosts => CreateFits(l, m)'
    <3>1. \A c \in Calls(m) : c.kind = "role" => holders'[c.who] \subseteq called'[m]
      BY <1>0, <1>4, <1>5, RecipientsAre
    <3> QED BY <1>0, <1>2, <1>4, <1>5, <3>1 DEF CreateFits, Sent, Touched
  <2>2. m \notin HiddenPosts => WorkFits(l)'
    BY <1>2, <2>1 DEF WorkFits, Deleters
  <2> QED BY <1>3, <1>6, <2>2 DEF ListenersFit
<1>9. CallsFit'
  <2>1. ASSUME NEW p \in Posts \ {m}, post'[p] # "unsent"
        PROVE  /\ \A c \in Calls(p) : c.kind = "member" => c.who \in called'[p]
               /\ p \notin HiddenPosts \cup missed' => \A u \in called'[p] \ shifted'[p] : Told(p, u)' \/ Coming(p, u)'
    <3>1. called[p] \subseteq Folk
      BY DEF LogTypes
    <3> QED BY <1>0, <1>4, <1>6, <2>1, <3>1 DEF CallsFit
  <2>2. \A c \in Calls(m) : c.kind = "member" => c.who \in called'[m]
    <3>1. \A c \in Calls(m) : c.kind = "member" => Recipients(c) = {c.who}
      BY RecipientsAre
    <3> QED BY <1>4, <1>5, <3>1
  <2>3. ASSUME m \notin HiddenPosts, NEW u \in called'[m] PROVE Coming(m, u)'
    <3>1. PICK c \in Calls(m) : Reached(c, u)
      BY <1>4, <1>5, <2>3
    <3>2. Reached(c, u)'
      BY <1>0, <3>1 DEF Reached, Recipients
    <3>3. l \in listeners' /\ Claims(l, m, u)'
      BY <1>2, <1>3, <2>3, <3>2 DEF Claims
    <3> QED BY <1>2, <3>3 DEF Coming
  <2> QED BY <2>1, <2>2, <2>3 DEF CallsFit
<1>10. DeletionsFit'
  <2> SUFFICES ASSUME NEW p \in Posts PROVE DeletionFits(p)'
    BY DEF DeletionsFit
  <2>1. NotedRows(p)' = NotedRows(p) /\ DeletionFits(p)
    BY <1>0 DEF NotedRows, DeletionsFit
  <2>2. Noters(p)' = Noters(p) /\ Noters(p) \subseteq listeners'
    BY <1>2, <1>3 DEF Noters, Notes
  <2>3. p # m => post'[p] = post[p]
    BY <1>4
  <2> QED BY <1>0, <1>4, <2>1, <2>2, <2>3 DEF DeletionFits, Silent
<1>11. MarksFit'
  <2>1. \A p \in Posts : ToMark(p) => ToMark(p)'
    BY <1>3 DEF ToMark
  <2>2. \A p \in Posts : post'[p] = "gone" => post[p] = "gone"
    BY <1>4
  <2> QED BY <1>0, <2>1, <2>2 DEF MarksFit
<1> QED BY <1>6, <1>7, <1>8, <1>9, <1>10, <1>11

\* An edit starts a listener that only adds a row.
LEMMA EditStep ==
  ASSUME LogInv, NEW m \in Posts, Edit(m)
  PROVE  LogInv'
<1> USE DEF LogInv
<1>0. UNCHANGED <<post, eventRows, holders, since, called, shifted, goneAt, alone, missed, changes, failures>>
      /\ edits' = edits + 1
  BY DEF Edit
<1>1. PICK l \in WorkSet : l = Listener("edit", {m}, "record")
  <2>1. <<>> \in Seq(Collected)
    BY EmptySeq
  <2> QED BY <2>1 DEF Listener, WorkSet
<1>2. l.kind = "edit" /\ l.about = {m} /\ l.stage = "record" /\ listeners' = listeners \cup {l}
  BY <1>1 DEF Listener, Edit
<1>3. /\ \A x \in listeners : WorkFits(x)'
      /\ RowsFit'
      /\ \A p \in Posts, u \in Folk : Told(p, u) => Told(p, u)'
      /\ \A p \in Posts, u \in Folk : Coming(p, u) => Coming(p, u)'
  <2>1. listeners \subseteq listeners'
    BY <1>2
  <2>2. eventRows' = eventRows /\ since' = since /\ holders' = holders /\ post' = post
        /\ called' = called /\ shifted' = shifted
    BY <1>0
  <2> QED BY <2>1, <2>2, GateFits
<1>4. LogTypes'
  BY <1>0, <1>2 DEF LogTypes
<1>5. ListenersFit'
  <2>1. WorkFits(l)'
    BY <1>2 DEF WorkFits, Deleters
  <2> QED BY <1>2, <1>3, <2>1 DEF ListenersFit
<1>6. CallsFit'
  <2>1. \A p \in Posts : called[p] \subseteq Folk
    BY DEF LogTypes
  <2> QED BY <1>0, <1>3, <2>1 DEF CallsFit
<1>7. DeletionsFit'
  <2> SUFFICES ASSUME NEW p \in Posts PROVE DeletionFits(p)'
    BY DEF DeletionsFit
  <2>1. NotedRows(p)' = NotedRows(p) /\ DeletionFits(p)
    BY <1>0 DEF NotedRows, DeletionsFit
  <2>2. Noters(p)' = Noters(p) /\ Noters(p) \subseteq listeners'
    BY <1>2 DEF Noters, Notes
  <2> QED BY <1>0, <2>1, <2>2 DEF DeletionFits, Silent
<1>8. MarksFit'
  <2>1. \A p \in Posts : ToMark(p) => ToMark(p)'
    BY <1>2 DEF ToMark
  <2> QED BY <1>0, <2>1 DEF MarksFit
<1> QED BY <1>3, <1>4, <1>5, <1>6, <1>7, <1>8

\* A deletion starts listeners of which one at most will note it, and one will mark the rows.
LEMMA LeavesStep ==
  ASSUME LogInv, NEW deleted \in SUBSET Posts, Leaves(deleted),
         alone' = alone \cup {m \in deleted : deleted = {m}},
         NEW new \in SUBSET WorkSet, listeners' = listeners \cup new,
         \A x \in new : x.kind \in Deleters /\ x.about \subseteq deleted /\ x.stage = "mark",
         \E x \in new : x.about = deleted,
         \A m \in deleted : IF Silent(m)' THEN \A x \in new : ~Notes(x, m)
                            ELSE \E x \in new : \A y \in new : Notes(y, m) <=> y = x
  PROVE  LogInv'
<1> USE DEF LogInv
<1>0. /\ UNCHANGED <<eventRows, holders, since, called, shifted, missed, edits, changes, failures>>
      /\ \A m \in deleted : post[m] = "there"
      /\ post' = [m \in Posts |-> IF m \in deleted THEN "gone" ELSE post[m]]
      /\ goneAt' = [m \in Posts |-> IF m \in deleted THEN Len(eventRows) ELSE goneAt[m]]
  BY DEF Leaves
<1>1. Len(eventRows) \in Nat
  BY RowsAre
<1>2. /\ \A x \in listeners : WorkFits(x)'
      /\ RowsFit'
      /\ \A p \in Posts, u \in Folk : Told(p, u) => Told(p, u)'
      /\ \A p \in Posts, u \in Folk : Coming(p, u) => Coming(p, u)'
  <2>1. \A p \in Posts : /\ post[p] # "unsent" => post'[p] # "unsent"
                         /\ post[p] = "gone" => post'[p] = "gone"
    BY <1>0
  <2>2. eventRows' = eventRows /\ since' = since /\ holders' = holders /\ called' = called
        /\ shifted' = shifted /\ listeners \subseteq listeners'
    BY <1>0
  <2> QED BY <2>1, <2>2, GateFits
<1>3. LogTypes'
  BY <1>0, <1>1 DEF LogTypes
<1>4. ListenersFit'
  <2>1. \A x \in new : WorkFits(x)'
    BY <1>0 DEF WorkFits, Deleters
  <2> QED BY <1>2, <2>1 DEF ListenersFit
<1>5. CallsFit'
  <2>1. \A p \in Posts : called[p] \subseteq Folk /\ (post'[p] # "unsent" => post[p] # "unsent")
    BY <1>0 DEF LogTypes
  <2> QED BY <1>0, <1>2, <2>1 DEF CallsFit
<1>6. DeletionsFit'
  <2> SUFFICES ASSUME NEW m \in Posts PROVE DeletionFits(m)'
    BY DEF DeletionsFit
  <2>1. NotedRows(m)' = NotedRows(m) /\ DeletionFits(m)
    BY <1>0 DEF NotedRows, DeletionsFit
  <2>2. Noters(m)' = Noters(m) \cup {x \in new : Notes(x, m)}
    BY DEF Noters, Notes
  <2>3. CASE m \in deleted
    <3>1. m \notin alone /\ NotedRows(m) = {} /\ post'[m] = "gone"
      BY <1>0, <2>1, <2>3 DEF DeletionFits
    <3>2. Noters(m) = {}
      BY <1>0, <2>3 DEF Noters, Notes, ListenersFit, WorkFits, Deleters
    <3>3. Noters(m)' = {x \in new : Notes(x, m)}
      BY <2>2, <3>2
    <3>4. CASE Silent(m)'
      BY <1>0, <2>1, <2>3, <3>1, <3>3, <3>4 DEF DeletionFits
    <3>5. CASE ~Silent(m)'
      <4>1. PICK x \in new : \A y \in new : Notes(y, m) <=> y = x
        BY <2>3, <3>5
      <4>2. Noters(m)' = {x} /\ x \in listeners'
        BY <3>3, <4>1
      <4> QED BY <1>0, <2>1, <3>1, <3>5, <4>2 DEF DeletionFits
    <3> QED BY <3>4, <3>5
  <2>4. CASE m \notin deleted
    <3>1. post'[m] = post[m] /\ (m \in alone' <=> m \in alone)
      BY <1>0, <2>4
    <3>2. Noters(m)' = Noters(m) /\ Noters(m) \subseteq listeners'
      BY <2>2, <2>4 DEF Notes, Noters
    <3> QED BY <1>0, <2>1, <3>1, <3>2 DEF DeletionFits, Silent
  <2> QED BY <2>3, <2>4
<1>7. MarksFit'
  <2> SUFFICES ASSUME NEW m \in Posts
               PROVE  /\ goneAt'[m] <= Len(eventRows')
                      /\ post'[m] = "gone" /\ m \notin missed' =>
                           \A i \in 1..goneAt'[m] : m \in eventRows'[i].about => eventRows'[i].deleted \/ ToMark(m)'
    BY DEF MarksFit
  <2>1. CASE m \in deleted
    <3>1. ToMark(m)'
      BY <2>1 DEF ToMark
    <3> QED BY <1>0, <1>1, <2>1, <3>1
  <2>2. CASE m \notin deleted
    <3>1. goneAt'[m] = goneAt[m] /\ post'[m] = post[m]
      BY <1>0, <2>2
    <3>2. ToMark(m) => ToMark(m)'
      BY DEF ToMark
    <3> QED BY <1>0, <3>1, <3>2 DEF MarksFit
  <2> QED BY <2>1, <2>2
<1> QED BY <1>2, <1>3, <1>4, <1>5, <1>6, <1>7

\* A listener of a deletion as it starts.
LEMMA NewListener ==
  ASSUME NEW kind \in {"gone", "raw", "bulk", "bulkraw"}, NEW about \in SUBSET Posts
  PROVE  /\ Listener(kind, about, "mark") \in WorkSet
         /\ Listener(kind, about, "mark").kind = kind
         /\ Listener(kind, about, "mark").about = about
         /\ Listener(kind, about, "mark").stage = "mark"
<1>1. <<>> \in Seq(Collected)
  BY EmptySeq
<1> QED BY <1>1 DEF Listener, WorkSet, Deleters

\* One message is deleted.
LEMMA EraseStep ==
  ASSUME LogInv, NEW m \in Posts, Erase(m)
  PROVE  LogInv'
<1>1. PICK raw \in WorkSet : /\ raw = Listener("raw", {m}, "mark") /\ raw.kind = "raw"
                             /\ raw.about = {m} /\ raw.stage = "mark"
  BY NewListener
<1>2. PICK gone \in WorkSet : /\ gone = Listener("gone", {m}, "mark") /\ gone.kind = "gone"
                              /\ gone.about = {m} /\ gone.stage = "mark"
  BY NewListener
<1>3. PICK new \in SUBSET WorkSet : new = {raw} \cup (IF m \in RememberedPosts THEN {gone} ELSE {})
  OBVIOUS
<1>4. listeners' = listeners \cup new
  BY <1>1, <1>2, <1>3 DEF Erase
<1>5. \A x \in new : x.kind \in Deleters /\ x.about \subseteq {m} /\ x.stage = "mark"
  BY <1>1, <1>2, <1>3 DEF Deleters
<1>6. raw \in new /\ raw.about = {m}
  BY <1>1, <1>3
<1>7. Leaves({m}) /\ alone' = alone \cup {p \in {m} : {m} = {p}}
  BY DEF Erase
<1>8. IF Silent(m)' THEN \A x \in new : ~Notes(x, m)
      ELSE \E x \in new : \A y \in new : Notes(y, m) <=> y = x
  <2>1. Silent(m)' <=> m \in RememberedPosts \cap HiddenPosts
    BY <1>7 DEF Silent
  <2>2. Notes(raw, m) <=> m \notin RememberedPosts
    BY <1>1 DEF Notes, AfterMark
  <2>3. Notes(gone, m) <=> m \notin HiddenPosts
    BY <1>2 DEF Notes, AfterMark
  <2>4. raw # gone
    BY <1>1, <1>2
  <2> QED BY <1>3, <2>1, <2>2, <2>3, <2>4
<1>9. \A p \in {m} : IF Silent(p)' THEN \A x \in new : ~Notes(x, p)
                     ELSE \E x \in new : \A y \in new : Notes(y, p) <=> y = x
  BY <1>8
<1>10. {m} \in SUBSET Posts /\ \E x \in new : x.about = {m}
  BY <1>6
<1> QED BY <1>4, <1>5, <1>7, <1>9, <1>10, LeavesStep

\* Many are deleted at once.
LEMMA EraseManyStep ==
  ASSUME LogInv, NEW deleted \in SUBSET Posts, EraseMany(deleted)
  PROVE  LogInv'
<1>1. PICK raw \in WorkSet : /\ raw = Listener("bulkraw", deleted, "mark") /\ raw.kind = "bulkraw"
                             /\ raw.about = deleted /\ raw.stage = "mark"
  BY NewListener
<1>2. PICK bulk \in WorkSet : /\ bulk = Listener("bulk", deleted \cap RememberedPosts, "mark")
                              /\ bulk.kind = "bulk" /\ bulk.about = deleted \cap RememberedPosts
                              /\ bulk.stage = "mark"
  <2>1. deleted \cap RememberedPosts \in SUBSET Posts
    OBVIOUS
  <2> QED BY <2>1, NewListener
<1>3. PICK new \in SUBSET WorkSet :
        new = {raw} \cup (IF deleted \cap (RememberedPosts \ HiddenPosts) = {} THEN {} ELSE {bulk})
  OBVIOUS
<1>4. listeners' = listeners \cup new
  BY <1>1, <1>2, <1>3 DEF EraseMany
<1>5. \A x \in new : x.kind \in Deleters /\ x.about \subseteq deleted /\ x.stage = "mark"
  BY <1>1, <1>2, <1>3 DEF Deleters
<1>6. raw \in new /\ raw.about = deleted
  BY <1>1, <1>3
<1>7. {m \in deleted : deleted = {m}} = {}
  <2>1. \A m : Cardinality({m}) = 1
    BY FS_Singleton
  <2>2. \A m : deleted # {m}
    BY <2>1 DEF EraseMany
  <2> QED BY <2>2
<1>8. Leaves(deleted) /\ alone' = alone \cup {m \in deleted : deleted = {m}}
  BY <1>7 DEF EraseMany
<1>9. ASSUME NEW m \in deleted
      PROVE  IF Silent(m)' THEN \A x \in new : ~Notes(x, m)
             ELSE \E x \in new : \A y \in new : Notes(y, m) <=> y = x
  <2>1. ~Silent(m)'
    <3>1. post[m] = "there"
      BY <1>8 DEF Leaves
    <3>2. m \notin alone
      BY <3>1 DEF LogInv, DeletionsFit, DeletionFits
    <3> QED BY <3>2, <1>7, <1>8 DEF Silent
  <2>2. Notes(raw, m) /\ ~Notes(bulk, m)
    BY <1>1, <1>2 DEF Notes, AfterMark
  <2> QED BY <1>3, <2>1, <2>2
<1> QED BY <1>4, <1>5, <1>6, <1>8, <1>9, LeavesStep

\* A member joins; whoever's mentions are still to be collected is called in his absence too.
LEMMA JoinStep ==
  ASSUME LogInv, NEW u \in Folk, Join(u)
  PROVE  LogInv'
<1> USE DEF LogInv
<1>0. /\ UNCHANGED <<post, listeners, eventRows, holders, called, goneAt, alone, missed, edits, changes, failures>>
      /\ since[u] = 0 /\ since' = [since EXCEPT ![u] = Len(eventRows) + 1]
      /\ shifted' = [m \in Posts |-> IF AtWork(m, {"create"}) THEN shifted[m] \cup {u} ELSE shifted[m]]
  BY DEF Join
<1>1. /\ Len(eventRows) \in Nat /\ DOMAIN eventRows = 1..Len(eventRows)
      /\ \A i \in 1..Len(eventRows) : eventRows[i] \in RowSet
  BY RowsAre
<1>2. since'[u] = Len(eventRows) + 1 /\ \A x \in Folk \ {u} : since'[x] = since[x]
  BY <1>0 DEF LogTypes
<1>3. \A m \in Posts : shifted[m] \subseteq shifted'[m] /\ Touched(m) \subseteq Touched(m)'
  BY <1>0 DEF Touched
<1>4. LogTypes'
  <2>1. shifted' \in [Posts -> SUBSET Folk]
    BY <1>0 DEF LogTypes
  <2>2. since' \in [Folk -> Nat] /\ \A x \in Folk : since'[x] <= Len(eventRows') + 1
    BY <1>0, <1>1, <1>2 DEF LogTypes
  <2> QED BY <1>0, <2>1, <2>2 DEF LogTypes
<1>5. ListenersFit'
  <2> SUFFICES ASSUME NEW l \in listeners PROVE WorkFits(l)'
    BY <1>0 DEF ListenersFit
  <2>1. WorkFits(l)
    BY DEF ListenersFit
  <2>2. ASSUME NEW m \in Posts, CreateFits(l, m), l.kind = "create" PROVE CreateFits(l, m)'
    <3>1. u \in Touched(m)'
      BY <1>0, <2>2 DEF AtWork, CreateFits, Touched
    <3>2. \A c \in Calls(m), x \in Folk : c.kind = "everyone" /\ since'[x] # 0 => x \in Touched(m)'
      BY <1>2, <1>3, <2>2, <3>1 DEF CreateFits
    <3> QED BY <1>0, <1>3, <2>2, <3>2 DEF CreateFits, Sent
  <2> QED BY <1>0, <2>1, <2>2 DEF WorkFits
<1>6. RowsFit'
  <2> SUFFICES ASSUME NEW j \in DOMAIN eventRows PROVE RowFits(eventRows[j], j)'
    BY <1>0 DEF RowsFit
  <2>1. RowFits(eventRows[j], j) /\ j \in 1..Len(eventRows)
    BY <1>1 DEF RowsFit
  <2>2. since'[u] \notin 1..j
    BY <1>1, <1>2, <2>1
  <2>3. \A m \in Posts : MentionFits(eventRows[j], j, m) => MentionFits(eventRows[j], j, m)'
    BY <1>0, <1>2, <1>3, <2>2 DEF MentionFits, Sent
  <2> QED BY <1>0, <2>1, <2>3 DEF RowFits
<1>7. CallsFit'
  <2>1. \A m \in Posts, x \in Folk : Told(m, x) => Told(m, x)'
    <3>1. \A x \in Folk, j \in DOMAIN eventRows : since[x] \in 1..j => since'[x] \in 1..j
      BY <1>0, <1>2
    <3> QED BY <1>0, <3>1 DEF Told, Tells
  <2>2. \A m \in Posts, x \in Folk : Coming(m, x) => Coming(m, x)'
    <3>1. \A x \in Folk : since[x] # 0 => since'[x] # 0
      BY <1>1, <1>2
    <3> QED BY <1>0, <3>1 DEF Coming, Claims, Reached, Recipients, StillToTell
  <2>3. \A m \in Posts : called[m] \subseteq Folk
    BY DEF LogTypes
  <2> QED BY <1>0, <1>3, <2>1, <2>2, <2>3 DEF CallsFit
<1>8. DeletionsFit'
  <2>1. \A m \in Posts : DeletionFits(m)' <=> DeletionFits(m)
    BY <1>0 DEF DeletionFits, Silent, NotedRows, Noters, Notes
  <2> QED BY <2>1 DEF DeletionsFit
<1>9. MarksFit'
  BY <1>0 DEF MarksFit, ToMark
<1> QED BY <1>4, <1>5, <1>6, <1>7, <1>8, <1>9

\* A role is given or taken away; so whoever's mentions are still to be collected
\* may be called or not.
LEMMA ChangeTitleStep ==
  ASSUME LogInv, NEW u \in Folk, NEW t \in Titles, ChangeTitle(u, t)
  PROVE  LogInv'
<1> USE DEF LogInv
<1>0. /\ UNCHANGED <<post, listeners, eventRows, since, called, goneAt, alone, missed, edits, failures>>
      /\ changes' = changes + 1
      /\ holders' = [holders EXCEPT ![t] = IF u \in holders[t] THEN holders[t] \ {u} ELSE holders[t] \cup {u}]
      /\ shifted' = [m \in Posts |->
           IF \E l \in listeners : l.kind = "create" /\ l.about = {m} /\ l.stage = "record"
           THEN shifted[m] \cup {u} ELSE shifted[m]]
  BY DEF ChangeTitle
<1>1. \A x \in Folk \ {u}, s \in Titles : x \in holders'[s] <=> x \in holders[s]
  BY <1>0 DEF LogTypes
<1>2. \A m \in Posts : shifted[m] \subseteq shifted'[m] /\ Touched(m) \subseteq Touched(m)'
  BY <1>0 DEF Touched
<1>3. LogTypes'
  <2>1. shifted' \in [Posts -> SUBSET Folk]
    BY <1>0 DEF LogTypes
  <2>2. holders' \in [Titles -> SUBSET Folk]
    BY <1>0 DEF LogTypes
  <2>3. UNCHANGED <<post, listeners, eventRows, since, called, goneAt, alone, missed, edits, failures>>
    BY <1>0
  <2>4. changes' \in Nat
    BY <1>0 DEF LogTypes
  <2> QED BY <2>1, <2>2, <2>3, <2>4 DEF LogTypes
<1>4. ListenersFit'
  <2> SUFFICES ASSUME NEW l \in listeners PROVE WorkFits(l)'
    BY <1>0 DEF ListenersFit
  <2>1. WorkFits(l)
    BY DEF ListenersFit
  <2>2. ASSUME NEW m \in Posts, CreateFits(l, m), l.kind = "create" PROVE CreateFits(l, m)'
    <3>1. \A c \in Calls(m), x \in Folk : c.kind = "everyone" /\ since'[x] # 0 => x \in Touched(m)'
      BY <1>0, <1>2, <2>2 DEF CreateFits
    <3>2. ASSUME l.stage = "record", NEW c \in Calls(m), c.kind = "role" PROVE holders'[c.who] \subseteq Touched(m)'
      <4>1. u \in Touched(m)'
        BY <1>0, <2>2, <3>2 DEF CreateFits, Touched
      <4>2. c.who \in Titles /\ holders[c.who] \subseteq Touched(m)
        BY <2>2, <3>2, CallsAre DEF CreateFits
      <4>3. holders'[c.who] \subseteq Folk
        BY <1>3, <4>2 DEF LogTypes
      <4> QED BY <1>1, <1>2, <4>1, <4>2, <4>3
    <3> QED BY <1>0, <1>2, <2>2, <3>1, <3>2 DEF CreateFits, Sent
  <2> QED BY <1>0, <2>1, <2>2 DEF WorkFits
<1>5. RowsFit'
  <2> SUFFICES ASSUME NEW j \in DOMAIN eventRows PROVE RowFits(eventRows[j], j)'
    BY <1>0 DEF RowsFit
  <2>1. RowFits(eventRows[j], j)
    BY DEF RowsFit
  <2>2. \A m \in Posts : MentionFits(eventRows[j], j, m) => MentionFits(eventRows[j], j, m)'
    BY <1>0, <1>2 DEF MentionFits, Sent
  <2> QED BY <1>0, <2>1, <2>2 DEF RowFits
<1>6. CallsFit'
  <2>1. \A m \in Posts, x \in Folk : Told(m, x) => Told(m, x)'
    BY <1>0 DEF Told, Tells
  <2>2. ASSUME NEW m \in Posts, NEW x \in Folk, x \notin shifted'[m], Coming(m, x) PROVE Coming(m, x)'
    <3>1. PICK l \in listeners : l.kind = "create" /\ l.about = {m} /\ Claims(l, m, x)
      BY <2>2 DEF Coming
    <3>2. CASE l.stage = "record" /\ \E c \in Calls(m) : Reached(c, x)
      <4>1. PICK c \in Calls(m) : Reached(c, x)
        BY <3>2
      <4>2. x # u
        BY <1>0, <2>2, <3>1, <3>2
      <4>3. c.kind \in {"member", "role", "everyone"} /\ (c.kind = "role" => c.who \in Titles)
        BY CallsAre
      <4>4. Reached(c, x)'
        <5>1. CASE c.kind = "everyone"
          BY <1>0, <4>1, <5>1 DEF Reached
        <5>2. CASE c.kind = "member"
          BY <1>0, <4>1, <5>2 DEF Reached, Recipients
        <5>3. CASE c.kind = "role"
          BY <1>1, <4>1, <4>2, <4>3, <5>3 DEF Reached, Recipients
        <5> QED BY <4>3, <5>1, <5>2, <5>3
      <4>5. Claims(l, m, x)'
        BY <3>2, <4>4 DEF Claims
      <4> QED BY <1>0, <3>1, <4>5 DEF Coming
    <3>3. CASE l.stage = "mention" /\ \E i \in DOMAIN l.left : StillToTell(l.left[i], x)
      <4>1. Claims(l, m, x)'
        BY <1>0, <3>3 DEF Claims, StillToTell
      <4> QED BY <1>0, <3>1, <4>1 DEF Coming
    <3> QED BY <3>1, <3>2, <3>3 DEF Claims
  <2>3. \A m \in Posts : called[m] \subseteq Folk
    BY DEF LogTypes
  <2> QED BY <1>0, <1>2, <2>1, <2>2, <2>3 DEF CallsFit
<1>7. DeletionsFit'
  <2>1. \A m \in Posts : DeletionFits(m)' <=> DeletionFits(m)
    BY <1>0 DEF DeletionFits, Silent, NotedRows, Noters, Notes
  <2> QED BY <2>1 DEF DeletionsFit
<1>8. MarksFit'
  BY <1>0 DEF MarksFit, ToMark
<1> QED BY <1>3, <1>4, <1>5, <1>6, <1>7, <1>8

\* Every step keeps the invariant.
LEMMA LogStep == LogInv /\ [LogNext]_logVars => LogInv'
<1> SUFFICES ASSUME LogInv, [LogNext]_logVars PROVE LogInv'
  OBVIOUS
<1>1. ASSUME NEW m \in Posts, Say(m) \/ Edit(m) \/ Erase(m) PROVE LogInv'
  BY <1>1, SayStep, EditStep, EraseStep
<1>2. ASSUME NEW deleted \in SUBSET Posts, EraseMany(deleted) PROVE LogInv'
  BY <1>2, EraseManyStep
<1>3. ASSUME NEW u \in Folk, Join(u) PROVE LogInv'
  BY <1>3, JoinStep
<1>4. ASSUME NEW u \in Folk, NEW t \in Titles, ChangeTitle(u, t) PROVE LogInv'
  BY <1>4, ChangeTitleStep
<1>5. ASSUME NEW l \in listeners,
             RecordCreate(l) \/ RecordMention(l) \/ RecordEdit(l) \/ Mark(l) \/ RecordDelete(l)
      PROVE  LogInv'
  BY <1>5, RecordCreateStep, RecordMentionStep, RecordEditStep, MarkStep, RecordDeleteStep
<1>6. CASE UNCHANGED logVars
  <2>1. UNCHANGED <<post, listeners, eventRows, holders, since, called, shifted, goneAt, alone, missed, edits, changes, failures>>
    BY <1>6 DEF logVars
  <2>2. LogTypes'
    BY <2>1 DEF LogInv, LogTypes
  <2>3. (\A l \in listeners : WorkFits(l)') /\ RowsFit'
        /\ (\A p \in Posts, u \in Folk : Told(p, u) => Told(p, u)')
        /\ (\A p \in Posts, u \in Folk : Coming(p, u) => Coming(p, u)')
    BY <2>1, GateFits
  <2>4. ListenersFit' /\ RowsFit'
    BY <2>1, <2>3 DEF ListenersFit
  <2>5. CallsFit'
    <3>1. \A m \in Posts : called[m] \subseteq Folk
      BY DEF LogInv, LogTypes
    <3> QED BY <2>1, <2>3, <3>1 DEF LogInv, CallsFit
  <2>6. DeletionsFit' /\ MarksFit'
    BY <2>1 DEF LogInv, DeletionsFit, DeletionFits, Silent, NotedRows, Noters, Notes, MarksFit, ToMark
  <2> QED BY <2>2, <2>4, <2>5, <2>6 DEF LogInv
<1> QED BY <1>1, <1>2, <1>3, <1>4, <1>5, <1>6 DEF LogNext

\* It holds at the start.
LEMMA LogStart == LogInit => LogInv
<1> SUFFICES ASSUME LogInit PROVE LogInv
  OBVIOUS
<1>1. eventRows = <<>> /\ eventRows \in Seq(RowSet) /\ Len(eventRows) = 0 /\ DOMAIN eventRows = {}
  <2>1. eventRows = <<>> /\ eventRows \in Seq(RowSet) /\ Len(eventRows) = 0
    BY EmptySeq DEF LogInit
  <2>2. DOMAIN eventRows = 1..0
    BY <2>1, LenProperties
  <2> QED BY <2>1, <2>2
<1>2. LogTypes
  BY <1>1, LogAssumption DEF LogInit, LogTypes
<1>3. ListenersFit /\ RowsFit /\ CallsFit
  BY <1>1 DEF LogInit, ListenersFit, RowsFit, CallsFit
<1>4. DeletionsFit /\ MarksFit
  BY <1>1 DEF LogInit, DeletionsFit, DeletionFits, NotedRows, MarksFit
<1> QED BY <1>2, <1>3, <1>4 DEF LogInv

\* Of the rows that match, those left out have as many newer ones as are returned.
LEMMA NewestAre ==
  ASSUME LogTypes, NEW found \in SUBSET DOMAIN eventRows
  PROVE  /\ NewestRows(found) \subseteq found
         /\ \A k \in found \ NewestRows(found) : Cardinality({i \in found : i > k}) >= SearchLimit
<1>1. IsFiniteSet(DOMAIN eventRows)
  BY RowsAre, FS_Interval
<1>2. ASSUME NEW k \in found PROVE Cardinality({i \in found : i > k}) \in Nat
  <2>1. IsFiniteSet({i \in found : i > k})
    BY <1>1, FS_Subset
  <2> QED BY <2>1, FS_CardinalityType
<1>3. SearchLimit \in Nat
  BY LogAssumption
<1>4. ASSUME NEW k \in found \ NewestRows(found) PROVE Cardinality({i \in found : i > k}) >= SearchLimit
  <2>1. ~(Cardinality({i \in found : i > k}) < SearchLimit)
    BY DEF NewestRows
  <2> QED BY <1>2, <1>3, <2>1
<1> QED BY <1>4 DEF NewestRows

\* Newer rows of other messages crowd a row out.
LEMMA CrowdedBy ==
  ASSUME LogTypes, NEW u \in Folk, NEW m \in Posts, NEW k \in Of(m, Concerning(u)),
         NEW found \in SUBSET DOMAIN eventRows, Cardinality({i \in found : i > k}) >= SearchLimit,
         \A i \in found : i > k => i \in Concerning(u) /\ eventRows[i].about # {m}
  PROVE  Crowded(m, u)
<1> DEFINE newer == {i \in found : i > k}
           others == {i \in Concerning(u) \ Of(m, Concerning(u)) : i > k}
<1>1. Concerning(u) \subseteq DOMAIN eventRows
  BY DEF Concerning, Naming, Holding, ToAll, SinceJoined, OfTitle, MentionRows
<1>2. IsFiniteSet(others)
  <2>1. IsFiniteSet(DOMAIN eventRows)
    BY RowsAre, FS_Interval
  <2>2. others \in SUBSET DOMAIN eventRows
    BY <1>1
  <2> QED BY <2>1, <2>2, FS_Subset
<1>3. newer \subseteq others
  BY DEF Of
<1>4. Cardinality(newer) <= Cardinality(others) /\ IsFiniteSet(newer)
  BY <1>2, <1>3, FS_Subset
<1>5. Cardinality(newer) \in Nat /\ Cardinality(others) \in Nat /\ SearchLimit \in Nat
  BY <1>2, <1>4, FS_CardinalityType, LogAssumption
<1> HIDE DEF others
<1>6. Cardinality(others) >= SearchLimit
  BY <1>4, <1>5
<1> QED BY <1>6 DEF Crowded, others

\* The newest row of a message among some.
LEMMA LastOf ==
  ASSUME LogTypes, NEW found \in SUBSET DOMAIN eventRows, found # {}
  PROVE  Max(found) \in found /\ \A i \in found : i <= Max(found)
<1>1. Len(eventRows) \in Nat /\ found \in SUBSET (0 .. Len(eventRows))
  BY RowsAre
<1> QED BY <1>1, MaxIs

\* A search finds a row of the message that is no older than a given one, unless the
\* message is crowded out.
LEMMA FoundOrCrowded ==
  ASSUME LogTypes, NEW u \in Folk, NEW m \in Posts, NEW found \in SUBSET DOMAIN eventRows,
         NEW j \in Of(m, found), \A i \in found : i >= j => i \in Concerning(u)
  PROVE  (\E k \in Of(m, NewestRows(found)) : k >= j) \/ Crowded(m, u)
<1>1. Of(m, found) \in SUBSET DOMAIN eventRows
  BY DEF Of
<1>2. PICK k \in Of(m, found) : \A i \in Of(m, found) : i <= k
  BY <1>1, LastOf
<1>3. k >= j /\ k \in found /\ eventRows[k].about = {m} /\ found \subseteq Nat /\ j \in Nat
  BY <1>1, <1>2, RowsAre DEF Of
<1>4. CASE k \in NewestRows(found)
  BY <1>3, <1>4 DEF Of
<1>5. CASE k \notin NewestRows(found)
  <2>1. Cardinality({i \in found : i > k}) >= SearchLimit
    BY <1>3, <1>5, NewestAre
  <2>2. \A i \in found : i > k => i \in Concerning(u) /\ eventRows[i].about # {m}
    BY <1>2, <1>3 DEF Of
  <2>3. k \in Of(m, Concerning(u))
    BY <1>3 DEF Of
  <2> QED BY <2>1, <2>2, <2>3, CrowdedBy
<1> QED BY <1>4, <1>5

\* A message is shown by a row of its own that concerns the member.
LEMMA ShownConcerns ==
  ASSUME LogTypes, NEW u \in Folk, NEW m \in Posts, FirstFound(u, m) # {}
  PROVE  Max(FirstFound(u, m)) \in Of(m, Concerning(u))
<1>1. /\ Naming(u) \subseteq DOMAIN eventRows /\ Holding(u) \subseteq DOMAIN eventRows
      /\ ToAll \subseteq DOMAIN eventRows /\ \A t \in Titles : OfTitle(t) \subseteq DOMAIN eventRows
  BY DEF Naming, Holding, ToAll, OfTitle, MentionRows
<1>2. /\ NewestRows(Naming(u)) \subseteq Concerning(u) /\ NewestRows(Holding(u)) \subseteq Concerning(u)
      /\ SinceJoined(u, NewestRows(ToAll)) \subseteq Concerning(u)
  BY <1>1, NewestAre DEF Concerning, SinceJoined
<1>3. \A t \in Titles : u \in holders[t] => NewestRows(OfTitle(t)) \subseteq Concerning(u)
  BY <1>1, NewestAre DEF Concerning
<1>4. ByTitle(u, m) \subseteq Of(m, Concerning(u))
  <2> DEFINE titles == {t \in Titles : u \in holders[t] /\ Of(m, NewestRows(OfTitle(t))) # {}}
  <2>1. CASE titles = {}
    BY <2>1 DEF ByTitle
  <2>2. CASE titles # {}
    <3>1. PICK t \in titles : t = CHOOSE x \in titles : TRUE
      BY <2>2
    <3>2. ByTitle(u, m) = Of(m, NewestRows(OfTitle(t)))
      BY <2>2, <3>1 DEF ByTitle
    <3> QED BY <1>3, <3>2 DEF Of
  <2> QED BY <2>1, <2>2
<1>5. FirstFound(u, m) \subseteq Of(m, Concerning(u))
  <2>1. /\ Of(m, NewestRows(Naming(u))) \subseteq Of(m, Concerning(u))
        /\ Of(m, NewestRows(Holding(u))) \subseteq Of(m, Concerning(u))
        /\ Of(m, SinceJoined(u, NewestRows(ToAll))) \subseteq Of(m, Concerning(u))
    BY <1>2 DEF Of
  <2> QED BY <1>4, <2>1 DEF FirstFound, OrElse
<1>6. Of(m, Concerning(u)) \subseteq DOMAIN eventRows
  BY DEF Of, Concerning, Naming, Holding, ToAll, SinceJoined, OfTitle, MentionRows
<1>7. FirstFound(u, m) \in SUBSET DOMAIN eventRows
  BY <1>5, <1>6
<1> QED BY <1>5, <1>7, LastOf

\* A message is shown to whom a row of it concerns.
LEMMA FoundConcerns ==
  ASSUME LogTypes, NEW u \in Folk, NEW m \in PingsFor(u)
  PROVE  \E j \in Concerning(u) : m \in eventRows[j].about
<1>1. PICK j \in NewestRows(Shown(u)) : m \in eventRows[j].about
  BY DEF PingsFor
<1>2. PICK p \in Posts : FirstFound(u, p) # {} /\ j = Max(FirstFound(u, p))
  BY <1>1 DEF NewestRows, Shown
<1>3. j \in Concerning(u)
  BY <1>2, ShownConcerns DEF Of
<1> QED BY <1>1, <1>3

\* Whom a row tells of a message finds it, unless newer mentions crowd it out.
LEMMA ToldIsFound ==
  ASSUME LogTypes, NEW u \in Folk, NEW m \in Posts, Told(m, u)
  PROVE  m \in PingsFor(u) \/ Crowded(m, u)
<1>1. PICK j \in DOMAIN eventRows : Tells(eventRows[j], j, m, u)
  BY DEF Told
<1>2. j \in MentionRows /\ eventRows[j].about = {m}
  BY <1>1 DEF Tells, MentionRows
<1>3. FirstFound(u, m) # {} \/ Crowded(m, u)
  <2>1. CASE u \in eventRows[j].recipients
    <3>1. j \in Of(m, Holding(u)) /\ Holding(u) \in SUBSET DOMAIN eventRows
      BY <1>2, <2>1 DEF Of, Holding, MentionRows
    <3>2. \A i \in Holding(u) : i \in Concerning(u)
      BY DEF Concerning
    <3>3. Of(m, NewestRows(Holding(u))) # {} \/ Crowded(m, u)
      BY <3>1, <3>2, FoundOrCrowded
    <3> QED BY <3>3 DEF FirstFound, OrElse
  <2>2. CASE eventRows[j].call.kind = "everyone" /\ since[u] \in 1..j
    <3>1. j \in Of(m, ToAll) /\ ToAll \in SUBSET DOMAIN eventRows /\ j \in Nat /\ ToAll \subseteq Nat
      BY <1>2, <2>2, RowsAre DEF Of, ToAll, MentionRows
    <3>2. \A i \in ToAll : i >= j => since[u] \in 1..i /\ i \in Concerning(u)
      BY <2>2, <3>1 DEF Concerning, SinceJoined
    <3>3. (\E k \in Of(m, NewestRows(ToAll)) : k >= j) \/ Crowded(m, u)
      BY <3>1, <3>2, FoundOrCrowded
    <3>4. \A k \in Of(m, NewestRows(ToAll)) : k >= j => k \in Of(m, SinceJoined(u, NewestRows(ToAll)))
      BY <3>2 DEF Of, SinceJoined, NewestRows
    <3>5. Of(m, SinceJoined(u, NewestRows(ToAll))) # {} \/ Crowded(m, u)
      BY <3>3, <3>4
    <3> QED BY <3>5 DEF FirstFound, OrElse
  <2> QED BY <1>1, <2>1, <2>2 DEF Tells
<1>4. CASE FirstFound(u, m) # {}
  <2>1. PICK k : k = Max(FirstFound(u, m)) /\ k \in Of(m, Concerning(u))
    BY <1>4, ShownConcerns
  <2>2. k \in Shown(u) /\ eventRows[k].about = {m}
    BY <1>4, <2>1 DEF Shown, Of
  <2>3. ASSUME NEW i \in Shown(u)
        PROVE  /\ i \in Concerning(u) /\ i \in DOMAIN eventRows
               /\ i # k => eventRows[i].about # {m}
    <3>1. PICK p \in Posts : FirstFound(u, p) # {} /\ i = Max(FirstFound(u, p))
      BY DEF Shown
    <3>2. i \in Concerning(u) /\ eventRows[i].about = {p}
      BY <3>1, ShownConcerns DEF Of
    <3>3. i \in DOMAIN eventRows
      BY <3>2 DEF Concerning, Naming, Holding, ToAll, SinceJoined, OfTitle, MentionRows
    <3> QED BY <2>1, <3>1, <3>2, <3>3
  <2>4. CASE k \in NewestRows(Shown(u))
    BY <2>2, <2>4 DEF PingsFor
  <2>5. CASE k \notin NewestRows(Shown(u))
    <3>1. Shown(u) \in SUBSET DOMAIN eventRows
      BY <2>3
    <3>2. Cardinality({i \in Shown(u) : i > k}) >= SearchLimit
      BY <2>2, <2>5, <3>1, NewestAre
    <3>3. k \in Nat /\ \A i \in Shown(u) : i \in Nat
      BY <2>2, <2>3, RowsAre
    <3>4. \A i \in Shown(u) : i > k => i \in Concerning(u) /\ eventRows[i].about # {m}
      BY <2>3, <3>3
    <3> QED BY <2>1, <3>1, <3>2, <3>4, CrowdedBy
  <2> QED BY <2>4, <2>5
<1> QED BY <1>3, <1>4

\* What the invariant says of who is told, of the deletions and of the marks.
LEMMA LogHolds == LogInv => EventLogTrue
<1> SUFFICES ASSUME LogInv PROVE EventLogTrue
  OBVIOUS
<1> USE DEF LogInv
<1>1. /\ Len(eventRows) \in Nat /\ DOMAIN eventRows = 1..Len(eventRows)
      /\ \A i \in 1..Len(eventRows) : eventRows[i] \in RowSet
  BY RowsAre
<1>2. LogTypeOK
  <2>1. \A l \in listeners : l.about \subseteq Posts /\ l.stage \in {"record", "mention", "mark"}
    BY DEF LogTypes, WorkSet
  <2>2. \A i \in DOMAIN eventRows : eventRows[i].about \subseteq Posts /\ eventRows[i].recipients \subseteq Folk
    BY <1>1 DEF RowSet
  <2> QED BY <2>1, <2>2 DEF LogTypes, LogTypeOK
<1>3. PingsTold
  <2> SUFFICES ASSUME NEW m \in Posts \ (HiddenPosts \cup missed), NEW u \in Folk
               PROVE  /\ post[m] # "unsent" /\ ~AtWork(m, {"create"}) /\ u \in called[m] \ shifted[m]
                           => m \in PingsFor(u) \/ Crowded(m, u)
                      /\ m \in PingsFor(u) => \/ u \in called[m] \cup shifted[m]
                                              \/ \E c \in ToSet(Mentioned(m)) : c.kind = "role" /\ u \in holders[c.who]
    BY DEF PingsTold
  <2>1. ASSUME post[m] # "unsent", ~AtWork(m, {"create"}), u \in called[m] \ shifted[m]
        PROVE  m \in PingsFor(u) \/ Crowded(m, u)
    <3>1. Told(m, u)
      BY <2>1 DEF CallsFit, Coming, AtWork
    <3> QED BY <3>1, ToldIsFound
  <2>2. ASSUME m \in PingsFor(u)
        PROVE  \/ u \in called[m] \cup shifted[m]
               \/ \E c \in ToSet(Mentioned(m)) : c.kind = "role" /\ u \in holders[c.who]
    <3>1. PICK j \in Concerning(u) : m \in eventRows[j].about
      BY <2>2, FoundConcerns
    <3>2. /\ j \in DOMAIN eventRows /\ eventRows[j].kind = "message_mention"
          /\ \/ eventRows[j].call = [kind |-> "member", who |-> u]
             \/ u \in eventRows[j].recipients
             \/ \E t \in Titles : u \in holders[t] /\ eventRows[j].call = [kind |-> "role", who |-> t]
             \/ eventRows[j].call.kind = "everyone" /\ since[u] \in 1 .. j
      BY <3>1 DEF Concerning, Naming, Holding, ToAll, SinceJoined, OfTitle, MentionRows
    <3>3. PICK p \in Posts : MentionFits(eventRows[j], j, p)
      BY <3>2 DEF RowsFit, RowFits
    <3>4. p = m
      BY <3>1, <3>3 DEF MentionFits
    <3>5. MentionFits(eventRows[j], j, m)
      BY <3>3, <3>4
    <3>6. eventRows[j].call = [kind |-> "member", who |-> u] => u \in called[m]
      BY <3>5 DEF MentionFits, Sent, CallsFit
    <3>7. eventRows[j].call \in ToSet(Mentioned(m))
      BY <3>5 DEF MentionFits, Calls
    <3>8. u \in eventRows[j].recipients => u \in called[m] \cup shifted[m]
      BY <3>5 DEF MentionFits, Touched
    <3>9. eventRows[j].call.kind = "everyone" /\ since[u] \in 1 .. j => u \in called[m] \cup shifted[m]
      BY <3>5 DEF MentionFits, Touched
    <3>10. ASSUME NEW t \in Titles, u \in holders[t], eventRows[j].call = [kind |-> "role", who |-> t]
           PROVE  \E c \in ToSet(Mentioned(m)) : c.kind = "role" /\ u \in holders[c.who]
      <4>1. eventRows[j].call.kind = "role" /\ u \in holders[eventRows[j].call.who]
        BY <3>10
      <4> QED BY <3>7, <4>1
    <3> QED BY <3>2, <3>6, <3>8, <3>9, <3>10
  <2> QED BY <2>1, <2>2
<1>4. DeletionNoted
  <2> SUFFICES ASSUME NEW m \in Posts \ missed, post[m] = "gone", ~AtWork(m, {"gone", "raw", "bulk", "bulkraw"})
               PROVE  Cardinality(NotedRows(m)) = IF Silent(m) THEN 0 ELSE 1
    BY DEF DeletionNoted, NotedRows, Silent
  <2>1. Noters(m) = {}
    BY DEF AtWork, Noters, Notes
  <2>2. IF Silent(m) THEN NotedRows(m) = {} ELSE \E i \in DOMAIN eventRows : NotedRows(m) = {i}
    BY <2>1 DEF DeletionsFit, DeletionFits
  <2>3. Cardinality({}) = 0 /\ \A i : Cardinality({i}) = 1
    BY FS_EmptySet, FS_Singleton
  <2> QED BY <2>2, <2>3
<1>5. MarksFollow
  <2> SUFFICES ASSUME NEW i \in DOMAIN eventRows, NEW m \in eventRows[i].about
               PROVE  /\ eventRows[i].deleted => post[m] = "gone"
                      /\ post[m] = "gone" /\ m \notin missed /\ i <= goneAt[m]
                         /\ ~AtWork(m, {"gone", "raw", "bulk", "bulkraw"}) => eventRows[i].deleted
    BY DEF MarksFollow
  <2>1. m \in Posts
    BY <1>1 DEF RowSet
  <2>2. eventRows[i].deleted => post[m] = "gone"
    BY DEF RowsFit, RowFits
  <2>3. ASSUME post[m] = "gone", m \notin missed, i <= goneAt[m], ~AtWork(m, {"gone", "raw", "bulk", "bulkraw"})
        PROVE  eventRows[i].deleted
    <3>1. i \in 1..goneAt[m]
      BY <1>1, <2>1, <2>3 DEF LogTypes
    <3>2. ~ToMark(m)
      BY <2>3 DEF AtWork, ToMark, Deleters
    <3> QED BY <2>1, <2>3, <3>1, <3>2 DEF MarksFit
  <2> QED BY <2>2, <2>3
<1> QED BY <1>2, <1>3, <1>4, <1>5 DEF EventLogTrue

\* The log tells everyone a message's recorded mentions called, until newer ones of him
\* fill a search, and nobody else; it keeps one row of every deletion and marks what was
\* deleted (logging_events.py:507-594, pos_ai.py:3172-3229).
THEOREM EventsAreTrue == LogSpec => []EventLogTrue
<1>1. LogInit => LogInv
  BY LogStart
<1>2. LogInv /\ [LogNext]_logVars => LogInv'
  BY LogStep
<1>3. LogInv => EventLogTrue
  BY LogHolds
<1> QED BY <1>1, <1>2, <1>3, PTL DEF LogSpec

-----------------------------------------------------------------------------
(* What P.OS remembers.  A list is in memory as it should be or else in its  *)
(* row; for that, the rows on their way must settle each row as the list is  *)
(* in memory, nothing that is needed may leave the memory, and a task that   *)
(* forgets must know which lists still hold what it forgets.                 *)

\* A list of different messages, in an author's list his own.
Fits(s, list) ==
  /\ list \in Seq(Messages) /\ IsInjective(list)
  /\ s \in Users => \A i \in DOMAIN list : AuthorOf[list[i]] = s

\* What a task may be at: a list it has to change, or the stage of a flush.
Fetching ==
  [op : {"remember", "forget"}, ms : SUBSET Messages, at : Lists, todo : SUBSET Users]
Flushing == [op : {"flush"}, ms : {{}}, at : {"first", "second"}, todo : SUBSET Lists]

\* What the lists, the tasks and the rows on their way are.
MemTypes ==
  /\ cache \in [Lists -> Seq(Messages) \cup {NotLoaded}]
  /\ stored \in [Lists -> Seq(Messages)] /\ truth \in [Lists -> Seq(Messages)]
  /\ \A s \in Lists : (Loaded(s) => Fits(s, cache[s])) /\ Fits(s, stored[s]) /\ Fits(s, truth[s])
  /\ dirty \subseteq Lists /\ torn \subseteq Users /\ erased \subseteq Messages
  /\ queue \in [Lists -> Seq(Writers)] /\ task \in [Writers -> {Resting} \cup Fetching \cup Flushing]
  /\ writes \in Seq([by : Writers, slot : Lists, data : Seq(Messages)])
  /\ \A i \in DOMAIN writes : Fits(writes[i].slot, writes[i].data)

\* A task at the guild's list knows no authors yet, one at an author's list has that
\* one among those it has to change; what is remembered is one message.
TaskFits(w) ==
  /\ task[w].at = GuildSlot => task[w].todo = {}
  /\ task[w].at \in Users => task[w].at \in task[w].todo
  /\ task[w].op = "remember" =>
       \E m \in Messages : task[w].ms = {m} /\ task[w].todo \subseteq {AuthorOf[m]}

\* A task waits at the lock of the list it is at only, and there once.
Waiting ==
  \A s \in Lists : IsInjective(queue[s]) /\ \A i \in DOMAIN queue[s] : task[queue[s][i]].at = s

\* Each row on its way is of a flush, and a flush has one.
OneEach ==
  /\ \A i \in DOMAIN writes : task[writes[i].by].op = "flush"
  /\ \A i, j \in DOMAIN writes : writes[i].by = writes[j].by => i = j

\* What is marked, on its way to its row or yet to be flushed is in memory, unless it
\* was dropped while in use.
NeededInMemory ==
  \A s \in Lists \ torn :
    /\ s \in dirty => Loaded(s)
    /\ \A i \in DOMAIN writes : writes[i].slot = s => Loaded(s)
    /\ \A w \in Writers : task[w].op = "flush" /\ s \in task[w].todo => Loaded(s)

\* What the row of a list will be when the rows on their way W are written to R.
Settled(R, W, s, list) ==
  /\ (\A i \in DOMAIN W : W[i].slot # s) => R[s] = list
  /\ \A i \in DOMAIN W :
       W[i].slot = s /\ (\A j \in DOMAIN W : j > i => W[j].slot # s) => W[i].data = list

\* A list in memory that is not marked will be in its row as it is.
WillBeSaved ==
  \A s \in Lists \ (dirty \cup torn) : Loaded(s) => Settled(stored, writes, s, cache[s])

\* What is being remembered is not what was forgotten for good; that is in a list
\* only as long as a task still has to take it from there.
Leaving ==
  /\ \A w \in Writers : task[w].op = "remember" => task[w].ms \cap erased = {}
  /\ \A s \in Lists \ torn : \A m \in erased \cap ToSet(truth[s]) :
       \E w \in Writers : task[w].op = "forget" /\ m \in task[w].ms /\ s \in task[w].todo

\* The inductive invariant of the memory.
MemInv ==
  /\ MemTypes /\ (\A w \in Writers : TaskFits(w)) /\ Waiting /\ OneEach
  /\ NeededInMemory /\ MemoryKept /\ WillBeSaved /\ Leaving

\* Forgetting takes the messages from a list and nothing else.
LEMMA ForgottenIs ==
  ASSUME NEW s \in Lists, NEW list, Fits(s, list), NEW ms
  PROVE  Fits(s, Forgotten(list, ms)) /\ ToSet(Forgotten(list, ms)) = ToSet(list) \ ms
<1> DEFINE left == OnlyFrom(list, Messages \ ms)
<1>1. list \in Seq(Messages) /\ IsInjective(list)
  BY DEF Fits
<1>2. left \in Seq(Messages) /\ IsInjective(left) /\ ToSet(left) = ToSet(list) \cap (Messages \ ms)
  BY <1>1, OnlyFromIs
<1>3. ToSet(list) \subseteq Messages
  BY <1>1, ListOf DEF ToSet
<1> HIDE DEF left
<1>4. ToSet(left) = ToSet(list) \ ms
  BY <1>2, <1>3
<1>5. ASSUME s \in Users, NEW i \in DOMAIN left
      PROVE  AuthorOf[left[i]] = s
  <2>1. left[i] \in ToSet(list)
    BY <1>4 DEF ToSet
  <2> QED BY <1>5, <2>1 DEF Fits, ToSet
<1>6. Fits(s, left)
  BY <1>2, <1>5 DEF Fits
<1> QED BY <1>4, <1>6 DEF left, Forgotten

\* A part of a list fits where the list does.
LEMMA PartFits ==
  ASSUME NEW s \in Lists, NEW list, Fits(s, list), NEW part \in Seq(Messages), IsInjective(part),
         ToSet(part) \subseteq ToSet(list)
  PROVE  Fits(s, part)
<1>1. ASSUME s \in Users, NEW i \in DOMAIN part
      PROVE  AuthorOf[part[i]] = s
  <2>1. part[i] \in ToSet(list)
    BY DEF ToSet
  <2> QED BY <1>1, <2>1 DEF Fits, ToSet
<1> QED BY <1>1 DEF Fits

\* What is remembered is in the list once, and an old message leaves for it at most.
LEMMA RememberedIs ==
  ASSUME NEW s \in Lists, NEW list, Fits(s, list), NEW m \in Messages,
         s \in Users => AuthorOf[m] = s
  PROVE  /\ Fits(s, Remembered(s, list, m))
         /\ ToSet(Remembered(s, list, m)) \subseteq ToSet(list) \cup {m}
<1> DEFINE others == Forgotten(list, {m})
           longer == Append(others, m)
<1>1. Fits(s, others) /\ ToSet(others) = ToSet(list) \ {m}
  BY ForgottenIs
<1> HIDE DEF others
<1>2. others \in Seq(Messages) /\ IsInjective(others) /\ m \notin ToSet(others)
  BY <1>1 DEF Fits
<1>3. longer \in Seq(Messages) /\ IsInjective(longer) /\ ToSet(longer) = ToSet(others) \cup {m}
  <2>1. others \in Seq(Messages)
    BY <1>2
  <2>2. /\ Append(others, m) \in Seq(Messages)
        /\ ToSet(Append(others, m)) = ToSet(others) \cup {m}
        /\ IsInjective(others) /\ m \notin ToSet(others) => IsInjective(Append(others, m))
    BY <2>1, AddedIs
  <2> QED BY <1>2, <2>2
<1> HIDE DEF longer
<1>a. longer \in Seq(Messages)
  BY <1>3
<1>4. Fits(s, longer) /\ ToSet(longer) = ToSet(list) \cup {m}
  <2>1. ToSet(longer) = ToSet(list) \cup {m}
    BY <1>1, <1>3
  <2>2. ASSUME s \in Users, NEW i \in DOMAIN longer
        PROVE  AuthorOf[longer[i]] = s
    <3>1. longer[i] \in ToSet(others) \/ longer[i] = m
      BY <1>3 DEF ToSet
    <3> QED BY <1>1, <2>2, <3>1 DEF Fits, ToSet
  <2> QED BY <1>3, <2>1, <2>2 DEF Fits
<1>5. Len(longer) \in Nat
  BY <1>3, ListOf
<1>6. Fits(s, PruneGuild(longer)) /\ ToSet(PruneGuild(longer)) \subseteq ToSet(longer)
  <2> DEFINE newer(i) == Cardinality({j \in i + 1 .. Len(longer) :
                                        ChannelOf[longer[j]] = ChannelOf[longer[i]]})
             kept == {i \in 1 .. Len(longer) : newer(i) < PerChannel}
             last == {i \in kept : Cardinality({j \in kept : j > i}) < PerGuild}
  <2>1. PruneGuild(longer) = AtPositions(longer, last)
    BY DEF PruneGuild
  <2>2. last \in SUBSET (1 .. Len(longer))
    OBVIOUS
  <2> HIDE DEF last
  <2>3. DOMAIN longer = 1 .. Len(longer)
    BY <1>3, ListOf
  <2>4. \A i, j \in last : longer[i] = longer[j] => i = j
    BY <1>3, <2>2, <2>3 DEF IsInjective
  <2>5. AtPositions(longer, last) \in Seq(Messages)
    BY <1>3, <2>2, StayingAre
  <2>6. /\ IsInjective(AtPositions(longer, last))
        /\ ToSet(AtPositions(longer, last)) = {longer[i] : i \in last}
    <3>1. /\ (\A i, j \in last : longer[i] = longer[j] => i = j) =>
                IsInjective(AtPositions(longer, last))
          /\ ToSet(AtPositions(longer, last)) = {longer[i] : i \in last}
      BY <1>a, <2>2, StayingHold
    <3> QED BY <2>4, <3>1
  <2>7. ToSet(AtPositions(longer, last)) \subseteq ToSet(longer)
    BY <2>2, <2>3, <2>6 DEF ToSet
  <2>8. Fits(s, AtPositions(longer, last))
    BY <1>4, <2>5, <2>6, <2>7, PartFits
  <2> QED BY <2>1, <2>7, <2>8
<1>7. Fits(s, Newest(longer, PerUser)) /\ ToSet(Newest(longer, PerUser)) \subseteq ToSet(longer)
  <2>1. CASE Len(longer) > PerUser
    <3> DEFINE from == Len(longer) - PerUser + 1
    <3>1. from \in Nat /\ from >= 1
      <4>1. PerUser \in Nat
        BY MemoryAssumption
      <4> QED BY <1>5, <2>1, <4>1
    <3>2. Newest(longer, PerUser) = SubSeq(longer, from, Len(longer))
      BY <2>1 DEF Newest
    <3> HIDE DEF from
    <3>3. /\ SubSeq(longer, from, Len(longer)) \in Seq(Messages)
          /\ IsInjective(SubSeq(longer, from, Len(longer)))
          /\ ToSet(SubSeq(longer, from, Len(longer))) \subseteq ToSet(longer)
      <4>1. /\ SubSeq(longer, from, Len(longer)) \in Seq(Messages)
            /\ ToSet(SubSeq(longer, from, Len(longer))) \subseteq ToSet(longer)
            /\ IsInjective(longer) => IsInjective(SubSeq(longer, from, Len(longer)))
        BY <1>a, <1>5, <3>1, Len(longer) <= Len(longer), PartIs
      <4> QED BY <1>3, <4>1
    <3>4. Fits(s, SubSeq(longer, from, Len(longer)))
      BY <1>4, <3>3, PartFits
    <3> QED BY <3>2, <3>3, <3>4
  <2>2. CASE ~ (Len(longer) > PerUser)
    BY <1>4, <2>2 DEF Newest
  <2> QED BY <2>1, <2>2
<1>8. Remembered(s, list, m) \in {PruneGuild(longer), Newest(longer, PerUser)}
  BY DEF Remembered, Upserted, longer, others
<1> QED BY <1>4, <1>6, <1>7, <1>8

\* The kinds of tasks, told apart by what they do and where they are.
LEMMA TaskKinds ==
  ASSUME MemTypes, NEW w \in Writers
  PROVE  /\ task[w] \in {Resting} \cup Fetching \cup Flushing
         /\ task[w].op \in {"none", "remember", "forget", "flush"}
         /\ task[w].ms \subseteq Messages /\ task[w].todo \subseteq Lists
         /\ task[w].at \in Lists <=> task[w] \in Fetching
         /\ task[w].op \in {"remember", "forget"} <=> task[w] \in Fetching
         /\ task[w].op = "flush" <=> task[w] \in Flushing
         /\ task[w].op = "none" <=> task[w] = Resting
         /\ GuildSlot \notin Users /\ "none" \notin Lists
<1>1. task[w] \in {Resting} \cup Fetching \cup Flushing
  BY DEF MemTypes
<1>2. GuildSlot \notin Users /\ {"none", "first", "second"} \cap Lists = {}
  BY MemoryAssumption DEF GuildSlot, Lists
<1>3. CASE task[w] = Resting
  <2>1. task[w].op = "none" /\ task[w].at = "none" /\ task[w].ms = {} /\ task[w].todo = {}
    BY <1>3 DEF Resting
  <2>2. task[w] \notin Fetching /\ task[w] \notin Flushing
    BY <2>1 DEF Fetching, Flushing
  <2> QED BY <1>2, <1>3, <2>1, <2>2
<1>4. CASE task[w] \in Fetching
  <2>1. /\ task[w].op \in {"remember", "forget"} /\ task[w].at \in Lists
        /\ task[w].ms \subseteq Messages /\ task[w].todo \subseteq Users
    BY <1>4 DEF Fetching
  <2>2. task[w] # Resting /\ task[w] \notin Flushing
    BY <2>1 DEF Resting, Flushing
  <2>3. task[w].todo \subseteq Lists
    BY <2>1 DEF Lists
  <2> QED BY <1>2, <1>4, <2>1, <2>2, <2>3
<1>5. CASE task[w] \in Flushing
  <2>1. /\ task[w].op = "flush" /\ task[w].at \in {"first", "second"}
        /\ task[w].ms = {} /\ task[w].todo \subseteq Lists
    BY <1>5 DEF Flushing
  <2>2. task[w] # Resting /\ task[w] \notin Fetching
    BY <2>1 DEF Resting, Fetching
  <2> QED BY <1>2, <1>5, <2>1, <2>2
<1> QED BY <1>1, <1>3, <1>4, <1>5

\* The lists a task changes: the one it is at and those of authors after it.
LEMMA AfterAre ==
  ASSUME MemTypes, NEW w \in Writers, TaskFits(w), NEW s \in Lists, task[w].at = s
  PROVE  /\ ListsAfter(w, s) \subseteq Users /\ s \notin ListsAfter(w, s)
         /\ task[w].op = "remember" =>
              \E m \in Messages : /\ task[w].ms = {m}
                                  /\ \A x \in ListsAfter(w, s) \cup {s} : x \in Users => AuthorOf[m] = x
<1>1. task[w] \in Fetching /\ GuildSlot \notin Users
  BY TaskKinds
<1>2. task[w].todo \subseteq Users /\ task[w].ms \subseteq Messages
  BY <1>1 DEF Fetching
<1>3. AuthorOf \in [Messages -> Users]
  BY MemoryAssumption
<1>4. ListsAfter(w, s) \subseteq Users
  BY <1>2, <1>3 DEF ListsAfter
<1>5. s \notin ListsAfter(w, s)
  BY <1>1, <1>4 DEF ListsAfter
<1>6. ASSUME task[w].op = "remember"
      PROVE  \E m \in Messages : /\ task[w].ms = {m}
                                 /\ \A x \in ListsAfter(w, s) \cup {s} : x \in Users => AuthorOf[m] = x
  <2>1. PICK m \in Messages : task[w].ms = {m} /\ task[w].todo \subseteq {AuthorOf[m]}
    BY <1>6 DEF TaskFits
  <2>2. s \in Users => AuthorOf[m] = s
    BY <2>1 DEF TaskFits
  <2>3. ASSUME NEW x \in ListsAfter(w, s)
        PROVE  AuthorOf[m] = x
    BY <1>6, <2>1 DEF ListsAfter
  <2> QED BY <2>1, <2>2, <2>3
<1> QED BY <1>4, <1>5, <1>6

\* What a task does to a list: it adds its message, or takes its messages away.
LEMMA ChangedIs ==
  ASSUME MemTypes, NEW w \in Writers, TaskFits(w), NEW s \in Lists, task[w].at = s,
         NEW x \in ListsAfter(w, s) \cup {s}, NEW list, Fits(x, list)
  PROVE  /\ Fits(x, Changed(w, x, list))
         /\ task[w].op = "remember" => ToSet(Changed(w, x, list)) \subseteq ToSet(list) \cup task[w].ms
         /\ task[w].op = "forget" => ToSet(Changed(w, x, list)) = ToSet(list) \ task[w].ms
<1>1. x \in Lists
  BY AfterAre DEF Lists
<1>2. task[w].op \in {"remember", "forget"}
  BY TaskKinds
<1>3. CASE task[w].op = "remember"
  <2>a. \E m \in Messages : /\ task[w].ms = {m}
                             /\ \A y \in ListsAfter(w, s) \cup {s} : y \in Users => AuthorOf[m] = y
    BY <1>3, AfterAre
  <2>1. PICK m \in Messages : task[w].ms = {m} /\ (x \in Users => AuthorOf[m] = x)
    BY <2>a
  <2>2. Changed(w, x, list) = Remembered(x, list, m)
    BY <1>3, <2>1 DEF Changed
  <2>3. /\ Fits(x, Remembered(x, list, m))
        /\ ToSet(Remembered(x, list, m)) \subseteq ToSet(list) \cup {m}
    BY <1>1, <2>1, RememberedIs
  <2> QED BY <1>3, <2>1, <2>2, <2>3
<1>4. CASE task[w].op = "forget"
  <2>1. Changed(w, x, list) = Forgotten(list, task[w].ms)
    BY <1>4 DEF Changed
  <2>2. /\ Fits(x, Forgotten(list, task[w].ms))
        /\ ToSet(Forgotten(list, task[w].ms)) = ToSet(list) \ task[w].ms
    BY <1>1, ForgottenIs
  <2> QED BY <1>4, <2>1, <2>2
<1> QED BY <1>2, <1>3, <1>4

\* A list in memory is not the mark of one that is not.
LEMMA InMemory ==
  /\ \A l \in Seq(Messages) : l # NotLoaded
  /\ GuildSlot \in Lists /\ Users \subseteq Lists
<1>1. ASSUME NotLoaded \in Seq(Messages) PROVE FALSE
  <2> DEFINE size == Len(NotLoaded)
  <2>1. size = 1
    BY DEF NotLoaded
  <2>3. NotLoaded[1] = "not loaded"
    BY DEF NotLoaded
  <2>2. NotLoaded[1] \in Messages
    <3>1. \A i \in 1 .. size : NotLoaded[i] \in Messages
      BY <1>1, ListOf
    <3> HIDE DEF size
    <3>2. 1 \in 1 .. size
      BY <2>1
    <3> QED BY <3>1, <3>2
  <2> QED BY <2>2, <2>3, MemoryAssumption
<1> QED BY <1>1 DEF Lists

\* What a list is, in memory or in its row, is one that fits.
LEMMA ViewFits ==
  ASSUME MemTypes, NEW s \in Lists
  PROVE  Fits(s, View(s)) /\ View(s) \in Seq(Messages)
BY DEF MemTypes, View, Fits

\* A row on its way has its flush, its list and what is written.
LEMMA WriteIs ==
  ASSUME MemTypes, NEW i \in DOMAIN writes
  PROVE  /\ writes[i].by \in Writers /\ writes[i].slot \in Lists
         /\ Fits(writes[i].slot, writes[i].data) /\ writes[i].data \in Seq(Messages)
<1> DEFINE Rows == [by : Writers, slot : Lists, data : Seq(Messages)]
<1>1. writes \in Seq(Rows)
  BY DEF MemTypes
<1>2. writes[i] \in Rows
  <2> HIDE DEF Rows
  <2>1. DOMAIN writes = 1 .. Len(writes) /\ \A j \in 1 .. Len(writes) : writes[j] \in Rows
    BY <1>1, ListOf
  <2> QED BY <2>1
<1> QED BY <1>2 DEF MemTypes

\* A message arrives: the task that takes it is at no list yet.
LEMMA ArriveStep ==
  ASSUME MemInv, NEW w \in Writers, NEW op \in {"remember", "forget"}, NEW ms \in SUBSET Messages,
         op = "remember" => \E m \in Messages : ms = {m},
         Arrive(w, op, ms)
  PROVE  MemInv'
<1> DEFINE t == [op |-> op, ms |-> ms, at |-> GuildSlot, todo |-> {}]
<1>1. MemTypes /\ Waiting /\ OneEach /\ NeededInMemory /\ MemoryKept /\ WillBeSaved /\ Leaving
  BY DEF MemInv
<1>2. \A x \in Writers : TaskFits(x)
  BY DEF MemInv
<1>3. /\ cache' = cache /\ stored' = stored /\ dirty' = dirty /\ queue' = queue
      /\ writes' = writes /\ truth' = truth /\ torn' = torn
      /\ task[w] = Resting /\ erased' = IF op = "remember" THEN erased \ ms ELSE erased
  BY DEF Arrive
<1>4. task' = [task EXCEPT ![w] = t]
  BY DEF Arrive
<1>5. t \in Fetching
  BY InMemory DEF Fetching
<1>6. t.op = op /\ t.ms = ms /\ t.at = GuildSlot /\ t.todo = {}
  OBVIOUS
<1> HIDE DEF t
<1>7. task \in [Writers -> {Resting} \cup Fetching \cup Flushing]
  BY <1>1 DEF MemTypes
<1>8. /\ task' \in [Writers -> {Resting} \cup Fetching \cup Flushing] /\ task'[w] = t
      /\ \A x \in Writers : x # w => task'[x] = task[x]
  BY <1>4, <1>5, <1>7
<1>9. task[w].op = "none" /\ task[w].at \notin Lists /\ GuildSlot \notin Users
  BY <1>1, <1>3, TaskKinds
<1>10. MemTypes'
  <2>1. erased' \subseteq Messages
    BY <1>1, <1>3 DEF MemTypes
  <2> QED BY <1>1, <1>3, <1>8, <2>1 DEF MemTypes, Loaded
<1>11. ASSUME NEW x \in Writers PROVE TaskFits(x)'
  <2>1. CASE x = w
    BY <1>6, <1>8, <1>9, <2>1 DEF TaskFits
  <2>2. CASE x # w
    <3>1. TaskFits(x) /\ task'[x] = task[x]
      BY <1>2, <1>8, <2>2
    <3> QED BY <3>1 DEF TaskFits
  <2> QED BY <2>1, <2>2
<1>12. Waiting'
  <2>1. ASSUME NEW s \in Lists, NEW i \in DOMAIN queue[s] PROVE task'[queue[s][i]].at = s
    <3>1. task[queue[s][i]].at = s
      BY <1>1 DEF Waiting
    <3>2. queue[s][i] \in Writers
      BY <1>1, ListOf DEF MemTypes
    <3> QED BY <1>8, <1>9, <3>1, <3>2
  <2> QED BY <1>1, <1>3, <2>1 DEF Waiting
<1>13. OneEach'
  <2>1. ASSUME NEW i \in DOMAIN writes PROVE task'[writes[i].by].op = "flush"
    <3>1. task[writes[i].by].op = "flush"
      BY <1>1 DEF OneEach
    <3>2. writes[i].by \in Writers
      BY <1>1, WriteIs
    <3> QED BY <1>8, <1>9, <3>1, <3>2
  <2> QED BY <1>1, <1>3, <2>1 DEF OneEach
<1>14. NeededInMemory'
  <2>1. \A x \in Writers : task'[x].op = "flush" => task'[x] = task[x]
    BY <1>6, <1>8
  <2> QED BY <1>1, <1>3, <2>1 DEF NeededInMemory, Loaded
<1>15. MemoryKept' /\ WillBeSaved'
  BY <1>1, <1>3 DEF MemoryKept, WillBeSaved, View, Loaded
<1>16. Leaving'
  <2>1. erased' \subseteq erased /\ (op = "remember" => ms \cap erased' = {})
    BY <1>3
  <2>2. ASSUME NEW x \in Writers, task'[x].op = "remember" PROVE task'[x].ms \cap erased' = {}
    <3>1. CASE x = w
      BY <1>6, <1>8, <2>1, <2>2, <3>1
    <3>2. CASE x # w
      BY <1>1, <1>8, <2>1, <2>2, <3>2 DEF Leaving
    <3> QED BY <3>1, <3>2
  <2>3. ASSUME NEW s \in Lists \ torn, NEW m \in erased' \cap ToSet(truth[s])
        PROVE  \E x \in Writers : task'[x].op = "forget" /\ m \in task'[x].ms /\ s \in task'[x].todo
    <3>1. PICK x \in Writers : task[x].op = "forget" /\ m \in task[x].ms /\ s \in task[x].todo
      BY <1>1, <2>1 DEF Leaving
    <3>2. x # w
      BY <1>9, <3>1
    <3> QED BY <1>8, <3>1, <3>2
  <2> QED BY <1>3, <2>2, <2>3 DEF Leaving
<1> QED BY <1>10, <1>11, <1>12, <1>13, <1>14, <1>15, <1>16 DEF MemInv

\* A task lines up at the lock of the guild's list.
LEMMA LineUpStep ==
  ASSUME MemInv, NEW w \in Writers, LineUp(w)
  PROVE  MemInv'
<1>1. MemTypes /\ Waiting /\ OneEach /\ NeededInMemory /\ MemoryKept /\ WillBeSaved /\ Leaving
  BY DEF MemInv
<1>2. /\ cache' = cache /\ stored' = stored /\ dirty' = dirty /\ task' = task
      /\ writes' = writes /\ truth' = truth /\ torn' = torn /\ erased' = erased
  BY DEF LineUp, memHistory
<1>3. /\ task[w].at = GuildSlot /\ w \notin ToSet(queue[GuildSlot])
      /\ queue' = [queue EXCEPT ![GuildSlot] = Append(queue[GuildSlot], w)]
  BY DEF LineUp
<1>4. queue \in [Lists -> Seq(Writers)] /\ GuildSlot \in Lists
  BY <1>1, InMemory DEF MemTypes
<1>5. PICK q \in Seq(Writers) : q = queue[GuildSlot]
  BY <1>4
<1>6. /\ Append(q, w) \in Seq(Writers) /\ DOMAIN Append(q, w) = 1 .. Len(q) + 1
      /\ \A i \in DOMAIN q : Append(q, w)[i] = q[i]
      /\ Append(q, w)[Len(q) + 1] = w
      /\ IsInjective(q) /\ w \notin ToSet(q) => IsInjective(Append(q, w))
  BY AddedIs
<1>7. DOMAIN q = 1 .. Len(q) /\ Len(q) \in Nat
  BY ListOf
<1>8. /\ queue' \in [Lists -> Seq(Writers)] /\ queue'[GuildSlot] = Append(q, w)
      /\ \A s \in Lists : s # GuildSlot => queue'[s] = queue[s]
  BY <1>3, <1>4, <1>5, <1>6
<1>9. MemTypes'
  BY <1>1, <1>2, <1>8 DEF MemTypes, Loaded
<1>10. Waiting'
  <2>1. ASSUME NEW s \in Lists, s # GuildSlot
        PROVE  IsInjective(queue'[s]) /\ \A i \in DOMAIN queue'[s] : task[queue'[s][i]].at = s
    BY <1>1, <1>8, <2>1 DEF Waiting
  <2>2. IsInjective(Append(q, w))
    BY <1>1, <1>3, <1>4, <1>5, <1>6 DEF Waiting
  <2>3. ASSUME NEW i \in DOMAIN Append(q, w) PROVE task[Append(q, w)[i]].at = GuildSlot
    <3>1. CASE i \in DOMAIN q
      BY <1>1, <1>4, <1>5, <1>6, <3>1 DEF Waiting
    <3>2. CASE i = Len(q) + 1
      BY <1>3, <1>6, <3>2
    <3>3. i \in DOMAIN q \/ i = Len(q) + 1
      BY <1>6, <1>7
    <3> QED BY <3>1, <3>2, <3>3
  <2>4. ASSUME NEW s \in Lists
        PROVE  IsInjective(queue'[s]) /\ \A i \in DOMAIN queue'[s] : task[queue'[s][i]].at = s
    <3>1. CASE s = GuildSlot
      BY <1>8, <2>2, <2>3, <3>1
    <3> QED BY <2>1, <3>1
  <2> QED BY <1>2, <2>4 DEF Waiting
<1>11. (\A x \in Writers : TaskFits(x))'
  <2>1. \A x \in Writers : TaskFits(x)
    BY DEF MemInv
  <2> QED BY <1>2, <2>1 DEF TaskFits
<1>12. OneEach' /\ NeededInMemory'
  BY <1>1, <1>2 DEF OneEach, NeededInMemory, Loaded
<1>13. MemoryKept' /\ WillBeSaved'
  BY <1>1, <1>2 DEF MemoryKept, WillBeSaved, View, Loaded
<1>14. Leaving'
  BY <1>1, <1>2 DEF Leaving
<1> QED BY <1>9, <1>10, <1>11, <1>12, <1>13, <1>14 DEF MemInv

\* What work on the lists `done` does to all lists and their marks.
Does(w, s, done) ==
  /\ s \in Lists /\ task[w].at = s /\ s \in done /\ done \subseteq ListsAfter(w, s) \cup {s}
  /\ cache' = [x \in Lists |-> IF x \in done THEN Changed(w, x, View(x)) ELSE cache[x]]
  /\ truth' = [x \in Lists |-> IF x \in done THEN Changed(w, x, truth[x]) ELSE truth[x]]
  /\ dirty' = dirty \cup {x \in done : task[w].op = "remember" \/ Changed(w, x, View(x)) # View(x)}
  /\ erased' = IF s = GuildSlot THEN Erased(w) ELSE erased
  /\ stored' = stored /\ writes' = writes /\ torn' = torn

\* The locks when the task has left the one it was at.
Unlocked(w, s) == [queue EXCEPT ![s] = IF w \in ToSet(queue[s]) THEN Tail(queue[s]) ELSE queue[s]]

\* Where the task is afterwards: at rest, or at the lock of a list not in memory.
WorksOn(w, s, done) ==
  LET left == ListsAfter(w, s) \ done
      lined == Unlocked(w, s)
  IN /\ MayReach(w, s)
     /\ \/ left = {} /\ task' = [task EXCEPT ![w] = Resting] /\ queue' = lined
        \/ \E x \in left :
             /\ task' = [task EXCEPT ![w] = [task[w] EXCEPT !.at = x, !.todo = left]]
             /\ queue' = [lined EXCEPT ![x] = Append(lined[x], w)]

\* Work is one change of some lists, the others loaded already.
LEMMA WorkIs ==
  ASSUME MemInv, NEW w \in Writers, Work(w)
  PROVE  \E done \in SUBSET Lists : Does(w, task[w].at, done) /\ WorksOn(w, task[w].at, done)
<1>1. MemTypes /\ TaskFits(w)
  BY DEF MemInv
<1> DEFINE s == task[w].at
           lists == [cache EXCEPT ![s] = View(s)]
           lined == [queue EXCEPT ![s] = IF w \in ToSet(@) THEN Tail(@) ELSE @]
           new(done) == [x \in Lists |-> IF x \in done THEN Changed(w, x, lists[x]) ELSE lists[x]]
<1>2. s \in Lists /\ MayReach(w, s)
  BY DEF Work
<1>3. PICK now \in SUBSET {x \in ListsAfter(w, s) : Loaded(x)} :
        /\ cache' = new({s} \cup now)
        /\ truth' = [x \in Lists |-> IF x \in {s} \cup now THEN Changed(w, x, truth[x]) ELSE truth[x]]
        /\ dirty' = dirty \cup {x \in {s} \cup now :
                                  task[w].op = "remember" \/ new({s} \cup now)[x] # lists[x]}
        /\ \/ /\ ListsAfter(w, s) \ now = {}
              /\ task' = [task EXCEPT ![w] = Resting] /\ queue' = lined
           \/ \E x \in ListsAfter(w, s) \ now :
                /\ task' = [task EXCEPT ![w].at = x, ![w].todo = ListsAfter(w, s) \ now]
                /\ queue' = [lined EXCEPT ![x] = Append(@, w)]
  BY DEF Work
<1>4. /\ erased' = IF s = GuildSlot THEN Erased(w) ELSE erased
      /\ stored' = stored /\ writes' = writes /\ torn' = torn
  BY DEF Work
<1> DEFINE done == {s} \cup now
<1>5. ListsAfter(w, s) \subseteq Users /\ s \notin ListsAfter(w, s)
  BY <1>1, <1>2, AfterAre
<1>6. done \in SUBSET Lists /\ done \subseteq ListsAfter(w, s) \cup {s} /\ s \in done
  BY <1>2, <1>5, InMemory
<1>7. ListsAfter(w, s) \ now = ListsAfter(w, s) \ done
  BY <1>5
<1>8. cache \in [Lists -> Seq(Messages) \cup {NotLoaded}] /\ queue \in [Lists -> Seq(Writers)]
  BY <1>1 DEF MemTypes
<1>9. \A x \in done : lists[x] = View(x)
  <2>1. \A x \in now : Loaded(x) /\ x # s /\ x \in Lists
    BY <1>5, <1>6
  <2>2. \A x \in now : lists[x] = View(x)
    BY <1>8, <2>1 DEF View
  <2>3. lists[s] = View(s)
    BY <1>2, <1>8
  <2> QED BY <2>2, <2>3
<1>10. \A x \in Lists \ done : lists[x] = cache[x]
  BY <1>2, <1>6, <1>8
<1> HIDE DEF lists, done
<1>11. new(done) = [x \in Lists |-> IF x \in done THEN Changed(w, x, View(x)) ELSE cache[x]]
  BY <1>9, <1>10
<1>12. /\ cache' = new(done)
       /\ truth' = [x \in Lists |-> IF x \in done THEN Changed(w, x, truth[x]) ELSE truth[x]]
       /\ dirty' = dirty \cup {x \in done : task[w].op = "remember" \/ new(done)[x] # lists[x]}
  BY <1>3 DEF done
<1>13. \A x \in done : new(done)[x] = Changed(w, x, View(x)) /\ lists[x] = View(x)
  BY <1>6, <1>9, <1>11
<1> HIDE DEF new
<1>14. dirty' = dirty \cup {x \in done : task[w].op = "remember" \/ Changed(w, x, View(x)) # View(x)}
  BY <1>12, <1>13
<1>15. Does(w, s, done)
  BY <1>2, <1>4, <1>6, <1>11, <1>12, <1>14 DEF Does
<1>16. WorksOn(w, s, done)
  <2>1. MayReach(w, s)
    BY <1>2
  <2>2. lined = Unlocked(w, s)
    BY DEF Unlocked
  <2> HIDE DEF lined
  <2>3. CASE /\ ListsAfter(w, s) \ now = {}
             /\ task' = [task EXCEPT ![w] = Resting] /\ queue' = lined
    BY <1>7, <2>1, <2>2, <2>3 DEF WorksOn
  <2>4. CASE \E x \in ListsAfter(w, s) \ now :
               /\ task' = [task EXCEPT ![w].at = x, ![w].todo = ListsAfter(w, s) \ now]
               /\ queue' = [lined EXCEPT ![x] = Append(@, w)]
    <3>1. PICK x \in ListsAfter(w, s) \ now :
            /\ task' = [task EXCEPT ![w].at = x, ![w].todo = ListsAfter(w, s) \ now]
            /\ queue' = [lined EXCEPT ![x] = Append(@, w)]
      BY <2>4
    <3>2. task' = [task EXCEPT ![w] = [task[w] EXCEPT !.at = x, !.todo = ListsAfter(w, s) \ done]]
      BY <1>7, <3>1
    <3>3. queue' = [lined EXCEPT ![x] = Append(lined[x], w)]
      BY <3>1
    <3>4. x \in ListsAfter(w, s) \ done
      BY <1>7
    <3> QED BY <2>1, <2>2, <3>2, <3>3, <3>4 DEF WorksOn
  <2> QED BY <1>3, <2>3, <2>4
<1> QED BY <1>6, <1>15, <1>16

\* After work every list fits, is what it should be, and is marked unless its row
\* will be as it is.
LEMMA WorkKeepsLists ==
  ASSUME MemInv, NEW w \in Writers, NEW s, NEW done \in SUBSET Lists, Does(w, s, done)
  PROVE  /\ cache' \in [Lists -> Seq(Messages) \cup {NotLoaded}] /\ truth' \in [Lists -> Seq(Messages)]
         /\ \A x \in Lists : (cache'[x] # NotLoaded => Fits(x, cache'[x])) /\ Fits(x, truth'[x])
         /\ \A x \in Lists : Loaded(x) \/ x \in done => cache'[x] # NotLoaded
         /\ MemoryKept' /\ WillBeSaved'
<1>1. MemTypes /\ NeededInMemory /\ MemoryKept /\ WillBeSaved /\ TaskFits(w)
  BY DEF MemInv
<1>2. /\ s \in Lists /\ task[w].at = s /\ s \in done /\ done \subseteq ListsAfter(w, s) \cup {s}
      /\ stored' = stored /\ writes' = writes /\ torn' = torn
  BY DEF Does
<1>3. \A x \in Lists : /\ cache'[x] = IF x \in done THEN Changed(w, x, View(x)) ELSE cache[x]
                       /\ truth'[x] = IF x \in done THEN Changed(w, x, truth[x]) ELSE truth[x]
  BY DEF Does
<1>4. dirty' = dirty \cup {x \in done : task[w].op = "remember" \/ Changed(w, x, View(x)) # View(x)}
  BY DEF Does
<1>5. \A x \in Lists : Fits(x, View(x)) /\ Fits(x, truth[x])
  BY <1>1, ViewFits DEF MemTypes
<1>6. ASSUME NEW x \in done
      PROVE  /\ Fits(x, Changed(w, x, View(x))) /\ Fits(x, Changed(w, x, truth[x]))
             /\ Changed(w, x, View(x)) \in Seq(Messages) /\ Changed(w, x, truth[x]) \in Seq(Messages)
             /\ Changed(w, x, View(x)) # NotLoaded
  <2>1. x \in ListsAfter(w, s) \cup {s}
    BY <1>2
  <2>2. Fits(x, View(x)) /\ Fits(x, truth[x])
    BY <1>5
  <2>3. Fits(x, Changed(w, x, View(x)))
    BY <1>1, <1>2, <2>1, <2>2, ChangedIs
  <2>4. Fits(x, Changed(w, x, truth[x]))
    BY <1>1, <1>2, <2>1, <2>2, ChangedIs
  <2>5. Changed(w, x, View(x)) \in Seq(Messages) /\ Changed(w, x, truth[x]) \in Seq(Messages)
    BY <2>3, <2>4 DEF Fits
  <2> QED BY <2>3, <2>4, <2>5, InMemory
<1>7. /\ cache \in [Lists -> Seq(Messages) \cup {NotLoaded}] /\ truth \in [Lists -> Seq(Messages)]
      /\ \A x \in Lists : Loaded(x) => Fits(x, cache[x])
  BY <1>1 DEF MemTypes
<1>8. /\ cache' \in [Lists -> Seq(Messages) \cup {NotLoaded}]
      /\ truth' \in [Lists -> Seq(Messages)]
  <2>1. \A x \in Lists : (IF x \in done THEN Changed(w, x, View(x)) ELSE cache[x])
                           \in Seq(Messages) \cup {NotLoaded}
    BY <1>6, <1>7
  <2>2. \A x \in Lists : (IF x \in done THEN Changed(w, x, truth[x]) ELSE truth[x]) \in Seq(Messages)
    BY <1>6, <1>7
  <2>3. /\ cache' = [x \in Lists |-> IF x \in done THEN Changed(w, x, View(x)) ELSE cache[x]]
        /\ truth' = [x \in Lists |-> IF x \in done THEN Changed(w, x, truth[x]) ELSE truth[x]]
    BY DEF Does
  <2> QED BY <2>1, <2>2, <2>3
<1>9. \A x \in Lists : (cache'[x] # NotLoaded => Fits(x, cache'[x])) /\ Fits(x, truth'[x])
  BY <1>3, <1>5, <1>6, <1>7 DEF Loaded
<1>10. \A x \in Lists : Loaded(x) \/ x \in done => cache'[x] # NotLoaded
  BY <1>3, <1>6 DEF Loaded
<1>11. MemoryKept'
  <2>1. ASSUME NEW x \in Lists \ torn
        PROVE  (IF cache'[x] # NotLoaded THEN cache'[x] ELSE stored[x]) = truth'[x]
    <3>1. View(x) = truth[x]
      BY <1>1 DEF MemoryKept
    <3>2. CASE x \in done
      BY <1>3, <1>6, <3>1, <3>2
    <3>3. CASE x \notin done
      BY <1>3, <3>1, <3>3 DEF View, Loaded
    <3> QED BY <3>2, <3>3
  <2> QED BY <1>2, <2>1 DEF MemoryKept, View, Loaded
<1>12. WillBeSaved'
  <2>1. ASSUME NEW x \in Lists \ (dirty' \cup torn), cache'[x] # NotLoaded
        PROVE  Settled(stored, writes, x, cache'[x])
    <3>1. x \notin dirty /\ (x \in done => Changed(w, x, View(x)) = View(x))
      BY <1>4, <2>1
    <3>2. CASE Loaded(x)
      <4>1. cache'[x] = cache[x]
        BY <1>3, <3>1, <3>2 DEF View
      <4> QED BY <1>1, <3>1, <3>2, <4>1 DEF WillBeSaved
    <3>3. CASE ~ Loaded(x)
      <4>1. cache'[x] = stored[x]
        BY <1>3, <2>1, <3>1, <3>3 DEF View, Loaded
      <4>2. \A i \in DOMAIN writes : writes[i].slot # x
        BY <1>1, <3>3 DEF NeededInMemory
      <4> QED BY <4>1, <4>2 DEF Settled
    <3> QED BY <3>2, <3>3
  <2> QED BY <1>2, <2>1 DEF WillBeSaved, Loaded
<1> QED BY <1>8, <1>9, <1>10, <1>11, <1>12

\* The locks as a task finds them: it is in one line at most, and at its head when it
\* may go on; afterwards it is in none.
LEMMA LockIsLeft ==
  ASSUME MemInv, NEW w \in Writers, NEW s \in Lists, task[w].at = s, MayReach(w, s)
  PROVE  /\ Unlocked(w, s) \in [Lists -> Seq(Writers)]
         /\ \A x \in Lists : /\ IsInjective(Unlocked(w, s)[x]) /\ w \notin ToSet(Unlocked(w, s)[x])
                             /\ \A i \in DOMAIN Unlocked(w, s)[x] : task[Unlocked(w, s)[x][i]].at = x
<1>1. MemTypes /\ Waiting
  BY DEF MemInv
<1>2. queue \in [Lists -> Seq(Writers)]
  BY <1>1 DEF MemTypes
<1>3. \A x \in Lists : IsInjective(queue[x]) /\ \A i \in DOMAIN queue[x] : task[queue[x][i]].at = x
  BY <1>1 DEF Waiting
<1>4. PICK q \in Seq(Writers) : q = queue[s]
  BY <1>2
<1>5. IsInjective(q) /\ \A i \in DOMAIN q : task[q[i]].at = s
  BY <1>3, <1>4
<1> DEFINE r == IF w \in ToSet(q) THEN Tail(q) ELSE q
<1>6. /\ r \in Seq(Writers) /\ IsInjective(r) /\ w \notin ToSet(r)
      /\ \A i \in DOMAIN r : task[r[i]].at = s
  <2>1. CASE w \in ToSet(q)
    <3>1. q # <<>> /\ w = Head(q)
      BY <1>4, <2>1 DEF MayReach
    <3>2. /\ Tail(q) \in Seq(Writers) /\ IsInjective(Tail(q)) /\ Head(q) \notin ToSet(Tail(q))
          /\ \A i \in DOMAIN Tail(q) : i + 1 \in DOMAIN q /\ Tail(q)[i] = q[i + 1]
      BY <1>5, <3>1, RestIs
    <3>3. \A i \in DOMAIN Tail(q) : task[Tail(q)[i]].at = s
      BY <1>5, <3>2
    <3> QED BY <2>1, <3>1, <3>2, <3>3
  <2>2. CASE w \notin ToSet(q)
    BY <1>5, <2>2
  <2> QED BY <2>1, <2>2
<1> HIDE DEF r
<1> DEFINE lined == Unlocked(w, s)
<1>7. lined = [queue EXCEPT ![s] = r]
  BY <1>4 DEF r, Unlocked
<1> HIDE DEF lined
<1>8. /\ lined \in [Lists -> Seq(Writers)] /\ lined[s] = r
      /\ \A x \in Lists : x # s => lined[x] = queue[x]
  BY <1>2, <1>6, <1>7
<1>9. ASSUME NEW x \in Lists, x # s
      PROVE  w \notin ToSet(queue[x])
  BY <1>3, <1>9 DEF ToSet
<1>10. ASSUME NEW x \in Lists
       PROVE  /\ IsInjective(lined[x]) /\ w \notin ToSet(lined[x])
              /\ \A i \in DOMAIN lined[x] : task[lined[x][i]].at = x
  <2>1. CASE x = s
    BY <1>6, <1>8, <2>1
  <2>2. CASE x # s
    BY <1>3, <1>8, <1>9, <2>2
  <2> QED BY <2>1, <2>2
<1> QED BY <1>8, <1>10 DEF lined

\* After work each task waits at its list only, and the task knows what is left.
LEMMA WorkKeepsTasks ==
  ASSUME MemInv, NEW w \in Writers, NEW s, NEW done \in SUBSET Lists, Does(w, s, done), WorksOn(w, s, done)
  PROVE  /\ queue' \in [Lists -> Seq(Writers)]
         /\ task' \in [Writers -> {Resting} \cup Fetching \cup Flushing]
         /\ \A x \in Writers : x # w => task'[x] = task[x]
         /\ task'[w].op # "flush" /\ (task'[w].op \in {"none", task[w].op})
         /\ task'[w].op # "none" =>
              task'[w].ms = task[w].ms /\ task'[w].todo = ListsAfter(w, s) \ done
         /\ ListsAfter(w, s) \ done # {} => task'[w].op = task[w].op
         /\ TaskFits(w)' /\ Waiting'
<1>1. MemTypes /\ Waiting /\ TaskFits(w)
  BY DEF MemInv
<1>2. s \in Lists /\ task[w].at = s
  BY DEF Does
<1> DEFINE left == ListsAfter(w, s) \ done
           lined == Unlocked(w, s)
<1>3. MayReach(w, s)
  BY DEF WorksOn
<1>4. /\ lined \in [Lists -> Seq(Writers)]
      /\ \A x \in Lists : /\ IsInjective(lined[x]) /\ w \notin ToSet(lined[x])
                          /\ \A i \in DOMAIN lined[x] : task[lined[x][i]].at = x
  BY <1>2, <1>3, LockIsLeft
<1>5. /\ task[w] \in Fetching /\ task[w].op \in {"remember", "forget"} /\ GuildSlot \notin Users
      /\ task \in [Writers -> {Resting} \cup Fetching \cup Flushing] /\ "none" \notin Lists
  BY <1>1, <1>2, TaskKinds DEF MemTypes
<1>6. left \subseteq Users
  BY <1>1, <1>2, AfterAre
<1>7. \/ left = {} /\ task' = [task EXCEPT ![w] = Resting] /\ queue' = lined
      \/ \E x \in left :
           /\ task' = [task EXCEPT ![w] = [task[w] EXCEPT !.at = x, !.todo = left]]
           /\ queue' = [lined EXCEPT ![x] = Append(lined[x], w)]
  BY DEF WorksOn
<1>8. \A x \in Lists : \A i \in DOMAIN lined[x] : lined[x][i] \in Writers /\ lined[x][i] # w
  <2>1. ASSUME NEW x \in Lists, NEW i \in DOMAIN lined[x]
        PROVE  lined[x][i] \in Writers /\ lined[x][i] # w
    <3>1. lined[x] \in Seq(Writers) /\ w \notin ToSet(lined[x])
      BY <1>4
    <3> HIDE DEF lined
    <3>2. lined[x][i] \in Writers
      BY <3>1, ListOf
    <3> QED BY <3>1, <3>2 DEF ToSet
  <2> QED BY <2>1
<1>9. Resting.op = "none" /\ Resting.at = "none" /\ Resting.todo = {}
  BY DEF Resting
<1> HIDE DEF left, lined
<1>10. CASE left = {} /\ task' = [task EXCEPT ![w] = Resting] /\ queue' = lined
  <2>1. /\ task' \in [Writers -> {Resting} \cup Fetching \cup Flushing] /\ task'[w] = Resting
        /\ \A x \in Writers : x # w => task'[x] = task[x]
    BY <1>5, <1>10
  <2>2. TaskFits(w)'
    BY <1>5, <1>9, <2>1, InMemory DEF TaskFits
  <2>3. Waiting'
    BY <1>4, <1>8, <1>10, <2>1 DEF Waiting
  <2> QED BY <1>4, <1>9, <1>10, <2>1, <2>2, <2>3 DEF left
<1>11. CASE \E x \in left :
              /\ task' = [task EXCEPT ![w] = [task[w] EXCEPT !.at = x, !.todo = left]]
              /\ queue' = [lined EXCEPT ![x] = Append(lined[x], w)]
  <2>1. PICK x \in left :
          /\ task' = [task EXCEPT ![w] = [task[w] EXCEPT !.at = x, !.todo = left]]
          /\ queue' = [lined EXCEPT ![x] = Append(lined[x], w)]
    BY <1>11
  <2>2. x \in Users /\ x \in Lists
    BY <1>6, InMemory
  <2>3. PICK t \in Fetching : t = task[w]
    BY <1>5
  <2> DEFINE u == [t EXCEPT !.at = x, !.todo = left]
  <2>4. u \in Fetching /\ u.op = t.op /\ u.ms = t.ms /\ u.at = x /\ u.todo = left
    BY <1>6, <2>2, <2>3 DEF Fetching
  <2>5. task' = [task EXCEPT ![w] = u]
    BY <2>1, <2>3
  <2> HIDE DEF u
  <2>6. /\ task' \in [Writers -> {Resting} \cup Fetching \cup Flushing] /\ task'[w] = u
        /\ \A y \in Writers : y # w => task'[y] = task[y]
    BY <1>5, <2>4, <2>5
  <2>7. TaskFits(w)'
    <3>1. u.op = "remember" => \E m \in Messages : u.ms = {m} /\ u.todo \subseteq {AuthorOf[m]}
      <4>1. SUFFICES ASSUME u.op = "remember"
                     PROVE  \E m \in Messages : u.ms = {m} /\ u.todo \subseteq {AuthorOf[m]}
        OBVIOUS
      <4>2. task[w].op = "remember"
        BY <2>3, <2>4, <4>1
      <4>3. PICK m \in Messages : /\ task[w].ms = {m}
                                  /\ \A y \in ListsAfter(w, s) \cup {s} : y \in Users => AuthorOf[m] = y
        BY <1>1, <1>2, <4>2, AfterAre
      <4>4. left \subseteq {AuthorOf[m]}
        BY <1>6, <4>3 DEF left
      <4> QED BY <2>3, <2>4, <4>3, <4>4
    <3> QED BY <1>5, <2>1, <2>2, <2>4, <2>6, <3>1 DEF TaskFits
  <2>8. PICK q \in Seq(Writers) : q = lined[x]
    BY <1>4, <2>2
  <2>9. /\ Append(q, w) \in Seq(Writers) /\ DOMAIN Append(q, w) = 1 .. Len(q) + 1
        /\ \A i \in DOMAIN q : Append(q, w)[i] = q[i]
        /\ Append(q, w)[Len(q) + 1] = w
        /\ IsInjective(q) /\ w \notin ToSet(q) => IsInjective(Append(q, w))
    BY AddedIs
  <2>10. DOMAIN q = 1 .. Len(q) /\ Len(q) \in Nat
    BY ListOf
  <2>11. /\ queue' \in [Lists -> Seq(Writers)] /\ queue'[x] = Append(q, w)
         /\ \A y \in Lists : y # x => queue'[y] = lined[y]
    BY <1>4, <2>1, <2>2, <2>8, <2>9
  <2>12. IsInjective(Append(q, w))
    BY <1>4, <2>2, <2>8, <2>9
  <2>13. ASSUME NEW i \in DOMAIN Append(q, w)
         PROVE  task'[Append(q, w)[i]].at = x
    <3>1. i \in DOMAIN q \/ i = Len(q) + 1
      BY <2>9, <2>10
    <3>2. CASE i \in DOMAIN q
      <4>1. Append(q, w)[i] = q[i] /\ q[i] \in Writers /\ q[i] # w /\ task[q[i]].at = x
        BY <1>4, <1>8, <2>2, <2>8, <2>9, <3>2
      <4> QED BY <2>6, <4>1
    <3>3. CASE i = Len(q) + 1
      BY <2>4, <2>6, <2>9, <3>3
    <3> QED BY <3>1, <3>2, <3>3
  <2>14. ASSUME NEW y \in Lists
         PROVE  IsInjective(queue'[y]) /\ \A i \in DOMAIN queue'[y] : task'[queue'[y][i]].at = y
    <3>1. CASE y = x
      BY <2>11, <2>12, <2>13, <3>1
    <3>2. CASE y # x
      BY <1>4, <1>8, <2>6, <2>11, <3>2
    <3> QED BY <3>1, <3>2
  <2>15. Waiting'
    BY <2>14 DEF Waiting
  <2> QED BY <1>5, <2>3, <2>4, <2>6, <2>7, <2>11, <2>15 DEF left
<1> QED BY <1>7, <1>10, <1>11

\* After work what was forgotten for good is in a list only as long as a task still
\* has to take it from there: those who work on have the lists they have not changed.
LEMMA WorkKeepsLeaving ==
  ASSUME MemInv, NEW w \in Writers, NEW s, NEW done \in SUBSET Lists, Does(w, s, done), WorksOn(w, s, done)
  PROVE  erased' \subseteq Messages /\ Leaving'
<1>1. MemTypes /\ MemoryKept /\ Leaving /\ TaskFits(w)
  BY DEF MemInv
<1>2. /\ s \in Lists /\ task[w].at = s /\ s \in done /\ done \subseteq ListsAfter(w, s) \cup {s}
      /\ torn' = torn /\ erased' = IF s = GuildSlot THEN Erased(w) ELSE erased
  BY DEF Does
<1>3. \A x \in Lists : truth'[x] = IF x \in done THEN Changed(w, x, truth[x]) ELSE truth[x]
  BY DEF Does
<1>4. /\ \A x \in Writers : x # w => task'[x] = task[x]
      /\ task'[w].op \in {"none", task[w].op}
      /\ task'[w].op # "none" => task'[w].ms = task[w].ms /\ task'[w].todo = ListsAfter(w, s) \ done
      /\ ListsAfter(w, s) \ done # {} => task'[w].op = task[w].op
  BY WorkKeepsTasks
<1>5. task[w].op \in {"remember", "forget"} /\ GuildSlot \notin Users /\ task[w].ms \subseteq Messages
  BY <1>1, <1>2, TaskKinds
<1>6. \A x \in Lists : Fits(x, truth[x]) /\ ToSet(truth[x]) \subseteq Messages
  <2>1. ASSUME NEW x \in Lists PROVE Fits(x, truth[x]) /\ ToSet(truth[x]) \subseteq Messages
    <3>1. Fits(x, truth[x]) /\ truth[x] \in Seq(Messages)
      BY <1>1 DEF MemTypes, Fits
    <3> QED BY <3>1, ListOf DEF ToSet
  <2> QED BY <2>1
<1>7. ASSUME NEW x \in done
      PROVE  /\ task[w].op = "remember" => ToSet(truth'[x]) \subseteq ToSet(truth[x]) \cup task[w].ms
             /\ task[w].op = "forget" => ToSet(truth'[x]) = ToSet(truth[x]) \ task[w].ms
  <2>1. x \in Lists /\ x \in ListsAfter(w, s) \cup {s} /\ Fits(x, truth[x])
    BY <1>2, <1>6
  <2>2. /\ task[w].op = "remember" =>
             ToSet(Changed(w, x, truth[x])) \subseteq ToSet(truth[x]) \cup task[w].ms
        /\ task[w].op = "forget" => ToSet(Changed(w, x, truth[x])) = ToSet(truth[x]) \ task[w].ms
    BY <1>1, <1>2, <2>1, ChangedIs
  <2> QED BY <1>3, <2>1, <2>2
<1> DEFINE busy == UNION {task[x].ms : x \in {y \in Writers : task[y].op = "remember"}}
           gone == (task[w].ms \cap ToSet(truth[GuildSlot])) \ busy
<1>8. /\ erased \subseteq erased' /\ erased' \subseteq Messages
      /\ \A m \in erased' \ erased : /\ s = GuildSlot /\ task[w].op = "forget" /\ m \in task[w].ms
                                     /\ m \in ToSet(truth[GuildSlot]) /\ m \notin busy
  <2>1. Erased(w) = IF task[w].op # "forget" THEN erased ELSE erased \cup gone
    BY DEF Erased
  <2>2. gone \subseteq Messages /\ erased \subseteq Messages
    BY <1>1, <1>5 DEF MemTypes
  <2> QED BY <1>2, <2>1, <2>2
<1>9. ASSUME NEW x \in Writers, task'[x].op = "remember"
      PROVE  task'[x].ms \cap erased' = {}
  <2>1. task[x].op = "remember" /\ task'[x].ms = task[x].ms
    BY <1>4, <1>9
  <2>2. task[x].ms \cap erased = {}
    BY <1>1, <2>1 DEF Leaving
  <2>3. task[x].ms \subseteq busy
    BY <2>1
  <2> HIDE DEF busy
  <2> QED BY <1>8, <2>1, <2>2, <2>3
<1>10. ASSUME NEW y \in Lists \ torn, NEW m \in erased' \cap ToSet(truth'[y])
       PROVE  \E x \in Writers : task'[x].op = "forget" /\ m \in task'[x].ms /\ y \in task'[x].todo
  <2> HIDE DEF busy
  <2>1. CASE task[w].op = "remember"
    <3>1. m \in erased
      BY <1>8, <2>1
    <3>2. m \notin task[w].ms
      BY <1>1, <2>1, <3>1 DEF Leaving
    <3>3. m \in ToSet(truth[y])
      BY <1>3, <1>7, <2>1, <3>2
    <3>4. PICK x \in Writers : task[x].op = "forget" /\ m \in task[x].ms /\ y \in task[x].todo
      BY <1>1, <3>1, <3>3 DEF Leaving
    <3> QED BY <1>4, <2>1, <3>4
  <2>2. CASE task[w].op = "forget" /\ y \in done
    <3>1. m \in ToSet(truth[y]) /\ m \notin task[w].ms
      BY <1>7, <2>2
    <3>2. m \in erased
      BY <1>8, <3>1
    <3>3. PICK x \in Writers : task[x].op = "forget" /\ m \in task[x].ms /\ y \in task[x].todo
      BY <1>1, <3>1, <3>2 DEF Leaving
    <3> QED BY <1>4, <3>1, <3>3
  <2>3. CASE task[w].op = "forget" /\ y \notin done
    <3>1. m \in ToSet(truth[y])
      BY <1>3, <2>3
    <3>2. ASSUME y \in ListsAfter(w, s), m \in task[w].ms
          PROVE  \E x \in Writers : task'[x].op = "forget" /\ m \in task'[x].ms /\ y \in task'[x].todo
      <4>1. y \in ListsAfter(w, s) \ done
        BY <2>3, <3>2
      <4>2. task'[w].op = "forget" /\ task'[w].ms = task[w].ms /\ task'[w].todo = ListsAfter(w, s) \ done
        BY <1>4, <2>3, <4>1
      <4> QED BY <3>2, <4>1, <4>2
    <3>3. CASE m \in erased
      <4>1. PICK x \in Writers : task[x].op = "forget" /\ m \in task[x].ms /\ y \in task[x].todo
        BY <1>1, <3>1, <3>3 DEF Leaving
      <4>2. CASE x # w
        BY <1>4, <4>1, <4>2
      <4>3. CASE x = w
        <5>1. s # GuildSlot
          BY <1>1, <1>2, <4>1, <4>3 DEF TaskFits
        <5>2. y \in ListsAfter(w, s)
          BY <1>2, <2>3, <4>1, <4>3, <5>1 DEF ListsAfter
        <5> QED BY <3>2, <4>1, <4>3, <5>2
      <4> QED BY <4>2, <4>3
    <3>4. CASE m \notin erased
      <4>1. s = GuildSlot /\ m \in task[w].ms /\ m \in ToSet(truth[GuildSlot])
        BY <1>8, <3>4
      <4>2. y \in Users
        BY <1>2, <2>3, <4>1 DEF Lists
      <4>3. AuthorOf[m] = y
        BY <1>6, <3>1, <4>2 DEF Fits, ToSet
      <4>4. View(GuildSlot) = truth[GuildSlot]
        <5>1. GuildSlot \in Lists \ torn
          BY <1>1, <1>5, InMemory DEF MemTypes
        <5> QED BY <1>1, <5>1 DEF MemoryKept
      <4>5. y \in ListsAfter(w, s)
        BY <2>3, <4>1, <4>3, <4>4 DEF ListsAfter
      <4> QED BY <3>2, <4>1, <4>5
    <3> QED BY <3>3, <3>4
  <2> QED BY <1>5, <2>1, <2>2, <2>3
<1>11. Leaving'
  BY <1>2, <1>9, <1>10 DEF Leaving
<1> QED BY <1>8, <1>11

\* A task works on the list it is at and on those of the authors after it.
LEMMA WorkStep ==
  ASSUME MemInv, NEW w \in Writers, Work(w)
  PROVE  MemInv'
<1>1. MemTypes /\ OneEach /\ NeededInMemory
  BY DEF MemInv
<1> DEFINE s == task[w].at
<1>2. PICK done \in SUBSET Lists : Does(w, s, done) /\ WorksOn(w, s, done)
  BY WorkIs
<1>3. /\ s \in Lists /\ stored' = stored /\ writes' = writes /\ torn' = torn
      /\ dirty' \subseteq dirty \cup done
  BY <1>2 DEF Does
<1>4. task[w].op # "flush"
  BY <1>1, <1>3, TaskKinds
<1> HIDE DEF s
<1>5. /\ cache' \in [Lists -> Seq(Messages) \cup {NotLoaded}] /\ truth' \in [Lists -> Seq(Messages)]
      /\ \A x \in Lists : (cache'[x] # NotLoaded => Fits(x, cache'[x])) /\ Fits(x, truth'[x])
      /\ \A x \in Lists : Loaded(x) \/ x \in done => cache'[x] # NotLoaded
      /\ MemoryKept' /\ WillBeSaved'
  BY <1>2, WorkKeepsLists
<1>6. /\ queue' \in [Lists -> Seq(Writers)]
      /\ task' \in [Writers -> {Resting} \cup Fetching \cup Flushing]
      /\ \A x \in Writers : x # w => task'[x] = task[x]
      /\ task'[w].op # "flush" /\ TaskFits(w)' /\ Waiting'
  BY <1>2, WorkKeepsTasks
<1>7. erased' \subseteq Messages /\ Leaving'
  BY <1>2, WorkKeepsLeaving
<1>8. MemTypes'
  <2>1. dirty' \subseteq Lists
    BY <1>1, <1>3 DEF MemTypes
  <2> QED BY <1>1, <1>3, <1>5, <1>6, <1>7, <2>1 DEF MemTypes, Loaded
<1>9. ASSUME NEW x \in Writers PROVE TaskFits(x)'
  <2>1. CASE x = w
    BY <1>6, <2>1
  <2>2. CASE x # w
    <3>1. TaskFits(x) /\ task'[x] = task[x]
      BY <1>6, <2>2 DEF MemInv
    <3> QED BY <3>1 DEF TaskFits
  <2> QED BY <2>1, <2>2
<1>10. OneEach'
  <2>1. ASSUME NEW i \in DOMAIN writes PROVE task'[writes[i].by].op = "flush"
    <3>1. task[writes[i].by].op = "flush"
      BY <1>1 DEF OneEach
    <3>2. writes[i].by \in Writers
      BY <1>1, WriteIs
    <3> QED BY <1>4, <1>6, <3>1, <3>2
  <2> QED BY <1>1, <1>3, <2>1 DEF OneEach
<1>11. NeededInMemory'
  <2>1. ASSUME NEW x \in Lists \ torn
        PROVE  /\ x \in dirty' => cache'[x] # NotLoaded
               /\ \A i \in DOMAIN writes : writes[i].slot = x => cache'[x] # NotLoaded
               /\ \A y \in Writers : task'[y].op = "flush" /\ x \in task'[y].todo => cache'[x] # NotLoaded
    <3>1. Loaded(x) \/ x \in done => cache'[x] # NotLoaded
      BY <1>5
    <3>2. /\ x \in dirty => Loaded(x)
          /\ \A i \in DOMAIN writes : writes[i].slot = x => Loaded(x)
          /\ \A y \in Writers : task[y].op = "flush" /\ x \in task[y].todo => Loaded(x)
      BY <1>1 DEF NeededInMemory
    <3> QED BY <1>3, <1>6, <3>1, <3>2
  <2> QED BY <1>3, <2>1 DEF NeededInMemory, Loaded
<1> QED BY <1>5, <1>6, <1>7, <1>8, <1>9, <1>10, <1>11 DEF MemInv

\* A row on its way: its flush, its list and what is written.
RowOnItsWay == [by : Writers, slot : Lists, data : Seq(Messages)]

\* What a flush finds when it goes on: marks D, rows on their way W and rows R.
Ready(w, todo, D, W, R) ==
  /\ R \in [Lists -> Seq(Messages)] /\ (\A s \in Lists : Fits(s, R[s]))
  /\ D \subseteq Lists /\ todo \subseteq Lists
  /\ W \in Seq(RowOnItsWay) /\ \A i \in DOMAIN W : Fits(W[i].slot, W[i].data)
  /\ \A i \in DOMAIN W : W[i].by # w /\ task[W[i].by].op = "flush"
  /\ \A i, j \in DOMAIN W : W[i].by = W[j].by => i = j
  /\ \A s \in Lists \ torn :
       /\ s \in D \cup todo => Loaded(s)
       /\ \A i \in DOMAIN W : W[i].slot = s => Loaded(s)
       /\ ~ Loaded(s) => R[s] = truth[s]
       /\ s \notin D /\ Loaded(s) => Settled(R, W, s, cache[s])

\* A flush that goes on or ends disturbs no lock, and nothing that is leaving.
LEMMA FlushKeepsTasks ==
  ASSUME MemInv, NEW w \in Writers, task[w] \notin Fetching, NEW t \in {Resting} \cup Flushing,
         task' = [task EXCEPT ![w] = t], queue' = queue, truth' = truth, erased' = erased,
         torn \subseteq torn'
  PROVE  /\ task' \in [Writers -> {Resting} \cup Fetching \cup Flushing] /\ task'[w] = t
         /\ \A x \in Writers : x # w => task'[x] = task[x]
         /\ (\A x \in Writers : TaskFits(x))' /\ Waiting' /\ Leaving'
<1>1. MemTypes /\ Waiting /\ Leaving /\ (\A x \in Writers : TaskFits(x))
  BY DEF MemInv
<1>2. task \in [Writers -> {Resting} \cup Fetching \cup Flushing] /\ queue \in [Lists -> Seq(Writers)]
  BY <1>1 DEF MemTypes
<1>3. /\ task' \in [Writers -> {Resting} \cup Fetching \cup Flushing] /\ task'[w] = t
      /\ \A x \in Writers : x # w => task'[x] = task[x]
  BY <1>2
<1>4. task[w].op \notin {"remember", "forget"} /\ task[w].at \notin Lists
  BY <1>1, TaskKinds
<1>5. t.op \notin {"remember", "forget"} /\ t.at \notin Lists
  <2>1. {"none", "first", "second"} \cap Lists = {}
    BY MemoryAssumption DEF GuildSlot, Lists
  <2>2. CASE t = Resting
    <3>1. t.op = "none" /\ t.at = "none"
      BY <2>2 DEF Resting
    <3> QED BY <2>1, <3>1
  <2>3. CASE t \in Flushing
    BY <2>1, <2>3 DEF Flushing
  <2> QED BY <2>2, <2>3
<1>6. ASSUME NEW x \in Writers PROVE TaskFits(x)'
  <2>1. CASE x = w
    BY <1>3, <1>5, <2>1, InMemory DEF TaskFits
  <2>2. CASE x # w
    BY <1>1, <1>3, <2>2 DEF TaskFits
  <2> QED BY <2>1, <2>2
<1>7. Waiting'
  <2>1. ASSUME NEW s \in Lists, NEW i \in DOMAIN queue[s] PROVE task'[queue[s][i]].at = s
    <3>1. task[queue[s][i]].at = s
      BY <1>1 DEF Waiting
    <3>2. queue[s][i] \in Writers
      BY <1>2, ListOf
    <3> QED BY <1>3, <1>4, <3>1, <3>2
  <2> QED BY <1>1, <2>1 DEF Waiting
<1>8. Leaving'
  <2>1. ASSUME NEW x \in Writers, task'[x].op = "remember" PROVE task'[x].ms \cap erased = {}
    BY <1>1, <1>3, <1>5, <2>1 DEF Leaving
  <2>2. ASSUME NEW s \in Lists \ torn', NEW m \in erased \cap ToSet(truth[s])
        PROVE  \E x \in Writers : task'[x].op = "forget" /\ m \in task'[x].ms /\ s \in task'[x].todo
    <3>1. PICK x \in Writers : task[x].op = "forget" /\ m \in task[x].ms /\ s \in task[x].todo
      BY <1>1 DEF Leaving
    <3> QED BY <1>3, <1>4, <3>1
  <2> QED BY <2>1, <2>2 DEF Leaving
<1> QED BY <1>3, <1>6, <1>7, <1>8

\* A list whose row will be as the list is stays so when its row is written after others.
LEMMA WrittenLast ==
  ASSUME NEW R, NEW W \in Seq(RowOnItsWay), NEW x \in RowOnItsWay, NEW s, NEW list,
         IF s = x.slot THEN x.data = list ELSE Settled(R, W, s, list)
  PROVE  Settled(R, Append(W, x), s, list)
<1> DEFINE V == Append(W, x)
<1>1. /\ DOMAIN V = 1 .. Len(W) + 1 /\ V[Len(W) + 1] = x
      /\ \A i \in DOMAIN W : V[i] = W[i]
  BY AddedIs
<1>2. DOMAIN W = 1 .. Len(W) /\ Len(W) \in Nat
  BY ListOf
<1> HIDE DEF V
<1>3. \A i \in DOMAIN V : i \in Nat /\ i <= Len(W) + 1 /\ (i \in DOMAIN W \/ i = Len(W) + 1)
  BY <1>1, <1>2
<1>4. Len(W) + 1 \in DOMAIN V /\ DOMAIN W \subseteq DOMAIN V /\ Len(W) + 1 \notin DOMAIN W
  BY <1>1, <1>2
<1>5. \A i \in DOMAIN W : Len(W) + 1 > i
  BY <1>2
<1>6. CASE s = x.slot
  <2>1. ~ (\A i \in DOMAIN V : V[i].slot # s)
    BY <1>1, <1>4, <1>6
  <2>2. ASSUME NEW i \in DOMAIN V, V[i].slot = s, \A j \in DOMAIN V : j > i => V[j].slot # s
        PROVE  V[i].data = list
    <3>1. i = Len(W) + 1
      BY <1>1, <1>3, <1>4, <1>5, <1>6, <2>2
    <3> QED BY <1>1, <1>6, <3>1
  <2> QED BY <2>1, <2>2 DEF Settled, V
<1>7. CASE s # x.slot
  <2>1. Settled(R, W, s, list)
    BY <1>7
  <2>2. (\A i \in DOMAIN V : V[i].slot # s) => R[s] = list
    BY <1>1, <1>4, <2>1 DEF Settled
  <2>3. ASSUME NEW i \in DOMAIN V, V[i].slot = s, \A j \in DOMAIN V : j > i => V[j].slot # s
        PROVE  V[i].data = list
    <3>1. i \in DOMAIN W /\ V[i] = W[i]
      BY <1>1, <1>3, <1>7, <2>3
    <3>2. \A j \in DOMAIN W : j > i => W[j].slot # s
      BY <1>1, <1>4, <2>3
    <3> QED BY <2>1, <2>3, <3>1, <3>2 DEF Settled
  <2> QED BY <2>2, <2>3 DEF Settled, V
<1> QED BY <1>6, <1>7

\* A flush goes on: it sends the next row, or ends and drops lists that nobody needs.
LEMMA FlushStep ==
  ASSUME MemInv, NEW w \in Writers, task[w] \notin Fetching, NEW stage \in {"first", "second"},
         NEW todo, NEW D, NEW W, NEW R, Ready(w, todo, D, W, R),
         stored' = R, queue' = queue, truth' = truth, erased' = erased,
         FlushOn(w, stage, todo, D, W)
  PROVE  MemInv'
<1>1. MemTypes /\ NeededInMemory /\ MemoryKept
  BY DEF MemInv
<1>2. /\ R \in [Lists -> Seq(Messages)] /\ (\A s \in Lists : Fits(s, R[s]))
      /\ D \subseteq Lists /\ todo \subseteq Lists
      /\ W \in Seq(RowOnItsWay) /\ \A i \in DOMAIN W : Fits(W[i].slot, W[i].data)
  BY DEF Ready
<1>3. /\ \A i \in DOMAIN W : W[i].by # w /\ task[W[i].by].op = "flush"
      /\ \A i, j \in DOMAIN W : W[i].by = W[j].by => i = j
  BY DEF Ready
<1>4. \A s \in Lists \ torn :
        /\ s \in D \cup todo => Loaded(s)
        /\ \A i \in DOMAIN W : W[i].slot = s => Loaded(s)
        /\ ~ Loaded(s) => R[s] = truth[s]
        /\ s \notin D /\ Loaded(s) => Settled(R, W, s, cache[s])
  BY DEF Ready
<1>5. \A s \in Lists \ torn : \A x \in Writers :
        task[x].op = "flush" /\ s \in task[x].todo => Loaded(s)
  BY <1>1 DEF NeededInMemory
<1>6. /\ cache \in [Lists -> Seq(Messages) \cup {NotLoaded}] /\ truth \in [Lists -> Seq(Messages)]
      /\ \A s \in Lists : (Loaded(s) => Fits(s, cache[s])) /\ Fits(s, truth[s])
      /\ torn \subseteq Users /\ erased \subseteq Messages /\ queue \in [Lists -> Seq(Writers)]
  BY <1>1 DEF MemTypes
<1>7. \A s \in Lists \ torn : Loaded(s) => cache[s] = truth[s]
  BY <1>1 DEF MemoryKept, View
<1> DEFINE users == IF stage = "first" THEN D \cap Users ELSE todo
           next == IF stage = "first" /\ todo # {} THEN todo ELSE users
           now == IF next = todo THEN stage ELSE "second"
<1>8. next \subseteq D \cup todo /\ next \subseteq Lists /\ now \in {"first", "second"}
  BY <1>2
<1>9. \A i \in DOMAIN W : W[i] \in RowOnItsWay /\ W[i].by \in Writers
  <2>1. \A i \in DOMAIN W : W[i] \in RowOnItsWay
    BY <1>2, ListOf
  <2> QED BY <2>1 DEF RowOnItsWay
<1>10. ASSUME NEW s \in next,
              dirty' = D \ {s}, cache' = cache, torn' = torn,
              writes' = Append(W, [by |-> w, slot |-> s, data |-> IF Loaded(s) THEN cache[s] ELSE <<>>]),
              task' = [task EXCEPT ![w] = [op |-> "flush", ms |-> {}, at |-> now, todo |-> next \ {s}]]
       PROVE  MemInv'
  <2> DEFINE data == IF Loaded(s) THEN cache[s] ELSE <<>>
             row == [by |-> w, slot |-> s, data |-> data]
             t == [op |-> "flush", ms |-> {}, at |-> now, todo |-> next \ {s}]
  <2>1. s \in Lists /\ s \in D \cup todo
    BY <1>8
  <2>2. data \in Seq(Messages) /\ Fits(s, data)
    <3>1. CASE Loaded(s)
      BY <1>6, <2>1, <3>1 DEF Fits
    <3>2. CASE ~ Loaded(s)
      <4>1. <<>> \in Seq(Messages) /\ DOMAIN <<>> = {}
        BY EmptySeq
      <4> QED BY <3>2, <4>1 DEF Fits, IsInjective
    <3> QED BY <3>1, <3>2
  <2>3. row \in RowOnItsWay /\ row.by = w /\ row.slot = s /\ row.data = data
    BY <2>1, <2>2 DEF RowOnItsWay
  <2>4. t \in Flushing /\ t.op = "flush" /\ t.todo = next \ {s}
    BY <1>8 DEF Flushing
  <2>5. Loaded(s) => data = cache[s]
    OBVIOUS
  <2>6. writes' = Append(W, row) /\ task' = [task EXCEPT ![w] = t]
    BY <1>10
  <2> HIDE DEF data, row, t, next, now
  <2>7. /\ task' \in [Writers -> {Resting} \cup Fetching \cup Flushing] /\ task'[w] = t
        /\ \A x \in Writers : x # w => task'[x] = task[x]
        /\ (\A x \in Writers : TaskFits(x))' /\ Waiting' /\ Leaving'
    <3>1. t \in {Resting} \cup Flushing /\ torn \subseteq torn'
      BY <1>10, <2>4
    <3> QED BY <2>6, <3>1, FlushKeepsTasks
  <2> DEFINE V == Append(W, row)
  <2>8. /\ V \in Seq(RowOnItsWay) /\ DOMAIN V = 1 .. Len(W) + 1
        /\ \A i \in DOMAIN W : V[i] = W[i]
        /\ V[Len(W) + 1] = row
    BY <1>2, <2>3, AddedIs
  <2>9. \A i \in DOMAIN V : (i \in DOMAIN W /\ V[i] = W[i]) \/ (i = Len(W) + 1 /\ V[i] = row)
    <3>1. DOMAIN W = 1 .. Len(W) /\ Len(W) \in Nat
      BY <1>2, ListOf
    <3> QED BY <2>8, <3>1
  <2>10. \A x \in Lists \ (dirty' \cup torn) : Loaded(x) => Settled(R, V, x, cache[x])
    <3>1. ASSUME NEW x \in Lists \ (dirty' \cup torn), Loaded(x)
          PROVE  Settled(R, V, x, cache[x])
      <4>1. x = s \/ x \notin D
        BY <1>10, <3>1
      <4>2. IF x = row.slot THEN row.data = cache[x] ELSE Settled(R, W, x, cache[x])
        BY <1>4, <2>3, <2>5, <3>1, <4>1
      <4> QED BY <1>2, <2>3, <4>2, WrittenLast
    <3> QED BY <3>1
  <2>11. writes' = V
    BY <2>6
  <2> HIDE DEF V
  <2>12. MemTypes'
    <3>1. \A i \in DOMAIN V : Fits(V[i].slot, V[i].data)
      BY <1>2, <2>2, <2>3, <2>9
    <3>2. dirty' \subseteq Lists
      BY <1>2, <1>10
    <3> QED BY <1>2, <1>6, <1>10, <2>7, <2>8, <2>11, <3>1, <3>2 DEF MemTypes, Loaded, RowOnItsWay
  <2>13. OneEach'
    <3>1. \A i \in DOMAIN V : task'[V[i].by].op = "flush"
      BY <1>3, <1>9, <2>3, <2>4, <2>7, <2>9
    <3>2. \A i, j \in DOMAIN V : V[i].by = V[j].by => i = j
      BY <1>3, <2>3, <2>9
    <3> QED BY <2>11, <3>1, <3>2 DEF OneEach
  <2>14. NeededInMemory'
    <3>1. ASSUME NEW x \in Lists \ torn
          PROVE  /\ x \in dirty' => Loaded(x)
                 /\ \A i \in DOMAIN V : V[i].slot = x => Loaded(x)
                 /\ \A y \in Writers : task'[y].op = "flush" /\ x \in task'[y].todo => Loaded(x)
      <4>1. x \in dirty' => Loaded(x)
        BY <1>4, <1>10
      <4>2. x \in next => Loaded(x)
        BY <1>4, <1>8
      <4>3. \A i \in DOMAIN V : V[i].slot = x => Loaded(x)
        BY <1>4, <2>3, <2>9, <4>2
      <4>4. \A y \in Writers : task'[y].op = "flush" /\ x \in task'[y].todo => Loaded(x)
        BY <1>5, <2>4, <2>7, <4>2
      <4> QED BY <4>1, <4>3, <4>4
    <3> QED BY <1>10, <2>11, <3>1 DEF NeededInMemory, Loaded
  <2>15. MemoryKept'
    BY <1>4, <1>7, <1>10 DEF MemoryKept, View, Loaded
  <2>16. WillBeSaved'
    BY <1>10, <2>10, <2>11 DEF WillBeSaved, Loaded
  <2> QED BY <2>7, <2>12, <2>13, <2>14, <2>15, <2>16 DEF MemInv
<1>11. ASSUME NEW gone \in SUBSET CleanUsers(D),
              dirty' = D, writes' = W, task' = [task EXCEPT ![w] = Resting],
              cache' = [s \in Lists |-> IF s \in gone THEN NotLoaded ELSE cache[s]],
              torn' = torn \cup {u \in gone : InUse(u, W, w)}
       PROVE  MemInv'
  <2>1. \A u \in gone : u \in Users /\ Loaded(u) /\ u \notin D
    BY DEF CleanUsers
  <2>2. /\ task' \in [Writers -> {Resting} \cup Fetching \cup Flushing] /\ task'[w] = Resting
        /\ \A x \in Writers : x # w => task'[x] = task[x]
        /\ (\A x \in Writers : TaskFits(x))' /\ Waiting' /\ Leaving'
    <3>1. Resting \in {Resting} \cup Flushing /\ torn \subseteq torn'
      BY <1>11
    <3> QED BY <1>11, <3>1, FlushKeepsTasks
  <2>3. \A s \in Lists : cache'[s] = IF s \in gone THEN NotLoaded ELSE cache[s]
    BY <1>11
  <2>4. \A s \in Lists \ torn' : s \in gone =>
          /\ \A i \in DOMAIN W : W[i].slot # s
          /\ \A x \in Writers \ {w} : ~ (task[x].op = "flush" /\ s \in task[x].todo)
    <3>1. DOMAIN W = 1 .. Len(W)
      BY <1>2, ListOf
    <3> QED BY <1>11, <3>1 DEF InUse
  <2>5. Resting.op = "none"
    BY DEF Resting
  <2>6. MemTypes'
    <3>1. cache' \in [Lists -> Seq(Messages) \cup {NotLoaded}]
      BY <1>6, <1>11
    <3>2. torn' \subseteq Users
      BY <1>6, <1>11, <2>1
    <3>3. \A s \in Lists : cache'[s] # NotLoaded => Fits(s, cache'[s])
      BY <1>6, <2>3 DEF Loaded
    <3> QED BY <1>2, <1>6, <1>11, <2>2, <3>1, <3>2, <3>3 DEF MemTypes, Loaded, RowOnItsWay
  <2>7. OneEach'
    <3>1. \A i \in DOMAIN W : task'[W[i].by].op = "flush"
      BY <1>3, <1>9, <2>2
    <3> QED BY <1>3, <1>11, <3>1 DEF OneEach
  <2>8. NeededInMemory'
    <3>1. ASSUME NEW x \in Lists \ torn'
          PROVE  /\ x \in D => cache'[x] # NotLoaded
                 /\ \A i \in DOMAIN W : W[i].slot = x => cache'[x] # NotLoaded
                 /\ \A y \in Writers : task'[y].op = "flush" /\ x \in task'[y].todo => cache'[x] # NotLoaded
      <4>1. x \in Lists \ torn
        BY <1>11
      <4>2. x \in D => cache'[x] # NotLoaded
        BY <1>4, <2>1, <2>3, <4>1 DEF Loaded
      <4>3. \A i \in DOMAIN W : W[i].slot = x => cache'[x] # NotLoaded
        BY <1>4, <2>3, <2>4, <4>1 DEF Loaded
      <4>4. ASSUME NEW y \in Writers, task'[y].op = "flush", x \in task'[y].todo
            PROVE  cache'[x] # NotLoaded
        <5>1. y # w /\ task[y].op = "flush" /\ x \in task[y].todo
          BY <2>2, <2>5, <4>4
        <5>2. x \notin gone /\ Loaded(x)
          BY <1>5, <2>4, <4>1, <5>1
        <5> QED BY <2>3, <5>2 DEF Loaded
      <4> QED BY <4>2, <4>3, <4>4
    <3> QED BY <1>11, <3>1 DEF NeededInMemory, Loaded
  <2>9. MemoryKept'
    <3>1. ASSUME NEW x \in Lists \ torn'
          PROVE  (IF cache'[x] # NotLoaded THEN cache'[x] ELSE R[x]) = truth[x]
      <4>1. x \in Lists \ torn
        BY <1>11
      <4>2. CASE x \in gone
        <5>1. Settled(R, W, x, cache[x])
          BY <1>4, <2>1, <4>1, <4>2
        <5>2. R[x] = cache[x]
          BY <2>4, <4>2, <5>1 DEF Settled
        <5> QED BY <1>7, <2>1, <2>3, <4>1, <4>2, <5>2
      <4>3. CASE x \notin gone
        BY <1>4, <1>7, <2>3, <4>1, <4>3 DEF Loaded
      <4> QED BY <4>2, <4>3
    <3> QED BY <1>11, <3>1 DEF MemoryKept, View, Loaded
  <2>10. WillBeSaved'
    <3>1. ASSUME NEW x \in Lists \ (D \cup torn'), cache'[x] # NotLoaded
          PROVE  Settled(R, W, x, cache'[x])
      <4>1. Loaded(x) /\ cache'[x] = cache[x]
        BY <2>3, <3>1 DEF Loaded
      <4> QED BY <1>4, <1>11, <3>1, <4>1
    <3> QED BY <1>11, <3>1 DEF WillBeSaved, Loaded
  <2> QED BY <2>2, <2>6, <2>7, <2>8, <2>9, <2>10 DEF MemInv
<1> HIDE DEF next, now
<1>12. \/ \E s \in next :
            /\ dirty' = D \ {s} /\ cache' = cache /\ torn' = torn
            /\ writes' = Append(W, [by |-> w, slot |-> s, data |-> IF Loaded(s) THEN cache[s] ELSE <<>>])
            /\ task' = [task EXCEPT ![w] = [op |-> "flush", ms |-> {}, at |-> now, todo |-> next \ {s}]]
       \/ \E gone \in SUBSET CleanUsers(D) :
            /\ dirty' = D /\ writes' = W /\ task' = [task EXCEPT ![w] = Resting]
            /\ cache' = [s \in Lists |-> IF s \in gone THEN NotLoaded ELSE cache[s]]
            /\ torn' = torn \cup {u \in gone : InUse(u, W, w)}
  BY DEF FlushOn, next, now
<1> QED BY <1>10, <1>11, <1>12

\* When the first of the rows on their way is written, the others make of its list
\* what they made of it together.
LEMMA FirstWritten ==
  ASSUME NEW R, NEW Q, NEW V \in Seq(RowOnItsWay), V # <<>>, NEW s, NEW list, Settled(R, V, s, list),
         Q[s] = IF s = Head(V).slot THEN Head(V).data ELSE R[s]
  PROVE  Settled(Q, Tail(V), s, list)
<1> DEFINE W == Tail(V)
<1>1. /\ Len(V) \in Nat /\ Len(V) >= 1 /\ Head(V) = V[1]
      /\ \A i \in DOMAIN W : i + 1 \in DOMAIN V /\ W[i] = V[i + 1]
      /\ \A i \in DOMAIN V : i # 1 => i - 1 \in DOMAIN W
      /\ W \in Seq(RowOnItsWay)
  BY RestIs
<1>2. DOMAIN V = 1 .. Len(V) /\ DOMAIN W = 1 .. Len(W) /\ Len(W) \in Nat
  BY <1>1, ListOf
<1> HIDE DEF W
<1>3. 1 \in DOMAIN V
  BY <1>1, <1>2
<1>4. \A i \in DOMAIN V : i = 1 \/ (i - 1 \in DOMAIN W /\ V[i] = W[i - 1] /\ i > 1)
  <2>1. ASSUME NEW i \in DOMAIN V, i # 1 PROVE i - 1 \in DOMAIN W /\ V[i] = W[i - 1] /\ i > 1
    <3>1. i - 1 \in DOMAIN W /\ i \in Nat /\ i >= 1
      BY <1>1, <1>2, <2>1
    <3>2. W[i - 1] = V[(i - 1) + 1] /\ (i - 1) + 1 = i
      BY <1>1, <3>1
    <3> QED BY <2>1, <3>1, <3>2
  <2> QED BY <2>1
<1>5. ASSUME \A i \in DOMAIN W : W[i].slot # s PROVE Q[s] = list
  <2>1. \A i \in DOMAIN V : i # 1 => V[i].slot # s
    BY <1>4, <1>5
  <2>2. CASE s = V[1].slot
    <3>1. \A j \in DOMAIN V : j > 1 => V[j].slot # s
      BY <1>2, <2>1
    <3>2. V[1].data = list
      BY <1>3, <2>2, <3>1 DEF Settled
    <3> QED BY <1>1, <2>2, <3>2
  <2>3. CASE s # V[1].slot
    <3>1. \A i \in DOMAIN V : V[i].slot # s
      BY <2>1, <2>3
    <3>2. R[s] = list
      BY <3>1 DEF Settled
    <3> QED BY <1>1, <2>3, <3>2
  <2> QED BY <2>2, <2>3
<1>6. ASSUME NEW i \in DOMAIN W, W[i].slot = s, \A j \in DOMAIN W : j > i => W[j].slot # s
      PROVE  W[i].data = list
  <2>1. i + 1 \in DOMAIN V /\ V[i + 1] = W[i] /\ i \in Nat /\ i >= 1
    BY <1>1, <1>2
  <2>2. ASSUME NEW j \in DOMAIN V, j > i + 1 PROVE V[j].slot # s
    <3>1. j - 1 \in DOMAIN W /\ V[j] = W[j - 1]
      BY <1>2, <1>4, <2>1, <2>2
    <3>2. j - 1 > i
      BY <1>2, <2>1, <2>2
    <3> QED BY <1>6, <3>1, <3>2
  <2>3. V[i + 1].data = list
    BY <1>6, <2>1, <2>2 DEF Settled
  <2> QED BY <2>1, <2>3
<1> QED BY <1>5, <1>6 DEF Settled, W

\* A flush starts when something is marked.
LEMMA StartFlushStep ==
  ASSUME MemInv, NEW w \in Writers, StartFlush(w)
  PROVE  MemInv'
<1>1. MemTypes /\ OneEach /\ NeededInMemory /\ MemoryKept /\ WillBeSaved
  BY DEF MemInv
<1>2. /\ stored \in [Lists -> Seq(Messages)] /\ (\A s \in Lists : Fits(s, stored[s]))
      /\ dirty \subseteq Lists /\ writes \in Seq(RowOnItsWay)
      /\ \A i \in DOMAIN writes : Fits(writes[i].slot, writes[i].data)
  BY <1>1 DEF MemTypes, RowOnItsWay
<1>3. task[w] = Resting /\ task[w].op = "none"
  BY DEF StartFlush, Resting
<1>4. task[w] \notin Fetching
  BY <1>3 DEF Fetching
<1>5. \A i \in DOMAIN writes : writes[i].by # w /\ task[writes[i].by].op = "flush"
  BY <1>1, <1>3 DEF OneEach
<1>6. \A i, j \in DOMAIN writes : writes[i].by = writes[j].by => i = j
  BY <1>1 DEF OneEach
<1>7. ASSUME NEW s \in Lists \ torn
      PROVE  /\ s \in dirty \cup (dirty \cap {GuildSlot}) => Loaded(s)
             /\ \A i \in DOMAIN writes : writes[i].slot = s => Loaded(s)
             /\ ~ Loaded(s) => stored[s] = truth[s]
             /\ s \notin dirty /\ Loaded(s) => Settled(stored, writes, s, cache[s])
  <2>1. /\ s \in dirty \cup (dirty \cap {GuildSlot}) => Loaded(s)
        /\ \A i \in DOMAIN writes : writes[i].slot = s => Loaded(s)
    BY <1>1 DEF NeededInMemory
  <2>2. ~ Loaded(s) => stored[s] = truth[s]
    BY <1>1 DEF MemoryKept, View
  <2>3. s \notin dirty /\ Loaded(s) => Settled(stored, writes, s, cache[s])
    BY <1>1 DEF WillBeSaved
  <2> QED BY <2>1, <2>2, <2>3
<1>8. Ready(w, dirty \cap {GuildSlot}, dirty, writes, stored)
  BY <1>2, <1>5, <1>6, <1>7 DEF Ready
<1>9. /\ FlushOn(w, "first", dirty \cap {GuildSlot}, dirty, writes)
      /\ stored' = stored /\ queue' = queue /\ truth' = truth /\ erased' = erased
  BY DEF StartFlush
<1> QED BY <1>4, <1>8, <1>9, FlushStep

\* A row is written, or its write fails and its list is marked again.
LEMMA WrittenStep ==
  ASSUME MemInv, Written
  PROVE  MemInv'
<1>1. MemTypes /\ OneEach /\ NeededInMemory /\ MemoryKept /\ WillBeSaved
  BY DEF MemInv
<1>2. /\ stored \in [Lists -> Seq(Messages)] /\ (\A s \in Lists : Fits(s, stored[s]))
      /\ dirty \subseteq Lists /\ writes \in Seq(RowOnItsWay) /\ writes # <<>>
      /\ \A i \in DOMAIN writes : Fits(writes[i].slot, writes[i].data)
  BY <1>1 DEF MemTypes, RowOnItsWay, Written
<1> DEFINE x == Head(writes)
           W == Tail(writes)
           w == x.by
           todo == task[w].todo
           stage == task[w].at
<1>3. /\ W \in Seq(RowOnItsWay) /\ x = writes[1] /\ 1 \in DOMAIN writes
      /\ \A i \in DOMAIN W : i + 1 \in DOMAIN writes /\ W[i] = writes[i + 1] /\ i + 1 # 1
  <2>1. /\ W \in Seq(RowOnItsWay) /\ x = writes[1] /\ Len(writes) \in Nat /\ Len(writes) >= 1
        /\ \A i \in DOMAIN W : i + 1 \in DOMAIN writes /\ W[i] = writes[i + 1]
    BY <1>2, RestIs
  <2>2. DOMAIN writes = 1 .. Len(writes) /\ DOMAIN W = 1 .. Len(W) /\ Len(W) \in Nat
    BY <1>2, <2>1, ListOf
  <2> QED BY <2>1, <2>2
<1>4. /\ w \in Writers /\ x.slot \in Lists /\ Fits(x.slot, x.data) /\ x.data \in Seq(Messages)
      /\ task[w].op = "flush"
  BY <1>1, <1>3, WriteIs DEF OneEach
<1>5. task[w] \in Flushing /\ task[w] \notin Fetching /\ todo \subseteq Lists
  BY <1>1, <1>4, TaskKinds DEF Fetching
<1>6. stage \in {"first", "second"}
  BY <1>5 DEF Flushing
<1> HIDE DEF x, W
<1>7. \A i \in DOMAIN W : W[i].by # w /\ task[W[i].by].op = "flush" /\ Fits(W[i].slot, W[i].data)
  BY <1>1, <1>2, <1>3 DEF OneEach
<1>8. \A i, j \in DOMAIN W : W[i].by = W[j].by => i = j
  <2>1. ASSUME NEW i \in DOMAIN W, NEW j \in DOMAIN W, W[i].by = W[j].by PROVE i = j
    <3>1. i + 1 = j + 1
      BY <1>1, <1>3, <2>1 DEF OneEach
    <3>2. DOMAIN W = 1 .. Len(W) /\ Len(W) \in Nat
      BY <1>3, ListOf
    <3> QED BY <3>1, <3>2
  <2> QED BY <2>1
<1>9. ASSUME NEW s \in Lists \ torn
      PROVE  /\ s \in dirty \cup todo => Loaded(s)
             /\ s = x.slot => Loaded(s)
             /\ \A i \in DOMAIN W : W[i].slot = s => Loaded(s)
             /\ ~ Loaded(s) => stored[s] = truth[s]
             /\ s \notin dirty /\ Loaded(s) => Settled(stored, writes, s, cache[s])
  <2>1. s \in dirty \cup todo => Loaded(s)
    BY <1>1, <1>4 DEF NeededInMemory
  <2>2. s = x.slot => Loaded(s)
    BY <1>1, <1>3 DEF NeededInMemory
  <2>3. \A i \in DOMAIN W : W[i].slot = s => Loaded(s)
    BY <1>1, <1>3 DEF NeededInMemory
  <2>4. ~ Loaded(s) => stored[s] = truth[s]
    BY <1>1 DEF MemoryKept, View
  <2>5. s \notin dirty /\ Loaded(s) => Settled(stored, writes, s, cache[s])
    BY <1>1 DEF WillBeSaved
  <2> QED BY <2>1, <2>2, <2>3, <2>4, <2>5
<1>10. CASE stored' = [stored EXCEPT ![x.slot] = x.data] /\ FlushOn(w, stage, todo, dirty, W)
  <2> DEFINE R == [stored EXCEPT ![x.slot] = x.data]
  <2>1. /\ R \in [Lists -> Seq(Messages)]
        /\ \A s \in Lists : R[s] = IF s = x.slot THEN x.data ELSE stored[s]
    BY <1>2, <1>4
  <2> HIDE DEF R
  <2>2. \A s \in Lists : Fits(s, R[s])
    BY <1>2, <1>4, <2>1
  <2>3. ASSUME NEW s \in Lists \ torn
        PROVE  /\ s \in dirty \cup todo => Loaded(s)
               /\ \A i \in DOMAIN W : W[i].slot = s => Loaded(s)
               /\ ~ Loaded(s) => R[s] = truth[s]
               /\ s \notin dirty /\ Loaded(s) => Settled(R, W, s, cache[s])
    <3>1. ~ Loaded(s) => R[s] = truth[s]
      BY <1>9, <2>1
    <3>2. ASSUME s \notin dirty, Loaded(s) PROVE Settled(R, W, s, cache[s])
      <4>1. Settled(stored, writes, s, cache[s])
        BY <1>9, <3>2
      <4>2. R[s] = IF s = Head(writes).slot THEN Head(writes).data ELSE stored[s]
        BY <2>1 DEF x
      <4>3. Settled(R, Tail(writes), s, cache[s])
        BY <1>2, <4>1, <4>2, FirstWritten
      <4> QED BY <4>3 DEF W
    <3> QED BY <1>9, <3>1, <3>2
  <2>4. Ready(w, todo, dirty, W, R)
    BY <1>2, <1>3, <1>5, <1>7, <1>8, <2>1, <2>2, <2>3 DEF Ready
  <2>5. stored' = R /\ queue' = queue /\ truth' = truth /\ erased' = erased
    BY <1>10 DEF R, Written
  <2> HIDE DEF w, stage, todo
  <2> QED BY <1>4, <1>5, <1>6, <1>10, <2>4, <2>5, FlushStep
<1>11. CASE stored' = stored /\ FlushOn(w, stage, todo, Remarked(dirty, x.slot), W)
  <2> DEFINE D == Remarked(dirty, x.slot)
  <2>1. D = dirty \cup {x.slot} /\ D \subseteq Lists
    BY <1>2, <1>4 DEF Remarked
  <2> HIDE DEF D
  <2>2. ASSUME NEW s \in Lists \ torn
        PROVE  /\ s \in D \cup todo => Loaded(s)
               /\ \A i \in DOMAIN W : W[i].slot = s => Loaded(s)
               /\ ~ Loaded(s) => stored[s] = truth[s]
               /\ s \notin D /\ Loaded(s) => Settled(stored, W, s, cache[s])
    <3>1. s \in D \cup todo => Loaded(s)
      BY <1>9, <2>1
    <3>2. ASSUME s \notin D, Loaded(s) PROVE Settled(stored, W, s, cache[s])
      <4>1. Settled(stored, writes, s, cache[s])
        BY <1>9, <2>1, <3>2
      <4>2. stored[s] = IF s = Head(writes).slot THEN Head(writes).data ELSE stored[s]
        BY <2>1, <3>2 DEF x
      <4>3. Settled(stored, Tail(writes), s, cache[s])
        BY <1>2, <4>1, <4>2, FirstWritten
      <4> QED BY <4>3 DEF W
    <3> QED BY <1>9, <3>1, <3>2
  <2>3. Ready(w, todo, D, W, stored)
    BY <1>2, <1>3, <1>5, <1>7, <1>8, <2>1, <2>2 DEF Ready
  <2>4. queue' = queue /\ truth' = truth /\ erased' = erased /\ FlushOn(w, stage, todo, D, W)
    BY <1>11 DEF D, Written
  <2> HIDE DEF w, stage, todo
  <2> QED BY <1>4, <1>5, <1>6, <1>11, <2>3, <2>4, FlushStep
<1>12. \/ stored' = [stored EXCEPT ![x.slot] = x.data] /\ FlushOn(w, stage, todo, dirty, W)
       \/ stored' = stored /\ FlushOn(w, stage, todo, Remarked(dirty, x.slot), W)
  BY DEF Written, x, W
<1> QED BY <1>10, <1>11, <1>12

\* Nothing is in memory and nothing runs: so the process starts.
FreshMemory ==
  /\ stored \in [Lists -> Seq(Messages)] /\ \A s \in Lists : Fits(s, stored[s])
  /\ cache = [s \in Lists |-> NotLoaded] /\ dirty = {} /\ writes = <<>>
  /\ queue = [s \in Lists |-> <<>>] /\ task = [w \in Writers |-> Resting]
  /\ truth = stored /\ torn = {} /\ erased = {}

\* What holds as the process starts, of the lists and of what the rows hold.
LEMMA FreshIs == FreshMemory => MemInv
<1> SUFFICES ASSUME FreshMemory PROVE MemInv
  OBVIOUS
<1>1. <<>> \in Seq(Messages) /\ <<>> \in Seq(Writers) /\ <<>> \in Seq(RowOnItsWay) /\ DOMAIN <<>> = {}
  BY EmptySeq
<1>2. \A s \in Lists : cache[s] = NotLoaded /\ queue[s] = <<>> /\ truth[s] = stored[s]
  BY DEF FreshMemory
<1>3. \A w \in Writers : task[w] = Resting
  BY DEF FreshMemory
<1>4. Resting.op = "none" /\ Resting.at = "none" /\ Resting.at \notin Lists
  <2>1. "none" \notin Lists
    BY MemoryAssumption DEF GuildSlot, Lists
  <2> QED BY <2>1 DEF Resting
<1>5. MemTypes
  BY <1>1, <1>2 DEF FreshMemory, MemTypes, Loaded, RowOnItsWay
<1>6. \A w \in Writers : TaskFits(w)
  BY <1>3, <1>4, InMemory DEF TaskFits
<1>7. Waiting /\ OneEach
  BY <1>1, <1>2 DEF FreshMemory, Waiting, OneEach, IsInjective
<1>8. NeededInMemory
  BY <1>1, <1>3, <1>4 DEF FreshMemory, NeededInMemory
<1>9. MemoryKept /\ WillBeSaved
  BY <1>2 DEF MemoryKept, WillBeSaved, View, Loaded
<1>10. Leaving
  BY <1>3, <1>4 DEF FreshMemory, Leaving
<1> QED BY <1>5, <1>6, <1>7, <1>8, <1>9, <1>10 DEF MemInv

\* The process stops and starts again with what the rows hold.
LEMMA MemoryCrashStep ==
  ASSUME MemInv, MemoryCrash
  PROVE  MemInv'
<1>1. stored \in [Lists -> Seq(Messages)] /\ \A s \in Lists : Fits(s, stored[s])
  BY DEF MemInv, MemTypes
<1>2. /\ stored' = stored /\ cache' = [s \in Lists |-> NotLoaded] /\ dirty' = {}
      /\ queue' = [s \in Lists |-> <<>>] /\ writes' = <<>> /\ task' = [w \in Writers |-> Resting]
      /\ truth' = stored /\ torn' = {} /\ erased' = {}
  BY DEF MemoryCrash
<1>3. FreshMemory'
  BY <1>1, <1>2 DEF FreshMemory
<1> QED BY <1>3, FreshIs, PTL

\* The rows are empty when the bot is new.
LEMMA MemoryStarts == MemoryInit => MemInv
<1> SUFFICES ASSUME MemoryInit PROVE FreshMemory
  BY FreshIs
<1>1. <<>> \in Seq(Messages) /\ DOMAIN <<>> = {}
  BY EmptySeq
<1>2. stored \in [Lists -> Seq(Messages)] /\ \A s \in Lists : stored[s] = <<>>
  BY <1>1 DEF MemoryInit
<1>3. \A s \in Lists : Fits(s, stored[s])
  BY <1>1, <1>2 DEF Fits, IsInjective
<1> QED BY <1>2, <1>3 DEF FreshMemory, MemoryInit

\* Every step of a handler, a flush or the process keeps the invariant.
LEMMA MemInvStep == MemInv /\ [MemoryNext]_memVars => MemInv'
<1> SUFFICES ASSUME MemInv, [MemoryNext]_memVars PROVE MemInv'
  OBVIOUS
<1>1. ASSUME NEW w \in Writers, NEW m \in Messages, Arrive(w, "remember", {m}) PROVE MemInv'
  <2>1. {m} \in SUBSET Messages /\ \E x \in Messages : {m} = {x}
    OBVIOUS
  <2> QED BY <1>1, <2>1, ArriveStep
<1>2. ASSUME NEW w \in Writers, NEW ms \in (SUBSET Messages) \ {{}}, Arrive(w, "forget", ms) PROVE MemInv'
  <2>1. ms \in SUBSET Messages
    OBVIOUS
  <2> QED BY <1>2, <2>1, ArriveStep
<1>3. ASSUME NEW w \in Writers, LineUp(w) PROVE MemInv'
  BY <1>3, LineUpStep
<1>4. ASSUME NEW w \in Writers, Work(w) PROVE MemInv'
  BY <1>4, WorkStep
<1>5. ASSUME NEW w \in Writers, StartFlush(w) PROVE MemInv'
  BY <1>5, StartFlushStep
<1>6. CASE Written
  BY <1>6, WrittenStep
<1>7. CASE MemoryCrash
  BY <1>7, MemoryCrashStep
<1>8. CASE UNCHANGED memVars
  <2>1. /\ cache' = cache /\ stored' = stored /\ dirty' = dirty /\ queue' = queue
        /\ writes' = writes /\ task' = task /\ truth' = truth /\ torn' = torn /\ erased' = erased
    BY <1>8 DEF memVars
  <2>2. MemTypes' /\ (\A w \in Writers : TaskFits(w))' /\ Waiting' /\ OneEach'
    BY <2>1 DEF MemInv, MemTypes, TaskFits, Waiting, OneEach, Loaded
  <2>3. NeededInMemory' /\ MemoryKept' /\ WillBeSaved' /\ Leaving'
    BY <2>1 DEF MemInv, NeededInMemory, MemoryKept, WillBeSaved, Leaving, View, Loaded
  <2> QED BY <2>2, <2>3 DEF MemInv
<1> QED BY <1>1, <1>2, <1>3, <1>4, <1>5, <1>6, <1>7, <1>8 DEF MemoryNext

\* No more rows are on their way than there are handlers and flushes.
LEMMA WritesAreFew ==
  ASSUME MemTypes, OneEach
  PROVE  Len(writes) <= Cardinality(Writers)
<1> DEFINE n == Len(writes)
           by == [i \in 1 .. n |-> writes[i].by]
<1>1. writes \in Seq(RowOnItsWay)
  BY DEF MemTypes, RowOnItsWay
<1>2. n \in Nat /\ DOMAIN writes = 1 .. n
  BY <1>1, ListOf
<1>3. \A i \in 1 .. n : writes[i].by \in Writers
  BY <1>2, WriteIs
<1>4. \A i, j \in 1 .. n : writes[i].by = writes[j].by => i = j
  BY <1>2 DEF OneEach
<1> HIDE DEF n
<1>5. by \in Injection(1 .. n, Writers)
  BY <1>3, <1>4 DEF Injection, IsInjective
<1>6. IsFiniteSet(Writers) /\ IsFiniteSet(1 .. n) /\ Cardinality(1 .. n) = n
  <2>1. IsFiniteSet(1 .. n) /\ Cardinality(1 .. n) = IF 1 > n THEN 0 ELSE n - 1 + 1
    BY <1>2, FS_Interval
  <2>2. Cardinality(1 .. n) = n
    BY <1>2, <2>1
  <2>3. IsFiniteSet(Writers)
    BY MemoryAssumption
  <2> QED BY <2>1, <2>2, <2>3
<1>7. Cardinality(1 .. n) <= Cardinality(Writers)
  BY <1>5, <1>6, FS_Injection
<1> QED BY <1>6, <1>7 DEF n

\* What the invariant says of the memory.
LEMMA MemInvSays == MemInv => MemorySound
<1> SUFFICES ASSUME MemInv PROVE MemorySound
  OBVIOUS
<1>1. MemTypes /\ Waiting /\ OneEach /\ MemoryKept /\ WillBeSaved /\ Leaving
  BY DEF MemInv
<1>2. MemoryTypeOK
  <2>1. \A s \in Lists : View(s) \in Seq(Messages) /\ IsInjective(View(s))
    BY <1>1, ViewFits DEF Fits
  <2>2. \A w \in Writers : task[w].op \in {"none", "remember", "forget", "flush"}
    BY <1>1, TaskKinds
  <2>3. \A s \in Lists : IsInjective(queue[s])
    BY <1>1 DEF Waiting
  <2>4. dirty \subseteq Lists /\ torn \subseteq Users /\ erased \subseteq Messages
    BY <1>1 DEF MemTypes
  <2> QED BY <1>1, <2>1, <2>2, <2>3, <2>4, WritesAreFew DEF MemoryTypeOK
<1>3. MarkedOrSaved
  <2>1. DOMAIN writes = 1 .. Len(writes)
    <3>1. writes \in Seq(RowOnItsWay)
      BY <1>1 DEF MemTypes, RowOnItsWay
    <3> QED BY <3>1, ListOf
  <2> QED BY <1>1, <2>1 DEF MarkedOrSaved, WillBeSaved, Settled
<1>4. ForgottenStay
  <2>1. ASSUME \A w \in Writers : task[w].op # "forget", NEW s \in Lists \ torn
        PROVE  erased \cap ToSet(View(s)) = {}
    <3>1. erased \cap ToSet(truth[s]) = {}
      BY <1>1, <2>1 DEF Leaving
    <3> QED BY <1>1, <3>1 DEF MemoryKept
  <2> QED BY <2>1 DEF ForgottenStay
<1> QED BY <1>1, <1>2, <1>3, <1>4 DEF MemorySound

\* Nothing is lost from P.OS's memory of a guild while the process runs, nothing unsaved
\* looks saved and nothing forgotten returns, however handlers, flushes, failed writes and
\* restarts interleave (pos_ai.py:5107-5112, 5178-5199, 5287).
THEOREM MemoryIsSound == MemorySpec => []MemorySound
<1>1. MemoryInit => MemInv
  BY MemoryStarts
<1>2. MemInv /\ [MemoryNext]_memVars => MemInv'
  BY MemInvStep
<1>3. MemInv => MemorySound
  BY MemInvSays
<1> QED BY <1>1, <1>2, <1>3, PTL DEF MemorySpec
=============================================================================
