---------------------------- MODULE MemoryProofs ----------------------------
(***************************************************************************)
(* Proofs about MemoryService: its types, the lineage of every memory, and *)
(* that no twins are born.  Everything rests on what Write does, the only  *)
(* way a head changes.                                                     *)
(***************************************************************************)
EXTENDS MemoryService, FiniteSetTheorems, TLAPS

(* What the callers of Write hand it.                                      *)
GoodInserts(ins) ==
    /\ DOMAIN ins \subseteq Fresh
    /\ \A m \in DOMAIN ins :
        /\ ins[m].head \in UnitRow /\ ins[m].head.revision = 1
        /\ ins[m].parent \in RevUid \cup {NoParent} /\ ins[m].reason \in Reason

GoodUpdates(upd) ==
    /\ DOMAIN upd \subseteq Units
    /\ \A m \in DOMAIN upd : upd[m].head \in UnitRow /\ upd[m].reason \in Reason

Rows == /\ Units \subseteq Mem
        /\ heads \in [Units -> UnitRow]
        /\ history \in [Mem -> Seq(Revision)]

(* The row _cas_update_memory_unit takes for the parent is the newest one. *)
LEMMA ParentIsNewest ==
    ASSUME Rows, LineageComplete, NEW m \in Units
    PROVE  /\ ParentRows(m) = {heads[m].revision}
           /\ (CHOOSE i \in ParentRows(m) : TRUE) = heads[m].revision
<1>1. heads[m].revision \in Nat \ {0} /\ history[m] \in Seq(Revision)
  BY DEF Rows, UnitRow
<1>2. /\ Len(history[m]) = heads[m].revision
      /\ \A i \in DOMAIN history[m] : history[m][i].revision = i
  BY DEF LineageComplete
<1>3. DOMAIN history[m] = 1 .. heads[m].revision
  BY <1>1, <1>2
<1>4. ParentRows(m) = {heads[m].revision}
  BY <1>1, <1>2, <1>3 DEF ParentRows
<1>. QED
  BY <1>4

(* The row a compare-and-swap appends is a well-formed one.                *)
LEMMA CasRowTyped ==
    ASSUME Rows, LineageComplete, NEW upd, GoodUpdates(upd), NEW m \in DOMAIN upd
    PROVE  CasRow(m, upd[m]) \in Revision
<1>1. m \in Units /\ m \in Mem /\ upd[m].head \in UnitRow /\ upd[m].reason \in Reason
  BY DEF GoodUpdates, Rows
<1>2. heads[m].revision \in Nat \ {0}
  BY <1>1 DEF Rows, UnitRow
<1>3. <<m, CHOOSE i \in ParentRows(m) : TRUE>> \in RevUid
  BY <1>1, <1>2, ParentIsNewest DEF RevUid
<1>. QED
  BY <1>1, <1>2, <1>3 DEF CasRow, Revision, UnitRow

(* Write keeps the row types.                                              *)
LEMMA WriteRows ==
    ASSUME Rows, LineageComplete, NEW ins, NEW upd,
           GoodInserts(ins), GoodUpdates(upd), Write(ins, upd)
    PROVE  Rows'
<1>1. /\ heads' = HeadsAfter(ins, upd)
      /\ history' = HistoryAfter(ins, upd)
  BY DEF Write
<1>2. Units' = Units \cup DOMAIN ins
  BY <1>1 DEF Units, HeadsAfter
<1>3. Units' \subseteq Mem
  BY <1>2 DEF GoodInserts, Fresh, Rows
<1>4. heads' \in [Units' -> UnitRow]
  <2>. SUFFICES ASSUME NEW m \in Units' PROVE heads'[m] \in UnitRow
    BY <1>1, <1>2 DEF HeadsAfter
  <2>1. CASE m \in DOMAIN ins
    BY <2>1, <1>1, <1>2 DEF HeadsAfter, GoodInserts
  <2>2. CASE m \notin DOMAIN ins /\ m \in DOMAIN upd
    <3>1. heads'[m] = [upd[m].head EXCEPT !.revision = heads[m].revision + 1]
      BY <2>2, <1>1, <1>2 DEF HeadsAfter
    <3>2. upd[m].head \in UnitRow /\ heads[m] \in UnitRow
      BY <2>2, <1>2 DEF GoodUpdates, Rows
    <3>. QED  BY <3>1, <3>2 DEF UnitRow
  <2>3. CASE m \notin DOMAIN ins /\ m \notin DOMAIN upd
    BY <2>3, <1>1, <1>2 DEF HeadsAfter, Rows
  <2>. QED  BY <2>1, <2>2, <2>3
<1>5. history' \in [Mem -> Seq(Revision)]
  <2>. SUFFICES ASSUME NEW m \in Mem PROVE history'[m] \in Seq(Revision)
    BY <1>1 DEF HistoryAfter
  <2>0. history[m] \in Seq(Revision)
    BY DEF Rows
  <2>1. CASE m \in DOMAIN ins
    <3>1. RootRow(ins[m]) \in Revision
      BY <2>1 DEF RootRow, Revision, GoodInserts, UnitRow
    <3>2. history'[m] = Append(history[m], RootRow(ins[m]))
      BY <2>1, <1>1 DEF HistoryAfter
    <3>. QED  BY <2>0, <3>1, <3>2
  <2>2. CASE m \notin DOMAIN ins /\ m \in DOMAIN upd
    <3>1. CasRow(m, upd[m]) \in Revision
      BY <2>2, CasRowTyped
    <3>2. history'[m] = Append(history[m], CasRow(m, upd[m]))
      BY <2>2, <1>1 DEF HistoryAfter
    <3>. QED  BY <2>0, <3>1, <3>2
  <2>3. CASE m \notin DOMAIN ins /\ m \notin DOMAIN upd
    BY <2>0, <2>3, <1>1 DEF HistoryAfter
  <2>. QED  BY <2>1, <2>2, <2>3
<1>. QED  BY <1>3, <1>4, <1>5 DEF Rows

(* Write keeps the lineage.                                                *)
LEMMA WriteLineage ==
    ASSUME Rows, LineageComplete, NEW ins, NEW upd,
           GoodInserts(ins), GoodUpdates(upd), Write(ins, upd)
    PROVE  LineageComplete'
<1>1. /\ heads' = HeadsAfter(ins, upd)
      /\ history' = HistoryAfter(ins, upd)
  BY DEF Write
<1>2. Units' = Units \cup DOMAIN ins
  BY <1>1 DEF Units, HeadsAfter
<1>3. ASSUME NEW m \in Mem \ Units' PROVE history'[m] = <<>>
  BY <1>1, <1>2 DEF HistoryAfter, GoodUpdates, LineageComplete
<1>4. ASSUME NEW m \in Units'
      PROVE  /\ Len(history'[m]) = heads'[m].revision
             /\ \A i \in DOMAIN history'[m] :
                   /\ history'[m][i].revision = i
                   /\ i > 1 => history'[m][i].parent = <<m, i - 1>>
             /\ history'[m][heads'[m].revision].body = heads'[m].body
             /\ history'[m][heads'[m].revision].label = heads'[m].label
  <2>1. CASE m \in DOMAIN ins
    <3>1. m \in Mem \ Units /\ ins[m].head.revision = 1
      BY <2>1 DEF GoodInserts, Fresh
    <3>2. history[m] = <<>>
      BY <3>1 DEF LineageComplete
    <3>3. heads'[m] = ins[m].head /\ history'[m] = Append(<<>>, RootRow(ins[m]))
      BY <2>1, <3>1, <3>2, <1>1, <1>2 DEF HeadsAfter, HistoryAfter
    <3>4. history'[m] = <<RootRow(ins[m])>>
      BY <3>3
    <3>. QED  BY <3>1, <3>3, <3>4 DEF RootRow
  <2>2. CASE m \notin DOMAIN ins /\ m \in DOMAIN upd
    <3> DEFINE n == heads[m].revision
               row == CasRow(m, upd[m])
    <3>0. m \in Units /\ m \in Mem
      BY <2>2 DEF GoodUpdates, Rows
    <3>1. n \in Nat \ {0} /\ history[m] \in Seq(Revision) /\ upd[m].head \in UnitRow
      BY <2>2, <3>0 DEF Rows, UnitRow, GoodUpdates
    <3>2. /\ Len(history[m]) = n
          /\ \A i \in DOMAIN history[m] :
                /\ history[m][i].revision = i
                /\ i > 1 => history[m][i].parent = <<m, i - 1>>
      BY <3>0 DEF LineageComplete
    <3>3. /\ heads'[m] = [upd[m].head EXCEPT !.revision = n + 1]
          /\ history'[m] = Append(history[m], row)
      BY <2>2, <3>0, <1>1, <1>2 DEF HeadsAfter, HistoryAfter
    <3>4. /\ row.revision = n + 1 /\ row.parent = <<m, n>>
          /\ row.body = upd[m].head.body /\ row.label = upd[m].head.label
      BY <3>0, ParentIsNewest DEF CasRow
    <3>5. /\ heads'[m].revision = n + 1
          /\ heads'[m].body = upd[m].head.body /\ heads'[m].label = upd[m].head.label
      BY <3>1, <3>3 DEF UnitRow
    <3>. HIDE DEF n, row
    <3>6. /\ Len(history'[m]) = n + 1
          /\ DOMAIN history'[m] = 1 .. n + 1
          /\ history'[m][n + 1] = row
          /\ \A i \in 1 .. n : history'[m][i] = history[m][i]
      BY <3>1, <3>2, <3>3
    <3>7. ASSUME NEW i \in DOMAIN history'[m]
          PROVE  /\ history'[m][i].revision = i
                 /\ i > 1 => history'[m][i].parent = <<m, i - 1>>
      <4>1. CASE i \in 1 .. n
        BY <4>1, <3>1, <3>2, <3>6
      <4>2. CASE i = n + 1
        BY <4>2, <3>1, <3>4, <3>6
      <4>. QED  BY <4>1, <4>2, <3>6, <3>1
    <3>. QED  BY <3>4, <3>5, <3>6, <3>7
  <2>3. CASE m \notin DOMAIN ins /\ m \notin DOMAIN upd
    <3>1. m \in Units /\ heads'[m] = heads[m] /\ history'[m] = history[m]
      BY <2>3, <1>1, <1>2 DEF HeadsAfter, HistoryAfter, Rows
    <3>. QED  BY <3>1 DEF LineageComplete
  <2>. QED  BY <2>1, <2>2, <2>3
<1>. QED  BY <1>3, <1>4 DEF LineageComplete

(* Write only adds: a memory stays, and is as it was or a revision later.  *)
LEMMA WriteMonotone ==
    ASSUME Rows, NEW ins, NEW upd, GoodInserts(ins), GoodUpdates(upd), Write(ins, upd)
    PROVE  /\ Units \subseteq Units'
           /\ \A m \in Units : \/ heads'[m] = heads[m] /\ history'[m] = history[m]
                             \/ /\ m \in DOMAIN upd
                                /\ heads'[m].revision = heads[m].revision + 1
                                /\ heads'[m].reinforcements = upd[m].head.reinforcements
                                /\ history'[m] = Append(history[m], CasRow(m, upd[m]))
<1>1. /\ heads' = HeadsAfter(ins, upd)
      /\ history' = HistoryAfter(ins, upd)
  BY DEF Write
<1>2. Units' = Units \cup DOMAIN ins
  BY <1>1 DEF Units, HeadsAfter
<1>3. ASSUME NEW m \in Units
      PROVE  \/ heads'[m] = heads[m] /\ history'[m] = history[m]
             \/ /\ m \in DOMAIN upd
                /\ heads'[m].revision = heads[m].revision + 1
                /\ heads'[m].reinforcements = upd[m].head.reinforcements
                /\ history'[m] = Append(history[m], CasRow(m, upd[m]))
  <2>0. m \notin DOMAIN ins /\ m \in Mem
    BY DEF GoodInserts, Fresh, Rows
  <2>1. CASE m \in DOMAIN upd
    <3>1. heads'[m] = [upd[m].head EXCEPT !.revision = heads[m].revision + 1]
      BY <2>0, <2>1, <1>1, <1>2 DEF HeadsAfter
    <3>2. upd[m].head \in UnitRow
      BY <2>1 DEF GoodUpdates
    <3>3. history'[m] = Append(history[m], CasRow(m, upd[m]))
      BY <2>0, <2>1, <1>1 DEF HistoryAfter
    <3>. QED  BY <2>1, <3>1, <3>2, <3>3 DEF UnitRow
  <2>2. CASE m \notin DOMAIN upd
    BY <2>0, <2>2, <1>1, <1>2 DEF HeadsAfter, HistoryAfter
  <2>. QED  BY <2>1, <2>2
<1>. QED  BY <1>2, <1>3

-----------------------------------------------------------------------------
(* The count of reinforcements survives a Write that raises it exactly on  *)
(* the rows it marks as reinforced.                                        *)
Counted(upd) ==
    \A m \in DOMAIN upd :
        upd[m].head.reinforcements =
            IF upd[m].reason = "reinforced" THEN heads[m].reinforcements + 1
            ELSE heads[m].reinforcements

Uncounted(ins) ==
    \A m \in DOMAIN ins : ins[m].head.reinforcements = 0 /\ ins[m].reason # "reinforced"

Marks(h) == {i \in DOMAIN h : h[i].reason = "reinforced"}

LEMMA MarksAppend ==
    ASSUME NEW h \in Seq(Revision), NEW row \in Revision
    PROVE  /\ Cardinality(Marks(h)) \in Nat
           /\ Cardinality(Marks(Append(h, row))) =
                IF row.reason = "reinforced" THEN Cardinality(Marks(h)) + 1
                ELSE Cardinality(Marks(h))
<1> DEFINE n == Len(h)
<1>0. n \in Nat /\ DOMAIN h = 1 .. n
  OBVIOUS
<1>1. IsFiniteSet(1 .. n)
  BY <1>0, FS_Interval
<1>2. IsFiniteSet(Marks(h))
  BY <1>0, <1>1, FS_Subset DEF Marks
<1>3. Cardinality(Marks(h)) \in Nat
  BY <1>2, FS_CardinalityType
<1>4. /\ DOMAIN Append(h, row) = 1 .. n + 1
      /\ Append(h, row)[n + 1] = row
      /\ \A i \in 1 .. n : Append(h, row)[i] = h[i]
  OBVIOUS
<1>5. CASE row.reason = "reinforced"
  <2>1. Marks(Append(h, row)) = Marks(h) \cup {n + 1}
    BY <1>0, <1>4, <1>5 DEF Marks
  <2>2. n + 1 \notin Marks(h)
    BY <1>0 DEF Marks
  <2>3. Cardinality(Marks(h) \cup {n + 1}) = Cardinality(Marks(h)) + 1
    BY <1>2, <2>2, FS_AddElement
  <2>. QED  BY <1>3, <1>5, <2>1, <2>3
<1>6. CASE row.reason # "reinforced"
  <2>1. Marks(Append(h, row)) = Marks(h)
    BY <1>0, <1>4, <1>6 DEF Marks
  <2>. QED  BY <1>3, <1>6, <2>1
<1>. QED  BY <1>5, <1>6

LEMMA WriteReinforcements ==
    ASSUME Rows, LineageComplete, ReinforcementsExact, NEW ins, NEW upd,
           GoodInserts(ins), GoodUpdates(upd), Write(ins, upd), Counted(upd), Uncounted(ins)
    PROVE  ReinforcementsExact'
<1>1. /\ heads' = HeadsAfter(ins, upd)
      /\ history' = HistoryAfter(ins, upd)
  BY DEF Write
<1>2. Units' = Units \cup DOMAIN ins
  BY <1>1 DEF Units, HeadsAfter
<1>. SUFFICES ASSUME NEW m \in Units'
              PROVE  heads'[m].reinforcements = Cardinality(Marks(history'[m]))
  BY DEF ReinforcementsExact, Marks
<1>3. CASE m \in DOMAIN ins
  <2>1. m \in Mem \ Units
    BY <1>3 DEF GoodInserts, Fresh
  <2>2. /\ heads'[m] = ins[m].head
        /\ history'[m] = Append(<<>>, RootRow(ins[m]))
    BY <2>1, <1>3, <1>1, <1>2 DEF HeadsAfter, HistoryAfter, LineageComplete
  <2>3. RootRow(ins[m]) \in Revision /\ RootRow(ins[m]).reason # "reinforced"
    BY <1>3 DEF RootRow, Revision, GoodInserts, UnitRow, Uncounted
  <2>4. Marks(<<>>) = {}
    BY DEF Marks
  <2>5. Cardinality(Marks(<<>>)) = 0
    BY <2>4, FS_EmptySet
  <2>6. <<>> \in Seq(Revision)
    OBVIOUS
  <2>7. Cardinality(Marks(history'[m])) = 0
    BY <2>2, <2>3, <2>5, <2>6, MarksAppend
  <2>. QED  BY <1>3, <2>2, <2>7 DEF Uncounted
<1>4. CASE m \in Units
  <2>0. m \in Mem /\ history[m] \in Seq(Revision)
    BY <1>4 DEF Rows
  <2>1. heads[m].reinforcements = Cardinality(Marks(history[m]))
    BY <1>4 DEF ReinforcementsExact, Marks
  <2>2. CASE heads'[m] = heads[m] /\ history'[m] = history[m]
    BY <2>1, <2>2
  <2>3. CASE /\ m \in DOMAIN upd
             /\ heads'[m].reinforcements = upd[m].head.reinforcements
             /\ history'[m] = Append(history[m], CasRow(m, upd[m]))
    <3>1. CasRow(m, upd[m]) \in Revision
      BY <2>3, CasRowTyped
    <3>2. CasRow(m, upd[m]).reason = upd[m].reason
      BY DEF CasRow
    <3>. QED  BY <2>0, <2>1, <2>3, <3>1, <3>2, MarksAppend DEF Counted
  <2>. QED  BY <1>4, <2>2, <2>3, WriteMonotone
<1>. QED  BY <1>2, <1>3, <1>4

-----------------------------------------------------------------------------
(* Roots keep their parents, and a new root's is a row that is there once  *)
(* the Write is done.                                                      *)
Descending(ins, upd) ==
    \A m \in DOMAIN ins : ins[m].parent # NoParent =>
        /\ ins[m].parent[1] \in (Units \cup DOMAIN ins) \ {m}
        /\ ins[m].parent[2] \in 1 .. HeadsAfter(ins, upd)[ins[m].parent[1]].revision

LEMMA WriteRoots ==
    ASSUME Rows, LineageComplete, RootsDescend, NEW ins, NEW upd,
           GoodInserts(ins), GoodUpdates(upd), Write(ins, upd), Descending(ins, upd)
    PROVE  RootsDescend'
<1>1. /\ heads' = HeadsAfter(ins, upd)
      /\ history' = HistoryAfter(ins, upd)
  BY DEF Write
<1>2. Units' = Units \cup DOMAIN ins
  BY <1>1 DEF Units, HeadsAfter
<1>3. Rows' /\ LineageComplete'
  BY WriteRows, WriteLineage
<1>4. \A x \in Units' : DOMAIN history'[x] = 1 .. heads'[x].revision
  BY <1>3 DEF Rows, LineageComplete, UnitRow
<1>. SUFFICES ASSUME NEW m \in Units', history'[m][1].parent # NoParent
              PROVE  /\ history'[m][1].parent[1] \in Units' \ {m}
                     /\ history'[m][1].parent[2] \in DOMAIN history'[history'[m][1].parent[1]]
  BY DEF RootsDescend
<1>5. CASE m \in DOMAIN ins
  <2>1. m \in Mem \ Units
    BY <1>5 DEF GoodInserts, Fresh
  <2>2. history'[m] = Append(<<>>, RootRow(ins[m]))
    BY <2>1, <1>5, <1>1 DEF HistoryAfter, LineageComplete
  <2>3. history'[m][1].parent = ins[m].parent
    BY <2>2 DEF RootRow
  <2>. QED  BY <1>1, <1>2, <1>4, <1>5, <2>3 DEF Descending
<1>6. CASE m \in Units
  <2>0. \A h \in Seq(Revision), row \in Revision :
          /\ DOMAIN h \subseteq DOMAIN Append(h, row)
          /\ Len(h) > 0 => Append(h, row)[1] = h[1]
    OBVIOUS
  <2>1. m \in Mem /\ history[m] \in Seq(Revision) /\ Len(history[m]) > 0
    BY <1>6 DEF Rows, LineageComplete, UnitRow
  <2>2. history'[m][1] = history[m][1]
    <3>1. CASE history'[m] = history[m]
      BY <3>1
    <3>2. CASE m \in DOMAIN upd /\ history'[m] = Append(history[m], CasRow(m, upd[m]))
      BY <2>0, <2>1, <3>2, CasRowTyped
    <3>. QED  BY <1>6, <3>1, <3>2, WriteMonotone
  <2> DEFINE x == history[m][1].parent[1]
  <2>3. x \in Units \ {m} /\ history[m][1].parent[2] \in DOMAIN history[x]
    BY <1>6, <2>2 DEF RootsDescend
  <2>4. x \in Mem /\ history[x] \in Seq(Revision)
    BY <2>3 DEF Rows
  <2>5. DOMAIN history[x] \subseteq DOMAIN history'[x]
    <3>1. CASE history'[x] = history[x]
      BY <3>1
    <3>2. CASE x \in DOMAIN upd /\ history'[x] = Append(history[x], CasRow(x, upd[x]))
      BY <2>0, <2>4, <3>2, CasRowTyped
    <3>. QED  BY <2>3, <3>1, <3>2, WriteMonotone
  <2>. QED  BY <1>2, <2>2, <2>3, <2>5
<1>. QED  BY <1>2, <1>5, <1>6

-----------------------------------------------------------------------------
(* What Write preserves, and what it asks for.                             *)
Sound == Rows /\ LineageComplete /\ RootsDescend /\ ReinforcementsExact

Fit(ins, upd) ==
    /\ GoodInserts(ins) /\ Uncounted(ins) /\ Descending(ins, upd)
    /\ GoodUpdates(upd) /\ Counted(upd)

LEMMA WriteSound ==
    ASSUME Sound, NEW ins, NEW upd, Fit(ins, upd), Write(ins, upd)
    PROVE  Sound'
<1>1. Rows' /\ LineageComplete'
  BY WriteRows, WriteLineage DEF Sound, Fit
<1>2. RootsDescend'
  BY WriteRoots DEF Sound, Fit
<1>3. ReinforcementsExact'
  BY WriteReinforcements DEF Sound, Fit
<1>. QED  BY <1>1, <1>2, <1>3 DEF Sound

(* A lone root with no parent, and a lone compare-and-swap, are fit.       *)
LEMMA LoneRootFit ==
    ASSUME Rows, NEW m \in Fresh, NEW p \in Principal, NEW l \in Label, NEW b \in Body,
           NEW s \in Status, NEW o \in Origin \cup {NoOrigin},
           NEW reason \in Reason \ {"reinforced"}
    PROVE  Fit(Only(m, Root(p, l, b, s, o, NoParent, reason)), None)
<1> DEFINE ins == Only(m, Root(p, l, b, s, o, NoParent, reason))
<1>1. DOMAIN ins = {m} /\ ins[m] = Root(p, l, b, s, o, NoParent, reason)
  BY DEF Only
<1>2. /\ ins[m].head \in UnitRow /\ ins[m].head.revision = 1
      /\ ins[m].head.reinforcements = 0
      /\ ins[m].parent = NoParent /\ ins[m].reason = reason
  BY <1>1 DEF Root, UnitRow
<1>3. GoodInserts(ins)
  BY <1>1, <1>2 DEF GoodInserts
<1>4. Uncounted(ins) /\ Descending(ins, None)
  BY <1>1, <1>2 DEF Uncounted, Descending
<1>5. GoodUpdates(None) /\ Counted(None)
  BY DEF GoodUpdates, Counted, None
<1>. QED  BY <1>3, <1>4, <1>5 DEF Fit

LEMMA UpdatesFit ==
    ASSUME NEW upd, GoodUpdates(upd), Counted(upd)
    PROVE  Fit(None, upd)
<1>1. DOMAIN None = {}
  BY DEF None
<1>. QED  BY <1>1 DEF Fit, GoodInserts, Uncounted, Descending

LEMMA LoneChangeFit ==
    ASSUME NEW m \in Units, NEW h \in UnitRow, NEW reason \in Reason,
           h.reinforcements = IF reason = "reinforced" THEN heads[m].reinforcements + 1
                              ELSE heads[m].reinforcements
    PROVE  Fit(None, Only(m, Change(h, reason)))
<1>1. /\ DOMAIN Only(m, Change(h, reason)) = {m}
      /\ Only(m, Change(h, reason))[m] = Change(h, reason)
  BY DEF Only
<1>2. Change(h, reason).head = h /\ Change(h, reason).reason = reason
  BY DEF Change
<1>3. GoodUpdates(Only(m, Change(h, reason))) /\ Counted(Only(m, Change(h, reason)))
  BY <1>1, <1>2 DEF GoodUpdates, Counted
<1>. QED  BY <1>3, UpdatesFit

-----------------------------------------------------------------------------
(***************************************************************************)
(* The inductive invariant.  A handler between its read and its write      *)
(* names a memory that is still there, and a reinforcement whose expected  *)
(* revision is still the head's has the head's count: that is all the      *)
(* compare-and-swap compares, so it has to imply the rest.                 *)
(***************************************************************************)
Reads ==
    \A c \in Client :
        /\ req[c].at \in {"patch", "reinforce"} => req[c].mem \in Units
        /\ req[c].at = "reinforce" =>
            /\ req[c].expected <= heads[req[c].mem].revision
            /\ req[c].expected = heads[req[c].mem].revision
               => req[c].count = heads[req[c].mem].reinforcements

Inv == MemoryTypes /\ LineageComplete /\ RootsDescend /\ ReinforcementsExact /\ Reads

LEMMA InvSound ==
    ASSUME Inv PROVE Sound
BY DEF Inv, Sound, MemoryTypes, MemoryTypeOK, Rows

(* A fit Write leaves what the handlers read in order.                     *)
LEMMA WriteReads ==
    ASSUME Inv, NEW ins, NEW upd, Fit(ins, upd), Write(ins, upd)
    PROVE  \A c \in Client :
              /\ req[c].at \in {"patch", "reinforce"} => req[c].mem \in Units'
              /\ req[c].at = "reinforce" =>
                  /\ req[c].expected <= heads'[req[c].mem].revision
                  /\ req[c].expected = heads'[req[c].mem].revision
                     => req[c].count = heads'[req[c].mem].reinforcements
<1>. SUFFICES ASSUME NEW c \in Client, req[c].at \in {"patch", "reinforce"}
     PROVE  /\ req[c].mem \in Units'
            /\ req[c].at = "reinforce" =>
                /\ req[c].expected <= heads'[req[c].mem].revision
                /\ req[c].expected = heads'[req[c].mem].revision
                   => req[c].count = heads'[req[c].mem].reinforcements
  OBVIOUS
<1> DEFINE m == req[c].mem
<1>1. Rows /\ GoodInserts(ins) /\ GoodUpdates(upd)
  BY InvSound DEF Sound, Fit
<1>2. m \in Units
  BY DEF Inv, Reads
<1>3. heads[m].revision \in Nat
  BY <1>1, <1>2 DEF Rows, UnitRow
<1>4. req[c].at = "reinforce" => req[c].expected \in Nat
  BY DEF Inv, MemoryTypes, Request
<1>5. /\ m \in Units'
      /\ \/ heads'[m] = heads[m]
         \/ heads'[m].revision = heads[m].revision + 1
  BY <1>1, <1>2, WriteMonotone
<1>6. req[c].at = "reinforce" =>
        /\ req[c].expected <= heads[m].revision
        /\ req[c].expected = heads[m].revision => req[c].count = heads[m].reinforcements
  BY DEF Inv, Reads
<1>. HIDE DEF m
<1>7. req[c].at = "reinforce" =>
        /\ req[c].expected <= heads'[m].revision
        /\ req[c].expected = heads'[m].revision => req[c].count = heads'[m].reinforcements
  BY <1>3, <1>4, <1>5, <1>6
<1>. QED  BY <1>5, <1>7 DEF m

(* Steps that write a fit pair, and steps that write no head.              *)
LEMMA WritingStep ==
    ASSUME Inv, NEW ins, NEW upd, Fit(ins, upd), Write(ins, upd),
           edges' \subseteq Edge, lock' \subseteq Principal, req' \in [Client -> Request],
           \A c \in Client : req'[c] = req[c] \/ req'[c] = Idle,
           shown' \subseteq Units'
    PROVE  Inv'
<1>1. Sound'
  BY InvSound, WriteSound
<1>2. MemoryTypes'
  BY <1>1 DEF Sound, Rows, MemoryTypes, MemoryTypeOK
<1>3. Reads'
  <2>1. \A c \in Client :
          /\ req[c].at \in {"patch", "reinforce"} => req[c].mem \in Units'
          /\ req[c].at = "reinforce" =>
              /\ req[c].expected <= heads'[req[c].mem].revision
              /\ req[c].expected = heads'[req[c].mem].revision
                 => req[c].count = heads'[req[c].mem].reinforcements
    BY WriteReads
  <2>2. Idle.at = "idle"
    BY DEF Idle
  <2>. SUFFICES ASSUME NEW c \in Client
       PROVE /\ req'[c].at \in {"patch", "reinforce"} => req'[c].mem \in Units'
             /\ req'[c].at = "reinforce" =>
                /\ req'[c].expected <= heads'[req'[c].mem].revision
                /\ req'[c].expected = heads'[req'[c].mem].revision
                    => req'[c].count = heads'[req'[c].mem].reinforcements
    BY DEF Reads
  <2>3. CASE req'[c] = Idle
    BY <2>2, <2>3
  <2>4. CASE req'[c] = req[c]
    BY <2>1, <2>4
  <2>. QED  BY <2>3, <2>4
<1>. QED  BY <1>1, <1>2, <1>3 DEF Inv, Sound

LEMMA ReadingStep ==
    ASSUME Inv, UNCHANGED <<heads, history>>, edges' \subseteq Edge, lock' \subseteq Principal,
           req' \in [Client -> Request], shown' \subseteq Units,
           \A c \in Client :
              \/ req'[c] = req[c]
              \/ req'[c].at \notin {"patch", "reinforce"}
              \/ req'[c].at = "patch" /\ req'[c].mem \in Units
              \/ /\ req'[c].at = "reinforce" /\ req'[c].mem \in Units
                 /\ req'[c].expected <= heads[req'[c].mem].revision
                 /\ req'[c].count = heads[req'[c].mem].reinforcements
    PROVE  Inv'
<1>1. Units' = Units
  BY DEF Units
<1>2. MemoryTypes'
  BY <1>1 DEF Inv, MemoryTypes, MemoryTypeOK
<1>3. Reads'
  BY <1>1 DEF Inv, Reads
<1>4. LineageComplete' /\ RootsDescend' /\ ReinforcementsExact'
  BY <1>1 DEF Inv, LineageComplete, RootsDescend, ReinforcementsExact
<1>. QED  BY <1>2, <1>3, <1>4 DEF Inv

-----------------------------------------------------------------------------
LEMMA PlainLabels ==
    /\ \A l \in Name \X {0} : l \in Label
    /\ <<SourceName, 0>> \in Label
BY BoundAssumption, NameAssumption DEF Label

LEMMA InitInv ==
    ASSUME Init PROVE Inv
<1>1. Units = {} /\ heads = [m \in {} |-> m]
  BY DEF Init, EmptyTables, Units, None
<1>2. heads \in [Units -> UnitRow] /\ history \in [Mem -> Seq(Revision)]
  BY <1>1 DEF Init, EmptyTables
<1>3. req \in [Client -> Request] /\ \A c \in Client : req[c].at = "idle"
  BY DEF Init, Idle, Request
<1>4. MemoryTypes
  BY <1>1, <1>2, <1>3 DEF Init, EmptyTables, MemoryTypes, MemoryTypeOK
<1>5. LineageComplete /\ RootsDescend /\ ReinforcementsExact
  BY <1>1 DEF Init, EmptyTables, LineageComplete, RootsDescend, ReinforcementsExact
<1>6. Reads
  BY <1>3 DEF Reads
<1>. QED  BY <1>4, <1>5, <1>6 DEF Inv

(* The rows a Write leaves.                                                *)
LEMMA InsertedRow ==
    ASSUME Rows, LineageComplete, NEW ins, NEW upd, GoodInserts(ins), GoodUpdates(upd),
           Write(ins, upd), NEW m \in DOMAIN ins
    PROVE  /\ m \in Mem /\ m \notin Units /\ m \in Units'
           /\ heads'[m] = ins[m].head
           /\ history'[m] = <<RootRow(ins[m])>>
           /\ history'[m][1].parent = ins[m].parent /\ history'[m][1].reason = ins[m].reason
<1>1. m \in Mem \ Units
  BY DEF GoodInserts, Fresh
<1>2. history[m] = <<>>
  BY <1>1 DEF LineageComplete
<1>3. /\ m \in Units' /\ heads'[m] = ins[m].head
      /\ history'[m] = Append(<<>>, RootRow(ins[m]))
  BY <1>1, <1>2 DEF Write, HeadsAfter, HistoryAfter, Units
<1>4. history'[m] = <<RootRow(ins[m])>>
  BY <1>3
<1>. QED  BY <1>1, <1>3, <1>4 DEF RootRow

LEMMA UpdatedRow ==
    ASSUME Rows, LineageComplete, NEW ins, NEW upd, GoodInserts(ins), GoodUpdates(upd),
           Write(ins, upd), NEW m \in DOMAIN upd
    PROVE  /\ m \in Units
           /\ heads'[m].revision = heads[m].revision + 1
           /\ heads'[m].principal = upd[m].head.principal
           /\ heads'[m].origin = upd[m].head.origin
           /\ heads'[m].status = upd[m].head.status
           /\ heads'[m].body = upd[m].head.body
           /\ heads'[m].label = upd[m].head.label
           /\ heads[m].revision \in Nat \ {0}
           /\ DOMAIN history[m] = 1 .. heads[m].revision
           /\ DOMAIN history'[m] = 1 .. heads[m].revision + 1
           /\ \A k \in 1 .. heads[m].revision : history'[m][k] = history[m][k]
           /\ history'[m][heads[m].revision + 1].reason = upd[m].reason
<1>1. m \in Units /\ m \in Mem /\ m \notin DOMAIN ins /\ upd[m].head \in UnitRow
  BY DEF GoodUpdates, GoodInserts, Fresh, Rows
<1>2. /\ heads'[m] = [upd[m].head EXCEPT !.revision = heads[m].revision + 1]
      /\ history'[m] = Append(history[m], CasRow(m, upd[m]))
  BY <1>1 DEF Write, HeadsAfter, HistoryAfter
<1>3. /\ heads'[m].revision = heads[m].revision + 1
      /\ heads'[m].principal = upd[m].head.principal
      /\ heads'[m].origin = upd[m].head.origin
      /\ heads'[m].status = upd[m].head.status
      /\ heads'[m].body = upd[m].head.body
      /\ heads'[m].label = upd[m].head.label
  BY <1>1, <1>2 DEF UnitRow
<1>4. CasRow(m, upd[m]) \in Revision /\ CasRow(m, upd[m]).reason = upd[m].reason
  BY CasRowTyped DEF CasRow
<1>5. heads[m].revision \in Nat \ {0} /\ history[m] \in Seq(Revision)
      /\ Len(history[m]) = heads[m].revision
  BY <1>1 DEF Rows, UnitRow, LineageComplete
<1> DEFINE h == history[m]
           n == heads[m].revision
           row == CasRow(m, upd[m])
<1>6. /\ DOMAIN h = 1 .. n /\ DOMAIN Append(h, row) = 1 .. n + 1
      /\ \A k \in 1 .. n : Append(h, row)[k] = h[k]
      /\ Append(h, row)[n + 1] = row
  <2>1. h \in Seq(Revision) /\ row \in Revision /\ Len(h) = n /\ n \in Nat
    BY <1>4, <1>5
  <2>. HIDE DEF h, n, row
  <2>. QED  BY <2>1
<1>. QED  BY <1>1, <1>2, <1>3, <1>4, <1>5, <1>6

LEMMA UntouchedRow ==
    ASSUME Rows, NEW ins, NEW upd, GoodInserts(ins), GoodUpdates(upd),
           Write(ins, upd), NEW m \in Units, m \notin DOMAIN upd
    PROVE  heads'[m] = heads[m] /\ history'[m] = history[m]
<1>1. m \notin DOMAIN ins /\ m \in Mem
  BY DEF GoodInserts, Fresh, Rows
<1>. QED  BY <1>1 DEF Write, HeadsAfter, HistoryAfter

LEMMA WriteUnits ==
    ASSUME NEW ins, NEW upd, Write(ins, upd)
    PROVE  Units' = Units \cup DOMAIN ins
BY DEF Write, HeadsAfter, Units

(* The four facts every handler step needs of the state before it.         *)
LEMMA Before ==
    ASSUME Inv
    PROVE  /\ Rows /\ edges \subseteq Edge /\ lock \subseteq Principal
           /\ req \in [Client -> Request] /\ shown \subseteq Units
BY DEF Inv, MemoryTypes, MemoryTypeOK, Rows

LEMMA FinishTyped ==
    ASSUME Inv, NEW c \in Client, Finish(c)
    PROVE  /\ req' \in [Client -> Request]
           /\ \A d \in Client : req'[d] = req[d] \/ req'[d] = Idle
<1>1. Idle \in Request
  BY DEF Idle, Request
<1>. QED  BY <1>1, Before DEF Finish

LEMMA StartTyped ==
    ASSUME Inv, NEW c \in Client, NEW r \in Request, Start(c, r)
    PROVE  /\ req' \in [Client -> Request] /\ req'[c] = r
           /\ \A d \in Client \ {c} : req'[d] = req[d]
BY Before DEF Start

-----------------------------------------------------------------------------
LEMMA CreateDedupStep ==
    ASSUME Inv, NEW c \in Client, NEW p \in Principal, NEW d \in Drafts, NEW force \in BOOLEAN,
           CreateDedup(c, p, d, force)
    PROVE  Inv'
<1> DEFINE r == [at |-> "create", principal |-> p, draft |-> d]
<1>1. r \in Request
  BY DraftsAssumption DEF Request
<1>2. Start(c, r) /\ UNCHANGED <<heads, history, edges, shown>> /\ lock' = lock \cup {p}
  BY DEF CreateDedup, tables
<1>3. /\ req' \in [Client -> Request] /\ req'[c] = r
      /\ \A x \in Client \ {c} : req'[x] = req[x]
  BY <1>1, <1>2, StartTyped
<1>4. \A x \in Client : req'[x] = req[x] \/ req'[x].at \notin {"patch", "reinforce"}
  BY <1>3
<1>. QED  BY <1>2, <1>3, <1>4, Before, ReadingStep

LEMMA CreateInsertStep ==
    ASSUME Inv, NEW c \in Client, CreateInsert(c)
    PROVE  Inv'
<1> DEFINE r == req[c]
<1>1. r \in Request /\ r.at = "create"
  BY Before DEF CreateInsert
<1>2. r.principal \in Principal /\ r.draft \in Draft
  BY <1>1 DEF Request
<1>3. /\ UNCHANGED <<edges, shown>> /\ lock' \subseteq Principal
      /\ req' \in [Client -> Request]
      /\ \A x \in Client : req'[x] = req[x] \/ req'[x] = Idle
  BY Before, FinishTyped DEF CreateInsert
<1>4. CASE UNCHANGED <<heads, history>>
  <2>1. \A x \in Client : req'[x] = req[x] \/ req'[x].at \notin {"patch", "reinforce"}
    BY <1>3 DEF Idle
  <2>. QED  BY <1>3, <1>4, <2>1, Before, ReadingStep
<1>5. CASE \E m \in Fresh :
             Write(Only(m, Root(r.principal, r.draft.label, r.draft.body, "active",
                                NoOrigin, NoParent, "created")), None)
  <2>1. PICK m \in Fresh :
             Write(Only(m, Root(r.principal, r.draft.label, r.draft.body, "active",
                                NoOrigin, NoParent, "created")), None)
    BY <1>5
  <2>2. r.draft.label \in Label /\ r.draft.body \in Body
    BY <1>2, PlainLabels DEF Draft
  <2>3. Fit(Only(m, Root(r.principal, r.draft.label, r.draft.body, "active",
                         NoOrigin, NoParent, "created")), None)
    BY <1>2, <2>2, Before, LoneRootFit DEF Status, Reason
  <2>4. Units \subseteq Units'
    BY <2>1, <2>3, Before, WriteMonotone DEF Fit
  <2>. QED  BY <1>3, <2>1, <2>3, <2>4, Before, WritingStep
<1>. QED  BY <1>4, <1>5 DEF CreateInsert

LEMMA SplitCheckStep ==
    ASSUME Inv, NEW c \in Client, NEW p \in Principal, NEW s \in Drafts,
           NEW d \in Drafts, NEW e \in Drafts, SplitCheck(c, p, s.body, d, e)
    PROVE  Inv'
<1> DEFINE r == [at |-> "split", principal |-> p, source |-> s.body, left |-> d, right |-> e]
<1>1. r \in Request
  BY DraftsAssumption DEF Request, Draft
<1>2. Start(c, r) /\ UNCHANGED <<heads, history, edges, shown>> /\ lock' = lock \cup {p}
  BY DEF SplitCheck, tables
<1>3. /\ req' \in [Client -> Request] /\ req'[c] = r
      /\ \A x \in Client \ {c} : req'[x] = req[x]
  BY <1>1, <1>2, StartTyped
<1>4. \A x \in Client : req'[x] = req[x] \/ req'[x].at \notin {"patch", "reinforce"}
  BY <1>3
<1>. QED  BY <1>2, <1>3, <1>4, Before, ReadingStep

LEMMA FamilyFit ==
    ASSUME Rows, NEW r \in Request, r.at = "split",
           NEW s \in Fresh, NEW x \in Fresh, NEW y \in Fresh, s # x, s # y
    PROVE  Fit(Family(r, s, x, y), None)
<1> DEFINE ins == Family(r, s, x, y)
<1>1. /\ r.principal \in Principal /\ r.source \in Body
      /\ r.left \in Draft /\ r.right \in Draft
  BY DEF Request
<1>2. DOMAIN ins = {s, x, y}
  BY DEF Family
<1>3. /\ ins[s].head \in UnitRow /\ ins[s].head.revision = 1
      /\ ins[s].head.reinforcements = 0
      /\ ins[s].parent = NoParent /\ ins[s].reason = "split-source"
  BY <1>1, PlainLabels DEF Family, Root, UnitRow, Status
<1>4. ASSUME NEW m \in {x, y}
      PROVE  /\ ins[m].head \in UnitRow /\ ins[m].head.revision = 1
             /\ ins[m].head.reinforcements = 0
             /\ ins[m].parent = <<s, 1>> /\ ins[m].reason = "split-child"
  <2> DEFINE d == IF m = x THEN r.left ELSE r.right
  <2>1. d.label \in Label /\ d.body \in Body
    BY <1>1, PlainLabels DEF Draft
  <2>2. ins[m] = Root(r.principal, d.label, d.body, "active", NoOrigin, <<s, 1>>, "split-child")
    BY DEF Family, SourceRow
  <2>. HIDE DEF d, ins
  <2>. QED  BY <1>1, <2>1, <2>2 DEF Root, UnitRow, Status
<1>. HIDE DEF ins
<1>5. GoodInserts(ins)
  <2>1. s \in Mem
    BY DEF Fresh
  <2>2. <<s, 1>> \in RevUid /\ {"split-source", "split-child"} \subseteq Reason
    BY <2>1 DEF RevUid, Reason
  <2>. QED  BY <1>2, <1>3, <1>4, <2>2 DEF GoodInserts
<1>6. Uncounted(ins)
  BY <1>2, <1>3, <1>4 DEF Uncounted
<1>7. Descending(ins, None)
  <2>1. HeadsAfter(ins, None)[s] = ins[s].head
    BY <1>2 DEF HeadsAfter
  <2>2. 1 \in 1 .. HeadsAfter(ins, None)[s].revision
    BY <1>3, <2>1
  <2>. QED  BY <1>2, <1>3, <1>4, <2>2 DEF Descending
<1>8. GoodUpdates(None) /\ Counted(None)
  BY DEF GoodUpdates, Counted, None
<1>. QED  BY <1>5, <1>6, <1>7, <1>8 DEF Fit, ins

LEMMA SplitInsertStep ==
    ASSUME Inv, NEW c \in Client, SplitInsert(c)
    PROVE  Inv'
<1> DEFINE r == req[c]
<1>1. r \in Request /\ r.at = "split"
  BY Before DEF SplitInsert
<1>2. /\ UNCHANGED shown /\ lock' \subseteq Principal
      /\ req' \in [Client -> Request]
      /\ \A x \in Client : req'[x] = req[x] \/ req'[x] = Idle
  BY Before, FinishTyped DEF SplitInsert
<1>3. CASE UNCHANGED <<heads, history, edges>>
  <2>1. \A x \in Client : req'[x] = req[x] \/ req'[x].at \notin {"patch", "reinforce"}
    BY <1>2 DEF Idle
  <2>. QED  BY <1>2, <1>3, <2>1, Before, ReadingStep
<1>4. CASE \E s, x, y \in Fresh :
             /\ s # x /\ s # y /\ x # y
             /\ Write(Family(r, s, x, y), None)
             /\ edges' = edges \cup Siblings({x, y})
  <2>1. PICK s \in Fresh, x \in Fresh, y \in Fresh :
             /\ s # x /\ s # y /\ x # y
             /\ Write(Family(r, s, x, y), None)
             /\ edges' = edges \cup Siblings({x, y})
    BY <1>4
  <2>2. Fit(Family(r, s, x, y), None)
    BY <1>1, <2>1, Before, FamilyFit
  <2>3. Units \subseteq Units'
    BY <2>1, <2>2, Before, WriteMonotone DEF Fit
  <2>4. Siblings({x, y}) \subseteq Edge
    BY DEF Siblings, Edge, EdgeType, Fresh
  <2>. QED  BY <1>2, <2>1, <2>2, <2>3, <2>4, Before, WritingStep
<1>. QED  BY <1>3, <1>4 DEF SplitInsert

-----------------------------------------------------------------------------
LEMMA PatchReadStep ==
    ASSUME Inv, NEW c \in Client, NEW m \in Units, NEW patch \in Patches,
           NEW n \in 1 .. heads[m].revision, PatchRead(c, m, n, patch)
    PROVE  Inv'
<1> DEFINE r == [at |-> "patch", mem |-> m, expected |-> n, patch |-> patch]
<1>1. heads[m].revision \in Nat /\ m \in Mem
  BY Before DEF Rows, UnitRow
<1>2. r \in Request
  BY <1>1, PatchesAssumption DEF Request
<1>3. Start(c, r) /\ UNCHANGED <<heads, history, edges, lock, shown>>
  BY DEF PatchRead, tables
<1>4. /\ req' \in [Client -> Request] /\ req'[c] = r
      /\ \A x \in Client \ {c} : req'[x] = req[x]
  BY <1>2, <1>3, StartTyped
<1>5. \A x \in Client :
          req'[x] = req[x] \/ (req'[x].at = "patch" /\ req'[x].mem \in Units)
  BY <1>4
<1>. QED  BY <1>3, <1>4, <1>5, Before, ReadingStep

LEMMA ReinforceReadStep ==
    ASSUME Inv, NEW c \in Client, NEW m \in Units,
           NEW n \in 1 .. heads[m].revision, ReinforceRead(c, m, n)
    PROVE  Inv'
<1> DEFINE r == [at |-> "reinforce", mem |-> m, expected |-> n,
                 body |-> heads[m].body, count |-> heads[m].reinforcements]
<1>1. heads[m] \in UnitRow /\ heads[m].revision \in Nat /\ m \in Mem
  BY Before DEF Rows, UnitRow
<1>2. r \in Request
  BY <1>1 DEF Request, UnitRow
<1>3. Start(c, r) /\ UNCHANGED <<heads, history, edges, lock, shown>>
  BY DEF ReinforceRead, tables
<1>4. /\ req' \in [Client -> Request] /\ req'[c] = r
      /\ \A x \in Client \ {c} : req'[x] = req[x]
  BY <1>2, <1>3, StartTyped
<1>5. r.at = "reinforce" /\ r.mem = m /\ r.expected = n /\ r.count = heads[m].reinforcements
  OBVIOUS
<1>6. n <= heads[m].revision
  BY <1>1
<1>. HIDE DEF r
<1>7. \A x \in Client :
        \/ req'[x] = req[x]
        \/ /\ req'[x].at = "reinforce" /\ req'[x].mem \in Units
           /\ req'[x].expected <= heads[req'[x].mem].revision
           /\ req'[x].count = heads[req'[x].mem].reinforcements
  BY <1>4, <1>5, <1>6
<1>. QED  BY <1>3, <1>4, <1>7, Before, ReadingStep

(* A compare-and-swap that goes through, or is refused.                    *)
LEMMA CasStep ==
    ASSUME Inv, NEW c \in Client, NEW m \in Units, NEW expected, NEW h \in UnitRow,
           NEW reason \in Reason,
           heads[m].revision = expected
              => h.reinforcements = IF reason = "reinforced" THEN heads[m].reinforcements + 1
                                    ELSE heads[m].reinforcements,
           CasOrRefuse(m, expected, Change(h, reason)),
           Finish(c), UNCHANGED <<edges, lock, shown>>
    PROVE  Inv'
<1>1. /\ req' \in [Client -> Request]
      /\ \A x \in Client : req'[x] = req[x] \/ req'[x] = Idle
  BY FinishTyped
<1>2. CASE UNCHANGED <<heads, history>>
  <2>1. \A x \in Client : req'[x] = req[x] \/ req'[x].at \notin {"patch", "reinforce"}
    BY <1>1 DEF Idle
  <2>. QED  BY <1>1, <1>2, <2>1, Before, ReadingStep
<1>3. CASE heads[m].revision = expected /\ Write(None, Only(m, Change(h, reason)))
  <2>1. Fit(None, Only(m, Change(h, reason)))
    BY <1>3, LoneChangeFit
  <2>2. Units \subseteq Units'
    BY <1>3, <2>1, Before, WriteMonotone DEF Fit
  <2>. QED  BY <1>1, <1>3, <2>1, <2>2, Before, WritingStep
<1>. QED  BY <1>2, <1>3 DEF CasOrRefuse

LEMMA PatchedTyped ==
    ASSUME NEW h \in UnitRow, NEW patch \in PatchBody
    PROVE  Patched(h, patch) \in UnitRow /\ Patched(h, patch).reinforcements = h.reinforcements
<1>1. /\ patch.label = Keep \/ patch.label \in Label
      /\ patch.body = Keep \/ patch.body \in Body
      /\ patch.status = Keep \/ patch.status \in Status
  BY PlainLabels DEF PatchBody, PublicStatus, Status
<1> DEFINE l == IF patch.label = Keep THEN h.label ELSE patch.label
           b == IF patch.body = Keep THEN h.body ELSE patch.body
           s == IF patch.status = Keep THEN h.status ELSE patch.status
<1>2. l \in Label /\ b \in Body /\ s \in Status
  BY <1>1 DEF UnitRow
<1>3. Patched(h, patch) = [h EXCEPT !.label = l, !.body = b, !.status = s]
  BY DEF Patched, UnitRow
<1>. HIDE DEF l, b, s
<1>. QED  BY <1>2, <1>3 DEF UnitRow

LEMMA PatchCasStep ==
    ASSUME Inv, NEW c \in Client, PatchCas(c)
    PROVE  Inv'
<1> DEFINE r == req[c]
<1>1. r \in Request /\ r.at = "patch"
  BY Before DEF PatchCas
<1>2. r.patch \in PatchBody
  BY <1>1 DEF Request
<1>3. r.mem \in Units
  BY <1>1 DEF Inv, Reads
<1>4. heads[r.mem] \in UnitRow
  BY <1>3, Before DEF Rows
<1>5. /\ Patched(heads[r.mem], r.patch) \in UnitRow
      /\ Patched(heads[r.mem], r.patch).reinforcements = heads[r.mem].reinforcements
  BY <1>2, <1>4, PatchedTyped
<1>6. /\ CasOrRefuse(r.mem, r.expected, Change(Patched(heads[r.mem], r.patch), "patched"))
      /\ Finish(c) /\ UNCHANGED <<edges, lock, shown>>
  BY DEF PatchCas
<1>7. "patched" \in Reason /\ "patched" # "reinforced"
  BY DEF Reason
<1>. HIDE DEF r
<1>. QED  BY <1>3, <1>5, <1>6, <1>7, CasStep

LEMMA ReinforcedTyped ==
    ASSUME NEW h \in UnitRow, NEW b \in Body, NEW n \in Nat
    PROVE  /\ [h EXCEPT !.body = b, !.reinforcements = n] \in UnitRow
           /\ [h EXCEPT !.body = b, !.reinforcements = n].reinforcements = n
  BY DEF UnitRow

LEMMA ReinforceCasStep ==
    ASSUME Inv, NEW c \in Client, ReinforceCas(c)
    PROVE  Inv'
<1> DEFINE r == req[c]
           old == heads[r.mem]
           text == r.body
           n == r.count + 1
           h == [old EXCEPT !.body = text, !.reinforcements = n]
<1>1. r \in Request /\ r.at = "reinforce"
  BY Before DEF ReinforceCas
<1>2. r.body \in Body /\ r.count \in Nat
  BY <1>1 DEF Request
<1>3. /\ r.mem \in Units
      /\ r.expected = heads[r.mem].revision => r.count = heads[r.mem].reinforcements
  BY <1>1 DEF Inv, Reads
<1>4. heads[r.mem] \in UnitRow
  BY <1>3, Before DEF Rows
<1>5. h \in UnitRow /\ h.reinforcements = n
  <2>1. old \in UnitRow /\ text \in Body /\ n \in Nat
    BY <1>2, <1>4
  <2>. HIDE DEF old, text, n
  <2>. QED  BY <2>1, ReinforcedTyped
<1>6. /\ CasOrRefuse(r.mem, r.expected, Change(h, "reinforced"))
      /\ Finish(c) /\ UNCHANGED <<edges, lock, shown>>
  BY DEF ReinforceCas
<1>7. "reinforced" \in Reason
  BY DEF Reason
<1>. HIDE DEF r, h
<1>. QED  BY <1>3, <1>5, <1>6, <1>7, CasStep

LEMMA CrashStep ==
    ASSUME Inv, NEW c \in Client, Crash(c)
    PROVE  Inv'
<1>1. /\ UNCHANGED <<heads, history, edges, shown>> /\ lock' \subseteq Principal
      /\ req' \in [Client -> Request]
      /\ \A x \in Client : req'[x] = req[x] \/ req'[x] = Idle
  BY Before, FinishTyped DEF Crash, tables
<1>2. \A x \in Client : req'[x] = req[x] \/ req'[x].at \notin {"patch", "reinforce"}
  BY <1>1 DEF Idle
<1>. QED  BY <1>1, <1>2, Before, ReadingStep

-----------------------------------------------------------------------------
LEMMA InjectPrepareStep ==
    ASSUME Inv, NEW p \in Principal, NEW scored, NEW injected,
           InjectPrepare(p, scored, injected)
    PROVE  Inv'
<1> DEFINE upd == [m \in injected |-> Change(heads[m], "injected")]
<1>1. /\ scored \subseteq Units /\ injected \subseteq Units
      /\ Write(None, upd) /\ shown' = shown \cup scored
      /\ UNCHANGED <<edges, lock, req>>
  BY DEF InjectPrepare, Active
<1>2. /\ DOMAIN upd = injected
      /\ \A m \in injected : /\ upd[m].head = heads[m] /\ heads[m] \in UnitRow
                             /\ upd[m].reason = "injected"
  BY <1>1, Before DEF Change, Rows
<1>3. "injected" \in Reason /\ "injected" # "reinforced"
  BY DEF Reason
<1>. HIDE DEF upd
<1>4. GoodUpdates(upd) /\ Counted(upd)
  BY <1>1, <1>2, <1>3 DEF GoodUpdates, Counted
<1>5. Fit(None, upd)
  BY <1>4, UpdatesFit
<1>6. Units \subseteq Units'
  BY <1>1, <1>5, Before, WriteMonotone DEF Fit
<1>. QED  BY <1>1, <1>5, <1>6, Before, WritingStep

LEMMA InjectOutcomeStep ==
    ASSUME Inv, NEW m \in shown, NEW q \in BOOLEAN, InjectOutcome(m, q)
    PROVE  Inv'
<1> DEFINE s == IF q THEN "quarantined" ELSE heads[m].status
           h == [heads[m] EXCEPT !.status = s]
<1>1. m \in Units /\ heads[m] \in UnitRow
  BY Before DEF Rows
<1>2. s \in Status
  BY <1>1 DEF UnitRow, Status
<1>. HIDE DEF s
<1>3. h \in UnitRow /\ h.reinforcements = heads[m].reinforcements
  BY <1>1, <1>2 DEF UnitRow
<1>4. /\ Write(None, Only(m, Change(h, "outcome")))
      /\ UNCHANGED <<edges, lock, req, shown>>
  BY <1>1 DEF InjectOutcome, UnitRow, s
<1>5. "outcome" \in Reason /\ "outcome" # "reinforced"
  BY DEF Reason
<1>. HIDE DEF h
<1>6. Fit(None, Only(m, Change(h, "outcome")))
  BY <1>1, <1>3, <1>5, LoneChangeFit
<1>7. Units \subseteq Units'
  BY <1>4, <1>6, Before, WriteMonotone DEF Fit
<1>. QED  BY <1>4, <1>6, <1>7, Before, WritingStep

-----------------------------------------------------------------------------
(* One step per action.                                                    *)
LEMMA HandlerStep ==
    ASSUME Inv, NEW c \in Client, HandlerNext(c)
    PROVE  Inv'
<1>1. CASE \E p \in Principal, d \in Drafts, force \in BOOLEAN : CreateDedup(c, p, d, force)
  BY <1>1, CreateDedupStep
<1>2. CASE CreateInsert(c)
  BY <1>2, CreateInsertStep
<1>3. CASE \E p \in Principal, s, d, e \in Drafts : SplitCheck(c, p, s.body, d, e)
  BY <1>3, SplitCheckStep
<1>4. CASE SplitInsert(c)
  BY <1>4, SplitInsertStep
<1>5. CASE \E m \in Units, patch \in Patches : \E n \in 1 .. heads[m].revision :
              PatchRead(c, m, n, patch)
  BY <1>5, PatchReadStep
<1>6. CASE PatchCas(c)
  BY <1>6, PatchCasStep
<1>7. CASE \E m \in Units : \E n \in 1 .. heads[m].revision : ReinforceRead(c, m, n)
  BY <1>7, ReinforceReadStep
<1>8. CASE ReinforceCas(c)
  BY <1>8, ReinforceCasStep
<1>9. CASE Crash(c)
  BY <1>9, CrashStep
<1>. QED
  BY <1>1, <1>2, <1>3, <1>4, <1>5, <1>6, <1>7, <1>8, <1>9 DEF HandlerNext

LEMMA InjectStep ==
    ASSUME Inv, InjectNext
    PROVE  Inv'
<1>1. CASE \E p \in Principal : \E scored \in SUBSET Active :
              \E injected \in SUBSET scored : InjectPrepare(p, scored, injected)
  BY <1>1, InjectPrepareStep
<1>2. CASE \E m \in shown, q \in BOOLEAN : InjectOutcome(m, q)
  BY <1>2, InjectOutcomeStep
<1>. QED  BY <1>1, <1>2 DEF InjectNext

LEMMA StutterStep ==
    ASSUME Inv, UNCHANGED memoryVars
    PROVE  Inv'
<1>1. UNCHANGED <<heads, history, edges, lock, req, shown>>
  BY DEF memoryVars, tables
<1>. QED  BY <1>1, Before, ReadingStep

(***************************************************************************)
(* Every behaviour of the memory service keeps the inductive invariant.    *)
(***************************************************************************)
THEOREM MemoryInvariant == MemorySpec => []Inv
<1>1. Init => Inv
  BY InitInv
<1>2. Inv /\ [MemoryNext]_memoryVars => Inv'
  BY HandlerStep, InjectStep, StutterStep DEF MemoryNext
<1>. QED  BY <1>1, <1>2, PTL DEF MemorySpec

(***************************************************************************)
(* Type correctness of the tables and of the handlers' states, for any     *)
(* number of memories, owners, handlers, texts and requests.               *)
(***************************************************************************)
THEOREM MemoryTypesHold == MemorySpec => []MemoryTypes
<1>1. Inv => MemoryTypes
  BY DEF Inv
<1>. QED  BY <1>1, MemoryInvariant, PTL

(***************************************************************************)
(* A head and its history never part: _cas_update_memory_unit always finds *)
(* exactly one parent row, and the rows are the chain 1..revision.         *)
(***************************************************************************)
THEOREM LineageHolds == MemorySpec => []LineageComplete
<1>1. Inv => LineageComplete
  BY DEF Inv
<1>. QED  BY <1>1, MemoryInvariant, PTL

(***************************************************************************)
(* Every root is parentless or descends from a row that exists.            *)
(***************************************************************************)
THEOREM RootsHold == MemorySpec => []RootsDescend
<1>1. Inv => RootsDescend
  BY DEF Inv
<1>. QED  BY <1>1, MemoryInvariant, PTL

(***************************************************************************)
(* No reinforcement is lost or counted twice, though patch reads the count *)
(* outside the transaction that writes it back.                            *)
(***************************************************************************)
THEOREM ReinforcementsHold == MemorySpec => []ReinforcementsExact
<1>1. Inv => ReinforcementsExact
  BY DEF Inv
<1>. QED  BY <1>1, MemoryInvariant, PTL
-----------------------------------------------------------------------------
(***************************************************************************)
(* Twins.  A create compares with the active corpus before it inserts, so  *)
(* what it saw has to hold until then.  The advisory lock makes it hold: a *)
(* handler between the two statements of a create or a split holds the lock*)
(* of its principal, no two hold the same one, and every other birth of    *)
(* that principal needs it.                                                *)
(***************************************************************************)
Holding(c) == req[c].at \in {"create", "split"}

LockHeld == \A c \in Client : Holding(c) => req[c].principal \in lock

LockAlone ==
    \A c, d \in Client :
        c # d /\ Holding(c) /\ Holding(d) => req[c].principal # req[d].principal

Clear(p, b) ==
    \A m \in Untouched :
        heads[m].principal = p => Band[<<b, heads[m].body>>] # "duplicate"

StillClear ==
    \A c \in Client :
        req[c].at = "create" => Clear(req[c].principal, req[c].draft.body)

TwinInv == Inv /\ LockHeld /\ LockAlone /\ StillClear /\ NoTwinBirths

(* The lock, step by step: taken by c, given back by c, or left alone.     *)
LEMMA LockTaken ==
    ASSUME LockHeld, LockAlone, NEW c \in Client, NEW p, p \notin lock,
           lock' = lock \cup {p}, req'[c].principal = p,
           \A d \in Client \ {c} : req'[d] = req[d]
    PROVE  LockHeld' /\ LockAlone'
<1>1. \A d \in Client \ {c} : Holding(d)' => Holding(d) /\ req'[d].principal = req[d].principal
  BY DEF Holding
<1>2. LockHeld'
  BY <1>1 DEF LockHeld
<1>3. \A d \in Client \ {c} : Holding(d)' => req'[d].principal # p
  BY <1>1 DEF LockHeld
<1>. QED  BY <1>1, <1>2, <1>3 DEF LockAlone

LEMMA LockGiven ==
    ASSUME LockHeld, LockAlone, NEW c \in Client, Holding(c), lock' = lock \ {req[c].principal},
           ~Holding(c)', \A d \in Client \ {c} : req'[d] = req[d]
    PROVE  LockHeld' /\ LockAlone'
<1>1. \A d \in Client : Holding(d)' => d # c /\ Holding(d) /\ req'[d] = req[d]
  BY DEF Holding
<1>2. LockHeld'
  BY <1>1 DEF LockHeld, LockAlone
<1>3. LockAlone'
  BY <1>1 DEF LockAlone
<1>. QED  BY <1>2, <1>3

LEMMA LockLeft ==
    ASSUME LockHeld, LockAlone, lock' = lock,
           \A d \in Client : req'[d] = req[d] \/ ~Holding(d)'
    PROVE  LockHeld' /\ LockAlone'
<1>1. \A d \in Client : Holding(d)' => Holding(d) /\ req'[d] = req[d]
  BY DEF Holding
<1>. QED  BY <1>1 DEF LockHeld, LockAlone

(* What is untouched after a step was born by it, or is as it was before.  *)
Bears(B) ==
    \A m \in Untouched' \ B :
        m \in Untouched /\ heads'[m] = heads[m] /\ history'[m][1] = history[m][1]

LEMMA ReadBearsNone ==
    ASSUME UNCHANGED <<heads, history>> PROVE Bears({})
BY DEF Bears, Untouched, Active, Units

LEMMA WriteBears ==
    ASSUME Inv, NEW ins, NEW upd, Fit(ins, upd), Write(ins, upd)
    PROVE  Bears(DOMAIN ins)
<1>1. Rows /\ LineageComplete /\ GoodInserts(ins) /\ GoodUpdates(upd)
  BY InvSound DEF Sound, Fit
<1>2. Units' = Units \cup DOMAIN ins
  BY WriteUnits
<1>. SUFFICES ASSUME NEW m \in Untouched' \ DOMAIN ins
              PROVE  m \in Untouched /\ heads'[m] = heads[m] /\ history'[m][1] = history[m][1]
  BY DEF Bears
<1>3. m \in Units /\ heads'[m].revision = 1
  BY <1>2 DEF Untouched, Active
<1>4. m \notin DOMAIN upd
  <2>1. ASSUME m \in DOMAIN upd PROVE FALSE
    BY <1>1, <1>3, <2>1, UpdatedRow
  <2>. QED  BY <2>1
<1>5. heads'[m] = heads[m] /\ history'[m] = history[m]
  BY <1>1, <1>3, <1>4, UntouchedRow
<1>. QED  BY <1>3, <1>5 DEF Untouched, Active

(* Births that are clear of the old, and of each other unless siblings.    *)
BornApart(B) ==
    /\ \A m \in B \cap Untouched', n \in Untouched :
          heads[n].principal = heads'[m].principal
             => Band[<<heads'[m].body, heads[n].body>>] # "duplicate"
    /\ \A m, n \in B \cap Untouched' :
          m # n => /\ history'[m][1].parent # NoParent
                   /\ history'[m][1].parent = history'[n][1].parent

LEMMA BornApartTwins ==
    ASSUME Rows, Rows', NoTwinBirths, NEW B, Bears(B), BornApart(B)
    PROVE  NoTwinBirths'
<1>. SUFFICES ASSUME NEW m \in Untouched', NEW n \in Untouched', Twins(m, n)'
              PROVE  /\ history'[m][1].parent # NoParent
                     /\ history'[m][1].parent = history'[n][1].parent
  BY DEF NoTwinBirths
<1>1. /\ m # n /\ heads'[m].principal = heads'[n].principal
      /\ Band[<<heads'[m].body, heads'[n].body>>] = "duplicate"
      /\ Band[<<heads'[n].body, heads'[m].body>>] = "duplicate"
  <2>1. heads'[m].body \in Body /\ heads'[n].body \in Body
    BY DEF Rows, UnitRow, Untouched, Active
  <2>. QED  BY <2>1, BandAssumption DEF Twins
<1>2. CASE m \in B /\ n \in B
  BY <1>1, <1>2 DEF BornApart
<1>3. CASE m \in B /\ n \notin B
  BY <1>1, <1>3 DEF BornApart, Bears
<1>4. CASE m \notin B /\ n \in B
  BY <1>1, <1>4 DEF BornApart, Bears
<1>5. CASE m \notin B /\ n \notin B
  <2>1. m \in Untouched /\ n \in Untouched /\ Twins(m, n)
    BY <1>1, <1>5 DEF Bears, Twins
  <2>. QED  BY <1>5, <2>1 DEF NoTwinBirths, Bears
<1>. QED  BY <1>2, <1>3, <1>4, <1>5

(* What a create in progress saw stays true when the births are those of   *)
(* another principal.                                                      *)
LEMMA StillClearKept ==
    ASSUME StillClear, NEW B, Bears(B),
           \A c \in Client : req'[c].at = "create" =>
               /\ req'[c] = req[c]
               /\ \A m \in B \cap Untouched' : heads'[m].principal # req[c].principal
    PROVE  StillClear'
<1>. SUFFICES ASSUME NEW c \in Client, req'[c].at = "create",
                     NEW m \in Untouched', heads'[m].principal = req'[c].principal
              PROVE  Band[<<req'[c].draft.body, heads'[m].body>>] # "duplicate"
  BY DEF StillClear, Clear
<1>1. req'[c] = req[c] /\ m \notin B
  OBVIOUS
<1>2. m \in Untouched /\ heads'[m] = heads[m]
  BY <1>1 DEF Bears
<1>. QED  BY <1>1, <1>2 DEF StillClear, Clear

(* A step without births: the lock is its only concern.                    *)
LEMMA BarrenStep ==
    ASSUME TwinInv, Inv', Bears({}), LockHeld', LockAlone',
           \A c \in Client : req'[c] = req[c] \/ req'[c].at # "create"
    PROVE  TwinInv'
<1>1. Rows /\ Rows'
  BY DEF TwinInv, Inv, MemoryTypes, MemoryTypeOK, Rows
<1>2. BornApart({})
  BY DEF BornApart
<1>3. NoTwinBirths'
  BY <1>1, <1>2, BornApartTwins DEF TwinInv
<1>4. StillClear'
  BY StillClearKept DEF TwinInv
<1>. QED  BY <1>3, <1>4 DEF TwinInv

(* The end of a create or a split that bore B.                             *)
LEMMA BearingStep ==
    ASSUME TwinInv, Inv', NEW c \in Client, Holding(c), Finish(c),
           lock' = lock \ {req[c].principal}, NEW B, Bears(B), BornApart(B),
           \A m \in B \cap Untouched' : heads'[m].principal = req[c].principal
    PROVE  TwinInv'
<1>1. Rows /\ Rows'
  BY DEF TwinInv, Inv, MemoryTypes, MemoryTypeOK, Rows
<1>2. NoTwinBirths'
  BY <1>1, BornApartTwins DEF TwinInv
<1>3. req'[c] = Idle /\ \A d \in Client \ {c} : req'[d] = req[d]
  BY DEF Finish, TwinInv, Inv, MemoryTypes
<1>4. LockHeld' /\ LockAlone'
  BY <1>3, LockGiven DEF TwinInv, Holding, Idle
<1>5. ASSUME NEW d \in Client, req'[d].at = "create"
      PROVE  /\ req'[d] = req[d]
             /\ \A m \in B \cap Untouched' : heads'[m].principal # req[d].principal
  <2>1. d # c /\ req'[d] = req[d] /\ Holding(d)
    BY <1>3, <1>5 DEF Idle, Holding
  <2>2. req[d].principal # req[c].principal
    BY <2>1 DEF TwinInv, LockAlone
  <2>. QED  BY <2>1, <2>2
<1>6. StillClear'
  BY <1>5, StillClearKept DEF TwinInv
<1>. QED  BY <1>2, <1>4, <1>6 DEF TwinInv

-----------------------------------------------------------------------------
LEMMA CreateDedupTwins ==
    ASSUME TwinInv, NEW c \in Client, NEW p \in Principal, NEW d \in Drafts,
           NEW force \in BOOLEAN, CreateDedup(c, p, d, force)
    PROVE  TwinInv'
<1> DEFINE r == [at |-> "create", principal |-> p, draft |-> d]
<1>1. Inv /\ Inv'
  BY CreateDedupStep DEF TwinInv
<1>2. /\ p \notin lock /\ lock' = lock \cup {p} /\ Start(c, r)
      /\ UNCHANGED <<heads, history>>
      /\ Duplicates(p, d.body, DedupMatches(p, d.body, {"active"}, {})) = {}
  BY DEF CreateDedup, LockFree, tables
<1>3. req'[c] = r /\ \A x \in Client \ {c} : req'[x] = req[x]
  BY <1>1, <1>2, Before DEF Start
<1>4. r.at = "create" /\ r.principal = p /\ r.draft = d
  OBVIOUS
<1>. HIDE DEF r
<1>5. LockHeld' /\ LockAlone'
  BY <1>2, <1>3, <1>4, LockTaken DEF TwinInv
<1>6. Clear(p, d.body)
  BY <1>2 DEF Clear, Duplicates, DedupMatches, Untouched, Active, Owned
<1>7. Untouched' = Untouched
  BY <1>2 DEF Untouched, Active, Units
<1>8. StillClear'
  <2>. SUFFICES ASSUME NEW x \in Client, req'[x].at = "create",
                       NEW m \in Untouched', heads'[m].principal = req'[x].principal
                PROVE  Band[<<req'[x].draft.body, heads'[m].body>>] # "duplicate"
    BY DEF StillClear, Clear
  <2>1. CASE x = c
    BY <1>2, <1>3, <1>4, <1>6, <1>7, <2>1 DEF Clear
  <2>2. CASE x # c
    BY <1>2, <1>3, <1>7, <2>2 DEF TwinInv, StillClear, Clear
  <2>. QED  BY <2>1, <2>2
<1>9. NoTwinBirths'
  BY <1>2, <1>7 DEF TwinInv, NoTwinBirths, Twins
<1>. QED  BY <1>1, <1>5, <1>8, <1>9 DEF TwinInv

LEMMA CreateInsertTwins ==
    ASSUME TwinInv, NEW c \in Client, CreateInsert(c)
    PROVE  TwinInv'
<1> DEFINE r == req[c]
           ins(m) == Only(m, Root(r.principal, r.draft.label, r.draft.body, "active",
                                  NoOrigin, NoParent, "created"))
<1>1. Inv /\ Inv' /\ Rows
  BY CreateInsertStep, Before DEF TwinInv
<1>2. /\ r.at = "create" /\ Holding(c) /\ Finish(c) /\ lock' = lock \ {r.principal}
  BY DEF CreateInsert, Holding
<1>3. CASE UNCHANGED <<heads, history>>
  <2>1. Bears({}) /\ BornApart({})
    BY <1>3, ReadBearsNone DEF BornApart
  <2>. QED  BY <1>1, <1>2, <2>1, BearingStep
<1>4. CASE \E m \in Fresh : Write(ins(m), None)
  <2>1. PICK m \in Fresh : Write(ins(m), None)
    BY <1>4
  <2>2. r.principal \in Principal /\ r.draft.label \in Label /\ r.draft.body \in Body
    <3>1. r \in Request
      BY <1>1, Before
    <3>2. r.principal \in Principal /\ r.draft \in Draft
      BY <1>2, <3>1 DEF Request
    <3>. QED  BY <3>2, PlainLabels DEF Draft
  <2>3. Fit(ins(m), None)
    BY <1>1, <2>2, LoneRootFit DEF Status, Reason
  <2>4. /\ DOMAIN ins(m) = {m}
        /\ ins(m)[m].head.principal = r.principal /\ ins(m)[m].head.body = r.draft.body
    BY DEF Only, Root
  <2>. HIDE DEF ins
  <2>5. Bears({m})
    BY <1>1, <2>1, <2>3, <2>4, WriteBears
  <2>6. heads'[m] = ins(m)[m].head
    BY <1>1, <2>1, <2>3, <2>4, InsertedRow DEF Fit, Inv
  <2>7. Clear(r.principal, r.draft.body)
    BY <1>2 DEF TwinInv, StillClear
  <2>8. BornApart({m})
    BY <2>4, <2>6, <2>7 DEF BornApart, Clear
  <2>. QED  BY <1>1, <1>2, <2>4, <2>5, <2>6, <2>8, BearingStep
<1>. QED  BY <1>3, <1>4 DEF CreateInsert

LEMMA SplitCheckTwins ==
    ASSUME TwinInv, NEW c \in Client, NEW p \in Principal, NEW s \in Drafts,
           NEW d \in Drafts, NEW e \in Drafts, SplitCheck(c, p, s.body, d, e)
    PROVE  TwinInv'
<1> DEFINE r == [at |-> "split", principal |-> p, source |-> s.body, left |-> d, right |-> e]
<1>1. Inv /\ Inv'
  BY SplitCheckStep DEF TwinInv
<1>2. /\ p \notin lock /\ lock' = lock \cup {p} /\ Start(c, r)
      /\ UNCHANGED <<heads, history>>
  BY DEF SplitCheck, LockFree, tables
<1>3. req'[c] = r /\ \A x \in Client \ {c} : req'[x] = req[x]
  BY <1>1, <1>2, Before DEF Start
<1>4. r.at = "split" /\ r.principal = p
  OBVIOUS
<1>. HIDE DEF r
<1>5. LockHeld' /\ LockAlone'
  BY <1>2, <1>3, <1>4, LockTaken DEF TwinInv
<1>6. Bears({})
  BY <1>2, ReadBearsNone
<1>. QED  BY <1>1, <1>3, <1>4, <1>5, <1>6, BarrenStep

LEMMA SplitInsertTwins ==
    ASSUME TwinInv, NEW c \in Client, SplitInsert(c)
    PROVE  TwinInv'
<1> DEFINE r == req[c]
           p == r.principal
           ok == \A d \in {r.left, r.right} :
                   /\ FindActiveLabel(p, d.label) = {}
                   /\ DedupMatches(p, d.body, {"active"}, {}) = {}
<1>1. Inv /\ Inv' /\ Rows
  BY SplitInsertStep, Before DEF TwinInv
<1>2. r.at = "split" /\ Holding(c) /\ Finish(c) /\ lock' = lock \ {r.principal}
  BY DEF SplitInsert, Holding
<1>3. CASE UNCHANGED <<heads, history>>
  <2>1. Bears({}) /\ BornApart({})
    BY <1>3, ReadBearsNone DEF BornApart
  <2>. QED  BY <1>1, <1>2, <2>1, BearingStep
<1>4. CASE ok /\ \E s, x, y \in Fresh : /\ s # x /\ s # y /\ x # y
                                        /\ Write(Family(r, s, x, y), None)
  <2>1. PICK s \in Fresh, x \in Fresh, y \in Fresh :
           /\ s # x /\ s # y /\ x # y
           /\ Write(Family(r, s, x, y), None)
    BY <1>4
  <2>2. PICK ins : ins = Family(r, s, x, y)
    OBVIOUS
  <2>3. Fit(ins, None) /\ Write(ins, None)
    BY <1>1, <1>2, <2>1, <2>2, Before, FamilyFit
  <2>4. /\ DOMAIN ins = {s, x, y}
        /\ ins[s].head.status = "tombstoned"
        /\ \A m \in {x, y} : /\ ins[m].head.principal = p
                             /\ ins[m].head.body \in {r.left.body, r.right.body}
                             /\ ins[m].parent = <<s, 1>>
    <3>. HIDE DEF r
    <3>1. DOMAIN ins = {s, x, y} /\ ins[s].head.status = "tombstoned"
      BY <2>1, <2>2 DEF Family, Root
    <3>2. /\ ins[x] = Root(p, r.left.label, r.left.body, "active",
                           NoOrigin, SourceRow(s), "split-child")
          /\ ins[y] = Root(p, r.right.label, r.right.body, "active",
                           NoOrigin, SourceRow(s), "split-child")
      BY <2>1, <2>2 DEF Family
    <3>. QED  BY <3>1, <3>2 DEF Root, SourceRow
  <2>5. Bears({s, x, y})
    BY <1>1, <2>3, <2>4, WriteBears
  <2>6. \A m \in {s, x, y} : heads'[m] = ins[m].head /\ history'[m][1].parent = ins[m].parent
    BY <1>1, <2>3, <2>4, InsertedRow DEF Fit, Inv
  <2>7. ASSUME NEW m \in {s, x, y} \cap Untouched'
        PROVE  /\ m \in {x, y} /\ heads'[m].principal = p
               /\ heads'[m].body \in {r.left.body, r.right.body}
               /\ history'[m][1].parent = <<s, 1>>
    <3>1. heads'[m].status = "active"
      BY DEF Untouched, Active
    <3>2. m \in {x, y}
      BY <2>4, <2>6, <3>1
    <3>. QED  BY <2>4, <2>6, <3>2
  <2>8. \A n \in Untouched, b \in {r.left.body, r.right.body} :
           heads[n].principal = p => Band[<<b, heads[n].body>>] = "distinct"
    BY <1>4 DEF DedupMatches, Untouched, Active, Owned
  <2>9. <<s, 1>> # NoParent
    BY DEF NoParent
  <2>10. BornApart({s, x, y})
    <3>1. \A m \in {s, x, y} \cap Untouched', n \in Untouched :
             heads[n].principal = heads'[m].principal
                => Band[<<heads'[m].body, heads[n].body>>] # "duplicate"
      BY <2>7, <2>8
    <3>2. \A m, n \in {s, x, y} \cap Untouched' :
             /\ history'[m][1].parent # NoParent
             /\ history'[m][1].parent = history'[n][1].parent
      BY <2>7, <2>9
    <3>. QED  BY <3>1, <3>2 DEF BornApart
  <2>. QED  BY <1>1, <1>2, <2>5, <2>7, <2>10, BearingStep
<1>. QED  BY <1>3, <1>4 DEF SplitInsert

-----------------------------------------------------------------------------
(* The steps of the others bear nothing, and neither take nor free a lock. *)
LEMMA RevisionBearsNone ==
    ASSUME Inv, Inv', NEW upd, DOMAIN upd \subseteq Units, Write(None, upd)
    PROVE  Bears({})
<1>1. DOMAIN None = {}
  BY DEF None
<1>2. Units' = Units
  BY <1>1, WriteUnits
<1>3. Rows /\ LineageComplete /\ LineageComplete'
  BY Before DEF Inv
<1>. SUFFICES ASSUME NEW m \in Untouched'
              PROVE  m \in Untouched /\ heads'[m] = heads[m] /\ history'[m][1] = history[m][1]
  BY DEF Bears
<1>4. m \in Units /\ m \in Mem /\ heads'[m].revision = 1
  BY <1>2, <1>3 DEF Untouched, Active, Rows
<1>5. CASE m \in DOMAIN upd
  <2>1. history'[m] = Append(history[m], CasRow(m, upd[m]))
    BY <1>1, <1>4, <1>5 DEF Write, HistoryAfter
  <2>2. /\ history[m] \in Seq(Revision) /\ Len(history[m]) = heads[m].revision
        /\ heads[m].revision \in Nat \ {0}
    BY <1>3, <1>4 DEF Rows, UnitRow, LineageComplete
  <2>3. Len(history'[m]) = 1
    BY <1>2, <1>3, <1>4 DEF LineageComplete
  <2>4. PICK h, row : h = history[m] /\ row = CasRow(m, upd[m])
    OBVIOUS
  <2>5. Len(Append(h, row)) = Len(h) + 1
    BY <2>2, <2>4
  <2>. QED  BY <2>1, <2>2, <2>3, <2>4, <2>5
<1>6. CASE m \notin DOMAIN upd
  <2>1. heads'[m] = heads[m] /\ history'[m] = history[m]
    BY <1>1, <1>4, <1>6 DEF Write, HeadsAfter, HistoryAfter
  <2>. QED  BY <1>4, <2>1 DEF Untouched, Active
<1>. QED  BY <1>5, <1>6

LEMMA PatchReadTwins ==
    ASSUME TwinInv, NEW c \in Client, NEW m \in Units, NEW patch \in Patches,
           NEW n \in 1 .. heads[m].revision, PatchRead(c, m, n, patch)
    PROVE  TwinInv'
<1>1. Inv /\ Inv'
  BY PatchReadStep DEF TwinInv
<1>2. Bears({}) /\ lock' = lock
  BY ReadBearsNone DEF PatchRead, tables
<1>3. \A x \in Client : req'[x] = req[x] \/ req'[x].at = "patch"
  BY <1>1, Before DEF PatchRead, Start
<1>4. LockHeld' /\ LockAlone'
  BY <1>2, <1>3, LockLeft DEF TwinInv, Holding
<1>. QED  BY <1>1, <1>2, <1>3, <1>4, BarrenStep

LEMMA ReinforceReadTwins ==
    ASSUME TwinInv, NEW c \in Client, NEW m \in Units,
           NEW n \in 1 .. heads[m].revision, ReinforceRead(c, m, n)
    PROVE  TwinInv'
<1>1. Inv /\ Inv'
  BY ReinforceReadStep DEF TwinInv
<1>2. Bears({}) /\ lock' = lock
  BY ReadBearsNone DEF ReinforceRead, tables
<1>3. \A x \in Client : req'[x] = req[x] \/ req'[x].at = "reinforce"
  BY <1>1, Before DEF ReinforceRead, Start
<1>4. LockHeld' /\ LockAlone'
  BY <1>2, <1>3, LockLeft DEF TwinInv, Holding
<1>. QED  BY <1>1, <1>2, <1>3, <1>4, BarrenStep

(* Both compare-and-swaps, and the end of their requests.                  *)
LEMMA CasTwins ==
    ASSUME TwinInv, Inv', NEW c \in Client, NEW m \in Units, NEW expected, NEW row,
           CasOrRefuse(m, expected, row), Finish(c), lock' = lock
    PROVE  TwinInv'
<1>1. Inv
  BY DEF TwinInv
<1>2. DOMAIN Only(m, row) = {m}
  BY DEF Only
<1>3. Bears({})
  BY <1>1, <1>2, ReadBearsNone, RevisionBearsNone DEF CasOrRefuse
<1>4. \A x \in Client : req'[x] = req[x] \/ req'[x].at = "idle"
  BY <1>1, FinishTyped DEF Idle
<1>5. LockHeld' /\ LockAlone'
  BY <1>4, LockLeft DEF TwinInv, Holding
<1>. QED  BY <1>3, <1>4, <1>5, BarrenStep

LEMMA PatchCasTwins ==
    ASSUME TwinInv, NEW c \in Client, PatchCas(c)
    PROVE  TwinInv'
<1>1. Inv /\ Inv'
  BY PatchCasStep DEF TwinInv
<1>2. req[c].mem \in Units
  BY <1>1 DEF Inv, Reads, PatchCas
<1>. QED  BY <1>1, <1>2, CasTwins DEF PatchCas

LEMMA ReinforceCasTwins ==
    ASSUME TwinInv, NEW c \in Client, ReinforceCas(c)
    PROVE  TwinInv'
<1>1. Inv /\ Inv'
  BY ReinforceCasStep DEF TwinInv
<1>2. req[c].mem \in Units
  BY <1>1 DEF Inv, Reads, ReinforceCas
<1>. QED  BY <1>1, <1>2, CasTwins DEF ReinforceCas

LEMMA InjectTwins ==
    ASSUME TwinInv, InjectNext
    PROVE  TwinInv'
<1>1. Inv /\ Inv'
  BY InjectStep DEF TwinInv
<1>2. lock' = lock /\ req' = req
  BY DEF InjectNext, InjectPrepare, InjectOutcome
<1>3. Bears({})
  <2>1. ASSUME NEW p, NEW scored, NEW injected, InjectPrepare(p, scored, injected)
        PROVE  Bears({})
    <3> DEFINE upd == [m \in injected |-> Change(heads[m], "injected")]
    <3>1. DOMAIN upd \subseteq Units /\ Write(None, upd)
      BY <2>1 DEF InjectPrepare, Active
    <3>. HIDE DEF upd
    <3>. QED  BY <1>1, <3>1, RevisionBearsNone
  <2>2. ASSUME NEW m \in shown, NEW q, InjectOutcome(m, q)
        PROVE  Bears({})
    <3>1. PICK row : Write(None, Only(m, row))
      BY <2>2 DEF InjectOutcome
    <3>2. DOMAIN Only(m, row) \subseteq Units
      BY <1>1, Before DEF Only
    <3>. QED  BY <1>1, <3>1, <3>2, RevisionBearsNone
  <2>. QED  BY <2>1, <2>2 DEF InjectNext
<1>4. LockHeld' /\ LockAlone'
  BY <1>2, LockLeft DEF TwinInv
<1>. QED  BY <1>1, <1>2, <1>3, <1>4, BarrenStep

LEMMA CrashTwins ==
    ASSUME TwinInv, NEW c \in Client, Crash(c)
    PROVE  TwinInv'
<1>1. Inv /\ Inv'
  BY CrashStep DEF TwinInv
<1>2. Bears({}) /\ Finish(c)
  BY ReadBearsNone DEF Crash, tables
<1>3. req'[c] = Idle /\ \A d \in Client \ {c} : req'[d] = req[d]
  BY <1>1, <1>2, Before DEF Finish
<1>4. LockHeld' /\ LockAlone'
  <2>1. CASE Holding(c)
    BY <1>3, <2>1, LockGiven DEF TwinInv, Crash, Holding, Idle
  <2>2. CASE ~Holding(c)
    BY <1>3, <2>2, LockLeft DEF TwinInv, Crash, Holding, Idle
  <2>. QED  BY <2>1, <2>2
<1>5. \A x \in Client : req'[x] = req[x] \/ req'[x].at # "create"
  BY <1>3 DEF Idle
<1>. QED  BY <1>1, <1>2, <1>4, <1>5, BarrenStep

LEMMA HandlerTwins ==
    ASSUME TwinInv, NEW c \in Client, HandlerNext(c)
    PROVE  TwinInv'
<1>1. CASE \E p \in Principal, d \in Drafts, force \in BOOLEAN : CreateDedup(c, p, d, force)
  BY <1>1, CreateDedupTwins
<1>2. CASE CreateInsert(c)
  BY <1>2, CreateInsertTwins
<1>3. CASE \E p \in Principal, s, d, e \in Drafts : SplitCheck(c, p, s.body, d, e)
  BY <1>3, SplitCheckTwins
<1>4. CASE SplitInsert(c)
  BY <1>4, SplitInsertTwins
<1>5. CASE \E m \in Units, patch \in Patches : \E n \in 1 .. heads[m].revision :
              PatchRead(c, m, n, patch)
  BY <1>5, PatchReadTwins
<1>6. CASE PatchCas(c)
  BY <1>6, PatchCasTwins
<1>7. CASE \E m \in Units : \E n \in 1 .. heads[m].revision : ReinforceRead(c, m, n)
  BY <1>7, ReinforceReadTwins
<1>8. CASE ReinforceCas(c)
  BY <1>8, ReinforceCasTwins
<1>9. CASE Crash(c)
  BY <1>9, CrashTwins
<1>. QED
  BY <1>1, <1>2, <1>3, <1>4, <1>5, <1>6, <1>7, <1>8, <1>9 DEF HandlerNext

LEMMA StutterTwins ==
    ASSUME TwinInv, UNCHANGED memoryVars
    PROVE  TwinInv'
<1>1. Inv /\ Inv' /\ UNCHANGED <<heads, history, lock, req>>
  BY StutterStep DEF TwinInv, memoryVars, tables
<1>2. Bears({}) /\ LockHeld' /\ LockAlone'
  BY <1>1, ReadBearsNone, LockLeft DEF TwinInv
<1>. QED  BY <1>1, <1>2, BarrenStep

(***************************************************************************)
(* No twins are born: two concurrent creates, or a create and a split, of  *)
(* one owner never both insert a memory the other's dedup check would have *)
(* refused, though each check reads before it inserts and other requests   *)
(* commit in between.  The advisory lock of the owner is what carries it.  *)
(***************************************************************************)
THEOREM NoTwinBirthsHolds == MemorySpec => []NoTwinBirths
<1>1. Init => TwinInv
  <2>. SUFFICES ASSUME Init PROVE TwinInv
    OBVIOUS
  <2>1. Inv /\ Units = {} /\ \A c \in Client : req[c].at = "idle"
    BY InitInv DEF Init, EmptyTables, Units, None, Idle
  <2>2. Untouched = {}
    BY <2>1 DEF Untouched, Active
  <2>. QED
    BY <2>1, <2>2 DEF TwinInv, LockHeld, LockAlone, Holding, StillClear, Clear, NoTwinBirths
<1>2. TwinInv /\ [MemoryNext]_memoryVars => TwinInv'
  BY HandlerTwins, InjectTwins, StutterTwins DEF MemoryNext
<1>3. TwinInv => NoTwinBirths
  BY DEF TwinInv
<1>. QED  BY <1>1, <1>2, <1>3, PTL DEF MemorySpec
=============================================================================
