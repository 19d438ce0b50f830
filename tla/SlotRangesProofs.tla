-------------------------- MODULE SlotRangesProofs --------------------------
(***************************************************************************)
(* Proofs about SlotRanges, for every number of slots, every set of group  *)
(* ids and every palette size: the runs formatList builds are well formed *)
(* and in slot order, and every slot a row admits is drawn in exactly one *)
(* run under the right group.  Neither is inductive alone (covering a new *)
(* slot needs the runs to be ordered, and the new run's type needs its    *)
(* from <= to), so the inductive invariant is their conjunction with      *)
(* TypeOK.  The induction is over the steps of the reduce: each step is   *)
(* one call of formatStep, handled by the two lemmas below.               *)
(***************************************************************************)
EXTENDS SlotRanges, TLAPS

\* The item formatStep is called with when it consumes slot p.
Items(p) == [id : {p}, group_id : Groups, fromGroupId : Groups]

\* The fields of an item handed to formatStep.
LEMMA ItemFields ==
    ASSUME NEW p \in SlotIds, NEW i \in Items(p)
    PROVE  i.id = p /\ i.group_id \in Groups /\ i.fromGroupId \in Groups
  BY DEF Items

\* A run formatList starts at slot p is a Run.
LEMMA NewRunType ==
    ASSUME NEW p \in SlotIds, NEW g \in Groups, NEW f \in Groups
    PROVE  [groupId |-> g, color |-> getColor(g), from |-> p, to |-> p,
            length |-> 1, fromGroupId |-> f] \in Run
<1>1. getColor(g) \in 0 .. PaletteSize - 1
  BY GroupsAssumption, PaletteAssumption DEF getColor
<1>2. QED
  BY <1>1 DEF Run

\* A call that starts a new run (the group differs from the last run's, or
\* there is no run yet).
LEMMA AppendStep ==
    ASSUME NEW d \in Seq(Run), NEW p \in SlotIds, NEW i \in Items(p),
           RunsOrdered(d, p),
           ~(d # << >> /\ d[Len(d)].groupId = i.group_id)
    PROVE  /\ formatStep(d, i) \in Seq(Run)
           /\ RunsOrdered(formatStep(d, i), p + 1)
           /\ \A A \in SUBSET SlotIds, L \in [SlotIds -> Groups] :
                 RunsCover(d, p, A, L) /\ p \in A /\ L[p] = i.group_id
                     => RunsCover(formatStep(d, i), p + 1, A, L)
<1> DEFINE r == [groupId |-> i.group_id, color |-> getColor(i.group_id),
                 from |-> p, to |-> p, length |-> 1, fromGroupId |-> i.fromGroupId]
           n == Len(d)
           e == Append(d, r)
<1>0. n \in Nat /\ p \in Nat
  BY DEF SlotIds
<1>1. formatStep(d, i) = e
  BY ItemFields DEF formatStep
<1>2. r \in Run
  BY ItemFields, NewRunType
<1>3. /\ e \in Seq(Run)
      /\ Len(e) = n + 1
      /\ \A j \in 1 .. n : e[j] = d[j]
      /\ e[n + 1] = r
  BY <1>2
<1>4. \A j \in 1 .. n : d[j] \in Run /\ d[j].from <= d[j].to /\ d[j].to < p
  BY DEF RunsOrdered
<1>5. RunsOrdered(e, p + 1)
  <2>1. \A j \in 1 .. n + 1 :
           /\ e[j].from <= e[j].to
           /\ e[j].to < p + 1
           /\ e[j].length = e[j].to - e[j].from + 1
    <3>1. \A j \in 1 .. n :
             /\ e[j].from <= e[j].to
             /\ e[j].to < p + 1
             /\ e[j].length = e[j].to - e[j].from + 1
      <4>1. TAKE j \in 1 .. n
      <4>2. e[j] = d[j]
        BY <1>3
      <4>3. d[j].length = d[j].to - d[j].from + 1
        BY DEF RunsOrdered
      <4>4. d[j].from <= d[j].to /\ d[j].to < p
        BY <1>4
      <4>5. d[j].from \in Nat /\ d[j].to \in Nat
        BY <1>4 DEF Run, SlotIds
      <4>6. QED
        BY <4>2, <4>3, <4>4, <4>5, <1>0
    <3>2. /\ e[n + 1].from <= e[n + 1].to
          /\ e[n + 1].to < p + 1
          /\ e[n + 1].length = e[n + 1].to - e[n + 1].from + 1
      BY <1>3, <1>0
    <3>3. QED
      <4>1. TAKE j \in 1 .. n + 1
      <4>2. j \in 1 .. n \/ j = n + 1
        BY <1>0
      <4>3. QED
        BY <4>2, <3>1, <3>2
  <2>2. \A a, b \in 1 .. n + 1 : a < b => e[a].to < e[b].from
    <3>1. \A a, b \in 1 .. n : a < b => e[a].to < e[b].from
      BY <1>3 DEF RunsOrdered
    <3>2. \A a \in 1 .. n : e[a].to < e[n + 1].from
      <4>1. TAKE a \in 1 .. n
      <4>2. e[a] = d[a] /\ e[n + 1].from = p
        BY <1>3
      <4>3. d[a].to < p /\ d[a].to \in Nat
        BY <1>4 DEF Run, SlotIds
      <4>4. QED
        BY <4>2, <4>3, <1>0
    <3>3. QED
      <4>1. TAKE a, b \in 1 .. n + 1
      <4>2. b \in 1 .. n \/ b = n + 1
        BY <1>0
      <4>3. QED
        BY <4>2, <3>1, <3>2, <1>0
  <2>3. \A j \in 1 .. n : e[j].groupId # e[j + 1].groupId
    BY <1>3 DEF RunsOrdered
  <2>4. QED
    BY <1>3, <2>1, <2>2, <2>3 DEF RunsOrdered
<1>6. ASSUME NEW A \in SUBSET SlotIds, NEW L \in [SlotIds -> Groups],
             RunsCover(d, p, A, L), p \in A, L[p] = i.group_id
      PROVE  RunsCover(e, p + 1, A, L)
  <2>1. SUFFICES ASSUME NEW k \in 0 .. p, k \in A
                 PROVE  /\ \E j \in 1 .. n + 1 : Covers(e, j, k) /\ e[j].groupId = L[k]
                        /\ \A a, b \in 1 .. n + 1 :
                              Covers(e, a, k) /\ Covers(e, b, k) => a = b
    BY <1>0 DEF RunsCover
  \* No old run reaches slot p.
  <2>2. \A a \in 1 .. n : ~Covers(e, a, p)
    <3>1. TAKE a \in 1 .. n
    <3>2. e[a] = d[a]
      BY <1>3
    <3>3. d[a].to < p /\ d[a].to \in Nat
      BY <1>4 DEF Run, SlotIds
    <3>4. QED
      BY <3>2, <3>3, <1>0 DEF Covers
  <2>3. CASE k = p
    <3>1. Covers(e, n + 1, k) /\ e[n + 1].groupId = L[k]
      BY <2>3, <1>3, <1>6 DEF Covers
    <3>2. QED
      BY <3>1, <2>2, <2>3
  <2>4. CASE k < p
    <3>1. PICK j \in 1 .. n : Covers(d, j, k) /\ d[j].groupId = L[k]
      BY <2>1, <2>4, <1>6 DEF RunsCover, SlotIds
    <3>2. ~Covers(e, n + 1, k)
      <4>1. e[n + 1].from = p
        BY <1>3
      <4>2. QED
        BY <4>1, <2>4, <1>0 DEF Covers
    <3>3. \A a, b \in 1 .. n : Covers(d, a, k) /\ Covers(d, b, k) => a = b
      BY <2>1, <2>4, <1>6 DEF RunsCover, SlotIds
    <3>4. QED
      BY <3>1, <3>2, <3>3, <1>3 DEF Covers
  <2>5. k = p \/ k < p
    BY DEF SlotIds
  <2>6. QED
    BY <2>3, <2>4, <2>5
<1>7. QED
  BY <1>1, <1>3, <1>5, <1>6

\* A call that extends the last run (same group as the slot's).
LEMMA ExtendStep ==
    ASSUME NEW d \in Seq(Run), NEW p \in SlotIds, NEW i \in Items(p),
           RunsOrdered(d, p),
           d # << >>, d[Len(d)].groupId = i.group_id
    PROVE  /\ formatStep(d, i) \in Seq(Run)
           /\ RunsOrdered(formatStep(d, i), p + 1)
           /\ \A A \in SUBSET SlotIds, L \in [SlotIds -> Groups] :
                 RunsCover(d, p, A, L) /\ p \in A /\ L[p] = i.group_id
                     => RunsCover(formatStep(d, i), p + 1, A, L)
<1>1. i.id = p
  BY DEF Items
<1>2. PICK n \in Nat \ {0} : n = Len(d)
  OBVIOUS
<1>3. /\ \A j \in 1 .. n :
            /\ d[j] \in Run /\ d[j].from \in Nat /\ d[j].to \in Nat
            /\ d[j].from <= d[j].to /\ d[j].to < p
            /\ d[j].length = d[j].to - d[j].from + 1
      /\ \A a, b \in 1 .. n : a < b => d[a].to < d[b].from
      /\ \A j \in 1 .. n - 1 : d[j].groupId # d[j + 1].groupId
  <2>1. \A j \in 1 .. n : d[j] \in Run
    BY <1>2
  <2>2. \A j \in 1 .. n : d[j].from \in Nat /\ d[j].to \in Nat
    BY <2>1 DEF Run, SlotIds
  <2>3. QED
    BY <1>2, <2>1, <2>2 DEF RunsOrdered
<1>4. /\ d[n] \in Run /\ d[n].from \in Nat /\ d[n].to \in Nat
      /\ d[n].from <= d[n].to /\ d[n].to < p
  BY <1>2, <1>3
<1>5. extendRun(d[n], p) \in Run
  <2>1. p - d[n].from + 1 \in Nat
    BY <1>4 DEF SlotIds
  <2>2. /\ d[n].groupId \in Groups /\ d[n].color \in 0 .. PaletteSize - 1
        /\ d[n].from \in SlotIds /\ d[n].fromGroupId \in Groups
    BY <1>4 DEF Run
  <2>3. QED
    BY <2>1, <2>2, Zenon DEF extendRun, Run
<1>6. PICK x \in Run : x = extendRun(d[n], p)
  BY <1>5
<1>7. /\ x.from = d[n].from /\ x.to = p /\ x.groupId = d[n].groupId
      /\ x.length = x.to - x.from + 1
      /\ x.from \in Nat /\ x.to \in Nat
  BY <1>4, <1>6 DEF extendRun, SlotIds
<1>8. PICK e : e = [d EXCEPT ![n] = x]
  BY Zenon
<1>9. /\ e \in Seq(Run)
      /\ Len(e) = n
      /\ \A j \in 1 .. n - 1 : e[j] = d[j]
      /\ e[n] = x
  BY <1>2, <1>6, <1>8
<1>10. formatStep(d, i) = e
  BY <1>1, <1>2, <1>6, <1>8 DEF formatStep
\* The runs before the last are d's; the last is x.
<1>11. \A j \in 1 .. n : (j < n => e[j] = d[j]) /\ (j = n => e[j] = x)
  BY <1>2, <1>9
<1>12. RunsOrdered(e, p + 1)
  <2>1. ASSUME NEW j \in 1 .. n
        PROVE  /\ e[j].from <= e[j].to
               /\ e[j].to < p + 1
               /\ e[j].length = e[j].to - e[j].from + 1
    <3>1. CASE j < n
      <4>1. e[j] = d[j]
        BY <3>1, <1>11
      <4>2. /\ d[j].from \in Nat /\ d[j].to \in Nat
            /\ d[j].from <= d[j].to /\ d[j].to < p
            /\ d[j].length = d[j].to - d[j].from + 1
        BY <1>3
      <4>3. QED
        BY <4>1, <4>2 DEF SlotIds
    <3>2. CASE j = n
      <4>1. e[j] = x
        BY <3>2, <1>11
      <4>2. QED
        BY <4>1, <1>4, <1>7, <3>2 DEF SlotIds
    <3>3. QED
      BY <3>1, <3>2, <1>2
  <2>2. ASSUME NEW a \in 1 .. n, NEW b \in 1 .. n, a < b
        PROVE  e[a].to < e[b].from
    <3>1. e[a] = d[a] /\ d[a].to < d[b].from
      BY <2>2, <1>3, <1>11
    <3>2. CASE b < n
      <4>1. e[b] = d[b]
        BY <3>2, <1>11
      <4>2. QED
        BY <3>1, <4>1
    <3>3. CASE b = n
      <4>1. e[b] = x
        BY <3>3, <1>11
      <4>2. QED
        BY <3>1, <3>3, <4>1, <1>7
    <3>4. QED
      BY <3>2, <3>3, <1>2
  <2>3. ASSUME NEW j \in 1 .. n - 1
        PROVE  e[j].groupId # e[j + 1].groupId
    <3>0. e[j] = d[j]
      BY <1>2, <1>11
    <3>1. e[j] = d[j] /\ d[j].groupId # d[j + 1].groupId
      BY <3>0, <1>3
    <3>2. CASE j + 1 < n
      <4>1. e[j + 1] = d[j + 1]
        BY <3>2, <1>2, <1>11
      <4>2. QED
        BY <3>1, <4>1
    <3>3. CASE j + 1 = n
      <4>1. e[j + 1] = x
        BY <3>3, <1>2, <1>11
      <4>2. QED
        BY <3>1, <3>3, <4>1, <1>7
    <3>4. QED
      BY <3>2, <3>3, <1>2
  <2>4. QED
    BY <1>9, <2>1, <2>2, <2>3, Zenon DEF RunsOrdered
<1>13. ASSUME NEW A \in SUBSET SlotIds, NEW L \in [SlotIds -> Groups],
              RunsCover(d, p, A, L), p \in A, L[p] = i.group_id
       PROVE  RunsCover(e, p + 1, A, L)
  <2>1. SUFFICES ASSUME NEW k \in 0 .. p, k \in A
                 PROVE  /\ \E j \in 1 .. n : Covers(e, j, k) /\ e[j].groupId = L[k]
                        /\ \A a, b \in 1 .. n :
                              Covers(e, a, k) /\ Covers(e, b, k) => a = b
    BY <1>9 DEF RunsCover, SlotIds
  \* A run other than the extended one covers k only as it did before,
  \* and only below the extended run.
  <2>2. ASSUME NEW a \in 1 .. n - 1, Covers(e, a, k)
        PROVE  Covers(d, a, k) /\ k < d[n].from
    <3>1. e[a] = d[a]
      BY <1>2, <1>11
    <3>2. d[a].to < d[n].from /\ d[a].to \in Nat /\ d[n].from \in Nat
      BY <1>2, <1>3
    <3>3. QED
      BY <2>2, <3>1, <3>2 DEF Covers, SlotIds
  \* The extended run is x: it covers what d's last run did, and slot p.
  <2>3. e[n] = x
    BY <1>2, <1>11
  <2>4. Covers(d, n, k) \/ k = p => Covers(e, n, k)
    BY <2>1, <2>3, <1>4, <1>7 DEF Covers, SlotIds
  <2>5. Covers(e, n, k) => k >= d[n].from
    BY <2>3, <1>7 DEF Covers
  <2>6. e[n].groupId = d[n].groupId
    BY <2>3, <1>7
  <2>7. CASE k = p
    <3>1. Covers(e, n, k) /\ e[n].groupId = L[k]
      BY <2>4, <2>6, <2>7, <1>2, <1>13
    <3>2. ASSUME NEW a \in 1 .. n - 1 PROVE ~Covers(e, a, k)
      BY <2>2, <2>7, <1>4 DEF SlotIds
    <3>3. QED
      BY <3>1, <3>2, <1>2
  <2>8. CASE k < p
    <3>1. PICK j \in 1 .. n : Covers(d, j, k) /\ d[j].groupId = L[k]
      BY <2>1, <2>8, <1>2, <1>13 DEF RunsCover, SlotIds
    <3>2. Covers(e, j, k) /\ e[j].groupId = L[k]
      <4>1. CASE j < n
        <5>1. e[j] = d[j]
          BY <4>1, <1>11
        <5>2. QED
          BY <3>1, <5>1 DEF Covers
      <4>2. CASE j = n
        BY <3>1, <4>2, <2>4, <2>6
      <4>3. QED
        BY <4>1, <4>2, <1>2
    <3>3. \A a, b \in 1 .. n : Covers(d, a, k) /\ Covers(d, b, k) => a = b
      BY <2>1, <2>8, <1>2, <1>13 DEF RunsCover, SlotIds
    <3>4. ASSUME NEW a \in 1 .. n, NEW b \in 1 .. n,
                 Covers(e, a, k), Covers(e, b, k)
          PROVE  a = b
      <4>1. CASE a < n /\ b < n
        <5>1. Covers(d, a, k) /\ Covers(d, b, k)
          BY <3>4, <4>1, <2>2
        <5>2. QED
          BY <5>1, <3>3
      <4>2. CASE a = n /\ b < n
        <5>1. k < d[n].from /\ k >= d[n].from
          BY <3>4, <4>2, <2>2, <2>5
        <5>2. QED
          BY <5>1, <1>4 DEF SlotIds
      <4>3. CASE a < n /\ b = n
        <5>1. k < d[n].from /\ k >= d[n].from
          BY <3>4, <4>3, <2>2, <2>5
        <5>2. QED
          BY <5>1, <1>4 DEF SlotIds
      <4>4. QED
        BY <4>1, <4>2, <4>3, <1>2
    <3>5. QED
      BY <3>2, <3>4
  <2>9. QED
    BY <2>7, <2>8 DEF SlotIds
<1>14. QED
  BY <1>9, <1>10, <1>12, <1>13

-----------------------------------------------------------------------------

\* The inductive invariant.
IInv == TypeOK /\ RangesOrdered /\ RangesCover

\* Before any step no row has consumed a slot or built a run.
THEOREM InitIInv == Init => IInv
<1> SUFFICES ASSUME Init PROVE IInv
  OBVIOUS
<1>1. TypeOK
  BY NSlotsAssumption DEF Init, TypeOK
<1>2. \A v \in Views : data[v] = << >> /\ pos[v] = 0
  BY DEF Init
<1>3. RangesOrdered
  BY <1>2 DEF RangesOrdered, RunsOrdered
<1>4. RangesCover
  BY <1>2 DEF RangesCover, RunsCover
<1>5. QED
  BY <1>1, <1>3, <1>4 DEF IInv

\* A slot the filter drops leaves the runs as they are: they stay ordered
\* and, the slot not being admitted, still cover every admitted slot.
LEMMA SkipStep ==
    ASSUME NEW d \in Seq(Run), NEW p \in SlotIds, RunsOrdered(d, p),
           NEW A, NEW L, RunsCover(d, p, A, L), ~(p \in A)
    PROVE  RunsOrdered(d, p + 1) /\ RunsCover(d, p + 1, A, L)
<1>1. \A j \in 1 .. Len(d) : d[j] \in Run
  OBVIOUS
<1>2. \A j \in 1 .. Len(d) : d[j].to \in Nat
  BY <1>1 DEF Run, SlotIds
<1>3. RunsOrdered(d, p + 1)
  BY <1>2 DEF RunsOrdered, SlotIds
<1>4. RunsCover(d, p + 1, A, L)
  BY DEF RunsCover, SlotIds
<1>5. QED
  BY <1>3, <1>4

\* The record of a slot carries two group ids.
LEMMA SlotFields ==
    ASSUME TypeOK, NEW k \in SlotIds
    PROVE  slots[k].group \in Groups /\ slots[k].action \in Groups
<1>1. slots[k] \in Slot
  BY DEF TypeOK
<1>2. QED
  BY <1>1 DEF Slot, SlotRec

\* The item a step of row v hands to formatStep is one of Items(pos[v]).
LEMMA ItemType ==
    ASSUME TypeOK, NEW v \in Views, pos[v] < NSlots
    PROVE  /\ pos[v] \in SlotIds
           /\ Item(v, pos[v]) \in Items(pos[v])
           /\ Admits(v, slots[pos[v]]) => Item(v, pos[v]).group_id = Label(v)[pos[v]]
<1>1. pos[v] \in SlotIds
  BY NSlotsAssumption DEF TypeOK, SlotIds
<1>2. slots[pos[v]].group \in Groups /\ slots[pos[v]].action \in Groups
  BY <1>1, SlotFields
<1>3. Item(v, pos[v]) \in Items(pos[v])
  BY <1>2, GroupsAssumption DEF Item, Items
<1>4. Item(v, pos[v]).group_id = Label(v)[pos[v]]
  BY <1>1 DEF Item, Label
<1>5. QED
  BY <1>1, <1>3, <1>4

\* Admitted and Label are a set of slots and a labelling by group ids.
LEMMA AdmittedLabelType ==
    ASSUME TypeOK, NEW v \in Views
    PROVE  Admitted(v) \in SUBSET SlotIds /\ Label(v) \in [SlotIds -> Groups]
<1>1. Admitted(v) \in SUBSET SlotIds
  BY DEF Admitted
<1>2. \A k \in SlotIds : Label(v)[k] \in Groups
  BY SlotFields DEF Label
<1>3. QED
  BY <1>1, <1>2 DEF Label

THEOREM StepIInv == IInv /\ [Next]_vars => IInv'
<1> SUFFICES ASSUME IInv, [Next]_vars PROVE IInv'
  OBVIOUS
<1>1. CASE Refresh
  BY <1>1 DEF Refresh, IInv, TypeOK, RangesOrdered, RangesCover, RunsOrdered,
     RunsCover, Evaluated
<1>2. ASSUME NEW v \in Views, Step(v) PROVE IInv'
  <2> DEFINE d == data[v]
             p == pos[v]
             i == Item(v, p)
             A == Admitted(v)
             L == Label(v)
  <2>1. /\ p \in SlotIds /\ i \in Items(p)
        /\ d \in Seq(Run)
        /\ RunsOrdered(d, p) /\ RunsCover(d, p, A, L)
        /\ A \in SUBSET SlotIds /\ L \in [SlotIds -> Groups]
        /\ Admits(v, slots[p]) => i.group_id = L[p]
    BY <1>2, ItemType, AdmittedLabelType DEF Step, IInv, TypeOK, RangesOrdered, RangesCover
  <2>2. /\ slots' = slots
        /\ pos' = [pos EXCEPT ![v] = p + 1]
        /\ data' = [data EXCEPT ![v] = IF Admits(v, slots[p]) THEN formatStep(d, i) ELSE d]
        /\ Admitted(v)' = A /\ Label(v)' = L
    BY <1>2 DEF Step, Admitted, Label, Item, Admits
  \* The row that does not step keeps its runs and its position.
  <2>3. \A w \in Views \ {v} :
           /\ data'[w] = data[w] /\ pos'[w] = pos[w]
           /\ Admitted(w)' = Admitted(w) /\ Label(w)' = Label(w)
    BY <2>2 DEF IInv, TypeOK, Admitted, Label, Item, Admits
  \* The stepping row: its new runs, ordered and covering one more slot.
  <2>4. /\ data'[v] \in Seq(Run)
        /\ RunsOrdered(data'[v], pos'[v])
        /\ RunsCover(data'[v], pos'[v], A, L)
    <3>1. CASE ~Admits(v, slots[p])
      <4>1. data'[v] = d /\ pos'[v] = p + 1
        BY <2>2, <3>1 DEF IInv, TypeOK
      <4>2. ~(p \in A)
        BY <3>1, <2>1 DEF Admitted
      <4>3. QED
        BY <4>1, <4>2, <2>1, SkipStep
    <3>2. CASE Admits(v, slots[p]) /\ d # << >> /\ d[Len(d)].groupId = i.group_id
      <4>1. data'[v] = formatStep(d, i) /\ pos'[v] = p + 1 /\ p \in A
        BY <2>1, <2>2, <3>2 DEF IInv, TypeOK, Admitted
      <4>2. QED
        BY <4>1, <3>2, <2>1, ExtendStep
    <3>3. CASE Admits(v, slots[p]) /\ ~(d # << >> /\ d[Len(d)].groupId = i.group_id)
      <4>1. data'[v] = formatStep(d, i) /\ pos'[v] = p + 1 /\ p \in A
        BY <2>1, <2>2, <3>3 DEF IInv, TypeOK, Admitted
      <4>2. QED
        BY <4>1, <3>3, <2>1, AppendStep
    <3>4. QED
      BY <3>1, <3>2, <3>3
  <2>5. TypeOK'
    <3>1. slots' \in [SlotIds -> Slot]
      BY <2>2 DEF IInv, TypeOK
    <3>2. pos' \in [Views -> 0 .. NSlots]
      BY <2>1, <2>2, NSlotsAssumption DEF IInv, TypeOK, SlotIds
    <3>3. data' \in [Views -> Seq(Run)]
      <4>1. data' = [w \in Views |-> IF w = v THEN data'[v] ELSE data[w]]
        BY <2>2 DEF IInv, TypeOK
      <4>2. QED
        BY <4>1, <2>4 DEF IInv, TypeOK
    <3>4. QED
      BY <3>1, <3>2, <3>3 DEF TypeOK
  <2>6. RangesOrdered'
    BY <2>2, <2>3, <2>4 DEF IInv, RangesOrdered
  <2>7. RangesCover'
    BY <2>2, <2>3, <2>4 DEF IInv, RangesCover
  <2>8. QED
    BY <2>5, <2>6, <2>7 DEF IInv
<1>3. CASE UNCHANGED vars
  BY <1>3 DEF vars, IInv, TypeOK, RangesOrdered, RangesCover, Admitted, Label,
     Item, Admits
<1>4. QED
  BY <1>1, <1>2, <1>3 DEF Next

\* formatList keeps its type: slots, positions and runs stay in their sets.
THEOREM TypeCorrect == Spec => []TypeOK
<1>1. IInv => TypeOK
  BY DEF IInv
<1>2. QED
  BY InitIInv, StepIInv, <1>1, PTL DEF Spec

\* Every row's runs are ordered and disjoint, and every slot the row admits
\* is drawn in exactly one run labelled with its group (or its target).
THEOREM RangesCorrect == Spec => [](RangesOrdered /\ RangesCover)
<1>1. IInv => RangesOrdered /\ RangesCover
  BY DEF IInv
<1>2. QED
  BY InitIInv, StepIInv, <1>1, PTL DEF Spec

\* Both rows' runs are well formed, disjoint and in slot order, and two
\* neighbouring runs are of different groups.
THEOREM OrderedCorrect == Spec => []RangesOrdered
BY RangesCorrect, PTL

=============================================================================
