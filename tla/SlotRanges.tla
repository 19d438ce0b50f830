----------------------------- MODULE SlotRanges -----------------------------
(***************************************************************************)
(* The slot bar of the dashboard (views/home/slots-view.tsx).  The page    *)
(* receives the cluster's slot list (one record per slot, in id order)     *)
(* and derives three rows from it:                                         *)
(*   Offline   : the slots whose group_id is 0, passed on unformatted;     *)
(*   Migrating : the online slots whose action.state is 'pending', each    *)
(*               re-labelled with its action.target_id and merged into     *)
(*               runs by formatList;                                       *)
(*   Default   : the online slots merged into runs by formatList.          *)
(* formatList is a reduce over the list whose callback either extends the  *)
(* run at d.current (same group) or starts a new one.  d.current always    *)
(* indexes the last run of d.data, so the model keeps only the sequence    *)
(* of runs and extends its last element.                                   *)
(*                                                                         *)
(* A computed list is evaluated synchronously, so each view's evaluation   *)
(* is a loop of steps no other action interleaves with: Step(v) is one     *)
(* iteration of filter-then-reduce (the filter's predicate decides whether *)
(* the reducer callback sees the slot), and Refresh, a new slot list from  *)
(* the props, only happens once both evaluations have finished.           *)
(***************************************************************************)
EXTENDS Naturals, Sequences

CONSTANTS
    NSlots,       \* number of slots of the cluster (1024 in the backend)
    Groups,       \* group ids that occur in the slot list; 0 means offline
    PaletteSize   \* Len(COLORS) in constant/index.ts

ASSUME NSlotsAssumption == NSlots \in Nat \ {0}
ASSUME GroupsAssumption == Groups \subseteq Nat /\ 0 \in Groups
ASSUME PaletteAssumption == PaletteSize \in Nat \ {0}

SlotIds == 0 .. NSlots - 1

\* The two rows that formatList builds.
Views == {"Default", "Migrating"}

\* action = 0: the slot has no pending action; action = t # 0: its action
\* is pending with target_id t.  Any other action state is invisible to the
\* view (it only tests action.state === 'pending'), so it is the same as 0.
SlotRec == [group : Groups, action : Groups]

\* The slot records the backend produces: a pending action never targets
\* the slot's own group.
Slot == {s \in SlotRec : s.action # s.group \/ s.action = 0}

\* A display range of formatList.  fromGroupId is 0 where the item had none.
Run == [groupId : Groups, color : 0 .. PaletteSize - 1, from : SlotIds,
        to : SlotIds, length : Nat, fromGroupId : Groups]

VARIABLES
    slots,   \* slots[k]: the record of slot k, from the props' list
    pos,     \* pos[v]: how many slots view v's evaluation has consumed
    data     \* data[v]: the runs formatList has built so far for view v

vars == <<slots, pos, data>>

-----------------------------------------------------------------------------
(* Translation of the code.                                                *)

\* Mutant: the palette indexed one past its end.
getColorPastEnd(g) == g % (PaletteSize + 1)

\* getColor(index) == COLORS[index % COLORS.length]
getColor(g) == g % PaletteSize

\* onlineList, and the extra filter of migratingList.
Admits(v, s) ==
    /\ s.group # 0
    /\ v = "Migrating" => s.action # 0

\* Mutant: migratingList forgets to re-label the slot with its target.
ItemNoRelabel(v, k) ==
    [id |-> k, group_id |-> slots[k].group,
     fromGroupId |-> IF v = "Default" THEN 0 ELSE slots[k].group]

\* The item the reducer sees: migratingList re-labels group_id with the
\* action's target_id and keeps the current group in fromGroupId.
Item(v, k) ==
    IF v = "Default"
    THEN [id |-> k, group_id |-> slots[k].group, fromGroupId |-> 0]
    ELSE [id |-> k, group_id |-> slots[k].action, fromGroupId |-> slots[k].group]

\* Mutant: the extended run's length computed as id - from.
extendRunShort(r, id) ==
    [groupId |-> r.groupId, color |-> r.color, from |-> r.from, to |-> id,
     length |-> id - r.from, fromGroupId |-> r.fromGroupId]

\* The run r with its upper end moved to slot id ({...r, to, length}).
extendRun(r, id) ==
    [groupId |-> r.groupId, color |-> r.color, from |-> r.from, to |-> id,
     length |-> id - r.from + 1, fromGroupId |-> r.fromGroupId]

\* The reducer callback of formatList: extend the current run when the
\* group matches, otherwise start a new run at this slot.
formatStep(d, i) ==
    IF d # << >> /\ d[Len(d)].groupId = i.group_id
    THEN [d EXCEPT ![Len(d)] = extendRun(d[Len(d)], i.id)]
    ELSE Append(d, [groupId |-> i.group_id, color |-> getColor(i.group_id),
                    from |-> i.id, to |-> i.id, length |-> 1,
                    fromGroupId |-> i.fromGroupId])

\* offlineList: the offline slots as they are, not passed through formatList.
offlineList == [k \in {j \in SlotIds : slots[j].group = 0} |-> slots[k]]

-----------------------------------------------------------------------------

Init ==
    /\ slots \in [SlotIds -> Slot]
    /\ pos = [v \in Views |-> 0]
    /\ data = [v \in Views |-> << >>]

\* One iteration of view v's filter-then-reduce.
Step(v) ==
    /\ pos[v] < NSlots
    /\ data' = [data EXCEPT ![v] = IF Admits(v, slots[pos[v]])
                                   THEN formatStep(@, Item(v, pos[v]))
                                   ELSE @]
    /\ pos' = [pos EXCEPT ![v] = @ + 1]
    /\ UNCHANGED slots

Evaluated == \A v \in Views : pos[v] = NSlots

\* The props' slot list is replaced by the next poll's, which differs in one
\* slot (a sequence of Refreshes reaches any list), and the computed lists
\* are evaluated again from the start.
Refresh ==
    /\ Evaluated
    /\ \E k \in SlotIds, s \in Slot :
          /\ s # slots[k]
          /\ slots' = [slots EXCEPT ![k] = s]
    /\ pos' = [v \in Views |-> 0]
    /\ data' = [v \in Views |-> << >>]

Next == (\E v \in Views : Step(v)) \/ Refresh

Spec == Init /\ [][Next]_vars

-----------------------------------------------------------------------------
(* Properties.                                                             *)

TypeOK ==
    /\ slots \in [SlotIds -> Slot]
    /\ pos \in [Views -> 0 .. NSlots]
    /\ data \in [Views -> Seq(Run)]

\* Slot k is drawn inside run j of the sequence of runs d.
Covers(d, j, k) == d[j].from <= k /\ k <= d[j].to

\* The runs d, built from the first p slots, are well formed and laid out
\* left to right: every run lies in the part already consumed, its length
\* is the width the bar gives it, the runs are disjoint and in ascending
\* order, and two neighbouring runs belong to different groups (else
\* formatList would have merged them).
RunsOrdered(d, p) ==
    /\ \A j \in 1 .. Len(d) :
          /\ d[j].from <= d[j].to
          /\ d[j].to < p
          /\ d[j].length = d[j].to - d[j].from + 1
    /\ \A i, j \in 1 .. Len(d) : i < j => d[i].to < d[j].from
    /\ \A j \in 1 .. Len(d) - 1 : d[j].groupId # d[j + 1].groupId

\* Each slot k < p of the set A is drawn in exactly one run of d, and that
\* run is labelled L[k].
RunsCover(d, p, A, L) ==
    \A k \in 0 .. p - 1 : k \in A =>
        /\ \E j \in 1 .. Len(d) : Covers(d, j, k) /\ d[j].groupId = L[k]
        /\ \A i, j \in 1 .. Len(d) : Covers(d, i, k) /\ Covers(d, j, k) => i = j

\* The slots row v admits, and the group each is drawn under.
Admitted(v) == {k \in SlotIds : Admits(v, slots[k])}
Label(v) == [k \in SlotIds |-> IF v = "Default" THEN slots[k].group
                                ELSE slots[k].action]

\* Both rows' runs are well formed and in slot order (what lets genSlot
\* place them side by side at from/10.24 %).
RangesOrdered == \A v \in Views : RunsOrdered(data[v], pos[v])

\* Every slot a row admits (online for Default; online and pending for
\* Migrating) is drawn in exactly one of its runs, labelled with the slot's
\* group (Default) or with the target group of its migration (Migrating).
RangesCover ==
    \A v \in Views : RunsCover(data[v], pos[v], Admitted(v), Label(v))

\* What the tooltip of a Migrating run says: 'FromGroup: ' with the run's
\* fromGroupId, read as the group every slot of the range migrates from.
\* formatList merges slots on their target only and keeps the fromGroupId
\* of the slot that opened the run, so a pending slot of another source
\* group that joins the run is reported as coming from the first one.
FromGroupShown ==
    \A j \in 1 .. Len(data["Migrating"]) :
        \A k \in data["Migrating"][j].from .. data["Migrating"][j].to :
            Admits("Migrating", slots[k]) =>
                slots[k].group = data["Migrating"][j].fromGroupId

\* The slots the Offline row draws: genSlot places an item at i.from with
\* width i.length, which only a formatList run has.
OfflineDrawn ==
    UNION {IF "from" \in DOMAIN offlineList[k]
           THEN offlineList[k].from .. offlineList[k].to ELSE {} :
           k \in DOMAIN offlineList}

\* Once the rows are evaluated, every offline slot is drawn in the Offline
\* row (the spec's Offline view of the slots with group id 0).
OfflineSlotsShown ==
    Evaluated => {k \in SlotIds : slots[k].group = 0} \subseteq OfflineDrawn

=============================================================================
