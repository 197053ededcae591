----------------------------- MODULE DraftMerge -----------------------------
(***************************************************************************)
(* draft.MergeWithLatest: the three-way merge of a draft, made on a base   *)
(* template, with the latest template of the server.                       *)
(***************************************************************************)
EXTENDS RemoteConfig

\* One item changed on both sides, to different things.
Clash(b, d, l) == b # d /\ b # l /\ d # l
ThreeWay(b, d, l) == IF b # d THEN d ELSE l

\* Mutant: both sides making the same change is a conflict.
SlotConflictOnAgreement(base, draft, latest) ==
    \E s \in Slots : base.slots[s] # draft.slots[s] /\ base.slots[s] # latest.slots[s]

SlotConflict(base, draft, latest) ==
    \E s \in Slots : Clash(base.slots[s], draft.slots[s], latest.slots[s])

\* Mutant: a removal or move in the draft leaves the latest slot in place.
MergeSlotsKeepRemoved(base, draft, latest) ==
    [latest EXCEPT
        !.slots = [s \in Slots |-> IF draft.slots[s] = None THEN @[s]
                                  ELSE ThreeWay(base.slots[s], draft.slots[s], @[s])],
        !.groups = [g \in Groups |-> IF @[g] = None THEN draft.groups[g] ELSE @[g]]]

\* The draft's changed slots over the latest ones. Writing one into a group
\* that the latest template lacks creates the group.
MergeSlots(base, draft, latest) ==
    LET written(g) == \E p \in Params :
            /\ base.slots[<<g, p>>] # draft.slots[<<g, p>>]
            /\ base.slots[<<g, p>>] = latest.slots[<<g, p>>]
            /\ draft.slots[<<g, p>>] # None
    IN  [latest EXCEPT
            !.slots = [s \in Slots |-> ThreeWay(base.slots[s], draft.slots[s], @[s])],
            !.groups = [g \in Groups |-> IF @[g] = None /\ written(g) THEN EmptyDesc ELSE @[g]]]

GroupConflict(base, draft, latest) ==
    \E g \in Groups : Clash(base.groups[g], draft.groups[g], latest.groups[g])

\* Mutant: a deleted group stays, empty.
MergeGroupsKeepDeleted(base, draft, merged) ==
    [merged EXCEPT !.groups = [g \in Groups |->
        IF draft.groups[g] = None THEN @[g] ELSE ThreeWay(base.groups[g], draft.groups[g], @[g])]]

\* A group the draft deleted goes with everything the merged template has in it.
MergeGroups(base, draft, merged) ==
    LET deleted == {g \in Groups : base.groups[g] # None /\ draft.groups[g] = None}
    IN  [merged EXCEPT
            !.groups = [g \in Groups |-> ThreeWay(base.groups[g], draft.groups[g], @[g])],
            !.slots = [s \in Slots |-> IF s[1] \in deleted THEN None ELSE @[s]]]

ConditionConflict(base, draft, latest) ==
    \/ \E c \in Conds : Clash(base.exprs[c], draft.exprs[c], latest.exprs[c])
    \/ Clash(base.order, draft.order, latest.order)

\* Mutant: the merged conditions are sorted by name.
MergeConditionsSorted(base, draft, merged) ==
    LET exprs == [c \in Conds |-> ThreeWay(base.exprs[c], draft.exprs[c], merged.exprs[c])]
    IN  [merged EXCEPT !.exprs = exprs, !.order = Kept(CondSeq, {c \in Conds : exprs[c] # None})]

MergeConditions(base, draft, merged) ==
    LET exprs == [c \in Conds |-> ThreeWay(base.exprs[c], draft.exprs[c], merged.exprs[c])]
        order == ThreeWay(base.order, draft.order, merged.order)
        defined == {c \in Conds : exprs[c] # None}
    IN  [merged EXCEPT
            !.exprs = exprs,
            !.order = Kept(order, defined) \o Kept(CondSeq, defined \ Range(order))]

Conflict(base, draft, latest) ==
    \/ SlotConflict(base, draft, latest)
    \/ GroupConflict(base, draft, latest)
    \/ ConditionConflict(base, draft, latest)

\* Mutant: values of conditions deleted on the other side are not cleaned up.
MergeWithoutCleanup(base, draft, latest) ==
    MergeConditions(base, draft, MergeGroups(base, draft, MergeSlots(base, draft, latest)))

\* Meant where there is no conflict. The code reports "no changes" when the
\* result equals the latest template.
MergeWithLatest(base, draft, latest) ==
    DropUnknownConditionReferences(
        MergeConditions(base, draft, MergeGroups(base, draft, MergeSlots(base, draft, latest))))
=============================================================================
