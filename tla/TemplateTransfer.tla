-------------------------- MODULE TemplateTransfer --------------------------
(***************************************************************************)
(* Carrying changes from one template into another: promotion of selected  *)
(* differences (promote.BuildPlan and Apply) and import of a template      *)
(* (importer.BuildPlan).  A selection, and the conflicts an import         *)
(* resolves in its own favour, are a set of slots, of groups and of        *)
(* conditions.  Templates are taken to have one home per parameter.        *)
(***************************************************************************)
EXTENDS DraftMerge, TemplateDiff

CONSTANT NonPortable   \* definitions tied to one project's resources

ASSUME NonPortableExprs == NonPortable \subseteq Exprs

NoChoice == [slots |-> {}, groups |-> {}, conds |-> {}]

-----------------------------------------------------------------------------
\* Promotion. The items are the differences from the target to the source;
\* what only the target has is an item only when pruning.

\* A change without a final side is an item only when pruning (eligible).
Eligible(changes, prune) == {x \in changes : prune \/ x.is # None}

\* A parameter that moved is one item, at its new place.
ParameterItems(source, target, prune) ==
    UNION {IF x.to # {} THEN x.to ELSE x.from : x \in Eligible(ParameterChanges(target, source), prune)}

Items(source, target, prune) ==
    [slots  |-> ParameterItems(source, target, prune),
     groups |-> {x.group : x \in Eligible(GroupChanges(target, source), prune)},
     conds  |-> {x.cond : x \in Eligible(ConditionChanges(target, source), prune)}]

\* Selected parameters bring the description of their group and the conditions
\* of their values along, where the target's differ.
WithDependencies(source, target, selected, prune) ==
    LET chosen == selected.slots \cap ParameterItems(source, target, prune)
    IN  [selected EXCEPT
            !.groups = @ \cup {g \in Groups : /\ source.groups[g] # target.groups[g]
                                              /\ \E s \in chosen : s[1] = g},
            !.conds = @ \cup {c \in Defined(source) :
                                /\ source.exprs[c] # target.exprs[c]
                                /\ \E s \in chosen : /\ source.slots[s] # None
                                                     /\ source.slots[s].cond[c] # None}]

\* Mutant: a parameter that moves keeps its old home.
PromoteSlotsKeepHome(source, target, chosen) ==
    [s \in Slots |-> IF s \in chosen THEN source.slots[s] ELSE target.slots[s]]

\* A selected parameter leaves every other home it has.
PromoteSlots(source, target, chosen) ==
    [s \in Slots |->
        IF s \in chosen THEN source.slots[s]
        ELSE IF \E x \in chosen : x[2] = s[2] /\ source.slots[x] # None THEN None
        ELSE target.slots[s]]

PromoteGroups(source, target, selected, prune, slots) ==
    [g \in Groups |->
        IF g \in selected.groups /\ source.groups[g] # None THEN source.groups[g]
        ELSE IF target.groups[g] = None
             THEN IF \E p \in Params : slots[<<g, p>>] # None THEN EmptyDesc ELSE None
        ELSE IF g \in selected.groups /\ prune THEN EmptyDesc
        ELSE target.groups[g]]

PromoteExprs(source, target, selected, prune) ==
    [c \in Conds |->
        IF c \in selected.conds /\ (source.exprs[c] # None \/ prune) THEN source.exprs[c]
        ELSE target.exprs[c]]

\* Mutant: any condition that follows in the source will do.
InsertBeforeLastLater(order, c, sourceOrder) ==
    LET rank(i) == Rank(sourceOrder, order[i])
        known == {i \in DOMAIN order : order[i] \in Range(sourceOrder)}
        later == {i \in known : rank(i) > Rank(sourceOrder, c)}
    IN  IF later # {} THEN InsertAt(order, Max(later), c) ELSE Append(order, c)

\* Before the condition that follows it most closely in the source, else behind
\* the one that precedes it most closely, else at the end.
InsertBySourceOrder(order, c, sourceOrder) ==
    LET rank(i) == Rank(sourceOrder, order[i])
        known == {i \in DOMAIN order : order[i] \in Range(sourceOrder)}
        later == {i \in known : rank(i) > Rank(sourceOrder, c)}
        earlier == {i \in known : rank(i) < Rank(sourceOrder, c)}
    IN  IF later # {}
        THEN InsertAt(order, CHOOSE i \in later : \A j \in later : rank(i) <= rank(j), c)
        ELSE IF earlier # {}
        THEN InsertAt(order, 1 + CHOOSE i \in earlier : \A j \in earlier : rank(i) >= rank(j), c)
        ELSE Append(order, c)

\* One after the other.
InsertAllBySourceOrder(order, conds, sourceOrder) ==
    LET upTo[i \in 0..Len(conds)] ==
            IF i = 0 THEN order ELSE InsertBySourceOrder(upTo[i - 1], conds[i], sourceOrder)
    IN  upTo[Len(conds)]

\* Selected conditions take their source-relative positions; the others keep
\* their order.
PromoteOrder(source, target, selected, exprs) ==
    LET arriving == selected.conds \cap Defined(source)
        remaining == Kept(target.order, {c \in Conds : exprs[c] # None} \ arriving)
    IN  InsertAllBySourceOrder(remaining, Kept(source.order, arriving), source.order)

\* Mutant: a group counts as emptied by what was in it before.
ApplyPruneEarly(source, target, selected, prune) ==
    LET closed == WithDependencies(source, target, selected, prune)
        slots == PromoteSlots(source, target, selected.slots \cap ParameterItems(source, target, prune))
        exprs == PromoteExprs(source, target, closed, prune)
        cleaned == DropUnknownConditionReferences(
            [slots  |-> slots,
             groups |-> PromoteGroups(source, target, closed, prune, slots),
             exprs  |-> exprs,
             order  |-> PromoteOrder(source, target, closed, exprs)])
    IN  [cleaned EXCEPT !.groups = [g \in Groups |->
            IF /\ g \in closed.groups
               /\ source.groups[g] = None
               /\ \A p \in Params : target.slots[<<g, p>>] = None
            THEN None ELSE @[g]]]

\* promote.Apply. A selected group that the source lacks goes if nothing is
\* left in it.
Apply(source, target, selected, prune) ==
    LET closed == WithDependencies(source, target, selected, prune)
        slots == PromoteSlots(source, target, selected.slots \cap ParameterItems(source, target, prune))
        exprs == PromoteExprs(source, target, closed, prune)
        cleaned == DropUnknownConditionReferences(
            [slots  |-> slots,
             groups |-> PromoteGroups(source, target, closed, prune, slots),
             exprs  |-> exprs,
             order  |-> PromoteOrder(source, target, closed, exprs)])
    IN  [cleaned EXCEPT !.groups = [g \in Groups |->
            IF /\ g \in closed.groups
               /\ source.groups[g] = None
               /\ \A p \in Params : cleaned.slots[<<g, p>>] = None
            THEN None ELSE @[g]]]

-----------------------------------------------------------------------------
\* Import: the source is cut down, then replaces the current template or is
\* merged into it.

UsedConditions(cfg) ==
    {c \in Conds : \E s \in Slots : cfg.slots[s] # None /\ cfg.slots[s].cond[c] # None}

WithConditions(cfg, kept) ==
    [cfg EXCEPT !.exprs = [c \in Conds |-> IF c \in kept THEN @[c] ELSE None],
                !.order = Kept(@, kept)]

PruneUnusedConditions(cfg) == WithConditions(cfg, UsedConditions(cfg))

Cleanup(cfg) == DropUnknownConditionReferences(PruneUnusedConditions(cfg))

\* The group filter (none when empty) and the parameter filters.
FilterSlots(cfg, groups, slots) ==
    [cfg EXCEPT
        !.slots = [s \in Slots |->
            IF s \in slots /\ (groups = {} \/ s[1] \in groups) THEN @[s] ELSE None],
        !.groups = [g \in Groups |-> IF groups = {} \/ g \in groups THEN @[g] ELSE None]]

\* Conditions the policy keeps; values of the others go with them.
KeptConditions(cfg, policy) ==
    {c \in Defined(cfg) : \/ policy = "keep"
                          \/ policy = "keep_portable_only" /\ cfg.exprs[c] \notin NonPortable}

Transform(source, choice) ==
    LET filtered == FilterSlots(source, choice.groups, choice.slots)
    IN  Cleanup(DropUnknownConditionReferences(
            WithConditions(filtered, KeptConditions(filtered, choice.policy))))

\* Mutant: a condition both sides have is always taken from the import.
MergeImportTakeConditions(current, imported, theirs) ==
    LET pick(mine, other, chosen) == IF mine = None \/ (chosen /\ other # None) THEN other ELSE mine
    IN  [slots  |-> [s \in Slots |-> pick(current.slots[s], imported.slots[s], s \in theirs.slots)],
         groups |-> [g \in Groups |-> pick(current.groups[g], imported.groups[g], g \in theirs.groups)],
         exprs  |-> [c \in Conds |-> pick(current.exprs[c], imported.exprs[c], TRUE)],
         order  |-> current.order \o Kept(imported.order, Conds \ Defined(current))]

\* importer.merge: what the current template lacks is added, and a conflict is
\* resolved by choice.
MergeImport(current, imported, theirs) ==
    LET pick(mine, other, chosen) == IF mine = None \/ (chosen /\ other # None) THEN other ELSE mine
    IN  [slots  |-> [s \in Slots |-> pick(current.slots[s], imported.slots[s], s \in theirs.slots)],
         groups |-> [g \in Groups |-> pick(current.groups[g], imported.groups[g], g \in theirs.groups)],
         exprs  |-> [c \in Conds |-> pick(current.exprs[c], imported.exprs[c], c \in theirs.conds)],
         order  |-> current.order \o Kept(imported.order, Conds \ Defined(current))]

HasContent(cfg) ==
    \/ Defined(cfg) # {}
    \/ \E s \in Slots : cfg.slots[s] # None
    \/ \E g \in Groups : cfg.groups[g] # None

\* importer.BuildPlan
Import(current, source, choice) ==
    LET imported == Transform(source, choice)
    IN  Cleanup(IF HasContent(current) /\ choice.merge
                THEN MergeImport(current, imported, choice.theirs)
                ELSE imported)
=============================================================================
