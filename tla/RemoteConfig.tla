---------------------------- MODULE RemoteConfig ----------------------------
(***************************************************************************)
(* A Remote Config template as fbrcm holds it in memory                    *)
(* (firebase.RemoteConfig): parameters at the root or in a named group,    *)
(* group metadata, and conditions with an evaluation order.                *)
(*                                                                         *)
(* Go maps with optional entries are total functions here, None standing   *)
(* for an absent entry, so a nil map and an empty map are one value.       *)
(* What is inside a value, a description or an expression is a model       *)
(* value; the description and the type of a parameter travel with its      *)
(* values and are not told apart from them.                                *)
(***************************************************************************)
EXTENDS SequencesExt

CONSTANTS
    Params,        \* parameter names
    Groups,        \* names of parameter groups
    Root,          \* the place outside every group (the empty wire name)
    CondSeq,       \* condition names in the order strfold.Sort gives them
    Exprs,         \* condition definitions (expression and tag colour)
    PlainValues,   \* ordinary string values
    InAppDefault,  \* the "use in-app default" value
    OpaqueValues,  \* personalization, rollout, experiment, unknown values
    Descs,         \* group descriptions
    EmptyDesc,     \* the empty description
    None           \* absent

ASSUME RootIsNoGroup == Root \notin Groups
ASSUME GroupsAreFinite == IsFiniteSet(Groups)
ASSUME EmptyDescIsDesc == EmptyDesc \in Descs
ASSUME CondSeqIsSeq == CondSeq \in Seq(Range(CondSeq)) /\ IsInjective(CondSeq)
ASSUME NoneIsNoData ==
    None \notin Exprs \cup Descs \cup PlainValues \cup OpaqueValues \cup {InAppDefault}

Conds == Range(CondSeq)
Places == Groups \cup {Root}
Slots == Places \X Params
Values == PlainValues \cup OpaqueValues \cup {InAppDefault}

ParamStates == [default: Values \cup {None}, cond: [Conds -> Values \cup {None}]]

ASSUME NoneIsNoEntry == None \notin ParamStates /\ None \notin Conds

RemoteConfigs ==
    [slots  : [Slots -> ParamStates \cup {None}],
     groups : [Groups -> Descs \cup {None}],
     exprs  : [Conds -> Exprs \cup {None}],
     order  : Seq(Conds)]

NoValues == [c \in Conds |-> None]

EmptyTemplate ==
    [slots  |-> [s \in Slots |-> None],
     groups |-> [g \in Groups |-> None],
     exprs  |-> NoValues,
     order  |-> <<>>]

-----------------------------------------------------------------------------
Defined(cfg) == {c \in Conds : cfg.exprs[c] # None}
InSlot(cfg, place, p) == cfg.slots[<<place, p>>]
Homes(cfg, p) == {place \in Places : InSlot(cfg, place, p) # None}
LookupAny(cfg, p) == Homes(cfg, p) # {}

\* The conditions of an order that are in kept, in their order.
Kept(order, kept) ==
    LET upTo[i \in 0..Len(order)] ==
            IF i = 0 THEN <<>>
            ELSE IF order[i] \in kept THEN Append(upTo[i - 1], order[i])
            ELSE upTo[i - 1]
    IN  upTo[Len(order)]

\* Shape every Go value of the type has: a parameter of a group needs the
\* group, and the order lists the defined conditions once each.
WellFormed(cfg) ==
    /\ \A g \in Groups, p \in Params : InSlot(cfg, g, p) # None => cfg.groups[g] # None
    /\ Range(cfg.order) = Defined(cfg)
    /\ IsInjective(cfg.order)

\* Mutant: a parameter written into a missing group without creating it.
SetParamSlotOnly(cfg, place, p, param) == [cfg EXCEPT !.slots[<<place, p>>] = param]

SetParamSlot(cfg, place, p, param) ==
    [cfg EXCEPT !.slots = [@ EXCEPT ![<<place, p>>] = param],
                !.groups = [g \in Groups |-> IF g = place /\ @[g] = None THEN EmptyDesc ELSE @[g]]]

\* Mutant: an emptied group goes with its last parameter.
RemoveSlotAndEmptyGroup(cfg, place, p) ==
    LET slots == [cfg.slots EXCEPT ![<<place, p>>] = None]
    IN  [cfg EXCEPT !.slots = slots,
                    !.groups = [g \in Groups |->
                        IF g = place /\ \A x \in Params : slots[<<g, x>>] = None THEN None ELSE @[g]]]

RemoveParamSlot(cfg, place, p) == [cfg EXCEPT !.slots = [@ EXCEPT ![<<place, p>>] = None]]

HasValues(param) == param.default # None \/ \E c \in Conds : param.cond[c] # None

StripUnknown(param, known) ==
    LET kept == [param EXCEPT !.cond = [c \in Conds |-> IF c \in known THEN @[c] ELSE None]]
    IN  IF HasValues(kept) THEN kept ELSE None

\* Conditional values of conditions that do not exist go, and so does a
\* parameter left without any value; its group stays.
DropUnknownConditionReferences(cfg) ==
    [cfg EXCEPT !.slots = [s \in Slots |->
        IF @[s] = None THEN None ELSE StripUnknown(@[s], Defined(cfg))]]

\* Where the Firebase-managed values are, and which ones they are.
OpaqueIn(cfg) ==
    LET opaqueDefault == {s \in Slots : cfg.slots[s] # None /\ cfg.slots[s].default \in OpaqueValues}
        opaqueCond == {sc \in Slots \X Conds : /\ cfg.slots[sc[1]] # None
                                               /\ cfg.slots[sc[1]].cond[sc[2]] \in OpaqueValues}
    IN  {<<s, None, cfg.slots[s].default>> : s \in opaqueDefault}
            \cup {<<sc[1], sc[2], cfg.slots[sc[1]].cond[sc[2]]>> : sc \in opaqueCond}

EnsureOpaqueValuesUnchanged(current, final) == OpaqueIn(current) = OpaqueIn(final)

\* The part of NormalizeRemoteConfigForUpdate that can fail on a template
\* built by the editing operations: no parameter name may occur twice.
ValidForUpdate(cfg) == \A p \in Params : Cardinality(Homes(cfg, p)) <= 1
=============================================================================
