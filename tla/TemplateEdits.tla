---------------------------- MODULE TemplateEdits ----------------------------
(***************************************************************************)
(* The mutations of a template: one operator per editing operation of the  *)
(* draft package, giving the set of templates the operation can produce    *)
(* over every argument it does not refuse.                                 *)
(***************************************************************************)
EXTENDS RemoteConfig

\* Arguments the parameter operations take: an existing slot.
Occupied(cfg) == {s \in Slots : cfg.slots[s] # None}

FreeNames(cfg) == {p \in Params : ~LookupAny(cfg, p)}

-----------------------------------------------------------------------------
\* Parameters (slots.go, slot_values.go)

DeleteParameter(cfg) == {RemoveParamSlot(cfg, s[1], s[2]) : s \in Occupied(cfg)}

RenameParameter(cfg) ==
    {SetParamSlot(RemoveParamSlot(cfg, s[1], s[2]), s[1], q, cfg.slots[s]) :
        s \in Occupied(cfg), q \in FreeNames(cfg)}

DuplicateParameter(cfg) ==
    {SetParamSlot(cfg, s[1], q, cfg.slots[s]) : s \in Occupied(cfg), q \in FreeNames(cfg)}

\* The target place is not searched for the name.
MoveParameter(cfg) ==
    {SetParamSlot(RemoveParamSlot(cfg, m[1][1], m[1][2]), m[2], m[1][2], cfg.slots[m[1]]) :
        m \in {x \in Occupied(cfg) \X Places : x[1][1] # x[2]}}

\* A new value for the default or for one condition, which must exist; several
\* in one edit are several edits here. A plain value replaces no opaque one; the
\* in-app default may, for BuildMutatedRemoteConfig to refuse.
SetParamValue(cfg, param) ==
    LET fits(v, old) == v = InAppDefault \/ (v \in PlainValues /\ old \notin OpaqueValues)
    IN  {[param EXCEPT !.default = v] :
            v \in {x \in Values : param.default # None /\ fits(x, param.default)}}
        \cup {[param EXCEPT !.cond[cv[1]] = cv[2]] :
            cv \in {x \in Defined(cfg) \X Values : fits(x[2], param.cond[x[1]])}}

\* A new parameter starts from a default value; the edit may add a conditional one.
CreateParameter(cfg) ==
    LET plain == {[default |-> v, cond |-> NoValues] : v \in PlainValues \cup {InAppDefault}}
    IN  {SetParamSlot(cfg, place, p, param) :
            place \in Places, p \in FreeNames(cfg),
            param \in plain \cup UNION {SetParamValue(cfg, x) : x \in plain}}

\* Value, name and place in one edit. A new name must be free, a new place is
\* again not searched.
EditParameterDetails(cfg) ==
    UNION {{SetParamSlot(RemoveParamSlot(cfg, s[1], s[2]), place, q, param) :
                place \in Places, q \in FreeNames(cfg) \cup {s[2]},
                param \in SetParamValue(cfg, cfg.slots[s]) \cup {cfg.slots[s]}}
            : s \in Occupied(cfg)}

\* The inline editors (boolean, number, string, JSON) replace a plain value
\* by a different plain value.
SetValue(cfg) ==
    LET edits(param) ==
            {[param EXCEPT !.default = v] : v \in {x \in PlainValues : param.default \in PlainValues}}
            \cup {[param EXCEPT !.cond[cv[1]] = cv[2]] :
                    cv \in {x \in Conds \X PlainValues : param.cond[x[1]] \in PlainValues}}
    IN  UNION {{SetParamSlot(cfg, s[1], s[2], param) : param \in edits(cfg.slots[s]) \ {cfg.slots[s]}}
                : s \in Occupied(cfg)}

DeleteConditionalValue(cfg) ==
    {SetParamSlot(cfg, x[1][1], x[1][2], [cfg.slots[x[1]] EXCEPT !.cond[x[2]] = None]) :
        x \in {y \in Occupied(cfg) \X Conds : cfg.slots[y[1]].cond[y[2]] # None}}

-----------------------------------------------------------------------------
\* Groups (groups.go, slots_group.go)

Existing(cfg) == {g \in Groups : cfg.groups[g] # None}

AddGroup(cfg) ==
    {[cfg EXCEPT !.groups[g] = d] : g \in Groups \ Existing(cfg), d \in Descs}

EditGroupMetadata(cfg) ==
    {[cfg EXCEPT !.groups[g] = d] : g \in Existing(cfg), d \in Descs} \ {cfg}

\* Everything in the slots of "from" goes to "to".
Carry(slots, from, to) ==
    [s \in Slots |-> IF s[1] = from THEN None
                     ELSE IF s[1] = to /\ slots[<<from, s[2]>>] # None THEN slots[<<from, s[2]>>]
                     ELSE slots[s]]

RenameGroupTo(cfg, g, h, d) ==
    [cfg EXCEPT !.groups = [@ EXCEPT ![g] = None, ![h] = d], !.slots = Carry(@, g, h)]

RenameGroup(cfg) ==
    {RenameGroupTo(cfg, g, h, cfg.groups[g]) : g \in Existing(cfg), h \in Groups \ Existing(cfg)}

EditGroupDetails(cfg) ==
    AddGroup(cfg) \cup EditGroupMetadata(cfg)
        \cup {RenameGroupTo(cfg, g, h, d) :
                g \in Existing(cfg), h \in Groups \ Existing(cfg), d \in Descs}

DeleteGroup(cfg) ==
    {[cfg EXCEPT !.groups = [@ EXCEPT ![g] = None],
                 !.slots = [s \in Slots |-> IF s[1] = g THEN None ELSE @[s]]] : g \in Existing(cfg)}

\* Only the destination is searched for clashes; a destination group that does
\* not exist is created when something moves into it, and a named source group
\* disappears.
MoveGroupTo(cfg, from, to) ==
    LET moved == \E p \in Params : InSlot(cfg, from, p) # None
    IN  [cfg EXCEPT !.slots = Carry(@, from, to),
                    !.groups = [g \in Groups |->
                        IF g = from THEN None
                        ELSE IF g = to /\ moved /\ @[g] = None THEN EmptyDesc
                        ELSE @[g]]]

MoveGroup(cfg) ==
    {MoveGroupTo(cfg, m[1], m[2]) :
        m \in {x \in (Existing(cfg) \cup {Root}) \X Places :
                  /\ x[1] # x[2]
                  /\ \A p \in Params :
                        ~(InSlot(cfg, x[1], p) # None /\ InSlot(cfg, x[2], p) # None)}}

-----------------------------------------------------------------------------
\* Conditions (conditions/mutate.go)

PositionOf(cfg, c) == CHOOSE i \in 1..Len(cfg.order) : cfg.order[i] = c

AddConditionAt(cfg, c, e, i) ==
    [cfg EXCEPT !.exprs = [@ EXCEPT ![c] = e], !.order = InsertAt(@, i, c)]

AddCondition(cfg) ==
    {AddConditionAt(cfg, c, e, i) :
        c \in Conds \ Defined(cfg), e \in Exprs, i \in 1..(Len(cfg.order) + 1)}

Redefine(cfg, c, e) == [cfg EXCEPT !.exprs[c] = e]

EditCondition(cfg) == {Redefine(cfg, c, e) : c \in Defined(cfg), e \in Exprs} \ {cfg}

MoveConditionTo(cfg, c, i) ==
    [cfg EXCEPT !.order = InsertAt(RemoveAt(@, PositionOf(cfg, c)), i, c)]

MoveCondition(cfg) ==
    {MoveConditionTo(cfg, c, i) : c \in Defined(cfg), i \in 1..Len(cfg.order)} \ {cfg}

\* A conditional value follows its condition's new name, over whatever the
\* parameter held for that name.
RenamedKey(f, c, d) == [f EXCEPT ![d] = f[c], ![c] = None]
RenamedValue(param, c, d) == [param EXCEPT !.cond = RenamedKey(@, c, d)]

RenameConditionTo(cfg, c, d) ==
    [cfg EXCEPT !.exprs = RenamedKey(@, c, d),
                !.order = ReplaceAll(@, c, d),
                !.slots = [s \in Slots |->
                    IF @[s] = None \/ @[s].cond[c] = None THEN @[s] ELSE RenamedValue(@[s], c, d)]]

RenameCondition(cfg) ==
    {RenameConditionTo(cfg, c, d) : c \in Defined(cfg), d \in Conds \ Defined(cfg)}

\* The plain values of one condition, all replaceable in one edit.
EditUsageValues(cfg, c) ==
    LET used == {s \in Occupied(cfg) : cfg.slots[s].cond[c] \in PlainValues}
    IN  {[cfg EXCEPT !.slots = [s \in Slots |->
            IF s \in used THEN [@[s] EXCEPT !.cond[c] = f[s]] ELSE @[s]]] :
            f \in [used -> PlainValues]}

\* Definition, usage values, priority and name in one edit.
EditedInPlace(cfg, c) ==
    {MoveConditionTo(Redefine(u, c, e), c, i) :
        u \in EditUsageValues(cfg, c), e \in Exprs, i \in 1..Len(cfg.order)}

EditConditionDetails(cfg) ==
    UNION {EditedInPlace(cfg, c)
            \cup {RenameConditionTo(u, c, d) : u \in EditedInPlace(cfg, c), d \in Conds \ Defined(cfg)}
            : c \in Defined(cfg)}

DeleteCondition(cfg) ==
    {DropUnknownConditionReferences(
        [cfg EXCEPT !.exprs = [@ EXCEPT ![c] = None], !.order = Kept(@, Conds \ {c})])
        : c \in Defined(cfg)}

-----------------------------------------------------------------------------
\* Mutant: the mutated copy's managed values are not compared.
BuildUncompared(current, mutated) ==
    {DropUnknownConditionReferences(cfg) : cfg \in mutated} \ {current}

\* BuildMutatedRemoteConfig: clean the mutated copy up, refuse it when it
\* touches a Firebase-managed value or changes nothing. (Callers that give no message
\* for "nothing changed" are operations that refuse it themselves or always change.)
BuildMutatedRemoteConfig(current, mutated) ==
    {final \in {DropUnknownConditionReferences(cfg) : cfg \in mutated} :
        /\ EnsureOpaqueValuesUnchanged(current, final)
        /\ final # current}
=============================================================================
