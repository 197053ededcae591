---------------------------- MODULE TemplateDiff ----------------------------
(***************************************************************************)
(* The comparison of two templates (rcdiff.CompareRemoteConfigs): it picks *)
(* the items of a promotion, decides whether an operation has anything to  *)
(* do, and is what a user is shown and asked about before a publication    *)
(* (rcdiff.RenderResult).  Unchanged items are left out.  So is what the   *)
(* print cannot tell: blanks around a value, and the description and the   *)
(* type of an added parameter, which travel with its values here.          *)
(***************************************************************************)
EXTENDS RemoteConfig

\* The place in the evaluation order, 0 without one.
Rank(order, c) == IF c \in Range(order) THEN CHOOSE i \in DOMAIN order : order[i] = c ELSE 0

\* Mutant: only the definitions are compared.
ConditionChangesUnordered(current, final) ==
    {[cond |-> c, was |-> current.exprs[c], is |-> final.exprs[c],
      from |-> Rank(current.order, c), to |-> Rank(final.order, c)]
        : c \in {x \in Conds : current.exprs[x] # final.exprs[x]}}

\* A condition at another position is a changed one.
ConditionChanges(current, final) ==
    {[cond |-> c, was |-> current.exprs[c], is |-> final.exprs[c],
      from |-> Rank(current.order, c), to |-> Rank(final.order, c)]
        : c \in {x \in Conds : \/ current.exprs[x] # final.exprs[x]
                               \/ Rank(current.order, x) # Rank(final.order, x)}}

GroupChanges(current, final) ==
    {[group |-> g, was |-> current.groups[g], is |-> final.groups[g]]
        : g \in {x \in Groups : current.groups[x] # final.groups[x]}}

\* The slots of p that only the first template has.
Gone(current, final, p) ==
    {s \in Places \X {p} : current.slots[s] # None /\ final.slots[s] = None}

Lone(S) == \A s, t \in S : s = t

\* The slot a parameter left and the one it came to, when it has one of each.
MovedSlots(current, final) ==
    UNION {Gone(current, final, p) \X Gone(final, current, p)
            : p \in {x \in Params : Lone(Gone(current, final, x)) /\ Lone(Gone(final, current, x))}}

\* from is empty for an added parameter, to for a removed one.
ParameterChanges(current, final) ==
    LET moved == MovedSlots(current, final)
        stayed == {s \in Slots : \A m \in moved : s \notin {m[1], m[2]}}
        present(cfg, s) == {x \in {s} : cfg.slots[x] # None}
    IN  {[from |-> {m[1]}, to |-> {m[2]}, was |-> current.slots[m[1]], is |-> final.slots[m[2]]]
            : m \in moved}
        \cup {[from |-> present(current, s), to |-> present(final, s),
               was |-> current.slots[s], is |-> final.slots[s]]
                : s \in {x \in stayed : current.slots[x] # final.slots[x]}}

CompareRemoteConfigs(current, final) ==
    [conds  |-> ConditionChanges(current, final),
     groups |-> GroupChanges(current, final),
     params |-> ParameterChanges(current, final)]

HasChanges(diff) == diff.conds # {} \/ diff.groups # {} \/ diff.params # {}

-----------------------------------------------------------------------------
\* What is printed of a value: nothing unless it changed.
Printed(was, is) == {is} \ {was}

ValuesOf(param) == IF param = None THEN [default |-> None, cond |-> NoValues] ELSE param

\* A parameter with its old and new place and, unless removed, the values that
\* changed.
ParameterLine(x) ==
    LET was == ValuesOf(x.was)
        is == ValuesOf(IF x.to = {} THEN x.was ELSE x.is)
    IN  [from |-> x.from, to |-> x.to,
         default |-> Printed(was.default, is.default),
         cond    |-> [c \in Conds |-> Printed(was.cond[c], is.cond[c])]]

\* A condition with its definition, and with its position if it was there and is
\* at another one (at, else 0).
ConditionLine(x) ==
    [cond |-> x.cond, is |-> x.is,
     at |-> IF None \notin {x.was, x.is} /\ x.from # x.to THEN x.to ELSE 0]

RenderResult(diff) ==
    [conds  |-> {ConditionLine(x) : x \in diff.conds},
     groups |-> {[group |-> x.group, is |-> x.is] : x \in diff.groups},
     params |-> {ParameterLine(x) : x \in diff.params}]

-----------------------------------------------------------------------------
\* Reading the preview of a change to current back.

Read(was, printed) == IF printed = {} THEN was ELSE CHOOSE v \in printed : TRUE

ReadValues(current, l) ==
    LET was == IF l.from = {} THEN ValuesOf(None) ELSE current.slots[CHOOSE s \in l.from : TRUE]
    IN  [default |-> Read(was.default, l.default),
         cond    |-> [c \in Conds |-> Read(was.cond[c], l.cond[c])]]

ReadSlot(current, preview, s) ==
    IF \E l \in preview.params : s \in l.to
    THEN ReadValues(current, CHOOSE l \in preview.params : s \in l.to)
    ELSE IF \E l \in preview.params : s \in l.from THEN None
    ELSE current.slots[s]

ReadGroup(current, preview, g) ==
    IF \E l \in preview.groups : l.group = g
    THEN (CHOOSE l \in preview.groups : l.group = g).is
    ELSE current.groups[g]

ReadExpr(current, preview, c) ==
    IF \E l \in preview.conds : l.cond = c
    THEN (CHOOSE l \in preview.conds : l.cond = c).is
    ELSE current.exprs[c]

\* A condition that stays is where the preview says, or where it was.
ReadRank(current, preview, c) ==
    IF \E l \in preview.conds : l.cond = c /\ l.at # 0
    THEN (CHOOSE l \in preview.conds : l.cond = c).at
    ELSE Rank(current.order, c)

\* A template the preview can be taken for. It says nothing of the positions of
\* conditions that are new.
IsReading(cfg, current, preview) ==
    /\ \A s \in Slots : cfg.slots[s] = ReadSlot(current, preview, s)
    /\ \A g \in Groups : cfg.groups[g] = ReadGroup(current, preview, g)
    /\ \A c \in Conds : cfg.exprs[c] = ReadExpr(current, preview, c)
    /\ \A c \in Defined(current) \cap Defined(cfg) :
          Rank(cfg.order, c) = ReadRank(current, preview, c)
=============================================================================
