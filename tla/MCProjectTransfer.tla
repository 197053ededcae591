--------------------------- MODULE MCProjectTransfer ---------------------------
(***************************************************************************)
(* ProjectTransfer with three conditions, whose order differs between the  *)
(* projects, one group, a parameter that both have and one of the target.  *)
(***************************************************************************)
EXTENDS ProjectTransfer

CONSTANTS p, q, g, root, a, b, c, e1, e2, v1, v2, managed, inapp, empty, desc, none

MCCondSeq == <<a, b, c>>

Param(default, cond, v) == [default |-> default, cond |-> [x \in Conds |-> IF x = cond THEN v ELSE none]]

Template(slots, groups, order, changed) ==
    [slots  |-> [s \in Slots |-> IF s \in DOMAIN slots THEN slots[s] ELSE none],
     groups |-> [x \in Groups |-> groups],
     exprs  |-> [x \in Conds |-> IF x \notin Range(order) THEN none ELSE IF x \in changed THEN e2 ELSE e1],
     order  |-> order]

\* p in the group, on condition b; or everything the source has is conditions;
\* or a managed value.
MCSources ==
    {Template(<<g, p>> :> Param(v1, b, v2), desc, order, {b}) : order \in {<<a, b, c>>, <<c, b>>}}
    \cup {Template(<<root, p>> :> Param(none, a, v2) @@ <<root, q>> :> Param(v2, c, v1), none, <<c, a>>, {}),
          Template(<<g, p>> :> Param(managed, none, v1), empty, <<>>, {})}

\* p at the root or absent, q on a condition, in several orders, or managed; or p
\* as a source has it on another definition of its condition.
MCTargets ==
    {Template(<<root, p>> :> Param(v1, none, v1) @@ <<g, q>> :> Param(v1, c, v2), empty, order, {}) :
        order \in {<<c, b, a>>, <<b, c>>}}
    \cup {Template(<<g, p>> :> Param(v2, a, v1), desc, <<a, b>>, {}),
          Template(<<root, q>> :> Param(managed, a, v1), none, <<a, c>>, {a}),
          Template(<<g, p>> :> Param(v1, b, v2), empty, <<b>>, {})}

MCDrafts == {Template(<<g, p>> :> Param(v2, c, v1), desc, <<c>>, {})}
=============================================================================
