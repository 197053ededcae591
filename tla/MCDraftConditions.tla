-------------------------- MODULE MCDraftConditions --------------------------
(***************************************************************************)
(* DraftEditing with one parameter in a group and two condition names:     *)
(* adds, renames, moves and deletions of conditions, and moves and the     *)
(* deletion of the group, against conditional values.                      *)
(***************************************************************************)
EXTENDS DraftEditing

CONSTANTS p, g, root, c, d, e1, e2, v1, v2, inapp, managed, empty, none

MCCondSeq == <<c, d>>

Template(order, values) ==
    [slots  |-> [s \in Slots |-> IF s[1] = g THEN [default |-> v1, cond |-> values] ELSE none],
     groups |-> [x \in {g} |-> empty],
     exprs  |-> [x \in {c, d} |-> IF x \in Range(order) THEN e1 ELSE none],
     order  |-> order]

\* One condition, unused or in use, or two whose evaluation order is not the
\* sorted one; then a managed value hangs on a condition.
MCSeeds ==
    {Template(<<c>>, [x \in {c, d} |-> none]),
     Template(<<c>>, [x \in {c, d} |-> IF x = c THEN v2 ELSE none]),
     Template(<<d, c>>, [x \in {c, d} |-> IF x = d THEN managed ELSE none])}
=============================================================================
