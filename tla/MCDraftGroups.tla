---------------------------- MODULE MCDraftGroups ----------------------------
(***************************************************************************)
(* DraftEditing with two parameters and two groups and no condition: moves,*)
(* renames, group operations and managed values.                           *)
(***************************************************************************)
EXTENDS DraftEditing

CONSTANTS p, q, g, h, root, v1, v2, inapp, managed, empty, desc, none

MCCondSeq == <<>>

Plain(v) == [default |-> v, cond |-> [c \in {} |-> none]]

\* A parameter in a described group, the other name free and the second group
\* absent: one step away from every clash.
MCSeeds ==
    {[slots  |-> [s \in Slots |-> IF s = <<g, p>> THEN Plain(v1) ELSE none],
      groups |-> [x \in Groups |-> IF x = g THEN desc ELSE none],
      exprs  |-> [c \in {} |-> none],
      order  |-> <<>>]}
=============================================================================
