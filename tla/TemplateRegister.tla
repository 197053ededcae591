-------------------------- MODULE TemplateRegister --------------------------
(***************************************************************************)
(* What publishing with fbrcm promises: the server's template is a register*)
(* that every write updates atomically, from the value it replaces.  A     *)
(* write is an edit of that value, or a draft (a local template and the    *)
(* version it was made from) merged onto it without conflict.  No write is *)
(* lost, and none is computed from an older value than the one it replaces.*)
(***************************************************************************)
EXTENDS Integers, Sequences

CONSTANTS Templates, FirstTemplate, None, Edits(_), MergeConflict(_, _, _), Merge(_, _, _)

VARIABLES history, log   \* the values by version, and what was asked of each write

Current == history[Len(history)]

EditWrite == [kind |-> "edit", base |-> 0, intent |-> None]
DraftWrite(base, intent) == [kind |-> "draft", base |-> base, intent |-> intent]

Init == history = <<FirstTemplate>> /\ log = <<EditWrite>>

Edit ==
    /\ log' = Append(log, EditWrite)
    /\ \E t \in Edits(Current) : history' = Append(history, t)

MergeDraft ==
    \E base \in 1..Len(history), intent \in Templates :
        /\ log' = Append(log, DraftWrite(base, intent))
        /\ ~MergeConflict(history[base], intent, Current)
        /\ history' = Append(history, Merge(history[base], intent, Current))

Next == Edit \/ MergeDraft

Spec == Init /\ [][Next]_<<history, log>>
=============================================================================
