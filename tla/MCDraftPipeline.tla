--------------------------- MODULE MCDraftPipeline ---------------------------
(***************************************************************************)
(* DraftPipeline over templates of two root parameters, without groups and *)
(* conditions, edited by setting a value and merged by DraftMerge.         *)
(***************************************************************************)
EXTENDS DraftPipeline, TLC

CONSTANTS p1, p2, x, y, root, v1, v2, v3, inapp, empty
CONSTANT XValues   \* values x takes: three, so that two changes of it can conflict, or two

E == INSTANCE TemplateEdits WITH
        Params <- {x, y}, Groups <- {}, Root <- root, CondSeq <- <<>>, Exprs <- {},
        PlainValues <- {v1, v2, v3}, InAppDefault <- inapp, OpaqueValues <- {},
        Descs <- {empty}, EmptyDesc <- empty

M == INSTANCE DraftMerge WITH
        Params <- {x, y}, Groups <- {}, Root <- root, CondSeq <- <<>>, Exprs <- {},
        PlainValues <- {v1, v2, v3}, InAppDefault <- inapp, OpaqueValues <- {},
        Descs <- {empty}, EmptyDesc <- empty

\* One parameter more or less is a change of its slot like any other, so both
\* parameters are always there.
MCTemplate(f) ==
    [M!EmptyTemplate EXCEPT !.slots =
        [s \in M!Slots |-> [default |-> f[s[2]], cond |-> M!NoValues]]]
MCTemplates == {MCTemplate(f) : f \in {g \in [{x, y} -> XValues] : g[y] # v3}}
MCFirst == MCTemplate([z \in {x, y} |-> v1])

MCItems(t, u) == {s \in M!Slots : t.slots[s] # u.slots[s]}

\* The operations of the code, tabulated once.
EditTable == [t \in MCTemplates |-> E!BuildMutatedRemoteConfig(t, E!SetValue(t)) \cap MCTemplates]
Triples == MCTemplates \X MCTemplates \X MCTemplates
MergeTable == [z \in Triples |-> M!MergeWithLatest(z[1], z[2], z[3])]
ConflictTable == [z \in Triples |-> M!Conflict(z[1], z[2], z[3])]

MCEdits(t) == EditTable[t]
MCMerge(b, d, l) == MergeTable[<<b, d, l>>]
MCConflict(b, d, l) == ConflictTable[<<b, d, l>>]

ASSUME MCItemsAreWhatMergesAdd == ItemsAreDifferences /\ MergeAddsItsDraft

\* Processes are interchangeable.
ProcSymmetry == Permutations(Procs)
=============================================================================
