---------------------------- MODULE DraftEditing ----------------------------
(***************************************************************************)
(* The life of one draft: local edits on the draft, edits of other users   *)
(* on the server, the implicit rebase of a refresh, and publication of the *)
(* merged candidate.  Each step is atomic here; DraftPipeline splits them  *)
(* into network and file steps and forgets what is inside a template.      *)
(***************************************************************************)
EXTENDS TemplateEdits, DraftMerge

CONSTANTS
    Seeds,      \* templates the server may start with
    MaxLocal,   \* bound on local edits
    MaxRemote   \* bound on edits of other users

\* The server holds templates Firebase accepted: typed, one home per parameter, every
\* conditional value of a defined condition.
ASSUME SeedsAreAccepted ==
    \A cfg \in Seeds :
        /\ cfg \in RemoteConfigs /\ WellFormed(cfg) /\ ValidForUpdate(cfg)
        /\ \A s \in Slots : cfg.slots[s] # None =>
              \A c \in Conds : cfg.slots[s].cond[c] # None => c \in Defined(cfg)

ASSUME BoundsAreNaturals == MaxLocal \in Nat /\ MaxRemote \in Nat
ASSUME NoneIsNoTemplate == None \notin RemoteConfigs

VARIABLES
    latest,     \* the server's template
    draft,      \* the working template, None when there is no draft
    base,       \* the template the draft was made on or last rebased onto
    asked,      \* groups the user removed by a group operation in this draft
    locals,     \* number of local edits so far
    remotes     \* number of edits of other users so far

vars == <<latest, draft, base, asked, locals, remotes>>

HasDraft == draft # None

\* What the next mutation works on (currentDraftRaw, with a revalidated cache).
Current == IF HasDraft THEN draft ELSE latest

Init ==
    /\ latest \in Seeds
    /\ draft = None
    /\ base = None
    /\ asked = {}
    /\ locals = 0
    /\ remotes = 0

-----------------------------------------------------------------------------
\* Local edits: Mutate(publish = false) with one mutation, then SaveWithBase,
\* which keeps the base of an existing draft.

SaveDraft(mutated, removed) ==
    /\ locals < MaxLocal
    /\ \E next \in BuildMutatedRemoteConfig(Current, mutated) :
        /\ draft' = next
        /\ base' = IF HasDraft THEN base ELSE latest
        /\ asked' = asked \cup (removed \cap (Existing(Current) \ Existing(next)))
    /\ locals' = locals + 1
    /\ UNCHANGED <<latest, remotes>>

EditParameter ==
    \/ SaveDraft(SetValue(Current), {})
    \/ SaveDraft(CreateParameter(Current), {})
    \/ SaveDraft(EditParameterDetails(Current), {})
    \/ SaveDraft(DeleteConditionalValue(Current), {})
    \/ SaveDraft(DuplicateParameter(Current), {})
    \/ SaveDraft(RenameParameter(Current), {})
    \/ SaveDraft(MoveParameter(Current), {})
    \/ SaveDraft(DeleteParameter(Current), {})

EditGroup ==
    \/ SaveDraft(AddGroup(Current), {})
    \/ SaveDraft(EditGroupMetadata(Current), {})
    \/ SaveDraft(RenameGroup(Current), Groups)
    \/ SaveDraft(EditGroupDetails(Current), Groups)
    \/ SaveDraft(MoveGroup(Current), Groups)
    \/ SaveDraft(DeleteGroup(Current), Groups)

EditConditions ==
    \/ SaveDraft(AddCondition(Current), {})
    \/ SaveDraft(EditCondition(Current), {})
    \/ SaveDraft(EditConditionDetails(Current), {})
    \/ SaveDraft(RenameCondition(Current), {})
    \/ SaveDraft(MoveCondition(Current), {})
    \/ SaveDraft(DeleteCondition(Current), {})

-----------------------------------------------------------------------------
\* Other users publish edits of their own, and Firebase starts, changes or ends the
\* management of a default or of a condition's value (a rollout, an experiment).

ManagedValueChanges(cfg) ==
    LET given(old) == {v \in PlainValues \cup OpaqueValues :
                          v # old /\ {v, old} \cap OpaqueValues # {}}
    IN  UNION {{[cfg EXCEPT !.slots[s].default = v] :
                    v \in {x \in given(cfg.slots[s].default) : cfg.slots[s].default # None}}
               \cup {[cfg EXCEPT !.slots[s].cond[cv[1]] = cv[2]] :
                    cv \in {x \in Defined(cfg) \X Values : x[2] \in given(cfg.slots[s].cond[x[1]])}}
                : s \in Occupied(cfg)}

RemoteEdits(cfg) ==
    SetValue(cfg) \cup CreateParameter(cfg) \cup MoveParameter(cfg) \cup DeleteParameter(cfg)
        \cup AddGroup(cfg) \cup EditGroupMetadata(cfg) \cup DeleteGroup(cfg)
        \cup AddCondition(cfg) \cup EditCondition(cfg) \cup MoveCondition(cfg)
        \cup RenameCondition(cfg) \cup DeleteCondition(cfg)

RemotePublish ==
    /\ remotes < MaxRemote
    /\ latest' \in BuildMutatedRemoteConfig(latest, RemoteEdits(latest)) \cup ManagedValueChanges(latest)
    /\ remotes' = remotes + 1
    /\ UNCHANGED <<draft, base, asked, locals>>

-----------------------------------------------------------------------------
Merged == MergeWithLatest(base, draft, latest)
Mergeable == HasDraft /\ ~Conflict(base, draft, latest)
HasChanges == Merged # latest

DropDraft ==
    /\ draft' = None
    /\ base' = None
    /\ asked' = {}

Discard ==
    /\ HasDraft
    /\ DropDraft
    /\ UNCHANGED <<latest, locals, remotes>>

\* RefreshDraftAware: a refresh moves a draft onto the latest template, deletes
\* it when nothing is left of it, and leaves it alone on a conflict. The code
\* compares version numbers; two versions with one template are one here.
Refresh ==
    /\ Mergeable
    /\ base # latest
    /\ IF HasChanges
       THEN /\ draft' = Merged
            /\ base' = latest
            /\ UNCHANGED asked
       ELSE DropDraft
    /\ UNCHANGED <<latest, locals, remotes>>

\* What PreparePublish compares with the latest template for managed values:
\* the candidate, or the empty template when the merge reported no changes and
\* returned no bytes.
CheckedCandidate == IF HasChanges THEN Merged ELSE EmptyTemplate

PreparePublish ==
    /\ Mergeable
    /\ EnsureOpaqueValuesUnchanged(latest, CheckedCandidate)

\* The candidate is published and the draft deleted; the deletion may fail or
\* never be reached.
PublishDraft ==
    /\ PreparePublish
    /\ IF HasChanges
       THEN ValidForUpdate(Merged) /\ latest' = Merged
       ELSE UNCHANGED latest
    /\ \/ DropDraft
       \/ HasChanges /\ UNCHANGED <<draft, base, asked>>
    /\ UNCHANGED <<locals, remotes>>

Next ==
    \/ EditParameter
    \/ EditGroup
    \/ EditConditions
    \/ RemotePublish
    \/ Discard
    \/ Refresh
    \/ PublishDraft

Spec == Init /\ [][Next]_vars

-----------------------------------------------------------------------------
\* Type invariant: every template held anywhere has the shape a Go value has,
\* its groups exist where parameters live and its order lists its conditions.
TypeOK ==
    /\ \A cfg \in {latest} \cup ({draft, base} \ {None}) : cfg \in RemoteConfigs /\ WellFormed(cfg)
    /\ (draft = None) = (base = None)
    /\ asked \subseteq Groups
    /\ locals \in 0..MaxLocal
    /\ remotes \in 0..MaxRemote

\* No conditional value of any template, merged or stored, refers to a
\* condition the template does not define, whatever mix of renames, deletions
\* and merges produced it.
NoDanglingCondition ==
    LET resolved(cfg) == \A s \in Occupied(cfg), c \in Conds :
            cfg.slots[s].cond[c] # None => c \in Defined(cfg)
    IN  /\ \A cfg \in {latest} \cup ({draft} \ {None}) : resolved(cfg)
        /\ Mergeable => resolved(Merged)

\* Merging a draft with its own base gives exactly the draft: publication with
\* no concurrent edit publishes what the user saw.
FastForward ==
    HasDraft => /\ ~Conflict(base, draft, base)
                /\ MergeWithLatest(base, draft, base) = draft

\* A parameter of the merged template is the local one where the draft changed
\* it and the remote one elsewhere, except that what lies in a group deleted by
\* the draft goes, and values of conditions gone from the merged template go.
MergeIsItemwise ==
    Mergeable =>
        \A s \in Slots :
            LET item == ThreeWay(base.slots[s], draft.slots[s], latest.slots[s])
                groupDeleted == /\ s[1] # Root
                                /\ base.groups[s[1]] # None
                                /\ draft.groups[s[1]] = None
            IN  Merged.slots[s] =
                    IF groupDeleted \/ item = None THEN None
                    ELSE StripUnknown(item, Defined(Merged))

\* What publication promises of a merge: it keeps the changes of both sides item by
\* item, and without changes of others it is what the user saw.
MergeKeepsBothSides == FastForward /\ MergeIsItemwise

\* Conditions both sides kept stay in an order one side chose: the draft's if
\* the draft changed the order or the set of conditions, the latest otherwise.
\* The order is evaluation priority, so sorting it is never safe.
OrderIsSomeones ==
    Mergeable =>
        LET chosen == IF base.order # draft.order THEN draft.order ELSE latest.order
            both == Range(chosen) \cap Defined(Merged)
        IN  /\ Kept(Merged.order, both) = Kept(chosen, both)
            /\ WellFormed(Merged)

\* Only an explicit group operation removes a group: when a refresh or a
\* publication makes a group disappear, the user asked for it in this draft.
GroupsGoByRequest ==
    [][ /\ (latest' # latest /\ remotes' = remotes)
                => Existing(latest) \ Existing(latest') \subseteq asked
        /\ (HasDraft /\ draft' # None /\ locals' = locals)
                => (Existing(draft) \cap Existing(latest)) \ Existing(draft') \subseteq asked ]_vars

\* The managed values of a merge are managed values of the latest template: a
\* stale draft brings back none that ended and moves or copies none, whatever it
\* did to slots, groups and conditions. One the merge loses, which blocks the
\* publication, was lost by an earlier refresh (a refresh does not compare managed
\* values) or goes with a group or a condition this draft removed.
ManagedValuesFollowLatest ==
    Mergeable =>
        /\ OpaqueIn(Merged) \subseteq OpaqueIn(latest)
        /\ \A m \in OpaqueIn(latest) \ OpaqueIn(Merged) :
              \/ m \in OpaqueIn(base) \ OpaqueIn(draft)
              \/ m[1][1] \in Existing(base) \ Existing(draft)
              \/ m[2] \in Defined(base) \ Defined(draft)

\* The server never holds a template with one parameter in two places, although
\* two sides may each have put it in a place of their own and merged cleanly.
ServerOneHome == ValidForUpdate(latest)

\* A merge gives a parameter two homes only if both sides gave it a new one.
TwoHomesOnlyByBothSides ==
    (Mergeable /\ ValidForUpdate(draft)) =>
        \A p \in Params : Cardinality(Homes(Merged, p)) > 1 =>
            \E x, y \in Places :
                /\ x # y
                /\ InSlot(base, x, p) # InSlot(draft, x, p)
                /\ InSlot(base, y, p) # InSlot(latest, y, p)

\* Every parameter has one home on the server, and in a merge unless both sides
\* moved it at once.
OneHomePerParameter == ServerOneHome /\ TwoHomesOnlyByBothSides

\* After its candidate was accepted, a draft that was not deleted merges with
\* the published template without conflict and without changes, provided no
\* condition it gives a value to was missing from that template.
RetryRecognised(candidate) ==
    /\ ~Conflict(base, draft, candidate)
    /\ MergeWithLatest(base, draft, candidate) = candidate

ValuesResolved(cfg, defined) ==
    \A s \in Occupied(cfg), c \in Conds : cfg.slots[s].cond[c] # None => c \in defined

RetryIsIdempotent ==
    (Mergeable /\ ValuesResolved(draft, Defined(Merged))) => RetryRecognised(Merged)
=============================================================================
