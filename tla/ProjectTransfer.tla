--------------------------- MODULE ProjectTransfer ---------------------------
(***************************************************************************)
(* `fbrcm projects promote`, `fbrcm project import` and their counterparts *)
(* in the TUI, which show a preview for review first: one such operation   *)
(* on a target whose server template other people change meanwhile.  The   *)
(* source is read once.  A step is one network operation or one decision   *)
(* of the user; the local draft of the target has no other writer here.    *)
(***************************************************************************)
EXTENDS TemplateTransfer

CONSTANTS
    Sources,     \* templates of the source project, or import files
    Targets,     \* templates the target's server may hold
    Drafts,      \* contents of a draft the target may already have
    MaxOthers,   \* bound on writes of other people
    MaxLost      \* bound on lost answers

VARIABLES
    source,
    history,     \* the target's templates by version, the last one current
    draft,       \* [base, cfg], None without a draft
    pc,
    mem,         \* what the operation holds
    others,
    lost

vars == <<source, history, draft, pc, mem, others, lost>>

OneHome(cfg) == WellFormed(cfg) /\ ValidForUpdate(cfg)

Labels == {"idle", "read", "put", "review", "prepare", "done"}
Ops == {"promote", "import", "promoteReviewed", "importReviewed"}

\* Templates Firebase accepted, with nothing in them to clean up: conditional values
\* are of conditions they define, and each parameter has a value.
ASSUME TemplatesAreValid ==
    \A cfg \in Sources \cup Targets :
        cfg \in RemoteConfigs /\ OneHome(cfg) /\ DropUnknownConditionReferences(cfg) = cfg

\* A draft need not be valid for an update, but every edit that saves one leaves
\* nothing to clean up in it either.
ASSUME DraftsAreTemplates ==
    \A cfg \in Drafts :
        cfg \in RemoteConfigs /\ WellFormed(cfg) /\ DropUnknownConditionReferences(cfg) = cfg

ASSUME NoneIsNothing == None \notin RemoteConfigs /\ None \notin Ops
ASSUME BoundsAreNatural == MaxOthers \in Nat /\ MaxLost \in Nat

Latest == history[Len(history)]
Blank == [op |-> None, choice |-> NoChoice, prune |-> FALSE, current |-> None,
          candidate |-> None, publish |-> None, etag |-> 0, shown |-> 0]

Selections(cfg, prune) ==
    LET items == Items(source, cfg, prune)
    IN  {x \in [slots : SUBSET items.slots, groups : SUBSET items.groups, conds : SUBSET items.conds] :
            x # NoChoice}

\* Items both templates have, and differently: what an import may have to resolve.
Conflicts(cfg, imported) ==
    [slots  : SUBSET {s \in Slots : None \notin {cfg.slots[s], imported.slots[s]}
                                    /\ cfg.slots[s] # imported.slots[s]},
     groups : SUBSET {g \in Groups : None \notin {cfg.groups[g], imported.groups[g]}
                                    /\ cfg.groups[g] # imported.groups[g]},
     conds  : SUBSET {c \in Conds : None \notin {cfg.exprs[c], imported.exprs[c]}
                                    /\ cfg.exprs[c] # imported.exprs[c]}]

Scopes ==
    [groups : SUBSET {g \in Groups : source.groups[g] # None},
     slots  : {{s \in Slots : s[2] \in names} : names \in SUBSET Params \ {{}}},
     policy : {"keep", "keep_portable_only", "remove_all"}]

ImportChoices(cfg) ==
    UNION {{[groups |-> x.groups, slots |-> x.slots, policy |-> x.policy,
             merge |-> merge, theirs |-> theirs] :
                merge \in BOOLEAN, theirs \in Conflicts(cfg, Transform(source, x))}
           : x \in Scopes}

-----------------------------------------------------------------------------
Init ==
    /\ source \in Sources
    /\ \E cfg \in Targets :
        /\ history = <<cfg>>
        /\ draft \in {None} \cup [base : {cfg}, cfg : Drafts \ {cfg}]
    /\ pc = "idle"
    /\ mem = Blank
    /\ others = 0
    /\ lost = 0

\* Whether an operation has anything to do is read off the diff.
Differ(cfg, candidate) == HasChanges(CompareRemoteConfigs(cfg, candidate))

Goto(label, m) == pc' = label /\ mem' = m
Finish == Goto("done", mem)

\* runProjectsPromote: the selection is made on the target as it is now, what is
\* published is computed later. With a draft the command stops.
BeginPromote ==
    /\ pc = "idle"
    /\ draft = None
    /\ \E prune \in BOOLEAN : \E chosen \in Selections(Latest, prune) :
        /\ Differ(Latest, Apply(source, Latest, chosen, prune))
        /\ Goto("read", [Blank EXCEPT !.op = "promote", !.choice = chosen, !.prune = prune])
    /\ UNCHANGED <<source, history, draft, others, lost>>

\* One round of publishPromotePlan: the target is read again and the selection
\* applied to it; nothing left to change ends the command.
ReadTarget ==
    /\ pc = "read"
    /\ LET candidate == Apply(source, Latest, mem.choice, mem.prune)
       IN  IF ~Differ(Latest, candidate) THEN Finish
           ELSE Goto("put", [mem EXCEPT !.current = Latest, !.candidate = candidate, !.etag = Len(history)])
    /\ UNCHANGED <<source, history, draft, others, lost>>

\* Run of the import command, published: one read, the user's confirmation
\* follows it.
BeginImport ==
    /\ pc = "idle"
    /\ draft = None
    /\ \E choice \in ImportChoices(Latest) :
        LET candidate == Import(Latest, source, choice)
        IN  /\ Differ(Latest, candidate)
            /\ Goto("put", [Blank EXCEPT !.op = "import", !.choice = choice, !.current = Latest,
                                         !.candidate = candidate, !.etag = Len(history)])
    /\ UNCHANGED <<source, history, draft, others, lost>>

Working(cfg) == IF draft = None THEN cfg ELSE draft.cfg
DraftOn(cfg, changed) == [base |-> IF draft = None THEN cfg ELSE draft.base, cfg |-> changed]

\* The import command with --draft works on the draft, validates nothing and
\* saves.
ImportToDraft ==
    /\ pc = "idle"
    /\ \E choice \in ImportChoices(Working(Latest)) :
        LET candidate == Import(Working(Latest), source, choice)
        IN  /\ Differ(Working(Latest), candidate)
            /\ draft' = DraftOn(Latest, candidate)
    /\ Finish
    /\ UNCHANGED <<source, history, others, lost>>

\* What publishing the candidate will make of the template shown.
PublishPreview(candidate, published) ==
    IF draft = None THEN candidate ELSE MergeWithLatest(draft.base, candidate, published)

\* PrepareProjectPromotion and PreviewProjectPromotion, on a cached template of
\* any age and the draft: managed values must not change.
ReviewPromotion ==
    /\ pc = "idle"
    /\ \E shown \in DOMAIN history : \E prune \in BOOLEAN :
        LET published == history[shown]
            current == Working(published)
        IN  \E chosen \in Selections(current, prune) :
            LET candidate == Apply(source, current, chosen, prune)
            IN  /\ Differ(current, candidate)
                /\ EnsureOpaqueValuesUnchanged(current, candidate)
                /\ draft # None => ~Conflict(draft.base, candidate, published)
                /\ Goto("review", [Blank EXCEPT !.op = "promoteReviewed", !.choice = chosen,
                       !.prune = prune, !.current = current, !.candidate = candidate,
                       !.publish = PublishPreview(candidate, published), !.shown = shown])
    /\ UNCHANGED <<source, history, draft, others, lost>>

\* PrepareProjectImport, likewise; it also makes the update payload.
ReviewImport ==
    /\ pc = "idle"
    /\ \E shown \in DOMAIN history :
        LET current == Working(history[shown])
        IN  \E choice \in ImportChoices(current) :
            LET candidate == Import(current, source, choice)
            IN  /\ Differ(current, candidate)
                /\ EnsureOpaqueValuesUnchanged(current, candidate)
                /\ ValidForUpdate(candidate)
                /\ Goto("review", [Blank EXCEPT !.op = "importReviewed", !.choice = choice,
                       !.current = current, !.candidate = candidate, !.shown = shown])
    /\ UNCHANGED <<source, history, draft, others, lost>>

\* The user keeps the reviewed candidate as a draft. The check of the cached
\* template does not reach the server.
SaveReviewed ==
    /\ pc = "review"
    /\ draft' = DraftOn(history[mem.shown], mem.candidate)
    /\ Finish
    /\ UNCHANGED <<source, history, others, lost>>

\* ExecuteProjectImport, published: not over a draft, and only onto the template
\* that was shown.
PublishImport ==
    /\ pc = "review"
    /\ mem.op = "importReviewed"
    /\ IF draft = None /\ mem.shown = Len(history)
       THEN Goto("put", [mem EXCEPT !.etag = mem.shown])
       ELSE Finish
    /\ UNCHANGED <<source, history, draft, others, lost>>

\* PublishProjectPromotion, up to the draft it publishes.
StagePromotion ==
    /\ pc = "review"
    /\ mem.op = "promoteReviewed"
    /\ IF mem.shown = Len(history)
       THEN /\ draft' = DraftOn(Latest, mem.candidate)
            /\ Goto("prepare", mem)
       ELSE /\ Finish
            /\ UNCHANGED draft
    /\ UNCHANGED <<source, history, others, lost>>

\* Mutant: what was prepared is published, whatever was shown.
PrepareAnything ==
    /\ pc = "prepare"
    /\ LET merged == MergeWithLatest(draft.base, draft.cfg, Latest)
       IN  IF ~Conflict(draft.base, draft.cfg, Latest) /\ merged # Latest
           THEN Goto("put", [mem EXCEPT !.candidate = merged, !.etag = Len(history)])
           ELSE Finish
    /\ UNCHANGED <<source, history, draft, others, lost>>

\* Its second half: PreparePublish reads the server once more, and the candidate
\* must be the one shown. A candidate without effect removes the draft.
PreparePromotion ==
    /\ pc = "prepare"
    /\ LET merged == MergeWithLatest(draft.base, draft.cfg, Latest)
           checked == IF merged # Latest THEN merged ELSE EmptyTemplate
           prepared == /\ ~Conflict(draft.base, draft.cfg, Latest)
                       /\ EnsureOpaqueValuesUnchanged(Latest, checked)
                       /\ merged = mem.publish
       IN  IF prepared /\ merged # Latest
           THEN /\ Goto("put", [mem EXCEPT !.candidate = merged, !.etag = Len(history)])
                /\ UNCHANGED draft
           ELSE /\ Finish
                /\ draft' = IF prepared THEN None ELSE draft
    /\ UNCHANGED <<source, history, others, lost>>

-----------------------------------------------------------------------------
\* Mutant: the update payload is not validated.
SendableAlways == TRUE

Sendable == ValidForUpdate(mem.candidate)

\* Mutant: the ETag is not sent.
AcceptAlways ==
    /\ pc = "put"
    /\ Sendable
    /\ history' = Append(history, mem.candidate)

Accept ==
    /\ pc = "put"
    /\ mem.etag = Len(history)
    /\ Sendable
    /\ history' = Append(history, mem.candidate)

\* The published draft of a reviewed promotion goes, unless its removal fails.
Put ==
    /\ Accept
    /\ Finish
    /\ draft' \in IF mem.op = "promoteReviewed" THEN {None, draft} ELSE {draft}
    /\ UNCHANGED <<source, others, lost>>

\* The answer is lost, the transport sends the update again and the server
\* refuses the old ETag.
PutAnswerLost ==
    /\ lost < MaxLost
    /\ Accept
    /\ IF mem.op = "promote" THEN Goto("read", mem) ELSE Finish
    /\ lost' = lost + 1
    /\ UNCHANGED <<source, draft, others>>

\* A template Firebase does not accept ends the operation; so does a conflict,
\* but the promotion command starts another round.
PutRefused ==
    /\ pc = "put"
    /\ \/ ~Sendable /\ Finish
       \/ /\ Sendable /\ mem.etag # Len(history)
          /\ IF mem.op = "promote" THEN Goto("read", mem) ELSE Finish
    /\ UNCHANGED <<source, history, draft, others, lost>>

\* The user cancels, a request fails, or the process dies.
Stop ==
    /\ pc \notin {"idle", "done"}
    /\ Finish
    /\ UNCHANGED <<source, history, draft, others, lost>>

OthersPublish ==
    /\ others < MaxOthers
    /\ pc # "done"
    /\ \E cfg \in Targets \ {Latest} : history' = Append(history, cfg)
    /\ others' = others + 1
    /\ UNCHANGED <<source, draft, pc, mem, lost>>

Next ==
    \/ BeginPromote \/ ReadTarget
    \/ BeginImport \/ ImportToDraft
    \/ ReviewPromotion \/ ReviewImport
    \/ SaveReviewed \/ PublishImport \/ StagePromotion \/ PreparePromotion
    \/ Put \/ PutAnswerLost \/ PutRefused
    \/ Stop
    \/ OthersPublish

Spec == Init /\ [][Next]_vars

-----------------------------------------------------------------------------
\* Type invariant: every template held anywhere is well-formed, one on the
\* server also has one home per parameter (promote.Apply, importer.merge and
\* the check of the update payload together).
TypeOK ==
    /\ source \in Sources
    /\ \A v \in DOMAIN history : history[v] \in RemoteConfigs /\ OneHome(history[v])
    /\ draft # None => \A cfg \in {draft.base, draft.cfg} : cfg \in RemoteConfigs /\ WellFormed(cfg)
    /\ pc \in Labels
    /\ mem.op \in Ops \cup {None}
    /\ \A cfg \in {mem.current, mem.candidate, mem.publish} \ {None} : cfg \in RemoteConfigs /\ WellFormed(cfg)
    /\ {mem.etag, mem.shown} \subseteq 0..Len(history)
    /\ pc \in {"put", "review"} => None \notin {mem.current, mem.candidate}
    /\ mem.op = "promoteReviewed" => mem.publish # None
    /\ pc = "review" => mem.shown \in DOMAIN history
    /\ others \in 0..MaxOthers
    /\ lost \in 0..MaxLost

\* A candidate of a promotion and the template the selection was applied to.
Promoting == \/ pc = "put" /\ mem.op = "promote"
             \/ pc = "review" /\ mem.op = "promoteReviewed"
Importing == pc \in {"put", "review"} /\ mem.op \in {"import", "importReviewed"}

Closed == WithDependencies(source, mem.current, mem.choice, mem.prune)

\* What was selected arrives as the source has it: the parameter at its place,
\* nowhere else, with every conditional value; and, unless the target came to have
\* just that parameter after it was selected, with the definitions behind the
\* values and the description of its group.
SelectedArrive ==
    Promoting => \A s \in mem.choice.slots : source.slots[s] # None =>
        /\ mem.candidate.slots[s] = source.slots[s]
        /\ Homes(mem.candidate, s[2]) = {s[1]}
        /\ mem.current.slots[s] # source.slots[s] =>
              /\ \A c \in Conds : source.slots[s].cond[c] # None => mem.candidate.exprs[c] = source.exprs[c]
              /\ s[1] \in Groups => mem.candidate.groups[s[1]] = source.groups[s[1]]

\* The rest stays as the target has it: parameters nobody selected keep their
\* place and values, except values of conditions pruned with them, and so do
\* groups and conditions that nothing selected needs.
RestUntouched ==
    Promoting =>
        /\ \A s \in Slots : (mem.current.slots[s] # None /\ \A x \in mem.choice.slots : x[2] # s[2]) =>
              mem.candidate.slots[s] = StripUnknown(mem.current.slots[s], Defined(mem.candidate))
        /\ \A g \in Groups \ Closed.groups : mem.candidate.groups[g] = mem.current.groups[g]
        /\ \A c \in Conds \ Closed.conds : mem.candidate.exprs[c] = mem.current.exprs[c]

\* A promotion is the selection and nothing else.
PromotionIsItemwise == SelectedArrive /\ RestUntouched

\* Evaluation order: conditions that were not selected keep their order, and
\* wherever those that the source has too stand as in the source, the selected
\* ones join them in the source's order.
OrderFollowsSource ==
    Promoting =>
        LET unselected == (Defined(mem.current) \cap Defined(mem.candidate)) \ Closed.conds
            followsSource(order, kept) == Kept(order, kept) = Kept(source.order, kept)
        IN  /\ Kept(mem.candidate.order, unselected) = Kept(mem.current.order, unselected)
            /\ followsSource(mem.current.order, unselected \cap Defined(source)) =>
                  followsSource(mem.candidate.order, Defined(mem.candidate) \cap Defined(source))

\* Promoting the same selection onto the result changes nothing, so a round
\* after a lost answer ends instead of publishing again.
PromotionRepeats ==
    Promoting => Apply(source, mem.candidate, mem.choice, mem.prune) = mem.candidate

\* A merging import adds what the current template lacks, takes the import's side
\* of the conflicts resolved that way and the current side of the others; the
\* only things it takes away are conditions no value uses.
ImportResolves ==
    (Importing /\ mem.choice.merge /\ HasContent(mem.current)) =>
        LET imported == Transform(source, mem.choice)
            resolved(mine, other, theirs) == IF mine = None \/ (theirs /\ other # None) THEN other ELSE mine
            used == UsedConditions(mem.candidate)
        IN  /\ \A s \in Slots : mem.candidate.slots[s] =
                  resolved(mem.current.slots[s], imported.slots[s], s \in mem.choice.theirs.slots)
            /\ \A c \in Conds : mem.candidate.exprs[c] =
                  IF c \notin used THEN None
                  ELSE resolved(mem.current.exprs[c], imported.exprs[c], c \in mem.choice.theirs.conds)
            /\ Kept(mem.candidate.order, Defined(mem.current)) = Kept(mem.current.order, used)

\* Importing the same file with the same answers onto the result changes nothing.
ImportRepeats == Importing => Import(mem.candidate, source, mem.choice) = mem.candidate

\* Both can be run again after an answer was lost or a run was broken off.
TransferRepeats == PromotionRepeats /\ ImportRepeats

Ours == history' # history /\ others' = others

MadeOfReplaced ==
    CASE mem.op = "promote" -> Latest' = Apply(source, Latest, mem.choice, mem.prune)
      [] mem.op = "import" -> Latest' = Import(Latest, source, mem.choice)
      [] mem.op = "importReviewed" -> Latest' = Import(Latest, source, mem.choice)
      [] mem.op = "promoteReviewed" -> Latest' = MergeWithLatest(draft.base, draft.cfg, Latest)

\* Every accepted write is what its operation makes of the very template it
\* replaces, although the target changes between selection, review and update.
AcceptedIsExact == [][ Ours => MadeOfReplaced ]_vars

Tells(current, final) == IsReading(final, current, RenderResult(CompareRemoteConfigs(current, final)))

\* The previews the user is asked about tell everything: read against the template
\* it was made on, a preview gives the candidate back, every value and its place,
\* every group description and condition, and the position of every condition
\* that was there before. A reviewed promotion also shows what publishing will change.
PreviewTellsAll ==
    /\ (Promoting \/ Importing) => Tells(mem.current, mem.candidate)
    /\ (Promoting /\ pc = "review") => Tells(history[mem.shown], mem.publish)

\* What a review showed is what is published, whatever was published between
\* the review and the update: the diff is computed on a cached template, the
\* publication prepared on the server's.
ReviewedAsShown ==
    /\ mem.op = "importReviewed" => Latest' = Import(history[mem.shown], source, mem.choice)
    /\ mem.op = "promoteReviewed" => Latest' = mem.publish

\* The reviewed operations never add, drop or relocate a Firebase-managed value.
ReviewedKeepManaged ==
    mem.op \in {"promoteReviewed", "importReviewed"} => OpaqueIn(Latest') = OpaqueIn(Latest)

\* A reviewed operation publishes what was reviewed, and lets managed values be.
ReviewedIsSafe == [][ Ours => ReviewedAsShown /\ ReviewedKeepManaged ]_vars

\* docs/CLI.md says this of imports and promotions in general.
ManagedValuesGuarded == [][ Ours => OpaqueIn(Latest') = OpaqueIn(Latest) ]_vars
=============================================================================
