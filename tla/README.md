# fbrcm: models of the publication of Remote Config templates

`fbrcm` edits Firebase Remote Config templates: a user edits a local *draft*,
other people edit the same template in the Firebase console, and fbrcm merges
the draft with the current template, shows the result and publishes it under the
ETag it fetched. The modules here model the template operations, the three-way
merge and the pipeline of processes, files and network calls around a draft, and the
other ways a template is published or read: the cache, sealed plans, rollback and
restore, promotion and import, the HTTP transport, and the MCP server that runs
operations for agents. Paths are relative to the repository (`src/` here).

Every definition that stands for code is translated from the Go source;
`PROJECT.json` ("map") gives the lines of each.

## 1. Inventory

| Component | State | Operations | Talks to |
|---|---|---|---|
| Template representation, `core/rc/mutate` | the template: parameters of the root and of groups, conditions in evaluation order | set/remove a slot, drop conditional values without a condition, gate on Firebase-managed ("opaque") values | called by every mutation and by the merge |
| Template mutations, `core/draft/slots*.go`, `core/groups`, `core/conditions` | none (pure) | create, rename, move, duplicate, delete a parameter; set or delete its values; add, edit, rename, move, delete a group or condition | `BuildMutatedRemoteConfig` parses, mutates, cleans up and checks |
| Draft merge, `core/draft/merge.go` | none (pure) | `MergeWithLatest(base, draft, latest)`: slots, then groups, conditions, cleanup; conflicts | pipeline |
| Draft storage, `core/config/drafts.go`, `core/draft/storage.go` | one JSON file per target: base template, version and ETag, the draft, note, `CreatedAt`, `UpdatedAt` | load, save (an existing draft keeps its base), save rebased, set note, delete; no lock | pipeline, cache |
| Draft pipeline, `core/draft/pipeline.go` | in memory: plan (record, latest, candidate) | `Mutate`, `PreparePublish`, `ExecutePublish`, `RefreshDraftAware` | storage, cache, Remote Config client |
| Immediate publication loop, `ops/shared/rc` | report per target | `RunRemoteDraftLoop`, `RunRemotePublishLoop` | cache, client, drafts |
| Front ends of draft publication, `ops/workflows/draft`, `tui/app/draft_publish_batch.go` | the confirmation | prepare, preview, confirm, note, execute | pipeline |
| Remote Config client, `core/remote_config.go`, `core/firebase` | none | GET with ETag, validate, PUT with If-Match, replay by the transport, hooks around the PUT | Firebase |
| Parameters cache, `core/parameters_cache.go`, `core/config/parameters.go` | a snapshot file per version, a link to the current one | get (a fresh cache answers), revalidate, save after publication, read a historical version, delete | everything that reads |
| Request controller, `core/firebase/request_controller.go` | pace and cooldown per key, a pool of slots for all keys | wait, acquire, release, retry, record a rate limit | every HTTP client |
| MCP server, `mcp/server` | pending operations, their questions and answers, the gate of executions | start, continue, answer, cancel, expire, close | the workflows below |
| Publication plans, `core/rc/publication`, `ops/workflows/{plan,apply}` | a sealed plan: per target base version, digest, candidate, fingerprint of the draft | preflight, confirm, validate, publish, clean up, target by target | client, drafts |
| Hooks, `core/hooks` | none | validate, pre- and post-publish commands | client |
| Version history, `core/version_history.go` | none | list, show, restore, roll back | client, snapshots, drafts |
| Promotion and import, `core/rc/{diff,promote,importer}`, `ops/workflows/projects`, `core/project_{promotion,import}.go` | none; the TUI holds a reviewed plan | compare and preview, select, close under dependencies, apply, transform, merge with a strategy, publish | drafts, client, cache |
| Profiles, projects, authentication, filters, TUI, command line | configuration files, tokens, screens | ... | the above |

The interactions that matter: commands and the TUI of one profile share the
draft file and the cache with no lock between them; a long-running TUI refreshes
in the background; Firebase is shared with people who do not use fbrcm. The only
optimistic locks are the ETag of the PUT and the comparison of `UpdatedAt` in
`ExecutePublish` (and its counterpart in the clean-up of plans); a rollback uses neither.

### What is hard, and what makes each part correct

* **Merge.** Changes of both sides are kept item by item; a conflict is reported
  exactly for items both sides changed differently; merging with the unchanged
  base is the identity; merging again after publication changes nothing;
  condition order (priority) is someone's order; no value refers to a condition
  that is gone; a merge of a stale draft brings back, moves and copies no
  managed value.
* **Mutations.** No operation produces a template Firebase refuses: one home per
  parameter, no dangling condition; groups disappear only when asked for.
* **Pipeline.** What is sent is the merge of the draft with the version whose ETag
  is sent; it is what was confirmed; it contains nothing nobody edited; a retry
  after a crash or a lost answer creates no second version; a draft disappears
  only when applied or discarded; its base never goes back.
* **Cache.** There is a readable cache at every instant, also after a crash between the
  removal and the creation of the pointer; what is served as fresh was the latest version
  not longer ago than its age says; readers converge to the latest version.
* **Request controller.** Slots are given back exactly once; a retry keeps the longest
  delay it was told; only requests already past their wait go out during a cooldown;
  every request ends.
* **MCP server.** A mutation runs only with the approval of that very operation; an answer is
  read by the question it was given to; executions take turns; calls return, places become
  free and Close ends although users leave questions open.
* **Plans.** A plan is published over the versions it was made from, each candidate
  once, and nothing of it if any target changed; overlapping, interrupted and repeated runs
  together do what one run does; the report is true; drafts go only with their candidate.
* **Rollback and restore.** What comes back is the chosen version; what is overwritten was
  shown or raced in after the last check; the report names the right versions.
* **Promotion and import.** Exactly what was selected arrives, in the order of the source;
  the rest stays; a repetition changes nothing; a preview leaves out no change; what was reviewed is what is published.

`PROJECT.json` ("hazards") lists where in the code each of these can go wrong.

## 2. Plan

1. `RemoteConfig`, `TemplateEdits`, `DraftMerge` (operators), `DraftEditing` (the
   machine that composes them), `DraftEditingProofs`. *Done.*
2. `DraftPipeline` with the abstract specification `TemplateRegister` and
   `DraftPipelineProofs`. *Done.*
3. `ParametersCache`, `ParametersCacheProofs`: the files behind the one variable `cache`
   of `DraftPipeline`. *Done.*
4. `RequestController`, `RequestControllerProofs`. *Done.*
5. `McpServer`, `McpServerProofs`. *Done.*
6. `PlanApply`, `PlanApplyProofs`; `VersionHistory`, `VersionHistoryProofs`. *Done.*
7. `TemplateDiff` and `TemplateTransfer` (operators of comparison, promotion and import), `ProjectTransfer` (the machine),
   `ProjectTransferProofs`. *Done.*
8. Open: batches of the immediate loop, dry runs, the writing of plans; the order in which
   results of background operations reach the TUI.

## 3. Modules

| Module | Stands for | Composes |
|---|---|---|
| `RemoteConfig` | the template and `core/rc/mutate`: slots, cleanup, managed values, the check of the update payload | |
| `TemplateEdits` | each mutation as the set of templates it can produce, over all accepted arguments; `BuildMutatedRemoteConfig` | `RemoteConfig` |
| `DraftMerge` | `MergeWithLatest` | `RemoteConfig` |
| `DraftEditing` | one draft, the server and other users; steps are atomic | the two above |
| `DraftPipeline` | processes, draft file, cache and server; one step per file or network operation; templates are opaque | implements `TemplateRegister`; with `DraftMerge` and one edit in its instance |
| `TemplateRegister` | what publication promises, abstractly | |
| `ParametersCache` | the cache files of a target and the processes on them | |
| `RequestController` | `RoundTrip` and the controller it shares | |
| `McpServer` | tool calls, operations, questions and the gate | |
| `PlanApply` | runs of `fbrcm apply` on one plan | |
| `VersionHistory` | runs of rollback and restore | |
| `TemplateDiff` | `CompareRemoteConfigs` and the preview printed of it | `RemoteConfig` |
| `TemplateTransfer` | `promote.Apply`, the importer, the selection | `TemplateDiff`, `DraftMerge` |
| `ProjectTransfer` | one promotion or import against a changing target | `TemplateTransfer` |
| `...Proofs` | the theorems of the module named | the module named |
| `MC...` | instances for TLC | |

### Templates

`slots` maps a place (a group or the root) and a parameter name to `None` or to the
parameter's values: a default and one value per condition. `groups` maps a group to its
description or `None`; `exprs` maps a condition to its definition or `None`, and
`order` lists the defined conditions by priority. Values are plain model values, the
in-app default, or *opaque* ones (rollouts, personalization, experiments),
which the code carries but never edits. Descriptions and value types of
parameters travel with their values; nil and empty maps are one value. Matching a
group's name without regard to case (`ResolveName`) and several value changes in
one dialog are abstracted to one name and one change.

An operator such as `MoveParameter(cfg)` is the set of results over all arguments
the code accepts. `BuildMutatedRemoteConfig(cfg, results)` applies what always
follows, the cleanup of conditional values and the gate on managed values, and
drops results the code rejects.

The merge is not symmetric: slots are merged first, then groups (deleting a
group takes its slots along), then conditions, then the cleanup.

### One draft (`DraftEditing`)

`latest` is the server's template, `draft` and `base` the record, `asked` (history
variable) the groups the user removed by a group operation. Local edits keep
the base of an existing draft; `Refresh` rebases as `RefreshDraftAware`; `PublishDraft` is
`PreparePublish` followed by `ExecutePublish`, with the deletion of the draft
possibly never reached. `RemotePublish` is an edit of somebody else, or Firebase taking over,
changing or giving back a managed value (`ManagedValueChanges`). Version numbers are left out
here: `Refresh` compares templates, so two versions with one template count as one.

### The pipeline (`DraftPipeline`)

`history` holds the server's templates by version; a version number stands for its
ETag and names its template for ever, so a draft's base is a version where the record stores
version, ETag and template. `cache` is the version the cache points to, `draft` the file,
`pc` and `mem` the place and the memory of each process. `Procs` are commands
of one profile, and also the goroutines of one TUI, which share the same files.

| Operation | Steps |
|---|---|
| edit by a command (`RunRemoteDraftLoop`) | `BeginEdit` (revalidate), `EditLoad`, `EditBase` (read the file or the cache for the base), `EditSave` |
| `Mutate(publish = false)`, the TUI's edit | `BeginMutate` (a fresh cache may answer), then as above with what was fetched as base |
| `draft publish`, TUI publication | `BeginPublish` (load), `PrepareFetch` (fetch and merge), `Confirm`/`Cancel`, `Recheck` (compare `UpdatedAt`), `Validate`, `Put`, `PostPublish` (cache and hook), `DeleteDraft` |
| `draft publish --change-note` ("republish") | as above, but after `Confirm`: `NoteSave`, `PrepareLoad`, `PrepareFetch`, `Recheck` |
| `Mutate(publish = true)` | `BeginMutate`, `EditLoad`, and with a draft `MutateReload`, `MutateFetch`; then `Validate`... |
| immediate write | `DirectGuard` (no draft), `DirectFetch`, `Validate`, `Put`, `PostPublish` |
| refresh | `BeginRefresh` (fetch), `RefreshLoad` (merge), `RefreshSave` or `DeleteDraft` |
| note, discard | `BeginNote`, `NoteSave`; `Discard` |

A network error, a refused validation or a failed hook before acceptance ends the
operation with nothing changed, as `Crash` does. After acceptance they are `PostPublishFails` and
`DeleteDraftFails`. `PutAnswerLost`: the update was accepted, its answer lost, and
the transport sends it again with the old ETag, which `Put` then refuses. `MutateReload` and the TUI's
note in `Recheck` take the load and save of `SetChangeNote` as one step; `NoteSave` splits
them. `UpdatedAt` is a counter: two saves are assumed to get different times.
`touched` and `log` are history variables. `log` records, for each version, what was asked; `checked`
the clock at the recheck.

### The cache (`ParametersCache`)

`snaps` holds the age of each snapshot file, `pointer` the link, a file in its place, or
nothing; a step is one file or network operation, so other processes and crashes come between the removal and
the creation of the link (`Unlink`, `MakeLink`). `CopyPointer` is the fallback of a refused
link, which puts a copy of the template in its place; a file does not count as a pointer as long as there
is any snapshot. Version 0 is the template before the first publication: it has no number and lives in the
pointer file. Instants are ages in ticks up to the time to live; no tick comes between a request and the
writes that follow it, so a tick stands for more time than those take.
`lapse` (ticks since a version ceased to be the latest) and `torn` (the cache was deleted under another
operation) are history variables.

| Operation | Steps |
|---|---|
| get, revalidate | `BeginRead` (follow the link), `ReadNewest` (no link: the directory), `ListLatest`, `Fetch`, then save |
| publish with a cache save | `Publish`, then save |
| save | `WriteSnapshot`, `Unlink`, `MakeLink` or `CopyPointer`; without a number `UnlinkLegacy`, `WriteLegacy` |
| historical read | `BeginHistory`, `HistoryFetch`, `HistoryWrite` |
| delete | `BeginDelete`, `DeleteSnapshot` file by file and the pointer |

### The transport (`RequestController`)

Each request goes through `Wait` (pace and cooldown of its key), `Acquire`, the flight, `Release`, and
then `RecordRateLimit` or `RecordAnswer`, which decide between the next attempt, a sleep and the end; `Cancel` ends
its context at any place. `nextAllowed`, `cooldown` and the sleeping time are kept as the ticks left.
`owed` is the time until the end of every delay a request was told, `early` the requests past their wait when a
cooldown began (history variables).

### The MCP server (`McpServer`)

`op` holds an operation's goroutine (its phase, context, question number, pending question, reply,
event and result), `call` the tool calls outstanding, `jobs` the keys that can be continued, `gate` the
operation executing. `interactionGate` makes questions of one operation follow each other, so a question is its
number. `StartOperation` and `ContinueOperation` are the two forms of a call, `Look` takes an answer from a
continuation, `Wait`, `TakeEvent`, `ReturnResult` and `CancelCall` are the select of the call; `Ask`, `Push`, `Answered`,
`GiveUp` the steps of `ask`; `EnterGate`, `AskToSignIn`, `Executed`, `ReleaseGate`, `Unregister`, `CloseDone` those of `run`;
`Expire` and `RequestTimeout` the timers; `BeginClose` and `EndClose` the two halves of `Close`. `shown` and `said` are
history variables: what the client was shown and what it answered.

### Plans (`PlanApply`)

A run is `Begin`, `Preflight` target by target, `EndPreflight` (refuse if any is stale, remove drafts of those
already applied), `Confirm`, `Validate` all, `Publish` one after the other, `CleanLoad` and `CleanDelete`, `Report`.
A draft is its `UpdatedAt`, which is what the clean-up compares with the plan's fingerprint.
`PublishAnswerLost` is an accepted write whose replay is refused; `PublishedWithFailure` a failed cache write or hook.
`log`, `begun`, `wrote`, `lost` and `checked` are history variables.

### Rollback and restore (`VersionHistory`)

`ReadSource`, `ReadCurrent`, `Compare`, `Confirm`, `Recheck`, `Export`, `ReadAgain` (the core reads the version
and the current template again), `Validate`, `Post`, `Finish`. Rollback posts a number without an ETag, restore puts
the template with one; the TUI reads the current template before the source and the command after it. `retained` is the oldest version
Firebase still has, `snaps` the local snapshots; a version must be in one of them to be read. Each version of `history` carries what its
writer knew: asked, source, shown, final, base.

### Promotion and import (`TemplateDiff`, `TemplateTransfer`, `ProjectTransfer`)

`CompareRemoteConfigs` is the diff: conditions with their positions, group descriptions, parameters with the place they left and the one
they came to. `RenderResult` is what is printed of it, `IsReading` what a reader can conclude from the print. The diff decides whether there is anything
to do (`Differ`), and `Items` are the changes it offers for selection; `WithDependencies` closes a selection (conditions and group
of a parameter), `Apply` applies it, inserting conditions by the order of the source; `Transform` and `MergeImport` are the importer.
The command line reads, applies and puts, and on a refused ETag starts again with the same selection
(`ReadTarget`, `Put`, `PutAnswerLost`, `PutRefused`); the TUI shows a review on the cached template, then stages a draft and publishes it if
that still gives what was shown (`mem.publish`;
`ReviewPromotion`, `StagePromotion`, `PreparePromotion`) or prepares the import (`ReviewImport`, `SaveReviewed`,
`PublishImport`).

## 4. What the runs show

State counts are distinct states; every run ends within three minutes with two workers.

| Run | Bounds | Shows |
|---|---|---|
| `draft_groups` (105k) | 2 parameters, 2 groups, root; 2 plain values, 1 managed; 2 local edits, 1 remote | the merge keeps both sides item by item; a parameter in two places never reaches the server, and only arises when both sides put it somewhere new; groups go only by request; a retry finds the candidate applied |
| `draft_conditions` (1.2M) | 1 parameter, 1 group, 2 conditions, 2 expressions; 2 local edits, 2 remote ones or starts, changes and ends of a managed value | the same of conditional values; no dangling value; order is one side's; a merge brings back, moves and copies no managed value |
| `pipeline_one` (86k) | 1 process, every operation but republish; 2 edits, 1 write of others, 1 fault | intent, preview, no loss, no version twice, and that a draft its user keeps publishing is resolved |
| `pipeline_mixed` (1.6M) | 2 processes, edit, publish, republish, mutate-and-publish, direct, refresh; 2/1/0 | the register: publication stays a merge while the draft is rebased and rewritten under the publisher; a lost edit was saved after the recheck |
| `parameters_cache` (1.9M) | 2 processes, every operation; 2 versions, time to live of 2 ticks, 2 historical reads or deletions, 1 crash | the cache survives, is not older than it looks, and converges |
| `mcp_server` (550k) | 2 operations, one with up to two questions; 2 calls, 2 places | consent, matching answers, everything ends |
| `plan_apply` (1.3M) | 2 targets, one with a draft; 2 runs, repeated at will; 1 write of others, 1 draft edit, 1 fault | the plan's base, all or nothing, the report, the drafts, and that repetition completes the plan |
| `version_history` (3.6M) | 2 users, 2 versions to begin with, no run from the third on, 1 write of others, 1 fault | what comes back, what it replaces, what is reported |
| `request_controller` (360k) | 3 requests, 2 keys, 1 slot, 2 attempts, Retry-After of 1 or 2 ticks, 1 request cancelable | delays are kept, every request ends |
| `project_transfer` (1.5M) | 2 parameters, 1 group, 3 conditions in different orders; every selection and every import choice; 2 writes of others, 1 lost answer | the selection arrives exactly, also after a refused round; repetition; previews; reviews |

Invariants that are proved (section 6) are repeated in a run where they are about a hazard of it; the
type invariants and auxiliary invariants that are proved are not, except `TypeOK` where a run makes templates (`draft_groups`, `project_transfer`).

**Why the bounds are enough.** Each hazard of the merge needs one change per side and item,
and one more local edit to act on a changed draft; the seeds are one step away from every clash
(a free name next to a used one, a group absent, two conditions out of sorted order, a managed
value on a condition). Conflicts of values need a third value for one item:
`pipeline_mixed` has two values, so conflicts cannot arise there but all
interleavings happen; `pipeline_one` has three. In the pipeline, the cache, plans and rollbacks two writers and one other
user are enough for the stale reads the code has (one read, one intervening write); a
retry needs one fault. The cache needs two versions for an older and a newer one, and two ticks for an
age between fresh and expired. Two operations and two calls are what it takes for a repeated continuation and for waiting at the
gate; a start refused because all places (64 in the code) are taken changes nothing and would need a third operation: what matters of
the limit, that every place becomes free again, is `Settles`. Three requests of two keys with one slot make a request of one key wait for another key's and two
of one key share a cooldown. Order by insertion needs three conditions: one selected between two that
stay. Processes are symmetric in `pipeline_mixed`; no symmetry where liveness is checked.
`CHECK_DEADLOCK FALSE`: at the bounds, with nothing left to do, these systems do stop.

**Fairness** is stated in the `FairSpec` of each module with a liveness property, and nowhere asks of the environment what the
code cannot count on:

* pipeline and plans: weak fairness of a running operation's own steps (a process runs on unless it crashes; crashes are
  bounded), and strong fairness of starting and confirming. The latter says the user keeps rerunning and
  confirming; the code starts nothing by itself, and the documentation tells the user to rerun. A draft may also end in a
  conflict, which the user must resolve, a plan in staleness by somebody else's write.
* cache: operations run on, time passes, somebody keeps reading.
* MCP server: goroutines run on, timers fire. Nobody has to answer a question, continue an operation or close.
* request controller: time passes, every request is answered or breaks off (the client has a timeout), and a channel serves
  its waiting senders in turn, hence strong fairness of `Acquire`.

## 5. Where code and documentation disagree

Two runs must fail, each with one property.

| Run | Disagreement |
|---|---|
| `candidate_shown` | `draft publish --change-note` prepares again after the confirmation and publishes that candidate unseen |
| `promotion_managed` | `projects promote` and `project import` publish without the check of managed values that docs/CLI.md:2182 claims for imports and promotions, and that the TUI makes |

Further disagreements met while modelling, each visible as a counterexample to the obvious stronger property:

* **Edits after the recheck.** `ExecutePublish` (core/draft/pipeline.go:317) deletes an edit saved between its comparison and
  the deletion (docs/CLI.md:1171). `LostOnlyAfterRecheck` states what holds. A refresh holding an older template than the draft's base does the same
  when it finds nothing to change.
* **Base of a new draft.** A new draft takes the cache at saving time as its base (core/draft/storage.go:58), not the template
  it was built on, so publishing it can revert someone's change (docs/site/guide/mental-model.md:79). With one process this cannot
  happen, which `OnlyIntendedChanges` checks.
* **Base goes back.** Overlapping refreshes put a draft back onto an older base (core/draft/pipeline.go:390; core/config/drafts.go:18), and
  bring back one that was discarded meanwhile.
* **Retry after the cleanup.** A candidate that lost a conditional value to the cleanup (core/draft/merge.go:61) is not
  recognised as applied when publication is rerun (docs/CLI.md:1171); `RetryIsIdempotent` excludes that case.
* **Redundant draft with managed values.** A draft that became redundant can be neither published nor cleaned up if the server holds a managed
  value (core/draft/pipeline.go:238; docs/CLI.md:1888): the missing candidate is compared as an empty template.
* **Historical read without a pointer.** With no pointer, a historical version just read is the newest snapshot and counts as current and fresh for ten
  minutes (core/config/parameters.go:98, docs/CLI.md:2335). `FreshWasLatest` therefore speaks of linked snapshots.
* **Lost answer of a plan.** An accepted publication whose answer was lost is reported as `conflict` and not counted
  (ops/workflows/apply/commands.go:233, docs/CLI.md:1372). `ReportIsTrue` excludes lost answers.
* **Pacing.** Requests wait for their pace before they queue for a slot (core/firebase/http_client.go:66), so they may leave in
  bursts (docs/CLI.md:467).

Behaviour the documentation leaves open, worth knowing:

* A refresh does not compare managed values (core/draft/pipeline.go:368). If Firebase takes over a value in a group or of a condition the draft deleted, the rebased
  draft lacks it without a word, and its publication is refused from then on; `ManagedValuesFollowLatest` says that a merge loses a managed value in no other way.
* Deleting or renaming a group in a draft also drops what others put into the group meanwhile; `MergeIsItemwise` says so.
* A restore fetches its ETag after the recheck, so a write in between is replaced unseen; a rollback has no ETag at all, and one
  whose answer was lost is sent again and rolls back twice. `SeenOrRaced` states what holds. The version a rollback reports as previous need not be the one it replaced.
* An import merges by group and name (ops/workflows/project/import, core/rc/importer/plan.go; its test for another group is never true), so a
  parameter that lives elsewhere gets a second home. Publication is refused by the check of the payload, `--draft` saves it.
* Pruning a parameter of a group only the target has takes the group's description along in the selection and clears it.
* A promotion applies the selection anew in every round, and computes what the selection brings along from the differences that are left. If the target came to
  have exactly the selected parameter meanwhile, its condition or group stays as the target has it (core/rc/promote/promote.go:165), although the user
  selected the parameter when the preview showed them coming. `SelectedArrive` makes the exception.
* The preview prints an added condition without its position, so the relative priority of added conditions is not shown, and an added
  parameter without its description and type (core/rc/diff/sections.go:15, core/rc/diff/params.go:58); blanks around a value are trimmed.
* A promotion whose answer was lost is tried again, finds no changes, and reports that nothing was published.

## 6. What is proved

Each `...Proofs` module proves its theorems for every value of the constants (any processes, templates, targets, requests, operations
and bounds), from the assumptions named in the module it extends. These say that constants have their
kinds, that `None` is none of the data, that bounds are naturals, that a plan names each target once, that a template has finitely many groups
(`GroupsAreFinite`) and that the server starts with templates Firebase accepted (`SeedsAreAccepted`; `TemplatesAreValid` says it of the source
and the targets of a transfer: one home per parameter, a value in each, and conditional values only of conditions the template defines; `DraftsAreTemplates`
says it, but for the single home, of the draft a target may already have, since every edit that saves a draft cleans up first). Except for `NothingUnintended`, the pipeline assumes nothing of what edits and merges
compute; what they compute is the subject of `DraftEditingProofs`.

| Module | Theorems |
|---|---|
| `DraftEditingProofs` | `DraftInvariant`; `TemplatesAreWellFormed`; `ReferencesResolve`; `HomesAreSingle`; `NothingIsLostInMerges`; `OrderIsNeverSorted`; `RetriesFindNothing`; `GroupsAreKept`; `ManagedValuesAreTheLatest` |
| `DraftPipelineProofs` | `TypeCorrect`; `CandidateCorrect` (what is about to be sent is the merge); `PublicationCorrect` (what was accepted was); `NoRedundantPublication`; `PipelineImplementsRegister` (`Spec => Register!Spec`); `FilesKnownHolds`; `EarlierEditsSurvive`; `ShownIsPublished` (nobody republishes); `NoDraftLost` and `NothingUnintended` (one process) |
| `ParametersCacheProofs` | `TypeCorrect`; `FreshCacheWasLatest`; `CachesSurvive`; `PointersMoveForward` |
| `McpServerProofs` | `TypeCorrect`; `MutationsNeedConsent`; `ExecutionsTakeTurns`; `AnswersReachTheirQuestion`; `QuestionsStayReachable` |
| `PlanApplyProofs` | `TypeCorrect`; `PlansReplaceTheirBase`; `StalePlansPublishNothing`; `StaleMeansOthersWrote`; `ReportsAreTrue`; `RemovedDraftsWerePublished` |
| `VersionHistoryProofs` | `TypeCorrect`; `NothingUnseenOverwritten`; `ChosenVersionReturns`; `NoPublicationWithoutDifference`; `RestoresReplaceTheirBase`; `ReportsAreTrue` |
| `ProjectTransferProofs` | `DiffersExactly`; `PreviewReads`; `TransferInvariant`; `TransferIsExact`; `ReviewIsKept`; `SelectionArrives`; `UnselectedStays`; `HeldInvariant`; `TemplatesStayWellFormed`; `PreviewsTellAll`; `PromotionsAreItemwise`; `OrderIsCarried`; `ImportsResolve`; `TransfersRepeat` |
| `RequestControllerProofs` | `TypeCorrect`; `SlotsCorrect` (for finitely many requests); `DelaysHonoured`; `CooldownsHold` |

`DraftEditingProofs` is about one actor and what it computes. `DInv` says that the server's template, the draft and its base are typed and resolved (each
conditional value is of a defined condition) and *shaped* (parameters live in groups that exist, the order lists each condition once), that every parameter has a
value, that the server's parameters have one home, and that a draft lacks a group of its base only if it was asked for.
It is needed because the merge takes values from three templates: its result is resolved only because the cleanup runs last, and it keeps a group only if the draft did.
Each mutation has a lemma on what it keeps (`Typed`, `KeepsGroups`, `SingleHomes`) for all arguments it accepts; `BuildMutatedRemoteConfig` and the merge have one each,
the merge slot by slot. A second home arises only through the merge, and the check of the payload keeps it off the server, which is why `SingleHomes` is claimed of
`latest` alone.

`ManagedValuesAreTheLatest` needs `ManagedInv`: a draft holds no managed value its base does not hold. It is not part of the property but what makes it inductive: an edit
leaves the managed values of what it works on as they are, and a refresh replaces the base by the latest template and the draft by a merge that, by the property itself,
holds no other managed value. So where the draft's side of a slot wins, its managed values are those of an unchanged base slot, hence of the latest one (`MergeManaged`).

What is said of the order rests on `Kept(order, kept)`, the filter that the code's loops over `conditions` are: a recursive function, since nothing can be proved of
`SelectSeq`. It is defined on all sequences by induction on their length (`CountUp`, `GrowSequence`), and lemmas say that it keeps a sequence of kept elements, drops the
others, keeps injectivity and distributes over concatenation. `OrderRestored` is the heart of `NothingIsLostInMerges` and `RetriesFindNothing`: a merged order, rebuilt from a template's own
order and the conditions it lacks, is that order again.

The first half of `ProjectTransferProofs` is about the diff, which finds parameters that moved by counting the slots a name left and came to: each
slot is in one change at most (`OneMove`, `OneChange`), every slot that differs is in one (`EveryChange`), so a reader finds for each slot either its line or the old value
(`PreviewReads`), and no change at all means equal templates (`DiffersExactly`), for which equal positions must give equal orders (`SameRanksSameOrder`).
Both ask for well-formed templates, which is what the invariant of the next part gives (`PreviewsTellAll`).

Its second part is about what a promotion moves. `ApplyFields` describes the result of `Apply` field by field, after the cleanup; `SelectionArrives` and `UnselectedStays` follow for
any two templates. To use them every template at hand has to be *clean* (well-formed, conditional values only of conditions it defines, a value in each parameter), which needs a lemma
for each operator that makes templates (`ApplyFields`, `ImportSound`, `MergeSound`); and the target has to have single homes, or the selection to be made of this very target: a round of
`projects promote` reads a version of the server, which is so by the check of the payload; a review uses the template it selected on, which may be a draft and need not be. `KInv` says
so of everything held, per label (`Held`, `Made`); it is inductive relative to `TInv`, and `TemplatesStayWellFormed` and `PromotionsAreItemwise` follow.

Its third part is about orders. `InsertCuts` says where one insertion puts a condition, in terms of who comes next to whom (`Adjacent`) and before whom (`Before`);
`InsertAllShape` and `InsertAllFollows` lift it to all that arrive, and two orders of the same conditions that both follow the source are equal (`SameOrder`): hence `OrderIsCarried`.
`ImportsResolve` is the effect of `Transform`, `MergeImport` and `Cleanup` on each slot, definition and the order.

Its last part is `TransfersRepeat`. A second import finds a template without unused conditions (`Pruned`), which `Cleanup` and the merge leave alone. A second promotion
has three things to find unchanged. Its selection is no longer an item (`NothingLeftToSelect`): what was to arrive arrived, and what was to be removed is gone, or was the old
home of a parameter that moved and is still seen to move. So it brings no dependencies, and the definitions and groups it names are as it wants them. And the conditions it takes
out and inserts again come back to where they were, in spite of conditions of the target around them: the conditions that arrived *have settled* (`Settled`: each stands right before the next later one of the source, or behind
the previous one when all the later ones arrived too), insertion in the order of the source makes them so (`InsertedIsSettled`), taking one out keeps the others so
(`SettledRemove`), and one that has settled is put back in its place (`SettledReinsert`, `PutBack`).

The other modules follow one argument. None of the properties is inductive alone, since what a process writes next depends on what it
remembers; so the invariant `Inv` says of the shared state what the property needs (`WorldOK`, `HistoryOK`, `QuestionFits`), and of each process, **per
label**, what its memory knows of that state (`MemOK`, `ProcOK`, `OwedBy`). These predicates take the state as arguments and speak of no other process. A lemma
shows that changes by others keep them (appending to a history, ageing, saving a draft with a later time), so the proof of an action has two parts: the
acting process gets a memory fit for its next label, and the others keep theirs. One lemma per action, `StepInv` by the disjuncts of `Next`,
and PTL for the rest. What each strengthening is for:

* **Pipeline.** `PublishedIsMerge` needs what a process is about to send, hence `CandidateIsMerge`, which needs that the
  versions it names exist; that a process past the recheck holds a candidate different from the version it names gives
  `NoRedundantVersion`. The accepted write, `PutAnswerLost` included, uses the ETag guard of `Accept`. For the refinement, an accepted write of
  a draft is `MergeDraft`, any other accepted write `Edit`, every other step stutters.
  `FilesKnown` adds what a process knows of the draft file: no two records have one time, so the file is the one compared until somebody saves with a
  later one; hence `EarlierEditsSurvive`. With one process nobody else saves, and the file is what was loaded, or was rebased to (`Alone`, hence `NoDraftLost`); that every difference
  between what a process holds and the base it names was edited is `Intended`. `NothingUnintended` asks two things of the
  data, named `ItemsAreDifferences` and `MergeAddsItsDraft`, which TLC evaluates for the templates and the merge of the runs: the second
  is not true of a draft that deletes a group others fill meanwhile (section 5). Both theorems are about one process because with two they are false, as section 5
  says: an edit after the recheck is lost, and a new draft may name a base it was not made on.
* **Cache.** The age of what a process is about to write is compared with the lapse of its version; between `Unlink` and `MakeLink` the process
  keeps a snapshot that the loader falls back to; the version it links is not below the one loaded at its start.
* **MCP server.** The approval question is the first question of an operation, so its answer is recorded under 1; only the
  current question is pending once it was sent; whoever executes holds the gate.
* **Plans.** A version of the plan is version 2 and the candidate; a run past its preflight knows that every target not stale was at its base or applied at some time since it
  began; what it counted it wrote.
* **Versions.** The ETag of a restore is the version it was validated against, so the version appended is its successor.
* **Promotion and import.** `TInv` says, per label, how what is held relates to the version it names: what is sent was made of the version whose ETag is sent, what is
  reviewed of the version shown, with managed values equal. A write by others appends and changes neither.
* **Requests.** A delay is honoured because whoever owes one sleeps, or waits for a cooldown, at least as long.

**Only model-checked**: all liveness (`DraftResolves`, `Converges`, `Settles`, `Applies`, `Ends`), since liveness under fairness and ENABLED are out of
the reach of the prover. Every invariant and every safety property of steps that a passing run checks is proved,
`NoDraftLost` and `NothingUnintended` for one process, which is how `pipeline_one` checks them.

## 7. What is not modelled

* Batches over several targets in the immediate loop and in draft publication, dry runs of the pipeline and the stateless mode. Dry runs of plans and
  rollbacks are modelled.
* Writing and inspecting plans: digests are equality of templates, the environment check is a possible end of a run.
* Hooks beyond their outcome; listing and comparing versions, which only read; restore plans.
* Pruning of the cache over all targets and unreadable cache files.
* Configuration files, the conversation of a sign-in (the MCP server's question about it is modelled), JSON, filters and
  search expressions (sets of names here), command-line parsing, schemas, rendering and key handling: they hold no state of
  publication. The order in which results of background operations reach the TUI is the one concurrent part among them that is left.

`PROJECT.json` ("components") gives the status of each.
