---------------------------- MODULE DraftPipeline ----------------------------
(***************************************************************************)
(* The draft pipeline of one target: fbrcm processes sharing the draft     *)
(* file and the parameters cache of a profile, and a Firebase server that  *)
(* other users write to.  One step is one file or network operation, so    *)
(* the processes interleave where the code can be interleaved.             *)
(*                                                                         *)
(* Templates are opaque: what a mutation can produce (Edits), the merge    *)
(* and its conflicts are parameters, bound to TemplateEdits and DraftMerge *)
(* for model checking.  A version number names a template for ever and is  *)
(* its ETag too, so a draft's base is a version here where the record      *)
(* stores the version, the ETag and the template.                          *)
(***************************************************************************)
EXTENDS Integers, Sequences

CONSTANTS
    Procs,                  \* fbrcm processes of one profile
    Templates,
    None,
    FirstTemplate,          \* version 1 of the server
    Edits(_),               \* templates a mutation of a template can produce
    Items(_, _),            \* what differs between two templates
    MergeConflict(_, _, _), \* base, draft, latest
    Merge(_, _, _),         \* base, draft, latest
    Ops,                    \* operations the processes use
    MaxEdits,               \* bound on operations that write something new
    MaxConsole,             \* bound on writes of other users
    MaxFaults               \* bound on crashes, lost answers and failed stages

OpNames == {"edit", "mutate", "publish", "republish", "mutatePublish", "direct",
            "refresh", "note", "discard"}

ASSUME OpsAreOps == Ops \subseteq OpNames
ASSUME NoneIsNoTemplate == None \notin Templates
ASSUME FirstIsTemplate == FirstTemplate \in Templates
ASSUME EditsTyped == \A t \in Templates : Edits(t) \subseteq Templates
ASSUME MergeTyped ==
    \A b, d, l \in Templates : Merge(b, d, l) \in Templates /\ MergeConflict(b, d, l) \in BOOLEAN
ASSUME BoundsAreNat == MaxEdits \in Nat /\ MaxConsole \in Nat /\ MaxFaults \in Nat

VARIABLES
    history,  \* the server: templates by version number
    log,      \* how each version was written (history variable)
    cache,    \* version the parameters cache points to
    draft,    \* the draft file: a record, or None
    clock,    \* last UpdatedAt handed out
    pc,       \* where each process is
    mem,      \* what each process holds in memory
    touched,  \* items local users ever edited (history variable)
    edits, console, faults   \* counters of the three bounds

vars == <<history, log, cache, draft, clock, pc, mem, touched, edits, console, faults>>
server == <<history, log>>
counters == <<touched, edits, console, faults>>

-----------------------------------------------------------------------------
Versions == 1..Len(history)
Latest == Len(history)

\* A draft record; the base is the version its BaseRemoteConfig was fetched at.
Record(base, cfg, stamp) == [base |-> base, cfg |-> cfg, stamp |-> stamp]
Records == [base : Nat \ {0}, cfg : Templates, stamp : Nat]

ASSUME NoneIsNoRecord == None \notin Records

\* rec: record as last loaded; seen: version fetched; intent: local template to
\* merge; cand: candidate; shown: candidate the user confirmed; checked: clock
\* when ExecutePublish compared the record with the file (history variable).
Blank == [op |-> "none", rec |-> None, seen |-> 0, intent |-> None,
          cand |-> None, shown |-> None, checked |-> 0]

Memories ==
    [op : OpNames \cup {"none"}, rec : Records \cup {None}, seen : Nat,
     intent : Templates \cup {None}, cand : Templates \cup {None},
     shown : Templates \cup {None}, checked : Nat]

Labels == {"idle", "editLoad", "editBase", "editSave", "prepFetch", "confirm", "noteSave", "prepLoad",
           "recheck", "validate", "put", "accepted", "delete", "mutReload", "mutFetch",
           "directFetch", "refreshLoad", "refreshSave"}

\* How a version is written.
DraftWrite(base, intent) == [kind |-> "draft", base |-> base, intent |-> intent]
OtherWrite == [kind |-> "edit", base |-> 0, intent |-> None]
Writes == [kind : {"edit", "draft"}, base : Nat, intent : Templates \cup {None}]

Init ==
    /\ history = <<FirstTemplate>>
    /\ log = <<OtherWrite>>
    /\ cache = 1
    /\ draft = None
    /\ clock = 0
    /\ pc = [p \in Procs |-> "idle"]
    /\ mem = [p \in Procs |-> Blank]
    /\ touched = {}
    /\ edits = 0 /\ console = 0 /\ faults = 0

Goto(p, label, m) ==
    /\ pc' = [pc EXCEPT ![p] = label]
    /\ mem' = [mem EXCEPT ![p] = m]

Finish(p) == Goto(p, "idle", Blank)

\* A new operation; the ones that write something new are counted.
Begin(p, op) == pc[p] = "idle" /\ op \in Ops
Counted == edits < MaxEdits /\ edits' = edits + 1

Save(record) == draft' = record /\ clock' = record.stamp

-----------------------------------------------------------------------------
\* Draft edits.  "edit": RunRemoteDraftLoop revalidates, loads the draft, builds
\* and calls SaveDraft, whose base for a new draft is the cache at that moment.
\* "mutate": Mutate(publish = false), where GetParameters may answer from a fresh
\* cache and SaveWithBase uses that answer as the base.

BeginEdit(p) ==
    /\ Begin(p, "edit")
    /\ Counted
    /\ cache' = Latest
    /\ Goto(p, "editLoad", [Blank EXCEPT !.op = "edit", !.seen = Latest])
    /\ UNCHANGED <<server, draft, clock, touched, console, faults>>

BeginMutate(p, op) ==
    /\ Begin(p, op)
    /\ op \in {"mutate", "mutatePublish"}
    /\ Counted
    /\ \E seen \in {cache, Latest} :
        /\ cache' = seen
        /\ Goto(p, "editLoad", [Blank EXCEPT !.op = op, !.seen = seen])
    /\ UNCHANGED <<server, draft, clock, touched, console, faults>>

\* Load the draft and build the mutated template on it, or on the fetched one.
EditLoad(p) ==
    /\ pc[p] = "editLoad"
    /\ LET m == mem[p]
           current == IF draft = None THEN history[m.seen] ELSE draft.cfg
       IN  \E final \in Edits(current) :
            /\ touched' = touched \cup Items(current, final)
            /\ Goto(p,
                    IF m.op # "mutatePublish" THEN "editBase"
                    ELSE IF draft = None THEN "validate" ELSE "mutReload",
                    [m EXCEPT !.rec = draft, !.intent = final, !.cand = final])
    /\ UNCHANGED <<server, cache, draft, clock, edits, console, faults>>

\* A mutant: an existing draft takes the base of the command that edits it.
BaseOfCommand(p) == IF mem[p].op = "edit" THEN cache ELSE mem[p].seen

\* An existing draft retains its base.
BaseToSave(p) ==
    IF draft # None THEN draft.base
    ELSE IF mem[p].op = "edit" THEN cache ELSE mem[p].seen

EditBase(p) ==
    /\ pc[p] = "editBase"
    /\ Goto(p, "editSave", [mem[p] EXCEPT !.seen = BaseToSave(p)])
    /\ UNCHANGED <<server, cache, draft, clock, counters>>

EditSave(p) ==
    /\ pc[p] = "editSave"
    /\ Save(Record(mem[p].seen, mem[p].intent, clock + 1))
    /\ Finish(p)
    /\ UNCHANGED <<server, cache, counters>>

\* draft change-note: the record is loaded, and saved whole with a new stamp.
BeginNote(p) ==
    /\ Begin(p, "note")
    /\ Counted
    /\ draft # None
    /\ Goto(p, "noteSave", [Blank EXCEPT !.op = "note", !.rec = draft])
    /\ UNCHANGED <<server, cache, draft, clock, touched, console, faults>>

\* In draft publish --change-note the fresh preparation follows.
NoteSave(p) ==
    /\ pc[p] = "noteSave"
    /\ Save([mem[p].rec EXCEPT !.stamp = clock + 1])
    /\ IF mem[p].op = "note" THEN Finish(p) ELSE Goto(p, "prepLoad", mem[p])
    /\ UNCHANGED <<server, cache, counters>>

Discard(p) ==
    /\ Begin(p, "discard")
    /\ draft # None
    /\ draft' = None
    /\ UNCHANGED <<server, cache, clock, pc, mem, counters>>

-----------------------------------------------------------------------------
\* Draft publication: PreparePublish, confirmation, ExecutePublish.
\* "republish" is draft publish --change-note.

BeginPublish(p, op) ==
    /\ Begin(p, op)
    /\ op \in {"publish", "republish"}
    /\ IF op = "republish" THEN Counted ELSE UNCHANGED edits
    /\ draft # None
    /\ Goto(p, "prepFetch", [Blank EXCEPT !.op = op, !.rec = draft, !.intent = draft.cfg])
    /\ UNCHANGED <<server, cache, draft, clock, touched, console, faults>>

PrepareLoad(p) ==
    /\ pc[p] = "prepLoad"
    /\ IF draft = None THEN Finish(p)
       ELSE Goto(p, "prepFetch", [mem[p] EXCEPT !.rec = draft, !.intent = draft.cfg])
    /\ UNCHANGED <<server, cache, draft, clock, counters>>

\* Merge what was loaded with what was fetched; a conflict keeps the draft.  The
\* second preparation of a republish goes to ExecutePublish unseen.
PrepareFetch(p) ==
    /\ pc[p] = "prepFetch"
    /\ cache' = Latest
    /\ LET m == mem[p]
           base == history[m.rec.base]
           cand == Merge(base, m.intent, history[Latest])
       IN  IF MergeConflict(base, m.intent, history[Latest]) THEN Finish(p)
           ELSE Goto(p, IF m.shown = None THEN "confirm" ELSE "recheck",
                     [m EXCEPT !.seen = Latest, !.cand = cand])
    /\ UNCHANGED <<server, draft, clock, counters>>

\* A mutant: what was confirmed is prepared again before it is published.
ConfirmThenPrepare(p) ==
    /\ pc[p] = "confirm"
    /\ Goto(p, "prepLoad", [mem[p] EXCEPT !.shown = mem[p].cand])
    /\ UNCHANGED <<server, cache, draft, clock, counters>>

\* The preview is shown, and confirmed if there is anything to publish.
Confirm(p) ==
    /\ pc[p] = "confirm"
    /\ LET m == [mem[p] EXCEPT !.shown = mem[p].cand]
       IN  IF m.op = "publish" THEN Goto(p, "recheck", m)
           ELSE IF draft = None THEN Finish(p)
           ELSE Goto(p, "noteSave", [m EXCEPT !.rec = draft])
    /\ UNCHANGED <<server, cache, draft, clock, counters>>

Cancel(p) ==
    /\ pc[p] = "confirm"
    /\ Finish(p)
    /\ UNCHANGED <<server, cache, draft, clock, counters>>

\* Mutants: the record need only exist; a candidate without changes is
\* published; a candidate without changes leaves the draft.
RecheckExistence(p) ==
    /\ pc[p] = "recheck"
    /\ IF draft = None THEN Finish(p)
       ELSE Goto(p, IF mem[p].cand = history[mem[p].seen] THEN "delete" ELSE "validate",
                 [mem[p] EXCEPT !.checked = clock])
    /\ UNCHANGED <<server, cache, draft, clock, counters>>

RecheckAlwaysPublish(p) ==
    /\ pc[p] = "recheck"
    /\ IF draft = None THEN Finish(p)
       ELSE IF draft.stamp # mem[p].rec.stamp THEN Finish(p)
       ELSE Goto(p, "validate", [mem[p] EXCEPT !.checked = clock])
    /\ UNCHANGED <<server, cache, draft, clock, counters>>

RecheckKeepRedundant(p) ==
    /\ pc[p] = "recheck"
    /\ IF draft = None THEN Finish(p)
       ELSE IF draft.stamp # mem[p].rec.stamp THEN Finish(p)
       ELSE IF mem[p].cand = history[mem[p].seen] THEN Finish(p)
       ELSE Goto(p, "validate", [mem[p] EXCEPT !.checked = clock])
    /\ UNCHANGED <<server, cache, draft, clock, counters>>

\* The record must still be the one the candidate was made from.  A note given
\* at the review (in the TUI) is then stored, with a new stamp.
Recheck(p) ==
    /\ pc[p] = "recheck"
    /\ IF \/ draft = None
          \/ draft.stamp # mem[p].rec.stamp
       THEN /\ Finish(p)
            /\ UNCHANGED <<draft, clock>>
       ELSE /\ \/ UNCHANGED <<draft, clock>>
               \/ mem[p].op = "publish" /\ Save([draft EXCEPT !.stamp = clock + 1])
            /\ Goto(p, IF mem[p].cand = history[mem[p].seen] THEN "delete" ELSE "validate",
                    [mem[p] EXCEPT !.checked = clock'])
    /\ UNCHANGED <<server, cache, counters>>

\* Mutate(publish = true) on a draft: the record is loaded again, and a change
\* note given with the mutation is stored first.
MutateReload(p) ==
    /\ pc[p] = "mutReload"
    /\ IF draft = None
       THEN /\ Finish(p)
            /\ UNCHANGED <<draft, clock>>
       ELSE \E record \in {draft, [draft EXCEPT !.stamp = clock + 1]} :
            /\ draft' = record
            /\ clock' = IF record = draft THEN clock ELSE clock + 1
            /\ Goto(p, "mutFetch", [mem[p] EXCEPT !.rec = record])
    /\ UNCHANGED <<server, cache, counters>>

MutateFetch(p) ==
    /\ pc[p] = "mutFetch"
    /\ cache' = Latest
    /\ LET m == mem[p]
           base == history[m.rec.base]
           cand == Merge(base, m.intent, history[Latest])
       IN  IF MergeConflict(base, m.intent, history[Latest]) THEN Finish(p)
           ELSE Goto(p, IF cand = history[Latest] THEN "delete" ELSE "validate",
                     [m EXCEPT !.seen = Latest, !.cand = cand])
    /\ UNCHANGED <<server, draft, clock, counters>>

\* RunRemotePublishLoop: refuse when a draft exists, revalidate, build.
DirectGuard(p) ==
    /\ Begin(p, "direct")
    /\ Counted
    /\ draft = None
    /\ Goto(p, "directFetch", [Blank EXCEPT !.op = "direct"])
    /\ UNCHANGED <<server, cache, draft, clock, touched, console, faults>>

DirectFetch(p) ==
    /\ pc[p] = "directFetch"
    /\ cache' = Latest
    /\ \E final \in Edits(history[Latest]) :
        Goto(p, "validate", [mem[p] EXCEPT !.seen = Latest, !.cand = final])
    /\ UNCHANGED <<server, draft, clock, counters>>

-----------------------------------------------------------------------------
\* Validation and publication, common to the four ways to publish.  The server
\* refuses an ETag that does not name its latest version.

Validate(p) ==
    /\ pc[p] = "validate"
    /\ IF mem[p].seen = Latest THEN Goto(p, "put", mem[p]) ELSE Finish(p)
    /\ UNCHANGED <<server, cache, draft, clock, counters>>

LogEntry(m) == IF m.rec = None THEN OtherWrite ELSE DraftWrite(m.rec.base, m.intent)

\* A mutant: the update is sent without If-Match.
AcceptUnconditionally(p) ==
    /\ history' = Append(history, mem[p].cand)
    /\ log' = Append(log, LogEntry(mem[p]))

Accept(p) ==
    /\ mem[p].seen = Latest
    /\ history' = Append(history, mem[p].cand)
    /\ log' = Append(log, LogEntry(mem[p]))

Put(p) ==
    /\ pc[p] = "put"
    /\ \/ Accept(p) /\ Goto(p, "accepted", mem[p])
       \/ mem[p].seen # Latest /\ Finish(p) /\ UNCHANGED server
    /\ UNCHANGED <<cache, draft, clock, counters>>

\* The update is accepted and its answer lost: the transport sends it again.
PutAnswerLost(p) ==
    /\ pc[p] = "put"
    /\ faults < MaxFaults
    /\ faults' = faults + 1
    /\ Accept(p)
    /\ UNCHANGED <<cache, draft, clock, pc, mem, touched, edits, console>>

\* The cache takes the published version, then the post-publish hook runs.
\* RunRemotePublishLoop has no draft to clean up.
PostPublish(p) ==
    /\ pc[p] = "accepted"
    /\ cache' = mem[p].seen + 1
    /\ IF mem[p].op = "direct" THEN Finish(p) ELSE Goto(p, "delete", mem[p])
    /\ UNCHANGED <<server, draft, clock, counters>>

\* The cache write or the hook fails: the error keeps the draft.
PostPublishFails(p) ==
    /\ pc[p] = "accepted"
    /\ faults < MaxFaults
    /\ faults' = faults + 1
    /\ cache' \in {cache, mem[p].seen + 1}
    /\ Finish(p)
    /\ UNCHANGED <<server, draft, clock, touched, edits, console>>

\* Whatever draft is there now is removed.
DeleteDraft(p) ==
    /\ pc[p] = "delete"
    /\ draft' = None
    /\ Finish(p)
    /\ UNCHANGED <<server, cache, clock, counters>>

DeleteDraftFails(p) ==
    /\ pc[p] = "delete"
    /\ faults < MaxFaults
    /\ faults' = faults + 1
    /\ Finish(p)
    /\ UNCHANGED <<server, cache, draft, clock, touched, edits, console>>

-----------------------------------------------------------------------------
\* RefreshDraftAware: fetch, load, and move the draft onto what was fetched.

BeginRefresh(p) ==
    /\ Begin(p, "refresh")
    /\ cache' = Latest
    /\ Goto(p, "refreshLoad", [Blank EXCEPT !.op = "refresh", !.seen = Latest])
    /\ UNCHANGED <<server, draft, clock, counters>>

\* A mutant: a draft in conflict with what was fetched is removed.
RefreshLoadDropStale(p) ==
    /\ pc[p] = "refreshLoad"
    /\ LET seen == history[mem[p].seen]
       IN  IF draft = None THEN Finish(p)
           ELSE IF draft.base = mem[p].seen THEN Finish(p)
           ELSE LET merged == Merge(history[draft.base], draft.cfg, seen)
                IN  Goto(p, IF MergeConflict(history[draft.base], draft.cfg, seen) \/ merged = seen
                            THEN "delete" ELSE "refreshSave",
                         [mem[p] EXCEPT !.rec = draft, !.intent = draft.cfg, !.cand = merged])
    /\ UNCHANGED <<server, cache, draft, clock, counters>>

RefreshLoad(p) ==
    /\ pc[p] = "refreshLoad"
    /\ LET seen == history[mem[p].seen]
       IN  IF draft = None THEN Finish(p)
           ELSE IF draft.base = mem[p].seen THEN Finish(p)
           ELSE IF MergeConflict(history[draft.base], draft.cfg, seen) THEN Finish(p)
           ELSE LET merged == Merge(history[draft.base], draft.cfg, seen)
                IN  Goto(p, IF merged = seen THEN "delete" ELSE "refreshSave",
                         [mem[p] EXCEPT !.rec = draft, !.intent = draft.cfg, !.cand = merged])
    /\ UNCHANGED <<server, cache, draft, clock, counters>>

\* SaveRebased keeps only the note of whatever record is there.
RefreshSave(p) ==
    /\ pc[p] = "refreshSave"
    /\ Save(Record(mem[p].seen, mem[p].cand, clock + 1))
    /\ Finish(p)
    /\ UNCHANGED <<server, cache, counters>>

-----------------------------------------------------------------------------
\* The environment.

ConsolePublish ==
    /\ console < MaxConsole
    /\ console' = console + 1
    /\ \E t \in Edits(history[Latest]) : history' = Append(history, t)
    /\ log' = Append(log, OtherWrite)
    /\ UNCHANGED <<cache, draft, clock, pc, mem, touched, edits, faults>>

Crash(p) ==
    /\ pc[p] # "idle"
    /\ faults < MaxFaults
    /\ faults' = faults + 1
    /\ Finish(p)
    /\ UNCHANGED <<server, cache, draft, clock, touched, edits, console>>

\* What a running operation does on its own.
Continue(p) ==
    \/ EditLoad(p) \/ EditBase(p) \/ EditSave(p) \/ NoteSave(p)
    \/ PrepareLoad(p) \/ PrepareFetch(p) \/ Confirm(p) \/ Recheck(p)
    \/ MutateReload(p) \/ MutateFetch(p)
    \/ DirectFetch(p)
    \/ Validate(p) \/ Put(p) \/ PostPublish(p) \/ DeleteDraft(p)
    \/ RefreshLoad(p) \/ RefreshSave(p)

Start(p) ==
    \/ BeginEdit(p) \/ BeginNote(p) \/ Discard(p)
    \/ \E op \in Ops : BeginMutate(p, op) \/ BeginPublish(p, op)
    \/ DirectGuard(p)
    \/ BeginRefresh(p)

Disturb(p) == Cancel(p) \/ PutAnswerLost(p) \/ PostPublishFails(p) \/ DeleteDraftFails(p) \/ Crash(p)

Next ==
    \/ \E p \in Procs : Start(p) \/ Continue(p) \/ Disturb(p)
    \/ ConsolePublish

Spec == Init /\ [][Next]_vars

\* Fairness: the code of an operation runs on, and the user reruns a draft
\* publication that did not come to an end.
FairSpec ==
    /\ Spec
    /\ \A p \in Procs : WF_vars(Continue(p)) /\ SF_vars(BeginPublish(p, "publish")) /\ SF_vars(Confirm(p))

-----------------------------------------------------------------------------
\* Type invariant.
TypeOK ==
    /\ history \in Seq(Templates) /\ Len(history) >= 1
    /\ log \in Seq(Writes) /\ Len(log) = Len(history)
    /\ cache \in Versions
    /\ draft \in Records \cup {None}
    /\ clock \in Nat
    /\ pc \in [Procs -> Labels]
    /\ mem \in [Procs -> Memories]
    /\ edits \in 0..MaxEdits /\ console \in 0..MaxConsole /\ faults \in 0..MaxFaults

\* What a process is about to send, from its last fetch until the server's
\* answer, is the conflict-free merge of the record it loaded with the version
\* whose ETag it sends, whatever happened to the draft and the cache since.
Holding == {"confirm", "recheck", "validate", "put"}

CandidateIsMerge ==
    \A p \in Procs : (pc[p] \in Holding /\ mem[p].rec # None) =>
        LET m == mem[p]
            base == history[m.rec.base]
        IN  /\ m.rec.base \in 1..m.seen
            /\ ~MergeConflict(base, m.intent, history[m.seen])
            /\ m.cand = Merge(base, m.intent, history[m.seen])

\* Each accepted draft publication wrote the merge, without conflict, of the
\* local template it was made from with the version just before it: retries,
\* crashes, lost answers and other writers never make it replace anything else.
PublishedIsMerge ==
    \A v \in Versions : log[v].kind = "draft" =>
        LET base == history[log[v].base]
            previous == history[v - 1]
        IN  /\ log[v].base \in 1..(v - 1)
            /\ ~MergeConflict(base, log[v].intent, previous)
            /\ history[v] = Merge(base, log[v].intent, previous)

\* The pipeline implements the register: version after version, an edit of the
\* version replaced or a merge of a draft onto it, and nothing else.
Register == INSTANCE TemplateRegister
RegisterSpec == Register!Spec

\* A draft publication never creates a version equal to the one before, also
\* when it repeats a publication whose answer or cleanup was lost.
NoRedundantVersion ==
    \A v \in Versions : log[v].kind = "draft" => history[v] # history[v - 1]

\* What a draft publication changes on the server is something local users edited.
OnlyIntendedChanges ==
    \A v \in Versions : log[v].kind = "draft" => Items(history[v - 1], history[v]) \subseteq touched

\* What it takes for that: items are differences, and all that a merge changes in
\* the latest template is what the draft changed in its base.  (A draft that
\* deletes a group takes along what others put there: then the group is the item.)
ItemsAreDifferences ==
    \A t, u, w \in Templates : Items(t, w) \subseteq Items(t, u) \cup Items(u, w)

MergeAddsItsDraft ==
    \A b, d, l \in Templates : ~MergeConflict(b, d, l) => Items(l, Merge(b, d, l)) \subseteq Items(b, d)

\* What is sent to the server is the candidate its user confirmed.
PublishedAsShown ==
    \A p \in Procs : (pc[p] = "put" /\ mem[p].shown # None) => mem[p].cand = mem[p].shown

\* Some version since the draft's base has all the draft asks for, or was
\* replaced by its merge with the draft.
Applied(record) ==
    \E v \in record.base..Latest :
        /\ ~MergeConflict(history[record.base], record.cfg, history[v])
        /\ \E w \in {v, v + 1} \cap Versions :
              history[w] = Merge(history[record.base], record.cfg, history[v])

\* What p publishes when it deletes the draft: the record, with the mutation
\* built on it when the operation is a mutation of its own.
Published(p, record) ==
    IF mem[p].op = "mutatePublish" /\ mem[p].rec = record
    THEN [record EXCEPT !.cfg = mem[p].intent]
    ELSE record

\* A draft that goes away other than by a discard was applied, together with the
\* mutation that published it if there was one.
DraftNotLost ==
    [][ \A p \in Procs : (draft # None /\ DeleteDraft(p)) => Applied(Published(p, draft)) ]_vars

\* With several processes a draft removed by a draft publication was applied, or
\* it was saved after ExecutePublish had compared the file with what it
\* publishes: an edit saved before that comparison survives.
LostOnlyAfterRecheck ==
    [][ \A p \in Procs :
            (draft # None /\ mem[p].op \in {"publish", "republish"} /\ DeleteDraft(p)) =>
                Applied(draft) \/ draft.stamp > mem[p].checked ]_vars

\* A draft its user keeps publishing is published, found applied, or found in
\* conflict with the server.
DraftResolves ==
    (draft # None) ~>
        (\/ draft = None
         \/ MergeConflict(history[draft.base], draft.cfg, history[Latest]))
=============================================================================
