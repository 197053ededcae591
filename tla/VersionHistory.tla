--------------------------- MODULE VersionHistory ---------------------------
(***************************************************************************)
(* Bringing an earlier version of a template back: `versions rollback',    *)
(* `versions restore' and the rollback of the TUI, against other writers,  *)
(* the expiry of Firebase's history and a local store of snapshots.        *)
(*                                                                         *)
(* A version number stands for its ETag.  What is listed and then fetched  *)
(* by number is one step, since a numbered version never changes.          *)
(***************************************************************************)
EXTENDS Integers, Sequences

CONSTANTS
    Procs,
    Templates,
    First,          \* the templates published before anything happens
    MaxVersion,     \* no run begins at this version
    MaxConsole,     \* bound on writes of other users
    MaxLocal,       \* bound on drafts begun and caches cleared
    MaxFaults       \* bound on crashes, lost answers and failed stages

ASSUME FirstPublished == First \in Seq(Templates) /\ Len(First) >= 1
ASSUME BoundsAreNat == MaxVersion \in Nat /\ MaxConsole \in Nat /\ MaxLocal \in Nat /\ MaxFaults \in Nat

VARIABLES
    history,        \* versions of the template, by number
    retained,       \* oldest version Firebase still has
    snaps,          \* versions with a local snapshot
    draft,          \* is there a draft
    reports,        \* what successful runs reported (history variable)
    pc, mem,
    console, locals, faults

vars == <<history, retained, snaps, draft, reports, pc, mem, console, locals, faults>>
bounds == <<console, locals, faults>>

\* by: who published the version; asked: the version the user chose; source: the one
\* brought back; shown: the version the user compared it with; final: the latest one
\* at the last recheck; base: the one it was validated against.  All but source are
\* history variables.
Other(tpl) == [tpl |-> tpl, by |-> "other", asked |-> 0, source |-> 0, shown |-> 0, final |-> 0, base |-> 0]
Ops == {"rollback", "restore", "tui"}
Blank == [op |-> "none", dry |-> FALSE, asked |-> 0, source |-> 0, shown |-> 0, final |-> 0, base |-> 0,
          published |-> 0]
Labels == {"idle", "source", "current", "compare", "confirm", "recheck", "export",
           "again", "validate", "post", "accepted"}

Latest == Len(history)
Tpl(v) == history[v].tpl
Retained(v) == v \in retained..Latest

Init ==
    /\ history = [v \in 1..Len(First) |-> Other(First[v])]
    /\ retained = 1
    /\ snaps \in {{}, {Len(First)}}
    /\ draft = FALSE
    /\ reports = {}
    /\ pc = [p \in Procs |-> "idle"]
    /\ mem = [p \in Procs |-> Blank]
    /\ console = 0 /\ locals = 0 /\ faults = 0

Goto(p, label, m) ==
    /\ pc' = [pc EXCEPT ![p] = label]
    /\ mem' = [mem EXCEPT ![p] = m]
Stop(p) == Goto(p, "idle", Blank)
Fault == faults < MaxFaults /\ faults' = faults + 1

\* Snapshots of versions that were fetched; a dry run keeps none.
Keep(p, v) == snaps' = IF mem[p].dry THEN snaps ELSE snaps \cup {v}

-----------------------------------------------------------------------------
\* A draft found when the run begins refuses it.  The selector names a version or
\* a distance from the latest one, and is resolved to a number.
Begin(p, op, dry, source) ==
    /\ pc[p] = "idle" /\ ~draft /\ Latest < MaxVersion
    /\ op = "tui" => ~dry
    /\ Goto(p, IF op = "tui" THEN "current" ELSE "source",
            [Blank EXCEPT !.op = op, !.dry = dry, !.asked = source, !.source = source])
    /\ UNCHANGED <<history, retained, snaps, draft, reports, bounds>>

\* The source comes from a snapshot, or from Firebase unless it is a restore.
Obtainable(p) == mem[p].source \in snaps \/ (mem[p].op # "restore" /\ Retained(mem[p].source))

ReadSource(p) ==
    /\ pc[p] = "source"
    /\ IF Obtainable(p)
       THEN Goto(p, IF mem[p].op = "tui" THEN "compare" ELSE "current", mem[p]) /\ Keep(p, mem[p].source)
       ELSE Stop(p) /\ UNCHANGED snaps
    /\ UNCHANGED <<history, retained, draft, reports, bounds>>

ReadCurrent(p) ==
    /\ pc[p] = "current"
    /\ Goto(p, IF mem[p].op = "tui" THEN "source" ELSE "compare", [mem[p] EXCEPT !.shown = Latest])
    /\ Keep(p, Latest)
    /\ UNCHANGED <<history, retained, draft, reports, bounds>>

\* Core reads the source before it exports for a restore, and after it otherwise.
Core(p) == IF mem[p].op = "restore" THEN "again" ELSE "export"

\* The current version, or one equal to it, is a no-op.
Compare(p) ==
    /\ pc[p] = "compare"
    /\ IF Tpl(mem[p].source) = Tpl(mem[p].shown) THEN Stop(p)
       ELSE Goto(p, IF mem[p].dry THEN Core(p) ELSE "confirm", mem[p])
    /\ UNCHANGED <<history, retained, snaps, draft, reports, bounds>>

Confirm(p) ==
    /\ pc[p] = "confirm"
    /\ Goto(p, "recheck", mem[p])
    /\ UNCHANGED <<history, retained, snaps, draft, reports, bounds>>

Decline(p) ==
    /\ pc[p] = "confirm"
    /\ Stop(p)
    /\ UNCHANGED <<history, retained, snaps, draft, reports, bounds>>

\* A mutant: the recheck is answered by the newest snapshot.
RecheckLocally(p) ==
    /\ pc[p] = "recheck"
    /\ Goto(p, Core(p), [mem[p] EXCEPT !.final = Latest])
    /\ UNCHANGED <<history, retained, snaps, draft, reports, bounds>>

\* What was published during the preview stops the run.
Recheck(p) ==
    /\ pc[p] = "recheck"
    /\ IF Latest = mem[p].shown THEN Goto(p, Core(p), [mem[p] EXCEPT !.final = Latest]) ELSE Stop(p)
    /\ Keep(p, Latest)
    /\ UNCHANGED <<history, retained, draft, reports, bounds>>

-----------------------------------------------------------------------------
\* RollbackRemoteConfig and RestoreRemoteConfigVersion.

Export(p) ==
    /\ pc[p] = "export"
    /\ Goto(p, IF mem[p].op = "restore" THEN "validate" ELSE "again", [mem[p] EXCEPT !.base = Latest])
    /\ UNCHANGED <<history, retained, snaps, draft, reports, bounds>>

\* A mutant: the selector is resolved again, here to the version before the latest.
ReadAgainRelative(p) ==
    /\ pc[p] = "again"
    /\ IF Obtainable(p)
       THEN /\ Goto(p, IF mem[p].op = "restore" THEN "export" ELSE "validate",
                    [mem[p] EXCEPT !.source = IF Latest > 1 THEN Latest - 1 ELSE 1])
            /\ Keep(p, mem[p].source)
       ELSE Stop(p) /\ UNCHANGED snaps
    /\ UNCHANGED <<history, retained, draft, reports, bounds>>

ReadAgain(p) ==
    /\ pc[p] = "again"
    /\ IF Obtainable(p)
       THEN /\ Goto(p, IF mem[p].op = "restore" THEN "export" ELSE "validate", mem[p])
            /\ Keep(p, mem[p].source)
       ELSE Stop(p) /\ UNCHANGED snaps
    /\ UNCHANGED <<history, retained, draft, reports, bounds>>

\* Firebase validates against the exported ETag; the pre-publish hook may refuse.
Validate(p) ==
    /\ pc[p] = "validate"
    /\ \/ Latest = mem[p].base /\ ~mem[p].dry /\ Goto(p, "post", mem[p])
       \/ (Latest # mem[p].base \/ mem[p].dry) /\ Stop(p)
    /\ UNCHANGED <<history, retained, snaps, draft, reports, bounds>>

Version(m) == [tpl |-> Tpl(m.source), by |-> m.op, asked |-> m.asked, source |-> m.source,
               shown |-> m.shown, final |-> m.final, base |-> m.base]

\* A rollback names a version Firebase must still have, and no ETag; a restore is a
\* conditional update with the template of the snapshot.
Write(m) ==
    /\ IF m.op = "restore" THEN Latest = m.base ELSE Retained(m.source)
    /\ history' = Append(history, Version(m))

Refused(m) == IF m.op = "restore" THEN Latest # m.base ELSE ~Retained(m.source)

Post(p) ==
    /\ pc[p] = "post"
    /\ Write(mem[p])
    /\ Goto(p, "accepted", [mem[p] EXCEPT !.published = Latest + 1])
    /\ UNCHANGED <<retained, snaps, draft, reports, bounds>>

PostRefused(p) ==
    /\ pc[p] = "post"
    /\ Refused(mem[p])
    /\ Stop(p)
    /\ UNCHANGED <<history, retained, snaps, draft, reports, bounds>>

\* The request is accepted and its answer lost: the transport sends it again.
PostAnswerLost(p) ==
    /\ pc[p] = "post"
    /\ Fault
    /\ Write(mem[p])
    /\ UNCHANGED <<retained, snaps, draft, reports, pc, mem, console, locals>>

\* A mutant: the version shown to the user is reported as the one replaced.
ReportShown(p) == [op |-> mem[p].op, previous |-> mem[p].shown, source |-> mem[p].source, published |-> mem[p].published]

ReportOf(p) == [op |-> mem[p].op, previous |-> mem[p].base, source |-> mem[p].source, published |-> mem[p].published]

\* The new version is stored; a failing store or hook is a warning of the report.
Finish(p) ==
    /\ pc[p] = "accepted"
    /\ reports' = reports \cup {ReportOf(p)}
    /\ snaps' = snaps \cup {mem[p].published}
    /\ Stop(p)
    /\ UNCHANGED <<history, retained, draft, bounds>>

FinishWithFailure(p) ==
    /\ pc[p] = "accepted"
    /\ Fault
    /\ reports' = reports \cup {ReportOf(p)}
    /\ Stop(p)
    /\ UNCHANGED <<history, retained, snaps, draft, console, locals>>

-----------------------------------------------------------------------------
\* The environment.

ConsolePublish(tpl) ==
    /\ console < MaxConsole
    /\ console' = console + 1
    /\ history' = Append(history, Other(tpl))
    /\ UNCHANGED <<retained, snaps, draft, reports, pc, mem, locals, faults>>

\* Firebase drops its oldest version, never the latest one.
Expire ==
    /\ retained < Latest
    /\ retained' = retained + 1
    /\ UNCHANGED <<history, snaps, draft, reports, pc, mem, bounds>>

ClearCache ==
    /\ locals < MaxLocal
    /\ locals' = locals + 1
    /\ snaps' = {}
    /\ UNCHANGED <<history, retained, draft, reports, pc, mem, console, faults>>

BeginDraft ==
    /\ locals < MaxLocal
    /\ locals' = locals + 1
    /\ draft' = TRUE
    /\ UNCHANGED <<history, retained, snaps, reports, pc, mem, console, faults>>

EndDraft ==
    /\ draft
    /\ draft' = FALSE
    /\ UNCHANGED <<history, retained, snaps, reports, pc, mem, bounds>>

\* Also an error of the network, of validation or of the pre-publish hook.
Crash(p) ==
    /\ pc[p] # "idle"
    /\ Fault
    /\ Stop(p)
    /\ UNCHANGED <<history, retained, snaps, draft, reports, console, locals>>

Step(p) ==
    \/ \E op \in Ops, dry \in BOOLEAN, source \in 1..Latest : Begin(p, op, dry, source)
    \/ ReadSource(p) \/ ReadCurrent(p) \/ Compare(p)
    \/ Confirm(p) \/ Decline(p) \/ Recheck(p)
    \/ Export(p) \/ ReadAgain(p) \/ Validate(p)
    \/ Post(p) \/ PostRefused(p) \/ PostAnswerLost(p)
    \/ Finish(p) \/ FinishWithFailure(p) \/ Crash(p)

Environment ==
    \/ \E tpl \in Templates : ConsolePublish(tpl)
    \/ Expire \/ ClearCache \/ BeginDraft \/ EndDraft

Next == (\E p \in Procs : Step(p)) \/ Environment

Spec == Init /\ [][Next]_vars

-----------------------------------------------------------------------------
VersionRecords == [tpl : Templates, by : Ops \cup {"other"}, asked : Nat, source : Nat, shown : Nat, final : Nat, base : Nat]

\* Type invariant.
TypeOK ==
    /\ history \in Seq(VersionRecords) /\ Latest >= 1
    /\ retained \in 1..Latest
    /\ snaps \subseteq 1..Latest
    /\ draft \in BOOLEAN
    /\ reports \subseteq [op : Ops, previous : 1..Latest, source : 1..Latest, published : 1..Latest]
    /\ pc \in [Procs -> Labels]
    /\ mem \in [Procs -> [op : Ops \cup {"none"}, dry : BOOLEAN, asked : 0..Latest, source : 0..Latest,
                          shown : 0..Latest, final : 0..Latest, base : 0..Latest,
                          published : 0..Latest]]
    /\ \A p \in Procs :
        /\ pc[p] # "idle" => mem[p].source >= 1
        /\ pc[p] \notin {"idle", "source", "current"} => mem[p].shown >= 1
        /\ pc[p] \in {"validate", "post", "accepted"} => mem[p].base >= 1
    /\ console \in Nat /\ locals \in Nat /\ faults \in Nat

Mined == {v \in 1..Latest : history[v].by # "other"}

\* A version published while the user looks at the preview is never overwritten
\* unseen: what a rollback or a restore replaces is the version it was compared
\* with, or was published after the last recheck.
SeenOrRaced ==
    \A v \in Mined : \A w \in 1..(v - 1) : w > history[v].shown => w > history[v].final

\* What is published is the template of the version the user chose, although
\* history expires, snapshots are cleared and versions are added meanwhile.
BringsBack == \A v \in Mined : history[v].asked \in 1..(v - 1) /\ history[v].tpl = Tpl(history[v].asked)

\* A version equal to the one shown as current is never published over it.
OnlyWhenDifferent == \A v \in Mined : history[v].tpl # Tpl(history[v].shown)

\* A restore replaces exactly the version it exported and was validated against;
\* so a request sent again after a lost answer does not restore twice.
RestoreOverBase == \A v \in Mined : history[v].by = "restore" => history[v].base = v - 1

\* A report names a version its run published, from the source it names; the version
\* named as previous was the latest one when that was validated, and for a restore
\* is the one replaced.
ReportTrue ==
    \A r \in reports :
        /\ history[r.published].by = r.op /\ history[r.published].source = r.source
        /\ history[r.published].base = r.previous
        /\ r.previous < r.published
        /\ r.op = "restore" => r.previous = r.published - 1
=============================================================================
