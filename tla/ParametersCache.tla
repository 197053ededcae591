--------------------------- MODULE ParametersCache ---------------------------
(***************************************************************************)
(* The parameters cache of one target on disk: a snapshot file per version *)
(* and a pointer, normally a symbolic link to the current snapshot.  fbrcm *)
(* processes read, fetch, refresh, publish and delete without a lock; one  *)
(* step is one file or network operation.                                  *)
(*                                                                         *)
(* Version 0 stands for the template Firebase returns before the first     *)
(* publication: it has no number and is stored in the pointer file itself. *)
(* Times are ages in ticks, TTL ticks making ParametersCacheTTL.           *)
(***************************************************************************)
EXTENDS Integers, FiniteSets, FiniteSetsExt

CONSTANTS
    Procs,
    None,
    Ops,            \* operations the processes use
    TTL,            \* ticks a cache is fresh for
    MaxVersion,     \* bound on the versions of the server
    MaxLocal,       \* bound on historical reads and deletions
    MaxFaults       \* bound on crashes

OpNames == {"get", "update", "publish", "history", "delete"}

ASSUME OpsKnown == Ops \subseteq OpNames
ASSUME TTLPositive == TTL \in Nat \ {0}
ASSUME NoneIsNoData == None \notin Nat /\ None \notin [kind : {"link", "file"}, version : Nat, age : Nat]
ASSUME BoundsAreNat == MaxVersion \in Nat /\ MaxLocal \in Nat /\ MaxFaults \in Nat

Versions == 0..MaxVersion
Numbered == 1..MaxVersion
Ages == 0..TTL
Aged(n) == IF n < TTL THEN n + 1 ELSE TTL

VARIABLES
    latest,   \* latest version on the server
    lapse,    \* ticks since each version ceased to be the latest (history variable)
    snaps,    \* snapshot files: age by version, or None
    pointer,  \* the pointer: a link, a file with a template, or None
    pc, mem,
    torn,     \* the cache was deleted under another operation (history variable)
    locals, faults

vars == <<latest, lapse, snaps, pointer, pc, mem, torn, locals, faults>>
disk == <<snaps, pointer>>
remote == <<latest, lapse>>

Link(v) == [kind |-> "link", version |-> v, age |-> 0]
File(v, age) == [kind |-> "file", version |-> v, age |-> age]

\* version: of the template in hand, or None; start: version current when the
\* operation began; legacy: the pointer file as read; listed: snapshots to delete.
Blank == [op |-> "none", version |-> None, start |-> 0, legacy |-> {}, listed |-> {}]

Labels == {"idle", "newest", "list", "fetch", "write", "unlink", "link", "copy",
           "unlinkLegacy", "writeLegacy", "historyFetch", "historyWrite", "unlinkAll"}

-----------------------------------------------------------------------------
\* Loading.  A link that can be followed is the current cache; otherwise the
\* newest snapshot is, and the pointer file only where there is no snapshot.
Cached(versions, age) == {[version |-> v, age |-> age[v]] : v \in versions}
Stored == {v \in Numbered : snaps[v] # None}
Followed == pointer # None /\ pointer.kind = "link" /\ snaps[pointer.version] # None
Newest == Cached(IF Stored = {} THEN {} ELSE {Max(Stored)}, snaps)
Legacy == IF pointer # None /\ pointer.kind = "file"
          THEN {[version |-> pointer.version, age |-> pointer.age]} ELSE {}

\* What LoadParametersCache returns when nobody interferes: a set of at most one.
Loaded == IF Followed THEN Cached({pointer.version}, snaps)
          ELSE IF Stored # {} THEN Newest ELSE Legacy

VersionIn(found) == IF found = {} THEN None ELSE (CHOOSE c \in found : TRUE).version
LoadedVersion == IF Loaded = {} THEN 0 ELSE VersionIn(Loaded)

Init ==
    /\ latest \in {0, 1} \cap Versions
    /\ lapse = [v \in Versions |-> 0]
    /\ snaps = [v \in Numbered |-> None]
    /\ pointer = None
    /\ pc = [p \in Procs |-> "idle"]
    /\ mem = [p \in Procs |-> Blank]
    /\ torn = FALSE
    /\ locals = 0 /\ faults = 0

Goto(p, label, m) ==
    /\ pc' = [pc EXCEPT ![p] = label]
    /\ mem' = [mem EXCEPT ![p] = m]

Finish(p) == Goto(p, "idle", Blank)
Begin(p, op) == pc[p] = "idle" /\ op \in Ops

-----------------------------------------------------------------------------
\* GetParameters and RevalidateParameters.

\* A mutant: a cache is used however old it is.
DecideCached(p, op, found) ==
    IF op = "get" /\ found # {} THEN Finish(p)
    ELSE Goto(p, "list", [Blank EXCEPT !.op = op, !.start = LoadedVersion, !.version = VersionIn(found)])

\* What the loaded cache decides: a fresh one answers "get"; otherwise the latest
\* version is listed.
Decide(p, op, found) ==
    IF op = "get" /\ \E c \in found : c.age < TTL THEN Finish(p)
    ELSE Goto(p, "list", [Blank EXCEPT !.op = op, !.start = LoadedVersion, !.version = VersionIn(found)])

\* Inspect the pointer; without a link the directory is read in a second step.
BeginRead(p, op) ==
    /\ Begin(p, op)
    /\ op \in {"get", "update"}
    /\ IF Followed THEN Decide(p, op, Loaded)
       ELSE Goto(p, "newest", [Blank EXCEPT !.op = op, !.start = LoadedVersion, !.legacy = Legacy])
    /\ UNCHANGED <<remote, disk, torn, locals, faults>>

ReadNewest(p) ==
    /\ pc[p] = "newest"
    /\ Decide(p, mem[p].op, IF Stored # {} THEN Newest ELSE mem[p].legacy)
    /\ UNCHANGED <<remote, disk, torn, locals, faults>>

SaveLabel(v) == IF v = 0 THEN "unlinkLegacy" ELSE "write"

\* A mutant: a snapshot that is there is taken for the latest version.
ListLatestNewest(p) ==
    /\ pc[p] = "list"
    /\ Goto(p, IF Stored # {} THEN "write" ELSE "fetch",
            [mem[p] EXCEPT !.version = IF Stored # {} THEN Max(Stored) ELSE latest])
    /\ UNCHANGED <<remote, disk, torn, locals, faults>>

\* List the latest version.  What is in hand, or a snapshot, of that version
\* becomes current with a new timestamp; otherwise that version is fetched. A project
\* that never published has the number "NA" in the list and in the cache, 0 here.
ListLatest(p) ==
    /\ pc[p] = "list"
    /\ Goto(p, IF latest \in Stored \cup {mem[p].version} THEN SaveLabel(latest) ELSE "fetch",
            [mem[p] EXCEPT !.version = latest])
    /\ UNCHANGED <<remote, disk, torn, locals, faults>>

\* The listed version is fetched by its number, an unnumbered one as the latest.
\* The template is stored under the number it carries.
Fetch(p) ==
    /\ pc[p] = "fetch"
    /\ LET v == IF mem[p].version = 0 THEN latest ELSE mem[p].version
       IN  Goto(p, SaveLabel(v), [mem[p] EXCEPT !.version = v])
    /\ UNCHANGED <<remote, disk, torn, locals, faults>>

\* A publication of this process was accepted; its template is saved.
Publish(p) ==
    /\ Begin(p, "publish")
    /\ latest < MaxVersion
    /\ latest' = latest + 1
    /\ Goto(p, "write", [Blank EXCEPT !.op = "publish", !.version = latest + 1, !.start = LoadedVersion])
    /\ UNCHANGED <<lapse, disk, torn, locals, faults>>

-----------------------------------------------------------------------------
\* SaveParametersCache: the snapshot, then the pointer, which is removed and
\* created again.

\* A mutant: the pointer is removed before the snapshot is written.
UnlinkFirst(p) ==
    /\ pc[p] = "write"
    /\ \/ pointer # None /\ pointer' = None /\ UNCHANGED <<snaps, pc, mem>>
       \/ /\ pointer = None
          /\ snaps' = [snaps EXCEPT ![mem[p].version] = 0]
          /\ Goto(p, "unlink", mem[p])
          /\ UNCHANGED pointer
    /\ UNCHANGED <<remote, torn, locals, faults>>

WriteSnapshot(p) ==
    /\ pc[p] = "write"
    /\ snaps' = [snaps EXCEPT ![mem[p].version] = 0]
    /\ Goto(p, "unlink", mem[p])
    /\ UNCHANGED <<remote, pointer, torn, locals, faults>>

Unlink(p) ==
    /\ pc[p] = "unlink"
    /\ pointer' = None
    /\ Goto(p, "link", mem[p])
    /\ UNCHANGED <<remote, snaps, torn, locals, faults>>

\* os.Symlink refuses a path that exists.
MakeLink(p) ==
    /\ pc[p] = "link"
    /\ IF pointer = None
       THEN pointer' = Link(mem[p].version) /\ Finish(p)
       ELSE Goto(p, "copy", mem[p]) /\ UNCHANGED pointer
    /\ UNCHANGED <<remote, snaps, torn, locals, faults>>

\* The fallback: a copy of the template replaces whatever the pointer is now.
CopyPointer(p) ==
    /\ pc[p] = "copy"
    /\ pointer' = File(mem[p].version, 0)
    /\ Finish(p)
    /\ UNCHANGED <<remote, snaps, torn, locals, faults>>

\* saveLegacyParametersCache: a link is removed, then the file is written.
UnlinkLegacy(p) ==
    /\ pc[p] = "unlinkLegacy"
    /\ pointer' = IF pointer # None /\ pointer.kind = "link" THEN None ELSE pointer
    /\ Goto(p, "writeLegacy", mem[p])
    /\ UNCHANGED <<remote, snaps, torn, locals, faults>>

WriteLegacy(p) ==
    /\ pc[p] = "writeLegacy"
    /\ pointer' = File(0, 0)
    /\ Finish(p)
    /\ UNCHANGED <<remote, snaps, torn, locals, faults>>

-----------------------------------------------------------------------------
\* A historical version is read: its snapshot if there is one, or from Firebase,
\* and then stored without touching the pointer.

BeginHistory(p) ==
    /\ Begin(p, "history")
    /\ locals < MaxLocal
    /\ locals' = locals + 1
    /\ \E v \in 1..latest :
        /\ v \notin Stored
        /\ Goto(p, "historyFetch", [Blank EXCEPT !.op = "history", !.version = v, !.start = LoadedVersion])
    /\ UNCHANGED <<remote, disk, torn, faults>>

HistoryFetch(p) ==
    /\ pc[p] = "historyFetch"
    /\ Goto(p, "historyWrite", mem[p])
    /\ UNCHANGED <<remote, disk, torn, locals, faults>>

HistoryWrite(p) ==
    /\ pc[p] = "historyWrite"
    /\ snaps' = [snaps EXCEPT ![mem[p].version] = 0]
    /\ Finish(p)
    /\ UNCHANGED <<remote, pointer, torn, locals, faults>>

\* The cache of the target is deleted: the directory is read, then the pointer
\* and the snapshots that were there are removed, one by one.
BeginDelete(p) ==
    /\ Begin(p, "delete")
    /\ locals < MaxLocal
    /\ locals' = locals + 1
    /\ pointer' = None
    /\ torn' = (torn \/ \E q \in Procs : pc[q] # "idle")
    /\ Goto(p, "unlinkAll", [Blank EXCEPT !.op = "delete", !.listed = Stored])
    /\ UNCHANGED <<remote, snaps, faults>>

DeleteSnapshot(p) ==
    /\ pc[p] = "unlinkAll"
    /\ IF mem[p].listed = {}
       THEN Finish(p) /\ UNCHANGED <<snaps, torn>>
       ELSE \E v \in mem[p].listed :
            /\ snaps' = [snaps EXCEPT ![v] = None]
            /\ torn' = (torn \/ pointer # None \/ \E q \in Procs \ {p} : pc[q] # "idle")
            /\ Goto(p, "unlinkAll", [mem[p] EXCEPT !.listed = @ \ {v}])
    /\ UNCHANGED <<remote, pointer, locals, faults>>

-----------------------------------------------------------------------------
\* The environment.

ConsolePublish ==
    /\ latest < MaxVersion
    /\ latest' = latest + 1
    /\ UNCHANGED <<lapse, disk, pc, mem, torn, locals, faults>>

\* Time passes, but not between a request and the writes that follow it: a tick
\* is longer than that.
Tick ==
    /\ \A p \in Procs : pc[p] \in {"idle", "newest"}
    /\ lapse' = [v \in Versions |-> IF v < latest /\ lapse[v] <= TTL THEN lapse[v] + 1 ELSE lapse[v]]
    /\ snaps' = [v \in Numbered |-> IF snaps[v] = None THEN None ELSE Aged(snaps[v])]
    /\ pointer' = IF pointer # None /\ pointer.kind = "file"
                  THEN File(pointer.version, Aged(pointer.age)) ELSE pointer
    /\ mem' = [p \in Procs |-> [mem[p] EXCEPT !.legacy = {[c EXCEPT !.age = Aged(@)] : c \in @}]]
    /\ UNCHANGED <<latest, pc, torn, locals, faults>>

Crash(p) ==
    /\ pc[p] # "idle"
    /\ faults < MaxFaults
    /\ faults' = faults + 1
    /\ Finish(p)
    /\ UNCHANGED <<remote, disk, torn, locals>>

Continue(p) ==
    \/ ReadNewest(p) \/ ListLatest(p) \/ Fetch(p)
    \/ WriteSnapshot(p) \/ Unlink(p) \/ MakeLink(p) \/ CopyPointer(p)
    \/ UnlinkLegacy(p) \/ WriteLegacy(p)
    \/ HistoryFetch(p) \/ HistoryWrite(p) \/ DeleteSnapshot(p)

Start(p) ==
    \/ \E op \in Ops : BeginRead(p, op)
    \/ Publish(p) \/ BeginHistory(p) \/ BeginDelete(p)

Next ==
    \/ \E p \in Procs : Start(p) \/ Continue(p) \/ Crash(p)
    \/ ConsolePublish
    \/ Tick

Spec == Init /\ [][Next]_vars

\* Fairness: operations run on, time passes, and somebody keeps reading.
FairSpec ==
    /\ Spec
    /\ WF_vars(Tick)
    /\ \A p \in Procs : WF_vars(Continue(p)) /\ WF_vars(BeginRead(p, "get"))

-----------------------------------------------------------------------------
\* Type invariant.
TypeOK ==
    /\ latest \in Versions
    /\ lapse \in [Versions -> 0..(TTL + 1)]
    /\ snaps \in [Numbered -> Ages \cup {None}]
    /\ pointer \in {None} \cup [kind : {"link"}, version : Numbered, age : {0}]
                       \cup [kind : {"file"}, version : Versions, age : Ages]
    /\ pc \in [Procs -> Labels]
    /\ mem \in [Procs -> [op : OpNames \cup {"none"}, version : Versions \cup {None},
                          start : Versions, legacy : SUBSET [version : Versions, age : Ages],
                          listed : SUBSET Numbered]]
    /\ torn \in BOOLEAN

\* A current cache that looks fresh was the latest version when its age says it
\* was: however saves, crashes and historical reads overlap, an outdated version
\* the pointer links to stops being served after TTL ticks.
FreshWasLatest ==
    (~torn /\ Followed /\ snaps[pointer.version] < TTL) =>
        lapse[pointer.version] <= snaps[pointer.version]

\* Once there is a cache there is one at every instant, also between the removal
\* of the pointer and its creation and after a crash there, until it is deleted.
Deleting == \E p \in Procs : mem[p].op = "delete"

CacheSurvives ==
    [][(Loaded # {} /\ ~torn' /\ ~Deleting /\ ~Deleting') => Loaded' # {}]_vars

\* A process never links the pointer to a version older than the one that was
\* current when it began.
MovesForward ==
    [][\A p \in Procs : (MakeLink(p) /\ pointer' # pointer) => mem[p].version >= mem[p].start]_vars

\* Once nobody publishes any more, every reader ends up with the latest version
\* and stays there, whichever order the pointer was updated in.
Converges == <>[](LoadedVersion = latest)
=============================================================================
