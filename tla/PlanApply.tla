------------------------------ MODULE PlanApply ------------------------------
(***************************************************************************)
(* Applying an immutable publication plan: preflight of every target,      *)
(* confirmation, validation of every candidate, then one publication after *)
(* the other, with the removal of the drafts the plan was made from.       *)
(* Several runs of `fbrcm apply' of one plan may overlap, crash and be     *)
(* repeated while other users write to the targets and edit the drafts.    *)
(*                                                                         *)
(* A version number stands for its ETag; equal templates have equal        *)
(* digests.  One step is one network or file operation.                    *)
(***************************************************************************)
EXTENDS Integers, Sequences, FiniteSets

CONSTANTS
    Procs,
    Order,          \* the targets of the plan, in its canonical order
    Templates,
    Plan,           \* by target: action, base version, candidate, fingerprint
    First,          \* by target: the template the plan was made from
    MaxConsole,     \* bound on writes of other users
    MaxEdits,       \* bound on draft edits
    MaxFaults       \* bound on crashes, lost answers and failed stages

Targets == {Order[i] : i \in 1..Len(Order)}

\* Seal sorts the targets and Validate refuses duplicates; a target without a
\* draft has fingerprint 0.  The plan was made from version 1 of every target.
ASSUME OrderIsSequence == Order \in Seq(Targets) /\ \A i, j \in 1..Len(Order) : Order[i] = Order[j] => i = j
ASSUME PlanIsPlan ==
    Plan \in [Targets -> [action : {"publish", "none"}, cand : Templates, fingerprint : {0, 1}]]
ASSUME FirstTyped == First \in [Targets -> Templates]
ASSUME NoneIsUnchanged == \A t \in Targets : Plan[t].action = "none" => Plan[t].cand = First[t]
ASSUME BoundsAreNat == MaxConsole \in Nat /\ MaxEdits \in Nat /\ MaxFaults \in Nat

Base == 1
ToPublish == {t \in Targets : Plan[t].action = "publish"}

VARIABLES
    history,    \* by target: templates by version number
    log,        \* by target: who wrote each version (history variable)
    draft,      \* by target: stamp of the draft, 0 if there is none
    clock,      \* last stamp handed out
    pc, mem,
    console, edits, faults

vars == <<history, log, draft, clock, pc, mem, console, edits, faults>>
server == <<history, log>>
drafts == <<draft, clock>>

Statuses == {"none", "unchanged", "already-applied", "would-publish", "published",
             "published-hook-failed", "published-cache-failed", "conflict", "publish-failed"}
Accepted == {"published", "published-hook-failed", "published-cache-failed"}

\* at: position in the plan; prepared, stale: targets by their preflight; status:
\* the report; clean: targets whose drafts are to be removed next, and then where
\* to go; checked: clock when the draft was compared.  begun: versions when the
\* run began; wrote, lost: targets Firebase accepted, answers lost (history).
Blank == [dry |-> FALSE, at |-> 1, prepared |-> {}, stale |-> {},
          status |-> [t \in Targets |-> "none"], clean |-> {}, then |-> "idle", checked |-> 0,
          begun |-> [t \in Targets |-> 1], wrote |-> {}, lost |-> {}]

Labels == {"idle", "preflight", "confirm", "validate", "cleanLoad", "cleanDelete",
           "publish", "accepted", "report"}

Latest(t) == Len(history[t])
Current(t) == history[t][Latest(t)]

Init ==
    /\ history = [t \in Targets |-> <<First[t]>>]
    /\ log = [t \in Targets |-> <<"other">>]
    /\ draft = [t \in Targets |-> Plan[t].fingerprint]
    /\ clock = 1
    /\ pc = [p \in Procs |-> "idle"]
    /\ mem = [p \in Procs |-> Blank]
    /\ console = 0 /\ edits = 0 /\ faults = 0

Goto(p, label, m) ==
    /\ pc' = [pc EXCEPT ![p] = label]
    /\ mem' = [mem EXCEPT ![p] = m]

Stop(p) == Goto(p, "idle", Blank)
Fault == faults < MaxFaults /\ faults' = faults + 1

-----------------------------------------------------------------------------
Begin(p, dry) ==
    /\ pc[p] = "idle"
    /\ Goto(p, "preflight", [Blank EXCEPT !.dry = dry, !.begun = [t \in Targets |-> Latest(t)]])
    /\ UNCHANGED <<server, drafts, console, edits, faults>>

\* What the current template of a target means for the plan.
Applied(t) == Current(t) = Plan[t].cand
Stale(t) == Latest(t) # Base \/ Current(t) # First[t]

\* A mutant: what matters is the base, also when the candidate is already there.
ClassifyByBase(m, t) ==
    IF Stale(t) THEN [m EXCEPT !.stale = @ \cup {t}]
    ELSE IF Applied(t) THEN [m EXCEPT !.status[t] = "already-applied"]
    ELSE [m EXCEPT !.prepared = @ \cup {t}]

\* A mutant: a target whose base changed is left out, and the others go on.
ClassifySkipStale(m, t) ==
    IF Applied(t) THEN [m EXCEPT !.status[t] = "already-applied"]
    ELSE IF Stale(t) THEN [m EXCEPT !.status[t] = "conflict"]
    ELSE [m EXCEPT !.prepared = @ \cup {t}]

Classify(m, t) ==
    IF Applied(t) THEN [m EXCEPT !.status[t] = "already-applied"]
    ELSE IF Stale(t) THEN [m EXCEPT !.stale = @ \cup {t}]
    ELSE [m EXCEPT !.prepared = @ \cup {t}]

Preflight(p) ==
    /\ pc[p] = "preflight"
    /\ mem[p].at <= Len(Order)
    /\ LET t == Order[mem[p].at]
           m == [mem[p] EXCEPT !.at = @ + 1]
       IN  Goto(p, "preflight",
                IF Plan[t].action = "none" THEN [m EXCEPT !.status[t] = "unchanged"] ELSE Classify(m, t))
    /\ UNCHANGED <<server, drafts, console, edits, faults>>

AlreadyApplied(m) == {t \in Targets : m.status[t] = "already-applied"}

\* Remove the drafts of the targets that are applied, then go on.
CleanApplied(p, m, label) ==
    Goto(p, IF AlreadyApplied(m) = {} THEN label ELSE "cleanLoad",
         [m EXCEPT !.clean = AlreadyApplied(m), !.then = label])

\* A stale target refuses the plan; with nothing to publish the drafts go.
EndPreflight(p) ==
    /\ pc[p] = "preflight"
    /\ mem[p].at > Len(Order)
    /\ LET m == [mem[p] EXCEPT !.at = 1]
       IN  IF m.stale # {} THEN Stop(p)
           ELSE IF m.prepared # {} THEN Goto(p, "confirm", m)
           ELSE IF m.dry THEN Goto(p, "report", m)
           ELSE CleanApplied(p, m, "report")
    /\ UNCHANGED <<server, drafts, console, edits, faults>>

Confirm(p) ==
    /\ pc[p] = "confirm"
    /\ Goto(p, "validate", mem[p])
    /\ UNCHANGED <<server, drafts, console, edits, faults>>

Decline(p) ==
    /\ pc[p] = "confirm"
    /\ Stop(p)
    /\ UNCHANGED <<server, drafts, console, edits, faults>>

\* The targets that are prepared, in order: the next one, or none left.
Here(p) == Order[mem[p].at]
Skip(p) == mem[p].at <= Len(Order) /\ Here(p) \notin mem[p].prepared
More(p) == mem[p].at <= Len(Order) /\ Here(p) \in mem[p].prepared
Advance(m) == [m EXCEPT !.at = @ + 1]

SkipTarget(p) ==
    /\ pc[p] \in {"validate", "publish"}
    /\ Skip(p)
    /\ Goto(p, pc[p], Advance(mem[p]))
    /\ UNCHANGED <<server, drafts, console, edits, faults>>

\* Firebase refuses to validate against an ETag that is no longer current; a
\* refusal, or a pre-publish hook that fails, ends the run.
Validate(p) ==
    /\ pc[p] = "validate"
    /\ More(p)
    /\ IF Latest(Here(p)) = Base THEN Goto(p, "validate", Advance(mem[p])) ELSE Stop(p)
    /\ UNCHANGED <<server, drafts, console, edits, faults>>

EndValidation(p) ==
    /\ pc[p] = "validate"
    /\ mem[p].at > Len(Order)
    /\ LET m == [mem[p] EXCEPT !.at = 1]
       IN  IF m.dry
           THEN Goto(p, "report", [m EXCEPT !.status =
                    [t \in Targets |-> IF t \in m.prepared THEN "would-publish" ELSE m.status[t]]])
           ELSE CleanApplied(p, m, "publish")
    /\ UNCHANGED <<server, drafts, console, edits, faults>>

\* A mutant: the update is sent without If-Match.
WriteAlways(t) ==
    /\ history' = [history EXCEPT ![t] = Append(@, Plan[t].cand)]
    /\ log' = [log EXCEPT ![t] = Append(@, "plan")]

\* The server takes the candidate only on top of the planned base.
Write(t) ==
    /\ Latest(t) = Base
    /\ history' = [history EXCEPT ![t] = Append(@, Plan[t].cand)]
    /\ log' = [log EXCEPT ![t] = Append(@, "plan")]

Publish(p) ==
    /\ pc[p] = "publish"
    /\ More(p)
    /\ LET t == Here(p)
       IN  \/ Write(t) /\ Goto(p, "accepted", [mem[p] EXCEPT !.wrote = @ \cup {t}])
           \/ /\ Latest(t) # Base
              /\ UNCHANGED server
              /\ Goto(p, "publish", [Advance(mem[p]) EXCEPT !.status[t] = "conflict"])
    /\ UNCHANGED <<drafts, console, edits, faults>>

\* The update is accepted and its answer lost: the transport sends it again.
PublishAnswerLost(p) ==
    /\ pc[p] = "publish"
    /\ More(p)
    /\ Fault
    /\ Write(Here(p))
    /\ Goto(p, "publish", [mem[p] EXCEPT !.wrote = @ \cup {Here(p)}, !.lost = @ \cup {Here(p)}])
    /\ UNCHANGED <<drafts, console, edits>>

\* The request fails before the server takes it; the next target follows.
PublishFails(p) ==
    /\ pc[p] = "publish"
    /\ More(p)
    /\ Fault
    /\ Goto(p, "publish", [Advance(mem[p]) EXCEPT !.status[Here(p)] = "publish-failed"])
    /\ UNCHANGED <<server, drafts, console, edits>>

\* After acceptance the cache is written and the hook run; only when both succeed
\* is the draft removed.
Published(p) ==
    /\ pc[p] = "accepted"
    /\ Goto(p, "cleanLoad", [Advance(mem[p]) EXCEPT !.status[Here(p)] = "published",
                                                  !.clean = {Here(p)}, !.then = "publish"])
    /\ UNCHANGED <<server, drafts, console, edits, faults>>

\* A mutant: a failed hook is reported as a failed publication.
PublishedOrNot(p) ==
    /\ pc[p] = "accepted"
    /\ Fault
    /\ Goto(p, "publish", [Advance(mem[p]) EXCEPT !.status[Here(p)] = "publish-failed"])
    /\ UNCHANGED <<server, drafts, console, edits>>

PublishedWithFailure(p) ==
    /\ pc[p] = "accepted"
    /\ Fault
    /\ \E s \in {"published-hook-failed", "published-cache-failed"} :
        Goto(p, "publish", [Advance(mem[p]) EXCEPT !.status[Here(p)] = s])
    /\ UNCHANGED <<server, drafts, console, edits>>

EndPublication(p) ==
    /\ pc[p] = "publish"
    /\ mem[p].at > Len(Order)
    /\ Goto(p, "report", mem[p])
    /\ UNCHANGED <<server, drafts, console, edits, faults>>

-----------------------------------------------------------------------------
\* cleanupMatchingDraft: the draft is loaded and compared with the fingerprint of
\* the plan, then the draft there is at that time is removed.

Cleaned(p, t) ==
    LET m == [mem[p] EXCEPT !.clean = @ \ {t}]
    IN  Goto(p, IF m.clean = {} THEN m.then ELSE "cleanLoad", m)

\* A mutant: any draft of an applied target is removed.
CleanLoadAny(p) ==
    /\ pc[p] = "cleanLoad"
    /\ \E t \in mem[p].clean :
        IF Plan[t].fingerprint # 0 /\ draft[t] # 0
        THEN Goto(p, "cleanDelete", [mem[p] EXCEPT !.clean = {t} \cup @, !.checked = clock])
        ELSE Cleaned(p, t)
    /\ UNCHANGED <<server, drafts, console, edits, faults>>

NextDraft(p) == CHOOSE t \in mem[p].clean :
                \A u \in mem[p].clean : \E i, j \in 1..Len(Order) : Order[i] = t /\ Order[j] = u /\ i <= j

CleanLoad(p) ==
    /\ pc[p] = "cleanLoad"
    /\ LET t == NextDraft(p)
       IN  IF Plan[t].fingerprint # 0 /\ draft[t] = Plan[t].fingerprint
           THEN Goto(p, "cleanDelete", [mem[p] EXCEPT !.checked = clock])
           ELSE Cleaned(p, t)
    /\ UNCHANGED <<server, drafts, console, edits, faults>>

CleanDelete(p) ==
    /\ pc[p] = "cleanDelete"
    /\ draft' = [draft EXCEPT ![NextDraft(p)] = 0]
    /\ Cleaned(p, NextDraft(p))
    /\ UNCHANGED <<server, clock, console, edits, faults>>

\* A draft that cannot be removed is left with a warning.
CleanDeleteFails(p) ==
    /\ pc[p] = "cleanDelete"
    /\ Fault
    /\ Cleaned(p, NextDraft(p))
    /\ UNCHANGED <<server, drafts, console, edits>>

\* The report is written and the run ends.
Report(p) ==
    /\ pc[p] = "report"
    /\ Stop(p)
    /\ UNCHANGED <<server, drafts, console, edits, faults>>

-----------------------------------------------------------------------------
\* The environment.

ConsolePublish ==
    /\ console < MaxConsole
    /\ console' = console + 1
    /\ \E t \in Targets, new \in Templates :
        /\ history' = [history EXCEPT ![t] = Append(@, new)]
        /\ log' = [log EXCEPT ![t] = Append(@, "other")]
    /\ UNCHANGED <<drafts, pc, mem, edits, faults>>

EditDraft ==
    /\ edits < MaxEdits
    /\ edits' = edits + 1
    /\ clock' = clock + 1
    /\ \E t \in Targets : draft' = [draft EXCEPT ![t] = clock + 1]
    /\ UNCHANGED <<server, pc, mem, console, faults>>

\* A crash, or a read, hook or environment check that refuses before anything is
\* published: the run ends without a report.
Crash(p) ==
    /\ pc[p] # "idle"
    /\ Fault
    /\ Stop(p)
    /\ UNCHANGED <<server, drafts, console, edits>>

Continue(p) ==
    \/ Preflight(p) \/ EndPreflight(p) \/ Confirm(p) \/ Decline(p)
    \/ SkipTarget(p) \/ Validate(p) \/ EndValidation(p)
    \/ Publish(p) \/ Published(p) \/ EndPublication(p)
    \/ CleanLoad(p) \/ CleanDelete(p) \/ Report(p)

Disturb(p) ==
    \/ PublishAnswerLost(p) \/ PublishFails(p) \/ PublishedWithFailure(p)
    \/ CleanDeleteFails(p) \/ Crash(p)

Next ==
    \/ \E p \in Procs : (\E dry \in BOOLEAN : Begin(p, dry)) \/ Continue(p) \/ Disturb(p)
    \/ ConsolePublish \/ EditDraft

Spec == Init /\ [][Next]_vars

\* Fairness: a run goes on, and the user repeats it and confirms it in the end.
FairSpec ==
    /\ Spec
    /\ \A p \in Procs :
        /\ WF_vars(Continue(p))
        /\ SF_vars(Begin(p, FALSE))
        /\ SF_vars(~mem[p].dry /\ Confirm(p))

-----------------------------------------------------------------------------
\* Type invariant.
TypeOK ==
    /\ history \in [Targets -> Seq(Templates)] /\ \A t \in Targets : Latest(t) >= 1
    /\ log \in [Targets -> Seq({"plan", "other"})] /\ \A t \in Targets : Len(log[t]) = Latest(t)
    /\ draft \in [Targets -> Nat] /\ clock \in Nat
    /\ pc \in [Procs -> Labels]
    /\ mem \in [Procs -> [dry : BOOLEAN, at : 1..(Len(Order) + 1), prepared : SUBSET ToPublish,
                          stale : SUBSET ToPublish, status : [Targets -> Statuses],
                          clean : SUBSET Targets, then : {"idle", "publish", "report"},
                          checked : Nat, begun : [Targets -> Nat \ {0}],
                          wrote : SUBSET Targets, lost : SUBSET Targets]]
    /\ \A p \in Procs : pc[p] \in {"cleanLoad", "cleanDelete"} => mem[p].clean # {}

\* What a plan publishes replaces the very version the plan was made from, and
\* only once: repeated, overlapping and interrupted runs write each candidate at
\* most once and never over somebody else's version.
OverPlannedBase ==
    \A t \in Targets : \A v \in 1..Latest(t) :
        log[t][v] = "plan" => v = Base + 1 /\ history[t][v] = Plan[t].cand /\ t \in ToPublish

\* A run that publishes anything found, when it began or later, every target of
\* the plan at its base or its candidate.
Followed(t, from) == from = Base \/ \E v \in from..Latest(t) : history[t][v] = Plan[t].cand
NothingIfStale ==
    \A p \in Procs : mem[p].wrote # {} => \A t \in ToPublish : Followed(t, mem[p].begun[t])

\* A plan becomes stale only by what others write: an interrupted run, a lost
\* answer or an overlapping run never makes the rest refuse as stale.
StaleByOthers ==
    \A p \in Procs : \A t \in mem[p].stale : \E v \in 2..Latest(t) : log[t][v] = "other"

\* The report calls published only what Firebase accepted from this run, and
\* leaves out an accepted target only if its answer was lost.
Counted(m) == {t \in Targets : m.status[t] \in Accepted}
ReportIsTrue ==
    \A p \in Procs : pc[p] = "report" =>
        /\ Counted(mem[p]) \subseteq mem[p].wrote
        /\ mem[p].wrote \ mem[p].lost \subseteq Counted(mem[p])

\* A draft is removed only after the candidate made from it reached the server,
\* and only if it is the draft of the plan or was saved after the comparison.
DraftsKept ==
    [][\A p \in Procs : \A t \in Targets : (CleanDelete(p) /\ draft[t] # 0 /\ draft'[t] = 0) =>
            /\ \E v \in 1..Latest(t) : history[t][v] = Plan[t].cand
            /\ draft[t] = Plan[t].fingerprint \/ draft[t] > mem[p].checked]_vars

\* A user who keeps applying the plan gets every target published, unless somebody
\* else wrote to one of them.
Applies ==
    <>(\/ \A t \in ToPublish : \E v \in 1..Latest(t) : history[t][v] = Plan[t].cand
       \/ \E t \in ToPublish : \E v \in 2..Latest(t) : log[t][v] = "other")
=============================================================================
