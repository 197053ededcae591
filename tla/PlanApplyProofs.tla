--------------------------- MODULE PlanApplyProofs ---------------------------
(***************************************************************************)
(* PlanApply for every plan, every set of processes and every bound: what  *)
(* a plan writes and over what, why it is refused, what its report says,   *)
(* and which drafts it removes.                                            *)
(***************************************************************************)
EXTENDS PlanApply, WellFoundedInduction, TLAPS

-----------------------------------------------------------------------------
(***************************************************************************)
(* The inductive invariant.  h and g stand for the histories and the logs, *)
(* d and c for the drafts and the clock.                                   *)
(***************************************************************************)

\* Published versions: everything from the plan is over the base, and the
\* version the plan was made from is still version 1.
TargetOK(h, g, t) ==
    /\ h[t] \in Seq(Templates) /\ Len(h[t]) >= 1 /\ h[t][1] = First[t]
    /\ g[t] \in Seq({"plan", "other"}) /\ Len(g[t]) = Len(h[t])
    /\ \A v \in 1..Len(h[t]) : g[t][v] = "plan" => v = Base + 1 /\ h[t][v] = Plan[t].cand /\ t \in ToPublish

WorldOK(h, g) ==
    /\ h = [t \in Targets |-> h[t]] /\ g = [t \in Targets |-> g[t]]
    /\ \A t \in Targets : TargetOK(h, g, t)

DraftsOK(d, c) == d \in [Targets -> Nat] /\ c \in Nat

Memories ==
    [dry : BOOLEAN, at : 1..(Len(Order) + 1), prepared : SUBSET ToPublish,
     stale : SUBSET ToPublish, status : [Targets -> Statuses],
     clean : SUBSET Targets, then : {"idle", "publish", "report"},
     checked : Nat, begun : [Targets -> Nat \ {0}],
     wrote : SUBSET Targets, lost : SUBSET Targets]

Reached(h, t) == \E v \in 1..Len(h[t]) : h[t][v] = Plan[t].cand
ByOthers(h, g, t) == \E v \in 2..Len(h[t]) : g[t][v] = "other"
Caught(h, t, from) == from = Base \/ \E v \in from..Len(h[t]) : h[t][v] = Plan[t].cand

Before == {"idle", "preflight", "confirm", "validate"}
Cleaning == {"cleanLoad", "cleanDelete"}

\* The report agrees with what was written, the target x aside.
Agree(m, x) == Counted(m) \subseteq m.wrote /\ m.wrote \ m.lost \subseteq Counted(m) \cup x
\* Nothing is reported yet of the targets that are still to come.
Ahead(m) == \A i \in m.at..Len(Order) : m.status[Order[i]] \notin Accepted

\* What a process at label l with memory m knows of the server.
KnownOK(l, m, h, g) ==
    /\ \A t \in Targets : m.begun[t] <= Len(h[t])
    /\ \A t \in m.stale : ByOthers(h, g, t)
    /\ \A t \in Targets : m.status[t] = "already-applied" => Reached(h, t)
    /\ l \in Cleaning => \A t \in m.clean : Reached(h, t)
    /\ l = "accepted" => Reached(h, Order[m.at])
    /\ l = "preflight" => \A i \in 1..(m.at - 1) : Order[i] \in ToPublish =>
                            Order[i] \in m.stale \/ Caught(h, Order[i], m.begun[Order[i]])
    /\ l \notin {"idle", "preflight"} => \A t \in ToPublish : Caught(h, t, m.begun[t])

\* What its report says.
CountOK(l, m) ==
    /\ l \in Before => m.wrote = {} /\ Counted(m) = {}
    /\ l # "accepted" => Agree(m, {})
    /\ l \in Cleaning => m.clean # {} /\ m.then # "idle"
    /\ l \in {"publish", "accepted"} \/ (l \in Cleaning /\ m.then = "publish") => Ahead(m)
    /\ l = "accepted" => m.at <= Len(Order) /\ Order[m.at] \in m.wrote /\ Agree(m, {Order[m.at]})

\* What it knows of the draft it is about to remove.
FirstOf(T) == CHOOSE t \in T : \A u \in T : \E i, j \in 1..Len(Order) : Order[i] = t /\ Order[j] = u /\ i <= j
ComparedOK(l, m, d, c) ==
    l = "cleanDelete" =>
        /\ m.checked <= c
        /\ d[FirstOf(m.clean)] \in {0, Plan[FirstOf(m.clean)].fingerprint} \/ d[FirstOf(m.clean)] > m.checked

ProcOK(l, m, h, g, d, c) ==
    m \in Memories /\ KnownOK(l, m, h, g) /\ CountOK(l, m) /\ ComparedOK(l, m, d, c)

ProcsOK ==
    /\ pc \in [Procs -> Labels]
    /\ mem = [p \in Procs |-> mem[p]]
    /\ \A p \in Procs : ProcOK(pc[p], mem[p], history, log, draft, clock)

Inv == WorldOK(history, log) /\ DraftsOK(draft, clock) /\ ProcsOK

-----------------------------------------------------------------------------
(***************************************************************************)
(* The plan's order.                                                       *)
(***************************************************************************)

LEMMA Least ==
    ASSUME NEW T, T \subseteq Nat, T # {}
    PROVE  \E x \in T : \A y \in T : x <= y
  <1> DEFINE R == OpToRel(<, Nat)
  <1>1. IsWellFoundedOn(R, Nat)
    BY NatLessThanWellFounded
  <1> HIDE DEF R
  <1>2. PICK x \in T : \A y \in T : ~(<<y, x>> \in R)
    BY <1>1, WFMin
  <1>3. \A y \in T : ~(y < x)
    BY <1>2 DEF R, OpToRel
  <1> QED BY <1>3

LEMMA Positions ==
    /\ Len(Order) \in Nat
    /\ \A i \in 1..Len(Order) : Order[i] \in Targets
    /\ \A t \in Targets : \E i \in 1..Len(Order) : Order[i] = t
    /\ \A i, j \in 1..Len(Order) : Order[i] = Order[j] => i = j
  BY OrderIsSequence DEF Targets

LEMMA FirstOfIsOne ==
    ASSUME NEW T \in SUBSET Targets, T # {}
    PROVE  FirstOf(T) \in T
  <1> DEFINE I == {i \in 1..Len(Order) : Order[i] \in T}
  <1>1. I \subseteq Nat /\ I # {}
    BY Positions
  <1>2. PICK i \in I : \A j \in I : i <= j
    BY <1>1, Least
  <1>3. \A u \in T : \E j \in I : Order[j] = u
    BY Positions
  <1>4. Order[i] \in T /\ \A u \in T : \E k, j \in 1..Len(Order) : Order[k] = Order[i] /\ Order[j] = u /\ k <= j
    BY <1>2, <1>3
  <1> QED BY <1>4 DEF FirstOf

LEMMA PlanTyped ==
    ASSUME NEW t \in Targets
    PROVE  /\ Plan[t].action \in {"publish", "none"} /\ Plan[t].cand \in Templates
           /\ Plan[t].fingerprint \in {0, 1} /\ First[t] \in Templates
  BY PlanIsPlan, FirstTyped

-----------------------------------------------------------------------------
(***************************************************************************)
(* What others do leaves a process's knowledge true.                       *)
(***************************************************************************)

\* Histories only grow; a draft changes only to nothing or to a later stamp.
Grow(h, g, hh, gg) ==
    \A t \in Targets :
        /\ Len(h[t]) \in Nat /\ Len(hh[t]) \in Nat /\ Len(h[t]) <= Len(hh[t])
        /\ \A v \in 1..Len(h[t]) : hh[t][v] = h[t][v] /\ gg[t][v] = g[t][v]
Move(d, c, dd, cc) ==
    /\ c \in Nat /\ cc \in Nat /\ c <= cc
    /\ \A t \in Targets : d[t] \in Nat /\ dd[t] \in Nat /\ (dd[t] \in {0, d[t]} \/ dd[t] > c)

LEMMA ReachedGrows ==
    ASSUME NEW h, NEW g, NEW hh, NEW gg, Grow(h, g, hh, gg), NEW t \in Targets
    PROVE  /\ Reached(h, t) => Reached(hh, t)
           /\ ByOthers(h, g, t) => ByOthers(hh, gg, t)
           /\ \A from \in Nat \ {0} : Caught(h, t, from) => Caught(hh, t, from)
  <1>1. /\ Len(h[t]) \in Nat /\ Len(hh[t]) \in Nat /\ Len(h[t]) <= Len(hh[t])
        /\ \A v \in 1..Len(h[t]) : hh[t][v] = h[t][v] /\ gg[t][v] = g[t][v]
    BY DEF Grow
  <1>2. Reached(h, t) => Reached(hh, t)
    BY <1>1 DEF Reached
  <1>3. ByOthers(h, g, t) => ByOthers(hh, gg, t)
    BY <1>1 DEF ByOthers
  <1>4. ASSUME NEW from \in Nat \ {0}, Caught(h, t, from) PROVE Caught(hh, t, from)
    BY <1>1, <1>4 DEF Caught
  <1> QED BY <1>2, <1>3, <1>4

LEMMA KnownGrows ==
    ASSUME NEW h, NEW g, NEW hh, NEW gg, Grow(h, g, hh, gg),
           NEW l, NEW m \in Memories, KnownOK(l, m, h, g), l = "accepted" => m.at <= Len(Order)
    PROVE  KnownOK(l, m, hh, gg)
  <1>1. /\ m.begun \in [Targets -> Nat \ {0}] /\ m.stale \subseteq Targets /\ m.clean \subseteq Targets
        /\ ToPublish \subseteq Targets /\ m.at \in 1..(Len(Order) + 1)
    BY DEF Memories, ToPublish
  <1>2. \A t \in Targets : m.begun[t] <= Len(hh[t])
    BY <1>1 DEF KnownOK, Grow
  <1>3. \A t \in m.stale : ByOthers(hh, gg, t)
    BY <1>1, ReachedGrows DEF KnownOK
  <1>4. \A t \in Targets : m.status[t] = "already-applied" => Reached(hh, t)
    BY ReachedGrows DEF KnownOK
  <1>5. l \in Cleaning => \A t \in m.clean : Reached(hh, t)
    BY <1>1, ReachedGrows DEF KnownOK
  <1>6. l = "accepted" => Reached(hh, Order[m.at])
    <2>1. l = "accepted" => Order[m.at] \in Targets
      BY <1>1, Positions
    <2> QED BY <2>1, ReachedGrows DEF KnownOK
  <1>7. l = "preflight" => \A i \in 1..(m.at - 1) : Order[i] \in ToPublish =>
                            Order[i] \in m.stale \/ Caught(hh, Order[i], m.begun[Order[i]])
    <2>1. ASSUME NEW t \in ToPublish, Caught(h, t, m.begun[t]) PROVE Caught(hh, t, m.begun[t])
      BY <1>1, <2>1, ReachedGrows
    <2> QED BY <2>1 DEF KnownOK
  <1>8. l \notin {"idle", "preflight"} => \A t \in ToPublish : Caught(hh, t, m.begun[t])
    <2>1. ASSUME NEW t \in ToPublish, Caught(h, t, m.begun[t]) PROVE Caught(hh, t, m.begun[t])
      BY <1>1, <2>1, ReachedGrows
    <2> QED BY <2>1 DEF KnownOK
  <1> QED BY <1>2, <1>3, <1>4, <1>5, <1>6, <1>7, <1>8 DEF KnownOK

LEMMA ComparedMoves ==
    ASSUME NEW d, NEW c, NEW dd, NEW cc, Move(d, c, dd, cc),
           NEW l, NEW m \in Memories, CountOK(l, m), ComparedOK(l, m, d, c)
    PROVE  ComparedOK(l, m, dd, cc)
  <1> SUFFICES ASSUME l = "cleanDelete" PROVE ComparedOK(l, m, dd, cc)
    BY DEF ComparedOK
  <1> DEFINE t == FirstOf(m.clean)
  <1>1. m.clean # {} /\ m.clean \subseteq Targets /\ m.checked \in Nat
    BY DEF CountOK, Cleaning, Memories
  <1>2. t \in Targets
    BY <1>1, FirstOfIsOne
  <1>3. m.checked <= c /\ (d[t] \in {0, Plan[t].fingerprint} \/ d[t] > m.checked)
    BY DEF ComparedOK
  <1> HIDE DEF t
  <1>4. /\ c \in Nat /\ cc \in Nat /\ c <= cc /\ d[t] \in Nat /\ dd[t] \in Nat
        /\ (dd[t] \in {0, d[t]} \/ dd[t] > c)
    BY <1>2 DEF Move
  <1>5. m.checked <= cc /\ (dd[t] \in {0, Plan[t].fingerprint} \/ dd[t] > m.checked)
    BY <1>1, <1>3, <1>4
  <1> QED BY <1>5 DEF ComparedOK, t

LEMMA ProcGrows ==
    ASSUME NEW h, NEW g, NEW hh, NEW gg, Grow(h, g, hh, gg),
           NEW d, NEW c, NEW dd, NEW cc, Move(d, c, dd, cc),
           NEW l, NEW m, ProcOK(l, m, h, g, d, c)
    PROVE  ProcOK(l, m, hh, gg, dd, cc)
  <1>1. KnownOK(l, m, hh, gg)
    <2>1. l = "accepted" => m.at <= Len(Order)
      BY DEF ProcOK, CountOK
    <2> QED BY <2>1, KnownGrows DEF ProcOK
  <1>2. ComparedOK(l, m, dd, cc)
    BY ComparedMoves DEF ProcOK
  <1> QED BY <1>1, <1>2 DEF ProcOK

-----------------------------------------------------------------------------
(***************************************************************************)
(* The frame of a step: one process goes on, the others stay.              *)
(***************************************************************************)

LEMMA GrowSame == ASSUME WorldOK(history, log) PROVE Grow(history, log, history, log)
  BY DEF WorldOK, TargetOK, Grow

LEMMA MoveSame == ASSUME DraftsOK(draft, clock) PROVE Move(draft, clock, draft, clock)
  BY DEF DraftsOK, Move

LEMMA StepKeeps ==
    ASSUME Inv, NEW p \in Procs, NEW l \in Labels, NEW m, Goto(p, l, m),
           WorldOK(history', log'), DraftsOK(draft', clock'),
           Grow(history, log, history', log'), Move(draft, clock, draft', clock'),
           ProcOK(l, m, history', log', draft', clock')
    PROVE  Inv'
  <1>1. pc' \in [Procs -> Labels] /\ pc'[p] = l /\ \A q \in Procs \ {p} : pc'[q] = pc[q]
    BY DEF Inv, ProcsOK, Goto
  <1>2. mem' = [mem EXCEPT ![p] = m] /\ mem = [q \in Procs |-> mem[q]]
    BY DEF Inv, ProcsOK, Goto
  <1>3. mem' = [q \in Procs |-> mem'[q]] /\ mem'[p] = m /\ \A q \in Procs \ {p} : mem'[q] = mem[q]
    BY <1>2
  <1>4. ASSUME NEW q \in Procs \ {p} PROVE ProcOK(pc'[q], mem'[q], history', log', draft', clock')
    <2>1. ProcOK(pc[q], mem[q], history, log, draft, clock)
      BY DEF Inv, ProcsOK
    <2> QED BY <1>1, <1>3, <2>1, ProcGrows
  <1>5. ProcsOK'
    BY <1>1, <1>3, <1>4 DEF ProcsOK
  <1> QED BY <1>5 DEF Inv

\* A process that changes nothing but its own memory.
LEMMA QuietKeeps ==
    ASSUME Inv, NEW p \in Procs, NEW l \in Labels, NEW m, Goto(p, l, m),
           UNCHANGED <<server, drafts>>, ProcOK(l, m, history, log, draft, clock)
    PROVE  Inv'
  <1>1. history' = history /\ log' = log /\ draft' = draft /\ clock' = clock
    BY DEF server, drafts
  <1>2. WorldOK(history, log) /\ DraftsOK(draft, clock)
    BY DEF Inv
  <1> QED BY <1>1, <1>2, GrowSame, MoveSame, StepKeeps

LEMMA BlankOK ==
    ASSUME Inv
    PROVE  ProcOK("idle", Blank, history, log, draft, clock) /\ "idle" \in Labels
  <1>1. Blank \in Memories
    BY Positions DEF Blank, Memories, Statuses
  <1>2. \A t \in Targets : Len(history[t]) \in Nat /\ Len(history[t]) >= 1
    BY DEF Inv, WorldOK, TargetOK
  <1>3. KnownOK("idle", Blank, history, log)
    BY <1>2 DEF KnownOK, Blank, Cleaning
  <1>4. CountOK("idle", Blank)
    BY DEF CountOK, Blank, Counted, Accepted, Agree, Cleaning, Before
  <1> QED BY <1>1, <1>3, <1>4 DEF ProcOK, ComparedOK, Labels

LEMMA StopKeeps ==
    ASSUME Inv, NEW p \in Procs, Stop(p), UNCHANGED <<server, drafts>>
    PROVE  Inv'
  BY BlankOK, QuietKeeps DEF Stop

\* What is known of a process.
LEMMA Known ==
    ASSUME Inv, NEW p \in Procs
    PROVE  /\ ProcOK(pc[p], mem[p], history, log, draft, clock)
           /\ mem[p] \in Memories
           /\ \A t \in Targets : TargetOK(history, log, t)
           /\ \A t \in Targets : Len(history[t]) \in Nat /\ Len(history[t]) >= 1
  <1>1. ProcOK(pc[p], mem[p], history, log, draft, clock)
    BY DEF Inv, ProcsOK
  <1>2. \A t \in Targets : TargetOK(history, log, t)
    BY DEF Inv, WorldOK
  <1>3. \A t \in Targets : Len(history[t]) \in Nat /\ Len(history[t]) >= 1
    BY <1>2 DEF TargetOK
  <1> QED BY <1>1, <1>2, <1>3 DEF ProcOK

-----------------------------------------------------------------------------
(***************************************************************************)
(* Preflight.                                                              *)
(***************************************************************************)

LEMMA BeginKeeps == ASSUME Inv, NEW p \in Procs, NEW dry \in BOOLEAN, Begin(p, dry) PROVE Inv'
  <1> DEFINE b == [t \in Targets |-> Latest(t)]
             m == [Blank EXCEPT !.dry = dry, !.begun = b]
  <1>1. \A t \in Targets : Latest(t) \in Nat \ {0} /\ Latest(t) = Len(history[t])
    BY Known DEF Latest
  <1>2. b \in [Targets -> Nat \ {0}] /\ \A t \in Targets : b[t] = Len(history[t])
    BY <1>1
  <1> HIDE DEF b
  <1>3. m \in Memories /\ m.begun = b /\ m.stale = {} /\ m.at = 1 /\ m.wrote = {} /\ m.status = [t \in Targets |-> "none"]
    <2>1. Blank \in Memories
      BY Positions DEF Blank, Memories, Statuses
    <2>2. m \in Memories
      BY <1>2, <2>1 DEF Memories
    <2> QED BY <2>2 DEF Blank
  <1> HIDE DEF m
  <1>4. KnownOK("preflight", m, history, log)
    BY <1>1, <1>2, <1>3 DEF KnownOK, Cleaning
  <1>5. CountOK("preflight", m)
    BY <1>3 DEF CountOK, Counted, Accepted, Agree, Cleaning, Before
  <1>6. ProcOK("preflight", m, history, log, draft, clock) /\ "preflight" \in Labels
    BY <1>3, <1>4, <1>5 DEF ProcOK, ComparedOK, Labels
  <1>7. Goto(p, "preflight", m)
    BY DEF Begin, m, b
  <1> QED BY <1>6, <1>7, QuietKeeps DEF Begin

\* A target that is neither applied nor stale is at its base; one that is stale
\* and not applied was written by somebody else.
LEMMA StaleMeans ==
    ASSUME Inv, NEW t \in Targets
    PROVE  /\ ~Stale(t) => Len(history[t]) = Base
           /\ Stale(t) /\ ~Applied(t) => ByOthers(history, log, t)
  <1>1. /\ history[t] \in Seq(Templates) /\ Len(history[t]) \in Nat /\ Len(history[t]) >= 1
        /\ history[t][1] = First[t] /\ log[t] \in Seq({"plan", "other"}) /\ Len(log[t]) = Len(history[t])
        /\ \A v \in 1..Len(history[t]) : log[t][v] = "plan" => v = Base + 1 /\ history[t][v] = Plan[t].cand
    BY DEF Inv, WorldOK, TargetOK
  <1>2. ASSUME Stale(t), ~Applied(t) PROVE ByOthers(history, log, t)
    <2> DEFINE n == Len(history[t])
    <2>1. history[t][n] # Plan[t].cand /\ (n # 1 \/ history[t][n] # First[t])
      BY <1>2 DEF Stale, Applied, Current, Latest, Base
    <2>2. n >= 2
      <3>1. n = 1 => history[t][n] = First[t]
        BY <1>1
      <3>2. n \in Nat /\ n >= 1
        BY <1>1
      <3> HIDE DEF n
      <3> QED BY <2>1, <3>1, <3>2
    <2>3. log[t][n] # "plan" /\ n \in 2..n
      BY <1>1, <2>1, <2>2
    <2>4. log[t][n] \in {"plan", "other"}
      BY <1>1, <2>2
    <2> QED BY <2>3, <2>4 DEF ByOthers
  <1> QED BY <1>2 DEF Stale, Latest


LEMMA PreflightKeeps == ASSUME Inv, NEW p \in Procs, Preflight(p) PROVE Inv'
  <1> DEFINE t == Order[mem[p].at]
             o == mem[p]
             m == [o EXCEPT !.at = @ + 1]
             n == IF Plan[t].action = "none" THEN [m EXCEPT !.status[t] = "unchanged"] ELSE Classify(m, t)
  <1>1. /\ ProcOK("preflight", o, history, log, draft, clock) /\ o \in Memories
        /\ o.at \in 1..Len(Order) /\ t \in Targets /\ Len(history[t]) \in Nat /\ Len(history[t]) >= 1
    BY Known, Positions DEF Preflight, Memories
  <1>2. /\ n \in Memories /\ n.at = o.at + 1 /\ n.begun = o.begun /\ n.wrote = o.wrote /\ n.lost = o.lost
        /\ \/ Plan[t].action = "none" /\ n.stale = o.stale /\ n.status = [o.status EXCEPT ![t] = "unchanged"]
           \/ /\ Plan[t].action # "none" /\ Applied(t) /\ n.stale = o.stale
              /\ n.status = [o.status EXCEPT ![t] = "already-applied"]
           \/ /\ Plan[t].action # "none" /\ ~Applied(t) /\ Stale(t)
              /\ n.stale = o.stale \cup {t} /\ n.status = o.status
           \/ /\ Plan[t].action # "none" /\ ~Applied(t) /\ ~Stale(t)
              /\ n.stale = o.stale /\ n.status = o.status
    <2>1. t \in ToPublish \/ Plan[t].action = "none"
      BY <1>1, PlanTyped DEF ToPublish
    <2> HIDE DEF t, o
    <2>2. o.at + 1 \in 1..(Len(Order) + 1)
      BY <1>1, Positions
    <2>3. m \in Memories /\ m.at = o.at + 1 /\ m.begun = o.begun /\ m.wrote = o.wrote /\ m.lost = o.lost
          /\ m.stale = o.stale /\ m.status = o.status
      BY <1>1, <2>2 DEF Memories
    <2> HIDE DEF m
    <2>4. CASE Plan[t].action = "none"
      BY <1>1, <2>3, <2>4 DEF Memories, Statuses
    <2>5. CASE Plan[t].action # "none" /\ Applied(t)
      BY <1>1, <2>3, <2>5 DEF Memories, Statuses, Classify
    <2>6. CASE Plan[t].action # "none" /\ ~Applied(t) /\ Stale(t)
      BY <1>1, <2>1, <2>3, <2>6 DEF Memories, Classify
    <2>7. CASE Plan[t].action # "none" /\ ~Applied(t) /\ ~Stale(t)
      BY <1>1, <2>1, <2>3, <2>7 DEF Memories, Classify
    <2> QED BY <2>4, <2>5, <2>6, <2>7
  <1>3. Goto(p, "preflight", n)
    BY DEF Preflight
  <1>4. /\ o.begun[t] \in Nat \ {0} /\ o.begun[t] <= Len(history[t]) /\ o.status \in [Targets -> Statuses]
        /\ t \in ToPublish => Plan[t].action # "none"
        /\ Applied(t) => Reached(history, t)
    <2>1. o.begun[t] \in Nat \ {0} /\ o.begun[t] <= Len(history[t]) /\ o.status \in [Targets -> Statuses]
      BY <1>1 DEF ProcOK, KnownOK, Memories
    <2>2. t \in ToPublish => Plan[t].action # "none"
      BY DEF ToPublish
    <2>3. Applied(t) => Reached(history, t)
      BY <1>1 DEF Applied, Current, Latest, Reached
    <2> QED BY <2>1, <2>2, <2>3
  <1> HIDE DEF n, o, t
  <1>5. Applied(t) \/ ~Stale(t) => Caught(history, t, o.begun[t])
    <2>1. Applied(t) => Caught(history, t, o.begun[t])
      BY <1>1, <1>4 DEF Applied, Current, Latest, Caught
    <2>2. ~Stale(t) => o.begun[t] = Base
      <3>1. ~Stale(t) => Len(history[t]) = Base
        BY <1>1, StaleMeans
      <3>2. o.begun[t] \in Nat \ {0} /\ o.begun[t] <= Len(history[t])
        BY <1>4
      <3>3. Len(history[t]) = Base => o.begun[t] = Base
        BY <3>2 DEF Base
      <3> QED BY <3>1, <3>3
    <2> QED BY <2>1, <2>2 DEF Caught
  <1>6. KnownOK("preflight", n, history, log)
    <2>1. \A s \in Targets : n.begun[s] <= Len(history[s])
      BY <1>1, <1>2 DEF ProcOK, KnownOK
    <2>2. \A s \in n.stale : ByOthers(history, log, s)
      BY <1>1, <1>2, StaleMeans DEF ProcOK, KnownOK
    <2>3. \A s \in Targets : n.status[s] = "already-applied" => Reached(history, s)
      BY <1>1, <1>2, <1>4 DEF ProcOK, KnownOK
    <2>4. \A i \in 1..(n.at - 1) : Order[i] \in ToPublish =>
              Order[i] \in n.stale \/ Caught(history, Order[i], n.begun[Order[i]])
      <3> SUFFICES ASSUME NEW i \in 1..(n.at - 1), Order[i] \in ToPublish
                   PROVE  Order[i] \in n.stale \/ Caught(history, Order[i], n.begun[Order[i]])
        OBVIOUS
      <3>1. CASE i = o.at
        <4>1. Order[i] = t /\ Plan[t].action # "none"
          BY <1>4, <3>1 DEF o, t
        <4> QED BY <1>2, <1>5, <4>1
      <3>2. CASE i # o.at
        <4>1. i \in 1..(o.at - 1)
          BY <1>1, <1>2, <3>2
        <4> QED BY <1>1, <1>2, <4>1 DEF ProcOK, KnownOK
      <3> QED BY <3>1, <3>2
    <2> QED BY <2>1, <2>2, <2>3, <2>4 DEF KnownOK, Cleaning
  <1>7. CountOK("preflight", n)
    <2>1. o.wrote = {} /\ Counted(o) = {}
      BY <1>1 DEF ProcOK, CountOK, Before
    <2>2. Counted(n) = {}
      BY <1>2, <1>4, <2>1 DEF Counted, Accepted
    <2> QED BY <1>2, <2>1, <2>2 DEF CountOK, Before, Cleaning, Agree
  <1>8. ProcOK("preflight", n, history, log, draft, clock) /\ "preflight" \in Labels
    BY <1>2, <1>6, <1>7 DEF ProcOK, ComparedOK, Labels
  <1> QED BY <1>3, <1>8, QuietKeeps DEF Preflight

-----------------------------------------------------------------------------
(***************************************************************************)
(* From preflight to publication.                                          *)
(***************************************************************************)

\* After preflight a process keeps what it knows, whatever it reports besides.
LEMMA KnownSame ==
    ASSUME NEW h, NEW g, NEW l, l \notin {"idle", "preflight"}, NEW m \in Memories, KnownOK(l, m, h, g),
           NEW k, k \notin Cleaning \cup {"accepted", "preflight"}, NEW n \in Memories,
           n.begun = m.begun, n.stale = m.stale,
           \A t \in Targets : n.status[t] = "already-applied" => m.status[t] = "already-applied"
    PROVE  KnownOK(k, n, h, g)
  BY DEF KnownOK

\* A process that has written nothing agrees with any label.
LEMMA NothingWritten ==
    ASSUME NEW m \in Memories, m.wrote = {}, Counted(m) = {}, NEW l, l \notin Cleaning \cup {"accepted"},
           l = "publish" => m.at = 1
    PROVE  CountOK(l, m)
  <1>1. \A i \in 1..Len(Order) : m.status[Order[i]] \notin Accepted
    BY Positions DEF Counted
  <1> QED BY <1>1 DEF CountOK, Agree, Ahead

\* Back to the first target.
LEMMA MemoryRestart ==
    ASSUME NEW o \in Memories
    PROVE  LET m == [o EXCEPT !.at = 1]
           IN  /\ m \in Memories /\ m.begun = o.begun /\ m.stale = o.stale /\ m.status = o.status
               /\ m.at = 1 /\ m.wrote = o.wrote
  <1> DEFINE m == [o EXCEPT !.at = 1]
  <1>1. 1 \in 1..(Len(Order) + 1)
    BY Positions
  <1>2. m \in Memories
    BY <1>1 DEF Memories
  <1>3. m.begun = o.begun /\ m.stale = o.stale /\ m.status = o.status /\ m.at = 1 /\ m.wrote = o.wrote
    BY DEF Memories
  <1> QED BY <1>2, <1>3

\* The drafts of the targets that are applied, if there are any, come next.
LEMMA CleanAppliedKeeps ==
    ASSUME Inv, NEW p \in Procs, NEW m \in Memories, NEW label \in {"publish", "report"},
           CleanApplied(p, m, label), UNCHANGED <<server, drafts>>,
           KnownOK("confirm", m, history, log), m.wrote = {}, Counted(m) = {}, m.at = 1
    PROVE  Inv'
  <1> DEFINE n == [m EXCEPT !.clean = AlreadyApplied(m), !.then = label]
             l == IF AlreadyApplied(m) = {} THEN label ELSE "cleanLoad"
  <1>1. /\ n \in Memories /\ n.begun = m.begun /\ n.stale = m.stale /\ n.status = m.status /\ n.at = 1
        /\ n.wrote = {} /\ n.clean = AlreadyApplied(m) /\ n.then = label
    BY DEF Memories, AlreadyApplied
  <1>2. Goto(p, l, n) /\ l \in Labels
    BY DEF CleanApplied, Labels
  <1> HIDE DEF n
  <1>3. Counted(n) = {}
    BY <1>1 DEF Counted
  <1>4. KnownOK("confirm", n, history, log)
    BY <1>1, KnownSame DEF Cleaning
  <1>5. KnownOK(l, n, history, log)
    BY <1>1, <1>4 DEF KnownOK, AlreadyApplied, Cleaning
  <1>6. CountOK("publish", n)
    BY <1>1, <1>3, NothingWritten DEF Cleaning
  <1>7. CountOK(l, n)
    BY <1>1, <1>3, <1>6 DEF CountOK, Cleaning, Agree, Before
  <1>8. ProcOK(l, n, history, log, draft, clock)
    BY <1>1, <1>5, <1>7 DEF ProcOK, ComparedOK
  <1> QED BY <1>2, <1>8, QuietKeeps

LEMMA EndPreflightKeeps == ASSUME Inv, NEW p \in Procs, EndPreflight(p) PROVE Inv'
  <1> DEFINE m == [mem[p] EXCEPT !.at = 1]
  <1>1. /\ ProcOK("preflight", mem[p], history, log, draft, clock) /\ mem[p] \in Memories
        /\ mem[p].at = Len(Order) + 1
    BY Known, Positions DEF EndPreflight, Memories
  <1>2. /\ m \in Memories /\ m.begun = mem[p].begun /\ m.stale = mem[p].stale /\ m.status = mem[p].status
        /\ m.at = 1 /\ m.wrote = mem[p].wrote
    BY <1>1, MemoryRestart
  <1>3. m.wrote = {} /\ Counted(m) = {}
    BY <1>1, <1>2 DEF ProcOK, CountOK, Before, Counted
  <1>4. UNCHANGED <<server, drafts>>
    BY DEF EndPreflight
  <1>5. \/ m.stale # {} /\ Stop(p)
        \/ m.stale = {} /\ Goto(p, "confirm", m)
        \/ m.stale = {} /\ Goto(p, "report", m)
        \/ m.stale = {} /\ CleanApplied(p, m, "report")
    BY DEF EndPreflight
  <1> HIDE DEF m
  <1>6. ASSUME m.stale = {} PROVE KnownOK("confirm", m, history, log) /\ KnownOK("report", m, history, log)
    <2>1. \A i \in 1..Len(Order) : Order[i] \in ToPublish => Caught(history, Order[i], m.begun[Order[i]])
      BY <1>1, <1>2, <1>6, Positions DEF ProcOK, KnownOK
    <2>2. \A t \in ToPublish : Caught(history, t, m.begun[t])
      BY <2>1, Positions DEF ToPublish
    <2> QED BY <1>1, <1>2, <2>2 DEF ProcOK, KnownOK, Cleaning
  <1>7. CountOK("confirm", m) /\ CountOK("report", m)
    BY <1>2, <1>3, NothingWritten DEF Cleaning
  <1>8. CASE m.stale # {} /\ Stop(p)
    BY <1>4, <1>8, StopKeeps
  <1>9. CASE m.stale = {} /\ Goto(p, "confirm", m)
    BY <1>2, <1>4, <1>6, <1>7, <1>9, QuietKeeps DEF ProcOK, ComparedOK, Labels
  <1>10. CASE m.stale = {} /\ Goto(p, "report", m)
    BY <1>2, <1>4, <1>6, <1>7, <1>10, QuietKeeps DEF ProcOK, ComparedOK, Labels
  <1>11. CASE m.stale = {} /\ CleanApplied(p, m, "report")
    BY <1>2, <1>3, <1>4, <1>6, <1>11, CleanAppliedKeeps
  <1> QED BY <1>5, <1>8, <1>9, <1>10, <1>11

LEMMA ConfirmKeeps == ASSUME Inv, NEW p \in Procs, Confirm(p) PROVE Inv'
  <1>1. ProcOK("confirm", mem[p], history, log, draft, clock)
    BY Known DEF Confirm
  <1>2. ProcOK("validate", mem[p], history, log, draft, clock) /\ "validate" \in Labels
    BY <1>1 DEF ProcOK, KnownOK, CountOK, ComparedOK, Labels, Cleaning, Before
  <1>3. Goto(p, "validate", mem[p]) /\ UNCHANGED <<server, drafts>>
    BY DEF Confirm
  <1> QED BY <1>2, <1>3, QuietKeeps

LEMMA DeclineKeeps == ASSUME Inv, NEW p \in Procs, Decline(p) PROVE Inv'
  BY StopKeeps DEF Decline

\* A process that goes on to the next target.
LEMMA AdvanceOK ==
    ASSUME Inv, NEW p \in Procs, pc[p] \in {"validate", "publish"}, mem[p].at <= Len(Order)
    PROVE  ProcOK(pc[p], Advance(mem[p]), history, log, draft, clock)
  <1> DEFINE o == mem[p]
             m == Advance(o)
  <1>1. ProcOK(pc[p], o, history, log, draft, clock) /\ o \in Memories /\ o.at \in 1..Len(Order)
    BY Known, Positions DEF Memories
  <1>2. o.at + 1 \in 1..(Len(Order) + 1)
    BY <1>1, Positions
  <1>3. /\ m \in Memories /\ m.at = o.at + 1 /\ m.begun = o.begun /\ m.stale = o.stale /\ m.status = o.status
        /\ m.wrote = o.wrote /\ m.lost = o.lost
    BY <1>1, <1>2 DEF Memories, Advance
  <1> HIDE DEF m
  <1>4. KnownOK(pc[p], m, history, log)
    BY <1>1, <1>3, KnownSame DEF ProcOK, Cleaning
  <1>5. Counted(m) = Counted(o) /\ (Ahead(o) => Ahead(m))
    BY <1>1, <1>3, Positions DEF Counted, Ahead
  <1>6. CountOK(pc[p], m)
    BY <1>1, <1>3, <1>5 DEF ProcOK, CountOK, Agree, Cleaning, Before
  <1> QED BY <1>3, <1>4, <1>6 DEF ProcOK, ComparedOK, m

LEMMA SkipTargetKeeps == ASSUME Inv, NEW p \in Procs, SkipTarget(p) PROVE Inv'
  <1>1. ProcOK(pc[p], Advance(mem[p]), history, log, draft, clock) /\ pc[p] \in Labels
    BY AdvanceOK DEF SkipTarget, Skip, Labels
  <1>2. Goto(p, pc[p], Advance(mem[p])) /\ UNCHANGED <<server, drafts>>
    BY DEF SkipTarget
  <1> QED BY <1>1, <1>2, QuietKeeps

LEMMA ValidateKeeps == ASSUME Inv, NEW p \in Procs, Validate(p) PROVE Inv'
  <1>1. ProcOK("validate", Advance(mem[p]), history, log, draft, clock) /\ "validate" \in Labels
    BY AdvanceOK DEF Validate, More, Labels
  <1>2. UNCHANGED <<server, drafts>> /\ (Goto(p, "validate", Advance(mem[p])) \/ Stop(p))
    BY DEF Validate
  <1> QED BY <1>1, <1>2, QuietKeeps, StopKeeps

LEMMA EndValidationKeeps == ASSUME Inv, NEW p \in Procs, EndValidation(p) PROVE Inv'
  <1> DEFINE m == [mem[p] EXCEPT !.at = 1]
             s == [t \in Targets |-> IF t \in m.prepared THEN "would-publish" ELSE m.status[t]]
             n == [m EXCEPT !.status = s]
  <1>1. ProcOK("validate", mem[p], history, log, draft, clock) /\ mem[p] \in Memories
    BY Known DEF EndValidation
  <1>2. /\ m \in Memories /\ m.begun = mem[p].begun /\ m.stale = mem[p].stale /\ m.status = mem[p].status
        /\ m.at = 1 /\ m.wrote = mem[p].wrote
    BY <1>1, MemoryRestart
  <1>3. m.wrote = {} /\ Counted(m) = {}
    BY <1>1, <1>2 DEF ProcOK, CountOK, Before, Counted
  <1>4. UNCHANGED <<server, drafts>> /\ (Goto(p, "report", n) \/ CleanApplied(p, m, "publish"))
    BY DEF EndValidation
  <1> HIDE DEF m
  <1>5. KnownOK("confirm", m, history, log)
    BY <1>1, <1>2, KnownSame DEF ProcOK, Cleaning
  <1>6. CASE CleanApplied(p, m, "publish")
    BY <1>2, <1>3, <1>4, <1>5, <1>6, CleanAppliedKeeps
  <1>7. CASE Goto(p, "report", n)
    <2>1. s \in [Targets -> Statuses] /\ \A t \in Targets : s[t] \in {"would-publish", m.status[t]}
      BY <1>2 DEF Memories, Statuses
    <2> HIDE DEF s
    <2>2. n \in Memories /\ n.begun = m.begun /\ n.stale = m.stale /\ n.status = s /\ n.wrote = m.wrote
      BY <1>2, <2>1 DEF Memories
    <2> HIDE DEF n
    <2>3. KnownOK("report", n, history, log)
      BY <1>2, <1>5, <2>1, <2>2, KnownSame DEF Cleaning
    <2>4. Counted(n) = {}
      BY <1>3, <2>1, <2>2 DEF Counted, Accepted
    <2>5. CountOK("report", n)
      BY <1>3, <2>2, <2>4, NothingWritten DEF Cleaning
    <2> QED BY <1>4, <1>7, <2>2, <2>3, <2>5, QuietKeeps DEF ProcOK, ComparedOK, Labels
  <1> QED BY <1>4, <1>6, <1>7

-----------------------------------------------------------------------------
(***************************************************************************)
(* Publication.                                                            *)
(***************************************************************************)

LEMMA AppendKeeps ==
    ASSUME NEW S, NEW s \in Seq(S), NEW e \in S
    PROVE  /\ Append(s, e) \in Seq(S) /\ Len(Append(s, e)) = Len(s) + 1
           /\ \A v \in 1..Len(s) : Append(s, e)[v] = s[v]
           /\ Append(s, e)[Len(s) + 1] = e
  OBVIOUS

\* A version is appended to the history of one target.
AppendTo(h, t, x) == [h EXCEPT ![t] = Append(@, x)]

LEMMA AppendWorld ==
    ASSUME NEW h, NEW g, WorldOK(h, g), NEW t \in Targets, NEW x \in Templates, NEW who \in {"plan", "other"},
           who = "plan" => Len(h[t]) = Base /\ x = Plan[t].cand /\ t \in ToPublish
    PROVE  /\ WorldOK(AppendTo(h, t, x), AppendTo(g, t, who))
           /\ Grow(h, g, AppendTo(h, t, x), AppendTo(g, t, who))
           /\ x = Plan[t].cand => Reached(AppendTo(h, t, x), t)
  <1> DEFINE hh == AppendTo(h, t, x)
             gg == AppendTo(g, t, who)
  <1>1. /\ h = [u \in Targets |-> h[u]] /\ g = [u \in Targets |-> g[u]]
        /\ \A u \in Targets : TargetOK(h, g, u)
    BY DEF WorldOK
  <1>2. /\ hh = [u \in Targets |-> hh[u]] /\ gg = [u \in Targets |-> gg[u]]
        /\ hh[t] = Append(h[t], x) /\ gg[t] = Append(g[t], who)
        /\ \A u \in Targets \ {t} : hh[u] = h[u] /\ gg[u] = g[u]
    BY <1>1 DEF AppendTo
  <1> HIDE DEF hh, gg
  <1>3. /\ h[t] \in Seq(Templates) /\ Len(h[t]) \in Nat /\ Len(h[t]) >= 1 /\ h[t][1] = First[t]
        /\ g[t] \in Seq({"plan", "other"}) /\ Len(g[t]) = Len(h[t])
        /\ \A v \in 1..Len(h[t]) : g[t][v] = "plan" => v = Base + 1 /\ h[t][v] = Plan[t].cand /\ t \in ToPublish
    BY <1>1 DEF TargetOK
  <1>4. /\ hh[t] \in Seq(Templates) /\ Len(hh[t]) = Len(h[t]) + 1
        /\ gg[t] \in Seq({"plan", "other"}) /\ Len(gg[t]) = Len(h[t]) + 1
        /\ \A v \in 1..Len(h[t]) : hh[t][v] = h[t][v] /\ gg[t][v] = g[t][v]
        /\ hh[t][Len(h[t]) + 1] = x /\ gg[t][Len(h[t]) + 1] = who
    <2>1. /\ hh[t] \in Seq(Templates) /\ Len(hh[t]) = Len(h[t]) + 1
          /\ \A v \in 1..Len(h[t]) : hh[t][v] = h[t][v]
          /\ hh[t][Len(h[t]) + 1] = x
      <3>1. h[t] \in Seq(Templates) /\ x \in Templates
        BY <1>3
      <3>2. /\ Append(h[t], x) \in Seq(Templates) /\ Len(Append(h[t], x)) = Len(h[t]) + 1
            /\ \A v \in 1..Len(h[t]) : Append(h[t], x)[v] = h[t][v]
            /\ Append(h[t], x)[Len(h[t]) + 1] = x
        BY <3>1, AppendKeeps, Zenon
      <3>3. hh[t] = Append(h[t], x)
        BY <1>2
      <3> QED BY <3>2, <3>3, Zenon
    <2>2. /\ gg[t] \in Seq({"plan", "other"}) /\ Len(gg[t]) = Len(g[t]) + 1
          /\ \A v \in 1..Len(g[t]) : gg[t][v] = g[t][v]
          /\ gg[t][Len(g[t]) + 1] = who
      <3>1. g[t] \in Seq({"plan", "other"}) /\ who \in {"plan", "other"}
        BY <1>3
      <3>2. /\ Append(g[t], who) \in Seq({"plan", "other"}) /\ Len(Append(g[t], who)) = Len(g[t]) + 1
            /\ \A v \in 1..Len(g[t]) : Append(g[t], who)[v] = g[t][v]
            /\ Append(g[t], who)[Len(g[t]) + 1] = who
        BY <3>1, AppendKeeps, Zenon
      <3>3. gg[t] = Append(g[t], who)
        BY <1>2
      <3> QED BY <3>2, <3>3, Zenon
    <2> QED BY <1>3, <2>1, <2>2
  <1>5. TargetOK(hh, gg, t)
    <2>1. ASSUME NEW v \in 1..Len(hh[t]), gg[t][v] = "plan"
          PROVE  v = Base + 1 /\ hh[t][v] = Plan[t].cand /\ t \in ToPublish
      <3>1. CASE v = Len(h[t]) + 1
        BY <1>4, <2>1, <3>1 DEF Base
      <3>2. CASE v \in 1..Len(h[t])
        BY <1>3, <1>4, <2>1, <3>2
      <3> QED BY <1>3, <1>4, <3>1, <3>2
    <2>2. hh[t][1] = First[t] /\ Len(hh[t]) >= 1
      BY <1>3, <1>4
    <2> QED BY <1>4, <2>1, <2>2 DEF TargetOK
  <1>6. \A u \in Targets \ {t} : TargetOK(hh, gg, u)
    BY <1>1, <1>2 DEF TargetOK
  <1>7. Grow(h, g, hh, gg)
    <2>1. ASSUME NEW u \in Targets
          PROVE  /\ Len(h[u]) \in Nat /\ Len(hh[u]) \in Nat /\ Len(h[u]) <= Len(hh[u])
                 /\ \A v \in 1..Len(h[u]) : hh[u][v] = h[u][v] /\ gg[u][v] = g[u][v]
      <3>1. CASE u = t
        BY <1>3, <1>4, <3>1
      <3>2. CASE u # t
        BY <1>1, <1>2, <3>2 DEF TargetOK
      <3> QED BY <3>1, <3>2
    <2> QED BY <2>1 DEF Grow
  <1>8. x = Plan[t].cand => Reached(hh, t)
    <2>1. Len(h[t]) + 1 \in 1..Len(hh[t])
      BY <1>3, <1>4
    <2> QED BY <1>4, <2>1 DEF Reached
  <1> QED BY <1>2, <1>5, <1>6, <1>7, <1>8 DEF WorldOK, hh, gg

LEMMA WriteOK ==
    ASSUME Inv, NEW t \in ToPublish, Write(t)
    PROVE  /\ WorldOK(history', log') /\ Grow(history, log, history', log') /\ Reached(history', t)
  <1>1. t \in Targets /\ Plan[t].cand \in Templates
    BY PlanTyped DEF ToPublish
  <1>2. Len(history[t]) = Base
    BY DEF Write, Latest
  <1>3. history' = AppendTo(history, t, Plan[t].cand) /\ log' = AppendTo(log, t, "plan")
    BY DEF Write, AppendTo
  <1> QED BY <1>1, <1>2, <1>3, AppendWorld DEF Inv

\* The target a process is publishing is one of those to publish.
LEMMA HereOK ==
    ASSUME Inv, NEW p \in Procs, More(p)
    PROVE  /\ mem[p].at \in 1..Len(Order) /\ Here(p) = Order[mem[p].at]
           /\ Here(p) \in ToPublish /\ Here(p) \in Targets
  BY Known, Positions DEF More, Here, Memories, ToPublish

\* A write in the memory of a process that publishes.
LEMMA WroteOK ==
    ASSUME NEW o \in Memories, NEW t \in Targets, NEW lost \in SUBSET Targets,
           NEW m, m = [o EXCEPT !.wrote = @ \cup {t}, !.lost = lost]
    PROVE  /\ m \in Memories /\ m.begun = o.begun /\ m.stale = o.stale /\ m.status = o.status
           /\ m.at = o.at /\ m.wrote = o.wrote \cup {t} /\ m.lost = lost
  BY DEF Memories

LEMMA LostSame == ASSUME NEW o \in Memories PROVE o = [o EXCEPT !.lost = o.lost] /\ o.lost \in SUBSET Targets
  BY DEF Memories

\* Ending with a target: its status is set and the next one follows.
LEMMA AdvanceStatus ==
    ASSUME NEW o \in Memories, o.at <= Len(Order), NEW s \in Statuses
    PROVE  LET m == [Advance(o) EXCEPT !.status[Order[o.at]] = s]
           IN  /\ m \in Memories /\ m.begun = o.begun /\ m.stale = o.stale
               /\ m.status = [o.status EXCEPT ![Order[o.at]] = s]
               /\ m.at = o.at + 1 /\ m.wrote = o.wrote /\ m.lost = o.lost
  <1> DEFINE m == [Advance(o) EXCEPT !.status[Order[o.at]] = s]
             t == Order[o.at]
  <1>1. o.at + 1 \in 1..(Len(Order) + 1) /\ t \in Targets
    BY Positions DEF Memories
  <1>2. [o.status EXCEPT ![t] = s] \in [Targets -> Statuses]
    BY DEF Memories
  <1>3. m = [[o EXCEPT !.at = o.at + 1] EXCEPT !.status = [o.status EXCEPT ![t] = s]]
    BY DEF Advance, Memories
  <1> HIDE DEF m, t
  <1>4. m \in Memories
    BY <1>1, <1>2, <1>3 DEF Memories
  <1>5. /\ m.begun = o.begun /\ m.stale = o.stale /\ m.status = [o.status EXCEPT ![t] = s]
        /\ m.at = o.at + 1 /\ m.wrote = o.wrote /\ m.lost = o.lost
    BY <1>3 DEF Memories
  <1> QED BY <1>4, <1>5 DEF m, t

\* What is reported and what is still ahead, after target t is done with status s.
LEMMA CountAdvance ==
    ASSUME NEW o \in Memories, o.at <= Len(Order), Ahead(o), NEW s \in Statuses,
           NEW m \in Memories, m.at = o.at + 1, m.status = [o.status EXCEPT ![Order[o.at]] = s],
           m.wrote = o.wrote, m.lost = o.lost
    PROVE  /\ Ahead(m)
           /\ s \notin Accepted => Counted(m) = Counted(o)
           /\ s \in Accepted => Counted(m) = Counted(o) \cup {Order[o.at]}
  <1>1. o.at \in 1..Len(Order) /\ Order[o.at] \in Targets /\ o.status \in [Targets -> Statuses]
    BY Positions DEF Memories
  <1>2. o.status[Order[o.at]] \notin Accepted
    <2>1. o.at \in o.at..Len(Order)
      BY <1>1, Positions
    <2> QED BY <2>1 DEF Ahead
  <1>3. \A t \in Targets : m.status[t] = IF t = Order[o.at] THEN s ELSE o.status[t]
    BY <1>1
  <1>4. Ahead(m)
    <2>1. \A i \in m.at..Len(Order) : i \in o.at..Len(Order) /\ i # o.at /\ i \in 1..Len(Order)
      BY <1>1, Positions
    <2>2. \A i \in m.at..Len(Order) : Order[i] # Order[o.at] /\ Order[i] \in Targets
      BY <1>1, <2>1, Positions
    <2> QED BY <1>3, <2>1, <2>2 DEF Ahead
  <1>5. s \notin Accepted => Counted(m) = Counted(o)
    BY <1>2, <1>3 DEF Counted
  <1>6. s \in Accepted => Counted(m) = Counted(o) \cup {Order[o.at]}
    BY <1>1, <1>3 DEF Counted
  <1> QED BY <1>4, <1>5, <1>6

LEMMA AtPublish ==
    ASSUME Inv, NEW p \in Procs, pc[p] = "publish"
    PROVE  /\ mem[p] \in Memories /\ KnownOK("publish", mem[p], history, log)
           /\ Agree(mem[p], {}) /\ Ahead(mem[p])
  BY Known DEF ProcOK, CountOK

\* An update that was taken is remembered.
LEMMA PublishWritesKeeps ==
    ASSUME Inv, NEW p \in Procs, pc[p] = "publish", More(p), Write(Here(p)),
           Goto(p, "accepted", [mem[p] EXCEPT !.wrote = @ \cup {Here(p)}]), UNCHANGED drafts
    PROVE  Inv'
  <1> DEFINE o == mem[p]
             t == Here(p)
             m == [o EXCEPT !.wrote = @ \cup {t}]
  <1>1. o \in Memories /\ KnownOK("publish", o, history, log) /\ Agree(o, {}) /\ Ahead(o)
    BY AtPublish
  <1>2. o.at \in 1..Len(Order) /\ t = Order[o.at] /\ t \in ToPublish /\ t \in Targets
    BY HereOK
  <1>3. WorldOK(history', log') /\ Grow(history, log, history', log') /\ Reached(history', t)
    BY <1>2, WriteOK
  <1>4. KnownOK("publish", o, history', log')
    BY <1>1, <1>3, KnownGrows
  <1> HIDE DEF t
  <1>5. /\ m \in Memories /\ m.begun = o.begun /\ m.stale = o.stale /\ m.status = o.status
        /\ m.at = o.at /\ m.wrote = o.wrote \cup {t} /\ m.lost = o.lost
    BY <1>1, <1>2 DEF Memories
  <1>6. Goto(p, "accepted", m)
    BY DEF t
  <1> HIDE DEF m, o
  <1>7. KnownOK("confirm", m, history', log')
    BY <1>1, <1>4, <1>5, KnownSame DEF Cleaning
  <1>8. KnownOK("accepted", m, history', log')
    BY <1>2, <1>3, <1>5, <1>7 DEF KnownOK, Cleaning
  <1>9. Counted(m) = Counted(o) /\ Ahead(m)
    BY <1>1, <1>5 DEF Counted, Ahead
  <1>10. CountOK("accepted", m)
    BY <1>1, <1>2, <1>5, <1>9 DEF CountOK, Agree, Cleaning, Before
  <1>11. ProcOK("accepted", m, history', log', draft', clock') /\ "accepted" \in Labels
    BY <1>5, <1>8, <1>10 DEF ProcOK, ComparedOK, Labels
  <1>12. DraftsOK(draft', clock') /\ Move(draft, clock, draft', clock')
    BY MoveSame DEF Inv, drafts
  <1> QED BY <1>3, <1>6, <1>11, <1>12, StepKeeps

LEMMA PublishAnswerLostKeeps == ASSUME Inv, NEW p \in Procs, PublishAnswerLost(p) PROVE Inv'
  <1> DEFINE o == mem[p]
             t == Here(p)
             m == [o EXCEPT !.wrote = @ \cup {t}, !.lost = @ \cup {t}]
  <1>1. o \in Memories /\ KnownOK("publish", o, history, log) /\ Agree(o, {}) /\ Ahead(o)
    BY AtPublish DEF PublishAnswerLost
  <1>2. o.at \in 1..Len(Order) /\ t = Order[o.at] /\ t \in ToPublish /\ t \in Targets
    BY HereOK DEF PublishAnswerLost
  <1>3. WorldOK(history', log') /\ Grow(history, log, history', log')
    BY <1>2, WriteOK DEF PublishAnswerLost
  <1>4. KnownOK("publish", o, history', log')
    BY <1>1, <1>3, KnownGrows
  <1>5. Goto(p, "publish", m) /\ UNCHANGED drafts
    BY DEF PublishAnswerLost, drafts
  <1> HIDE DEF t
  <1>6. /\ m \in Memories /\ m.begun = o.begun /\ m.stale = o.stale /\ m.status = o.status
        /\ m.at = o.at /\ m.wrote = o.wrote \cup {t} /\ m.lost = o.lost \cup {t}
    BY <1>1, <1>2 DEF Memories
  <1> HIDE DEF m, o
  <1>7. KnownOK("publish", m, history', log')
    BY <1>1, <1>4, <1>6, KnownSame DEF Cleaning
  <1>8. Counted(m) = Counted(o) /\ Ahead(m)
    BY <1>1, <1>6 DEF Counted, Ahead
  <1>9. CountOK("publish", m)
    BY <1>1, <1>6, <1>8 DEF CountOK, Agree, Cleaning, Before
  <1>10. ProcOK("publish", m, history', log', draft', clock') /\ "publish" \in Labels
    BY <1>6, <1>7, <1>9 DEF ProcOK, ComparedOK, Labels
  <1>11. DraftsOK(draft', clock') /\ Move(draft, clock, draft', clock')
    BY <1>5, MoveSame DEF Inv, drafts
  <1> QED BY <1>3, <1>5, <1>10, <1>11, StepKeeps

\* A target that ends without an acceptance.
LEMMA NotPublishedKeeps ==
    ASSUME Inv, NEW p \in Procs, pc[p] = "publish", More(p), NEW s \in {"conflict", "publish-failed"},
           Goto(p, "publish", [Advance(mem[p]) EXCEPT !.status[Here(p)] = s]), UNCHANGED <<server, drafts>>
    PROVE  Inv'
  <1> DEFINE o == mem[p]
             m == [Advance(o) EXCEPT !.status[Order[o.at]] = s]
  <1>1. o \in Memories /\ KnownOK("publish", o, history, log) /\ Agree(o, {}) /\ Ahead(o)
    BY AtPublish
  <1>2. o.at \in 1..Len(Order) /\ Here(p) = Order[o.at] /\ Order[o.at] \in Targets
    BY HereOK
  <1>3. s \in Statuses /\ s \notin Accepted /\ s # "already-applied"
    BY DEF Statuses, Accepted
  <1>4. o.at <= Len(Order) /\ o.status \in [Targets -> Statuses]
    BY <1>1, <1>2, Positions DEF Memories
  <1>5. /\ m \in Memories /\ m.begun = o.begun /\ m.stale = o.stale
        /\ m.status = [o.status EXCEPT ![Order[o.at]] = s]
        /\ m.at = o.at + 1 /\ m.wrote = o.wrote /\ m.lost = o.lost
    BY <1>1, <1>3, <1>4, AdvanceStatus
  <1>6. Goto(p, "publish", m)
    BY <1>2
  <1> HIDE DEF m, o
  <1>7. KnownOK("publish", m, history, log)
    <2>1. \A u \in Targets : m.status[u] = "already-applied" => o.status[u] = "already-applied"
      BY <1>3, <1>4, <1>5
    <2> QED BY <1>1, <1>5, <2>1, KnownSame DEF Cleaning
  <1>8. Ahead(m) /\ Counted(m) = Counted(o)
    BY <1>1, <1>3, <1>4, <1>5, CountAdvance
  <1>9. CountOK("publish", m)
    BY <1>1, <1>5, <1>8 DEF CountOK, Agree, Cleaning, Before
  <1> QED BY <1>5, <1>6, <1>7, <1>9, QuietKeeps DEF ProcOK, ComparedOK, Labels

LEMMA PublishKeeps == ASSUME Inv, NEW p \in Procs, Publish(p) PROVE Inv'
  <1>1. CASE Write(Here(p)) /\ Goto(p, "accepted", [mem[p] EXCEPT !.wrote = @ \cup {Here(p)}])
    BY <1>1, PublishWritesKeeps DEF Publish
  <1>2. CASE UNCHANGED server /\ Goto(p, "publish", [Advance(mem[p]) EXCEPT !.status[Here(p)] = "conflict"])
    BY <1>2, NotPublishedKeeps DEF Publish
  <1> QED BY <1>1, <1>2 DEF Publish

LEMMA PublishFailsKeeps == ASSUME Inv, NEW p \in Procs, PublishFails(p) PROVE Inv'
  BY NotPublishedKeeps DEF PublishFails

\* A target that was accepted.
LEMMA AcceptedAdvance ==
    ASSUME Inv, NEW p \in Procs, pc[p] = "accepted", NEW s \in Accepted
    PROVE  LET m == [Advance(mem[p]) EXCEPT !.status[Here(p)] = s]
           IN  /\ m \in Memories /\ KnownOK("publish", m, history, log) /\ CountOK("publish", m)
               /\ Here(p) \in Targets /\ Reached(history, Here(p))
  <1> DEFINE o == mem[p]
             m == [Advance(o) EXCEPT !.status[Order[o.at]] = s]
  <1>1. o \in Memories /\ KnownOK("accepted", o, history, log) /\ CountOK("accepted", o)
    BY Known DEF ProcOK
  <1>2. /\ o.at <= Len(Order) /\ Order[o.at] \in o.wrote /\ Agree(o, {Order[o.at]}) /\ Ahead(o)
        /\ Here(p) = Order[o.at] /\ o.status \in [Targets -> Statuses] /\ Order[o.at] \in Targets
    BY <1>1, Positions DEF CountOK, Here, Memories
  <1>3. s \in Statuses /\ s # "already-applied"
    BY DEF Statuses, Accepted
  <1>4. /\ m \in Memories /\ m.begun = o.begun /\ m.stale = o.stale
        /\ m.status = [o.status EXCEPT ![Order[o.at]] = s]
        /\ m.at = o.at + 1 /\ m.wrote = o.wrote /\ m.lost = o.lost
    BY <1>1, <1>2, <1>3, AdvanceStatus
  <1> HIDE DEF m, o
  <1>5. KnownOK("publish", m, history, log)
    <2>1. \A u \in Targets : m.status[u] = "already-applied" => o.status[u] = "already-applied"
      BY <1>2, <1>3, <1>4
    <2> QED BY <1>1, <1>4, <2>1, KnownSame DEF Cleaning
  <1>6. Ahead(m) /\ Counted(m) = Counted(o) \cup {Order[o.at]}
    BY <1>1, <1>2, <1>3, <1>4, CountAdvance
  <1>7. CountOK("publish", m)
    BY <1>2, <1>4, <1>6 DEF CountOK, Agree, Cleaning, Before
  <1>8. Reached(history, Here(p))
    BY <1>1, <1>2 DEF KnownOK
  <1> QED BY <1>2, <1>4, <1>5, <1>7, <1>8 DEF m, o

LEMMA PublishedKeeps == ASSUME Inv, NEW p \in Procs, Published(p) PROVE Inv'
  <1> DEFINE m == [Advance(mem[p]) EXCEPT !.status[Here(p)] = "published"]
             n == [Advance(mem[p]) EXCEPT !.status[Here(p)] = "published",
                                          !.clean = {Here(p)}, !.then = "publish"]
  <1>1. "published" \in Accepted
    BY DEF Accepted
  <1>2. /\ m \in Memories /\ KnownOK("publish", m, history, log) /\ CountOK("publish", m)
        /\ Here(p) \in Targets /\ Reached(history, Here(p))
    BY <1>1, AcceptedAdvance DEF Published
  <1>3. n = [[m EXCEPT !.clean = {Here(p)}] EXCEPT !.then = "publish"]
    BY DEF Advance
  <1> HIDE DEF m, n
  <1>4. /\ n \in Memories /\ n.begun = m.begun /\ n.stale = m.stale /\ n.status = m.status
        /\ n.at = m.at /\ n.wrote = m.wrote /\ n.lost = m.lost /\ n.clean = {Here(p)} /\ n.then = "publish"
    BY <1>2, <1>3 DEF Memories
  <1>5. KnownOK("publish", n, history, log)
    BY <1>2, <1>4, KnownSame DEF Cleaning
  <1>6. KnownOK("cleanLoad", n, history, log)
    BY <1>2, <1>4, <1>5 DEF KnownOK, Cleaning
  <1>7. Counted(n) = Counted(m) /\ (Ahead(m) => Ahead(n))
    BY <1>4 DEF Counted, Ahead
  <1>8. CountOK("cleanLoad", n)
    BY <1>2, <1>4, <1>7 DEF CountOK, Agree, Cleaning, Before
  <1>9. ProcOK("cleanLoad", n, history, log, draft, clock) /\ "cleanLoad" \in Labels
    BY <1>4, <1>6, <1>8 DEF ProcOK, ComparedOK, Labels
  <1>10. Goto(p, "cleanLoad", n) /\ UNCHANGED <<server, drafts>>
    BY DEF Published, n
  <1> QED BY <1>9, <1>10, QuietKeeps

LEMMA PublishedWithFailureKeeps == ASSUME Inv, NEW p \in Procs, PublishedWithFailure(p) PROVE Inv'
  <1>1. PICK s \in {"published-hook-failed", "published-cache-failed"} :
            Goto(p, "publish", [Advance(mem[p]) EXCEPT !.status[Here(p)] = s])
    BY DEF PublishedWithFailure
  <1> DEFINE m == [Advance(mem[p]) EXCEPT !.status[Here(p)] = s]
  <1>2. m \in Memories /\ KnownOK("publish", m, history, log) /\ CountOK("publish", m)
    <2>1. s \in Accepted /\ pc[p] = "accepted"
      BY DEF Accepted, PublishedWithFailure
    <2> QED BY <2>1, AcceptedAdvance
  <1>3. ProcOK("publish", m, history, log, draft, clock) /\ "publish" \in Labels
    BY <1>2 DEF ProcOK, ComparedOK, Labels
  <1>4. UNCHANGED <<server, drafts>>
    BY DEF PublishedWithFailure
  <1> QED BY <1>1, <1>3, <1>4, QuietKeeps

LEMMA EndPublicationKeeps == ASSUME Inv, NEW p \in Procs, EndPublication(p) PROVE Inv'
  <1>1. ProcOK("publish", mem[p], history, log, draft, clock)
    BY Known DEF EndPublication
  <1>2. ProcOK("report", mem[p], history, log, draft, clock) /\ "report" \in Labels
    BY <1>1 DEF ProcOK, KnownOK, CountOK, ComparedOK, Labels, Cleaning, Before
  <1>3. Goto(p, "report", mem[p]) /\ UNCHANGED <<server, drafts>>
    BY DEF EndPublication
  <1> QED BY <1>2, <1>3, QuietKeeps

-----------------------------------------------------------------------------
(***************************************************************************)
(* The drafts.                                                             *)
(***************************************************************************)

LEMMA NextDraftIs == \A p : NextDraft(p) = FirstOf(mem[p].clean)
  BY DEF NextDraft, FirstOf

LEMMA AtCleaning ==
    ASSUME Inv, NEW p \in Procs, pc[p] \in Cleaning
    PROVE  /\ mem[p] \in Memories /\ KnownOK(pc[p], mem[p], history, log)
           /\ CountOK(pc[p], mem[p]) /\ ComparedOK(pc[p], mem[p], draft, clock)
           /\ NextDraft(p) \in mem[p].clean /\ NextDraft(p) \in Targets
  <1>1. /\ mem[p] \in Memories /\ KnownOK(pc[p], mem[p], history, log)
        /\ CountOK(pc[p], mem[p]) /\ ComparedOK(pc[p], mem[p], draft, clock)
    BY Known DEF ProcOK
  <1>2. mem[p].clean # {} /\ mem[p].clean \in SUBSET Targets
    BY <1>1 DEF CountOK, Memories
  <1>3. FirstOf(mem[p].clean) \in mem[p].clean
    BY <1>2, FirstOfIsOne
  <1> QED BY <1>1, <1>2, <1>3, NextDraftIs

\* One draft less to look at.
LEMMA CleanedKeeps ==
    ASSUME Inv, NEW p \in Procs, pc[p] \in Cleaning, NEW t \in Targets, Cleaned(p, t),
           UNCHANGED server, DraftsOK(draft', clock'), Move(draft, clock, draft', clock')
    PROVE  Inv'
  <1> DEFINE o == mem[p]
             m == [o EXCEPT !.clean = @ \ {t}]
             l == IF m.clean = {} THEN m.then ELSE "cleanLoad"
  <1>1. o \in Memories /\ KnownOK(pc[p], o, history, log) /\ CountOK(pc[p], o)
    BY AtCleaning
  <1>2. /\ m \in Memories /\ m.begun = o.begun /\ m.stale = o.stale /\ m.status = o.status
        /\ m.at = o.at /\ m.wrote = o.wrote /\ m.lost = o.lost /\ m.then = o.then
        /\ m.clean \subseteq o.clean
    BY <1>1 DEF Memories
  <1>3. o.then \in {"publish", "report"}
    BY <1>1 DEF CountOK, Memories
  <1>4. Goto(p, l, m)
    BY DEF Cleaned
  <1> HIDE DEF m, o
  <1>5. l \in {"publish", "report", "cleanLoad"} /\ (l = "cleanLoad" => m.clean # {}) /\ (l = "publish" => o.then = "publish")
    BY <1>2, <1>3
  <1> HIDE DEF l
  <1>6. KnownOK("publish", m, history, log)
    <2>1. pc[p] \notin {"idle", "preflight"}
      BY DEF Cleaning
    <2> QED BY <1>1, <1>2, <2>1, KnownSame DEF Cleaning
  <1>7. KnownOK(l, m, history, log)
    BY <1>1, <1>2, <1>5, <1>6 DEF KnownOK, Cleaning
  <1>8. Counted(m) = Counted(o) /\ (Ahead(o) => Ahead(m))
    BY <1>2 DEF Counted, Ahead
  <1>9. CountOK(l, m)
    BY <1>1, <1>2, <1>3, <1>5, <1>8 DEF CountOK, Agree, Cleaning, Before
  <1>10. ProcOK(l, m, history', log', draft', clock') /\ l \in Labels
    BY <1>2, <1>5, <1>7, <1>9 DEF ProcOK, ComparedOK, Labels, server
  <1>11. WorldOK(history', log') /\ Grow(history, log, history', log')
    BY GrowSame DEF Inv, server
  <1> QED BY <1>4, <1>10, <1>11, StepKeeps

LEMMA CleanLoadKeeps == ASSUME Inv, NEW p \in Procs, CleanLoad(p) PROVE Inv'
  <1> DEFINE o == mem[p]
             t == NextDraft(p)
             m == [o EXCEPT !.checked = clock]
  <1>1. /\ o \in Memories /\ KnownOK("cleanLoad", o, history, log) /\ CountOK("cleanLoad", o)
        /\ t \in Targets /\ t = FirstOf(o.clean) /\ pc[p] \in Cleaning
    BY AtCleaning, NextDraftIs DEF CleanLoad, Cleaning
  <1>2. UNCHANGED <<server, drafts>>
    BY DEF CleanLoad
  <1>3. DraftsOK(draft, clock) /\ Move(draft, clock, draft, clock) /\ clock \in Nat
    BY MoveSame DEF Inv, DraftsOK
  <1>4. CASE Cleaned(p, t)
    <2>1. DraftsOK(draft', clock') /\ Move(draft, clock, draft', clock')
      BY <1>2, <1>3 DEF drafts
    <2> QED BY <1>1, <1>2, <1>4, <2>1, CleanedKeeps
  <1>5. CASE draft[t] = Plan[t].fingerprint /\ Goto(p, "cleanDelete", m)
    <2>1. /\ m \in Memories /\ m.begun = o.begun /\ m.stale = o.stale /\ m.status = o.status /\ m.at = o.at
          /\ m.wrote = o.wrote /\ m.lost = o.lost /\ m.then = o.then /\ m.clean = o.clean /\ m.checked = clock
      BY <1>1, <1>3 DEF Memories
    <2> HIDE DEF m, o
    <2>2. KnownOK("cleanDelete", m, history, log)
      BY <1>1, <2>1 DEF KnownOK, Cleaning
    <2>3. Counted(m) = Counted(o) /\ (Ahead(o) => Ahead(m))
      BY <2>1 DEF Counted, Ahead
    <2>4. CountOK("cleanDelete", m)
      BY <1>1, <2>1, <2>3 DEF CountOK, Agree, Cleaning, Before
    <2>5. ComparedOK("cleanDelete", m, draft, clock)
      BY <1>1, <1>3, <1>5, <2>1 DEF ComparedOK
    <2>6. ProcOK("cleanDelete", m, history, log, draft, clock) /\ "cleanDelete" \in Labels
      BY <2>1, <2>2, <2>4, <2>5 DEF ProcOK, Labels
    <2> QED BY <1>2, <1>5, <2>6, QuietKeeps
  <1> QED BY <1>4, <1>5 DEF CleanLoad

LEMMA CleanDeleteKeeps == ASSUME Inv, NEW p \in Procs, CleanDelete(p) PROVE Inv'
  <1>1. NextDraft(p) \in Targets /\ pc[p] \in Cleaning
    BY AtCleaning DEF CleanDelete, Cleaning
  <1>2. draft \in [Targets -> Nat] /\ clock \in Nat
    BY DEF Inv, DraftsOK
  <1>3. draft' = [draft EXCEPT ![NextDraft(p)] = 0] /\ clock' = clock
    BY DEF CleanDelete
  <1>4. DraftsOK(draft', clock') /\ Move(draft, clock, draft', clock')
    BY <1>1, <1>2, <1>3 DEF DraftsOK, Move
  <1> QED BY <1>1, <1>4, CleanedKeeps DEF CleanDelete

LEMMA CleanDeleteFailsKeeps == ASSUME Inv, NEW p \in Procs, CleanDeleteFails(p) PROVE Inv'
  <1>1. NextDraft(p) \in Targets /\ pc[p] \in Cleaning
    BY AtCleaning DEF CleanDeleteFails, Cleaning
  <1>2. DraftsOK(draft', clock') /\ Move(draft, clock, draft', clock')
    BY MoveSame DEF CleanDeleteFails, Inv, drafts
  <1> QED BY <1>1, <1>2, CleanedKeeps DEF CleanDeleteFails

-----------------------------------------------------------------------------
(***************************************************************************)
(* The environment.                                                        *)
(***************************************************************************)

\* Nobody goes on: the world around the processes moves.
LEMMA WorldKeeps ==
    ASSUME Inv, UNCHANGED <<pc, mem>>, WorldOK(history', log'), DraftsOK(draft', clock'),
           Grow(history, log, history', log'), Move(draft, clock, draft', clock')
    PROVE  Inv'
  <1>1. ASSUME NEW q \in Procs PROVE ProcOK(pc[q], mem[q], history', log', draft', clock')
    <2>1. ProcOK(pc[q], mem[q], history, log, draft, clock)
      BY DEF Inv, ProcsOK
    <2> QED BY <2>1, ProcGrows
  <1>2. ProcsOK'
    BY <1>1 DEF Inv, ProcsOK
  <1> QED BY <1>2 DEF Inv

LEMMA ConsolePublishKeeps == ASSUME Inv, ConsolePublish PROVE Inv'
  <1>1. PICK t \in Targets, new \in Templates :
            /\ history' = [history EXCEPT ![t] = Append(@, new)]
            /\ log' = [log EXCEPT ![t] = Append(@, "other")]
    BY DEF ConsolePublish
  <1>2. history' = AppendTo(history, t, new) /\ log' = AppendTo(log, t, "other")
    BY <1>1 DEF AppendTo
  <1>3. WorldOK(history', log') /\ Grow(history, log, history', log')
    BY <1>2, AppendWorld DEF Inv
  <1>4. DraftsOK(draft', clock') /\ Move(draft, clock, draft', clock')
    BY MoveSame DEF ConsolePublish, Inv, drafts
  <1> QED BY <1>3, <1>4, WorldKeeps DEF ConsolePublish

LEMMA EditDraftKeeps == ASSUME Inv, EditDraft PROVE Inv'
  <1>1. draft \in [Targets -> Nat] /\ clock \in Nat
    BY DEF Inv, DraftsOK
  <1>2. PICK t \in Targets : draft' = [draft EXCEPT ![t] = clock + 1] /\ clock' = clock + 1
    BY DEF EditDraft
  <1>3. DraftsOK(draft', clock') /\ Move(draft, clock, draft', clock')
    BY <1>1, <1>2 DEF DraftsOK, Move
  <1>4. WorldOK(history', log') /\ Grow(history, log, history', log')
    BY GrowSame DEF EditDraft, Inv, server
  <1> QED BY <1>3, <1>4, WorldKeeps DEF EditDraft

LEMMA InitInv == Init => Inv
  <1> SUFFICES ASSUME Init PROVE Inv
    OBVIOUS
  <1>1. ASSUME NEW t \in Targets PROVE TargetOK(history, log, t)
    <2>1. history[t] = <<First[t]>> /\ log[t] = <<"other">> /\ First[t] \in Templates
      BY PlanTyped DEF Init
    <2> QED BY <2>1 DEF TargetOK
  <1>2. WorldOK(history, log)
    BY <1>1 DEF Init, WorldOK
  <1>3. DraftsOK(draft, clock)
    <2>1. \A t \in Targets : Plan[t].fingerprint \in Nat
      BY PlanTyped
    <2> QED BY <2>1 DEF Init, DraftsOK
  <1>4. Blank \in Memories
    BY Positions DEF Blank, Memories, Statuses
  <1>5. \A t \in Targets : Len(history[t]) \in Nat /\ Len(history[t]) >= 1
    BY <1>1 DEF TargetOK
  <1>6. KnownOK("idle", Blank, history, log)
    BY <1>5 DEF KnownOK, Blank, Cleaning
  <1>7. CountOK("idle", Blank)
    BY DEF CountOK, Blank, Counted, Accepted, Agree, Cleaning, Before
  <1>8. ProcOK("idle", Blank, history, log, draft, clock) /\ "idle" \in Labels
    BY <1>4, <1>6, <1>7 DEF ProcOK, ComparedOK, Labels
  <1>9. ProcsOK
    BY <1>8 DEF Init, ProcsOK
  <1> QED BY <1>2, <1>3, <1>9 DEF Inv

LEMMA StepInv == Inv /\ [Next]_vars => Inv'
  <1> SUFFICES ASSUME Inv, [Next]_vars PROVE Inv'
    OBVIOUS
  <1>1. ASSUME NEW p \in Procs, (\E dry \in BOOLEAN : Begin(p, dry)) \/ Continue(p) PROVE Inv'
    BY <1>1, BeginKeeps, PreflightKeeps, EndPreflightKeeps, ConfirmKeeps, DeclineKeeps, SkipTargetKeeps,
       ValidateKeeps, EndValidationKeeps, PublishKeeps, PublishedKeeps, EndPublicationKeeps,
       CleanLoadKeeps, CleanDeleteKeeps, StopKeeps DEF Continue, Report
  <1>2. ASSUME NEW p \in Procs, Disturb(p) PROVE Inv'
    BY <1>2, PublishAnswerLostKeeps, PublishFailsKeeps, PublishedWithFailureKeeps,
       CleanDeleteFailsKeeps, StopKeeps DEF Disturb, Crash
  <1>3. CASE UNCHANGED vars
    <2>1. /\ history' = history /\ log' = log /\ draft' = draft /\ clock' = clock
          /\ UNCHANGED <<pc, mem>>
      BY <1>3 DEF vars
    <2>2. WorldOK(history, log) /\ DraftsOK(draft, clock)
      BY DEF Inv
    <2> QED BY <2>1, <2>2, GrowSame, MoveSame, WorldKeeps
  <1> QED BY <1>1, <1>2, <1>3, ConsolePublishKeeps, EditDraftKeeps DEF Next

LEMMA InvHolds == Spec => []Inv
  BY InitInv, StepInv, PTL DEF Spec

-----------------------------------------------------------------------------
(***************************************************************************)
(* Theorems.                                                               *)
(***************************************************************************)

\* Reports, positions and drafts are what they are declared to be, for any plan.
THEOREM TypeCorrect == Spec => []TypeOK
  <1>1. ASSUME Inv PROVE TypeOK
    <2>1. history \in [Targets -> Seq(Templates)] /\ \A t \in Targets : Latest(t) >= 1
      BY <1>1 DEF Inv, WorldOK, TargetOK, Latest
    <2>2. log \in [Targets -> Seq({"plan", "other"})] /\ \A t \in Targets : Len(log[t]) = Latest(t)
      BY <1>1 DEF Inv, WorldOK, TargetOK, Latest
    <2>3. \A p \in Procs : mem[p] \in Memories /\ CountOK(pc[p], mem[p])
      BY <1>1 DEF Inv, ProcsOK, ProcOK
    <2>4. mem \in [Procs -> Memories]
      BY <1>1, <2>3 DEF Inv, ProcsOK
    <2>5. \A p \in Procs : pc[p] \in {"cleanLoad", "cleanDelete"} => mem[p].clean # {}
      BY <2>3 DEF CountOK, Cleaning
    <2>6. draft \in [Targets -> Nat] /\ clock \in Nat /\ pc \in [Procs -> Labels]
      BY <1>1 DEF Inv, DraftsOK, ProcsOK
    <2> QED BY <2>1, <2>2, <2>4, <2>5, <2>6 DEF TypeOK, Memories
  <1> QED BY <1>1, InvHolds, PTL

\* A plan writes each candidate at most once, over the version it was made from.
THEOREM PlansReplaceTheirBase == Spec => []OverPlannedBase
  <1>1. Inv => OverPlannedBase
    BY DEF Inv, WorldOK, TargetOK, OverPlannedBase, Latest
  <1> QED BY <1>1, InvHolds, PTL

\* Nothing is published while a target is stale.
THEOREM StalePlansPublishNothing == Spec => []NothingIfStale
  <1>1. ASSUME Inv, NEW p \in Procs, mem[p].wrote # {}, NEW t \in ToPublish PROVE Followed(t, mem[p].begun[t])
    <2>1. KnownOK(pc[p], mem[p], history, log) /\ CountOK(pc[p], mem[p])
      BY <1>1 DEF Inv, ProcsOK, ProcOK
    <2>2. pc[p] \notin {"idle", "preflight"}
      BY <1>1, <2>1 DEF CountOK, Before
    <2> QED BY <2>1, <2>2 DEF KnownOK, Caught, Followed, Latest
  <1>2. Inv => NothingIfStale
    BY <1>1 DEF NothingIfStale
  <1> QED BY <1>2, InvHolds, PTL

\* A plan that is refused as stale was overtaken by somebody else.
THEOREM StaleMeansOthersWrote == Spec => []StaleByOthers
  <1>1. Inv => StaleByOthers
    BY DEF Inv, ProcsOK, ProcOK, KnownOK, ByOthers, StaleByOthers, Latest
  <1> QED BY <1>1, InvHolds, PTL

\* Reports are true of what was accepted.
THEOREM ReportsAreTrue == Spec => []ReportIsTrue
  <1>1. ASSUME Inv, NEW p \in Procs, pc[p] = "report" PROVE Agree(mem[p], {})
    BY <1>1 DEF Inv, ProcsOK, ProcOK, CountOK
  <1>2. Inv => ReportIsTrue
    BY <1>1 DEF ReportIsTrue, Agree
  <1> QED BY <1>2, InvHolds, PTL

\* A draft is removed only when its candidate is published, and never one that
\* was already different when it was compared.
THEOREM RemovedDraftsWerePublished == Spec => DraftsKept
  <1> DEFINE Kept(p, t) == (CleanDelete(p) /\ draft[t] # 0 /\ draft'[t] = 0) =>
                /\ \E v \in 1..Latest(t) : history[t][v] = Plan[t].cand
                /\ draft[t] = Plan[t].fingerprint \/ draft[t] > mem[p].checked
  <1>1. ASSUME Inv, NEW p \in Procs, NEW t \in Targets PROVE Kept(p, t)
    <2> SUFFICES ASSUME CleanDelete(p), draft[t] # 0, draft'[t] = 0
                 PROVE  /\ \E v \in 1..Latest(t) : history[t][v] = Plan[t].cand
                        /\ draft[t] = Plan[t].fingerprint \/ draft[t] > mem[p].checked
      OBVIOUS
    <2>1. /\ KnownOK("cleanDelete", mem[p], history, log) /\ ComparedOK("cleanDelete", mem[p], draft, clock)
          /\ NextDraft(p) \in mem[p].clean /\ NextDraft(p) = FirstOf(mem[p].clean)
      BY <1>1, AtCleaning, NextDraftIs DEF CleanDelete, Cleaning
    <2>2. t = NextDraft(p)
      <3>1. draft \in [Targets -> Nat] /\ draft' = [draft EXCEPT ![NextDraft(p)] = 0]
        BY <1>1 DEF Inv, DraftsOK, CleanDelete
      <3> QED BY <3>1
    <2>3. Reached(history, t)
      BY <2>1, <2>2 DEF KnownOK, Cleaning
    <2>4. draft[t] \in {0, Plan[t].fingerprint} \/ draft[t] > mem[p].checked
      BY <2>1, <2>2 DEF ComparedOK
    <2> QED BY <2>3, <2>4 DEF Reached, Latest
  <1>2. Inv /\ [Next]_vars => [\A p \in Procs : \A t \in Targets : Kept(p, t)]_vars
    BY <1>1
  <1> QED BY <1>2, InvHolds, PTL DEF Spec, DraftsKept
=============================================================================
