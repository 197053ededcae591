------------------------- MODULE VersionHistoryProofs -------------------------
(***************************************************************************)
(* VersionHistory for every set of processes and templates, every initial  *)
(* history and every bound: what a rollback or a restore brings back, what *)
(* it replaces, and that its report is true.                               *)
(***************************************************************************)
EXTENDS VersionHistory, TLAPS

-----------------------------------------------------------------------------
(***************************************************************************)
(* The inductive invariant: what each published version says of itself,    *)
(* and what a process knows at each label.                                 *)
(***************************************************************************)

\* Version e follows the versions h as a rollback or a restore promises.
EntryOK(h, e) ==
    /\ e.asked \in 1..Len(h)
    /\ e.tpl = h[e.asked].tpl
    /\ e.shown \in 1..Len(h)
    /\ e.tpl # h[e.shown].tpl
    /\ e.final = e.shown
    /\ e.by = "restore" => e.base = Len(h)

Before(h, v) == SubSeq(h, 1, v - 1)

\* The same of version v of h.
VersionOK(h, v) ==
    h[v].by # "other" =>
        /\ h[v].asked \in 1..(v - 1)
        /\ h[v].tpl = h[h[v].asked].tpl
        /\ h[v].shown \in 1..(v - 1)
        /\ h[v].tpl # h[h[v].shown].tpl
        /\ h[v].final = h[v].shown
        /\ h[v].by = "restore" => h[v].base = v - 1

HistoryOK(h) ==
    /\ h \in Seq(VersionRecords) /\ Len(h) >= 1
    /\ \A v \in 1..Len(h) : VersionOK(h, v)

Memories(n) ==
    [op : Ops \cup {"none"}, dry : BOOLEAN, asked : 0..n, source : 0..n, shown : 0..n, final : 0..n,
     base : 0..n, published : 0..n]

\* What is true of the memory m of a process at label l.
Chosen == {"confirm", "recheck", "export", "again", "validate", "post"}
Rechecked == {"export", "again", "validate", "post", "accepted"}
Published(m, h) ==
    /\ m.published \in 1..Len(h)
    /\ h[m.published].by = m.op
    /\ h[m.published].source = m.source
    /\ h[m.published].base = m.base
    /\ m.base < m.published
    /\ m.op = "restore" => m.base = m.published - 1
MemOK(l, m, h) ==
    /\ m \in Memories(Len(h))
    /\ l # "idle" => m.op \in Ops /\ m.source >= 1 /\ m.asked = m.source
    /\ l = "source" /\ m.op = "tui" => m.shown >= 1
    /\ l \notin {"idle", "source", "current"} => m.shown >= 1
    /\ l \in Chosen => h[m.source].tpl # h[m.shown].tpl
    /\ l \in Rechecked /\ ~m.dry => m.final = m.shown
    /\ l \in {"validate", "post", "accepted"} => m.base >= 1
    /\ l = "again" /\ m.op # "restore" => m.base >= 1
    /\ l \in {"post", "accepted"} => ~m.dry
    /\ l = "accepted" => Published(m, h)

ReportOK(r, h) ==
    /\ r \in [op : Ops, previous : 1..Len(h), source : 1..Len(h), published : 1..Len(h)]
    /\ h[r.published].by = r.op /\ h[r.published].source = r.source
    /\ h[r.published].base = r.previous
    /\ r.previous < r.published
    /\ r.op = "restore" => r.previous = r.published - 1

ProcsOK ==
    /\ pc \in [Procs -> Labels]
    /\ mem = [p \in Procs |-> mem[p]]
    /\ \A p \in Procs : MemOK(pc[p], mem[p], history)

RestOK ==
    /\ retained \in 1..Latest
    /\ snaps \subseteq 1..Latest
    /\ draft \in BOOLEAN
    /\ \A r \in reports : ReportOK(r, history)
    /\ console \in Nat /\ locals \in Nat /\ faults \in Nat

Inv == HistoryOK(history) /\ ProcsOK /\ RestOK

-----------------------------------------------------------------------------
(***************************************************************************)
(* A version stays what it is when another is appended.                    *)
(***************************************************************************)

LEMMA AppendKeeps ==
    ASSUME NEW h \in Seq(VersionRecords), NEW e \in VersionRecords
    PROVE  /\ Append(h, e) \in Seq(VersionRecords)
           /\ Len(Append(h, e)) = Len(h) + 1
           /\ \A v \in 1..Len(h) : Append(h, e)[v] = h[v]
           /\ Append(h, e)[Len(h) + 1] = e
  OBVIOUS

LEMMA HistoryAppend ==
    ASSUME NEW h, HistoryOK(h), NEW e \in VersionRecords, e.by # "other" => EntryOK(h, e)
    PROVE  HistoryOK(Append(h, e))
  <1> DEFINE g == Append(h, e)
  <1>1. /\ g \in Seq(VersionRecords) /\ Len(g) = Len(h) + 1 /\ Len(h) \in Nat /\ Len(h) >= 1
        /\ \A v \in 1..Len(h) : g[v] = h[v]
        /\ g[Len(h) + 1] = e
    BY AppendKeeps DEF HistoryOK
  <1> HIDE DEF g
  <1>2. ASSUME NEW v \in 1..Len(h) PROVE VersionOK(g, v)
    <2>1. VersionOK(h, v) /\ g[v] = h[v]
      BY <1>1 DEF HistoryOK
    <2>2. \A w \in 1..(v - 1) : g[w] = h[w]
      BY <1>1
    <2> QED BY <2>1, <2>2 DEF VersionOK
  <1>3. VersionOK(g, Len(h) + 1)
    <2>1. ASSUME e.by # "other" PROVE VersionOK(g, Len(h) + 1)
      <3>1. EntryOK(h, e) /\ Len(h) + 1 - 1 = Len(h)
        BY <1>1, <2>1
      <3>2. g[e.asked] = h[e.asked] /\ g[e.shown] = h[e.shown]
        BY <1>1, <3>1 DEF EntryOK
      <3> QED BY <1>1, <3>1, <3>2 DEF EntryOK, VersionOK
    <2> QED BY <1>1, <2>1 DEF VersionOK
  <1>4. \A v \in 1..Len(g) : v \in 1..Len(h) \/ v = Len(h) + 1
    BY <1>1
  <1>5. HistoryOK(g)
    BY <1>1, <1>2, <1>3, <1>4 DEF HistoryOK
  <1> QED BY <1>5 DEF g

LEMMA MemAppend ==
    ASSUME NEW h \in Seq(VersionRecords), NEW e \in VersionRecords, NEW l \in Labels, NEW m, MemOK(l, m, h)
    PROVE  MemOK(l, m, Append(h, e))
  <1> DEFINE g == Append(h, e)
  <1>1. Len(g) = Len(h) + 1 /\ Len(h) \in Nat /\ \A v \in 1..Len(h) : g[v] = h[v]
    BY AppendKeeps
  <1> HIDE DEF g
  <1>2. m \in Memories(Len(h))
    BY DEF MemOK
  <1>3. m \in Memories(Len(g))
    BY <1>1, <1>2 DEF Memories
  <1>4. l \in Chosen => m.source \in 1..Len(h) /\ m.shown \in 1..Len(h)
    BY <1>2 DEF MemOK, Memories, Chosen
  <1>5. l \in Chosen => g[m.source].tpl # g[m.shown].tpl
    BY <1>1, <1>4 DEF MemOK
  <1>6. l = "accepted" => Published(m, g)
    BY <1>1 DEF MemOK, Published
  <1>7. MemOK(l, m, g)
    BY <1>3, <1>5, <1>6 DEF MemOK
  <1> QED BY <1>7 DEF g

LEMMA ReportAppend ==
    ASSUME NEW h \in Seq(VersionRecords), NEW e \in VersionRecords, NEW r, ReportOK(r, h)
    PROVE  ReportOK(r, Append(h, e))
  <1> DEFINE g == Append(h, e)
  <1>1. Len(g) = Len(h) + 1 /\ Len(h) \in Nat /\ \A v \in 1..Len(h) : g[v] = h[v]
    BY AppendKeeps
  <1> HIDE DEF g
  <1>2. r.published \in 1..Len(h)
    BY DEF ReportOK
  <1>3. r \in [op : Ops, previous : 1..Len(g), source : 1..Len(g), published : 1..Len(g)]
    BY <1>1 DEF ReportOK
  <1>4. ReportOK(r, g)
    BY <1>1, <1>2, <1>3 DEF ReportOK
  <1> QED BY <1>4 DEF g

-----------------------------------------------------------------------------
(***************************************************************************)
(* Steps that do not publish.                                              *)
(***************************************************************************)

LEMMA Here ==
    ASSUME Inv, NEW p \in Procs
    PROVE  /\ MemOK(pc[p], mem[p], history)
           /\ history \in Seq(VersionRecords) /\ Latest \in Nat /\ Latest >= 1
           /\ pc \in [Procs -> Labels] /\ mem = [q \in Procs |-> mem[q]]
  BY DEF Inv, ProcsOK, HistoryOK, Latest

LEMMA GotoKeeps ==
    ASSUME Inv, NEW p \in Procs, NEW l \in Labels, NEW m, Goto(p, l, m), MemOK(l, m, history),
           history' = history
    PROVE  HistoryOK(history)' /\ ProcsOK'
  <1>1. pc' \in [Procs -> Labels] /\ pc'[p] = l /\ \A q \in Procs \ {p} : pc'[q] = pc[q]
    BY DEF Inv, ProcsOK, Goto
  <1>2. mem' = [mem EXCEPT ![p] = m] /\ mem = [q \in Procs |-> mem[q]]
    BY DEF Inv, ProcsOK, Goto
  <1>3. mem' = [q \in Procs |-> mem'[q]] /\ mem'[p] = m /\ \A q \in Procs \ {p} : mem'[q] = mem[q]
    BY <1>2
  <1>4. \A q \in Procs : MemOK(pc'[q], mem'[q], history)
    BY <1>1, <1>3 DEF Inv, ProcsOK
  <1> QED BY <1>1, <1>3, <1>4 DEF ProcsOK, Inv

LEMMA BlankOK == ASSUME Inv PROVE MemOK("idle", Blank, history) /\ "idle" \in Labels
  <1>1. Len(history) \in Nat
    BY DEF Inv, HistoryOK
  <1> QED BY <1>1 DEF MemOK, Memories, Blank, Chosen, Rechecked, Labels

LEMMA StopKeeps ==
    ASSUME Inv, NEW p \in Procs, Stop(p), history' = history
    PROVE  HistoryOK(history)' /\ ProcsOK'
  BY BlankOK, GotoKeeps DEF Stop

\* What the local store and the counters keep.
LEMMA RestKeeps ==
    ASSUME Inv, history' = history, UNCHANGED <<retained, draft, reports>>,
           snaps' \subseteq 1..Latest, console' \in Nat, locals' \in Nat, faults' \in Nat
    PROVE  RestOK'
  BY DEF Inv, RestOK, Latest

LEMMA QuietRest ==
    ASSUME Inv, UNCHANGED <<history, retained, snaps, draft, reports, bounds>>
    PROVE  RestOK'
  BY DEF Inv, RestOK, Latest, bounds

\* A version that was fetched may get a snapshot.
LEMMA KeepTyped ==
    ASSUME Inv, NEW p \in Procs, NEW v \in 1..Latest, Keep(p, v)
    PROVE  snaps' \subseteq 1..Latest
  BY DEF Inv, RestOK, Keep

LEMMA MemorySource ==
    ASSUME Inv, NEW p \in Procs, pc[p] # "idle"
    PROVE  mem[p].source \in 1..Latest /\ mem[p] \in Memories(Latest)
  <1>1. MemOK(pc[p], mem[p], history) /\ Latest \in Nat
    BY Here
  <1> QED BY <1>1 DEF MemOK, Memories, Latest

\* An update of one number of a memory keeps it typed.
LEMMA MemoryEdits ==
    ASSUME NEW n \in Nat, NEW m \in Memories(n), NEW v \in 0..n
    PROVE  /\ [m EXCEPT !.shown = v] \in Memories(n)
           /\ [m EXCEPT !.final = v] \in Memories(n)
           /\ [m EXCEPT !.base = v] \in Memories(n)
           /\ [m EXCEPT !.published = v] \in Memories(n)
  <1>1. [m EXCEPT !.shown = v] \in Memories(n)
    BY DEF Memories
  <1>2. [m EXCEPT !.final = v] \in Memories(n)
    BY DEF Memories
  <1>3. [m EXCEPT !.base = v] \in Memories(n)
    BY DEF Memories
  <1>4. [m EXCEPT !.published = v] \in Memories(n)
    BY DEF Memories
  <1> QED BY <1>1, <1>2, <1>3, <1>4

LEMMA BeginKeeps ==
    ASSUME Inv, NEW p \in Procs, NEW op \in Ops, NEW dry \in BOOLEAN, NEW source \in 1..Latest,
           Begin(p, op, dry, source)
    PROVE  Inv'
  <1> DEFINE m == [Blank EXCEPT !.op = op, !.dry = dry, !.asked = source, !.source = source]
             l == IF op = "tui" THEN "current" ELSE "source"
  <1>1. l \in Labels
    BY DEF Labels
  <1>2. Latest \in Nat
    BY Here
  <1>3. m.op = op /\ m.asked = source /\ m.source = source
    BY DEF Blank
  <1>4. m \in Memories(Latest) /\ source >= 1
    <2>1. source \in 0..Latest /\ 0 \in 0..Latest /\ source >= 1
      BY <1>2
    <2> QED BY <2>1 DEF Blank, Memories, Ops
  <1>5. MemOK(l, m, history)
    BY <1>3, <1>4 DEF MemOK, Chosen, Rechecked, Latest
  <1>6. HistoryOK(history)' /\ ProcsOK'
    BY <1>1, <1>5, GotoKeeps DEF Begin
  <1> QED BY <1>6, QuietRest DEF Begin, Inv

LEMMA ReadSourceKeeps == ASSUME Inv, NEW p \in Procs, ReadSource(p) PROVE Inv'
  <1> DEFINE m == mem[p]
             l == IF m.op = "tui" THEN "compare" ELSE "current"
  <1>1. MemOK("source", m, history) /\ m.source \in 1..Latest
    BY Here, MemorySource DEF ReadSource
  <1>2. history' = history /\ UNCHANGED <<retained, draft, reports, bounds>>
    BY DEF ReadSource
  <1>3. CASE Goto(p, l, m) /\ Keep(p, m.source)
    <2>1. l \in Labels /\ MemOK(l, m, history)
      BY <1>1 DEF MemOK, Labels, Chosen, Rechecked
    <2>2. HistoryOK(history)' /\ ProcsOK'
      BY <1>2, <1>3, <2>1, GotoKeeps
    <2>3. RestOK'
      BY <1>1, <1>2, <1>3, KeepTyped, RestKeeps DEF bounds, Inv, RestOK
    <2> QED BY <2>2, <2>3 DEF Inv
  <1>4. CASE Stop(p) /\ UNCHANGED snaps
    BY <1>2, <1>4, StopKeeps, QuietRest DEF Inv
  <1> QED BY <1>3, <1>4 DEF ReadSource

LEMMA ReadCurrentKeeps == ASSUME Inv, NEW p \in Procs, ReadCurrent(p) PROVE Inv'
  <1> DEFINE m == [mem[p] EXCEPT !.shown = Latest]
             l == IF mem[p].op = "tui" THEN "source" ELSE "compare"
  <1>1. MemOK("current", mem[p], history) /\ mem[p] \in Memories(Latest) /\ Latest \in Nat /\ Latest >= 1
    BY Here, MemorySource DEF ReadCurrent
  <1>2. m \in Memories(Latest) /\ m.shown = Latest
        /\ m.op = mem[p].op /\ m.source = mem[p].source /\ m.asked = mem[p].asked /\ m.dry = mem[p].dry
    BY <1>1, MemoryEdits DEF Memories
  <1>3. l \in Labels /\ MemOK(l, m, history)
    <2> HIDE DEF m
    <2> QED BY <1>1, <1>2 DEF MemOK, Labels, Chosen, Rechecked, Latest
  <1>4. history' = history /\ UNCHANGED <<retained, draft, reports, bounds>> /\ Keep(p, Latest)
    BY DEF ReadCurrent
  <1>5. HistoryOK(history)' /\ ProcsOK'
    BY <1>3, <1>4, GotoKeeps DEF ReadCurrent
  <1>6. RestOK'
    BY <1>1, <1>4, KeepTyped, RestKeeps DEF bounds, Inv, RestOK
  <1> QED BY <1>5, <1>6 DEF Inv

LEMMA CompareKeeps == ASSUME Inv, NEW p \in Procs, Compare(p) PROVE Inv'
  <1> DEFINE m == mem[p]
             l == IF m.dry THEN Core(p) ELSE "confirm"
  <1>1. MemOK("compare", m, history)
    BY Here DEF Compare
  <1>2. UNCHANGED <<history, retained, snaps, draft, reports, bounds>>
    BY DEF Compare
  <1>3. CASE Stop(p)
    BY <1>2, <1>3, StopKeeps, QuietRest DEF Inv
  <1>4. CASE Goto(p, l, m) /\ Tpl(m.source) # Tpl(m.shown)
    <2>1. l \in {"again", "export", "confirm"} /\ (l # "confirm" => m.dry) /\ (l = "again" => m.op = "restore")
      BY DEF Core
    <2>2. l \in Labels /\ MemOK(l, m, history)
      <3> HIDE DEF l
      <3> QED BY <1>1, <1>4, <2>1 DEF MemOK, Labels, Chosen, Rechecked, Tpl
    <2> QED BY <1>2, <1>4, <2>2, GotoKeeps, QuietRest DEF Inv
  <1> QED BY <1>3, <1>4 DEF Compare

LEMMA ConfirmKeeps == ASSUME Inv, NEW p \in Procs, Confirm(p) PROVE Inv'
  <1>1. MemOK("confirm", mem[p], history)
    BY Here DEF Confirm
  <1>2. MemOK("recheck", mem[p], history) /\ "recheck" \in Labels
    BY <1>1 DEF MemOK, Labels, Chosen, Rechecked
  <1> QED BY <1>2, GotoKeeps, QuietRest DEF Confirm, Inv

LEMMA DeclineKeeps == ASSUME Inv, NEW p \in Procs, Decline(p) PROVE Inv'
  BY StopKeeps, QuietRest DEF Decline, Inv

LEMMA RecheckKeeps == ASSUME Inv, NEW p \in Procs, Recheck(p) PROVE Inv'
  <1> DEFINE m == [mem[p] EXCEPT !.final = Latest]
  <1>1. MemOK("recheck", mem[p], history) /\ mem[p] \in Memories(Latest) /\ Latest \in Nat /\ Latest >= 1
    BY Here, MemorySource DEF Recheck
  <1>2. history' = history /\ UNCHANGED <<retained, draft, reports, bounds>> /\ Keep(p, Latest)
    BY DEF Recheck
  <1>3. RestOK'
    BY <1>1, <1>2, KeepTyped, RestKeeps DEF bounds, Inv, RestOK
  <1>4. CASE Stop(p)
    BY <1>2, <1>3, <1>4, StopKeeps DEF Inv
  <1>5. CASE Goto(p, Core(p), m) /\ Latest = mem[p].shown
    <2>1. m \in Memories(Latest) /\ m.final = Latest /\ m.shown = Latest
          /\ m.op = mem[p].op /\ m.source = mem[p].source /\ m.asked = mem[p].asked
      BY <1>1, <1>5, MemoryEdits DEF Memories
    <2>2. Core(p) \in {"again", "export"} /\ (Core(p) = "again" => mem[p].op = "restore")
      BY DEF Core
    <2>3. Core(p) \in Labels /\ MemOK(Core(p), m, history)
      <3> HIDE DEF m
      <3> QED BY <1>1, <1>5, <2>1, <2>2 DEF MemOK, Labels, Chosen, Rechecked, Latest
    <2> QED BY <1>2, <1>3, <1>5, <2>3, GotoKeeps DEF Inv
  <1> QED BY <1>4, <1>5 DEF Recheck

LEMMA ExportKeeps == ASSUME Inv, NEW p \in Procs, Export(p) PROVE Inv'
  <1> DEFINE m == [mem[p] EXCEPT !.base = Latest]
             l == IF mem[p].op = "restore" THEN "validate" ELSE "again"
  <1>1. MemOK("export", mem[p], history) /\ mem[p] \in Memories(Latest) /\ Latest \in Nat /\ Latest >= 1
    BY Here, MemorySource DEF Export
  <1>2. m \in Memories(Latest) /\ m.base = Latest /\ m.final = mem[p].final /\ m.shown = mem[p].shown
        /\ m.op = mem[p].op /\ m.source = mem[p].source /\ m.asked = mem[p].asked /\ m.dry = mem[p].dry
    BY <1>1, MemoryEdits DEF Memories
  <1>3. l \in Labels /\ MemOK(l, m, history)
    <2> HIDE DEF m
    <2> QED BY <1>1, <1>2 DEF MemOK, Labels, Chosen, Rechecked, Latest
  <1> QED BY <1>3, GotoKeeps, QuietRest DEF Export, Inv

LEMMA ReadAgainKeeps == ASSUME Inv, NEW p \in Procs, ReadAgain(p) PROVE Inv'
  <1> DEFINE m == mem[p]
             l == IF m.op = "restore" THEN "export" ELSE "validate"
  <1>1. MemOK("again", m, history) /\ m.source \in 1..Latest
    BY Here, MemorySource DEF ReadAgain
  <1>2. history' = history /\ UNCHANGED <<retained, draft, reports, bounds>>
    BY DEF ReadAgain
  <1>3. CASE Goto(p, l, m) /\ Keep(p, m.source)
    <2>1. l \in Labels /\ MemOK(l, m, history)
      BY <1>1 DEF MemOK, Labels, Chosen, Rechecked
    <2>2. HistoryOK(history)' /\ ProcsOK'
      BY <1>2, <1>3, <2>1, GotoKeeps
    <2>3. RestOK'
      BY <1>1, <1>2, <1>3, KeepTyped, RestKeeps DEF bounds, Inv, RestOK
    <2> QED BY <2>2, <2>3 DEF Inv
  <1>4. CASE Stop(p) /\ UNCHANGED snaps
    BY <1>2, <1>4, StopKeeps, QuietRest DEF Inv
  <1> QED BY <1>3, <1>4 DEF ReadAgain

LEMMA ValidateKeeps == ASSUME Inv, NEW p \in Procs, Validate(p) PROVE Inv'
  <1>1. MemOK("validate", mem[p], history)
    BY Here DEF Validate
  <1>2. CASE Stop(p)
    BY <1>2, StopKeeps, QuietRest DEF Validate, Inv
  <1>3. CASE Goto(p, "post", mem[p]) /\ ~mem[p].dry
    <2>1. "post" \in Labels /\ MemOK("post", mem[p], history)
      BY <1>1, <1>3 DEF MemOK, Labels, Chosen, Rechecked
    <2> QED BY <1>3, <2>1, GotoKeeps, QuietRest DEF Validate, Inv
  <1> QED BY <1>2, <1>3 DEF Validate

-----------------------------------------------------------------------------
(***************************************************************************)
(* Steps that append a version.                                            *)
(***************************************************************************)

\* What is local stays good, whatever is appended.
LEMMA RestAppend ==
    ASSUME Inv, NEW e \in VersionRecords, history' = Append(history, e),
           UNCHANGED <<retained, snaps, draft, reports>>,
           console' \in Nat, locals' \in Nat, faults' \in Nat
    PROVE  RestOK'
  <1>1. history \in Seq(VersionRecords) /\ Latest' = Latest + 1 /\ Latest \in Nat
    BY AppendKeeps DEF Inv, HistoryOK, Latest
  <1>2. \A r \in reports : ReportOK(r, history')
    BY <1>1, ReportAppend DEF Inv, RestOK
  <1>3. retained \in 1..Latest' /\ snaps \subseteq 1..Latest'
    BY <1>1 DEF Inv, RestOK
  <1> QED BY <1>2, <1>3 DEF Inv, RestOK

\* Processes that stay where they are.
LEMMA ProcsAppend ==
    ASSUME Inv, NEW e \in VersionRecords, history' = Append(history, e), UNCHANGED <<pc, mem>>
    PROVE  ProcsOK'
  <1>1. history \in Seq(VersionRecords)
    BY DEF Inv, HistoryOK
  <1>2. \A q \in Procs : MemOK(pc[q], mem[q], history')
    BY <1>1, MemAppend DEF Inv, ProcsOK
  <1> QED BY <1>2 DEF Inv, ProcsOK

\* A process that goes on.
LEMMA GotoAppend ==
    ASSUME Inv, NEW p \in Procs, NEW l \in Labels, NEW m, Goto(p, l, m),
           NEW e \in VersionRecords, history' = Append(history, e), MemOK(l, m, history')
    PROVE  ProcsOK'
  <1>1. pc' \in [Procs -> Labels] /\ pc'[p] = l /\ \A q \in Procs \ {p} : pc'[q] = pc[q]
    BY DEF Inv, ProcsOK, Goto
  <1>2. mem' = [mem EXCEPT ![p] = m] /\ mem = [q \in Procs |-> mem[q]]
    BY DEF Inv, ProcsOK, Goto
  <1>3. mem' = [q \in Procs |-> mem'[q]] /\ mem'[p] = m /\ \A q \in Procs \ {p} : mem'[q] = mem[q]
    BY <1>2
  <1>4. history \in Seq(VersionRecords)
    BY DEF Inv, HistoryOK
  <1>5. \A q \in Procs \ {p} : MemOK(pc'[q], mem'[q], history')
    BY <1>1, <1>3, <1>4, MemAppend DEF Inv, ProcsOK
  <1> QED BY <1>1, <1>3, <1>5 DEF ProcsOK

\* What a process at "post" writes is what a rollback or a restore promises.
LEMMA WriteOK ==
    ASSUME Inv, NEW p \in Procs, pc[p] = "post", Write(mem[p])
    PROVE  /\ Version(mem[p]) \in VersionRecords
           /\ EntryOK(history, Version(mem[p]))
           /\ history' = Append(history, Version(mem[p]))
           /\ HistoryOK(history')
           /\ mem[p].op = "restore" => Latest = mem[p].base
  <1> DEFINE m == mem[p]
             e == Version(m)
  <1>1. MemOK("post", m, history) /\ m \in Memories(Latest) /\ Latest \in Nat
        /\ history \in Seq(VersionRecords)
    BY Here, MemorySource
  <1>2. /\ m.op \in Ops /\ m.source \in 1..Latest /\ m.asked = m.source
        /\ m.shown \in 1..Latest /\ m.final = m.shown /\ m.base \in 1..Latest
        /\ history[m.source].tpl # history[m.shown].tpl
    BY <1>1 DEF MemOK, Memories, Chosen, Rechecked
  <1>3. history[m.source].tpl \in Templates
    <2>1. history[m.source] \in VersionRecords
      BY <1>1, <1>2 DEF Latest
    <2> QED BY <2>1 DEF VersionRecords
  <1>4. /\ e.tpl = history[m.source].tpl /\ e.by = m.op /\ e.asked = m.asked /\ e.source = m.source
        /\ e.shown = m.shown /\ e.final = m.final /\ e.base = m.base
    BY DEF Version, Tpl
  <1>5. e \in VersionRecords
    <2>1. m.asked \in Nat /\ m.source \in Nat /\ m.shown \in Nat /\ m.final \in Nat /\ m.base \in Nat
      BY <1>1, <1>2
    <2> QED BY <1>2, <1>3, <2>1 DEF Version, Tpl, VersionRecords
  <1>6. history' = Append(history, e) /\ (m.op = "restore" => Latest = m.base)
    BY DEF Write
  <1> HIDE DEF e
  <1>7. EntryOK(history, e)
    BY <1>2, <1>4, <1>6 DEF EntryOK, Latest
  <1>8. HistoryOK(history')
    BY <1>5, <1>6, <1>7, HistoryAppend DEF Inv
  <1> QED BY <1>5, <1>6, <1>7, <1>8 DEF e

LEMMA PostKeeps == ASSUME Inv, NEW p \in Procs, Post(p) PROVE Inv'
  <1> DEFINE m == [mem[p] EXCEPT !.published = Latest + 1]
             e == Version(mem[p])
             h == history'
  <1>1. MemOK("post", mem[p], history) /\ mem[p] \in Memories(Latest) /\ Latest \in Nat
        /\ history \in Seq(VersionRecords)
    BY Here, MemorySource DEF Post
  <1>2. /\ e \in VersionRecords /\ h = Append(history, e) /\ HistoryOK(h)
        /\ mem[p].op = "restore" => Latest = mem[p].base
    BY WriteOK DEF Post
  <1>3. Len(h) = Latest + 1 /\ h[Latest + 1] = e
    BY <1>1, <1>2, AppendKeeps DEF Latest
  <1>4. MemOK("post", mem[p], h)
    BY <1>1, <1>2, MemAppend DEF Labels
  <1>5. mem[p] \in Memories(Latest + 1)
    BY <1>3, <1>4 DEF MemOK
  <1>6. m \in Memories(Latest + 1)
    <2>1. Latest + 1 \in 0..(Latest + 1) /\ Latest + 1 \in Nat
      BY <1>1
    <2> QED BY <1>5, <2>1, MemoryEdits
  <1>7. /\ m.published = Latest + 1 /\ m.op = mem[p].op /\ m.source = mem[p].source
        /\ m.base = mem[p].base /\ m.asked = mem[p].asked /\ m.shown = mem[p].shown
        /\ m.final = mem[p].final /\ m.dry = mem[p].dry
    BY <1>5 DEF Memories
  <1>8. e.by = mem[p].op /\ e.source = mem[p].source /\ e.base = mem[p].base
    BY DEF Version
  <1>9. mem[p].base \in 0..Latest
    BY <1>1 DEF Memories
  <1> HIDE DEF m, e
  <1>10. Published(m, h)
    BY <1>1, <1>2, <1>3, <1>7, <1>8, <1>9 DEF Published
  <1>11. MemOK("accepted", m, h)
    BY <1>3, <1>4, <1>6, <1>7, <1>10 DEF MemOK, Chosen, Rechecked
  <1>12. ProcsOK'
    <2>1. Goto(p, "accepted", m)
      BY DEF Post, m
    <2> QED BY <1>2, <1>11, <2>1, GotoAppend DEF Labels
  <1>13. RestOK'
    BY <1>2, RestAppend DEF Post, bounds, Inv, RestOK
  <1> QED BY <1>2, <1>12, <1>13 DEF Inv

LEMMA PostAnswerLostKeeps == ASSUME Inv, NEW p \in Procs, PostAnswerLost(p) PROVE Inv'
  <1>1. /\ Version(mem[p]) \in VersionRecords
        /\ history' = Append(history, Version(mem[p]))
        /\ HistoryOK(history')
    BY WriteOK DEF PostAnswerLost
  <1>2. ProcsOK'
    BY <1>1, ProcsAppend DEF PostAnswerLost
  <1>3. RestOK'
    BY <1>1, RestAppend DEF PostAnswerLost, Fault, Inv, RestOK
  <1> QED BY <1>1, <1>2, <1>3 DEF Inv

LEMMA ConsolePublishKeeps == ASSUME Inv, NEW tpl \in Templates, ConsolePublish(tpl) PROVE Inv'
  <1>1. Other(tpl) \in VersionRecords /\ Other(tpl).by = "other"
    BY DEF Other, VersionRecords
  <1>2. history' = Append(history, Other(tpl))
    BY DEF ConsolePublish
  <1>3. HistoryOK(history')
    BY <1>1, <1>2, HistoryAppend DEF Inv
  <1>4. ProcsOK'
    BY <1>1, <1>2, ProcsAppend DEF ConsolePublish
  <1>5. RestOK'
    BY <1>1, <1>2, RestAppend DEF ConsolePublish, Inv, RestOK
  <1> QED BY <1>3, <1>4, <1>5 DEF Inv

-----------------------------------------------------------------------------
(***************************************************************************)
(* The report, and the rest of the environment.                            *)
(***************************************************************************)

LEMMA ReportHolds ==
    ASSUME Inv, NEW p \in Procs, pc[p] = "accepted"
    PROVE  ReportOK(ReportOf(p), history) /\ mem[p].published \in 1..Latest
  <1>1. MemOK("accepted", mem[p], history) /\ mem[p] \in Memories(Latest) /\ Latest \in Nat
    BY Here, MemorySource
  <1>2. Published(mem[p], history) /\ mem[p].op \in Ops /\ mem[p].base \in 1..Latest /\ mem[p].source \in 1..Latest
    BY <1>1 DEF MemOK, Memories
  <1>3. /\ ReportOf(p).op = mem[p].op /\ ReportOf(p).previous = mem[p].base
        /\ ReportOf(p).source = mem[p].source /\ ReportOf(p).published = mem[p].published
    BY DEF ReportOf
  <1>4. ReportOf(p) \in [op : Ops, previous : 1..Latest, source : 1..Latest, published : 1..Latest]
    BY <1>2 DEF ReportOf, Published, Latest
  <1> QED BY <1>2, <1>3, <1>4 DEF ReportOK, Published, Latest

LEMMA FinishKeeps == ASSUME Inv, NEW p \in Procs, Finish(p) \/ FinishWithFailure(p) PROVE Inv'
  <1>1. ReportOK(ReportOf(p), history) /\ mem[p].published \in 1..Latest
    BY ReportHolds DEF Finish, FinishWithFailure
  <1>2. /\ reports' = reports \cup {ReportOf(p)} /\ snaps' \in {snaps, snaps \cup {mem[p].published}}
        /\ history' = history /\ UNCHANGED <<retained, draft, console, locals>> /\ faults' \in {faults, faults + 1}
        /\ Stop(p)
    BY DEF Finish, FinishWithFailure, Fault, bounds
  <1>3. RestOK'
    <2>1. \A r \in reports' : ReportOK(r, history)
      BY <1>1, <1>2 DEF Inv, RestOK
    <2> QED BY <1>1, <1>2, <2>1 DEF Inv, RestOK, Latest
  <1> QED BY <1>2, <1>3, StopKeeps DEF Inv

LEMMA RefusedKeeps == ASSUME Inv, NEW p \in Procs, PostRefused(p) \/ Crash(p) PROVE Inv'
  <1>1. HistoryOK(history)' /\ ProcsOK'
    BY StopKeeps DEF PostRefused, Crash
  <1>2. RestOK'
    <2>1. UNCHANGED <<history, retained, snaps, draft, reports, console, locals>> /\ faults' \in {faults, faults + 1}
      BY DEF PostRefused, Crash, Fault, bounds
    <2> QED BY <2>1 DEF Inv, RestOK, Latest
  <1> QED BY <1>1, <1>2 DEF Inv

LEMMA LocalKeeps == ASSUME Inv, Expire \/ ClearCache \/ BeginDraft \/ EndDraft PROVE Inv'
  <1>1. history' = history /\ pc' = pc /\ mem' = mem
    BY DEF Expire, ClearCache, BeginDraft, EndDraft
  <1>2. HistoryOK(history)' /\ ProcsOK'
    BY <1>1 DEF Inv, ProcsOK
  <1>3. Latest \in Nat
    BY DEF Inv, HistoryOK, Latest
  <1>4. RestOK'
    <2>0. retained \in 1..Latest /\ snaps \subseteq 1..Latest /\ draft \in BOOLEAN
      BY DEF Inv, RestOK
    <2>1. retained' \in 1..Latest
      <3>1. CASE Expire
        BY <1>3, <2>0, <3>1 DEF Expire
      <3>2. CASE retained' = retained
        BY <2>0, <3>2
      <3> QED BY <3>1, <3>2 DEF ClearCache, BeginDraft, EndDraft
    <2>3. snaps' \subseteq 1..Latest /\ reports' = reports
      BY <2>0 DEF Expire, ClearCache, BeginDraft, EndDraft
    <2>4. draft' \in BOOLEAN
      BY <2>0 DEF Expire, ClearCache, BeginDraft, EndDraft
    <2>2. console' \in Nat /\ locals' \in Nat /\ faults' \in Nat
      BY DEF Expire, ClearCache, BeginDraft, EndDraft, Inv, RestOK, bounds
    <2> QED BY <1>1, <2>1, <2>2, <2>3, <2>4 DEF Inv, RestOK, Latest
  <1> QED BY <1>2, <1>4 DEF Inv

LEMMA InitInv == Init => Inv
  <1> SUFFICES ASSUME Init PROVE Inv
    OBVIOUS
  <1>1. history = [v \in 1..Len(First) |-> Other(First[v])] /\ Len(First) \in Nat /\ Len(First) >= 1
    BY FirstPublished DEF Init
  <1>2. \A v \in 1..Len(First) : Other(First[v]) \in VersionRecords /\ Other(First[v]).by = "other"
    BY FirstPublished DEF Other, VersionRecords
  <1>3. history \in Seq(VersionRecords) /\ Len(history) = Len(First)
    BY <1>1, <1>2
  <1>4. HistoryOK(history)
    BY <1>1, <1>2, <1>3 DEF HistoryOK, VersionOK
  <1>5. MemOK("idle", Blank, history) /\ "idle" \in Labels
    BY <1>1, <1>3 DEF MemOK, Memories, Blank, Chosen, Rechecked, Labels
  <1>6. ProcsOK
    BY <1>5 DEF Init, ProcsOK
  <1>7. RestOK
    <2>1. 1 \in 1..Latest /\ Len(First) \in 1..Latest
      BY <1>1, <1>3 DEF Latest
    <2>2. reports = {} /\ snaps \subseteq {Len(First)} /\ retained = 1
      BY DEF Init
    <2>3. draft \in BOOLEAN /\ console \in Nat /\ locals \in Nat /\ faults \in Nat
      BY DEF Init
    <2> QED BY <2>1, <2>2, <2>3 DEF RestOK
  <1> QED BY <1>4, <1>6, <1>7 DEF Inv

LEMMA StepInv == Inv /\ [Next]_vars => Inv'
  <1> SUFFICES ASSUME Inv, [Next]_vars PROVE Inv'
    OBVIOUS
  <1>1. ASSUME NEW p \in Procs, Step(p) PROVE Inv'
    BY <1>1, BeginKeeps, ReadSourceKeeps, ReadCurrentKeeps, CompareKeeps, ConfirmKeeps, DeclineKeeps,
       RecheckKeeps, ExportKeeps, ReadAgainKeeps, ValidateKeeps, PostKeeps, PostAnswerLostKeeps,
       FinishKeeps, RefusedKeeps DEF Step
  <1>2. CASE Environment
    BY <1>2, ConsolePublishKeeps, LocalKeeps DEF Environment
  <1>3. CASE UNCHANGED vars
    BY <1>3 DEF vars, bounds, Inv, ProcsOK, RestOK, Latest
  <1> QED BY <1>1, <1>2, <1>3 DEF Next

LEMMA InvHolds == Spec => []Inv
  BY InitInv, StepInv, PTL DEF Spec

-----------------------------------------------------------------------------
(***************************************************************************)
(* Theorems.                                                               *)
(***************************************************************************)

\* Versions, snapshots and memories stay within the history, for any bounds.
THEOREM TypeCorrect == Spec => []TypeOK
  <1>1. ASSUME Inv PROVE TypeOK
    <2>1. \A p \in Procs : mem[p] \in Memories(Latest)
      BY <1>1 DEF Inv, ProcsOK, MemOK, Latest
    <2>2. mem \in [Procs -> Memories(Latest)]
      BY <1>1, <2>1 DEF Inv, ProcsOK
    <2>3. \A p \in Procs :
            /\ pc[p] # "idle" => mem[p].source >= 1
            /\ pc[p] \notin {"idle", "source", "current"} => mem[p].shown >= 1
            /\ pc[p] \in {"validate", "post", "accepted"} => mem[p].base >= 1
      BY <1>1 DEF Inv, ProcsOK, MemOK
    <2>4. reports \subseteq [op : Ops, previous : 1..Latest, source : 1..Latest, published : 1..Latest]
      BY <1>1 DEF Inv, RestOK, ReportOK, Latest
    <2> QED BY <1>1, <2>2, <2>3, <2>4 DEF Inv, HistoryOK, ProcsOK, RestOK, Memories, TypeOK, Latest
  <1> QED BY <1>1, InvHolds, PTL

\* What was published before the recheck is not overwritten unseen.
THEOREM NothingUnseenOverwritten == Spec => []SeenOrRaced
  <1>1. Inv => SeenOrRaced
    BY DEF Inv, HistoryOK, VersionOK, SeenOrRaced, Mined, Latest
  <1> QED BY <1>1, InvHolds, PTL

\* The version the user chose comes back.
THEOREM ChosenVersionReturns == Spec => []BringsBack
  <1>1. Inv => BringsBack
    BY DEF Inv, HistoryOK, VersionOK, BringsBack, Mined, Latest, Tpl
  <1> QED BY <1>1, InvHolds, PTL

\* Nothing equal to what was shown as current is published.
THEOREM NoPublicationWithoutDifference == Spec => []OnlyWhenDifferent
  <1>1. Inv => OnlyWhenDifferent
    BY DEF Inv, HistoryOK, VersionOK, OnlyWhenDifferent, Mined, Latest, Tpl
  <1> QED BY <1>1, InvHolds, PTL

\* A restore replaces the version it was validated against.
THEOREM RestoresReplaceTheirBase == Spec => []RestoreOverBase
  <1>1. Inv => RestoreOverBase
    BY DEF Inv, HistoryOK, VersionOK, RestoreOverBase, Mined, Latest
  <1> QED BY <1>1, InvHolds, PTL

\* Reports are true.
THEOREM ReportsAreTrue == Spec => []ReportTrue
  <1>1. Inv => ReportTrue
    BY DEF Inv, RestOK, ReportOK, ReportTrue
  <1> QED BY <1>1, InvHolds, PTL
=============================================================================
