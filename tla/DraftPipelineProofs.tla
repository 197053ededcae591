------------------------- MODULE DraftPipelineProofs -------------------------
(***************************************************************************)
(* DraftPipeline for every set of processes and templates, every merge and *)
(* every bound: its types, that a draft publication writes the merge of the*)
(* draft onto the version it replaces, that the pipeline implements        *)
(* TemplateRegister, what becomes of a draft that goes away, that what was *)
(* confirmed is published, and, for one process, that no draft is lost and *)
(* only what was edited changes.                                           *)
(***************************************************************************)
EXTENDS DraftPipeline, TLAPS

-----------------------------------------------------------------------------
(***************************************************************************)
(* The inductive invariant.  PublishedIsMerge looks at the server only; it *)
(* is preserved because of what each process holds when it sends, and that *)
(* because of what it held at every label before.                          *)
(***************************************************************************)

\* The candidate of m is what the merge, or the mutation, of the version whose
\* ETag it sends gives.
CandidateOK(m, h) ==
    IF m.rec = None THEN m.cand \in Edits(h[m.seen])
    ELSE /\ m.rec.base \in 1..m.seen
         /\ m.intent \in Templates
         /\ ~MergeConflict(h[m.rec.base], m.intent, h[m.seen])
         /\ m.cand = Merge(h[m.rec.base], m.intent, h[m.seen])

\* What a process at label l holds.
MemOK(l, m, h) ==
    /\ m \in Memories
    /\ m.seen \in 0..Len(h)
    /\ m.rec # None => m.rec.base \in 1..Len(h)
    /\ l \in {"editLoad", "editBase", "editSave", "refreshLoad", "refreshSave"} \cup Holding
        => m.seen >= 1
    /\ l \in {"editBase", "editSave", "mutReload", "prepFetch", "mutFetch"} => m.intent \in Templates
    /\ l \in {"noteSave", "prepFetch", "mutFetch"} => m.rec # None
    /\ l = "directFetch" => m.rec = None
    /\ l \in {"refreshSave"} \cup Holding => m.cand \in Templates
    /\ l \in Holding => CandidateOK(m, h)
    /\ l \in {"validate", "put"} /\ m.rec # None => m.cand # h[m.seen]
    /\ l = "accepted" => m.seen + 1 \in 1..Len(h)

ServerOK ==
    /\ history \in Seq(Templates) /\ Len(history) >= 1
    /\ log \in Seq(Writes) /\ Len(log) = Len(history)
    /\ PublishedIsMerge
    /\ NoRedundantVersion

FilesOK ==
    /\ cache \in Versions
    /\ draft \in Records \cup {None}
    /\ draft # None => draft.base \in Versions
    /\ clock \in Nat

ProcsOK ==
    /\ pc \in [Procs -> Labels]
    /\ mem \in [Procs -> Memories]
    /\ \A p \in Procs : MemOK(pc[p], mem[p], history)

CountersOK == edits \in 0..MaxEdits /\ console \in 0..MaxConsole /\ faults \in 0..MaxFaults

Inv == ServerOK /\ FilesOK /\ ProcsOK /\ CountersOK

-----------------------------------------------------------------------------
(***************************************************************************)
(* Lemmas.                                                                 *)
(***************************************************************************)

\* A version stays what it is when the server accepts another.
LEMMA AppendKeeps ==
    ASSUME NEW h \in Seq(Templates), NEW t \in Templates
    PROVE  /\ Append(h, t) \in Seq(Templates)
           /\ Len(Append(h, t)) = Len(h) + 1
           /\ \A v \in 1..Len(h) : Append(h, t)[v] = h[v]
           /\ Append(h, t)[Len(h) + 1] = t
  OBVIOUS

\* So what a process holds stays good.
LEMMA MemOKAppend ==
    ASSUME NEW h \in Seq(Templates), NEW t \in Templates, NEW l \in Labels, NEW m,
           MemOK(l, m, h)
    PROVE  MemOK(l, m, Append(h, t))
  <1> DEFINE g == Append(h, t)
  <1>1. Len(g) = Len(h) + 1 /\ \A v \in 1..Len(h) : g[v] = h[v]
    BY AppendKeeps
  <1>2. m \in Memories /\ m.seen \in 0..Len(h)
    BY DEF MemOK
  <1>3. ASSUME l \in Holding PROVE CandidateOK(m, g)
    <2>1. m.seen \in 1..Len(h) /\ CandidateOK(m, h)
      BY <1>2, <1>3 DEF MemOK
    <2>2. g[m.seen] = h[m.seen]
      BY <1>1, <2>1
    <2>3. CASE m.rec = None
      BY <2>1, <2>2, <2>3 DEF CandidateOK
    <2>4. CASE m.rec # None
      <3>1. m.rec.base \in 1..m.seen /\ m.rec.base \in 1..Len(h)
        BY <2>1, <2>4 DEF CandidateOK
      <3>2. g[m.rec.base] = h[m.rec.base]
        BY <1>1, <3>1
      <3> QED BY <2>1, <2>2, <2>4, <3>1, <3>2 DEF CandidateOK
    <2> QED BY <2>3, <2>4
  <1>4. Len(h) \in Nat
    OBVIOUS
  <1>5. ASSUME l \in {"validate", "put"}, m.rec # None PROVE m.cand # g[m.seen]
    <2>1. m.seen \in 1..Len(h) /\ m.cand # h[m.seen]
      BY <1>2, <1>5 DEF MemOK, Holding
    <2> QED BY <1>1, <2>1
  <1> HIDE DEF g
  <1>6. MemOK(l, m, g)
    BY <1>1, <1>2, <1>3, <1>4, <1>5, SMTT(30) DEF MemOK
  <1> QED BY <1>6 DEF g

\* Templates of the history, of a record and of a merge.
LEMMA VersionIsTemplate ==
    ASSUME ServerOK, NEW v \in Versions
    PROVE  history[v] \in Templates
  BY DEF ServerOK, Versions

LEMMA RecordFields ==
    ASSUME NEW r \in Records
    PROVE  r.base \in Nat \ {0} /\ r.cfg \in Templates /\ r.stamp \in Nat
  BY DEF Records

LEMMA MakeRecord ==
    ASSUME NEW b \in Nat \ {0}, NEW c \in Templates, NEW s \in Nat
    PROVE  /\ Record(b, c, s) \in Records
           /\ Record(b, c, s).base = b
           /\ Record(b, c, s).stamp = s
  BY DEF Record, Records

\* A new stamp keeps the base and the template of a record.
LEMMA Restamp ==
    ASSUME NEW r \in Records, NEW s \in Nat
    PROVE  /\ [r EXCEPT !.stamp = s] \in Records
           /\ [r EXCEPT !.stamp = s].base = r.base
           /\ [r EXCEPT !.stamp = s].stamp = s
  BY DEF Records

LEMMA BlankOK ==
    ASSUME ServerOK
    PROVE  MemOK("idle", Blank, history)
  BY DEF ServerOK, MemOK, Blank, Memories, Holding

\* A process moves on; the others still hold what is good for the new history.
LEMMA GotoProcs ==
    ASSUME ProcsOK, NEW p \in Procs, NEW l \in Labels, NEW m, Goto(p, l, m),
           MemOK(l, m, history'), \A q \in Procs : MemOK(pc[q], mem[q], history')
    PROVE  ProcsOK'
  <1>1. m \in Memories
    BY DEF MemOK
  <1>2. pc' \in [Procs -> Labels] /\ mem' \in [Procs -> Memories]
    BY <1>1 DEF Goto, ProcsOK
  <1>3. ASSUME NEW q \in Procs PROVE MemOK(pc'[q], mem'[q], history')
    <2>1. CASE q = p
      <3>1. pc'[q] = l /\ mem'[q] = m
        BY <2>1 DEF Goto, ProcsOK
      <3> QED BY <3>1
    <2>2. CASE q # p
      <3>1. pc'[q] = pc[q] /\ mem'[q] = mem[q]
        BY <2>2 DEF Goto, ProcsOK
      <3> QED BY <3>1
    <2> QED BY <2>1, <2>2
  <1> QED BY <1>2, <1>3 DEF ProcsOK

\* A step of one process that leaves the server alone.
LEMMA LocalStep ==
    ASSUME ServerOK, ProcsOK, NEW p \in Procs, NEW l \in Labels, NEW m,
           MemOK(l, m, history), Goto(p, l, m), UNCHANGED server
    PROVE  ServerOK' /\ ProcsOK'
  <1>1. history' = history /\ log' = log
    BY DEF server
  <1>2. ServerOK'
    BY <1>1 DEF ServerOK, PublishedIsMerge, NoRedundantVersion, Versions
  <1>3. ProcsOK'
    BY <1>1, GotoProcs DEF ProcsOK
  <1> QED BY <1>2, <1>3

LEMMA FinishStep ==
    ASSUME ServerOK, ProcsOK, NEW p \in Procs, Finish(p), UNCHANGED server
    PROVE  ServerOK' /\ ProcsOK'
  <1>1. "idle" \in Labels
    BY DEF Labels
  <1>2. MemOK("idle", Blank, history)
    BY BlankOK
  <1> QED BY <1>1, <1>2, LocalStep DEF Finish

LEMMA MemHere ==
    ASSUME ProcsOK, NEW p \in Procs
    PROVE  mem[p] \in Memories /\ pc[p] \in Labels /\ MemOK(pc[p], mem[p], history)
  BY DEF ProcsOK

\* A step of one process that changes neither the cache nor the draft file.
LEMMA FilesSame ==
    ASSUME FilesOK, ServerOK, UNCHANGED history, UNCHANGED <<draft, clock>>, cache' \in Versions
    PROVE  FilesOK'
  BY DEF FilesOK, Versions

LEMMA CountersSame ==
    ASSUME CountersOK, UNCHANGED <<edits, console, faults>>
    PROVE  CountersOK'
  BY DEF CountersOK

LEMMA CountedStep ==
    ASSUME CountersOK, Counted, UNCHANGED <<console, faults>>
    PROVE  CountersOK'
  BY BoundsAreNat DEF CountersOK, Counted

LEMMA FaultStep ==
    ASSUME CountersOK, faults < MaxFaults, faults' = faults + 1, UNCHANGED <<edits, console>>
    PROVE  CountersOK'
  BY BoundsAreNat DEF CountersOK

-----------------------------------------------------------------------------
(***************************************************************************)
(* Each step preserves the invariant: first the steps that write a draft.  *)
(***************************************************************************)

LEMMA LatestIsVersion ==
    ASSUME ServerOK
    PROVE  Latest \in Versions /\ Latest \in Nat /\ Latest >= 1
  BY DEF ServerOK, Latest, Versions

\* Having fetched a version, nothing else is held.
LEMMA FetchedOK ==
    ASSUME ServerOK, NEW op \in OpNames, NEW seen \in Versions, NEW l \in {"editLoad", "refreshLoad"}
    PROVE  MemOK(l, [Blank EXCEPT !.op = op, !.seen = seen], history)
  <1> DEFINE m == [Blank EXCEPT !.op = op, !.seen = seen]
  <1>1. seen \in Nat /\ seen >= 1 /\ seen \in 0..Len(history)
    BY DEF ServerOK, Versions
  <1>2. m \in Memories /\ m.seen = seen /\ m.rec = None
    BY <1>1 DEF Blank, Memories
  <1> HIDE DEF m
  <1>3. MemOK(l, m, history)
    BY <1>1, <1>2 DEF MemOK, Holding
  <1> QED BY <1>3 DEF m

LEMMA BeginEditStep ==
    ASSUME Inv, NEW p \in Procs, BeginEdit(p)
    PROVE  Inv'
  <1> DEFINE m == [Blank EXCEPT !.op = "edit", !.seen = Latest]
  <1>1. MemOK("editLoad", m, history)
    <2>1. "edit" \in OpNames
      BY DEF OpNames
    <2> QED BY <2>1, LatestIsVersion, FetchedOK DEF Inv
  <1>2. ServerOK' /\ ProcsOK'
    BY <1>1, LocalStep DEF Inv, BeginEdit, Labels
  <1>3. cache' \in Versions
    BY DEF Inv, ServerOK, BeginEdit, Versions, Latest
  <1>4. FilesOK'
    BY <1>3, FilesSame DEF Inv, BeginEdit, server
  <1>5. CountersOK'
    BY CountedStep DEF Inv, BeginEdit
  <1> QED BY <1>2, <1>4, <1>5 DEF Inv

LEMMA BeginMutateStep ==
    ASSUME Inv, NEW p \in Procs, NEW op \in Ops, BeginMutate(p, op)
    PROVE  Inv'
  <1>1. PICK seen \in {cache, Latest} :
            /\ cache' = seen
            /\ Goto(p, "editLoad", [Blank EXCEPT !.op = op, !.seen = seen])
    BY DEF BeginMutate
  <1>2. seen \in Versions
    BY DEF Inv, ServerOK, FilesOK, Versions, Latest
  <1> DEFINE m == [Blank EXCEPT !.op = op, !.seen = seen]
  <1>3. MemOK("editLoad", m, history)
    BY <1>2, OpsAreOps, FetchedOK DEF Inv
  <1>4. ServerOK' /\ ProcsOK'
    BY <1>1, <1>3, LocalStep DEF Inv, BeginMutate, Labels
  <1>5. FilesOK'
    BY <1>1, <1>2, FilesSame DEF Inv, BeginMutate, server
  <1>6. CountersOK'
    BY CountedStep DEF Inv, BeginMutate
  <1> QED BY <1>4, <1>5, <1>6 DEF Inv

LEMMA EditLoadStep ==
    ASSUME Inv, NEW p \in Procs, EditLoad(p)
    PROVE  Inv'
  <1> DEFINE current == IF draft = None THEN history[mem[p].seen] ELSE draft.cfg
             label == IF mem[p].op # "mutatePublish" THEN "editBase"
                      ELSE IF draft = None THEN "validate" ELSE "mutReload"
  <1>1. PICK final \in Edits(current) :
            Goto(p, label, [mem[p] EXCEPT !.rec = draft, !.intent = final, !.cand = final])
    BY DEF EditLoad
  <1>2. mem[p] \in Memories /\ mem[p].seen \in Versions
    BY MemHere DEF Inv, EditLoad, MemOK, Versions, ServerOK
  <1>3. current \in Templates
    BY <1>2, VersionIsTemplate, RecordFields DEF Inv, FilesOK
  <1>4. final \in Templates
    BY <1>1, <1>3, EditsTyped
  <1> DEFINE m == [mem[p] EXCEPT !.rec = draft, !.intent = final, !.cand = final]
  <1>5. /\ m \in Memories
        /\ m.rec = draft /\ m.intent = final /\ m.cand = final /\ m.seen = mem[p].seen
    BY <1>2, <1>4 DEF Inv, FilesOK, Memories
  <1>6. draft = None => CandidateOK(m, history)
    BY <1>1, <1>5 DEF CandidateOK
  <1> HIDE DEF m
  <1>7. MemOK(label, m, history)
    <2>1. draft # None => draft.base \in 1..Len(history)
      BY DEF Inv, FilesOK, Versions
    <2>2. mem[p].seen \in 1..Len(history) /\ Len(history) \in Nat
      BY <1>2 DEF Versions, Inv, ServerOK
    <2>3. CASE mem[p].op # "mutatePublish"
      BY <2>1, <2>2, <2>3, <1>4, <1>5 DEF MemOK, Holding
    <2>4. CASE mem[p].op = "mutatePublish" /\ draft = None
      BY <2>1, <2>2, <2>4, <1>4, <1>5, <1>6 DEF MemOK, Holding
    <2>5. CASE mem[p].op = "mutatePublish" /\ draft # None
      BY <2>1, <2>2, <2>5, <1>4, <1>5 DEF MemOK, Holding
    <2> QED BY <2>3, <2>4, <2>5
  <1>8. label \in Labels
    BY DEF Labels
  <1>9. Goto(p, label, m) /\ UNCHANGED server
    BY <1>1 DEF m, EditLoad
  <1>10. ServerOK' /\ ProcsOK'
    BY <1>7, <1>8, <1>9, LocalStep DEF Inv
  <1>11. FilesOK' /\ CountersOK'
    BY DEF Inv, EditLoad, FilesOK, CountersOK, server, Versions
  <1> QED BY <1>10, <1>11 DEF Inv

LEMMA EditBaseStep ==
    ASSUME Inv, NEW p \in Procs, EditBase(p)
    PROVE  Inv'
  <1>1. mem[p] \in Memories /\ MemOK("editBase", mem[p], history)
    BY MemHere DEF Inv, EditBase
  <1>2. mem[p].seen \in Versions
    BY <1>1 DEF MemOK, Inv, ServerOK, Versions
  <1>3. BaseToSave(p) \in Versions
    BY <1>2 DEF BaseToSave, Inv, FilesOK
  <1> DEFINE m == [mem[p] EXCEPT !.seen = BaseToSave(p)]
  <1>4. /\ m \in Memories
        /\ m.seen = BaseToSave(p) /\ m.rec = mem[p].rec /\ m.intent = mem[p].intent
    BY <1>1, <1>3 DEF Memories, Versions
  <1> HIDE DEF m
  <1>5. MemOK("editSave", m, history)
    BY <1>1, <1>3, <1>4 DEF MemOK, Holding, Versions
  <1>6. Goto(p, "editSave", m) /\ UNCHANGED server /\ "editSave" \in Labels
    BY DEF EditBase, m, Labels
  <1>7. ServerOK' /\ ProcsOK'
    BY <1>5, <1>6, LocalStep DEF Inv
  <1>8. FilesOK' /\ CountersOK'
    BY DEF Inv, EditBase, FilesOK, CountersOK, server, counters, Versions
  <1> QED BY <1>7, <1>8 DEF Inv

\* Writing a record with a known base keeps the files good.
LEMMA SaveFiles ==
    ASSUME FilesOK, UNCHANGED <<history, cache>>, NEW r \in Records, r.base \in Versions, Save(r)
    PROVE  FilesOK'
  BY RecordFields DEF FilesOK, Save, Versions

LEMMA EditSaveStep ==
    ASSUME Inv, NEW p \in Procs, EditSave(p)
    PROVE  Inv'
  <1>1. MemOK("editSave", mem[p], history)
    BY MemHere DEF Inv, EditSave
  <1>2. mem[p].seen \in Versions /\ mem[p].seen \in Nat \ {0} /\ mem[p].intent \in Templates
    BY <1>1 DEF MemOK, Inv, ServerOK, Versions
  <1>3. clock + 1 \in Nat
    BY DEF Inv, FilesOK
  <1> DEFINE r == Record(mem[p].seen, mem[p].intent, clock + 1)
  <1>4. r \in Records /\ r.base \in Versions
    BY <1>2, <1>3, MakeRecord
  <1>5. FilesOK'
    BY <1>4, SaveFiles DEF Inv, EditSave, server
  <1>6. ServerOK' /\ ProcsOK'
    BY FinishStep DEF Inv, EditSave
  <1>7. CountersOK'
    BY DEF Inv, EditSave, counters, CountersOK
  <1> QED BY <1>5, <1>6, <1>7 DEF Inv

LEMMA BeginNoteStep ==
    ASSUME Inv, NEW p \in Procs, BeginNote(p)
    PROVE  Inv'
  <1> DEFINE m == [Blank EXCEPT !.op = "note", !.rec = draft]
  <1>1. draft \in Records /\ draft # None /\ draft.base \in 1..Len(history)
    BY DEF Inv, FilesOK, BeginNote, Versions
  <1>2. m \in Memories /\ m.rec = draft /\ m.seen = 0
    BY <1>1 DEF Blank, Memories, OpNames
  <1> HIDE DEF m
  <1>3. MemOK("noteSave", m, history)
    BY <1>1, <1>2 DEF MemOK, Holding, Inv, ServerOK
  <1>4. Goto(p, "noteSave", m) /\ UNCHANGED server /\ "noteSave" \in Labels
    BY DEF BeginNote, m, Labels
  <1>5. ServerOK' /\ ProcsOK'
    BY <1>3, <1>4, LocalStep DEF Inv
  <1>6. FilesOK' /\ CountersOK'
    BY CountedStep DEF Inv, BeginNote, FilesOK, server, Versions
  <1> QED BY <1>5, <1>6 DEF Inv

LEMMA NoteSaveStep ==
    ASSUME Inv, NEW p \in Procs, NoteSave(p)
    PROVE  Inv'
  <1> DEFINE r == [mem[p].rec EXCEPT !.stamp = clock + 1]
  <1>1. mem[p] \in Memories /\ MemOK("noteSave", mem[p], history)
    BY MemHere DEF Inv, NoteSave
  <1>2. mem[p].rec \in Records /\ mem[p].rec.base \in Versions
    BY <1>1 DEF Memories, MemOK, Versions
  <1>3. clock + 1 \in Nat
    BY DEF Inv, FilesOK
  <1>4. r \in Records /\ r.base \in Versions
    BY <1>2, <1>3, Restamp
  <1>5. FilesOK'
    BY <1>4, SaveFiles DEF Inv, NoteSave, server
  <1>6. ServerOK' /\ ProcsOK'
    <2>1. CASE mem[p].op = "note"
      BY <2>1, FinishStep DEF Inv, NoteSave
    <2>2. CASE mem[p].op # "note"
      <3>1. MemOK("prepLoad", mem[p], history) /\ "prepLoad" \in Labels
        BY <1>1 DEF MemOK, Holding, Labels
      <3> QED BY <2>2, <3>1, LocalStep DEF Inv, NoteSave
    <2> QED BY <2>1, <2>2
  <1>7. CountersOK'
    BY DEF Inv, NoteSave, counters, CountersOK
  <1> QED BY <1>5, <1>6, <1>7 DEF Inv

LEMMA DiscardStep ==
    ASSUME Inv, NEW p \in Procs, Discard(p)
    PROVE  Inv'
  BY DEF Inv, Discard, server, counters, ServerOK, PublishedIsMerge, NoRedundantVersion, Versions, FilesOK, ProcsOK, CountersOK

-----------------------------------------------------------------------------
\* Steps that prepare a publication.

LEMMA BeginPublishStep ==
    ASSUME Inv, NEW p \in Procs, NEW op \in Ops, BeginPublish(p, op)
    PROVE  Inv'
  <1> DEFINE m == [Blank EXCEPT !.op = op, !.rec = draft, !.intent = draft.cfg]
  <1>1. draft \in Records /\ draft # None /\ draft.base \in 1..Len(history) /\ draft.cfg \in Templates
    BY RecordFields DEF Inv, FilesOK, BeginPublish, Versions
  <1>2. m \in Memories /\ m.rec = draft /\ m.seen = 0 /\ m.intent \in Templates
    BY <1>1, OpsAreOps DEF Blank, Memories
  <1> HIDE DEF m
  <1>3. MemOK("prepFetch", m, history)
    BY <1>1, <1>2 DEF MemOK, Holding, Inv, ServerOK
  <1>4. Goto(p, "prepFetch", m) /\ UNCHANGED server /\ "prepFetch" \in Labels
    BY DEF BeginPublish, m, Labels
  <1>5. ServerOK' /\ ProcsOK'
    BY <1>3, <1>4, LocalStep DEF Inv
  <1>6. CountersOK'
    <2>1. CASE op = "republish"
      BY <2>1, CountedStep DEF Inv, BeginPublish
    <2>2. CASE op # "republish"
      BY <2>2, CountersSame DEF Inv, BeginPublish
    <2> QED BY <2>1, <2>2
  <1>7. FilesOK'
    BY DEF Inv, BeginPublish, FilesOK, server, Versions
  <1> QED BY <1>5, <1>6, <1>7 DEF Inv

LEMMA PrepareLoadStep ==
    ASSUME Inv, NEW p \in Procs, PrepareLoad(p)
    PROVE  Inv'
  <1>1. FilesOK' /\ CountersOK'
    BY DEF Inv, PrepareLoad, FilesOK, CountersOK, server, counters, Versions
  <1>2. CASE draft = None
    BY <1>1, <1>2, FinishStep DEF Inv, PrepareLoad
  <1>3. CASE draft # None
    <2> DEFINE m == [mem[p] EXCEPT !.rec = draft, !.intent = draft.cfg]
    <2>1. draft \in Records /\ draft.base \in 1..Len(history) /\ draft.cfg \in Templates
      BY <1>3, RecordFields DEF Inv, FilesOK, Versions
    <2>2. mem[p] \in Memories /\ mem[p].seen \in 0..Len(history)
      BY MemHere DEF Inv, MemOK
    <2>3. m \in Memories /\ m.rec = draft /\ m.seen = mem[p].seen /\ m.intent \in Templates
      BY <2>1, <2>2 DEF Memories
    <2>4. Goto(p, "prepFetch", m) /\ UNCHANGED server /\ "prepFetch" \in Labels
      BY <1>3 DEF PrepareLoad, Labels
    <2> HIDE DEF m
    <2>5. MemOK("prepFetch", m, history)
      BY <1>3, <2>1, <2>2, <2>3 DEF MemOK, Holding
    <2>6. ServerOK' /\ ProcsOK'
      BY <2>4, <2>5, LocalStep DEF Inv
    <2> QED BY <1>1, <2>6 DEF Inv
  <1> QED BY <1>2, <1>3

\* The merge of a loaded record with the latest version is a good candidate.
LEMMA MergedOK ==
    ASSUME ServerOK, NEW m \in Memories, m.rec # None, m.rec.base \in Versions,
           m.intent \in Templates, NEW l \in Holding \cup {"delete"},
           ~MergeConflict(history[m.rec.base], m.intent, history[Latest]),
           l \in {"validate", "put"} =>
               Merge(history[m.rec.base], m.intent, history[Latest]) # history[Latest]
    PROVE  MemOK(l, [m EXCEPT !.seen = Latest,
                              !.cand = Merge(history[m.rec.base], m.intent, history[Latest])],
                 history)
  <1> DEFINE cand == Merge(history[m.rec.base], m.intent, history[Latest])
             n == [m EXCEPT !.seen = Latest, !.cand = cand]
  <1>1. Latest \in Versions /\ Latest \in Nat /\ Latest >= 1
    BY LatestIsVersion
  <1>2. cand \in Templates
    BY <1>1, VersionIsTemplate, MergeTyped
  <1>3. /\ n \in Memories /\ n.rec = m.rec /\ n.seen = Latest /\ n.intent = m.intent
        /\ n.cand = cand
    BY <1>1, <1>2 DEF Memories
  <1>4. CandidateOK(n, history)
    BY <1>1, <1>3 DEF CandidateOK, Versions, Latest
  <1>5. l \in {"validate", "put"} => cand # history[Latest]
    OBVIOUS
  <1> HIDE DEF n, cand
  <1>6. MemOK(l, n, history)
    BY <1>1, <1>2, <1>3, <1>4, <1>5 DEF MemOK, Holding, Versions, Latest
  <1> QED BY <1>6 DEF n, cand

LEMMA PrepareFetchStep ==
    ASSUME Inv, NEW p \in Procs, PrepareFetch(p)
    PROVE  Inv'
  <1> DEFINE m == mem[p]
             cand == Merge(history[m.rec.base], m.intent, history[Latest])
             label == IF m.shown = None THEN "confirm" ELSE "recheck"
  <1>1. FilesOK' /\ CountersOK'
    BY LatestIsVersion, FilesSame DEF Inv, PrepareFetch, CountersOK, server, counters
  <1>2. CASE MergeConflict(history[m.rec.base], m.intent, history[Latest])
    BY <1>1, <1>2, FinishStep DEF Inv, PrepareFetch
  <1>3. CASE ~MergeConflict(history[m.rec.base], m.intent, history[Latest])
    <2>1. m \in Memories /\ MemOK("prepFetch", m, history)
      BY MemHere DEF Inv, PrepareFetch
    <2>2. m.rec # None /\ m.rec.base \in Versions /\ m.intent \in Templates
      BY <2>1 DEF MemOK, Versions
    <2>3. label \in Holding /\ label \in Labels /\ label \notin {"validate", "put"}
      BY DEF Holding, Labels
    <2>4. MemOK(label, [m EXCEPT !.seen = Latest, !.cand = cand], history)
      BY <1>3, <2>1, <2>2, <2>3, MergedOK DEF Inv
    <2>5. Goto(p, label, [m EXCEPT !.seen = Latest, !.cand = cand]) /\ UNCHANGED server
      BY <1>3 DEF PrepareFetch
    <2>6. ServerOK' /\ ProcsOK'
      BY <2>3, <2>4, <2>5, LocalStep DEF Inv
    <2> QED BY <1>1, <2>6 DEF Inv
  <1> QED BY <1>2, <1>3

LEMMA ConfirmStep ==
    ASSUME Inv, NEW p \in Procs, Confirm(p)
    PROVE  Inv'
  <1> DEFINE m == [mem[p] EXCEPT !.shown = mem[p].cand]
             n == [m EXCEPT !.rec = draft]
  <1>1. mem[p] \in Memories /\ MemOK("confirm", mem[p], history)
    BY MemHere DEF Inv, Confirm
  <1>2. /\ m \in Memories /\ m.rec = mem[p].rec /\ m.seen = mem[p].seen
        /\ m.intent = mem[p].intent /\ m.cand = mem[p].cand /\ m.op = mem[p].op
    BY <1>1 DEF Memories
  <1>3. FilesOK' /\ CountersOK'
    BY DEF Inv, Confirm, FilesOK, CountersOK, server, counters, Versions
  <1>4. CASE m.op = "publish"
    <2>1. Goto(p, "recheck", m) /\ UNCHANGED server
      BY <1>4 DEF Confirm
    <2> HIDE DEF m
    <2>2. MemOK("recheck", m, history) /\ "recheck" \in Labels
      BY <1>1, <1>2 DEF MemOK, CandidateOK, Holding, Labels
    <2>3. ServerOK' /\ ProcsOK'
      BY <2>1, <2>2, LocalStep DEF Inv
    <2> QED BY <1>3, <2>3 DEF Inv
  <1>5. CASE m.op # "publish" /\ draft = None
    BY <1>3, <1>5, FinishStep DEF Inv, Confirm
  <1>6. CASE m.op # "publish" /\ draft # None
    <2>1. Goto(p, "noteSave", n) /\ UNCHANGED server /\ "noteSave" \in Labels
      BY <1>6 DEF Confirm, Labels
    <2>2. draft \in Records /\ draft.base \in 1..Len(history)
      BY <1>6 DEF Inv, FilesOK, Versions
    <2> HIDE DEF m
    <2>3. n \in Memories /\ n.rec = draft /\ n.seen = mem[p].seen
      BY <1>2, <2>2 DEF Memories
    <2> HIDE DEF n
    <2>4. MemOK("noteSave", n, history)
      BY <1>1, <1>6, <2>2, <2>3 DEF MemOK, Holding
    <2>5. ServerOK' /\ ProcsOK'
      BY <2>1, <2>4, LocalStep DEF Inv
    <2> QED BY <1>3, <2>5 DEF Inv
  <1> QED BY <1>4, <1>5, <1>6

LEMMA CancelStep ==
    ASSUME Inv, NEW p \in Procs, Cancel(p)
    PROVE  Inv'
  <1>1. FilesOK' /\ CountersOK'
    BY DEF Inv, Cancel, FilesOK, CountersOK, server, counters, Versions
  <1> QED BY <1>1, FinishStep DEF Inv, Cancel

LEMMA RecheckStep ==
    ASSUME Inv, NEW p \in Procs, Recheck(p)
    PROVE  Inv'
  <1>1. CountersOK'
    BY DEF Inv, Recheck, CountersOK, counters
  <1>2. CASE draft = None \/ draft.stamp # mem[p].rec.stamp
    <2>1. FilesOK'
      BY <1>2 DEF Inv, Recheck, FilesOK, server, Versions
    <2> QED BY <1>1, <1>2, <2>1, FinishStep DEF Inv, Recheck
  <1>3. CASE ~(draft = None \/ draft.stamp # mem[p].rec.stamp)
    <2> DEFINE label == IF mem[p].cand = history[mem[p].seen] THEN "delete" ELSE "validate"
               m == [mem[p] EXCEPT !.checked = clock']
    <2>1. draft \in Records /\ draft.base \in Versions /\ clock \in Nat
      BY <1>3 DEF Inv, FilesOK
    <2>2. /\ \/ UNCHANGED <<draft, clock>>
             \/ Save([draft EXCEPT !.stamp = clock + 1])
          /\ Goto(p, label, m)
          /\ UNCHANGED <<server, cache>>
      BY <1>3 DEF Recheck
    <2>0. /\ [draft EXCEPT !.stamp = clock + 1] \in Records
          /\ [draft EXCEPT !.stamp = clock + 1].base \in Versions
      <3>1. clock + 1 \in Nat
        BY <2>1
      <3> QED BY <2>1, <3>1, Restamp
    <2>3. FilesOK'
      <3>1. CASE UNCHANGED <<draft, clock>>
        BY <2>2, <3>1, FilesSame DEF Inv, FilesOK, server
      <3>2. CASE Save([draft EXCEPT !.stamp = clock + 1])
        BY <2>0, <2>2, <3>2, SaveFiles DEF Inv, server
      <3> QED BY <2>2, <3>1, <3>2
    <2>4. mem[p] \in Memories /\ MemOK("recheck", mem[p], history)
      BY MemHere DEF Inv, Recheck
    <2>5. clock' \in Nat
      BY <2>3 DEF FilesOK
    <2>6. /\ m \in Memories /\ m.rec = mem[p].rec /\ m.seen = mem[p].seen
          /\ m.intent = mem[p].intent /\ m.cand = mem[p].cand
      BY <2>4, <2>5 DEF Memories
    <2> HIDE DEF m
    <2>7. MemOK(label, m, history) /\ label \in Labels
      BY <2>4, <2>6 DEF MemOK, CandidateOK, Holding, Labels
    <2> HIDE DEF label
    <2>8. ServerOK' /\ ProcsOK'
      BY <2>2, <2>7, LocalStep DEF Inv
    <2> QED BY <1>1, <2>3, <2>8 DEF Inv
  <1> QED BY <1>2, <1>3

LEMMA MutateReloadStep ==
    ASSUME Inv, NEW p \in Procs, MutateReload(p)
    PROVE  Inv'
  <1>1. CountersOK'
    BY DEF Inv, MutateReload, CountersOK, counters
  <1>2. CASE draft = None
    <2>1. FilesOK'
      BY <1>2 DEF Inv, MutateReload, FilesOK, server, Versions
    <2> QED BY <1>1, <1>2, <2>1, FinishStep DEF Inv, MutateReload
  <1>3. CASE draft # None
    <2>1. draft \in Records /\ draft.base \in Versions /\ clock \in Nat
      BY <1>3 DEF Inv, FilesOK
    <2>2. PICK r \in {draft, [draft EXCEPT !.stamp = clock + 1]} :
            /\ draft' = r
            /\ clock' = IF r = draft THEN clock ELSE clock + 1
            /\ Goto(p, "mutFetch", [mem[p] EXCEPT !.rec = r])
      BY <1>3 DEF MutateReload
    <2>3. r \in Records /\ r.base \in Versions
      <3>1. clock + 1 \in Nat
        BY <2>1
      <3>2. /\ [draft EXCEPT !.stamp = clock + 1] \in Records
            /\ [draft EXCEPT !.stamp = clock + 1].base \in Versions
        BY <2>1, <3>1, Restamp
      <3> QED BY <2>1, <2>2, <3>2
    <2>4. FilesOK'
      BY <2>1, <2>2, <2>3 DEF Inv, MutateReload, FilesOK, server, Versions
    <2> DEFINE m == [mem[p] EXCEPT !.rec = r]
    <2>5. mem[p] \in Memories /\ MemOK("mutReload", mem[p], history)
      BY MemHere DEF Inv, MutateReload
    <2>6. m \in Memories /\ m.rec = r /\ m.seen = mem[p].seen /\ m.intent = mem[p].intent
      BY <2>3, <2>5 DEF Memories
    <2>7. r # None
      BY <2>3, NoneIsNoRecord
    <2> HIDE DEF m
    <2>8. MemOK("mutFetch", m, history) /\ "mutFetch" \in Labels
      BY <2>3, <2>5, <2>6, <2>7 DEF MemOK, Holding, Versions, Labels
    <2>9. Goto(p, "mutFetch", m) /\ UNCHANGED server
      BY <2>2 DEF m, MutateReload
    <2>10. ServerOK' /\ ProcsOK'
      BY <2>8, <2>9, LocalStep DEF Inv
    <2> QED BY <1>1, <2>4, <2>10 DEF Inv
  <1> QED BY <1>2, <1>3

LEMMA MutateFetchStep ==
    ASSUME Inv, NEW p \in Procs, MutateFetch(p)
    PROVE  Inv'
  <1> DEFINE m == mem[p]
             cand == Merge(history[m.rec.base], m.intent, history[Latest])
             label == IF cand = history[Latest] THEN "delete" ELSE "validate"
  <1>1. FilesOK' /\ CountersOK'
    BY LatestIsVersion, FilesSame DEF Inv, MutateFetch, CountersOK, server, counters
  <1>2. CASE MergeConflict(history[m.rec.base], m.intent, history[Latest])
    BY <1>1, <1>2, FinishStep DEF Inv, MutateFetch
  <1>3. CASE ~MergeConflict(history[m.rec.base], m.intent, history[Latest])
    <2>1. m \in Memories /\ MemOK("mutFetch", m, history)
      BY MemHere DEF Inv, MutateFetch
    <2>2. m.rec # None /\ m.rec.base \in Versions /\ m.intent \in Templates
      BY <2>1 DEF MemOK, Versions
    <2>3. /\ label \in Holding \cup {"delete"} /\ label \in Labels
          /\ label \in {"validate", "put"} => cand # history[Latest]
      BY DEF Holding, Labels
    <2>4. MemOK(label, [m EXCEPT !.seen = Latest, !.cand = cand], history)
      BY <1>3, <2>1, <2>2, <2>3, MergedOK DEF Inv
    <2>5. Goto(p, label, [m EXCEPT !.seen = Latest, !.cand = cand]) /\ UNCHANGED server
      BY <1>3 DEF MutateFetch
    <2>6. ServerOK' /\ ProcsOK'
      BY <2>3, <2>4, <2>5, LocalStep DEF Inv
    <2> QED BY <1>1, <2>6 DEF Inv
  <1> QED BY <1>2, <1>3

LEMMA DirectGuardStep ==
    ASSUME Inv, NEW p \in Procs, DirectGuard(p)
    PROVE  Inv'
  <1> DEFINE m == [Blank EXCEPT !.op = "direct"]
  <1>1. m \in Memories /\ m.rec = None /\ m.seen = 0
    BY DEF Blank, Memories, OpNames
  <1>2. Goto(p, "directFetch", m) /\ UNCHANGED server /\ "directFetch" \in Labels
    BY DEF DirectGuard, Labels
  <1> HIDE DEF m
  <1>3. MemOK("directFetch", m, history)
    BY <1>1 DEF MemOK, Holding, Inv, ServerOK
  <1>4. ServerOK' /\ ProcsOK'
    BY <1>2, <1>3, LocalStep DEF Inv
  <1>5. FilesOK' /\ CountersOK'
    BY CountedStep DEF Inv, DirectGuard, FilesOK, server, Versions
  <1> QED BY <1>4, <1>5 DEF Inv

LEMMA DirectFetchStep ==
    ASSUME Inv, NEW p \in Procs, DirectFetch(p)
    PROVE  Inv'
  <1>1. Latest \in Versions /\ Latest \in Nat /\ Latest >= 1
    BY LatestIsVersion DEF Inv
  <1>2. PICK final \in Edits(history[Latest]) :
            Goto(p, "validate", [mem[p] EXCEPT !.seen = Latest, !.cand = final])
    BY DEF DirectFetch
  <1>3. final \in Templates
    BY <1>1, <1>2, VersionIsTemplate, EditsTyped DEF Inv
  <1>4. mem[p] \in Memories /\ mem[p].rec = None
    BY MemHere DEF Inv, DirectFetch, MemOK
  <1> DEFINE m == [mem[p] EXCEPT !.seen = Latest, !.cand = final]
  <1>5. m \in Memories /\ m.rec = None /\ m.seen = Latest /\ m.cand = final
    BY <1>1, <1>3, <1>4 DEF Memories
  <1> HIDE DEF m
  <1>6. MemOK("validate", m, history) /\ "validate" \in Labels
    BY <1>1, <1>2, <1>3, <1>5 DEF MemOK, CandidateOK, Holding, Latest, Versions, Labels
  <1>7. Goto(p, "validate", m) /\ UNCHANGED server
    BY <1>2 DEF m, DirectFetch
  <1>8. ServerOK' /\ ProcsOK'
    BY <1>6, <1>7, LocalStep DEF Inv
  <1>9. FilesOK' /\ CountersOK'
    BY <1>1, FilesSame DEF Inv, DirectFetch, CountersOK, server, counters
  <1> QED BY <1>8, <1>9 DEF Inv

-----------------------------------------------------------------------------
\* Validation and publication.

LEMMA ValidateStep ==
    ASSUME Inv, NEW p \in Procs, Validate(p)
    PROVE  Inv'
  <1>1. FilesOK' /\ CountersOK'
    BY DEF Inv, Validate, FilesOK, CountersOK, server, counters, Versions
  <1>2. CASE mem[p].seen = Latest
    <2>1. MemOK("validate", mem[p], history)
      BY MemHere DEF Inv, Validate
    <2>2. MemOK("put", mem[p], history) /\ "put" \in Labels
      BY <2>1 DEF MemOK, Holding, Labels
    <2>3. Goto(p, "put", mem[p]) /\ UNCHANGED server
      BY <1>2 DEF Validate
    <2>4. ServerOK' /\ ProcsOK'
      BY <2>2, <2>3, LocalStep DEF Inv
    <2> QED BY <1>1, <2>4 DEF Inv
  <1>3. CASE mem[p].seen # Latest
    BY <1>1, <1>3, FinishStep DEF Inv, Validate
  <1> QED BY <1>2, <1>3

\* Whoever writes a version: what was known of the older ones remains.
LEMMA ServerAppends ==
    ASSUME Inv, NEW t \in Templates, NEW w \in Writes,
           history' = Append(history, t), log' = Append(log, w),
           w.kind = "draft" =>
               /\ w.base \in Versions
               /\ ~MergeConflict(history[w.base], w.intent, history[Latest])
               /\ t = Merge(history[w.base], w.intent, history[Latest])
               /\ t # history[Latest]
    PROVE  /\ ServerOK'
           /\ Latest' = Latest + 1
           /\ \A v \in Versions : v \in Versions' /\ history'[v] = history[v]
           /\ \A p \in Procs : MemOK(pc[p], mem[p], history')
  <1>1. /\ history \in Seq(Templates) /\ log \in Seq(Writes) /\ Len(log) = Len(history)
        /\ Len(history) \in Nat /\ Len(history) >= 1
    BY DEF Inv, ServerOK
  <1>2. /\ history' \in Seq(Templates) /\ Len(history') = Len(history) + 1
        /\ \A v \in 1..Len(history) : history'[v] = history[v]
        /\ history'[Len(history) + 1] = t
    BY <1>1, AppendKeeps
  <1>3. /\ log' \in Seq(Writes) /\ Len(log') = Len(history')
        /\ \A v \in 1..Len(history) : log'[v] = log[v]
        /\ log'[Len(history) + 1] = w
    BY <1>1, <1>2
  <1>4. ASSUME NEW v \in 1..Len(history'), log'[v].kind = "draft"
        PROVE  /\ log'[v].base \in 1..(v - 1)
               /\ ~MergeConflict(history'[log'[v].base], log'[v].intent, history'[v - 1])
               /\ history'[v] = Merge(history'[log'[v].base], log'[v].intent, history'[v - 1])
    <2>1. CASE v \in 1..Len(history)
      <3>1. log'[v] = log[v] /\ history'[v] = history[v]
        BY <1>2, <1>3, <2>1
      <3>2. /\ log[v].base \in 1..(v - 1)
            /\ ~MergeConflict(history[log[v].base], log[v].intent, history[v - 1])
            /\ history[v] = Merge(history[log[v].base], log[v].intent, history[v - 1])
        BY <1>4, <2>1, <3>1 DEF Inv, ServerOK, PublishedIsMerge, NoRedundantVersion, Versions
      <3>3. log[v].base \in 1..Len(history) /\ v - 1 \in 1..Len(history)
        BY <1>1, <2>1, <3>2
      <3>4. history'[log[v].base] = history[log[v].base] /\ history'[v - 1] = history[v - 1]
        BY <1>2, <3>3
      <3> QED BY <3>1, <3>2, <3>4
    <2>2. CASE v = Len(history) + 1
      <3>1. log'[v] = w /\ history'[v] = t /\ v - 1 = Len(history)
        BY <1>1, <1>2, <1>3, <2>2
      <3>2. /\ w.base \in 1..Len(history)
            /\ ~MergeConflict(history[w.base], w.intent, history[Len(history)])
            /\ t = Merge(history[w.base], w.intent, history[Len(history)])
        BY <1>4, <3>1 DEF Versions, Latest
      <3>3. history'[w.base] = history[w.base] /\ history'[v - 1] = history[Len(history)]
        BY <1>1, <1>2, <3>1, <3>2
      <3> QED BY <3>1, <3>2, <3>3
    <2> QED BY <1>1, <1>2, <2>1, <2>2
  <1>5. PublishedIsMerge'
    BY <1>4 DEF PublishedIsMerge, NoRedundantVersion, Versions
  <1>6. ASSUME NEW p \in Procs PROVE MemOK(pc[p], mem[p], history')
    BY <1>1, MemHere, MemOKAppend DEF Inv
  <1>7. ASSUME NEW v \in 1..Len(history'), log'[v].kind = "draft"
        PROVE  history'[v] # history'[v - 1]
    <2>1. CASE v \in 1..Len(history)
      <3>1. log[v].kind = "draft" /\ history'[v] = history[v]
        BY <1>2, <1>3, <1>7, <2>1
      <3>2. history[v] # history[v - 1] /\ v - 1 \in 1..Len(history)
        BY <1>1, <2>1, <3>1 DEF Inv, ServerOK, PublishedIsMerge, NoRedundantVersion, Versions
      <3> QED BY <1>2, <3>1, <3>2
    <2>2. CASE v = Len(history) + 1
      <3>1. w.kind = "draft" /\ history'[v] = t /\ v - 1 = Len(history)
        BY <1>1, <1>2, <1>3, <1>7, <2>2
      <3>2. history'[v - 1] = history[Len(history)]
        BY <1>1, <1>2, <3>1
      <3>3. t # history[Latest]
        BY <3>1
      <3> QED BY <3>1, <3>2, <3>3 DEF Latest
    <2>3. v \in 1..Len(history) \/ v = Len(history) + 1
      BY <1>1, <1>2
    <2> QED BY <2>1, <2>2, <2>3
  <1>8. NoRedundantVersion'
    BY <1>7 DEF NoRedundantVersion, Versions
  <1> QED BY <1>1, <1>2, <1>3, <1>5, <1>6, <1>8 DEF ServerOK, Latest, Versions

\* The files and the version they name survive the growth of the history.
LEMMA FilesGrow ==
    ASSUME FilesOK, \A v \in Versions : v \in Versions', UNCHANGED <<cache, draft, clock>>
    PROVE  FilesOK'
  BY DEF FilesOK

LEMMA AcceptStep ==
    ASSUME Inv, NEW p \in Procs, pc[p] = "put", Accept(p)
    PROVE  /\ ServerOK'
           /\ Latest' = Latest + 1
           /\ \A v \in Versions : v \in Versions' /\ history'[v] = history[v]
           /\ \A q \in Procs : MemOK(pc[q], mem[q], history')
  <1> DEFINE m == mem[p]
             w == LogEntry(m)
  <1>1. m \in Memories /\ MemOK("put", m, history)
    BY MemHere DEF Inv
  <1>2. /\ m.cand \in Templates /\ CandidateOK(m, history) /\ m.seen = Latest
        /\ m.rec # None => m.cand # history[Latest]
    BY <1>1 DEF MemOK, Holding, Accept
  <1>3. CASE m.rec = None
    <2>1. w = OtherWrite
      BY <1>3 DEF LogEntry
    <2>2. w \in Writes /\ w.kind # "draft"
      BY <2>1 DEF OtherWrite, Writes
    <2> QED BY <1>2, <2>2, ServerAppends DEF Accept
  <1>4. CASE m.rec # None
    <2>1. w = DraftWrite(m.rec.base, m.intent)
      BY <1>4 DEF LogEntry
    <2>2. /\ m.rec.base \in 1..Latest /\ m.intent \in Templates
          /\ ~MergeConflict(history[m.rec.base], m.intent, history[Latest])
          /\ m.cand = Merge(history[m.rec.base], m.intent, history[Latest])
      BY <1>2, <1>4 DEF CandidateOK
    <2>3. w \in Writes /\ w.base = m.rec.base /\ w.intent = m.intent
      BY <2>1, <2>2 DEF DraftWrite, Writes
    <2> HIDE DEF w
    <2>4. history' = Append(history, m.cand) /\ log' = Append(log, w)
      BY DEF Accept, w
    <2>5. m.rec.base \in Versions
      BY <2>2 DEF Latest, Versions
    <2> HIDE DEF m
    <2> QED BY <1>2, <1>4, <2>2, <2>3, <2>4, <2>5, ServerAppends
  <1> QED BY <1>3, <1>4

LEMMA PutStep ==
    ASSUME Inv, NEW p \in Procs, Put(p)
    PROVE  Inv'
  <1>1. CountersOK'
    BY DEF Inv, Put, CountersOK, counters
  <1>2. CASE Accept(p) /\ Goto(p, "accepted", mem[p])
    <2>1. /\ ServerOK'
          /\ Latest' = Latest + 1
          /\ \A v \in Versions : v \in Versions' /\ history'[v] = history[v]
          /\ \A q \in Procs : MemOK(pc[q], mem[q], history')
      BY <1>2, AcceptStep DEF Put
    <2>2. MemOK("put", mem[p], history') /\ mem[p].seen = Latest /\ Latest \in Nat
      BY <1>2, <2>1, LatestIsVersion DEF Put, Accept, Inv
    <2>3. Len(history') = Latest + 1
      BY <2>1 DEF Latest
    <2>4. MemOK("accepted", mem[p], history') /\ "accepted" \in Labels
      BY <2>2, <2>3 DEF MemOK, Holding, Labels
    <2>5. ProcsOK'
      BY <1>2, <2>1, <2>4, GotoProcs DEF Inv
    <2>6. FilesOK'
      BY <2>1, FilesGrow DEF Inv, Put
    <2> QED BY <1>1, <2>1, <2>5, <2>6 DEF Inv
  <1>3. CASE Finish(p) /\ UNCHANGED server
    <2>1. FilesOK'
      BY <1>3 DEF Inv, Put, FilesOK, server, Versions
    <2> QED BY <1>1, <1>3, <2>1, FinishStep DEF Inv
  <1> QED BY <1>2, <1>3 DEF Put

LEMMA PutAnswerLostStep ==
    ASSUME Inv, NEW p \in Procs, PutAnswerLost(p)
    PROVE  Inv'
  <1>1. CountersOK'
    BY FaultStep DEF Inv, PutAnswerLost
  <1>2. /\ ServerOK'
        /\ \A v \in Versions : v \in Versions'
        /\ \A q \in Procs : MemOK(pc[q], mem[q], history')
    BY AcceptStep DEF PutAnswerLost
  <1>3. ProcsOK'
    BY <1>2 DEF Inv, PutAnswerLost, ProcsOK
  <1>4. FilesOK'
    BY <1>2, FilesGrow DEF Inv, PutAnswerLost
  <1> QED BY <1>1, <1>2, <1>3, <1>4 DEF Inv

LEMMA PostPublishStep ==
    ASSUME Inv, NEW p \in Procs, PostPublish(p)
    PROVE  Inv'
  <1>1. MemOK("accepted", mem[p], history)
    BY MemHere DEF Inv, PostPublish
  <1>2. mem[p].seen + 1 \in Versions
    BY <1>1 DEF MemOK, Versions
  <1>3. FilesOK' /\ CountersOK'
    BY <1>2, FilesSame DEF Inv, PostPublish, CountersOK, server, counters
  <1>4. CASE mem[p].op = "direct"
    BY <1>3, <1>4, FinishStep DEF Inv, PostPublish
  <1>5. CASE mem[p].op # "direct"
    <2>1. MemOK("delete", mem[p], history) /\ "delete" \in Labels
      BY <1>1 DEF MemOK, Holding, Labels
    <2>2. Goto(p, "delete", mem[p]) /\ UNCHANGED server
      BY <1>5 DEF PostPublish
    <2>3. ServerOK' /\ ProcsOK'
      BY <2>1, <2>2, LocalStep DEF Inv
    <2> QED BY <1>3, <2>3 DEF Inv
  <1> QED BY <1>4, <1>5

LEMMA PostPublishFailsStep ==
    ASSUME Inv, NEW p \in Procs, PostPublishFails(p)
    PROVE  Inv'
  <1>1. MemOK("accepted", mem[p], history)
    BY MemHere DEF Inv, PostPublishFails
  <1>2. mem[p].seen + 1 \in Versions
    BY <1>1 DEF MemOK, Versions
  <1>3. cache' \in Versions
    BY <1>2 DEF Inv, PostPublishFails, FilesOK
  <1>4. FilesOK' /\ CountersOK'
    BY <1>3, FilesSame, FaultStep DEF Inv, PostPublishFails, server
  <1> QED BY <1>4, FinishStep DEF Inv, PostPublishFails

LEMMA DeleteDraftStep ==
    ASSUME Inv, NEW p \in Procs, DeleteDraft(p)
    PROVE  Inv'
  <1>1. FilesOK' /\ CountersOK'
    BY DEF Inv, DeleteDraft, FilesOK, CountersOK, server, counters, Versions
  <1> QED BY <1>1, FinishStep DEF Inv, DeleteDraft

LEMMA DeleteDraftFailsStep ==
    ASSUME Inv, NEW p \in Procs, DeleteDraftFails(p)
    PROVE  Inv'
  <1>1. FilesOK' /\ CountersOK'
    BY FaultStep DEF Inv, DeleteDraftFails, FilesOK, server, Versions
  <1> QED BY <1>1, FinishStep DEF Inv, DeleteDraftFails

LEMMA CrashStep ==
    ASSUME Inv, NEW p \in Procs, Crash(p)
    PROVE  Inv'
  <1>1. FilesOK' /\ CountersOK'
    BY FaultStep DEF Inv, Crash, FilesOK, server, Versions
  <1> QED BY <1>1, FinishStep DEF Inv, Crash

LEMMA ConsolePublishStep ==
    ASSUME Inv, ConsolePublish
    PROVE  Inv'
  <1>1. PICK t \in Edits(history[Latest]) : history' = Append(history, t)
    BY DEF ConsolePublish
  <1>2. t \in Templates
    BY <1>1, LatestIsVersion, VersionIsTemplate, EditsTyped DEF Inv
  <1>3. OtherWrite \in Writes /\ OtherWrite.kind # "draft" /\ log' = Append(log, OtherWrite)
    BY DEF OtherWrite, Writes, ConsolePublish
  <1>4. /\ ServerOK'
        /\ \A v \in Versions : v \in Versions'
        /\ \A q \in Procs : MemOK(pc[q], mem[q], history')
    BY <1>1, <1>2, <1>3, ServerAppends
  <1>5. ProcsOK'
    BY <1>4 DEF Inv, ConsolePublish, ProcsOK
  <1>6. FilesOK'
    BY <1>4, FilesGrow DEF Inv, ConsolePublish
  <1>7. CountersOK'
    BY BoundsAreNat DEF Inv, ConsolePublish, CountersOK
  <1> QED BY <1>4, <1>5, <1>6, <1>7 DEF Inv

-----------------------------------------------------------------------------
\* Refresh.

LEMMA BeginRefreshStep ==
    ASSUME Inv, NEW p \in Procs, BeginRefresh(p)
    PROVE  Inv'
  <1>1. Latest \in Versions /\ "refresh" \in OpNames /\ "refreshLoad" \in Labels
    BY LatestIsVersion DEF Inv, OpNames, Labels
  <1>2. MemOK("refreshLoad", [Blank EXCEPT !.op = "refresh", !.seen = Latest], history)
    BY <1>1, FetchedOK DEF Inv
  <1>3. ServerOK' /\ ProcsOK'
    BY <1>1, <1>2, LocalStep DEF Inv, BeginRefresh
  <1>4. FilesOK' /\ CountersOK'
    BY <1>1, FilesSame DEF Inv, BeginRefresh, CountersOK, server, counters
  <1> QED BY <1>3, <1>4 DEF Inv

LEMMA RefreshLoadStep ==
    ASSUME Inv, NEW p \in Procs, RefreshLoad(p)
    PROVE  Inv'
  <1> DEFINE seen == history[mem[p].seen]
             merged == Merge(history[draft.base], draft.cfg, seen)
             label == IF merged = seen THEN "delete" ELSE "refreshSave"
             m == [mem[p] EXCEPT !.rec = draft, !.intent = draft.cfg, !.cand = merged]
             stops == \/ draft = None
                      \/ draft.base = mem[p].seen
                      \/ MergeConflict(history[draft.base], draft.cfg, seen)
  <1>1. FilesOK' /\ CountersOK'
    BY DEF Inv, RefreshLoad, FilesOK, CountersOK, server, counters, Versions
  <1>2. CASE stops
    BY <1>1, <1>2, FinishStep DEF Inv, RefreshLoad
  <1>3. CASE ~stops
    <2>1. mem[p] \in Memories /\ MemOK("refreshLoad", mem[p], history)
      BY MemHere DEF Inv, RefreshLoad
    <2>2. mem[p].seen \in Versions
      BY <2>1 DEF MemOK, Inv, ServerOK, Versions
    <2>3. draft \in Records /\ draft.base \in Versions /\ draft.cfg \in Templates
      BY <1>3, RecordFields DEF Inv, FilesOK
    <2>4. merged \in Templates
      BY <2>2, <2>3, VersionIsTemplate, MergeTyped DEF Inv
    <2>5. Goto(p, label, m) /\ UNCHANGED server /\ label \in Labels /\ label \notin Holding
      BY <1>3 DEF RefreshLoad, Labels, Holding
    <2> HIDE DEF merged
    <2>6. m \in Memories /\ m.rec = draft /\ m.seen = mem[p].seen /\ m.cand = merged
      BY <2>1, <2>3, <2>4 DEF Memories
    <2> HIDE DEF m
    <2>7. MemOK(label, m, history)
      BY <2>1, <2>2, <2>3, <2>4, <2>5, <2>6 DEF MemOK, Versions
    <2>8. ServerOK' /\ ProcsOK'
      BY <2>5, <2>7, LocalStep DEF Inv
    <2> QED BY <1>1, <2>8 DEF Inv
  <1> QED BY <1>2, <1>3

LEMMA RefreshSaveStep ==
    ASSUME Inv, NEW p \in Procs, RefreshSave(p)
    PROVE  Inv'
  <1>1. MemOK("refreshSave", mem[p], history)
    BY MemHere DEF Inv, RefreshSave
  <1>2. mem[p].seen \in Versions /\ mem[p].seen \in Nat \ {0} /\ mem[p].cand \in Templates
    BY <1>1 DEF MemOK, Inv, ServerOK, Versions
  <1>3. clock + 1 \in Nat
    BY DEF Inv, FilesOK
  <1> DEFINE r == Record(mem[p].seen, mem[p].cand, clock + 1)
  <1>4. r \in Records /\ r.base \in Versions
    BY <1>2, <1>3, MakeRecord
  <1>5. FilesOK'
    BY <1>4, SaveFiles DEF Inv, RefreshSave, server
  <1>6. ServerOK' /\ ProcsOK'
    BY FinishStep DEF Inv, RefreshSave
  <1>7. CountersOK'
    BY DEF Inv, RefreshSave, counters, CountersOK
  <1> QED BY <1>5, <1>6, <1>7 DEF Inv

-----------------------------------------------------------------------------
(***************************************************************************)
(* The invariant, and what follows from it.                                *)
(***************************************************************************)

LEMMA InitInv ==
    ASSUME Init
    PROVE  Inv
  <1>1. history = <<FirstTemplate>> /\ log = <<OtherWrite>> /\ OtherWrite \in Writes
    BY DEF Init, OtherWrite, Writes
  <1>2. OtherWrite.kind # "draft"
    BY DEF OtherWrite
  <1>3. /\ history \in Seq(Templates) /\ Len(history) = 1
        /\ log \in Seq(Writes) /\ Len(log) = 1 /\ log[1] = OtherWrite
    BY <1>1, FirstIsTemplate
  <1>4. ServerOK
    BY <1>2, <1>3 DEF ServerOK, PublishedIsMerge, NoRedundantVersion, Versions
  <1>5. FilesOK
    BY <1>3 DEF Init, FilesOK, Versions
  <1>6. Blank \in Memories /\ "idle" \in Labels
    BY DEF Blank, Memories, Labels
  <1>7. ProcsOK
    BY <1>4, <1>6, BlankOK DEF Init, ProcsOK
  <1>8. CountersOK
    BY BoundsAreNat DEF Init, CountersOK
  <1> QED BY <1>4, <1>5, <1>7, <1>8 DEF Inv

LEMMA StutterInv ==
    ASSUME Inv, UNCHANGED vars
    PROVE  Inv'
  BY DEF Inv, vars, ServerOK, PublishedIsMerge, NoRedundantVersion, Versions, FilesOK, ProcsOK, CountersOK

LEMMA NextInv ==
    ASSUME Inv, [Next]_vars
    PROVE  Inv'
  <1>1. ASSUME NEW p \in Procs, Start(p) PROVE Inv'
    BY <1>1, BeginEditStep, BeginNoteStep, DiscardStep, BeginMutateStep, BeginPublishStep,
       DirectGuardStep, BeginRefreshStep DEF Start
  <1>2. ASSUME NEW p \in Procs, Continue(p) PROVE Inv'
    BY <1>2, EditLoadStep, EditBaseStep, EditSaveStep, NoteSaveStep, PrepareLoadStep,
       PrepareFetchStep, ConfirmStep, RecheckStep, MutateReloadStep, MutateFetchStep,
       DirectFetchStep, ValidateStep, PutStep, PostPublishStep, DeleteDraftStep,
       RefreshLoadStep, RefreshSaveStep DEF Continue
  <1>3. ASSUME NEW p \in Procs, Disturb(p) PROVE Inv'
    BY <1>3, CancelStep, PutAnswerLostStep, PostPublishFailsStep, DeleteDraftFailsStep, CrashStep
       DEF Disturb
  <1>4. CASE ConsolePublish
    BY <1>4, ConsolePublishStep
  <1>5. CASE UNCHANGED vars
    BY <1>5, StutterInv
  <1> QED BY <1>1, <1>2, <1>3, <1>4, <1>5 DEF Next

\* The inductive invariant holds in every reachable state, for every set of
\* processes, every merge and all bounds.
THEOREM InvHolds == Spec => []Inv
  <1>1. Init => Inv
    BY InitInv
  <1>2. Inv /\ [Next]_vars => Inv'
    BY NextInv
  <1> QED BY <1>1, <1>2, PTL DEF Spec

\* Every variable keeps its type, and the cache always names a version the
\* server has (core/config/parameters.go, core/draft/storage.go).
THEOREM TypeCorrect == Spec => []TypeOK
  <1>1. Inv => TypeOK
    BY DEF Inv, ServerOK, FilesOK, ProcsOK, CountersOK, TypeOK
  <1> QED BY <1>1, InvHolds, PTL

\* What a process is about to send is the merge of the draft it loaded with the
\* version whose ETag it sends (PreparePublish and writeMutationResult), however
\* the draft file, the cache and the server changed meanwhile.
THEOREM CandidateCorrect == Spec => []CandidateIsMerge
  <1>1. Inv => CandidateIsMerge
    <2> SUFFICES ASSUME Inv, NEW p \in Procs, pc[p] \in Holding, mem[p].rec # None
                 PROVE  /\ mem[p].rec.base \in 1..mem[p].seen
                        /\ ~MergeConflict(history[mem[p].rec.base], mem[p].intent, history[mem[p].seen])
                        /\ mem[p].cand = Merge(history[mem[p].rec.base], mem[p].intent, history[mem[p].seen])
      BY DEF CandidateIsMerge
    <2>1. CandidateOK(mem[p], history)
      BY MemHere DEF Inv, MemOK
    <2> QED BY <2>1 DEF CandidateOK
  <1> QED BY <1>1, InvHolds, PTL

\* A draft publication replaces a version by the conflict-free merge of the draft
\* with that version, and nothing else (ExecutePublish and Mutate): no version
\* of another writer is lost, with any number of processes, crashes and repeated
\* updates.
THEOREM PublicationCorrect == Spec => []PublishedIsMerge
  <1>1. Inv => PublishedIsMerge
    BY DEF Inv, ServerOK
  <1> QED BY <1>1, InvHolds, PTL

\* A draft publication never creates a version equal to the one it replaces, also
\* when a publication is repeated because its answer or its cleanup was lost
\* (the HasChanges branch of ExecutePublish, the !changed branch of Mutate).
THEOREM NoRedundantPublication == Spec => []NoRedundantVersion
  <1>1. Inv => NoRedundantVersion
    BY DEF Inv, ServerOK
  <1> QED BY <1>1, InvHolds, PTL

\* The pipeline implements the register: every write is an edit of the version
\* it replaces or the merge of a draft onto it.
THEOREM PipelineImplementsRegister == Spec => RegisterSpec
  <1>1. Init => Register!Init
    BY DEF Init, Register!Init, OtherWrite, Register!EditWrite
  <1>2. ASSUME Inv, [Next]_vars PROVE [Register!Next]_<<history, log>>
    <2>1. ASSUME NEW p \in Procs, pc[p] = "put", Accept(p) PROVE Register!Next
      <3>0. MemOK("put", mem[p], history)
        BY <1>2, <2>1, MemHere DEF Inv
      <3>1. CandidateOK(mem[p], history) /\ mem[p].seen = Latest
        BY <2>1, <3>0 DEF MemOK, Holding, Accept
      <3>2. history' = Append(history, mem[p].cand) /\ log' = Append(log, LogEntry(mem[p]))
        BY <2>1 DEF Accept
      <3>3. CASE mem[p].rec = None
        <4>1. mem[p].cand \in Edits(history[Len(history)])
          BY <3>1, <3>3 DEF CandidateOK, Latest
        <4>2. log' = Append(log, Register!EditWrite)
          BY <3>2, <3>3 DEF LogEntry, OtherWrite, Register!EditWrite
        <4>3. Register!Edit
          BY <3>2, <4>1, <4>2 DEF Register!Edit, Register!Current
        <4> QED BY <4>3 DEF Register!Next
      <3>4. CASE mem[p].rec # None
        <4> DEFINE base == mem[p].rec.base
                   intent == mem[p].intent
        <4>1. /\ base \in 1..Len(history) /\ intent \in Templates
              /\ ~MergeConflict(history[base], intent, history[Len(history)])
              /\ mem[p].cand = Merge(history[base], intent, history[Len(history)])
          BY <3>1, <3>4 DEF CandidateOK, Latest
        <4>2. log' = Append(log, Register!DraftWrite(base, intent))
          BY <3>2, <3>4 DEF LogEntry, DraftWrite, Register!DraftWrite
        <4>3. Register!MergeDraft
          BY <3>2, <4>1, <4>2 DEF Register!MergeDraft, Register!Current
        <4> QED BY <4>3 DEF Register!Next
      <3> QED BY <3>3, <3>4
    <2>2. CASE ConsolePublish
      <3>1. Register!Edit
        BY <2>2 DEF ConsolePublish, Register!Edit, Register!Current, Latest, OtherWrite,
                    Register!EditWrite
      <3> QED BY <3>1 DEF Register!Next
    <2>3. ASSUME NEW p \in Procs, Put(p) \/ PutAnswerLost(p) PROVE [Register!Next]_<<history, log>>
      BY <2>1, <2>3 DEF Put, PutAnswerLost, server
    <2>4. ASSUME NEW p \in Procs, Start(p) PROVE UNCHANGED <<history, log>>
      BY <2>4 DEF Start, BeginEdit, BeginNote, Discard, BeginMutate, BeginPublish, DirectGuard,
                  BeginRefresh, server
    <2>5. ASSUME NEW p \in Procs, Continue(p) PROVE Put(p) \/ UNCHANGED <<history, log>>
      BY <2>5 DEF Continue, EditLoad, EditBase, EditSave, NoteSave, PrepareLoad, PrepareFetch,
                  Confirm, Recheck, MutateReload, MutateFetch, DirectFetch, Validate, PostPublish,
                  DeleteDraft, RefreshLoad, RefreshSave, server
    <2>6. ASSUME NEW p \in Procs, Disturb(p) PROVE PutAnswerLost(p) \/ UNCHANGED <<history, log>>
      BY <2>6 DEF Disturb, Cancel, PostPublishFails, DeleteDraftFails, Crash, server
    <2>7. CASE UNCHANGED vars
      BY <2>7 DEF vars
    <2> QED BY <1>2, <2>2, <2>3, <2>4, <2>5, <2>6, <2>7 DEF Next
  <1> QED BY <1>1, <1>2, InvHolds, PTL DEF Spec, RegisterSpec, Register!Spec

-----------------------------------------------------------------------------
(***************************************************************************)
(* What becomes of a draft.  A record is known by its UpdatedAt, since no  *)
(* two saves have the same: so a process knows of the file what it compared*)
(* last, until somebody saves again, with a later time.                    *)
(***************************************************************************)

PublishOps == {"publish", "republish"}
Sending == {"validate", "put", "accepted", "delete"}

\* The candidate of m was published, or there was nothing to publish.
Arrived(m, h) ==
    /\ m.seen \in 1..Len(h) /\ m.rec.base \in 1..m.seen
    /\ ~MergeConflict(h[m.rec.base], m.intent, h[m.seen])
    /\ \E w \in {m.seen, m.seen + 1} :
          w \in 1..Len(h) /\ h[w] = Merge(h[m.rec.base], m.intent, h[m.seen])

\* What a process at label l knows of the draft file d, at time k.
FileKnown(l, m, h, d, k) ==
    /\ m.checked <= k
    /\ m.rec # None => m.rec.stamp <= k /\ (d # None /\ d.stamp = m.rec.stamp => d = m.rec)
    /\ l \in {"prepLoad", "prepFetch", "confirm", "recheck"} => m.op \in PublishOps
    /\ l \in {"prepFetch", "confirm", "recheck"} => m.rec # None /\ m.intent = m.rec.cfg
    /\ l = "noteSave" => m.op \in {"note", "republish"}
    /\ l \in {"mutReload", "mutFetch"} => m.op = "mutatePublish"
    /\ l = "directFetch" => m.op = "direct"
    /\ l \in {"refreshLoad", "refreshSave"} => m.op = "refresh"
    /\ l \in {"editLoad", "editBase", "editSave"} => m.op \in {"edit", "mutate", "mutatePublish"}
    /\ l \in Sending /\ m.op \in PublishOps =>
          /\ m.rec # None
          /\ d # None /\ d.stamp <= m.checked => d.base = m.rec.base /\ d.cfg = m.intent
    /\ l \in {"accepted", "delete"} /\ m.op \in PublishOps => Arrived(m, h)

FilesKnown ==
    /\ draft # None => draft.stamp <= clock
    /\ \A p \in Procs : FileKnown(pc[p], mem[p], history, draft, clock)

\* What was published stays published.
LEMMA ArrivedAppend ==
    ASSUME NEW h \in Seq(Templates), NEW t \in Templates, NEW m \in Memories, Arrived(m, h)
    PROVE  Arrived(m, Append(h, t))
  <1> DEFINE g == Append(h, t)
  <1>1. Len(g) = Len(h) + 1 /\ Len(h) \in Nat /\ \A v \in 1..Len(h) : g[v] = h[v]
    BY AppendKeeps
  <1>2. m.seen \in 1..Len(h) /\ m.rec.base \in 1..m.seen /\ m.rec.base \in 1..Len(h)
    BY <1>1 DEF Arrived
  <1>3. g[m.seen] = h[m.seen] /\ g[m.rec.base] = h[m.rec.base]
    BY <1>1, <1>2
  <1>4. PICK w \in {m.seen, m.seen + 1} :
            w \in 1..Len(h) /\ h[w] = Merge(h[m.rec.base], m.intent, h[m.seen])
    BY DEF Arrived
  <1>5. w \in 1..Len(g) /\ g[w] = h[w]
    BY <1>1, <1>4
  <1> HIDE DEF g
  <1>6. Arrived(m, g)
    BY <1>1, <1>2, <1>3, <1>4, <1>5 DEF Arrived
  <1> QED BY <1>6 DEF g

\* How a step changes the file: not at all, by removing it, or by a save.
FileStep ==
    \/ draft' = draft /\ clock' = clock
    \/ draft' = None /\ clock' = clock
    \/ draft' \in Records /\ draft'.stamp = clock + 1 /\ clock' = clock + 1

ServerStep == history' = history \/ \E t \in Templates : history' = Append(history, t)

\* None of these takes anything away from what another process knows.
LEMMA FileKnownStays ==
    ASSUME Inv, NEW l \in Labels, NEW m \in Memories, FileKnown(l, m, history, draft, clock),
           FileStep, ServerStep
    PROVE  FileKnown(l, m, history', draft', clock')
  <1>1. clock \in Nat /\ clock' \in Nat /\ clock <= clock'
    BY DEF Inv, FilesOK, FileStep
  <1>2. m.checked \in Nat /\ (m.rec # None => m.rec.stamp \in Nat)
    BY RecordFields DEF Memories
  <1>3. Arrived(m, history) => Arrived(m, history')
    BY ArrivedAppend DEF ServerStep, Inv, ServerOK
  <1>4. m.checked <= clock /\ (m.rec # None => m.rec.stamp <= clock)
    BY DEF FileKnown
  <1>5. draft' \in {None, draft} \/ (draft'.stamp = clock + 1)
    BY DEF FileStep
  <1>6. m.checked <= clock' /\ (m.rec # None => m.rec.stamp <= clock')
    BY <1>1, <1>2, <1>4
  <1>7. (m.rec # None /\ draft' # None /\ draft'.stamp = m.rec.stamp) => draft' = m.rec
    BY <1>1, <1>2, <1>4, <1>5 DEF FileKnown
  <1>8. ASSUME l \in Sending, m.op \in PublishOps, draft' # None, draft'.stamp <= m.checked
        PROVE  draft'.base = m.rec.base /\ draft'.cfg = m.intent
    BY <1>1, <1>2, <1>4, <1>5, <1>8 DEF FileKnown
  <1> QED BY <1>3, <1>6, <1>7, <1>8 DEF FileKnown

LEMMA FileStaysTimed ==
    ASSUME Inv, FilesKnown, FileStep
    PROVE  draft' # None => draft'.stamp <= clock'
  BY RecordFields DEF FilesKnown, FileStep, Inv, FilesOK

LEMMA GotoKnown ==
    ASSUME Inv, Inv', FilesKnown, NEW p \in Procs, NEW l \in Labels, NEW m, Goto(p, l, m),
           FileStep, ServerStep, FileKnown(l, m, history', draft', clock')
    PROVE  FilesKnown'
  <1>1. ASSUME NEW q \in Procs PROVE FileKnown(pc'[q], mem'[q], history', draft', clock')
    <2>1. CASE q = p
      <3>1. pc'[q] = l /\ mem'[q] = m
        BY <2>1 DEF Goto, Inv, ProcsOK
      <3> QED BY <3>1
    <2>2. CASE q # p
      <3>1. pc'[q] = pc[q] /\ mem'[q] = mem[q]
        BY <2>2 DEF Goto, Inv, ProcsOK
      <3>2. FileKnown(pc[q], mem[q], history', draft', clock')
        BY FileKnownStays, MemHere DEF Inv, FilesKnown
      <3> QED BY <3>1, <3>2
    <2> QED BY <2>1, <2>2
  <1> QED BY <1>1, FileStaysTimed DEF FilesKnown

\* A process that is done knows nothing.
LEMMA FinishKnown ==
    ASSUME Inv, Inv', FilesKnown, NEW p \in Procs, Finish(p), FileStep, ServerStep
    PROVE  FilesKnown'
  <1>1. FileKnown("idle", Blank, history', draft', clock') /\ "idle" \in Labels
    BY DEF FileKnown, Blank, Sending, Labels, Inv, FilesOK
  <1> QED BY <1>1, GotoKnown DEF Finish

\* Nobody moves.
LEMMA StayKnown ==
    ASSUME Inv, FilesKnown, UNCHANGED <<pc, mem>>, FileStep, ServerStep
    PROVE  FilesKnown'
  <1>1. ASSUME NEW q \in Procs PROVE FileKnown(pc'[q], mem'[q], history', draft', clock')
    BY FileKnownStays, MemHere DEF Inv, FilesKnown
  <1> QED BY <1>1, FileStaysTimed DEF FilesKnown

LEMMA KnownHere ==
    ASSUME FilesKnown, NEW p \in Procs
    PROVE  FileKnown(pc[p], mem[p], history, draft, clock)
  BY DEF FilesKnown

-----------------------------------------------------------------------------
\* The steps, those first that neither read nor write a draft.
LEMMA EnvironmentKnown ==
    ASSUME Inv, FilesKnown, ConsolePublish
    PROVE  FilesKnown'
  <1>1. ServerStep
    BY LatestIsVersion, VersionIsTemplate, EditsTyped DEF ConsolePublish, ServerStep, Inv
  <1> QED BY <1>1, StayKnown DEF ConsolePublish, FileStep

LEMMA EndKnown ==
    ASSUME Inv, Inv', FilesKnown, NEW p \in Procs,
           Cancel(p) \/ PostPublishFails(p) \/ DeleteDraft(p) \/ DeleteDraftFails(p) \/ Crash(p)
    PROVE  FilesKnown'
  <1>1. Finish(p) /\ FileStep /\ ServerStep
    BY DEF Cancel, PostPublishFails, DeleteDraft, DeleteDraftFails, Crash, FileStep, ServerStep, server
  <1> QED BY <1>1, FinishKnown

LEMMA DiscardKnown ==
    ASSUME Inv, FilesKnown, NEW p \in Procs, Discard(p)
    PROVE  FilesKnown'
  BY StayKnown DEF Discard, FileStep, ServerStep, server

\* An operation begins with a blank memory.
LEMMA BeginKnown ==
    ASSUME Inv, Inv', FilesKnown, NEW p \in Procs,
           \/ BeginEdit(p) \/ BeginRefresh(p) \/ DirectGuard(p)
           \/ \E op \in Ops : BeginMutate(p, op)
    PROVE  FilesKnown'
  <1>1. FileStep /\ ServerStep
    BY DEF BeginEdit, BeginRefresh, DirectGuard, BeginMutate, FileStep, ServerStep, server
  <1>2. clock' \in Nat
    BY DEF Inv, FilesOK
  <1>3. CASE BeginEdit(p)
    <2>1. FileKnown("editLoad", [Blank EXCEPT !.op = "edit", !.seen = Latest], history', draft', clock')
      BY <1>2 DEF FileKnown, Blank, Sending
    <2> QED BY <1>1, <1>3, <2>1, GotoKnown DEF BeginEdit, Labels
  <1>4. CASE BeginRefresh(p)
    <2>1. FileKnown("refreshLoad", [Blank EXCEPT !.op = "refresh", !.seen = Latest], history', draft', clock')
      BY <1>2 DEF FileKnown, Blank, Sending
    <2> QED BY <1>1, <1>4, <2>1, GotoKnown DEF BeginRefresh, Labels
  <1>5. CASE DirectGuard(p)
    <2>1. FileKnown("directFetch", [Blank EXCEPT !.op = "direct"], history', draft', clock')
      BY <1>2 DEF FileKnown, Blank, Sending
    <2> QED BY <1>1, <1>5, <2>1, GotoKnown DEF DirectGuard, Labels
  <1>6. ASSUME NEW op \in Ops, BeginMutate(p, op) PROVE FilesKnown'
    <2>1. PICK seen \in {cache, Latest} : Goto(p, "editLoad", [Blank EXCEPT !.op = op, !.seen = seen])
      BY <1>6 DEF BeginMutate
    <2>2. op \in {"mutate", "mutatePublish"}
      BY <1>6 DEF BeginMutate
    <2>3. FileKnown("editLoad", [Blank EXCEPT !.op = op, !.seen = seen], history', draft', clock')
      BY <1>2, <2>2 DEF FileKnown, Blank, Sending
    <2> QED BY <1>1, <2>1, <2>3, GotoKnown DEF Labels
  <1> QED BY <1>3, <1>4, <1>5, <1>6

\* One that begins with the record it loaded knows it.
LEMMA LoadKnown ==
    ASSUME Inv, Inv', FilesKnown, NEW p \in Procs,
           BeginNote(p) \/ PrepareLoad(p) \/ \E op \in Ops : BeginPublish(p, op)
    PROVE  FilesKnown'
  <1>1. FileStep /\ ServerStep
    BY DEF BeginNote, PrepareLoad, BeginPublish, FileStep, ServerStep, server
  <1>2. clock' \in Nat /\ draft' = draft /\ clock' = clock /\ (draft # None => draft.stamp <= clock)
    BY DEF BeginNote, PrepareLoad, BeginPublish, Inv, FilesOK, FilesKnown
  <1>3. CASE BeginNote(p)
    <2>1. FileKnown("noteSave", [Blank EXCEPT !.op = "note", !.rec = draft], history', draft', clock')
      BY <1>2 DEF FileKnown, Blank, Sending
    <2> QED BY <1>1, <1>3, <2>1, GotoKnown DEF BeginNote, Labels
  <1>4. CASE PrepareLoad(p)
    <2>1. CASE draft = None
      BY <1>1, <1>4, <2>1, FinishKnown DEF PrepareLoad
    <2>2. CASE draft # None
      <3> DEFINE m == [mem[p] EXCEPT !.rec = draft, !.intent = draft.cfg]
      <3>1. FileKnown("prepLoad", mem[p], history, draft, clock) /\ mem[p] \in Memories
        BY <1>4, KnownHere, MemHere DEF Inv, PrepareLoad
      <3>2. m.checked = mem[p].checked /\ m.op = mem[p].op /\ m.rec = draft /\ m.intent = draft.cfg
        BY <3>1 DEF Memories
      <3>3. Goto(p, "prepFetch", m)
        BY <1>4, <2>2 DEF PrepareLoad
      <3> HIDE DEF m
      <3>4. FileKnown("prepFetch", m, history', draft', clock')
        BY <1>2, <2>2, <3>1, <3>2 DEF FileKnown, Sending
      <3> QED BY <1>1, <3>3, <3>4, GotoKnown DEF Labels
    <2> QED BY <2>1, <2>2
  <1>5. ASSUME NEW op \in Ops, BeginPublish(p, op) PROVE FilesKnown'
    <2> DEFINE m == [Blank EXCEPT !.op = op, !.rec = draft, !.intent = draft.cfg]
    <2>1. op \in PublishOps /\ draft # None /\ Goto(p, "prepFetch", m)
      BY <1>5 DEF BeginPublish, PublishOps
    <2>2. m.checked = 0 /\ m.op = op /\ m.rec = draft /\ m.intent = draft.cfg
      BY DEF Blank
    <2> HIDE DEF m
    <2>3. FileKnown("prepFetch", m, history', draft', clock')
      BY <1>2, <2>1, <2>2 DEF FileKnown, Sending
    <2> QED BY <1>1, <2>1, <2>3, GotoKnown DEF Labels
  <1> QED BY <1>3, <1>4, <1>5

\* A draft edit on its way.
LEMMA EditKnown ==
    ASSUME Inv, Inv', FilesKnown, NEW p \in Procs, EditLoad(p) \/ EditBase(p)
    PROVE  FilesKnown'
  <1>1. FileStep /\ ServerStep /\ draft' = draft /\ clock' = clock
    BY DEF EditLoad, EditBase, FileStep, ServerStep, server
  <1>2. mem[p] \in Memories /\ FileKnown(pc[p], mem[p], history, draft, clock)
    BY KnownHere, MemHere DEF Inv
  <1>3. draft # None => draft.stamp <= clock
    BY DEF FilesKnown
  <1>4. CASE EditLoad(p)
    <2> DEFINE label == IF mem[p].op # "mutatePublish" THEN "editBase"
                        ELSE IF draft = None THEN "validate" ELSE "mutReload"
    <2>1. PICK final : Goto(p, label, [mem[p] EXCEPT !.rec = draft, !.intent = final, !.cand = final])
      BY <1>4 DEF EditLoad
    <2> DEFINE m == [mem[p] EXCEPT !.rec = draft, !.intent = final, !.cand = final]
    <2>2. m.checked = mem[p].checked /\ m.op = mem[p].op /\ m.rec = draft
      BY <1>2 DEF Memories
    <2>3. label \in Labels
      BY DEF Labels
    <2> HIDE DEF m
    <2>4. pc[p] = "editLoad"
      BY <1>4 DEF EditLoad
    <2>5. mem[p].op \in {"edit", "mutate", "mutatePublish"} /\ mem[p].checked <= clock
      BY <1>2, <2>4 DEF FileKnown
    <2>6. FileKnown(label, m, history', draft', clock')
      BY <1>1, <1>3, <2>2, <2>5 DEF FileKnown, Sending, PublishOps
    <2> QED BY <1>1, <2>1, <2>3, <2>6, GotoKnown DEF m
  <1>5. CASE EditBase(p)
    <2> DEFINE m == [mem[p] EXCEPT !.seen = BaseToSave(p)]
    <2>1. m.checked = mem[p].checked /\ m.op = mem[p].op /\ m.rec = mem[p].rec
      BY <1>2 DEF Memories
    <2>2. Goto(p, "editSave", m) /\ pc[p] = "editBase"
      BY <1>5 DEF EditBase
    <2> HIDE DEF m
    <2>3. FileKnown("editSave", m, history', draft', clock')
      BY <1>1, <1>2, <2>1, <2>2 DEF FileKnown, Sending
    <2> QED BY <1>1, <2>2, <2>3, GotoKnown DEF Labels
  <1> QED BY <1>4, <1>5

\* A save gives the draft a later time than anybody knows.
LEMMA SaveKnown ==
    ASSUME Inv, Inv', FilesKnown, NEW p \in Procs, EditSave(p) \/ NoteSave(p) \/ RefreshSave(p)
    PROVE  FilesKnown'
  <1>1. clock' = clock + 1 /\ draft'.stamp = clock + 1 /\ draft' # None
    <2>1. clock \in Nat
      BY DEF Inv, FilesOK
    <2>2. CASE EditSave(p) \/ RefreshSave(p)
      <3>1. mem[p].seen \in Nat /\ mem[p].seen >= 1 /\ MemOK(pc[p], mem[p], history)
        BY <2>2, MemHere DEF Inv, EditSave, RefreshSave, MemOK, Memories
      <3>2. PICK c \in Templates : Save(Record(mem[p].seen, c, clock + 1))
        BY <2>2, <3>1 DEF EditSave, RefreshSave, MemOK
      <3>3. /\ Record(mem[p].seen, c, clock + 1) \in Records
            /\ Record(mem[p].seen, c, clock + 1).stamp = clock + 1
        BY <2>1, <3>1, MakeRecord
      <3> QED BY <3>2, <3>3, NoneIsNoRecord DEF Save
    <2>3. CASE NoteSave(p)
      <3>1. mem[p].rec \in Records
        BY <2>3, MemHere DEF Inv, NoteSave, MemOK, Memories
      <3> QED BY <2>1, <2>3, <3>1, Restamp, NoneIsNoRecord DEF NoteSave, Save
    <2> QED BY <2>2, <2>3
  <1>2. FileStep /\ ServerStep
    BY <1>1 DEF EditSave, NoteSave, RefreshSave, FileStep, ServerStep, server, Inv, FilesOK
  <1>3. CASE Finish(p)
    BY <1>2, <1>3, FinishKnown
  <1>4. CASE NoteSave(p) /\ Goto(p, "prepLoad", mem[p])
    <2>1. FileKnown("noteSave", mem[p], history, draft, clock) /\ mem[p] \in Memories
      BY <1>4, KnownHere, MemHere DEF NoteSave, Inv
    <2>2. FileKnown("noteSave", mem[p], history', draft', clock')
      BY <1>2, <2>1, FileKnownStays DEF Labels
    <2>3. mem[p].op \in {"note", "republish"} /\ mem[p].op # "note"
      <3>1. mem[p].op = "note" => Finish(p)
        BY <1>4 DEF NoteSave
      <3>2. CASE mem[p].op = "note"
        <4>1. pc'[p] = "idle" /\ pc'[p] = "prepLoad"
          BY <1>4, <3>1, <3>2 DEF Finish, Goto, Inv, ProcsOK
        <4> QED BY <4>1
      <3> QED BY <2>1, <3>2 DEF FileKnown
    <2>4. FileKnown("prepLoad", mem[p], history', draft', clock')
      BY <2>2, <2>3 DEF FileKnown, Sending, PublishOps
    <2> QED BY <1>2, <1>4, <2>4, GotoKnown DEF Labels
  <1> QED BY <1>3, <1>4 DEF EditSave, NoteSave, RefreshSave

\* The publication of what was loaded.
LEMMA PrepareKnown ==
    ASSUME Inv, Inv', FilesKnown, NEW p \in Procs, PrepareFetch(p) \/ Confirm(p)
    PROVE  FilesKnown'
  <1>1. FileStep /\ ServerStep /\ draft' = draft /\ clock' = clock
    BY DEF PrepareFetch, Confirm, FileStep, ServerStep, server
  <1>2. mem[p] \in Memories /\ FileKnown(pc[p], mem[p], history, draft, clock)
    BY KnownHere, MemHere DEF Inv
  <1>3. draft # None => draft.stamp <= clock
    BY DEF FilesKnown
  <1>4. CASE Finish(p)
    BY <1>1, <1>4, FinishKnown
  <1>5. CASE PrepareFetch(p) /\ ~Finish(p)
    <2>0. PICK l \in {"confirm", "recheck"} : \E cand :
              Goto(p, l, [mem[p] EXCEPT !.seen = Latest, !.cand = cand])
      BY <1>5 DEF PrepareFetch
    <2>1. PICK cand : Goto(p, l, [mem[p] EXCEPT !.seen = Latest, !.cand = cand])
      BY <2>0
    <2> DEFINE m == [mem[p] EXCEPT !.seen = Latest, !.cand = cand]
    <2>2. /\ m.checked = mem[p].checked /\ m.op = mem[p].op /\ m.rec = mem[p].rec
          /\ m.intent = mem[p].intent
      BY <1>2 DEF Memories
    <2>3. pc[p] = "prepFetch" /\ l \in Labels
      BY <1>5 DEF PrepareFetch, Labels
    <2> HIDE DEF m
    <2>4. FileKnown(l, m, history', draft', clock')
      BY <1>1, <1>2, <2>2, <2>3 DEF FileKnown, Sending
    <2> QED BY <1>1, <2>0, <2>1, <2>3, <2>4, GotoKnown DEF m
  <1>6. CASE Confirm(p) /\ ~Finish(p)
    <2> DEFINE m == [mem[p] EXCEPT !.shown = mem[p].cand]
               n == [m EXCEPT !.rec = draft]
    <2>1. /\ m.checked = mem[p].checked /\ m.op = mem[p].op /\ m.rec = mem[p].rec
          /\ m.intent = mem[p].intent
      BY <1>2 DEF Memories
    <2>2. pc[p] = "confirm" /\ mem[p].op \in PublishOps
      BY <1>2, <1>6 DEF Confirm, FileKnown
    <2>3. CASE m.op = "publish"
      <3>1. Goto(p, "recheck", m)
        BY <1>6, <2>3 DEF Confirm
      <3> HIDE DEF m
      <3>2. FileKnown("recheck", m, history', draft', clock')
        BY <1>1, <1>2, <2>1, <2>2 DEF FileKnown, Sending
      <3> QED BY <1>1, <3>1, <3>2, GotoKnown DEF Labels
    <2>4. CASE m.op # "publish"
      <3>1. Goto(p, "noteSave", n)
        BY <1>6, <2>4 DEF Confirm
      <3>2. n.checked = mem[p].checked /\ n.op = mem[p].op /\ n.rec = draft
        BY <1>2 DEF Memories
      <3> HIDE DEF m, n
      <3>3. FileKnown("noteSave", n, history', draft', clock')
        BY <1>1, <1>2, <1>3, <2>1, <2>2, <2>4, <3>2 DEF FileKnown, Sending, PublishOps
      <3> QED BY <1>1, <3>1, <3>3, GotoKnown DEF Labels
    <2> QED BY <2>3, <2>4
  <1> QED BY <1>4, <1>5, <1>6

\* The comparison: the file holds what was merged. With a note it gets a new time,
\* and so does what the process has checked.
LEMMA RecheckKnown ==
    ASSUME Inv, Inv', FilesKnown, NEW p \in Procs, Recheck(p)
    PROVE  FilesKnown'
  <1>1. ServerStep /\ history' = history
    BY DEF Recheck, ServerStep, server
  <1>2. mem[p] \in Memories /\ FileKnown("recheck", mem[p], history, draft, clock)
    BY KnownHere, MemHere DEF Inv, Recheck
  <1>3. clock \in Nat /\ draft \in Records \cup {None}
    BY DEF Inv, FilesOK
  <1>4. CASE draft = None \/ draft.stamp # mem[p].rec.stamp
    <2>1. FileStep
      BY <1>4 DEF Recheck, FileStep
    <2> QED BY <1>1, <1>4, <2>1, FinishKnown DEF Recheck
  <1>5. CASE ~(draft = None \/ draft.stamp # mem[p].rec.stamp)
    <2> DEFINE l == IF mem[p].cand = history[mem[p].seen] THEN "delete" ELSE "validate"
               m == [mem[p] EXCEPT !.checked = clock']
               noted == [draft EXCEPT !.stamp = clock + 1]
    <2>1. /\ \/ UNCHANGED <<draft, clock>>
             \/ Save(noted)
          /\ Goto(p, l, m)
      BY <1>5 DEF Recheck
    <2>2. clock + 1 \in Nat /\ draft \in Records
      BY <1>3, <1>5
    <2>3. /\ noted \in Records /\ noted.stamp = clock + 1
          /\ noted.base = draft.base /\ noted.cfg = draft.cfg
      BY <2>2 DEF Records
    <2>4. draft = mem[p].rec /\ draft.stamp <= clock /\ mem[p].intent = draft.cfg /\ mem[p].rec # None
      BY <1>2, <1>5 DEF FileKnown
    <2> HIDE DEF noted
    <2>5. FileStep
      BY <2>1, <2>3 DEF Save, FileStep
    <2>6. clock' \in Nat /\ clock <= clock'
      BY <1>3, <2>1, <2>3 DEF Save
    <2>7. /\ m.checked = clock' /\ m.op = mem[p].op /\ m.rec = draft /\ m.intent = draft.cfg
          /\ m.seen = mem[p].seen /\ m.cand = mem[p].cand
      BY <1>2, <2>4, <2>6 DEF Memories
    <2>8. draft' # None /\ draft'.base = draft.base /\ draft'.cfg = draft.cfg
      BY <1>5, <2>1, <2>3, NoneIsNoRecord DEF Save
    <2>9. (draft'.stamp = draft.stamp) => draft' = draft
      BY <1>3, <2>1, <2>2, <2>3, <2>4, RecordFields DEF Save
    <2>10. l = "delete" => Arrived(m, history)
      <3>1. CandidateOK(mem[p], history) /\ mem[p].seen \in 1..Len(history)
        BY MemHere DEF Inv, Recheck, MemOK, Holding, ServerOK
      <3> HIDE DEF m
      <3> QED BY <2>4, <2>7, <3>1 DEF CandidateOK, Arrived
    <2>11. l \in Labels /\ l \in {"delete", "validate"}
      BY DEF Labels
    <2> HIDE DEF l, m
    <2>12. draft.stamp <= clock'
      BY <1>3, <2>2, <2>4, <2>6, RecordFields
    <2>13. FileKnown(l, m, history', draft', clock')
      BY <1>1, <2>2, <2>4, <2>6, <2>7, <2>8, <2>9, <2>10, <2>11, <2>12 DEF FileKnown
    <2> QED BY <1>1, <2>1, <2>5, <2>11, <2>13, GotoKnown
  <1> QED BY <1>4, <1>5

\* Mutations and immediate writes know of the file only what they loaded.
LEMMA MutateKnown ==
    ASSUME Inv, Inv', FilesKnown, NEW p \in Procs, MutateFetch(p) \/ DirectFetch(p)
    PROVE  FilesKnown'
  <1>1. FileStep /\ ServerStep /\ draft' = draft /\ clock' = clock
    BY DEF MutateFetch, DirectFetch, FileStep, ServerStep, server
  <1>2. mem[p] \in Memories /\ FileKnown(pc[p], mem[p], history, draft, clock)
    BY KnownHere, MemHere DEF Inv
  <1>3. CASE Finish(p)
    BY <1>1, <1>3, FinishKnown
  <1>4. CASE ~Finish(p)
    <2>0. PICK l \in {"delete", "validate"} : \E cand :
              Goto(p, l, [mem[p] EXCEPT !.seen = Latest, !.cand = cand])
      BY <1>4 DEF MutateFetch, DirectFetch
    <2>1. PICK cand : Goto(p, l, [mem[p] EXCEPT !.seen = Latest, !.cand = cand])
      BY <2>0
    <2> DEFINE m == [mem[p] EXCEPT !.seen = Latest, !.cand = cand]
    <2>2. m.checked = mem[p].checked /\ m.op = mem[p].op /\ m.rec = mem[p].rec
      BY <1>2 DEF Memories
    <2>3. mem[p].op \notin PublishOps /\ l \in Labels
      BY <1>2 DEF MutateFetch, DirectFetch, FileKnown, PublishOps, Labels
    <2> HIDE DEF m
    <2>4. FileKnown(l, m, history', draft', clock')
      BY <1>1, <1>2, <2>0, <2>1, <2>2, <2>3 DEF FileKnown
    <2> QED BY <1>1, <2>0, <2>1, <2>3, <2>4, GotoKnown DEF m
  <1> QED BY <1>3, <1>4

LEMMA ReloadKnown ==
    ASSUME Inv, Inv', FilesKnown, NEW p \in Procs, MutateReload(p)
    PROVE  FilesKnown'
  <1>1. ServerStep
    BY DEF MutateReload, ServerStep, server
  <1>2. mem[p] \in Memories /\ FileKnown("mutReload", mem[p], history, draft, clock)
    BY KnownHere, MemHere DEF Inv, MutateReload
  <1>3. clock \in Nat /\ clock' \in Nat /\ draft \in Records \cup {None}
    BY DEF Inv, FilesOK
  <1>4. CASE draft = None
    <2>1. FileStep
      BY <1>4 DEF MutateReload, FileStep
    <2> QED BY <1>1, <1>4, <2>1, FinishKnown DEF MutateReload
  <1>5. CASE draft # None
    <2> DEFINE noted == [draft EXCEPT !.stamp = clock + 1]
    <2>1. PICK r \in {draft, noted} :
            /\ draft' = r
            /\ clock' = IF r = draft THEN clock ELSE clock + 1
            /\ Goto(p, "mutFetch", [mem[p] EXCEPT !.rec = r])
      BY <1>5 DEF MutateReload
    <2>2. clock + 1 \in Nat /\ draft \in Records /\ draft.stamp <= clock
      BY <1>3, <1>5 DEF FilesKnown
    <2>3. noted \in Records /\ noted.stamp = clock + 1
      BY <2>2, Restamp
    <2> HIDE DEF noted
    <2>4. FileStep
      BY <2>1, <2>3 DEF FileStep
    <2> DEFINE m == [mem[p] EXCEPT !.rec = r]
    <2>5. m.checked = mem[p].checked /\ m.op = mem[p].op /\ m.rec = r
      BY <1>2 DEF Memories
    <2>6. r.stamp <= clock' /\ mem[p].checked <= clock'
      <3>1. mem[p].checked \in Nat /\ mem[p].checked <= clock
        BY <1>2 DEF FileKnown, Memories
      <3> QED BY <1>3, <2>1, <2>2, <2>3, <3>1, RecordFields
    <2> HIDE DEF m
    <2>7. FileKnown("mutFetch", m, history', draft', clock')
      BY <1>2, <2>1, <2>5, <2>6 DEF FileKnown, Sending
    <2> QED BY <1>1, <2>1, <2>4, <2>7, GotoKnown DEF m, Labels
  <1> QED BY <1>4, <1>5

\* What the server accepts arrives.
LEMMA AcceptArrived ==
    ASSUME Inv, NEW p \in Procs, pc[p] = "put", Accept(p), mem[p].rec # None
    PROVE  Arrived(mem[p], history')
  <1> DEFINE m == mem[p]
  <1>1. CandidateOK(m, history) /\ m.cand \in Templates
    BY MemHere DEF Inv, MemOK, Holding
  <1>2. m.seen = Len(history) /\ history' = Append(history, m.cand) /\ Len(history) \in Nat
    BY DEF Accept, Latest, Inv, ServerOK
  <1>3. /\ Len(history') = Len(history) + 1 /\ history'[Len(history) + 1] = m.cand
        /\ \A v \in 1..Len(history) : history'[v] = history[v]
    BY <1>1, <1>2, AppendKeeps DEF Inv, ServerOK
  <1>4. m.rec # None /\ m.rec.base \in 1..m.seen /\ m.rec.base \in 1..Len(history)
    BY <1>1, <1>2 DEF CandidateOK
  <1>5. m.seen \in 1..Len(history')
    BY <1>2, <1>3, <1>4
  <1>6. history'[m.rec.base] = history[m.rec.base] /\ history'[m.seen] = history[m.seen]
    BY <1>2, <1>3, <1>4
  <1> HIDE DEF m
  <1>7. Arrived(m, history')
    BY <1>1, <1>2, <1>3, <1>4, <1>5, <1>6 DEF CandidateOK, Arrived
  <1> QED BY <1>7 DEF m

\* Validation, the update and its acceptance.
LEMMA SendKnown ==
    ASSUME Inv, Inv', FilesKnown, NEW p \in Procs,
           Validate(p) \/ Put(p) \/ PutAnswerLost(p) \/ PostPublish(p)
    PROVE  FilesKnown'
  <1>1. FileStep /\ draft' = draft /\ clock' = clock
    BY DEF Validate, Put, PutAnswerLost, PostPublish, FileStep
  <1>2. mem[p] \in Memories /\ FileKnown(pc[p], mem[p], history, draft, clock) /\ MemOK(pc[p], mem[p], history)
    BY KnownHere, MemHere DEF Inv
  <1>3. ServerStep
    <2>1. ASSUME pc[p] = "put", Accept(p) PROVE ServerStep
      BY <1>2, <2>1 DEF MemOK, Holding, Accept, ServerStep
    <2> QED BY <2>1 DEF Validate, Put, PutAnswerLost, PostPublish, ServerStep, server
  <1>4. CASE Finish(p)
    BY <1>1, <1>3, <1>4, FinishKnown
  <1>5. CASE UNCHANGED <<pc, mem>>
    BY <1>1, <1>3, <1>5, StayKnown
  <1>6. CASE Validate(p) /\ ~Finish(p)
    <2>1. Goto(p, "put", mem[p]) /\ pc[p] = "validate" /\ history' = history
      BY <1>6 DEF Validate, server
    <2>2. FileKnown("put", mem[p], history', draft', clock')
      BY <1>1, <1>2, <2>1 DEF FileKnown, Sending
    <2> QED BY <1>1, <1>3, <2>1, <2>2, GotoKnown DEF Labels
  <1>7. CASE Put(p) /\ ~Finish(p)
    <2>1. Goto(p, "accepted", mem[p]) /\ pc[p] = "put" /\ Accept(p)
      BY <1>7 DEF Put
    <2>2. FileKnown("put", mem[p], history', draft', clock')
      BY <1>1, <1>2, <1>3, <2>1, FileKnownStays DEF Labels
    <2>3. mem[p].op \in PublishOps => Arrived(mem[p], history')
      BY <1>2, <2>1, AcceptArrived DEF FileKnown, Sending
    <2>4. FileKnown("accepted", mem[p], history', draft', clock')
      BY <2>2, <2>3 DEF FileKnown, Sending
    <2> QED BY <1>1, <1>3, <2>1, <2>4, GotoKnown DEF Labels
  <1>8. CASE PostPublish(p) /\ ~Finish(p)
    <2>1. Goto(p, "delete", mem[p]) /\ pc[p] = "accepted" /\ history' = history
      BY <1>8 DEF PostPublish, server
    <2>2. FileKnown("delete", mem[p], history', draft', clock')
      BY <1>1, <1>2, <2>1 DEF FileKnown, Sending
    <2> QED BY <1>1, <1>3, <2>1, <2>2, GotoKnown DEF Labels
  <1> QED BY <1>4, <1>5, <1>6, <1>7, <1>8 DEF PutAnswerLost

LEMMA RefreshKnown ==
    ASSUME Inv, Inv', FilesKnown, NEW p \in Procs, RefreshLoad(p)
    PROVE  FilesKnown'
  <1>1. FileStep /\ ServerStep /\ draft' = draft /\ clock' = clock
    BY DEF RefreshLoad, FileStep, ServerStep, server
  <1>2. mem[p] \in Memories /\ FileKnown("refreshLoad", mem[p], history, draft, clock)
    BY KnownHere, MemHere DEF Inv, RefreshLoad
  <1>3. CASE Finish(p)
    BY <1>1, <1>3, FinishKnown
  <1>4. CASE ~Finish(p)
    <2>1. draft # None
      BY <1>4 DEF RefreshLoad
    <2>0. PICK l \in {"delete", "refreshSave"} : \E cand :
              Goto(p, l, [mem[p] EXCEPT !.rec = draft, !.intent = draft.cfg, !.cand = cand])
      BY <1>4 DEF RefreshLoad
    <2>2. PICK cand : Goto(p, l, [mem[p] EXCEPT !.rec = draft, !.intent = draft.cfg, !.cand = cand])
      BY <2>0
    <2> DEFINE m == [mem[p] EXCEPT !.rec = draft, !.intent = draft.cfg, !.cand = cand]
    <2>3. m.checked = mem[p].checked /\ m.op = mem[p].op /\ m.rec = draft
      BY <1>2 DEF Memories
    <2>4. draft.stamp <= clock /\ mem[p].op = "refresh" /\ l \in Labels
      BY <1>2, <2>1 DEF FilesKnown, FileKnown, Labels
    <2> HIDE DEF m
    <2>5. FileKnown(l, m, history', draft', clock')
      BY <1>1, <1>2, <2>0, <2>2, <2>3, <2>4 DEF FileKnown, PublishOps
    <2> QED BY <1>1, <2>0, <2>2, <2>4, <2>5, GotoKnown DEF m
  <1> QED BY <1>3, <1>4

LEMMA FilesKnownNext ==
    ASSUME Inv, Inv', FilesKnown, [Next]_vars
    PROVE  FilesKnown'
  <1>1. ASSUME NEW p \in Procs, Start(p) PROVE FilesKnown'
    BY <1>1, BeginKnown, LoadKnown, DiscardKnown DEF Start
  <1>2. ASSUME NEW p \in Procs, Continue(p) PROVE FilesKnown'
    BY <1>2, LoadKnown, EditKnown, SaveKnown, PrepareKnown, RecheckKnown, MutateKnown,
       ReloadKnown, SendKnown, RefreshKnown, EndKnown DEF Continue
  <1>3. ASSUME NEW p \in Procs, Disturb(p) PROVE FilesKnown'
    BY <1>3, EndKnown, SendKnown DEF Disturb
  <1>4. CASE UNCHANGED vars
    BY <1>4, StayKnown DEF vars, FileStep, ServerStep
  <1> QED BY <1>1, <1>2, <1>3, <1>4, EnvironmentKnown DEF Next

\* At every label a process knows of the draft file what FileKnown says: a record
\* with the time stamp of the one it holds is that record, and a publication that
\* compared the file still knows what is in it until somebody saves again.
THEOREM FilesKnownHolds == Spec => []FilesKnown
  <1>1. Init => FilesKnown
    BY DEF Init, FilesKnown, FileKnown, Blank, Sending
  <1>2. Inv /\ Inv' /\ FilesKnown /\ [Next]_vars => FilesKnown'
    BY FilesKnownNext
  <1> QED BY <1>1, <1>2, InvHolds, PTL DEF Spec

\* What arrived is applied.
LEMMA ArrivedApplied ==
    ASSUME Inv, NEW m, Arrived(m, history), NEW r, r.base = m.rec.base, r.cfg = m.intent
    PROVE  Applied(r)
  <1>1. m.seen \in r.base..Latest /\ Latest \in Nat
    BY DEF Arrived, Latest, Inv, ServerOK
  <1>2. PICK w \in {m.seen, m.seen + 1} :
            w \in 1..Len(history) /\ history[w] = Merge(history[m.rec.base], m.intent, history[m.seen])
    BY DEF Arrived
  <1>3. w \in {m.seen, m.seen + 1} \cap Versions
    BY <1>2 DEF Versions
  <1>4. ~MergeConflict(history[r.base], r.cfg, history[m.seen])
    BY DEF Arrived
  <1> QED BY <1>1, <1>2, <1>3, <1>4 DEF Applied

\* A draft removed after a draft publication was published or without effect, or
\* was saved after ExecutePublish compared the file (draft/pipeline.go:263 and
\* 317), whatever any number of processes save, rebase, discard and publish.
THEOREM EarlierEditsSurvive == Spec => LostOnlyAfterRecheck
  <1>1. Inv /\ FilesKnown /\ [Next]_vars
        => [\A p \in Procs :
              (draft # None /\ mem[p].op \in {"publish", "republish"} /\ DeleteDraft(p)) =>
                  Applied(draft) \/ draft.stamp > mem[p].checked]_vars
    <2> SUFFICES ASSUME Inv, FilesKnown, NEW p \in Procs, draft # None, mem[p].op \in PublishOps,
                        DeleteDraft(p), ~(draft.stamp > mem[p].checked)
                 PROVE  Applied(draft)
      BY DEF PublishOps
    <2>1. FileKnown("delete", mem[p], history, draft, clock) /\ mem[p].checked \in Nat
      BY KnownHere, MemHere DEF DeleteDraft, Inv, Memories
    <2>2. draft.stamp <= mem[p].checked
      BY <2>1, RecordFields DEF Inv, FilesOK
    <2>3. Arrived(mem[p], history) /\ draft.base = mem[p].rec.base /\ draft.cfg = mem[p].intent
      BY <2>1, <2>2 DEF FileKnown, Sending
    <2> QED BY <2>3, ArrivedApplied
  <1> QED BY <1>1, InvHolds, FilesKnownHolds, PTL DEF Spec, LostOnlyAfterRecheck
-----------------------------------------------------------------------------
(***************************************************************************)
(* What the user confirmed.                                                *)
(***************************************************************************)

\* Without republish, a candidate once confirmed is never made again.
ShownOK(l, m) ==
    /\ m.op # "republish"
    /\ l # "prepLoad"
    /\ IF l \in {"recheck"} \cup Sending THEN m.shown \in {None, m.cand} ELSE m.shown = None

ShownKnown == \A p \in Procs : ShownOK(pc[p], mem[p])

LEMMA GotoShown ==
    ASSUME Inv, ShownKnown, NEW p \in Procs, NEW l, NEW m, Goto(p, l, m), ShownOK(l, m)
    PROVE  ShownKnown'
  <1>1. ASSUME NEW q \in Procs PROVE ShownOK(pc'[q], mem'[q])
    BY DEF Goto, Inv, ProcsOK, ShownKnown
  <1> QED BY <1>1 DEF ShownKnown

LEMMA FinishShown ==
    ASSUME Inv, ShownKnown, NEW p \in Procs, Finish(p)
    PROVE  ShownKnown'
  <1>1. ShownOK("idle", Blank)
    BY DEF ShownOK, Blank, Sending
  <1> QED BY <1>1, GotoShown DEF Finish

\* An operation begins with nothing confirmed.
LEMMA StartShown ==
    ASSUME "republish" \notin Ops, Inv, ShownKnown, NEW p \in Procs, Start(p)
    PROVE  ShownKnown'
  <1> USE DEF ShownOK, Blank, Sending
  <1>1. CASE BeginEdit(p)
    BY <1>1, GotoShown DEF BeginEdit
  <1>2. CASE BeginNote(p)
    BY <1>2, GotoShown DEF BeginNote
  <1>3. CASE Discard(p)
    BY <1>3 DEF Discard, ShownKnown
  <1>4. ASSUME NEW op \in Ops, BeginMutate(p, op) PROVE ShownKnown'
    <2>1. PICK seen : Goto(p, "editLoad", [Blank EXCEPT !.op = op, !.seen = seen])
      BY <1>4 DEF BeginMutate
    <2> QED BY <2>1, GotoShown
  <1>5. ASSUME NEW op \in Ops, BeginPublish(p, op) PROVE ShownKnown'
    <2>1. Goto(p, "prepFetch", [Blank EXCEPT !.op = op, !.rec = draft, !.intent = draft.cfg])
      BY <1>5 DEF BeginPublish
    <2> QED BY <2>1, GotoShown
  <1>6. CASE DirectGuard(p)
    BY <1>6, GotoShown DEF DirectGuard
  <1>7. CASE BeginRefresh(p)
    BY <1>7, GotoShown DEF BeginRefresh
  <1> QED BY <1>1, <1>2, <1>3, <1>4, <1>5, <1>6, <1>7 DEF Start

\* The steps before a candidate is confirmed, and the ones that confirm it.
LEMMA CandidateShown ==
    ASSUME Inv, FilesKnown, ShownKnown, NEW p \in Procs,
           \/ EditLoad(p) \/ EditBase(p) \/ NoteSave(p) \/ PrepareLoad(p) \/ PrepareFetch(p)
           \/ Confirm(p) \/ MutateReload(p) \/ MutateFetch(p) \/ DirectFetch(p) \/ RefreshLoad(p)
    PROVE  ShownKnown'
  <1>1. /\ mem[p] \in Memories /\ ShownOK(pc[p], mem[p])
        /\ FileKnown(pc[p], mem[p], history, draft, clock)
    BY MemHere, KnownHere DEF Inv, ShownKnown
  <1>2. CASE Finish(p)
    BY <1>2, FinishShown
  <1>3. CASE EditLoad(p)
    <2>0. PICK l \in {"editBase", "validate", "mutReload"} : \E final :
              Goto(p, l, [mem[p] EXCEPT !.rec = draft, !.intent = final, !.cand = final])
      BY <1>3 DEF EditLoad
    <2>1. PICK final : Goto(p, l, [mem[p] EXCEPT !.rec = draft, !.intent = final, !.cand = final])
      BY <2>0
    <2> DEFINE m == [mem[p] EXCEPT !.rec = draft, !.intent = final, !.cand = final]
    <2>2. m.op = mem[p].op /\ m.shown = mem[p].shown
      BY <1>1 DEF Memories
    <2> HIDE DEF m
    <2>3. ShownOK(l, m)
      BY <1>1, <1>3, <2>2 DEF EditLoad, ShownOK, Sending
    <2> QED BY <2>0, <2>1, <2>3, GotoShown DEF m
  <1>4. CASE EditBase(p)
    <2> DEFINE m == [mem[p] EXCEPT !.seen = BaseToSave(p)]
    <2>1. m.op = mem[p].op /\ m.shown = mem[p].shown
      BY <1>1 DEF Memories
    <2> HIDE DEF m
    <2>2. ShownOK("editSave", m)
      BY <1>1, <1>4, <2>1 DEF EditBase, ShownOK, Sending
    <2> QED BY <1>4, <2>2, GotoShown DEF m, EditBase
  <1>5. CASE NoteSave(p)
    BY <1>1, <1>5, FinishShown DEF NoteSave, FileKnown, ShownOK
  <1>6. CASE PrepareLoad(p)
    BY <1>1, <1>6 DEF PrepareLoad, ShownOK
  <1>7. CASE PrepareFetch(p) /\ ~Finish(p)
    <2>1. mem[p].shown = None
      BY <1>1, <1>7 DEF PrepareFetch, ShownOK, Sending
    <2>2. PICK cand : Goto(p, "confirm", [mem[p] EXCEPT !.seen = Latest, !.cand = cand])
      BY <1>7, <2>1 DEF PrepareFetch
    <2> DEFINE m == [mem[p] EXCEPT !.seen = Latest, !.cand = cand]
    <2>3. m.op = mem[p].op /\ m.shown = mem[p].shown
      BY <1>1 DEF Memories
    <2> HIDE DEF m
    <2>4. ShownOK("confirm", m)
      BY <1>1, <2>1, <2>3 DEF ShownOK, Sending
    <2> QED BY <2>2, <2>4, GotoShown DEF m
  <1>8. CASE Confirm(p)
    <2> DEFINE m == [mem[p] EXCEPT !.shown = mem[p].cand]
    <2>1. m.op = mem[p].op /\ m.shown = mem[p].cand /\ m.cand = mem[p].cand
      BY <1>1 DEF Memories
    <2>2. mem[p].op = "publish"
      BY <1>1, <1>8 DEF Confirm, FileKnown, ShownOK, PublishOps
    <2>3. Goto(p, "recheck", m)
      BY <1>8, <2>1, <2>2 DEF Confirm
    <2> HIDE DEF m
    <2>4. ShownOK("recheck", m)
      BY <2>1, <2>2 DEF ShownOK
    <2> QED BY <2>3, <2>4, GotoShown
  <1>9. CASE MutateReload(p) /\ ~Finish(p)
    <2>1. PICK r : Goto(p, "mutFetch", [mem[p] EXCEPT !.rec = r])
      BY <1>9 DEF MutateReload
    <2> DEFINE m == [mem[p] EXCEPT !.rec = r]
    <2>2. m.op = mem[p].op /\ m.shown = mem[p].shown
      BY <1>1 DEF Memories
    <2> HIDE DEF m
    <2>3. ShownOK("mutFetch", m)
      BY <1>1, <1>9, <2>2 DEF MutateReload, ShownOK, Sending
    <2> QED BY <2>1, <2>3, GotoShown DEF m
  <1>10. CASE (MutateFetch(p) \/ DirectFetch(p)) /\ ~Finish(p)
    <2>0. PICK l \in {"delete", "validate"} : \E cand :
              Goto(p, l, [mem[p] EXCEPT !.seen = Latest, !.cand = cand])
      BY <1>10 DEF MutateFetch, DirectFetch
    <2>1. PICK cand : Goto(p, l, [mem[p] EXCEPT !.seen = Latest, !.cand = cand])
      BY <2>0
    <2> DEFINE m == [mem[p] EXCEPT !.seen = Latest, !.cand = cand]
    <2>2. m.op = mem[p].op /\ m.shown = mem[p].shown
      BY <1>1 DEF Memories
    <2> HIDE DEF m
    <2>3. ShownOK(l, m)
      BY <1>1, <1>10, <2>0, <2>1, <2>2 DEF MutateFetch, DirectFetch, ShownOK, Sending
    <2> QED BY <2>0, <2>1, <2>3, GotoShown DEF m
  <1>11. CASE RefreshLoad(p) /\ ~Finish(p)
    <2>0. PICK l \in {"delete", "refreshSave"} : \E cand :
              Goto(p, l, [mem[p] EXCEPT !.rec = draft, !.intent = draft.cfg, !.cand = cand])
      BY <1>11 DEF RefreshLoad
    <2>1. PICK cand : Goto(p, l, [mem[p] EXCEPT !.rec = draft, !.intent = draft.cfg, !.cand = cand])
      BY <2>0
    <2> DEFINE m == [mem[p] EXCEPT !.rec = draft, !.intent = draft.cfg, !.cand = cand]
    <2>2. m.op = mem[p].op /\ m.shown = mem[p].shown
      BY <1>1 DEF Memories
    <2> HIDE DEF m
    <2>3. ShownOK(l, m)
      BY <1>1, <1>11, <2>0, <2>1, <2>2 DEF RefreshLoad, ShownOK, Sending
    <2> QED BY <2>0, <2>1, <2>3, GotoShown DEF m
  <1> QED BY <1>2, <1>3, <1>4, <1>5, <1>6, <1>7, <1>8, <1>9, <1>10, <1>11

\* The steps after it leave the candidate and what was confirmed alone.
LEMMA SentShown ==
    ASSUME Inv, ShownKnown, NEW p \in Procs,
           Recheck(p) \/ Validate(p) \/ Put(p) \/ PutAnswerLost(p) \/ PostPublish(p)
    PROVE  ShownKnown'
  <1>1. mem[p] \in Memories /\ ShownOK(pc[p], mem[p])
    BY MemHere DEF Inv, ShownKnown
  <1>2. CASE Finish(p)
    BY <1>2, FinishShown
  <1>3. CASE PutAnswerLost(p)
    BY <1>3 DEF PutAnswerLost, ShownKnown
  <1>4. CASE (Validate(p) \/ Put(p) \/ PostPublish(p)) /\ ~Finish(p)
    <2>1. PICK l \in Sending : Goto(p, l, mem[p])
      BY <1>4 DEF Validate, Put, PostPublish, Sending
    <2>2. ShownOK(l, mem[p])
      BY <1>1, <1>4, <2>1 DEF Validate, Put, PostPublish, ShownOK, Sending
    <2> QED BY <2>1, <2>2, GotoShown
  <1>5. CASE Recheck(p) /\ ~Finish(p)
    <2>1. PICK l \in Sending : Goto(p, l, [mem[p] EXCEPT !.checked = clock'])
      BY <1>5 DEF Recheck, Sending
    <2> DEFINE m == [mem[p] EXCEPT !.checked = clock']
    <2>2. m.op = mem[p].op /\ m.shown = mem[p].shown /\ m.cand = mem[p].cand
      BY <1>1 DEF Memories
    <2> HIDE DEF m
    <2>3. ShownOK(l, m)
      BY <1>1, <1>5, <2>1, <2>2 DEF Recheck, ShownOK, Sending
    <2> QED BY <2>1, <2>3, GotoShown DEF m
  <1> QED BY <1>2, <1>3, <1>4, <1>5

LEMMA ShownKnownNext ==
    ASSUME "republish" \notin Ops, Inv, FilesKnown, ShownKnown, [Next]_vars
    PROVE  ShownKnown'
  <1>1. ASSUME NEW p \in Procs, Continue(p) PROVE ShownKnown'
    <2>1. CASE EditSave(p) \/ DeleteDraft(p) \/ RefreshSave(p)
      BY <2>1, FinishShown DEF EditSave, DeleteDraft, RefreshSave
    <2> QED BY <1>1, <2>1, CandidateShown, SentShown DEF Continue
  <1>2. ASSUME NEW p \in Procs, Disturb(p) PROVE ShownKnown'
    <2>1. CASE PutAnswerLost(p)
      BY <2>1, SentShown
    <2> QED BY <1>2, <2>1, FinishShown DEF Disturb, Cancel, PostPublishFails, DeleteDraftFails, Crash
  <1>3. CASE ConsolePublish \/ UNCHANGED vars
    BY <1>3 DEF ConsolePublish, vars, ShownKnown
  <1> QED BY <1>1, <1>2, <1>3, StartShown DEF Next

\* What reaches the server is the candidate its user was shown and confirmed
\* (PreparePublish, confirmation, ExecutePublish), with any number of processes, as long
\* as nobody publishes with --change-note, which prepares a second time.
THEOREM ShownIsPublished ==
    ASSUME "republish" \notin Ops
    PROVE  Spec => []PublishedAsShown
  <1>1. Init => ShownKnown
    <2>1. ShownOK("idle", Blank)
      BY DEF ShownOK, Blank, Sending
    <2> QED BY <2>1 DEF Init, ShownKnown
  <1>2. Inv /\ FilesKnown /\ ShownKnown /\ [Next]_vars => ShownKnown'
    BY ShownKnownNext
  <1>3. ShownKnown => PublishedAsShown
    BY DEF ShownKnown, ShownOK, PublishedAsShown, Sending
  <1> QED BY <1>1, <1>2, <1>3, InvHolds, FilesKnownHolds, PTL DEF Spec
-----------------------------------------------------------------------------
(***************************************************************************)
(* One process.  Nobody else saves, so what it knows of the file is so.    *)
(***************************************************************************)

\* What the only process, at label l, knows of the draft file d.
AloneOK(l, m, h, d) ==
    /\ l = "refreshLoad" /\ d # None => d.base <= m.seen
    /\ l \in {"mutReload", "mutFetch"} => d = m.rec
    /\ l \in {"validate", "put", "accepted"} => m.op \in PublishOps \cup {"mutatePublish", "direct"}
    /\ l = "delete" => m.op \in PublishOps \cup {"mutatePublish", "refresh"}
    /\ l \in Sending /\ m.op = "mutatePublish" => d = m.rec
    /\ l \in Sending /\ m.op \in PublishOps /\ d # None => d.stamp <= m.checked
    /\ l \in {"accepted", "delete"} /\ m.op = "mutatePublish" /\ m.rec # None => Arrived(m, h)
    /\ l = "delete" /\ m.op = "refresh" => d = m.rec /\ m.intent = m.rec.cfg /\ Arrived(m, h)

Alone == \A p \in Procs : AloneOK(pc[p], mem[p], history, draft)

\* The labels at which the file does not matter.
Elsewhere == Labels \ (Sending \cup {"refreshLoad", "mutReload", "mutFetch"})

LEMMA GotoAlone ==
    ASSUME Inv, NEW p, Procs = {p}, NEW l, NEW m, Goto(p, l, m), AloneOK(l, m, history', draft')
    PROVE  Alone'
  BY DEF Goto, Inv, ProcsOK, Alone

LEMMA GotoElsewhere ==
    ASSUME Inv, NEW p, Procs = {p}, NEW l \in Elsewhere, NEW m, Goto(p, l, m)
    PROVE  Alone'
  <1>1. AloneOK(l, m, history', draft')
    BY DEF AloneOK, Elsewhere, Sending
  <1> QED BY <1>1, GotoAlone

LEMMA FinishAlone ==
    ASSUME Inv, NEW p, Procs = {p}, Finish(p)
    PROVE  Alone'
  BY GotoElsewhere DEF Finish, Elsewhere, Labels, Sending

\* An operation begins; a refresh has just fetched a version.
LEMMA StartAlone ==
    ASSUME Inv, NEW p, Procs = {p}, Start(p)
    PROVE  Alone'
  <1>1. CASE BeginEdit(p)
    BY <1>1, GotoElsewhere DEF BeginEdit, Elsewhere, Labels, Sending
  <1>2. CASE BeginNote(p)
    BY <1>2, GotoElsewhere DEF BeginNote, Elsewhere, Labels, Sending
  <1>3. CASE Discard(p)
    BY <1>3 DEF Discard, Begin, Alone, AloneOK, Sending
  <1>4. ASSUME NEW op \in Ops, BeginMutate(p, op) PROVE Alone'
    BY <1>4, GotoElsewhere DEF BeginMutate, Elsewhere, Labels, Sending
  <1>5. ASSUME NEW op \in Ops, BeginPublish(p, op) PROVE Alone'
    BY <1>5, GotoElsewhere DEF BeginPublish, Elsewhere, Labels, Sending
  <1>6. CASE DirectGuard(p)
    BY <1>6, GotoElsewhere DEF DirectGuard, Elsewhere, Labels, Sending
  <1>7. CASE BeginRefresh(p)
    <2> DEFINE m == [Blank EXCEPT !.op = "refresh", !.seen = Latest]
    <2>1. m.seen = Latest /\ (draft # None => draft.base <= Latest) /\ draft' = draft
      BY <1>7 DEF Blank, BeginRefresh, Inv, FilesOK, ServerOK, Versions, Latest
    <2>2. Goto(p, "refreshLoad", m)
      BY <1>7 DEF BeginRefresh
    <2> HIDE DEF m
    <2>3. AloneOK("refreshLoad", m, history', draft')
      BY <2>1 DEF AloneOK, Sending
    <2> QED BY <2>2, <2>3, GotoAlone
  <1> QED BY <1>1, <1>2, <1>3, <1>4, <1>5, <1>6, <1>7 DEF Start

\* The steps before anything is sent.
LEMMA EditAlone ==
    ASSUME Inv, NEW p, Procs = {p},
           \/ EditLoad(p) \/ EditBase(p) \/ NoteSave(p) \/ PrepareLoad(p)
           \/ PrepareFetch(p) \/ Confirm(p)
    PROVE  Alone'
  <1>1. mem[p] \in Memories
    BY MemHere DEF Inv
  <1>2. CASE Finish(p)
    BY <1>2, FinishAlone
  <1>3. CASE EditLoad(p)
    <2>1. PICK final :
              Goto(p, IF mem[p].op # "mutatePublish" THEN "editBase"
                      ELSE IF draft = None THEN "validate" ELSE "mutReload",
                   [mem[p] EXCEPT !.rec = draft, !.intent = final, !.cand = final])
      BY <1>3 DEF EditLoad
    <2> DEFINE m == [mem[p] EXCEPT !.rec = draft, !.intent = final, !.cand = final]
    <2>2. m.op = mem[p].op /\ m.rec = draft /\ draft' = draft
      BY <1>1, <1>3 DEF Memories, EditLoad
    <2> HIDE DEF m
    <2>3. CASE mem[p].op # "mutatePublish"
      BY <2>1, <2>3, GotoElsewhere DEF Elsewhere, Labels, Sending
    <2>4. CASE mem[p].op = "mutatePublish" /\ draft = None
      <3>1. AloneOK("validate", m, history', draft')
        BY <2>2, <2>4 DEF AloneOK, Sending, PublishOps
      <3> QED BY <2>1, <2>4, <3>1, GotoAlone DEF m
    <2>5. CASE mem[p].op = "mutatePublish" /\ draft # None
      <3>1. AloneOK("mutReload", m, history', draft')
        BY <2>2, <2>5 DEF AloneOK, Sending
      <3> QED BY <2>1, <2>5, <3>1, GotoAlone DEF m
    <2> QED BY <2>3, <2>4, <2>5
  <1>4. CASE ~Finish(p) /\ ~EditLoad(p)
    <2>0. PICK l \in {"editSave", "prepLoad", "prepFetch", "confirm", "recheck", "noteSave"} : \E m : Goto(p, l, m)
      BY <1>4 DEF EditBase, NoteSave, PrepareLoad, PrepareFetch, Confirm
    <2>1. PICK m : l \in {"editSave", "prepLoad", "prepFetch", "confirm", "recheck", "noteSave"} /\ Goto(p, l, m)
      BY <2>0
    <2> QED BY <2>1, GotoElsewhere DEF Elsewhere, Labels, Sending
  <1> QED BY <1>2, <1>3, <1>4

\* ExecutePublish compares the file, and nothing is saved afterwards.
LEMMA RecheckAlone ==
    ASSUME Inv, FilesKnown, FilesKnown', NEW p, Procs = {p}, Recheck(p)
    PROVE  Alone'
  <1>1. mem[p] \in Memories /\ FileKnown("recheck", mem[p], history, draft, clock)
    BY MemHere, KnownHere DEF Inv, Recheck
  <1>2. CASE Finish(p)
    BY <1>2, FinishAlone
  <1>3. CASE ~Finish(p)
    <2>1. PICK l \in {"delete", "validate"} : Goto(p, l, [mem[p] EXCEPT !.checked = clock'])
      BY <1>3 DEF Recheck
    <2> DEFINE m == [mem[p] EXCEPT !.checked = clock']
    <2>2. m.op = mem[p].op /\ m.checked = clock'
      BY <1>1 DEF Memories
    <2> HIDE DEF m
    <2>3. draft' # None => draft'.stamp <= clock'
      BY DEF FilesKnown
    <2>4. AloneOK(l, m, history', draft')
      BY <1>1, <2>1, <2>2, <2>3 DEF FileKnown, AloneOK, PublishOps
    <2> QED BY <2>1, <2>4, GotoAlone DEF m
  <1> QED BY <1>2, <1>3

\* Mutate loads the record again before it merges, and nothing is saved after.
LEMMA MutateAlone ==
    ASSUME Inv, FilesKnown, Alone, NEW p, Procs = {p},
           MutateReload(p) \/ MutateFetch(p) \/ DirectFetch(p)
    PROVE  Alone'
  <1>1. /\ mem[p] \in Memories /\ FileKnown(pc[p], mem[p], history, draft, clock)
        /\ AloneOK(pc[p], mem[p], history, draft) /\ MemOK(pc[p], mem[p], history)
    BY MemHere, KnownHere DEF Inv, Alone
  <1>2. CASE Finish(p)
    BY <1>2, FinishAlone
  <1>3. CASE MutateReload(p) /\ ~Finish(p)
    <2>1. PICK r : draft' = r /\ Goto(p, "mutFetch", [mem[p] EXCEPT !.rec = r])
      BY <1>3 DEF MutateReload
    <2> DEFINE m == [mem[p] EXCEPT !.rec = r]
    <2>2. m.rec = r
      BY <1>1 DEF Memories
    <2> HIDE DEF m
    <2>3. AloneOK("mutFetch", m, history', draft')
      BY <2>1, <2>2 DEF AloneOK, Sending
    <2> QED BY <2>1, <2>3, GotoAlone DEF m
  <1>4. CASE MutateFetch(p) /\ ~Finish(p)
    <2> DEFINE base == history[mem[p].rec.base]
               cand == Merge(base, mem[p].intent, history[Latest])
               l == IF cand = history[Latest] THEN "delete" ELSE "validate"
               m == [mem[p] EXCEPT !.seen = Latest, !.cand = cand]
    <2>1. /\ pc[p] = "mutFetch" /\ draft' = draft /\ history' = history
          /\ ~MergeConflict(base, mem[p].intent, history[Latest])
          /\ Goto(p, l, m)
      BY <1>4 DEF MutateFetch, server
    <2>2. /\ m.op = mem[p].op /\ m.rec = mem[p].rec /\ m.intent = mem[p].intent
          /\ m.seen = Latest
      BY <1>1 DEF Memories
    <2>3. m.op = "mutatePublish" /\ draft = m.rec /\ m.rec.base \in 1..Len(history)
      BY <1>1, <2>1, <2>2 DEF FileKnown, AloneOK, MemOK
    <2>4. Latest \in 1..Len(history) /\ Latest = Len(history)
      BY LatestIsVersion DEF Inv, Versions, Latest
    <2>5. l = "delete" => Arrived(m, history)
      <3> SUFFICES ASSUME cand = history[Latest] PROVE Arrived(m, history)
        OBVIOUS
      <3> HIDE DEF m
      <3> QED BY <2>1, <2>2, <2>3, <2>4 DEF Arrived
    <2>6. l \in {"delete", "validate"}
      OBVIOUS
    <2> HIDE DEF m, l
    <2>7. AloneOK(l, m, history', draft')
      BY <2>1, <2>3, <2>5, <2>6 DEF AloneOK, PublishOps
    <2> QED BY <2>1, <2>7, GotoAlone
  <1>5. CASE DirectFetch(p)
    <2>1. PICK final : Goto(p, "validate", [mem[p] EXCEPT !.seen = Latest, !.cand = final])
      BY <1>5 DEF DirectFetch
    <2> DEFINE m == [mem[p] EXCEPT !.seen = Latest, !.cand = final]
    <2>2. m.op = "direct"
      BY <1>1, <1>5 DEF DirectFetch, FileKnown, Memories
    <2> HIDE DEF m
    <2>3. AloneOK("validate", m, history', draft')
      BY <2>2 DEF AloneOK, PublishOps
    <2> QED BY <2>1, <2>3, GotoAlone DEF m
  <1> QED BY <1>2, <1>3, <1>4, <1>5

\* Sending leaves the file alone.
LEMMA SendAlone ==
    ASSUME Inv, Alone, NEW p, Procs = {p},
           Validate(p) \/ Put(p) \/ PutAnswerLost(p) \/ PostPublish(p)
    PROVE  Alone'
  <1>1. mem[p] \in Memories /\ AloneOK(pc[p], mem[p], history, draft) /\ p \in Procs
    BY MemHere DEF Inv, Alone
  <1>2. draft' = draft
    BY DEF Validate, Put, PutAnswerLost, PostPublish
  <1>3. CASE Finish(p)
    BY <1>3, FinishAlone
  <1>4. CASE PutAnswerLost(p)
    BY <1>1, <1>4 DEF PutAnswerLost, Alone, AloneOK
  <1>5. CASE Validate(p) /\ ~Finish(p)
    <2>1. Goto(p, "put", mem[p]) /\ pc[p] = "validate"
      BY <1>5 DEF Validate
    <2>2. AloneOK("put", mem[p], history', draft')
      BY <1>1, <1>2, <2>1 DEF AloneOK, Sending
    <2> QED BY <2>1, <2>2, GotoAlone
  <1>6. CASE Put(p) /\ ~Finish(p)
    <2>1. Goto(p, "accepted", mem[p]) /\ pc[p] = "put" /\ Accept(p)
      BY <1>6 DEF Put
    <2>2. mem[p].rec # None => Arrived(mem[p], history')
      BY <1>1, <2>1, AcceptArrived
    <2>3. AloneOK("accepted", mem[p], history', draft')
      BY <1>1, <1>2, <2>1, <2>2 DEF AloneOK, Sending
    <2> QED BY <2>1, <2>3, GotoAlone
  <1>7. CASE PostPublish(p) /\ ~Finish(p)
    <2>1. Goto(p, "delete", mem[p]) /\ pc[p] = "accepted" /\ history' = history /\ mem[p].op # "direct"
      BY <1>7 DEF PostPublish, server
    <2>2. AloneOK("delete", mem[p], history', draft')
      BY <1>1, <1>2, <2>1 DEF AloneOK, Sending, PublishOps
    <2> QED BY <2>1, <2>2, GotoAlone
  <1> QED BY <1>3, <1>4, <1>5, <1>6, <1>7

\* A refresh removes a draft only when what it fetched has all of it.
LEMMA RefreshAlone ==
    ASSUME Inv, FilesKnown, Alone, NEW p, Procs = {p}, RefreshLoad(p)
    PROVE  Alone'
  <1>1. /\ mem[p] \in Memories /\ FileKnown("refreshLoad", mem[p], history, draft, clock)
        /\ AloneOK("refreshLoad", mem[p], history, draft) /\ MemOK("refreshLoad", mem[p], history)
    BY MemHere, KnownHere DEF Inv, Alone, RefreshLoad
  <1>2. CASE Finish(p)
    BY <1>2, FinishAlone
  <1>3. CASE ~Finish(p)
    <2> DEFINE seen == history[mem[p].seen]
               merged == Merge(history[draft.base], draft.cfg, seen)
               l == IF merged = seen THEN "delete" ELSE "refreshSave"
               m == [mem[p] EXCEPT !.rec = draft, !.intent = draft.cfg, !.cand = merged]
    <2>1. /\ draft # None /\ draft' = draft /\ history' = history
          /\ ~MergeConflict(history[draft.base], draft.cfg, seen)
          /\ Goto(p, l, m)
      BY <1>3 DEF RefreshLoad, server
    <2>2. m.op = mem[p].op /\ m.rec = draft /\ m.intent = draft.cfg /\ m.seen = mem[p].seen
      BY <1>1 DEF Memories
    <2>3. CASE l = "refreshSave"
      BY <2>1, <2>3, GotoElsewhere DEF Elsewhere, Labels, Sending
    <2>4. CASE l = "delete"
      <3>1. mem[p].seen \in 1..Len(history) /\ draft.base \in Nat \ {0} /\ draft.base <= mem[p].seen
        BY <1>1, <2>1, RecordFields DEF AloneOK, MemOK, Inv, FilesOK, ServerOK
      <3>2. merged = seen
        BY <2>4
      <3>3. draft.base \in 1..mem[p].seen
        BY <3>1
      <3> HIDE DEF m
      <3>4. Arrived(m, history)
        BY <2>1, <2>2, <3>1, <3>2, <3>3 DEF Arrived
      <3>5. AloneOK("delete", m, history', draft')
        BY <1>1, <2>1, <2>2, <3>4 DEF AloneOK, FileKnown, PublishOps
      <3> QED BY <2>1, <2>4, <3>5, GotoAlone
    <2> QED BY <2>3, <2>4
  <1> QED BY <1>2, <1>3

LEMMA AloneNext ==
    ASSUME Inv, Inv', FilesKnown, FilesKnown', Alone, NEW p, Procs = {p}, [Next]_vars
    PROVE  Alone'
  <1>1. CASE Continue(p)
    <2>1. CASE EditSave(p) \/ DeleteDraft(p) \/ RefreshSave(p)
      BY <2>1, FinishAlone DEF EditSave, DeleteDraft, RefreshSave
    <2> QED BY <1>1, <2>1, EditAlone, RecheckAlone, MutateAlone, SendAlone, RefreshAlone DEF Continue
  <1>2. CASE Disturb(p)
    <2>1. CASE PutAnswerLost(p)
      BY <2>1, SendAlone
    <2> QED BY <1>2, <2>1, FinishAlone DEF Disturb, Cancel, PostPublishFails, DeleteDraftFails, Crash
  <1>3. CASE ConsolePublish
    <2>1. /\ mem[p] \in Memories /\ AloneOK(pc[p], mem[p], history, draft)
          /\ UNCHANGED <<pc, mem, draft>>
      BY <1>3, MemHere DEF Inv, Alone, ConsolePublish
    <2>2. Arrived(mem[p], history) => Arrived(mem[p], history')
      BY <1>3, <2>1, ArrivedAppend, LatestIsVersion, VersionIsTemplate, EditsTyped
         DEF ConsolePublish, Inv, ServerOK
    <2>3. AloneOK(pc[p], mem[p], history', draft')
      BY <2>1, <2>2 DEF AloneOK
    <2> QED BY <2>1, <2>3 DEF Alone
  <1>4. CASE UNCHANGED vars
    BY <1>4 DEF vars, Alone
  <1> QED BY <1>1, <1>2, <1>3, <1>4, StartAlone DEF Next

\* With one process at a time, a draft that goes away other than by a discard was
\* applied: published, found without effect, or rebased away by a version that
\* has all of it, together with the mutation that published it (DeleteDraft in
\* ExecutePublish, Mutate and RefreshDraftAware), whatever crashes, fails or is
\* sent twice, and whatever other users publish.
THEOREM NoDraftLost ==
    ASSUME NEW self, Procs = {self}
    PROVE  Spec => DraftNotLost
  <1>1. Init => Alone
    <2>1. ASSUME NEW d, NEW h PROVE AloneOK("idle", Blank, h, d)
      BY DEF AloneOK, Sending
    <2> QED BY <2>1 DEF Init, Alone
  <1>2. Inv /\ Inv' /\ FilesKnown /\ FilesKnown' /\ Alone /\ [Next]_vars => Alone'
    BY AloneNext
  <1>3. Spec => []Alone
    BY <1>1, <1>2, InvHolds, FilesKnownHolds, PTL DEF Spec
  <1>4. Inv /\ FilesKnown /\ Alone /\ [Next]_vars
        => [\A p \in Procs : (draft # None /\ DeleteDraft(p)) => Applied(Published(p, draft))]_vars
    <2> SUFFICES ASSUME Inv, FilesKnown, Alone, draft # None, NEW p \in Procs, DeleteDraft(p)
                 PROVE  Applied(Published(p, draft))
      OBVIOUS
    <2> DEFINE m == mem[p]
    <2>1. /\ m \in Memories /\ draft \in Records
          /\ AloneOK("delete", m, history, draft) /\ FileKnown("delete", m, history, draft, clock)
      BY MemHere, KnownHere DEF Inv, Alone, FilesOK, DeleteDraft
    <2> HIDE DEF m
    <2>2. CASE m.op \in PublishOps
      <3>1. Arrived(m, history) /\ draft.base = m.rec.base /\ draft.cfg = m.intent
        BY <2>1, <2>2 DEF AloneOK, FileKnown, Sending
      <3>2. Published(p, draft) = draft
        BY <2>2 DEF Published, PublishOps, m
      <3> QED BY <3>1, <3>2, ArrivedApplied
    <2>3. CASE m.op = "mutatePublish"
      <3>1. draft = m.rec /\ Arrived(m, history)
        BY <2>1, <2>3 DEF AloneOK, Sending
      <3> DEFINE r == [draft EXCEPT !.cfg = m.intent]
      <3>2. Published(p, draft) = r /\ r.base = m.rec.base /\ r.cfg = m.intent
        BY <2>1, <2>3, <3>1 DEF Published, m, Records
      <3> HIDE DEF r
      <3> QED BY <3>1, <3>2, ArrivedApplied
    <2>4. CASE m.op = "refresh"
      <3>1. draft = m.rec /\ m.intent = m.rec.cfg /\ Arrived(m, history)
        BY <2>1, <2>4 DEF AloneOK
      <3>2. Published(p, draft) = draft
        BY <2>4 DEF Published, m
      <3> QED BY <3>1, <3>2, ArrivedApplied
    <2> QED BY <2>1, <2>2, <2>3, <2>4 DEF AloneOK
  <1> QED BY <1>3, <1>4, InvHolds, FilesKnownHolds, PTL DEF Spec, DraftNotLost
-----------------------------------------------------------------------------
(***************************************************************************)
(* Still one process: what its drafts change is what its user edited.      *)
(***************************************************************************)

\* What t changes in version b of h was edited.
Asked(h, T, b, t) == Items(h[b], t) \subseteq T

\* What the only process, at label l, holds, with draft d and cache c.
IntentOK(l, m, h, T, d, c) ==
    /\ l \in {"editLoad", "editBase"} /\ m.op = "edit" => c = m.seen
    /\ l = "editBase" => Asked(h, T, IF d = None THEN m.seen ELSE d.base, m.intent)
    /\ l = "editSave" => Asked(h, T, m.seen, m.intent)
    /\ l = "noteSave" => Asked(h, T, m.rec.base, m.rec.cfg)
    /\ l = "mutReload" /\ d # None => Asked(h, T, d.base, m.intent)
    /\ l \in {"prepFetch", "mutFetch"} => Asked(h, T, m.rec.base, m.intent)
    /\ l \in Holding /\ m.rec # None => Asked(h, T, m.rec.base, m.intent)
    /\ l = "refreshSave" => Asked(h, T, m.seen, m.cand)

DraftIntended == draft # None => Asked(history, touched, draft.base, draft.cfg)

Intended ==
    /\ OnlyIntendedChanges
    /\ DraftIntended
    /\ \A p \in Procs : IntentOK(pc[p], mem[p], history, touched, draft, cache)

LEMMA GotoIntent ==
    ASSUME Inv, NEW p, Procs = {p}, NEW l, NEW m, Goto(p, l, m),
           IntentOK(l, m, history', touched', draft', cache'), OnlyIntendedChanges', DraftIntended'
    PROVE  Intended'
  BY DEF Goto, Inv, ProcsOK, Intended

LEMMA FinishIntent ==
    ASSUME Inv, NEW p, Procs = {p}, Finish(p), OnlyIntendedChanges', DraftIntended'
    PROVE  Intended'
  <1>1. IntentOK("idle", Blank, history', touched', draft', cache')
    BY DEF IntentOK, Holding
  <1> QED BY <1>1, GotoIntent DEF Finish

\* Nothing but an update of the server can publish something unintended.
LEMMA ServerIntent ==
    ASSUME OnlyIntendedChanges, UNCHANGED server, touched \subseteq touched'
    PROVE  OnlyIntendedChanges'
  BY DEF OnlyIntendedChanges, server, Versions

LEMMA DraftStaysIntended ==
    ASSUME DraftIntended, UNCHANGED <<history, draft>>, touched \subseteq touched'
    PROVE  DraftIntended'
  BY DEF DraftIntended, Asked

\* What the only process holds now.
LEMMA IntentHere ==
    ASSUME Inv, Intended, NEW p, Procs = {p}
    PROVE  /\ mem[p] \in Memories /\ MemOK(pc[p], mem[p], history)
           /\ IntentOK(pc[p], mem[p], history, touched, draft, cache)
           /\ OnlyIntendedChanges /\ DraftIntended
  BY MemHere DEF Inv, Intended

LEMMA StartIntent ==
    ASSUME Inv, Intended, NEW p, Procs = {p}, Start(p)
    PROVE  Intended'
  <1>1. /\ UNCHANGED <<server, touched>>
        /\ Discard(p) \/ UNCHANGED draft
    BY DEF Start, BeginEdit, BeginNote, Discard, BeginMutate, BeginPublish, DirectGuard, BeginRefresh,
           counters
  <1>2. OnlyIntendedChanges' /\ (UNCHANGED draft => DraftIntended')
    BY <1>1, ServerIntent, DraftStaysIntended DEF Intended, server
  <1>3. history' = history /\ touched' = touched
    BY <1>1 DEF server
  <1>4. CASE BeginEdit(p)
    <2> DEFINE m == [Blank EXCEPT !.op = "edit", !.seen = Latest]
    <2>1. m.seen = Latest
      BY DEF Blank
    <2>2. Goto(p, "editLoad", m) /\ cache' = Latest /\ UNCHANGED draft
      BY <1>4 DEF BeginEdit
    <2> HIDE DEF m
    <2>3. IntentOK("editLoad", m, history', touched', draft', cache')
      BY <2>1, <2>2 DEF IntentOK, Holding
    <2> QED BY <1>2, <2>2, <2>3, GotoIntent
  <1>5. CASE BeginNote(p)
    <2> DEFINE m == [Blank EXCEPT !.op = "note", !.rec = draft]
    <2>1. m.rec = draft
      BY DEF Blank
    <2>2. Goto(p, "noteSave", m) /\ UNCHANGED draft /\ draft # None
      BY <1>5 DEF BeginNote
    <2> HIDE DEF m
    <2>3. IntentOK("noteSave", m, history', touched', draft', cache')
      BY <1>3, <2>1, <2>2 DEF IntentOK, Holding, Intended, DraftIntended
    <2> QED BY <1>2, <2>2, <2>3, GotoIntent
  <1>6. CASE Discard(p)
    <2>1. DraftIntended' /\ pc[p] = "idle" /\ UNCHANGED <<pc, mem>>
      BY <1>6 DEF Discard, Begin, DraftIntended
    <2>2. IntentOK("idle", mem[p], history', touched', draft', cache')
      BY DEF IntentOK, Holding
    <2> QED BY <1>2, <2>1, <2>2 DEF Intended
  <1>7. ASSUME NEW op \in Ops, BeginMutate(p, op) PROVE Intended'
    <2>1. PICK seen : Goto(p, "editLoad", [Blank EXCEPT !.op = op, !.seen = seen])
      BY <1>7 DEF BeginMutate
    <2> DEFINE m == [Blank EXCEPT !.op = op, !.seen = seen]
    <2>2. m.op # "edit" /\ UNCHANGED draft
      BY <1>7 DEF BeginMutate, Blank
    <2> HIDE DEF m
    <2>3. IntentOK("editLoad", m, history', touched', draft', cache')
      BY <2>2 DEF IntentOK, Holding
    <2> QED BY <1>2, <2>1, <2>2, <2>3, GotoIntent DEF m
  <1>8. ASSUME NEW op \in Ops, BeginPublish(p, op) PROVE Intended'
    <2> DEFINE m == [Blank EXCEPT !.op = op, !.rec = draft, !.intent = draft.cfg]
    <2>1. m.rec = draft /\ m.intent = draft.cfg
      BY DEF Blank
    <2>2. Goto(p, "prepFetch", m) /\ UNCHANGED draft /\ draft # None
      BY <1>8 DEF BeginPublish
    <2> HIDE DEF m
    <2>3. IntentOK("prepFetch", m, history', touched', draft', cache')
      BY <1>3, <2>1, <2>2 DEF IntentOK, Holding, Intended, DraftIntended
    <2> QED BY <1>2, <2>2, <2>3, GotoIntent
  <1>9. CASE DirectGuard(p) \/ BeginRefresh(p)
    <2>0. PICK l \in {"directFetch", "refreshLoad"} : \E m : Goto(p, l, m)
      BY <1>9 DEF DirectGuard, BeginRefresh
    <2>1. PICK m : l \in {"directFetch", "refreshLoad"} /\ Goto(p, l, m)
      BY <2>0
    <2>2. IntentOK(l, m, history', touched', draft', cache') /\ UNCHANGED draft
      BY <1>9, <2>1 DEF IntentOK, Holding, DirectGuard, BeginRefresh
    <2> QED BY <1>2, <2>1, <2>2, GotoIntent
  <1> QED BY <1>4, <1>5, <1>6, <1>7, <1>8, <1>9 DEF Start

\* A mutation adds what it changes to what its draft, if there is one, changed.
LEMMA EditIntent ==
    ASSUME ItemsAreDifferences, Inv, Intended, NEW p, Procs = {p}, EditLoad(p)
    PROVE  Intended'
  <1> DEFINE current == IF draft = None THEN history[mem[p].seen] ELSE draft.cfg
             l == IF mem[p].op # "mutatePublish" THEN "editBase"
                  ELSE IF draft = None THEN "validate" ELSE "mutReload"
  <1>1. PICK final \in Edits(current) :
            /\ touched' = touched \cup Items(current, final)
            /\ Goto(p, l, [mem[p] EXCEPT !.rec = draft, !.intent = final, !.cand = final])
    BY DEF EditLoad
  <1>2. pc[p] = "editLoad" /\ UNCHANGED <<server, draft, cache>> /\ history' = history
    BY DEF EditLoad, server
  <1>3. /\ OnlyIntendedChanges /\ DraftIntended /\ mem[p] \in Memories
        /\ MemOK("editLoad", mem[p], history)
        /\ mem[p].op = "edit" => cache = mem[p].seen
    BY <1>2, IntentHere DEF IntentOK
  <1>4. OnlyIntendedChanges' /\ DraftIntended'
    BY <1>1, <1>2, <1>3, ServerIntent, DraftStaysIntended
  <1> DEFINE m == [mem[p] EXCEPT !.rec = draft, !.intent = final, !.cand = final]
  <1>5. m.op = mem[p].op /\ m.seen = mem[p].seen /\ m.intent = final /\ m.rec = draft
    BY <1>3 DEF Memories
  <1>6. draft = None => Asked(history, touched', mem[p].seen, final)
    BY <1>1 DEF Asked
  <1>7. ASSUME draft # None PROVE Asked(history, touched', draft.base, final)
    <2>1. draft.base \in Versions /\ draft.cfg \in Templates
      BY <1>7, RecordFields DEF Inv, FilesOK
    <2>2. history[draft.base] \in Templates /\ final \in Templates
      BY <1>1, <1>7, <2>1, VersionIsTemplate, EditsTyped DEF Inv
    <2>3. Items(history[draft.base], final)
            \subseteq Items(history[draft.base], draft.cfg) \cup Items(draft.cfg, final)
      BY <2>1, <2>2 DEF ItemsAreDifferences
    <2>4. Items(history[draft.base], draft.cfg) \subseteq touched
      BY <1>3, <1>7 DEF DraftIntended, Asked
    <2> QED BY <1>1, <1>7, <2>3, <2>4 DEF Asked
  <1>8. /\ l = "validate" => draft = None
        /\ l = "mutReload" => draft # None
        /\ l \in {"editBase", "validate", "mutReload"}
    OBVIOUS
  <1> HIDE DEF m, l
  <1>9. IntentOK(l, m, history', touched', draft', cache')
    BY <1>2, <1>3, <1>5, <1>6, <1>7, <1>8 DEF IntentOK, Holding
  <1> QED BY <1>1, <1>4, <1>9, GotoIntent DEF m

\* The saves, and what comes between.
LEMMA SaveIntent ==
    ASSUME Inv, Intended, NEW p, Procs = {p},
           EditBase(p) \/ EditSave(p) \/ NoteSave(p) \/ RefreshSave(p)
    PROVE  Intended'
  <1>1. UNCHANGED <<server, cache, touched>> /\ history' = history
    BY DEF EditBase, EditSave, NoteSave, RefreshSave, server, counters
  <1>2. /\ mem[p] \in Memories /\ MemOK(pc[p], mem[p], history)
        /\ IntentOK(pc[p], mem[p], history, touched, draft, cache)
        /\ OnlyIntendedChanges' /\ DraftIntended
    BY <1>1, IntentHere, ServerIntent
  <1>3. CASE EditBase(p)
    <2> DEFINE m == [mem[p] EXCEPT !.seen = BaseToSave(p)]
    <2>1. m.seen = BaseToSave(p) /\ m.intent = mem[p].intent
      BY <1>2 DEF Memories
    <2>2. BaseToSave(p) = IF draft = None THEN mem[p].seen ELSE draft.base
      BY <1>2, <1>3 DEF EditBase, BaseToSave, IntentOK
    <2>3. Goto(p, "editSave", m) /\ UNCHANGED draft /\ DraftIntended'
      BY <1>1, <1>2, <1>3, DraftStaysIntended DEF EditBase
    <2> HIDE DEF m
    <2>4. IntentOK("editSave", m, history', touched', draft', cache')
      BY <1>1, <1>2, <1>3, <2>1, <2>2 DEF EditBase, IntentOK, Holding
    <2> QED BY <1>2, <2>3, <2>4, GotoIntent
  <1>4. CASE EditSave(p) \/ RefreshSave(p)
    <2>1. PICK c : /\ c = IF pc[p] = "editSave" THEN mem[p].intent ELSE mem[p].cand
                   /\ draft' = Record(mem[p].seen, c, clock + 1)
      BY <1>4 DEF EditSave, RefreshSave, Save
    <2>2. draft'.base = mem[p].seen /\ draft'.cfg = c
      BY <2>1 DEF Record
    <2>3. Asked(history, touched, mem[p].seen, c)
      BY <1>2, <1>4, <2>1 DEF EditSave, RefreshSave, IntentOK
    <2>4. DraftIntended'
      BY <1>1, <2>2, <2>3 DEF DraftIntended
    <2> QED BY <1>2, <1>4, <2>4, FinishIntent DEF EditSave, RefreshSave
  <1>5. CASE NoteSave(p)
    <2>1. mem[p].rec \in Records /\ draft' = [mem[p].rec EXCEPT !.stamp = clock + 1]
      BY <1>2, <1>5 DEF NoteSave, Save, MemOK, Memories
    <2>2. draft'.base = mem[p].rec.base /\ draft'.cfg = mem[p].rec.cfg
      BY <2>1 DEF Records
    <2>3. DraftIntended'
      BY <1>1, <1>2, <1>5, <2>2 DEF DraftIntended, NoteSave, IntentOK
    <2>4. IntentOK("prepLoad", mem[p], history', touched', draft', cache')
      BY DEF IntentOK, Holding
    <2> QED BY <1>2, <1>5, <2>3, <2>4, FinishIntent, GotoIntent DEF NoteSave
  <1> QED BY <1>3, <1>4, <1>5

\* A publication is of the draft it loaded.
LEMMA PrepareIntent ==
    ASSUME Inv, Intended, NEW p, Procs = {p}, PrepareLoad(p) \/ PrepareFetch(p) \/ Confirm(p)
    PROVE  Intended'
  <1>1. UNCHANGED <<server, draft, touched>> /\ history' = history
    BY DEF PrepareLoad, PrepareFetch, Confirm, server, counters
  <1>2. /\ mem[p] \in Memories /\ MemOK(pc[p], mem[p], history)
        /\ IntentOK(pc[p], mem[p], history, touched, draft, cache)
        /\ OnlyIntendedChanges' /\ DraftIntended /\ DraftIntended'
    BY <1>1, IntentHere, ServerIntent, DraftStaysIntended
  <1>3. CASE Finish(p)
    BY <1>2, <1>3, FinishIntent
  <1>4. CASE PrepareLoad(p) /\ ~Finish(p)
    <2> DEFINE m == [mem[p] EXCEPT !.rec = draft, !.intent = draft.cfg]
    <2>1. draft # None /\ Goto(p, "prepFetch", m)
      BY <1>4 DEF PrepareLoad
    <2>2. m.rec = draft /\ m.intent = draft.cfg
      BY <1>2 DEF Memories
    <2> HIDE DEF m
    <2>3. IntentOK("prepFetch", m, history', touched', draft', cache')
      BY <1>1, <1>2, <2>1, <2>2 DEF IntentOK, Holding, DraftIntended
    <2> QED BY <1>2, <2>1, <2>3, GotoIntent
  <1>5. CASE PrepareFetch(p) /\ ~Finish(p)
    <2>0. PICK l \in {"confirm", "recheck"} : \E cand :
              Goto(p, l, [mem[p] EXCEPT !.seen = Latest, !.cand = cand])
      BY <1>5 DEF PrepareFetch
    <2>1. PICK cand : Goto(p, l, [mem[p] EXCEPT !.seen = Latest, !.cand = cand])
      BY <2>0
    <2> DEFINE m == [mem[p] EXCEPT !.seen = Latest, !.cand = cand]
    <2>2. m.rec = mem[p].rec /\ m.intent = mem[p].intent
      BY <1>2 DEF Memories
    <2> HIDE DEF m
    <2>3. IntentOK(l, m, history', touched', draft', cache')
      BY <1>1, <1>2, <1>5, <2>0, <2>1, <2>2 DEF PrepareFetch, IntentOK
    <2> QED BY <1>2, <2>0, <2>1, <2>3, GotoIntent DEF m
  <1>6. CASE Confirm(p) /\ ~Finish(p)
    <2> DEFINE m == [mem[p] EXCEPT !.shown = mem[p].cand]
               n == [m EXCEPT !.rec = draft]
    <2>1. m.rec = mem[p].rec /\ m.intent = mem[p].intent /\ n.rec = draft
      BY <1>2 DEF Memories
    <2>2. Goto(p, "recheck", m) \/ (draft # None /\ Goto(p, "noteSave", n))
      BY <1>6 DEF Confirm
    <2> HIDE DEF m, n
    <2>3. IntentOK("recheck", m, history', touched', draft', cache')
      BY <1>1, <1>2, <1>6, <2>1 DEF Confirm, IntentOK, Holding
    <2>4. draft # None => IntentOK("noteSave", n, history', touched', draft', cache')
      BY <1>1, <1>2, <2>1 DEF IntentOK, Holding, DraftIntended
    <2> QED BY <1>2, <2>2, <2>3, <2>4, GotoIntent
  <1> QED BY <1>3, <1>4, <1>5, <1>6

LEMMA RecheckIntent ==
    ASSUME Inv, Intended, NEW p, Procs = {p}, Recheck(p)
    PROVE  Intended'
  <1>1. UNCHANGED <<server, touched>> /\ history' = history
    BY DEF Recheck, server, counters
  <1>2. /\ mem[p] \in Memories /\ IntentOK("recheck", mem[p], history, touched, draft, cache)
        /\ OnlyIntendedChanges' /\ DraftIntended
    BY <1>1, IntentHere, ServerIntent DEF Recheck
  <1>3. DraftIntended'
    <2>1. CASE UNCHANGED draft
      BY <1>1, <1>2, <2>1, DraftStaysIntended
    <2>2. CASE draft \in Records /\ Save([draft EXCEPT !.stamp = clock + 1])
      <3>1. draft'.base = draft.base /\ draft'.cfg = draft.cfg
        BY <2>2 DEF Save, Records
      <3> QED BY <1>1, <1>2, <2>2, <3>1, NoneIsNoRecord DEF DraftIntended
    <2> QED BY <2>1, <2>2 DEF Recheck, Inv, FilesOK
  <1>4. CASE Finish(p)
    BY <1>2, <1>3, <1>4, FinishIntent
  <1>5. CASE ~Finish(p)
    <2>1. PICK l \in {"delete", "validate"} : Goto(p, l, [mem[p] EXCEPT !.checked = clock'])
      BY <1>5 DEF Recheck
    <2> DEFINE m == [mem[p] EXCEPT !.checked = clock']
    <2>2. m.rec = mem[p].rec /\ m.intent = mem[p].intent
      BY <1>2 DEF Memories
    <2> HIDE DEF m
    <2>3. IntentOK(l, m, history', touched', draft', cache')
      BY <1>1, <1>2, <2>1, <2>2 DEF IntentOK, Holding
    <2> QED BY <1>2, <1>3, <2>1, <2>3, GotoIntent DEF m
  <1> QED BY <1>4, <1>5

LEMMA MutateIntent ==
    ASSUME Inv, Intended, NEW p, Procs = {p}, MutateReload(p) \/ MutateFetch(p) \/ DirectFetch(p)
    PROVE  Intended'
  <1>1. UNCHANGED <<server, touched>> /\ history' = history
    BY DEF MutateReload, MutateFetch, DirectFetch, server, counters
  <1>2. /\ mem[p] \in Memories /\ MemOK(pc[p], mem[p], history)
        /\ IntentOK(pc[p], mem[p], history, touched, draft, cache)
        /\ OnlyIntendedChanges' /\ DraftIntended
    BY <1>1, IntentHere, ServerIntent
  <1>3. CASE MutateReload(p)
    <2>1. CASE draft = None
      BY <1>2, <1>3, <2>1, FinishIntent DEF MutateReload, DraftIntended
    <2>2. CASE draft # None
      <3>1. PICK r \in {draft, [draft EXCEPT !.stamp = clock + 1]} :
                draft' = r /\ Goto(p, "mutFetch", [mem[p] EXCEPT !.rec = r])
        BY <1>3, <2>2 DEF MutateReload
      <3>2. r.base = draft.base /\ r.cfg = draft.cfg
        BY <2>2, <3>1 DEF Inv, FilesOK, Records
      <3> DEFINE m == [mem[p] EXCEPT !.rec = r]
      <3>3. m.rec = r /\ m.intent = mem[p].intent
        BY <1>2 DEF Memories
      <3>4. DraftIntended'
        BY <1>1, <1>2, <2>2, <3>1, <3>2 DEF DraftIntended
      <3> HIDE DEF m
      <3>5. IntentOK("mutFetch", m, history', touched', draft', cache')
        BY <1>1, <1>2, <1>3, <2>2, <3>2, <3>3 DEF MutateReload, IntentOK, Holding
      <3> QED BY <1>2, <3>1, <3>4, <3>5, GotoIntent DEF m
    <2> QED BY <2>1, <2>2
  <1>4. CASE MutateFetch(p) \/ DirectFetch(p)
    <2>1. DraftIntended'
      BY <1>1, <1>2, <1>4, DraftStaysIntended DEF MutateFetch, DirectFetch
    <2>2. CASE Finish(p)
      BY <1>2, <2>1, <2>2, FinishIntent
    <2>3. CASE ~Finish(p)
      <3>0. PICK l \in {"delete", "validate"} : \E cand :
                Goto(p, l, [mem[p] EXCEPT !.seen = Latest, !.cand = cand])
        BY <1>4, <2>3 DEF MutateFetch, DirectFetch
      <3>1. PICK cand : Goto(p, l, [mem[p] EXCEPT !.seen = Latest, !.cand = cand])
        BY <3>0
      <3> DEFINE m == [mem[p] EXCEPT !.seen = Latest, !.cand = cand]
      <3>2. m.rec = mem[p].rec /\ m.intent = mem[p].intent
        BY <1>2 DEF Memories
      <3> HIDE DEF m
      <3>3. mem[p].rec # None => Asked(history, touched, mem[p].rec.base, mem[p].intent)
        BY <1>2, <1>4 DEF MutateFetch, DirectFetch, IntentOK, MemOK
      <3>4. IntentOK(l, m, history', touched', draft', cache')
        BY <1>1, <3>0, <3>1, <3>2, <3>3 DEF IntentOK, Holding
      <3> QED BY <1>2, <2>1, <3>0, <3>1, <3>4, GotoIntent DEF m
    <2> QED BY <2>2, <2>3
  <1> QED BY <1>3, <1>4

\* A refresh moves to a newer version what the draft changed, and no more.
LEMMA RefreshIntent ==
    ASSUME MergeAddsItsDraft, Inv, Intended, NEW p, Procs = {p}, RefreshLoad(p)
    PROVE  Intended'
  <1>1. UNCHANGED <<server, draft, touched>> /\ history' = history
    BY DEF RefreshLoad, server, counters
  <1>2. /\ mem[p] \in Memories /\ MemOK("refreshLoad", mem[p], history)
        /\ OnlyIntendedChanges' /\ DraftIntended /\ DraftIntended'
    BY <1>1, IntentHere, ServerIntent, DraftStaysIntended DEF RefreshLoad
  <1>3. CASE Finish(p)
    BY <1>2, <1>3, FinishIntent
  <1>4. CASE ~Finish(p)
    <2> DEFINE seen == history[mem[p].seen]
               merged == Merge(history[draft.base], draft.cfg, seen)
               l == IF merged = seen THEN "delete" ELSE "refreshSave"
               m == [mem[p] EXCEPT !.rec = draft, !.intent = draft.cfg, !.cand = merged]
    <2>1. /\ draft # None
          /\ ~MergeConflict(history[draft.base], draft.cfg, seen)
          /\ Goto(p, l, m)
      BY <1>4 DEF RefreshLoad
    <2>2. m.seen = mem[p].seen /\ m.cand = merged
      BY <1>2 DEF Memories
    <2>3. draft.base \in Versions /\ draft.cfg \in Templates /\ mem[p].seen \in Versions
      BY <1>2, <2>1, RecordFields DEF Inv, FilesOK, ServerOK, MemOK, Versions
    <2>4. history[draft.base] \in Templates /\ seen \in Templates
      BY <2>3, VersionIsTemplate DEF Inv
    <2>5. Items(seen, merged) \subseteq touched
      BY <1>2, <2>1, <2>3, <2>4 DEF MergeAddsItsDraft, DraftIntended, Asked
    <2>6. l \in {"delete", "refreshSave"}
      OBVIOUS
    <2>7. Asked(history, touched, mem[p].seen, merged)
      BY <2>5 DEF Asked
    <2> HIDE DEF m, l, merged, seen
    <2>8. IntentOK(l, m, history', touched', draft', cache')
      BY <1>1, <2>2, <2>6, <2>7 DEF IntentOK, Holding
    <2> QED BY <1>2, <2>1, <2>8, GotoIntent
  <1> QED BY <1>3, <1>4

\* The one step in which a draft reaches the server.
LEMMA AcceptIntent ==
    ASSUME MergeAddsItsDraft, Inv, Intended, NEW p, Procs = {p}, pc[p] = "put", Accept(p),
           UNCHANGED <<draft, touched>>
    PROVE  /\ OnlyIntendedChanges' /\ DraftIntended'
           /\ IntentOK("put", mem[p], history', touched', draft', cache')
  <1> DEFINE m == mem[p]
  <1>1. /\ m \in Memories /\ MemOK("put", m, history) /\ CandidateOK(m, history)
        /\ IntentOK("put", m, history, touched, draft, cache)
        /\ OnlyIntendedChanges /\ DraftIntended
    BY IntentHere DEF MemOK, Holding
  <1>2. /\ m.seen = Len(history) /\ Len(history) \in Nat /\ Len(history) >= 1
        /\ history' = Append(history, m.cand) /\ log' = Append(log, LogEntry(m))
        /\ m.cand \in Templates
        /\ history \in Seq(Templates) /\ log \in Seq(Writes) /\ Len(log) = Len(history)
    BY <1>1 DEF Accept, Latest, Inv, ServerOK, MemOK, Holding
  <1>3. /\ Len(history') = Len(history) + 1 /\ history'[Len(history) + 1] = m.cand
        /\ \A v \in 1..Len(history) : history'[v] = history[v] /\ log'[v] = log[v]
        /\ log'[Len(history) + 1] = LogEntry(m)
    BY <1>2, AppendKeeps
  <1>4. m.rec # None => m.rec.base \in 1..Len(history) /\ history'[m.rec.base] = history[m.rec.base]
    BY <1>1, <1>3 DEF MemOK
  <1>5. IntentOK("put", m, history', touched', draft', cache')
    BY <1>1, <1>4 DEF IntentOK, Holding, Asked
  <1>6. DraftIntended'
    BY <1>1, <1>3 DEF DraftIntended, Asked, Inv, FilesOK, Versions
  <1>7. LogEntry(m).kind = "draft" => Items(history[Len(history)], m.cand) \subseteq touched
    <2> SUFFICES ASSUME m.rec # None PROVE Items(history[Len(history)], m.cand) \subseteq touched
      BY DEF LogEntry, OtherWrite
    <2>1. history[m.rec.base] \in Templates /\ history[Len(history)] \in Templates
      BY <1>2, <1>4
    <2>2. /\ m.intent \in Templates
          /\ ~MergeConflict(history[m.rec.base], m.intent, history[Len(history)])
          /\ m.cand = Merge(history[m.rec.base], m.intent, history[Len(history)])
      BY <1>1, <1>2 DEF CandidateOK
    <2>3. Items(history[m.rec.base], m.intent) \subseteq touched
      BY <1>1 DEF IntentOK, Holding, Asked
    <2> HIDE DEF m
    <2> QED BY <2>1, <2>2, <2>3 DEF MergeAddsItsDraft
  <1> HIDE DEF m
  <1>8. ASSUME NEW v \in 1..(Len(history) + 1), log'[v].kind = "draft"
        PROVE  Items(history'[v - 1], history'[v]) \subseteq touched
    <2>1. CASE v = Len(history) + 1
      <3>1. history'[v - 1] = history[Len(history)] /\ history'[v] = m.cand /\ log'[v] = LogEntry(m)
        BY <1>2, <1>3, <2>1
      <3> QED BY <1>7, <1>8, <3>1
    <2>2. CASE v \in 1..Len(history)
      <3>1. log[v].kind = "draft" /\ history'[v] = history[v]
        BY <1>3, <1>8, <2>2
      <3>2. v - 1 \in 1..Len(history)
        BY <1>2, <2>2, <3>1 DEF Inv, ServerOK, PublishedIsMerge, Versions
      <3> QED BY <1>1, <1>3, <2>2, <3>1, <3>2 DEF OnlyIntendedChanges, Versions
    <2>3. v = Len(history) + 1 \/ v \in 1..Len(history)
      BY <1>2
    <2> QED BY <2>1, <2>2, <2>3
  <1>9. OnlyIntendedChanges'
    BY <1>3, <1>8 DEF OnlyIntendedChanges, Versions
  <1> QED BY <1>5, <1>6, <1>9 DEF m

LEMMA SendIntent ==
    ASSUME MergeAddsItsDraft, Inv, Intended, NEW p, Procs = {p},
           Validate(p) \/ Put(p) \/ PutAnswerLost(p) \/ PostPublish(p)
    PROVE  Intended'
  <1>1. UNCHANGED <<draft, touched>>
    BY DEF Validate, Put, PutAnswerLost, PostPublish, counters
  <1>2. /\ IntentOK(pc[p], mem[p], history, touched, draft, cache)
        /\ OnlyIntendedChanges /\ DraftIntended
    BY IntentHere
  <1>3. UNCHANGED server => OnlyIntendedChanges' /\ DraftIntended' /\ history' = history
    BY <1>1, <1>2, ServerIntent, DraftStaysIntended DEF server
  <1>4. CASE Validate(p)
    <2>1. IntentOK("put", mem[p], history', touched', draft', cache')
      BY <1>1, <1>2, <1>3, <1>4 DEF Validate, IntentOK, Holding
    <2> QED BY <1>3, <1>4, <2>1, FinishIntent, GotoIntent DEF Validate
  <1>5. CASE Put(p)
    <2>1. CASE Accept(p)
      <3>1. IntentOK("accepted", mem[p], history', touched', draft', cache')
        BY DEF IntentOK, Holding
      <3>2. OnlyIntendedChanges' /\ DraftIntended'
        BY <1>1, <1>5, <2>1, AcceptIntent DEF Put
      <3> QED BY <1>5, <2>1, <3>1, <3>2, GotoIntent, FinishIntent DEF Put
    <2>2. CASE ~Accept(p)
      BY <1>3, <1>5, <2>2, FinishIntent DEF Put
    <2> QED BY <2>1, <2>2
  <1>6. CASE PutAnswerLost(p)
    <2>1. /\ OnlyIntendedChanges' /\ DraftIntended'
          /\ IntentOK("put", mem[p], history', touched', draft', cache')
      BY <1>1, <1>6, AcceptIntent DEF PutAnswerLost
    <2> QED BY <1>6, <2>1 DEF PutAnswerLost, Intended
  <1>7. CASE PostPublish(p)
    <2>1. IntentOK("delete", mem[p], history', touched', draft', cache')
      BY DEF IntentOK, Holding
    <2> QED BY <1>3, <1>7, <2>1, FinishIntent, GotoIntent DEF PostPublish
  <1> QED BY <1>4, <1>5, <1>6, <1>7

\* An operation that ends, and other users.
LEMMA EndIntent ==
    ASSUME Inv, Intended, NEW p, Procs = {p},
           Cancel(p) \/ PostPublishFails(p) \/ DeleteDraft(p) \/ DeleteDraftFails(p) \/ Crash(p)
    PROVE  Intended'
  <1>1. UNCHANGED <<server, touched>> /\ Finish(p) /\ (draft' = None \/ UNCHANGED draft)
    BY DEF Cancel, PostPublishFails, DeleteDraft, DeleteDraftFails, Crash, counters
  <1>2. OnlyIntendedChanges' /\ DraftIntended'
    BY <1>1, ServerIntent, DraftStaysIntended DEF Intended, DraftIntended, server
  <1> QED BY <1>1, <1>2, FinishIntent

LEMMA EnvironmentIntent ==
    ASSUME Inv, Intended, NEW p, Procs = {p}, ConsolePublish
    PROVE  Intended'
  <1>1. PICK t \in Templates : history' = Append(history, t) /\ log' = Append(log, OtherWrite)
    BY LatestIsVersion, VersionIsTemplate, EditsTyped DEF ConsolePublish, Inv
  <1>2. /\ Len(history') = Len(history) + 1 /\ Len(history) \in Nat
        /\ \A v \in 1..Len(history) : history'[v] = history[v] /\ log'[v] = log[v]
        /\ log'[Len(history) + 1] = OtherWrite
    BY <1>1, AppendKeeps DEF Inv, ServerOK
  <1>3. UNCHANGED <<cache, draft, pc, mem, touched>>
    BY DEF ConsolePublish
  <1>4. /\ mem[p] \in Memories /\ MemOK(pc[p], mem[p], history)
        /\ IntentOK(pc[p], mem[p], history, touched, draft, cache)
        /\ OnlyIntendedChanges /\ DraftIntended
    BY IntentHere
  <1>5. DraftIntended'
    BY <1>2, <1>3, <1>4 DEF DraftIntended, Asked, Inv, FilesOK, Versions
  <1>6. ASSUME NEW v \in Versions', log'[v].kind = "draft"
        PROVE  Items(history'[v - 1], history'[v]) \subseteq touched
    <2>1. v \in 1..Len(history) /\ log[v].kind = "draft"
      BY <1>2, <1>6 DEF Versions, OtherWrite
    <2>2. v - 1 \in 1..Len(history)
      BY <1>2, <2>1 DEF Inv, ServerOK, PublishedIsMerge, Versions
    <2> QED BY <1>2, <1>4, <2>1, <2>2 DEF OnlyIntendedChanges, Versions
  <1>7. OnlyIntendedChanges'
    BY <1>3, <1>6 DEF OnlyIntendedChanges
  <1>8. \A u : \A b \in 1..Len(history) : Asked(history, touched, b, u) => Asked(history', touched', b, u)
    BY <1>2, <1>3 DEF Asked
  <1>9. IntentOK(pc[p], mem[p], history', touched', draft', cache')
    <2> DEFINE m == mem[p]
               l == pc[p]
    <2>1. /\ m.seen \in 0..Len(history)
          /\ l \in {"editBase", "editSave", "refreshSave"} => m.seen \in 1..Len(history)
      BY <1>2, <1>4 DEF MemOK
    <2>2. /\ m.rec # None => m.rec.base \in 1..Len(history)
          /\ l \in {"noteSave", "prepFetch", "mutFetch"} => m.rec # None
      BY <1>4 DEF MemOK
    <2>3. draft # None => draft.base \in 1..Len(history)
      BY DEF Inv, FilesOK, Versions
    <2> HIDE DEF m, l
    <2>4. IntentOK(l, m, history', touched', draft', cache')
      BY <1>3, <1>4, <1>8, <2>1, <2>2, <2>3 DEF IntentOK, m, l
    <2> QED BY <2>4 DEF m, l
  <1> QED BY <1>3, <1>5, <1>7, <1>9 DEF Intended

LEMMA IntendedNext ==
    ASSUME ItemsAreDifferences, MergeAddsItsDraft, Inv, Intended, NEW p, Procs = {p}, [Next]_vars
    PROVE  Intended'
  <1>1. CASE Continue(p)
    BY <1>1, EditIntent, SaveIntent, PrepareIntent, RecheckIntent, MutateIntent, SendIntent,
       RefreshIntent, EndIntent DEF Continue
  <1>2. CASE Disturb(p)
    BY <1>2, EndIntent, SendIntent DEF Disturb
  <1>3. CASE UNCHANGED vars
    BY <1>3 DEF vars, Intended, OnlyIntendedChanges, DraftIntended, Versions
  <1> QED BY <1>1, <1>2, <1>3, StartIntent, EnvironmentIntent DEF Next

\* With one process at a time, what a draft publication changes on the server is
\* something the user edited: a rebase, a repeated update or a publication after a
\* crash takes back nothing that other users wrote meanwhile (SaveWithBase keeps
\* the base of a draft, RefreshDraftAware moves it).
THEOREM NothingUnintended ==
    ASSUME NEW self, Procs = {self}, ItemsAreDifferences, MergeAddsItsDraft
    PROVE  Spec => []OnlyIntendedChanges
  <1>1. Init => Intended
    <2>1. ASSUME NEW h, NEW T, NEW d, NEW c PROVE IntentOK("idle", Blank, h, T, d, c)
      BY DEF IntentOK, Holding
    <2>2. Init => OnlyIntendedChanges /\ DraftIntended
      BY DEF Init, OnlyIntendedChanges, DraftIntended, OtherWrite, Versions
    <2> QED BY <2>1, <2>2 DEF Init, Intended
  <1>2. Inv /\ Intended /\ [Next]_vars => Intended'
    BY IntendedNext
  <1>3. Intended => OnlyIntendedChanges
    BY DEF Intended
  <1> QED BY <1>1, <1>2, <1>3, InvHolds, PTL DEF Spec
=============================================================================
