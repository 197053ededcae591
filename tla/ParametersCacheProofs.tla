------------------------- MODULE ParametersCacheProofs -------------------------
(***************************************************************************)
(* ParametersCache for every set of processes, every lifetime and every    *)
(* bound: a cache that looks fresh was the latest version, a cache does    *)
(* not disappear while its pointer is replaced, and the pointer does not   *)
(* go back.                                                                *)
(***************************************************************************)
EXTENDS ParametersCache, WellFoundedInduction, TLAPS

-----------------------------------------------------------------------------
(***************************************************************************)
(* The inductive invariant.  n stands for the latest version, lap for the  *)
(* lapses, sn for the snapshots, ptr for the pointer, tn for torn.         *)
(***************************************************************************)

WorldOK(n, lap, sn, ptr, tn) ==
    /\ n \in Versions /\ tn \in BOOLEAN
    /\ lap \in [Versions -> 0..(TTL + 1)]
    /\ \A v \in Versions : v >= n => lap[v] = 0
    /\ sn \in [Numbered -> Ages \cup {None}]
    /\ \A v \in Numbered : sn[v] # None => v <= n
    /\ \/ ptr = None
       \/ \E v \in 1..n : ptr = Link(v)
       \/ \E v \in 0..n : \E age \in Ages : ptr = File(v, age)
    /\ ~tn => \A v \in Numbered : ptr = Link(v) =>
                 sn[v] # None /\ (sn[v] < TTL => lap[v] <= sn[v])

Memories(n) ==
    [op : OpNames \cup {"none"}, version : 0..n \cup {None}, start : 0..n,
     legacy : SUBSET [version : 0..n, age : Ages], listed : SUBSET Numbered]

Quiet == {"idle", "newest"}
Replacing == {"unlink", "link", "copy"}
Saving == Replacing \cup {"write"}
Reading == {"historyFetch", "historyWrite"}

\* What a process at label l with memory m knows: the version it saves is, for
\* the clock, still the latest, and its snapshot is there once it is written.
ProcOK(l, m, n, lap, sn, ptr, tn) ==
    /\ m \in Memories(n)
    /\ l \in Saving \cup Reading => m.version \in 1..n
    /\ l = "fetch" => m.version \in 0..n
    /\ l \in Saving \cup {"fetch"} => lap[m.version] = 0 /\ m.version >= m.start
    /\ l \in Replacing /\ ~tn => sn[m.version] # None
    /\ l \in Reading /\ ~tn /\ ptr = Link(m.version) => lap[m.version] = 0
    /\ l = "unlinkAll" => m.op = "delete"

ProcsOK ==
    /\ pc \in [Procs -> Labels]
    /\ mem = [p \in Procs |-> mem[p]]
    /\ \A p \in Procs : ProcOK(pc[p], mem[p], latest, lapse, snaps, pointer, torn)

Inv == WorldOK(latest, lapse, snaps, pointer, torn) /\ ProcsOK

-----------------------------------------------------------------------------
(***************************************************************************)
(* Loading.                                                                *)
(***************************************************************************)

LEMMA Ranges ==
    /\ Versions \subseteq Nat /\ Numbered \subseteq Versions /\ Ages \subseteq Nat
    /\ None \notin Ages /\ None \notin Versions /\ 0 \in Ages /\ TTL \in Nat /\ MaxVersion \in Nat
    /\ \A n \in Versions : 0..n \subseteq Versions /\ 1..n \subseteq Numbered /\ n \in 0..n /\ 0 \in 0..n
  BY TTLPositive, BoundsAreNat, NoneIsNoData DEF Versions, Numbered, Ages

LEMMA Pointers ==
    ASSUME NEW v \in Versions, NEW age \in Ages
    PROVE  /\ Link(v) # None /\ Link(v).kind = "link" /\ Link(v).version = v
           /\ File(v, age) # None /\ File(v, age).kind = "file" /\ File(v, age).version = v /\ File(v, age).age = age
           /\ \A u \in Versions : Link(u) # File(v, age) /\ (Link(u) = Link(v) => u = v)
  <1>1. v \in Nat /\ age \in Nat
    BY Ranges
  <1>2. Link(v) \in [kind : {"link", "file"}, version : Nat, age : Nat]
    BY <1>1 DEF Link
  <1>3. File(v, age) \in [kind : {"link", "file"}, version : Nat, age : Nat]
    BY <1>1 DEF File
  <1>4. Link(v).kind = "link" /\ Link(v).version = v /\ File(v, age).kind = "file"
        /\ File(v, age).version = v /\ File(v, age).age = age
    BY DEF Link, File
  <1>5. \A u \in Versions : Link(u).kind = "link" /\ Link(u).version = u
    BY DEF Link
  <1> QED BY <1>2, <1>3, <1>4, <1>5, NoneIsNoData

LEMMA Least ==
    ASSUME NEW T, T \subseteq Nat, T # {}
    PROVE  \E x \in T : \A y \in T : x <= y
  <1> DEFINE R == OpToRel(<, Nat)
  <1>1. IsWellFoundedOn(R, Nat)
    BY NatLessThanWellFounded
  <1> HIDE DEF R
  <1>2. PICK x \in T : \A y \in T : ~(<<y, x>> \in R)
    BY <1>1, WFMin
  <1>3. \A y \in T : ~(y < x)
    BY <1>2 DEF R, OpToRel
  <1> QED BY <1>3

\* The newest snapshot is one of them.
LEMMA MaxStored == Stored # {} => Max(Stored) \in Stored
  <1> SUFFICES ASSUME Stored # {} PROVE Max(Stored) \in Stored
    OBVIOUS
  <1> DEFINE T == {MaxVersion - v : v \in Stored}
  <1>1. Stored \subseteq 1..MaxVersion /\ MaxVersion \in Nat
    BY Ranges DEF Stored, Numbered
  <1>2. T \subseteq Nat /\ T # {}
    <2>1. \A v \in Stored : MaxVersion - v \in Nat
      BY <1>1
    <2>2. PICK v \in Stored : TRUE
      OBVIOUS
    <2>3. MaxVersion - v \in T
      BY <2>2
    <2> QED BY <2>1, <2>3
  <1>3. PICK x \in T : \A y \in T : x <= y
    BY <1>2, Least
  <1>4. PICK v \in Stored : x = MaxVersion - v
    BY <1>3
  <1>5. \A u \in Stored : u <= v
    <2> TAKE u \in Stored
    <2>1. MaxVersion - v <= MaxVersion - u
      BY <1>3, <1>4
    <2> QED BY <1>1, <2>1
  <1>6. \E s \in Stored : \A u \in Stored : s >= u
    BY <1>1, <1>5
  <1> QED BY <1>6 DEF Max

\* What is loaded carries versions of the server.
LEMMA LoadedTyped ==
    ASSUME WorldOK(latest, lapse, snaps, pointer, torn)
    PROVE  /\ Newest \subseteq [version : 0..latest, age : Ages]
           /\ Legacy \subseteq [version : 0..latest, age : Ages]
           /\ Loaded \subseteq [version : 0..latest, age : Ages]
  <1>1. latest \in Nat /\ latest \in Versions /\ snaps \in [Numbered -> Ages \cup {None}]
        /\ \A v \in Numbered : snaps[v] # None => v <= latest
    BY Ranges DEF WorldOK
  <1>2. \A v \in Stored : v \in 0..latest /\ snaps[v] \in Ages
    BY <1>1, Ranges DEF Stored
  <1>3. \A T \in SUBSET Stored : Cached(T, snaps) \subseteq [version : 0..latest, age : Ages]
    BY <1>2 DEF Cached
  <1>4. Newest \subseteq [version : 0..latest, age : Ages]
    BY <1>3, MaxStored DEF Newest
  <1>5. Legacy \subseteq [version : 0..latest, age : Ages]
    <2>1. CASE \E v \in 0..latest : \E age \in Ages : pointer = File(v, age)
      BY <2>1 DEF Legacy, File
    <2>2. CASE pointer = None
      BY <2>2 DEF Legacy
    <2>3. CASE \E v \in 1..latest : pointer = Link(v)
      BY <2>3 DEF Legacy, Link
    <2> QED BY <2>1, <2>2, <2>3 DEF WorldOK
  <1>6. Followed => pointer.version \in Stored
    <2> SUFFICES ASSUME Followed PROVE pointer.version \in Stored
      OBVIOUS
    <2>1. pointer # None /\ pointer.kind = "link" /\ snaps[pointer.version] # None
      BY DEF Followed
    <2>2. ~(\E v \in 0..latest : \E age \in Ages : pointer = File(v, age))
      BY <2>1 DEF File
    <2>3. PICK v \in 1..latest : pointer = Link(v)
      BY <2>1, <2>2 DEF WorldOK
    <2>4. pointer.version = v /\ v \in Numbered
      BY <1>1, <2>3, Ranges DEF Link
    <2> QED BY <2>1, <2>4 DEF Stored
  <1>7. Followed => Cached({pointer.version}, snaps) \subseteq [version : 0..latest, age : Ages]
    BY <1>3, <1>6
  <1> QED BY <1>4, <1>5, <1>7 DEF Loaded

LEMMA VersionInTyped ==
    ASSUME NEW n, NEW found \in SUBSET [version : 0..n, age : Ages]
    PROVE  /\ VersionIn(found) \in 0..n \cup {None}
           /\ found # {} => VersionIn(found) \in 0..n
  BY DEF VersionIn

LEMMA LoadedVersionTyped ==
    ASSUME WorldOK(latest, lapse, snaps, pointer, torn)
    PROVE  LoadedVersion \in 0..latest
  <1>1. 0 \in 0..latest
    BY Ranges DEF WorldOK
  <1> QED BY <1>1, LoadedTyped, VersionInTyped DEF LoadedVersion

-----------------------------------------------------------------------------
(***************************************************************************)
(* The frame of a step.                                                    *)
(***************************************************************************)

\* What a process knows stays true under these changes.
Change(n, lap, sn, ptr, tn, n2, lap2, sn2, ptr2, tn2) ==
    /\ n \in Versions /\ n2 \in Versions /\ n <= n2 /\ lap2 = lap /\ (tn => tn2)
    /\ \A v \in Numbered : sn[v] # None => sn2[v] # None \/ tn2
    /\ \A v \in Numbered : ptr2 = Link(v) => ptr = Link(v) \/ lap[v] = 0 \/ tn2

LEMMA ProcChange ==
    ASSUME NEW n, NEW lap, NEW sn, NEW ptr, NEW tn \in BOOLEAN,
           NEW n2, NEW lap2, NEW sn2, NEW ptr2, NEW tn2 \in BOOLEAN,
           Change(n, lap, sn, ptr, tn, n2, lap2, sn2, ptr2, tn2),
           NEW l, NEW m, ProcOK(l, m, n, lap, sn, ptr, tn)
    PROVE  ProcOK(l, m, n2, lap2, sn2, ptr2, tn2)
  <1>1. 0..n \subseteq 0..n2 /\ 1..n \subseteq 1..n2 /\ 1..n \subseteq Numbered
    BY Ranges DEF Change
  <1>2. m \in Memories(n2)
    <2>1. m \in Memories(n)
      BY DEF ProcOK
    <2> QED BY <1>1, <2>1 DEF Memories
  <1>3. l \in Saving \cup Reading => m.version \in 1..n2 /\ m.version \in Numbered
    BY <1>1 DEF ProcOK
  <1>4. l = "fetch" => m.version \in 0..n2
    BY <1>1 DEF ProcOK
  <1>5. l \in Saving \cup {"fetch"} => lap2[m.version] = 0 /\ m.version >= m.start
    BY DEF ProcOK, Change
  <1>6. l \in Replacing /\ ~tn2 => sn2[m.version] # None
    BY <1>3 DEF ProcOK, Change, Saving
  <1>7. l \in Reading /\ ~tn2 /\ ptr2 = Link(m.version) => lap2[m.version] = 0
    BY <1>3 DEF ProcOK, Change
  <1> QED BY <1>2, <1>3, <1>4, <1>5, <1>6, <1>7 DEF ProcOK

LEMMA StepKeeps ==
    ASSUME Inv, NEW p \in Procs, NEW l \in Labels, NEW m, Goto(p, l, m),
           WorldOK(latest', lapse', snaps', pointer', torn'),
           Change(latest, lapse, snaps, pointer, torn, latest', lapse', snaps', pointer', torn'),
           ProcOK(l, m, latest', lapse', snaps', pointer', torn')
    PROVE  Inv'
  <1>1. pc' \in [Procs -> Labels] /\ pc'[p] = l /\ \A q \in Procs \ {p} : pc'[q] = pc[q]
    BY DEF Inv, ProcsOK, Goto
  <1>2. mem' = [mem EXCEPT ![p] = m] /\ mem = [q \in Procs |-> mem[q]]
    BY DEF Inv, ProcsOK, Goto
  <1>3. mem' = [q \in Procs |-> mem'[q]] /\ mem'[p] = m /\ \A q \in Procs \ {p} : mem'[q] = mem[q]
    BY <1>2
  <1>4. torn \in BOOLEAN /\ torn' \in BOOLEAN
    BY DEF Inv, WorldOK
  <1>5. ASSUME NEW q \in Procs \ {p}
        PROVE  ProcOK(pc'[q], mem'[q], latest', lapse', snaps', pointer', torn')
    <2>1. ProcOK(pc[q], mem[q], latest, lapse, snaps, pointer, torn)
      BY DEF Inv, ProcsOK
    <2> QED BY <1>1, <1>3, <1>4, <2>1, ProcChange
  <1>6. ProcsOK'
    BY <1>1, <1>3, <1>5 DEF ProcsOK
  <1> QED BY <1>6 DEF Inv

LEMMA Same ==
    ASSUME Inv
    PROVE  /\ WorldOK(latest, lapse, snaps, pointer, torn)
           /\ Change(latest, lapse, snaps, pointer, torn, latest, lapse, snaps, pointer, torn)
  BY Ranges DEF Inv, WorldOK, Change

\* A step of one process that leaves the world alone.
LEMMA QuietKeeps ==
    ASSUME Inv, NEW p \in Procs, NEW l \in Labels, NEW m, Goto(p, l, m),
           UNCHANGED <<remote, disk, torn>>,
           ProcOK(l, m, latest, lapse, snaps, pointer, torn)
    PROVE  Inv'
  <1>1. latest' = latest /\ lapse' = lapse /\ snaps' = snaps /\ pointer' = pointer /\ torn' = torn
    BY DEF remote, disk
  <1> QED BY <1>1, Same, StepKeeps

LEMMA BlankTyped ==
    ASSUME NEW n \in Versions
    PROVE  Blank \in Memories(n)
  <1>1. 0 \in 0..n
    BY Ranges
  <1> QED BY <1>1 DEF Blank, Memories

LEMMA IdleOK ==
    ASSUME NEW n \in Versions, NEW lap, NEW sn, NEW ptr, NEW tn
    PROVE  ProcOK("idle", Blank, n, lap, sn, ptr, tn) /\ "idle" \in Labels
  BY BlankTyped DEF ProcOK, Saving, Reading, Replacing, Labels

\* A process that ends its operation.
LEMMA FinishKeeps ==
    ASSUME Inv, NEW p \in Procs, Finish(p),
           WorldOK(latest', lapse', snaps', pointer', torn'),
           Change(latest, lapse, snaps, pointer, torn, latest', lapse', snaps', pointer', torn')
    PROVE  Inv'
  <1>1. latest' \in Versions
    BY DEF WorldOK
  <1> QED BY <1>1, IdleOK, StepKeeps DEF Finish

LEMMA QuietFinish ==
    ASSUME Inv, NEW p \in Procs, Finish(p), UNCHANGED <<remote, disk, torn>>
    PROVE  Inv'
  <1>1. latest' = latest /\ lapse' = lapse /\ snaps' = snaps /\ pointer' = pointer /\ torn' = torn
    BY DEF remote, disk
  <1> QED BY <1>1, Same, FinishKeeps

LEMMA Known ==
    ASSUME Inv, NEW p \in Procs
    PROVE  /\ ProcOK(pc[p], mem[p], latest, lapse, snaps, pointer, torn)
           /\ mem[p] \in Memories(latest)
           /\ latest \in Versions /\ latest \in Nat /\ lapse[latest] = 0
           /\ torn \in BOOLEAN
  <1>1. ProcOK(pc[p], mem[p], latest, lapse, snaps, pointer, torn)
    BY DEF Inv, ProcsOK
  <1>2. latest \in Versions /\ latest \in Nat /\ lapse[latest] = 0 /\ torn \in BOOLEAN
    BY Ranges DEF Inv, WorldOK
  <1> QED BY <1>1, <1>2 DEF ProcOK

\* A memory with another version in hand.
LEMMA MemoryVersion ==
    ASSUME NEW n, NEW m \in Memories(n), NEW v \in 0..n
    PROVE  /\ [m EXCEPT !.version = v] \in Memories(n)
           /\ [m EXCEPT !.version = v].version = v /\ [m EXCEPT !.version = v].start = m.start
  BY DEF Memories

-----------------------------------------------------------------------------
(***************************************************************************)
(* Reading.                                                                *)
(***************************************************************************)

\* A memory of an operation that begins.
LEMMA BeginMemory ==
    ASSUME Inv, NEW op \in OpNames \cup {"none"}
    PROVE  /\ \A v \in 0..latest \cup {None} :
                  [Blank EXCEPT !.op = op, !.start = LoadedVersion, !.version = v] \in Memories(latest)
           /\ [Blank EXCEPT !.op = op, !.start = LoadedVersion, !.legacy = Legacy] \in Memories(latest)
           /\ [Blank EXCEPT !.op = op, !.listed = Stored] \in Memories(latest)
  <1>1. latest \in Versions /\ WorldOK(latest, lapse, snaps, pointer, torn)
    BY DEF Inv, WorldOK
  <1>2. LoadedVersion \in 0..latest /\ Legacy \subseteq [version : 0..latest, age : Ages] /\ 0 \in 0..latest
    BY <1>1, LoadedVersionTyped, LoadedTyped, Ranges
  <1>3. Stored \subseteq Numbered
    BY DEF Stored
  <1>4. \A v \in 0..latest \cup {None} :
            [Blank EXCEPT !.op = op, !.start = LoadedVersion, !.version = v] \in Memories(latest)
    BY <1>2 DEF Blank, Memories
  <1>5. [Blank EXCEPT !.op = op, !.start = LoadedVersion, !.legacy = Legacy] \in Memories(latest)
    BY <1>2 DEF Blank, Memories
  <1>6. [Blank EXCEPT !.op = op, !.listed = Stored] \in Memories(latest)
    BY <1>2, <1>3 DEF Blank, Memories
  <1> QED BY <1>4, <1>5, <1>6

LEMMA DecideKeeps ==
    ASSUME Inv, NEW p \in Procs, NEW op \in OpNames \cup {"none"}, NEW found \in SUBSET [version : 0..latest, age : Ages],
           Decide(p, op, found), UNCHANGED <<remote, disk, torn>>
    PROVE  Inv'
  <1> DEFINE m == [Blank EXCEPT !.op = op, !.start = LoadedVersion, !.version = VersionIn(found)]
  <1>1. Finish(p) \/ Goto(p, "list", m)
    BY DEF Decide
  <1>2. m \in Memories(latest)
    BY VersionInTyped, BeginMemory
  <1>3. ProcOK("list", m, latest, lapse, snaps, pointer, torn) /\ "list" \in Labels
    BY <1>2 DEF ProcOK, Saving, Reading, Replacing, Labels
  <1> QED BY <1>1, <1>3, QuietFinish, QuietKeeps

LEMMA BeginReadKeeps == ASSUME Inv, NEW p \in Procs, NEW op \in Ops, BeginRead(p, op) PROVE Inv'
  <1> DEFINE m == [Blank EXCEPT !.op = op, !.start = LoadedVersion, !.legacy = Legacy]
  <1>1. op \in OpNames /\ UNCHANGED <<remote, disk, torn>>
    BY OpsKnown DEF BeginRead
  <1>2. CASE Decide(p, op, Loaded)
    <2>1. Loaded \in SUBSET [version : 0..latest, age : Ages]
      BY LoadedTyped DEF Inv
    <2> QED BY <1>1, <1>2, <2>1, DecideKeeps
  <1>3. CASE Goto(p, "newest", m)
    <2>1. ProcOK("newest", m, latest, lapse, snaps, pointer, torn) /\ "newest" \in Labels
      BY <1>1, BeginMemory DEF ProcOK, Saving, Reading, Replacing, Labels
    <2> QED BY <1>1, <1>3, <2>1, QuietKeeps
  <1> QED BY <1>2, <1>3 DEF BeginRead

LEMMA ReadNewestKeeps ==
    ASSUME Inv, NEW p \in Procs, ReadNewest(p)
    PROVE  Inv'
  <1>1. mem[p].legacy \in SUBSET [version : 0..latest, age : Ages] /\ mem[p].op \in OpNames \cup {"none"}
    BY Known DEF Memories
  <1>2. Newest \in SUBSET [version : 0..latest, age : Ages]
    BY LoadedTyped DEF Inv
  <1>3. UNCHANGED <<remote, disk, torn>>
    BY DEF ReadNewest
  <1> QED BY <1>1, <1>2, <1>3, DecideKeeps DEF ReadNewest

LEMMA ListLatestKeeps == ASSUME Inv, NEW p \in Procs, ListLatest(p) PROVE Inv'
  <1> DEFINE o == mem[p]
             m == [o EXCEPT !.version = latest]
             l == IF latest \in Stored \cup {o.version} THEN SaveLabel(latest) ELSE "fetch"
  <1>1. o \in Memories(latest) /\ latest \in Versions /\ latest \in Nat /\ lapse[latest] = 0
    BY Known
  <1>2. latest \in 0..latest /\ (latest # 0 => latest \in 1..latest)
    BY <1>1
  <1>3. m \in Memories(latest) /\ m.version = latest /\ m.start = o.start
    BY <1>1, <1>2, MemoryVersion
  <1>4. o.start \in 0..latest
    BY <1>1 DEF Memories
  <1>5. l \in {"fetch", "write", "unlinkLegacy"} /\ (l = "write" => latest # 0)
    BY DEF SaveLabel
  <1> HIDE DEF m, l, o
  <1>6. ProcOK(l, m, latest, lapse, snaps, pointer, torn) /\ l \in Labels
    <2>1. m.version >= m.start
      BY <1>1, <1>3, <1>4
    <2> QED BY <1>1, <1>2, <1>3, <1>5, <2>1 DEF ProcOK, Saving, Reading, Replacing, Labels
  <1>7. Goto(p, l, m) /\ UNCHANGED <<remote, disk, torn>>
    BY DEF ListLatest, l, m, o
  <1> QED BY <1>6, <1>7, QuietKeeps

LEMMA FetchKeeps == ASSUME Inv, NEW p \in Procs, Fetch(p) PROVE Inv'
  <1> DEFINE o == mem[p]
             v == IF o.version = 0 THEN latest ELSE o.version
             m == [o EXCEPT !.version = v]
             l == SaveLabel(v)
  <1>1. o \in Memories(latest) /\ latest \in Versions /\ latest \in Nat /\ lapse[latest] = 0
        /\ ProcOK("fetch", o, latest, lapse, snaps, pointer, torn)
    BY Known DEF Fetch
  <1>2. o.version \in 0..latest /\ lapse[o.version] = 0 /\ o.version >= o.start /\ o.start \in 0..latest
    BY <1>1 DEF ProcOK, Saving, Memories
  <1>3. v \in 0..latest /\ lapse[v] = 0 /\ v >= o.start /\ (v # 0 => v \in 1..latest)
    BY <1>1, <1>2
  <1> HIDE DEF v
  <1>4. m \in Memories(latest) /\ m.version = v /\ m.start = o.start
    BY <1>1, <1>3, MemoryVersion
  <1>5. l \in {"write", "unlinkLegacy"} /\ (l = "write" => v # 0)
    BY DEF SaveLabel
  <1> HIDE DEF m, l
  <1>6. ProcOK(l, m, latest, lapse, snaps, pointer, torn) /\ l \in Labels
    BY <1>3, <1>4, <1>5 DEF ProcOK, Saving, Reading, Replacing, Labels
  <1>7. Goto(p, l, m) /\ UNCHANGED <<remote, disk, torn>>
    BY DEF Fetch, l, m, v
  <1> QED BY <1>6, <1>7, QuietKeeps

\* A new latest version.
LEMMA NewVersion ==
    ASSUME Inv, latest < MaxVersion, latest' = latest + 1, UNCHANGED <<lapse, snaps, pointer, torn>>
    PROVE  /\ WorldOK(latest', lapse', snaps', pointer', torn')
           /\ Change(latest, lapse, snaps, pointer, torn, latest', lapse', snaps', pointer', torn')
           /\ latest \in 0..latest' /\ latest' \in 1..latest' /\ latest' \in Versions /\ lapse[latest'] = 0
           /\ 0..latest \subseteq 0..latest'
  <1>1. WorldOK(latest, lapse, snaps, pointer, torn) /\ latest \in Nat /\ latest \in Versions
    BY Ranges DEF Inv, WorldOK
  <1>2. latest' \in Versions
    BY <1>1, Ranges DEF Versions
  <1>3. 0..latest \subseteq 0..latest' /\ 1..latest \subseteq 1..latest' /\ latest \in 0..latest'
        /\ latest' \in 1..latest' /\ latest <= latest'
    BY <1>1
  <1>4. \A v \in Versions : v >= latest' => lapse[v] = 0
    BY <1>1, Ranges DEF WorldOK
  <1>5. \A v \in Numbered : snaps[v] # None => v <= latest'
    BY <1>1, Ranges DEF WorldOK
  <1>6. \/ pointer = None
        \/ \E v \in 1..latest' : pointer = Link(v)
        \/ \E v \in 0..latest' : \E age \in Ages : pointer = File(v, age)
    BY <1>1, <1>3 DEF WorldOK
  <1>7. WorldOK(latest', lapse', snaps', pointer', torn')
    BY <1>1, <1>2, <1>4, <1>5, <1>6 DEF WorldOK
  <1>8. lapse[latest'] = 0
    BY <1>1, <1>2, <1>4
  <1>9. Change(latest, lapse, snaps, pointer, torn, latest', lapse', snaps', pointer', torn')
    BY <1>1, <1>2, <1>3 DEF Change
  <1> QED BY <1>2, <1>3, <1>7, <1>8, <1>9

LEMMA PublishKeeps == ASSUME Inv, NEW p \in Procs, Publish(p) PROVE Inv'
  <1> DEFINE m == [Blank EXCEPT !.op = "publish", !.version = latest + 1, !.start = LoadedVersion]
  <1>1. /\ WorldOK(latest', lapse', snaps', pointer', torn')
        /\ Change(latest, lapse, snaps, pointer, torn, latest', lapse', snaps', pointer', torn')
        /\ latest' \in 1..latest' /\ latest' \in Versions /\ lapse[latest'] = 0 /\ 0..latest \subseteq 0..latest'
        /\ latest' = latest + 1 /\ lapse' = lapse
    BY NewVersion DEF Publish, disk
  <1>2. LoadedVersion \in 0..latest /\ latest \in Nat
    BY LoadedVersionTyped, Known DEF Inv
  <1>3. latest + 1 \in 0..latest' /\ LoadedVersion \in 0..latest' /\ 0 \in 0..latest' /\ latest + 1 >= LoadedVersion
    BY <1>1, <1>2
  <1>4. m \in Memories(latest') /\ m.version = latest' /\ m.start = LoadedVersion
    BY <1>1, <1>3 DEF Blank, Memories, OpNames
  <1> HIDE DEF m
  <1>5. ProcOK("write", m, latest', lapse', snaps', pointer', torn') /\ "write" \in Labels
    BY <1>1, <1>3, <1>4 DEF ProcOK, Saving, Reading, Replacing, Labels
  <1>6. Goto(p, "write", m)
    BY DEF Publish, m
  <1> QED BY <1>1, <1>5, <1>6, StepKeeps

LEMMA ConsolePublishKeeps == ASSUME Inv, ConsolePublish PROVE Inv'
  <1>1. /\ WorldOK(latest', lapse', snaps', pointer', torn')
        /\ Change(latest, lapse, snaps, pointer, torn, latest', lapse', snaps', pointer', torn')
        /\ torn \in BOOLEAN /\ torn' \in BOOLEAN
    BY NewVersion DEF ConsolePublish, disk, Inv, WorldOK
  <1>2. \A q \in Procs : ProcOK(pc[q], mem[q], latest', lapse', snaps', pointer', torn')
    BY <1>1, ProcChange DEF Inv, ProcsOK
  <1>3. ProcsOK'
    BY <1>2 DEF ConsolePublish, Inv, ProcsOK
  <1> QED BY <1>1, <1>3 DEF Inv

-----------------------------------------------------------------------------
(***************************************************************************)
(* Saving.                                                                 *)
(***************************************************************************)

\* A version the server has, for the clock still the latest wherever the pointer
\* may link to it, gets a new snapshot.
LEMMA NewSnapshot ==
    ASSUME Inv, NEW v \in 1..latest, snaps' = [snaps EXCEPT ![v] = 0],
           UNCHANGED <<latest, lapse, pointer, torn>>,
           ~torn /\ pointer = Link(v) => lapse[v] = 0
    PROVE  /\ WorldOK(latest', lapse', snaps', pointer', torn')
           /\ Change(latest, lapse, snaps, pointer, torn, latest', lapse', snaps', pointer', torn')
           /\ snaps'[v] # None
  <1>1. WorldOK(latest, lapse, snaps, pointer, torn) /\ v \in Numbered /\ latest \in Nat /\ v <= latest
    BY Ranges DEF Inv, WorldOK
  <1>2. /\ snaps' \in [Numbered -> Ages \cup {None}] /\ snaps'[v] = 0
        /\ \A u \in Numbered \ {v} : snaps'[u] = snaps[u]
    BY <1>1, Ranges DEF WorldOK
  <1>3. \A u \in Numbered : snaps'[u] # None => u <= latest
    BY <1>1, <1>2 DEF WorldOK
  <1>4. ASSUME ~torn, NEW u \in Numbered, pointer = Link(u)
        PROVE  snaps'[u] # None /\ (snaps'[u] < TTL => lapse[u] <= snaps'[u])
    <2>1. CASE u = v
      BY <1>2, <1>4, <2>1, Ranges
    <2>2. CASE u # v
      BY <1>1, <1>2, <1>4, <2>2 DEF WorldOK
    <2> QED BY <2>1, <2>2
  <1>5. WorldOK(latest', lapse', snaps', pointer', torn')
    BY <1>1, <1>2, <1>3, <1>4 DEF WorldOK
  <1>6. Change(latest, lapse, snaps, pointer, torn, latest', lapse', snaps', pointer', torn')
    BY <1>1, <1>2, Ranges DEF Change, WorldOK
  <1> QED BY <1>2, <1>5, <1>6, Ranges

LEMMA WriteSnapshotKeeps == ASSUME Inv, NEW p \in Procs, WriteSnapshot(p) PROVE Inv'
  <1>1. ProcOK("write", mem[p], latest, lapse, snaps, pointer, torn)
    BY Known DEF WriteSnapshot
  <1>2. mem[p].version \in 1..latest /\ lapse[mem[p].version] = 0 /\ mem[p].version >= mem[p].start /\ mem[p] \in Memories(latest)
    BY <1>1 DEF ProcOK, Saving
  <1>3. /\ WorldOK(latest', lapse', snaps', pointer', torn')
        /\ Change(latest, lapse, snaps, pointer, torn, latest', lapse', snaps', pointer', torn')
        /\ snaps'[mem[p].version] # None
    BY <1>2, NewSnapshot DEF WriteSnapshot, remote
  <1>4. ProcOK("unlink", mem[p], latest', lapse', snaps', pointer', torn') /\ "unlink" \in Labels
    BY <1>2, <1>3 DEF ProcOK, Saving, Reading, Replacing, Labels, WriteSnapshot, remote
  <1>5. Goto(p, "unlink", mem[p])
    BY DEF WriteSnapshot
  <1> QED BY <1>3, <1>4, <1>5, StepKeeps

LEMMA HistoryWriteKeeps == ASSUME Inv, NEW p \in Procs, HistoryWrite(p) PROVE Inv'
  <1>1. ProcOK("historyWrite", mem[p], latest, lapse, snaps, pointer, torn)
    BY Known DEF HistoryWrite
  <1>2. mem[p].version \in 1..latest /\ (~torn /\ pointer = Link(mem[p].version) => lapse[mem[p].version] = 0)
    BY <1>1 DEF ProcOK, Reading
  <1>3. /\ WorldOK(latest', lapse', snaps', pointer', torn')
        /\ Change(latest, lapse, snaps, pointer, torn, latest', lapse', snaps', pointer', torn')
    BY <1>2, NewSnapshot DEF HistoryWrite, remote
  <1> QED BY <1>3, FinishKeeps DEF HistoryWrite

\* The pointer becomes a link to a version that is there and for the clock still
\* the latest, or a file, or nothing.
LEMMA NewPointer ==
    ASSUME Inv, UNCHANGED <<latest, lapse, snaps, torn>>,
           \/ pointer' = None
           \/ \E v \in 0..latest : pointer' = File(v, 0)
           \/ \E v \in 1..latest : pointer' = Link(v) /\ lapse[v] = 0 /\ (~torn => snaps[v] # None)
    PROVE  /\ WorldOK(latest', lapse', snaps', pointer', torn')
           /\ Change(latest, lapse, snaps, pointer, torn, latest', lapse', snaps', pointer', torn')
  <1>1. WorldOK(latest, lapse, snaps, pointer, torn) /\ latest \in Nat /\ latest \in Versions
    BY Ranges DEF Inv, WorldOK
  <1>2. \A u \in Numbered : u \in Versions
    BY Ranges
  <1>3. ASSUME NEW u \in Numbered, pointer' = Link(u)
        PROVE  lapse[u] = 0 /\ (~torn => snaps[u] # None /\ snaps[u] \in Nat)
    <2>1. pointer' # None
      BY <1>2, <1>3, Pointers, Ranges
    <2>2. \A v \in 0..latest : pointer' # File(v, 0)
      <3> TAKE v \in 0..latest
      <3>1. v \in Versions /\ 0 \in Ages
        BY <1>1, Ranges
      <3> QED BY <1>2, <1>3, <3>1, Pointers
    <2>3. PICK v \in 1..latest : pointer' = Link(v) /\ lapse[v] = 0 /\ (~torn => snaps[v] # None)
      BY <2>1, <2>2
    <2>4. v \in Versions /\ 0 \in Ages
      BY <1>1, Ranges
    <2>5. u = v
      BY <1>3, <2>3 DEF Link
    <2>6. snaps[u] \in Ages \cup {None}
      BY <1>1 DEF WorldOK
    <2> QED BY <2>3, <2>5, <2>6, Ranges
  <1>4. \A u \in Numbered : pointer' = Link(u) => (~torn => snaps[u] # None /\ (snaps[u] < TTL => lapse[u] <= snaps[u]))
    BY <1>3
  <1>5. \/ pointer' = None
        \/ \E v \in 1..latest : pointer' = Link(v)
        \/ \E v \in 0..latest : \E age \in Ages : pointer' = File(v, age)
    BY Ranges
  <1>6. WorldOK(latest', lapse', snaps', pointer', torn')
    BY <1>1, <1>4, <1>5 DEF WorldOK
  <1>7. Change(latest, lapse, snaps, pointer, torn, latest', lapse', snaps', pointer', torn')
    BY <1>1, <1>3 DEF Change
  <1> QED BY <1>6, <1>7

\* What a process that replaces the pointer knows.
LEMMA AtReplacing ==
    ASSUME Inv, NEW p \in Procs, pc[p] \in Replacing
    PROVE  /\ mem[p].version \in 1..latest /\ mem[p].version \in 0..latest
           /\ lapse[mem[p].version] = 0 /\ mem[p].version >= mem[p].start
           /\ ~torn => snaps[mem[p].version] # None
           /\ \A l \in Replacing : ProcOK(l, mem[p], latest, lapse, snaps, pointer, torn) /\ l \in Labels
  <1>1. ProcOK(pc[p], mem[p], latest, lapse, snaps, pointer, torn) /\ latest \in Nat
    BY Known
  <1>2. /\ mem[p].version \in 1..latest /\ lapse[mem[p].version] = 0 /\ mem[p].version >= mem[p].start
        /\ ~torn => snaps[mem[p].version] # None
        /\ mem[p] \in Memories(latest)
    BY <1>1 DEF ProcOK, Saving
  <1>3. \A l \in Replacing : ProcOK(l, mem[p], latest, lapse, snaps, pointer, torn) /\ l \in Labels
    BY <1>2 DEF ProcOK, Saving, Reading, Replacing, Labels
  <1> QED BY <1>1, <1>2, <1>3

\* The others' view of a new pointer is also that of the process itself.
LEMMA PointerProc ==
    ASSUME Inv, NEW l, NEW m, ProcOK(l, m, latest, lapse, snaps, pointer, torn),
           WorldOK(latest', lapse', snaps', pointer', torn'),
           Change(latest, lapse, snaps, pointer, torn, latest', lapse', snaps', pointer', torn')
    PROVE  ProcOK(l, m, latest', lapse', snaps', pointer', torn')
  <1>1. torn \in BOOLEAN /\ torn' \in BOOLEAN
    BY DEF Inv, WorldOK
  <1> QED BY <1>1, ProcChange

LEMMA UnlinkKeeps == ASSUME Inv, NEW p \in Procs, Unlink(p) PROVE Inv'
  <1>1. /\ WorldOK(latest', lapse', snaps', pointer', torn')
        /\ Change(latest, lapse, snaps, pointer, torn, latest', lapse', snaps', pointer', torn')
    BY NewPointer DEF Unlink, remote
  <1>2. ProcOK("link", mem[p], latest, lapse, snaps, pointer, torn) /\ "link" \in Labels
    BY AtReplacing DEF Unlink, Replacing
  <1>3. ProcOK("link", mem[p], latest', lapse', snaps', pointer', torn')
    BY <1>1, <1>2, PointerProc
  <1>4. Goto(p, "link", mem[p])
    BY DEF Unlink
  <1> QED BY <1>1, <1>2, <1>3, <1>4, StepKeeps

LEMMA MakeLinkKeeps == ASSUME Inv, NEW p \in Procs, MakeLink(p) PROVE Inv'
  <1>1. /\ mem[p].version \in 1..latest /\ lapse[mem[p].version] = 0
        /\ ~torn => snaps[mem[p].version] # None
        /\ ProcOK("copy", mem[p], latest, lapse, snaps, pointer, torn) /\ "copy" \in Labels
    BY AtReplacing DEF MakeLink, Replacing
  <1>2. CASE pointer' = Link(mem[p].version) /\ Finish(p)
    <2>1. /\ WorldOK(latest', lapse', snaps', pointer', torn')
          /\ Change(latest, lapse, snaps, pointer, torn, latest', lapse', snaps', pointer', torn')
      BY <1>1, <1>2, NewPointer DEF MakeLink, remote
    <2> QED BY <1>2, <2>1, FinishKeeps
  <1>3. CASE Goto(p, "copy", mem[p]) /\ UNCHANGED pointer
    <2>1. UNCHANGED <<remote, disk, torn>>
      BY <1>3 DEF MakeLink, disk
    <2> QED BY <1>1, <1>3, <2>1, QuietKeeps
  <1> QED BY <1>2, <1>3 DEF MakeLink

LEMMA CopyPointerKeeps == ASSUME Inv, NEW p \in Procs, CopyPointer(p) PROVE Inv'
  <1>1. mem[p].version \in 0..latest
    BY AtReplacing DEF CopyPointer, Replacing
  <1>2. /\ WorldOK(latest', lapse', snaps', pointer', torn')
        /\ Change(latest, lapse, snaps, pointer, torn, latest', lapse', snaps', pointer', torn')
    BY <1>1, NewPointer DEF CopyPointer, remote
  <1> QED BY <1>2, FinishKeeps DEF CopyPointer

LEMMA UnlinkLegacyKeeps == ASSUME Inv, NEW p \in Procs, UnlinkLegacy(p) PROVE Inv'
  <1>1. /\ WorldOK(latest', lapse', snaps', pointer', torn')
        /\ Change(latest, lapse, snaps, pointer, torn, latest', lapse', snaps', pointer', torn')
    <2>1. latest' = latest /\ lapse' = lapse /\ snaps' = snaps /\ torn' = torn /\ pointer' \in {None, pointer}
      BY DEF UnlinkLegacy, remote
    <2>2. CASE pointer' = None
      BY <2>1, <2>2, NewPointer
    <2>3. CASE pointer' = pointer
      BY <2>1, <2>3, Same
    <2> QED BY <2>1, <2>2, <2>3
  <1>2. mem[p] \in Memories(latest)
    BY Known
  <1>3. ProcOK("writeLegacy", mem[p], latest, lapse, snaps, pointer, torn) /\ "writeLegacy" \in Labels
    BY <1>2 DEF ProcOK, Saving, Reading, Replacing, Labels
  <1>4. ProcOK("writeLegacy", mem[p], latest', lapse', snaps', pointer', torn')
    BY <1>1, <1>3, PointerProc
  <1>5. Goto(p, "writeLegacy", mem[p])
    BY DEF UnlinkLegacy
  <1> QED BY <1>1, <1>3, <1>4, <1>5, StepKeeps

LEMMA WriteLegacyKeeps == ASSUME Inv, NEW p \in Procs, WriteLegacy(p) PROVE Inv'
  <1>1. 0 \in 0..latest
    BY Known, Ranges
  <1>2. /\ WorldOK(latest', lapse', snaps', pointer', torn')
        /\ Change(latest, lapse, snaps, pointer, torn, latest', lapse', snaps', pointer', torn')
    BY <1>1, NewPointer DEF WriteLegacy, remote
  <1> QED BY <1>2, FinishKeeps DEF WriteLegacy

-----------------------------------------------------------------------------
(***************************************************************************)
(* Historical versions, deletion and time.                                 *)
(***************************************************************************)

LEMMA BeginHistoryKeeps == ASSUME Inv, NEW p \in Procs, BeginHistory(p) PROVE Inv'
  <1>1. PICK v \in 1..latest :
            /\ v \notin Stored
            /\ Goto(p, "historyFetch", [Blank EXCEPT !.op = "history", !.version = v, !.start = LoadedVersion])
    BY DEF BeginHistory
  <1> DEFINE m == [Blank EXCEPT !.op = "history", !.start = LoadedVersion, !.version = v]
  <1>2. WorldOK(latest, lapse, snaps, pointer, torn) /\ latest \in Nat /\ v \in Numbered /\ v \in 0..latest
    BY Known, Ranges DEF Inv
  <1>3. ~torn => pointer # Link(v)
    BY <1>1, <1>2 DEF WorldOK, Stored
  <1>4. m \in Memories(latest) /\ m.version = v
    <2>1. m \in Memories(latest)
      BY <1>2, BeginMemory DEF OpNames
    <2> QED BY <2>1 DEF Blank
  <1>5. ProcOK("historyFetch", m, latest, lapse, snaps, pointer, torn) /\ "historyFetch" \in Labels
    <2> HIDE DEF m
    <2> QED BY <1>3, <1>4 DEF ProcOK, Saving, Reading, Replacing, Labels
  <1>6. Goto(p, "historyFetch", m) /\ UNCHANGED <<remote, disk, torn>>
    BY <1>1 DEF BeginHistory
  <1> QED BY <1>5, <1>6, QuietKeeps

LEMMA HistoryFetchKeeps == ASSUME Inv, NEW p \in Procs, HistoryFetch(p) PROVE Inv'
  <1>1. ProcOK("historyFetch", mem[p], latest, lapse, snaps, pointer, torn)
    BY Known DEF HistoryFetch
  <1>2. ProcOK("historyWrite", mem[p], latest, lapse, snaps, pointer, torn) /\ "historyWrite" \in Labels
    BY <1>1 DEF ProcOK, Saving, Reading, Replacing, Labels
  <1>3. Goto(p, "historyWrite", mem[p]) /\ UNCHANGED <<remote, disk, torn>>
    BY DEF HistoryFetch
  <1> QED BY <1>2, <1>3, QuietKeeps

LEMMA BeginDeleteKeeps == ASSUME Inv, NEW p \in Procs, BeginDelete(p) PROVE Inv'
  <1> DEFINE m == [Blank EXCEPT !.op = "delete", !.listed = Stored]
  <1>1. WorldOK(latest, lapse, snaps, pointer, torn) /\ latest \in Versions
    BY Known DEF Inv
  <1>2. latest' = latest /\ lapse' = lapse /\ snaps' = snaps /\ pointer' = None /\ torn' \in BOOLEAN /\ (torn => torn')
    BY DEF BeginDelete, remote
  <1>3. \A u \in Numbered : pointer' # Link(u)
    BY <1>2, Pointers, Ranges
  <1>4. WorldOK(latest', lapse', snaps', pointer', torn')
    BY <1>1, <1>2, <1>3 DEF WorldOK
  <1>5. Change(latest, lapse, snaps, pointer, torn, latest', lapse', snaps', pointer', torn')
    BY <1>1, <1>2, <1>3, Ranges DEF Change, WorldOK
  <1>6. m \in Memories(latest') /\ m.op = "delete"
    <2>1. m \in Memories(latest)
      BY BeginMemory DEF OpNames
    <2> QED BY <1>2, <2>1 DEF Blank
  <1>7. ProcOK("unlinkAll", m, latest', lapse', snaps', pointer', torn') /\ "unlinkAll" \in Labels
    BY <1>6 DEF ProcOK, Saving, Reading, Replacing, Labels
  <1>8. Goto(p, "unlinkAll", m)
    BY DEF BeginDelete
  <1> QED BY <1>4, <1>5, <1>7, <1>8, StepKeeps

LEMMA DeleteSnapshotKeeps == ASSUME Inv, NEW p \in Procs, DeleteSnapshot(p) PROVE Inv'
  <1>1. CASE Finish(p) /\ UNCHANGED <<snaps, torn>>
    <2>1. UNCHANGED <<remote, disk, torn>>
      BY <1>1 DEF DeleteSnapshot, disk
    <2> QED BY <1>1, <2>1, QuietFinish
  <1>2. ASSUME NEW v \in mem[p].listed,
               snaps' = [snaps EXCEPT ![v] = None],
               torn' = (torn \/ pointer # None \/ \E q \in Procs \ {p} : pc[q] # "idle"),
               Goto(p, "unlinkAll", [mem[p] EXCEPT !.listed = @ \ {v}])
        PROVE  Inv'
    <2> DEFINE m == [mem[p] EXCEPT !.listed = @ \ {v}]
    <2>1. /\ WorldOK(latest, lapse, snaps, pointer, torn) /\ latest \in Versions /\ mem[p] \in Memories(latest)
          /\ ProcOK("unlinkAll", mem[p], latest, lapse, snaps, pointer, torn) /\ pc[p] = "unlinkAll"
      BY Known DEF Inv, DeleteSnapshot
    <2>2. v \in Numbered
      BY <2>1 DEF Memories
    <2>3. latest' = latest /\ lapse' = lapse /\ pointer' = pointer /\ torn' \in BOOLEAN /\ (torn => torn')
          /\ (~torn' => pointer = None /\ \A q \in Procs \ {p} : pc[q] = "idle")
      BY <1>2 DEF DeleteSnapshot, remote
    <2>4. /\ snaps' \in [Numbered -> Ages \cup {None}]
          /\ \A u \in Numbered : snaps'[u] # None => snaps[u] # None
      BY <1>2, <2>1, <2>2 DEF WorldOK
    <2>5. \A u \in Numbered : Link(u) # None
      BY Pointers, Ranges
    <2>6. WorldOK(latest', lapse', snaps', pointer', torn')
      BY <2>1, <2>3, <2>4, <2>5 DEF WorldOK
    <2>7. m \in Memories(latest) /\ m.op = mem[p].op
      BY <2>1 DEF Memories
    <2>8. ProcOK("unlinkAll", m, latest', lapse', snaps', pointer', torn') /\ "unlinkAll" \in Labels
      BY <2>1, <2>3, <2>7 DEF ProcOK, Saving, Reading, Replacing, Labels
    <2>9. CASE torn'
      <3>1. Change(latest, lapse, snaps, pointer, torn, latest', lapse', snaps', pointer', torn')
        BY <2>1, <2>3, <2>9, Ranges DEF Change
      <3> QED BY <1>2, <2>6, <2>8, <3>1, StepKeeps
    <2>10. CASE ~torn'
      <3>1. /\ pc' = [pc EXCEPT ![p] = "unlinkAll"] /\ mem' = [mem EXCEPT ![p] = m]
            /\ pc \in [Procs -> Labels] /\ mem = [q \in Procs |-> mem[q]]
        BY <1>2 DEF Goto, Inv, ProcsOK
      <3>2. pc' \in [Procs -> Labels] /\ mem' = [q \in Procs |-> mem'[q]]
            /\ pc'[p] = "unlinkAll" /\ mem'[p] = m
            /\ \A q \in Procs \ {p} : pc'[q] = "idle" /\ mem'[q] = mem[q]
        BY <2>3, <2>8, <2>10, <3>1
      <3>3. \A q \in Procs \ {p} : ProcOK("idle", mem[q], latest', lapse', snaps', pointer', torn')
        BY <2>3, Known DEF ProcOK, Saving, Reading, Replacing
      <3>4. ProcsOK'
        BY <2>8, <3>2, <3>3 DEF ProcsOK
      <3> QED BY <2>6, <3>4 DEF Inv
    <2> QED BY <2>9, <2>10
  <1> QED BY <1>1, <1>2 DEF DeleteSnapshot

LEMMA AgedTyped == \A a \in Ages : Aged(a) \in Ages /\ (Aged(a) < TTL => Aged(a) = a + 1 /\ a < TTL)
  BY Ranges DEF Aged, Ages

LEMMA TickKeeps == ASSUME Inv, Tick PROVE Inv'
  <1>1. WorldOK(latest, lapse, snaps, pointer, torn) /\ latest \in Versions /\ latest \in Nat
    BY Ranges DEF Inv, WorldOK
  <1>2. latest' = latest /\ torn' = torn /\ pc' = pc /\ \A q \in Procs : pc[q] \in Quiet
    BY DEF Tick, Quiet
  <1>3. /\ lapse' \in [Versions -> 0..(TTL + 1)] /\ \A v \in Versions : v >= latest => lapse'[v] = 0
        /\ \A v \in Versions : lapse'[v] <= lapse[v] + 1 /\ lapse[v] \in Nat /\ lapse'[v] \in Nat
    <2>1. lapse' = [v \in Versions |-> IF v < latest /\ lapse[v] <= TTL THEN lapse[v] + 1 ELSE lapse[v]]
      BY DEF Tick
    <2>2. \A v \in Versions : lapse[v] \in 0..(TTL + 1) /\ v \in Nat
      BY <1>1, Ranges DEF WorldOK
    <2>3. \A v \in Versions : lapse'[v] \in 0..(TTL + 1)
      BY <2>1, <2>2, Ranges
    <2>4. \A v \in Versions : v >= latest => lapse'[v] = 0
      BY <1>1, <2>1, <2>2 DEF WorldOK
    <2>5. \A v \in Versions : lapse'[v] <= lapse[v] + 1
      BY <2>1, <2>2
    <2> QED BY <2>1, <2>2, <2>3, <2>4, <2>5, Ranges
  <1>4. /\ snaps' \in [Numbered -> Ages \cup {None}]
        /\ \A v \in Numbered : (snaps'[v] # None <=> snaps[v] # None)
        /\ \A v \in Numbered : snaps[v] # None => snaps[v] \in Ages /\ snaps'[v] = Aged(snaps[v])
    <2>1. snaps' = [v \in Numbered |-> IF snaps[v] = None THEN None ELSE Aged(snaps[v])]
      BY DEF Tick
    <2>2. \A v \in Numbered : snaps[v] \in Ages \cup {None}
      BY <1>1 DEF WorldOK
    <2> QED BY <2>1, <2>2, AgedTyped, Ranges
  <1>5. /\ \A v \in Numbered : pointer' = Link(v) => pointer = Link(v)
        /\ \/ pointer' = None
           \/ \E v \in 1..latest : pointer' = Link(v)
           \/ \E v \in 0..latest : \E age \in Ages : pointer' = File(v, age)
    <2>1. pointer' = IF pointer # None /\ pointer.kind = "file"
                     THEN File(pointer.version, Aged(pointer.age)) ELSE pointer
      BY DEF Tick
    <2>2. CASE pointer = None
      BY <2>1, <2>2
    <2>3. CASE \E v \in 1..latest : pointer = Link(v)
      BY <2>1, <2>3 DEF Link
    <2>4. ASSUME NEW v \in 0..latest, NEW age \in Ages, pointer = File(v, age)
          PROVE  pointer' = File(v, Aged(age)) /\ \A u \in Numbered : pointer' # Link(u)
      <3>1. v \in Versions /\ Aged(age) \in Ages
        BY <1>1, AgedTyped, Ranges
      <3>2. pointer' = File(v, Aged(age))
        BY <1>1, <2>1, <2>4, <3>1, Pointers
      <3>3. \A u \in Versions : Link(u) # File(v, Aged(age))
        BY <3>1, Pointers
      <3> QED BY <3>2, <3>3, Ranges
    <2>5. CASE \E v \in 0..latest : \E age \in Ages : pointer = File(v, age)
      BY <2>4, <2>5, AgedTyped
    <2> QED BY <1>1, <2>2, <2>3, <2>5 DEF WorldOK
  <1>6. ASSUME ~torn, NEW v \in Numbered, pointer' = Link(v)
        PROVE  snaps'[v] # None /\ (snaps'[v] < TTL => lapse'[v] <= snaps'[v])
    <2>1. pointer = Link(v) /\ v \in Versions
      BY <1>5, <1>6, Ranges
    <2>2. snaps[v] # None /\ (snaps[v] < TTL => lapse[v] <= snaps[v])
      BY <1>1, <1>6, <2>1 DEF WorldOK
    <2>3. snaps[v] \in Ages /\ snaps'[v] = Aged(snaps[v]) /\ snaps'[v] # None /\ snaps[v] \in Nat
      BY <1>4, <2>2, Ranges
    <2>4. snaps'[v] < TTL => lapse'[v] <= snaps'[v]
      <3>1. snaps'[v] < TTL => snaps'[v] = snaps[v] + 1 /\ snaps[v] < TTL
        BY <2>3, AgedTyped
      <3>2. lapse'[v] <= lapse[v] + 1 /\ lapse[v] \in Nat /\ lapse'[v] \in Nat
        BY <1>3, <2>1
      <3> QED BY <2>2, <2>3, <3>1, <3>2
    <2> QED BY <2>3, <2>4
  <1>7. WorldOK(latest', lapse', snaps', pointer', torn')
    <2>1. \A v \in Numbered : snaps'[v] # None => v <= latest
      BY <1>1, <1>4 DEF WorldOK
    <2>2. latest \in Versions /\ torn \in BOOLEAN
      BY <1>1 DEF WorldOK
    <2> QED BY <1>2, <1>3, <1>4, <1>5, <1>6, <2>1, <2>2 DEF WorldOK
  <1>8. mem' = [p \in Procs |-> [mem[p] EXCEPT !.legacy = {[c EXCEPT !.age = Aged(@)] : c \in @}]]
    BY DEF Tick
  <1>9. ASSUME NEW q \in Procs PROVE ProcOK(pc[q], mem'[q], latest', lapse', snaps', pointer', torn')
    <2> DEFINE old == mem[q].legacy
               new == {[c EXCEPT !.age = Aged(@)] : c \in old}
    <2>1. mem[q] \in Memories(latest) /\ old \subseteq [version : 0..latest, age : Ages]
      BY Known DEF Memories
    <2>2. new \subseteq [version : 0..latest, age : Ages]
      BY <2>1, AgedTyped
    <2>3. mem'[q] = [mem[q] EXCEPT !.legacy = new]
      BY <1>8
    <2> HIDE DEF new, old
    <2>4. mem'[q] \in Memories(latest)
      BY <2>1, <2>2, <2>3 DEF Memories
    <2>5. pc[q] \in Quiet
      BY <1>2
    <2> QED BY <1>2, <2>4, <2>5 DEF ProcOK, Quiet, Saving, Reading, Replacing
  <1>10. ProcsOK'
    <2>1. mem' = [q \in Procs |-> mem'[q]]
      BY <1>8
    <2>2. pc' \in [Procs -> Labels]
      BY <1>2 DEF Inv, ProcsOK
    <2> QED BY <1>2, <1>9, <2>1, <2>2 DEF ProcsOK
  <1> QED BY <1>7, <1>10 DEF Inv

LEMMA CrashKeeps == ASSUME Inv, NEW p \in Procs, Crash(p) PROVE Inv'
  BY QuietFinish DEF Crash

LEMMA InitInv == Init => Inv
  <1> SUFFICES ASSUME Init PROVE Inv
    OBVIOUS
  <1>1. latest \in Versions /\ latest \in Nat
    BY Ranges DEF Init
  <1>2. WorldOK(latest, lapse, snaps, pointer, torn)
    <2>1. \A v \in Numbered : pointer # Link(v)
      BY Pointers, Ranges DEF Init
    <2>2. lapse = [v \in Versions |-> 0] /\ snaps = [v \in Numbered |-> None] /\ pointer = None /\ torn = FALSE
      BY DEF Init
    <2>3. 0 \in 0..(TTL + 1)
      BY Ranges
    <2> QED BY <1>1, <2>1, <2>2, <2>3 DEF WorldOK
  <1>3. ProcOK("idle", Blank, latest, lapse, snaps, pointer, torn) /\ "idle" \in Labels
    BY <1>1, IdleOK
  <1>4. ProcsOK
    BY <1>3 DEF Init, ProcsOK
  <1> QED BY <1>2, <1>4 DEF Inv

LEMMA StepInv == Inv /\ [Next]_vars => Inv'
  <1> SUFFICES ASSUME Inv, [Next]_vars PROVE Inv'
    OBVIOUS
  <1>1. ASSUME NEW p \in Procs, Start(p) PROVE Inv'
    BY <1>1, BeginReadKeeps, PublishKeeps, BeginHistoryKeeps, BeginDeleteKeeps DEF Start
  <1>2. ASSUME NEW p \in Procs, Continue(p) PROVE Inv'
    BY <1>2, ReadNewestKeeps, ListLatestKeeps, FetchKeeps, WriteSnapshotKeeps, UnlinkKeeps, MakeLinkKeeps,
       CopyPointerKeeps, UnlinkLegacyKeeps, WriteLegacyKeeps, HistoryFetchKeeps, HistoryWriteKeeps,
       DeleteSnapshotKeeps DEF Continue
  <1>3. CASE UNCHANGED vars
    BY <1>3 DEF vars, Inv, ProcsOK
  <1> QED BY <1>1, <1>2, <1>3, CrashKeeps, ConsolePublishKeeps, TickKeeps DEF Next

LEMMA InvHolds == Spec => []Inv
  BY InitInv, StepInv, PTL DEF Spec

-----------------------------------------------------------------------------
(***************************************************************************)
(* Theorems.                                                               *)
(***************************************************************************)

\* Files, ages and versions stay in their ranges, for any bounds.
THEOREM TypeCorrect == Spec => []TypeOK
  <1>1. ASSUME Inv PROVE TypeOK
    <2>1. WorldOK(latest, lapse, snaps, pointer, torn) /\ latest \in Versions
      BY <1>1 DEF Inv, WorldOK
    <2>2. 0..latest \subseteq Versions /\ 1..latest \subseteq Numbered
      BY <2>1, Ranges
    <2>3. pointer \in {None} \cup [kind : {"link"}, version : Numbered, age : {0}]
                       \cup [kind : {"file"}, version : Versions, age : Ages]
      <3>1. \A v \in 1..latest : Link(v) \in [kind : {"link"}, version : Numbered, age : {0}]
        BY <2>2 DEF Link
      <3>2. \A v \in 0..latest : \A age \in Ages : File(v, age) \in [kind : {"file"}, version : Versions, age : Ages]
        BY <2>2 DEF File
      <3> QED BY <2>1, <3>1, <3>2 DEF WorldOK
    <2>4. ASSUME NEW p \in Procs
          PROVE  mem[p] \in [op : OpNames \cup {"none"}, version : Versions \cup {None},
                             start : Versions, legacy : SUBSET [version : Versions, age : Ages],
                             listed : SUBSET Numbered]
      <3>1. mem[p] \in Memories(latest)
        BY <1>1, Known
      <3>2. SUBSET [version : 0..latest, age : Ages] \subseteq SUBSET [version : Versions, age : Ages]
        BY <2>2
      <3> QED BY <2>2, <3>1, <3>2 DEF Memories
    <2>5. pc \in [Procs -> Labels] /\ mem = [p \in Procs |-> mem[p]]
      BY <1>1 DEF Inv, ProcsOK
    <2> QED BY <2>1, <2>3, <2>4, <2>5 DEF WorldOK, TypeOK
  <1> QED BY <1>1, InvHolds, PTL

\* The link is the pointer that is followed.
LEMMA FollowedIsLink ==
    ASSUME WorldOK(latest, lapse, snaps, pointer, torn), Followed
    PROVE  pointer.version \in Numbered /\ pointer = Link(pointer.version)
  <1>1. pointer # None /\ pointer.kind = "link"
    BY DEF Followed
  <1>2. ~(\E v \in 0..latest : \E age \in Ages : pointer = File(v, age))
    BY <1>1 DEF File
  <1>3. PICK v \in 1..latest : pointer = Link(v)
    BY <1>1, <1>2 DEF WorldOK
  <1>4. v \in Numbered /\ pointer.version = v
    BY <1>3, Ranges DEF WorldOK, Link
  <1> QED BY <1>3, <1>4

\* A cache that looks fresh was the latest version when its age says it was.
THEOREM FreshCacheWasLatest == Spec => []FreshWasLatest
  <1>1. ASSUME Inv, ~torn, Followed, snaps[pointer.version] < TTL
        PROVE  lapse[pointer.version] <= snaps[pointer.version]
    <2>1. WorldOK(latest, lapse, snaps, pointer, torn)
      BY <1>1 DEF Inv
    <2>2. pointer.version \in Numbered /\ pointer = Link(pointer.version)
      BY <1>1, <2>1, FollowedIsLink
    <2> QED BY <1>1, <2>1, <2>2 DEF WorldOK
  <1>2. Inv => FreshWasLatest
    BY <1>1 DEF FreshWasLatest
  <1> QED BY <1>2, InvHolds, PTL

\* There is a cache exactly when there is a snapshot or a pointer file.
LEMMA LoadedWhen ==
    ASSUME WorldOK(latest, lapse, snaps, pointer, torn)
    PROVE  Loaded # {} <=> Stored # {} \/ Legacy # {}
  <1>1. Followed => pointer.version \in Stored
    BY FollowedIsLink DEF Stored, Followed
  <1>2. Followed => Loaded # {} /\ Stored # {}
    BY <1>1 DEF Loaded, Cached
  <1>3. ~Followed /\ Stored # {} => Loaded # {}
    BY DEF Loaded, Newest, Cached
  <1>4. ~Followed /\ Stored = {} => Loaded = Legacy
    BY DEF Loaded
  <1> QED BY <1>2, <1>3, <1>4

LEMMA LoadedWhenNext ==
    ASSUME WorldOK(latest', lapse', snaps', pointer', torn')
    PROVE  Stored' # {} \/ Legacy' # {} => Loaded' # {}
  <1>1. Followed' => Loaded' # {}
    BY DEF Loaded, Cached
  <1>2. ~Followed' /\ Stored' # {} => Loaded' # {}
    BY DEF Loaded, Newest, Cached
  <1>3. ~Followed' /\ Stored' = {} => Loaded' = Legacy'
    BY DEF Loaded
  <1> QED BY <1>1, <1>2, <1>3

\* A pointer that is written, or kept, is a cache.
LEMMA LegacyKept ==
    /\ snaps' = snaps /\ pointer' = pointer => Stored' = Stored /\ Legacy' = Legacy
    /\ snaps' = snaps => Stored' = Stored
    /\ \A v \in Versions : pointer' = File(v, 0) => Legacy' # {}
  <1>1. snaps' = snaps => Stored' = Stored
    BY DEF Stored
  <1>2. pointer' = pointer => Legacy' = Legacy
    BY DEF Legacy
  <1>3. ASSUME NEW v \in Versions, pointer' = File(v, 0) PROVE Legacy' # {}
    <2>1. pointer' # None /\ pointer'.kind = "file"
      BY <1>3, Pointers, Ranges
    <2> QED BY <2>1 DEF Legacy
  <1> QED BY <1>1, <1>2, <1>3

\* A cache does not disappear while the pointer is replaced.
THEOREM CachesSurvive == Spec => CacheSurvives
  <1> DEFINE Safe == (Loaded # {} /\ ~torn' /\ ~Deleting /\ ~Deleting') => Loaded' # {}
  <1>1. ASSUME Inv, Next, Stored # {} \/ Legacy # {}, ~torn', ~Deleting, ~Deleting'
        PROVE  Stored' # {} \/ Legacy' # {}
    <2>1. CASE snaps' = snaps /\ pointer' = pointer
      BY <1>1, <2>1, LegacyKept
    <2>2. ASSUME NEW p \in Procs, WriteSnapshot(p) \/ HistoryWrite(p) PROVE Stored' # {}
      <3>1. pc[p] \in Saving \cup Reading /\ snaps' = [snaps EXCEPT ![mem[p].version] = 0]
        BY <2>2 DEF WriteSnapshot, HistoryWrite, Saving, Reading
      <3>2. mem[p].version \in Numbered
        BY <1>1, <3>1, Known, Ranges DEF ProcOK
      <3>3. snaps'[mem[p].version] # None
        BY <1>1, <3>1, <3>2, Ranges DEF Inv, WorldOK
      <3> QED BY <3>2, <3>3 DEF Stored
    <2>3. ASSUME NEW p \in Procs, Unlink(p) \/ MakeLink(p) PROVE Stored' # {}
      <3>1. pc[p] \in Replacing /\ snaps' = snaps /\ torn' = torn
        BY <2>3 DEF Unlink, MakeLink, Replacing
      <3>2. mem[p].version \in 1..latest /\ snaps[mem[p].version] # None
        BY <1>1, <3>1, AtReplacing
      <3>3. mem[p].version \in Numbered
        BY <1>1, <3>2, Known, Ranges
      <3> QED BY <3>1, <3>2, <3>3 DEF Stored
    <2>4. ASSUME NEW p \in Procs, CopyPointer(p) \/ WriteLegacy(p) PROVE Legacy' # {}
      <3>1. CASE CopyPointer(p)
        <4>1. mem[p].version \in 1..latest /\ latest \in Versions
          BY <1>1, <3>1, AtReplacing, Known DEF CopyPointer, Replacing
        <4> QED BY <3>1, <4>1, LegacyKept, Ranges DEF CopyPointer
      <3>2. CASE WriteLegacy(p)
        <4>1. 0 \in Versions
          BY Ranges DEF Versions
        <4> QED BY <3>2, <4>1, LegacyKept DEF WriteLegacy
      <3> QED BY <2>4, <3>1, <3>2
    <2>5. ASSUME NEW p \in Procs, UnlinkLegacy(p) PROVE Stored' # {} \/ Legacy' # {}
      <3>1. snaps' = snaps /\ pointer' \in {None, pointer}
            /\ (pointer' # pointer => pointer.kind = "link")
        BY <2>5 DEF UnlinkLegacy
      <3>2. CASE pointer' = pointer
        BY <2>1, <3>1, <3>2
      <3>3. CASE pointer' # pointer
        <4>1. Legacy = {}
          BY <3>1, <3>3 DEF Legacy
        <4> QED BY <1>1, <3>1, <4>1, LegacyKept
      <3> QED BY <3>2, <3>3
    <2>6. ASSUME NEW p \in Procs, BeginDelete(p) PROVE FALSE
      <3>1. mem' = [mem EXCEPT ![p] = [Blank EXCEPT !.op = "delete", !.listed = Stored]]
            /\ mem = [q \in Procs |-> mem[q]]
        BY <1>1, <2>6 DEF BeginDelete, Goto, Inv, ProcsOK
      <3>2. mem'[p].op = "delete"
        BY <3>1 DEF Blank
      <3> QED BY <1>1, <3>2 DEF Deleting
    <2>7. ASSUME NEW p \in Procs, DeleteSnapshot(p) PROVE FALSE
      <3>1. mem[p].op = "delete"
        BY <1>1, <2>7, Known DEF ProcOK, DeleteSnapshot
      <3> QED BY <1>1, <3>1 DEF Deleting
    <2>8. CASE Tick
      <3>1. snaps' = [v \in Numbered |-> IF snaps[v] = None THEN None ELSE Aged(snaps[v])]
            /\ pointer' = IF pointer # None /\ pointer.kind = "file"
                          THEN File(pointer.version, Aged(pointer.age)) ELSE pointer
        BY <2>8 DEF Tick
      <3>2. CASE Stored # {}
        <4>1. PICK v \in Numbered : snaps[v] # None
          BY <3>2 DEF Stored
        <4>2. snaps[v] \in Ages
          BY <1>1, <4>1 DEF Inv, WorldOK
        <4>3. snaps'[v] # None
          BY <3>1, <4>1, <4>2, AgedTyped, Ranges
        <4> QED BY <4>3 DEF Stored
      <3>3. CASE Legacy # {}
        <4>1. pointer # None /\ pointer.kind = "file"
          BY <3>3 DEF Legacy
        <4>2. PICK v \in 0..latest, age \in Ages : pointer = File(v, age)
          BY <1>1, <4>1 DEF Inv, WorldOK, Link
        <4>3. v \in Versions /\ Aged(age) \in Ages
          BY <1>1, Ranges, AgedTyped DEF Inv, WorldOK
        <4>4. pointer' = File(v, Aged(age))
          BY <3>1, <4>1, <4>2, <4>3, Pointers
        <4>5. pointer' # None /\ pointer'.kind = "file"
          BY <4>3, <4>4, Pointers
        <4> QED BY <4>5 DEF Legacy
      <3> QED BY <1>1, <3>2, <3>3
    <2>9. CASE ConsolePublish
      BY <2>1, <2>9 DEF ConsolePublish, disk
    <2>10. ASSUME NEW p \in Procs, Start(p) \/ Crash(p) PROVE BeginDelete(p) \/ (snaps' = snaps /\ pointer' = pointer)
      BY <2>10 DEF Start, BeginRead, Publish, BeginHistory, Crash, disk
    <2>11. ASSUME NEW p \in Procs, ReadNewest(p) \/ ListLatest(p) \/ Fetch(p) \/ HistoryFetch(p)
           PROVE  snaps' = snaps /\ pointer' = pointer
      BY <2>11 DEF ReadNewest, ListLatest, Fetch, HistoryFetch, disk
    <2> QED BY <1>1, <2>1, <2>2, <2>3, <2>4, <2>5, <2>6, <2>7, <2>8, <2>9, <2>10, <2>11 DEF Next, Continue
  <1>2. Inv /\ Inv' /\ [Next]_vars => [Safe]_vars
    <2> SUFFICES ASSUME Inv, Inv', Next, Loaded # {}, ~torn', ~Deleting, ~Deleting'
                 PROVE  Loaded' # {}
      OBVIOUS
    <2>1. Stored # {} \/ Legacy # {}
      BY LoadedWhen DEF Inv
    <2>2. Stored' # {} \/ Legacy' # {}
      BY <1>1, <2>1
    <2> QED BY <2>2, LoadedWhenNext DEF Inv
  <1> QED BY <1>2, InvHolds, PTL DEF Spec, CacheSurvives

\* The pointer is never linked to a version older than the one that was current
\* when the operation began.
THEOREM PointersMoveForward == Spec => MovesForward
  <1>1. ASSUME Inv, NEW p \in Procs, MakeLink(p) PROVE mem[p].version >= mem[p].start
    BY <1>1, AtReplacing DEF MakeLink, Replacing
  <1>2. Inv /\ [Next]_vars =>
            [\A p \in Procs : (MakeLink(p) /\ pointer' # pointer) => mem[p].version >= mem[p].start]_vars
    BY <1>1
  <1> QED BY <1>2, InvHolds, PTL DEF Spec, MovesForward
=============================================================================
