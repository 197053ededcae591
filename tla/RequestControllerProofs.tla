----------------------- MODULE RequestControllerProofs -----------------------
(***************************************************************************)
(* RequestController for every set of requests and keys and every policy:  *)
(* its types, that slots are neither lost nor given back twice, that a     *)
(* retry keeps the delay it was told, and that only requests past their    *)
(* wait go out during a cooldown.                                          *)
(***************************************************************************)
EXTENDS RequestController, FiniteSetTheorems, TLAPS

-----------------------------------------------------------------------------
(***************************************************************************)
(* The inductive invariant.  A delay is honoured because whoever owes one  *)
(* waits for a cooldown or sleeps for at least as long.                    *)
(***************************************************************************)

SlotsOK == IsFiniteSet(Sending) /\ SlotsAreRequests

OwedBy(label, ticks, limit, sleep) ==
    /\ label \in {"new", "acquire", "flight"} => ticks = 0
    /\ label = "wait" => ticks <= limit
    /\ label = "sleep" => ticks <= sleep
OwedOK == \A r \in Requests : OwedBy(pc[r], owed[r], cooldown[KeyOf[r]], delay[r])

EarlyOK == \A r \in Requests : pc[r] = "acquire" /\ cooldown[KeyOf[r]] > 0 => r \in early

Inv == TypeOK /\ SlotsOK /\ OwedOK /\ EarlyOK

-----------------------------------------------------------------------------
(***************************************************************************)
(* Lemmas.                                                                 *)
(***************************************************************************)

LEMMA MaxOfTwo ==
    ASSUME NEW a \in Nat, NEW b \in Nat
    PROVE  Max({a, b}) \in Nat /\ Max({a, b}) >= a /\ Max({a, b}) >= b
  <1>1. \E x \in {a, b} : \A y \in {a, b} : x >= y
    <2>1. CASE a >= b
      BY <2>1
    <2>2. CASE b >= a
      BY <2>2
    <2> QED BY <2>1, <2>2
  <1>2. Max({a, b}) \in {a, b} /\ \A y \in {a, b} : Max({a, b}) >= y
    BY <1>1, Zenon DEF Max
  <1> QED BY <1>2

LEMMA KeyTyped == ASSUME NEW r \in Requests PROVE KeyOf[r] \in Keys
  BY KeyOfTyped

LEMMA AttemptsPositive == ASSUME NEW r \in Requests PROVE Attempts(r) \in Nat /\ Attempts(r) >= 1
  BY PolicyPositive DEF Attempts

\* A product of naturals is one.
LEMMA LimitTyped == ASSUME TypeOK, NEW r \in Requests PROVE Limit(r) \in Nat
  <1>1. CASE response[r].after = Absent
    <2>1. Cooldown \in Nat /\ rateLimitCount[KeyOf[r]] + 1 \in Nat
      BY KeyTyped, PolicyPositive DEF TypeOK
    <2>2. \A m, n \in Nat : m * n \in Nat
      OBVIOUS
    <2> QED BY <1>1, <2>1, <2>2 DEF Limit
  <1>2. CASE response[r].after # Absent
    <2>1. response[r].after \in RetryAfters
      BY <1>2 DEF TypeOK, Responses, NoResponse
    <2> QED BY <1>2, <2>1, TicksAreNat DEF Limit
  <1> QED BY <1>1, <1>2

\* A step that moves only request r, between labels that hold no slot.
LEMMA SameSending ==
    ASSUME Inv, NEW r \in Requests, NEW l \in Labels, Goto(r, l), slots' = slots,
           pc[r] \in {"flight", "release"} <=> l \in {"flight", "release"}
    PROVE  SlotsOK'
  <1>1. Sending' = Sending
    BY DEF Sending, Goto, Inv, TypeOK
  <1> QED BY <1>1 DEF SlotsOK, SlotsAreRequests, Inv

-----------------------------------------------------------------------------
(***************************************************************************)
(* One lemma per action.                                                   *)
(***************************************************************************)

LEMMA InitInv == Init => Inv
  <1> SUFFICES ASSUME Init PROVE Inv
    OBVIOUS
  <1>1. TypeOK
    BY AttemptsPositive, PolicyPositive, TicksAreNat DEF Init, TypeOK, Labels, NoResponse
  <1>2. SlotsOK
    <2>1. Sending = {}
      BY DEF Init, Sending
    <2> QED BY <2>1, FS_EmptySet DEF Init, SlotsOK, SlotsAreRequests
  <1>3. OwedOK /\ EarlyOK
    BY DEF Init, OwedOK, OwedBy, EarlyOK
  <1> QED BY <1>1, <1>2, <1>3 DEF Inv

LEMMA StartKeeps == ASSUME Inv, NEW r \in Requests, Start(r) PROVE Inv'
  <1>1. TypeOK'
    BY AttemptsPositive DEF Inv, TypeOK, Start, Goto, schedule, observed, Labels
  <1>2. SlotsOK'
    BY SameSending DEF Start, Labels
  <1>3. OwedOK' /\ EarlyOK'
    BY KeyTyped DEF Inv, TypeOK, OwedOK, OwedBy, EarlyOK, Start, Goto, schedule, observed
  <1> QED BY <1>1, <1>2, <1>3 DEF Inv

LEMMA WaitKeeps == ASSUME Inv, NEW r \in Requests, Wait(r) PROVE Inv'
  <1>1. TypeOK'
    BY TicksAreNat DEF Inv, TypeOK, Wait, Goto, Labels
  <1>2. SlotsOK'
    BY SameSending DEF Wait, Labels
  <1>3. OwedOK' /\ EarlyOK'
    BY KeyTyped DEF Inv, TypeOK, OwedOK, OwedBy, EarlyOK, Wait, Goto
  <1> QED BY <1>1, <1>2, <1>3 DEF Inv

LEMMA WaitCanceledKeeps == ASSUME Inv, NEW r \in Requests, WaitCanceled(r) PROVE Inv'
  <1>1. TypeOK'
    BY DEF Inv, TypeOK, WaitCanceled, Goto, schedule, observed, Labels
  <1>2. SlotsOK'
    BY SameSending DEF WaitCanceled, Labels
  <1>3. OwedOK' /\ EarlyOK'
    BY DEF Inv, TypeOK, OwedOK, OwedBy, EarlyOK, WaitCanceled, Goto, schedule, observed
  <1> QED BY <1>1, <1>2, <1>3 DEF Inv

LEMMA AcquireKeeps == ASSUME Inv, NEW r \in Requests, Acquire(r) PROVE Inv'
  <1>1. TypeOK'
    <2>1. slots' \in 0..MaxConcurrent
      BY PolicyPositive DEF Inv, TypeOK, Acquire
    <2> QED BY <2>1 DEF Inv, TypeOK, Acquire, Goto, schedule, Labels
  <1>2. SlotsOK'
    <2>1. Sending' = Sending \cup {r} /\ r \notin Sending
      BY DEF Inv, TypeOK, Acquire, Goto, Sending
    <2> QED BY <2>1, FS_AddElement DEF Inv, SlotsOK, SlotsAreRequests, Acquire
  <1>3. OwedOK' /\ EarlyOK'
    BY DEF Inv, TypeOK, OwedOK, OwedBy, EarlyOK, Acquire, Goto, schedule
  <1> QED BY <1>1, <1>2, <1>3 DEF Inv

LEMMA AnswerKeeps ==
    ASSUME Inv, NEW r \in Requests, NEW answer \in Responses, Answer(r, answer)
    PROVE  Inv'
  <1>1. TypeOK'
    BY DEF Inv, TypeOK, Answer, Goto, schedule, observed, Labels
  <1>2. SlotsOK'
    BY SameSending DEF Answer, Labels
  <1>3. OwedOK' /\ EarlyOK'
    BY DEF Inv, TypeOK, OwedOK, OwedBy, EarlyOK, Answer, Goto, schedule, observed
  <1> QED BY <1>1, <1>2, <1>3 DEF Inv

LEMMA ReleaseKeeps == ASSUME Inv, NEW r \in Requests, Release(r) PROVE Inv'
  <1>1. Sending' = Sending \ {r} /\ r \in Sending
    BY DEF Inv, TypeOK, Release, Goto, Sending
  <1>2. SlotsOK'
    BY <1>1, FS_RemoveElement DEF Inv, SlotsOK, SlotsAreRequests, Release
  <1>3. slots' \in 0..MaxConcurrent
    <2>1. slots \in 0..MaxConcurrent /\ slots' = slots - 1
      BY DEF Inv, TypeOK, Release
    <2>2. slots # 0
      BY <1>1, FS_EmptySet DEF Inv, SlotsOK, SlotsAreRequests
    <2> QED BY <2>1, <2>2, PolicyPositive
  <1>4. TypeOK'
    BY <1>3 DEF Inv, TypeOK, Release, Goto, schedule, observed, Labels
  <1>5. OwedOK' /\ EarlyOK'
    BY DEF Inv, TypeOK, OwedOK, OwedBy, EarlyOK, Release, Goto, schedule, observed
  <1> QED BY <1>2, <1>4, <1>5 DEF Inv

\* The next attempt is within what the policy allows.
LEMMA ProceedTyped ==
    ASSUME Inv, NEW r \in Requests, NEW l \in Labels, Proceed(r, l)
    PROVE  /\ pc' \in [Requests -> Labels]
           /\ attempt' \in [Requests -> Nat] /\ \A s \in Requests : attempt'[s] <= Attempts(s)
           /\ response' \in [Requests -> Responses \cup {NoResponse}]
  <1>1. attempt[r] \in Nat /\ attempt[r] <= Attempts(r) /\ Attempts(r) \in Nat
    BY AttemptsPositive DEF Inv, TypeOK
  <1>2. attempt' \in [Requests -> Nat] /\ attempt'[r] <= Attempts(r)
        /\ \A s \in Requests \ {r} : attempt'[s] = attempt[s]
    BY <1>1 DEF Inv, TypeOK, Proceed, Last
  <1>3. \A s \in Requests : attempt'[s] <= Attempts(s)
    BY <1>2 DEF Inv, TypeOK
  <1> QED BY <1>2, <1>3 DEF Inv, TypeOK, Proceed, Goto, Labels

LEMMA RecordRateLimitKeeps == ASSUME Inv, NEW r \in Requests, RecordRateLimit(r) PROVE Inv'
  <1> DEFINE k == KeyOf[r]
             limit == Limit(r)
             longer == Max({cooldown[k], limit})
  <1>1. limit \in Nat /\ k \in Keys /\ cooldown[k] \in Nat
    BY LimitTyped, KeyTyped DEF Inv, TypeOK
  <1>2. longer \in Nat /\ longer >= limit /\ longer >= cooldown[k]
    BY <1>1, MaxOfTwo
  <1>3. /\ rateLimitCount' = [rateLimitCount EXCEPT ![k] = @ + 1]
        /\ cooldown' = [cooldown EXCEPT ![k] = longer]
        /\ owed' = [owed EXCEPT ![r] = limit]
        /\ early' = early \cup {s \in Requests : pc[s] = "acquire" /\ KeyOf[s] = k}
    BY DEF RecordRateLimit
  <1> HIDE DEF limit, longer
  <1>4. TypeOK'
    <2>1. cooldown' \in [Keys -> Nat] /\ rateLimitCount' \in [Keys -> Nat] /\ owed' \in [Requests -> Nat]
      BY <1>1, <1>2, <1>3 DEF Inv, TypeOK
    <2>2. early' \subseteq Requests
      BY <1>3 DEF Inv, TypeOK
    <2> QED BY <2>1, <2>2, ProceedTyped DEF Inv, TypeOK, RecordRateLimit, Labels
  <1>5. SlotsOK'
    BY SameSending DEF RecordRateLimit, Proceed, Labels
  <1>6. pc' = [pc EXCEPT ![r] = IF Last(r) THEN "done" ELSE "wait"] /\ delay' = delay
    BY DEF RecordRateLimit, Proceed, Goto
  <1>7. \A q \in Keys : cooldown'[q] >= cooldown[q]
    BY <1>1, <1>2, <1>3 DEF Inv, TypeOK
  <1>8. OwedOK'
    <2>1. ASSUME NEW s \in Requests, s # r PROVE OwedBy(pc'[s], owed'[s], cooldown'[KeyOf[s]], delay'[s])
      <3>1. pc'[s] = pc[s] /\ owed'[s] = owed[s] /\ delay'[s] = delay[s]
        BY <1>3, <1>6, <2>1 DEF Inv, TypeOK
      <3>2. cooldown'[KeyOf[s]] >= cooldown[KeyOf[s]] /\ cooldown'[KeyOf[s]] \in Nat
            /\ cooldown[KeyOf[s]] \in Nat /\ owed[s] \in Nat
        BY <1>4, <1>7, KeyTyped DEF Inv, TypeOK
      <3> QED BY <3>1, <3>2 DEF Inv, OwedOK, OwedBy
    <2>2. OwedBy(pc'[r], owed'[r], cooldown'[KeyOf[r]], delay'[r])
      <3>1. pc'[r] \in {"done", "wait"} /\ owed'[r] = limit /\ cooldown'[KeyOf[r]] = longer
        BY <1>1, <1>3, <1>6 DEF Inv, TypeOK
      <3> QED BY <1>2, <3>1 DEF OwedBy
    <2> QED BY <2>1, <2>2 DEF OwedOK
  <1>9. EarlyOK'
    <2>1. ASSUME NEW s \in Requests, pc'[s] = "acquire", cooldown'[KeyOf[s]] > 0 PROVE s \in early'
      <3>1. pc[s] = "acquire"
        BY <1>6, <2>1 DEF Inv, TypeOK
      <3>2. CASE KeyOf[s] = k
        BY <1>3, <3>1, <3>2
      <3>3. CASE KeyOf[s] # k
        BY <1>3, <2>1, <3>1, <3>3, KeyTyped DEF Inv, TypeOK, EarlyOK
      <3> QED BY <3>2, <3>3
    <2> QED BY <2>1 DEF EarlyOK
  <1> QED BY <1>4, <1>5, <1>8, <1>9 DEF Inv

LEMMA RecordAnswerKeeps == ASSUME Inv, NEW r \in Requests, RecordAnswer(r) PROVE Inv'
  <1>0. /\ rateLimitCount' \in [Keys -> Nat]
        /\ UNCHANGED <<nextAllowed, cooldown, slots, canceled, early>>
    BY DEF RecordAnswer, Inv, TypeOK
  <1>1. CASE response[r].kind = "ok"
    <2>1. /\ pc' = [pc EXCEPT ![r] = "done"] /\ response' = [response EXCEPT ![r] = NoResponse]
          /\ UNCHANGED <<attempt, delay, owed>>
      BY <1>1 DEF RecordAnswer, Goto
    <2>2. TypeOK'
      BY <1>0, <2>1 DEF Inv, TypeOK, Labels
    <2>3. SlotsOK'
      <3>1. Goto(r, "done") /\ pc[r] = "record" /\ "done" \in Labels
        BY <1>1 DEF RecordAnswer, Labels
      <3> QED BY <1>0, <3>1, SameSending
    <2>4. OwedOK' /\ EarlyOK'
      BY <1>0, <2>1 DEF Inv, TypeOK, OwedOK, OwedBy, EarlyOK
    <2> QED BY <2>2, <2>3, <2>4 DEF Inv
  <1>2. CASE response[r].kind = "error"
    <2>1. PICK d \in (IF response[r].after = Absent THEN Delays ELSE {response[r].after}) :
              /\ delay' = [delay EXCEPT ![r] = IF Last(r) THEN 0 ELSE d]
              /\ owed' = [owed EXCEPT ![r] = d]
      BY <1>2 DEF RecordAnswer
    <2>2. d \in Nat
      <3>1. response[r] \in Responses \cup {NoResponse}
        BY DEF Inv, TypeOK
      <3>2. response[r].after # Absent => response[r].after \in RetryAfters
        BY <3>1 DEF Responses, NoResponse
      <3> QED BY <2>1, <3>2, TicksAreNat
    <2>3. Proceed(r, "sleep")
      BY <1>2 DEF RecordAnswer
    <2>4. TypeOK'
      <3>1. delay' \in [Requests -> Nat] /\ owed' \in [Requests -> Nat]
        BY <2>1, <2>2 DEF Inv, TypeOK
      <3> QED BY <1>0, <2>3, <3>1, ProceedTyped DEF Inv, TypeOK, Labels
    <2>5. SlotsOK'
      BY <1>0, <2>3, SameSending DEF RecordAnswer, Proceed, Labels
    <2>6. pc' = [pc EXCEPT ![r] = IF Last(r) THEN "done" ELSE "sleep"]
      BY <2>3 DEF Proceed, Goto
    <2>7. OwedOK'
      <3>1. ASSUME NEW s \in Requests, s # r PROVE OwedBy(pc'[s], owed'[s], cooldown'[KeyOf[s]], delay'[s])
        BY <1>0, <2>1, <2>6, <3>1 DEF Inv, TypeOK, OwedOK
      <3>2. OwedBy(pc'[r], owed'[r], cooldown'[KeyOf[r]], delay'[r])
        <4>1. CASE Last(r)
          <5>1. pc'[r] = "done"
            BY <2>6, <4>1 DEF Inv, TypeOK
          <5> QED BY <5>1 DEF OwedBy
        <4>2. CASE ~Last(r)
          <5>1. pc'[r] = "sleep" /\ owed'[r] = d /\ delay'[r] = d
            BY <2>1, <2>6, <4>2 DEF Inv, TypeOK
          <5> QED BY <2>2, <5>1 DEF OwedBy
        <4> QED BY <4>1, <4>2
      <3> QED BY <3>1, <3>2 DEF OwedOK
    <2>8. EarlyOK'
      BY <1>0, <2>6 DEF Inv, TypeOK, EarlyOK
    <2> QED BY <2>4, <2>5, <2>7, <2>8 DEF Inv
  <1> QED BY <1>1, <1>2 DEF RecordAnswer

LEMMA WakeKeeps == ASSUME Inv, NEW r \in Requests, Wake(r) PROVE Inv'
  <1>1. TypeOK'
    BY DEF Inv, TypeOK, Wake, Goto, schedule, observed, Labels
  <1>2. SlotsOK'
    BY SameSending DEF Wake, Labels
  <1>3. OwedOK' /\ EarlyOK'
    BY KeyTyped DEF Inv, TypeOK, OwedOK, OwedBy, EarlyOK, Wake, Goto, schedule, observed
  <1> QED BY <1>1, <1>2, <1>3 DEF Inv

LEMMA CancelKeeps == ASSUME Inv, NEW r \in Requests, Cancel(r) PROVE Inv'
  BY DEF Inv, TypeOK, SlotsOK, SlotsAreRequests, Sending, OwedOK, OwedBy, EarlyOK, Cancel, schedule, observed

LEMMA LessTyped ==
    ASSUME NEW S, NEW f \in [S -> Nat]
    PROVE  /\ Less(f) \in [S -> Nat]
           /\ \A x \in S : Less(f)[x] = IF f[x] > 0 THEN f[x] - 1 ELSE 0
  BY DEF Less

LEMMA TickKeeps == ASSUME Inv, Tick PROVE Inv'
  <1>1. /\ nextAllowed \in [Keys -> Nat] /\ cooldown \in [Keys -> Nat]
        /\ delay \in [Requests -> Nat] /\ owed \in [Requests -> Nat]
    BY DEF Inv, TypeOK
  <1>2. /\ nextAllowed' = Less(nextAllowed) /\ cooldown' = Less(cooldown)
        /\ delay' = Less(delay) /\ owed' = Less(owed)
        /\ UNCHANGED <<rateLimitCount, slots, pc, attempt, response, canceled, early>>
    BY DEF Tick
  <1>3. /\ nextAllowed' \in [Keys -> Nat] /\ cooldown' \in [Keys -> Nat]
        /\ delay' \in [Requests -> Nat] /\ owed' \in [Requests -> Nat]
    BY <1>1, <1>2, LessTyped
  <1>5. TypeOK'
    BY <1>2, <1>3 DEF Inv, TypeOK
  <1>6. SlotsOK'
    BY <1>2 DEF Inv, SlotsOK, SlotsAreRequests, Sending
  <1>7. \A k \in Keys : cooldown'[k] = IF cooldown[k] > 0 THEN cooldown[k] - 1 ELSE 0
    BY <1>1, <1>2, LessTyped
  <1>8. \A r \in Requests : /\ delay'[r] = IF delay[r] > 0 THEN delay[r] - 1 ELSE 0
                            /\ owed'[r] = IF owed[r] > 0 THEN owed[r] - 1 ELSE 0
    BY <1>1, <1>2, LessTyped
  <1>9. OwedOK' /\ EarlyOK'
    BY <1>1, <1>2, <1>7, <1>8, KeyTyped DEF Inv, TypeOK, OwedOK, OwedBy, EarlyOK
  <1> QED BY <1>5, <1>6, <1>9 DEF Inv

LEMMA StepInv == Inv /\ [Next]_vars => Inv'
  <1> SUFFICES ASSUME Inv, [Next]_vars PROVE Inv'
    OBVIOUS
  <1>1. CASE Tick
    BY <1>1, TickKeeps
  <1>2. ASSUME NEW r \in Requests, Start(r) \/ Cancel(r) PROVE Inv'
    BY <1>2, StartKeeps, CancelKeeps
  <1>3. ASSUME NEW r \in Requests, Continue(r) PROVE Inv'
    BY <1>3, WaitKeeps, WaitCanceledKeeps, AcquireKeeps, ReleaseKeeps, RecordRateLimitKeeps,
       RecordAnswerKeeps, WakeKeeps, AnswerKeeps DEF Continue
  <1>4. CASE UNCHANGED vars
    BY <1>4 DEF vars, Inv, TypeOK, SlotsOK, SlotsAreRequests, Sending, OwedOK, OwedBy, EarlyOK
  <1> QED BY <1>1, <1>2, <1>3, <1>4 DEF Next

LEMMA InvHolds == Spec => []Inv
  BY InitInv, StepInv, PTL DEF Spec

-----------------------------------------------------------------------------
(***************************************************************************)
(* Theorems.                                                               *)
(***************************************************************************)

\* Types; in particular the slots stay within the pool.
THEOREM TypeCorrect == Spec => []TypeOK
  <1>1. Inv => TypeOK
    BY DEF Inv
  <1> QED BY <1>1, InvHolds, PTL

\* The slots taken are the requests on the network.
THEOREM SlotsCorrect == Spec => []SlotsAreRequests
  <1>1. Inv => SlotsAreRequests
    BY DEF Inv, SlotsOK
  <1> QED BY <1>1, InvHolds, PTL

\* No retry goes out before the delay it was told is over.
THEOREM DelaysHonoured == Spec => []RetryAfterHonoured
  <1>1. Inv => RetryAfterHonoured
    BY DEF Inv, OwedOK, OwedBy, RetryAfterHonoured
  <1> QED BY <1>1, InvHolds, PTL

\* During a cooldown only those go out that were past their wait when it began.
THEOREM CooldownsHold == Spec => CooldownHeld
  <1>1. Inv /\ [Next]_vars =>
            [\A r \in Requests : Acquire(r) /\ cooldown[KeyOf[r]] > 0 => r \in early]_vars
    BY DEF Inv, EarlyOK, Acquire
  <1> QED BY <1>1, InvHolds, PTL DEF Spec, CooldownHeld
=============================================================================
