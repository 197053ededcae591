-------------------------- MODULE RequestController --------------------------
(***************************************************************************)
(* The transport all HTTP clients of fbrcm share: pacing and cooldowns per *)
(* schedule key, a pool of request slots for all keys, retries and         *)
(* cancellation.  One step is one critical section of the controller, one  *)
(* channel operation or one event of the network.                          *)
(*                                                                         *)
(* Instants are kept as the ticks left until them.                         *)
(***************************************************************************)
EXTENDS Integers, FiniteSets, FiniteSetsExt

CONSTANTS
    Requests,
    Keys,
    KeyOf,              \* schedule key of each request
    Replayable,         \* requests whose body can be sent again
    Cancelable,         \* bound: requests whose context may end
    MaxConcurrent,      \* request slots
    Interval,           \* ticks between paced requests, 0 for no pacing
    Cooldown,           \* base of the cooldown after a 429 without Retry-After
    MaxAttempts,
    Delays,             \* calculated retry delays
    RetryAfters         \* values of Retry-After the service sends

Absent == -1
ASSUME KeyOfTyped == KeyOf \in [Requests -> Keys]
ASSUME RequestKinds == Replayable \subseteq Requests /\ Cancelable \subseteq Requests
ASSUME PolicyPositive == MaxConcurrent \in Nat \ {0} /\ MaxAttempts \in Nat \ {0} /\ Cooldown \in Nat \ {0}
ASSUME TicksAreNat == Interval \in Nat /\ Delays \subseteq Nat /\ RetryAfters \subseteq Nat

VARIABLES
    nextAllowed, cooldown,  \* by key: ticks left
    rateLimitCount,         \* by key: 429s in a row
    slots,                  \* tokens in the channel
    pc, attempt, response,
    delay,                  \* ticks a request sleeps before its next attempt
    canceled,               \* requests whose context has ended
    owed,                   \* ticks before which a retry was told not to come (history variable)
    early                   \* requests past wait when a cooldown began (history variable)

vars == <<nextAllowed, cooldown, rateLimitCount, slots, pc, attempt, response, delay,
          canceled, owed, early>>
schedule == <<nextAllowed, cooldown, rateLimitCount>>
observed == <<owed, early>>

\* kind: "ok" for any answer that is final, "error" for a failure worth a retry.
Responses == [kind : {"ok", "error", "limited"}, after : RetryAfters \cup {Absent}]
NoResponse == [kind |-> "none", after |-> Absent]
Labels == {"new", "wait", "acquire", "flight", "release", "record", "sleep", "done", "failed"}

Init ==
    /\ nextAllowed = [k \in Keys |-> 0]
    /\ cooldown = [k \in Keys |-> 0]
    /\ rateLimitCount = [k \in Keys |-> 0]
    /\ slots = 0
    /\ pc = [r \in Requests |-> "new"]
    /\ attempt = [r \in Requests |-> 0]
    /\ response = [r \in Requests |-> NoResponse]
    /\ delay = [r \in Requests |-> 0]
    /\ canceled = {}
    /\ owed = [r \in Requests |-> 0]
    /\ early = {}

Goto(r, label) == pc' = [pc EXCEPT ![r] = label]
Attempts(r) == IF r \in Replayable THEN MaxAttempts ELSE 1

-----------------------------------------------------------------------------
\* RoundTrip, one attempt after the other.

Start(r) ==
    /\ pc[r] = "new"
    /\ Goto(r, "wait")
    /\ attempt' = [attempt EXCEPT ![r] = 1]
    /\ UNCHANGED <<schedule, slots, response, delay, canceled, observed>>

\* The pace and the cooldown are over; the next request of the key waits a pace.
Wait(r) ==
    /\ pc[r] = "wait"
    /\ nextAllowed[KeyOf[r]] = 0 /\ cooldown[KeyOf[r]] = 0
    /\ nextAllowed' = [nextAllowed EXCEPT ![KeyOf[r]] = Interval]
    /\ early' = early \ {r}
    /\ Goto(r, "acquire")
    /\ UNCHANGED <<cooldown, rateLimitCount, slots, attempt, response, delay, canceled, owed>>

\* A context that ends stops the waits; with nothing to wait for it is not noticed.
WaitCanceled(r) ==
    /\ r \in canceled
    /\ \/ pc[r] = "wait" /\ (nextAllowed[KeyOf[r]] > 0 \/ cooldown[KeyOf[r]] > 0)
       \/ pc[r] = "acquire"
       \/ pc[r] = "sleep" /\ delay[r] > 0
    /\ Goto(r, "failed")
    /\ UNCHANGED <<schedule, slots, attempt, response, delay, canceled, observed>>

\* A slot is free: the request goes out.
Acquire(r) ==
    /\ pc[r] = "acquire"
    /\ slots < MaxConcurrent
    /\ slots' = slots + 1
    /\ Goto(r, "flight")
    /\ UNCHANGED <<schedule, attempt, response, delay, canceled, owed, early>>

\* The service answers, or the network or the context breaks the request off.
Answer(r, answer) ==
    /\ pc[r] = "flight"
    /\ answer.kind = "ok" => answer.after = Absent
    /\ response' = [response EXCEPT ![r] = answer]
    /\ Goto(r, "release")
    /\ UNCHANGED <<schedule, slots, attempt, delay, canceled, observed>>

\* A mutant: a canceled request leaves without giving its slot back.
ReleaseUnlessCanceled(r) ==
    /\ pc[r] = "release"
    /\ slots' = IF r \in canceled THEN slots ELSE slots - 1
    /\ Goto(r, IF r \in canceled THEN "failed" ELSE "record")
    /\ UNCHANGED <<schedule, attempt, response, delay, canceled, observed>>

\* The slot is given back; a canceled request reports its context's error and
\* records nothing.
Release(r) ==
    /\ pc[r] = "release"
    /\ slots' = slots - 1
    /\ Goto(r, IF r \in canceled THEN "failed" ELSE "record")
    /\ UNCHANGED <<schedule, attempt, response, delay, canceled, observed>>

Limit(r) == IF response[r].after = Absent
            THEN Cooldown * (rateLimitCount[KeyOf[r]] + 1) ELSE response[r].after

Last(r) == attempt[r] = Attempts(r)

\* The next attempt, or the end with the answer in hand.
Proceed(r, label) ==
    /\ Goto(r, IF Last(r) THEN "done" ELSE label)
    /\ attempt' = [attempt EXCEPT ![r] = IF Last(r) THEN @ ELSE @ + 1]
    /\ response' = [response EXCEPT ![r] = NoResponse]

\* A mutant: the last 429 sets the cooldown, also to an earlier end.
RecordRateLimitLast(r) ==
    /\ pc[r] = "record" /\ response[r].kind = "limited"
    /\ rateLimitCount' = [rateLimitCount EXCEPT ![KeyOf[r]] = @ + 1]
    /\ cooldown' = [cooldown EXCEPT ![KeyOf[r]] = Limit(r)]
    /\ early' = early \cup {s \in Requests : pc[s] = "acquire" /\ KeyOf[s] = KeyOf[r]}
    /\ owed' = [owed EXCEPT ![r] = Limit(r)]
    /\ Proceed(r, "wait")
    /\ UNCHANGED <<nextAllowed, slots, delay, canceled>>

\* A 429 lengthens the cooldown of the key; the retry waits for it with the others.
RecordRateLimit(r) ==
    /\ pc[r] = "record" /\ response[r].kind = "limited"
    /\ rateLimitCount' = [rateLimitCount EXCEPT ![KeyOf[r]] = @ + 1]
    /\ cooldown' = [cooldown EXCEPT ![KeyOf[r]] = Max({@, Limit(r)})]
    /\ early' = early \cup {s \in Requests : pc[s] = "acquire" /\ KeyOf[s] = KeyOf[r]}
    /\ owed' = [owed EXCEPT ![r] = Limit(r)]
    /\ Proceed(r, "wait")
    /\ UNCHANGED <<nextAllowed, slots, delay, canceled>>

\* Any other answer ends the row of 429s.
RecordAnswer(r) ==
    /\ pc[r] = "record" /\ response[r].kind # "limited"
    /\ rateLimitCount' = [rateLimitCount EXCEPT ![KeyOf[r]] = 0]
    /\ \/ /\ response[r].kind = "ok"
          /\ Goto(r, "done")
          /\ response' = [response EXCEPT ![r] = NoResponse]
          /\ UNCHANGED <<attempt, delay, owed>>
       \/ /\ response[r].kind = "error"
          /\ Proceed(r, "sleep")
          /\ \E d \in (IF response[r].after = Absent THEN Delays ELSE {response[r].after}) :
                /\ delay' = [delay EXCEPT ![r] = IF Last(r) THEN 0 ELSE d]
                /\ owed' = [owed EXCEPT ![r] = d]
    /\ UNCHANGED <<nextAllowed, cooldown, slots, canceled, early>>

Wake(r) ==
    /\ pc[r] = "sleep"
    /\ delay[r] = 0
    /\ Goto(r, "wait")
    /\ UNCHANGED <<schedule, slots, attempt, response, delay, canceled, observed>>

Cancel(r) ==
    /\ r \in Cancelable \ canceled
    /\ pc[r] \notin {"new", "done", "failed"}
    /\ canceled' = canceled \cup {r}
    /\ UNCHANGED <<schedule, slots, pc, attempt, response, delay, observed>>

Less(f) == [x \in DOMAIN f |-> IF f[x] > 0 THEN f[x] - 1 ELSE 0]

\* A request that is not waiting for time, for a slot or for the network.
Running(r) ==
    \/ pc[r] = "wait" /\ nextAllowed[KeyOf[r]] = 0 /\ cooldown[KeyOf[r]] = 0
    \/ pc[r] = "acquire" /\ slots < MaxConcurrent
    \/ pc[r] = "sleep" /\ delay[r] = 0
    \/ pc[r] \in {"release", "record"}

\* A tick is far longer than what a request does between two waits.
Tick ==
    /\ \A r \in Requests : ~Running(r)
    /\ nextAllowed' = Less(nextAllowed)
    /\ cooldown' = Less(cooldown)
    /\ delay' = Less(delay)
    /\ owed' = Less(owed)
    /\ UNCHANGED <<rateLimitCount, slots, pc, attempt, response, canceled, early>>

Continue(r) ==
    \/ Wait(r) \/ WaitCanceled(r) \/ Acquire(r) \/ Release(r)
    \/ RecordRateLimit(r) \/ RecordAnswer(r) \/ Wake(r)
    \/ \E answer \in Responses : Answer(r, answer)

Next == Tick \/ \E r \in Requests : Start(r) \/ Continue(r) \/ Cancel(r)

Spec == Init /\ [][Next]_vars

\* Fairness: time passes, every request is answered or broken off (the client has a
\* timeout), and a goroutine that can go on does; a channel serves its senders in
\* turn.
FairSpec ==
    /\ Spec
    /\ WF_vars(Tick)
    /\ \A r \in Requests : WF_vars(Continue(r)) /\ SF_vars(Acquire(r))

-----------------------------------------------------------------------------
\* Type invariant.
TypeOK ==
    /\ nextAllowed \in [Keys -> Nat] /\ cooldown \in [Keys -> Nat] /\ rateLimitCount \in [Keys -> Nat]
    /\ slots \in 0..MaxConcurrent
    /\ pc \in [Requests -> Labels]
    /\ attempt \in [Requests -> Nat] /\ \A r \in Requests : attempt[r] <= Attempts(r)
    /\ response \in [Requests -> Responses \cup {NoResponse}]
    /\ delay \in [Requests -> Nat] /\ owed \in [Requests -> Nat]
    /\ canceled \subseteq Requests /\ early \subseteq Requests

\* The slots taken are the requests in flight: none is lost or returned twice,
\* whatever is canceled, and a request that waits or sleeps holds none, so that the
\* cooldown of one key never takes the slots of another.
Sending == {r \in Requests : pc[r] \in {"flight", "release"}}
SlotsAreRequests == slots = Cardinality(Sending)

\* A request that goes out during a cooldown was past its wait when the cooldown
\* was recorded; each such request goes out once.
CooldownHeld ==
    [][\A r \in Requests : Acquire(r) /\ cooldown[KeyOf[r]] > 0 => r \in early]_vars

\* A retry never goes out before the end of the delay its last answer asked for or
\* the policy calculated, whatever other requests of the key were told since.
RetryAfterHonoured == \A r \in Requests : pc[r] \in {"acquire", "flight"} => owed[r] = 0

\* Every request that is started ends: nobody waits for a slot, a pace or a cooldown
\* for ever.
Ends == <>[](\A r \in Requests : pc[r] \in {"new", "done", "failed"})
=============================================================================
