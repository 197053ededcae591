--------------------------- MODULE McpServerProofs ---------------------------
(***************************************************************************)
(* McpServer for every number of operations, calls, places and questions:  *)
(* its types, that a mutation runs only with the consent of its client,    *)
(* that executions take turns, and that answers reach their questions.     *)
(***************************************************************************)
EXTENDS McpServer, TLAPS

-----------------------------------------------------------------------------
(***************************************************************************)
(* The inductive invariant.  Consent depends on when the approval question *)
(* is asked: it is the first one, so its answer is recorded under 1.  What *)
(* an operation reads is an answer to its current question, because only   *)
(* that question is pending once it was sent.                              *)
(***************************************************************************)

\* A question is being asked, and one that was sent and not given up.
Asking(r) == r.phase \in {"ask", "push", "await"}
Sent(r) == r.phase \in {"push", "await"}
Inside(r) == r.phase = "execute" \/ (Asking(r) /\ r.why = "auth")

\* What the server took from the client fits the state r of an operation.
QuestionFits(r, taken) ==
    Sent(r) => /\ r.pending \in {0, r.asks}
               /\ r.pending = r.asks \/ r.reply # "none"
               /\ r.reply # "none" => <<r.asks, r.reply>> \in taken
ConsentFits(r, taken) ==
    /\ r.phase = "new" => r.asks = 0
    /\ Asking(r) /\ r.why = "confirm" => r.asks = 1
    /\ r.mutation /\ (r.phase = "queue" \/ Inside(r) \/ r.result = "executed")
        => <<1, "accept">> \in taken
Fits(r, taken) == QuestionFits(r, taken) /\ ConsentFits(r, taken)

\* An operation between EnterGate and ReleaseGate has the gate.
HoldsGate(r) == Inside(r) \/ r.phase = "release"

AnswersCome == \A c \in Calls : call[c].question # 0 => call[c].answer \in Answers

Inv ==
    /\ TypeOK
    /\ AnswersCome
    /\ \A o \in Ops : Fits(op[o], said[o])
    /\ \A o \in Ops : HoldsGate(op[o]) => gate = o

-----------------------------------------------------------------------------
(***************************************************************************)
(* Steps of one operation: it alone changes, so the invariant is kept if   *)
(* its new state fits and the gate is its own while it holds it.           *)
(***************************************************************************)

LEMMA FreshTyped == Fresh \in Operations /\ NoCall \in CallStates
  BY DEF Fresh, Operations, Phases, Results, Answers, NoCall, CallStates

\* The part of the invariant that is about operations.
OpsOK == op \in [Ops -> Operations] /\ (\A o \in Ops : Fits(op[o], said[o]))
         /\ (\A o \in Ops : HoldsGate(op[o]) => gate = o)

\* Operation o moves to r.
LEMMA BecomesWith ==
    ASSUME Inv, NEW o \in Ops, NEW r \in Operations, Become(o, r),
           Fits(r, said'[o]), \A q \in Ops \ {o} : said'[q] = said[q],
           HoldsGate(r) => gate' = o, \A q \in Ops \ {o} : HoldsGate(op[q]) => gate' = q
    PROVE  OpsOK'
  <1>1. op' \in [Ops -> Operations] /\ op'[o] = r /\ \A q \in Ops \ {o} : op'[q] = op[q]
    BY DEF Inv, TypeOK, Become
  <1>2. \A q \in Ops : Fits(op'[q], said'[q])
    BY <1>1 DEF Inv
  <1>3. \A q \in Ops : HoldsGate(op'[q]) => gate' = q
    BY <1>1 DEF Inv
  <1> QED BY <1>1, <1>2, <1>3 DEF OpsOK

\* The same when neither the answers nor the gate change.
LEMMA Becomes ==
    ASSUME Inv, NEW o \in Ops, NEW r \in Operations, Become(o, r),
           Fits(r, said[o]), HoldsGate(r) => gate = o, UNCHANGED <<gate, said>>
    PROVE  OpsOK'
  BY BecomesWith DEF Inv

\* The state of a running operation.
LEMMA Here ==
    ASSUME Inv, NEW o \in Ops
    PROVE  /\ op[o] \in Operations
           /\ Fits(op[o], said[o])
           /\ HoldsGate(op[o]) => gate = o
  BY DEF Inv, TypeOK

\* Entering a phase, ending, beginning to ask and losing the context keep an
\* operation typed.
LEMMA EnterTyped == ASSUME NEW r \in Operations, NEW ph \in Phases PROVE [r EXCEPT !.phase = ph] \in Operations
  BY DEF Operations

LEMMA EndTyped ==
    ASSUME NEW r \in Operations, NEW ph \in Phases, NEW res \in Results
    PROVE  [r EXCEPT !.phase = ph, !.result = res] \in Operations
  BY DEF Operations

LEMMA AskTyped ==
    ASSUME NEW r \in Operations, NEW w \in {"confirm", "auth"}
    PROVE  [r EXCEPT !.phase = "ask", !.why = w, !.asks = @ + 1] \in Operations
  <1>1. [r EXCEPT !.phase = "ask"] \in Operations
    BY EnterTyped DEF Phases
  <1>2. ASSUME NEW s \in Operations PROVE [s EXCEPT !.why = w] \in Operations
    BY DEF Operations
  <1>3. ASSUME NEW s \in Operations, NEW n \in Nat PROVE [s EXCEPT !.asks = n] \in Operations
    BY DEF Operations
  <1>4. r.asks + 1 \in Nat
    BY DEF Operations
  <1>5. [[[r EXCEPT !.phase = "ask"] EXCEPT !.why = w] EXCEPT !.asks = r.asks + 1] \in Operations
    BY <1>1, <1>2, <1>3, <1>4
  <1>6. [r EXCEPT !.phase = "ask", !.why = w, !.asks = @ + 1]
            = [[[r EXCEPT !.phase = "ask"] EXCEPT !.why = w] EXCEPT !.asks = r.asks + 1]
    BY DEF Operations
  <1> QED BY <1>5, <1>6

LEMMA LapseTyped == ASSUME NEW r \in Operations PROVE [r EXCEPT !.live = FALSE] \in Operations
  BY DEF Operations

-----------------------------------------------------------------------------
LEMMA BeginRunKeeps == ASSUME Inv, NEW o \in Ops, BeginRun(o) PROVE OpsOK'
  <1> DEFINE r == op[o]
  <1>1. r \in Operations /\ r.phase = "new" /\ r.asks = 0 /\ r.asks + 1 = 1
        /\ (r.mutation /\ r.result = "executed" => <<1, "accept">> \in said[o])
    BY Here DEF BeginRun, Fits, ConsentFits
  <1>2. CASE ~r.mutation
    <2>1. Become(o, [r EXCEPT !.phase = "queue"])
      BY <1>2 DEF BeginRun, Enter
    <2>2. [r EXCEPT !.phase = "queue"] \in Operations
      BY <1>1, EnterTyped DEF Phases
    <2>3. Fits([r EXCEPT !.phase = "queue"], said[o]) /\ ~HoldsGate([r EXCEPT !.phase = "queue"])
      BY <1>1, <1>2 DEF Fits, QuestionFits, ConsentFits, Sent, Asking, Inside, HoldsGate, Operations
    <2> QED BY <2>1, <2>2, <2>3, Becomes DEF BeginRun, history
  <1>3. CASE r.mutation /\ r.form
    <2> DEFINE s == [r EXCEPT !.phase = "ask", !.why = "confirm", !.asks = @ + 1]
    <2>1. Become(o, s)
      BY <1>3 DEF BeginRun, BeginAsk
    <2>2. s \in Operations
      BY <1>1, AskTyped
    <2>3. Fits(s, said[o]) /\ ~HoldsGate(s)
      BY <1>1 DEF Fits, QuestionFits, ConsentFits, Sent, Asking, Inside, HoldsGate, Operations
    <2> QED BY <2>1, <2>2, <2>3, Becomes DEF BeginRun, history
  <1>4. CASE r.mutation /\ ~r.form
    <2> DEFINE s == [r EXCEPT !.phase = "unregister", !.result = "noForm"]
    <2>1. Become(o, s)
      BY <1>4 DEF BeginRun, End
    <2>2. s \in Operations
      BY <1>1, EndTyped DEF Phases, Results
    <2>3. Fits(s, said[o]) /\ ~HoldsGate(s)
      BY <1>1 DEF Fits, QuestionFits, ConsentFits, Sent, Asking, Inside, HoldsGate, Operations
    <2> QED BY <2>1, <2>2, <2>3, Becomes DEF BeginRun, history
  <1> QED BY <1>2, <1>3, <1>4

LEMMA AskKeeps == ASSUME Inv, NEW o \in Ops, Ask(o) PROVE OpsOK'
  <1> DEFINE r == op[o]
             s == [r EXCEPT !.phase = "push", !.pending = r.asks, !.interacted = TRUE, !.reply = "none"]
  <1>1. r \in Operations /\ r.phase = "ask" /\ Fits(r, said[o]) /\ (HoldsGate(r) => gate = o)
    BY Here DEF Ask
  <1>2. s \in Operations
    BY <1>1 DEF Operations, Phases
  <1>3. Fits(s, said[o]) /\ (HoldsGate(s) => gate = o)
    BY <1>1 DEF Fits, QuestionFits, ConsentFits, Sent, Asking, Inside, HoldsGate, Operations
  <1>4. Become(o, s)
    BY DEF Ask
  <1> QED BY <1>2, <1>3, <1>4, Becomes DEF Ask, history

LEMMA PushKeeps == ASSUME Inv, NEW o \in Ops, Push(o) PROVE OpsOK'
  <1> DEFINE r == op[o]
             s == [r EXCEPT !.phase = "await", !.buffer = r.asks]
  <1>1. r \in Operations /\ r.phase = "push" /\ Fits(r, said[o]) /\ (HoldsGate(r) => gate = o)
    BY Here DEF Push
  <1>2. s \in Operations
    BY <1>1 DEF Operations, Phases
  <1>3. Fits(s, said[o]) /\ (HoldsGate(s) => gate = o)
    BY <1>1 DEF Fits, QuestionFits, ConsentFits, Sent, Asking, Inside, HoldsGate, Operations
  <1>4. Become(o, s)
    BY DEF Push
  <1> QED BY <1>2, <1>3, <1>4, Becomes DEF Push, history

\* The end of a question: approval needs the answer to be there.
LEMMA AfterAskKeeps ==
    ASSUME Inv, NEW o \in Ops, NEW accepted \in BOOLEAN, AfterAsk(o, accepted), Asking(op[o]),
           accepted /\ op[o].why = "confirm" => <<1, "accept">> \in said[o],
           UNCHANGED <<gate, said>>
    PROVE  OpsOK'
  <1> DEFINE r == op[o]
  <1>1. r \in Operations /\ Asking(r) /\ Fits(r, said[o]) /\ (HoldsGate(r) => gate = o)
    BY Here
  <1>2. CASE r.why = "auth"
    <2> DEFINE s == [r EXCEPT !.phase = "execute"]
    <2>1. s \in Operations
      BY <1>1, EnterTyped DEF Phases
    <2>2. Fits(s, said[o]) /\ (HoldsGate(s) => gate = o)
      BY <1>1, <1>2 DEF Fits, QuestionFits, ConsentFits, Sent, Asking, Inside, HoldsGate, Operations
    <2>3. Become(o, s)
      BY <1>2 DEF AfterAsk, Enter
    <2> QED BY <2>1, <2>2, <2>3, Becomes
  <1>3. CASE r.why # "auth" /\ accepted
    <2> DEFINE s == [r EXCEPT !.phase = "queue"]
    <2>0. r.why = "confirm"
      BY <1>1, <1>3 DEF Operations
    <2>1. s \in Operations
      BY <1>1, EnterTyped DEF Phases
    <2>2. Fits(s, said[o]) /\ (HoldsGate(s) => gate = o)
      BY <1>1, <1>3, <2>0 DEF Fits, QuestionFits, ConsentFits, Sent, Asking, Inside, HoldsGate, Operations
    <2>3. Become(o, s)
      BY <1>3 DEF AfterAsk, Enter
    <2> QED BY <2>1, <2>2, <2>3, Becomes
  <1>4. CASE r.why # "auth" /\ ~accepted
    <2> DEFINE end == IF r.live THEN "refused" ELSE "canceled"
               s == [r EXCEPT !.phase = "unregister", !.result = end]
    <2>1. s \in Operations
      <3>1. end \in Results /\ "unregister" \in Phases
        BY DEF Results, Phases
      <3> QED BY <1>1, <3>1, EndTyped
    <2>2. s.phase = "unregister" /\ s.result # "executed"
      BY <1>1 DEF Operations
    <2>3. Fits(s, said[o]) /\ (HoldsGate(s) => gate = o)
      BY <2>2 DEF Fits, QuestionFits, ConsentFits, Sent, Asking, Inside, HoldsGate
    <2>4. Become(o, s)
      BY <1>4 DEF AfterAsk, End
    <2> QED BY <2>1, <2>3, <2>4, Becomes
  <1> QED BY <1>2, <1>3, <1>4

LEMMA AnsweredKeeps == ASSUME Inv, NEW o \in Ops, Answered(o) PROVE OpsOK'
  <1> DEFINE r == op[o]
  <1>1. r.phase = "await" /\ r.reply # "none" /\ Fits(r, said[o])
    BY Here DEF Answered
  <1>2. r.reply = "accept" /\ r.why = "confirm" => <<1, "accept">> \in said[o]
    BY <1>1 DEF Fits, QuestionFits, ConsentFits, Sent, Asking
  <1>3. Asking(r)
    BY <1>1 DEF Asking
  <1>4. AfterAsk(o, r.reply = "accept") /\ UNCHANGED <<gate, said>>
    BY DEF Answered, history
  <1>5. (r.reply = "accept") \in BOOLEAN
    OBVIOUS
  <1>6. CASE r.reply = "accept"
    BY <1>2, <1>3, <1>4, <1>6, AfterAskKeeps
  <1>7. CASE r.reply # "accept"
    BY <1>2, <1>3, <1>4, <1>7, AfterAskKeeps
  <1> QED BY <1>6, <1>7

LEMMA GiveUpKeeps == ASSUME Inv, NEW o \in Ops, GiveUp(o) PROVE OpsOK'
  <1>1. Asking(op[o]) /\ AfterAsk(o, FALSE) /\ UNCHANGED <<gate, said>>
    BY DEF GiveUp, Asking, history
  <1> QED BY <1>1, AfterAskKeeps


\* Nobody else is inside while the gate is free, and None is no operation.
LEMMA GateFree == ASSUME Inv, gate = None, NEW q \in Ops PROVE ~HoldsGate(op[q])
  BY NoneIsNoOp DEF Inv

LEMMA EnterGateKeeps == ASSUME Inv, NEW o \in Ops, EnterGate(o) PROVE OpsOK'
  <1> DEFINE r == op[o]
             s == IF r.live THEN [r EXCEPT !.phase = "execute"]
                            ELSE [r EXCEPT !.phase = "release", !.result = "canceled"]
  <1>1. r \in Operations /\ r.phase = "queue" /\ Fits(r, said[o])
    BY Here DEF EnterGate
  <1>2. s \in Operations
    BY <1>1, EnterTyped, EndTyped DEF Phases, Results
  <1>3. Fits(s, said[o])
    BY <1>1 DEF Fits, QuestionFits, ConsentFits, Sent, Asking, Inside, HoldsGate, Operations
  <1>4. Become(o, s)
    BY DEF EnterGate, Execute, Enter, End
  <1>5. gate' = o /\ said' = said /\ \A q \in Ops : ~HoldsGate(op[q])
    BY GateFree DEF EnterGate, history
  <1> HIDE DEF s
  <1> QED BY <1>2, <1>3, <1>4, <1>5, BecomesWith

LEMMA LeaveQueueKeeps == ASSUME Inv, NEW o \in Ops, LeaveQueue(o) PROVE OpsOK'
  <1> DEFINE s == [op[o] EXCEPT !.phase = "unregister", !.result = "canceled"]
  <1>1. op[o] \in Operations
    BY Here
  <1>2. s \in Operations
    BY <1>1, EndTyped DEF Phases, Results
  <1>3. Fits(s, said[o]) /\ ~HoldsGate(s)
    BY <1>1 DEF Fits, QuestionFits, ConsentFits, Sent, Asking, Inside, HoldsGate, Operations
  <1>4. Become(o, s)
    BY DEF LeaveQueue, End
  <1> QED BY <1>2, <1>3, <1>4, Becomes DEF LeaveQueue, history

LEMMA AskToSignInKeeps == ASSUME Inv, NEW o \in Ops, AskToSignIn(o) PROVE OpsOK'
  <1> DEFINE r == op[o]
             s == [r EXCEPT !.phase = "ask", !.why = "auth", !.asks = @ + 1]
  <1>1. r \in Operations /\ r.phase = "execute" /\ Fits(r, said[o]) /\ (HoldsGate(r) => gate = o)
    BY Here DEF AskToSignIn
  <1>2. s \in Operations
    BY <1>1, AskTyped
  <1>3. Fits(s, said[o]) /\ (HoldsGate(s) => gate = o)
    BY <1>1 DEF Fits, QuestionFits, ConsentFits, Sent, Asking, Inside, HoldsGate, Operations
  <1>4. Become(o, s)
    BY DEF AskToSignIn, BeginAsk
  <1> QED BY <1>2, <1>3, <1>4, Becomes DEF AskToSignIn, history

LEMMA ExecutedKeeps == ASSUME Inv, NEW o \in Ops, Executed(o) PROVE OpsOK'
  <1> DEFINE r == op[o]
             s == [r EXCEPT !.phase = "release", !.result = "executed"]
  <1>1. r \in Operations /\ r.phase = "execute" /\ Fits(r, said[o]) /\ (HoldsGate(r) => gate = o)
    BY Here DEF Executed
  <1>2. s \in Operations
    BY <1>1, EndTyped DEF Phases, Results
  <1>3. Fits(s, said[o]) /\ (HoldsGate(s) => gate = o)
    BY <1>1 DEF Fits, QuestionFits, ConsentFits, Sent, Asking, Inside, HoldsGate, Operations
  <1>4. Become(o, s)
    BY DEF Executed, End
  <1> QED BY <1>2, <1>3, <1>4, Becomes DEF Executed, history

LEMMA ReleaseGateKeeps == ASSUME Inv, NEW o \in Ops, ReleaseGate(o) PROVE OpsOK'
  <1> DEFINE r == op[o]
             s == [r EXCEPT !.phase = "unregister"]
  <1>1. r \in Operations /\ r.phase = "release" /\ Fits(r, said[o]) /\ (HoldsGate(r) => gate = o)
    BY Here DEF ReleaseGate
  <1>2. s \in Operations
    BY <1>1, EnterTyped DEF Phases
  <1>3. Fits(s, said[o]) /\ ~HoldsGate(s)
    BY <1>1 DEF Fits, QuestionFits, ConsentFits, Sent, Asking, Inside, HoldsGate, Operations
  <1>4. Become(o, s)
    BY DEF ReleaseGate, Enter
  <1>5. gate = o
    BY <1>1 DEF HoldsGate
  <1>6. \A q \in Ops \ {o} : ~HoldsGate(op[q])
    BY <1>5 DEF Inv
  <1>7. said' = said
    BY DEF ReleaseGate, history
  <1> HIDE DEF s
  <1> QED BY <1>2, <1>3, <1>4, <1>6, <1>7, BecomesWith

LEMMA UnregisterKeeps == ASSUME Inv, NEW o \in Ops, Unregister(o) PROVE OpsOK'
  <1> DEFINE r == op[o]
             s == [r EXCEPT !.phase = "close"]
  <1>1. r \in Operations /\ r.phase = "unregister" /\ Fits(r, said[o])
    BY Here DEF Unregister
  <1>2. s \in Operations
    BY <1>1, EnterTyped DEF Phases
  <1>3. Fits(s, said[o]) /\ ~HoldsGate(s)
    BY <1>1 DEF Fits, QuestionFits, ConsentFits, Sent, Asking, Inside, HoldsGate, Operations
  <1>4. Become(o, s)
    BY DEF Unregister, Enter
  <1> QED BY <1>2, <1>3, <1>4, Becomes DEF Unregister, history

LEMMA CloseDoneKeeps == ASSUME Inv, NEW o \in Ops, CloseDone(o) PROVE OpsOK'
  <1> DEFINE r == op[o]
             s == [r EXCEPT !.phase = "done", !.live = FALSE, !.pending = 0, !.reply = "none"]
  <1>1. r \in Operations /\ r.phase = "close" /\ Fits(r, said[o])
    BY Here DEF CloseDone
  <1>2. s \in Operations
    BY <1>1 DEF Operations, Phases
  <1>3. Fits(s, said[o]) /\ ~HoldsGate(s)
    BY <1>1 DEF Fits, QuestionFits, ConsentFits, Sent, Asking, Inside, HoldsGate, Operations
  <1>4. Become(o, s)
    BY DEF CloseDone
  <1> QED BY <1>2, <1>3, <1>4, Becomes DEF CloseDone, history

\* Losing its context takes nothing from an operation.
LEMMA LapseKeeps ==
    ASSUME Inv, NEW o \in Ops, Become(o, [op[o] EXCEPT !.live = FALSE]), UNCHANGED <<gate, said>>
    PROVE  OpsOK'
  <1> DEFINE r == op[o]
             s == [r EXCEPT !.live = FALSE]
  <1>1. r \in Operations /\ Fits(r, said[o]) /\ (HoldsGate(r) => gate = o)
    BY Here
  <1>2. s \in Operations
    BY <1>1, LapseTyped
  <1>3. Fits(s, said[o]) /\ (HoldsGate(s) => gate = o)
    BY <1>1 DEF Fits, QuestionFits, ConsentFits, Sent, Asking, Inside, HoldsGate, Operations
  <1> QED BY <1>2, <1>3, Becomes

LEMMA RunKeeps == ASSUME Inv, NEW o \in Ops, Run(o) PROVE OpsOK'
  BY BeginRunKeeps, AskKeeps, PushKeeps, AnsweredKeeps, GiveUpKeeps, EnterGateKeeps, LeaveQueueKeeps,
     AskToSignInKeeps, ExecutedKeeps, ReleaseGateKeeps, UnregisterKeeps, CloseDoneKeeps DEF Run

-----------------------------------------------------------------------------
(***************************************************************************)
(* Steps of the calls and of the server.                                   *)
(***************************************************************************)

LEMMA StartKeeps ==
    ASSUME Inv, NEW c \in Calls, NEW o \in Ops, StartOperation(c, o)
    PROVE  OpsOK'
  <1>1. PICK mutation \in BOOLEAN, form \in BOOLEAN :
            Become(o, [Fresh EXCEPT !.phase = "new", !.mutation = mutation, !.form = form])
    BY DEF StartOperation
  <1> DEFINE s == [Fresh EXCEPT !.phase = "new", !.mutation = mutation, !.form = form]
  <1>2. s \in Operations
    BY DEF Fresh, Operations, Phases, Results
  <1>3. Fits(s, said[o]) /\ ~HoldsGate(s)
    BY DEF Fresh, Fits, QuestionFits, ConsentFits, Sent, Asking, Inside, HoldsGate
  <1> QED BY <1>1, <1>2, <1>3, Becomes DEF StartOperation, history

\* An answer reaches the operation whose current question it names.
LEMMA LookKeeps == ASSUME Inv, NEW c \in Calls, Look(c) PROVE OpsOK'
  <1> DEFINE o == call[c].op
             r == op[o]
             n == call[c].question
             a == call[c].answer
             s == [r EXCEPT !.pending = 0, !.reply = a]
  <1>1. o \in Ops
    BY DEF Look, Inv, TypeOK
  <1>2. CASE UNCHANGED <<op, said>>
    BY <1>2 DEF Look, Inv, TypeOK, OpsOK
  <1>3. CASE ~UNCHANGED <<op, said>>
    <2>1. /\ n # 0 /\ n = r.pending
          /\ Become(o, s)
          /\ said' = [said EXCEPT ![o] = @ \cup {<<n, a>>}]
          /\ gate' = gate
      BY <1>3 DEF Look, history
    <2>2. r \in Operations /\ Fits(r, said[o]) /\ (HoldsGate(r) => gate = o)
      BY <1>1, Here
    <2>3. a \in Answers
      BY <2>1 DEF Inv, AnswersCome
    <2>4. s \in Operations
      BY <2>2, <2>3 DEF Operations
    <2>5. said'[o] = said[o] \cup {<<n, a>>} /\ \A q \in Ops \ {o} : said'[q] = said[q]
      BY <1>1, <2>1 DEF Inv, TypeOK
    <2>6. QuestionFits(s, said'[o])
      BY <2>1, <2>2, <2>3, <2>5 DEF Fits, QuestionFits, Sent, Operations, Answers
    <2>7. ConsentFits(s, said'[o]) /\ (HoldsGate(s) => gate' = o)
      BY <2>1, <2>2, <2>5 DEF Fits, ConsentFits, Asking, Inside, HoldsGate, Operations
    <2>8. \A q \in Ops \ {o} : HoldsGate(op[q]) => gate' = q
      BY <2>1 DEF Inv
    <2> HIDE DEF s
    <2> QED BY <1>1, <2>1, <2>4, <2>5, <2>6, <2>7, <2>8, BecomesWith DEF Fits
  <1> QED BY <1>2, <1>3

LEMMA TakeEventKeeps == ASSUME Inv, NEW c \in Calls, TakeEvent(c) PROVE OpsOK'
  <1> DEFINE o == call[c].op
             r == op[o]
             s == [r EXCEPT !.buffer = 0]
  <1>0. o \in Ops
    BY DEF TakeEvent, Inv, TypeOK
  <1>1. r \in Operations /\ Fits(r, said[o]) /\ (HoldsGate(r) => gate = o)
    BY <1>0, Here
  <1>2. s \in Operations
    BY <1>1 DEF Operations
  <1>3. Fits(s, said[o]) /\ (HoldsGate(s) => gate = o)
    BY <1>1 DEF Fits, QuestionFits, ConsentFits, Sent, Asking, Inside, HoldsGate, Operations
  <1>4. Become(o, s) /\ UNCHANGED <<gate, said>>
    BY DEF TakeEvent
  <1> QED BY <1>0, <1>2, <1>3, <1>4, Becomes

LEMMA CancelCallKeeps == ASSUME Inv, NEW c \in Calls, CancelCall(c) PROVE OpsOK'
  <1>1. call[c].op \in Ops
    BY DEF CancelCall, Inv, TypeOK
  <1> QED BY <1>1, LapseKeeps DEF CancelCall, history

LEMMA BeginCloseKeeps == ASSUME Inv, BeginClose PROVE OpsOK'
  <1>1. /\ op' = [o \in Ops |-> [op[o] EXCEPT !.live = op[o].phase = "none"]]
        /\ UNCHANGED <<gate, said>>
    BY DEF BeginClose, history
  <1>2. ASSUME NEW o \in Ops
        PROVE  /\ op'[o] \in Operations
               /\ Fits(op'[o], said'[o])
               /\ HoldsGate(op'[o]) => gate' = o
    <2> DEFINE r == op[o]
               s == [r EXCEPT !.live = r.phase = "none"]
    <2>1. r \in Operations /\ Fits(r, said[o]) /\ (HoldsGate(r) => gate = o)
      BY Here
    <2>2. s \in Operations
      <3>1. ASSUME NEW b \in BOOLEAN PROVE [r EXCEPT !.live = b] \in Operations
        BY <2>1 DEF Operations
      <3> QED BY <3>1
    <2>3. Fits(s, said[o]) /\ (HoldsGate(s) => gate = o)
      BY <2>1 DEF Fits, QuestionFits, ConsentFits, Sent, Asking, Inside, HoldsGate, Operations
    <2>4. op'[o] = s
      BY <1>1
    <2> HIDE DEF s
    <2> QED BY <1>1, <2>2, <2>3, <2>4
  <1>3. op' \in [Ops -> Operations]
    <2>1. op' = [o \in Ops |-> op'[o]]
      BY <1>1
    <2> QED BY <1>2, <2>1
  <1> QED BY <1>2, <1>3 DEF OpsOK

-----------------------------------------------------------------------------
(***************************************************************************)
(* The calls and the history variables.                                    *)
(***************************************************************************)

CallsOK ==
    /\ call \in [Calls -> CallStates]
    /\ \A c \in Calls : call[c].pc # "idle" => call[c].op \in Ops
    /\ AnswersCome

SharedOK ==
    /\ server \in {"open", "closing", "closed"}
    /\ jobs \subseteq Ops
    /\ gate \in Ops \cup {None}
    /\ shown \in [Ops -> SUBSET Questions]
    /\ said \in [Ops -> SUBSET (Questions \X Answers)]

LEMMA Parts == Inv <=> OpsOK /\ CallsOK /\ SharedOK
  BY DEF Inv, TypeOK, OpsOK, CallsOK, SharedOK

LEMMA Together == ASSUME OpsOK', CallsOK', SharedOK' PROVE Inv'
  BY DEF Inv, TypeOK, OpsOK, CallsOK, SharedOK

\* Call c becomes m.
LEMMA CallBecomes ==
    ASSUME CallsOK, NEW c \in Calls, NEW m \in CallStates, call' = [call EXCEPT ![c] = m],
           m.pc # "idle" => m.op \in Ops, m.question # 0 => m.answer \in Answers
    PROVE  CallsOK'
  <1>1. call' \in [Calls -> CallStates] /\ call'[c] = m /\ \A d \in Calls \ {c} : call'[d] = call[d]
    BY DEF CallsOK
  <1> HIDE DEF AnswersCome
  <1>2. \A d \in Calls : call'[d].pc # "idle" => call'[d].op \in Ops
    BY <1>1 DEF CallsOK
  <1>3. AnswersCome'
    BY <1>1 DEF CallsOK, AnswersCome
  <1> QED BY <1>1, <1>2, <1>3 DEF CallsOK

LEMMA ReturnKeeps == ASSUME CallsOK, NEW c \in Calls, Return(c) PROVE CallsOK'
  <1>1. NoCall \in CallStates /\ NoCall.pc = "idle" /\ NoCall.question = 0
    BY FreshTyped DEF NoCall
  <1> QED BY <1>1, CallBecomes DEF Return

LEMMA WaitKeeps == ASSUME CallsOK, NEW c \in Calls, call[c].op \in Ops, Wait(c) PROVE CallsOK'
  <1> DEFINE m == [NoCall EXCEPT !.pc = "wait", !.op = call[c].op]
  <1>1. m \in CallStates /\ m.op \in Ops /\ m.question = 0
    BY DEF NoCall, CallStates, Answers
  <1> QED BY <1>1, CallBecomes DEF Wait

\* A question that is shown has a number.
LEMMA ShowKeeps ==
    ASSUME SharedOK, NEW c \in Calls, NEW o \in Ops, NEW n \in Questions, Show(c, o, n)
    PROVE  shown' \in [Ops -> SUBSET Questions]
  BY DEF SharedOK, Show

LEMMA CallStepKeeps ==
    ASSUME Inv, NEW c \in Calls, NEW o \in Ops,
           \/ StartOperation(c, o) \/ ContinueOperation(c, o)
           \/ Serve(c) \/ CancelCall(c)
    PROVE  CallsOK' /\ SharedOK'
  <1>0. CallsOK /\ SharedOK
    BY Parts
  <1>1. CASE StartOperation(c, o)
    <2> DEFINE m == [NoCall EXCEPT !.pc = "look", !.op = o, !.first = TRUE]
    <2>1. m \in CallStates /\ m.op \in Ops /\ m.question = 0
      BY DEF NoCall, CallStates, Answers
    <2>2. CallsOK'
      BY <1>0, <1>1, <2>1, CallBecomes DEF StartOperation
    <2> QED BY <1>0, <1>1, <2>2 DEF StartOperation, SharedOK, history
  <1>2. CASE ContinueOperation(c, o)
    <2> DEFINE poll == [NoCall EXCEPT !.pc = "look", !.op = o]
               answer(n, a) == [NoCall EXCEPT !.pc = "look", !.op = o, !.question = n, !.answer = a]
    <2>1. \/ call' = [call EXCEPT ![c] = poll]
          \/ \E n \in shown[o], a \in Answers : call' = [call EXCEPT ![c] = answer(n, a)]
      BY <1>2 DEF ContinueOperation
    <2>2. shown[o] \subseteq Nat
      BY <1>0 DEF SharedOK, Questions
    <2>3. poll \in CallStates /\ poll.op \in Ops /\ poll.question = 0
      BY DEF NoCall, CallStates, Answers
    <2>4. ASSUME NEW n \in shown[o], NEW a \in Answers
          PROVE  answer(n, a) \in CallStates /\ answer(n, a).op \in Ops /\ answer(n, a).answer = a
      <3>1. n \in Nat
        BY <2>2
      <3> QED BY <3>1 DEF NoCall, CallStates
    <2> HIDE DEF poll, answer
    <2>5. CallsOK'
      BY <1>0, <2>1, <2>3, <2>4, CallBecomes
    <2> QED BY <1>0, <1>2, <2>5 DEF ContinueOperation, SharedOK, history
  <1>3. CASE Look(c)
    <2> DEFINE q == call[c].op
               r == op[q]
               n == call[c].question
    <2>1. q \in Ops /\ n \in Nat
      BY <1>0, <1>3 DEF Look, CallsOK, CallStates
    <2>2. r.pending \in Nat
      BY <2>1, Here DEF Operations
    <2>3. CallsOK'
      <3>1. Return(c) \/ Wait(c)
        BY <1>3 DEF Look, Show
      <3> QED BY <1>0, <2>1, <3>1, ReturnKeeps, WaitKeeps
    <2>4. shown' \in [Ops -> SUBSET Questions]
      <3>1. CASE UNCHANGED shown
        BY <1>0, <3>1 DEF SharedOK
      <3>2. CASE Show(c, q, r.pending) /\ r.pending # 0
        BY <1>0, <2>1, <2>2, <3>2, ShowKeeps DEF Questions
      <3> QED BY <1>3, <3>1, <3>2 DEF Look, history
    <2>5. said' \in [Ops -> SUBSET (Questions \X Answers)]
      <3>1. CASE UNCHANGED said
        BY <1>0, <3>1 DEF SharedOK
      <3>2. CASE n # 0 /\ said' = [said EXCEPT ![q] = @ \cup {<<n, call[c].answer>>}]
        <4>1. <<n, call[c].answer>> \in Questions \X Answers
          BY <1>0, <2>1, <3>2 DEF CallsOK, AnswersCome, Questions
        <4> QED BY <1>0, <2>1, <3>2, <4>1 DEF SharedOK
      <3> QED BY <1>3, <3>1, <3>2 DEF Look, history
    <2> QED BY <1>0, <1>3, <2>3, <2>4, <2>5 DEF Look, SharedOK
  <1>4. CASE ReturnResult(c)
    <2>1. CallsOK'
      BY <1>0, <1>4, ReturnKeeps DEF ReturnResult
    <2> QED BY <1>0, <1>4, <2>1 DEF ReturnResult, SharedOK, history
  <1>5. CASE TakeEvent(c)
    <2> DEFINE q == call[c].op
    <2>1. q \in Ops
      BY <1>0, <1>5 DEF TakeEvent, CallsOK
    <2>2. op[q].buffer \in Questions
      BY <1>5, <2>1, Here DEF TakeEvent, Operations, Questions
    <2>3. shown' \in [Ops -> SUBSET Questions]
      BY <1>0, <1>5, <2>1, <2>2, ShowKeeps DEF TakeEvent
    <2>4. CallsOK'
      BY <1>0, <1>5, ReturnKeeps DEF TakeEvent, Show
    <2> QED BY <1>0, <1>5, <2>3, <2>4 DEF TakeEvent, SharedOK
  <1>6. CASE CancelCall(c)
    <2>1. CallsOK'
      BY <1>0, <1>6, ReturnKeeps DEF CancelCall
    <2> QED BY <1>0, <1>6, <2>1 DEF CancelCall, SharedOK, history
  <1> QED BY <1>1, <1>2, <1>3, <1>4, <1>5, <1>6 DEF Serve

\* An operation leaves the calls and the history alone.
LEMMA RunLeaves == ASSUME Inv, NEW o \in Ops, Run(o) PROVE CallsOK' /\ SharedOK'
  <1>1. UNCHANGED <<server, call, shown, said>>
    BY DEF Run, BeginRun, Ask, Push, Answered, GiveUp, EnterGate, LeaveQueue, AskToSignIn, Executed,
           ReleaseGate, Unregister, CloseDone, history
  <1>2. jobs' \in {jobs, jobs \ {o}} /\ gate' \in {gate, o, None}
    BY DEF Run, BeginRun, Ask, Push, Answered, GiveUp, EnterGate, LeaveQueue, AskToSignIn, Executed,
           ReleaseGate, Unregister, CloseDone
  <1> QED BY <1>1, <1>2, Parts DEF CallsOK, AnswersCome, SharedOK

LEMMA InitInv == Init => Inv
  <1> SUFFICES ASSUME Init PROVE Inv
    OBVIOUS
  <1>1. OpsOK
    BY FreshTyped DEF Init, OpsOK, Fits, QuestionFits, ConsentFits, Sent, Asking, Inside, HoldsGate, Fresh
  <1>2. CallsOK
    BY FreshTyped DEF Init, CallsOK, AnswersCome, NoCall
  <1>3. SharedOK
    BY DEF Init, SharedOK
  <1> QED BY <1>1, <1>2, <1>3, Parts

LEMMA StepInv == Inv /\ [Next]_vars => Inv'
  <1> SUFFICES ASSUME Inv, [Next]_vars PROVE Inv'
    OBVIOUS
  <1>1. ASSUME NEW c \in Calls, NEW o \in Ops, StartOperation(c, o) PROVE Inv'
    BY <1>1, StartKeeps, CallStepKeeps, Together
  <1>2. ASSUME NEW c \in Calls, NEW o \in Ops, ContinueOperation(c, o) PROVE Inv'
    <2>1. OpsOK'
      BY <1>2 DEF ContinueOperation, history, Inv, TypeOK, OpsOK
    <2> QED BY <1>2, <2>1, CallStepKeeps, Together
  <1>3. ASSUME NEW c \in Calls, Serve(c) \/ CancelCall(c) PROVE Inv'
    <2>1. call[c].op \in Ops
      BY <1>3 DEF Serve, Look, ReturnResult, TakeEvent, CancelCall, Inv, TypeOK
    <2>2. CASE Look(c) \/ TakeEvent(c) \/ CancelCall(c)
      BY <1>3, <2>1, <2>2, LookKeeps, TakeEventKeeps, CancelCallKeeps, CallStepKeeps, Together
    <2>3. CASE ReturnResult(c)
      <3>1. OpsOK'
        BY <2>3 DEF ReturnResult, history, Inv, TypeOK, OpsOK
      <3> QED BY <1>3, <2>1, <3>1, CallStepKeeps, Together
    <2> QED BY <1>3, <2>2, <2>3 DEF Serve
  <1>4. ASSUME NEW o \in Ops, Run(o) PROVE Inv'
    BY <1>4, RunKeeps, RunLeaves, Together
  <1>5. ASSUME NEW o \in Ops, Expire(o) PROVE Inv'
    BY <1>5 DEF Expire, history, Inv, TypeOK, AnswersCome
  <1>6. ASSUME NEW o \in Ops, RequestTimeout(o) PROVE Inv'
    <2>1. OpsOK'
      BY <1>6, LapseKeeps DEF RequestTimeout, history
    <2>2. CallsOK' /\ SharedOK'
      BY <1>6, Parts DEF RequestTimeout, history, CallsOK, AnswersCome, SharedOK
    <2> QED BY <2>1, <2>2, Together
  <1>7. CASE BeginClose
    <2>1. CallsOK' /\ SharedOK'
      BY <1>7, Parts DEF BeginClose, history, CallsOK, AnswersCome, SharedOK
    <2> QED BY <1>7, <2>1, BeginCloseKeeps, Together
  <1>8. CASE EndClose
    BY <1>8 DEF EndClose, history, Inv, TypeOK, AnswersCome
  <1>9. CASE UNCHANGED vars
    BY <1>9 DEF vars, Inv, TypeOK, AnswersCome
  <1> QED BY <1>1, <1>2, <1>3, <1>4, <1>5, <1>6, <1>7, <1>8, <1>9 DEF Next

LEMMA InvHolds == Spec => []Inv
  BY InitInv, StepInv, PTL DEF Spec

-----------------------------------------------------------------------------
(***************************************************************************)
(* Theorems.                                                               *)
(***************************************************************************)

\* Types, for any operations and calls.
THEOREM TypeCorrect == Spec => []TypeOK
  <1>1. Inv => TypeOK
    BY DEF Inv
  <1> QED BY <1>1, InvHolds, PTL

\* No mutation runs without the consent of its client.
THEOREM MutationsNeedConsent == Spec => []Consent
  <1>1. Inv => Consent
    BY DEF Inv, Fits, ConsentFits, Consent, Executing, Approved, Inside, Asking
  <1> QED BY <1>1, InvHolds, PTL

\* At most one operation executes.
THEOREM ExecutionsTakeTurns == Spec => []OneAtATime
  <1>1. Inv => OneAtATime
    BY DEF Inv, OneAtATime, Executing, HoldsGate, Inside, Asking
  <1> QED BY <1>1, InvHolds, PTL

\* An operation reads only answers to the question it waits for.
THEOREM AnswersReachTheirQuestion == Spec => []AnswersMatch
  <1>1. Inv => AnswersMatch
    BY DEF Inv, AnswersMatch, Fits, QuestionFits, Sent
  <1> QED BY <1>1, InvHolds, PTL

\* An operation that waits for an answer can get one.
THEOREM QuestionsStayReachable == Spec => []QuestionReachable
  <1>1. Inv => QuestionReachable
    BY DEF Inv, QuestionReachable, Fits, QuestionFits, Sent
  <1> QED BY <1>1, InvHolds, PTL
=============================================================================
