------------------------------ MODULE McpServer ------------------------------
(***************************************************************************)
(* The MCP server: tool calls start operations, operations suspend for a   *)
(* question to the user (approval of a mutation, a sign-in link), and      *)
(* further calls continue them by their key.  Each operation runs in a     *)
(* goroutine of its own; executions take turns at the gate.                *)
(*                                                                         *)
(* An operation asks its questions one at a time (interactionGate), so a   *)
(* question is its number within its operation.  Launch configuration is   *)
(* --confirmation=host; where it is none no operation needs approval.      *)
(***************************************************************************)
EXTENDS Integers, FiniteSets

CONSTANTS
    Ops,        \* operations that can be started
    Calls,      \* tool calls that can be outstanding at once
    None,
    MaxJobs,    \* 64 in the code
    MaxAsks     \* bound on the questions of each operation

ASSUME NoneIsNoOp == None \notin Ops
ASSUME MaxJobsPositive == MaxJobs \in Nat \ {0}
ASSUME MaxAsksAreNat == MaxAsks \in [Ops -> Nat]

VARIABLES
    server,     \* "open", "closing" or "closed"
    jobs,       \* keys that can be continued
    gate,       \* the operation executing, or None
    op,         \* the operations
    call,       \* the outstanding calls
    shown,      \* questions the client has received (history variable)
    said        \* answers the server took, by operation (history variable)

vars == <<server, jobs, gate, op, call, shown, said>>
history == <<shown, said>>

Questions == Nat \ {0}
Answers == {"accept", "decline"}
Phases == {"none", "new", "ask", "push", "await", "queue", "execute", "release",
           "unregister", "close", "done"}
Results == {"none", "noForm", "refused", "canceled", "executed"}

\* form: the client of a mutation can show a form; live: the context is not
\* cancelled; asks: questions asked; why: what the
\* current question is for; buffer: the events channel; reply: the answer channel
\* of the current question.
Fresh == [phase |-> "none", mutation |-> FALSE, form |-> FALSE, live |-> TRUE, why |-> "confirm",
          asks |-> 0, pending |-> 0, buffer |-> 0, reply |-> "none",
          interacted |-> FALSE, result |-> "none"]
Operations ==
    [phase : Phases, mutation : BOOLEAN, form : BOOLEAN, live : BOOLEAN, why : {"confirm", "auth"},
     asks : Nat, pending : Nat, buffer : Nat, reply : Answers \cup {"none"},
     interacted : BOOLEAN, result : Results]

\* question: the one the call answers, 0 for none.
NoCall == [pc |-> "idle", op |-> None, first |-> FALSE, question |-> 0, answer |-> "none"]
CallStates ==
    [pc : {"idle", "look", "wait"}, op : Ops \cup {None}, first : BOOLEAN,
     question : Nat, answer : Answers \cup {"none"}]

Running(o) == op[o].phase \notin {"none", "done"}

Init ==
    /\ server = "open"
    /\ jobs = {}
    /\ gate = None
    /\ op = [o \in Ops |-> Fresh]
    /\ call = [c \in Calls |-> NoCall]
    /\ shown = [o \in Ops |-> {}]
    /\ said = [o \in Ops |-> {}]

\* Operation o becomes the record r.
Become(o, r) == op' = [op EXCEPT ![o] = r]
Enter(o, phase) == Become(o, [op[o] EXCEPT !.phase = phase])
End(o, phase, result) == Become(o, [op[o] EXCEPT !.phase = phase, !.result = result])

Wait(c) == call' = [call EXCEPT ![c] = [NoCall EXCEPT !.pc = "wait", !.op = call[c].op]]
Return(c) == call' = [call EXCEPT ![c] = NoCall]

-----------------------------------------------------------------------------
\* call: start an operation or find the one to continue, look at its state, then
\* wait.  Calls refused at the door change nothing.

StartOperation(c, o) ==
    /\ call[c].pc = "idle"
    /\ op[o].phase = "none"
    /\ server = "open"
    /\ Cardinality(jobs) < MaxJobs
    /\ \E mutation, form \in BOOLEAN :
        /\ form => mutation
        /\ mutation => MaxAsks[o] > 0
        /\ Become(o, [Fresh EXCEPT !.phase = "new", !.mutation = mutation, !.form = form])
    /\ jobs' = jobs \cup {o}
    /\ call' = [call EXCEPT ![c] = [NoCall EXCEPT !.pc = "look", !.op = o, !.first = TRUE]]
    /\ UNCHANGED <<server, gate, history>>

\* The client learns a key with a question; it polls or answers a question it saw.
ContinueOperation(c, o) ==
    /\ call[c].pc = "idle"
    /\ shown[o] # {}
    /\ server = "open"
    /\ o \in jobs
    /\ \/ call' = [call EXCEPT ![c] = [NoCall EXCEPT !.pc = "look", !.op = o]]
       \/ \E n \in shown[o], a \in Answers :
            call' = [call EXCEPT ![c] =
                        [NoCall EXCEPT !.pc = "look", !.op = o, !.question = n, !.answer = a]]
    /\ UNCHANGED <<server, jobs, gate, op, history>>

Show(c, o, question) ==
    /\ shown' = [shown EXCEPT ![o] = @ \cup {question}]
    /\ Return(c)

\* A mutant: an answer is taken for the pending question without looking at its id.
LookUnmatched(c) ==
    LET o == call[c].op
        m == op[o]
    IN  /\ call[c].pc = "look"
        /\ IF m.phase = "done"
           THEN Return(c) /\ UNCHANGED <<op, history>>
           ELSE IF call[c].question = 0
           THEN /\ IF ~call[c].first /\ m.pending # 0 THEN Show(c, o, m.pending)
                   ELSE Wait(c) /\ UNCHANGED shown
                /\ UNCHANGED <<op, said>>
           ELSE IF m.pending = 0
           THEN Return(c) /\ UNCHANGED <<op, history>>
           ELSE /\ Become(o, [m EXCEPT !.pending = 0, !.reply = call[c].answer])
                /\ said' = [said EXCEPT ![o] = @ \cup {<<call[c].question, call[c].answer>>}]
                /\ Wait(c)
                /\ UNCHANGED shown
        /\ UNCHANGED <<server, jobs, gate>>

\* A result is returned; a poll returns the pending question and leaves the event
\* in its channel; an answer must name the pending question.
Look(c) ==
    LET o == call[c].op
        m == op[o]
    IN  /\ call[c].pc = "look"
        /\ IF m.phase = "done"
           THEN Return(c) /\ UNCHANGED <<op, history>>
           ELSE IF call[c].question = 0
           THEN /\ IF ~call[c].first /\ m.pending # 0 THEN Show(c, o, m.pending)
                   ELSE Wait(c) /\ UNCHANGED shown
                /\ UNCHANGED <<op, said>>
           ELSE IF call[c].question # m.pending
           THEN Return(c) /\ UNCHANGED <<op, history>>
           ELSE /\ Become(o, [m EXCEPT !.pending = 0, !.reply = call[c].answer])
                /\ said' = [said EXCEPT ![o] = @ \cup {<<call[c].question, call[c].answer>>}]
                /\ Wait(c)
                /\ UNCHANGED shown
        /\ UNCHANGED <<server, jobs, gate>>

ReturnResult(c) ==
    /\ call[c].pc = "wait"
    /\ op[call[c].op].phase = "done"
    /\ Return(c)
    /\ UNCHANGED <<server, jobs, gate, op, history>>

TakeEvent(c) ==
    LET o == call[c].op
    IN  /\ call[c].pc = "wait"
        /\ op[o].buffer # 0
        /\ Show(c, o, op[o].buffer)
        /\ Become(o, [op[o] EXCEPT !.buffer = 0])
        /\ UNCHANGED <<server, jobs, gate, said>>

\* The client cancels a call, which cancels the operation it waits for.
CancelCall(c) ==
    LET o == call[c].op
    IN  /\ call[c].pc = "wait"
        /\ Become(o, [op[o] EXCEPT !.live = FALSE])
        /\ Return(c)
        /\ UNCHANGED <<server, jobs, gate, history>>

-----------------------------------------------------------------------------
\* run: approval, the gate, execution, and the deferred clean-up in its order.

BeginAsk(o, why) == Become(o, [op[o] EXCEPT !.phase = "ask", !.why = why, !.asks = @ + 1])

BeginRun(o) ==
    /\ op[o].phase = "new"
    /\ IF ~op[o].mutation THEN Enter(o, "queue")
       ELSE IF op[o].form THEN BeginAsk(o, "confirm")
       ELSE End(o, "unregister", "noForm")
    /\ UNCHANGED <<server, jobs, gate, call, history>>

\* ask: the question becomes pending, is put into the channel, which holds one
\* event, and is awaited.
Ask(o) ==
    /\ op[o].phase = "ask"
    /\ Become(o, [op[o] EXCEPT !.phase = "push", !.pending = op[o].asks, !.interacted = TRUE, !.reply = "none"])
    /\ UNCHANGED <<server, jobs, gate, call, history>>

Push(o) ==
    /\ op[o].phase = "push"
    /\ op[o].buffer = 0
    /\ Become(o, [op[o] EXCEPT !.phase = "await", !.buffer = op[o].asks])
    /\ UNCHANGED <<server, jobs, gate, call, history>>

\* After the question: approval leads to the gate, anything else ends the
\* operation; a sign-in question only decides whether the login is given up.
AfterAsk(o, accepted) ==
    IF op[o].why = "auth" THEN Enter(o, "execute")
    ELSE IF accepted THEN Enter(o, "queue")
    ELSE End(o, "unregister", IF op[o].live THEN "refused" ELSE "canceled")

\* A mutant: any answer approves.
AnsweredAnyhow(o) ==
    /\ op[o].phase = "await"
    /\ op[o].reply # "none"
    /\ AfterAsk(o, TRUE)
    /\ UNCHANGED <<server, jobs, gate, call, history>>

Answered(o) ==
    /\ op[o].phase = "await"
    /\ op[o].reply # "none"
    /\ AfterAsk(o, op[o].reply = "accept")
    /\ UNCHANGED <<server, jobs, gate, call, history>>

\* The context ends, or the time for signing in; the question stays pending.
GiveUp(o) ==
    /\ op[o].phase \in {"ask", "push", "await"}
    /\ ~op[o].live \/ op[o].why = "auth"
    /\ AfterAsk(o, FALSE)
    /\ UNCHANGED <<server, jobs, gate, call, history>>

\* With the gate in hand the context is looked at once more.
Execute(o) == IF op[o].live THEN Enter(o, "execute") ELSE End(o, "release", "canceled")

\* Both ends of the select may be ready.
EnterGate(o) ==
    /\ op[o].phase = "queue"
    /\ gate = None
    /\ gate' = o
    /\ Execute(o)
    /\ UNCHANGED <<server, jobs, call, history>>

LeaveQueue(o) ==
    /\ op[o].phase = "queue"
    /\ ~op[o].live
    /\ End(o, "unregister", "canceled")
    /\ UNCHANGED <<server, jobs, gate, call, history>>

\* Execution asks the client to sign in, or ends.
AskToSignIn(o) ==
    /\ op[o].phase = "execute"
    /\ op[o].asks < MaxAsks[o]
    /\ BeginAsk(o, "auth")
    /\ UNCHANGED <<server, jobs, gate, call, history>>

Executed(o) ==
    /\ op[o].phase = "execute"
    /\ End(o, "release", "executed")
    /\ UNCHANGED <<server, jobs, gate, call, history>>

ReleaseGate(o) ==
    /\ op[o].phase = "release"
    /\ gate' = None
    /\ Enter(o, "unregister")
    /\ UNCHANGED <<server, jobs, call, history>>

\* A mutant: every operation keeps its place for later continuations.
UnregisterNever(o) ==
    /\ op[o].phase = "unregister"
    /\ Enter(o, "close")
    /\ UNCHANGED <<server, jobs, gate, call, history>>

\* An operation that asked nothing cannot be continued; another keeps its place.
Unregister(o) ==
    /\ op[o].phase = "unregister"
    /\ jobs' = IF op[o].interacted THEN jobs ELSE jobs \ {o}
    /\ Enter(o, "close")
    /\ UNCHANGED <<server, gate, call, history>>

\* done is closed, then the context is cancelled.  Nobody looks at the question of
\* a finished operation.
CloseDone(o) ==
    /\ op[o].phase = "close"
    /\ Become(o, [op[o] EXCEPT !.phase = "done", !.live = FALSE, !.pending = 0, !.reply = "none"])
    /\ UNCHANGED <<server, jobs, gate, call, history>>

\* A minute after an operation that asked a question.
Expire(o) ==
    /\ op[o].phase = "done"
    /\ op[o].interacted
    /\ o \in jobs
    /\ jobs' = jobs \ {o}
    /\ UNCHANGED <<server, gate, op, call, history>>

\* --request-timeout.
RequestTimeout(o) ==
    /\ Running(o)
    /\ op[o].live
    /\ Become(o, [op[o] EXCEPT !.live = FALSE])
    /\ UNCHANGED <<server, jobs, gate, call, history>>

\* Close: cancel everything, wait for it, forget it.
BeginClose ==
    /\ server = "open"
    /\ server' = "closing"
    /\ op' = [o \in Ops |-> [op[o] EXCEPT !.live = op[o].phase = "none"]]
    /\ UNCHANGED <<jobs, gate, call, history>>

EndClose ==
    /\ server = "closing"
    /\ \A o \in Ops : ~Running(o)
    /\ server' = "closed"
    /\ jobs' = {}
    /\ UNCHANGED <<gate, op, call, history>>

Run(o) ==
    \/ BeginRun(o) \/ Ask(o) \/ Push(o) \/ Answered(o) \/ GiveUp(o)
    \/ EnterGate(o) \/ LeaveQueue(o) \/ AskToSignIn(o) \/ Executed(o)
    \/ ReleaseGate(o) \/ Unregister(o) \/ CloseDone(o)

Serve(c) == Look(c) \/ ReturnResult(c) \/ TakeEvent(c)

Next ==
    \/ \E c \in Calls :
        \/ \E o \in Ops : StartOperation(c, o) \/ ContinueOperation(c, o)
        \/ Serve(c) \/ CancelCall(c)
    \/ \E o \in Ops : Run(o) \/ Expire(o) \/ RequestTimeout(o)
    \/ BeginClose \/ EndClose

Spec == Init /\ [][Next]_vars

\* Fairness: goroutines run on, timers fire; nobody has to answer or to close.
FairSpec ==
    /\ Spec
    /\ \A o \in Ops : WF_vars(Run(o)) /\ WF_vars(Expire(o)) /\ WF_vars(RequestTimeout(o))
    /\ \A c \in Calls : WF_vars(Serve(c))
    /\ WF_vars(EndClose)

-----------------------------------------------------------------------------
\* Type invariant.
TypeOK ==
    /\ server \in {"open", "closing", "closed"}
    /\ jobs \subseteq Ops
    /\ gate \in Ops \cup {None}
    /\ op \in [Ops -> Operations]
    /\ call \in [Calls -> CallStates]
    /\ \A c \in Calls : call[c].pc # "idle" => call[c].op \in Ops
    /\ shown \in [Ops -> SUBSET Questions]
    /\ said \in [Ops -> SUBSET (Questions \X Answers)]

Executing(o) == op[o].phase = "execute" \/ (op[o].phase \in {"ask", "push", "await"} /\ op[o].why = "auth")

\* A mutation runs only after the client accepted the approval question of that
\* very operation, whatever is cancelled, repeated or answered late.
Approved(o) == <<1, "accept">> \in said[o]
Consent ==
    \A o \in Ops : op[o].mutation /\ (Executing(o) \/ op[o].result = "executed") => Approved(o)

\* Executions take turns, also while one of them waits for its user to sign in.
OneAtATime ==
    \A o, q \in Ops : Executing(o) /\ Executing(q) => o = q

\* The answer an operation reads was given to the question it waits for.
AnswersMatch ==
    \A o \in Ops : (op[o].phase = "await" /\ op[o].reply # "none") => <<op[o].asks, op[o].reply>> \in said[o]

\* An operation that waits for an answer can get one: its question is pending, so
\* a poll returns it, or its answer has arrived.
QuestionReachable ==
    \A o \in Ops : op[o].phase = "await" => op[o].pending = op[o].asks \/ op[o].reply # "none"

\* Every call returns, every place among the pending operations becomes free again
\* and a Close that began comes to an end, whatever the user leaves unanswered and
\* whatever operations wait for.  Ops can each be started once.
Settles == <>[](jobs = {} /\ server # "closing" /\ \A c \in Calls : call[c].pc = "idle")

=============================================================================
