------------------------------ MODULE AgentRun ------------------------------
(***************************************************************************)
(* One durable run of an Agent: the tool loop, the rows it saves, and the  *)
(* calls of arun and aresume that write them.                              *)
(*                                                                         *)
(* As in ChainRun an action is one store access with the local work around *)
(* it; a crash may come between any two.  Unlike a chain, an agent saves   *)
(* BEFORE a step: a turn row before the model is asked, a tool row before  *)
(* a tool is dispatched.  What a tool did is in no row until the next one. *)
(*                                                                         *)
(* Data: a message history is the set of tool calls it declares and the    *)
(* set of those it answers.  The agent is the outermost runner of its      *)
(* execution id (owns_run) and has a checkpointer, so tool calls run in    *)
(* sequence (_parallel_ok).  Of the calls for one run, only answers to a   *)
(* pause overlap: ChainRun has the other overlaps.                         *)
(***************************************************************************)
EXTENDS Naturals, Sequences, FiniteSets

CONSTANTS
    Callers,     \* the tasks that may call arun or aresume for this run
    MaxIter,     \* AgentConfig.max_iterations
    Width,       \* bound: tool calls in one reply of the model
    Kinds,       \* what the tools do: see Kind
    Stops,       \* some middleware or limit may raise StopAgent
    MaxTools,    \* bound: tool calls of the run
    MaxCalls,    \* bound: calls of arun, and of aresume without a resume_value
    MaxAnswers,  \* bound: calls of aresume with one
    MaxFaults    \* bound: crashes, raises and lost markers

\* A plain tool just runs; the body of an ask tool first calls interrupt(); a policy
\* tool is one for which the managed policy requires an approval.
Kind == {"plain", "ask", "policy"}

ASSUME AgentAssumption ==
    /\ MaxIter \in Nat \ {0} /\ Width \in Nat \ {0} /\ Kinds \subseteq Kind
    /\ Stops \in BOOLEAN
    /\ MaxTools \in Nat /\ MaxCalls \in Nat /\ MaxAnswers \in Nat /\ MaxFaults \in Nat

VARIABLES
    log,      \* the checkpoints table, in insertion order
    pending,  \* the pending_interrupts row of this execution, or NoPending
    call,     \* caller -> the locals of the call it is in
    tools,    \* how many tool calls the model asked for
    calls,    \* how many calls were made without a resume_value
    answers,  \* how many were made with one
    faults,   \* how many faults happened
    \* history, read by no action
    pauses,   \* the pauses recorded so far: the call that paused, the history then
    spent,    \* the pauses whose answered call got into a row
    runs,     \* tool call -> how often its body ran, but for the runs a fault tore
    cut       \* before_run stopped a resume that had a tool call to re-invoke

store == <<log, pending>>
bounds == <<tools, calls, answers, faults>>
history == <<pauses, spent, runs, cut>>
vars == <<store, call, bounds, history>>

----------------------------------------------------------------------------
(* Messages, rows and the locals of a call *)

\* Tool calls are numbered in the order the model asks for them.
ToolCall == [id : 1..MaxTools, kind : Kind]
NoCall == [id |-> 0, kind |-> "plain"]

Messages == [asked : SUBSET ToolCall, told : SUBSET ToolCall]
NoMessages == [asked |-> {}, told |-> {}]
Unanswered(m) == m.asked \ m.told
Balanced(m) == m.asked = m.told

\* Broken variant: siblings of the call that is answered stay unanswered.
BalanceNothing(m) == m

\* balance_tool_messages answers, with a note, every call that has no answer.
Balance(m) == [m EXCEPT !.told = m.asked]

RowKind == {"turn", "tool", "end"}
Status == {"completed", "failed", "interrupted"}
Row == [kind : RowKind, status : Status, turn : 0..MaxIter,
        call : ToolCall \cup {NoCall}, msgs : Messages]
NoPending == [call |-> NoCall, ticket |-> 0]

TurnRow(turn, m) == [kind |-> "turn", status |-> "completed", turn |-> turn,
                     call |-> NoCall, msgs |-> m]
ToolRow(l, status) == [kind |-> "tool", status |-> status, turn |-> l.turn,
                       call |-> l.call, msgs |-> l.msgs]
EndRow(status) == [kind |-> "end", status |-> status, turn |-> 0,
                   call |-> NoCall, msgs |-> NoMessages]

\* past is one past the last turn with a recorded tool call; fresh holds the calls whose
\* bodies ran since the call last wrote a row.
Idle == [pc |-> "idle", turn |-> 0, past |-> 0, msgs |-> NoMessages, call |-> NoCall,
         answer |-> FALSE, yes |-> FALSE, ticket |-> 0, fresh |-> {}]

Live(c) == call[c].pc # "idle"
Move(c, pc) == call' = [call EXCEPT ![c].pc = pc]
Return(c) == call' = [call EXCEPT ![c] = Idle]

\* A call that writes a row of progress has saved what it did, and its approval is spent.
Save(c, row, next) ==
    /\ log' = Append(log, row)
    /\ spent' = spent \cup ({call[c].ticket} \ {0})
    /\ call' = [call EXCEPT ![c] = [next EXCEPT !.ticket = 0, !.yes = FALSE, !.fresh = {}]]

\* A call that ends without a row has its tools' results torn.
Tear(c) == runs' = [x \in ToolCall |-> IF x \in call[c].fresh THEN runs[x] - 1 ELSE runs[x]]

Fault == faults < MaxFaults /\ faults' = faults + 1

----------------------------------------------------------------------------
(* Starting a call *)

\* Two calls may overlap if both are answers to a pause.
BeginCall(c, answer) ==
    /\ ~Live(c)
    /\ \A d \in Callers : Live(d) => answer /\ call[d].answer
    /\ IF answer THEN answers < MaxAnswers /\ answers' = answers + 1 /\ UNCHANGED calls
                 ELSE calls < MaxCalls /\ calls' = calls + 1 /\ UNCHANGED answers
    /\ UNCHANGED <<store, tools, faults, history>>

\* Agent.arun, for a fresh execution id: once per run.
Run(c) ==
    /\ calls = 0
    /\ BeginCall(c, FALSE)
    /\ call' = [call EXCEPT ![c] = [Idle EXCEPT !.pc = "enter"]]

\* Agent.aresume: with a resume_value it claims before it reads anything.
Resume(c, answer) ==
    /\ calls > 0
    /\ BeginCall(c, answer)
    /\ call' = [call EXCEPT ![c] = [Idle EXCEPT !.pc = IF answer THEN "claim" ELSE "latest",
                                                !.answer = answer]]

\* The last of the rows S in the order of list(): node_index, which is the turn, and
\* then created_at.
LastOf(S) ==
    {i \in S : \A j \in S : \/ log[j].turn < log[i].turn
                           \/ (log[j].turn = log[i].turn /\ j <= i)}
Steps == {i \in DOMAIN log : log[i].kind # "end"}
Interrupted == {i \in DOMAIN log : log[i].status = "interrupted"}
Finished == \E i \in DOMAIN log : log[i].kind = "end" /\ log[i].status = "completed"

\* _resume_from: a turn row re-enters the loop at its turn, a tool row re-invokes the
\* saved call first.
ReEnter(c, row) ==
    call' = [call EXCEPT ![c] =
               [@ EXCEPT !.pc = IF row.kind = "turn" THEN "enter" ELSE "retool",
                         !.turn = row.turn, !.past = row.turn,
                         !.msgs = row.msgs, !.call = row.call]]

\* aresume without a resume_value of a run that is suspended: ChainCheckpointError.
ReEnterOrRefuse(c, row) == IF row.status = "interrupted" THEN Return(c) ELSE ReEnter(c, row)

\* Broken variant: a completed marker is stepped over like a failed one.
ReadLatestNoRefusal(c) ==
    /\ call[c].pc = "latest"
    /\ \/ log = <<>> /\ Return(c)
       \/ /\ log # <<>>
          /\ LET row == log[Len(log)]
             IN IF row.kind = "end" THEN Move(c, "history") ELSE ReEnterOrRefuse(c, row)
    /\ UNCHANGED <<store, bounds, history>>

\* latest_resumable reads the newest row: none, or a completed marker, refuses; a failed
\* marker is looked behind.
ReadLatest(c) ==
    /\ call[c].pc = "latest"
    /\ \/ log = <<>> /\ Return(c)
       \/ /\ log # <<>>
          /\ LET row == log[Len(log)]
             IN CASE row.kind # "end" -> ReEnterOrRefuse(c, row)
                  [] row.kind = "end" /\ row.status = "failed" -> Move(c, "history")
                  [] OTHER -> Return(c)
    /\ UNCHANGED <<store, bounds, history>>

ReadHistory(c) ==
    /\ call[c].pc = "history"
    /\ \/ Steps = {} /\ Return(c)
       \/ (\E i \in LastOf(Steps) : ReEnterOrRefuse(c, log[i]))
    /\ UNCHANGED <<store, bounds, history>>

\* Broken variant: the claim reads the pending row and does not delete it.
ClaimWithoutDelete(c) ==
    /\ call[c].pc = "claim"
    /\ IF pending = NoPending
       THEN Return(c)
       ELSE \E yes \in BOOLEAN :
              call' = [call EXCEPT ![c] = [@ EXCEPT !.pc = "scoped", !.yes = yes,
                                                    !.ticket = pending.ticket]]
    /\ UNCHANGED <<store, bounds, history>>

\* delete_pending_interrupt_atomic, with a yes or a no; the loser gets AlreadyResumed.
Claim(c) ==
    /\ call[c].pc = "claim"
    /\ IF pending = NoPending
       THEN Return(c) /\ UNCHANGED pending
       ELSE /\ \E yes \in BOOLEAN :
                 call' = [call EXCEPT ![c] = [@ EXCEPT !.pc = "scoped", !.yes = yes,
                                                       !.ticket = pending.ticket]]
            /\ pending' = NoPending
    /\ UNCHANGED <<log, bounds, history>>

\* Broken variant: the first interrupted row of the run is taken.
ReadFirstPause(c) ==
    /\ call[c].pc = "scoped"
    /\ \E i \in Interrupted : (\A j \in Interrupted : i <= j) /\ ReEnter(c, log[i])
    /\ UNCHANGED <<store, bounds, history>>

\* _scoped_latest(status="interrupted"): the pause that was claimed.
ReadPause(c) ==
    /\ call[c].pc = "scoped"
    /\ \E i \in LastOf(Interrupted) : ReEnter(c, log[i])
    /\ UNCHANGED <<store, bounds, history>>

----------------------------------------------------------------------------
(* The tool loop *)

\* The places from which the loop's next turn begins: fresh or at a turn row, behind a
\* re-invoked call, behind the turn before.
AtTurn == {"enter", "rejoin", "turn"}

\* Broken variant: one turn too many.
PutTurnOneMore(c) ==
    LET l == call[c]
    IN /\ l.pc \in AtTurn /\ l.turn <= MaxIter
       /\ Save(c, TurnRow(l.turn, l.msgs), [l EXCEPT !.pc = "model"])
       /\ UNCHANGED <<pending, bounds, pauses, runs, cut>>

\* The turn row, before the model is asked.
PutTurn(c) ==
    LET l == call[c]
    IN /\ l.pc \in AtTurn /\ l.turn < MaxIter
       /\ Save(c, TurnRow(l.turn, l.msgs), [l EXCEPT !.pc = "model"])
       /\ UNCHANGED <<pending, bounds, pauses, runs, cut>>

\* Broken variant: the loop runs out of turns and saves nothing.
ExhaustUnsaved(c) ==
    /\ call[c].pc \in AtTurn /\ call[c].turn = MaxIter
    /\ Move(c, "mark")
    /\ UNCHANGED <<store, bounds, history>>

\* _checkpoint_exhausted_loop, then MaxIterationsError.
Exhaust(c) ==
    LET l == call[c]
    IN /\ l.pc \in AtTurn /\ l.turn = MaxIter
       /\ Save(c, TurnRow(MaxIter, l.msgs), [l EXCEPT !.pc = "mark"])
       /\ UNCHANGED <<pending, bounds, pauses, runs, cut>>

\* The model asks for tools.
AskTools(c) ==
    /\ call[c].pc = "model"
    /\ \E k \in 1..Width : \E kinds \in [1..k -> Kinds] :
         LET new == {[id |-> tools + i, kind |-> kinds[i]] : i \in 1..k}
             m == call[c].msgs
         IN /\ tools + k <= MaxTools
            /\ tools' = tools + k
            /\ call' = [call EXCEPT ![c].pc = "tool",
                                    ![c].msgs = [m EXCEPT !.asked = m.asked \cup new]]
    /\ UNCHANGED <<store, calls, answers, faults, history>>

\* The turn a loop ends at counts those with a recorded call, and a call the provider ran
\* inside its reply is recorded.
Recorded(l) == {l.past, l.turn + 1}

\* It answers, calls the final tool, or some hook or limit around the call stops the run.
Answer(c) ==
    /\ call[c].pc = "model"
    /\ \E past \in Recorded(call[c]) :
         call' = [call EXCEPT ![c] = [@ EXCEPT !.pc = "finish", !.past = past]]
    /\ UNCHANGED <<store, bounds, history>>

\* A provider-side pause: the reply goes back as it is and the next turn carries on.
PausedReply(c) ==
    /\ call[c].pc = "model"
    /\ \E past \in Recorded(call[c]) :
         call' = [call EXCEPT ![c].pc = "turn", ![c].turn = @ + 1, ![c].past = past]
    /\ UNCHANGED <<store, bounds, history>>

\* The tool row of the next call of the turn, before it is dispatched.  In a run that was
\* cut, an old unanswered call may come before those of the reply, as it does not in the code.
PutTool(c) ==
    /\ call[c].pc = "tool"
    /\ \E x \in Unanswered(call[c].msgs) :
         /\ \A y \in Unanswered(call[c].msgs) : x.id <= y.id
         /\ LET l == [call[c] EXCEPT !.pc = "call", !.call = x]
            IN Save(c, ToolRow(l, "completed"), l)
    /\ UNCHANGED <<pending, bounds, pauses, runs, cut>>

----------------------------------------------------------------------------
(* One tool call: from the loop ("call"), or re-invoked by a resume ("retool") *)

AtCall(c) == call[c].pc \in {"call", "retool"}

\* The call is answered.  The loop goes on with its siblings; a resume has them answered
\* with a note, and goes on at the next turn.
Answered(l) ==
    LET m == [l.msgs EXCEPT !.told = @ \cup {l.call}]
        next == IF l.pc = "call" THEN m ELSE Balance(m)
        done == l.pc = "retool" \/ Balanced(m)
    IN [l EXCEPT !.msgs = next, !.call = NoCall, !.past = l.turn + 1,
                 !.turn = IF done THEN l.turn + 1 ELSE l.turn,
                 !.pc = IF l.pc = "retool" THEN "rejoin" ELSE IF done THEN "turn" ELSE "tool"]

\* StopAgent around the call: everything is answered, and the run finishes.
StoppedAt(l) ==
    [l EXCEPT !.msgs = Balance([l.msgs EXCEPT !.told = @ \cup {l.call}]),
              !.call = NoCall, !.past = l.turn + 1, !.pc = "finish"]

\* Broken variant: a resume trusts the policy's silence before the crash.
NeedsAnswerInLoop(l) == l.call.kind # "plain" /\ l.ticket = 0 /\ l.pc = "call"

\* interrupt() finds no resume value: the call pauses (or the policy denies it).
NeedsAnswer(l) == l.call.kind # "plain" /\ l.ticket = 0

\* A managed approval was answered with a no.
Refused(l) == l.call.kind = "policy" /\ l.ticket # 0 /\ ~l.yes

\* The model is told of a refusal; the tool does not run.
Deny(c) ==
    /\ AtCall(c)
    /\ Refused(call[c]) \/ (call[c].call.kind = "policy" /\ NeedsAnswer(call[c]))
    /\ call' = [call EXCEPT ![c] = Answered(call[c])]
    /\ UNCHANGED <<store, bounds, history>>

\* _record_agent_interrupt: the interrupted row and the pending row in one transaction.
Pause(c) ==
    LET l == call[c]
    IN /\ AtCall(c) /\ NeedsAnswer(l)
       /\ log' = Append(log, ToolRow(l, "interrupted"))
       /\ pauses' = Append(pauses, [call |-> l.call, msgs |-> l.msgs])
       /\ pending' = [call |-> l.call, ticket |-> Len(pauses')]
       /\ Return(c)
       /\ UNCHANGED <<bounds, spent, runs, cut>>

\* The body runs, and its result (or its error, which is a result) is appended; wrap_tool
\* may stop the run behind it.
RunTool(c) ==
    LET l == [call[c] EXCEPT !.fresh = @ \cup {call[c].call}]
    IN /\ AtCall(c) /\ ~NeedsAnswer(l) /\ ~Refused(l)
       /\ runs' = [runs EXCEPT ![l.call] = @ + 1]
       /\ \E next \in {Answered(l)} \cup (IF Stops THEN {StoppedAt(l)} ELSE {}) :
            call' = [call EXCEPT ![c] = next]
       /\ UNCHANGED <<store, bounds, pauses, spent, cut>>

\* wrap_tool stops the run before it calls the tool.
StopTool(c) ==
    /\ Stops /\ AtCall(c) /\ ~NeedsAnswer(call[c]) /\ ~Refused(call[c])
    /\ call' = [call EXCEPT ![c] = StoppedAt(call[c])]
    /\ UNCHANGED <<store, bounds, history>>

\* before_run stops the run before the loop, or the resume before the saved call: the
\* history stays as it was saved.
StopRun(c) ==
    /\ Stops /\ call[c].pc \in {"enter", "retool"}
    /\ Move(c, "finish")
    /\ cut' = (cut \/ call[c].pc = "retool")
    /\ UNCHANGED <<store, bounds, pauses, spent, runs>>

----------------------------------------------------------------------------
(* The end of a run *)

\* The re-asks, the output guardrails, memory and after_run pass: write_run_end.
Complete(c) ==
    /\ call[c].pc = "finish"
    /\ Save(c, EndRow("completed"), Idle)
    /\ UNCHANGED <<pending, bounds, pauses, runs, cut>>

\* Broken variant: the turn counter of the loop is not handed out of it.
PutLoopEndAtTop(c) ==
    LET l == call[c]
    IN /\ l.pc = "loopend"
       /\ Save(c, TurnRow(0, l.msgs), [l EXCEPT !.pc = "mark"])
       /\ UNCHANGED <<pending, bounds, pauses, runs, cut>>

\* They raise after the loop: a turn row past its last turn first.
PutLoopEnd(c) ==
    LET l == call[c]
    IN /\ l.pc = "loopend"
       /\ Save(c, TurnRow(l.past, l.msgs), [l EXCEPT !.pc = "mark"])
       /\ UNCHANGED <<pending, bounds, pauses, runs, cut>>

\* The failed marker; the exception goes on.
MarkFailed(c) ==
    /\ call[c].pc = "mark"
    /\ log' = Append(log, EndRow("failed"))
    /\ Return(c)
    /\ UNCHANGED <<pending, bounds, history>>

----------------------------------------------------------------------------
(* Faults *)

InLoop == {"turn", "model", "tool", "call"}

\* A raise inside the loop or a re-invoked call (the model, a guardrail before or behind a
\* tool, a put), a cancel or a timeout: the failed marker.
Fail(c) ==
    /\ call[c].pc \in InLoop \cup {"enter", "rejoin", "retool"}
    /\ Fault
    /\ Tear(c)
    /\ call' = [call EXCEPT ![c] = [@ EXCEPT !.pc = "mark", !.fresh = {}]]
    /\ UNCHANGED <<store, tools, calls, answers, pauses, spent, cut>>

\* A raise behind the loop; the loop-end row itself may not get in.
FailBehindLoop(c) ==
    /\ call[c].pc = "finish"
    /\ Fault
    /\ Move(c, "loopend")
    /\ UNCHANGED <<store, tools, calls, answers, history>>

LoseLoopEnd(c) ==
    /\ call[c].pc = "loopend"
    /\ Fault
    /\ Tear(c)
    /\ call' = [call EXCEPT ![c] = [@ EXCEPT !.pc = "mark", !.fresh = {}]]
    /\ UNCHANGED <<store, tools, calls, answers, pauses, spent, cut>>

\* The call ends and leaves no row: the process dies; an input guardrail raises before the
\* loop; the saved tool is not registered; the end marker does not get in.
Vanish(c) ==
    /\ Live(c)
    /\ Fault
    /\ Tear(c)
    /\ Return(c)
    /\ UNCHANGED <<store, tools, calls, answers, pauses, spent, cut>>

----------------------------------------------------------------------------

Init ==
    /\ log = <<>> /\ pending = NoPending /\ call = [c \in Callers |-> Idle]
    /\ tools = 0 /\ calls = 0 /\ answers = 0 /\ faults = 0
    /\ pauses = <<>> /\ spent = {} /\ runs = [x \in ToolCall |-> 0]
    /\ cut = FALSE

\* What a call does once it has started.
Step(c) ==
    \/ ReadLatest(c) \/ ReadHistory(c) \/ Claim(c) \/ ReadPause(c)
    \/ PutTurn(c) \/ Exhaust(c) \/ AskTools(c) \/ Answer(c) \/ PausedReply(c) \/ PutTool(c)
    \/ Deny(c) \/ Pause(c) \/ RunTool(c) \/ StopTool(c) \/ StopRun(c)
    \/ Complete(c) \/ PutLoopEnd(c) \/ MarkFailed(c)

Next == \E c \in Callers :
          \/ Run(c) \/ \E answer \in BOOLEAN : Resume(c, answer)
          \/ Step(c)
          \/ Fail(c) \/ FailBehindLoop(c) \/ LoseLoopEnd(c) \/ Vanish(c)

Spec == Init /\ [][Next]_vars

----------------------------------------------------------------------------
(* Properties *)

Locals ==
    [pc : {"idle", "latest", "history", "claim", "scoped", "retool", "enter", "rejoin",
           "finish", "loopend", "mark"} \cup InLoop,
     turn : 0..MaxIter, past : 0..MaxIter, msgs : Messages, call : ToolCall \cup {NoCall},
     answer : BOOLEAN, yes : BOOLEAN, ticket : Nat, fresh : SUBSET ToolCall]

\* Every variable holds what the code can put there.
TypeOK ==
    /\ log \in Seq(Row)
    /\ pending \in [call : ToolCall \cup {NoCall}, ticket : Nat]
    /\ call \in [Callers -> Locals]
    /\ tools \in Nat /\ calls \in Nat /\ answers \in Nat /\ faults \in Nat
    /\ pauses \in Seq([call : ToolCall, msgs : Messages])
    /\ spent \subseteq Nat /\ runs \in [ToolCall -> Nat]
    /\ cut \in BOOLEAN

\* A provider refuses a history with an unanswered call (balance_tool_messages): the model
\* is never asked with one, wherever a run was stopped, paused or resumed before, unless a
\* before_run hook stopped a resume that had a call to re-invoke.
HistoryBalanced == ~cut => \A c \in Callers : call[c].pc = "model" => Balanced(call[c].msgs)

\* "Repeat nothing that was committed": a tool call's body runs once, but for the runs
\* whose result a crash, a raise or a cancel kept from the next row.  Of runs that were cut
\* PutTool allows too much, and nothing is said.
ToolRunsOnce == ~cut => \A x \in ToolCall : runs[x] <= 1

\* The resume that claimed a pause re-invokes the call that paused, with the history it
\* had then (the claim comes first, so no other pause can slip in between).
AnswerResumesItsPause ==
    \A c \in Callers :
                call[c].pc = "retool" /\ call[c].ticket # 0 =>
                  [call |-> call[c].call, msgs |-> call[c].msgs] = pauses[call[c].ticket]

\* What has become of the approval asked for by pause t.
Phase(t) ==
    CASE pending.ticket = t -> "open"
      [] pending.ticket # t /\ (\E c \in Callers : call[c].ticket = t) -> "granted"
      [] OTHER -> IF t \in spent THEN "spent" ELSE "lost"

ReEntry == IF log = <<>> THEN {}
           ELSE IF log[Len(log)].kind # "end" THEN {Len(log)} ELSE LastOf(Steps)

\* A run that saved a row and stopped before its end can be resumed, unless it lost an
\* approval (claimed, and no row written after it): a pause waits for its answer, or a plain
\* resume finds a row, behind failed markers too, and the row is not a pause.  A run that
\* raised or was stopped before its first turn was saved cannot: there is no row.
StaysResumable ==
    /\ \A c \in Callers : ~Live(c)
    /\ ~Finished /\ Steps # {}
    /\ \A t \in DOMAIN pauses : Phase(t) # "lost"
    => pending # NoPending \/ \E i \in ReEntry : log[i].status # "interrupted"

\* A run that carries a completed marker is over: no call writes a row or runs a tool.
FinishedIsFinal == [][Finished => log' = log /\ runs' = runs]_vars

\* A tool that a policy gates runs only in a call that holds a yes to a pause of this very
\* tool call: in the loop, re-invoked with an answer, or re-invoked after a crash.
ApprovedRunsOnly ==
    [][\A x \in ToolCall : runs'[x] > runs[x] /\ x.kind = "policy" =>
         \E c \in Callers : /\ call[c].ticket # 0 /\ call[c].yes
                            /\ pauses[call[c].ticket].call = x]_vars

\* The pending row and its claim implement Approval here too.
Gate == INSTANCE Approval WITH request <- [t \in DOMAIN pauses |-> Phase(t)]
ImplementsApproval == Gate!Spec
=============================================================================
