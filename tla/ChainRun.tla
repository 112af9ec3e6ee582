------------------------------ MODULE ChainRun ------------------------------
(***************************************************************************)
(* One execution of a Chain: its durable rows and the calls that write     *)
(* them.  chain.aexecute starts the run, chain.resume continues it after a *)
(* pause, a failure or a crash; both drive execute_chain over the nodes in *)
(* topological order and write to one Checkpointer.                        *)
(*                                                                         *)
(* A call is a coroutine of some process.  What it does between two        *)
(* accesses of the store is invisible to the others, so an action is one   *)
(* store access (get_last, list, put, record_interrupt,                    *)
(* delete_pending_interrupt_atomic, get/put_idempotent) with the local     *)
(* work around it.  A crash may come between any two actions.              *)
(*                                                                         *)
(* Data: a node is its position in _topological_sort (which is also its    *)
(* node_index + 1), and the chain's state is the set of nodes whose output *)
(* it holds.  Cyclic edges are not in this module.                         *)
(***************************************************************************)
EXTENDS Naturals, Sequences, FiniteSets

CONSTANTS
    Callers,     \* the tasks that may call aexecute or resume for this run
    Last,        \* the number of nodes
    Out,         \* node -> its non-cyclic outgoing edges, in declaration order
    Conditions,  \* the nodes of type condition
    Gates,       \* the nodes of type hitl (an inline approval gate)
    Pauses,      \* the nodes whose body calls interrupt()
    Charges,     \* the nodes whose body first calls an @idempotent function
    Strict,      \* Chain(strict_routing=True)
    HasHandler,  \* aexecute was given a hitl_handler
    Overlap,     \* calls may overlap in time (several tasks or processes)
    MaxCalls,    \* bound: calls of aexecute, and of resume without a resume_value
    MaxAnswers,  \* bound: calls of resume with a resume_value
    MaxFaults    \* bound: crashes, failing nodes and lost markers

Node == 1..Last
Edge == [to : Node, label : STRING, conditional : BOOLEAN]

\* _topological_sort puts a target after its source, and puts every node in.
ASSUME ChainAssumption ==
    /\ Last \in Nat \ {0}
    /\ Out \in [Node -> Seq(Edge)]
    /\ \A n \in Node : \A i \in DOMAIN Out[n] : Out[n][i].to > n
    /\ Conditions \subseteq Node /\ Gates \subseteq Node
    /\ Pauses \subseteq Node /\ Charges \subseteq Node
    /\ Strict \in BOOLEAN /\ HasHandler \in BOOLEAN /\ Overlap \in BOOLEAN
    /\ MaxCalls \in Nat /\ MaxAnswers \in Nat /\ MaxFaults \in Nat

VARIABLES
    \* the store
    log,        \* the checkpoints table, in insertion order
    pending,    \* the pending_interrupts row of this execution, or NoPending
    cache,      \* the nodes whose idempotency_cache row exists
    \* the calls
    call,       \* caller -> the locals of the call it is in
    calls,      \* how many calls were made without a resume_value
    answers,    \* how many calls were made with one
    faults,     \* how many faults happened
    \* history, read by no action
    pauses,     \* the pauses recorded so far: node and state at the pause
    approvedBy, \* for each row of log, the pause whose approval it used (or 0)
    effects,    \* node -> how often the body of its @idempotent call ran
    torn,       \* node -> how often that body ran and its result was not stored
    routed,     \* entry nodes and nodes selected by a node that committed
    mixed       \* a call other than an answer to a pause overlapped a call

store == <<log, pending, cache>>
history == <<pauses, approvedBy, effects, torn, routed, mixed>>
vars == <<store, call, calls, answers, faults, history>>

----------------------------------------------------------------------------
(* The rows and the locals of a call *)

RunEnd == 0      \* the node_id of a run-end marker names no node
Status == {"completed", "failed", "interrupted"}
Row == [node : {RunEnd} \cup Node, status : Status, snap : SUBSET Node]
NoPending == [node |-> 0, ticket |-> 0]

Idle == [pc |-> "idle", at |-> 1, active |-> {}, state |-> {},
         seen |-> [node |-> RunEnd, status |-> "completed", snap |-> {}],
         answer |-> FALSE, ticket |-> 0, gated |-> FALSE, end |-> "failed"]

Live(c) == call[c].pc # "idle"

\* The locations at which a call is inside execute_chain or about to end it.
InNodeAt == {"lookup", "body", "save", "node"}
RunningAt == {"loop", "end"} \cup InNodeAt
InNode(c) == call[c].pc \in InNodeAt
Running(c) == call[c].pc \in RunningAt

Move(c, pc) == call' = [call EXCEPT ![c].pc = pc]
Return(c) == call' = [call EXCEPT ![c] = Idle]

----------------------------------------------------------------------------
(* execute_chain: entry nodes and routing *)

Entries == {n \in Node : \A m \in Node : \A i \in DOMAIN Out[m] : Out[m][i].to # n}

\* "The first one in declaration order", as a set: empty when S is.
Firsts(S) == {i \in S : \A j \in S : i <= j}
Targets(n, S) == {Out[n][i].to : i \in S}

\* _select_outgoing_edges for a condition node that returned a handle.
ByHandle(n, handle) ==
    LET Labelled(l) == {i \in DOMAIN Out[n] : Out[n][i].label = l}
    IN CASE handle # "" /\ Labelled(handle) # {} -> Firsts(Labelled(handle))
         [] Labelled("default") # {} -> Firsts(Labelled("default"))
         [] OTHER -> Firsts(Labelled(""))

\* _select_outgoing_edges for any other node, when exactly the conditions of the
\* edges in True hold.
ByTruth(n, True) ==
    LET plain == {i \in DOMAIN Out[n] : ~Out[n][i].conditional}
    IN CASE plain = DOMAIN Out[n] -> plain
         [] plain # DOMAIN Out[n] /\ True # {} -> Firsts(True)
         [] OTHER -> Firsts(plain)

\* Broken variant: a condition node's edges are taken for a plain fan-out.
SelectionsNoCondition(n) ==
    {Targets(n, ByTruth(n, True)) :
       True \in SUBSET {i \in DOMAIN Out[n] : Out[n][i].conditional}}

\* Every outcome of routing after n, over the results n can have.
Selections(n) ==
    IF n \in Conditions
    THEN {Targets(n, ByHandle(n, Out[n][i].label)) : i \in DOMAIN Out[n]}
           \cup {Targets(n, ByHandle(n, ""))}
    ELSE {Targets(n, ByTruth(n, True)) :
            True \in SUBSET {i \in DOMAIN Out[n] : Out[n][i].conditional}}

\* strict_routing turns "no edge matched" into a ChainRoutingError.
RoutingFails(n, selected) == Strict /\ selected = {} /\ Out[n] # <<>>

----------------------------------------------------------------------------
(* checkpoint.latest_resumable *)

Steps(rows) == {i \in DOMAIN rows : rows[i].node # RunEnd}

\* Broken variant: rows of one node are not ordered by created_at.
LastStepFirstWritten(rows) ==
    {i \in Steps(rows) :
       \A j \in Steps(rows) : \/ rows[j].node < rows[i].node
                              \/ rows[j].node = rows[i].node /\ i <= j}

\* list() orders by node_index, then created_at; the last step in that order is wanted
\* (as a set: empty when there is none).
LastStep(rows) ==
    {i \in Steps(rows) :
       \A j \in Steps(rows) : \/ rows[j].node < rows[i].node
                              \/ rows[j].node = rows[i].node /\ j <= i}

Finished == \E i \in DOMAIN log : log[i].node = RunEnd /\ log[i].status = "completed"

Committed == {n \in Node : \E i \in DOMAIN log :
                              log[i].node = n /\ log[i].status = "completed"}

----------------------------------------------------------------------------
(* Starting a call *)

\* The overlap a new call makes, for the properties that exclude it.
Joins(answer) ==
    \E d \in Callers : Live(d) /\ ~(answer /\ call[d].answer)

BeginCall(c, answer) ==
    /\ ~Live(c)
    /\ Overlap \/ \A d \in Callers : ~Live(d)
    /\ IF answer
       THEN answers < MaxAnswers /\ answers' = answers + 1 /\ UNCHANGED calls
       ELSE calls < MaxCalls /\ calls' = calls + 1 /\ UNCHANGED answers
    /\ mixed' = (mixed \/ Joins(answer))

\* Chain.aexecute, for a fresh execution id: once per run.
Execute(c) ==
    /\ calls = 0
    /\ BeginCall(c, FALSE)
    /\ call' = [call EXCEPT ![c] = [Idle EXCEPT !.pc = "loop", !.active = Entries,
                                                !.gated = HasHandler]]
    /\ UNCHANGED <<store, faults, pauses, approvedBy, effects, torn, routed>>

\* Chain.resume, with a resume_value (an answer) or without.
Resume(c, answer) ==
    /\ calls > 0
    /\ BeginCall(c, answer)
    /\ call' = [call EXCEPT ![c] = [Idle EXCEPT !.pc = "latest", !.answer = answer]]
    /\ UNCHANGED <<store, faults, pauses, approvedBy, effects, torn, routed>>

\* Broken variant: a completed marker is stepped over like a failed one.
ReadLatestNoRefusal(c) ==
    /\ call[c].pc = "latest"
    /\ \/ log = <<>> /\ Return(c)
       \/ /\ log # <<>>
          /\ LET row == log[Len(log)]
             IN IF row.node # RunEnd
                THEN call' = [call EXCEPT ![c] = [@ EXCEPT !.seen = row, !.pc = "claim"]]
                ELSE Move(c, "history")
    /\ UNCHANGED <<store, calls, answers, faults, history>>

\* Broken variant: a failed marker is refused like a completed one.
ReadLatestRefuseFailed(c) ==
    /\ call[c].pc = "latest"
    /\ IF log # <<>> /\ log[Len(log)].node # RunEnd
       THEN call' = [call EXCEPT ![c] = [@ EXCEPT !.seen = log[Len(log)], !.pc = "claim"]]
       ELSE Return(c)
    /\ UNCHANGED <<store, calls, answers, faults, history>>

\* latest_resumable reads the newest row.  No row: ChainCheckpointError.  A completed
\* marker: AlreadyResumed.  A failed marker: look behind it.
ReadLatest(c) ==
    /\ call[c].pc = "latest"
    /\ \/ log = <<>> /\ Return(c)
       \/ /\ log # <<>>
          /\ LET row == log[Len(log)]
             IN CASE row.node # RunEnd ->
                       call' = [call EXCEPT ![c] = [@ EXCEPT !.seen = row, !.pc = "claim"]]
                  [] row.node = RunEnd /\ row.status = "failed" -> Move(c, "history")
                  [] OTHER -> Return(c)
    /\ UNCHANGED <<store, calls, answers, faults, history>>

\* The second read of latest_resumable: the history behind a failed marker.
ReadHistory(c) ==
    /\ call[c].pc = "history"
    /\ \/ LastStep(log) = {} /\ Return(c)
       \/ \E i \in LastStep(log) :
            call' = [call EXCEPT ![c] = [@ EXCEPT !.seen = log[i], !.pc = "claim"]]
    /\ UNCHANGED <<store, calls, answers, faults, history>>

\* Broken variant: the saved state is not handed to execute_chain.
EnterRunWithoutState(c, start, ticket) ==
    call' = [call EXCEPT ![c] =
               [Idle EXCEPT !.pc = "loop", !.answer = call[c].answer,
                            !.ticket = ticket,
                            !.at = IF start = 0 THEN 1 ELSE start,
                            !.active = IF start = 0 THEN Entries ELSE {start}]]

\* execute_chain(initial_state=state, resume_from_node=start): only start is active;
\* without a start node every entry node is, from the top.
EnterRun(c, start, ticket) ==
    call' = [call EXCEPT ![c] =
               [Idle EXCEPT !.pc = "loop",
                            !.answer = call[c].answer,
                            !.ticket = ticket,
                            !.state = call[c].seen.snap,
                            !.at = IF start = 0 THEN 1 ELSE start,
                            !.active = IF start = 0 THEN Entries ELSE {start}]]

\* Broken variant: the claim reads the pending row and does not delete it.
ClaimWithoutDelete(c) ==
    /\ call[c].pc = "claim" /\ call[c].answer
    /\ IF pending = NoPending THEN Return(c)
                              ELSE EnterRun(c, pending.node, pending.ticket)
    /\ UNCHANGED <<store, calls, answers, faults, history>>

\* resume with a resume_value: delete_pending_interrupt_atomic, then re-run the node
\* of the claimed row.  The loser of a race returns with AlreadyResumed.
Claim(c) ==
    /\ call[c].pc = "claim" /\ call[c].answer
    /\ IF pending = NoPending
       THEN Return(c) /\ UNCHANGED pending
       ELSE EnterRun(c, pending.node, pending.ticket) /\ pending' = NoPending
    /\ UNCHANGED <<log, cache, calls, answers, faults, history>>

\* resume without a resume_value of a run that is suspended: ChainResumeError.
Refuse(c) ==
    /\ call[c].pc = "claim" /\ ~call[c].answer
    /\ call[c].seen.status = "interrupted"
    /\ Return(c)
    /\ UNCHANGED <<store, calls, answers, faults, history>>

\* Broken variants: re-enter a pause without an answer; start one node late; start at the
\* row's own node; do not stop at the last node.
ContinuePastPause(c) ==
    /\ call[c].pc = "claim" /\ ~call[c].answer
    /\ EnterRun(c, IF call[c].seen.node < Last THEN call[c].seen.node + 1 ELSE 0, 0)
    /\ UNCHANGED <<store, calls, answers, faults, history>>

ContinueAfterFailedNode(c) ==
    /\ call[c].pc = "claim" /\ ~call[c].answer
    /\ call[c].seen.status # "interrupted"
    /\ EnterRun(c, IF call[c].seen.node + 1 < Last THEN call[c].seen.node + 2 ELSE 0, 0)
    /\ UNCHANGED <<store, calls, answers, faults, history>>

ContinueAtSameNode(c) ==
    /\ call[c].pc = "claim" /\ ~call[c].answer
    /\ call[c].seen.status # "interrupted"
    /\ EnterRun(c, call[c].seen.node, 0)
    /\ UNCHANGED <<store, calls, answers, faults, history>>

ContinuePastEnd(c) ==
    /\ call[c].pc = "claim" /\ ~call[c].answer
    /\ call[c].seen.status # "interrupted"
    /\ EnterRun(c, call[c].seen.node + 1, 0)
    /\ UNCHANGED <<store, calls, answers, faults, history>>

\* Otherwise: run on from the node after the row found.
Continue(c) ==
    /\ call[c].pc = "claim" /\ ~call[c].answer
    /\ call[c].seen.status # "interrupted"
    /\ EnterRun(c, IF call[c].seen.node < Last THEN call[c].seen.node + 1 ELSE 0, 0)
    /\ UNCHANGED <<store, calls, answers, faults, history>>

----------------------------------------------------------------------------
(* execute_chain: the loop over the nodes *)

Due(c) == {n \in call[c].active : n >= call[c].at}

\* Broken variant: walk the activated set in any order.
EnterNodeAnyOrder(c) ==
    /\ call[c].pc = "loop"
    /\ \E n \in Due(c) :
         call' = [call EXCEPT ![c] =
                    [@ EXCEPT !.at = n, !.pc = IF n \in Charges THEN "lookup" ELSE "node"]]
    /\ UNCHANGED <<store, calls, answers, faults, history>>

\* The next activated node in order; nodes no branch routed to are skipped.
EnterNode(c) ==
    /\ call[c].pc = "loop"
    /\ \E n \in Firsts(Due(c)) :
         call' = [call EXCEPT ![c] =
                    [@ EXCEPT !.at = n, !.pc = IF n \in Charges THEN "lookup" ELSE "node"]]
    /\ UNCHANGED <<store, calls, answers, faults, history>>

\* The @idempotent wrapper: look the key up, run the body on a miss, store.
LookUp(c) ==
    /\ call[c].pc = "lookup"
    /\ Move(c, IF call[c].at \in cache THEN "node" ELSE "body")
    /\ UNCHANGED <<store, calls, answers, faults, history>>

RunBody(c) ==
    /\ call[c].pc = "body"
    /\ effects' = [effects EXCEPT ![call[c].at] = @ + 1]
    /\ Move(c, "save")
    /\ UNCHANGED <<store, calls, answers, faults, pauses, approvedBy, torn, routed, mixed>>

\* Broken variant: the result is kept under another execution id than the one looked up.
SaveResultElsewhere(c) ==
    /\ call[c].pc = "save"
    /\ Move(c, "node")
    /\ UNCHANGED <<store, calls, answers, faults, history>>

SaveResult(c) ==
    /\ call[c].pc = "save"
    /\ cache' = cache \cup {call[c].at}
    /\ Move(c, "node")
    /\ UNCHANGED <<log, pending, calls, answers, faults, history>>

\* Broken variant: INSERT OR REPLACE of the pending row.
PauseReplacing(c) ==
    LET n == call[c].at
    IN /\ call[c].pc = "node" /\ n \in Pauses /\ call[c].ticket = 0
       /\ log' = Append(log, [node |-> n, status |-> "interrupted",
                              snap |-> call[c].state])
       /\ pauses' = Append(pauses, [node |-> n, snap |-> call[c].state])
       /\ pending' = [node |-> n, ticket |-> Len(pauses')]
       /\ approvedBy' = Append(approvedBy, 0)
       /\ Return(c)
       /\ UNCHANGED <<cache, calls, answers, faults, effects, torn, routed, mixed>>

\* interrupt() with no resume value in scope: record_interrupt writes the row and the
\* pending row in one transaction, and the call returns status "paused".
Pause(c) ==
    LET n == call[c].at
    IN /\ call[c].pc = "node" /\ n \in Pauses /\ call[c].ticket = 0
       /\ pending = NoPending
       /\ log' = Append(log, [node |-> n, status |-> "interrupted",
                              snap |-> call[c].state])
       /\ pauses' = Append(pauses, [node |-> n, snap |-> call[c].state])
       /\ pending' = [node |-> n, ticket |-> Len(pauses')]
       /\ approvedBy' = Append(approvedBy, 0)
       /\ Return(c)
       /\ UNCHANGED <<cache, calls, answers, faults, effects, torn, routed, mixed>>

\* The execution id is the pending table's primary key: a second pending row does not
\* go in, the transaction rolls back and the exception ends the run.
PauseConflict(c) ==
    /\ call[c].pc = "node" /\ call[c].at \in Pauses /\ call[c].ticket = 0
    /\ pending # NoPending
    /\ Move(c, "end")
    /\ UNCHANGED <<store, calls, answers, faults, history>>

\* interrupt() was not called, or returned the resume value.
Answered(c) == call[c].at \in Pauses => call[c].ticket # 0

\* An inline gate whose handler says no: execute_chain returns status "rejected",
\* nothing after the gate runs, and the marker still says the run ended.
Reject(c) ==
    /\ call[c].pc = "node" /\ call[c].at \in Gates /\ Answered(c)
    /\ call[c].gated
    /\ call' = [call EXCEPT ![c] = [@ EXCEPT !.pc = "end", !.end = "completed"]]
    /\ UNCHANGED <<store, calls, answers, faults, history>>

\* A gate without a handler raises; Chain.resume passes none.
NoHandler(c) ==
    /\ call[c].pc = "node" /\ call[c].at \in Gates /\ Answered(c)
    /\ ~call[c].gated
    /\ Move(c, "end")
    /\ UNCHANGED <<store, calls, answers, faults, history>>

\* The node returns: its output goes into the state, its checkpoint is put, and the
\* edges the routing picks are activated.  Routing may raise after the checkpoint.
Commit(c) ==
    LET n == call[c].at
        state == call[c].state \cup {n}
    IN /\ call[c].pc = "node" /\ Answered(c)
       /\ n \in Gates => call[c].gated
       /\ log' = Append(log, [node |-> n, status |-> "completed", snap |-> state])
       /\ approvedBy' = Append(approvedBy, IF n \in Pauses THEN call[c].ticket ELSE 0)
       /\ \E selected \in Selections(n) :
            /\ routed' = routed \cup selected
            /\ call' = [call EXCEPT ![c] =
                 [@ EXCEPT !.state = state, !.ticket = 0, !.at = n + 1,
                           !.active = call[c].active \cup selected,
                           !.pc = IF RoutingFails(n, selected) THEN "end" ELSE "loop"]]
       /\ UNCHANGED <<pending, cache, calls, answers, faults, pauses, effects, torn, mixed>>

\* Nothing left to run: execute_chain returns status "completed".
Complete(c) ==
    /\ call[c].pc = "loop" /\ Due(c) = {}
    /\ call' = [call EXCEPT ![c] = [@ EXCEPT !.pc = "end", !.end = "completed"]]
    /\ UNCHANGED <<store, calls, answers, faults, history>>

\* write_run_end, then the call returns or re-raises.
MarkEnd(c) ==
    /\ call[c].pc = "end"
    /\ log' = Append(log, [node |-> RunEnd, status |-> call[c].end,
                           snap |-> IF call[c].end = "completed" THEN call[c].state
                                    ELSE IF log = <<>> THEN {}
                                    ELSE log[Len(log)].snap])
    /\ approvedBy' = Append(approvedBy, 0)
    /\ Return(c)
    /\ UNCHANGED <<pending, cache, calls, answers, faults, pauses, effects, torn, routed, mixed>>

----------------------------------------------------------------------------
(* Faults *)

Fault == faults < MaxFaults /\ faults' = faults + 1

\* A body that ran and whose result was never stored.
Tear(c) == torn' = IF call[c].pc = "save"
                   THEN [torn EXCEPT ![call[c].at] = @ + 1] ELSE torn

\* A node raises, put_idempotent does, or a cancel lands on the call (check_stopped at
\* a node's start, CancelledError inside it): the run ends "failed".
Fail(c) ==
    /\ InNode(c) \/ (call[c].pc = "loop" /\ Due(c) # {})
    /\ Fault
    /\ Tear(c)
    /\ call' = [call EXCEPT ![c] = [@ EXCEPT !.pc = "end", !.end = "failed"]]
    /\ UNCHANGED <<store, calls, answers, pauses, approvedBy, effects, routed, mixed>>

\* The process dies; only the store survives.
Crash(c) ==
    /\ Live(c)
    /\ Fault
    /\ Tear(c)
    /\ Return(c)
    /\ UNCHANGED <<store, calls, answers, pauses, approvedBy, effects, routed, mixed>>

\* write_run_end is best-effort: a put that raises is logged and dropped.
LoseMarker(c) ==
    /\ call[c].pc = "end"
    /\ Fault
    /\ Return(c)
    /\ UNCHANGED <<store, calls, answers, history>>

----------------------------------------------------------------------------

Init ==
    /\ log = <<>> /\ pending = NoPending /\ cache = {}
    /\ call = [c \in Callers |-> Idle]
    /\ calls = 0 /\ answers = 0 /\ faults = 0
    /\ pauses = <<>> /\ approvedBy = <<>>
    /\ effects = [n \in Node |-> 0] /\ torn = [n \in Node |-> 0]
    /\ routed = Entries /\ mixed = FALSE

\* What a call does once it has started.
Step(c) ==
    \/ ReadLatest(c) \/ ReadHistory(c) \/ Claim(c) \/ Refuse(c) \/ Continue(c)
    \/ EnterNode(c) \/ LookUp(c) \/ RunBody(c) \/ SaveResult(c)
    \/ Pause(c) \/ PauseConflict(c) \/ Reject(c) \/ NoHandler(c) \/ Commit(c)
    \/ Complete(c) \/ MarkEnd(c)

Next == \E c \in Callers :
          \/ Execute(c) \/ \E answer \in BOOLEAN : Resume(c, answer)
          \/ Step(c)
          \/ Fail(c) \/ Crash(c) \/ LoseMarker(c)

Spec == Init /\ [][Next]_vars

\* A call that started is scheduled until it returns, and somebody goes on resuming an
\* unfinished run.  Nothing has to fail.
FairSpec ==
    /\ Spec
    /\ \A c \in Callers : WF_vars(Step(c)) /\ WF_vars(Resume(c, FALSE))

----------------------------------------------------------------------------
(* Properties *)

Locals == [pc : {"idle", "latest", "history", "claim"} \cup RunningAt,
           at : 1..(Last + 1), active : SUBSET Node, state : SUBSET Node,
           seen : Row, answer : BOOLEAN, ticket : Nat, gated : BOOLEAN,
           end : {"completed", "failed"}]
Calls == {l \in Locals : l.pc \in InNodeAt => l.at \in Node}

\* Every variable holds what the code can put there.
TypeOK ==
    /\ log \in Seq(Row)
    /\ pending \in {NoPending} \cup [node : Node, ticket : Nat \ {0}]
    /\ cache \subseteq Node
    /\ call \in [Callers -> Calls]
    /\ calls \in Nat /\ answers \in Nat /\ faults \in Nat
    /\ pauses \in Seq([node : Node, snap : SUBSET Node])
    /\ approvedBy \in Seq(Nat)
    /\ effects \in [Node -> Nat] /\ torn \in [Node -> Nat]
    /\ routed \subseteq Node /\ mixed \in BOOLEAN

\* A step behind an interrupt() has a checkpoint only if a pause of that very node was
\* recorded and approved, and each approval lets one step through, once: however many
\* callers race (delete_pending_interrupt_atomic), crash or retry.
EveryGatedStepApproved ==
    /\ \A i \in DOMAIN log :
         log[i].status = "completed" /\ log[i].node \in Pauses =>
           /\ approvedBy[i] \in DOMAIN pauses
           /\ pauses[approvedBy[i]].node = log[i].node
    /\ \A i, j \in DOMAIN approvedBy :
         approvedBy[i] = approvedBy[j] /\ approvedBy[i] # 0 => i = j

\* The approval asked for by pause t has let a step through.
Spent(t) == \E i \in DOMAIN approvedBy : approvedBy[i] = t

\* A call with locals l that holds an approval is running under an unspent one, and is
\* bound for the node that asked for it.
HoldsRightly(l) ==
    l.ticket # 0 => /\ l.ticket \in DOMAIN pauses /\ ~Spent(l.ticket)
                    /\ l.pc \in RunningAt
                    /\ l.pc = "loop" => l.active = {pauses[l.ticket].node}
                    /\ l.pc \in InNodeAt => l.at = pauses[l.ticket].node

\* An approval is in one hand: in the pending row, with one call, or spent on one step.
\* This is what makes EveryGatedStepApproved hold, and is inductive with it.
ApprovalInOneHand ==
    /\ Len(approvedBy) = Len(log)
    /\ \A i \in DOMAIN approvedBy : approvedBy[i] \in 0..Len(pauses)
    /\ pending # NoPending => /\ pending.ticket \in DOMAIN pauses
                              /\ pauses[pending.ticket].node = pending.node
                              /\ ~Spent(pending.ticket)
                              /\ \A c \in Callers : call[c].ticket # pending.ticket
    /\ \A c \in Callers : HoldsRightly(call[c])
    /\ \A c, d \in Callers :
         call[c].ticket = call[d].ticket /\ call[c].ticket # 0 => c = d

\* As long as only answers to a pause overlap, the claim of the pending row makes the
\* calls take turns: one of them runs nodes, and none while a pause is waiting.
AnswersTakeTurns ==
    ~mixed => \A c, d \in Callers :
                Running(c) => pending = NoPending /\ (Running(d) => c = d)

\* With the same proviso, the body of an @idempotent call runs once per execution, but
\* for the times its process died or it raised before the result was stored.
IdempotentBodyOnce ==
    ~mixed => \A n \in Node : effects[n] <= 1 + torn[n]

\* A run that carries a completed marker is over: no call writes another row or runs
\* another side effect (AlreadyResumed), however late it read the log.
FinishedIsFinal ==
    [][Finished /\ ~mixed => log' = log /\ effects' = effects]_vars

\* What has become of the approval asked for by pause t.
Phase(t) ==
    CASE pending.ticket = t -> "open"
      [] pending.ticket # t /\ (\E c \in Callers : call[c].ticket = t) -> "granted"
      [] OTHER -> IF Spent(t) THEN "spent" ELSE "lost"

\* The row the next resume would start from, as a set.
ReEntry == IF log = <<>> THEN {}
           ELSE IF log[Len(log)].node # RunEnd THEN {Len(log)} ELSE LastStep(log)

AtRest == \A c \in Callers : ~Live(c)

\* A run that saved a step and stopped before its end can be resumed, unless it lost an
\* approval: a pause is waiting for its answer, or a plain resume finds a row, behind failed
\* markers too, and the row is not a pause.  A run that raised or died before its first
\* step was saved cannot: there is nothing behind its marker.
StaysResumable ==
    AtRest /\ ~Finished /\ Steps(log) # {} /\ (\A t \in DOMAIN pauses : Phase(t) # "lost")
      => pending # NoPending \/ \E i \in ReEntry : log[i].status # "interrupted"

\* A completed run skipped none of the nodes its branches routed to, unless an inline
\* gate stopped it.
NoRoutedNodeSkipped ==
    Finished /\ routed \cap Gates \subseteq Committed => routed \subseteq Committed

\* A completed run lost no output: the state its marker carries holds the output of
\* every node it committed, whatever pauses, failures and crashes came between.
NoOutputLost ==
    \A i \in DOMAIN log :
      log[i].node = RunEnd /\ log[i].status = "completed" => log[i].snap = Committed

\* A node that has its checkpoint runs again only when the last node has one too (the
\* run died, or lost its marker, after its last step).
RerunOnlyAfterLastNode ==
    \A c \in Callers : InNode(c) /\ call[c].at \in Committed => Last \in Committed

\* docs/chains/index.md: a node that no upstream branch routes to is skipped.
OnlyRoutedNodesRun == \A c \in Callers : InNode(c) => call[c].at \in routed

\* A condition node takes one of its branches in a run: of the nodes that only it leads
\* to, at most one has a checkpoint.
BranchesExclusive ==
    \A n \in Conditions :
      \A t, u \in {m \in Committed : \E i \in DOMAIN Out[n] : Out[n][i].to = m} :
        t # u => \E m \in Node \ {n} : \E i \in DOMAIN Out[m] : Out[m][i].to \in {t, u}

\* An answer resumes the pause it answers, from the state saved at that pause: the
\* second click on an Approve button is refused (docs/chains/hitl.md).
AnswerResumesItsPause ==
    \A c \in Callers : call[c].ticket # 0 => call[c].state = pauses[call[c].ticket].snap

\* A run that has saved a step is brought to its end by resumes, once faults stop.
Recovers == (Steps(log) # {}) ~> Finished

----------------------------------------------------------------------------
(* The human-in-the-loop gate this implements *)

Gate == INSTANCE Approval WITH request <- [t \in DOMAIN pauses |-> Phase(t)]

\* The pending row and its claim implement Approval: a request is granted to one
\* resumer, and a grant is spent once or lost.
ImplementsApproval == Gate!Spec
=============================================================================
