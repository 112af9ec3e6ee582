----------------------------- MODULE ChainCycle -----------------------------
(***************************************************************************)
(* Cyclic edges of a chain.  execute_chain follows one by calling itself   *)
(* from the target of the edge to the end of the chain, and goes on behind *)
(* the source when that call returns: a stack of frames, each with its own *)
(* state and its own iteration counters.                                   *)
(*                                                                         *)
(* The chain is 1 -> 2 -> ... -> Length with one cyclic edge From -> To,   *)
(* as in docs/chains/cyclic-workflows.md.  A state holds, for every node,  *)
(* the number of the run whose output it has, and whether the exit         *)
(* condition holds in it.  Claims and faults are ChainRun's.               *)
(***************************************************************************)
EXTENDS Naturals, SequencesExt

CONSTANTS
    Length, From, To,  \* the nodes, and the ends of the cyclic edge
    Limits,            \* the values tried for max_iterations
    MaxDepth,          \* bound: frames, of Python's recursion limit
    MaxPauses          \* bound: interrupts

Node == 1..Length

ASSUME CycleAssumption ==
    /\ Length \in Nat /\ From \in Node /\ To \in 1..From
    /\ Limits \subseteq Nat \ {0} /\ MaxDepth \in Nat \ {0} /\ MaxPauses \in Nat

VARIABLES
    config,   \* the edge's max_iterations and on_max_reached; is From -> From + 1
              \* conditional on the exit condition
    stack,    \* the calls of execute_chain, the innermost last
    saved,    \* the interrupted row: its node and its state; or NoPause
    status,   \* of the chain
    \* history, read by no action but Resume
    runs,     \* how often each node ran
    loops,    \* how often the cyclic edge was followed
    halted,   \* some node paused the chain or rejected
    pauses

history == <<runs, loops, halted, pauses>>
vars == <<config, stack, saved, status, history>>

State == [out : [Node -> Nat], good : BOOLEAN]
NoOutput == [out |-> [n \in Node |-> 0], good |-> FALSE]
NoPause == [at |-> 0, state |-> NoOutput]

\* at: the node of the loop, activated or not (on); before: the context it ran in; behind:
\* it has run, and its edges are looked at; counter: of the cyclic edge.
Frame(n, s) == [at |-> n, on |-> TRUE, state |-> s, before |-> s, behind |-> FALSE,
                counter |-> 0]
Top == Last(stack)
SetTop(f) == stack' = Append(Front(stack), f)
Onward(f, on) == [f EXCEPT !.at = @ + 1, !.on = on, !.behind = FALSE]

AtNode == status = "running" /\ Top.on /\ Top.at \in Node /\ ~Top.behind
End(how) == status' = how /\ stack' = <<>>

----------------------------------------------------------------------------

\* The node runs and its output goes into the state; From decides the exit condition.
RunNode ==
    /\ AtNode
    /\ \E good \in IF Top.at = From THEN BOOLEAN ELSE {Top.state.good} :
         SetTop([Top EXCEPT !.behind = TRUE, !.before = Top.state,
                            !.state = [out |-> [@.out EXCEPT ![Top.at] = runs[Top.at] + 1],
                                       good |-> good]])
    /\ runs' = [runs EXCEPT ![Top.at] = @ + 1]
    /\ UNCHANGED <<config, saved, status, loops, halted, pauses>>

\* Broken variant: the calls around the one that paused go on.
InterruptInnermost ==
    /\ AtNode /\ pauses < MaxPauses /\ Len(stack) > 1
    /\ saved' = [at |-> Top.at, state |-> Top.state]
    /\ LET outer == Last(Front(stack))
       IN stack' = Append(Front(Front(stack)), Onward([outer EXCEPT !.state = Top.state], TRUE))
    /\ halted' = TRUE /\ pauses' = pauses + 1
    /\ UNCHANGED <<config, status, runs, loops>>

\* It calls interrupt(): "paused" is returned through every frame.
Interrupt ==
    /\ AtNode /\ pauses < MaxPauses
    /\ saved' = [at |-> Top.at, state |-> Top.state]
    /\ End("paused")
    /\ halted' = TRUE /\ pauses' = pauses + 1
    /\ UNCHANGED <<config, runs, loops>>

\* An approval gate says no, or the node raises: the whole chain ends.
Reject ==
    /\ AtNode
    /\ End("rejected")
    /\ halted' = TRUE
    /\ UNCHANGED <<config, saved, runs, loops, pauses>>

Raise ==
    /\ AtNode
    /\ End("failed")
    /\ UNCHANGED <<config, saved, history>>

\* Routing sees the state behind the node ...
Routed == Top.at = From /\ config.conditional => Top.state.good

\* The edges of a node that is not From.
GoOn ==
    /\ status = "running" /\ Top.behind /\ Top.at # From
    /\ SetTop(Onward(Top, Routed))
    /\ UNCHANGED <<config, saved, status, history>>

\* ... the exit condition the context before it.
Exit == Top.before.good

AtCycle == status = "running" /\ Top.behind /\ Top.at = From
Counted == Top.counter + 1

LeaveCycle ==
    /\ AtCycle
    /\ Exit \/ (Counted >= config.limit /\ config.onMax = "continue")
    /\ SetTop(Onward(Top, Routed))
    /\ UNCHANGED <<config, saved, status, history>>

\* ChainCycleError.
CycleLimit ==
    /\ AtCycle
    /\ ~Exit /\ Counted >= config.limit /\ config.onMax = "error"
    /\ End("failed")
    /\ UNCHANGED <<config, saved, history>>

\* The edge is followed: execute_chain from its target, on a snapshot of the state and
\* with counters of its own.
FollowCycle ==
    /\ AtCycle
    /\ ~Exit /\ Counted < config.limit
    /\ Len(stack) < MaxDepth
    /\ stack' = Append(Append(Front(stack), [Top EXCEPT !.counter = Counted]),
                       Frame(To, Top.state))
    /\ loops' = loops + 1
    /\ UNCHANGED <<config, saved, status, runs, halted, pauses>>

\* The frame has come to its end: its last node, or one that was not routed to.
AtEnd == status = "running" /\ ~Top.behind /\ (~Top.on \/ Top.at > Length)

\* Broken variant: the state of the cycle is not merged.
ReturnFromCycleUnmerged ==
    /\ AtEnd /\ Len(stack) > 1
    /\ LET outer == Last(Front(stack))
           routed == config.conditional => outer.state.good
       IN stack' = Append(Front(Front(stack)), Onward(outer, routed))
    /\ UNCHANGED <<config, saved, status, history>>

\* The call returns, its state is the caller's, and the nodes behind From run (again), if
\* the caller had routed to them.
ReturnFromCycle ==
    /\ AtEnd /\ Len(stack) > 1
    /\ LET outer == Last(Front(stack))
           routed == config.conditional => outer.state.good
       IN stack' = Append(Front(Front(stack)),
                          Onward([outer EXCEPT !.state = Top.state], routed))
    /\ UNCHANGED <<config, saved, status, history>>

Complete ==
    /\ AtEnd /\ Len(stack) = 1
    /\ End("completed")
    /\ UNCHANGED <<config, saved, history>>

\* A resume enters at the paused node, with the state of its row and a single frame.
Resume ==
    /\ status = "paused"
    /\ stack' = <<Frame(saved.at, saved.state)>> /\ status' = "running"
    /\ saved' = NoPause /\ halted' = FALSE
    /\ UNCHANGED <<config, runs, loops, pauses>>

Init ==
    /\ config \in [limit : Limits, onMax : {"error", "continue"}, conditional : BOOLEAN]
    /\ stack = <<Frame(1, NoOutput)>> /\ saved = NoPause /\ status = "running"
    /\ runs = [n \in Node |-> 0] /\ loops = 0 /\ halted = FALSE /\ pauses = 0

Next == \/ RunNode \/ Interrupt \/ Reject \/ Raise \/ GoOn
        \/ LeaveCycle \/ CycleLimit \/ FollowCycle \/ ReturnFromCycle \/ Complete \/ Resume

Spec == Init /\ [][Next]_vars

----------------------------------------------------------------------------
(* Properties *)

\* Through the snapshots handed down and the merges back up, the frame that runs has the
\* output of the latest run of every node, and so has what a pause saves.
SeesLatestOutputs ==
    /\ stack # <<>> => Top.state.out = runs
    /\ saved # NoPause => saved.state.out = runs

\* A pause or a rejection inside a cycle stops the calls around it too: no node runs until
\* the chain is resumed.
HaltStopsEveryFrame == [][halted => runs' = runs]_vars

\* "max_iterations: upper bound on loop count" (docs/chains/cyclic-workflows.md:34).
CycleBounded == loops <= config.limit
=============================================================================
