-------------------------- MODULE ChainCycleProofs --------------------------
(***************************************************************************)
(* Theorems about ChainCycle, for a chain of any length, any cyclic edge   *)
(* in it, any limits and any depth of the recursion: what a frame sees,    *)
(* what a halt stops, and what the iteration counter counts.               *)
(***************************************************************************)
EXTENDS ChainCycle, SequenceTheorems, TLAPS

----------------------------------------------------------------------------
(* The inductive invariant *)

Frames == [at : 1..(Length + 1), on : BOOLEAN, state : State, before : State,
           behind : BOOLEAN, counter : Nat]

\* Every variable holds what the code can put there.
TypeOK ==
    /\ config \in [limit : Limits, onMax : {"error", "continue"}, conditional : BOOLEAN]
    /\ stack \in Seq(Frames)
    /\ saved \in [at : 0..Length, state : State]
    /\ status \in {"running", "paused", "rejected", "failed", "completed"}
    /\ runs \in [Node -> Nat]
    /\ loops \in Nat /\ halted \in BOOLEAN /\ pauses \in Nat

\* There are frames while the chain runs and a row to resume from while it is paused, and
\* only a chain that is down is halted.
RowOrFrames ==
    /\ status = "running" <=> stack # <<>>
    /\ status = "running" => saved = NoPause
    /\ status = "paused" => saved.at \in Node
    /\ halted => status \in {"paused", "rejected"}

\* A frame that waits for an inner one has followed the edge once, and is at it; the
\* innermost has not followed it, unless it is behind it for good.
FreshCounters ==
    /\ \A i \in 1..(Len(stack) - 1) : stack[i].at = From
    /\ stack # <<>> =>
         /\ Top.at <= From => Top.counter = 0
         /\ Top.behind => Top.at \in Node

\* However often the edge is followed, every visit counts as the first one: the counters
\* belong to a call of execute_chain, and the edge leads to another call.
EveryVisitIsTheFirst == AtCycle => Counted = 1

Inv == TypeOK /\ RowOrFrames /\ FreshCounters /\ SeesLatestOutputs

----------------------------------------------------------------------------
(* The stack *)

\* Popping: what is left of a stack of frames, and its innermost frame.
LEMMA Popping ==
    ASSUME NEW s \in Seq(Frames), s # <<>>
    PROVE  /\ Len(s) \in Nat \ {0} /\ Last(s) \in Frames
           /\ Front(s) \in Seq(Frames) /\ Len(Front(s)) = Len(s) - 1
           /\ \A i \in 1..(Len(s) - 1) : Front(s)[i] = s[i]
<1>1. Len(s) \in Nat \ {0}
  OBVIOUS
<1>2. Last(s) \in Frames
  BY <1>1 DEF Last
<1>3. \A i \in 1..(Len(s) - 1) : s[i] \in Frames
  BY <1>1
<1>4. /\ Front(s) \in Seq(Frames)
      /\ Len(Front(s)) = IF 1 <= Len(s) - 1 THEN (Len(s) - 1) - 1 + 1 ELSE 0
      /\ \A i \in 1..((Len(s) - 1) - 1 + 1) : Front(s)[i] = s[1 + i - 1]
  BY <1>1, <1>3, SubSeqProperties DEF Front
<1>5. Len(Front(s)) = Len(s) - 1
  <2>1. Len(Front(s)) = IF 1 <= Len(s) - 1 THEN (Len(s) - 1) - 1 + 1 ELSE 0
    BY <1>4
  <2> HIDE <1>4
  <2> QED BY <1>1, <2>1
<1>6. ASSUME NEW i \in 1..(Len(s) - 1) PROVE Front(s)[i] = s[i]
  <2>1. 1 + i - 1 = i /\ i \in 1..((Len(s) - 1) - 1 + 1)
    BY <1>1
  <2> QED BY <1>4, <2>1
<1> QED BY <1>1, <1>2, <1>4, <1>5, <1>6

\* Pushing a frame f on calls that wait at the cyclic edge.
LEMMA Pushing ==
    ASSUME NEW t \in Seq(Frames), NEW f \in Frames, stack' = Append(t, f),
           \A i \in 1..Len(t) : t[i].at = From,
           f.at <= From => f.counter = 0, f.behind => f.at \in Node
    PROVE  stack' \in Seq(Frames) /\ stack' # <<>> /\ Top' = f /\ FreshCounters'
<1>1. stack' \in Seq(Frames) /\ Len(stack') = Len(t) + 1 /\ Len(t) \in Nat
  OBVIOUS
<1>2. stack' # <<>>
  BY <1>1
<1>3. stack'[Len(stack')] = f /\ \A i \in 1..Len(t) : stack'[i] = t[i]
  BY <1>1
<1>4. Top' = f
  BY <1>3 DEF Top, Last
<1>5. \A i \in 1..(Len(stack') - 1) : stack'[i].at = From
  BY <1>1, <1>3
<1> QED BY <1>1, <1>2, <1>4, <1>5 DEF FreshCounters

\* A call of execute_chain starts at a node, with a state and no iteration counted.
LEMMA FrameIsAFrame ==
    ASSUME NEW n \in Node, NEW s \in State
    PROVE  /\ Frame(n, s) \in Frames /\ Frame(n, s).counter = 0
           /\ Frame(n, s).state = s /\ ~Frame(n, s).behind
BY CycleAssumption DEF Frame, Frames, Node

\* The loop goes on to the next node.
LEMMA OnwardIsAFrame ==
    ASSUME NEW f \in Frames, f.at \in Node, NEW on \in BOOLEAN
    PROVE  /\ Onward(f, on) \in Frames /\ Onward(f, on).at = f.at + 1
           /\ Onward(f, on).counter = f.counter /\ Onward(f, on).state = f.state
           /\ ~Onward(f, on).behind
<1>1. f.at + 1 \in 1..(Length + 1)
  BY CycleAssumption DEF Node
<1>2. Onward(f, on) \in Frames
  BY <1>1 DEF Onward, Frames
<1>3. /\ Onward(f, on).at = f.at + 1 /\ Onward(f, on).counter = f.counter
      /\ Onward(f, on).state = f.state /\ ~Onward(f, on).behind
  BY DEF Onward, Frames
<1> QED BY <1>2, <1>3

----------------------------------------------------------------------------
(* The invariant is inductive *)

LEMMA InitInv == Init => Inv
<1> SUFFICES ASSUME Init PROVE Inv
  OBVIOUS
<1>1. NoOutput \in State /\ 1 \in Node
  BY CycleAssumption DEF NoOutput, State, Node
<1>2. stack = Append(<<>>, Frame(1, NoOutput)) /\ Frame(1, NoOutput) \in Frames
  BY <1>1, FrameIsAFrame DEF Init
<1>3. stack \in Seq(Frames) /\ Len(stack) = 1 /\ Top = Frame(1, NoOutput)
  BY <1>2 DEF Init, Top, Last
<1>4. TypeOK
  <2>1. saved \in [at : 0..Length, state : State]
    BY <1>1, CycleAssumption DEF Init, NoPause
  <2>2. runs \in [Node -> Nat]
    BY DEF Init
  <2> QED BY <1>3, <2>1, <2>2 DEF Init, TypeOK
<1>5. RowOrFrames
  BY <1>3 DEF Init, RowOrFrames
<1>6. FreshCounters
  BY <1>1, <1>3, FrameIsAFrame DEF FreshCounters
<1>7. SeesLatestOutputs
  BY <1>1, <1>3, FrameIsAFrame DEF Init, SeesLatestOutputs, NoOutput
<1> QED BY <1>4, <1>5, <1>6, <1>7 DEF Inv

\* The facts about the innermost frame of a running chain that every step needs.
LEMMA Running ==
    ASSUME Inv, status = "running"
    PROVE  /\ stack \in Seq(Frames) /\ stack # <<>> /\ Top \in Frames /\ Top.state \in State
           /\ Top.state.out = runs /\ (Top.behind => Top.at \in Node)
           /\ (Top.at <= From => Top.counter = 0)
           /\ Front(stack) \in Seq(Frames)
           /\ \A i \in 1..Len(Front(stack)) : Front(stack)[i].at = From
<1>1. stack \in Seq(Frames) /\ stack # <<>>
  BY DEF Inv, TypeOK, RowOrFrames
<1>2. Top \in Frames /\ Front(stack) \in Seq(Frames) /\ Len(Front(stack)) = Len(stack) - 1
      /\ \A i \in 1..(Len(stack) - 1) : Front(stack)[i] = stack[i]
  BY <1>1, Popping DEF Top
<1>3. Top.state \in State
  BY <1>2 DEF Frames
<1> QED BY <1>1, <1>2, <1>3 DEF Inv, FreshCounters, SeesLatestOutputs

\* A step that goes on running, with f as the innermost frame on t.
LEMMA RunningStep ==
    ASSUME Inv, status = "running", UNCHANGED <<config, saved, status, halted, pauses>>,
           runs' \in [Node -> Nat], loops' \in Nat,
           NEW t \in Seq(Frames), NEW f \in Frames, stack' = Append(t, f),
           \A i \in 1..Len(t) : t[i].at = From,
           f.at <= From => f.counter = 0, f.behind => f.at \in Node, f.state.out = runs'
    PROVE  Inv'
<1>1. stack' \in Seq(Frames) /\ stack' # <<>> /\ Top' = f /\ FreshCounters'
  BY Pushing
<1>2. TypeOK'
  BY <1>1 DEF Inv, TypeOK
<1>3. RowOrFrames'
  BY <1>1 DEF Inv, RowOrFrames
<1>4. SeesLatestOutputs'
  BY <1>1 DEF Inv, RowOrFrames, SeesLatestOutputs
<1> QED BY <1>1, <1>2, <1>3, <1>4 DEF Inv

\* A step after which no frame is left and no row waits.
LEMMA EndingStep ==
    ASSUME Inv, status = "running", NEW how \in {"rejected", "failed", "completed"}, End(how),
           UNCHANGED <<config, saved, runs, loops, pauses>>,
           halted' \in BOOLEAN, halted' => how = "rejected"
    PROVE  Inv'
<1>1. stack' = <<>> /\ status' = how /\ saved = NoPause
  BY DEF End, Inv, RowOrFrames
<1>2. TypeOK'
  BY <1>1 DEF Inv, TypeOK
<1>3. RowOrFrames' /\ SeesLatestOutputs'
  BY <1>1 DEF RowOrFrames, SeesLatestOutputs
<1>4. FreshCounters'
  BY <1>1 DEF FreshCounters
<1> QED BY <1>2, <1>3, <1>4 DEF Inv

LEMMA NextInv == Inv /\ [Next]_vars => Inv'
<1> SUFFICES ASSUME Inv, [Next]_vars PROVE Inv'
  OBVIOUS
<1>1. CASE UNCHANGED vars
  BY <1>1 DEF vars, history, Inv, TypeOK, RowOrFrames, FreshCounters, SeesLatestOutputs, Top
<1>2. CASE RunNode
  <2>1. status = "running" /\ Top.at \in Node
    BY <1>2 DEF RunNode, AtNode
  <2>2. PICK good \in BOOLEAN :
          stack' = Append(Front(stack),
            [Top EXCEPT !.behind = TRUE, !.before = Top.state,
                        !.state = [out |-> [@.out EXCEPT ![Top.at] = runs[Top.at] + 1],
                                   good |-> good]])
    BY <1>2, <2>1, Running DEF RunNode, SetTop, State
  <2> DEFINE out == [Top.state.out EXCEPT ![Top.at] = runs[Top.at] + 1]
             f == [Top EXCEPT !.behind = TRUE, !.before = Top.state,
                              !.state = [out |-> out, good |-> good]]
  <2>3. runs' = [runs EXCEPT ![Top.at] = @ + 1] /\ runs' \in [Node -> Nat]
    BY <1>2, <2>1 DEF RunNode, Inv, TypeOK
  <2>4. out = runs'
    BY <2>1, <2>3, Running
  <2>5. f \in Frames /\ f.at = Top.at /\ f.counter = Top.counter /\ f.state.out = runs'
    BY <2>1, <2>3, <2>4, Running DEF Frames, State
  <2>6. stack' = Append(Front(stack), f)
    BY <2>2
  <2> HIDE DEF f
  <2>7. UNCHANGED <<config, saved, status, halted, pauses, loops>> /\ loops \in Nat
    BY <1>2 DEF RunNode, Inv, TypeOK
  <2> QED BY <2>1, <2>3, <2>5, <2>6, <2>7, Running, RunningStep
<1>3. CASE Interrupt
  <2>1. status = "running" /\ stack' = <<>> /\ status' = "paused" /\ Top.at \in Node
        /\ saved' = [at |-> Top.at, state |-> Top.state]
        /\ pauses' = pauses + 1 /\ halted' = TRUE
    BY <1>3 DEF Interrupt, AtNode, End
  <2>2. Top.state \in State /\ Top.state.out = runs
    BY <2>1, Running
  <2>3. TypeOK'
    BY <1>3, <2>1, <2>2, CycleAssumption DEF Interrupt, Inv, TypeOK, Node
  <2>4. RowOrFrames'
    BY <2>1 DEF RowOrFrames
  <2>5. FreshCounters' /\ SeesLatestOutputs'
    BY <1>3, <2>1, <2>2 DEF Interrupt, FreshCounters, SeesLatestOutputs
  <2> QED BY <2>3, <2>4, <2>5 DEF Inv
<1>4. CASE Reject
  BY <1>4, EndingStep DEF Reject, AtNode
<1>5. CASE Raise
  <2>1. status = "running" /\ ~halted
    BY <1>5 DEF Raise, AtNode, Inv, RowOrFrames
  <2>2. PICK how \in {"failed", "completed"} : End(how)
    BY <1>5 DEF Raise
  <2>3. halted' = FALSE /\ UNCHANGED <<config, saved, runs, loops, pauses>>
    BY <1>5, <2>1 DEF Raise, history, Inv, TypeOK
  <2> QED BY <2>1, <2>2, <2>3, EndingStep
<1>6. CASE GoOn
  <2>1. status = "running" /\ Top.behind /\ Top.at # From
        /\ stack' = Append(Front(stack), Onward(Top, Routed))
    BY <1>6 DEF GoOn, SetTop
  <2>2. Routed \in BOOLEAN
    BY <2>1, Running DEF Routed, State
  <2>3. Top.at + 1 <= From => Top.at <= From
    BY <2>1, Running, CycleAssumption DEF Node
  <2>4. Onward(Top, Routed) \in Frames /\ Onward(Top, Routed).at = Top.at + 1
        /\ Onward(Top, Routed).counter = Top.counter
        /\ Onward(Top, Routed).state = Top.state /\ ~Onward(Top, Routed).behind
    BY <2>1, <2>2, Running, OnwardIsAFrame
  <2>5. UNCHANGED <<config, saved, status, halted, pauses, runs, loops>>
        /\ runs \in [Node -> Nat] /\ loops \in Nat
    BY <1>6 DEF GoOn, history, Inv, TypeOK
  <2> QED BY <2>1, <2>3, <2>4, <2>5, Running, RunningStep
<1>7. CASE LeaveCycle
  <2>1. status = "running" /\ Top.behind /\ Top.at = From
        /\ stack' = Append(Front(stack), Onward(Top, Routed))
    BY <1>7 DEF LeaveCycle, AtCycle, SetTop
  <2>2. Routed \in BOOLEAN
    BY <2>1, Running DEF Routed, State
  <2>3. ~(Top.at + 1 <= From)
    BY <2>1, CycleAssumption DEF Node
  <2>4. Onward(Top, Routed) \in Frames /\ Onward(Top, Routed).at = Top.at + 1
        /\ Onward(Top, Routed).state = Top.state /\ ~Onward(Top, Routed).behind
    BY <2>1, <2>2, Running, OnwardIsAFrame
  <2>5. UNCHANGED <<config, saved, status, halted, pauses, runs, loops>>
        /\ runs \in [Node -> Nat] /\ loops \in Nat
    BY <1>7 DEF LeaveCycle, history, Inv, TypeOK
  <2> QED BY <2>1, <2>3, <2>4, <2>5, Running, RunningStep
<1>8. CASE CycleLimit
  <2>1. status = "running" /\ ~halted
    BY <1>8 DEF CycleLimit, AtCycle, Inv, RowOrFrames
  <2>2. PICK how \in {"failed", "completed"} : End(how)
    BY <1>8 DEF CycleLimit
  <2>3. halted' = FALSE /\ UNCHANGED <<config, saved, runs, loops, pauses>>
    BY <1>8, <2>1 DEF CycleLimit, history, Inv, TypeOK
  <2> QED BY <2>1, <2>2, <2>3, EndingStep
<1>9. CASE FollowCycle
  <2> DEFINE waiting == [Top EXCEPT !.counter = Counted]
             t == Append(Front(stack), waiting)
             f == Frame(To, Top.state)
  <2>1. status = "running" /\ Top.at = From /\ stack' = Append(t, f)
    BY <1>9 DEF FollowCycle, AtCycle
  <2>2. waiting \in Frames /\ waiting.at = From
    <3>1. Counted \in Nat
      BY <2>1, Running DEF Counted, Frames
    <3>2. Top \in Frames
      BY <2>1, Running
    <3> QED BY <2>1, <3>1, <3>2 DEF Frames
  <2>3. t \in Seq(Frames) /\ Len(t) = Len(Front(stack)) + 1
        /\ \A i \in 1..Len(t) : t[i].at = From
    BY <2>1, <2>2, Running
  <2>4. f \in Frames /\ f.counter = 0 /\ ~f.behind /\ f.state.out = runs
    BY <2>1, Running, FrameIsAFrame, CycleAssumption DEF Node
  <2> HIDE DEF t, f
  <2>5. UNCHANGED <<config, saved, status, halted, pauses, runs>>
        /\ runs \in [Node -> Nat] /\ loops' \in Nat
    BY <1>9 DEF FollowCycle, Inv, TypeOK
  <2> QED BY <2>1, <2>3, <2>4, <2>5, RunningStep
<1>10. CASE ReturnFromCycle
  <2> DEFINE outer == Last(Front(stack))
             routed == config.conditional => outer.state.good
             merged == [outer EXCEPT !.state = Top.state]
  <2>1. status = "running" /\ Len(stack) > 1
        /\ stack' = Append(Front(Front(stack)), Onward(merged, routed))
    BY <1>10 DEF ReturnFromCycle, AtEnd
  <2>2. Len(Front(stack)) = Len(stack) - 1 /\ Front(stack) # <<>>
    BY <2>1, Running, Popping
  <2>3. outer \in Frames /\ Front(Front(stack)) \in Seq(Frames)
        /\ Len(Front(Front(stack))) = Len(Front(stack)) - 1
        /\ \A i \in 1..Len(Front(Front(stack))) : Front(Front(stack))[i].at = From
    <3>1. Front(stack) \in Seq(Frames) /\ \A i \in 1..Len(Front(stack)) : Front(stack)[i].at = From
      BY <2>1, Running
    <3>2. /\ outer \in Frames /\ Front(Front(stack)) \in Seq(Frames)
          /\ Len(Front(Front(stack))) = Len(Front(stack)) - 1
          /\ \A i \in 1..(Len(Front(stack)) - 1) : Front(Front(stack))[i] = Front(stack)[i]
      BY <2>2, <3>1, Popping
    <3> QED BY <3>1, <3>2
  <2>4. outer.at = From
    <3>1. Len(Front(stack)) \in 1..Len(Front(stack))
      BY <2>1, <2>2, Running, Popping
    <3> QED BY <2>1, <3>1, Running DEF Last
  <2>5. merged \in Frames /\ merged.at = From /\ merged.state = Top.state
    BY <2>1, <2>3, <2>4, Running DEF Frames
  <2>6. routed \in BOOLEAN /\ From \in Node
    BY <2>3, CycleAssumption DEF Frames, State
  <2> HIDE DEF merged, routed
  <2>7. Onward(merged, routed) \in Frames /\ Onward(merged, routed).at = From + 1
        /\ Onward(merged, routed).state = Top.state /\ ~Onward(merged, routed).behind
    BY <2>5, <2>6, OnwardIsAFrame
  <2>8. ~(From + 1 <= From)
    BY CycleAssumption DEF Node
  <2>9. UNCHANGED <<config, saved, status, halted, pauses, runs, loops>>
        /\ runs \in [Node -> Nat] /\ loops \in Nat
    BY <1>10 DEF ReturnFromCycle, history, Inv, TypeOK
  <2> QED BY <2>1, <2>3, <2>7, <2>8, <2>9, Running, RunningStep
<1>11. CASE Complete
  <2>1. status = "running" /\ ~halted
    BY <1>11 DEF Complete, AtEnd, Inv, RowOrFrames
  <2>2. PICK how \in {"failed", "completed"} : End(how)
    BY <1>11 DEF Complete
  <2>3. halted' = FALSE /\ UNCHANGED <<config, saved, runs, loops, pauses>>
    BY <1>11, <2>1 DEF Complete, history, Inv, TypeOK
  <2> QED BY <2>1, <2>2, <2>3, EndingStep
<1>12. CASE Resume
  <2> DEFINE f == Frame(saved.at, saved.state)
  <2>1. saved.at \in Node /\ saved.state \in State /\ saved # NoPause
    BY <1>12, CycleAssumption DEF Resume, Inv, TypeOK, RowOrFrames, NoPause, Node
  <2>2. stack' = Append(<<>>, f) /\ saved' = NoPause /\ status' = "running" /\ halted' = FALSE
    BY <1>12 DEF Resume
  <2>3. f \in Frames /\ f.counter = 0 /\ ~f.behind /\ f.state.out = runs
    BY <2>1, FrameIsAFrame DEF Inv, SeesLatestOutputs
  <2> HIDE DEF f
  <2>4. stack' \in Seq(Frames) /\ stack' # <<>> /\ Top' = f /\ FreshCounters'
    <3>1. <<>> \in Seq(Frames) /\ Len(<<>>) = 0
      OBVIOUS
    <3>2. \A i \in 1..Len(<<>>) : <<>>[i].at = From
      BY <3>1
    <3> QED BY <2>2, <2>3, <3>1, <3>2, Pushing
  <2>5. NoPause \in [at : 0..Length, state : State]
    BY CycleAssumption DEF NoPause, NoOutput, State
  <2>6. TypeOK'
    BY <1>12, <2>2, <2>4, <2>5 DEF Resume, Inv, TypeOK
  <2>7. RowOrFrames' /\ SeesLatestOutputs'
    BY <1>12, <2>2, <2>3, <2>4 DEF Resume, RowOrFrames, SeesLatestOutputs
  <2> QED BY <2>4, <2>6, <2>7 DEF Inv
<1> QED
  BY <1>1, <1>2, <1>3, <1>4, <1>5, <1>6, <1>7, <1>8, <1>9, <1>10, <1>11, <1>12 DEF Next

LEMMA Invariance == Spec => []Inv
BY InitInv, NextInv, PTL DEF Spec

----------------------------------------------------------------------------
(* The theorems *)

\* Wherever the chain is, in however many frames and after however many pauses, the node
\* that runs next sees the output of the latest run of every node, and so does the row of a
\* pause (the snapshots and merges of execute_chain, chain/executor.py:551).
THEOREM LatestOutputsAreSeen == Spec => []SeesLatestOutputs
<1>1. Inv => SeesLatestOutputs
  BY DEF Inv
<1> QED BY Invariance, <1>1, PTL

\* Nothing runs between a pause or a rejection and the next resume, in any frame.
THEOREM HaltsStopEveryFrame == Spec => HaltStopsEveryFrame
<1>1. Inv /\ [Next]_vars => [halted => runs' = runs]_vars
  <2> SUFFICES ASSUME Inv, Next, halted PROVE runs' = runs
    BY DEF vars
  <2>1. status # "running"
    BY DEF Inv, RowOrFrames
  <2>2. Resume
    BY <2>1 DEF Next, RunNode, Interrupt, Reject, Raise, GoOn, LeaveCycle, CycleLimit,
       FollowCycle, ReturnFromCycle, Complete, AtNode, AtCycle, AtEnd
  <2> QED BY <2>2 DEF Resume
<1> QED BY Invariance, <1>1, PTL DEF Spec, HaltStopsEveryFrame

\* Every visit of the edge is counted as the first (iteration_counters, executor.py:239),
\* so that a max_iterations above 1 limits nothing.
THEOREM NoIterationIsCounted == Spec => []EveryVisitIsTheFirst
<1>1. Inv => EveryVisitIsTheFirst
  <2> SUFFICES ASSUME Inv, AtCycle PROVE Counted = 1
    BY DEF EveryVisitIsTheFirst
  <2>1. status = "running" /\ Top.at = From
    BY DEF AtCycle
  <2>2. Top.counter = 0
    BY <2>1, Running, CycleAssumption DEF Node
  <2> QED BY <2>2 DEF Counted
<1> QED BY Invariance, <1>1, PTL
=============================================================================
