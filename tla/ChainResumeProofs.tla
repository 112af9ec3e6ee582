------------------------- MODULE ChainResumeProofs -------------------------
(***************************************************************************)
(* Theorems about the calls of ChainRun that resume a run, for every chain *)
(* that satisfies their hypotheses and every bound: answers to a pause     *)
(* take turns, a completed run is over, an @idempotent body runs once, a   *)
(* run can be resumed, and what a run re-runs, skips and keeps.            *)
(***************************************************************************)
EXTENDS ChainRunProofs

----------------------------------------------------------------------------
(* What the actions do *)

\* No caller but c takes this step.
Others(c) == \A d \in Callers : d # c => call'[d] = call[d]

\* The fields of a call's locals that say how it was made.
SameCall(c) == call'[c].answer = call[c].answer /\ call'[c].gated = call[c].gated

\* Caller c's call returned.
Returned(c) == Others(c) /\ call'[c] = Idle

\* The place and the state of a call inside execute_chain.
SameRun(c) == /\ call'[c].at = call[c].at /\ call'[c].active = call[c].active
              /\ call'[c].state = call[c].state /\ call'[c].ticket = call[c].ticket

\* A call that returns frees its caller and touches no other.
LEMMA Returning ==
    ASSUME TypeOK, NEW c \in Callers, Return(c)
    PROVE  Returned(c)
BY DEF Return, Returned, Others, TypeOK

\* A call that moves to another location keeps the rest of its locals.
LEMMA Moving ==
    ASSUME TypeOK, NEW c \in Callers, NEW pc, Move(c, pc)
    PROVE  /\ Others(c) /\ SameCall(c) /\ SameRun(c)
           /\ call'[c].pc = pc /\ call'[c].end = call[c].end /\ call'[c].seen = call[c].seen
<1>1. call[c] \in Locals
  BY DEF TypeOK, Calls
<1> QED BY <1>1 DEF Move, Others, SameCall, SameRun, TypeOK, Locals

\* A call that found the row to resume from is about to claim or refuse it.
LEMMA Seeing ==
    ASSUME TypeOK, NEW c \in Callers, NEW row,
           call' = [call EXCEPT ![c] = [@ EXCEPT !.seen = row, !.pc = "claim"]]
    PROVE  /\ Others(c) /\ SameCall(c) /\ SameRun(c)
           /\ call'[c].pc = "claim" /\ call'[c].seen = row /\ call'[c].end = call[c].end
<1>1. call[c] \in Locals
  BY DEF TypeOK, Calls
<1> QED BY <1>1 DEF Others, SameCall, SameRun, TypeOK, Locals

\* The locals of a call that enters execute_chain, field by field.
LEMMA Entering ==
    ASSUME TypeOK, NEW c \in Callers, NEW start, NEW ticket, EnterRun(c, start, ticket)
    PROVE  /\ Others(c)
           /\ call'[c].pc = "loop" /\ call'[c].answer = call[c].answer
           /\ call'[c].ticket = ticket /\ call'[c].state = call[c].seen.snap
           /\ call'[c].end = "failed" /\ call'[c].gated = FALSE
           /\ call'[c].at = IF start = 0 THEN 1 ELSE start
           /\ call'[c].active = IF start = 0 THEN Entries ELSE {start}
BY DEF EnterRun, Others, TypeOK, Idle

\* The locals of a call that begins, field by field.
LEMMA Starting ==
    ASSUME TypeOK, NEW c \in Callers
    PROVE  /\ Execute(c) => /\ Others(c) /\ call'[c].pc = "loop" /\ call'[c].active = Entries
                            /\ call'[c].at = 1 /\ call'[c].state = {} /\ ~call'[c].answer
                            /\ call'[c].end = "failed" /\ call'[c].gated = HasHandler
                            /\ call'[c].ticket = 0
           /\ \A answer \in BOOLEAN : Resume(c, answer) =>
                /\ Others(c) /\ call'[c].pc = "latest" /\ call'[c].answer = answer
                /\ call'[c].end = "failed" /\ call'[c].ticket = 0
<1>2. ASSUME Execute(c)
      PROVE  call'[c] = [Idle EXCEPT !.pc = "loop", !.active = Entries, !.gated = HasHandler]
             /\ Others(c)
  BY <1>2 DEF Execute, Others, TypeOK
<1>3. ASSUME NEW answer \in BOOLEAN, Resume(c, answer)
      PROVE  call'[c] = [Idle EXCEPT !.pc = "latest", !.answer = answer] /\ Others(c)
  BY <1>3 DEF Resume, Others, TypeOK
<1>4. ASSUME Execute(c)
      PROVE  /\ Others(c) /\ call'[c].pc = "loop" /\ call'[c].active = Entries
             /\ call'[c].at = 1 /\ call'[c].state = {} /\ ~call'[c].answer
             /\ call'[c].end = "failed" /\ call'[c].gated = HasHandler
             /\ call'[c].ticket = 0
  BY <1>2, <1>4 DEF Idle
<1>5. ASSUME NEW answer \in BOOLEAN, Resume(c, answer)
      PROVE  /\ Others(c) /\ call'[c].pc = "latest" /\ call'[c].answer = answer
             /\ call'[c].end = "failed" /\ call'[c].ticket = 0
  BY <1>3, <1>5 DEF Idle
<1> QED BY <1>4, <1>5

\* A call that is about to write its marker keeps its place and its state.
LEMMA Ending ==
    ASSUME TypeOK, NEW c \in Callers, NEW end,
           call' = [call EXCEPT ![c] = [@ EXCEPT !.pc = "end", !.end = end]]
    PROVE  /\ Others(c) /\ SameCall(c) /\ SameRun(c)
           /\ call'[c].pc = "end" /\ call'[c].end = end
<1>1. call[c] \in Locals
  BY DEF TypeOK, Calls
<1> QED BY <1>1 DEF Others, SameCall, SameRun, TypeOK, Locals

\* A call that enters a node enters the first one due.
LEMMA Reaching ==
    ASSUME TypeOK, NEW c \in Callers, EnterNode(c)
    PROVE  /\ Others(c) /\ SameCall(c) /\ call'[c].at \in Firsts(Due(c))
           /\ call'[c].pc \in {"lookup", "node"} /\ call'[c].end = call[c].end
           /\ call'[c].state = call[c].state /\ call'[c].active = call[c].active
           /\ call'[c].ticket = call[c].ticket
<1>1. call[c] \in Locals
  BY DEF TypeOK, Calls
<1> QED BY <1>1 DEF EnterNode, Others, SameCall, TypeOK, Locals

\* What a node that commits does to its call and to routed.
LEMMA Committing ==
    ASSUME TypeOK, NEW c \in Callers, Commit(c)
    PROVE  LET n == call[c].at
           IN \E selected \in Selections(n) :
                /\ Others(c) /\ SameCall(c)
                /\ call'[c].pc = IF RoutingFails(n, selected) THEN "end" ELSE "loop"
                /\ call'[c].at = n + 1 /\ call'[c].state = call[c].state \cup {n}
                /\ call'[c].ticket = 0 /\ call'[c].end = call[c].end
                /\ call'[c].active = call[c].active \cup selected
                /\ routed' = routed \cup selected
<1> DEFINE n == call[c].at
<1>1. PICK selected \in Selections(n) :
        /\ routed' = routed \cup selected
        /\ call' = [call EXCEPT ![c] =
             [@ EXCEPT !.state = call[c].state \cup {n}, !.ticket = 0, !.at = n + 1,
                       !.active = call[c].active \cup selected,
                       !.pc = IF RoutingFails(n, selected) THEN "end" ELSE "loop"]]
  BY DEF Commit
<1>2. call[c] \in Locals
  BY DEF TypeOK, Calls
<1> DEFINE pc == IF RoutingFails(n, selected) THEN "end" ELSE "loop"
           state == call[c].state \cup {n}
           active == call[c].active \cup selected
           new == [call[c] EXCEPT !.state = state, !.ticket = 0, !.at = n + 1,
                                  !.active = active, !.pc = pc]
<1>3. call'[c] = new /\ Others(c)
  BY <1>1 DEF TypeOK, Others
<1> HIDE DEF pc, state, active, n
<1>4. /\ new.state = state /\ new.ticket = 0 /\ new.at = n + 1 /\ new.active = active
      /\ new.pc = pc /\ new.answer = call[c].answer /\ new.gated = call[c].gated
      /\ new.end = call[c].end
  BY <1>2 DEF Locals
<1> QED BY <1>1, <1>3, <1>4 DEF pc, state, active, n, SameCall

\* The newest row.
Lasts(row) == log' # <<>> /\ log'[Len(log')] = row

\* What a row that is appended does to the log and to what is read off it.
LEMMA Appending ==
    ASSUME TypeOK, NEW row \in Row, log' = Append(log, row)
    PROVE  /\ Lasts(row) /\ DOMAIN log' = DOMAIN log \cup {Len(log) + 1}
           /\ log'[Len(log) + 1] = row
           /\ \A i \in DOMAIN log : i < Len(log) + 1 /\ log'[i] = log[i]
           /\ Committed' = Committed \cup {n \in Node : row.node = n /\ row.status = "completed"}
           /\ Finished' <=> Finished \/ (row.node = RunEnd /\ row.status = "completed")
<1>1. log \in Seq(Row)
  BY DEF TypeOK
<1>2. /\ Lasts(row) /\ DOMAIN log' = DOMAIN log \cup {Len(log) + 1}
      /\ log'[Len(log) + 1] = row
      /\ \A i \in DOMAIN log : i < Len(log) + 1 /\ log'[i] = log[i]
  BY <1>1 DEF Lasts
<1> QED BY <1>2 DEF Committed, Finished

\* The row each of the three steps that write one appends.
LEMMA RowsOfSteps ==
    ASSUME TypeOK, NEW c \in Callers
    PROVE  /\ Pause(c) => \E row \in Row :
                /\ log' = Append(log, row)
                /\ row = [node |-> call[c].at, status |-> "interrupted", snap |-> call[c].state]
           /\ Commit(c) => \E row \in Row :
                /\ log' = Append(log, row)
                /\ row = [node |-> call[c].at, status |-> "completed",
                          snap |-> call[c].state \cup {call[c].at}]
           /\ MarkEnd(c) => \E row \in Row :
                /\ log' = Append(log, row)
                /\ row.node = RunEnd /\ row.status = call[c].end
                /\ row.status = "completed" => row.snap = call[c].state
<1>1. call[c].state \subseteq Node /\ call[c].end \in {"completed", "failed"}
  BY DEF TypeOK, Calls, Locals
<1>2. call[c].pc = "node" => call[c].at \in Node
  BY DEF TypeOK, Calls, InNodeAt
<1>3. log # <<>> => log[Len(log)].snap \subseteq Node
  <2>1. log # <<>> => log[Len(log)] \in Row
    BY DEF TypeOK
  <2> QED BY <2>1 DEF Row
<1>4. Pause(c) => [node |-> call[c].at, status |-> "interrupted", snap |-> call[c].state] \in Row
  BY <1>1, <1>2 DEF Pause, Row, Status
<1>5. Commit(c) => [node |-> call[c].at, status |-> "completed",
                          snap |-> call[c].state \cup {call[c].at}] \in Row
  BY <1>1, <1>2 DEF Commit, Row, Status
<1> DEFINE snap == IF call[c].end = "completed" THEN call[c].state
                   ELSE IF log = <<>> THEN {} ELSE log[Len(log)].snap
<1>6. snap \subseteq Node
  BY <1>1, <1>3
<1>7. call[c].end = "completed" => snap = call[c].state
  OBVIOUS
<1> HIDE DEF snap
<1>8. [node |-> RunEnd, status |-> call[c].end, snap |-> snap] \in Row
  BY <1>1, <1>6 DEF Row, Status
<1>9. MarkEnd(c) => log' = Append(log, [node |-> RunEnd, status |-> call[c].end, snap |-> snap])
  BY DEF MarkEnd, snap
<1> QED BY <1>4, <1>5, <1>7, <1>8, <1>9 DEF Pause, Commit

\* The nodes of rows are numbers, and that of a step is a node.
LEMMA RowsHaveNodes ==
    ASSUME TypeOK, NEW i \in DOMAIN log
    PROVE  /\ log[i] \in Row /\ i \in Nat /\ log[i].node \in Nat /\ log[i].snap \subseteq Node
           /\ i \in Steps(log) => log[i].node \in Node
<1>1. log[i] \in Row /\ i \in Nat
  BY DEF TypeOK
<1> QED BY <1>1, ChainAssumption DEF Row, Node, RunEnd, Steps

\* Where a call is, and where it is to go.
LEMMA Placed ==
    ASSUME TypeOK, NEW c \in Callers
    PROVE  call[c].at \in Nat /\ call[c].active \subseteq Node
<1>1. call[c] \in Locals
  BY DEF TypeOK, Calls
<1> QED BY <1>1 DEF Locals

\* The steps of a call that goes on inside execute_chain and writes no row.
RunsOn(c) ==
    \/ EnterNode(c) \/ LookUp(c) \/ RunBody(c) \/ SaveResult(c) \/ PauseConflict(c)
    \/ Reject(c) \/ NoHandler(c) \/ Complete(c) \/ Fail(c)

\* The steps that end a call and write nothing.
Leaves(c) == Refuse(c) \/ Crash(c) \/ LoseMarker(c)

\* Neither the rows nor what counts and explains them changes.
RowsStay == UNCHANGED <<log, pending, calls, answers, pauses, approvedBy, routed, mixed>>

\* A call that runs on inside execute_chain leaves the rows as they are.
LEMMA RunningOn ==
    ASSUME TypeOK, NEW c \in Callers, RunsOn(c)
    PROVE  /\ Others(c) /\ SameCall(c) /\ Running(c) /\ call'[c].pc \in RunningAt
           /\ RowsStay
<1> USE DEF Running, RunningAt, InNodeAt, RowsStay, store, history
<1>1. CASE EnterNode(c)
  BY <1>1, Reaching DEF EnterNode
<1>2. CASE LookUp(c)
  BY <1>2, Moving DEF LookUp
<1>3. CASE RunBody(c)
  BY <1>3, Moving DEF RunBody
<1>4. CASE SaveResult(c)
  BY <1>4, Moving DEF SaveResult
<1>5. CASE PauseConflict(c)
  BY <1>5, Moving DEF PauseConflict
<1>6. CASE Reject(c)
  BY <1>6, Ending DEF Reject
<1>7. CASE NoHandler(c)
  BY <1>7, Moving DEF NoHandler
<1>8. CASE Complete(c)
  BY <1>8, Ending DEF Complete
<1>9. CASE Fail(c)
  BY <1>9, Ending DEF Fail, InNode
<1> QED BY <1>1, <1>2, <1>3, <1>4, <1>5, <1>6, <1>7, <1>8, <1>9 DEF RunsOn

\* So does a call that ends without a marker.
LEMMA Leaving ==
    ASSUME TypeOK, NEW c \in Callers, Leaves(c)
    PROVE  Returned(c) /\ Live(c) /\ RowsStay
BY Returning DEF Leaves, Refuse, Crash, LoseMarker, RowsStay, store, history, Live

\* Every step is of one of these kinds.
LEMMA Kinds ==
    ASSUME [Next]_vars
    PROVE  \/ UNCHANGED vars
           \/ \E c \in Callers :
                \/ Execute(c) \/ \E answer \in BOOLEAN : Resume(c, answer)
                \/ ReadLatest(c) \/ ReadHistory(c) \/ Claim(c) \/ Continue(c)
                \/ Pause(c) \/ Commit(c) \/ MarkEnd(c) \/ RunsOn(c) \/ Leaves(c)
BY DEF Next, Step, RunsOn, Leaves

----------------------------------------------------------------------------
(* Answers take turns *)

\* A run that nobody started has no rows.
Untouched ==
    calls = 0 => log = <<>> /\ pending = NoPending /\ \A c \in Callers : ~Live(c)

\* The newest row is the one that wrote the pending row.
PauseIsNewest ==
    pending # NoPending => /\ log # <<>> /\ log[Len(log)].status = "interrupted"
                           /\ log[Len(log)].node = pending.node

\* A call that is not an answer to a pause, and found no pause to refuse it for.
Unasked(c) == /\ ~call[c].answer
              /\ \/ call[c].pc = "history"
                 \/ call[c].pc = "claim" /\ call[c].seen.status # "interrupted"

\* While only answers overlap, a call that runs nodes, or is about to without an answer,
\* saw the pending row deleted, and a call that is not an answer is alone.
TakingTurns ==
    /\ PauseIsNewest
    /\ \A c, d \in Callers : Live(c) /\ Live(d) /\ c # d => call[c].answer
    /\ \A c \in Callers : Running(c) \/ Unasked(c) => pending = NoPending
    /\ \A c, d \in Callers : Running(c) /\ Running(d) => c = d

\* The inductive invariant of the calls.
TurnInv == Untouched /\ (~mixed => TakingTurns)

\* The two parts hold before the run is started.
LEMMA TurnInit == Init => TurnInv
BY DEF Init, TurnInv, Untouched, TakingTurns, PauseIsNewest, Live, Running, Unasked, Idle,
       RunningAt, InNodeAt

\* A call that started has been counted.
LEMMA Counted ==
    ASSUME TypeOK, TurnInv, NEW c \in Callers, Live(c)
    PROVE  calls # 0
BY DEF TurnInv, Untouched

\* Every step keeps them: a claim deletes the pending row in the step that enters the
\* run, and a pause writes one in the step that leaves it.
LEMMA TurnNext == TypeOK /\ TurnInv /\ [Next]_vars => TurnInv'
<1> SUFFICES ASSUME TypeOK, TurnInv, [Next]_vars PROVE TurnInv'
  OBVIOUS
<1> USE DEF TurnInv, Untouched, TakingTurns, PauseIsNewest
<1>1. CASE UNCHANGED vars
  BY <1>1 DEF vars, store, history, Live, Running, Unasked
<1>2. ASSUME NEW c \in Callers, Execute(c)
      PROVE  TurnInv'
  <2>1. /\ calls = 0 /\ calls' # 0 /\ log' = <<>> /\ pending' = NoPending
        /\ \A d \in Callers : ~Live(d)
    BY <1>2 DEF Execute, BeginCall, TypeOK, store
  <2>2. /\ call'[c].pc = "loop" /\ Others(c)
    BY <1>2, Starting
  <2> QED BY <2>1, <2>2 DEF Others, Live, Running, Unasked, RunningAt, InNodeAt
<1>3. ASSUME NEW c \in Callers, NEW answer \in BOOLEAN, Resume(c, answer)
      PROVE  TurnInv'
  <2>1. /\ calls # 0 /\ calls' # 0 /\ UNCHANGED <<log, pending>> /\ ~Live(c)
        /\ mixed' = (mixed \/ Joins(answer))
    BY <1>3 DEF Resume, BeginCall, TypeOK, store
  <2>2. /\ call'[c].pc = "latest" /\ call'[c].answer = answer /\ Others(c)
    BY <1>3, Starting
  <2>3. \A d \in Callers : Live(d) => d # c
    BY <2>1
  <2>4. ~mixed' => \A d \in Callers : Live(d) => answer /\ call[d].answer
    BY <2>1 DEF Joins
  <2>5. ASSUME ~mixed' PROVE TakingTurns'
    BY <2>1, <2>2, <2>3, <2>4, <2>5 DEF Others, Live, Running, Unasked, RunningAt, InNodeAt
  <2> QED BY <2>1, <2>5
<1>4. ASSUME NEW c \in Callers, ReadLatest(c)
      PROVE  TurnInv'
  <2>1. Live(c) /\ ~Running(c) /\ ~Unasked(c) /\ UNCHANGED <<calls, log, pending, mixed>>
    BY <1>4 DEF ReadLatest, Live, Running, Unasked, RunningAt, InNodeAt, store, history
  <2>2. CASE Returned(c)
    BY <2>1, <2>2, Counted DEF Returned, Others, Live, Running, Unasked, Idle, RunningAt,
       InNodeAt
  <2>3. CASE /\ log # <<>>
             /\ call' = [call EXCEPT ![c] = [@ EXCEPT !.seen = log[Len(log)], !.pc = "claim"]]
    <3>1. Others(c) /\ SameCall(c) /\ call'[c].pc = "claim" /\ call'[c].seen = log[Len(log)]
      BY <2>3, Seeing
    <3> QED BY <2>1, <3>1, Counted DEF Others, SameCall, Live, Running, Unasked, RunningAt,
            InNodeAt
  <2>4. CASE log # <<>> /\ log[Len(log)].status = "failed" /\ Move(c, "history")
    <3>1. Others(c) /\ SameCall(c) /\ call'[c].pc = "history"
      BY <2>4, Moving
    <3>2. ~mixed => pending = NoPending
      BY <2>4
    <3> QED BY <2>1, <3>1, <3>2, Counted DEF Others, SameCall, Live, Running, Unasked,
            RunningAt, InNodeAt
  <2>5. Return(c) => Returned(c)
    BY Returning
  <2> QED BY <1>4, <2>2, <2>3, <2>4, <2>5 DEF ReadLatest
<1>5. ASSUME NEW c \in Callers, ReadHistory(c)
      PROVE  TurnInv'
  <2>1. /\ Live(c) /\ ~Running(c) /\ UNCHANGED <<calls, log, pending, mixed>>
        /\ call[c].pc = "history"
    BY <1>5 DEF ReadHistory, Live, Running, RunningAt, InNodeAt, store, history
  <2>2. CASE Returned(c)
    BY <2>1, <2>2, Counted DEF Returned, Others, Live, Running, Unasked, Idle, RunningAt,
       InNodeAt
  <2>3. CASE \E i \in LastStep(log) :
               call' = [call EXCEPT ![c] = [@ EXCEPT !.seen = log[i], !.pc = "claim"]]
    <3>1. Others(c) /\ SameCall(c) /\ call'[c].pc = "claim"
      BY <2>3, Seeing
    <3> QED BY <2>1, <3>1, Counted DEF Others, SameCall, Live, Running, Unasked, RunningAt,
            InNodeAt
  <2>4. Return(c) => Returned(c)
    BY Returning
  <2> QED BY <1>5, <2>2, <2>3, <2>4 DEF ReadHistory
<1>6. ASSUME NEW c \in Callers, Claim(c)
      PROVE  TurnInv'
  <2>1. /\ Live(c) /\ ~Running(c) /\ UNCHANGED <<calls, log, mixed>> /\ call[c].answer
    BY <1>6 DEF Claim, Live, Running, RunningAt, InNodeAt, history
  <2>2. CASE pending = NoPending
    <3>1. Returned(c) /\ pending' = NoPending
      BY <1>6, <2>2, Returning DEF Claim
    <3> QED BY <2>1, <2>2, <3>1, Counted DEF Returned, Others, Live, Running, Unasked, Idle,
            RunningAt, InNodeAt
  <2>3. CASE pending # NoPending
    <3>1. EnterRun(c, pending.node, pending.ticket) /\ pending' = NoPending
      BY <1>6, <2>3 DEF Claim
    <3>2. Others(c) /\ call'[c].pc = "loop" /\ call'[c].answer = call[c].answer
      BY <3>1, Entering
    <3> QED BY <2>1, <2>3, <3>1, <3>2, Counted DEF Others, Live, Running, Unasked,
            RunningAt, InNodeAt
  <2> QED BY <2>2, <2>3
<1>7. ASSUME NEW c \in Callers, Continue(c)
      PROVE  TurnInv'
  <2>1. /\ Live(c) /\ Unasked(c) /\ UNCHANGED <<calls, log, pending, mixed>>
        /\ ~call[c].answer
    BY <1>7 DEF Continue, Live, Unasked, store, history
  <2>2. Others(c) /\ call'[c].pc = "loop" /\ call'[c].answer = call[c].answer
    BY <1>7, Entering DEF Continue
  <2>3. ~mixed => pending = NoPending /\ \A d \in Callers : Live(d) => d = c
    BY <2>1
  <2> QED BY <2>1, <2>2, <2>3, Counted DEF Others, Live, Running, Unasked, RunningAt,
          InNodeAt
<1>8. ASSUME NEW c \in Callers, Pause(c)
      PROVE  TurnInv'
  <2>1. /\ Live(c) /\ Running(c) /\ UNCHANGED <<calls, mixed>> /\ Returned(c)
    BY <1>8, Returning DEF Pause, Live, Running, RunningAt, InNodeAt
  <2>2. PICK row \in Row : /\ log' = Append(log, row) /\ row.status = "interrupted"
                           /\ row.node = call[c].at
    BY <1>8, RowsOfSteps
  <2>3. Lasts(row)
    BY <2>2, Appending
  <2>4. pending'.node = call[c].at
    BY <1>8 DEF Pause
  <2>5. ~mixed => \A d \in Callers : d # c => ~Running(d) /\ ~Unasked(d)
    BY <2>1 DEF Unasked, Live
  <2> QED BY <2>1, <2>2, <2>3, <2>4, <2>5, Counted DEF Lasts, Returned, Others, Live, Running,
          Unasked, Idle, RunningAt, InNodeAt
<1>9. ASSUME NEW c \in Callers, Commit(c)
      PROVE  TurnInv'
  <2>1. /\ Live(c) /\ Running(c) /\ UNCHANGED <<calls, mixed, pending>>
    BY <1>9 DEF Commit, Live, Running, RunningAt, InNodeAt
  <2>2. Others(c) /\ SameCall(c) /\ call'[c].pc \in {"end", "loop"}
    BY <1>9, Committing
  <2>3. ~mixed => pending = NoPending
    BY <2>1
  <2> QED BY <2>1, <2>2, <2>3, Counted DEF Others, SameCall, Live, Running, Unasked,
          RunningAt, InNodeAt
<1>10. ASSUME NEW c \in Callers, MarkEnd(c)
       PROVE  TurnInv'
  <2>1. /\ Live(c) /\ Running(c) /\ UNCHANGED <<calls, mixed, pending>> /\ Returned(c)
    BY <1>10, Returning DEF MarkEnd, Live, Running, RunningAt, InNodeAt
  <2>2. ~mixed => pending = NoPending
    BY <2>1
  <2> QED BY <2>1, <2>2, Counted DEF Returned, Others, Live, Running, Unasked, Idle,
          RunningAt, InNodeAt
<1>11. ASSUME NEW c \in Callers, RunsOn(c)
       PROVE  TurnInv'
  <2>1. /\ Others(c) /\ SameCall(c) /\ Running(c) /\ call'[c].pc \in RunningAt /\ RowsStay
    BY <1>11, RunningOn
  <2>2. calls # 0
    BY <2>1, Counted DEF Live, Running, RunningAt, InNodeAt
  <2> QED BY <2>1, <2>2 DEF Others, SameCall, RowsStay, Live, Running, Unasked, RunningAt,
          InNodeAt
<1>12. ASSUME NEW c \in Callers, Leaves(c)
       PROVE  TurnInv'
  <2>1. Returned(c) /\ Live(c) /\ RowsStay
    BY <1>12, Leaving
  <2> QED BY <2>1, Counted DEF Returned, Others, RowsStay, Live, Running, Unasked, Idle,
          RunningAt, InNodeAt
<1> QED BY Kinds, <1>1, <1>2, <1>3, <1>4, <1>5, <1>6, <1>7, <1>8, <1>9, <1>10, <1>11, <1>12

\* As long as only answers to a pause overlap, delete_pending_interrupt_atomic makes them
\* take turns: no two of them run nodes, and none does while a pause waits.
THEOREM AnswersRunInTurn == Spec => []AnswersTakeTurns
<1>1. TurnInv => AnswersTakeTurns
  BY DEF TurnInv, TakingTurns, AnswersTakeTurns
<1> QED BY TypeInit, TypeNext, TurnInit, TurnNext, <1>1, PTL DEF Spec

----------------------------------------------------------------------------
(* A completed run is over *)

\* Once the completed marker is the newest row and no pause waits, a call that is not
\* under way can only read the marker and return, and a late answer finds no pending row.
Over ==
    /\ pending = NoPending
    /\ log # <<>> /\ log[Len(log)].node = RunEnd /\ log[Len(log)].status = "completed"
    /\ \A c \in Callers : /\ ~Running(c)
                          /\ ~call[c].answer => call[c].pc \in {"idle", "latest"}

\* The same for a run with a completed marker.
FinishInv == Finished /\ ~mixed => Over

\* No run is finished at first.
LEMMA FinishInit == Init => FinishInv
BY DEF Init, FinishInv, Finished

\* A step that leaves the markers as they are needs a look only when the run is over, and
\* a step of a call inside execute_chain cannot be taken then.
LEMMA FinishNext == TypeOK /\ TurnInv /\ FinishInv /\ [Next]_vars => FinishInv'
<1> SUFFICES ASSUME TypeOK, TurnInv, FinishInv, [Next]_vars, ~mixed', Finished' PROVE Over'
  BY DEF FinishInv
<1> USE DEF Live, Running, RunningAt, InNodeAt
<1>1. CASE UNCHANGED vars
  BY <1>1 DEF vars, store, history, FinishInv, Over, Finished
<1>2. ASSUME NEW c \in Callers, Execute(c)
      PROVE  FALSE
  <2>1. log' = <<>>
    BY <1>2 DEF Execute, TurnInv, Untouched, store
  <2> QED BY <2>1 DEF Finished
<1>3. ASSUME NEW c \in Callers, NEW answer \in BOOLEAN, Resume(c, answer)
      PROVE  Over'
  <2>1. UNCHANGED <<log, pending>> /\ ~mixed
    BY <1>3 DEF Resume, BeginCall, store
  <2>2. call'[c].pc = "latest" /\ Others(c)
    BY <1>3, Starting
  <2> QED BY <2>1, <2>2 DEF FinishInv, Over, Finished, Others
<1>4. ASSUME NEW c \in Callers, UNCHANGED <<log, mixed>>
      PROVE  Over
  BY <1>4 DEF FinishInv, Finished
<1>5. ASSUME NEW c \in Callers, ReadLatest(c)
      PROVE  Over'
  <2>1. UNCHANGED <<log, mixed, pending>> /\ Over
    BY <1>4, <1>5 DEF ReadLatest, store, history
  <2>2. Return(c)
    BY <1>5, <2>1 DEF ReadLatest, Over
  <2> QED BY <2>1, <2>2, Returning DEF Returned, Over, Others, Idle
<1>6. ASSUME NEW c \in Callers, ReadHistory(c)
      PROVE  Over'
  <2>1. UNCHANGED <<log, mixed, pending>> /\ Over /\ call[c].pc = "history"
    BY <1>4, <1>6 DEF ReadHistory, store, history
  <2>2. CASE Return(c)
    BY <2>1, <2>2, Returning DEF Returned, Over, Others, Idle
  <2>3. CASE \E i \in LastStep(log) :
               call' = [call EXCEPT ![c] = [@ EXCEPT !.seen = log[i], !.pc = "claim"]]
    <3>1. Others(c) /\ SameCall(c) /\ call'[c].pc = "claim"
      BY <2>3, Seeing
    <3> QED BY <2>1, <3>1 DEF Over, Others, SameCall
  <2> QED BY <1>6, <2>2, <2>3 DEF ReadHistory
<1>7. ASSUME NEW c \in Callers, Claim(c)
      PROVE  Over'
  <2>1. UNCHANGED <<log, mixed>> /\ Over
    BY <1>4, <1>7 DEF Claim, history
  <2>2. Return(c) /\ pending' = NoPending
    BY <1>7, <2>1 DEF Claim, Over
  <2> QED BY <2>1, <2>2, Returning DEF Returned, Over, Others, Idle
<1>8. ASSUME NEW c \in Callers, Continue(c)
      PROVE  FALSE
  <2>1. UNCHANGED <<log, mixed>>
    BY <1>8 DEF Continue, store, history
  <2> QED BY <1>4, <1>8, <2>1 DEF Continue, Over
<1>9. ASSUME NEW c \in Callers, Pause(c)
      PROVE  FALSE
  <2>1. UNCHANGED mixed /\ Running(c)
    BY <1>9 DEF Pause
  <2>2. Finished
    <3>1. PICK row \in Row : log' = Append(log, row) /\ row.status = "interrupted"
      BY <1>9, RowsOfSteps
    <3> QED BY <3>1, Appending
  <2> QED BY <2>1, <2>2 DEF FinishInv, Over
<1>10. ASSUME NEW c \in Callers, Commit(c)
       PROVE  FALSE
  <2>1. UNCHANGED mixed /\ Running(c) /\ call[c].at \in Node
    BY <1>10 DEF Commit, TypeOK, Calls
  <2>2. Finished
    <3>1. PICK row \in Row : log' = Append(log, row) /\ row.node = call[c].at
      BY <1>10, RowsOfSteps
    <3>2. row.node # RunEnd
      BY <2>1, <3>1, ChainAssumption DEF Node, RunEnd
    <3> QED BY <3>1, <3>2, Appending
  <2> QED BY <2>1, <2>2 DEF FinishInv, Over
<1>11. ASSUME NEW c \in Callers, MarkEnd(c)
       PROVE  Over'
  <2>1. UNCHANGED <<mixed, pending>> /\ Running(c) /\ Returned(c)
    BY <1>11, Returning DEF MarkEnd
  <2>2. PICK row \in Row : log' = Append(log, row) /\ row.node = RunEnd
    BY <1>11, RowsOfSteps
  <2>3. ~Finished
    BY <2>1 DEF FinishInv, Over
  <2>4. row.status = "completed" /\ Lasts(row)
    BY <2>2, <2>3, Appending
  <2>5. \A d \in Callers : d # c => ~Running(d) /\ (Live(d) => call[d].answer)
    BY <2>1 DEF TurnInv, TakingTurns
  <2>6. pending = NoPending
    BY <2>1 DEF TurnInv, TakingTurns
  <2> QED BY <2>1, <2>2, <2>4, <2>5, <2>6 DEF Over, Lasts, Returned, Others, Idle
<1>12. ASSUME NEW c \in Callers, RunsOn(c)
       PROVE  FALSE
  <2>1. RowsStay /\ Running(c)
    BY <1>12, RunningOn
  <2> QED BY <1>4, <2>1 DEF RowsStay, Over
<1>13. ASSUME NEW c \in Callers, Leaves(c)
       PROVE  Over'
  <2>1. Returned(c) /\ RowsStay
    BY <1>13, Leaving
  <2> QED BY <1>4, <2>1 DEF Returned, Others, RowsStay, Over, Idle
<1> QED BY Kinds, <1>1, <1>2, <1>3, <1>5, <1>6, <1>7, <1>8, <1>9, <1>10, <1>11, <1>12, <1>13

\* Only a call inside execute_chain writes a row or runs a body.
LEMMA QuietUnlessRunning ==
    ASSUME TypeOK, [Next]_vars
    PROVE  UNCHANGED <<log, effects>> \/ \E c \in Callers : Running(c)
<1>1. CASE UNCHANGED vars
  BY <1>1 DEF vars, store, history
<1>2. ASSUME NEW c \in Callers,
             \/ Execute(c) \/ (\E answer \in BOOLEAN : Resume(c, answer))
             \/ ReadLatest(c) \/ ReadHistory(c) \/ Claim(c) \/ Continue(c) \/ Leaves(c)
      PROVE  UNCHANGED <<log, effects>>
  BY <1>2 DEF Execute, Resume, ReadLatest, ReadHistory, Claim, Continue, Leaves, Refuse,
     Crash, LoseMarker, store, history
<1>3. ASSUME NEW c \in Callers, Pause(c) \/ Commit(c) \/ MarkEnd(c) \/ RunsOn(c)
      PROVE  Running(c)
  BY <1>3, RunningOn DEF Pause, Commit, MarkEnd, Running, RunningAt, InNodeAt
<1> QED BY Kinds, <1>1, <1>2, <1>3

\* A run that carries a completed marker is over: latest_resumable raises AlreadyResumed,
\* and no call, however late it read the log, writes a row or runs a body any more.
THEOREM CompletedIsFinal == Spec => FinishedIsFinal
<1> DEFINE I == TypeOK /\ TurnInv /\ FinishInv
<1>1. Init => I
  BY TypeInit, TurnInit, FinishInit
<1>2. I /\ [Next]_vars => I'
  BY TypeNext, TurnNext, FinishNext
<1>3. I /\ [Next]_vars => (Finished /\ ~mixed => log' = log /\ effects' = effects)
  BY QuietUnlessRunning DEF FinishInv, Over
<1>4. I /\ [Next]_vars => [Finished /\ ~mixed => log' = log /\ effects' = effects]_vars
  BY <1>3
<1> HIDE DEF I
<1> QED BY <1>1, <1>2, <1>4, PTL DEF Spec, FinishedIsFinal

----------------------------------------------------------------------------
(* The body of an @idempotent call runs once *)

\* A body ran once more than it was torn at most, and not even that while its result is
\* neither stored nor about to be; a call about to run it has seen no result, and there
\* still is none.
Bodies ==
    /\ \A n \in Node :
         /\ effects[n] <= torn[n] + 1
         /\ n \notin cache /\ (\A c \in Callers : ~(call[c].pc = "save" /\ call[c].at = n)) =>
              effects[n] <= torn[n]
    /\ \A c \in Callers : call[c].pc \in {"body", "save"} => call[c].at \notin cache

BodyInv == ~mixed => Bodies

\* No body has run at first.
LEMMA BodyInit == Init => BodyInv
BY DEF Init, BodyInv, Bodies, Idle

\* Only a lookup that missed lets a body run, and only the call that took its turn.
LEMMA BodyNext == TypeOK /\ TurnInv /\ BodyInv /\ [Next]_vars => BodyInv'
<1> SUFFICES ASSUME TypeOK, TurnInv, BodyInv, [Next]_vars, ~mixed' PROVE Bodies'
  BY DEF BodyInv
<1>1. CASE UNCHANGED vars
  BY <1>1 DEF vars, store, history, BodyInv, Bodies
<1>2. ASSUME NEW c \in Callers, Others(c), ~mixed,
             call[c].pc # "save", call'[c].pc \notin {"body", "save"},
             UNCHANGED <<cache, effects, torn>>
      PROVE  Bodies'
  BY <1>2 DEF BodyInv, Bodies, Others
<1>3. ASSUME NEW c \in Callers, Execute(c)
      PROVE  Bodies'
  <2>1. UNCHANGED <<cache, effects, torn>> /\ ~mixed /\ ~Live(c)
    BY <1>3 DEF Execute, BeginCall, store
  <2> QED BY <1>2, <1>3, <2>1, Starting DEF Live
<1>4. ASSUME NEW c \in Callers, NEW answer \in BOOLEAN, Resume(c, answer)
      PROVE  Bodies'
  <2>1. UNCHANGED <<cache, effects, torn>> /\ ~mixed /\ ~Live(c)
    BY <1>4 DEF Resume, BeginCall, store
  <2>2. Others(c) /\ call'[c].pc = "latest"
    BY <1>4, Starting
  <2> QED BY <1>2, <2>1, <2>2 DEF Live
<1>5. ASSUME NEW c \in Callers, ReadLatest(c)
      PROVE  Bodies'
  <2>1. UNCHANGED <<cache, effects, torn>> /\ ~mixed /\ call[c].pc = "latest"
    BY <1>5 DEF ReadLatest, store, history
  <2>2. Others(c) /\ call'[c].pc \in {"idle", "history", "claim"}
    <3>1. Return(c) => Others(c) /\ call'[c].pc = "idle"
      BY Returning DEF Returned, Idle
    <3>2. Move(c, "history") => Others(c) /\ call'[c].pc = "history"
      BY Moving
    <3>3. call' = [call EXCEPT ![c] = [@ EXCEPT !.seen = log[Len(log)], !.pc = "claim"]]
            => Others(c) /\ call'[c].pc = "claim"
      BY Seeing
    <3> QED BY <1>5, <3>1, <3>2, <3>3 DEF ReadLatest
  <2> QED BY <1>2, <2>1, <2>2
<1>6. ASSUME NEW c \in Callers, ReadHistory(c)
      PROVE  Bodies'
  <2>1. UNCHANGED <<cache, effects, torn>> /\ ~mixed /\ call[c].pc = "history"
    BY <1>6 DEF ReadHistory, store, history
  <2>2. Others(c) /\ call'[c].pc \in {"idle", "claim"}
    <3>1. Return(c) => Others(c) /\ call'[c].pc = "idle"
      BY Returning DEF Returned, Idle
    <3>2. \A i \in LastStep(log) :
            call' = [call EXCEPT ![c] = [@ EXCEPT !.seen = log[i], !.pc = "claim"]]
              => Others(c) /\ call'[c].pc = "claim"
      BY Seeing
    <3> QED BY <1>6, <3>1, <3>2 DEF ReadHistory
  <2> QED BY <1>2, <2>1, <2>2
<1>7. ASSUME NEW c \in Callers, Claim(c) \/ Continue(c)
      PROVE  Bodies'
  <2>1. UNCHANGED <<cache, effects, torn>> /\ ~mixed /\ call[c].pc = "claim"
    BY <1>7 DEF Claim, Continue, store, history
  <2>2. Others(c) /\ call'[c].pc \in {"idle", "loop"}
    <3>1. Return(c) => Others(c) /\ call'[c].pc = "idle"
      BY Returning DEF Returned, Idle
    <3>2. \A start, ticket : EnterRun(c, start, ticket) => Others(c) /\ call'[c].pc = "loop"
      BY Entering
    <3> QED BY <1>7, <3>1, <3>2 DEF Claim, Continue
  <2> QED BY <1>2, <2>1, <2>2
<1>8. ASSUME NEW c \in Callers, Pause(c) \/ MarkEnd(c)
      PROVE  Bodies'
  <2>1. UNCHANGED <<cache, effects, torn>> /\ ~mixed /\ call[c].pc \in {"node", "end"}
    BY <1>8 DEF Pause, MarkEnd
  <2>2. Others(c) /\ call'[c].pc = "idle"
    BY <1>8, Returning DEF Pause, MarkEnd, Returned, Idle
  <2> QED BY <1>2, <2>1, <2>2
<1>9. ASSUME NEW c \in Callers, Commit(c)
      PROVE  Bodies'
  <2>1. UNCHANGED <<cache, effects, torn>> /\ ~mixed /\ call[c].pc = "node"
    BY <1>9 DEF Commit
  <2>2. Others(c) /\ call'[c].pc \in {"end", "loop"}
    BY <1>9, Committing
  <2> QED BY <1>2, <2>1, <2>2
<1>10. ASSUME NEW c \in Callers, Leaves(c) \/ Fail(c)
       PROVE  Bodies'
  <2>1. UNCHANGED <<cache, effects>> /\ ~mixed
    BY <1>10 DEF Leaves, Refuse, Crash, LoseMarker, Fail, store, history
  <2>2. Others(c) /\ call'[c].pc \in {"idle", "end"}
    <3>1. Leaves(c) => Others(c) /\ call'[c].pc = "idle"
      BY Leaving DEF Returned, Idle
    <3>2. Fail(c) => Others(c) /\ call'[c].pc = "end"
      BY Ending DEF Fail
    <3> QED BY <1>10, <3>1, <3>2
  <2>3. CASE call[c].pc # "save"
    <3>1. UNCHANGED torn
      BY <1>10, <2>3 DEF Leaves, Refuse, Crash, LoseMarker, Fail, Tear, store, history
    <3> QED BY <1>2, <2>1, <2>2, <2>3, <3>1
  <2>4. CASE call[c].pc = "save"
    <3> DEFINE n == call[c].at
    <3>1. n \in Node /\ torn' = [torn EXCEPT ![n] = @ + 1]
      BY <1>10, <2>4 DEF Leaves, Refuse, Crash, LoseMarker, Fail, Tear, TypeOK, Calls,
         InNodeAt
    <3>2. /\ torn'[n] = torn[n] + 1 /\ \A m \in Node : m # n => torn'[m] = torn[m]
          /\ \A m \in Node : effects[m] \in Nat /\ torn[m] \in Nat
      BY <3>1 DEF TypeOK
    <3>3. Bodies
      BY <2>1 DEF BodyInv
    <3> QED BY <2>1, <2>2, <2>4, <3>2, <3>3 DEF Bodies, Others
  <2> QED BY <2>3, <2>4
<1>11. ASSUME NEW c \in Callers, EnterNode(c) \/ PauseConflict(c) \/ Reject(c)
                                 \/ NoHandler(c) \/ Complete(c)
       PROVE  Bodies'
  <2>1. UNCHANGED <<cache, effects, torn>> /\ ~mixed /\ call[c].pc \in {"loop", "node"}
    <3> USE DEF store, history
    <3>1. EnterNode(c) \/ Complete(c) =>
            UNCHANGED <<cache, effects, torn, mixed>> /\ call[c].pc = "loop"
      BY DEF EnterNode, Complete
    <3>2. PauseConflict(c) \/ Reject(c) \/ NoHandler(c) =>
            UNCHANGED <<cache, effects, torn, mixed>> /\ call[c].pc = "node"
      BY DEF PauseConflict, Reject, NoHandler
    <3> QED BY <1>11, <3>1, <3>2
  <2>2. Others(c) /\ call'[c].pc \in {"lookup", "node", "end"}
    <3>1. EnterNode(c) => Others(c) /\ call'[c].pc \in {"lookup", "node"}
      BY Reaching
    <3>2. PauseConflict(c) \/ NoHandler(c) => Others(c) /\ call'[c].pc = "end"
      BY Moving DEF PauseConflict, NoHandler
    <3>3. Reject(c) \/ Complete(c) => Others(c) /\ call'[c].pc = "end"
      BY Ending DEF Reject, Complete
    <3> QED BY <1>11, <3>1, <3>2, <3>3
  <2> QED BY <1>2, <2>1, <2>2
<1>12. ASSUME NEW c \in Callers, LookUp(c)
       PROVE  Bodies'
  <2>1. UNCHANGED <<cache, effects, torn>> /\ ~mixed /\ call[c].pc = "lookup" /\ Bodies
    BY <1>12 DEF LookUp, store, history, BodyInv
  <2>2. /\ Others(c) /\ call'[c].at = call[c].at
        /\ call'[c].pc = IF call[c].at \in cache THEN "node" ELSE "body"
    BY <1>12, Moving DEF LookUp, SameRun
  <2> QED BY <2>1, <2>2 DEF Bodies, Others
<1>13. ASSUME NEW c \in Callers, RunBody(c)
       PROVE  Bodies'
  <2> DEFINE n == call[c].at
  <2>1. UNCHANGED <<cache, torn>> /\ ~mixed /\ call[c].pc = "body" /\ Bodies
    BY <1>13 DEF RunBody, store, BodyInv
  <2>2. Others(c) /\ call'[c].at = n /\ call'[c].pc = "save"
    BY <1>13, Moving DEF RunBody, SameRun
  <2>3. \A d \in Callers : Running(d) => d = c
    BY <2>1 DEF TurnInv, TakingTurns, Running, RunningAt, InNodeAt
  <2>4. n \in Node /\ \A m \in Node : effects[m] \in Nat /\ torn[m] \in Nat
    BY <2>1 DEF TypeOK, Calls, InNodeAt
  <2>5. effects'[n] = effects[n] + 1 /\ \A m \in Node : m # n => effects'[m] = effects[m]
    BY <1>13, <2>4 DEF RunBody, TypeOK
  <2>6. effects[n] <= torn[n]
    BY <2>1, <2>3, <2>4 DEF Bodies, Running, RunningAt, InNodeAt
  <2> QED BY <2>1, <2>2, <2>4, <2>5, <2>6 DEF Bodies, Others
<1>14. ASSUME NEW c \in Callers, SaveResult(c)
       PROVE  Bodies'
  <2> DEFINE n == call[c].at
  <2>1. /\ UNCHANGED <<effects, torn>> /\ ~mixed /\ call[c].pc = "save" /\ Bodies
        /\ cache' = cache \cup {n}
    BY <1>14 DEF SaveResult, history, BodyInv
  <2>2. Others(c) /\ call'[c].pc = "node"
    BY <1>14, Moving DEF SaveResult
  <2>3. \A d \in Callers : Running(d) => d = c
    BY <2>1 DEF TurnInv, TakingTurns, Running, RunningAt, InNodeAt
  <2> QED BY <2>1, <2>2, <2>3 DEF Bodies, Others, Running, RunningAt, InNodeAt
<1> QED BY Kinds, <1>1, <1>3, <1>4, <1>5, <1>6, <1>7, <1>8, <1>9, <1>10, <1>11, <1>12, <1>13,
        <1>14 DEF RunsOn

\* The body of an @idempotent call runs once per execution (get_idempotent before it,
\* put_idempotent behind it), but for the times its result was lost on the way.
THEOREM IdempotentBodiesOnce == Spec => []IdempotentBodyOnce
<1>1. TypeOK /\ BodyInv => IdempotentBodyOnce
  BY DEF BodyInv, Bodies, IdempotentBodyOnce, TypeOK
<1> QED BY TypeInit, TypeNext, TurnInit, TurnNext, BodyInit, BodyNext, <1>1, PTL DEF Spec

----------------------------------------------------------------------------
(* A run that lost no approval can be resumed *)

\* Every interrupted row has its pause, and a step that the approval of that pause let
\* through is of the same node and comes behind it.
SpentBehind ==
    /\ \A i \in DOMAIN log : log[i].status = "interrupted" =>
         \E t \in DOMAIN pauses :
           /\ pauses[t].node = log[i].node
           /\ \A j \in DOMAIN approvedBy : approvedBy[j] = t => i < j
    /\ \A j \in DOMAIN approvedBy :
         approvedBy[j] # 0 => /\ approvedBy[j] \in DOMAIN pauses
                              /\ log[j].node = pauses[approvedBy[j]].node

\* The empty log has nothing to order.
LEMMA SpentBehindInit == Init => SpentBehind
BY DEF Init, SpentBehind

\* A row that c writes, with the approval t it uses, or none.
LEMMA SpendingKeepsOrder ==
    ASSUME TypeOK, ApprovalInv, SpentBehind, UNCHANGED pauses,
           NEW row \in Row, NEW t \in {0} \cup DOMAIN pauses,
           log' = Append(log, row), approvedBy' = Append(approvedBy, t),
           row.status # "interrupted", t # 0 => pauses[t].node = row.node
    PROVE  SpentBehind'
<1> DEFINE k == Len(log) + 1
<1>1. /\ log \in Seq(Row) /\ approvedBy \in Seq(Nat) /\ Len(approvedBy) = Len(log)
      /\ pauses \in Seq([node : Node, snap : SUBSET Node])
  BY DEF TypeOK, ApprovalInv, ApprovalInOneHand
<1>2. /\ DOMAIN log' = DOMAIN log \cup {k} /\ log'[k] = row
      /\ \A i \in DOMAIN log : i < k /\ log'[i] = log[i]
  BY Appending
<1>3. /\ DOMAIN approvedBy' = DOMAIN approvedBy \cup {k} /\ approvedBy'[k] = t
      /\ DOMAIN approvedBy = DOMAIN log
      /\ \A i \in DOMAIN approvedBy : approvedBy'[i] = approvedBy[i]
  BY <1>1
<1> HIDE DEF k
<1> QED BY <1>2, <1>3 DEF SpentBehind

\* A pause has a fresh ticket, and a step that spends one is appended behind its pause.
LEMMA SpentBehindNext ==
    TypeOK /\ ApprovalInv /\ SpentBehind /\ [Next]_vars => SpentBehind'
<1> SUFFICES ASSUME TypeOK, ApprovalInv, SpentBehind, [Next]_vars PROVE SpentBehind'
  OBVIOUS
<1>1. CASE UNCHANGED <<log, approvedBy, pauses>>
  BY <1>1 DEF SpentBehind
<1>2. ASSUME NEW c \in Callers, Pause(c)
      PROVE  SpentBehind'
  <2> DEFINE k == Len(log) + 1
             p == [node |-> call[c].at, snap |-> call[c].state]
             u == Len(pauses) + 1
  <2>1. PICK row \in Row : /\ log' = Append(log, row) /\ row.status = "interrupted"
                           /\ row.node = call[c].at
    BY <1>2, RowsOfSteps
  <2>2. /\ pauses' = Append(pauses, p) /\ approvedBy' = Append(approvedBy, 0)
        /\ call[c].at \in Node /\ call[c].state \subseteq Node
    BY <1>2 DEF Pause, TypeOK, Calls, Locals, InNodeAt
  <2>3. /\ log \in Seq(Row) /\ approvedBy \in Seq(Nat) /\ Len(approvedBy) = Len(log)
        /\ pauses \in Seq([node : Node, snap : SUBSET Node])
        /\ \A j \in DOMAIN approvedBy : approvedBy[j] \in 0..Len(pauses)
    BY DEF TypeOK, ApprovalInv, ApprovalInOneHand
  <2>4. /\ DOMAIN log' = DOMAIN log \cup {k} /\ log'[k] = row
        /\ \A i \in DOMAIN log : i < k /\ log'[i] = log[i]
    BY <2>1, Appending
  <2>5. /\ DOMAIN approvedBy' = DOMAIN approvedBy \cup {k} /\ approvedBy'[k] = 0
        /\ DOMAIN approvedBy = DOMAIN log
        /\ \A j \in DOMAIN approvedBy : approvedBy'[j] = approvedBy[j]
    BY <2>2, <2>3
  <2>6. /\ DOMAIN pauses' = DOMAIN pauses \cup {u} /\ pauses'[u] = p
        /\ \A t \in DOMAIN pauses : t # u /\ t # 0 /\ pauses'[t] = pauses[t]
        /\ u # 0 /\ \A j \in DOMAIN approvedBy : approvedBy[j] # u
    BY <2>2, <2>3
  <2>7. p.node = row.node
    BY <2>1
  <2> HIDE DEF k, p, u
  <2>8. ASSUME NEW i \in DOMAIN log', log'[i].status = "interrupted"
        PROVE  \E t \in DOMAIN pauses' :
                 /\ pauses'[t].node = log'[i].node
                 /\ \A j \in DOMAIN approvedBy' : approvedBy'[j] = t => i < j
    <3>1. CASE i = k
      <4>1. \A j \in DOMAIN approvedBy' : approvedBy'[j] # u
        BY <2>5, <2>6
      <4>2. u \in DOMAIN pauses' /\ pauses'[u].node = log'[i].node
        BY <2>4, <2>6, <2>7, <3>1
      <4> QED BY <4>1, <4>2
    <3>2. CASE i # k
      <4>1. i \in DOMAIN log /\ log[i].status = "interrupted" /\ log'[i] = log[i]
        BY <2>4, <2>8, <3>2
      <4>2. PICK t \in DOMAIN pauses :
              /\ pauses[t].node = log[i].node
              /\ \A j \in DOMAIN approvedBy : approvedBy[j] = t => i < j
        BY <4>1 DEF SpentBehind
      <4> QED BY <2>4, <2>5, <2>6, <4>1, <4>2
    <3> QED BY <3>1, <3>2
  <2>9. ASSUME NEW j \in DOMAIN approvedBy', approvedBy'[j] # 0
        PROVE  /\ approvedBy'[j] \in DOMAIN pauses'
               /\ log'[j].node = pauses'[approvedBy'[j]].node
    <3>1. j \in DOMAIN approvedBy /\ approvedBy[j] # 0 /\ approvedBy'[j] = approvedBy[j]
      BY <2>5, <2>9
    <3> QED BY <2>4, <2>5, <2>6, <3>1 DEF SpentBehind
  <2> QED BY <2>8, <2>9 DEF SpentBehind
<1>3. ASSUME NEW c \in Callers, Commit(c)
      PROVE  SpentBehind'
  <2> DEFINE t == IF call[c].at \in Pauses THEN call[c].ticket ELSE 0
  <2>1. PICK row \in Row : /\ log' = Append(log, row) /\ row.status = "completed"
                           /\ row.node = call[c].at
    BY <1>3, RowsOfSteps
  <2>2. /\ call[c].ticket # 0 => /\ call[c].ticket \in DOMAIN pauses
                                 /\ call[c].at = pauses[call[c].ticket].node
    BY <1>3 DEF Commit, ApprovalInv, ApprovalInOneHand, HoldsRightly, InNodeAt
  <2>3. approvedBy' = Append(approvedBy, t) /\ UNCHANGED pauses
    BY <1>3 DEF Commit
  <2>4. t \in {0} \cup DOMAIN pauses /\ (t # 0 => pauses[t].node = row.node)
    BY <2>1, <2>2
  <2> HIDE DEF t
  <2> QED BY <2>1, <2>3, <2>4, SpendingKeepsOrder
<1>4. ASSUME NEW c \in Callers, MarkEnd(c)
      PROVE  SpentBehind'
  <2>1. PICK row \in Row : log' = Append(log, row) /\ row.status = call[c].end
    BY <1>4, RowsOfSteps
  <2>2. call[c].end # "interrupted"
    BY DEF TypeOK, Calls, Locals
  <2>3. approvedBy' = Append(approvedBy, 0) /\ UNCHANGED pauses
    BY <1>4 DEF MarkEnd
  <2> QED BY <2>1, <2>2, <2>3, SpendingKeepsOrder
<1>5. ASSUME NEW c \in Callers,
             \/ Execute(c) \/ (\E answer \in BOOLEAN : Resume(c, answer))
             \/ ReadLatest(c) \/ ReadHistory(c) \/ Claim(c) \/ Continue(c)
             \/ RunsOn(c) \/ Leaves(c)
      PROVE  UNCHANGED <<log, approvedBy, pauses>>
  BY <1>5, RunningOn, Leaving DEF Execute, Resume, ReadLatest, ReadHistory, Claim, Continue,
     RowsStay, store, history
<1> QED BY Kinds, <1>1, <1>2, <1>3, <1>4, <1>5 DEF vars, store, history

\* Of the rows of nodes, one is the last: the one latest_resumable steps back to.
SomeLast == Steps(log) # {} => LastStep(log) # {}

\* A row that is appended is the last one, or the row that was stays it.
LEMMA AppendingHasLast ==
    ASSUME TypeOK, SomeLast, NEW row \in Row, log' = Append(log, row)
    PROVE  SomeLast'
<1> DEFINE k == Len(log) + 1
<1>1. /\ DOMAIN log' = DOMAIN log \cup {k} /\ log'[k] = row
      /\ \A i \in DOMAIN log : i < k /\ log'[i] = log[i]
  BY Appending
<1>2. row.node \in Nat /\ k \in Nat
  BY ChainAssumption DEF TypeOK, Row, Node, RunEnd
<1>3. \A i \in DOMAIN log : i \in Nat /\ log[i].node \in Nat
  BY RowsHaveNodes
<1> HIDE DEF k
<1>4. Steps(log') = Steps(log) \cup (IF row.node = RunEnd THEN {} ELSE {k})
  BY <1>1 DEF Steps
<1>5. Steps(log) \subseteq DOMAIN log
  BY DEF Steps
<1>6. ASSUME NEW i \in Steps(log'),
             \A j \in Steps(log') : \/ log'[j].node < log'[i].node
                                    \/ log'[j].node = log'[i].node /\ j <= i
      PROVE  SomeLast'
  <2>1. i \in LastStep(log')
    BY <1>6 DEF LastStep
  <2> QED BY <2>1 DEF SomeLast
<1>7. CASE Steps(log) = {}
  <2>1. CASE row.node = RunEnd
    <3>1. Steps(log') = {}
      BY <1>4, <1>7, <2>1
    <3> QED BY <3>1 DEF SomeLast
  <2>2. CASE row.node # RunEnd
    <3>1. Steps(log') = {k}
      BY <1>4, <1>7, <2>2
    <3>2. k <= k
      BY <1>2
    <3> QED BY <1>6, <3>1, <3>2
  <2> QED BY <2>1, <2>2
<1>8. CASE Steps(log) # {}
  <2>1. PICK i \in Steps(log) : \A j \in Steps(log) :
                                  \/ log[j].node < log[i].node
                                  \/ log[j].node = log[i].node /\ j <= i
    BY <1>8 DEF SomeLast, LastStep
  <2>2. /\ i \in DOMAIN log /\ i < k /\ i \in Nat /\ log[i].node \in Nat
        /\ log'[i] = log[i] /\ i \in Steps(log')
    BY <1>1, <1>3, <1>4, <1>5
  <2>3. \A j \in Steps(log) : log'[j] = log[j] /\ j \in Nat /\ log[j].node \in Nat /\ j < k
    BY <1>1, <1>3, <1>5
  <2>4. CASE row.node = RunEnd
    <3>1. Steps(log') = Steps(log)
      BY <1>4, <2>4
    <3> QED BY <1>6, <2>1, <2>2, <2>3, <3>1
  <2>5. CASE row.node # RunEnd
    <3>1. Steps(log') = Steps(log) \cup {k}
      BY <1>4, <2>5
    <3>2. CASE row.node < log[i].node
      <4>1. \A j \in Steps(log') : \/ log'[j].node < log'[i].node
                                   \/ log'[j].node = log'[i].node /\ j <= i
        BY <1>1, <2>1, <2>2, <2>3, <3>1, <3>2
      <4> QED BY <1>6, <2>2, <4>1
    <3>3. CASE log[i].node <= row.node
      <4>1. \A j \in Steps(log) : \/ log'[j].node < log'[k].node
                                  \/ log'[j].node = log'[k].node /\ j <= k
        <5> SUFFICES ASSUME NEW j \in Steps(log)
                     PROVE  log[j].node < row.node \/ (log[j].node = row.node /\ j <= k)
          BY <1>1, <2>3
        <5>1. log[j].node <= log[i].node /\ log[j].node \in Nat /\ j < k /\ j \in Nat
          BY <2>1, <2>2, <2>3
        <5> QED BY <1>2, <2>2, <3>3, <5>1
      <4>2. k <= k
        BY <1>2
      <4> QED BY <1>6, <3>1, <4>1, <4>2
    <3> QED BY <1>2, <2>2, <3>2, <3>3
  <2> QED BY <2>4, <2>5
<1> QED BY <1>7, <1>8

LEMMA SomeLastInit == Init => SomeLast
BY DEF Init, SomeLast, Steps

LEMMA SomeLastNext == TypeOK /\ SomeLast /\ [Next]_vars => SomeLast'
<1> SUFFICES ASSUME TypeOK, SomeLast, [Next]_vars PROVE SomeLast'
  OBVIOUS
<1>1. CASE UNCHANGED log
  BY <1>1 DEF SomeLast
<1>2. ASSUME NEW c \in Callers, Pause(c) \/ Commit(c) \/ MarkEnd(c)
      PROVE  SomeLast'
  BY <1>2, RowsOfSteps, AppendingHasLast
<1>3. ASSUME NEW c \in Callers,
             \/ Execute(c) \/ (\E answer \in BOOLEAN : Resume(c, answer))
             \/ ReadLatest(c) \/ ReadHistory(c) \/ Claim(c) \/ Continue(c)
             \/ RunsOn(c) \/ Leaves(c)
      PROVE  UNCHANGED log
  BY <1>3, RunningOn, Leaving DEF Execute, Resume, ReadLatest, ReadHistory, Claim, Continue,
     RowsStay, store, history
<1> QED BY Kinds, <1>1, <1>2, <1>3 DEF vars, store, history

\* A run at rest that saved a step and lost no approval can be resumed, whoever raced,
\* crashed or retried: latest_resumable finds a row, and no pause that nobody can answer.
THEOREM RunsStayResumable == Spec => []StaysResumable
<1>1. ASSUME TypeOK, ApprovalInv, SpentBehind, SomeLast PROVE StaysResumable
  <2>0. Steps(log) # {} => ReEntry # {}
    BY <1>1 DEF ReEntry, SomeLast, Steps
  <2> SUFFICES ASSUME AtRest, \A t \in DOMAIN pauses : Phase(t) # "lost",
                      pending = NoPending,
                      NEW i \in ReEntry, log[i].status = "interrupted"
               PROVE  FALSE
    BY <2>0 DEF StaysResumable
  <2>1. i \in DOMAIN log /\ log \in Seq(Row) /\ Len(approvedBy) = Len(log)
        /\ approvedBy \in Seq(Nat)
    BY <1>1 DEF ReEntry, LastStep, Steps, TypeOK, ApprovalInv, ApprovalInOneHand
  <2>2. PICK t \in DOMAIN pauses :
          /\ pauses[t].node = log[i].node
          /\ \A j \in DOMAIN approvedBy : approvedBy[j] = t => i < j
    BY <1>1, <2>1 DEF SpentBehind
  <2>3. t # 0 /\ pauses[t].node \in Node
    <3> DEFINE P == [node : Node, snap : SUBSET Node]
    <3>1. pauses \in Seq(P)
      BY <1>1 DEF TypeOK
    <3>2. \A p \in P : p.node \in Node
      OBVIOUS
    <3> HIDE DEF P
    <3>3. t \in 1..Len(pauses) /\ pauses[t] \in P
      BY <2>2, <3>1
    <3> QED BY <3>2, <3>3
  <2>4. \A c \in Callers : call[c].ticket = 0
    BY <1>1 DEF AtRest, Live, ApprovalInv, ApprovalInOneHand, HoldsRightly, RunningAt,
       InNodeAt
  <2>5. Spent(t)
    BY <2>3, <2>4 DEF Phase, NoPending
  <2>6. PICK j \in DOMAIN approvedBy : approvedBy[j] = t
    BY <2>5 DEF Spent
  <2>7. j \in DOMAIN log /\ i < j /\ log[j].node = log[i].node /\ log[i].node # RunEnd
    <3>1. j \in DOMAIN log
      BY <2>1, <2>6
    <3> QED BY <1>1, <2>2, <2>3, <2>6, <3>1 DEF SpentBehind, Node, RunEnd
  <2>8. i \in LastStep(log)
    BY <2>1, <2>7 DEF ReEntry
  <2>9. j \in Steps(log) /\ log[j].node \in Nat /\ j \in Nat /\ i \in Nat
    BY <2>1, <2>2, <2>3, <2>7, ChainAssumption DEF Steps, Node
  <2> QED BY <2>7, <2>8, <2>9 DEF LastStep
<1> QED BY TypeInit, TypeNext, ApprovalInit, ApprovalNext, SpentBehindInit, SpentBehindNext,
           SomeLastInit, SomeLastNext, <1>1, PTL DEF Spec

----------------------------------------------------------------------------
(* No node runs again before the last one has run *)

\* Every node that finished is before position n; every row is of a node at n or before
\* it (or is a marker).
Before(n) == \A m \in Committed : m < n
UpTo(n) == \A i \in DOMAIN log : log[i].node <= n

\* A row of a node says that it finished or that it paused.
StepsEndOrPause == \A i \in Steps(log) : log[i].status \in {"completed", "interrupted"}

\* While the last node has no row: a call inside the loop is past every finished node, a
\* call that is about to run on from a row found the last of them, and so did the pause.
Ahead ==
    /\ \A c \in Callers :
         call[c].pc = "loop" \/ InNode(c) => Before(call[c].at) /\ UpTo(call[c].at)
    /\ \A c \in Callers :
         call[c].pc = "claim" /\ Unasked(c) =>
           call[c].seen.node \in Committed /\ UpTo(call[c].seen.node)
    /\ pending # NoPending => Before(pending.node) /\ UpTo(pending.node)
    /\ log # <<>> /\ log[Len(log)].node # RunEnd => UpTo(log[Len(log)].node)

AheadInv == StepsEndOrPause /\ (~mixed /\ Last \notin Committed => Ahead)

\* The empty log is before every node.
LEMMA AheadInit == Init => AheadInv
BY DEF Init, AheadInv, StepsEndOrPause, Ahead, Before, UpTo, Steps, Committed, Idle, Unasked,
       InNode, InNodeAt

\* A step of c that writes no row and leaves the pending row alone.
LEMMA AheadStays ==
    ASSUME AheadInv, NEW c \in Callers, Others(c),
           UNCHANGED <<log, pending>>, ~mixed' => ~mixed,
           ~mixed /\ Last \notin Committed /\ Ahead =>
             /\ call'[c].pc \in {"loop"} \cup InNodeAt => Before(call'[c].at) /\ UpTo(call'[c].at)
             /\ call'[c].pc = "claim" /\ ~call'[c].answer
                  /\ call'[c].seen.status # "interrupted" =>
                    call'[c].seen.node \in Committed /\ UpTo(call'[c].seen.node)
    PROVE  AheadInv'
<1>1. Committed' = Committed /\ StepsEndOrPause'
  BY DEF Committed, Steps, AheadInv, StepsEndOrPause
<1>2. ASSUME ~mixed', Last \notin Committed PROVE Ahead'
  <2>1. Ahead
    BY <1>2 DEF AheadInv
  <2>2. \A n : (Before(n)' <=> Before(n)) /\ (UpTo(n)' <=> UpTo(n))
    BY <1>1 DEF Before, UpTo
  <2>3. \A d \in Callers : call'[d].pc \in {"loop"} \cup InNodeAt =>
          Before(call'[d].at) /\ UpTo(call'[d].at)
    BY <1>2, <2>1 DEF Ahead, InNode, Others
  <2>4. \A d \in Callers :
          call'[d].pc = "claim" /\ ~call'[d].answer /\ call'[d].seen.status # "interrupted"
            => call'[d].seen.node \in Committed /\ UpTo(call'[d].seen.node)
    BY <1>2, <2>1 DEF Ahead, Unasked, Others
  <2>5. pending' # NoPending => Before(pending'.node) /\ UpTo(pending'.node)
    BY <2>1 DEF Ahead
  <2>6. log' # <<>> /\ log'[Len(log')].node # RunEnd => UpTo(log'[Len(log')].node)
    BY <2>1 DEF Ahead
  <2> QED BY <1>1, <2>2, <2>3, <2>4, <2>5, <2>6 DEF Ahead, Before, UpTo, InNode, Unasked
<1> QED BY <1>1, <1>2 DEF AheadInv

\* A step that writes a row is of the node the call is at, and moves the call past it.
LEMMA AheadNext == TypeOK /\ TurnInv /\ AheadInv /\ [Next]_vars => AheadInv'
<1> SUFFICES ASSUME TypeOK, TurnInv, AheadInv, [Next]_vars PROVE AheadInv'
  OBVIOUS
<1>0. Committed \subseteq Nat /\ Last \in Nat /\ Committed \subseteq Node /\ Node \subseteq Nat
  BY ChainAssumption DEF Committed, Node
<1>1. CASE UNCHANGED vars
  BY <1>1 DEF vars, store, history, AheadInv, StepsEndOrPause, Ahead, Before, UpTo, Steps,
     Committed, Unasked, InNode
<1>2. ASSUME NEW c \in Callers, Execute(c)
      PROVE  AheadInv'
  <2>1. log = <<>> /\ UNCHANGED <<log, pending>> /\ (~mixed' => ~mixed)
    BY <1>2 DEF Execute, BeginCall, TurnInv, Untouched, store
  <2>2. Others(c) /\ call'[c].pc = "loop" /\ call'[c].at = 1
    BY <1>2, Starting
  <2>3. Committed = {} /\ DOMAIN log = {}
    BY <2>1 DEF Committed
  <2> QED BY <2>1, <2>2, <2>3, AheadStays DEF Before, UpTo
<1>3. ASSUME NEW c \in Callers, NEW answer \in BOOLEAN, Resume(c, answer)
      PROVE  AheadInv'
  <2>1. UNCHANGED <<log, pending>> /\ (~mixed' => ~mixed)
    BY <1>3 DEF Resume, BeginCall, store
  <2>2. Others(c) /\ call'[c].pc = "latest"
    BY <1>3, Starting
  <2> QED BY <2>1, <2>2, AheadStays DEF InNodeAt
<1>4. ASSUME NEW c \in Callers, NEW i \in Steps(log), UpTo(log[i].node),
             UNCHANGED <<log, pending, mixed>>,
             call' = [call EXCEPT ![c] = [@ EXCEPT !.seen = log[i], !.pc = "claim"]]
      PROVE  AheadInv'
  <2>1. Others(c) /\ call'[c].pc = "claim" /\ call'[c].seen = log[i]
    BY <1>4, Seeing
  <2>2. log[i].status # "interrupted" => log[i].node \in Committed
    <3>1. log[i] \in Row /\ i \in DOMAIN log
      BY DEF Steps, TypeOK
    <3> QED BY <3>1 DEF AheadInv, StepsEndOrPause, Steps, Committed, Row
  <2> QED BY <1>4, <2>1, <2>2, AheadStays DEF InNodeAt
<1>5. ASSUME NEW c \in Callers, UNCHANGED <<log, pending, mixed>>, Others(c),
             call'[c].pc \notin {"loop", "claim"} \cup InNodeAt
      PROVE  AheadInv'
  BY <1>5, AheadStays
<1>6. ASSUME NEW c \in Callers, UNCHANGED <<log, pending, mixed>>, Return(c)
      PROVE  AheadInv'
  BY <1>5, <1>6, Returning DEF Returned, Idle, InNodeAt
<1>7. ASSUME NEW c \in Callers, ReadLatest(c)
      PROVE  AheadInv'
  <2>1. UNCHANGED <<log, pending, mixed>>
    BY <1>7 DEF ReadLatest, store, history
  <2>2. CASE /\ log # <<>> /\ log[Len(log)].node # RunEnd
             /\ call' = [call EXCEPT ![c] = [@ EXCEPT !.seen = log[Len(log)], !.pc = "claim"]]
    <3>1. Len(log) \in Steps(log)
      BY <2>2 DEF Steps, TypeOK
    <3>2. Others(c) /\ call'[c].pc = "claim" /\ call'[c].seen = log[Len(log)]
      BY <2>2, Seeing
    <3>3. log[Len(log)].status # "interrupted" => log[Len(log)].node \in Committed
      <4>1. log[Len(log)] \in Row /\ Len(log) \in DOMAIN log
        BY <3>1 DEF Steps, TypeOK
      <4> QED BY <3>1, <4>1, <2>2 DEF AheadInv, StepsEndOrPause, Steps, Committed, Row
    <3> QED BY <2>1, <2>2, <3>2, <3>3, AheadStays DEF InNodeAt, Ahead
  <2>3. CASE Move(c, "history")
    BY <1>5, <2>1, <2>3, Moving DEF InNodeAt
  <2> QED BY <1>6, <1>7, <2>1, <2>2, <2>3 DEF ReadLatest
<1>8. ASSUME NEW c \in Callers, ReadHistory(c)
      PROVE  AheadInv'
  <2>1. UNCHANGED <<log, pending, mixed>>
    BY <1>8 DEF ReadHistory, store, history
  <2>2. ASSUME NEW i \in LastStep(log) PROVE i \in Steps(log) /\ UpTo(log[i].node)
    <3>1. /\ \A j \in DOMAIN log : log[j].node \in Nat
          /\ \A j \in DOMAIN log : j \notin Steps(log) => log[j].node = 0
          /\ i \in Steps(log) /\ i \in DOMAIN log
      BY RowsHaveNodes DEF Steps, LastStep, RunEnd
    <3> QED BY <3>1 DEF UpTo, LastStep
  <2> QED BY <1>4, <1>6, <1>8, <2>1, <2>2 DEF ReadHistory
<1>9. ASSUME NEW c \in Callers, Claim(c)
      PROVE  AheadInv'
  <2>1. UNCHANGED <<log, mixed>>
    BY <1>9 DEF Claim, history
  <2>2. CASE pending = NoPending
    BY <1>6, <1>9, <2>1, <2>2 DEF Claim
  <2>3. CASE pending # NoPending
    <3>1. EnterRun(c, pending.node, pending.ticket) /\ pending' = NoPending
      BY <1>9, <2>3 DEF Claim
    <3>2. pending.node # 0
      BY <2>3 DEF TypeOK, Node
    <3>3. Others(c) /\ call'[c].pc = "loop" /\ call'[c].at = pending.node
      BY <3>1, <3>2, Entering
    <3>4. Committed' = Committed /\ StepsEndOrPause'
      BY <2>1 DEF Committed, Steps, AheadInv, StepsEndOrPause
    <3>5. ASSUME ~mixed, Last \notin Committed PROVE Ahead'
      BY <2>1, <2>3, <3>1, <3>3, <3>4, <3>5
         DEF AheadInv, Ahead, Before, UpTo, Unasked, InNode, InNodeAt, Others
    <3> QED BY <2>1, <3>4, <3>5 DEF AheadInv
  <2> QED BY <2>2, <2>3
<1>10. ASSUME NEW c \in Callers, Continue(c)
       PROVE  AheadInv'
  <2> DEFINE start == IF call[c].seen.node < Last THEN call[c].seen.node + 1 ELSE 0
  <2>1. UNCHANGED <<log, pending, mixed>> /\ call[c].pc = "claim" /\ Unasked(c)
    BY <1>10 DEF Continue, store, history, Unasked
  <2>2. EnterRun(c, start, 0)
    BY <1>10 DEF Continue
  <2>3. Others(c) /\ call'[c].pc = "loop" /\ call'[c].at = IF start = 0 THEN 1 ELSE start
    <3> HIDE DEF start
    <3> QED BY <2>2, Entering
  <2>4. ASSUME Last \notin Committed, Ahead PROVE Before(call'[c].at) /\ UpTo(call'[c].at)
    <3>1. call[c].seen.node \in Committed /\ UpTo(call[c].seen.node)
      BY <2>1, <2>4 DEF Ahead
    <3> DEFINE k == call[c].seen.node
    <3>2. k \in Nat /\ k < Last
      <4>1. k # Last /\ k \in Node
        BY <1>0, <2>4, <3>1
      <4> HIDE DEF k
      <4> QED BY <1>0, <4>1 DEF Node
    <3>3. call'[c].at = k + 1
      BY <2>3, <3>2
    <3> HIDE DEF k
    <3>4. \A i \in DOMAIN log : log[i].node <= k /\ log[i].node \in Nat
      BY <3>1, RowsHaveNodes DEF UpTo, k
    <3>5. \A m \in Committed : m < k + 1
      BY <3>2, <3>4 DEF Committed
    <3>6. \A i \in DOMAIN log : log[i].node <= k + 1
      BY <3>2, <3>4
    <3> QED BY <3>3, <3>5, <3>6 DEF Before, UpTo
  <2> QED BY <2>1, <2>3, <2>4, AheadStays
<1>11. ASSUME NEW c \in Callers, Pause(c)
       PROVE  AheadInv'
  <2>1. /\ Running(c) /\ UNCHANGED mixed /\ Returned(c) /\ InNode(c)
    BY <1>11, Returning DEF Pause, Running, RunningAt, InNode, InNodeAt
  <2>2. PICK row \in Row : /\ log' = Append(log, row) /\ row.status = "interrupted"
                           /\ row.node = call[c].at
    BY <1>11, RowsOfSteps
  <2>3. Lasts(row) /\ Committed' = Committed
    BY <2>2, Appending
  <2>4. pending'.node = call[c].at
    BY <1>11 DEF Pause
  <2>5. StepsEndOrPause'
    BY <2>2, Appending DEF AheadInv, StepsEndOrPause, Steps
  <2>6. ASSUME ~mixed, Last \notin Committed PROVE Ahead'
    <3>1. Ahead /\ Before(call[c].at) /\ UpTo(call[c].at)
      BY <2>1, <2>6 DEF AheadInv, Ahead
    <3>2. \A i \in DOMAIN log' : log'[i].node <= call[c].at
      BY <2>2, <3>1, Appending, Placed DEF UpTo
    <3>3. \A d \in Callers : d # c => ~Running(d) /\ ~Unasked(d)
      BY <2>1, <2>6 DEF TurnInv, TakingTurns, Unasked, Live, Running, RunningAt, InNodeAt
    <3>4. \A d \in Callers : ~(call'[d].pc = "loop" \/ InNode(d)') /\ ~Unasked(d)'
      BY <2>1, <3>3 DEF Unasked, InNode, InNodeAt, Running, RunningAt, Returned, Others, Idle
    <3>5. pending' # NoPending => Before(pending.node)' /\ UpTo(pending.node)'
      BY <2>3, <2>4, <3>1, <3>2 DEF Before, UpTo
    <3>6. UpTo(log[Len(log)].node)'
      BY <2>2, <2>3, <3>2 DEF UpTo, Lasts
    <3> QED BY <3>4, <3>5, <3>6 DEF Ahead
  <2> QED BY <2>1, <2>3, <2>5, <2>6 DEF AheadInv
<1>12. ASSUME NEW c \in Callers, Commit(c)
       PROVE  AheadInv'
  <2> DEFINE n == call[c].at
  <2>1. /\ Running(c) /\ UNCHANGED <<mixed, pending>> /\ InNode(c) /\ n \in Node
    BY <1>12 DEF Commit, Running, RunningAt, InNode, InNodeAt, TypeOK, Calls
  <2>2. PICK row \in Row : /\ log' = Append(log, row) /\ row.status = "completed"
                           /\ row.node = n
    BY <1>12, RowsOfSteps
  <2>3. Lasts(row) /\ Committed' = Committed \cup {n}
    BY <2>1, <2>2, Appending
  <2>4. Others(c) /\ call'[c].pc \in {"end", "loop"} /\ call'[c].at = n + 1
    BY <1>12, Committing
  <2>5. StepsEndOrPause'
    BY <2>2, Appending DEF AheadInv, StepsEndOrPause, Steps
  <2>6. ASSUME ~mixed, Last \notin Committed PROVE Ahead'
    <3>1. Before(n) /\ UpTo(n)
      BY <2>1, <2>6 DEF AheadInv, Ahead
    <3>2. /\ \A m \in Committed' : m < n + 1
          /\ \A i \in DOMAIN log' : log'[i].node <= n /\ log'[i].node <= n + 1
      <4> HIDE DEF n
      <4>1. n \in Nat /\ \A i \in DOMAIN log : log[i].node \in Nat
        BY <1>0, <2>1, RowsHaveNodes DEF Node
      <4>2. (\A m \in Committed : m < n) /\ (\A i \in DOMAIN log : log[i].node <= n)
        BY <3>1 DEF Before, UpTo
      <4>3. \A i \in DOMAIN log' : log'[i].node <= n /\ log'[i].node <= n + 1
        BY <2>2, <4>1, <4>2, Appending
      <4>4. \A m \in Committed' : m < n + 1
        BY <1>0, <2>3, <4>1, <4>2
      <4> QED BY <4>3, <4>4
    <3>3. pending = NoPending
      BY <2>1, <2>6 DEF TurnInv, TakingTurns
    <3>4. \A d \in Callers : d # c => ~Running(d) /\ ~Unasked(d)
      BY <2>1, <2>6 DEF TurnInv, TakingTurns, Unasked, Live, Running, RunningAt, InNodeAt
    <3> QED BY <2>1, <2>2, <2>3, <2>4, <3>2, <3>3, <3>4 DEF Ahead, Before, UpTo, Unasked, InNode,
            InNodeAt, Running, RunningAt, Others, Lasts
  <2> QED BY <2>1, <2>3, <2>5, <2>6 DEF AheadInv
<1>13. ASSUME NEW c \in Callers, MarkEnd(c)
       PROVE  AheadInv'
  <2>1. UNCHANGED <<mixed, pending>> /\ Returned(c)
    BY <1>13, Returning DEF MarkEnd
  <2>2. PICK row \in Row : log' = Append(log, row) /\ row.node = RunEnd
    BY <1>13, RowsOfSteps
  <2>3. Lasts(row) /\ Committed' = Committed
    <3>1. \A n \in Node : row.node # n
      BY <2>2 DEF Node, RunEnd
    <3> QED BY <2>2, <3>1, Appending
  <2>4. StepsEndOrPause'
    BY <2>2, Appending DEF AheadInv, StepsEndOrPause, Steps
  <2>5. Ahead => Ahead'
    <3>1. \A n \in Nat : UpTo(n) => \A i \in DOMAIN log' : log'[i].node <= n
      BY <2>2, Appending DEF UpTo, RunEnd
    <3> SUFFICES ASSUME Ahead PROVE Ahead'
      OBVIOUS
    <3>2. \A d \in Callers : d # c => call'[d] = call[d]
      BY <2>1 DEF Returned, Others
    <3>3. call'[c].pc = "idle"
      BY <2>1 DEF Returned, Idle
    <3>4. \A d \in Callers : (call[d].pc = "loop" \/ InNode(d))' =>
            Before(call[d].at)' /\ UpTo(call[d].at)'
      <4> SUFFICES ASSUME NEW d \in Callers, (call[d].pc = "loop" \/ InNode(d))'
                   PROVE  Before(call[d].at)' /\ UpTo(call[d].at)'
        OBVIOUS
      <4>1. d # c /\ call'[d] = call[d] /\ Before(call[d].at) /\ UpTo(call[d].at)
        BY <3>2, <3>3 DEF Ahead, InNode, InNodeAt
      <4> QED BY <2>3, <3>1, <4>1, Placed DEF Before, UpTo
    <3>5. \A d \in Callers : (call[d].pc = "claim" /\ Unasked(d))' =>
            call'[d].seen.node \in Committed' /\ UpTo(call[d].seen.node)'
      <4> SUFFICES ASSUME NEW d \in Callers, (call[d].pc = "claim" /\ Unasked(d))'
                   PROVE  call'[d].seen.node \in Committed' /\ UpTo(call[d].seen.node)'
        OBVIOUS
      <4>1. d # c /\ call'[d] = call[d] /\ call[d].seen.node \in Committed
            /\ UpTo(call[d].seen.node)
        BY <3>2, <3>3 DEF Ahead, Unasked
      <4> QED BY <1>0, <2>3, <3>1, <4>1 DEF UpTo
    <3>6. pending' # NoPending => Before(pending.node)' /\ UpTo(pending.node)'
      <4>1. pending # NoPending => pending.node \in Nat
        BY <1>0 DEF TypeOK
      <4> QED BY <2>1, <2>3, <3>1, <4>1 DEF Ahead, Before, UpTo
    <3>7. log'[Len(log')].node = RunEnd
      BY <2>2, <2>3 DEF Lasts
    <3> QED BY <3>4, <3>5, <3>6, <3>7 DEF Ahead
  <2> QED BY <2>1, <2>3, <2>4, <2>5 DEF AheadInv
<1>14. ASSUME NEW c \in Callers, EnterNode(c)
       PROVE  AheadInv'
  <2>1. UNCHANGED <<log, pending, mixed>> /\ call[c].pc = "loop"
    BY <1>14 DEF EnterNode, store, history
  <2>2. Others(c) /\ call'[c].pc # "claim" /\ call'[c].at \in Firsts(Due(c))
    BY <1>14, Reaching
  <2>3. call'[c].at \in Node /\ call'[c].at >= call[c].at /\ call[c].at \in Nat
    BY <2>2 DEF Firsts, Due, TypeOK, Calls, Locals
  <2> DEFINE old == call[c].at
             new == call'[c].at
  <2>4. Before(call[c].at) /\ UpTo(call[c].at) => Before(call'[c].at) /\ UpTo(call'[c].at)
    <3>1. new \in Nat /\ old \in Nat /\ old <= new
      BY <1>0, <2>3 DEF Node
    <3> HIDE DEF old, new
    <3>2. (\A m \in Committed : m < old) => \A m \in Committed : m < new
      BY <1>0, <3>1
    <3>3. \A i \in DOMAIN log : log[i].node \in Nat
      BY RowsHaveNodes
    <3>4. UpTo(old) => UpTo(new)
      BY <3>1, <3>3 DEF UpTo
    <3> QED BY <3>2, <3>4 DEF Before, old, new
  <2> QED BY <2>1, <2>2, <2>4, AheadStays DEF Ahead
<1>15. ASSUME NEW c \in Callers, LookUp(c) \/ RunBody(c) \/ SaveResult(c)
       PROVE  AheadInv'
  <2>1. UNCHANGED <<log, pending, mixed>> /\ InNode(c)
    BY <1>15 DEF LookUp, RunBody, SaveResult, store, history, InNode, InNodeAt
  <2>2. Others(c) /\ call'[c].pc # "claim" /\ call'[c].at = call[c].at
    BY <1>15, Moving DEF LookUp, RunBody, SaveResult, SameRun
  <2> QED BY <2>1, <2>2, AheadStays DEF Ahead
<1>16. ASSUME NEW c \in Callers, PauseConflict(c) \/ Reject(c) \/ NoHandler(c)
                                 \/ Complete(c) \/ Fail(c)
       PROVE  AheadInv'
  <2>1. Others(c) /\ RowsStay
    BY <1>16, RunningOn DEF RunsOn
  <2>2. call'[c].pc = "end"
    <3>1. PauseConflict(c) \/ NoHandler(c) => call'[c].pc = "end"
      BY Moving DEF PauseConflict, NoHandler
    <3>2. Reject(c) \/ Complete(c) \/ Fail(c) => call'[c].pc = "end"
      BY Ending DEF Reject, Complete, Fail
    <3> QED BY <1>16, <3>1, <3>2
  <2> QED BY <1>5, <2>1, <2>2 DEF RowsStay, InNodeAt
<1>17. ASSUME NEW c \in Callers, Leaves(c)
       PROVE  AheadInv'
  <2>1. Returned(c) /\ RowsStay
    BY <1>17, Leaving
  <2> QED BY <1>5, <2>1 DEF RowsStay, InNodeAt, Returned, Idle
<1> QED BY Kinds, <1>1, <1>2, <1>3, <1>7, <1>8, <1>9, <1>10, <1>11, <1>12, <1>13, <1>14,
        <1>15, <1>16, <1>17 DEF RunsOn

\* Unless calls other than answers overlap, Chain.resume runs a node that has its
\* checkpoint again only after the last node of the chain got one.
THEOREM RerunsOnlyAfterLastNode == Spec => [](~mixed => RerunOnlyAfterLastNode)
<1>1. TypeOK /\ AheadInv => (~mixed => RerunOnlyAfterLastNode)
  <2> SUFFICES ASSUME TypeOK, AheadInv, ~mixed, Last \notin Committed,
                      NEW c \in Callers, InNode(c), call[c].at \in Committed
               PROVE  FALSE
    BY DEF RerunOnlyAfterLastNode
  <2>1. Before(call[c].at) /\ call[c].at \in Nat
    BY ChainAssumption DEF AheadInv, Ahead, Committed, Node
  <2> QED BY <2>1 DEF Before
<1> QED BY TypeInit, TypeNext, TurnInit, TurnNext, AheadInit, AheadNext, <1>1, PTL DEF Spec

----------------------------------------------------------------------------
(* Routing, in a run that was not resumed *)

\* What routing selects are targets of the node's edges, and lie behind it.
LEMMA SelectionsLieBehind ==
    ASSUME NEW n \in Node, NEW selected \in Selections(n), NEW t \in selected
    PROVE  t \in Node /\ n < t /\ \E i \in DOMAIN Out[n] : Out[n][i].to = t
<1>1. PICK S \in SUBSET DOMAIN Out[n] : selected = Targets(n, S)
  <2>1. CASE n \in Conditions
    <3>1. \A handle : ByHandle(n, handle) \in SUBSET DOMAIN Out[n]
      BY DEF ByHandle, Firsts
    <3> QED BY <2>1, <3>1 DEF Selections
  <2>2. CASE n \notin Conditions
    <3>1. \A True \in SUBSET {i \in DOMAIN Out[n] : Out[n][i].conditional} :
            ByTruth(n, True) \in SUBSET DOMAIN Out[n]
      BY DEF ByTruth, Firsts
    <3> QED BY <2>2, <3>1 DEF Selections
  <2> QED BY <2>1, <2>2
<1>2. PICK i \in S : Out[n][i].to = t
  BY <1>1 DEF Targets
<1> QED BY <1>2, SelectionsAreNodes, ChainAssumption

\* A condition node selects one target at most (_select_outgoing_edges takes the first
\* edge with the handle's label).
LEMMA ConditionSelectsOne ==
    ASSUME NEW n \in Conditions, NEW selected \in Selections(n),
           NEW t \in selected, NEW u \in selected
    PROVE  t = u
<1>1. n \in Node /\ DOMAIN Out[n] \subseteq Nat
  <2>1. n \in Node /\ Out[n] \in Seq(Edge)
    BY ChainAssumption
  <2> QED BY <2>1
<1>2. \A S \in SUBSET DOMAIN Out[n] : \A i, j \in Firsts(S) : i = j
  BY <1>1 DEF Firsts
<1>3. ASSUME NEW handle, NEW i \in ByHandle(n, handle), NEW j \in ByHandle(n, handle)
      PROVE  i = j
  <2> DEFINE L(l) == {k \in DOMAIN Out[n] : Out[n][k].label = l}
  <2>1. ByHandle(n, handle) \in {Firsts(L(handle)), Firsts(L("default")), Firsts(L(""))}
    BY DEF ByHandle
  <2>2. \A l : L(l) \in SUBSET DOMAIN Out[n]
    OBVIOUS
  <2> HIDE DEF L
  <2> QED BY <1>2, <1>3, <2>1, <2>2
<1>4. PICK handle : selected = Targets(n, ByHandle(n, handle))
  BY DEF Selections
<1> QED BY <1>3, <1>4 DEF Targets

\* The run was started and never resumed.
Unresumed == calls <= 1 /\ answers = 0

\* The nodes that n leads to, and no other node.
Only(n) == {t \in Node : /\ \E i \in DOMAIN Out[n] : Out[n][i].to = t
                         /\ \A m \in Node \ {n} : \A i \in DOMAIN Out[m] : Out[m][i].to # t}

\* Every node routed to has its checkpoint, unless a gate stopped the run.
AllRan == routed \cap Gates \subseteq Committed => routed \subseteq Committed

\* The only call knows every node a branch routed to, is past those with a checkpoint and
\* no others; a condition node has let at most one node in, and only by committing.
InOneGo ==
    /\ calls = 0 => routed = Entries
    /\ \A c, d \in Callers : Live(c) /\ Live(d) => c = d
    /\ Committed \subseteq routed
    /\ \A c \in Callers : Live(c) =>
         /\ Running(c) /\ routed = call[c].active
         /\ call[c].pc = "end" /\ call[c].end = "completed" => AllRan
         /\ call[c].pc # "end" =>
              /\ ~Finished /\ Before(call[c].at) /\ call[c].end = "failed"
              /\ \A m \in routed : m < call[c].at => m \in Committed
              /\ call[c].pc # "loop" => call[c].at \in routed
    /\ \A n \in Conditions : \A t, u \in Only(n) \cap routed : n \in Committed /\ t = u
    /\ NoRoutedNodeSkipped

GoInv == Unresumed => InOneGo

\* Nothing but the entry nodes is routed to at first.
LEMMA GoInit == Init => GoInv
<1> SUFFICES ASSUME Init PROVE InOneGo
  BY DEF GoInv
<1>1. Committed = {} /\ ~Finished
  BY DEF Init, Committed, Finished
<1>2. \A c \in Callers : ~Live(c)
  BY DEF Init, Live, Idle
<1>3. \A n \in Conditions : Only(n) \cap routed = {}
  BY ChainAssumption DEF Init, Only, Entries
<1> QED BY <1>1, <1>2, <1>3 DEF Init, InOneGo, NoRoutedNodeSkipped

\* A node that commits adds what it routes to to the call and to routed alike.
LEMMA GoNext == TypeOK /\ TurnInv /\ GoInv /\ [Next]_vars => GoInv'
<1> SUFFICES ASSUME TypeOK, TurnInv, GoInv, [Next]_vars, Unresumed' PROVE InOneGo'
  BY DEF GoInv
<1>0. Committed \subseteq Nat /\ Node \subseteq Nat
  BY ChainAssumption DEF Committed, Node
<1>1. CASE UNCHANGED vars
  BY <1>1 DEF vars, store, history, GoInv, Unresumed, InOneGo, AllRan, Before, Live, Running,
     Committed, Finished, NoRoutedNodeSkipped
<1>2. ASSUME NEW c \in Callers, Execute(c)
      PROVE  InOneGo'
  <2>1. /\ calls = 0 /\ calls' # 0 /\ log' = <<>> /\ \A d \in Callers : ~Live(d)
        /\ answers' = answers /\ routed' = routed
    BY <1>2 DEF Execute, BeginCall, TypeOK, TurnInv, Untouched, store
  <2>2. InOneGo
    BY <2>1 DEF GoInv, Unresumed
  <2>3. /\ Others(c) /\ call'[c].pc = "loop" /\ call'[c].active = Entries /\ call'[c].at = 1
        /\ call'[c].end = "failed"
    BY <1>2, Starting
  <2>4. Committed' = {} /\ ~Finished' /\ Committed = {}
    BY <2>1 DEF Committed, Finished, TurnInv, Untouched
  <2>5. \A m \in routed : ~ (m < 1)
    BY <2>1, <2>2 DEF InOneGo, Entries, Node
  <2> QED BY <2>1, <2>2, <2>3, <2>4, <2>5 DEF InOneGo, AllRan, Before, Live, Running, RunningAt,
          Others, NoRoutedNodeSkipped
<1>3. ASSUME NEW c \in Callers, NEW answer \in BOOLEAN, Resume(c, answer)
      PROVE  FALSE
  BY <1>3 DEF Resume, BeginCall, Unresumed, TypeOK
<1>4. ASSUME UNCHANGED <<calls, answers>>
      PROVE  InOneGo
  BY <1>4 DEF GoInv, Unresumed
<1>5. ASSUME NEW c \in Callers,
             ReadLatest(c) \/ ReadHistory(c) \/ Claim(c) \/ Continue(c)
      PROVE  FALSE
  <2>1. Live(c) /\ ~Running(c) /\ UNCHANGED <<calls, answers>>
    BY <1>5 DEF ReadLatest, ReadHistory, Claim, Continue, Live, Running, RunningAt, InNodeAt,
       store
  <2> QED BY <1>4, <2>1 DEF InOneGo
<1>6. ASSUME NEW c \in Callers, Live(c), Returned(c), UNCHANGED <<calls, answers, routed>>,
             Committed' = Committed,
             Finished' => Finished \/ (call[c].pc = "end" /\ call[c].end = "completed")
      PROVE  InOneGo'
  <2>1. InOneGo
    BY <1>4, <1>6
  <2>2. \A d \in Callers : ~Live(d)'
    BY <1>6, <2>1 DEF InOneGo, Returned, Others, Live, Idle
  <2>3. calls # 0
    BY <1>6, Counted
  <2>4. NoRoutedNodeSkipped'
    BY <1>6, <2>1 DEF InOneGo, AllRan, NoRoutedNodeSkipped
  <2> QED BY <1>6, <2>1, <2>2, <2>3, <2>4 DEF InOneGo
<1>7. ASSUME NEW c \in Callers, Pause(c)
      PROVE  InOneGo'
  <2>1. Live(c) /\ UNCHANGED <<calls, answers, routed>> /\ Returned(c)
    BY <1>7, Returning DEF Pause, Live
  <2>2. PICK row \in Row : log' = Append(log, row) /\ row.status = "interrupted"
    BY <1>7, RowsOfSteps
  <2>3. Committed' = Committed /\ (Finished' => Finished)
    BY <2>2, Appending
  <2> QED BY <1>6, <2>1, <2>3
<1>8. ASSUME NEW c \in Callers, MarkEnd(c)
      PROVE  InOneGo'
  <2>1. /\ Live(c) /\ UNCHANGED <<calls, answers, routed>> /\ Returned(c)
        /\ call[c].pc = "end"
    BY <1>8, Returning DEF MarkEnd, Live
  <2>2. PICK row \in Row : /\ log' = Append(log, row) /\ row.node = RunEnd
                           /\ row.status = call[c].end
    BY <1>8, RowsOfSteps
  <2>3. \A n \in Node : row.node # n
    BY <2>2 DEF Node, RunEnd
  <2>4. Committed' = Committed /\ (Finished' => Finished \/ call[c].end = "completed")
    BY <2>2, <2>3, Appending
  <2> QED BY <1>6, <2>1, <2>4
<1>9. ASSUME NEW c \in Callers, Leaves(c)
      PROVE  InOneGo'
  <2>1. Returned(c) /\ Live(c) /\ RowsStay
    BY <1>9, Leaving
  <2> QED BY <1>6, <2>1 DEF RowsStay, Committed, Finished
<1>10. ASSUME NEW c \in Callers, RunsOn(c),
              call'[c].active = call[c].active,
              InOneGo =>
                /\ call'[c].pc = "end" /\ call'[c].end = "completed" => AllRan
                /\ call'[c].pc # "end" =>
                     /\ ~Finished /\ Before(call'[c].at) /\ call'[c].end = "failed"
                     /\ \A m \in routed : m < call'[c].at => m \in Committed
                     /\ call'[c].pc # "loop" => call'[c].at \in routed
       PROVE  InOneGo'
  <2>1. Others(c) /\ Running(c) /\ call'[c].pc \in RunningAt /\ RowsStay
    BY <1>10, RunningOn
  <2>2. InOneGo
    BY <1>4, <2>1 DEF RowsStay
  <2>3. Live(c) /\ \A d \in Callers : d # c => ~Live(d)
    BY <2>1, <2>2 DEF InOneGo, Live, Running, RunningAt, InNodeAt
  <2>4. \A d \in Callers : Live(d)' => d = c
    BY <2>1, <2>3 DEF Live, Others
  <2>5. Committed' = Committed /\ (Finished' <=> Finished) /\ routed' = routed /\ calls' = calls
    BY <2>1 DEF RowsStay, Committed, Finished
  <2>6. NoRoutedNodeSkipped'
    BY <2>2, <2>5 DEF InOneGo, NoRoutedNodeSkipped
  <2> HIDE DEF Live
  <2>7. Running(c)' /\ call'[c].active = routed'
    BY <1>10, <2>1, <2>2, <2>3, <2>5 DEF Running, InOneGo
  <2> QED BY <1>10, <2>2, <2>4, <2>5, <2>6, <2>7 DEF InOneGo, AllRan, Before
<1>11. ASSUME NEW c \in Callers, EnterNode(c)
       PROVE  InOneGo'
  <2>1. /\ call[c].pc = "loop" /\ call'[c].pc \in {"lookup", "node"}
        /\ call'[c].at \in Firsts(Due(c)) /\ call'[c].end = call[c].end
        /\ call'[c].active = call[c].active
    BY <1>11, Reaching DEF EnterNode
  <2> DEFINE n == call'[c].at
             old == call[c].at
  <2>2. /\ n \in call[c].active /\ n \in Nat /\ old \in Nat /\ old <= n
        /\ \A m \in call[c].active : m >= old => n <= m
        /\ call[c].active \subseteq Nat
    BY <1>0, <2>1, Placed DEF Firsts, Due
  <2>3. ASSUME InOneGo
        PROVE  /\ ~Finished /\ Before(n) /\ call'[c].end = "failed"
               /\ \A m \in routed : m < n => m \in Committed
               /\ n \in routed
    <3>1. /\ ~Finished /\ Before(old) /\ call[c].end = "failed" /\ routed = call[c].active
          /\ \A m \in routed : m < old => m \in Committed
      BY <2>1, <2>3 DEF InOneGo, Live
    <3> HIDE DEF n, old
    <3>2. \A m \in routed : m < n => m \in Committed
      BY <2>2, <3>1
    <3>3. \A m \in Committed : m < n
      BY <1>0, <2>2, <3>1 DEF Before
    <3> QED BY <2>1, <2>2, <3>1, <3>2, <3>3 DEF Before
  <2> QED BY <1>10, <1>11, <2>1, <2>3 DEF RunsOn
<1>12. ASSUME NEW c \in Callers, LookUp(c) \/ RunBody(c) \/ SaveResult(c)
       PROVE  InOneGo'
  <2>1. /\ call[c].pc \in {"lookup", "body", "save"}
        /\ call'[c].pc \in {"body", "save", "node"} /\ SameRun(c)
        /\ call'[c].end = call[c].end
    BY <1>12, Moving DEF LookUp, RunBody, SaveResult
  <2> QED BY <1>10, <1>12, <2>1 DEF RunsOn, InOneGo, Live, SameRun
<1>13. ASSUME NEW c \in Callers, PauseConflict(c) \/ NoHandler(c)
       PROVE  InOneGo'
  <2>1. /\ call[c].pc = "node" /\ call'[c].pc = "end" /\ SameRun(c)
        /\ call'[c].end = call[c].end
    BY <1>13, Moving DEF PauseConflict, NoHandler
  <2> QED BY <1>10, <1>13, <2>1 DEF RunsOn, InOneGo, Live, SameRun
<1>14. ASSUME NEW c \in Callers, Reject(c)
       PROVE  InOneGo'
  <2>1. call[c].pc = "node" /\ call'[c].pc = "end" /\ SameRun(c) /\ call[c].at \in Gates
    BY <1>14, Ending DEF Reject
  <2>2. InOneGo => call[c].at \in routed /\ Before(call[c].at)
    BY <2>1 DEF InOneGo, Live
  <2>3. Before(call[c].at) => call[c].at \notin Committed
    BY Placed DEF Before
  <2> QED BY <1>10, <1>14, <2>1, <2>2, <2>3 DEF RunsOn, SameRun, AllRan
<1>15. ASSUME NEW c \in Callers, Complete(c)
       PROVE  InOneGo'
  <2>1. call[c].pc = "loop" /\ call'[c].pc = "end" /\ SameRun(c) /\ Due(c) = {}
    BY <1>15, Ending DEF Complete
  <2>2. call[c].at \in Nat /\ call[c].active \subseteq Nat
    BY <1>0, Placed
  <2>3. \A m \in call[c].active : m < call[c].at
    BY <2>1, <2>2 DEF Due
  <2>4. InOneGo => routed \subseteq Committed
    BY <2>1, <2>3 DEF InOneGo, Live
  <2> QED BY <1>10, <1>15, <2>1, <2>4 DEF RunsOn, SameRun, AllRan
<1>16. ASSUME NEW c \in Callers, Fail(c)
       PROVE  InOneGo'
  <2>1. call'[c].pc = "end" /\ SameRun(c) /\ call'[c].end = "failed"
    BY <1>16, Ending DEF Fail
  <2> QED BY <1>10, <1>16, <2>1 DEF RunsOn, SameRun
<1>17. ASSUME NEW c \in Callers, Commit(c)
       PROVE  InOneGo'
  <2> DEFINE n == call[c].at
  <2>1. /\ call[c].pc = "node" /\ n \in Node /\ UNCHANGED <<calls, answers>>
    BY <1>17 DEF Commit, TypeOK, Calls, InNodeAt
  <2>2. PICK row \in Row : log' = Append(log, row) /\ row.status = "completed" /\ row.node = n
    BY <1>17, RowsOfSteps
  <2>3. Committed' = Committed \cup {n} /\ (Finished' <=> Finished)
    <3>1. n # RunEnd
      BY <2>1 DEF Node, RunEnd
    <3> QED BY <2>1, <2>2, <3>1, Appending
  <2>4. PICK selected \in Selections(n) :
          /\ Others(c) /\ call'[c].pc = IF RoutingFails(n, selected) THEN "end" ELSE "loop"
          /\ call'[c].at = n + 1 /\ call'[c].end = call[c].end
          /\ call'[c].active = call[c].active \cup selected
          /\ routed' = routed \cup selected
    BY <1>17, Committing
  <2>5. InOneGo
    BY <1>4, <2>1
  <2>6. /\ \A d \in Callers : d # c => ~Live(d)
        /\ ~Finished /\ Before(n) /\ call[c].end = "failed" /\ routed = call[c].active
        /\ n \in routed /\ \A m \in routed : m < n => m \in Committed
    BY <2>1, <2>5 DEF InOneGo, Live
  <2>7. /\ n \notin Committed /\ n \in Nat
        /\ \A m \in Committed' : m < n + 1
        /\ \A m \in routed' : m < n + 1 => m \in Committed'
    <3> HIDE DEF n
    <3>1. n \in Nat /\ routed \subseteq Nat
      BY <1>0, <2>1 DEF TypeOK
    <3>2. \A t \in selected : t \in Nat /\ n < t
      BY <1>0, <2>1, <2>4, SelectionsLieBehind
    <3>3. n \notin Committed /\ \A m \in Committed' : m < n + 1
      <4>1. \A m \in Committed : m < n /\ m \in Nat
        BY <1>0, <2>6 DEF Before
      <4> QED BY <2>3, <3>1, <4>1
    <3>4. ASSUME NEW m \in routed', m < n + 1 PROVE m \in Committed'
      BY <2>3, <2>4, <2>6, <3>1, <3>2, <3>4
    <3> QED BY <3>1, <3>3, <3>4
  <2>8. ASSUME NEW k \in Conditions, NEW t \in Only(k) \cap routed',
               NEW u \in Only(k) \cap routed'
        PROVE  k \in Committed' /\ t = u
    <3>1. CASE t \in routed /\ u \in routed
      BY <2>3, <2>5, <3>1 DEF InOneGo
    <3>2. ASSUME NEW v \in Only(k), v \in selected PROVE k = n
      <4>1. \E i \in DOMAIN Out[n] : Out[n][i].to = v
        BY <2>1, <2>4, <3>2, SelectionsLieBehind
      <4> QED BY <2>1, <3>2, <4>1 DEF Only
    <3>3. ASSUME k = n PROVE Only(k) \cap routed = {}
      BY <2>5, <2>7, <3>3 DEF InOneGo
    <3>4. CASE t \in selected \/ u \in selected
      <4>1. k = n /\ t \in selected /\ u \in selected
        BY <2>4, <3>2, <3>3, <3>4
      <4> QED BY <2>3, <2>4, <4>1, ConditionSelectsOne
    <3> QED BY <2>4, <3>1, <3>4
  <2>9. /\ NoRoutedNodeSkipped' /\ Committed' \subseteq routed'
        /\ calls' # 0
    BY <2>1, <2>3, <2>4, <2>5, <2>6, Counted DEF InOneGo, NoRoutedNodeSkipped, Live
  <2>10. \A d \in Callers : Live(d)' => d = c
    BY <2>4, <2>6 DEF Live, Others
  <2>11. call'[c].pc \in {"end", "loop"} /\ Running(c)' /\ call'[c].active = routed'
    BY <2>4, <2>6 DEF Running, RunningAt
  <2>12. Before(call[c].at)'
    BY <2>4, <2>7 DEF Before
  <2> QED BY <2>3, <2>4, <2>6, <2>7, <2>8, <2>9, <2>10, <2>11, <2>12 DEF InOneGo
<1> QED BY Kinds, <1>1, <1>2, <1>3, <1>5, <1>7, <1>8, <1>9, <1>11, <1>12, <1>13, <1>14, <1>15,
        <1>16, <1>17 DEF RunsOn

\* A run that nobody resumed skips no node that _select_outgoing_edges routed to, unless
\* an inline gate stopped it, whatever the chain.
THEOREM NoneSkippedInOneGo == Spec => [](Unresumed => NoRoutedNodeSkipped)
<1>1. GoInv => (Unresumed => NoRoutedNodeSkipped)
  BY DEF GoInv, InOneGo
<1> QED BY TypeInit, TypeNext, TurnInit, TurnNext, GoInit, GoNext, <1>1, PTL DEF Spec

\* A condition node of such a run takes one of its branches.
THEOREM OneBranchInOneGo == Spec => [](Unresumed => BranchesExclusive)
<1>1. GoInv => (Unresumed => BranchesExclusive)
  <2> SUFFICES ASSUME InOneGo, NEW n \in Conditions,
                      NEW t \in Committed, NEW u \in Committed,
                      \E i \in DOMAIN Out[n] : Out[n][i].to = t,
                      \E i \in DOMAIN Out[n] : Out[n][i].to = u,
                      t # u,
                      ~ \E m \in Node \ {n} : \E i \in DOMAIN Out[m] : Out[m][i].to \in {t, u}
               PROVE  FALSE
    BY DEF GoInv, BranchesExclusive
  <2>1. t \in Only(n) /\ u \in Only(n)
    BY DEF Only, Committed
  <2> QED BY <2>1 DEF InOneGo
<1> QED BY TypeInit, TypeNext, TurnInit, TurnNext, GoInit, GoNext, <1>1, PTL DEF Spec

----------------------------------------------------------------------------
(* What a call carries, when calls do not overlap *)

\* One call at a time.
Alone == ~mixed /\ \A c, d \in Callers : Live(c) /\ Live(d) => c = d
AloneInv == ~Overlap => Alone

\* Nobody is in a call at first.
LEMMA AloneInit == Init => AloneInv
BY DEF Init, AloneInv, Alone, Live, Idle

\* A step of a call is one of a caller that was live, and touches no other.
LEMMA CallSteps ==
    ASSUME TypeOK, NEW c \in Callers,
           \/ ReadLatest(c) \/ ReadHistory(c) \/ Claim(c) \/ Continue(c)
           \/ Pause(c) \/ Commit(c) \/ MarkEnd(c) \/ RunsOn(c) \/ Leaves(c)
    PROVE  Live(c) /\ Others(c) /\ UNCHANGED mixed
<1>1. CASE ReadLatest(c)
  BY <1>1 DEF ReadLatest, Live, store, history, Return, Move, Others, TypeOK
<1>2. CASE ReadHistory(c)
  BY <1>2 DEF ReadHistory, Live, store, history, Return, Others, TypeOK
<1>3. CASE Claim(c)
  <2>1. Return(c) \/ EnterRun(c, pending.node, pending.ticket)
    BY <1>3 DEF Claim
  <2> QED BY <1>3, <2>1, Returning, Entering DEF Claim, Live, history, Returned
<1>4. CASE Continue(c)
  BY <1>4, Entering DEF Continue, Live, store, history
<1>5. CASE Pause(c) \/ MarkEnd(c)
  BY <1>5, Returning DEF Pause, MarkEnd, Live, Returned
<1>6. CASE Commit(c)
  BY <1>6, Committing DEF Commit, Live
<1>7. CASE RunsOn(c)
  BY <1>7, RunningOn DEF Live, Running, RunningAt, InNodeAt, RowsStay
<1>8. CASE Leaves(c)
  BY <1>8, Leaving DEF Returned, RowsStay
<1> QED BY <1>1, <1>2, <1>3, <1>4, <1>5, <1>6, <1>7, <1>8

\* A call begins only when no other is live.
LEMMA AloneNext == TypeOK /\ AloneInv /\ [Next]_vars => AloneInv'
<1> SUFFICES ASSUME TypeOK, Alone, ~Overlap, [Next]_vars PROVE Alone'
  BY DEF AloneInv
<1>1. CASE UNCHANGED vars
  BY <1>1 DEF vars, store, history, Alone, Live
<1>2. ASSUME NEW c \in Callers, Execute(c) \/ \E answer \in BOOLEAN : Resume(c, answer)
      PROVE  Alone'
  <2>1. Others(c)
    BY <1>2, Starting
  <2>2. (\A d \in Callers : ~Live(d)) /\ ~mixed'
    BY <1>2 DEF Execute, Resume, BeginCall, Joins, Alone
  <2> QED BY <2>1, <2>2 DEF Alone, Others, Live
<1>3. ASSUME NEW c \in Callers, Live(c), Others(c), UNCHANGED mixed
      PROVE  Alone'
  BY <1>3 DEF Alone, Others, Live
<1> QED BY Kinds, <1>1, <1>2, <1>3, CallSteps

\* With calls one at a time, Chain.resume runs a node that has its checkpoint again only
\* after the last node of the chain got one.
THEOREM AloneRerunsOnlyAfterLastNode == ~Overlap => (Spec => []RerunOnlyAfterLastNode)
<1> SUFFICES ASSUME ~Overlap PROVE Spec => []RerunOnlyAfterLastNode
  OBVIOUS
<1>1. AloneInv => ~mixed
  BY DEF AloneInv, Alone
<1>2. Spec => [](~mixed => RerunOnlyAfterLastNode)
  BY RerunsOnlyAfterLastNode
<1> QED BY TypeInit, TypeNext, AloneInit, AloneNext, <1>1, <1>2, PTL DEF Spec

\* Every state there is, in a call, in the newest row or in the row a resume would find,
\* holds the output of every node that has a checkpoint.
Saved ==
    /\ \A c \in Callers : /\ Running(c) => call[c].state = Committed
                          /\ call[c].pc = "claim" => call[c].seen.snap = Committed
    /\ log # <<>> /\ log[Len(log)].node # RunEnd => log[Len(log)].snap = Committed
    /\ \A i \in LastStep(log) : log[i].snap = Committed
    /\ NoOutputLost

\* The row a resume would find after a row was appended is the new one or the same.
LEMMA LastStepMoves ==
    ASSUME TypeOK, NEW row \in Row, log' = Append(log, row), NEW i \in LastStep(log)'
    PROVE  /\ i = Len(log) + 1 /\ log'[i] = row /\ row.node # RunEnd
           \/ /\ i \in LastStep(log) /\ log'[i] = log[i]
              /\ row.node # RunEnd => row.node < log[i].node
<1> DEFINE k == Len(log) + 1
<1>1. /\ DOMAIN log' = DOMAIN log \cup {k} /\ log'[k] = row
      /\ \A j \in DOMAIN log : j < k /\ log'[j] = log[j]
  BY Appending
<1>2. k \in Nat /\ \A j \in DOMAIN log : j \in Nat
  BY DEF TypeOK
<1>3. /\ i \in DOMAIN log' /\ log'[i].node # RunEnd
      /\ \A j \in DOMAIN log' : log'[j].node # RunEnd =>
           \/ log'[j].node < log'[i].node
           \/ log'[j].node = log'[i].node /\ j <= i
  BY DEF LastStep, Steps
<1> HIDE DEF k
<1>4. CASE i = k
  BY <1>1, <1>3, <1>4 DEF k
<1>5. CASE i # k
  <2>1. i \in DOMAIN log /\ log'[i] = log[i] /\ i < k
    BY <1>1, <1>3, <1>5
  <2>2. i \in LastStep(log)
    BY <1>1, <1>3, <2>1 DEF LastStep, Steps
  <2>3. row.node # RunEnd => row.node < log[i].node
    BY <1>1, <1>2, <1>3, <2>1
  <2> QED BY <2>1, <2>2, <2>3
<1> QED BY <1>4, <1>5

\* A step keeps every output, if a node that runs again after the last one had its output
\* in the state already.
LEMMA SavedNext ==
    ASSUME TypeOK, TurnInv, FinishInv, AheadInv, Alone, Saved, [Next]_vars,
           \A c \in Callers : Commit(c) /\ Last \in Committed => call[c].at \in Committed
    PROVE  Saved'
<1>1. CASE UNCHANGED vars
  BY <1>1 DEF vars, store, history, Saved, Running, Committed, LastStep, Steps, NoOutputLost
<1>2. ASSUME NEW c \in Callers, Others(c), UNCHANGED log,
             call'[c].pc \in RunningAt => call'[c].state = Committed,
             call'[c].pc = "claim" => call'[c].seen.snap = Committed
      PROVE  Saved'
  <2>1. Committed' = Committed /\ LastStep(log)' = LastStep(log)
    BY <1>2 DEF Committed, LastStep, Steps
  <2> QED BY <1>2, <2>1 DEF Saved, Running, Others, NoOutputLost
<1>3. ASSUME NEW c \in Callers, Execute(c)
      PROVE  Saved'
  <2>1. log = <<>> /\ UNCHANGED log
    BY <1>3 DEF Execute, TurnInv, Untouched, store
  <2>2. Committed = {}
    BY <2>1 DEF Committed
  <2> QED BY <1>2, <1>3, <2>1, <2>2, Starting
<1>4. ASSUME NEW c \in Callers, NEW answer \in BOOLEAN, Resume(c, answer)
      PROVE  Saved'
  <2>1. Others(c) /\ call'[c].pc = "latest" /\ UNCHANGED log
    BY <1>4, Starting DEF Resume, store
  <2> QED BY <1>2, <2>1 DEF RunningAt, InNodeAt
<1>5. ASSUME NEW c \in Callers, Returned(c), UNCHANGED log
      PROVE  Saved'
  BY <1>2, <1>5 DEF Returned, Idle, RunningAt, InNodeAt
<1>6. ASSUME NEW c \in Callers, ReadLatest(c)
      PROVE  Saved'
  <2>1. UNCHANGED log
    BY <1>6 DEF ReadLatest, store
  <2>2. CASE /\ log # <<>> /\ log[Len(log)].node # RunEnd
             /\ call' = [call EXCEPT ![c] = [@ EXCEPT !.seen = log[Len(log)], !.pc = "claim"]]
    <3>1. Others(c) /\ call'[c].pc = "claim" /\ call'[c].seen = log[Len(log)]
      BY <2>2, Seeing
    <3>2. log[Len(log)].snap = Committed
      BY <2>2 DEF Saved
    <3> QED BY <1>2, <2>1, <3>1, <3>2 DEF RunningAt, InNodeAt
  <2>3. CASE Move(c, "history")
    <3>1. Others(c) /\ call'[c].pc = "history"
      BY <2>3, Moving
    <3> QED BY <1>2, <2>1, <3>1 DEF RunningAt, InNodeAt
  <2> QED BY <1>5, <1>6, <2>1, <2>2, <2>3, Returning DEF ReadLatest
<1>7. ASSUME NEW c \in Callers, ReadHistory(c)
      PROVE  Saved'
  <2>1. UNCHANGED log
    BY <1>7 DEF ReadHistory, store
  <2>2. ASSUME NEW i \in LastStep(log),
               call' = [call EXCEPT ![c] = [@ EXCEPT !.seen = log[i], !.pc = "claim"]]
        PROVE  Saved'
    <3>1. Others(c) /\ call'[c].pc = "claim" /\ call'[c].seen = log[i]
      BY <2>2, Seeing
    <3>2. log[i].snap = Committed
      BY DEF Saved
    <3> QED BY <1>2, <2>1, <3>1, <3>2 DEF RunningAt, InNodeAt
  <2> QED BY <1>5, <1>7, <2>1, <2>2, Returning DEF ReadHistory
<1>8. ASSUME NEW c \in Callers, Claim(c) \/ Continue(c)
      PROVE  Saved'
  <2>1. UNCHANGED log /\ call[c].pc = "claim"
    BY <1>8 DEF Claim, Continue, store
  <2>2. call[c].seen.snap = Committed
    BY <2>1 DEF Saved
  <2>3. ASSUME NEW start, NEW ticket, EnterRun(c, start, ticket)
        PROVE  Saved'
    <3>1. Others(c) /\ call'[c].pc = "loop" /\ call'[c].state = call[c].seen.snap
      BY <2>3, Entering
    <3> QED BY <1>2, <2>1, <2>2, <3>1
  <2> QED BY <1>5, <1>8, <2>1, <2>3, Returning DEF Claim, Continue
<1>9. ASSUME NEW c \in Callers, Pause(c) \/ Commit(c) \/ MarkEnd(c)
      PROVE  /\ Running(c) /\ call[c].state = Committed
             /\ \A d \in Callers : d # c => ~Live(d)
  <2>1. Running(c)
    BY <1>9 DEF Pause, Commit, MarkEnd, Running, RunningAt, InNodeAt
  <2> QED BY <2>1 DEF Alone, Saved, Live, Running, RunningAt, InNodeAt
<1>10. ASSUME NEW c \in Callers, Pause(c)
       PROVE  Saved'
  <2>1. PICK row \in Row : /\ log' = Append(log, row) /\ row.status = "interrupted"
                           /\ row.snap = call[c].state
    BY <1>10, RowsOfSteps
  <2>2. Committed' = Committed /\ Lasts(row)
    BY <2>1, Appending
  <2>3. \A d \in Callers : ~Live(d)'
    <3>1. Returned(c)
      BY <1>10, Returning DEF Pause
    <3> QED BY <1>9, <1>10, <3>1 DEF Returned, Others, Live, Idle
  <2>4. \A i \in LastStep(log)' : log'[i].snap = Committed
    BY <1>9, <1>10, <2>1, LastStepMoves, ZenonT(30) DEF Saved
  <2>5. NoOutputLost'
    BY <2>1, <2>2, Appending DEF Saved, NoOutputLost
  <2> QED BY <1>9, <1>10, <2>1, <2>2, <2>3, <2>4, <2>5 DEF Saved, Live, Running, RunningAt,
          InNodeAt, Lasts
<1>11. ASSUME NEW c \in Callers, MarkEnd(c)
       PROVE  Saved'
  <2>1. PICK row \in Row : /\ log' = Append(log, row) /\ row.node = RunEnd
                           /\ row.status = "completed" => row.snap = call[c].state
    BY <1>11, RowsOfSteps
  <2>2. \A n \in Node : row.node # n
    BY <2>1 DEF Node, RunEnd
  <2>3. Committed' = Committed /\ Lasts(row)
    BY <2>1, <2>2, Appending
  <2>4. \A d \in Callers : ~Live(d)'
    <3>1. Returned(c)
      BY <1>11, Returning DEF MarkEnd
    <3> QED BY <1>9, <1>11, <3>1 DEF Returned, Others, Live, Idle
  <2>5. \A i \in LastStep(log)' : log'[i].snap = Committed
    BY <2>1, LastStepMoves DEF Saved
  <2>6. NoOutputLost'
    BY <1>9, <1>11, <2>1, <2>3, Appending DEF Saved, NoOutputLost
  <2> QED BY <2>1, <2>3, <2>4, <2>5, <2>6 DEF Saved, Live, Running, RunningAt, InNodeAt, Lasts
<1>12. ASSUME NEW c \in Callers, Commit(c)
       PROVE  Saved'
  <2> DEFINE n == call[c].at
  <2>1. n \in Node /\ InNode(c) /\ Running(c) /\ ~mixed
    BY <1>9, <1>12 DEF Commit, TypeOK, Calls, InNode, InNodeAt, Alone
  <2>2. PICK row \in Row : /\ log' = Append(log, row) /\ row.status = "completed"
                           /\ row.node = n /\ row.snap = call[c].state \cup {n}
    BY <1>12, RowsOfSteps
  <2>3. Committed' = Committed \cup {n} /\ Lasts(row)
    BY <2>1, <2>2, Appending
  <2>4. row.snap = Committed'
    BY <1>9, <1>12, <2>2, <2>3
  <2>5. ASSUME NEW i \in LastStep(log)' PROVE log'[i].snap = Committed'
    <3>1. CASE log'[i] = row
      BY <2>4, <3>1
    <3>2. CASE /\ i \in LastStep(log) /\ log'[i] = log[i]
               /\ row.node # RunEnd => row.node < log[i].node
      <4>1. n < log[i].node /\ i \in DOMAIN log /\ log[i].node \in Nat /\ n \in Nat
        BY <2>1, <2>2, <3>2, RowsHaveNodes, Placed DEF LastStep, Steps, Node, RunEnd
      <4>2. Last \in Committed
        <5>1. Last \notin Committed => UpTo(n)
          BY <2>1 DEF AheadInv, Ahead
        <5> QED BY <4>1, <5>1 DEF UpTo
      <4>3. Committed' = Committed
        BY <1>12, <2>3, <4>2
      <4> QED BY <3>2, <4>3 DEF Saved
    <3> QED BY <2>2, <3>1, <3>2, LastStepMoves
  <2>6. NoOutputLost'
    <3>1. ~Finished
      BY <2>1 DEF FinishInv, Over
    <3>2. ~Finished'
      BY <2>1, <2>2, <3>1, Appending DEF Node, RunEnd
    <3> QED BY <3>2 DEF NoOutputLost, Finished
  <2>7. Others(c) /\ call'[c].pc \in {"end", "loop"} /\ call'[c].state = call[c].state \cup {n}
    BY <1>12, Committing
  <2>8. call'[c].state = Committed' /\ \A d \in Callers : Live(d)' => d = c
    BY <1>9, <1>12, <2>3, <2>7 DEF Others, Live
  <2> QED BY <2>2, <2>3, <2>4, <2>5, <2>6, <2>7, <2>8 DEF Saved, Live, Running, RunningAt,
          InNodeAt, Lasts
<1>13. ASSUME NEW c \in Callers, RunsOn(c)
       PROVE  Saved'
  <2>1. Others(c) /\ Running(c) /\ call'[c].pc \in RunningAt /\ UNCHANGED log
    BY <1>13, RunningOn DEF RowsStay
  <2>2. call'[c].state = call[c].state
    <3>1. EnterNode(c) => call'[c].state = call[c].state
      BY Reaching
    <3>2. \A pc : Move(c, pc) => call'[c].state = call[c].state
      BY Moving DEF SameRun
    <3>3. Reject(c) \/ Complete(c) \/ Fail(c) => call'[c].state = call[c].state
      BY Ending DEF SameRun, Reject, Complete, Fail
    <3> QED BY <1>13, <3>1, <3>2, <3>3
            DEF RunsOn, LookUp, RunBody, SaveResult, PauseConflict, NoHandler
  <2>3. call[c].state = Committed
    BY <2>1 DEF Saved
  <2> QED BY <1>2, <2>1, <2>2, <2>3 DEF RunningAt, InNodeAt
<1>14. ASSUME NEW c \in Callers, Leaves(c)
       PROVE  Saved'
  BY <1>5, <1>14, Leaving DEF RowsStay
<1> QED BY Kinds, <1>1, <1>3, <1>4, <1>6, <1>7, <1>8, <1>10, <1>11, <1>12, <1>13, <1>14

\* Some node finished twice.
Repeated ==
    \E i, j \in DOMAIN log :
      /\ i # j /\ log[i].node = log[j].node /\ log[i].node # RunEnd
      /\ log[i].status = "completed" /\ log[j].status = "completed"

\* The first node is the first to finish.
FromTheTop ==
    /\ Committed # {} => 1 \in Committed
    /\ \A c \in Callers : /\ call[c].pc = "loop" => 1 \in Committed \/ 1 \in Due(c)
                          /\ InNode(c) => 1 \in Committed \/ call[c].at = 1
    /\ pending # NoPending => 1 \in Committed \/ pending.node = 1

\* Once the last node has finished, a call has nothing left to run, or runs the first
\* node again; nobody finished it yet.
AtTheTop ==
    /\ \A c \in Callers : /\ call[c].pc = "loop" => Due(c) = {} \/ 1 \in Due(c)
                          /\ InNode(c) => call[c].at = 1
                          /\ call[c].pc = "claim" /\ Unasked(c) => call[c].seen.node = Last
    /\ pending # NoPending => pending.node = 1
    /\ log # <<>> => log[Len(log)].node \in {RunEnd, Last} \/ log[Len(log)].status = "interrupted"

Once == Saved /\ FromTheTop /\ (Last \in Committed => AtTheTop)
OnceInv == ~Overlap /\ ~Repeated => Once

\* Nothing has finished at first.
LEMMA OnceInit == Init => OnceInv
BY DEF Init, OnceInv, Once, Saved, FromTheTop, AtTheTop, Running, RunningAt, InNodeAt, InNode,
       Idle, Committed, LastStep, Steps, NoOutputLost, Unasked

\* The first node in topological order is an entry node.
LEMMA FirstIsAnEntry == 1 \in Node /\ 1 \in Entries /\ Last \in Node
<1>1. 1 \in Node /\ Last \in Node
  BY ChainAssumption DEF Node
<1>2. \A m \in Node : \A i \in DOMAIN Out[m] : Out[m][i].to # 1
  BY ChainAssumption, EdgesLeadToNodes DEF Node
<1> QED BY <1>1, <1>2 DEF Entries

\* A log with a repeated row keeps it, and a row of a node that finished before is one.
LEMMA RepeatsStay ==
    ASSUME TypeOK, NEW row \in Row, log' = Append(log, row)
    PROVE  /\ Repeated => Repeated'
           /\ row.status = "completed" /\ row.node \in Committed => Repeated'
<1> DEFINE k == Len(log) + 1
<1>1. /\ DOMAIN log' = DOMAIN log \cup {k} /\ log'[k] = row
      /\ \A j \in DOMAIN log : j # k /\ log'[j] = log[j]
  BY Appending
<1> HIDE DEF k
<1>2. Repeated => Repeated'
  BY <1>1 DEF Repeated
<1>3. ASSUME row.status = "completed", row.node \in Committed PROVE Repeated'
  <2>1. PICK j \in DOMAIN log : log[j].node = row.node /\ log[j].status = "completed"
    BY <1>3 DEF Committed
  <2>2. row.node # RunEnd
    BY <1>3 DEF Committed, Node, RunEnd
  <2> QED BY <1>1, <1>3, <2>1, <2>2 DEF Repeated
<1> QED BY <1>2, <1>3

\* What the next lemma says of the calls and of the newest row; the caller that moved is
\* the only one that may have to be looked at.
LEMMA OnceStays ==
    ASSUME TypeOK, Once, NEW c \in Callers, Others(c), UNCHANGED <<log, pending>>,
           call'[c].pc = "loop" =>
             1 \in Committed \/ 1 \in {n \in call'[c].active : n >= call'[c].at},
           call'[c].pc \in InNodeAt => 1 \in Committed \/ call'[c].at = 1,
           Last \in Committed =>
             /\ call'[c].pc = "loop" =>
                  \/ {n \in call'[c].active : n >= call'[c].at} = {}
                  \/ 1 \in {n \in call'[c].active : n >= call'[c].at}
             /\ call'[c].pc \in InNodeAt => call'[c].at = 1
             /\ call'[c].pc = "claim" /\ ~call'[c].answer
                  /\ call'[c].seen.status # "interrupted" => call'[c].seen.node = Last
    PROVE  FromTheTop' /\ (Last \in Committed' => AtTheTop')
<1>1. Committed' = Committed
  BY DEF Committed
<1>2. \A d \in Callers : d # c => Due(d)' = Due(d)
  BY DEF Due, Others
<1>3. Due(c)' = {n \in call'[c].active : n >= call'[c].at}
  BY DEF Due
<1>4. FromTheTop'
  BY <1>1, <1>2, <1>3 DEF Once, FromTheTop, InNode, Others
<1>5. ASSUME Last \in Committed PROVE AtTheTop'
  BY <1>2, <1>3, <1>5 DEF Once, AtTheTop, InNode, Unasked, Others
<1> QED BY <1>1, <1>4, <1>5

\* A step writes a second row for a node, or keeps every output and the order.
LEMMA OnceNext ==
    TypeOK /\ TurnInv /\ FinishInv /\ AheadInv /\ AloneInv /\ OnceInv /\ [Next]_vars => OnceInv'
<1> SUFFICES ASSUME TypeOK, TurnInv, FinishInv, AheadInv, Alone, ~Overlap, OnceInv,
                    [Next]_vars, ~Repeated'
             PROVE  Once'
  BY DEF OnceInv, AloneInv
<1>1. ~Repeated
  <2>1. CASE UNCHANGED log
    BY <2>1 DEF Repeated
  <2>2. ASSUME NEW c \in Callers, Pause(c) \/ Commit(c) \/ MarkEnd(c) PROVE ~Repeated
    <3>1. \E row \in Row : log' = Append(log, row)
      BY <2>2, RowsOfSteps
    <3> QED BY <3>1, RepeatsStay
  <2>3. ASSUME NEW c \in Callers,
               \/ Execute(c) \/ (\E answer \in BOOLEAN : Resume(c, answer))
               \/ ReadLatest(c) \/ ReadHistory(c) \/ Claim(c) \/ Continue(c)
               \/ RunsOn(c) \/ Leaves(c)
        PROVE  UNCHANGED log
    BY <2>3, RunningOn, Leaving DEF Execute, Resume, ReadLatest, ReadHistory, Claim, Continue,
       RowsStay, store, history
  <2> QED BY Kinds, <2>1, <2>2, <2>3 DEF vars, store
<1>2. Once
  BY <1>1 DEF OnceInv
<1>3. ASSUME NEW c \in Callers, Commit(c), Last \in Committed
      PROVE  FALSE
  <2>1. InNode(c)
    BY <1>3 DEF Commit, InNode, InNodeAt
  <2>2. call[c].at \in Committed
    BY <1>2, <1>3, <2>1 DEF Once, FromTheTop, AtTheTop
  <2>3. PICK row \in Row : /\ log' = Append(log, row) /\ row.status = "completed"
                           /\ row.node = call[c].at
    BY <1>3, RowsOfSteps
  <2> QED BY <2>2, <2>3, RepeatsStay
<1>4. Saved'
  BY <1>2, <1>3, SavedNext DEF Once
<1>5. (FromTheTop' /\ (Last \in Committed' => AtTheTop')) => Once'
  BY <1>4 DEF Once
<1>6. CASE UNCHANGED vars
  BY <1>2, <1>6 DEF vars, store, history, Once, Saved, FromTheTop, AtTheTop, Running, Committed,
     LastStep, Steps, NoOutputLost, Due, InNode, Unasked
<1>7. ASSUME NEW c \in Callers, Others(c), UNCHANGED <<log, pending>>,
             call'[c].pc \notin {"loop", "claim"} \cup InNodeAt
      PROVE  Once'
  BY <1>2, <1>5, <1>7, OnceStays
<1>8. ASSUME NEW c \in Callers, Execute(c)
      PROVE  Once'
  <2>1. log = <<>> /\ UNCHANGED <<log, pending>>
    BY <1>8 DEF Execute, TurnInv, Untouched, store
  <2>2. Others(c) /\ call'[c].pc = "loop" /\ call'[c].at = 1 /\ call'[c].active = Entries
    BY <1>8, Starting
  <2>3. 1 \in {n \in call'[c].active : n >= call'[c].at}
    BY <2>2, FirstIsAnEntry
  <2> QED BY <1>2, <1>5, <2>1, <2>2, <2>3, OnceStays DEF InNodeAt
<1>9. ASSUME NEW c \in Callers, NEW answer \in BOOLEAN, Resume(c, answer)
      PROVE  Once'
  <2>1. Others(c) /\ call'[c].pc = "latest" /\ UNCHANGED <<log, pending>>
    BY <1>9, Starting DEF Resume, store
  <2> QED BY <1>7, <2>1 DEF InNodeAt
<1>10. ASSUME NEW c \in Callers, Return(c), UNCHANGED <<log, pending>>
      PROVE  Once'
  BY <1>7, <1>10, Returning DEF Returned, Idle, InNodeAt
<1>11. ASSUME NEW c \in Callers, NEW row, UNCHANGED <<log, pending>>,
              Last \in Committed /\ row.status # "interrupted" => row.node = Last,
              call' = [call EXCEPT ![c] = [@ EXCEPT !.seen = row, !.pc = "claim"]]
      PROVE  Once'
  <2>1. Others(c) /\ call'[c].pc = "claim" /\ call'[c].seen = row
    BY <1>11, Seeing
  <2> QED BY <1>2, <1>5, <1>11, <2>1, OnceStays DEF InNodeAt
<1>12. ASSUME NEW c \in Callers, ReadLatest(c)
      PROVE  Once'
  <2>1. UNCHANGED <<log, pending>>
    BY <1>12 DEF ReadLatest, store
  <2>2. CASE /\ log # <<>> /\ log[Len(log)].node # RunEnd
             /\ call' = [call EXCEPT ![c] = [@ EXCEPT !.seen = log[Len(log)], !.pc = "claim"]]
    <3>1. Last \in Committed /\ log[Len(log)].status # "interrupted" => log[Len(log)].node = Last
      BY <1>2, <2>2 DEF Once, AtTheTop
    <3> QED BY <1>11, <2>1, <2>2, <3>1
  <2>3. CASE Move(c, "history")
    <3>1. Others(c) /\ call'[c].pc = "history"
      BY <2>3, Moving
    <3> QED BY <1>7, <2>1, <3>1 DEF InNodeAt
  <2> QED BY <1>10, <1>12, <2>1, <2>2, <2>3 DEF ReadLatest
<1>13. ASSUME NEW c \in Callers, ReadHistory(c)
      PROVE  Once'
  <2>1. UNCHANGED <<log, pending>>
    BY <1>13 DEF ReadHistory, store
  <2>2. ASSUME NEW i \in LastStep(log), Last \in Committed PROVE log[i].node = Last
    <3>1. PICK j \in DOMAIN log : log[j].node = Last
      BY <2>2 DEF Committed
    <3>2. j \in Steps(log)
      BY <3>1, FirstIsAnEntry DEF Steps, Node, RunEnd
    <3>3. Last < log[i].node \/ log[i].node = Last
      BY <3>1, <3>2 DEF LastStep
    <3>4. log[i].node \in Node
      BY RowsHaveNodes DEF LastStep, Steps
    <3> QED BY <3>3, <3>4, ChainAssumption DEF Node
  <2> QED BY <1>10, <1>11, <1>13, <2>1, <2>2 DEF ReadHistory
<1>14. ASSUME NEW c \in Callers, NEW start \in {0} \cup Node, NEW ticket,
              EnterRun(c, start, ticket),
              UNCHANGED log, pending' \in {pending, NoPending},
              start \in {0, 1} \/ 1 \in Committed, Last \in Committed => start \in {0, 1}
      PROVE  Once'
  <2>1. /\ Others(c) /\ call'[c].pc = "loop" /\ call'[c].at = IF start = 0 THEN 1 ELSE start
        /\ call'[c].active = IF start = 0 THEN Entries ELSE {start}
    BY <1>14, Entering
  <2>2. start \in {0, 1} => 1 \in {n \in call'[c].active : n >= call'[c].at}
    BY <2>1, FirstIsAnEntry
  <2>3. Committed' = Committed
    BY <1>14 DEF Committed
  <2>4. \A d \in Callers : d # c => Due(d)' = Due(d)
    BY <2>1 DEF Due, Others
  <2>5. Due(c)' = {n \in call'[c].active : n >= call'[c].at}
    BY DEF Due
  <2>6. FromTheTop'
    BY <1>2, <1>14, <2>1, <2>2, <2>3, <2>4, <2>5 DEF Once, FromTheTop, InNode, InNodeAt, Others
  <2>7. ASSUME Last \in Committed PROVE AtTheTop'
    BY <1>2, <1>14, <2>1, <2>2, <2>4, <2>5, <2>7
       DEF Once, AtTheTop, InNode, InNodeAt, Unasked, Others
  <2> QED BY <1>5, <2>3, <2>6, <2>7
<1>15. ASSUME NEW c \in Callers, Claim(c)
      PROVE  Once'
  <2>1. CASE pending = NoPending
    BY <1>10, <1>15, <2>1 DEF Claim
  <2>2. CASE pending # NoPending
    <3>1. /\ EnterRun(c, pending.node, pending.ticket) /\ pending' = NoPending
          /\ UNCHANGED log /\ pending.node \in Node
      BY <1>15, <2>2 DEF Claim, TypeOK
    <3>2. /\ pending.node = 1 \/ 1 \in Committed
          /\ Last \in Committed => pending.node = 1
      BY <1>2, <2>2 DEF Once, FromTheTop, AtTheTop
    <3> QED BY <1>14, <3>1, <3>2
  <2> QED BY <2>1, <2>2
<1>16. ASSUME NEW c \in Callers, Continue(c)
      PROVE  Once'
  <2> DEFINE start == IF call[c].seen.node < Last THEN call[c].seen.node + 1 ELSE 0
  <2>1. /\ call[c].pc = "claim" /\ Unasked(c) /\ UNCHANGED <<log, pending>>
        /\ EnterRun(c, start, 0)
    BY <1>16 DEF Continue, Unasked, store
  <2>2. call[c].seen.node \in 0..Last /\ Last \in Nat
    BY ChainAssumption DEF TypeOK, Calls, Locals, Row, Node, RunEnd
  <2>3. start \in {0} \cup Node
    BY <2>2 DEF Node
  <2>4. Last \in Committed => start = 0
    BY <1>2, <2>1, <2>2 DEF Once, AtTheTop
  <2>5. Committed # {}
    BY <2>1 DEF AheadInv, Ahead, Alone
  <2>6. 1 \in Committed
    BY <1>2, <2>5 DEF Once, FromTheTop
  <2> HIDE DEF start
  <2> QED BY <1>14, <2>1, <2>3, <2>4, <2>6
<1>17. ASSUME NEW c \in Callers, Pause(c) \/ Commit(c) \/ MarkEnd(c)
       PROVE  \A d \in Callers : d # c => call'[d] = call[d] /\ ~Live(d) /\ ~Live(d)'
  <2>1. Live(c) /\ Others(c)
    BY <1>17, CallSteps
  <2> QED BY <2>1 DEF Alone, Others, Live
<1>18. ASSUME NEW c \in Callers, Pause(c)
       PROVE  Once'
  <2>1. PICK row \in Row : log' = Append(log, row) /\ row.status = "interrupted"
    BY <1>18, RowsOfSteps
  <2>2. Committed' = Committed /\ Lasts(row)
    BY <2>1, Appending
  <2>3. pending'.node = call[c].at /\ InNode(c) /\ Return(c)
    BY <1>18 DEF Pause, InNode, InNodeAt
  <2>4. call'[c].pc = "idle"
    BY <2>3, Returning DEF Returned, Idle
  <2>5. \A d \in Callers : call'[d].pc = "idle"
    BY <1>17, <1>18, <2>4 DEF Live
  <2>6. FromTheTop'
    BY <1>2, <2>2, <2>3, <2>5 DEF Once, FromTheTop, InNode, InNodeAt
  <2>7. ASSUME Last \in Committed PROVE AtTheTop'
    BY <1>2, <2>1, <2>2, <2>3, <2>5, <2>7 DEF Once, AtTheTop, InNode, InNodeAt, Lasts
  <2> QED BY <1>5, <2>2, <2>6, <2>7
<1>19. ASSUME NEW c \in Callers, MarkEnd(c)
       PROVE  Once'
  <2>1. PICK row \in Row : log' = Append(log, row) /\ row.node = RunEnd
    BY <1>19, RowsOfSteps
  <2>2. \A n \in Node : row.node # n
    BY <2>1 DEF Node, RunEnd
  <2>3. Committed' = Committed /\ Lasts(row) /\ UNCHANGED pending /\ Return(c)
    BY <1>19, <2>1, <2>2, Appending DEF MarkEnd
  <2>4. call'[c].pc = "idle"
    BY <2>3, Returning DEF Returned, Idle
  <2>5. \A d \in Callers : call'[d].pc = "idle"
    BY <1>17, <1>19, <2>4 DEF Live
  <2>6. FromTheTop'
    BY <1>2, <2>3, <2>5 DEF Once, FromTheTop, InNode, InNodeAt
  <2>7. ASSUME Last \in Committed PROVE AtTheTop'
    BY <1>2, <2>1, <2>3, <2>5, <2>7 DEF Once, AtTheTop, InNode, InNodeAt, Lasts
  <2> QED BY <1>5, <2>3, <2>6, <2>7
<1>20. ASSUME NEW c \in Callers, Commit(c)
       PROVE  Once'
  <2> DEFINE n == call[c].at
  <2>1. n \in Node /\ InNode(c) /\ Running(c) /\ UNCHANGED pending
    BY <1>20 DEF Commit, TypeOK, Calls, InNode, InNodeAt, Running, RunningAt
  <2>2. PICK row \in Row : /\ log' = Append(log, row) /\ row.status = "completed"
                           /\ row.node = n
    BY <1>20, RowsOfSteps
  <2>3. Committed' = Committed \cup {n} /\ Lasts(row)
    BY <2>1, <2>2, Appending
  <2>4. pending = NoPending
    BY <2>1 DEF TurnInv, TakingTurns, Alone
  <2>5. 1 \in Committed'
    BY <1>2, <2>1, <2>3 DEF Once, FromTheTop
  <2>6. Last \notin Committed
    BY <1>3, <1>20
  <2>7. call'[c].pc \in {"end", "loop"} /\ call'[c].at = n + 1
    BY <1>20, Committing
  <2>8. \A d \in Callers : d # c => call'[d].pc = "idle"
    BY <1>17, <1>20 DEF Live
  <2>9. FromTheTop'
    BY <2>1, <2>4, <2>5 DEF FromTheTop
  <2>10. ASSUME Last \in Committed' PROVE AtTheTop'
    <3>1. n = Last
      BY <2>3, <2>6, <2>10
    <3>2. Due(c)' = {}
      <4>1. call'[c].active \subseteq Node
        BY TypeNext DEF TypeOK, Calls, Locals
      <4> QED BY <2>7, <3>1, <4>1, ChainAssumption DEF Due, Node
    <3> QED BY <2>1, <2>2, <2>3, <2>4, <2>7, <2>8, <3>1, <3>2
            DEF AtTheTop, InNode, InNodeAt, Lasts
  <2> QED BY <1>5, <2>9, <2>10
<1>21. ASSUME NEW c \in Callers, EnterNode(c)
       PROVE  Once'
  <2>1. UNCHANGED <<log, pending>> /\ call[c].pc = "loop"
    BY <1>21 DEF EnterNode, store
  <2>2. Others(c) /\ call'[c].pc \in {"lookup", "node"} /\ call'[c].at \in Firsts(Due(c))
    BY <1>21, Reaching
  <2>3. 1 \in Due(c) => call'[c].at = 1
    <3>1. Due(c) \subseteq Node
      BY Placed DEF Due
    <3> QED BY <2>2, <3>1, ChainAssumption DEF Firsts, Node
  <2>4. 1 \in Committed \/ call'[c].at = 1
    BY <1>2, <2>1, <2>3 DEF Once, FromTheTop
  <2>5. Last \in Committed => call'[c].at = 1
    BY <1>2, <2>1, <2>2, <2>3 DEF Once, AtTheTop, Firsts
  <2> QED BY <1>2, <1>5, <2>1, <2>2, <2>4, <2>5, OnceStays
<1>22. ASSUME NEW c \in Callers, LookUp(c) \/ RunBody(c) \/ SaveResult(c)
       PROVE  Once'
  <2>1. UNCHANGED <<log, pending>> /\ InNode(c)
    BY <1>22 DEF LookUp, RunBody, SaveResult, store, history, InNode, InNodeAt
  <2>2. Others(c) /\ call'[c].pc \notin {"claim", "loop"} /\ call'[c].at = call[c].at
    BY <1>22, Moving DEF LookUp, RunBody, SaveResult, SameRun
  <2>3. /\ 1 \in Committed \/ call[c].at = 1
        /\ Last \in Committed => call[c].at = 1
    BY <1>2, <2>1 DEF Once, FromTheTop, AtTheTop
  <2> QED BY <1>2, <1>5, <2>1, <2>2, <2>3, OnceStays
<1>23. ASSUME NEW c \in Callers, PauseConflict(c) \/ Reject(c) \/ NoHandler(c)
                                 \/ Complete(c) \/ Fail(c)
       PROVE  Once'
  <2>1. Others(c) /\ RowsStay
    BY <1>23, RunningOn DEF RunsOn
  <2>2. call'[c].pc = "end"
    <3>1. PauseConflict(c) \/ NoHandler(c) => call'[c].pc = "end"
      BY Moving DEF PauseConflict, NoHandler
    <3>2. Reject(c) \/ Complete(c) \/ Fail(c) => call'[c].pc = "end"
      BY Ending DEF Reject, Complete, Fail
    <3> QED BY <1>23, <3>1, <3>2
  <2> QED BY <1>7, <2>1, <2>2 DEF RowsStay, InNodeAt
<1>24. ASSUME NEW c \in Callers, Leaves(c)
       PROVE  Once'
  BY <1>7, <1>24, Leaving DEF RowsStay, Returned, Idle, InNodeAt
<1> QED BY Kinds, <1>6, <1>8, <1>9, <1>12, <1>13, <1>15, <1>16, <1>18, <1>19, <1>20, <1>21,
        <1>22, <1>23, <1>24 DEF RunsOn

\* With calls one at a time, resume_from_node and initial_state carry every output into
\* the completed marker, whatever the chain, the pauses, failures and crashes, as long as
\* no node ran to its end twice.
THEOREM OutputsKeptWhileNodesRunOnce == ~Overlap => (Spec => [](~Repeated => NoOutputLost))
<1> SUFFICES ASSUME ~Overlap PROVE Spec => [](~Repeated => NoOutputLost)
  OBVIOUS
<1> DEFINE I == TypeOK /\ TurnInv /\ FinishInv /\ AheadInv /\ AloneInv /\ OnceInv
<1>1. Init => I
  BY TypeInit, TurnInit, FinishInit, AheadInit, AloneInit, OnceInit
<1>2. I /\ [Next]_vars => I'
  BY TypeNext, TurnNext, FinishNext, AheadNext, AloneNext, OnceNext
<1>3. I => (~Repeated => NoOutputLost)
  BY DEF OnceInv, Once, Saved
<1> HIDE DEF I
<1> QED BY <1>1, <1>2, <1>3, PTL DEF Spec

----------------------------------------------------------------------------
(* A chain whose nodes follow one another *)

\* Node n leads to node n + 1 and nowhere else.
Linear == \A n \in Node :
    /\ n \notin Conditions
    /\ IF n = Last THEN Out[n] = <<>>
       ELSE DOMAIN Out[n] = {1} /\ Out[n][1].to = n + 1 /\ ~Out[n][1].conditional

\* Every node before position n has finished.
Behind(n) == \A k \in Node : k < n => k \in Committed

\* What a run that ended without an error has done.
Through == Committed = Node \/ \E g \in Gates \cap routed : g \notin Committed

\* The nodes with a checkpoint are those before some position; a call, a pause and the
\* row a resume finds continue there, and only one that is through completes.
InLine ==
    /\ 1 \in routed /\ \A m \in Committed : m < Last => m + 1 \in routed
    /\ \A m \in Committed : Behind(m)
    /\ \A c \in Callers :
         /\ call[c].pc = "loop" => /\ Behind(call[c].at)
                                   /\ Due(c) = {n \in Node : n = call[c].at}
         /\ InNode(c) => Behind(call[c].at) /\ Due(c) = {call[c].at}
         /\ call[c].pc # "end" => call[c].end = "failed"
         /\ call[c].pc = "end" /\ call[c].end = "completed" => Through
    /\ pending # NoPending => Behind(pending.node)
    /\ Finished => Through

LineInv == ~Overlap /\ Linear => InLine /\ Saved

\* The run is at the first node of the line.
LEMMA LineInit == Init => LineInv
<1> SUFFICES ASSUME Init PROVE InLine /\ Saved
  BY DEF LineInv
<1>1. Committed = {} /\ ~Finished /\ 1 \in routed
  BY FirstIsAnEntry DEF Init, Committed, Finished
<1>2. Saved
  BY <1>1 DEF Init, Saved, Running, RunningAt, InNodeAt, Idle, LastStep, Steps, NoOutputLost
<1> QED BY <1>1, <1>2 DEF Init, InLine, InNode, InNodeAt, Idle

\* A line has one entry.
LEMMA LinearEntries == Linear => Entries = {1}
<1> SUFFICES ASSUME Linear, NEW n \in Entries PROVE n = 1
  BY FirstIsAnEntry
<1> SUFFICES ASSUME n # 1 PROVE FALSE
  OBVIOUS
<1>1. n \in Node /\ n - 1 \in Node /\ n - 1 # Last
  BY ChainAssumption DEF Entries, Node
<1>2. 1 \in DOMAIN Out[n - 1] /\ Out[n - 1][1].to = (n - 1) + 1
  BY <1>1 DEF Linear
<1>3. (n - 1) + 1 = n
  BY <1>1 DEF Node
<1> QED BY <1>1, <1>2, <1>3 DEF Entries

\* A node of a line routes to the next one, and the last one nowhere.
LEMMA LinearSelects ==
    ASSUME Linear, NEW n \in Node, NEW selected \in Selections(n)
    PROVE  selected = {m \in Node : m = n + 1}
<1>1. \A i \in DOMAIN Out[n] : ~Out[n][i].conditional
  BY DEF Linear
<1>2. \A True : ByTruth(n, True) = DOMAIN Out[n]
  BY <1>1 DEF ByTruth
<1>3. selected = Targets(n, DOMAIN Out[n])
  BY <1>2 DEF Selections, Linear
<1>4. CASE n = Last
  <2>1. Targets(n, DOMAIN Out[n]) = {}
    BY <1>4 DEF Linear, Targets
  <2> QED BY <1>3, <1>4, <2>1, ChainAssumption DEF Node
<1>5. CASE n # Last
  <2>1. Targets(n, DOMAIN Out[n]) = {n + 1}
    BY <1>5 DEF Linear, Targets
  <2>2. n + 1 \in Node
    BY <1>5, ChainAssumption DEF Node
  <2> QED BY <1>3, <2>1, <2>2
<1> QED BY <1>4, <1>5

\* Once the last node has finished, every node has.
LEMMA LastIsAll == ASSUME InLine, Last \in Committed PROVE Committed = Node /\ \A n : Behind(n)
<1>1. \A k \in Node : k < Last \/ k = Last
  BY ChainAssumption DEF Node
<1>2. Committed \subseteq Node
  BY DEF Committed
<1> QED BY <1>1, <1>2 DEF InLine, Behind

\* A node in whose place every earlier one has finished was routed to.
LEMMA NextIsRouted ==
    ASSUME InLine, NEW n \in Node, Behind(n)
    PROVE  n \in routed
<1>1. CASE n = 1
  BY <1>1 DEF InLine
<1>2. CASE n # 1
  <2>1. n - 1 \in Node /\ n - 1 < n /\ n - 1 < Last /\ (n - 1) + 1 = n
    BY <1>2, ChainAssumption DEF Node
  <2>2. n - 1 \in Committed
    BY <2>1 DEF Behind
  <2> QED BY <2>1, <2>2 DEF InLine
<1> QED BY <1>1, <1>2

\* A step that writes no row.
LEMMA InLineStays ==
    ASSUME TypeOK, InLine, NEW c \in Callers, Others(c), UNCHANGED <<log, routed>>,
           pending' \in {pending, NoPending},
           call'[c].pc = "loop" =>
             /\ Behind(call'[c].at)
             /\ {n \in call'[c].active : n >= call'[c].at} = {n \in Node : n = call'[c].at},
           call'[c].pc \in InNodeAt =>
             /\ Behind(call'[c].at)
             /\ {n \in call'[c].active : n >= call'[c].at} = {call'[c].at},
           call'[c].pc # "end" => call'[c].end = "failed",
           call'[c].pc = "end" /\ call'[c].end = "completed" => Through
    PROVE  InLine'
<1>1. Committed' = Committed /\ (Finished' <=> Finished) /\ (Through' <=> Through)
  BY DEF Committed, Finished, Through
<1>2. \A n : Behind(n) => (\A k \in Node : k < n => k \in Committed')
  BY <1>1 DEF Behind
<1>3. \A d \in Callers : d # c => Due(d)' = Due(d)
  BY DEF Due, Others
<1>4. Due(c)' = {n \in call'[c].active : n >= call'[c].at}
  BY DEF Due
<1>5. \A d \in Callers : call'[d].pc = "loop" =>
         /\ \A k \in Node : k < call'[d].at => k \in Committed'
         /\ Due(d)' = {n \in Node : n = call'[d].at}
  BY <1>2, <1>3, <1>4 DEF InLine, Others
<1>6. \A d \in Callers : call'[d].pc \in InNodeAt =>
         /\ \A k \in Node : k < call'[d].at => k \in Committed'
         /\ Due(d)' = {call'[d].at}
  BY <1>2, <1>3, <1>4 DEF InLine, InNode, Others
<1>7. \A d \in Callers :
        /\ call'[d].pc # "end" => call'[d].end = "failed"
        /\ call'[d].pc = "end" /\ call'[d].end = "completed" => Through'
  BY <1>1 DEF InLine, Others
<1>8. /\ 1 \in routed' /\ \A m \in Committed' : m < Last => m + 1 \in routed'
      /\ \A m \in Committed' : \A k \in Node : k < m => k \in Committed'
      /\ Finished' => Through'
  BY <1>1, <1>2 DEF InLine
<1>9. pending' # NoPending => \A k \in Node : k < pending'.node => k \in Committed'
  BY <1>2 DEF InLine
<1> QED BY <1>5, <1>6, <1>7, <1>8, <1>9 DEF InLine, InNode, Behind

\* Every step leaves all nodes before the call's place finished.
LEMMA LineNext ==
    TypeOK /\ TurnInv /\ FinishInv /\ AheadInv /\ AloneInv /\ LineInv /\ [Next]_vars => LineInv'
<1> SUFFICES ASSUME TypeOK, TurnInv, FinishInv, AheadInv, Alone, ~Overlap, Linear,
                    InLine, Saved, [Next]_vars
             PROVE  InLine'
  <2>1. ASSUME TypeOK, TurnInv, FinishInv, AheadInv, Alone, InLine, Saved, [Next]_vars
        PROVE  Saved'
    <3>1. ASSUME NEW c \in Callers, Commit(c), Last \in Committed
          PROVE  call[c].at \in Committed
      <4>1. call[c].at \in Node
        BY <2>1, <3>1 DEF Commit, TypeOK, Calls, InNodeAt
      <4> QED BY <2>1, <3>1, <4>1, LastIsAll
    <3> QED BY <2>1, <3>1, SavedNext
  <2> QED BY <2>1 DEF LineInv, AloneInv
<1>0. Node \subseteq Nat /\ Last \in Nat /\ Committed \subseteq Node
  BY ChainAssumption DEF Node, Committed
<1>1. CASE UNCHANGED vars
  BY <1>1 DEF vars, store, history, InLine, Through, Committed, Finished, Behind, Due, InNode
<1>2. ASSUME NEW c \in Callers, Others(c), UNCHANGED <<log, routed, pending>>,
             call'[c].pc \notin {"loop", "end"} \cup InNodeAt, call'[c].end = "failed"
      PROVE  InLine'
  BY <1>2, InLineStays
<1>3. ASSUME NEW c \in Callers, NEW n \in Node, Others(c), UNCHANGED <<log, routed>>,
             pending' \in {pending, NoPending}, Behind(n),
             call'[c].pc = "loop", call'[c].at = n, call'[c].active = {n},
             call'[c].end = "failed"
      PROVE  InLine'
  <2>1. {m \in call'[c].active : m >= call'[c].at} = {m \in Node : m = call'[c].at}
    BY <1>0, <1>3
  <2> QED BY <1>3, <2>1, InLineStays DEF InNodeAt
<1>4. Behind(1)
  BY DEF Behind, Node
<1>5. ASSUME NEW c \in Callers, Execute(c)
      PROVE  InLine'
  <2>1. UNCHANGED <<log, pending, routed>>
    BY <1>5 DEF Execute, store
  <2>2. /\ Others(c) /\ call'[c].pc = "loop" /\ call'[c].at = 1 /\ call'[c].active = {1}
        /\ call'[c].end = "failed"
    BY <1>5, Starting, LinearEntries
  <2> QED BY <1>3, <1>4, <2>1, <2>2, FirstIsAnEntry
<1>6. ASSUME NEW c \in Callers, NEW answer \in BOOLEAN, Resume(c, answer)
      PROVE  InLine'
  <2>1. /\ Others(c) /\ call'[c].pc = "latest" /\ UNCHANGED <<log, pending, routed>>
        /\ call'[c].end = "failed"
    BY <1>6, Starting DEF Resume, store
  <2> QED BY <1>2, <2>1 DEF InNodeAt
<1>7. ASSUME NEW c \in Callers, Return(c), UNCHANGED <<log, pending, routed>>
      PROVE  InLine'
  BY <1>2, <1>7, Returning DEF Returned, Idle, InNodeAt
<1>8. ASSUME NEW c \in Callers, NEW row, call[c].pc # "end",
             call' = [call EXCEPT ![c] = [@ EXCEPT !.seen = row, !.pc = "claim"]],
             UNCHANGED <<log, pending, routed>>
      PROVE  InLine'
  <2>1. Others(c) /\ call'[c].pc = "claim" /\ call'[c].end = call[c].end
    BY <1>8, Seeing
  <2> QED BY <1>2, <1>8, <2>1 DEF InNodeAt, InLine
<1>9. ASSUME NEW c \in Callers, ReadLatest(c)
      PROVE  InLine'
  <2>1. UNCHANGED <<log, pending, routed>> /\ call[c].pc # "end"
    BY <1>9 DEF ReadLatest, store, history
  <2>2. CASE Move(c, "history")
    <3>1. Others(c) /\ call'[c].pc = "history" /\ call'[c].end = call[c].end
      BY <2>2, Moving
    <3> QED BY <1>2, <2>1, <3>1 DEF InNodeAt, InLine
  <2> QED BY <1>7, <1>8, <1>9, <2>1, <2>2 DEF ReadLatest
<1>10. ASSUME NEW c \in Callers, ReadHistory(c)
       PROVE  InLine'
  <2>1. UNCHANGED <<log, pending, routed>> /\ call[c].pc # "end"
    BY <1>10 DEF ReadHistory, store, history
  <2> QED BY <1>7, <1>8, <1>10, <2>1 DEF ReadHistory
<1>11. ASSUME NEW c \in Callers, Claim(c)
       PROVE  InLine'
  <2>1. UNCHANGED <<log, routed>>
    BY <1>11 DEF Claim, history
  <2>2. CASE pending = NoPending
    BY <1>7, <1>11, <2>1, <2>2 DEF Claim
  <2>3. CASE pending # NoPending
    <3>1. /\ EnterRun(c, pending.node, pending.ticket) /\ pending' = NoPending
          /\ pending.node \in Node /\ pending.node # 0 /\ Behind(pending.node)
      BY <1>11, <2>3 DEF Claim, TypeOK, InLine, Node
    <3>2. /\ Others(c) /\ call'[c].pc = "loop" /\ call'[c].at = pending.node
          /\ call'[c].active = {pending.node} /\ call'[c].end = "failed"
      BY <3>1, Entering
    <3> QED BY <1>3, <2>1, <3>1, <3>2
  <2> QED BY <2>2, <2>3
<1>12. ASSUME NEW c \in Callers, Continue(c)
       PROVE  InLine'
  <2> DEFINE k == call[c].seen.node
             start == IF k < Last THEN k + 1 ELSE 0
             n == IF start = 0 THEN 1 ELSE start
  <2>1. /\ call[c].pc = "claim" /\ Unasked(c) /\ UNCHANGED <<log, pending, routed>>
        /\ EnterRun(c, start, 0)
    BY <1>12 DEF Continue, Unasked, store, history
  <2>2. k \in Nat
    BY <1>0 DEF TypeOK, Calls, Locals, Row, Node, RunEnd
  <2>3. n \in Node
    BY <1>0, <2>2, FirstIsAnEntry DEF Node
  <2>4. Behind(n)
    <3>1. CASE Last \in Committed
      BY <3>1, LastIsAll
    <3>2. CASE Last \notin Committed
      <4>1. k \in Committed /\ Behind(k)
        BY <2>1, <3>2 DEF AheadInv, Ahead, Alone, InLine
      <4>2. \A m \in Node : m < k + 1 => m < k \/ m = k
        BY <1>0, <2>2
      <4>3. Behind(k + 1)
        BY <4>1, <4>2 DEF Behind
      <4> QED BY <1>4, <4>3
    <3> QED BY <3>1, <3>2
  <2>5. /\ Others(c) /\ call'[c].pc = "loop" /\ call'[c].at = n /\ call'[c].active = {n}
        /\ call'[c].end = "failed"
    <3> HIDE DEF start
    <3> QED BY <2>1, Entering, LinearEntries
  <2> HIDE DEF n
  <2> QED BY <1>3, <2>1, <2>3, <2>4, <2>5
<1>13. ASSUME NEW c \in Callers, Pause(c) \/ Commit(c) \/ MarkEnd(c)
       PROVE  \A d \in Callers : d # c => call'[d] = call[d] /\ ~Live(d) /\ ~Live(d)'
  <2>1. Live(c) /\ Others(c)
    BY <1>13, CallSteps
  <2> QED BY <2>1 DEF Alone, Others, Live
<1>14. ASSUME NEW c \in Callers, Pause(c) \/ MarkEnd(c), Committed' = Committed,
              pending' # NoPending => Behind(pending'.node),
              Finished' => Through
       PROVE  InLine'
  <2>1. Return(c) /\ UNCHANGED routed
    BY <1>14 DEF Pause, MarkEnd
  <2>2. call'[c].pc = "idle" /\ call'[c].end = "failed"
    BY <2>1, Returning DEF Returned, Idle
  <2>3. \A d \in Callers : call'[d].pc = "idle" /\ call'[d].end = "failed"
    <3>1. \A d \in Callers : d # c => call[d].pc = "idle" /\ call[d].end = "failed"
      BY <1>13, <1>14 DEF Live, InLine
    <3> QED BY <1>13, <1>14, <2>2, <3>1
  <2>4. Through' <=> Through
    BY <1>14, <2>1 DEF Through
  <2> QED BY <1>14, <2>1, <2>3, <2>4 DEF InLine, InNode, InNodeAt, Behind
<1>15. ASSUME NEW c \in Callers, Pause(c)
       PROVE  InLine'
  <2>1. PICK row \in Row : log' = Append(log, row) /\ row.status = "interrupted"
    BY <1>15, RowsOfSteps
  <2>2. Committed' = Committed /\ (Finished' <=> Finished)
    BY <2>1, Appending
  <2>3. pending'.node = call[c].at /\ Behind(call[c].at)
    BY <1>15 DEF Pause, InNode, InNodeAt, InLine
  <2> QED BY <1>14, <1>15, <2>2, <2>3 DEF InLine
<1>16. ASSUME NEW c \in Callers, MarkEnd(c)
       PROVE  InLine'
  <2>1. PICK row \in Row : /\ log' = Append(log, row) /\ row.node = RunEnd
                           /\ row.status = call[c].end
    BY <1>16, RowsOfSteps
  <2>2. \A n \in Node : row.node # n
    BY <2>1 DEF Node, RunEnd
  <2>3. Committed' = Committed /\ (Finished' => Finished \/ call[c].end = "completed")
    BY <2>1, <2>2, Appending
  <2>4. UNCHANGED pending /\ call[c].pc = "end"
    BY <1>16 DEF MarkEnd
  <2> QED BY <1>14, <1>16, <2>3, <2>4 DEF InLine
<1>17. ASSUME NEW c \in Callers, Commit(c)
       PROVE  InLine'
  <2> DEFINE n == call[c].at
  <2>1. n \in Node /\ InNode(c) /\ Running(c) /\ UNCHANGED pending /\ ~mixed
    BY <1>17 DEF Commit, TypeOK, Calls, InNode, InNodeAt, Running, RunningAt, Alone
  <2>2. PICK row \in Row : /\ log' = Append(log, row) /\ row.status = "completed"
                           /\ row.node = n
    BY <1>17, RowsOfSteps
  <2>3. Committed' = Committed \cup {n}
    BY <2>1, <2>2, Appending
  <2>4. PICK selected \in Selections(n) :
          /\ Others(c) /\ call'[c].pc = IF RoutingFails(n, selected) THEN "end" ELSE "loop"
          /\ call'[c].at = n + 1 /\ call'[c].end = call[c].end
          /\ call'[c].active = call[c].active \cup selected
          /\ routed' = routed \cup selected
    BY <1>17, Committing
  <2>5. selected = {m \in Node : m = n + 1}
    BY <2>1, LinearSelects
  <2>6. Behind(n) /\ Due(c) = {n} /\ call[c].end = "failed" /\ pending = NoPending
    BY <1>17, <2>1 DEF InLine, Commit, TurnInv, TakingTurns
  <2>7. /\ \A k \in Node : k < n => k \in Committed'
        /\ \A k \in Node : k < n + 1 => k \in Committed'
    <3> HIDE DEF n
    <3>1. \A k \in Node : k < n + 1 => k < n \/ k = n
      BY <1>0, <2>1
    <3> QED BY <2>3, <2>6, <3>1 DEF Behind
  <2>8. {m \in call'[c].active : m >= n + 1} = {m \in Node : m = n + 1}
    <3>1. call[c].active \subseteq Nat /\ n \in Nat
      BY <1>0, <2>1, Placed
    <3>2. \A m \in call[c].active : m >= n => m = n
      BY <2>6 DEF Due
    <3> HIDE DEF n
    <3>3. \A m \in call[c].active : ~(m >= n + 1)
      BY <3>1, <3>2
    <3> QED BY <1>0, <2>4, <2>5, <3>1, <3>3
  <2>9. Due(c)' = {m \in Node : m = call'[c].at}
    BY <2>4, <2>8 DEF Due
  <2>10. \A d \in Callers : d # c => call'[d].pc = "idle" /\ call'[d].end = "failed"
    BY <1>13, <1>17 DEF Live, InLine
  <2>11. 1 \in routed' /\ \A m \in Committed' : m < Last => m + 1 \in routed'
    <3>1. n < Last => n + 1 \in routed'
      <4> HIDE DEF n
      <4>1. n < Last => n + 1 \in Node
        BY <1>0, <2>1 DEF Node
      <4> QED BY <2>4, <2>5, <4>1
    <3> QED BY <2>3, <2>4, <3>1 DEF InLine
  <2>12. \A m \in Committed' : \A k \in Node : k < m => k \in Committed'
    BY <2>3, <2>7 DEF InLine, Behind
  <2>13. ~Finished'
    <3>1. ~Finished
      BY <2>1 DEF FinishInv, Over
    <3> QED BY <2>1, <2>2, <3>1, Appending DEF Node, RunEnd
  <2>14. call'[c].pc \in {"end", "loop"} /\ call'[c].end = "failed"
    BY <2>4, <2>6
  <2>15. \A k \in Node : k < call'[c].at => k \in Committed'
    BY <2>4, <2>7
  <2>16. \A d \in Callers : ~InNode(d)'
    BY <2>10, <2>14 DEF InNode, InNodeAt
  <2> QED BY <2>1, <2>6, <2>9, <2>10, <2>11, <2>12, <2>13, <2>14, <2>15, <2>16 DEF InLine, Behind
<1>18. ASSUME NEW c \in Callers, EnterNode(c)
       PROVE  InLine'
  <2>1. UNCHANGED <<log, pending, routed>> /\ call[c].pc = "loop"
    BY <1>18 DEF EnterNode, store, history
  <2>2. /\ Others(c) /\ call'[c].pc \in {"lookup", "node"} /\ call'[c].at \in Firsts(Due(c))
        /\ call'[c].active = call[c].active /\ call'[c].end = call[c].end
    BY <1>18, Reaching
  <2>3. Behind(call[c].at) /\ Due(c) = {n \in Node : n = call[c].at} /\ call[c].end = "failed"
    BY <2>1 DEF InLine
  <2>4. call'[c].at = call[c].at /\ call[c].at \in Node
    BY <2>2, <2>3 DEF Firsts
  <2>5. {n \in call'[c].active : n >= call'[c].at} = {call'[c].at}
    BY <2>2, <2>3, <2>4 DEF Due
  <2> QED BY <2>1, <2>2, <2>3, <2>4, <2>5, InLineStays
<1>19. ASSUME NEW c \in Callers, LookUp(c) \/ RunBody(c) \/ SaveResult(c)
       PROVE  InLine'
  <2>1. UNCHANGED <<log, pending, routed>> /\ InNode(c) /\ call[c].pc # "end"
    BY <1>19 DEF LookUp, RunBody, SaveResult, store, history, InNode, InNodeAt
  <2>2. /\ Others(c) /\ call'[c].pc \in InNodeAt /\ SameRun(c) /\ call'[c].end = call[c].end
    BY <1>19, Moving DEF LookUp, RunBody, SaveResult, InNodeAt
  <2>3. Behind(call[c].at) /\ Due(c) = {call[c].at} /\ call[c].end = "failed"
    BY <2>1 DEF InLine
  <2> QED BY <2>1, <2>2, <2>3, InLineStays DEF Due, SameRun, InNodeAt
<1>20. ASSUME NEW c \in Callers, RunsOn(c), call'[c].pc = "end",
              call'[c].end = "completed" => Through
       PROVE  InLine'
  <2>1. Others(c) /\ UNCHANGED <<log, pending, routed>>
    BY <1>20, RunningOn DEF RowsStay
  <2> QED BY <1>20, <2>1, InLineStays DEF InNodeAt
<1>21. ASSUME NEW c \in Callers, PauseConflict(c) \/ NoHandler(c)
       PROVE  InLine'
  <2>1. call[c].pc = "node" /\ call'[c].pc = "end" /\ call'[c].end = call[c].end
    BY <1>21, Moving DEF PauseConflict, NoHandler
  <2>2. call'[c].end = "failed"
    BY <2>1 DEF InLine
  <2> QED BY <1>20, <1>21, <2>1, <2>2 DEF RunsOn
<1>22. ASSUME NEW c \in Callers, Fail(c)
       PROVE  InLine'
  <2>1. call'[c].pc = "end" /\ call'[c].end = "failed"
    BY <1>22, Ending DEF Fail
  <2> QED BY <1>20, <1>22, <2>1 DEF RunsOn
<1>23. ASSUME NEW c \in Callers, Reject(c)
       PROVE  InLine'
  <2>1. /\ call'[c].pc = "end" /\ InNode(c) /\ call[c].at \in Gates /\ call[c].at \in Node
    BY <1>23, Ending DEF Reject, InNode, InNodeAt, TypeOK, Calls
  <2>2. call[c].at \in routed
    BY <2>1, NextIsRouted DEF InLine
  <2>3. Through
    <3>1. CASE Last \in Committed
      BY <3>1, LastIsAll DEF Through
    <3>2. CASE Last \notin Committed
      <4>1. Before(call[c].at)
        BY <2>1, <3>2 DEF AheadInv, Ahead, Alone
      <4>2. call[c].at \notin Committed
        BY <4>1, Placed DEF Before
      <4> QED BY <2>1, <2>2, <4>2 DEF Through
    <3> QED BY <3>1, <3>2
  <2> QED BY <1>20, <1>23, <2>1, <2>3 DEF RunsOn
<1>24. ASSUME NEW c \in Callers, Complete(c)
       PROVE  InLine'
  <2>1. call[c].pc = "loop" /\ call'[c].pc = "end" /\ Due(c) = {}
    BY <1>24, Ending DEF Complete
  <2>2. Behind(call[c].at) /\ Due(c) = {n \in Node : n = call[c].at}
    BY <2>1 DEF InLine
  <2>3. call[c].at \in 1..(Last + 1) /\ call[c].at \notin Node
    BY <2>1, <2>2 DEF TypeOK, Calls, Locals
  <2>4. call[c].at = Last + 1
    BY <1>0, <2>3 DEF Node
  <2>5. Through
    <3>1. \A k \in Node : k < Last + 1
      BY <1>0 DEF Node
    <3>2. \A k \in Node : k \in Committed
      BY <2>2, <2>4, <3>1 DEF Behind
    <3> QED BY <1>0, <3>2 DEF Through
  <2> QED BY <1>20, <1>24, <2>1, <2>5 DEF RunsOn
<1>25. ASSUME NEW c \in Callers, Leaves(c)
       PROVE  InLine'
  BY <1>2, <1>25, Leaving DEF RowsStay, Returned, Idle, InNodeAt
<1> QED BY Kinds, <1>1, <1>5, <1>6, <1>9, <1>10, <1>11, <1>12, <1>15, <1>16, <1>17, <1>18,
        <1>19, <1>21, <1>22, <1>23, <1>24, <1>25 DEF RunsOn

\* The line invariant with those it rests on.
LEMMA LineAlways ==
    ASSUME ~Overlap, Linear
    PROVE  Spec => [](InLine /\ Saved)
<1> DEFINE I == TypeOK /\ TurnInv /\ FinishInv /\ AheadInv /\ AloneInv /\ LineInv
<1>1. Init => I
  BY TypeInit, TurnInit, FinishInit, AheadInit, AloneInit, LineInit
<1>2. I /\ [Next]_vars => I'
  BY TypeNext, TurnNext, FinishNext, AheadNext, AloneNext, LineNext
<1>3. I => InLine /\ Saved
  BY DEF LineInv
<1> HIDE DEF I
<1> QED BY <1>1, <1>2, <1>3, PTL DEF Spec

\* In a chain whose nodes follow one another that is so even if nodes run again.
THEOREM LinearLosesNoOutput == ~Overlap /\ Linear => (Spec => []NoOutputLost)
<1> SUFFICES ASSUME ~Overlap, Linear PROVE Spec => []NoOutputLost
  OBVIOUS
<1>1. InLine /\ Saved => NoOutputLost
  BY DEF Saved
<1>2. Spec => [](InLine /\ Saved)
  BY LineAlways
<1> QED BY <1>1, <1>2, PTL

\* Nor does a completed run of such a chain skip a node, wherever it was resumed.
THEOREM LinearSkipsNoNode == ~Overlap /\ Linear => (Spec => []NoRoutedNodeSkipped)
<1> SUFFICES ASSUME ~Overlap, Linear PROVE Spec => []NoRoutedNodeSkipped
  OBVIOUS
<1> DEFINE I == TypeOK /\ InLine
<1>1. I => NoRoutedNodeSkipped
  BY DEF InLine, Through, NoRoutedNodeSkipped, TypeOK
<1>2. Spec => [](InLine /\ Saved)
  BY LineAlways
<1>3. Spec => []TypeOK
  BY TypeCorrect
<1> QED BY <1>1, <1>2, <1>3, PTL
=============================================================================
