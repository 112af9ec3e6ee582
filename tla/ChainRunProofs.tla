--------------------------- MODULE ChainRunProofs ---------------------------
(***************************************************************************)
(* Theorems about ChainRun, for every chain, every set of callers and      *)
(* every bound: the type invariant, and that a step behind an interrupt()  *)
(* is let through once per approval, whatever races, crashes and retries.  *)
(***************************************************************************)
EXTENDS ChainRun, TLAPS

USE DEF RunEnd

\* Behind a node is another, or the end of the loop.
LEMMA NextIsAPlace == ASSUME NEW n \in Node PROVE n + 1 \in 1..(Last + 1)
BY ChainAssumption DEF Node

\* A target of an edge is a node.
LEMMA EdgesLeadToNodes ==
    ASSUME NEW n \in Node, NEW i \in DOMAIN Out[n]
    PROVE  Out[n][i].to \in Node
<1>1. Out[n] \in Seq(Edge)
  BY ChainAssumption
<1>2. Out[n][i] \in Edge
  BY <1>1
<1> QED BY <1>2 DEF Edge

\* Neither does following several of them leave the chain.
LEMMA TargetsAreNodes ==
    ASSUME NEW n \in Node, NEW S \in SUBSET DOMAIN Out[n]
    PROVE  Targets(n, S) \subseteq Node
BY EdgesLeadToNodes DEF Targets

\* Whatever routing selects is a set of nodes (_select_outgoing_edges).
LEMMA SelectionsAreNodes ==
    ASSUME NEW n \in Node, NEW selected \in Selections(n)
    PROVE  selected \subseteq Node
<1>1. CASE n \in Conditions
  <2>1. \A handle : ByHandle(n, handle) \in SUBSET DOMAIN Out[n]
    BY DEF ByHandle, Firsts
  <2> QED BY <1>1, <2>1, TargetsAreNodes DEF Selections
<1>2. CASE n \notin Conditions
  <2>1. \A True \in SUBSET {i \in DOMAIN Out[n] : Out[n][i].conditional} :
          ByTruth(n, True) \in SUBSET DOMAIN Out[n]
    BY DEF ByTruth, Firsts
  <2> QED BY <1>2, <2>1, TargetsAreNodes DEF Selections
<1> QED BY <1>1, <1>2

\* A caller between two calls.
LEMMA IdleIsACall == Idle \in Calls
BY ChainAssumption DEF Idle, Calls, Locals, InNodeAt, Row, Status, RunningAt, Node

\* The locals of a call that enters execute_chain at start, or from the top.
LEMMA EnteringIsTyped ==
    ASSUME NEW c \in Callers, call \in [Callers -> Calls],
           NEW start \in {0} \cup Node, NEW ticket \in Nat, EnterRun(c, start, ticket)
    PROVE  call' \in [Callers -> Calls]
<1> DEFINE at == IF start = 0 THEN 1 ELSE start
           active == IF start = 0 THEN Entries ELSE {start}
           new == [Idle EXCEPT !.pc = "loop", !.answer = call[c].answer,
                     !.ticket = ticket, !.state = call[c].seen.snap,
                     !.at = at, !.active = active]
<1>1. at \in 1..(Last + 1)
  BY ChainAssumption DEF Node
<1>2. active \subseteq Node
  BY DEF Entries
<1>3. call[c].seen.snap \subseteq Node /\ call[c].answer \in BOOLEAN
  BY DEF Calls, Locals, Row
<1> HIDE DEF at, active
<1>4. new \in Calls
  BY IdleIsACall, <1>1, <1>2, <1>3 DEF Calls, Locals, RunningAt, InNodeAt
<1> QED BY <1>4 DEF EnterRun, at, active

\* A call that returns.
LEMMA ReturningIsTyped ==
    ASSUME NEW c \in Callers, call \in [Callers -> Calls], Return(c)
    PROVE  call' \in [Callers -> Calls]
BY IdleIsACall DEF Return

\* A move to a place inside a node keeps at a node.
LEMMA MovingIsTyped ==
    ASSUME NEW c \in Callers, call \in [Callers -> Calls],
           NEW pc \in RunningAt \cup {"history", "claim"}, Move(c, pc),
           pc \in InNodeAt => InNode(c)
    PROVE  call' \in [Callers -> Calls]
<1>1. call[c] \in Locals /\ (InNode(c) => call[c].at \in Node)
  BY DEF Calls, InNode
<1>2. [call[c] EXCEPT !.pc = pc] \in Locals
  BY <1>1 DEF Locals
<1>3. [call[c] EXCEPT !.pc = pc] \in Calls
  BY <1>1, <1>2 DEF Calls, Locals
<1> QED BY <1>3 DEF Move

\* The row a resume reads is kept in its locals.
LEMMA SeeingIsTyped ==
    ASSUME NEW c \in Callers, call \in [Callers -> Calls], NEW row \in Row,
           call' = [call EXCEPT ![c] = [@ EXCEPT !.seen = row, !.pc = "claim"]]
    PROVE  call' \in [Callers -> Calls]
<1> DEFINE new == [call[c] EXCEPT !.seen = row, !.pc = "claim"]
<1>1. call[c] \in Locals
  BY DEF Calls
<1>2. new \in Locals /\ new.pc = "claim"
  BY <1>1 DEF Locals
<1>3. new \in Calls
  BY <1>2 DEF Calls, InNodeAt
<1> QED BY <1>3

\* A call that leaves the loop for the end of its run.
LEMMA EndingIsTyped ==
    ASSUME NEW c \in Callers, call \in [Callers -> Calls],
           NEW end \in {"completed", "failed"},
           call' = [call EXCEPT ![c] = [@ EXCEPT !.pc = "end", !.end = end]]
    PROVE  call' \in [Callers -> Calls]
<1> DEFINE new == [call[c] EXCEPT !.pc = "end", !.end = end]
<1>1. call[c] \in Locals
  BY DEF Calls
<1>2. new \in Locals /\ new.pc = "end"
  BY <1>1 DEF Locals, RunningAt
<1>3. new \in Calls
  BY <1>2 DEF Calls, InNodeAt
<1> QED BY <1>3

\* Every variable keeps its type, whatever step is taken.
LEMMA TypeInit == Init => TypeOK
<1> SUFFICES ASSUME Init PROVE TypeOK
  OBVIOUS
<1>1. call \in [Callers -> Calls]
  BY IdleIsACall DEF Init
<1>2. Entries \subseteq Node
  BY DEF Entries
<1>3. log \in Seq(Row) /\ approvedBy \in Seq(Nat)
      /\ pauses \in Seq([node : Node, snap : SUBSET Node])
  BY DEF Init
<1>4. effects \in [Node -> Nat] /\ torn \in [Node -> Nat]
  BY DEF Init
<1> QED BY <1>1, <1>2, <1>3, <1>4 DEF Init, TypeOK

\* One case per action of Next.
LEMMA TypeNext == TypeOK /\ [Next]_vars => TypeOK'
<1> SUFFICES ASSUME TypeOK, [Next]_vars PROVE TypeOK'
  OBVIOUS
<1> USE DEF TypeOK
<1>1. CASE UNCHANGED vars
  BY <1>1 DEF vars, store, history
<1>2. ASSUME NEW c \in Callers, Execute(c)
      PROVE  TypeOK'
  <2>1. call' \in [Callers -> Calls]
    <3>1. Entries \subseteq Node
      BY DEF Entries
    <3>2. [Idle EXCEPT !.pc = "loop", !.active = Entries, !.gated = HasHandler] \in Calls
      BY <3>1, IdleIsACall, ChainAssumption DEF Calls, Locals, RunningAt, InNodeAt
    <3> QED BY <1>2, <3>2 DEF Execute
  <2> QED BY <1>2, <2>1 DEF Execute, BeginCall, Joins, store
<1>3. ASSUME NEW c \in Callers, NEW answer \in BOOLEAN, Resume(c, answer)
      PROVE  TypeOK'
  <2>1. call' \in [Callers -> Calls]
    <3>1. [Idle EXCEPT !.pc = "latest", !.answer = answer] \in Calls
      BY IdleIsACall DEF Calls, Locals, InNodeAt
    <3> QED BY <1>3, <3>1 DEF Resume
  <2> QED BY <1>3, <2>1 DEF Resume, BeginCall, Joins, store
<1>4. ASSUME NEW c \in Callers, ReadLatest(c)
      PROVE  TypeOK'
  <2>1. CASE log = <<>> /\ Return(c)
    BY <1>4, <2>1, ReturningIsTyped DEF ReadLatest, store, history
  <2>2. CASE log # <<>>
    <3>1. log[Len(log)] \in Row
      BY <2>2
    <3>2. \/ call' = [call EXCEPT ![c] = [@ EXCEPT !.seen = log[Len(log)], !.pc = "claim"]]
          \/ Move(c, "history")
          \/ Return(c)
      BY <1>4, <2>2 DEF ReadLatest
    <3>3. Move(c, "history") => call' \in [Callers -> Calls]
      BY MovingIsTyped DEF RunningAt, InNodeAt
    <3>4. Return(c) => call' \in [Callers -> Calls]
      BY ReturningIsTyped
    <3>5. call' \in [Callers -> Calls]
      BY <3>1, <3>2, <3>3, <3>4, SeeingIsTyped
    <3> QED BY <1>4, <3>5 DEF ReadLatest, store, history
  <2> QED BY <1>4, <2>1, <2>2 DEF ReadLatest
<1>5. ASSUME NEW c \in Callers, ReadHistory(c)
      PROVE  TypeOK'
  <2>1. CASE Return(c)
    BY <1>5, <2>1, ReturningIsTyped DEF ReadHistory, store, history
  <2>2. ASSUME NEW i \in LastStep(log),
               call' = [call EXCEPT ![c] = [@ EXCEPT !.seen = log[i], !.pc = "claim"]]
        PROVE  TypeOK'
    <3>1. log[i] \in Row
      BY DEF LastStep, Steps
    <3> QED BY <1>5, <2>2, <3>1, SeeingIsTyped DEF ReadHistory, store, history
  <2> QED BY <1>5, <2>1, <2>2 DEF ReadHistory
<1>6. ASSUME NEW c \in Callers, Claim(c)
      PROVE  TypeOK'
  <2>1. CASE pending = NoPending
    BY <1>6, <2>1, ReturningIsTyped DEF Claim, history
  <2>2. CASE pending # NoPending
    <3>1. pending.node \in Node /\ pending.ticket \in Nat
      BY <2>2
    <3> QED BY <1>6, <2>2, <3>1, EnteringIsTyped DEF Claim, history
  <2> QED BY <2>1, <2>2
<1>7. ASSUME NEW c \in Callers, Refuse(c)
      PROVE  TypeOK'
  BY <1>7, ReturningIsTyped DEF Refuse, store, history
<1>8. ASSUME NEW c \in Callers, Continue(c)
      PROVE  TypeOK'
  <2>1. call[c].seen.node \in 0..Last
    BY ChainAssumption DEF Calls, Locals, Row, Node
  <2>2. (IF call[c].seen.node < Last THEN call[c].seen.node + 1 ELSE 0) \in {0} \cup Node
    BY <2>1, ChainAssumption DEF Node
  <2> QED BY <1>8, <2>2, EnteringIsTyped DEF Continue, store, history
<1>9. ASSUME NEW c \in Callers, EnterNode(c)
      PROVE  TypeOK'
  <2>1. PICK n \in Firsts(Due(c)) :
          call' = [call EXCEPT ![c] =
                     [@ EXCEPT !.at = n, !.pc = IF n \in Charges THEN "lookup" ELSE "node"]]
    BY <1>9 DEF EnterNode
  <2> DEFINE pc == IF n \in Charges THEN "lookup" ELSE "node"
             new == [call[c] EXCEPT !.at = n, !.pc = pc]
  <2>2. n \in Node /\ n \in 1..(Last + 1)
    BY ChainAssumption DEF Firsts, Due, Calls, Locals, Node
  <2>3. pc \in RunningAt
    BY DEF RunningAt, InNodeAt
  <2> HIDE DEF pc
  <2>4. call[c] \in Locals
    BY DEF Calls
  <2>5. new \in Locals /\ new.at = n
    BY <2>2, <2>3, <2>4 DEF Locals
  <2>6. new \in Calls
    BY <2>2, <2>5 DEF Calls
  <2>7. call' \in [Callers -> Calls]
    BY <2>1, <2>6 DEF pc
  <2> QED BY <1>9, <2>7 DEF EnterNode, store, history
<1>10. ASSUME NEW c \in Callers, InNode(c)
       PROVE  call[c].at \in Node
  BY <1>10 DEF InNode, Calls
<1>11. ASSUME NEW c \in Callers, LookUp(c)
       PROVE  TypeOK'
  <2>1. InNode(c)
    BY <1>11 DEF LookUp, InNode, InNodeAt
  <2>2. CASE call[c].at \in cache
    <3>1. Move(c, "node")
      BY <1>11, <2>2 DEF LookUp
    <3>2. call' \in [Callers -> Calls]
      BY <2>1, <3>1, MovingIsTyped DEF RunningAt, InNodeAt
    <3> QED BY <1>11, <3>2 DEF LookUp, store, history
  <2>3. CASE call[c].at \notin cache
    <3>1. Move(c, "body")
      BY <1>11, <2>3 DEF LookUp
    <3>2. call' \in [Callers -> Calls]
      BY <2>1, <3>1, MovingIsTyped DEF RunningAt, InNodeAt
    <3> QED BY <1>11, <3>2 DEF LookUp, store, history
  <2> QED BY <2>2, <2>3
<1>12. ASSUME NEW c \in Callers, RunBody(c)
       PROVE  TypeOK'
  <2>1. InNode(c)
    BY <1>12 DEF RunBody, InNode, InNodeAt
  <2>2. Move(c, "save")
    BY <1>12 DEF RunBody
  <2>3. call' \in [Callers -> Calls]
    BY <2>1, <2>2, MovingIsTyped DEF RunningAt, InNodeAt
  <2>4. effects' \in [Node -> Nat]
    BY <1>12, <1>10, <2>1 DEF RunBody
  <2> QED BY <1>12, <2>3, <2>4 DEF RunBody, store
<1>13. ASSUME NEW c \in Callers, SaveResult(c)
       PROVE  TypeOK'
  <2>1. InNode(c)
    BY <1>13 DEF SaveResult, InNode, InNodeAt
  <2>2. Move(c, "node")
    BY <1>13 DEF SaveResult
  <2>3. call' \in [Callers -> Calls]
    BY <2>1, <2>2, MovingIsTyped DEF RunningAt, InNodeAt
  <2>4. cache' \subseteq Node
    BY <1>13, <1>10, <2>1 DEF SaveResult
  <2> QED BY <1>13, <2>3, <2>4 DEF SaveResult, history
<1>14. ASSUME NEW c \in Callers, Pause(c)
       PROVE  TypeOK'
  <2> DEFINE n == call[c].at
             row == [node |-> n, status |-> "interrupted", snap |-> call[c].state]
             p == [node |-> n, snap |-> call[c].state]
  <2>1. n \in Node
    BY <1>10, <1>14 DEF Pause, InNode, InNodeAt
  <2>2. call[c].state \subseteq Node
    BY DEF Calls, Locals
  <2>3. row \in Row /\ p \in [node : Node, snap : SUBSET Node]
    BY <2>1, <2>2 DEF Row, Status
  <2>4. /\ log' = Append(log, row) /\ pauses' = Append(pauses, p)
        /\ pending' = [node |-> n, ticket |-> Len(pauses')]
        /\ approvedBy' = Append(approvedBy, 0)
    BY <1>14 DEF Pause
  <2>5. log' \in Seq(Row) /\ pauses' \in Seq([node : Node, snap : SUBSET Node])
    BY <2>3, <2>4
  <2>6. Len(pauses') \in Nat \ {0}
    BY <2>3, <2>4
  <2>7. pending' \in [node : Node, ticket : Nat \ {0}]
    BY <2>1, <2>4, <2>6
  <2>8. call' \in [Callers -> Calls]
    BY <1>14, ReturningIsTyped DEF Pause
  <2> QED BY <1>14, <2>4, <2>5, <2>7, <2>8 DEF Pause
<1>15. ASSUME NEW c \in Callers, PauseConflict(c)
       PROVE  TypeOK'
  <2>1. Move(c, "end")
    BY <1>15 DEF PauseConflict
  <2>2. call' \in [Callers -> Calls]
    BY <2>1, MovingIsTyped DEF RunningAt, InNodeAt
  <2> QED BY <1>15, <2>2 DEF PauseConflict, store, history
<1>16. ASSUME NEW c \in Callers, Reject(c)
       PROVE  TypeOK'
  BY <1>16, EndingIsTyped DEF Reject, store, history
<1>17. ASSUME NEW c \in Callers, NoHandler(c)
       PROVE  TypeOK'
  <2>1. Move(c, "end")
    BY <1>17 DEF NoHandler
  <2>2. call' \in [Callers -> Calls]
    BY <2>1, MovingIsTyped DEF RunningAt, InNodeAt
  <2> QED BY <1>17, <2>2 DEF NoHandler, store, history
<1>18. ASSUME NEW c \in Callers, Commit(c)
       PROVE  TypeOK'
  <2> DEFINE n == call[c].at
             state == call[c].state \cup {n}
             row == [node |-> n, status |-> "completed", snap |-> state]
  <2>1. n \in Node
    BY <1>10, <1>18 DEF Commit, InNode, InNodeAt
  <2>2. state \subseteq Node
    BY <2>1 DEF Calls, Locals
  <2>3. row \in Row
    BY <2>1, <2>2 DEF Row, Status
  <2>4. log' \in Seq(Row)
    BY <1>18, <2>3 DEF Commit
  <2>5. approvedBy' \in Seq(Nat)
    <3>1. (IF n \in Pauses THEN call[c].ticket ELSE 0) \in Nat
      BY DEF Calls, Locals
    <3>2. approvedBy' = Append(approvedBy, IF n \in Pauses THEN call[c].ticket ELSE 0)
      BY <1>18 DEF Commit
    <3> QED BY <3>1, <3>2
  <2>6. PICK selected \in Selections(n) :
          /\ routed' = routed \cup selected
          /\ call' = [call EXCEPT ![c] =
               [@ EXCEPT !.state = state, !.ticket = 0, !.at = n + 1,
                         !.active = call[c].active \cup selected,
                         !.pc = IF RoutingFails(n, selected) THEN "end" ELSE "loop"]]
    BY <1>18 DEF Commit
  <2>7. selected \subseteq Node
    BY <2>1, SelectionsAreNodes
  <2>8. n + 1 \in 1..(Last + 1)
    BY <2>1, NextIsAPlace
  <2> DEFINE active == call[c].active \cup selected
             pc == IF RoutingFails(n, selected) THEN "end" ELSE "loop"
             new == [call[c] EXCEPT !.state = state, !.ticket = 0, !.at = n + 1,
                                    !.active = active, !.pc = pc]
  <2>9. call' \in [Callers -> Calls]
    <3>1. call[c] \in Locals
      BY DEF Calls
    <3>2. active \subseteq Node
      BY <3>1, <2>7 DEF Locals
    <3>3. pc \in RunningAt /\ pc \notin InNodeAt
      BY DEF RunningAt, InNodeAt
    <3>4. call' = [call EXCEPT ![c] = new]
      BY <2>6
    <3> HIDE DEF active, pc, state, n
    <3>5. new \in Locals /\ new.pc = pc
      BY <2>2, <2>8, <3>1, <3>2, <3>3 DEF Locals
    <3>6. new \in Calls
      BY <3>3, <3>5 DEF Calls
    <3> HIDE DEF new
    <3> QED BY <3>4, <3>6
  <2> QED BY <1>18, <2>4, <2>5, <2>6, <2>7, <2>9 DEF Commit
<1>19. ASSUME NEW c \in Callers, Complete(c)
       PROVE  TypeOK'
  BY <1>19, EndingIsTyped DEF Complete, store, history
<1>20. ASSUME NEW c \in Callers, MarkEnd(c)
       PROVE  TypeOK'
  <2>1. call[c].state \subseteq Node /\ call[c].end \in {"completed", "failed"}
    BY DEF Calls, Locals
  <2>2. log # <<>> => log[Len(log)].snap \subseteq Node
    <3>1. log # <<>> => log[Len(log)] \in Row
      OBVIOUS
    <3> QED BY <3>1 DEF Row
  <2> DEFINE snap == IF call[c].end = "completed" THEN call[c].state
                     ELSE IF log = <<>> THEN {} ELSE log[Len(log)].snap
             row == [node |-> RunEnd, status |-> call[c].end, snap |-> snap]
  <2>3. snap \subseteq Node
    BY <2>1, <2>2
  <2> HIDE DEF snap
  <2>4. row \in Row
    BY <2>1, <2>3 DEF Row, Status
  <2>5. log' = Append(log, row)
    BY <1>20 DEF MarkEnd, snap
  <2>6. log' \in Seq(Row)
    BY <2>4, <2>5
  <2>7. call' \in [Callers -> Calls]
    BY <1>20, ReturningIsTyped DEF MarkEnd
  <2> QED BY <1>20, <2>6, <2>7 DEF MarkEnd
<1>21. ASSUME NEW c \in Callers, Fail(c)
       PROVE  TypeOK'
  <2>1. call' \in [Callers -> Calls]
    BY <1>21, EndingIsTyped DEF Fail
  <2>2. torn' \in [Node -> Nat]
    BY <1>21, <1>10 DEF Fail, Tear, InNode, InNodeAt
  <2> QED BY <1>21, <2>1, <2>2 DEF Fail, Fault, store
<1>22. ASSUME NEW c \in Callers, Crash(c)
       PROVE  TypeOK'
  <2>1. call' \in [Callers -> Calls]
    BY <1>22, ReturningIsTyped DEF Crash
  <2>2. torn' \in [Node -> Nat]
    BY <1>22, <1>10 DEF Crash, Tear, InNode, InNodeAt
  <2> QED BY <1>22, <2>1, <2>2 DEF Crash, Fault, store
<1>23. ASSUME NEW c \in Callers, LoseMarker(c)
       PROVE  TypeOK'
  <2>1. call' \in [Callers -> Calls]
    BY <1>23, ReturningIsTyped DEF LoseMarker
  <2> QED BY <1>23, <2>1 DEF LoseMarker, Fault, store, history
<1> QED
  BY <1>1, <1>2, <1>3, <1>4, <1>5, <1>6, <1>7, <1>8, <1>9, <1>11, <1>12, <1>13, <1>14,
     <1>15, <1>16, <1>17, <1>18, <1>19, <1>20, <1>21, <1>22, <1>23
     DEF Next, Step

\* Every variable keeps its type in every run of every chain: the nodes a resume starts
\* at, the nodes a call runs and the rows it writes are nodes of the chain.
THEOREM TypeCorrect == Spec => []TypeOK
BY TypeInit, TypeNext, PTL DEF Spec

----------------------------------------------------------------------------
(* One approval, one step *)

ApprovalInv == EveryGatedStepApproved /\ ApprovalInOneHand

\* A step of c that writes no row and leaves the pending row and the pauses alone keeps
\* the invariant, if c drops its approval or takes it where it belongs.
LEMMA QuietStep ==
    ASSUME TypeOK, ApprovalInv, NEW c \in Callers, NEW l,
           UNCHANGED <<log, pending, pauses, approvedBy>>,
           call' = [call EXCEPT ![c] = l],
           l.ticket = 0 \/ (l.ticket = call[c].ticket /\ HoldsRightly(l))
    PROVE  ApprovalInv'
<1>1. EveryGatedStepApproved'
  BY DEF ApprovalInv, EveryGatedStepApproved
<1>2. call'[c] = l /\ \A d \in Callers : d # c => call'[d] = call[d]
  BY DEF TypeOK
<1>3. \A t : Spent(t)' <=> Spent(t)
  BY DEF Spent
<1>4. \A d \in Callers : call'[d].ticket \in {0, call[d].ticket}
  BY <1>2
<1>5. \A d \in Callers : HoldsRightly(call[d])'
  <2> SUFFICES ASSUME NEW d \in Callers PROVE HoldsRightly(call[d])'
    OBVIOUS
  <2>1. HoldsRightly(call[d])
    BY DEF ApprovalInv, ApprovalInOneHand
  <2>2. CASE d # c
    BY <1>2, <1>3, <2>1, <2>2 DEF HoldsRightly
  <2>3. CASE d = c
    BY <1>2, <1>3, <2>3 DEF HoldsRightly
  <2> QED BY <2>2, <2>3
<1>6. pending # NoPending => pending.ticket # 0
  BY DEF TypeOK
<1>7. ApprovalInOneHand'
  BY <1>3, <1>4, <1>5, <1>6 DEF ApprovalInv, ApprovalInOneHand
<1> QED BY <1>1, <1>7 DEF ApprovalInv

\* In particular when the call returns.
LEMMA QuietReturn ==
    ASSUME TypeOK, ApprovalInv, NEW c \in Callers,
           UNCHANGED <<log, pending, pauses, approvedBy>>, Return(c)
    PROVE  ApprovalInv'
BY QuietStep DEF Return, Idle

\* And when it moves on, away from the loop's head, inside the node it is at.
LEMMA QuietMove ==
    ASSUME TypeOK, ApprovalInv, NEW c \in Callers, NEW pc,
           UNCHANGED <<log, pending, pauses, approvedBy>>, Move(c, pc),
           pc = "end" \/ (pc \in InNodeAt /\ InNode(c))
    PROVE  ApprovalInv'
<1> DEFINE l == [call[c] EXCEPT !.pc = pc]
<1>1. call[c] \in Locals /\ HoldsRightly(call[c])
  BY DEF TypeOK, Calls, ApprovalInv, ApprovalInOneHand
<1>2. l.ticket = call[c].ticket /\ l.pc = pc /\ l.at = call[c].at
  BY <1>1 DEF Locals
<1>3. HoldsRightly(l)
  BY <1>1, <1>2 DEF HoldsRightly, InNode, InNodeAt, RunningAt
<1>4. call' = [call EXCEPT ![c] = l]
  BY DEF Move
<1> HIDE DEF l
<1> QED BY <1>2, <1>3, <1>4, QuietStep

\* And when it goes to the end of its run.
LEMMA QuietEnd ==
    ASSUME TypeOK, ApprovalInv, NEW c \in Callers, NEW end,
           UNCHANGED <<log, pending, pauses, approvedBy>>,
           call' = [call EXCEPT ![c] = [@ EXCEPT !.pc = "end", !.end = end]]
    PROVE  ApprovalInv'
<1> DEFINE l == [call[c] EXCEPT !.pc = "end", !.end = end]
<1>1. call[c] \in Locals /\ HoldsRightly(call[c])
  BY DEF TypeOK, Calls, ApprovalInv, ApprovalInOneHand
<1>2. l.ticket = call[c].ticket /\ l.pc = "end"
  BY <1>1 DEF Locals
<1>3. HoldsRightly(l)
  BY <1>1, <1>2 DEF HoldsRightly, InNodeAt, RunningAt
<1>4. call' = [call EXCEPT ![c] = l]
  OBVIOUS
<1> HIDE DEF l
<1> QED BY <1>2, <1>3, <1>4, QuietStep

\* Nothing was asked for yet.
LEMMA ApprovalInit == Init => ApprovalInv
BY DEF Init, ApprovalInv, EveryGatedStepApproved, ApprovalInOneHand, HoldsRightly, Idle

\* A row that c writes keeps the invariant if c drops its approval with it, and names it
\* when the row is a finished step behind an interrupt().
LEMMA RowStep ==
    ASSUME TypeOK, ApprovalInv, NEW c \in Callers, NEW l,
           NEW row \in Row, NEW t \in {0, call[c].ticket},
           row.status = "completed" /\ row.node \in Pauses =>
             t # 0 /\ pauses[t].node = row.node,
           log' = Append(log, row), approvedBy' = Append(approvedBy, t),
           UNCHANGED <<pending, pauses>>,
           call' = [call EXCEPT ![c] = l], l.ticket = 0
    PROVE  ApprovalInv'
<1>1. /\ t \in Nat /\ (t # 0 => t \in DOMAIN pauses /\ ~Spent(t))
      /\ t \in 0..Len(pauses)
  <2>1. call[c].ticket \in Nat /\ HoldsRightly(call[c])
    BY DEF TypeOK, Calls, Locals, ApprovalInv, ApprovalInOneHand
  <2>2. pauses \in Seq([node : Node, snap : SUBSET Node])
    BY DEF TypeOK
  <2> QED BY <2>1, <2>2 DEF HoldsRightly
<1>2. log \in Seq(Row) /\ approvedBy \in Seq(Nat) /\ Len(approvedBy) = Len(log)
  BY DEF TypeOK, ApprovalInv, ApprovalInOneHand
<1> DEFINE k == Len(log) + 1
<1>3. /\ DOMAIN log' = DOMAIN log \cup {k} /\ log'[k] = row
      /\ \A i \in DOMAIN log : i # k /\ log'[i] = log[i]
  BY <1>2
<1>4. /\ DOMAIN approvedBy' = DOMAIN approvedBy \cup {k} /\ approvedBy'[k] = t
      /\ \A i \in DOMAIN approvedBy : i # k /\ approvedBy'[i] = approvedBy[i]
      /\ Len(approvedBy') = Len(log')
  BY <1>1, <1>2
<1>5. \A u : Spent(u)' <=> Spent(u) \/ u = t
  BY <1>4 DEF Spent
<1> HIDE DEF k
<1>6. EveryGatedStepApproved'
  <2>1. \A i \in DOMAIN log' :
          log'[i].status = "completed" /\ log'[i].node \in Pauses =>
            approvedBy'[i] \in DOMAIN pauses /\ pauses[approvedBy'[i]].node = log'[i].node
    <3>1. DOMAIN log = DOMAIN approvedBy
      BY <1>2
    <3> QED BY <1>1, <1>3, <1>4, <3>1 DEF ApprovalInv, EveryGatedStepApproved
  <2>2. \A i, j \in DOMAIN approvedBy' :
          approvedBy'[i] = approvedBy'[j] /\ approvedBy'[i] # 0 => i = j
    BY <1>1, <1>4 DEF ApprovalInv, EveryGatedStepApproved, Spent
  <2> QED BY <2>1, <2>2 DEF EveryGatedStepApproved
<1>7. call'[c] = l /\ \A d \in Callers : d # c => call'[d] = call[d]
  BY DEF TypeOK
<1>8. \A d \in Callers : HoldsRightly(call[d])'
  <2> SUFFICES ASSUME NEW d \in Callers PROVE HoldsRightly(call[d])'
    OBVIOUS
  <2>1. CASE d = c
    BY <1>7, <2>1 DEF HoldsRightly
  <2>2. CASE d # c
    <3>1. call'[d] = call[d] /\ HoldsRightly(call[d])
      BY <1>7, <2>2 DEF ApprovalInv, ApprovalInOneHand
    <3>2. call[d].ticket # 0 => call[d].ticket # t
      BY <2>2 DEF ApprovalInv, ApprovalInOneHand
    <3> QED BY <1>5, <3>1, <3>2 DEF HoldsRightly
  <2> QED BY <2>1, <2>2
<1>9. pending # NoPending => pending.ticket # 0 /\ pending.ticket # t
  BY DEF TypeOK, ApprovalInv, ApprovalInOneHand
<1>10. \A d \in Callers : call'[d].ticket \in {0, call[d].ticket}
  BY <1>7
<1>11. \A i \in DOMAIN approvedBy' : approvedBy'[i] \in 0..Len(pauses)
  BY <1>1, <1>4 DEF ApprovalInv, ApprovalInOneHand
<1>12. ApprovalInOneHand'
  <2>1. pending' # NoPending =>
          /\ pending'.ticket \in DOMAIN pauses' /\ pauses'[pending'.ticket].node = pending'.node
          /\ ~Spent(pending.ticket)' /\ \A d \in Callers : call'[d].ticket # pending'.ticket
    BY <1>5, <1>9, <1>10 DEF ApprovalInv, ApprovalInOneHand
  <2>2. \A d, e \in Callers : call'[d].ticket = call'[e].ticket /\ call'[d].ticket # 0 => d = e
    BY <1>10 DEF ApprovalInv, ApprovalInOneHand
  <2> QED BY <1>4, <1>8, <1>11, <2>1, <2>2 DEF ApprovalInOneHand
<1> QED BY <1>6, <1>12 DEF ApprovalInv

\* A pause is numbered anew: nobody can hold or have spent its approval yet.
LEMMA PauseStep ==
    ASSUME TypeOK, ApprovalInv, NEW c \in Callers, Pause(c)
    PROVE  ApprovalInv'
<1> DEFINE n == call[c].at
           row == [node |-> n, status |-> "interrupted", snap |-> call[c].state]
           p == [node |-> n, snap |-> call[c].state]
           k == Len(log) + 1
           t == Len(pauses) + 1
<1>1. log \in Seq(Row) /\ approvedBy \in Seq(Nat) /\ Len(approvedBy) = Len(log)
  BY DEF TypeOK, ApprovalInv, ApprovalInOneHand
<1>2. pauses \in Seq([node : Node, snap : SUBSET Node])
  BY DEF TypeOK
<1>3. /\ DOMAIN log' = DOMAIN log \cup {k} /\ log'[k] = row
      /\ \A i \in DOMAIN log : i # k /\ log'[i] = log[i]
  BY <1>1 DEF Pause
<1>4. /\ DOMAIN approvedBy' = DOMAIN approvedBy \cup {k} /\ approvedBy'[k] = 0
      /\ \A i \in DOMAIN approvedBy : i # k /\ approvedBy'[i] = approvedBy[i]
      /\ Len(approvedBy') = Len(log')
  BY <1>1 DEF Pause
<1>5. /\ DOMAIN pauses' = DOMAIN pauses \cup {t} /\ pauses'[t] = p /\ Len(pauses') = t
      /\ \A i \in DOMAIN pauses : i # t /\ pauses'[i] = pauses[i]
      /\ DOMAIN pauses = 1..Len(pauses) /\ t \in Nat \ {0}
  BY <1>2 DEF Pause
<1>6. pending' = [node |-> n, ticket |-> t] /\ call' = [call EXCEPT ![c] = Idle]
  BY <1>5 DEF Pause, Return
<1>7. /\ \A u : u # 0 => (Spent(u)' <=> Spent(u))
      /\ \A i \in DOMAIN approvedBy : approvedBy[i] \in 0..Len(pauses)
      /\ \A d \in Callers : HoldsRightly(call[d])
  BY <1>4 DEF Spent, ApprovalInv, ApprovalInOneHand
<1>8. ~Spent(t)
  <2>1. t \notin 0..Len(pauses)
    BY <1>2
  <2> QED BY <1>7, <2>1 DEF Spent
<1>9. call'[c] = Idle /\ \A d \in Callers : d # c => call'[d] = call[d]
  BY <1>6 DEF TypeOK
<1>10. EveryGatedStepApproved'
  <2>1. \A i \in DOMAIN log' :
          log'[i].status = "completed" /\ log'[i].node \in Pauses =>
            /\ approvedBy'[i] \in DOMAIN pauses'
            /\ pauses'[approvedBy'[i]].node = log'[i].node
    <3>1. DOMAIN log = DOMAIN approvedBy
      BY <1>1
    <3>2. row.status # "completed"
      OBVIOUS
    <3> HIDE DEF k, row, t, p
    <3> QED BY <1>3, <1>4, <1>5, <3>1, <3>2 DEF ApprovalInv, EveryGatedStepApproved
  <2>2. \A i, j \in DOMAIN approvedBy' :
          approvedBy'[i] = approvedBy'[j] /\ approvedBy'[i] # 0 => i = j
    <3> HIDE DEF k
    <3> QED BY <1>4 DEF ApprovalInv, EveryGatedStepApproved
  <2> QED BY <2>1, <2>2 DEF EveryGatedStepApproved
<1>11. \A d \in Callers : HoldsRightly(call[d])'
  <2> SUFFICES ASSUME NEW d \in Callers PROVE HoldsRightly(call[d])'
    OBVIOUS
  <2> HIDE DEF t, p
  <2>1. CASE d = c
    BY <1>9, <2>1 DEF HoldsRightly, Idle
  <2>2. CASE d # c
    BY <1>5, <1>7, <1>9, <2>2 DEF HoldsRightly
  <2> QED BY <2>1, <2>2
<1>12. pending' # NoPending =>
          /\ pending'.ticket \in DOMAIN pauses' /\ pauses'[pending'.ticket].node = pending'.node
          /\ ~Spent(pending.ticket)' /\ \A d \in Callers : call'[d].ticket # pending'.ticket
  <2>1. pending'.ticket = t /\ pending'.node = n
    BY <1>6
  <2>2. t \in DOMAIN pauses' /\ pauses'[t].node = n
    BY <1>5
  <2>3. \A d \in Callers : call'[d].ticket # t
    <3>1. t \notin DOMAIN pauses /\ t # 0
      BY <1>5
    <3> QED BY <1>7, <1>9, <3>1 DEF HoldsRightly, Idle
  <2>4. ~Spent(pending.ticket)'
    BY <1>4, <1>8, <2>1, <1>5 DEF Spent
  <2> QED BY <2>1, <2>2, <2>3, <2>4
<1>13. \A i \in DOMAIN approvedBy' : approvedBy'[i] \in 0..Len(pauses')
  <2>1. 0 \in 0..Len(pauses') /\ \A i \in 0..Len(pauses) : i \in 0..Len(pauses')
    BY <1>5
  <2> HIDE DEF k, t
  <2> QED BY <1>4, <1>7, <2>1
<1>14. \A d, e \in Callers : call'[d].ticket = call'[e].ticket /\ call'[d].ticket # 0 => d = e
  BY <1>9 DEF Idle, ApprovalInv, ApprovalInOneHand
<1>15. ApprovalInOneHand'
  BY <1>4, <1>11, <1>12, <1>13, <1>14 DEF ApprovalInOneHand
<1> QED BY <1>10, <1>15 DEF ApprovalInv

\* A claim moves the approval from the pending row to the one call that deleted it.
LEMMA ClaimStep ==
    ASSUME TypeOK, ApprovalInv, NEW c \in Callers, Claim(c)
    PROVE  ApprovalInv'
<1>1. UNCHANGED <<log, pauses, approvedBy>>
  BY DEF Claim, history
<1>2. CASE pending = NoPending
  BY <1>1, <1>2, QuietReturn DEF Claim
<1>3. CASE pending # NoPending
  <2> DEFINE l == [Idle EXCEPT !.pc = "loop", !.answer = call[c].answer,
                     !.ticket = pending.ticket, !.state = call[c].seen.snap,
                     !.at = IF pending.node = 0 THEN 1 ELSE pending.node,
                     !.active = IF pending.node = 0 THEN Entries ELSE {pending.node}]
  <2>1. call' = [call EXCEPT ![c] = l] /\ pending' = NoPending
    BY <1>3 DEF Claim, EnterRun
  <2>2. pending.node # 0 /\ pending.ticket # 0
    BY <1>3, ChainAssumption DEF TypeOK, Node
  <2>3. l.ticket = pending.ticket /\ l.pc = "loop" /\ l.active = {pending.node}
    BY <2>2 DEF Idle
  <2> HIDE DEF l
  <2>4. /\ pending.ticket \in DOMAIN pauses /\ pauses[pending.ticket].node = pending.node
        /\ ~Spent(pending.ticket) /\ \A d \in Callers : call[d].ticket # pending.ticket
        /\ \A d \in Callers : HoldsRightly(call[d])
    BY <1>3 DEF ApprovalInv, ApprovalInOneHand
  <2>5. call'[c] = l /\ \A d \in Callers : d # c => call'[d] = call[d]
    BY <2>1 DEF TypeOK
  <2>6. \A u : Spent(u)' <=> Spent(u)
    BY <1>1 DEF Spent
  <2>7. EveryGatedStepApproved'
    BY <1>1 DEF ApprovalInv, EveryGatedStepApproved
  <2>8. \A d \in Callers : HoldsRightly(call[d])'
    <3> SUFFICES ASSUME NEW d \in Callers PROVE HoldsRightly(call[d])'
      OBVIOUS
    <3>1. CASE d = c
      BY <1>1, <2>3, <2>4, <2>5, <2>6, <3>1 DEF HoldsRightly, InNodeAt, RunningAt
    <3>2. CASE d # c
      BY <1>1, <2>4, <2>5, <2>6, <3>2 DEF HoldsRightly
    <3> QED BY <3>1, <3>2
  <2>9. \A d, e \in Callers : call'[d].ticket = call'[e].ticket /\ call'[d].ticket # 0 => d = e
    BY <2>3, <2>4, <2>5 DEF ApprovalInv, ApprovalInOneHand
  <2>10. ApprovalInOneHand'
    BY <1>1, <2>1, <2>8, <2>9 DEF ApprovalInv, ApprovalInOneHand
  <2> QED BY <2>7, <2>10 DEF ApprovalInv
<1> QED BY <1>2, <1>3

\* Entering a node takes an approval to the node that asked for it: no other is active.
LEMMA EnterNodeStep ==
    ASSUME TypeOK, ApprovalInv, NEW c \in Callers, EnterNode(c)
    PROVE  ApprovalInv'
<1>1. PICK n \in Firsts(Due(c)) :
        call' = [call EXCEPT ![c] =
                   [@ EXCEPT !.at = n, !.pc = IF n \in Charges THEN "lookup" ELSE "node"]]
  BY DEF EnterNode
<1> DEFINE pc == IF n \in Charges THEN "lookup" ELSE "node"
           l == [call[c] EXCEPT !.at = n, !.pc = pc]
<1>2. call[c] \in Locals /\ HoldsRightly(call[c])
  BY DEF TypeOK, Calls, ApprovalInv, ApprovalInOneHand
<1>3. n \in call[c].active /\ call[c].pc = "loop"
  BY DEF EnterNode, Firsts, Due
<1>4. l.ticket = call[c].ticket /\ l.at = n /\ l.pc \in {"lookup", "node"}
  BY <1>2 DEF Locals
<1>5. HoldsRightly(l)
  <2> HIDE DEF l
  <2> QED BY <1>2, <1>3, <1>4 DEF HoldsRightly, RunningAt, InNodeAt
<1>6. call' = [call EXCEPT ![c] = l]
  BY <1>1
<1>7. UNCHANGED <<log, pending, pauses, approvedBy>>
  BY DEF EnterNode, store, history
<1> HIDE DEF l
<1> QED BY <1>4, <1>5, <1>6, <1>7, QuietStep

\* A node that returns spends the approval it ran under, if it needed one.
LEMMA CommitStep ==
    ASSUME TypeOK, ApprovalInv, NEW c \in Callers, Commit(c)
    PROVE  ApprovalInv'
<1> DEFINE n == call[c].at
           state == call[c].state \cup {n}
           row == [node |-> n, status |-> "completed", snap |-> state]
           t == IF n \in Pauses THEN call[c].ticket ELSE 0
<1>1. InNode(c) /\ call[c] \in Locals /\ HoldsRightly(call[c])
  BY DEF Commit, InNode, InNodeAt, TypeOK, Calls, ApprovalInv, ApprovalInOneHand
<1>2. n \in Node
  BY <1>1 DEF TypeOK, Calls, InNode
<1>3. row \in Row
  BY <1>1, <1>2 DEF Row, Status, Locals
<1>4. PICK selected \in Selections(n) :
        call' = [call EXCEPT ![c] =
          [@ EXCEPT !.state = state, !.ticket = 0, !.at = n + 1,
                    !.active = call[c].active \cup selected,
                    !.pc = IF RoutingFails(n, selected) THEN "end" ELSE "loop"]]
  BY DEF Commit
<1> DEFINE l == [call[c] EXCEPT !.state = state, !.ticket = 0, !.at = n + 1,
                   !.active = call[c].active \cup selected,
                   !.pc = IF RoutingFails(n, selected) THEN "end" ELSE "loop"]
<1>5. call' = [call EXCEPT ![c] = l] /\ l.ticket = 0
  BY <1>1, <1>4 DEF Locals
<1>6. /\ log' = Append(log, row) /\ approvedBy' = Append(approvedBy, t)
      /\ UNCHANGED <<pending, pauses>>
  BY DEF Commit
<1>7. row.node \in Pauses => t # 0 /\ pauses[t].node = row.node
  BY <1>1 DEF Commit, Answered, HoldsRightly, InNode
<1>8. t \in {0, call[c].ticket}
  OBVIOUS
<1> HIDE DEF l, row, t
<1> QED BY <1>3, <1>5, <1>6, <1>7, <1>8, RowStep

\* A run-end marker names no node, and the call that writes it holds no approval after.
LEMMA MarkEndStep ==
    ASSUME TypeOK, TypeOK', ApprovalInv, NEW c \in Callers, MarkEnd(c)
    PROVE  ApprovalInv'
<1> DEFINE snap == IF call[c].end = "completed" THEN call[c].state
                   ELSE IF log = <<>> THEN {} ELSE log[Len(log)].snap
           row == [node |-> RunEnd, status |-> call[c].end, snap |-> snap]
<1>1. log' = Append(log, row) /\ approvedBy' = Append(approvedBy, 0)
  BY DEF MarkEnd
<1>2. row.node \notin Pauses
  BY ChainAssumption DEF Node
<1> HIDE DEF row
<1>3. row \in Row
  <2>1. log'[Len(log) + 1] = row /\ Len(log) + 1 \in DOMAIN log'
    BY <1>1 DEF TypeOK
  <2> QED BY <2>1 DEF TypeOK
<1>4. call' = [call EXCEPT ![c] = Idle] /\ Idle.ticket = 0 /\ UNCHANGED <<pending, pauses>>
  BY DEF MarkEnd, Return, Idle
<1> QED BY <1>1, <1>2, <1>3, <1>4, RowStep

\* One case per action of Next: all but five of them are quiet.
LEMMA ApprovalNext ==
    ASSUME TypeOK, TypeOK', ApprovalInv, [Next]_vars
    PROVE  ApprovalInv'
<1>1. CASE UNCHANGED vars
  BY <1>1 DEF vars, store, history, ApprovalInv, EveryGatedStepApproved,
     ApprovalInOneHand, HoldsRightly, Spent
<1>2. ASSUME NEW c \in Callers, Execute(c)
      PROVE  ApprovalInv'
  BY <1>2, QuietStep DEF Execute, Idle, store
<1>3. ASSUME NEW c \in Callers, NEW answer \in BOOLEAN, Resume(c, answer)
      PROVE  ApprovalInv'
  BY <1>3, QuietStep DEF Resume, Idle, store
<1>4. ASSUME NEW c \in Callers, call[c].pc \in {"latest", "history"},
             \/ Return(c) \/ Move(c, "history")
             \/ \E row \in Row :
                  call' = [call EXCEPT ![c] = [@ EXCEPT !.seen = row, !.pc = "claim"]],
             UNCHANGED <<log, pending, pauses, approvedBy>>
      PROVE  ApprovalInv'
  <2> DEFINE l(row) == [call[c] EXCEPT !.seen = row, !.pc = "claim"]
             m == [call[c] EXCEPT !.pc = "history"]
  <2>1. call[c] \in Locals /\ HoldsRightly(call[c])
    BY DEF TypeOK, Calls, ApprovalInv, ApprovalInOneHand
  <2>2. call[c].ticket = 0
    BY <1>4, <2>1 DEF HoldsRightly, RunningAt, InNodeAt
  <2>3. m.ticket = 0 /\ \A row : l(row).ticket = 0
    BY <2>1, <2>2 DEF Locals
  <2>4. \/ Return(c) \/ call' = [call EXCEPT ![c] = m]
        \/ \E row \in Row : call' = [call EXCEPT ![c] = l(row)]
    BY <1>4 DEF Move
  <2> HIDE DEF l, m
  <2> QED BY <1>4, <2>3, <2>4, QuietStep, QuietReturn
<1>5. ASSUME NEW c \in Callers, ReadLatest(c)
      PROVE  ApprovalInv'
  <2>1. call[c].pc = "latest" /\ UNCHANGED <<log, pending, pauses, approvedBy>>
    BY <1>5 DEF ReadLatest, store, history
  <2>2. \/ Return(c) \/ Move(c, "history")
        \/ call' = [call EXCEPT ![c] = [@ EXCEPT !.seen = log[Len(log)], !.pc = "claim"]]
    BY <1>5 DEF ReadLatest
  <2>3. log = <<>> => Return(c)
    BY <1>5 DEF ReadLatest
  <2>4. log # <<>> => log[Len(log)] \in Row
    BY DEF TypeOK
  <2> QED BY <1>4, <2>1, <2>2, <2>3, <2>4
<1>6. ASSUME NEW c \in Callers, ReadHistory(c)
      PROVE  ApprovalInv'
  <2>1. call[c].pc = "history" /\ UNCHANGED <<log, pending, pauses, approvedBy>>
    BY <1>6 DEF ReadHistory, store, history
  <2>2. Return(c) \/ \E i \in LastStep(log) :
          call' = [call EXCEPT ![c] = [@ EXCEPT !.seen = log[i], !.pc = "claim"]]
    BY <1>6 DEF ReadHistory
  <2>3. \A i \in LastStep(log) : log[i] \in Row
    BY DEF TypeOK, LastStep, Steps
  <2> QED BY <1>4, <2>1, <2>2, <2>3
<1>7. ASSUME NEW c \in Callers, Refuse(c)
      PROVE  ApprovalInv'
  BY <1>7, QuietReturn DEF Refuse, store, history
<1>8. ASSUME NEW c \in Callers, Continue(c)
      PROVE  ApprovalInv'
  <2> DEFINE start == IF call[c].seen.node < Last THEN call[c].seen.node + 1 ELSE 0
             l == [Idle EXCEPT !.pc = "loop", !.answer = call[c].answer, !.ticket = 0,
                     !.state = call[c].seen.snap, !.at = IF start = 0 THEN 1 ELSE start,
                     !.active = IF start = 0 THEN Entries ELSE {start}]
  <2>1. call' = [call EXCEPT ![c] = l]
    BY <1>8 DEF Continue, EnterRun
  <2>2. l.ticket = 0
    BY DEF Idle
  <2>3. UNCHANGED <<log, pending, pauses, approvedBy>>
    BY <1>8 DEF Continue, store, history
  <2> HIDE DEF l
  <2> QED BY <2>1, <2>2, <2>3, QuietStep
<1>9. ASSUME NEW c \in Callers, LookUp(c) \/ RunBody(c) \/ SaveResult(c)
      PROVE  ApprovalInv'
  <2>1. InNode(c) /\ UNCHANGED <<log, pending, pauses, approvedBy>>
    BY <1>9 DEF LookUp, RunBody, SaveResult, InNode, InNodeAt, store, history
  <2>2. \E pc \in InNodeAt : Move(c, pc)
    BY <1>9 DEF LookUp, RunBody, SaveResult, InNodeAt
  <2> QED BY <2>1, <2>2, QuietMove
<1>10. ASSUME NEW c \in Callers, PauseConflict(c) \/ NoHandler(c)
       PROVE  ApprovalInv'
  <2>1. Move(c, "end") /\ UNCHANGED <<log, pending, pauses, approvedBy>>
    BY <1>10 DEF PauseConflict, NoHandler, store, history
  <2> QED BY <2>1, QuietMove
<1>11. ASSUME NEW c \in Callers, Reject(c) \/ Complete(c) \/ Fail(c)
       PROVE  ApprovalInv'
  <2>1. UNCHANGED <<log, pending, pauses, approvedBy>>
    BY <1>11 DEF Reject, Complete, Fail, store, history
  <2>2. \E end \in {"completed", "failed"} :
          call' = [call EXCEPT ![c] = [@ EXCEPT !.pc = "end", !.end = end]]
    BY <1>11 DEF Reject, Complete, Fail
  <2> QED BY <2>1, <2>2, QuietEnd
<1>12. ASSUME NEW c \in Callers, Crash(c) \/ LoseMarker(c)
       PROVE  ApprovalInv'
  BY <1>12, QuietReturn DEF Crash, LoseMarker, store, history
<1> QED
  BY <1>1, <1>2, <1>3, <1>5, <1>6, <1>7, <1>8, <1>9, <1>10, <1>11, <1>12,
     ClaimStep, EnterNodeStep, PauseStep, CommitStep, MarkEndStep DEF Next, Step

\* However many calls answer, retry or crash, and whatever the chain is: an approval is in
\* one hand at a time (delete_pending_interrupt_atomic and the resume token of the first
\* node), which is the inductive half of the next theorem.
THEOREM ApprovalsStayInOneHand == Spec => []ApprovalInOneHand
<1>1. ApprovalInv => ApprovalInOneHand
  BY DEF ApprovalInv
<1> QED
  BY <1>1, TypeInit, TypeNext, ApprovalInit, ApprovalNext, PTL DEF Spec

\* A step behind an interrupt() has a checkpoint only under an approval of its own pause,
\* and no approval lets two steps through.
THEOREM GatedStepsApproved == Spec => []EveryGatedStepApproved
<1>1. ApprovalInv => EveryGatedStepApproved
  BY DEF ApprovalInv
<1> QED
  BY <1>1, TypeInit, TypeNext, ApprovalInit, ApprovalNext, PTL DEF Spec

----------------------------------------------------------------------------
(* The pending row and its claim implement Approval *)

Requests == [t \in DOMAIN pauses |-> Phase(t)]

\* A pause's number is in DOMAIN pauses and is not 0, the number of no pause.
LEMMA TicketsAreNumbers ==
    ASSUME TypeOK, ApprovalInv
    PROVE  /\ 0 \notin DOMAIN pauses /\ NoPending.ticket = 0
           /\ \A c \in Callers : call[c].ticket # 0 =>
                /\ call[c].ticket \in DOMAIN pauses
                /\ ~Spent(call[c].ticket) /\ pending.ticket # call[c].ticket
                /\ \A d \in Callers : call[d].ticket = call[c].ticket => d = c
<1>1. 0 \notin DOMAIN pauses /\ NoPending.ticket = 0
  BY DEF TypeOK, NoPending
<1>2. pending.ticket # 0 => pending # NoPending
  BY <1>1
<1> QED BY <1>1, <1>2 DEF ApprovalInv, ApprovalInOneHand, HoldsRightly

\* A step that changes who holds, has and has spent approvals in no way is a stutter.
LEMMA KeepingStutters ==
    ASSUME TypeOK, NEW c \in Callers, NEW l,
           UNCHANGED <<pending, pauses, approvedBy>>,
           call' = [call EXCEPT ![c] = l], l.ticket = call[c].ticket
    PROVE  UNCHANGED Requests
<1>1. \A d \in Callers : call'[d].ticket = call[d].ticket
  BY DEF TypeOK
<1>2. \A t : Phase(t)' = Phase(t)
  BY <1>1 DEF Phase, Spent
<1> QED BY <1>2 DEF Requests

\* A call that lets go of its approval has spent it, if it wrote a row under it, or
\* loses it; a call that holds none changes nothing.
LEMMA DroppingSpendsOrLoses ==
    ASSUME TypeOK, ApprovalInv, NEW c \in Callers, NEW l,
           UNCHANGED <<pending, pauses>>,
           call' = [call EXCEPT ![c] = l], l.ticket = 0,
           \A u \in DOMAIN pauses : u # call[c].ticket => (Spent(u)' <=> Spent(u))
    PROVE  [Gate!Next]_Requests
<1> DEFINE t == call[c].ticket
<1>1. call'[c] = l /\ \A d \in Callers : d # c => call'[d] = call[d]
  BY DEF TypeOK
<1>2. \A u \in DOMAIN pauses : u # t => Phase(u)' = Phase(u)
  <2> SUFFICES ASSUME NEW u \in DOMAIN pauses, u # t PROVE Phase(u)' = Phase(u)
    OBVIOUS
  <2>1. u # 0
    BY TicketsAreNumbers
  <2>2. (\E d \in Callers : call'[d].ticket = u) <=> (\E d \in Callers : call[d].ticket = u)
    BY <1>1, <2>1
  <2> QED BY <2>2 DEF Phase, Spent
<1>3. CASE t = 0
  <2>1. \A u \in DOMAIN pauses : u # t
    BY <1>3, TicketsAreNumbers
  <2> QED BY <1>2, <2>1 DEF Requests
<1>4. CASE t # 0
  <2>1. /\ t \in DOMAIN pauses /\ pending.ticket # t
        /\ \A d \in Callers : call[d].ticket = t => d = c
    BY <1>4, TicketsAreNumbers
  <2>2. Phase(t) = "granted"
    BY <2>1 DEF Phase
  <2>3. \A d \in Callers : call'[d].ticket # t
    BY <1>1, <1>4, <2>1
  <2> DEFINE after == IF \E i \in DOMAIN approvedBy' : approvedBy'[i] = t
                      THEN "spent" ELSE "lost"
             phase == [u \in DOMAIN pauses |->
                         CASE pending'.ticket = u -> "open"
                           [] pending'.ticket # u /\ (\E d \in Callers : call'[d].ticket = u)
                                -> "granted"
                           [] OTHER -> IF \E i \in DOMAIN approvedBy' : approvedBy'[i] = u
                                       THEN "spent" ELSE "lost"]
  <2>4. Requests' = phase
    BY DEF Requests, Phase, Spent
  <2>5. phase[t] = after
    BY <2>1, <2>3
  <2>6. \A u \in DOMAIN pauses : u # t => phase[u] = Phase(u)
    BY <1>2 DEF Phase, Spent
  <2>7. Requests' = [Requests EXCEPT ![t] = after] /\ Requests[t] = "granted"
    <3> HIDE DEF after
    <3>1. phase = [Requests EXCEPT ![t] = after]
      <4> DEFINE q == [Requests EXCEPT ![t] = after]
      <4>1. DOMAIN q = DOMAIN pauses /\ DOMAIN phase = DOMAIN pauses
        BY DEF Requests
      <4>2. \A u \in DOMAIN pauses : phase[u] = q[u]
        BY <2>1, <2>5, <2>6 DEF Requests
      <4>3. /\ phase = [u \in DOMAIN pauses |-> phase[u]]
            /\ q = [u \in DOMAIN pauses |-> q[u]]
        BY <4>1 DEF Requests
      <4> HIDE DEF phase, q
      <4>4. phase = q
        BY <4>2, <4>3
      <4> QED BY <4>4 DEF q
    <3> QED BY <2>1, <2>2, <2>4, <3>1 DEF Requests
  <2>8. t \in DOMAIN Requests /\ after \in {"spent", "lost"}
    BY <2>1 DEF Requests
  <2> HIDE DEF after, phase, t
  <2>9. Gate!Spend(t) \/ Gate!Lose(t)
    BY <2>7, <2>8 DEF Gate!Spend, Gate!Lose, Requests
  <2> QED BY <2>8, <2>9 DEF Gate!Next, Requests
<1> QED BY <1>3, <1>4

\* The call that deletes the pending row is granted what the row asked for.
LEMMA ClaimGrants ==
    ASSUME TypeOK, ApprovalInv, NEW c \in Callers, Claim(c), pending # NoPending
    PROVE  Gate!Next
<1> DEFINE t == pending.ticket
           l == [Idle EXCEPT !.pc = "loop", !.answer = call[c].answer,
                   !.ticket = pending.ticket, !.state = call[c].seen.snap,
                   !.at = IF pending.node = 0 THEN 1 ELSE pending.node,
                   !.active = IF pending.node = 0 THEN Entries ELSE {pending.node}]
<1>1. /\ call' = [call EXCEPT ![c] = l] /\ pending' = NoPending
      /\ UNCHANGED <<pauses, approvedBy>>
  BY DEF Claim, EnterRun, history
<1>2. l.ticket = t
  BY DEF Idle
<1> HIDE DEF l
<1>3. call'[c].ticket = t /\ \A d \in Callers : d # c => call'[d] = call[d]
  BY <1>1, <1>2 DEF TypeOK
<1>4. t \in DOMAIN pauses /\ 0 \notin DOMAIN pauses /\ NoPending.ticket = 0
  BY TicketsAreNumbers DEF ApprovalInv, ApprovalInOneHand
<1>5. call[c].ticket = 0
  BY DEF Claim, ApprovalInv, ApprovalInOneHand, HoldsRightly, RunningAt, InNodeAt
<1>6. Requests[t] = "open"
  BY <1>4 DEF Requests, Phase
<1> DEFINE phase == [u \in DOMAIN pauses |->
                       CASE pending'.ticket = u -> "open"
                         [] pending'.ticket # u /\ (\E d \in Callers : call'[d].ticket = u)
                              -> "granted"
                         [] OTHER -> IF \E i \in DOMAIN approvedBy' : approvedBy'[i] = u
                                     THEN "spent" ELSE "lost"]
           granted == [Requests EXCEPT ![t] = "granted"]
<1>7. Requests' = phase
  BY <1>1 DEF Requests, Phase, Spent
<1>8. \A u \in DOMAIN pauses : pending'.ticket # u
  BY <1>1, <1>4
<1>9. phase[t] = "granted"
  BY <1>3, <1>4, <1>8
<1>10. \A u \in DOMAIN pauses : u # t => phase[u] = Phase(u)
  <2> SUFFICES ASSUME NEW u \in DOMAIN pauses, u # t PROVE phase[u] = Phase(u)
    OBVIOUS
  <2>1. (\E d \in Callers : call'[d].ticket = u) <=> (\E d \in Callers : call[d].ticket = u)
    BY <1>3, <1>4, <1>5
  <2>2. pending.ticket # u /\ pending'.ticket # u
    BY <1>8
  <2> QED BY <1>1, <2>1, <2>2 DEF Phase, Spent
<1>11. phase = granted
  <2>1. DOMAIN phase = DOMAIN pauses /\ DOMAIN granted = DOMAIN pauses
    BY DEF Requests
  <2>2. \A u \in DOMAIN pauses : phase[u] = granted[u]
    <3> HIDE DEF phase, t
    <3> QED BY <1>4, <1>9, <1>10 DEF Requests
  <2>3. /\ phase = [u \in DOMAIN pauses |-> phase[u]]
        /\ granted = [u \in DOMAIN pauses |-> granted[u]]
    BY <2>1 DEF Requests
  <2> HIDE DEF phase, granted
  <2> QED BY <2>2, <2>3
<1> HIDE DEF phase, t
<1>12. Gate!Grant(t)
  BY <1>6, <1>7, <1>11 DEF Gate!Grant, Requests
<1>13. t \in DOMAIN Requests
  BY <1>4 DEF Requests
<1> QED BY <1>12, <1>13 DEF Gate!Next, Requests

\* A request is in one of the phases of Approval.
LEMMA PhasesArePhases == ASSUME NEW t PROVE Phase(t) \in Gate!Phase
BY DEF Phase, Gate!Phase

\* A node that suspends the run asks for an approval, when none is asked for.
LEMMA PauseAsks ==
    ASSUME TypeOK, ApprovalInv, NEW c \in Callers, Pause(c)
    PROVE  Gate!Next
<1> DEFINE t == Len(pauses) + 1
           phase == [u \in 1..t |-> IF u = t THEN "open" ELSE Phase(u)]
<1>1. /\ DOMAIN pauses = 1..Len(pauses) /\ DOMAIN pauses' = 1..t
      /\ t \in Nat \ {0} /\ Len(pauses) \in Nat
      /\ pending = NoPending /\ pending'.ticket = t
      /\ call[c].ticket = 0 /\ call' = [call EXCEPT ![c] = Idle]
      /\ approvedBy' = Append(approvedBy, 0)
  BY DEF Pause, Return, TypeOK
<1>2. call'[c].ticket = 0 /\ \A d \in Callers : d # c => call'[d] = call[d]
  BY <1>1 DEF TypeOK, Idle
<1>3. \A u : u # 0 => (Spent(u)' <=> Spent(u))
  <2> DEFINE k == Len(approvedBy) + 1
  <2>1. /\ DOMAIN approvedBy' = DOMAIN approvedBy \cup {k} /\ approvedBy'[k] = 0
        /\ \A i \in DOMAIN approvedBy : i # k /\ approvedBy'[i] = approvedBy[i]
    BY <1>1 DEF TypeOK
  <2> QED BY <2>1 DEF Spent
<1>4. \A u \in DOMAIN pauses : Requests[u] # "open"
  <2>1. \A u \in DOMAIN pauses : pending.ticket # u
    BY <1>1, TicketsAreNumbers
  <2> QED BY <2>1 DEF Requests, Phase
<1>5. \A u \in DOMAIN pauses : Phase(u)' = Phase(u)
  <2> SUFFICES ASSUME NEW u \in DOMAIN pauses PROVE Phase(u)' = Phase(u)
    OBVIOUS
  <2>1. u # 0 /\ pending.ticket # u /\ pending'.ticket # u
    BY <1>1, TicketsAreNumbers
  <2>2. (\E d \in Callers : call'[d].ticket = u) <=> (\E d \in Callers : call[d].ticket = u)
    BY <1>1, <1>2, <2>1
  <2>3. Spent(u)' <=> Spent(u)
    BY <1>3, <2>1
  <2> QED BY <2>1, <2>2, <2>3 DEF Phase
<1>6. Requests' = phase
  <2>1. Requests' = [u \in 1..t |-> CASE pending'.ticket = u -> "open"
                        [] pending'.ticket # u /\ (\E d \in Callers : call'[d].ticket = u)
                             -> "granted"
                        [] OTHER -> IF \E i \in DOMAIN approvedBy' : approvedBy'[i] = u
                                    THEN "spent" ELSE "lost"]
    BY <1>1 DEF Requests, Phase, Spent
  <2>2. \A u \in 1..t : u = t \/ u \in DOMAIN pauses
    BY <1>1
  <2> HIDE DEF t
  <2> QED BY <1>1, <1>5, <2>1, <2>2 DEF Phase, Spent
<1>7. phase = Append(Requests, "open")
  <2>1. Requests \in Seq(Gate!Phase) /\ Len(Requests) = Len(pauses)
    BY <1>1, PhasesArePhases DEF Requests
  <2>2. "open" \in Gate!Phase
    BY DEF Gate!Phase
  <2>3. Append(Requests, "open") =
          [u \in 1..t |-> IF u = t THEN "open" ELSE Requests[u]]
    <3> DEFINE a == Append(Requests, "open")
    <3>1. a \in Seq(Gate!Phase) /\ Len(a) = t /\ a[t] = "open"
          /\ \A u \in 1..Len(pauses) : a[u] = Requests[u]
      BY <2>1, <2>2
    <3>2. a = [u \in 1..t |-> a[u]]
      <4> HIDE DEF a, t
      <4>1. DOMAIN a = 1..Len(a) /\ a = [u \in DOMAIN a |-> a[u]]
        BY <3>1
      <4> QED BY <3>1, <4>1
    <3>3. \A u \in 1..t : a[u] = IF u = t THEN "open" ELSE Requests[u]
      BY <1>1, <3>1
    <3> HIDE DEF a, t
    <3>4. a = [u \in 1..t |-> IF u = t THEN "open" ELSE Requests[u]]
      BY <3>2, <3>3
    <3> QED BY <3>4 DEF a
  <2>4. \A u \in 1..t : u # t => Requests[u] = Phase(u)
    BY <1>1 DEF Requests
  <2> HIDE DEF t
  <2> QED BY <2>3, <2>4
<1>8. Gate!Ask
  BY <1>1, <1>4, <1>6, <1>7 DEF Gate!Ask, Requests
<1> QED BY <1>8 DEF Gate!Next

\* Every step of a run is a step of Approval or a stutter.
LEMMA StepImplements ==
    ASSUME TypeOK, ApprovalInv, [Next]_vars
    PROVE  [Gate!Next]_Requests
<1>1. CASE UNCHANGED vars
  BY <1>1 DEF vars, store, history, Requests, Phase, Spent
<1>2. ASSUME NEW c \in Callers, NEW l,
             UNCHANGED <<pending, pauses, approvedBy>>,
             call' = [call EXCEPT ![c] = l], l.ticket \in {0, call[c].ticket}
      PROVE  [Gate!Next]_Requests
  <2>1. \A u : Spent(u)' <=> Spent(u)
    BY <1>2 DEF Spent
  <2>2. CASE l.ticket = 0
    BY <1>2, <2>1, <2>2, DroppingSpendsOrLoses
  <2>3. CASE l.ticket = call[c].ticket
    BY <1>2, <2>3, KeepingStutters
  <2> QED BY <1>2, <2>2, <2>3
<1>3. ASSUME NEW c \in Callers, Execute(c) \/ (\E answer \in BOOLEAN : Resume(c, answer))
      PROVE  [Gate!Next]_Requests
  BY <1>2, <1>3 DEF Execute, Resume, Idle, store
<1>4. ASSUME NEW c \in Callers, Return(c), UNCHANGED <<pending, pauses, approvedBy>>
      PROVE  [Gate!Next]_Requests
  BY <1>2, <1>4 DEF Return, Idle
<1>5. ASSUME NEW c \in Callers, NEW pc, Move(c, pc), UNCHANGED <<pending, pauses, approvedBy>>
      PROVE  [Gate!Next]_Requests
  <2> DEFINE l == [call[c] EXCEPT !.pc = pc]
  <2>1. call[c] \in Locals
    BY DEF TypeOK, Calls
  <2>2. l.ticket = call[c].ticket /\ call' = [call EXCEPT ![c] = l]
    BY <1>5, <2>1 DEF Move, Locals
  <2> HIDE DEF l
  <2> QED BY <1>2, <1>5, <2>2
<1>6. ASSUME NEW c \in Callers, ReadLatest(c) \/ ReadHistory(c)
      PROVE  [Gate!Next]_Requests
  <2>1. UNCHANGED <<pending, pauses, approvedBy>>
    BY <1>6 DEF ReadLatest, ReadHistory, store, history
  <2>2. \/ Return(c) \/ Move(c, "history")
        \/ \E row : call' = [call EXCEPT ![c] = [@ EXCEPT !.seen = row, !.pc = "claim"]]
    BY <1>6 DEF ReadLatest, ReadHistory
  <2>3. CASE Return(c) \/ Move(c, "history")
    BY <1>4, <1>5, <2>1, <2>3
  <2>4. ASSUME NEW row,
               call' = [call EXCEPT ![c] = [@ EXCEPT !.seen = row, !.pc = "claim"]]
        PROVE  [Gate!Next]_Requests
    <3> DEFINE l == [call[c] EXCEPT !.seen = row, !.pc = "claim"]
    <3>1. call[c] \in Locals
      BY DEF TypeOK, Calls
    <3>2. l.ticket = call[c].ticket /\ call' = [call EXCEPT ![c] = l]
      BY <2>4, <3>1 DEF Locals
    <3> HIDE DEF l
    <3> QED BY <1>2, <2>1, <3>2
  <2> QED BY <2>2, <2>3, <2>4
<1>7. ASSUME NEW c \in Callers, Claim(c)
      PROVE  [Gate!Next]_Requests
  BY <1>4, <1>7, ClaimGrants DEF Claim, history
<1>8. ASSUME NEW c \in Callers, Continue(c)
      PROVE  [Gate!Next]_Requests
  <2> DEFINE start == IF call[c].seen.node < Last THEN call[c].seen.node + 1 ELSE 0
             l == [Idle EXCEPT !.pc = "loop", !.answer = call[c].answer, !.ticket = 0,
                     !.state = call[c].seen.snap, !.at = IF start = 0 THEN 1 ELSE start,
                     !.active = IF start = 0 THEN Entries ELSE {start}]
  <2>1. call' = [call EXCEPT ![c] = l]
    BY <1>8 DEF Continue, EnterRun
  <2>2. l.ticket = 0
    BY DEF Idle
  <2>3. UNCHANGED <<pending, pauses, approvedBy>>
    BY <1>8 DEF Continue, store, history
  <2> HIDE DEF l
  <2> QED BY <1>2, <2>1, <2>2, <2>3
<1>9. ASSUME NEW c \in Callers, EnterNode(c)
      PROVE  [Gate!Next]_Requests
  <2>1. PICK n \in Firsts(Due(c)) :
          call' = [call EXCEPT ![c] =
                     [@ EXCEPT !.at = n, !.pc = IF n \in Charges THEN "lookup" ELSE "node"]]
    BY <1>9 DEF EnterNode
  <2> DEFINE pc == IF n \in Charges THEN "lookup" ELSE "node"
             l == [call[c] EXCEPT !.at = n, !.pc = pc]
  <2>2. call[c] \in Locals
    BY DEF TypeOK, Calls
  <2>3. l.ticket = call[c].ticket /\ call' = [call EXCEPT ![c] = l]
    BY <2>1, <2>2 DEF Locals
  <2>4. UNCHANGED <<pending, pauses, approvedBy>>
    BY <1>9 DEF EnterNode, store, history
  <2> HIDE DEF l
  <2> QED BY <1>2, <2>3, <2>4
<1>10. ASSUME NEW c \in Callers,
              \/ LookUp(c) \/ RunBody(c) \/ SaveResult(c) \/ PauseConflict(c) \/ NoHandler(c)
       PROVE  [Gate!Next]_Requests
  <2>1. UNCHANGED <<pending, pauses, approvedBy>> /\ \E pc \in RunningAt : Move(c, pc)
    BY <1>10 DEF LookUp, RunBody, SaveResult, PauseConflict, NoHandler, store, history,
       RunningAt, InNodeAt
  <2> QED BY <1>5, <2>1
<1>11. ASSUME NEW c \in Callers, Reject(c) \/ Complete(c) \/ Fail(c)
       PROVE  [Gate!Next]_Requests
  <2>1. /\ UNCHANGED <<pending, pauses, approvedBy>>
        /\ \E end \in {"completed", "failed"} :
             call' = [call EXCEPT ![c] = [@ EXCEPT !.pc = "end", !.end = end]]
    BY <1>11 DEF Reject, Complete, Fail, store, history
  <2>2. PICK end \in {"completed", "failed"} :
          call' = [call EXCEPT ![c] = [@ EXCEPT !.pc = "end", !.end = end]]
    BY <2>1
  <2> DEFINE l == [call[c] EXCEPT !.pc = "end", !.end = end]
  <2>3. call[c] \in Locals
    BY DEF TypeOK, Calls
  <2>4. l.ticket = call[c].ticket /\ call' = [call EXCEPT ![c] = l]
    BY <2>2, <2>3 DEF Locals
  <2> HIDE DEF l
  <2> QED BY <1>2, <2>1, <2>4
<1>12. ASSUME NEW c \in Callers, Refuse(c) \/ Crash(c) \/ LoseMarker(c)
       PROVE  [Gate!Next]_Requests
  BY <1>4, <1>12 DEF Refuse, Crash, LoseMarker, store, history
<1>13. ASSUME NEW c \in Callers, NEW t \in {0, call[c].ticket},
              approvedBy' = Append(approvedBy, t), NEW l,
              UNCHANGED <<pending, pauses>>, call' = [call EXCEPT ![c] = l], l.ticket = 0
       PROVE  [Gate!Next]_Requests
  <2> DEFINE k == Len(approvedBy) + 1
  <2>1. t \in Nat
    BY DEF TypeOK, Calls, Locals
  <2>2. /\ DOMAIN approvedBy' = DOMAIN approvedBy \cup {k} /\ approvedBy'[k] = t
        /\ \A i \in DOMAIN approvedBy : i # k /\ approvedBy'[i] = approvedBy[i]
    BY <1>13, <2>1 DEF TypeOK
  <2> HIDE DEF k
  <2>3. \A u : u # t => (Spent(u)' <=> Spent(u))
    BY <2>2 DEF Spent
  <2>4. \A u \in DOMAIN pauses : u # call[c].ticket => u # t
    BY TicketsAreNumbers
  <2> QED BY <1>13, <2>3, <2>4, DroppingSpendsOrLoses
<1>14. ASSUME NEW c \in Callers, Commit(c)
       PROVE  [Gate!Next]_Requests
  <2> DEFINE n == call[c].at
             state == call[c].state \cup {n}
             t == IF n \in Pauses THEN call[c].ticket ELSE 0
  <2>1. PICK selected \in Selections(n) :
          call' = [call EXCEPT ![c] =
            [@ EXCEPT !.state = state, !.ticket = 0, !.at = n + 1,
                      !.active = call[c].active \cup selected,
                      !.pc = IF RoutingFails(n, selected) THEN "end" ELSE "loop"]]
    BY <1>14 DEF Commit
  <2> DEFINE l == [call[c] EXCEPT !.state = state, !.ticket = 0, !.at = n + 1,
                     !.active = call[c].active \cup selected,
                     !.pc = IF RoutingFails(n, selected) THEN "end" ELSE "loop"]
  <2>2. call[c] \in Locals
    BY DEF TypeOK, Calls
  <2>3. l.ticket = 0 /\ call' = [call EXCEPT ![c] = l]
    BY <2>1, <2>2 DEF Locals
  <2>4. UNCHANGED <<pending, pauses>> /\ approvedBy' = Append(approvedBy, t)
    BY <1>14 DEF Commit
  <2>5. t \in {0, call[c].ticket}
    OBVIOUS
  <2> HIDE DEF l, t
  <2> QED BY <1>13, <2>3, <2>4, <2>5
<1>15. ASSUME NEW c \in Callers, MarkEnd(c)
       PROVE  [Gate!Next]_Requests
  <2>1. /\ UNCHANGED <<pending, pauses>> /\ approvedBy' = Append(approvedBy, 0)
        /\ call' = [call EXCEPT ![c] = Idle] /\ Idle.ticket = 0
    BY <1>15 DEF MarkEnd, Return, Idle
  <2> QED BY <1>13, <2>1
<1> QED
  BY <1>1, <1>3, <1>6, <1>7, <1>8, <1>9, <1>10, <1>11, <1>12, <1>14, <1>15, PauseAsks
     DEF Next, Step

\* The pending_interrupts row and its atomic claim keep the promise of Approval: a request
\* is granted to one resumer, and what is granted is spent once or lost, never reopened.
THEOREM PendingRowImplementsApproval == Spec => ImplementsApproval
<1>1. Init => Gate!Init
  BY DEF Init, Gate!Init
<1>2. TypeOK /\ ApprovalInv /\ [Next]_vars => [Gate!Next]_Requests
  BY StepImplements
<1>3. TypeOK /\ TypeOK' /\ ApprovalInv /\ [Next]_vars => ApprovalInv'
  BY ApprovalNext
<1> QED
  BY <1>1, <1>2, <1>3, TypeInit, TypeNext, ApprovalInit, PTL
     DEF Spec, ImplementsApproval, Gate!Spec, Requests
=============================================================================
