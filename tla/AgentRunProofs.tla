--------------------------- MODULE AgentRunProofs ---------------------------
(***************************************************************************)
(* Theorems about AgentRun, for any number of callers, tools and turns and *)
(* any number of crashes: what a resumed run may do again, whom an answer  *)
(* reaches, and that a gated tool runs under an approval only.             *)
(***************************************************************************)
EXTENDS AgentRun, TLAPS

----------------------------------------------------------------------------
(* The inductive invariant *)

\* A call that has claimed a pause, or does not answer one.
Works(c) == call[c].pc \notin {"idle", "claim"}

\* A call that is in the run, or has been and is about to end.
Reading == {"latest", "history", "scoped"}
Runs(c) == Works(c) /\ call[c].pc \notin Reading

\* One call at a time reads and writes rows and runs tools, and none while a pause waits.
OneWorks ==
    /\ \A c, d \in Callers : Works(c) /\ Works(d) => c = d
    /\ \A c, d \in Callers : Live(c) /\ ~call[c].answer /\ Live(d) => c = d
    /\ calls = 0 => log = <<>> /\ pending = NoPending /\ \A c \in Callers : ~Live(c)
    /\ \A c \in Callers :
         /\ call[c].pc = "claim" => call[c].answer
         /\ call[c].pc = "latest" => ~call[c].answer
         /\ call[c].pc = "scoped" => call[c].ticket # 0
         /\ call[c].pc \in {"idle", "claim", "latest", "history"} => call[c].ticket = 0
         /\ call[c].pc \in {"idle", "claim", "mark"} \cup Reading => call[c].fresh = {}
         /\ \A x \in call[c].fresh : runs[x] >= 1
         /\ pending # NoPending /\ Works(c) => call[c].pc = "latest"

\* There is a turn left where a tool may run, and the call to run is known.
TurnLeft ==
    /\ tools <= MaxTools
    /\ \A c \in Callers :
         /\ call[c].pc \in {"model", "tool", "call", "retool"} => call[c].turn < MaxIter
         /\ call[c].pc \in {"call", "retool"} =>
              call[c].call \in call[c].msgs.asked \ call[c].msgs.told
         /\ call[c].pc = "call" => call[c].ticket = 0
    /\ \A i \in DOMAIN log :
         /\ log[i].status = "interrupted" => log[i].kind = "tool"
         /\ log[i].kind = "tool" => /\ log[i].turn < MaxIter
                                    /\ log[i].call \in log[i].msgs.asked \ log[i].msgs.told

\* The pause that an answer can claim, or has claimed, is the last one, and its row is the
\* last that an interrupted run has.
LastPause(i) ==
    /\ i \in Interrupted
    /\ \A j \in Interrupted : j <= i /\ log[j].turn <= log[i].turn
    /\ [call |-> log[i].call, msgs |-> log[i].msgs] = pauses[Len(pauses)]
PauseIsLast ==
    /\ IF pauses = <<>> THEN Interrupted = {} ELSE \E i \in DOMAIN log : LastPause(i)
    /\ pending # NoPending => /\ pending.ticket = Len(pauses) /\ pending.ticket # 0
                              /\ log[Len(log)].status = "interrupted"
    /\ \A c \in Callers :
         /\ call[c].ticket # 0 => call[c].ticket = Len(pauses)
         /\ call[c].pc = "scoped" => log[Len(log)].status = "interrupted"
    /\ spent \subseteq 1..Len(pauses)
    /\ Len(pauses) \in spent => /\ pending = NoPending
                                /\ \A c \in Callers : call[c].ticket = 0

\* An answered pause is spent with a row behind it.
SpentIsBehind ==
    Len(pauses) \in spent => Finished \/ \E j \in Steps : \A i \in Interrupted : i < j

\* Of the rows of the loop, one is the last: the one latest_resumable steps back to.
SomeLast == Steps # {} => LastOf(Steps) # {}

\* No row of the loop, and no call in it, falls behind a pause that was recorded before.
TurnsPassPauses ==
    \A i \in Interrupted :
      /\ \A j \in Steps : i < j => log[i].turn <= log[j].turn
      /\ \A c \in Callers : Runs(c) =>
           log[i].turn <= call[c].turn /\ log[i].turn <= call[c].past

\* Where the model may be asked next, every call is answered.
AtRest == AtTurn \cup {"model", "finish", "loopend"}
RestsBalanced ==
    ~cut => /\ \A c \in Callers : call[c].pc \in AtRest => Balanced(call[c].msgs)
            /\ \A i \in DOMAIN log : log[i].kind = "turn" => Balanced(log[i].msgs)

\* The completed marker is the last row, and whoever is left can only be refused.
FinishedForGood ==
    Finished => /\ log[Len(log)].kind = "end" /\ log[Len(log)].status = "completed"
                /\ pending = NoPending
                /\ \A c \in Callers : call[c].pc \in {"idle", "claim", "latest"}

\* An answered call is one that the model asked for, and that is counted.
Sound(m, n) == m.told \subseteq m.asked /\ \A x \in m.asked : x.id <= n
CallsAreAsked ==
    /\ \A c \in Callers : Sound(call[c].msgs, tools)
    /\ \A i \in DOMAIN log :
         Sound(log[i].msgs, tools) /\ (log[i].kind = "end" => log[i].msgs = NoMessages)

\* The rows that hold the result of tool call x, and those that still wait for it.
Told(x) == {i \in DOMAIN log : x \in log[i].msgs.told}
Waiting(x) == {i \in DOMAIN log : x \in Unanswered(log[i].msgs)}

\* The rows that wait for a result are of one turn, and before those that hold it in the
\* order of list() as well as in that of insertion.
Abreast(c, x, turn) ==
    /\ x \in Unanswered(call[c].msgs) /\ call[c].pc # "mark" => turn = call[c].turn
    /\ x \in call[c].msgs.told => turn <= call[c].turn /\ turn <= call[c].past
ResultsComeLater ==
    ~cut => \A x \in ToolCall : \A i \in Waiting(x) :
      /\ \A j \in Waiting(x) : log[i].turn = log[j].turn
      /\ \A j \in Told(x) : i < j /\ log[i].turn <= log[j].turn
      /\ \A c \in Callers : Runs(c) => Abreast(c, x, log[i].turn)

\* A tool call that ran has its result in a row, or in the locals of the call that ran it.
RunsAreTold ==
    ~cut => /\ \A x \in ToolCall : runs[x] # 0 =>
                 /\ runs[x] = 1
                 /\ \/ Told(x) # {} \/ Finished \/ \E c \in Callers : x \in call[c].fresh
            /\ \A c \in Callers :
                 /\ call[c].fresh \subseteq call[c].msgs.told
                 /\ \A x \in call[c].fresh : Told(x) = {}
                 /\ Runs(c) /\ call[c].pc # "mark" =>
                      \A x \in Unanswered(call[c].msgs) : Told(x) = {}

Inv == /\ TypeOK /\ OneWorks /\ TurnLeft /\ PauseIsLast /\ TurnsPassPauses /\ RestsBalanced
       /\ FinishedForGood /\ CallsAreAsked /\ ResultsComeLater /\ RunsAreTold
       /\ AnswerResumesItsPause /\ SpentIsBehind /\ SomeLast

----------------------------------------------------------------------------
(* What a step of a call does, in the terms of the invariant *)

OnlyCall(c) == \A d \in Callers \ {c} : call'[d] = call[d]
KeepsPlace(c) == /\ call'[c].turn = call[c].turn /\ call'[c].past = call[c].past
                 /\ call'[c].msgs = call[c].msgs
KeepsClaim(c) == call'[c].answer = call[c].answer /\ call'[c].ticket = call[c].ticket
KeepsFresh(c) == call'[c].fresh = call[c].fresh

Begins(c) ==
    /\ ~Live(c) /\ OnlyCall(c) /\ UNCHANGED <<store, tools, history>> /\ calls' # 0
    /\ \A d \in Callers : Live(d) => call[d].answer /\ call'[c].answer
    /\ \/ call'[c].pc = "enter" /\ ~call'[c].answer /\ calls = 0
       \/ call'[c].pc = "latest" /\ ~call'[c].answer
       \/ call'[c].pc = "claim" /\ call'[c].answer
    /\ call'[c].turn = 0 /\ call'[c].past = 0 /\ call'[c].msgs = NoMessages
    /\ call'[c].ticket = 0 /\ call'[c].fresh = {}

GivesUp(c) ==
    /\ call[c].pc \in {"latest", "history", "claim"}
    /\ call'[c] = Idle /\ OnlyCall(c) /\ UNCHANGED <<store, tools, calls, history>>

LooksBack(c) ==
    /\ call[c].pc = "latest" /\ log # <<>> /\ log[Len(log)].kind = "end"
    /\ log[Len(log)].status = "failed"
    /\ call'[c].pc = "history" /\ KeepsPlace(c) /\ KeepsClaim(c) /\ KeepsFresh(c)
    /\ OnlyCall(c) /\ UNCHANGED <<store, tools, calls, history>>

ReEnters(c, i) ==
    /\ i \in DOMAIN log /\ log[i].kind # "end"
    /\ \/ call[c].pc = "latest" /\ i = Len(log) /\ log[i].status # "interrupted"
       \/ call[c].pc = "history" /\ i \in LastOf(Steps)
       \/ call[c].pc = "scoped" /\ i \in LastOf(Interrupted)
    /\ call'[c].pc = IF log[i].kind = "turn" THEN "enter" ELSE "retool"
    /\ call'[c].turn = log[i].turn /\ call'[c].past = log[i].turn
    /\ call'[c].msgs = log[i].msgs /\ call'[c].call = log[i].call
    /\ KeepsClaim(c) /\ KeepsFresh(c)
    /\ OnlyCall(c) /\ UNCHANGED <<store, tools, calls, history>>

Claims(c) ==
    /\ call[c].pc = "claim" /\ pending # NoPending /\ pending' = NoPending
    /\ call'[c].pc = "scoped" /\ call'[c].ticket = pending.ticket
    /\ call'[c].answer = call[c].answer
    /\ KeepsPlace(c) /\ KeepsFresh(c)
    /\ OnlyCall(c) /\ UNCHANGED <<log, tools, calls, history>>

\* A row of progress: a turn row, the row before a tool, the completed marker.
SavesTurn(c, turn) ==
    /\ \/ call[c].pc \in AtTurn /\ turn = call[c].turn
          /\ \/ turn < MaxIter /\ call'[c].pc = "model"
             \/ turn = MaxIter /\ call'[c].pc = "mark"
       \/ call[c].pc = "loopend" /\ turn = call[c].past /\ call'[c].pc = "mark"
    /\ log' = Append(log, TurnRow(turn, call[c].msgs))
    /\ spent' = spent \cup ({call[c].ticket} \ {0})
    /\ KeepsPlace(c) /\ call'[c].ticket = 0 /\ call'[c].answer = call[c].answer
    /\ call'[c].fresh = {}
    /\ OnlyCall(c) /\ UNCHANGED <<pending, tools, calls, pauses, runs, cut>>
SavesTool(c, row) ==
    /\ call[c].pc = "tool" /\ call'[c].pc = "call" /\ call'[c].call = row.call
    /\ row.call \in Unanswered(call[c].msgs)
    /\ row.kind = "tool" /\ row.status = "completed" /\ row.turn = call[c].turn
    /\ row.msgs = call[c].msgs
    /\ log' = Append(log, row)
    /\ spent' = spent \cup ({call[c].ticket} \ {0})
    /\ KeepsPlace(c) /\ call'[c].ticket = 0 /\ call'[c].answer = call[c].answer
    /\ call'[c].fresh = {}
    /\ OnlyCall(c) /\ UNCHANGED <<pending, tools, calls, pauses, runs, cut>>
Completes(c) ==
    /\ call[c].pc = "finish" /\ call'[c] = Idle
    /\ log' = Append(log, EndRow("completed"))
    /\ spent' = spent \cup ({call[c].ticket} \ {0})
    /\ OnlyCall(c) /\ UNCHANGED <<pending, tools, calls, pauses, runs, cut>>

\* The model's reply.
Asks(c) ==
    /\ call[c].pc = "model" /\ call'[c].pc = "tool"
    /\ tools' > tools /\ tools' <= MaxTools
    /\ \E S \in SUBSET ToolCall :
         /\ \A x \in S : tools < x.id /\ x.id <= tools'
         /\ call'[c].msgs.asked = call[c].msgs.asked \cup S
    /\ call'[c].msgs.told = call[c].msgs.told
    /\ call'[c].turn = call[c].turn /\ call'[c].past = call[c].past
    /\ KeepsClaim(c) /\ KeepsFresh(c)
    /\ OnlyCall(c) /\ UNCHANGED <<store, calls, history>>
Replies(c) ==
    /\ call[c].pc = "model"
    /\ \/ call'[c].pc = "finish" /\ call'[c].turn = call[c].turn
       \/ call'[c].pc = "turn" /\ call'[c].turn = call[c].turn + 1
    /\ call'[c].past \in {call[c].past, call[c].turn + 1} /\ call'[c].msgs = call[c].msgs
    /\ KeepsClaim(c) /\ KeepsFresh(c)
    /\ OnlyCall(c) /\ UNCHANGED <<store, tools, calls, history>>

\* A tool call gets its answer, after its body ran or without.
GetsAnswer(c) ==
    /\ AtCall(c)
    /\ call'[c].past = call[c].turn + 1 /\ call'[c].msgs.asked = call[c].msgs.asked
    /\ \/ /\ call'[c].pc = "tool" /\ call'[c].turn = call[c].turn
          /\ call'[c].msgs.told = call[c].msgs.told \cup {call[c].call}
       \/ /\ call'[c].pc \in {"turn", "rejoin", "finish"}
          /\ call'[c].turn \in {call[c].turn, call[c].turn + 1}
          /\ call'[c].msgs.told = call[c].msgs.asked
    /\ KeepsClaim(c)
    /\ OnlyCall(c) /\ UNCHANGED <<store, tools, calls, pauses, spent, cut>>
Answers(c) == GetsAnswer(c) /\ KeepsFresh(c) /\ UNCHANGED runs
RunsTool(c) ==
    /\ GetsAnswer(c)
    /\ call'[c].fresh = call[c].fresh \cup {call[c].call}
    /\ runs' = [runs EXCEPT ![call[c].call] = @ + 1]

Pauses(c, row) ==
    /\ AtCall(c) /\ call[c].ticket = 0
    /\ row.kind = "tool" /\ row.status = "interrupted" /\ row.turn = call[c].turn
    /\ row.call = call[c].call /\ row.msgs = call[c].msgs
    /\ log' = Append(log, row)
    /\ pauses' = Append(pauses, [call |-> row.call, msgs |-> row.msgs])
    /\ pending' = [call |-> row.call, ticket |-> Len(pauses) + 1]
    /\ call'[c] = Idle /\ OnlyCall(c) /\ UNCHANGED <<tools, calls, spent, runs, cut>>

\* Ends without a row of progress.
StopsEarly(c) ==
    /\ \/ call[c].pc = "enter" /\ UNCHANGED cut
       \/ call[c].pc = "retool" /\ cut'
    /\ call'[c].pc = "finish" /\ KeepsPlace(c) /\ KeepsClaim(c) /\ KeepsFresh(c)
    /\ OnlyCall(c) /\ UNCHANGED <<store, tools, calls, pauses, spent, runs>>
FailsBehind(c) ==
    /\ call[c].pc = "finish" /\ call'[c].pc = "loopend"
    /\ KeepsPlace(c) /\ KeepsClaim(c) /\ KeepsFresh(c)
    /\ OnlyCall(c) /\ UNCHANGED <<store, tools, calls, history>>
Fails(c) ==
    /\ call[c].pc \in InLoop \cup {"enter", "rejoin", "retool", "loopend"}
    /\ Tear(c)
    /\ call'[c].pc = "mark" /\ KeepsPlace(c) /\ KeepsClaim(c) /\ call'[c].fresh = {}
    /\ OnlyCall(c) /\ UNCHANGED <<store, tools, calls, pauses, spent, cut>>
Marks(c) ==
    /\ call[c].pc = "mark" /\ log' = Append(log, EndRow("failed"))
    /\ call'[c] = Idle /\ OnlyCall(c) /\ UNCHANGED <<pending, tools, calls, history>>
Vanishes(c) ==
    /\ Live(c) /\ Tear(c) /\ call'[c] = Idle /\ OnlyCall(c)
    /\ UNCHANGED <<store, tools, calls, pauses, spent, cut>>
NewRow == log'[Len(log')]
Does(c) ==
    \/ Begins(c) \/ GivesUp(c) \/ LooksBack(c) \/ Claims(c)
    \/ (\E i \in DOMAIN log : ReEnters(c, i))
    \/ (\E turn \in 0..MaxIter : SavesTurn(c, turn)) \/ SavesTool(c, NewRow) \/ Completes(c)
    \/ Asks(c) \/ Replies(c) \/ Answers(c) \/ RunsTool(c) \/ Pauses(c, NewRow)
    \/ StopsEarly(c) \/ FailsBehind(c) \/ Fails(c) \/ Marks(c) \/ Vanishes(c)

\* One call gets new locals.
LEMMA Becomes ==
    ASSUME call \in [Callers -> Locals], NEW c \in Callers, NEW l,
           call' = [call EXCEPT ![c] = l]
    PROVE  call'[c] = l /\ OnlyCall(c)
BY DEF OnlyCall

\* What Move, Return, ReEnter and Save do to the caller they are about.
LEMMA MoveDoes ==
    ASSUME call \in [Callers -> Locals], NEW c \in Callers, NEW pc, Move(c, pc)
    PROVE  /\ call'[c].pc = pc /\ KeepsPlace(c) /\ KeepsClaim(c) /\ KeepsFresh(c)
           /\ OnlyCall(c)
<1>1. call' = [call EXCEPT ![c] = [call[c] EXCEPT !.pc = pc]] /\ call[c] \in Locals
  BY DEF Move
<1> QED BY <1>1, Becomes DEF Locals, KeepsPlace, KeepsClaim, KeepsFresh

LEMMA ReturnDoes ==
    ASSUME call \in [Callers -> Locals], NEW c \in Callers, Return(c)
    PROVE  call'[c] = Idle /\ OnlyCall(c)
BY Becomes DEF Return

LEMMA ReEnterDoes ==
    ASSUME call \in [Callers -> Locals], NEW c \in Callers, NEW row, ReEnter(c, row)
    PROVE  /\ call'[c].pc = IF row.kind = "turn" THEN "enter" ELSE "retool"
           /\ call'[c].turn = row.turn /\ call'[c].past = row.turn
           /\ call'[c].msgs = row.msgs /\ call'[c].call = row.call
           /\ KeepsClaim(c) /\ KeepsFresh(c) /\ OnlyCall(c)
<1> DEFINE l == [call[c] EXCEPT !.pc = IF row.kind = "turn" THEN "enter" ELSE "retool",
                                !.turn = row.turn, !.past = row.turn,
                                !.msgs = row.msgs, !.call = row.call]
<1>1. call' = [call EXCEPT ![c] = l]
  BY DEF ReEnter
<1>2. call'[c] = l /\ OnlyCall(c)
  BY <1>1, Becomes
<1>3. call[c] \in Locals
  OBVIOUS
<1> QED BY <1>2, <1>3 DEF Locals, KeepsClaim, KeepsFresh

LEMMA SaveDoes ==
    ASSUME call \in [Callers -> Locals], NEW c \in Callers, NEW row, NEW next \in Locals,
           Save(c, row, next)
    PROVE  /\ log' = Append(log, row) /\ spent' = spent \cup ({call[c].ticket} \ {0})
           /\ call'[c].pc = next.pc /\ call'[c].turn = next.turn /\ call'[c].past = next.past
           /\ call'[c].msgs = next.msgs /\ call'[c].call = next.call
           /\ call'[c].answer = next.answer /\ call'[c].ticket = 0 /\ call'[c].fresh = {}
           /\ OnlyCall(c)
<1>1. call'[c] = [next EXCEPT !.ticket = 0, !.yes = FALSE, !.fresh = {}] /\ OnlyCall(c)
  BY Becomes DEF Save
<1> QED BY <1>1 DEF Save, Locals

\* An answered call: the next one of the turn is up, or everything is answered.
LEMMA AnsweredDoes ==
    ASSUME NEW l \in Locals, l.pc \in {"call", "retool"}, l.call \in l.msgs.asked,
           NEW n \in {Answered(l), StoppedAt(l)}
    PROVE  /\ n.past = l.turn + 1 /\ n.msgs.asked = l.msgs.asked
           /\ \/ /\ n.pc = "tool" /\ n.turn = l.turn
                 /\ n.msgs.told = l.msgs.told \cup {l.call}
              \/ /\ n.pc \in {"turn", "rejoin", "finish"} /\ n.turn \in {l.turn, l.turn + 1}
                 /\ n.msgs.told = l.msgs.asked
           /\ n.answer = l.answer /\ n.ticket = l.ticket /\ n.fresh = l.fresh
<1> DEFINE m == [l.msgs EXCEPT !.told = l.msgs.told \cup {l.call}]
<1>1. /\ l.msgs \in Messages /\ m \in Messages
      /\ m.asked = l.msgs.asked /\ m.told = l.msgs.told \cup {l.call}
  BY DEF Locals, Messages
<1>2. Balance(m) \in Messages /\ Balance(m).asked = m.asked /\ Balance(m).told = m.asked
  BY <1>1 DEF Balance, Messages
<1>3. Balanced(m) <=> m.asked = m.told
  BY DEF Balanced
<1>4. CASE n = StoppedAt(l)
  <2>1. n = [l EXCEPT !.msgs = Balance(m), !.call = NoCall, !.past = l.turn + 1,
                      !.pc = "finish"]
    BY <1>1, <1>4 DEF StoppedAt, Messages
  <2> HIDE DEF m
  <2>2. /\ n.msgs = Balance(m) /\ n.past = l.turn + 1 /\ n.pc = "finish" /\ n.turn = l.turn
        /\ n.answer = l.answer /\ n.ticket = l.ticket /\ n.fresh = l.fresh
    BY <2>1 DEF Locals
  <2> QED BY <1>1, <1>2, <2>2
<1>5. CASE n = Answered(l)
  <2> DEFINE next == IF l.pc = "call" THEN m ELSE Balance(m)
             done == l.pc = "retool" \/ Balanced(m)
             turn == IF done THEN l.turn + 1 ELSE l.turn
             pc == IF l.pc = "retool" THEN "rejoin" ELSE IF done THEN "turn" ELSE "tool"
  <2>1. n = [l EXCEPT !.msgs = next, !.call = NoCall, !.past = l.turn + 1, !.turn = turn,
                      !.pc = pc]
    BY <1>1, <1>5 DEF Answered, Messages
  <2>2. pc = "tool" => next = m /\ turn = l.turn
    OBVIOUS
  <2>3. pc # "tool" => /\ pc \in {"turn", "rejoin"} /\ turn = l.turn + 1
                       /\ next.asked = m.asked /\ next.told = m.asked
    BY <1>2, <1>3
  <2> HIDE DEF m, next, turn, pc
  <2>4. /\ n.msgs = next /\ n.past = l.turn + 1 /\ n.pc = pc /\ n.turn = turn
        /\ n.answer = l.answer /\ n.ticket = l.ticket /\ n.fresh = l.fresh
    BY <2>1 DEF Locals
  <2> QED BY <1>1, <2>2, <2>3, <2>4
<1> QED BY <1>4, <1>5

\* The locals between two calls.
LEMMA IdleIsTyped == Idle \in Locals
BY AgentAssumption DEF Idle, Locals, NoMessages, Messages, NoCall

\* Every step is one of these.
LEMMA StepDoes ==
    ASSUME TypeOK, TurnLeft, [Next]_vars
    PROVE  UNCHANGED vars \/ \E c \in Callers : Does(c)
<1>0. call \in [Callers -> Locals] /\ log \in Seq(Row) /\ \A c \in Callers : call[c] \in Locals
  BY DEF TypeOK
<1> USE DEF store, bounds, history
<1>1. ASSUME NEW c \in Callers, Run(c) PROVE Begins(c)
  <2>1. call'[c] = [Idle EXCEPT !.pc = "enter"] /\ OnlyCall(c)
    BY <1>0, <1>1, Becomes DEF Run
  <2>2. /\ call'[c].pc = "enter" /\ call'[c].turn = 0 /\ call'[c].past = 0 /\ ~call'[c].answer
        /\ call'[c].msgs = NoMessages /\ call'[c].ticket = 0 /\ call'[c].fresh = {}
    BY <2>1 DEF Idle
  <2> QED BY <1>1, <2>1, <2>2 DEF Run, BeginCall, Begins, TypeOK
<1>2. ASSUME NEW c \in Callers, NEW answer \in BOOLEAN, Resume(c, answer) PROVE Begins(c)
  <2>1. /\ OnlyCall(c)
        /\ call'[c] = [Idle EXCEPT !.pc = IF answer THEN "claim" ELSE "latest", !.answer = answer]
    BY <1>0, <1>2, Becomes DEF Resume
  <2>2. /\ call'[c].pc = IF answer THEN "claim" ELSE "latest"
        /\ call'[c].turn = 0 /\ call'[c].past = 0 /\ call'[c].answer = answer
        /\ call'[c].msgs = NoMessages /\ call'[c].ticket = 0 /\ call'[c].fresh = {}
    BY <2>1 DEF Idle
  <2> QED BY <1>2, <2>1, <2>2 DEF Resume, BeginCall, Begins, TypeOK
<1>3. ASSUME NEW c \in Callers, ReadLatest(c)
      PROVE  GivesUp(c) \/ LooksBack(c) \/ \E i \in DOMAIN log : ReEnters(c, i)
  <2>1. CASE Return(c)
    BY <1>0, <1>3, <2>1, ReturnDoes DEF ReadLatest, GivesUp
  <2>2. CASE Move(c, "history") /\ log # <<>> /\ log[Len(log)].kind = "end"
             /\ log[Len(log)].status = "failed"
    BY <1>0, <1>3, <2>2, MoveDoes DEF ReadLatest, LooksBack
  <2>3. CASE ReEnter(c, log[Len(log)]) /\ log # <<>> /\ log[Len(log)].kind # "end"
             /\ log[Len(log)].status # "interrupted"
    BY <1>0, <1>3, <2>3, ReEnterDoes DEF ReadLatest, ReEnters
  <2> QED BY <1>3, <2>1, <2>2, <2>3 DEF ReadLatest, ReEnterOrRefuse
<1>4. ASSUME NEW c \in Callers, ReadHistory(c)
      PROVE  GivesUp(c) \/ \E i \in DOMAIN log : ReEnters(c, i)
  <2>1. CASE Return(c)
    BY <1>0, <1>4, <2>1, ReturnDoes DEF ReadHistory, GivesUp
  <2>2. ASSUME NEW i \in LastOf(Steps), ReEnter(c, log[i]) PROVE ReEnters(c, i) /\ i \in DOMAIN log
    BY <1>0, <1>4, <2>2, ReEnterDoes DEF ReadHistory, ReEnters, LastOf, Steps
  <2> QED BY <1>4, <2>1, <2>2 DEF ReadHistory, ReEnterOrRefuse
<1>5. ASSUME NEW c \in Callers, Claim(c) PROVE GivesUp(c) \/ Claims(c)
  <2>1. CASE pending = NoPending
    BY <1>0, <1>5, <2>1, ReturnDoes DEF Claim, GivesUp
  <2>2. ASSUME pending # NoPending, NEW yes \in BOOLEAN,
               call' = [call EXCEPT ![c] = [@ EXCEPT !.pc = "scoped", !.yes = yes,
                                                     !.ticket = pending.ticket]]
        PROVE  Claims(c)
    <3>1. /\ OnlyCall(c)
          /\ call'[c] = [call[c] EXCEPT !.pc = "scoped", !.yes = yes, !.ticket = pending.ticket]
      BY <1>0, <2>2, Becomes
    <3>2. /\ call'[c].pc = "scoped" /\ call'[c].ticket = pending.ticket
          /\ call'[c].answer = call[c].answer /\ KeepsPlace(c) /\ KeepsFresh(c)
      BY <1>0, <3>1 DEF Locals, KeepsPlace, KeepsFresh
    <3> QED BY <1>5, <2>2, <3>1, <3>2 DEF Claim, Claims
  <2> QED BY <1>5, <2>1, <2>2 DEF Claim
<1>6. ASSUME NEW c \in Callers, ReadPause(c) PROVE \E i \in DOMAIN log : ReEnters(c, i)
  <2>1. PICK i \in LastOf(Interrupted) : ReEnter(c, log[i])
    BY <1>6 DEF ReadPause
  <2>2. i \in DOMAIN log /\ log[i].status = "interrupted"
    BY DEF LastOf, Interrupted
  <2>3. log[i].kind # "end"
    BY <2>2 DEF TurnLeft
  <2> QED BY <1>0, <1>6, <2>1, <2>2, <2>3, ReEnterDoes DEF ReadPause, ReEnters
<1>7. ASSUME NEW c \in Callers, PutTurn(c) \/ Exhaust(c) \/ PutLoopEnd(c)
      PROVE  \E turn \in 0..MaxIter : SavesTurn(c, turn)
  <2>1. ASSUME NEW pc \in {"model", "mark"}, NEW turn,
               Save(c, TurnRow(turn, call[c].msgs), [call[c] EXCEPT !.pc = pc])
        PROVE  /\ log' = Append(log, TurnRow(turn, call[c].msgs))
               /\ spent' = spent \cup ({call[c].ticket} \ {0})
               /\ call'[c].pc = pc /\ KeepsPlace(c) /\ call'[c].ticket = 0
               /\ call'[c].answer = call[c].answer /\ call'[c].fresh = {} /\ OnlyCall(c)
    <3> DEFINE n == [call[c] EXCEPT !.pc = pc]
    <3>1. n \in Locals
      BY <1>0 DEF Locals, InLoop
    <3>2. /\ n.pc = pc /\ n.turn = call[c].turn /\ n.past = call[c].past
          /\ n.msgs = call[c].msgs /\ n.answer = call[c].answer
      BY <1>0 DEF Locals
    <3>3. Save(c, TurnRow(turn, call[c].msgs), n)
      BY <2>1
    <3> HIDE DEF n
    <3>4. /\ log' = Append(log, TurnRow(turn, call[c].msgs))
          /\ spent' = spent \cup ({call[c].ticket} \ {0})
          /\ call'[c].pc = n.pc /\ call'[c].turn = n.turn /\ call'[c].past = n.past
          /\ call'[c].msgs = n.msgs /\ call'[c].answer = n.answer
          /\ call'[c].ticket = 0 /\ call'[c].fresh = {} /\ OnlyCall(c)
      BY <1>0, <3>1, <3>3, SaveDoes
    <3> QED BY <3>2, <3>4 DEF KeepsPlace
  <2>2. call[c].turn \in 0..MaxIter /\ call[c].past \in 0..MaxIter /\ MaxIter \in Nat
    BY <1>0, AgentAssumption DEF Locals
  <2>3. CASE PutTurn(c)
    BY <2>1, <2>2, <2>3 DEF PutTurn, SavesTurn
  <2>4. CASE Exhaust(c)
    BY <2>1, <2>2, <2>4 DEF Exhaust, SavesTurn
  <2>5. CASE PutLoopEnd(c)
    BY <2>1, <2>2, <2>5 DEF PutLoopEnd, SavesTurn
  <2> QED BY <1>7, <2>3, <2>4, <2>5
<1>8. ASSUME NEW c \in Callers, AskTools(c) PROVE Asks(c)
  <2> DEFINE New(k, kinds) == {[id |-> tools + i, kind |-> kinds[i]] : i \in 1..k}
             m == call[c].msgs
             Put(k, kinds) ==
               /\ tools + k <= MaxTools /\ tools' = tools + k
               /\ call' = [call EXCEPT ![c].pc = "tool",
                          ![c].msgs = [m EXCEPT !.asked = m.asked \cup New(k, kinds)]]
  <2>a. PICK k \in 1..Width : \E kinds \in [1..k -> Kinds] : Put(k, kinds)
    BY <1>8 DEF AskTools
  <2>b. PICK kinds \in [1..k -> Kinds] : Put(k, kinds)
    BY <2>a
  <2> DEFINE S == New(k, kinds)
             msgs == [m EXCEPT !.asked = m.asked \cup S]
             n == [call[c] EXCEPT !.pc = "tool", !.msgs = msgs]
  <2>1. /\ tools + k <= MaxTools /\ tools' = tools + k /\ kinds \in [1..k -> Kinds]
        /\ call' = [call EXCEPT ![c].pc = "tool", ![c].msgs = msgs]
    BY <2>b
  <2> HIDE DEF Put
  <2>2. tools \in Nat /\ k \in Nat /\ k >= 1 /\ tools' \in Nat
    BY <2>1, AgentAssumption DEF TypeOK
  <2>3. ASSUME NEW i \in 1..k
        PROVE  /\ [id |-> tools + i, kind |-> kinds[i]] \in ToolCall
               /\ tools < tools + i /\ tools + i <= tools'
    <3>1. tools + i \in 1..MaxTools /\ tools < tools + i /\ tools + i <= tools'
      BY <2>1, <2>2, AgentAssumption
    <3>2. kinds[i] \in Kind
      BY <2>1, AgentAssumption
    <3> QED BY <3>1, <3>2 DEF ToolCall
  <2>4. S \in SUBSET ToolCall /\ \A x \in S : tools < x.id /\ x.id <= tools'
    BY <2>3
  <2> HIDE DEF S, New, msgs
  <2>5. call' = [call EXCEPT ![c] = n]
    BY <1>0, <2>1
  <2>6. call'[c] = n /\ OnlyCall(c)
    BY <1>0, <2>5, Becomes
  <2>7. /\ n.pc = "tool" /\ n.msgs = msgs /\ n.turn = call[c].turn /\ n.past = call[c].past
        /\ n.answer = call[c].answer /\ n.ticket = call[c].ticket /\ n.fresh = call[c].fresh
    BY <1>0 DEF Locals
  <2>8. msgs.asked = m.asked \cup S /\ msgs.told = m.told
    BY <1>0 DEF Locals, Messages, msgs
  <2> HIDE DEF n
  <2>9. tools' > tools /\ tools' <= MaxTools
    BY <2>1, <2>2, AgentAssumption
  <2>10. call'[c].msgs.asked = call[c].msgs.asked \cup S
    BY <2>6, <2>7, <2>8
  <2>11. \E T \in SUBSET ToolCall :
           /\ \A x \in T : tools < x.id /\ x.id <= tools'
           /\ call'[c].msgs.asked = call[c].msgs.asked \cup T
    BY <2>4, <2>10
  <2>12. call[c].pc = "model" /\ UNCHANGED <<store, calls, history>>
    BY <1>8 DEF AskTools
  <2> QED BY <2>6, <2>7, <2>8, <2>9, <2>11, <2>12 DEF Asks, KeepsClaim, KeepsFresh
<1>9. ASSUME NEW c \in Callers, Answer(c) PROVE Replies(c)
  <2>1. PICK past \in Recorded(call[c]) :
          call' = [call EXCEPT ![c] = [@ EXCEPT !.pc = "finish", !.past = past]]
    BY <1>9 DEF Answer
  <2>2. OnlyCall(c) /\ call'[c] = [call[c] EXCEPT !.pc = "finish", !.past = past]
    BY <1>0, <2>1, Becomes
  <2>3. /\ call'[c].pc = "finish" /\ call'[c].turn = call[c].turn /\ call'[c].past = past
        /\ call'[c].msgs = call[c].msgs /\ KeepsClaim(c) /\ KeepsFresh(c)
    BY <1>0, <2>2 DEF Locals, KeepsClaim, KeepsFresh
  <2> QED BY <1>9, <2>2, <2>3 DEF Answer, Replies, Recorded
<1>10. ASSUME NEW c \in Callers, PausedReply(c) PROVE Replies(c)
  <2>1. PICK past \in Recorded(call[c]) :
          call' = [call EXCEPT ![c].pc = "turn", ![c].turn = @ + 1, ![c].past = past]
    BY <1>10 DEF PausedReply
  <2> DEFINE n == [call[c] EXCEPT !.pc = "turn", !.turn = call[c].turn + 1, !.past = past]
  <2>2. call' = [call EXCEPT ![c] = n]
    BY <1>0, <2>1
  <2>3. OnlyCall(c) /\ call'[c] = n
    BY <1>0, <2>2, Becomes
  <2>4. /\ n.pc = "turn" /\ n.turn = call[c].turn + 1 /\ n.past = past
        /\ n.msgs = call[c].msgs /\ n.answer = call[c].answer /\ n.ticket = call[c].ticket
        /\ n.fresh = call[c].fresh
    BY <1>0 DEF Locals
  <2> HIDE DEF n
  <2> QED BY <1>10, <2>1, <2>3, <2>4 DEF PausedReply, Replies, Recorded, KeepsClaim, KeepsFresh
<1>11. ASSUME NEW c \in Callers, PutTool(c) PROVE SavesTool(c, NewRow)
  <2>1. PICK x \in Unanswered(call[c].msgs) :
          LET l == [call[c] EXCEPT !.pc = "call", !.call = x]
          IN Save(c, ToolRow(l, "completed"), l)
    BY <1>11 DEF PutTool
  <2> DEFINE l == [call[c] EXCEPT !.pc = "call", !.call = x]
             row == ToolRow(l, "completed")
  <2>2. x \in ToolCall /\ x \in call[c].msgs.asked
    BY <1>0 DEF Locals, Messages, Unanswered
  <2>3. l \in Locals
    BY <1>0, <2>2 DEF Locals, InLoop
  <2>4. /\ l.pc = "call" /\ l.call = x /\ l.turn = call[c].turn /\ l.past = call[c].past
        /\ l.msgs = call[c].msgs /\ l.answer = call[c].answer
    BY <1>0 DEF Locals
  <2>5. /\ row.kind = "tool" /\ row.status = "completed" /\ row.turn = call[c].turn
        /\ row.msgs = call[c].msgs /\ row.call = x
    BY <2>4 DEF ToolRow
  <2>6. Save(c, row, l)
    BY <2>1
  <2> HIDE DEF l, row
  <2>7. NewRow = row
    BY <1>0, <2>6 DEF Save, NewRow
  <2> QED BY <1>0, <1>11, <2>3, <2>4, <2>5, <2>6, <2>7, SaveDoes
         DEF PutTool, SavesTool, KeepsPlace
<1>12. ASSUME NEW c \in Callers, Pause(c) PROVE Pauses(c, NewRow)
  <2>1. /\ NewRow = ToolRow(call[c], "interrupted")
        /\ log' = Append(log, NewRow)
    BY <1>0, <1>12 DEF Pause, NewRow
  <2>2. /\ NewRow.kind = "tool" /\ NewRow.status = "interrupted" /\ NewRow.turn = call[c].turn
        /\ NewRow.call = call[c].call /\ NewRow.msgs = call[c].msgs
    BY <2>1 DEF ToolRow
  <2>3. Len(pauses') = Len(pauses) + 1
    BY <1>12 DEF Pause, TypeOK
  <2> QED BY <1>0, <1>12, <2>1, <2>2, <2>3, ReturnDoes
         DEF Pause, Pauses, NeedsAnswer
<1>13. ASSUME NEW c \in Callers, Complete(c) PROVE Completes(c)
  <2>1. call'[c] = [Idle EXCEPT !.ticket = 0, !.yes = FALSE, !.fresh = {}] /\ OnlyCall(c)
    BY <1>0, <1>13, Becomes DEF Complete, Save
  <2>2. call'[c] = Idle
    BY <2>1 DEF Idle
  <2> QED BY <1>13, <2>1, <2>2 DEF Complete, Completes, Save
<1>14. ASSUME NEW c \in Callers, MarkFailed(c) PROVE Marks(c)
  BY <1>0, <1>14, ReturnDoes DEF MarkFailed, Marks
<1>15. ASSUME NEW c \in Callers, Vanish(c) PROVE Vanishes(c)
  BY <1>0, <1>15, ReturnDoes DEF Vanish, Vanishes
<1>16. ASSUME NEW c \in Callers, FailBehindLoop(c) PROVE FailsBehind(c)
  BY <1>0, <1>16, MoveDoes DEF FailBehindLoop, FailsBehind
<1>17. ASSUME NEW c \in Callers, StopRun(c) PROVE StopsEarly(c)
  BY <1>0, <1>17, MoveDoes DEF StopRun, StopsEarly, TypeOK
<1>18. ASSUME NEW c \in Callers, Fail(c) \/ LoseLoopEnd(c) PROVE Fails(c)
  <2>1. OnlyCall(c) /\ call'[c] = [call[c] EXCEPT !.pc = "mark", !.fresh = {}]
    BY <1>0, <1>18, Becomes DEF Fail, LoseLoopEnd
  <2>2. call'[c].pc = "mark" /\ KeepsPlace(c) /\ KeepsClaim(c) /\ call'[c].fresh = {}
    BY <1>0, <2>1 DEF Locals, KeepsPlace, KeepsClaim
  <2> QED BY <1>18, <2>1, <2>2 DEF Fail, LoseLoopEnd, Fails
<1>19. ASSUME NEW c \in Callers, AtCall(c), NEW l \in Locals, l.pc = call[c].pc,
              l.msgs = call[c].msgs, l.call = call[c].call, l.turn = call[c].turn,
              l.answer = call[c].answer, l.ticket = call[c].ticket,
              NEW n \in {Answered(l), StoppedAt(l)}, call' = [call EXCEPT ![c] = n],
              UNCHANGED <<store, tools, calls, pauses, spent, cut>>
       PROVE  GetsAnswer(c) /\ call'[c].fresh = l.fresh
  <2>1. call'[c] = n /\ OnlyCall(c)
    BY <1>0, <1>19, Becomes
  <2>2. l.pc \in {"call", "retool"} /\ l.call \in l.msgs.asked
    BY <1>19 DEF AtCall, TurnLeft
  <2> QED BY <1>19, <2>1, <2>2, AnsweredDoes DEF GetsAnswer, KeepsClaim
<1>20. ASSUME NEW c \in Callers, Deny(c) \/ StopTool(c) PROVE Answers(c)
  <2>1. /\ AtCall(c) /\ UNCHANGED <<store, bounds, history>>
        /\ \E n \in {Answered(call[c]), StoppedAt(call[c])} : call' = [call EXCEPT ![c] = n]
    BY <1>20 DEF Deny, StopTool
  <2>2. UNCHANGED <<store, tools, calls, pauses, spent, cut, runs>>
    BY <2>1
  <2>3. GetsAnswer(c) /\ call'[c].fresh = call[c].fresh
    BY <1>0, <1>19, <2>1, <2>2
  <2> QED BY <2>2, <2>3 DEF Answers, KeepsFresh
<1>21. ASSUME NEW c \in Callers, RunTool(c) PROVE RunsTool(c)
  <2> DEFINE l == [call[c] EXCEPT !.fresh = @ \cup {call[c].call}]
  <2>1. /\ AtCall(c) /\ UNCHANGED <<store, bounds, pauses, spent, cut>>
        /\ runs' = [runs EXCEPT ![l.call] = @ + 1]
        /\ \E n \in {Answered(l), StoppedAt(l)} : call' = [call EXCEPT ![c] = n]
    BY <1>21 DEF RunTool
  <2>2. call[c].call \in ToolCall
    BY <1>0, <2>1 DEF AtCall, TurnLeft, Locals, Messages
  <2>3. /\ l \in Locals /\ l.pc = call[c].pc /\ l.msgs = call[c].msgs /\ l.call = call[c].call
        /\ l.turn = call[c].turn /\ l.answer = call[c].answer /\ l.ticket = call[c].ticket
        /\ l.fresh = call[c].fresh \cup {call[c].call}
    BY <1>0, <2>2 DEF Locals
  <2>4. UNCHANGED <<store, tools, calls, pauses, spent, cut>>
    BY <2>1
  <2> HIDE DEF l
  <2>5. GetsAnswer(c) /\ call'[c].fresh = l.fresh
    BY <1>0, <1>19, <2>1, <2>3, <2>4
  <2> QED BY <2>1, <2>3, <2>5 DEF RunsTool
<1>22. CASE UNCHANGED vars
  BY <1>22
<1>23. ASSUME NEW c \in Callers,
              \/ Run(c) \/ \E answer \in BOOLEAN : Resume(c, answer)
              \/ Step(c)
              \/ Fail(c) \/ FailBehindLoop(c) \/ LoseLoopEnd(c) \/ Vanish(c)
       PROVE  Does(c)
  BY <1>1, <1>2, <1>3, <1>4, <1>5, <1>6, <1>7, <1>8, <1>9, <1>10, <1>11, <1>12, <1>13, <1>14,
     <1>15, <1>16, <1>17, <1>18, <1>20, <1>21, <1>23
  DEF Step, Does
<1> QED BY <1>22, <1>23 DEF Next
----------------------------------------------------------------------------
(* Type correctness *)

Calls == [Callers -> Locals]

\* The same helpers keep the locals in their type.
LEMMA NewLocalsAreTyped ==
    ASSUME call \in Calls, NEW c \in Callers, NEW l \in Locals, call' = [call EXCEPT ![c] = l]
    PROVE  call' \in Calls
BY DEF Calls

LEMMA MoveIsTyped ==
    ASSUME call \in Calls, NEW c \in Callers, NEW pc, [call[c] EXCEPT !.pc = pc] \in Locals,
           Move(c, pc)
    PROVE  call' \in Calls
<1> DEFINE l == [call[c] EXCEPT !.pc = pc]
<1>1. call' = [call EXCEPT ![c] = l]
  BY DEF Move, Calls
<1> QED BY <1>1, NewLocalsAreTyped

LEMMA ReturnIsTyped ==
    ASSUME call \in Calls, NEW c \in Callers, Return(c)
    PROVE  call' \in Calls
BY IdleIsTyped, NewLocalsAreTyped DEF Return

LEMMA ReEnterIsTyped ==
    ASSUME call \in Calls, NEW c \in Callers, NEW row \in Row, ReEnter(c, row)
    PROVE  call' \in Calls
<1> DEFINE pc == IF row.kind = "turn" THEN "enter" ELSE "retool"
           l == [call[c] EXCEPT !.pc = pc, !.turn = row.turn, !.past = row.turn,
                                !.msgs = row.msgs, !.call = row.call]
<1>1. call[c] \in Locals
  BY DEF Calls
<1>2. l \in Locals
  BY <1>1 DEF Locals, Row
<1>3. call' = [call EXCEPT ![c] = l]
  BY DEF ReEnter
<1> QED BY <1>2, <1>3, NewLocalsAreTyped

LEMMA SaveIsTyped ==
    ASSUME TypeOK, NEW c \in Callers, NEW row \in Row, NEW next \in Locals, Save(c, row, next)
    PROVE  log' \in Seq(Row) /\ spent' \subseteq Nat /\ call' \in Calls
<1> DEFINE l == [next EXCEPT !.ticket = 0, !.yes = FALSE, !.fresh = {}]
<1>1. l \in Locals
  BY DEF Locals
<1>2. call' \in Calls
  BY <1>1, NewLocalsAreTyped DEF Save, TypeOK, Calls
<1>3. call[c].ticket \in Nat
  BY DEF TypeOK, Locals
<1> QED BY <1>2, <1>3 DEF Save, TypeOK

LEMMA TearIsTyped ==
    ASSUME TypeOK, OneWorks, NEW c \in Callers, Tear(c)
    PROVE  runs' \in [ToolCall -> Nat]
<1>1. \A x \in ToolCall : x \in call[c].fresh => runs[x] >= 1
  BY DEF OneWorks
<1> QED BY <1>1 DEF Tear, TypeOK

LEMMA AnsweredIsTyped ==
    ASSUME NEW l \in Locals, l.turn < MaxIter, l.call \in ToolCall,
           NEW n \in {Answered(l), StoppedAt(l)}
    PROVE  n \in Locals
<1> DEFINE m == [l.msgs EXCEPT !.told = l.msgs.told \cup {l.call}]
<1>1. l.msgs \in Messages /\ m \in Messages
  BY DEF Locals, Messages
<1>2. Balance(m) \in Messages
  BY <1>1 DEF Balance, Messages
<1>3. l.turn \in 0..MaxIter /\ l.turn + 1 \in 0..MaxIter
  BY AgentAssumption DEF Locals
<1>4. CASE n = StoppedAt(l)
  <2>1. n = [l EXCEPT !.msgs = Balance(m), !.call = NoCall, !.past = l.turn + 1,
                      !.pc = "finish"]
    BY <1>1, <1>4 DEF StoppedAt, Messages
  <2> HIDE DEF m
  <2> QED BY <1>2, <1>3, <2>1 DEF Locals
<1>5. CASE n = Answered(l)
  <2> DEFINE next == IF l.pc = "call" THEN m ELSE Balance(m)
             done == l.pc = "retool" \/ Balanced(m)
             turn == IF done THEN l.turn + 1 ELSE l.turn
             pc == IF l.pc = "retool" THEN "rejoin" ELSE IF done THEN "turn" ELSE "tool"
  <2>1. n = [l EXCEPT !.msgs = next, !.call = NoCall, !.past = l.turn + 1, !.turn = turn,
                      !.pc = pc]
    BY <1>1, <1>5 DEF Answered, Messages
  <2>2. next \in Messages /\ turn \in 0..MaxIter /\ pc \in {"rejoin", "turn", "tool"}
    BY <1>1, <1>2, <1>3
  <2> HIDE DEF m, next, turn, pc
  <2> QED BY <1>3, <2>1, <2>2 DEF Locals, InLoop
<1> QED BY <1>4, <1>5

\* Every action keeps the types.
LEMMA TypeNext ==
    ASSUME TypeOK, OneWorks, TurnLeft, [Next]_vars
    PROVE  TypeOK'
<1>0. /\ call \in Calls /\ log \in Seq(Row)
      /\ \A c \in Callers : call[c] \in Locals /\ call[c].turn \in 0..MaxIter
                            /\ call[c].past \in 0..MaxIter /\ call[c].msgs \in Messages
  BY DEF TypeOK, Calls, Locals
<1> USE DEF store, bounds, history
<1>1. ASSUME NEW c \in Callers, Run(c) PROVE TypeOK'
  <2> DEFINE l == [Idle EXCEPT !.pc = "enter"]
  <2>1. l \in Locals
    BY IdleIsTyped DEF Locals
  <2>2. call' \in Calls
    BY <1>0, <1>1, <2>1, NewLocalsAreTyped DEF Run
  <2> QED BY <1>1, <2>2 DEF Run, BeginCall, TypeOK, Calls
<1>2. ASSUME NEW c \in Callers, NEW answer \in BOOLEAN, Resume(c, answer) PROVE TypeOK'
  <2> DEFINE l == [Idle EXCEPT !.pc = IF answer THEN "claim" ELSE "latest", !.answer = answer]
  <2>1. l \in Locals
    BY IdleIsTyped DEF Locals
  <2>2. call' \in Calls
    BY <1>0, <1>2, <2>1, NewLocalsAreTyped DEF Resume
  <2> QED BY <1>2, <2>2 DEF Resume, BeginCall, TypeOK, Calls
<1>3. ASSUME call' \in Calls, UNCHANGED <<store, bounds, history>> PROVE TypeOK'
  BY <1>3 DEF TypeOK, Calls
<1>4. ASSUME NEW c \in Callers, ReadLatest(c) PROVE TypeOK'
  <2>1. \/ Return(c) \/ Move(c, "history")
        \/ log # <<>> /\ ReEnter(c, log[Len(log)])
    BY <1>4 DEF ReadLatest, ReEnterOrRefuse
  <2>2. log # <<>> => log[Len(log)] \in Row
    BY <1>0
  <2>3. [call[c] EXCEPT !.pc = "history"] \in Locals
    BY <1>0 DEF Locals
  <2>4. call' \in Calls
    BY <1>0, <2>1, <2>2, <2>3, ReturnIsTyped, MoveIsTyped, ReEnterIsTyped
  <2> QED BY <1>3, <1>4, <2>4 DEF ReadLatest
<1>5. ASSUME NEW c \in Callers, ReadHistory(c) \/ ReadPause(c) PROVE TypeOK'
  <2>1. Return(c) \/ \E i \in DOMAIN log : ReEnter(c, log[i])
    BY <1>5 DEF ReadHistory, ReadPause, ReEnterOrRefuse, LastOf, Steps, Interrupted
  <2>2. \A i \in DOMAIN log : log[i] \in Row
    BY <1>0
  <2>3. call' \in Calls
    BY <1>0, <2>1, <2>2, ReturnIsTyped, ReEnterIsTyped
  <2> QED BY <1>3, <1>5, <2>3 DEF ReadHistory, ReadPause
<1>6. ASSUME NEW c \in Callers, Claim(c) PROVE TypeOK'
  <2>1. CASE Return(c) /\ UNCHANGED pending
    BY <1>0, <1>6, <2>1, ReturnIsTyped DEF Claim, TypeOK, Calls
  <2>2. ASSUME NEW yes \in BOOLEAN, pending' = NoPending,
               call' = [call EXCEPT ![c] = [@ EXCEPT !.pc = "scoped", !.yes = yes,
                                                     !.ticket = pending.ticket]]
        PROVE  TypeOK'
    <3> DEFINE l == [call[c] EXCEPT !.pc = "scoped", !.yes = yes, !.ticket = pending.ticket]
    <3>1. pending.ticket \in Nat
      BY DEF TypeOK
    <3>2. l \in Locals
      BY <1>0, <3>1 DEF Locals
    <3>3. call' \in Calls
      BY <1>0, <2>2, <3>2, NewLocalsAreTyped
    <3>4. NoPending \in [call : ToolCall \cup {NoCall}, ticket : Nat]
      BY DEF NoPending
    <3> QED BY <1>6, <2>2, <3>3, <3>4 DEF Claim, TypeOK, Calls
  <2> QED BY <1>6, <2>1, <2>2 DEF Claim
<1>7. ASSUME NEW c \in Callers, NEW row \in Row, NEW next \in Locals, Save(c, row, next),
             UNCHANGED <<pending, bounds, pauses, runs, cut>>
      PROVE  TypeOK'
  BY <1>7, SaveIsTyped DEF TypeOK, Calls
<1>8. ASSUME NEW c \in Callers, PutTurn(c) \/ Exhaust(c) \/ PutLoopEnd(c) PROVE TypeOK'
  <2>1. PICK turn \in 0..MaxIter, pc \in {"model", "mark"} :
          Save(c, TurnRow(turn, call[c].msgs), [call[c] EXCEPT !.pc = pc])
    BY <1>0, <1>8, AgentAssumption DEF PutTurn, Exhaust, PutLoopEnd
  <2>2. TurnRow(turn, call[c].msgs) \in Row
    BY <1>0 DEF TurnRow, Row, RowKind, Status
  <2>3. [call[c] EXCEPT !.pc = pc] \in Locals
    BY <1>0 DEF Locals, InLoop
  <2> QED BY <1>7, <1>8, <2>1, <2>2, <2>3 DEF PutTurn, Exhaust, PutLoopEnd
<1>9. ASSUME NEW c \in Callers, Complete(c) PROVE TypeOK'
  <2>1. EndRow("completed") \in Row
    BY AgentAssumption DEF EndRow, Row, RowKind, Status, NoMessages, Messages
  <2> QED BY <1>7, <1>9, <2>1, IdleIsTyped DEF Complete
<1>10. ASSUME NEW c \in Callers, MarkFailed(c) PROVE TypeOK'
  <2>1. EndRow("failed") \in Row
    BY AgentAssumption DEF EndRow, Row, RowKind, Status, NoMessages, Messages
  <2>2. log' \in Seq(Row) /\ call' \in Calls
    BY <1>0, <1>10, <2>1, ReturnIsTyped DEF MarkFailed
  <2> QED BY <1>10, <2>2 DEF MarkFailed, TypeOK, Calls
<1>11. ASSUME NEW c \in Callers, NEW l \in Locals, call' = [call EXCEPT ![c] = l],
              UNCHANGED <<store, calls, answers, faults, history>>, tools' \in Nat
       PROVE  TypeOK'
  BY <1>0, <1>11, NewLocalsAreTyped DEF TypeOK, Calls
<1>12. ASSUME NEW c \in Callers, AskTools(c) PROVE TypeOK'
  <2> DEFINE New(k, kinds) == {[id |-> tools + i, kind |-> kinds[i]] : i \in 1..k}
             m == call[c].msgs
             Put(k, kinds) ==
               /\ tools + k <= MaxTools /\ tools' = tools + k
               /\ call' = [call EXCEPT ![c].pc = "tool",
                          ![c].msgs = [m EXCEPT !.asked = m.asked \cup New(k, kinds)]]
  <2>a. PICK k \in 1..Width : \E kinds \in [1..k -> Kinds] : Put(k, kinds)
    BY <1>12 DEF AskTools
  <2>b. PICK kinds \in [1..k -> Kinds] : Put(k, kinds)
    BY <2>a
  <2> DEFINE S == New(k, kinds)
             msgs == [m EXCEPT !.asked = m.asked \cup S]
             n == [call[c] EXCEPT !.pc = "tool", !.msgs = msgs]
  <2>1. tools + k <= MaxTools /\ tools' = tools + k /\ call' = [call EXCEPT ![c] = n]
    BY <1>0, <2>b DEF Calls
  <2>2. tools \in Nat /\ k \in Nat /\ k >= 1 /\ tools' \in Nat
    BY <2>1, AgentAssumption DEF TypeOK
  <2>3. ASSUME NEW i \in 1..k PROVE [id |-> tools + i, kind |-> kinds[i]] \in ToolCall
    <3>1. tools + i \in 1..MaxTools /\ kinds[i] \in Kind
      BY <2>b, <2>1, <2>2, AgentAssumption
    <3> QED BY <3>1 DEF ToolCall
  <2>4. S \in SUBSET ToolCall
    BY <2>3
  <2> HIDE DEF S, New, Put
  <2>5. msgs \in Messages
    BY <1>0, <2>4 DEF Messages
  <2> HIDE DEF msgs
  <2>6. n \in Locals
    BY <1>0, <2>5 DEF Locals, InLoop
  <2> HIDE DEF n
  <2> QED BY <1>11, <1>12, <2>1, <2>2, <2>6 DEF AskTools
<1>13. ASSUME NEW c \in Callers, Answer(c) \/ PausedReply(c) PROVE TypeOK'
  <2>1. PICK past \in Recorded(call[c]), turn \in {call[c].turn, call[c].turn + 1},
             pc \in {"turn", "finish"} :
          call' = [call EXCEPT ![c] = [call[c] EXCEPT !.pc = pc, !.turn = turn, !.past = past]]
    <3>1. CASE Answer(c)
      <4>1. PICK past \in Recorded(call[c]) :
              call' = [call EXCEPT ![c] = [@ EXCEPT !.pc = "finish", !.past = past]]
        BY <3>1 DEF Answer
      <4>2. [call[c] EXCEPT !.pc = "finish", !.past = past]
              = [call[c] EXCEPT !.pc = "finish", !.turn = call[c].turn, !.past = past]
        BY <1>0 DEF Locals
      <4> QED BY <4>1, <4>2
    <3>2. CASE PausedReply(c)
      BY <1>0, <3>2 DEF PausedReply, Calls
    <3> QED BY <1>13, <3>1, <3>2
  <2>2. call[c].turn < MaxIter /\ UNCHANGED <<store, bounds, history>>
    BY <1>13 DEF Answer, PausedReply, TurnLeft
  <2>3. call[c].turn + 1 \in 0..MaxIter
    BY <1>0, <2>2, AgentAssumption
  <2>4. turn \in 0..MaxIter /\ past \in 0..MaxIter
    BY <1>0, <2>3 DEF Recorded
  <2> DEFINE n == [call[c] EXCEPT !.pc = pc, !.turn = turn, !.past = past]
  <2>5. n \in Locals
    BY <1>0, <2>4 DEF Locals, InLoop
  <2>6. call' \in Calls
    BY <1>0, <2>1, <2>5, NewLocalsAreTyped
  <2> QED BY <1>3, <2>2, <2>6
<1>14. ASSUME NEW c \in Callers, PutTool(c) PROVE TypeOK'
  <2>1. PICK x \in Unanswered(call[c].msgs) :
          LET l == [call[c] EXCEPT !.pc = "call", !.call = x]
          IN Save(c, ToolRow(l, "completed"), l)
    BY <1>14 DEF PutTool
  <2> DEFINE l == [call[c] EXCEPT !.pc = "call", !.call = x]
  <2>2. x \in ToolCall
    BY <1>0 DEF Messages, Unanswered
  <2>3. l \in Locals
    BY <1>0, <2>2 DEF Locals, InLoop
  <2>4. l.turn \in 0..MaxIter /\ l.msgs \in Messages /\ l.call \in ToolCall \cup {NoCall}
    BY <2>3 DEF Locals
  <2> HIDE DEF l
  <2>5. ToolRow(l, "completed") \in Row
    BY <2>4 DEF ToolRow, Row, RowKind, Status
  <2>6. Save(c, ToolRow(l, "completed"), l)
    BY <2>1 DEF l
  <2> QED BY <1>7, <1>14, <2>3, <2>5, <2>6 DEF PutTool
<1>15. ASSUME NEW c \in Callers, AtCall(c)
       PROVE  call[c].turn < MaxIter /\ call[c].call \in ToolCall
  BY <1>0, <1>15 DEF AtCall, TurnLeft, Messages
<1>16. ASSUME NEW c \in Callers, Deny(c) \/ StopTool(c) PROVE TypeOK'
  <2>1. /\ AtCall(c) /\ UNCHANGED <<store, bounds, history>>
        /\ \E n \in {Answered(call[c]), StoppedAt(call[c])} : call' = [call EXCEPT ![c] = n]
    BY <1>16 DEF Deny, StopTool
  <2>2. call' \in Calls
    BY <1>0, <1>15, <2>1, AnsweredIsTyped, NewLocalsAreTyped
  <2> QED BY <1>3, <2>1, <2>2
<1>17. ASSUME NEW c \in Callers, RunTool(c) PROVE TypeOK'
  <2> DEFINE l == [call[c] EXCEPT !.fresh = @ \cup {call[c].call}]
  <2>1. /\ AtCall(c) /\ UNCHANGED <<store, bounds, pauses, spent, cut>>
        /\ runs' = [runs EXCEPT ![l.call] = @ + 1]
        /\ \E n \in {Answered(l), StoppedAt(l)} : call' = [call EXCEPT ![c] = n]
    BY <1>17 DEF RunTool
  <2>2. /\ l \in Locals /\ l.call \in ToolCall /\ l.turn < MaxIter
    BY <1>0, <1>15, <2>1 DEF Locals
  <2> HIDE DEF l
  <2>3. call' \in Calls
    BY <1>0, <2>1, <2>2, AnsweredIsTyped, NewLocalsAreTyped
  <2>4. runs' \in [ToolCall -> Nat]
    BY <2>1, <2>2 DEF TypeOK
  <2> QED BY <2>1, <2>3, <2>4 DEF TypeOK, Calls
<1>18. ASSUME NEW c \in Callers, Pause(c) PROVE TypeOK'
  <2>1. call[c].call \in ToolCall
    BY <1>15, <1>18 DEF Pause
  <2>2. ToolRow(call[c], "interrupted") \in Row
    BY <1>0, <2>1 DEF ToolRow, Row, RowKind, Status
  <2>3. [call |-> call[c].call, msgs |-> call[c].msgs] \in [call : ToolCall, msgs : Messages]
    BY <1>0, <2>1
  <2>4. log' \in Seq(Row) /\ pauses' \in Seq([call : ToolCall, msgs : Messages])
    BY <1>0, <1>18, <2>2, <2>3 DEF Pause, TypeOK
  <2>5. call' \in Calls
    BY <1>0, <1>18, ReturnIsTyped DEF Pause
  <2>6. pending' \in [call : ToolCall \cup {NoCall}, ticket : Nat]
    BY <1>18, <2>1, <2>4 DEF Pause
  <2> QED BY <1>18, <2>4, <2>5, <2>6 DEF Pause, TypeOK, Calls
<1>19. ASSUME NEW c \in Callers, StopRun(c) PROVE TypeOK'
  <2>1. [call[c] EXCEPT !.pc = "finish"] \in Locals
    BY <1>0 DEF Locals
  <2>2. call' \in Calls
    BY <1>0, <1>19, <2>1, MoveIsTyped DEF StopRun
  <2> QED BY <1>19, <2>2 DEF StopRun, TypeOK, Calls
<1>20. ASSUME NEW c \in Callers, Fail(c) \/ LoseLoopEnd(c) PROVE TypeOK'
  <2> DEFINE l == [call[c] EXCEPT !.pc = "mark", !.fresh = {}]
  <2>1. l \in Locals
    BY <1>0 DEF Locals
  <2>2. call' \in Calls
    BY <1>0, <1>20, <2>1, NewLocalsAreTyped DEF Fail, LoseLoopEnd
  <2>3. runs' \in [ToolCall -> Nat]
    BY <1>20, TearIsTyped DEF Fail, LoseLoopEnd
  <2> QED BY <1>20, <2>2, <2>3 DEF Fail, LoseLoopEnd, Fault, TypeOK, Calls
<1>21. ASSUME NEW c \in Callers, FailBehindLoop(c) PROVE TypeOK'
  <2>1. [call[c] EXCEPT !.pc = "loopend"] \in Locals
    BY <1>0 DEF Locals
  <2>2. call' \in Calls
    BY <1>0, <1>21, <2>1, MoveIsTyped DEF FailBehindLoop
  <2> QED BY <1>21, <2>2 DEF FailBehindLoop, Fault, TypeOK, Calls
<1>22. ASSUME NEW c \in Callers, Vanish(c) PROVE TypeOK'
  <2>1. call' \in Calls /\ runs' \in [ToolCall -> Nat]
    BY <1>0, <1>22, ReturnIsTyped, TearIsTyped DEF Vanish
  <2> QED BY <1>22, <2>1 DEF Vanish, Fault, TypeOK, Calls
<1>23. CASE UNCHANGED vars
  BY <1>23 DEF TypeOK, vars
<1> QED BY <1>1, <1>2, <1>4, <1>5, <1>6, <1>8, <1>9, <1>10, <1>12, <1>13, <1>14, <1>16, <1>17,
           <1>18, <1>19, <1>20, <1>21, <1>22, <1>23
        DEF Next, Step
----------------------------------------------------------------------------
(* The inductive steps *)

\* A new row is behind the others.
LEMMA LogGrows ==
    ASSUME log \in Seq(Row), NEW row, log' = Append(log, row)
    PROVE  /\ Len(log) \in Nat /\ Len(log') = Len(log) + 1 /\ log' # <<>>
           /\ DOMAIN log = 1..Len(log) /\ DOMAIN log' = (1..Len(log)) \cup {Len(log) + 1}
           /\ log'[Len(log) + 1] = row /\ NewRow = row
           /\ \A i \in DOMAIN log : i # Len(log) + 1 /\ log'[i] = log[i]
BY DEF NewRow

\* Beside a call that works there are only callers that have not claimed.
LEMMA OthersWait ==
    ASSUME OneWorks, NEW c \in Callers, Works(c)
    PROVE  /\ calls # 0
           /\ \A d \in Callers \ {c} :
                call[d].pc \in {"idle", "claim"} /\ call[d].ticket = 0 /\ call[d].fresh = {}
BY DEF OneWorks, Works, Live

\* A claim is the only way into a run that waits, and it empties the pending row.
LEMMA OneWorksNext ==
    ASSUME TypeOK, OneWorks, TurnLeft, PauseIsLast, NEW c \in Callers, Does(c)
    PROVE  OneWorks'
<1>0. /\ \A d \in Callers : call[d] \in Locals
      /\ Idle.pc = "idle" /\ Idle.ticket = 0 /\ Idle.fresh = {}
      /\ runs \in [ToolCall -> Nat]
  BY DEF TypeOK, Idle
\* It goes on with the loop.
<1>a. ASSUME Works(c), pending = NoPending, OnlyCall(c), UNCHANGED <<calls, pending>>,
             call'[c].answer = call[c].answer,
             call'[c].pc \notin {"idle", "claim"} \cup Reading,
             call'[c].pc = "mark" => call'[c].fresh = {},
             \A x \in call'[c].fresh : runs'[x] >= 1
      PROVE  OneWorks'
  <2>1. /\ \A d \in Callers \ {c} :
             call'[d] = call[d] /\ call[d].pc \in {"idle", "claim"} /\ call[d].fresh = {}
        /\ call[c].pc # "idle" /\ calls' # 0
        /\ call'[c].pc \notin {"idle", "claim", "latest", "history", "scoped"}
    BY <1>a, OthersWait DEF OnlyCall, Works, Reading
  <2> QED BY <1>a, <2>1 DEF OneWorks, Works, Live, Reading
\* It is over.
<1>b. ASSUME Live(c), call'[c] = Idle, OnlyCall(c), UNCHANGED calls,
             Works(c) \/ UNCHANGED <<pending, runs>>
      PROVE  OneWorks'
  <2>1. calls # 0
    BY <1>b DEF OneWorks
  <2>2. \A d \in Callers : call'[d] = call[d] \/ d = c
    BY <1>b DEF OnlyCall
  <2>3. CASE Works(c)
    <3>1. \A d \in Callers \ {c} :
             call'[d] = call[d] /\ call[d].pc \in {"idle", "claim"} /\ call[d].fresh = {}
      BY <1>b, <2>3, OthersWait DEF OnlyCall
    <3> QED BY <1>0, <1>b, <2>1, <3>1 DEF OneWorks, Works, Live, Reading
  <2>4. CASE UNCHANGED <<pending, runs>>
    BY <1>0, <1>b, <2>1, <2>2, <2>4 DEF OneWorks, Works, Live, Reading
  <2> QED BY <1>b, <2>3, <2>4
<1>1. ASSUME Begins(c) PROVE OneWorks'
  BY <1>0, <1>1 DEF Begins, OneWorks, Works, Live, Reading, OnlyCall, store, history
<1>2. ASSUME GivesUp(c) PROVE OneWorks'
  BY <1>b, <1>2 DEF GivesUp, Live, store, history
<1>3. ASSUME LooksBack(c) PROVE OneWorks'
  <2>1. pending = NoPending
    BY <1>3 DEF LooksBack, PauseIsLast
  <2>2. Works(c)
    BY <1>3 DEF LooksBack, Works
  <2> QED BY <1>0, <1>3, <2>1, <2>2, OthersWait
          DEF LooksBack, KeepsClaim, KeepsFresh, OneWorks, Works, Live, Reading, OnlyCall,
              store, history
<1>4. ASSUME NEW i \in DOMAIN log, ReEnters(c, i) PROVE OneWorks'
  <2>1. Works(c) /\ call[c].fresh = {}
    BY <1>4 DEF ReEnters, Works, OneWorks, Reading
  <2>2. pending = NoPending
    BY <1>4, <2>1 DEF ReEnters, OneWorks, PauseIsLast
  <2>3. call'[c].pc \in {"enter", "retool"} /\ call'[c].fresh = {}
    BY <1>4, <2>1 DEF ReEnters, KeepsFresh
  <2> QED BY <1>4, <1>a, <2>1, <2>2, <2>3 DEF ReEnters, KeepsClaim, Reading, store
<1>5. ASSUME Claims(c) PROVE OneWorks'
  <2>1. \A d \in Callers \ {c} : ~Works(d) /\ call'[d] = call[d]
    BY <1>5 DEF Claims, OneWorks, Works, Live, OnlyCall
  <2>2. call[c].answer /\ call[c].fresh = {} /\ calls # 0 /\ pending.ticket # 0
    BY <1>5 DEF Claims, OneWorks, Live, PauseIsLast
  <2>3. /\ call'[c].pc = "scoped" /\ call'[c].answer /\ call'[c].fresh = {}
        /\ call'[c].ticket = pending.ticket /\ pending' = NoPending
        /\ UNCHANGED <<calls, runs>>
    BY <1>5, <2>2 DEF Claims, KeepsFresh, history
  <2>4. \A d \in Callers : d # c => call'[d] = call[d] /\ ~Works(d)
    BY <2>1
  <2> QED BY <2>2, <2>3, <2>4 DEF OneWorks, Works, Live, Reading
<1>c. ASSUME Works(c), call[c].pc # "latest" PROVE pending = NoPending
  BY <1>c DEF OneWorks
<1>6. ASSUME NEW turn \in 0..MaxIter, SavesTurn(c, turn) PROVE OneWorks'
  <2>1. /\ call[c].pc \in AtTurn \cup {"loopend"} /\ call'[c].pc \in {"model", "mark"}
        /\ call'[c].answer = call[c].answer /\ call'[c].fresh = {}
        /\ OnlyCall(c) /\ UNCHANGED <<pending, calls>>
    BY <1>6 DEF SavesTurn
  <2>2. Works(c) /\ call[c].pc # "latest"
    BY <2>1 DEF Works, AtTurn
  <2> QED BY <1>a, <1>c, <2>1, <2>2 DEF Reading
<1>7. ASSUME SavesTool(c, NewRow) PROVE OneWorks'
  BY <1>a, <1>c, <1>7 DEF SavesTool, Works, Reading
<1>8. ASSUME Completes(c) \/ Marks(c) \/ Pauses(c, NewRow) PROVE OneWorks'
  <2>1. Works(c) /\ Live(c) /\ call'[c] = Idle /\ OnlyCall(c) /\ UNCHANGED calls
    BY <1>8 DEF Completes, Marks, Pauses, AtCall, Works, Live
  <2> QED BY <1>b, <2>1
<1>9. ASSUME Asks(c) \/ Replies(c) \/ Answers(c) \/ StopsEarly(c) \/ FailsBehind(c)
      PROVE  OneWorks'
  <2>1. /\ Works(c) /\ call[c].pc # "latest" /\ OnlyCall(c)
        /\ call'[c].answer = call[c].answer /\ call'[c].fresh = call[c].fresh
        /\ call'[c].pc \in {"tool", "finish", "turn", "rejoin", "loopend"}
        /\ UNCHANGED <<pending, calls, runs>>
    BY <1>9 DEF Asks, Replies, Answers, GetsAnswer, AtCall, StopsEarly, FailsBehind, KeepsClaim,
                KeepsFresh, Works, store, history
  <2>2. \A x \in call'[c].fresh : runs'[x] >= 1
    BY <2>1 DEF OneWorks
  <2> QED BY <1>a, <1>c, <2>1, <2>2 DEF Reading
<1>10. ASSUME RunsTool(c) PROVE OneWorks'
  <2>1. /\ Works(c) /\ call'[c].pc \notin {"idle", "claim", "mark"} \cup Reading
        /\ call'[c].answer = call[c].answer /\ call[c].pc # "latest"
        /\ OnlyCall(c) /\ UNCHANGED <<pending, calls>>
    BY <1>10 DEF RunsTool, GetsAnswer, KeepsClaim, AtCall, Works, Reading, store
  <2>2. call[c].call \in ToolCall /\ call[c].fresh \subseteq ToolCall
    BY <1>0, <1>10 DEF RunsTool, GetsAnswer, AtCall, TurnLeft, Locals, Messages
  <2>3. \A x \in call'[c].fresh : runs'[x] >= 1
    BY <1>0, <1>10, <2>2 DEF RunsTool, OneWorks
  <2> QED BY <1>a, <1>c, <2>1, <2>3
<1>11. ASSUME Fails(c) PROVE OneWorks'
  <2>1. /\ Works(c) /\ call[c].pc # "latest" /\ call'[c].pc = "mark" /\ call'[c].fresh = {}
        /\ call'[c].answer = call[c].answer
        /\ OnlyCall(c) /\ UNCHANGED <<pending, calls>>
    BY <1>11 DEF Fails, KeepsClaim, InLoop, Works, store
  <2> QED BY <1>a, <1>c, <2>1 DEF Reading
<1>12. ASSUME Vanishes(c) PROVE OneWorks'
  <2>1. Live(c) /\ call'[c] = Idle /\ OnlyCall(c) /\ UNCHANGED <<pending, calls>>
    BY <1>12 DEF Vanishes, store
  <2>2. CASE ~Works(c)
    <3>1. runs' = [x \in ToolCall |-> runs[x]]
      BY <1>12, <2>1, <2>2 DEF Vanishes, Tear, OneWorks, Works, Live
    <3>2. runs' = runs
      BY <1>0, <3>1
    <3> QED BY <1>b, <2>1, <3>2
  <2> QED BY <1>b, <2>1, <2>2
<1> QED BY <1>1, <1>2, <1>3, <1>4, <1>5, <1>6, <1>7, <1>8, <1>9, <1>10, <1>11, <1>12 DEF Does

\* The bounds of the loop, and the call at hand is asked and not told.
LEMMA TurnLeftNext ==
    ASSUME TypeOK, TurnLeft, NEW c \in Callers, Does(c)
    PROVE  TurnLeft'
<1>0. /\ log \in Seq(Row) /\ \A d \in Callers : call[d] \in Locals
      /\ Idle.pc = "idle" /\ MaxTools \in Nat /\ MaxIter \in Nat /\ tools \in Nat
      /\ \A i \in DOMAIN log : log[i].kind \in {"turn", "tool", "end"}
  <2>1. log \in Seq(Row) /\ \A d \in Callers : call[d] \in Locals
    BY DEF TypeOK
  <2>2. \A i \in DOMAIN log : log[i].kind \in {"turn", "tool", "end"}
    <3>1. \A i \in DOMAIN log : log[i] \in Row
      BY <2>1
    <3> QED BY <3>1 DEF Row, RowKind
  <2> QED BY <2>1, <2>2, AgentAssumption DEF TypeOK, Idle
<1>1. ASSUME Begins(c) PROVE TurnLeft'
  BY <1>0, <1>1
  DEF Begins, TurnLeft, OnlyCall, store, AtTurn
<1>2. ASSUME GivesUp(c) PROVE TurnLeft'
  BY <1>0, <1>2
  DEF GivesUp, TurnLeft, OnlyCall, store, AtTurn
<1>3. ASSUME LooksBack(c) PROVE TurnLeft'
  BY <1>0, <1>3
  DEF LooksBack, KeepsPlace, KeepsClaim, KeepsFresh, TurnLeft, OnlyCall, store, AtTurn
<1>4. ASSUME NEW i \in DOMAIN log, ReEnters(c, i) PROVE TurnLeft'
  BY <1>0, <1>4
  DEF ReEnters, KeepsClaim, KeepsFresh, TurnLeft, OnlyCall, store, AtTurn
<1>5. ASSUME Claims(c) PROVE TurnLeft'
  BY <1>0, <1>5
  DEF Claims, KeepsPlace, KeepsFresh, TurnLeft, OnlyCall, store, AtTurn
<1>6. ASSUME NEW turn \in 0..MaxIter, SavesTurn(c, turn) PROVE TurnLeft'
  BY <1>0, <1>6, LogGrows
  DEF SavesTurn, KeepsPlace, TurnLeft, OnlyCall, store, AtTurn, TurnRow
<1>7. ASSUME SavesTool(c, NewRow) PROVE TurnLeft'
  BY <1>0, <1>7, LogGrows
  DEF SavesTool, KeepsPlace, TurnLeft, OnlyCall, store, Unanswered
<1>8. ASSUME Completes(c) PROVE TurnLeft'
  BY <1>0, <1>8, LogGrows
  DEF Completes, TurnLeft, OnlyCall, store, EndRow
<1>9. ASSUME Asks(c) PROVE TurnLeft'
  BY <1>0, <1>9
  DEF Asks, KeepsClaim, KeepsFresh, TurnLeft, OnlyCall, store, AtTurn
<1>10. ASSUME Replies(c) PROVE TurnLeft'
  BY <1>0, <1>10
  DEF Replies, KeepsClaim, KeepsFresh, TurnLeft, OnlyCall, store, AtTurn
<1>11. ASSUME Answers(c) PROVE TurnLeft'
  BY <1>0, <1>11
  DEF Answers, GetsAnswer, KeepsClaim, KeepsFresh, AtCall, TurnLeft, OnlyCall, store, AtTurn
<1>12. ASSUME RunsTool(c) PROVE TurnLeft'
  BY <1>0, <1>12
  DEF RunsTool, GetsAnswer, KeepsClaim, AtCall, TurnLeft, OnlyCall, store, AtTurn
<1>13. ASSUME Pauses(c, NewRow) PROVE TurnLeft'
  <2>1. \A i \in DOMAIN log' : IF i = Len(log) + 1 THEN log'[i] = NewRow
                                                   ELSE i \in DOMAIN log /\ log'[i] = log[i]
    BY <1>0, <1>13, LogGrows DEF Pauses
  <2>2. /\ NewRow.status = "interrupted" /\ NewRow.kind = "tool" /\ NewRow.turn < MaxIter
        /\ NewRow.call \in NewRow.msgs.asked \ NewRow.msgs.told
    BY <1>13 DEF Pauses, AtCall, TurnLeft
  <2>3. \A d \in Callers : call'[d] = call[d] \/ call'[d] = Idle
    BY <1>13 DEF Pauses, OnlyCall
  <2> QED BY <1>0, <1>13, <2>1, <2>2, <2>3 DEF Pauses, TurnLeft, AtTurn
<1>14. ASSUME StopsEarly(c) PROVE TurnLeft'
  BY <1>0, <1>14
  DEF StopsEarly, KeepsPlace, KeepsClaim, KeepsFresh, TurnLeft, OnlyCall, store, AtTurn
<1>15. ASSUME FailsBehind(c) PROVE TurnLeft'
  BY <1>0, <1>15
  DEF FailsBehind, KeepsPlace, KeepsClaim, KeepsFresh, TurnLeft, OnlyCall, store, AtTurn
<1>16. ASSUME Fails(c) PROVE TurnLeft'
  BY <1>0, <1>16
  DEF Fails, KeepsPlace, KeepsClaim, Tear, InLoop, TurnLeft, OnlyCall, store, AtTurn
<1>17. ASSUME Marks(c) PROVE TurnLeft'
  BY <1>0, <1>17, LogGrows
  DEF Marks, TurnLeft, OnlyCall, store, EndRow
<1>18. ASSUME Vanishes(c) PROVE TurnLeft'
  BY <1>0, <1>18
  DEF Vanishes, Tear, TurnLeft, OnlyCall, store, AtTurn
<1> QED BY <1>1, <1>2, <1>3, <1>4, <1>5, <1>6, <1>7, <1>8, <1>9, <1>10, <1>11, <1>12, <1>13,
           <1>14, <1>15, <1>16, <1>17, <1>18
        DEF Does

\* The pauses do not change with a row that is none.
LEMMA PausesStay ==
    ASSUME log \in Seq(Row), NEW row, log' = Append(log, row), row.status # "interrupted",
           UNCHANGED pauses
    PROVE  Interrupted' = Interrupted /\ \A i : LastPause(i) => LastPause(i)'
<1>1. Interrupted' = Interrupted
  BY LogGrows DEF Interrupted
<1>2. \A i \in Interrupted : log'[i] = log[i]
  BY LogGrows DEF Interrupted
<1> QED BY <1>1, <1>2 DEF LastPause

\* The pending row is that of the last pause: nothing is written while it waits.
LEMMA PauseIsLastNext ==
    ASSUME TypeOK, OneWorks, TurnLeft, PauseIsLast, TurnsPassPauses, NEW c \in Callers, Does(c)
    PROVE  PauseIsLast'
<1>0. /\ log \in Seq(Row) /\ \A d \in Callers : call[d] \in Locals
      /\ pauses \in Seq([call : ToolCall, msgs : Messages]) /\ Len(pauses) \in Nat
      /\ Idle.pc = "idle" /\ Idle.ticket = 0
  BY DEF TypeOK, Idle
<1>a. ASSUME UNCHANGED <<log, pauses>>
      PROVE  Interrupted' = Interrupted /\ \A i : LastPause(i) => LastPause(i)'
  BY <1>a DEF Interrupted, LastPause
<1>b. ASSUME NEW row, log' = Append(log, row), row.status # "interrupted", Works(c),
             UNCHANGED <<pending, pauses>>, OnlyCall(c), call[c].pc # "latest",
             call'[c].ticket = 0, call'[c].pc # "scoped",
             spent' \in {spent, spent \cup ({call[c].ticket} \ {0})}
      PROVE  PauseIsLast'
  <2>1. /\ Interrupted' = Interrupted /\ (\A i : LastPause(i) => LastPause(i)')
        /\ DOMAIN log \subseteq DOMAIN log'
    BY <1>0, <1>b, PausesStay, LogGrows
  <2>2. pending' = NoPending
    BY <1>b DEF OneWorks
  <2>3. \A d \in Callers : call'[d].ticket = 0 /\ call'[d].pc # "scoped"
    BY <1>b, OthersWait DEF OnlyCall
  <2>4. call[c].ticket \in Nat /\ (call[c].ticket # 0 => call[c].ticket = Len(pauses))
    BY <1>0 DEF Locals, PauseIsLast
  <2>5. spent' \subseteq 1..Len(pauses')
    BY <1>0, <1>b, <2>4 DEF PauseIsLast
  <2> QED BY <1>b, <2>1, <2>2, <2>3, <2>5 DEF PauseIsLast
<1>1. ASSUME Begins(c) PROVE PauseIsLast'
  BY <1>0, <1>1, <1>a
  DEF Begins, PauseIsLast, OnlyCall, store, history
<1>2. ASSUME GivesUp(c) PROVE PauseIsLast'
  BY <1>0, <1>2, <1>a
  DEF GivesUp, PauseIsLast, OnlyCall, store, history
<1>3. ASSUME LooksBack(c) PROVE PauseIsLast'
  BY <1>0, <1>3, <1>a
  DEF LooksBack, KeepsPlace, KeepsClaim, KeepsFresh, PauseIsLast, OnlyCall, store, history
<1>4. ASSUME NEW i \in DOMAIN log, ReEnters(c, i) PROVE PauseIsLast'
  BY <1>0, <1>4, <1>a
  DEF ReEnters, KeepsClaim, KeepsFresh, PauseIsLast, OnlyCall, store, history
<1>5. ASSUME Claims(c) PROVE PauseIsLast'
  BY <1>0, <1>5, <1>a
  DEF Claims, KeepsPlace, KeepsFresh, PauseIsLast, OnlyCall, store, history
<1>6. ASSUME NEW turn \in 0..MaxIter, SavesTurn(c, turn) PROVE PauseIsLast'
  <2>1. TurnRow(turn, call[c].msgs).status # "interrupted" /\ Works(c)
        /\ call[c].pc # "latest" /\ call'[c].pc # "scoped"
    BY <1>6 DEF SavesTurn, TurnRow, AtTurn, Works
  <2> QED BY <1>b, <1>6, <2>1 DEF SavesTurn
<1>7. ASSUME SavesTool(c, NewRow) PROVE PauseIsLast'
  BY <1>b, <1>7 DEF SavesTool, Works
<1>8. ASSUME Completes(c) PROVE PauseIsLast'
  <2>1. EndRow("completed").status # "interrupted"
    BY DEF EndRow
  <2> QED BY <1>0, <1>b, <1>8, <2>1 DEF Completes, Works
<1>9. ASSUME Asks(c) PROVE PauseIsLast'
  BY <1>0, <1>9, <1>a
  DEF Asks, KeepsClaim, KeepsFresh, PauseIsLast, OnlyCall, store, history
<1>10. ASSUME Replies(c) PROVE PauseIsLast'
  BY <1>0, <1>10, <1>a
  DEF Replies, KeepsClaim, KeepsFresh, PauseIsLast, OnlyCall, store, history
<1>11. ASSUME Answers(c) PROVE PauseIsLast'
  BY <1>0, <1>11, <1>a
  DEF Answers, GetsAnswer, KeepsClaim, KeepsFresh, AtCall, PauseIsLast, OnlyCall, store, history
<1>12. ASSUME RunsTool(c) PROVE PauseIsLast'
  BY <1>0, <1>12, <1>a
  DEF RunsTool, GetsAnswer, KeepsClaim, AtCall, PauseIsLast, OnlyCall, store, history
<1>13. ASSUME Pauses(c, NewRow) PROVE PauseIsLast'
  <2>1. /\ Works(c) /\ Runs(c) /\ log' = Append(log, NewRow) /\ OnlyCall(c) /\ spent' = spent
        /\ pauses' = Append(pauses, [call |-> NewRow.call, msgs |-> NewRow.msgs])
        /\ pending'.ticket = Len(pauses) + 1 /\ call'[c].ticket = 0 /\ call'[c].pc = "idle"
        /\ NewRow.status = "interrupted" /\ NewRow.turn = call[c].turn
    BY <1>0, <1>13 DEF Pauses, AtCall, Works, Runs, Reading
  <2>2. /\ Len(pauses') = Len(pauses) + 1
        /\ pauses'[Len(pauses')] = [call |-> NewRow.call, msgs |-> NewRow.msgs]
    BY <1>0, <2>1
  <2>3. PICK n \in Nat : n = Len(log) + 1
    BY <1>0
  <2>4. /\ Interrupted' = Interrupted \cup {n} /\ n \in DOMAIN log'
        /\ \A i \in Interrupted : i \in Nat /\ i <= n /\ log'[i] = log[i]
        /\ log'[n] = NewRow /\ Len(log') = n
    BY <1>0, <2>1, <2>3, LogGrows DEF Interrupted
  <2>5. \A i \in Interrupted : log'[i].turn <= log'[n].turn
    BY <2>1, <2>4 DEF TurnsPassPauses
  <2>6. log'[n].turn <= log'[n].turn
    <3>1. call[c].turn \in Nat
      BY <1>0, AgentAssumption DEF Locals
    <3> QED BY <2>1, <2>4, <3>1
  <2>7. LastPause(n)'
    <3>1. n \in Interrupted' /\ \A j \in Interrupted' : j <= n /\ log'[j].turn <= log'[n].turn
      BY <2>4, <2>5, <2>6
    <3>2. [call |-> log'[n].call, msgs |-> log'[n].msgs] = pauses'[Len(pauses')]
      BY <2>2, <2>4
    <3> QED BY <3>1, <3>2 DEF LastPause
  <2>8. \A d \in Callers : call'[d].ticket = 0 /\ call'[d].pc # "scoped"
    BY <2>1, OthersWait DEF OnlyCall
  <2>9. spent' \subseteq 1..Len(pauses') /\ Len(pauses') \notin spent' /\ pauses' # <<>>
    BY <1>0, <2>1, <2>2 DEF PauseIsLast
  <2>10. /\ pending'.ticket = Len(pauses') /\ pending'.ticket # 0
         /\ log'[Len(log')].status = "interrupted"
    BY <1>0, <2>1, <2>2, <2>4
  <2> QED BY <2>4, <2>7, <2>8, <2>9, <2>10 DEF PauseIsLast
<1>14. ASSUME StopsEarly(c) PROVE PauseIsLast'
  BY <1>0, <1>14, <1>a
  DEF StopsEarly, KeepsPlace, KeepsClaim, KeepsFresh, PauseIsLast, OnlyCall, store, history
<1>15. ASSUME FailsBehind(c) PROVE PauseIsLast'
  BY <1>0, <1>15, <1>a
  DEF FailsBehind, KeepsPlace, KeepsClaim, KeepsFresh, PauseIsLast, OnlyCall, store, history
<1>16. ASSUME Fails(c) PROVE PauseIsLast'
  BY <1>0, <1>16, <1>a
  DEF Fails, KeepsPlace, KeepsClaim, Tear, InLoop, PauseIsLast, OnlyCall, store, history
<1>17. ASSUME Marks(c) PROVE PauseIsLast'
  <2>1. EndRow("failed").status # "interrupted"
    BY DEF EndRow
  <2> QED BY <1>0, <1>b, <1>17, <2>1 DEF Marks, Works, history
<1>18. ASSUME Vanishes(c) PROVE PauseIsLast'
  BY <1>0, <1>18, <1>a
  DEF Vanishes, Tear, PauseIsLast, OnlyCall, store, history
<1> QED BY <1>1, <1>2, <1>3, <1>4, <1>5, <1>6, <1>7, <1>8, <1>9, <1>10, <1>11, <1>12, <1>13,
           <1>14, <1>15, <1>16, <1>17, <1>18
        DEF Does

\* A resume re-enters at a pause or behind it, so no later row has an earlier turn.
LEMMA TurnsPassPausesNext ==
    ASSUME TypeOK, OneWorks, TurnLeft, TurnsPassPauses, NEW c \in Callers, Does(c)
    PROVE  TurnsPassPauses'
<1>0. /\ log \in Seq(Row) /\ \A d \in Callers : call[d] \in Locals
      /\ \A d \in Callers : call[d].turn \in Nat /\ call[d].past \in Nat
      /\ Idle.pc = "idle" /\ Len(log) \in Nat /\ DOMAIN log = 1..Len(log)
      /\ \A i \in DOMAIN log : log[i].turn \in Nat /\ (i \in Interrupted => i \in Steps)
  <2>1. log \in Seq(Row) /\ \A d \in Callers : call[d] \in Locals
    BY DEF TypeOK
  <2>2. \A d \in Callers : call[d].turn \in Nat /\ call[d].past \in Nat
    BY <2>1, AgentAssumption DEF Locals
  <2>3. \A i \in DOMAIN log : log[i] \in Row
    BY <2>1
  <2>4. \A i \in DOMAIN log : log[i].turn \in Nat
    BY <2>3, AgentAssumption DEF Row
  <2>5. \A i \in Interrupted : i \in Steps
    BY DEF TurnLeft, Interrupted, Steps
  <2> QED BY <2>1, <2>2, <2>4, <2>5 DEF Idle
<1>a. ASSUME UNCHANGED log PROVE Interrupted' = Interrupted /\ Steps' = Steps
  BY <1>a DEF Interrupted, Steps
<1>b. ASSUME NEW row, log' = Append(log, row), Works(c), OnlyCall(c),
             row.kind # "end" => Runs(c) /\ row.turn \in {call[c].turn, call[c].past},
             ~Runs(c)' \/ (/\ Runs(c) /\ call'[c].turn = call[c].turn
                           /\ call'[c].past = call[c].past /\ row.status # "interrupted")
      PROVE  TurnsPassPauses'
  <2>1. PICK n \in Nat : n = Len(log) + 1
    BY <1>0
  <2>2. /\ \A i \in DOMAIN log : i \in Nat /\ i < n /\ log'[i] = log[i]
        /\ log'[n] = row /\ DOMAIN log' = DOMAIN log \cup {n}
    BY <1>0, <1>b, <2>1, LogGrows
  <2>3. \A d \in Callers \ {c} : ~Runs(d)'
    BY <1>b, OthersWait DEF OnlyCall, Runs, Works
  <2>4. /\ Interrupted' \subseteq Interrupted \cup {n} /\ Interrupted \subseteq DOMAIN log
        /\ Steps' \subseteq Steps \cup {n} /\ Steps \subseteq DOMAIN log
        /\ n \in Steps' => row.kind # "end"
        /\ n \in Interrupted' => row.status = "interrupted"
    BY <2>2 DEF Interrupted, Steps
  <2>5. ASSUME NEW i \in Interrupted', NEW j \in Steps', i < j PROVE log'[i].turn <= log'[j].turn
    <3>1. i \in Interrupted
      BY <2>2, <2>4, <2>5
    <3> QED BY <1>0, <1>b, <2>2, <2>4, <2>5, <3>1 DEF TurnsPassPauses
  <2>6. ASSUME NEW i \in Interrupted', NEW d \in Callers, Runs(d)'
        PROVE  log'[i].turn <= call'[d].turn /\ log'[i].turn <= call'[d].past
    BY <1>b, <2>2, <2>3, <2>4, <2>6 DEF TurnsPassPauses
  <2> QED BY <2>5, <2>6 DEF TurnsPassPauses
<1>c. ASSUME UNCHANGED log, OnlyCall(c), Runs(c),
             call'[c].turn \in {call[c].turn, call[c].turn + 1},
             call'[c].past \in {call[c].past, call[c].turn + 1}
      PROVE  TurnsPassPauses'
  <2>1. \A d \in Callers : Runs(d)' => Runs(d)
    BY <1>c DEF OnlyCall, Runs, Works
  <2>2. \A i \in Interrupted : /\ log[i].turn \in Nat /\ log[i].turn <= call[c].turn
                              /\ log[i].turn <= call[c].past
    BY <1>0, <1>c DEF TurnsPassPauses, Interrupted
  <2>3. call[c].turn \in Nat /\ call[c].past \in Nat
    BY <1>0
  <2>4. \A i \in Interrupted : log[i].turn <= call'[c].turn /\ log[i].turn <= call'[c].past
    BY <1>c, <2>2, <2>3
  <2> QED BY <1>a, <1>c, <2>1, <2>4 DEF TurnsPassPauses, OnlyCall
<1>1. ASSUME Begins(c) PROVE TurnsPassPauses'
  <2>1. CASE calls = 0
    BY <1>0, <1>1, <2>1 DEF Begins, OneWorks, TurnsPassPauses, Interrupted, store
  <2>2. CASE calls # 0
    BY <1>1, <1>a, <2>2 DEF Begins, TurnsPassPauses, OnlyCall, store, Runs, Works, Reading
  <2> QED BY <2>1, <2>2
<1>2. ASSUME GivesUp(c) PROVE TurnsPassPauses'
  BY <1>0, <1>2, <1>a
  DEF GivesUp, TurnsPassPauses, OnlyCall, store, Runs, Works, Reading
<1>3. ASSUME LooksBack(c) PROVE TurnsPassPauses'
  BY <1>0, <1>3, <1>a
  DEF LooksBack, KeepsPlace, KeepsClaim, KeepsFresh, TurnsPassPauses, OnlyCall, store, Runs,
      Works, Reading
<1>4. ASSUME NEW i \in DOMAIN log, ReEnters(c, i) PROVE TurnsPassPauses'
  <2>1. \A k \in Interrupted : log[k].turn <= log[i].turn
    <3>1. CASE call[c].pc = "latest"
      BY <1>0, <1>4, <3>1 DEF ReEnters, TurnsPassPauses, Steps, Interrupted
    <3>2. CASE call[c].pc = "history"
      <4>1. i \in LastOf(Steps)
        BY <1>4, <3>2 DEF ReEnters
      <4>2. \A k \in Steps : log[k].turn < log[i].turn \/ log[k].turn = log[i].turn
        BY <4>1 DEF LastOf
      <4> QED BY <1>0, <4>2 DEF Interrupted
    <3>3. CASE call[c].pc = "scoped"
      <4>1. i \in LastOf(Interrupted)
        BY <1>4, <3>3 DEF ReEnters
      <4>2. \A k \in Interrupted : log[k].turn < log[i].turn \/ log[k].turn = log[i].turn
        BY <4>1 DEF LastOf
      <4> QED BY <1>0, <4>2 DEF Interrupted
    <3> QED BY <1>4, <3>1, <3>2, <3>3 DEF ReEnters
  <2>2. /\ UNCHANGED log /\ call'[c].turn = log[i].turn /\ call'[c].past = log[i].turn
        /\ OnlyCall(c)
    BY <1>4 DEF ReEnters, store
  <2>3. \A d \in Callers \ {c} : Runs(d)' => Runs(d)
    BY <2>2 DEF OnlyCall, Runs, Works
  <2> QED BY <1>0, <1>a, <2>1, <2>2, <2>3 DEF TurnsPassPauses, OnlyCall
<1>5. ASSUME Claims(c) PROVE TurnsPassPauses'
  BY <1>0, <1>5, <1>a
  DEF Claims, KeepsPlace, KeepsFresh, TurnsPassPauses, OnlyCall, store, Runs, Works, Reading
<1>6. ASSUME NEW turn \in 0..MaxIter, SavesTurn(c, turn) PROVE TurnsPassPauses'
  <2>1. TurnRow(turn, call[c].msgs).turn = turn
        /\ TurnRow(turn, call[c].msgs).status # "interrupted"
    BY DEF TurnRow
  <2> QED BY <1>b, <1>6, <2>1 DEF SavesTurn, KeepsPlace, Runs, Works, Reading, AtTurn
<1>7. ASSUME SavesTool(c, NewRow) PROVE TurnsPassPauses'
  BY <1>b, <1>7 DEF SavesTool, KeepsPlace, Runs, Works, Reading
<1>8. ASSUME Completes(c) PROVE TurnsPassPauses'
  <2>1. EndRow("completed").kind = "end" /\ Works(c) /\ ~Runs(c)' /\ OnlyCall(c)
        /\ log' = Append(log, EndRow("completed"))
    BY <1>0, <1>8 DEF Completes, EndRow, Runs, Works
  <2> QED BY <1>b, <2>1
<1>9. ASSUME Asks(c) PROVE TurnsPassPauses'
  BY <1>0, <1>9, <1>a
  DEF Asks, KeepsClaim, KeepsFresh, TurnsPassPauses, OnlyCall, store, Runs, Works, Reading
<1>10. ASSUME Replies(c) PROVE TurnsPassPauses'
  <2>1. Runs(c) /\ UNCHANGED log /\ OnlyCall(c)
        /\ call'[c].turn \in {call[c].turn, call[c].turn + 1}
        /\ call'[c].past \in {call[c].past, call[c].turn + 1}
    BY <1>10 DEF Replies, Runs, Works, Reading, store
  <2> QED BY <1>c, <2>1
<1>11. ASSUME Answers(c) PROVE TurnsPassPauses'
  <2>1. Runs(c) /\ UNCHANGED log /\ OnlyCall(c)
        /\ call'[c].turn \in {call[c].turn, call[c].turn + 1}
        /\ call'[c].past = call[c].turn + 1
    BY <1>11 DEF Answers, GetsAnswer, AtCall, Runs, Works, Reading, store
  <2> QED BY <1>c, <2>1
<1>12. ASSUME RunsTool(c) PROVE TurnsPassPauses'
  <2>1. Runs(c) /\ UNCHANGED log /\ OnlyCall(c)
        /\ call'[c].turn \in {call[c].turn, call[c].turn + 1}
        /\ call'[c].past = call[c].turn + 1
    BY <1>12 DEF RunsTool, GetsAnswer, AtCall, Runs, Works, Reading, store
  <2> QED BY <1>c, <2>1
<1>13. ASSUME Pauses(c, NewRow) PROVE TurnsPassPauses'
  <2>1. Works(c) /\ Runs(c) /\ ~Runs(c)' /\ OnlyCall(c) /\ log' = Append(log, NewRow)
        /\ NewRow.turn = call[c].turn
    BY <1>0, <1>13 DEF Pauses, AtCall, Runs, Works, Reading
  <2> QED BY <1>b, <2>1
<1>14. ASSUME StopsEarly(c) PROVE TurnsPassPauses'
  BY <1>0, <1>14, <1>a
  DEF StopsEarly, KeepsPlace, KeepsClaim, KeepsFresh, TurnsPassPauses, OnlyCall, store, Runs,
      Works, Reading
<1>15. ASSUME FailsBehind(c) PROVE TurnsPassPauses'
  BY <1>0, <1>15, <1>a
  DEF FailsBehind, KeepsPlace, KeepsClaim, KeepsFresh, TurnsPassPauses, OnlyCall, store, Runs,
      Works, Reading
<1>16. ASSUME Fails(c) PROVE TurnsPassPauses'
  BY <1>0, <1>16, <1>a
  DEF Fails, KeepsPlace, KeepsClaim, Tear, InLoop, TurnsPassPauses, OnlyCall, store, Runs, Works,
      Reading
<1>17. ASSUME Marks(c) PROVE TurnsPassPauses'
  <2>1. EndRow("failed").kind = "end" /\ Works(c) /\ ~Runs(c)' /\ OnlyCall(c)
        /\ log' = Append(log, EndRow("failed"))
    BY <1>0, <1>17 DEF Marks, EndRow, Runs, Works
  <2> QED BY <1>b, <2>1
<1>18. ASSUME Vanishes(c) PROVE TurnsPassPauses'
  BY <1>0, <1>18, <1>a
  DEF Vanishes, Tear, TurnsPassPauses, OnlyCall, store, Runs, Works, Reading
<1> QED BY <1>1, <1>2, <1>3, <1>4, <1>5, <1>6, <1>7, <1>8, <1>9, <1>10, <1>11, <1>12, <1>13,
           <1>14, <1>15, <1>16, <1>17, <1>18
        DEF Does

\* A claimed answer finds its pause, which is the last one, in the last interrupted row.
LEMMA AnswerResumesItsPauseNext ==
    ASSUME TypeOK, OneWorks, TurnLeft, PauseIsLast, AnswerResumesItsPause,
           NEW c \in Callers, Does(c)
    PROVE  AnswerResumesItsPause'
<1>0. /\ log \in Seq(Row) /\ \A d \in Callers : call[d] \in Locals
      /\ pauses \in Seq([call : ToolCall, msgs : Messages]) /\ Len(pauses) \in Nat
      /\ Idle.pc = "idle" /\ Idle.ticket = 0
  BY DEF TypeOK, Idle
<1>a. ASSUME UNCHANGED pauses, OnlyCall(c),
             ~(call'[c].pc = "retool" /\ call'[c].ticket # 0)
      PROVE  AnswerResumesItsPause'
  BY <1>a DEF AnswerResumesItsPause, OnlyCall
<1>1. ASSUME Begins(c) PROVE AnswerResumesItsPause'
  BY <1>0, <1>1, <1>a
  DEF Begins, history
<1>2. ASSUME GivesUp(c) PROVE AnswerResumesItsPause'
  BY <1>0, <1>2, <1>a
  DEF GivesUp, history
<1>3. ASSUME LooksBack(c) PROVE AnswerResumesItsPause'
  BY <1>0, <1>3, <1>a
  DEF LooksBack, KeepsPlace, KeepsClaim, KeepsFresh, history
<1>4. ASSUME NEW i \in DOMAIN log, ReEnters(c, i) PROVE AnswerResumesItsPause'
  <2>1. UNCHANGED pauses /\ OnlyCall(c) /\ call'[c].ticket = call[c].ticket
        /\ call'[c].call = log[i].call /\ call'[c].msgs = log[i].msgs
    BY <1>4 DEF ReEnters, KeepsClaim, history
  <2>2. CASE call[c].pc # "scoped"
    BY <1>4, <1>a, <2>1, <2>2 DEF ReEnters, OneWorks
  <2>3. CASE call[c].pc = "scoped"
    <3>1. i \in LastOf(Interrupted)
      BY <1>4, <2>3 DEF ReEnters
    <3>2. PICK p \in DOMAIN log : LastPause(p)
      BY <3>1 DEF PauseIsLast, LastOf
    <3>3. \A k \in DOMAIN log : k \in Nat /\ log[k].turn \in Nat
      <4>1. \A k \in DOMAIN log : log[k] \in Row /\ k \in Nat
        BY <1>0
      <4> QED BY <4>1, AgentAssumption DEF Row
    <3>4. i = p
      BY <3>1, <3>2, <3>3 DEF LastOf, LastPause, Interrupted
    <3>5. call[c].ticket # 0 => call[c].ticket = Len(pauses)
      BY DEF PauseIsLast
    <3> QED BY <2>1, <3>2, <3>4, <3>5 DEF LastPause, AnswerResumesItsPause, OnlyCall
  <2> QED BY <2>2, <2>3
<1>5. ASSUME Claims(c) PROVE AnswerResumesItsPause'
  BY <1>0, <1>5, <1>a
  DEF Claims, KeepsPlace, KeepsFresh, history
<1>6. ASSUME NEW turn \in 0..MaxIter, SavesTurn(c, turn) PROVE AnswerResumesItsPause'
  BY <1>0, <1>6, <1>a
  DEF SavesTurn, KeepsPlace, history
<1>7. ASSUME SavesTool(c, NewRow) PROVE AnswerResumesItsPause'
  BY <1>0, <1>7, <1>a
  DEF SavesTool, KeepsPlace, history
<1>8. ASSUME Completes(c) PROVE AnswerResumesItsPause'
  BY <1>0, <1>8, <1>a
  DEF Completes, history
<1>9. ASSUME Asks(c) PROVE AnswerResumesItsPause'
  BY <1>0, <1>9, <1>a
  DEF Asks, KeepsClaim, KeepsFresh, history
<1>10. ASSUME Replies(c) PROVE AnswerResumesItsPause'
  BY <1>0, <1>10, <1>a
  DEF Replies, KeepsClaim, KeepsFresh, history
<1>11. ASSUME Answers(c) PROVE AnswerResumesItsPause'
  BY <1>0, <1>11, <1>a
  DEF Answers, GetsAnswer, KeepsClaim, KeepsFresh, AtCall, history
<1>12. ASSUME RunsTool(c) PROVE AnswerResumesItsPause'
  BY <1>0, <1>12, <1>a
  DEF RunsTool, GetsAnswer, KeepsClaim, AtCall, history
<1>13. ASSUME Pauses(c, NewRow) PROVE AnswerResumesItsPause'
  <2>1. Works(c) /\ call'[c].pc = "idle" /\ OnlyCall(c)
    BY <1>0, <1>13 DEF Pauses, AtCall, Works
  <2>2. \A d \in Callers : call'[d].pc # "retool"
    BY <2>1, OthersWait DEF OnlyCall
  <2> QED BY <2>2 DEF AnswerResumesItsPause
<1>14. ASSUME StopsEarly(c) PROVE AnswerResumesItsPause'
  BY <1>0, <1>14, <1>a
  DEF StopsEarly, KeepsPlace, KeepsClaim, KeepsFresh, history
<1>15. ASSUME FailsBehind(c) PROVE AnswerResumesItsPause'
  BY <1>0, <1>15, <1>a
  DEF FailsBehind, KeepsPlace, KeepsClaim, KeepsFresh, history
<1>16. ASSUME Fails(c) PROVE AnswerResumesItsPause'
  BY <1>0, <1>16, <1>a
  DEF Fails, KeepsPlace, KeepsClaim, Tear, InLoop, history
<1>17. ASSUME Marks(c) PROVE AnswerResumesItsPause'
  BY <1>0, <1>17, <1>a
  DEF Marks, history
<1>18. ASSUME Vanishes(c) PROVE AnswerResumesItsPause'
  BY <1>0, <1>18, <1>a
  DEF Vanishes, Tear, history
<1> QED BY <1>1, <1>2, <1>3, <1>4, <1>5, <1>6, <1>7, <1>8, <1>9, <1>10, <1>11, <1>12, <1>13,
           <1>14, <1>15, <1>16, <1>17, <1>18
        DEF Does

\* Between turns nothing is unanswered, in the locals and in the rows.
LEMMA RestsBalancedNext ==
    ASSUME TypeOK, RestsBalanced, NEW c \in Callers, Does(c)
    PROVE  RestsBalanced'
<1>0. /\ log \in Seq(Row) /\ Idle.pc = "idle" /\ Idle.msgs = NoMessages
      /\ Balanced(NoMessages) /\ cut \in BOOLEAN
  BY DEF TypeOK, Idle, NoMessages, Balanced
<1>a. ASSUME UNCHANGED log, OnlyCall(c), call'[c].pc \in AtRest => Balanced(call'[c].msgs),
             ~cut' => ~cut
      PROVE  RestsBalanced'
  BY <1>a DEF RestsBalanced, OnlyCall
<1>b. ASSUME NEW row, log' = Append(log, row), OnlyCall(c), ~cut' => ~cut,
             ~cut => (row.kind = "turn" => Balanced(row.msgs)),
             ~cut => (call'[c].pc \in AtRest => Balanced(call'[c].msgs))
      PROVE  RestsBalanced'
  BY <1>0, <1>b, LogGrows DEF RestsBalanced, OnlyCall
<1>1. ASSUME Begins(c) PROVE RestsBalanced'
  BY <1>0, <1>1, <1>a
  DEF Begins, RestsBalanced, AtRest, AtTurn, store, history, Balanced
<1>2. ASSUME GivesUp(c) PROVE RestsBalanced'
  BY <1>0, <1>2, <1>a
  DEF GivesUp, RestsBalanced, AtRest, AtTurn, store, history, Balanced
<1>3. ASSUME LooksBack(c) PROVE RestsBalanced'
  BY <1>0, <1>3, <1>a
  DEF LooksBack, KeepsPlace, KeepsClaim, KeepsFresh, RestsBalanced, AtRest, AtTurn, store,
      history, Balanced
<1>4. ASSUME NEW i \in DOMAIN log, ReEnters(c, i) PROVE RestsBalanced'
  BY <1>0, <1>4, <1>a
  DEF ReEnters, KeepsClaim, KeepsFresh, RestsBalanced, AtRest, AtTurn, store, history, Balanced
<1>5. ASSUME Claims(c) PROVE RestsBalanced'
  BY <1>0, <1>5, <1>a
  DEF Claims, KeepsPlace, KeepsFresh, RestsBalanced, AtRest, AtTurn, store, history, Balanced
<1>6. ASSUME NEW turn \in 0..MaxIter, SavesTurn(c, turn) PROVE RestsBalanced'
  BY <1>0, <1>6, <1>b
  DEF SavesTurn, KeepsPlace, RestsBalanced, AtRest, AtTurn, store, history, Balanced, TurnRow
<1>7. ASSUME SavesTool(c, NewRow) PROVE RestsBalanced'
  BY <1>0, <1>7, <1>b
  DEF SavesTool, KeepsPlace, RestsBalanced, AtRest, AtTurn, store, history, Balanced
<1>8. ASSUME Completes(c) PROVE RestsBalanced'
  BY <1>0, <1>8, <1>b
  DEF Completes, RestsBalanced, AtRest, AtTurn, store, history, Balanced, EndRow
<1>9. ASSUME Asks(c) PROVE RestsBalanced'
  BY <1>0, <1>9, <1>a
  DEF Asks, KeepsClaim, KeepsFresh, RestsBalanced, AtRest, AtTurn, store, history, Balanced
<1>10. ASSUME Replies(c) PROVE RestsBalanced'
  BY <1>0, <1>10, <1>a
  DEF Replies, KeepsClaim, KeepsFresh, RestsBalanced, AtRest, AtTurn, store, history, Balanced
<1>11. ASSUME Answers(c) PROVE RestsBalanced'
  BY <1>0, <1>11, <1>a
  DEF Answers, GetsAnswer, KeepsClaim, KeepsFresh, AtCall, RestsBalanced, AtRest, AtTurn, store,
      history, Balanced
<1>12. ASSUME RunsTool(c) PROVE RestsBalanced'
  BY <1>0, <1>12, <1>a
  DEF RunsTool, GetsAnswer, KeepsClaim, AtCall, RestsBalanced, AtRest, AtTurn, store, history,
      Balanced
<1>13. ASSUME Pauses(c, NewRow) PROVE RestsBalanced'
  BY <1>0, <1>13, <1>b
  DEF Pauses, AtCall, RestsBalanced, AtRest, AtTurn, store, history, Balanced
<1>14. ASSUME StopsEarly(c) PROVE RestsBalanced'
  BY <1>0, <1>14, <1>a
  DEF StopsEarly, KeepsPlace, KeepsClaim, KeepsFresh, RestsBalanced, AtRest, AtTurn, store,
      history, Balanced
<1>15. ASSUME FailsBehind(c) PROVE RestsBalanced'
  BY <1>0, <1>15, <1>a
  DEF FailsBehind, KeepsPlace, KeepsClaim, KeepsFresh, RestsBalanced, AtRest, AtTurn, store,
      history, Balanced
<1>16. ASSUME Fails(c) PROVE RestsBalanced'
  BY <1>0, <1>16, <1>a
  DEF Fails, KeepsPlace, KeepsClaim, Tear, InLoop, RestsBalanced, AtRest, AtTurn, store, history,
      Balanced
<1>17. ASSUME Marks(c) PROVE RestsBalanced'
  BY <1>0, <1>17, <1>b
  DEF Marks, RestsBalanced, AtRest, AtTurn, store, history, Balanced, EndRow
<1>18. ASSUME Vanishes(c) PROVE RestsBalanced'
  BY <1>0, <1>18, <1>a
  DEF Vanishes, Tear, RestsBalanced, AtRest, AtTurn, store, history, Balanced
<1> QED BY <1>1, <1>2, <1>3, <1>4, <1>5, <1>6, <1>7, <1>8, <1>9, <1>10, <1>11, <1>12, <1>13,
           <1>14, <1>15, <1>16, <1>17, <1>18
        DEF Does

\* Nobody is in a run that carries a completed marker, or gets into it again.
LEMMA FinishedForGoodNext ==
    ASSUME TypeOK, OneWorks, FinishedForGood, NEW c \in Callers, Does(c)
    PROVE  FinishedForGood'
<1>0. log \in Seq(Row) /\ Idle.pc = "idle"
  BY DEF TypeOK, Idle
<1>a. ASSUME UNCHANGED log PROVE Finished' = Finished
  BY <1>a DEF Finished
<1>b. ASSUME NEW row, log' = Append(log, row), ~Finished,
             ~(row.kind = "end" /\ row.status = "completed")
      PROVE  ~Finished'
  BY <1>0, <1>b, LogGrows DEF Finished
<1>1. ASSUME Begins(c) PROVE FinishedForGood'
  BY <1>0, <1>1, <1>a
  DEF Begins, FinishedForGood, OnlyCall, store, AtTurn, InLoop, OneWorks, Finished
<1>2. ASSUME GivesUp(c) PROVE FinishedForGood'
  BY <1>0, <1>2, <1>a
  DEF GivesUp, FinishedForGood, OnlyCall, store, AtTurn, InLoop
<1>3. ASSUME LooksBack(c) PROVE FinishedForGood'
  BY <1>0, <1>3, <1>a
  DEF LooksBack, KeepsPlace, KeepsClaim, KeepsFresh, FinishedForGood, OnlyCall, store, AtTurn,
      InLoop
<1>4. ASSUME NEW i \in DOMAIN log, ReEnters(c, i) PROVE FinishedForGood'
  BY <1>0, <1>4, <1>a
  DEF ReEnters, KeepsClaim, KeepsFresh, FinishedForGood, OnlyCall, store, AtTurn, InLoop
<1>5. ASSUME Claims(c) PROVE FinishedForGood'
  BY <1>0, <1>5, <1>a
  DEF Claims, KeepsPlace, KeepsFresh, FinishedForGood, OnlyCall, store, AtTurn, InLoop, NoPending
<1>6. ASSUME NEW turn \in 0..MaxIter, SavesTurn(c, turn) PROVE FinishedForGood'
  BY <1>0, <1>6, <1>b
  DEF SavesTurn, KeepsPlace, FinishedForGood, OnlyCall, store, AtTurn, InLoop, TurnRow
<1>7. ASSUME SavesTool(c, NewRow) PROVE FinishedForGood'
  BY <1>0, <1>7, <1>b
  DEF SavesTool, KeepsPlace, FinishedForGood, OnlyCall, store, AtTurn, InLoop
<1>8. ASSUME Completes(c) PROVE FinishedForGood'
  <2>1. /\ log' = Append(log, EndRow("completed")) /\ Works(c) /\ call[c].pc = "finish"
        /\ call'[c].pc = "idle" /\ OnlyCall(c) /\ UNCHANGED pending
    BY <1>0, <1>8 DEF Completes, Works
  <2>2. /\ log'[Len(log')].kind = "end" /\ log'[Len(log')].status = "completed"
    BY <1>0, <2>1, LogGrows DEF EndRow
  <2>3. pending' = NoPending
    BY <2>1 DEF OneWorks
  <2>4. \A d \in Callers : call'[d].pc \in {"idle", "claim", "latest"}
    BY <2>1, OthersWait DEF OnlyCall
  <2> QED BY <2>2, <2>3, <2>4 DEF FinishedForGood
<1>9. ASSUME Asks(c) PROVE FinishedForGood'
  BY <1>0, <1>9, <1>a
  DEF Asks, KeepsClaim, KeepsFresh, FinishedForGood, OnlyCall, store, AtTurn, InLoop
<1>10. ASSUME Replies(c) PROVE FinishedForGood'
  BY <1>0, <1>10, <1>a
  DEF Replies, KeepsClaim, KeepsFresh, FinishedForGood, OnlyCall, store, AtTurn, InLoop
<1>11. ASSUME Answers(c) PROVE FinishedForGood'
  BY <1>0, <1>11, <1>a
  DEF Answers, GetsAnswer, KeepsClaim, KeepsFresh, AtCall, FinishedForGood, OnlyCall, store,
      AtTurn, InLoop
<1>12. ASSUME RunsTool(c) PROVE FinishedForGood'
  BY <1>0, <1>12, <1>a
  DEF RunsTool, GetsAnswer, KeepsClaim, AtCall, FinishedForGood, OnlyCall, store, AtTurn, InLoop
<1>13. ASSUME Pauses(c, NewRow) PROVE FinishedForGood'
  BY <1>0, <1>13, <1>b
  DEF Pauses, AtCall, FinishedForGood, OnlyCall, store, AtTurn, InLoop
<1>14. ASSUME StopsEarly(c) PROVE FinishedForGood'
  BY <1>0, <1>14, <1>a
  DEF StopsEarly, KeepsPlace, KeepsClaim, KeepsFresh, FinishedForGood, OnlyCall, store, AtTurn,
      InLoop
<1>15. ASSUME FailsBehind(c) PROVE FinishedForGood'
  BY <1>0, <1>15, <1>a
  DEF FailsBehind, KeepsPlace, KeepsClaim, KeepsFresh, FinishedForGood, OnlyCall, store, AtTurn,
      InLoop
<1>16. ASSUME Fails(c) PROVE FinishedForGood'
  BY <1>0, <1>16, <1>a
  DEF Fails, KeepsPlace, KeepsClaim, Tear, InLoop, FinishedForGood, OnlyCall, store, AtTurn,
      InLoop
<1>17. ASSUME Marks(c) PROVE FinishedForGood'
  BY <1>0, <1>17, <1>b
  DEF Marks, FinishedForGood, OnlyCall, store, AtTurn, InLoop, EndRow
<1>18. ASSUME Vanishes(c) PROVE FinishedForGood'
  BY <1>0, <1>18, <1>a
  DEF Vanishes, Tear, FinishedForGood, OnlyCall, store, AtTurn, InLoop
<1> QED BY <1>1, <1>2, <1>3, <1>4, <1>5, <1>6, <1>7, <1>8, <1>9, <1>10, <1>11, <1>12, <1>13,
           <1>14, <1>15, <1>16, <1>17, <1>18
        DEF Does

\* What is told was asked, and the ids are counted.
LEMMA CallsAreAskedNext ==
    ASSUME TypeOK, TypeOK', TurnLeft, CallsAreAsked, NEW c \in Callers, Does(c)
    PROVE  CallsAreAsked'
<1>0. /\ log \in Seq(Row) /\ Idle.msgs = NoMessages /\ tools \in Nat /\ tools' \in Nat
      /\ NoMessages.asked = {} /\ NoMessages.told = {}
      /\ \A d \in Callers : call[d].msgs \in Messages
      /\ \A i \in DOMAIN log : log[i].msgs \in Messages
  <2>1. log \in Seq(Row) /\ tools \in Nat /\ tools' \in Nat /\ \A d \in Callers : call[d] \in Locals
    BY DEF TypeOK
  <2>2. \A i \in DOMAIN log : log[i] \in Row
    BY <2>1
  <2> QED BY <2>1, <2>2 DEF Locals, Row, Idle, NoMessages
<1>a. ASSUME UNCHANGED log, OnlyCall(c), tools' >= tools, Sound(call'[c].msgs, tools')
      PROVE  CallsAreAsked'
  <2>1. \A x \in ToolCall : x.id <= tools => x.id <= tools'
    BY <1>0, <1>a DEF ToolCall
  <2>2. \A m \in Messages : Sound(m, tools) => Sound(m, tools')
    BY <2>1 DEF Sound, Messages
  <2> QED BY <1>0, <1>a, <2>2 DEF CallsAreAsked, OnlyCall
<1>b. ASSUME NEW row, log' = Append(log, row), OnlyCall(c), UNCHANGED tools,
             row.msgs \in {call[c].msgs, NoMessages}, row.kind = "end" => row.msgs = NoMessages,
             call'[c].msgs \in {call[c].msgs, NoMessages}
      PROVE  CallsAreAsked'
  <2>1. Sound(NoMessages, tools) /\ tools' = tools
    BY <1>0, <1>b DEF Sound
  <2> QED BY <1>0, <1>b, <2>1, LogGrows DEF CallsAreAsked, OnlyCall
<1>1. ASSUME Begins(c) PROVE CallsAreAsked'
  BY <1>0, <1>1, <1>a
  DEF Begins, CallsAreAsked, Sound, store
<1>2. ASSUME GivesUp(c) PROVE CallsAreAsked'
  BY <1>0, <1>2, <1>a
  DEF GivesUp, CallsAreAsked, Sound, store
<1>3. ASSUME LooksBack(c) PROVE CallsAreAsked'
  BY <1>0, <1>3, <1>a
  DEF LooksBack, KeepsPlace, KeepsClaim, KeepsFresh, CallsAreAsked, Sound, store
<1>4. ASSUME NEW i \in DOMAIN log, ReEnters(c, i) PROVE CallsAreAsked'
  BY <1>0, <1>4, <1>a
  DEF ReEnters, KeepsClaim, KeepsFresh, CallsAreAsked, Sound, store
<1>5. ASSUME Claims(c) PROVE CallsAreAsked'
  BY <1>0, <1>5, <1>a
  DEF Claims, KeepsPlace, KeepsFresh, CallsAreAsked, Sound, store
<1>6. ASSUME NEW turn \in 0..MaxIter, SavesTurn(c, turn) PROVE CallsAreAsked'
  BY <1>0, <1>6, <1>b
  DEF SavesTurn, KeepsPlace, CallsAreAsked, Sound, store, TurnRow
<1>7. ASSUME SavesTool(c, NewRow) PROVE CallsAreAsked'
  BY <1>0, <1>7, <1>b
  DEF SavesTool, KeepsPlace, CallsAreAsked, Sound, store
<1>8. ASSUME Completes(c) PROVE CallsAreAsked'
  BY <1>0, <1>8, <1>b
  DEF Completes, CallsAreAsked, Sound, store, EndRow
<1>9. ASSUME Asks(c) PROVE CallsAreAsked'
  <2>1. PICK S \in SUBSET ToolCall : /\ \A x \in S : tools < x.id /\ x.id <= tools'
                                     /\ call'[c].msgs.asked = call[c].msgs.asked \cup S
    BY <1>9 DEF Asks
  <2>2. \A x \in ToolCall : x.id \in Nat
    BY DEF ToolCall
  <2>3. \A x \in call[c].msgs.asked : x.id <= tools /\ x.id \in Nat
    BY <1>0, <2>2 DEF CallsAreAsked, Sound, Messages
  <2>4. /\ UNCHANGED log /\ OnlyCall(c) /\ tools' > tools
        /\ call'[c].msgs.told = call[c].msgs.told
    BY <1>9 DEF Asks, store
  <2>5. Sound(call'[c].msgs, tools')
    BY <1>0, <2>1, <2>3, <2>4 DEF CallsAreAsked, Sound
  <2> QED BY <1>0, <1>a, <2>4, <2>5
<1>10. ASSUME Replies(c) PROVE CallsAreAsked'
  BY <1>0, <1>10, <1>a
  DEF Replies, KeepsClaim, KeepsFresh, CallsAreAsked, Sound, store
<1>11. ASSUME Answers(c) PROVE CallsAreAsked'
  <2>1. /\ UNCHANGED <<log, tools>> /\ OnlyCall(c)
        /\ call'[c].msgs.asked = call[c].msgs.asked
        /\ call'[c].msgs.told \subseteq call[c].msgs.told \cup call[c].msgs.asked
    BY <1>11 DEF Answers, GetsAnswer, AtCall, TurnLeft, store
  <2>2. Sound(call'[c].msgs, tools')
    BY <2>1 DEF CallsAreAsked, Sound
  <2> QED BY <1>0, <1>a, <2>1, <2>2
<1>12. ASSUME RunsTool(c) PROVE CallsAreAsked'
  <2>1. /\ UNCHANGED <<log, tools>> /\ OnlyCall(c)
        /\ call'[c].msgs.asked = call[c].msgs.asked
        /\ call'[c].msgs.told \subseteq call[c].msgs.told \cup call[c].msgs.asked
    BY <1>12 DEF RunsTool, GetsAnswer, AtCall, TurnLeft, store
  <2>2. Sound(call'[c].msgs, tools')
    BY <2>1 DEF CallsAreAsked, Sound
  <2> QED BY <1>0, <1>a, <2>1, <2>2
<1>13. ASSUME Pauses(c, NewRow) PROVE CallsAreAsked'
  BY <1>0, <1>13, <1>b
  DEF Pauses, AtCall, CallsAreAsked, Sound, store
<1>14. ASSUME StopsEarly(c) PROVE CallsAreAsked'
  BY <1>0, <1>14, <1>a
  DEF StopsEarly, KeepsPlace, KeepsClaim, KeepsFresh, CallsAreAsked, Sound, store
<1>15. ASSUME FailsBehind(c) PROVE CallsAreAsked'
  BY <1>0, <1>15, <1>a
  DEF FailsBehind, KeepsPlace, KeepsClaim, KeepsFresh, CallsAreAsked, Sound, store
<1>16. ASSUME Fails(c) PROVE CallsAreAsked'
  BY <1>0, <1>16, <1>a
  DEF Fails, KeepsPlace, KeepsClaim, Tear, InLoop, CallsAreAsked, Sound, store
<1>17. ASSUME Marks(c) PROVE CallsAreAsked'
  BY <1>0, <1>17, <1>b
  DEF Marks, CallsAreAsked, Sound, store, EndRow
<1>18. ASSUME Vanishes(c) PROVE CallsAreAsked'
  BY <1>0, <1>18, <1>a
  DEF Vanishes, Tear, CallsAreAsked, Sound, store
<1> QED BY <1>1, <1>2, <1>3, <1>4, <1>5, <1>6, <1>7, <1>8, <1>9, <1>10, <1>11, <1>12, <1>13,
           <1>14, <1>15, <1>16, <1>17, <1>18
        DEF Does

\* A row in the order a resume reads them knows what the rows before it knew.
LEMMA ResultsComeLaterNext ==
    ASSUME TypeOK, OneWorks, TurnLeft, RestsBalanced, CallsAreAsked, ResultsComeLater,
           RunsAreTold, NEW c \in Callers, Does(c)
    PROVE  ResultsComeLater'
<1>0. /\ log \in Seq(Row) /\ Len(log) \in Nat /\ DOMAIN log = 1..Len(log)
      /\ \A i \in DOMAIN log : log[i].turn \in Nat /\ i \in Nat
      /\ \A d \in Callers : call[d].turn \in Nat /\ call[d].past \in Nat
      /\ Idle.pc = "idle"
  <2>1. log \in Seq(Row) /\ \A d \in Callers : call[d] \in Locals
    BY DEF TypeOK
  <2>2. \A i \in DOMAIN log : log[i] \in Row /\ i \in Nat
    BY <2>1
  <2>3. \A i \in DOMAIN log : log[i].turn \in Nat
    BY <2>2, AgentAssumption DEF Row
  <2>4. \A d \in Callers : call[d].turn \in Nat /\ call[d].past \in Nat
    BY <2>1, AgentAssumption DEF Locals
  <2> QED BY <2>1, <2>2, <2>3, <2>4 DEF Idle
<1>a. ASSUME UNCHANGED log, OnlyCall(c), ~cut' => ~cut, Runs(c)' => Works(c),
             ~cut /\ Runs(c)' =>
               \A x \in ToolCall : \A i \in Waiting(x) : Abreast(c, x, log[i].turn)'
      PROVE  ResultsComeLater'
  <2>1. \A x : Told(x)' = Told(x) /\ Waiting(x)' = Waiting(x)
    BY <1>a DEF Told, Waiting
  <2>2. ASSUME NEW d \in Callers \ {c}, Runs(d)', NEW x \in ToolCall, NEW i \in Waiting(x), ~cut
        PROVE  Abreast(d, x, log[i].turn)'
    BY <1>a, <2>2 DEF OnlyCall, Runs, Works, ResultsComeLater, Abreast
  <2> QED BY <1>a, <2>1, <2>2 DEF ResultsComeLater
<1>b. ASSUME NEW row, log' = Append(log, row), OnlyCall(c), UNCHANGED cut, Works(c),
             ~cut => \/ row.msgs = NoMessages
                     \/ /\ Runs(c) /\ call[c].pc # "mark" /\ row.msgs = call[c].msgs
                        /\ \/ row.turn = call[c].turn
                           \/ row.turn = call[c].past /\ Balanced(row.msgs),
             ~Runs(c)' \/ (Runs(c) /\ KeepsPlace(c) /\ call[c].pc # "mark")
      PROVE  ResultsComeLater'
  <2> SUFFICES ASSUME ~cut' PROVE ResultsComeLater'
    BY DEF ResultsComeLater
  <2>1. PICK n \in Nat : n = Len(log) + 1
    BY <1>0
  <2>2. /\ \A i \in DOMAIN log : i \in Nat /\ i < n /\ log'[i] = log[i]
        /\ log'[n] = row /\ DOMAIN log' = DOMAIN log \cup {n}
    BY <1>0, <1>b, <2>1, LogGrows
  <2>3. \A d \in Callers \ {c} : ~Runs(d)'
    BY <1>b, OthersWait DEF OnlyCall, Runs, Works
  <2>4. /\ \A x : Told(x)' \subseteq Told(x) \cup {n} /\ Told(x) \subseteq DOMAIN log
        /\ \A x : Waiting(x)' \subseteq Waiting(x) \cup {n} /\ Waiting(x) \subseteq DOMAIN log
        /\ \A x : n \in Told(x)' => x \in row.msgs.told
        /\ \A x : n \in Waiting(x)' => x \in Unanswered(row.msgs)
    BY <2>2 DEF Told, Waiting
  <2>5. ASSUME NEW x \in ToolCall, x \in Unanswered(row.msgs)
        PROVE  /\ row.turn = call[c].turn /\ x \in Unanswered(call[c].msgs) /\ Told(x) = {}
               /\ x \notin row.msgs.told /\ Runs(c) /\ call[c].pc # "mark"
    BY <1>b, <2>5 DEF NoMessages, Unanswered, Balanced, RunsAreTold
  <2>6. ASSUME NEW x \in ToolCall, x \in row.msgs.told
        PROVE  /\ x \in call[c].msgs.told /\ Runs(c) /\ x \notin Unanswered(row.msgs)
               /\ row.turn \in {call[c].turn, call[c].past}
    BY <1>b, <2>6 DEF NoMessages, Unanswered
  <2>7. ASSUME NEW x \in ToolCall, NEW i \in Waiting(x), Runs(c)
        PROVE  Abreast(c, x, log[i].turn)
    BY <1>b, <2>7 DEF ResultsComeLater
  <2>8. ASSUME NEW x \in ToolCall, NEW i \in Waiting(x)', NEW j \in Waiting(x)'
        PROVE  log'[i].turn = log'[j].turn
    <3>1. \A k \in Waiting(x) : n \in Waiting(x)' => log[k].turn = row.turn
      BY <2>4, <2>5, <2>7 DEF Abreast
    <3>2. \A k, l \in Waiting(x) : log[k].turn = log[l].turn
      BY <1>b DEF ResultsComeLater
    <3>3. \A k \in Waiting(x) : log'[k] = log[k]
      BY <2>2, <2>4
    <3> QED BY <2>2, <2>4, <2>8, <3>1, <3>2, <3>3
  <2>9. ASSUME NEW x \in ToolCall, NEW i \in Waiting(x)', NEW j \in Told(x)'
        PROVE  i < j /\ log'[i].turn <= log'[j].turn
    <3>1. CASE i = n
      BY <2>4, <2>5, <2>9, <3>1
    <3>2. CASE i \in Waiting(x) /\ j = n
      <4>1. log[i].turn <= row.turn
        BY <2>4, <2>6, <2>7, <2>9, <3>2 DEF Abreast
      <4> QED BY <2>2, <2>4, <3>2, <4>1
    <3>3. CASE i \in Waiting(x) /\ j \in Told(x)
      <4>1. i < j /\ log[i].turn <= log[j].turn
        BY <1>b, <3>3 DEF ResultsComeLater
      <4> QED BY <2>2, <2>4, <3>3, <4>1
    <3> QED BY <2>4, <2>9, <3>1, <3>2, <3>3
  <2>10. ASSUME NEW x \in ToolCall, NEW i \in Waiting(x)', Runs(c)', NEW t, t = log'[i].turn
         PROVE  Abreast(c, x, t)'
    <3>1. CASE i = n
      <4>1. row.turn = call[c].turn /\ x \notin call[c].msgs.told
        BY <2>4, <2>5, <2>10, <3>1 DEF Unanswered
      <4> QED BY <1>b, <2>2, <2>10, <3>1, <4>1 DEF Abreast, KeepsPlace
    <3>2. CASE i \in Waiting(x)
      <4>1. log'[i] = log[i]
        BY <2>2, <2>4, <3>2
      <4> QED BY <1>b, <2>7, <2>10, <3>2, <4>1 DEF Abreast, KeepsPlace
    <3> QED BY <2>4, <2>10, <3>1, <3>2
  <2> QED BY <2>3, <2>8, <2>9, <2>10 DEF ResultsComeLater
<1>c. ASSUME GetsAnswer(c) PROVE ResultsComeLater'
  <2>1. /\ UNCHANGED <<log, cut>> /\ OnlyCall(c) /\ Runs(c) /\ Works(c) /\ call[c].pc # "mark"
        /\ call[c].call \in Unanswered(call[c].msgs)
    BY <1>c DEF GetsAnswer, AtCall, store, TurnLeft, Unanswered, Runs, Works, Reading
  <2>2. ASSUME ~cut, NEW x \in ToolCall, NEW i \in Waiting(x)
        PROVE  Abreast(c, x, log[i].turn)'
    <3>1. /\ x \in Unanswered(call[c].msgs) => log[i].turn = call[c].turn
          /\ x \in call[c].msgs.told => log[i].turn <= call[c].turn
      BY <2>1, <2>2 DEF ResultsComeLater, Abreast
    <3>2. log[i].turn \in Nat /\ call[c].turn \in Nat
      BY <1>0 DEF Waiting
    <3>3. CASE call'[c].pc = "tool"
      <4>1. /\ call'[c].past = call[c].turn + 1 /\ call'[c].turn = call[c].turn
            /\ call'[c].msgs.asked = call[c].msgs.asked
            /\ call'[c].msgs.told = call[c].msgs.told \cup {call[c].call}
        BY <1>c, <3>3 DEF GetsAnswer
      <4> QED BY <2>1, <3>1, <3>2, <4>1 DEF Abreast, Unanswered
    <3>4. CASE call'[c].pc # "tool"
      <4>1. /\ call'[c].past = call[c].turn + 1
            /\ call'[c].turn \in {call[c].turn, call[c].turn + 1}
            /\ call'[c].msgs.asked = call[c].msgs.asked
            /\ call'[c].msgs.told = call[c].msgs.asked
        BY <1>c, <3>4 DEF GetsAnswer
      <4>2. x \in call[c].msgs.asked => log[i].turn <= call[c].turn
        BY <3>1, <3>2 DEF Unanswered
      <4>3. UNCHANGED log /\ x \notin Unanswered(call'[c].msgs)
        BY <2>1, <4>1 DEF Unanswered
      <4> QED BY <3>2, <4>1, <4>2, <4>3 DEF Abreast
    <3> QED BY <3>3, <3>4
  <2> QED BY <1>a, <2>1, <2>2
<1>1. ASSUME Begins(c) PROVE ResultsComeLater'
  <2>1. UNCHANGED <<log, cut>> /\ OnlyCall(c)
    BY <1>1 DEF Begins, store, history
  <2>2. CASE calls = 0
    <3>1. \A x : Waiting(x) = {} /\ Waiting(x)' = {}
      BY <1>0, <2>1, <2>2 DEF OneWorks, Waiting
    <3> QED BY <3>1 DEF ResultsComeLater
  <2>3. CASE calls # 0
    <3>1. ~Runs(c)'
      BY <1>1, <2>3 DEF Begins, Runs, Works, Reading
    <3> QED BY <1>a, <2>1, <3>1
  <2> QED BY <2>2, <2>3
<1>2. ASSUME GivesUp(c) PROVE ResultsComeLater'
  BY <1>0, <1>2, <1>a
  DEF GivesUp, store, history, Abreast, ResultsComeLater, Runs, Works, Reading
<1>3. ASSUME LooksBack(c) PROVE ResultsComeLater'
  BY <1>0, <1>3, <1>a
  DEF LooksBack, KeepsPlace, KeepsClaim, KeepsFresh, store, history, Abreast, ResultsComeLater,
      Runs, Works, Reading
<1>4. ASSUME NEW i \in DOMAIN log, ReEnters(c, i) PROVE ResultsComeLater'
  <2>1. ASSUME ~cut, NEW x \in ToolCall, NEW k \in Waiting(x)
        PROVE  Abreast(c, x, log[k].turn)'
    <3>1. /\ call'[c].turn = log[i].turn /\ call'[c].past = log[i].turn
          /\ call'[c].msgs = log[i].msgs /\ UNCHANGED log
      BY <1>4 DEF ReEnters, store
    <3>2. x \in Unanswered(log[i].msgs) => log[k].turn = log[i].turn
      BY <2>1 DEF ResultsComeLater, Waiting
    <3>3. x \in log[i].msgs.told => log[k].turn <= log[i].turn
      BY <2>1 DEF ResultsComeLater, Told
    <3> QED BY <3>1, <3>2, <3>3 DEF Abreast
  <2>2. UNCHANGED <<log, cut>> /\ OnlyCall(c) /\ Works(c)
    BY <1>4 DEF ReEnters, store, history, Works
  <2> QED BY <1>a, <2>1, <2>2
<1>5. ASSUME Claims(c) PROVE ResultsComeLater'
  BY <1>0, <1>5, <1>a
  DEF Claims, KeepsPlace, KeepsFresh, store, history, Abreast, ResultsComeLater, Runs, Works,
      Reading
<1>6. ASSUME NEW turn \in 0..MaxIter, SavesTurn(c, turn) PROVE ResultsComeLater'
  <2> DEFINE row == TurnRow(turn, call[c].msgs)
  <2>1. row.msgs = call[c].msgs /\ row.turn = turn
    BY DEF TurnRow
  <2>2. call[c].pc \in AtRest /\ turn \in {call[c].turn, call[c].past}
    BY <1>6 DEF SavesTurn, AtRest
  <2>3. ~cut => Balanced(call[c].msgs)
    BY <2>2 DEF RestsBalanced
  <2>4. Works(c) /\ Runs(c) /\ call[c].pc # "mark"
    BY <2>2 DEF AtRest, AtTurn, Works, Runs, Reading
  <2>5. log' = Append(log, row) /\ KeepsPlace(c) /\ OnlyCall(c) /\ UNCHANGED cut
    BY <1>6 DEF SavesTurn
  <2> HIDE DEF row
  <2>6. row.turn = call[c].turn \/ (row.turn = call[c].past /\ (~cut => Balanced(row.msgs)))
    BY <2>1, <2>2, <2>3
  <2> QED BY <1>b, <2>1, <2>4, <2>5, <2>6
<1>7. ASSUME SavesTool(c, NewRow) PROVE ResultsComeLater'
  BY <1>0, <1>7, <1>b
  DEF SavesTool, KeepsPlace, history, Runs, Works, Reading
<1>8. ASSUME Completes(c) PROVE ResultsComeLater'
  BY <1>0, <1>8, <1>b
  DEF Completes, history, Runs, Works, Reading, EndRow
<1>9. ASSUME Asks(c) PROVE ResultsComeLater'
  <2>1. PICK S \in SUBSET ToolCall : /\ \A x \in S : tools < x.id /\ x.id <= tools'
                                     /\ call'[c].msgs.asked = call[c].msgs.asked \cup S
    BY <1>9 DEF Asks
  <2>2. /\ UNCHANGED <<log, cut>> /\ OnlyCall(c) /\ Runs(c) /\ Works(c) /\ call[c].pc # "mark"
        /\ call'[c].msgs.told = call[c].msgs.told
        /\ call'[c].turn = call[c].turn /\ call'[c].past = call[c].past
    BY <1>9 DEF Asks, store, history, Runs, Works, Reading
  <2>3. ASSUME NEW x \in ToolCall, NEW i \in Waiting(x) PROVE x \notin S
    <3>1. x.id <= tools /\ x.id \in Nat /\ tools \in Nat
      BY DEF Waiting, Unanswered, CallsAreAsked, Sound, ToolCall, TypeOK
    <3> QED BY <2>1, <3>1
  <2>4. ASSUME ~cut, NEW x \in ToolCall, NEW i \in Waiting(x)
        PROVE  Abreast(c, x, log[i].turn)'
    <3>1. Abreast(c, x, log[i].turn)
      BY <2>2, <2>4 DEF ResultsComeLater
    <3> QED BY <2>1, <2>2, <2>3, <2>4, <3>1 DEF Abreast, Unanswered
  <2> QED BY <1>a, <2>2, <2>4
<1>10. ASSUME Replies(c) PROVE ResultsComeLater'
  <2>1. /\ UNCHANGED <<log, cut>> /\ OnlyCall(c) /\ Runs(c) /\ Works(c) /\ call[c].pc = "model"
        /\ call'[c].msgs = call[c].msgs
        /\ call'[c].turn \in {call[c].turn, call[c].turn + 1}
        /\ call'[c].past \in {call[c].past, call[c].turn + 1}
    BY <1>10 DEF Replies, store, history, Runs, Works, Reading
  <2>2. ASSUME ~cut, NEW x \in ToolCall, NEW i \in Waiting(x)
        PROVE  Abreast(c, x, log[i].turn)'
    <3>1. x \notin Unanswered(call[c].msgs)
      BY <2>1, <2>2 DEF RestsBalanced, AtRest, Balanced, Unanswered
    <3>2. x \in call[c].msgs.told => log[i].turn <= call[c].turn /\ log[i].turn <= call[c].past
      BY <2>1, <2>2 DEF ResultsComeLater, Abreast
    <3>3. log[i].turn \in Nat /\ call[c].turn \in Nat /\ call[c].past \in Nat
      BY <1>0 DEF Waiting
    <3> QED BY <2>1, <3>1, <3>2, <3>3 DEF Abreast
  <2> QED BY <1>a, <2>1, <2>2
<1>11. ASSUME Answers(c) PROVE ResultsComeLater'
  BY <1>c, <1>11 DEF Answers
<1>12. ASSUME RunsTool(c) PROVE ResultsComeLater'
  BY <1>c, <1>12 DEF RunsTool
<1>13. ASSUME Pauses(c, NewRow) PROVE ResultsComeLater'
  BY <1>0, <1>13, <1>b
  DEF Pauses, AtCall, history, Runs, Works, Reading
<1>14. ASSUME StopsEarly(c) PROVE ResultsComeLater'
  <2>1. CASE cut'
    BY <2>1 DEF ResultsComeLater
  <2>2. CASE ~cut'
    <3>1. /\ UNCHANGED log /\ OnlyCall(c) /\ ~cut /\ Works(c) /\ Runs(c) /\ call[c].pc # "mark"
          /\ call'[c].turn = call[c].turn /\ call'[c].past = call[c].past
          /\ call'[c].msgs = call[c].msgs
      BY <1>14, <2>2 DEF StopsEarly, KeepsPlace, store, Runs, Works, Reading
    <3>2. \A x \in ToolCall : \A i \in Waiting(x) : Abreast(c, x, log[i].turn)'
      BY <3>1 DEF ResultsComeLater, Abreast
    <3> QED BY <1>a, <3>1, <3>2
  <2> QED BY <2>1, <2>2
<1>15. ASSUME FailsBehind(c) PROVE ResultsComeLater'
  BY <1>0, <1>15, <1>a
  DEF FailsBehind, KeepsPlace, KeepsClaim, KeepsFresh, store, history, Abreast, ResultsComeLater,
      Runs, Works, Reading
<1>16. ASSUME Fails(c) PROVE ResultsComeLater'
  BY <1>0, <1>16, <1>a
  DEF Fails, KeepsPlace, KeepsClaim, Tear, InLoop, store, history, Abreast, ResultsComeLater,
      Runs, Works, Reading
<1>17. ASSUME Marks(c) PROVE ResultsComeLater'
  BY <1>0, <1>17, <1>b
  DEF Marks, history, Runs, Works, Reading, EndRow
<1>18. ASSUME Vanishes(c) PROVE ResultsComeLater'
  BY <1>0, <1>18, <1>a
  DEF Vanishes, Tear, store, history, Abreast, ResultsComeLater, Runs, Works, Reading
<1> QED BY <1>1, <1>2, <1>3, <1>4, <1>5, <1>6, <1>7, <1>8, <1>9, <1>10, <1>11, <1>12, <1>13,
           <1>14, <1>15, <1>16, <1>17, <1>18
        DEF Does

\* A body that ran is fresh, or its result is in the history that goes on.
LEMMA RunsAreToldNext ==
    ASSUME TypeOK, OneWorks, TurnLeft, PauseIsLast, RestsBalanced, FinishedForGood, CallsAreAsked,
           ResultsComeLater, RunsAreTold, NEW c \in Callers, Does(c)
    PROVE  RunsAreTold'
<1>0. /\ log \in Seq(Row) /\ Len(log) \in Nat /\ DOMAIN log = 1..Len(log)
      /\ \A i \in DOMAIN log : log[i].turn \in Nat /\ i \in Nat
      /\ runs \in [ToolCall -> Nat] /\ Idle.pc = "idle" /\ Idle.fresh = {}
      /\ \A d \in Callers : call[d].fresh \subseteq ToolCall /\ call[d].msgs \in Messages
      /\ \A i \in DOMAIN log : log[i].msgs \in Messages
  <2>1. log \in Seq(Row) /\ \A d \in Callers : call[d] \in Locals
    BY DEF TypeOK
  <2>2. \A i \in DOMAIN log : log[i] \in Row /\ i \in Nat
    BY <2>1
  <2>3. \A i \in DOMAIN log : log[i].turn \in Nat /\ log[i].msgs \in Messages
    BY <2>2, AgentAssumption DEF Row
  <2>4. \A d \in Callers : call[d].fresh \subseteq ToolCall /\ call[d].msgs \in Messages
    BY <2>1 DEF Locals
  <2> QED BY <2>1, <2>2, <2>3, <2>4 DEF Idle, TypeOK
<1>a. ASSUME UNCHANGED <<log, runs>>, OnlyCall(c), ~cut' => ~cut,
             call'[c].fresh = call[c].fresh,
             ~cut => call'[c].fresh \subseteq call'[c].msgs.told,
             ~cut /\ Runs(c)' /\ call'[c].pc # "mark" =>
               \A x \in Unanswered(call'[c].msgs) : Told(x) = {}
      PROVE  RunsAreTold'
  <2>1. (\A x : Told(x)' = Told(x)) /\ Finished' = Finished
    BY <1>a DEF Told, Finished
  <2>2. \A d \in Callers : call'[d].fresh = call[d].fresh
    BY <1>a DEF OnlyCall
  <2>3. \A d \in Callers \ {c} : call'[d] = call[d] /\ (Runs(d)' => Runs(d))
    BY <1>a DEF OnlyCall, Runs, Works
  <2> QED BY <1>a, <2>1, <2>2, <2>3 DEF RunsAreTold
<1>b. ASSUME NEW row, log' = Append(log, row), OnlyCall(c), UNCHANGED <<cut, runs>>, Works(c),
             \/ row.msgs = call[c].msgs
             \/ /\ row.msgs = NoMessages /\ ~Runs(c)'
                /\ call[c].fresh = {} \/ (row.kind = "end" /\ row.status = "completed"),
             call'[c].fresh = {},
             ~cut /\ Runs(c)' /\ call'[c].pc # "mark" =>
               call'[c].msgs = call[c].msgs /\ Runs(c) /\ call[c].pc # "mark"
      PROVE  RunsAreTold'
  <2> SUFFICES ASSUME ~cut' PROVE RunsAreTold'
    BY DEF RunsAreTold
  <2>1. PICK n \in Nat : n = Len(log) + 1
    BY <1>0
  <2>2. /\ \A i \in DOMAIN log : i \in Nat /\ i < n /\ log'[i] = log[i]
        /\ log'[n] = row /\ DOMAIN log' = DOMAIN log \cup {n}
    BY <1>0, <1>b, <2>1, LogGrows
  <2>3. /\ \A d \in Callers \ {c} : call[d].fresh = {} /\ ~Runs(d)'
        /\ \A d \in Callers : call'[d].fresh = {}
    BY <1>b, OthersWait DEF OnlyCall, Runs, Works
  <2>4. /\ Finished => Finished'
        /\ row.kind = "end" /\ row.status = "completed" => Finished'
        /\ \A x : Told(x)' = IF x \in row.msgs.told THEN Told(x) \cup {n} ELSE Told(x)
    BY <2>2 DEF Told, Finished
  <2>5. ASSUME NEW x \in ToolCall, runs'[x] # 0
        PROVE  runs'[x] = 1 /\ (Told(x)' # {} \/ Finished')
    <3>1. /\ runs[x] = 1 /\ runs'[x] = 1
          /\ Told(x) # {} \/ Finished \/ x \in call[c].fresh
      BY <1>b, <2>3, <2>5 DEF RunsAreTold
    <3>2. CASE x \in call[c].fresh
      BY <1>b, <2>4, <3>1, <3>2 DEF RunsAreTold
    <3> QED BY <2>4, <3>1, <3>2
  <2>6. ASSUME Runs(c)', call'[c].pc # "mark", NEW x \in Unanswered(call'[c].msgs)
        PROVE  Told(x)' = {}
    BY <1>b, <2>4, <2>6 DEF RunsAreTold, Unanswered
  <2> QED BY <2>3, <2>5, <2>6 DEF RunsAreTold
<1>c. ASSUME Tear(c), UNCHANGED <<log, cut>>, OnlyCall(c), Live(c), call'[c].fresh = {},
             ~Runs(c)' \/ call'[c].pc = "mark"
      PROVE  RunsAreTold'
  <2> SUFFICES ASSUME ~cut' PROVE RunsAreTold'
    BY DEF RunsAreTold
  <2>1. (\A x : Told(x)' = Told(x)) /\ Finished' = Finished
    BY <1>c DEF Told, Finished
  <2>2. \A d \in Callers \ {c} : call'[d] = call[d] /\ (Runs(d)' => Runs(d))
    BY <1>c DEF OnlyCall, Runs, Works
  <2>3. ASSUME NEW x \in ToolCall, runs'[x] # 0
        PROVE  /\ runs'[x] = 1
               /\ Told(x)' # {} \/ Finished' \/ \E d \in Callers : x \in call'[d].fresh
    <3>1. x \notin call[c].fresh => runs'[x] = runs[x]
      BY <1>c DEF Tear
    <3>2. x \in call[c].fresh => runs'[x] = runs[x] - 1 /\ runs[x] \in Nat /\ runs[x] >= 1
      BY <1>0, <1>c DEF Tear, OneWorks
    <3>3. x \notin call[c].fresh
      BY <1>c, <2>3, <3>2 DEF RunsAreTold
    <3> QED BY <1>c, <2>1, <2>2, <2>3, <3>1, <3>3 DEF RunsAreTold
  <2> QED BY <1>c, <2>1, <2>2, <2>3 DEF RunsAreTold
<1>d. ASSUME GetsAnswer(c)
      PROVE  /\ call[c].call \in call'[c].msgs.told
             /\ call[c].msgs.told \subseteq call'[c].msgs.told
             /\ Unanswered(call'[c].msgs) \subseteq Unanswered(call[c].msgs)
             /\ ~cut => \A x \in Unanswered(call'[c].msgs) : Told(x) = {}
  <2>1. call[c].msgs.told \subseteq call[c].msgs.asked /\ call[c].call \in call[c].msgs.asked
    BY <1>d DEF GetsAnswer, AtCall, TurnLeft, CallsAreAsked, Sound
  <2>2. ~cut => \A x \in Unanswered(call[c].msgs) : Told(x) = {}
    BY <1>d DEF GetsAnswer, AtCall, RunsAreTold, Runs, Works, Reading
  <2>3. CASE call'[c].pc = "tool"
    <3>1. /\ call'[c].msgs.asked = call[c].msgs.asked
          /\ call'[c].msgs.told = call[c].msgs.told \cup {call[c].call}
      BY <1>d, <2>3 DEF GetsAnswer
    <3> QED BY <2>2, <3>1 DEF Unanswered
  <2>4. CASE call'[c].pc # "tool"
    <3>1. call'[c].msgs.asked = call[c].msgs.asked /\ call'[c].msgs.told = call[c].msgs.asked
      BY <1>d, <2>4 DEF GetsAnswer
    <3> QED BY <2>1, <3>1 DEF Unanswered
  <2> QED BY <2>3, <2>4
<1>1. ASSUME Begins(c) PROVE RunsAreTold'
  <2>1. /\ UNCHANGED <<log, runs, cut>> /\ OnlyCall(c) /\ call'[c].fresh = {}
        /\ call[c].fresh = {}
    BY <1>1 DEF Begins, Live, OneWorks, store, history
  <2>2. Runs(c)' => \A x : Told(x) = {}
    BY <1>0, <1>1 DEF Begins, Runs, Works, Reading, OneWorks, Told
  <2> QED BY <1>a, <2>1, <2>2
<1>2. ASSUME GivesUp(c) PROVE RunsAreTold'
  <2>1. /\ UNCHANGED <<log, runs, cut>> /\ OnlyCall(c) /\ call'[c].fresh = {}
        /\ call[c].fresh = {} /\ ~Runs(c)'
    BY <1>0, <1>2 DEF GivesUp, OneWorks, Reading, store, history, Runs, Works
  <2> QED BY <1>a, <2>1
<1>3. ASSUME LooksBack(c) PROVE RunsAreTold'
  BY <1>0, <1>3, <1>a
  DEF LooksBack, KeepsPlace, KeepsClaim, KeepsFresh, store, history, RunsAreTold, Runs, Works,
      Reading
<1>4. ASSUME NEW i \in DOMAIN log, ReEnters(c, i) PROVE RunsAreTold'
  <2>1. /\ UNCHANGED <<log, runs, cut>> /\ OnlyCall(c) /\ call'[c].fresh = {}
        /\ call[c].fresh = {} /\ call'[c].msgs = log[i].msgs
    BY <1>4 DEF ReEnters, KeepsFresh, OneWorks, Reading, store, history
  <2>2. ASSUME ~cut, NEW x \in ToolCall, x \in Unanswered(log[i].msgs), NEW j \in Told(x)
        PROVE  FALSE
    <3>1. i < j /\ log[i].turn <= log[j].turn
      BY <2>2 DEF ResultsComeLater, Waiting
    <3>2. j \in DOMAIN log /\ j <= Len(log)
      BY <1>0 DEF Told
    <3>3. CASE call[c].pc = "latest"
      BY <1>0, <1>4, <3>1, <3>2, <3>3 DEF ReEnters
    <3>4. CASE call[c].pc = "history"
      <4>1. j \in Steps
        BY <3>2 DEF Told, Steps, CallsAreAsked, NoMessages
      <4>2. log[j].turn < log[i].turn \/ (log[j].turn = log[i].turn /\ j <= i)
        BY <1>4, <3>4, <4>1 DEF ReEnters, LastOf
      <4> QED BY <1>0, <3>1, <3>2, <4>2
    <3>5. CASE call[c].pc = "scoped"
      <4>1. Len(log) \in Interrupted /\ i \in LastOf(Interrupted)
        BY <1>0, <1>4, <3>2, <3>5 DEF ReEnters, PauseIsLast, Interrupted
      <4>2. PICK p \in DOMAIN log : LastPause(p)
        BY <4>1 DEF PauseIsLast
      <4>3. p = Len(log)
        BY <1>0, <4>1, <4>2 DEF LastPause
      <4>4. log[p].turn < log[i].turn \/ (log[p].turn = log[i].turn /\ p <= i)
        BY <4>1, <4>3 DEF LastOf
      <4>5. log[i].turn <= log[p].turn
        BY <4>1, <4>2 DEF LastPause, LastOf
      <4> QED BY <1>0, <3>1, <3>2, <4>3, <4>4, <4>5
    <3> QED BY <1>4, <3>3, <3>4, <3>5 DEF ReEnters
  <2>3. ~cut => \A x \in Unanswered(log[i].msgs) : Told(x) = {}
    BY <1>0, <2>2 DEF Unanswered, Messages
  <2> QED BY <1>a, <2>1, <2>3
<1>5. ASSUME Claims(c) PROVE RunsAreTold'
  BY <1>0, <1>5, <1>a
  DEF Claims, KeepsPlace, KeepsFresh, store, history, RunsAreTold, Runs, Works, Reading
<1>6. ASSUME NEW turn \in 0..MaxIter, SavesTurn(c, turn) PROVE RunsAreTold'
  BY <1>0, <1>6, <1>b
  DEF SavesTurn, KeepsPlace, history, Runs, Works, Reading, TurnRow, AtTurn
<1>7. ASSUME SavesTool(c, NewRow) PROVE RunsAreTold'
  BY <1>0, <1>7, <1>b
  DEF SavesTool, KeepsPlace, history, Runs, Works, Reading
<1>8. ASSUME Completes(c) PROVE RunsAreTold'
  BY <1>0, <1>8, <1>b
  DEF Completes, history, Runs, Works, Reading, EndRow
<1>9. ASSUME Asks(c) PROVE RunsAreTold'
  <2>1. PICK S \in SUBSET ToolCall : /\ \A x \in S : tools < x.id /\ x.id <= tools'
                                     /\ call'[c].msgs.asked = call[c].msgs.asked \cup S
    BY <1>9 DEF Asks
  <2>2. /\ UNCHANGED <<log, runs, cut>> /\ OnlyCall(c) /\ Runs(c) /\ call[c].pc # "mark"
        /\ call'[c].msgs.told = call[c].msgs.told /\ call'[c].fresh = call[c].fresh
    BY <1>9 DEF Asks, KeepsFresh, store, history, Runs, Works, Reading
  <2>3. ASSUME NEW x \in S PROVE Told(x) = {}
    <3>1. x.id \in Nat /\ tools \in Nat /\ tools < x.id
      BY <2>1 DEF ToolCall, TypeOK
    <3>2. \A i \in Told(x) : x.id <= tools
      BY DEF Told, CallsAreAsked, Sound
    <3> QED BY <3>1, <3>2
  <2>4. ~cut => \A x \in Unanswered(call'[c].msgs) : Told(x) = {}
    BY <2>1, <2>2, <2>3 DEF RunsAreTold, Unanswered
  <2> QED BY <1>a, <2>2, <2>4 DEF RunsAreTold
<1>10. ASSUME Replies(c) PROVE RunsAreTold'
  BY <1>0, <1>10, <1>a
  DEF Replies, KeepsClaim, KeepsFresh, store, history, RunsAreTold, Runs, Works, Reading
<1>11. ASSUME Answers(c) PROVE RunsAreTold'
  <2>1. /\ UNCHANGED <<log, runs, cut>> /\ OnlyCall(c) /\ call'[c].fresh = call[c].fresh
    BY <1>11 DEF Answers, GetsAnswer, KeepsFresh, store
  <2> QED BY <1>11, <1>a, <1>d, <2>1 DEF Answers, RunsAreTold
<1>12. ASSUME RunsTool(c) PROVE RunsAreTold'
  <2> SUFFICES ASSUME ~cut' PROVE RunsAreTold'
    BY DEF RunsAreTold
  <2> DEFINE x == call[c].call
  <2>1. /\ UNCHANGED <<log, cut>> /\ OnlyCall(c) /\ ~cut /\ Works(c) /\ GetsAnswer(c)
        /\ call'[c].fresh = call[c].fresh \cup {x} /\ x \in Unanswered(call[c].msgs)
        /\ runs' = [runs EXCEPT ![x] = @ + 1] /\ Runs(c) /\ call[c].pc \in {"call", "retool"}
    BY <1>12 DEF RunsTool, GetsAnswer, AtCall, store, TurnLeft, Unanswered, Works, Runs, Reading
  <2>2. x \in ToolCall /\ Told(x) = {} /\ x \notin call[c].fresh
    BY <1>0, <2>1 DEF Messages, Unanswered, RunsAreTold
  <2>3. ~Finished
    BY <2>1 DEF FinishedForGood
  <2>4. \A d \in Callers \ {c} : call[d].fresh = {} /\ call'[d].fresh = {} /\ ~Runs(d)'
    BY <2>1, OthersWait DEF OnlyCall, Runs, Works
  <2>5. runs[x] = 0
    BY <2>1, <2>2, <2>3, <2>4 DEF RunsAreTold
  <2> HIDE DEF x
  <2>6. runs'[x] = 1 /\ \A y \in ToolCall \ {x} : runs'[y] = runs[y]
    BY <1>0, <2>1, <2>2, <2>5
  <2>7. (\A y : Told(y)' = Told(y)) /\ Finished' = Finished
    BY <2>1 DEF Told, Finished
  <2>8. /\ x \in call'[c].msgs.told /\ call[c].msgs.told \subseteq call'[c].msgs.told
        /\ Unanswered(call'[c].msgs) \subseteq Unanswered(call[c].msgs)
    BY <1>d, <2>1 DEF x
  <2>9. ASSUME NEW y \in ToolCall, runs'[y] # 0
        PROVE  /\ runs'[y] = 1
               /\ Told(y)' # {} \/ Finished' \/ \E d \in Callers : y \in call'[d].fresh
    BY <2>1, <2>4, <2>6, <2>7, <2>9 DEF RunsAreTold
  <2>10. /\ call'[c].fresh \subseteq call'[c].msgs.told
         /\ \A y \in call'[c].fresh : Told(y)' = {}
         /\ \A y \in Unanswered(call'[c].msgs) : Told(y)' = {}
    BY <2>1, <2>2, <2>7, <2>8 DEF RunsAreTold
  <2> QED BY <2>4, <2>9, <2>10 DEF RunsAreTold
<1>13. ASSUME Pauses(c, NewRow) PROVE RunsAreTold'
  BY <1>0, <1>13, <1>b
  DEF Pauses, AtCall, history, Runs, Works, Reading
<1>14. ASSUME StopsEarly(c) PROVE RunsAreTold'
  BY <1>0, <1>14, <1>a
  DEF StopsEarly, KeepsPlace, KeepsClaim, KeepsFresh, store, history, RunsAreTold, Runs, Works,
      Reading
<1>15. ASSUME FailsBehind(c) PROVE RunsAreTold'
  BY <1>0, <1>15, <1>a
  DEF FailsBehind, KeepsPlace, KeepsClaim, KeepsFresh, store, history, RunsAreTold, Runs, Works,
      Reading
<1>16. ASSUME Fails(c) PROVE RunsAreTold'
  BY <1>0, <1>16, <1>c
  DEF Fails, KeepsPlace, KeepsClaim, Tear, InLoop, store, Runs, Works, Live
<1>17. ASSUME Marks(c) PROVE RunsAreTold'
  BY <1>0, <1>17, <1>b
  DEF Marks, history, Runs, Works, Reading, EndRow, OneWorks
<1>18. ASSUME Vanishes(c) PROVE RunsAreTold'
  BY <1>0, <1>18, <1>c
  DEF Vanishes, Tear, store, Runs, Works, Live
<1> QED BY <1>1, <1>2, <1>3, <1>4, <1>5, <1>6, <1>7, <1>8, <1>9, <1>10, <1>11, <1>12, <1>13,
           <1>14, <1>15, <1>16, <1>17, <1>18
        DEF Does

\* An answer that is spent got into a row behind its pause.
LEMMA SpentIsBehindNext ==
    ASSUME TypeOK, PauseIsLast, SpentIsBehind, NEW c \in Callers, Does(c)
    PROVE  SpentIsBehind'
<1>0. log \in Seq(Row) /\ Len(log) \in Nat /\ DOMAIN log = 1..Len(log)
  BY DEF TypeOK
<1>a. ASSUME UNCHANGED <<log, pauses, spent>> PROVE SpentIsBehind'
  BY <1>a DEF SpentIsBehind, Finished, Steps, Interrupted
<1>b. ASSUME NEW row, log' = Append(log, row), row.status # "interrupted",
             row.kind # "end" \/ row.status = "completed" \/ UNCHANGED <<pauses, spent>>
      PROVE  SpentIsBehind'
  <2>1. PICK n \in Nat : n = Len(log) + 1
    BY <1>0
  <2>2. /\ \A i \in DOMAIN log : i \in Nat /\ i < n /\ log'[i] = log[i]
        /\ log'[n] = row /\ DOMAIN log' = DOMAIN log \cup {n}
    BY <1>0, <1>b, <2>1, LogGrows
  <2>3. /\ Interrupted' = Interrupted /\ Interrupted \subseteq DOMAIN log
        /\ Finished => Finished'
        /\ Steps \subseteq Steps'
    BY <1>b, <2>2 DEF Interrupted, Finished, Steps
  <2>4. row.kind # "end" => n \in Steps'
    BY <2>2 DEF Steps
  <2>5. row.kind = "end" /\ row.status = "completed" => Finished'
    BY <2>2 DEF Finished
  <2> QED BY <1>b, <2>2, <2>3, <2>4, <2>5 DEF SpentIsBehind
<1>1. ASSUME Begins(c) PROVE SpentIsBehind'
  BY <1>0, <1>1, <1>a
  DEF Begins, store, history
<1>2. ASSUME GivesUp(c) PROVE SpentIsBehind'
  BY <1>0, <1>2, <1>a
  DEF GivesUp, store, history
<1>3. ASSUME LooksBack(c) PROVE SpentIsBehind'
  BY <1>0, <1>3, <1>a
  DEF LooksBack, KeepsPlace, KeepsClaim, KeepsFresh, store, history
<1>4. ASSUME NEW i \in DOMAIN log, ReEnters(c, i) PROVE SpentIsBehind'
  BY <1>0, <1>4, <1>a
  DEF ReEnters, KeepsClaim, KeepsFresh, store, history
<1>5. ASSUME Claims(c) PROVE SpentIsBehind'
  BY <1>0, <1>5, <1>a
  DEF Claims, KeepsPlace, KeepsFresh, store, history
<1>6. ASSUME NEW turn \in 0..MaxIter, SavesTurn(c, turn) PROVE SpentIsBehind'
  BY <1>0, <1>6, <1>b
  DEF SavesTurn, KeepsPlace, TurnRow
<1>7. ASSUME SavesTool(c, NewRow) PROVE SpentIsBehind'
  BY <1>0, <1>7, <1>b
  DEF SavesTool, KeepsPlace, store, history
<1>8. ASSUME Completes(c) PROVE SpentIsBehind'
  BY <1>0, <1>8, <1>b
  DEF Completes, history, EndRow
<1>9. ASSUME Asks(c) PROVE SpentIsBehind'
  BY <1>0, <1>9, <1>a
  DEF Asks, KeepsClaim, KeepsFresh, store, history
<1>10. ASSUME Replies(c) PROVE SpentIsBehind'
  BY <1>0, <1>10, <1>a
  DEF Replies, KeepsClaim, KeepsFresh, store, history
<1>11. ASSUME Answers(c) PROVE SpentIsBehind'
  BY <1>0, <1>11, <1>a
  DEF Answers, GetsAnswer, KeepsClaim, KeepsFresh, AtCall, store, history
<1>12. ASSUME RunsTool(c) PROVE SpentIsBehind'
  BY <1>0, <1>12, <1>a
  DEF RunsTool, GetsAnswer, KeepsClaim, AtCall, store, history
<1>13. ASSUME Pauses(c, NewRow) PROVE SpentIsBehind'
  BY <1>0, <1>13, LogGrows
  DEF Pauses, AtCall, PauseIsLast, SpentIsBehind, TypeOK
<1>14. ASSUME StopsEarly(c) PROVE SpentIsBehind'
  BY <1>0, <1>14, <1>a
  DEF StopsEarly, KeepsPlace, KeepsClaim, KeepsFresh, store, history
<1>15. ASSUME FailsBehind(c) PROVE SpentIsBehind'
  BY <1>0, <1>15, <1>a
  DEF FailsBehind, KeepsPlace, KeepsClaim, KeepsFresh, store, history
<1>16. ASSUME Fails(c) PROVE SpentIsBehind'
  BY <1>0, <1>16, <1>a
  DEF Fails, KeepsPlace, KeepsClaim, Tear, InLoop, store, history
<1>17. ASSUME Marks(c) PROVE SpentIsBehind'
  BY <1>0, <1>17, <1>b
  DEF Marks, history, EndRow
<1>18. ASSUME Vanishes(c) PROVE SpentIsBehind'
  BY <1>0, <1>18, <1>a
  DEF Vanishes, Tear, store, history
<1> QED BY <1>1, <1>2, <1>3, <1>4, <1>5, <1>6, <1>7, <1>8, <1>9, <1>10, <1>11, <1>12, <1>13,
           <1>14, <1>15, <1>16, <1>17, <1>18
        DEF Does

\* A row that is appended is the last one, or the row that was stays it.
LEMMA SomeLastNext ==
    ASSUME TypeOK, TypeOK', SomeLast, NEW c \in Callers, Does(c)
    PROVE  SomeLast'
<1>0. /\ log \in Seq(Row) /\ Len(log) \in Nat /\ DOMAIN log = 1..Len(log)
      /\ log' \in Seq(Row) /\ MaxIter \in Nat
  BY AgentAssumption DEF TypeOK
<1>a. ASSUME NEW row, log' = Append(log, row) PROVE SomeLast'
  <2>1. PICK n \in Nat : n = Len(log) + 1
    BY <1>0
  <2>2. /\ \A i \in DOMAIN log : i \in Nat /\ i < n /\ log'[i] = log[i]
        /\ log'[n] = row /\ DOMAIN log' = DOMAIN log \cup {n}
    BY <1>0, <1>a, <2>1, LogGrows
  <2>3. \A i \in DOMAIN log' : log'[i].turn \in Nat
    <3>1. \A i \in DOMAIN log' : log'[i] \in Row
      BY <1>0
    <3>2. \A r \in Row : r.turn \in Nat
      BY <1>0 DEF Row
    <3> QED BY <3>1, <3>2
  <2>4. /\ Steps' = Steps \cup (IF row.kind = "end" THEN {} ELSE {n})
        /\ Steps \subseteq DOMAIN log
    BY <2>2 DEF Steps
  <2>5. \A i \in DOMAIN log : log[i].turn \in Nat
    BY <2>2, <2>3
  <2>6. row.turn \in Nat
    BY <2>2, <2>3
  <2>7. CASE row.kind = "end"
    <3>1. Steps' = Steps
      BY <2>4, <2>7
    <3>2. \A i \in LastOf(Steps) : i \in LastOf(Steps)'
      BY <2>2, <2>4, <3>1 DEF LastOf
    <3> QED BY <3>1, <3>2 DEF SomeLast
  <2>8. CASE row.kind # "end" /\ Steps = {}
    <3>1. n \in LastOf(Steps)'
      BY <2>2, <2>4, <2>8 DEF LastOf
    <3> QED BY <3>1 DEF SomeLast
  <2>9. CASE row.kind # "end" /\ Steps # {}
    <3>1. PICK i \in Steps : \A j \in Steps : \/ log[j].turn < log[i].turn
                                              \/ log[j].turn = log[i].turn /\ j <= i
      BY <2>9 DEF SomeLast, LastOf
    <3>2. i \in DOMAIN log /\ log[i].turn \in Nat /\ i < n /\ i \in Nat
      BY <2>2, <2>4, <2>5
    <3>3. CASE row.turn < log[i].turn
      <4>1. i \in LastOf(Steps)'
        BY <2>2, <2>4, <3>1, <3>2, <3>3 DEF LastOf
      <4> QED BY <4>1 DEF SomeLast
    <3>4. CASE log[i].turn <= row.turn
      <4>1. \A j \in Steps : \/ log'[j].turn < row.turn
                             \/ log'[j].turn = row.turn /\ j <= n
        BY <2>2, <2>4, <2>5, <2>6, <3>1, <3>2, <3>4
      <4>2. n \in LastOf(Steps)'
        BY <2>2, <2>4, <2>9, <4>1 DEF LastOf
      <4> QED BY <4>2 DEF SomeLast
    <3> QED BY <2>6, <3>2, <3>3, <3>4
  <2> QED BY <2>7, <2>8, <2>9
<1>b. ASSUME UNCHANGED log PROVE SomeLast'
  BY <1>b DEF SomeLast, LastOf, Steps
<1>1. ASSUME \/ (\E turn \in 0..MaxIter : SavesTurn(c, turn)) \/ SavesTool(c, NewRow)
             \/ Completes(c) \/ Pauses(c, NewRow) \/ Marks(c)
      PROVE  SomeLast'
  BY <1>1, <1>a DEF SavesTurn, SavesTool, Completes, Pauses, Marks
<1>2. ASSUME \/ Begins(c) \/ GivesUp(c) \/ LooksBack(c) \/ Claims(c)
             \/ (\E i \in DOMAIN log : ReEnters(c, i))
             \/ Asks(c) \/ Replies(c) \/ Answers(c) \/ RunsTool(c)
             \/ StopsEarly(c) \/ FailsBehind(c) \/ Fails(c) \/ Vanishes(c)
      PROVE  UNCHANGED log
  BY <1>2 DEF Begins, GivesUp, LooksBack, Claims, ReEnters, Asks, Replies, Answers, RunsTool,
     GetsAnswer, StopsEarly, FailsBehind, Fails, Vanishes, store
<1> QED BY <1>1, <1>2, <1>b DEF Does

----------------------------------------------------------------------------
(* The invariant holds *)

\* A fresh run has every part of the invariant.
LEMMA InitInv == Init => Inv
<1> SUFFICES ASSUME Init PROVE Inv
  OBVIOUS
<1>1. /\ log = <<>> /\ DOMAIN log = {} /\ pending = NoPending /\ call = [c \in Callers |-> Idle]
      /\ tools = 0 /\ calls = 0 /\ pauses = <<>> /\ spent = {} /\ Len(pauses) = 0
      /\ runs = [x \in ToolCall |-> 0] /\ ~cut
  BY DEF Init
<1>2. /\ Idle.pc = "idle" /\ Idle.ticket = 0 /\ Idle.fresh = {} /\ Idle.msgs = NoMessages
      /\ NoMessages.asked = {} /\ NoMessages.told = {}
  BY DEF Idle, NoMessages
<1>3. TypeOK
  <2>1. NoPending \in [call : ToolCall \cup {NoCall}, ticket : Nat]
    BY DEF NoPending
  <2>2. log \in Seq(Row) /\ pauses \in Seq([call : ToolCall, msgs : Messages])
    BY <1>1
  <2>3. call \in [Callers -> Locals] /\ runs \in [ToolCall -> Nat]
    BY <1>1, IdleIsTyped
  <2> QED BY <2>1, <2>2, <2>3 DEF Init, TypeOK
<1>4. OneWorks
  BY <1>1, <1>2 DEF OneWorks, Works, Live, Reading
<1>5. TurnLeft
  BY <1>1, <1>2, AgentAssumption DEF TurnLeft
<1>6. PauseIsLast /\ SpentIsBehind /\ SomeLast
  BY <1>1, <1>2 DEF PauseIsLast, SpentIsBehind, SomeLast, Interrupted, Steps
<1>7. TurnsPassPauses /\ RestsBalanced /\ FinishedForGood
  BY <1>1, <1>2
  DEF TurnsPassPauses, RestsBalanced, FinishedForGood, Interrupted, Finished, AtRest, AtTurn
<1>8. CallsAreAsked
  BY <1>1, <1>2 DEF CallsAreAsked, Sound
<1>9. ResultsComeLater /\ RunsAreTold
  BY <1>1, <1>2 DEF ResultsComeLater, RunsAreTold, Waiting, Told, Runs, Works
<1>10. AnswerResumesItsPause
  BY <1>1, <1>2 DEF AnswerResumesItsPause
<1> QED BY <1>3, <1>4, <1>5, <1>6, <1>7, <1>8, <1>9, <1>10 DEF Inv

\* Every step keeps it.
LEMMA NextInv == Inv /\ [Next]_vars => Inv'
<1> SUFFICES ASSUME Inv, [Next]_vars PROVE Inv'
  OBVIOUS
<1>1. TypeOK'
  BY TypeNext DEF Inv
<1>2. CASE UNCHANGED vars
  <2> USE DEF vars, store, bounds, history
  <2>1. OneWorks' /\ TurnLeft' /\ AnswerResumesItsPause'
    BY <1>2 DEF Inv, OneWorks, TurnLeft, AnswerResumesItsPause, Works, Live
  <2>2. PauseIsLast' /\ SpentIsBehind' /\ TurnsPassPauses' /\ FinishedForGood'
    BY <1>2 DEF Inv, PauseIsLast, LastPause, SpentIsBehind, TurnsPassPauses, FinishedForGood,
                Interrupted, Steps, Finished, Runs, Works
  <2>3. RestsBalanced' /\ CallsAreAsked'
    BY <1>2 DEF Inv, RestsBalanced, CallsAreAsked
  <2>4. ResultsComeLater' /\ RunsAreTold'
    BY <1>2 DEF Inv, ResultsComeLater, RunsAreTold, Abreast, Waiting, Told, Runs, Works, Finished
  <2>5. SomeLast'
    BY <1>2 DEF Inv, SomeLast, LastOf, Steps
  <2> QED BY <1>1, <2>1, <2>2, <2>3, <2>4, <2>5 DEF Inv
<1>3. CASE \E c \in Callers : Does(c)
  <2>1. PICK c \in Callers : Does(c)
    BY <1>3
  <2>2. OneWorks' /\ TurnLeft' /\ PauseIsLast' /\ TurnsPassPauses' /\ SpentIsBehind'
    BY <2>1, OneWorksNext, TurnLeftNext, PauseIsLastNext, TurnsPassPausesNext, SpentIsBehindNext
       DEF Inv
  <2>3. AnswerResumesItsPause' /\ RestsBalanced' /\ FinishedForGood' /\ CallsAreAsked'
    BY <1>1, <2>1, AnswerResumesItsPauseNext, RestsBalancedNext, FinishedForGoodNext,
       CallsAreAskedNext
       DEF Inv
  <2>4. ResultsComeLater' /\ RunsAreTold' /\ SomeLast'
    BY <1>1, <2>1, ResultsComeLaterNext, RunsAreToldNext, SomeLastNext DEF Inv
  <2> QED BY <1>1, <2>2, <2>3, <2>4 DEF Inv
<1> QED BY <1>2, <1>3, StepDoes DEF Inv

\* It holds in every run.
LEMMA Invariance == Spec => []Inv
BY InitInv, NextInv, PTL DEF Spec

----------------------------------------------------------------------------
(* The theorems *)

\* Every variable holds what the code can put there.
THEOREM AgentTypeCorrect == Spec => []TypeOK
BY Invariance, PTL DEF Inv

\* The model is never asked with an unanswered tool call in its history, wherever the run
\* was stopped, paused, crashed or resumed before (balance_tool_messages).
THEOREM ModelSeesEveryAnswer == Spec => []HistoryBalanced
<1>1. Inv => HistoryBalanced
  BY DEF Inv, RestsBalanced, AtRest, HistoryBalanced
<1> QED BY <1>1, Invariance, PTL

\* The body of a tool call runs once, but for the runs a fault tore: a resume re-enters
\* behind the row that holds a result.
THEOREM ToolsRunOnce == Spec => []ToolRunsOnce
<1>1. Inv => ToolRunsOnce
  <2> SUFFICES ASSUME Inv, ~cut, NEW x \in ToolCall PROVE runs[x] <= 1
    BY DEF ToolRunsOnce
  <2>1. runs[x] \in Nat
    BY DEF Inv, TypeOK
  <2> QED BY <2>1 DEF Inv, RunsAreTold
<1> QED BY <1>1, Invariance, PTL

\* The answer reaches the call that paused, with the history it had then.
THEOREM AnswersReachTheirPause == Spec => []AnswerResumesItsPause
BY Invariance, PTL DEF Inv

\* A run that saved a row, stopped and lost no approval can be resumed: by an answer, or
\* plainly, from a row that is there and is no pause.
THEOREM RunsStayResumable == Spec => []StaysResumable
<1>1. Inv => StaysResumable
  <2>0. Inv /\ Steps # {} => ReEntry # {}
    BY DEF Inv, SomeLast, ReEntry, Steps
  <2> SUFFICES ASSUME Inv, \A c \in Callers : ~Live(c), ~Finished, pending = NoPending,
                      \A t \in DOMAIN pauses : Phase(t) # "lost",
                      NEW i \in ReEntry, log[i].status = "interrupted"
               PROVE  FALSE
    BY <2>0 DEF StaysResumable
  <2>1. /\ log \in Seq(Row) /\ Len(log) \in Nat /\ DOMAIN log = 1..Len(log)
        /\ pauses \in Seq([call : ToolCall, msgs : Messages])
        /\ \A k \in DOMAIN log : log[k].turn \in Nat
    <3>1. log \in Seq(Row) /\ pauses \in Seq([call : ToolCall, msgs : Messages])
      BY DEF Inv, TypeOK
    <3>2. \A k \in DOMAIN log : log[k] \in Row
      BY <3>1
    <3> QED BY <3>1, <3>2, AgentAssumption DEF Row
  <2>2. i \in Interrupted /\ i \in DOMAIN log
    BY <2>1 DEF ReEntry, Interrupted, LastOf, Steps
  <2>3. pauses # <<>>
    BY <2>2 DEF Inv, PauseIsLast
  <2>4. Len(pauses) \in DOMAIN pauses /\ Len(pauses) # 0
    BY <2>1, <2>3
  <2>5. pending.ticket = 0 /\ \A c \in Callers : call[c].ticket = 0
    BY DEF Inv, OneWorks, Live, NoPending
  <2>6. Len(pauses) \in spent
    BY <2>4, <2>5 DEF Phase
  <2>7. PICK j \in Steps : \A k \in Interrupted : k < j
    BY <2>6 DEF Inv, SpentIsBehind
  <2>8. i < j /\ log[i].turn <= log[j].turn /\ j \in DOMAIN log
    BY <2>2, <2>7 DEF Inv, TurnsPassPauses, Steps
  <2>9. CASE i = Len(log)
    BY <2>1, <2>8, <2>9
  <2>10. CASE i \in LastOf(Steps)
    BY <2>1, <2>2, <2>7, <2>8, <2>10 DEF LastOf
  <2> QED BY <2>9, <2>10 DEF ReEntry
<1> QED BY <1>1, Invariance, PTL

\* Behind its completed marker a run writes no row and runs no tool.
THEOREM CompletedRunsAreOver == Spec => FinishedIsFinal
<1>1. Inv /\ [Next]_vars => [Finished => log' = log /\ runs' = runs]_vars
  <2> SUFFICES ASSUME Inv, [Next]_vars, Finished PROVE log' = log /\ runs' = runs
    OBVIOUS
  <2>1. CASE UNCHANGED vars
    BY <2>1 DEF vars, store, history
  <2>2. ASSUME NEW c \in Callers, Does(c) PROVE log' = log /\ runs' = runs
    <3>1. call[c].pc \in {"idle", "claim", "latest"}
      BY DEF Inv, FinishedForGood
    <3>2. CASE Vanishes(c)
      <4>1. call[c].fresh = {}
        BY <3>1 DEF Inv, OneWorks, Reading
      <4>2. runs' = [x \in ToolCall |-> runs[x]] /\ log' = log
        BY <3>2, <4>1 DEF Vanishes, Tear, store
      <4> QED BY <4>2 DEF Inv, TypeOK
    <3>3. CASE Begins(c) \/ GivesUp(c) \/ LooksBack(c) \/ (\E i \in DOMAIN log : ReEnters(c, i))
               \/ Claims(c)
      BY <3>3 DEF Begins, GivesUp, LooksBack, ReEnters, Claims, store, history
    <3> QED BY <2>2, <3>1, <3>2, <3>3
         DEF Does, SavesTurn, SavesTool, Completes, Asks, Replies, Answers, RunsTool, GetsAnswer,
             AtCall, Pauses, StopsEarly, FailsBehind, Fails, Marks, AtTurn, InLoop
  <2> QED BY <2>1, <2>2, StepDoes DEF Inv
<1> QED BY <1>1, Invariance, PTL DEF Spec, FinishedIsFinal

\* A gated tool runs under a yes to a pause of this very call, in the loop or re-invoked.
THEOREM GatedToolsNeedApproval == Spec => ApprovedRunsOnly
<1> DEFINE Approved(x) == \E c \in Callers : /\ call[c].ticket # 0 /\ call[c].yes
                                            /\ pauses[call[c].ticket].call = x
<1>1. ASSUME Inv, [Next]_vars, NEW x \in ToolCall, runs'[x] > runs[x], x.kind = "policy"
      PROVE  Approved(x)
  <2>0. runs \in [ToolCall -> Nat] /\ \A c \in Callers : call[c] \in Locals
    BY <1>1 DEF Inv, TypeOK
  <2>1. ASSUME NEW c \in Callers, Tear(c) PROVE FALSE
    BY <1>1, <2>0, <2>1 DEF Tear
  <2>2. ASSUME NEW c \in Callers, RunTool(c) PROVE Approved(x)
    <3> DEFINE l == [call[c] EXCEPT !.fresh = @ \cup {call[c].call}]
    <3>1. /\ AtCall(c) /\ ~NeedsAnswer(l) /\ ~Refused(l)
          /\ runs' = [runs EXCEPT ![l.call] = @ + 1]
      BY <2>2 DEF RunTool
    <3>2. l.call = call[c].call /\ l.ticket = call[c].ticket /\ l.yes = call[c].yes
      BY <2>0 DEF Locals
    <3> HIDE DEF l
    <3>3. x = call[c].call
      BY <1>1, <2>0, <3>1, <3>2
    <3>4. call[c].ticket # 0 /\ call[c].yes
      BY <1>1, <3>1, <3>2, <3>3 DEF NeedsAnswer, Refused
    <3>5. call[c].pc = "retool"
      BY <1>1, <3>1, <3>4 DEF AtCall, Inv, TurnLeft
    <3>6. pauses[call[c].ticket] = [call |-> call[c].call, msgs |-> call[c].msgs]
      BY <1>1, <3>4, <3>5 DEF Inv, AnswerResumesItsPause
    <3> QED BY <3>3, <3>4, <3>6
  <2>3. CASE runs' = runs
    BY <1>1, <2>0, <2>3
  <2>4. \/ runs' = runs \/ \E c \in Callers : Tear(c) \/ RunTool(c)
    BY <1>1
    DEF Next, Step, vars, store, history, Run, Resume, BeginCall, ReadLatest, ReadHistory, Claim,
        ReadPause, PutTurn, Exhaust, AskTools, Answer, PausedReply, PutTool, Deny, Pause, StopTool,
        StopRun, Complete, PutLoopEnd, MarkFailed, Fail, FailBehindLoop, LoseLoopEnd, Vanish
  <2> QED BY <2>1, <2>2, <2>3, <2>4
<1>2. Inv /\ [Next]_vars =>
        [\A x \in ToolCall : runs'[x] > runs[x] /\ x.kind = "policy" =>
           \E c \in Callers : /\ call[c].ticket # 0 /\ call[c].yes
                              /\ pauses[call[c].ticket].call = x]_vars
  BY <1>1
<1> QED BY <1>2, Invariance, PTL DEF Spec, ApprovedRunsOnly
----------------------------------------------------------------------------
(* The pending row implements Approval *)

Requests == [t \in DOMAIN pauses |-> Phase(t)]

\* The ticket that counts is that of the last pause; the others keep their phase.
LEMMA OldPhasesStay ==
    ASSUME Inv, Inv', [Next]_vars, NEW t \in DOMAIN pauses,
           t # Len(pauses), t # Len(pauses'),
            spent' \subseteq spent \cup {Len(pauses)}, spent \subseteq spent'
    PROVE  Phase(t)' = Phase(t)
<1>1. /\ pending.ticket # t /\ pending'.ticket # t /\ t # 0
      /\ \A c \in Callers : call[c].ticket # t /\ call'[c].ticket # t
  <2>1. t # 0 /\ NoPending.ticket = 0
    BY DEF Inv, TypeOK, NoPending
  <2> QED BY <2>1 DEF Inv, PauseIsLast
<1>2. t \in spent' <=> t \in spent
  OBVIOUS
<1> QED BY <1>1, <1>2 DEF Phase

LEMMA PhasesArePhases == ASSUME NEW t PROVE Phase(t) \in Gate!Phase
BY DEF Phase, Gate!Phase

\* Only the request of the last pause changes, or none.
LEMMA LastRequestChanges ==
    ASSUME Inv, Inv', [Next]_vars, UNCHANGED pauses, NEW n, n = Len(pauses),
           pauses # <<>>, spent \subseteq spent', spent' \subseteq spent \cup {n}
    PROVE  /\ n \in DOMAIN Requests /\ Requests[n] = Phase(n)
           /\ Requests' = [Requests EXCEPT ![n] = Phase(n)']
<1>1. n \in DOMAIN pauses
  BY DEF Inv, TypeOK
<1>2. \A t \in DOMAIN pauses : t # n => Phase(t)' = Phase(t)
  BY OldPhasesStay
<1>3. Requests' = [t \in DOMAIN pauses |-> Phase(t)']
  BY DEF Requests
<1>4. Requests' = [t \in DOMAIN pauses |-> IF t = n THEN Phase(n)' ELSE Phase(t)]
  BY <1>2, <1>3
<1> QED BY <1>1, <1>4 DEF Requests

\* A request is granted by a claim; what is granted is spent or lost with its ticket.
LEMMA LastPhaseMoves ==
    ASSUME Inv, Inv', NEW c \in Callers, Does(c), UNCHANGED pauses, NEW n \in Nat,
           n = Len(pauses), n # 0
    PROVE  /\ spent \subseteq spent' /\ spent' \subseteq spent \cup {n}
           /\ \/ Phase(n)' = Phase(n)
              \/ Phase(n) = "open" /\ Phase(n)' = "granted"
              \/ Phase(n) = "granted" /\ Phase(n)' \in {"spent", "lost"}
<1>1. /\ NoPending.ticket = 0 /\ Idle.ticket = 0
      /\ \A d \in Callers : call[d].ticket \in {0, n} /\ call'[d].ticket \in {0, n}
  BY DEF NoPending, Idle, Inv, PauseIsLast
<1>2. \/ /\ UNCHANGED <<pending, spent>>
         /\ OnlyCall(c) /\ call'[c].ticket = call[c].ticket
      \/ /\ UNCHANGED pending /\ spent' \in {spent, spent \cup ({call[c].ticket} \ {0})}
         /\ OnlyCall(c) /\ call'[c].ticket = 0 /\ Live(c)
      \/ Claims(c)
  <2>1. CASE Begins(c)
    BY <1>1, <2>1 DEF Begins, Live, Inv, OneWorks, store, history
  <2>2. CASE GivesUp(c) \/ Marks(c) \/ Vanishes(c) \/ Completes(c)
    BY <1>1, <2>2 DEF GivesUp, Marks, Vanishes, Completes, Live, store, history
  <2>3. CASE LooksBack(c) \/ (\E i \in DOMAIN log : ReEnters(c, i))
    BY <2>3 DEF LooksBack, ReEnters, KeepsClaim, store, history
  <2>4. CASE (\E turn \in 0..MaxIter : SavesTurn(c, turn)) \/ SavesTool(c, NewRow)
    BY <2>4 DEF SavesTurn, SavesTool, Live, AtTurn
  <2>5. CASE Asks(c) \/ Replies(c) \/ Answers(c) \/ RunsTool(c)
    BY <2>5 DEF Asks, Replies, Answers, RunsTool, GetsAnswer, KeepsClaim, store, history
  <2>6. CASE StopsEarly(c) \/ FailsBehind(c) \/ Fails(c)
    BY <2>6 DEF StopsEarly, FailsBehind, Fails, KeepsClaim, store, history
  <2>7. ~Pauses(c, NewRow)
    <3>1. pauses \in Seq([call : ToolCall, msgs : Messages])
      BY DEF Inv, TypeOK
    <3>2. \A x : Append(pauses, x) # pauses
      BY <3>1
    <3> QED BY <3>2 DEF Pauses
  <2> QED BY <2>1, <2>2, <2>3, <2>4, <2>5, <2>6, <2>7 DEF Does
<1>3. CASE UNCHANGED <<pending, spent>> /\ \A d \in Callers : call'[d].ticket = call[d].ticket
  BY <1>3 DEF Phase
<1>4. CASE /\ UNCHANGED pending /\ spent' \in {spent, spent \cup ({call[c].ticket} \ {0})}
           /\ OnlyCall(c) /\ call'[c].ticket = 0 /\ call[c].ticket # 0
  <2>1. call[c].ticket = n /\ Works(c) /\ pending = NoPending
    BY <1>1, <1>4 DEF Inv, OneWorks, Works
  <2>2. \A d \in Callers : call'[d].ticket = 0
    BY <1>4, <2>1, OthersWait DEF Inv, OnlyCall
  <2>3. Phase(n) = "granted"
    BY <1>1, <2>1 DEF Phase
  <2>4. Phase(n)' \in {"spent", "lost"}
    BY <1>1, <1>4, <2>1, <2>2 DEF Phase
  <2> QED BY <1>4, <2>1, <2>3, <2>4
<1>5. CASE Claims(c)
  <2>1. pending.ticket = n /\ pending' = NoPending /\ call'[c].ticket = n /\ spent' = spent
    BY <1>5 DEF Claims, Inv, PauseIsLast, history
  <2>2. Phase(n) = "open"
    BY <2>1, Zenon DEF Phase
  <2>3. Phase(n)' = "granted"
    BY <1>1, <2>1 DEF Phase
  <2> QED BY <2>1, <2>2, <2>3
<1> QED BY <1>2, <1>3, <1>4, <1>5 DEF OnlyCall

\* A pause asks for an approval, when none is asked for.
LEMMA PauseAsks ==
    ASSUME Inv, Inv', [Next]_vars, NEW c \in Callers, Pauses(c, NewRow)
    PROVE  Gate!Next
<1>1. PICK t \in Nat \ {0} : t = Len(pauses) + 1
  BY DEF Inv, TypeOK
<1>2. /\ DOMAIN pauses = 1..(t - 1) /\ DOMAIN pauses' = 1..t /\ Len(pauses') = t
      /\ pending'.ticket = t /\ spent' = spent
  BY <1>1 DEF Pauses, Inv, TypeOK
<1>3. pending = NoPending /\ NoPending.ticket = 0
  BY DEF Pauses, AtCall, Inv, OneWorks, Works, NoPending
<1>4. \A u \in DOMAIN pauses : Phase(u) # "open"
  <2>1. \A u \in DOMAIN pauses : pending.ticket # u
    BY <1>2, <1>3
  <2> QED BY <2>1 DEF Phase
<1>5. ASSUME NEW u \in DOMAIN pauses PROVE Phase(u)' = Phase(u)
  <2>1. u # 0 /\ u # t /\ pending.ticket # u /\ pending'.ticket # u
    BY <1>2, <1>3
  <2>2. \A d \in Callers : call[d].ticket # u /\ call'[d].ticket # u
    <3>1. \A d \in Callers : call[d].ticket = 0
      BY OthersWait DEF Pauses, AtCall, Works, Inv
    <3>2. \A d \in Callers : call'[d].ticket \in {0, t}
      BY <1>2 DEF Inv, PauseIsLast
    <3> QED BY <2>1, <3>1, <3>2
  <2> QED BY <1>2, <2>1, <2>2 DEF Phase
<1>6. Phase(t)' = "open"
  BY <1>2, Zenon DEF Phase
<1>7. Requests' = [u \in 1..t |-> IF u = t THEN "open" ELSE Phase(u)]
  <2>1. \A u \in 1..t : u # t => u \in DOMAIN pauses
    BY <1>1, <1>2
  <2>2. Requests' = [u \in 1..t |-> Phase(u)']
    BY <1>2 DEF Requests
  <2> QED BY <1>5, <1>6, <2>1, <2>2
<1>8. Requests' = Append(Requests, "open")
  <2>1. Requests \in Seq(Gate!Phase) /\ Len(Requests) = t - 1
    BY <1>1, <1>2, PhasesArePhases DEF Requests
  <2> DEFINE a == Append(Requests, "open")
  <2>2. "open" \in Gate!Phase
    BY DEF Gate!Phase
  <2>3. a \in Seq(Gate!Phase) /\ Len(a) = t /\ a[t] = "open"
        /\ \A u \in 1..(t - 1) : a[u] = Requests[u]
    BY <1>1, <2>1, <2>2
  <2>4. \A u \in 1..t : a[u] = IF u = t THEN "open" ELSE Phase(u)
    <3>1. \A u \in 1..(t - 1) : Requests[u] = Phase(u)
      BY <1>2 DEF Requests
    <3>2. \A u \in 1..t : u = t \/ u \in 1..(t - 1)
      OBVIOUS
    <3> HIDE DEF a
    <3> QED BY <2>3, <3>1, <3>2
  <2>5. DOMAIN a = 1..t /\ a = [u \in DOMAIN a |-> a[u]]
    <3> HIDE DEF a
    <3>1. DOMAIN a = 1..Len(a) /\ a = [u \in DOMAIN a |-> a[u]]
      BY <2>3
    <3> QED BY <2>3, <3>1
  <2> HIDE DEF a
  <2>6. a = [u \in 1..t |-> IF u = t THEN "open" ELSE Phase(u)]
    BY <2>4, <2>5
  <2> QED BY <1>7, <2>6 DEF a
<1>9. \A u \in DOMAIN Requests : Requests[u] # "open"
  BY <1>4 DEF Requests
<1> QED BY <1>8, <1>9 DEF Gate!Next, Gate!Ask, Requests

\* Every step of a run is a step of Approval or a stutter.
LEMMA StepImplements ==
    ASSUME Inv, Inv', [Next]_vars
    PROVE  [Gate!Next]_Requests
<1>1. CASE UNCHANGED vars
  BY <1>1 DEF vars, store, history, Requests, Phase
<1>2. ASSUME NEW c \in Callers, Does(c), ~Pauses(c, NewRow) PROVE [Gate!Next]_Requests
  <2>1. UNCHANGED pauses
    BY <1>2
    DEF Does, Begins, GivesUp, LooksBack, ReEnters, Claims, SavesTurn, SavesTool, Completes, Asks,
        
        Replies, Answers, RunsTool, GetsAnswer, StopsEarly, FailsBehind, Fails, Marks, Vanishes,
        history
  <2>2. PICK n \in Nat : n = Len(pauses)
    BY DEF Inv, TypeOK
  <2>3. CASE n = 0
    <3>1. DOMAIN pauses = {}
      <4>1. pauses \in Seq([call : ToolCall, msgs : Messages]) /\ Len(pauses) = 0
        BY <2>2, <2>3 DEF Inv, TypeOK
      <4> QED BY <4>1
    <3>2. Requests' = Requests
      BY <2>1, <3>1 DEF Requests
    <3> QED BY <3>2
  <2>4. CASE n # 0
    <3>1. pauses # <<>>
      BY <2>2, <2>4
    <3>2. /\ spent \subseteq spent' /\ spent' \subseteq spent \cup {n}
          /\ \/ Phase(n)' = Phase(n)
             \/ Phase(n) = "open" /\ Phase(n)' = "granted"
             \/ Phase(n) = "granted" /\ Phase(n)' \in {"spent", "lost"}
      BY <1>2, <2>1, <2>2, <2>4, LastPhaseMoves
    <3>3. /\ n \in DOMAIN Requests /\ Requests[n] = Phase(n)
          /\ Requests' = [Requests EXCEPT ![n] = Phase(n)']
      BY <2>1, <2>2, <3>1, <3>2, LastRequestChanges
    <3>4. CASE Phase(n)' = Phase(n)
      <4>1. Requests' = Requests
        BY <3>3, <3>4 DEF Requests
      <4> QED BY <4>1
    <3>5. CASE \/ Phase(n) = "open" /\ Phase(n)' = "granted"
               \/ Phase(n) = "granted" /\ Phase(n)' \in {"spent", "lost"}
      <4>1. Gate!Grant(n) \/ Gate!Spend(n) \/ Gate!Lose(n)
        BY <3>3, <3>5 DEF Gate!Grant, Gate!Spend, Gate!Lose, Requests
      <4> QED BY <3>3, <4>1 DEF Gate!Next, Requests
    <3> QED BY <3>2, <3>4, <3>5
  <2> QED BY <2>3, <2>4
<1> QED BY <1>1, <1>2, PauseAsks, StepDoes DEF Inv

\* The pending row of an agent and its claim keep the promise of Approval too.
THEOREM AgentImplementsApproval == Spec => ImplementsApproval
<1>1. Init => Gate!Init
  BY DEF Init, Gate!Init
<1> QED BY <1>1, InitInv, NextInv, StepImplements, PTL
        DEF Spec, ImplementsApproval, Gate!Spec, Requests
=============================================================================
