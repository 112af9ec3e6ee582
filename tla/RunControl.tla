----------------------------- MODULE RunControl -----------------------------
(***************************************************************************)
(* How one top-level run is stopped: by cancel from any thread, by its     *)
(* timeout, or by its caller's own task being cancelled.                   *)
(*                                                                         *)
(* The event loop runs one thing at a time: while the run computes (or is  *)
(* in a sync tool) no callback of the loop runs, but other threads go on.  *)
(* A run is a "task" (arun, or a chain's or a swarm's controlled) or a     *)
(* "stream", driven by its consumer, in which only a tool call runs as a   *)
(* task (stoppable).                                                       *)
(*                                                                         *)
(* Left out: token and cost limits, which end a run as an answer; runs     *)
(* nested in this one, which look at the reason of their root.             *)
(***************************************************************************)
EXTENDS Naturals, FiniteSets

CONSTANTS
    Threads,    \* the threads that call cancel, once each
    MaxSteps,   \* bound: model and tool calls of the run
    None        \* no reason, no end

ASSUME ControlAssumption == MaxSteps \in Nat /\ None \notin {"cancelled", "timeout"}

VARIABLES
    mode,      \* "task" or "stream"
    pc,        \* where the run is: see Places
    registered,  \* it is in _registry
    task,      \* control.task is a task that is not done
    reason,    \* control.reason
    due,       \* timeout_seconds have passed since it started
    armed,     \* the timer is set
    posted,    \* task.cancel was handed to the loop
    steps,     \* how many calls it began
    thread,    \* the stop() each canceller is in
    end,       \* how the work ended: a result or an exception
    marker,    \* run_reason of the failed marker it wrote
    outcome,   \* what its caller got
    \* history, read by no action
    causes,    \* who tried to stop it
    late,      \* how many calls it began after there was a reason to stop
    missed     \* a cancel came between the last check and the start of a task

control == <<registered, task, reason, due, armed, posted>>
result == <<end, marker, outcome>>
history == <<causes, late, missed>>
vars == <<mode, pc, control, steps, thread, result, history>>

----------------------------------------------------------------------------

\* "new": registered, without a task.  "prelude": guardrails and hooks before the loop.
\* "loop": at check_stopped.  "checked": behind it.  "model", "tool": in an await.
\* "sync": in a sync tool.  "unwound": the work has ended, its caller not woken yet.
Places == {"idle", "new", "prelude", "loop", "checked", "model", "tool", "sync",
           "unwound", "over"}
Awaits == {"prelude", "model", "tool"}
LoopIsFree == pc \in Awaits \cup {"unwound"}
Running == pc \notin {"idle", "unwound", "over"}

Reasons == {"cancelled", "timeout"}
Ends == {"result", "CancelledError", "RunCancelled", "AgentTimeoutError"}

\* The except clause of the run: stop_of names the stop in the failed marker.
Unwind(ending, why) ==
    /\ pc' = "unwound" /\ end' = ending /\ task' = FALSE
    /\ marker' = IF ending = "result" THEN None ELSE why
    /\ UNCHANGED outcome

StopError == IF reason = "timeout" THEN "AgentTimeoutError" ELSE "RunCancelled"

----------------------------------------------------------------------------
(* The run *)

\* add(control); the task follows, and other threads may see the gap.
Start ==
    /\ pc = "idle"
    /\ pc' = "new" /\ registered' = TRUE
    /\ UNCHANGED <<mode, task, reason, due, armed, posted, steps, thread, result, history>>

MakeTask ==
    /\ pc = "new"
    /\ pc' = "prelude"
    /\ task' = (mode = "task") /\ armed' = (mode = "task")
    /\ UNCHANGED <<mode, registered, reason, due, posted, steps, thread, result, history>>

EnterLoop ==
    /\ pc = "prelude"
    /\ pc' = "loop"
    /\ UNCHANGED <<mode, control, steps, thread, result, history>>

\* Broken variant: only the task's own cancellation stops a run.
CheckNothing ==
    /\ pc = "loop"
    /\ pc' = "checked"
    /\ UNCHANGED <<mode, control, steps, thread, result, history>>

\* Broken variant: a run out of time stops, and does not say why.
CheckUntold ==
    /\ pc = "loop"
    /\ \/ /\ reason # None /\ Unwind(StopError, reason)
          /\ UNCHANGED <<reason, causes>>
       \/ /\ reason = None /\ due
          /\ causes' = causes \cup {"timeout"}
          /\ Unwind("AgentTimeoutError", None)
          /\ UNCHANGED reason
       \/ /\ reason = None /\ ~due
          /\ pc' = "checked"
          /\ UNCHANGED <<task, reason, causes, result>>
    /\ UNCHANGED <<mode, registered, due, armed, posted, steps, thread, late, missed>>

\* check_stopped, or the same test of check_before_model_call and of astream's loop.
CheckStopped ==
    /\ pc = "loop"
    /\ \/ /\ reason # None /\ Unwind(StopError, reason)
          /\ UNCHANGED <<reason, causes>>
       \/ /\ reason = None /\ due
          /\ reason' = "timeout" /\ causes' = causes \cup {"timeout"}
          /\ Unwind("AgentTimeoutError", "timeout")
       \/ /\ reason = None /\ ~due
          /\ pc' = "checked"
          /\ UNCHANGED <<task, reason, causes, result>>
    /\ UNCHANGED <<mode, registered, due, armed, posted, steps, thread, late, missed>>

\* The next call starts.  In a stream a tool call becomes the run's task (stoppable).
Begin ==
    /\ pc = "checked" /\ steps < MaxSteps
    /\ \E kind \in {"model", "tool", "sync"} :
         /\ pc' = kind
         /\ IF mode = "stream" /\ kind = "tool"
            THEN task' = TRUE /\ armed' = TRUE
            ELSE UNCHANGED <<task, armed>>
    /\ steps' = steps + 1
    /\ late' = IF reason = None THEN late ELSE late + 1
    /\ UNCHANGED <<mode, registered, reason, due, posted, thread, result, causes, missed>>

\* It returns; a tool may also swallow a cancel that was delivered to it.
Finish ==
    /\ pc \in {"model", "tool", "sync"}
    /\ pc' = "loop"
    /\ IF mode = "stream" THEN task' = FALSE /\ armed' = FALSE ELSE UNCHANGED <<task, armed>>
    /\ UNCHANGED <<mode, registered, reason, due, posted, steps, thread, result, history>>

\* The work is done, the completed marker written.
Done ==
    /\ pc = "checked"
    /\ Unwind("result", None)
    /\ UNCHANGED <<mode, registered, reason, due, armed, posted, steps, thread, history>>

\* _controlled, when the work was cancelled: a run that was stopped for a reason returns
\* or raises that; a CancelledError without one is the caller's.
Cancelled == IF reason = None THEN "propagated" ELSE reason

\* What the caller gets.  A stream ends for a RunCancelled and passes on what else comes.
Outcome ==
    CASE end = "result" -> "completed"
      [] end = "AgentTimeoutError" -> "timeout"
      [] end = "RunCancelled" /\ mode = "stream" -> "cancelled"
      [] end = "CancelledError" /\ mode = "stream" -> "propagated"
      [] OTHER -> Cancelled

Return ==
    /\ pc = "unwound"
    /\ pc' = "over" /\ outcome' = Outcome
    /\ registered' = FALSE /\ armed' = FALSE
    /\ UNCHANGED <<mode, task, reason, due, posted, steps, thread, end, marker, history>>

----------------------------------------------------------------------------
(* Stops that come from the loop *)

\* The clock.
TimePasses ==
    /\ ~due /\ pc \notin {"idle", "over"}
    /\ due' = TRUE
    /\ UNCHANGED <<mode, pc, registered, task, reason, armed, posted, steps, thread, result,
                   history>>

\* The timer: stop(TIMEOUT).
TimerFires ==
    /\ armed /\ due /\ LoopIsFree
    /\ armed' = FALSE
    /\ reason' = IF reason = None THEN "timeout" ELSE reason
    /\ posted' = (posted \/ task)
    /\ causes' = causes \cup {"timeout"}
    /\ UNCHANGED <<mode, pc, registered, task, due, steps, thread, result, late, missed>>

\* The loop runs task.cancel: CancelledError where the run awaits, unless the task is done.
\* A stream's stoppable turns it into the stop's own error.
Deliver ==
    /\ posted /\ LoopIsFree
    /\ posted' = FALSE
    /\ IF task
       THEN Unwind(IF mode = "stream" THEN StopError ELSE "CancelledError", reason)
       ELSE UNCHANGED <<pc, task, result>>
    /\ UNCHANGED <<mode, registered, reason, due, armed, steps, thread, history>>

\* A call swallows the CancelledError and returns.
Swallow ==
    /\ posted /\ task /\ pc = "tool"
    /\ posted' = FALSE
    /\ pc' = "loop"
    /\ IF mode = "stream" THEN task' = FALSE /\ armed' = FALSE ELSE UNCHANGED <<task, armed>>
    /\ UNCHANGED <<mode, registered, reason, due, steps, thread, result, history>>

\* The caller's own task is cancelled: while the run awaits, which ends it; or before the
\* caller is told how its task ended, which is then not looked at.
CallerCancels ==
    /\ causes' = causes \cup {"caller"}
    /\ \/ /\ pc \in Awaits
          /\ Unwind(IF mode = "stream" /\ task /\ reason # None THEN StopError
                    ELSE "CancelledError", reason)
          /\ UNCHANGED <<registered, armed>>
       \/ /\ pc = "unwound" /\ mode = "task"
          /\ pc' = "over" /\ outcome' = Cancelled /\ registered' = FALSE /\ armed' = FALSE
          /\ UNCHANGED <<task, end, marker>>
    /\ UNCHANGED <<mode, reason, due, posted, steps, thread, late, missed>>

----------------------------------------------------------------------------
(* cancel, from another thread *)

\* The snapshot of the registry, under its lock.
Snapshot(t) ==
    /\ thread[t] = "idle" /\ pc # "idle"
    /\ thread' = [thread EXCEPT ![t] = IF registered THEN "read" ELSE "done"]
    /\ causes' = IF registered THEN causes \cup {"cancel"} ELSE causes
    /\ UNCHANGED <<mode, pc, control, steps, result, late, missed>>

\* stop: the reason is read, then written, and nothing holds a lock.
ReadReason(t) ==
    /\ thread[t] = "read"
    /\ thread' = [thread EXCEPT ![t] = IF reason = None THEN "write" ELSE "post"]
    /\ UNCHANGED <<mode, pc, control, steps, result, history>>

WriteReason(t) ==
    /\ thread[t] = "write"
    /\ thread' = [thread EXCEPT ![t] = "post"]
    /\ reason' = "cancelled"
    /\ UNCHANGED <<mode, pc, registered, task, due, armed, posted, steps, result, history>>

\* Broken variant: the task is left to find the reason.
PostNothing(t) ==
    /\ thread[t] = "post"
    /\ thread' = [thread EXCEPT ![t] = "done"]
    /\ UNCHANGED <<mode, pc, control, steps, result, history>>

\* call_soon_threadsafe(task.cancel), if there is a task that is not done.
Post(t) ==
    /\ thread[t] = "post"
    /\ thread' = [thread EXCEPT ![t] = "done"]
    /\ posted' = (posted \/ task)
    /\ missed' = (missed \/ (Running /\ ~task))
    /\ UNCHANGED <<mode, pc, registered, task, reason, due, armed, steps, result, causes, late>>

----------------------------------------------------------------------------

Init ==
    /\ mode \in {"task", "stream"} /\ pc = "idle"
    /\ registered = FALSE /\ task = FALSE /\ reason = None
    /\ due = FALSE /\ armed = FALSE /\ posted = FALSE
    /\ steps = 0 /\ thread = [t \in Threads |-> "idle"]
    /\ end = None /\ marker = None /\ outcome = None
    /\ causes = {} /\ late = 0 /\ missed = FALSE

Cancel(t) == Snapshot(t) \/ ReadReason(t) \/ WriteReason(t) \/ Post(t)
\* What the loop does without waiting for anybody.
Compute == MakeTask \/ CheckStopped \/ Begin \/ Done \/ Return \/ Deliver \/ TimerFires

Next == \/ Start \/ Compute \/ EnterLoop \/ Finish
        \/ TimePasses \/ Swallow \/ CallerCancels
        \/ \E t \in Threads : Cancel(t)

Spec == Init /\ [][Next]_vars

\* The loop and the threads go on, and a sync tool returns.  An await may last forever: a
\* model or a tool that never answers.
FairSpec ==
    /\ Spec
    /\ WF_vars(MakeTask \/ CheckStopped \/ Begin \/ Done \/ Return)
    /\ WF_vars(Deliver) /\ WF_vars(TimerFires) /\ WF_vars(pc = "sync" /\ Finish)
    /\ \A t \in Threads : WF_vars(thread[t] # "idle" /\ Cancel(t))

----------------------------------------------------------------------------
(* Properties *)

\* Every variable holds what the code can put there, and the registry holds the run from
\* its start to its end.
TypeOK ==
    /\ mode \in {"task", "stream"} /\ pc \in Places
    /\ reason \in Reasons \cup {None} /\ marker \in Reasons \cup {None}
    /\ end \in Ends \cup {None}
    /\ outcome \in {"completed", "propagated", None} \cup Reasons
    /\ {registered, task, due, armed, posted, missed} \subseteq BOOLEAN
    /\ steps \in 0..MaxSteps /\ late \in Nat
    /\ thread \in [Threads -> {"idle", "read", "write", "post", "done"}]
    /\ causes \subseteq {"cancel", "timeout", "caller"}
    /\ registered = (pc \notin {"idle", "over"})

\* A stop lands in the step in flight: at most one call starts after it, the one whose
\* check was just passed.
StopsAtNextStep == late <= 1

\* A run that one cause alone tried to stop tells its caller and its failed marker the
\* same: that cause, or that it completed first.
StopIsTold ==
    pc = "over" =>
        /\ causes = {} => outcome = "completed"
        /\ causes = {"cancel"} => outcome \in {"completed", "cancelled"}
        /\ causes = {"timeout"} => outcome \in {"completed", "timeout"}
        /\ causes = {"caller"} => outcome = "propagated" \/ outcome = "completed"
        /\ Cardinality(causes) = 1 /\ outcome \in Reasons => marker = outcome

\* A cancelled or timed-out arun ends though its model or its tool never answers, unless
\* the cancel found no task to cancel.
StopLands ==
    mode = "task" /\ (reason # None \/ due) ~> pc = "over" \/ missed
=============================================================================
