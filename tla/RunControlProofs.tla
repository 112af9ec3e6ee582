-------------------------- MODULE RunControlProofs --------------------------
(***************************************************************************)
(* Theorems about RunControl, for any number of cancelling threads and of  *)
(* steps: a stop is heeded at the next step, and whoever asks is told why. *)
(***************************************************************************)
EXTENDS RunControl, FiniteSetTheorems, TLAPS

----------------------------------------------------------------------------
(* The inductive invariant *)

\* A call that began too late was the last: there is a reason, and it is not looked away
\* from again.
LateIsLast == late = 0 \/ (late = 1 /\ reason # None /\ pc # "checked")

CauseOf(why) == IF why = "timeout" THEN "timeout" ELSE "cancel"

\* Nobody sets a reason, or has the task cancelled, without being counted as a cause.
ReasonHasCause ==
    /\ reason # None => CauseOf(reason) \in causes
    /\ posted => reason # None
    /\ \A t \in Threads :
         /\ thread[t] \in {"read", "write", "post"} => "cancel" \in causes
         /\ thread[t] = "post" => reason # None

\* How the work ended and what its marker says have a cause, too.
EndHasCause ==
    pc \in {"unwound", "over"} =>
      /\ end \in Ends
      /\ end = "result" => marker = None
      /\ end \in {"AgentTimeoutError", "RunCancelled"} => marker \in Reasons
      /\ end = "AgentTimeoutError" => marker = "timeout"
      /\ end = "RunCancelled" => marker = "cancelled"
      /\ end = "CancelledError" /\ (marker = None \/ mode = "stream") => "caller" \in causes
      /\ marker # None => reason # None /\ CauseOf(marker) \in causes

Inv == TypeOK /\ LateIsLast /\ ReasonHasCause /\ EndHasCause /\ StopIsTold

----------------------------------------------------------------------------
(* Each part is kept by every step *)

\* What the caller of a run is told, by how its work ended.
LEMMA Outcomes ==
    /\ Outcome \in {"completed", "timeout", "cancelled", "propagated", Cancelled}
    /\ end = "result" => Outcome = "completed"
    /\ end = "AgentTimeoutError" => Outcome = "timeout"
    /\ end = "RunCancelled" => Outcome = IF mode = "stream" THEN "cancelled" ELSE Cancelled
    /\ end = "CancelledError" => Outcome = IF mode = "stream" THEN "propagated" ELSE Cancelled
BY DEF Outcome

\* What a run starts with.
LEMMA InitInv == Init => Inv
<1> SUFFICES ASSUME Init PROVE Inv
  OBVIOUS
<1>1. TypeOK
  <2>1. {registered, task, due, armed, posted, missed} \subseteq BOOLEAN
    BY DEF Init
  <2>2. steps \in 0..MaxSteps /\ thread \in [Threads -> {"idle", "read", "write", "post", "done"}]
    BY ControlAssumption DEF Init
  <2> QED BY <2>1, <2>2 DEF Init, TypeOK, Places
<1>2. LateIsLast /\ ReasonHasCause /\ EndHasCause /\ StopIsTold
  BY DEF Init, LateIsLast, ReasonHasCause, EndHasCause, StopIsTold
<1> QED BY <1>1, <1>2 DEF Inv

\* Every variable keeps its type, and the registry holds the run until it is over.
LEMMA TypeNext == TypeOK /\ [Next]_vars => TypeOK'
<1> SUFFICES ASSUME TypeOK, [Next]_vars PROVE TypeOK'
  OBVIOUS
<1> USE ControlAssumption DEF TypeOK, Places, Reasons, Ends
<1>1. CASE UNCHANGED vars
  BY <1>1 DEF vars, control, result, history
<1>2. CASE Start
  BY <1>2 DEF Start, control, result, history
<1>3. CASE MakeTask
  BY <1>3 DEF MakeTask, control, result, history
<1>4. CASE CheckStopped
  BY <1>4 DEF CheckStopped, Unwind, StopError, control, result, history
<1>5. CASE Begin
  <2>1. pc' \in Places /\ {task, armed}' \subseteq BOOLEAN
    BY <1>5 DEF Begin
  <2>2. steps' \in 0..MaxSteps /\ late' \in Nat
    BY <1>5 DEF Begin
  <2>3. registered' = (pc' \notin {"idle", "over"})
    BY <1>5 DEF Begin, control
  <2> QED BY <1>5, <2>1, <2>2, <2>3 DEF Begin, result, history
<1>6. CASE Done
  BY <1>6 DEF Done, Unwind, control, result, history
<1>7. CASE Return
  BY <1>7, Outcomes DEF Return, Cancelled, control, result, history
<1>8. CASE Deliver
  <2>1. posted' = FALSE
        /\ UNCHANGED <<mode, registered, reason, due, armed, steps, thread, causes, late, missed>>
    BY <1>8 DEF Deliver, history
  <2>2. CASE task
    BY <1>8, <2>1, <2>2 DEF Deliver, Unwind, StopError, LoopIsFree, Awaits
  <2>3. CASE ~task
    <3>1. UNCHANGED <<pc, task, end, marker, outcome>>
      BY <1>8, <2>3 DEF Deliver, result
    <3>2. {registered, task, due, armed, posted, missed}' \subseteq BOOLEAN
      BY <2>1, <3>1
    <3> QED BY <2>1, <3>1, <3>2
  <2> QED BY <2>2, <2>3
<1>9. CASE TimerFires
  BY <1>9 DEF TimerFires, LoopIsFree, Awaits, control, result, history
<1>10. CASE EnterLoop
  BY <1>10 DEF EnterLoop, control, result, history
<1>11. CASE Finish
  BY <1>11 DEF Finish, control, result, history
<1>12. CASE TimePasses
  BY <1>12 DEF TimePasses, control, result, history
<1>13. CASE Swallow
  BY <1>13 DEF Swallow, control, result, history
<1>14. CASE CallerCancels
  BY <1>14 DEF CallerCancels, Unwind, StopError, Cancelled, Awaits, control, result, history
<1>15. ASSUME NEW t \in Threads, Snapshot(t) PROVE TypeOK'
  BY <1>15 DEF Snapshot, control, result, history
<1>16. ASSUME NEW t \in Threads, ReadReason(t) PROVE TypeOK'
  BY <1>16 DEF ReadReason, control, result, history
<1>17. ASSUME NEW t \in Threads, WriteReason(t) PROVE TypeOK'
  BY <1>17 DEF WriteReason, control, result, history
<1>18. ASSUME NEW t \in Threads, Post(t) PROVE TypeOK'
  BY <1>18 DEF Post, control, result, history
<1> QED
  BY <1>1, <1>2, <1>3, <1>4, <1>5, <1>6, <1>7, <1>8, <1>9, <1>10, <1>11, <1>12, <1>13,
     <1>14, <1>15, <1>16, <1>17, <1>18 DEF Next, Compute, Cancel

\* A call that begins with a reason to stop is behind its check; the next check ends the run.
LEMMA LateNext == TypeOK /\ LateIsLast /\ [Next]_vars => LateIsLast'
<1> SUFFICES ASSUME TypeOK, LateIsLast, [Next]_vars PROVE LateIsLast'
  OBVIOUS
<1> USE ControlAssumption DEF TypeOK, LateIsLast
<1>1. CASE UNCHANGED vars
  BY <1>1 DEF vars, control, result, history
<1>2. CASE Start
  BY <1>2 DEF Start, control, result, history
<1>3. CASE MakeTask
  BY <1>3 DEF MakeTask, control, result, history
<1>4. CASE CheckStopped
  BY <1>4 DEF CheckStopped, Unwind, StopError, control, result, history
<1>5. CASE Begin
  BY <1>5 DEF Begin, control, result, history
<1>6. CASE Done
  BY <1>6 DEF Done, Unwind, control, result, history
<1>7. CASE Return
  BY <1>7 DEF Return, control, result, history
<1>8. CASE Deliver
  BY <1>8 DEF Deliver, Unwind, StopError, LoopIsFree, Awaits, control, result, history
<1>9. CASE TimerFires
  BY <1>9 DEF TimerFires, LoopIsFree, Awaits, control, result, history
<1>10. CASE EnterLoop
  BY <1>10 DEF EnterLoop, control, result, history
<1>11. CASE Finish
  BY <1>11 DEF Finish, control, result, history
<1>12. CASE TimePasses
  BY <1>12 DEF TimePasses, control, result, history
<1>13. CASE Swallow
  BY <1>13 DEF Swallow, control, result, history
<1>14. CASE CallerCancels
  BY <1>14 DEF CallerCancels, Unwind, StopError, Cancelled, Awaits, control, result, history
<1>15. ASSUME NEW t \in Threads, Snapshot(t) PROVE LateIsLast'
  BY <1>15 DEF Snapshot, control, result, history
<1>16. ASSUME NEW t \in Threads, ReadReason(t) PROVE LateIsLast'
  BY <1>16 DEF ReadReason, control, result, history
<1>17. ASSUME NEW t \in Threads, WriteReason(t) PROVE LateIsLast'
  BY <1>17 DEF WriteReason, control, result, history
<1>18. ASSUME NEW t \in Threads, Post(t) PROVE LateIsLast'
  BY <1>18 DEF Post, control, result, history
<1> QED
  BY <1>1, <1>2, <1>3, <1>4, <1>5, <1>6, <1>7, <1>8, <1>9, <1>10, <1>11, <1>12, <1>13,
     <1>14, <1>15, <1>16, <1>17, <1>18 DEF Next, Compute, Cancel

\* A reason is written by a cancel that was counted, or by the clock.
LEMMA ReasonNext == TypeOK /\ ReasonHasCause /\ [Next]_vars => ReasonHasCause'
<1> SUFFICES ASSUME TypeOK, ReasonHasCause, [Next]_vars PROVE ReasonHasCause'
  OBVIOUS
<1> USE ControlAssumption DEF TypeOK, ReasonHasCause, CauseOf, Reasons
<1>1. CASE UNCHANGED vars
  BY <1>1 DEF vars, control, result, history
<1>2. CASE Start
  BY <1>2 DEF Start, control, result, history
<1>3. CASE MakeTask
  BY <1>3 DEF MakeTask, control, result, history
<1>4. CASE CheckStopped
  BY <1>4 DEF CheckStopped, Unwind, StopError, control, result, history
<1>5. CASE Begin
  BY <1>5 DEF Begin, control, result, history
<1>6. CASE Done
  BY <1>6 DEF Done, Unwind, control, result, history
<1>7. CASE Return
  BY <1>7 DEF Return, control, result, history
<1>8. CASE Deliver
  BY <1>8 DEF Deliver, Unwind, StopError, LoopIsFree, Awaits, control, result, history
<1>9. CASE TimerFires
  BY <1>9 DEF TimerFires, LoopIsFree, Awaits, control, result, history
<1>10. CASE EnterLoop
  BY <1>10 DEF EnterLoop, control, result, history
<1>11. CASE Finish
  BY <1>11 DEF Finish, control, result, history
<1>12. CASE TimePasses
  BY <1>12 DEF TimePasses, control, result, history
<1>13. CASE Swallow
  BY <1>13 DEF Swallow, control, result, history
<1>14. CASE CallerCancels
  BY <1>14 DEF CallerCancels, Unwind, StopError, Cancelled, Awaits, control, result, history
<1>15. ASSUME NEW t \in Threads, Snapshot(t) PROVE ReasonHasCause'
  BY <1>15 DEF Snapshot, control, result, history
<1>16. ASSUME NEW t \in Threads, ReadReason(t) PROVE ReasonHasCause'
  BY <1>16 DEF ReadReason, control, result, history
<1>17. ASSUME NEW t \in Threads, WriteReason(t) PROVE ReasonHasCause'
  BY <1>17 DEF WriteReason, control, result, history
<1>18. ASSUME NEW t \in Threads, Post(t) PROVE ReasonHasCause'
  BY <1>18 DEF Post, control, result, history
<1> QED
  BY <1>1, <1>2, <1>3, <1>4, <1>5, <1>6, <1>7, <1>8, <1>9, <1>10, <1>11, <1>12, <1>13,
     <1>14, <1>15, <1>16, <1>17, <1>18 DEF Next, Compute, Cancel

\* The work ends by itself, by its caller, or for the reason that was set.
LEMMA EndNext == TypeOK /\ ReasonHasCause /\ EndHasCause /\ [Next]_vars => EndHasCause'
<1> SUFFICES ASSUME TypeOK, ReasonHasCause, EndHasCause, [Next]_vars PROVE EndHasCause'
  OBVIOUS
<1> USE ControlAssumption DEF TypeOK, ReasonHasCause, EndHasCause, CauseOf, Reasons, Ends
<1>1. CASE UNCHANGED vars
  BY <1>1 DEF vars, control, result, history
<1>2. CASE Start
  BY <1>2 DEF Start, control, result, history
<1>3. CASE MakeTask
  BY <1>3 DEF MakeTask, control, result, history
<1>4. CASE CheckStopped
  BY <1>4 DEF CheckStopped, Unwind, StopError, control, result, history
<1>5. CASE Begin
  BY <1>5 DEF Begin, control, result, history
<1>6. CASE Done
  BY <1>6 DEF Done, Unwind, control, result, history
<1>7. CASE Return
  BY <1>7 DEF Return, control, result, history
<1>8. CASE Deliver
  BY <1>8 DEF Deliver, Unwind, StopError, LoopIsFree, Awaits, control, result, history
<1>9. CASE TimerFires
  BY <1>9 DEF TimerFires, LoopIsFree, Awaits, control, result, history
<1>10. CASE EnterLoop
  BY <1>10 DEF EnterLoop, control, result, history
<1>11. CASE Finish
  BY <1>11 DEF Finish, control, result, history
<1>12. CASE TimePasses
  BY <1>12 DEF TimePasses, control, result, history
<1>13. CASE Swallow
  BY <1>13 DEF Swallow, control, result, history
<1>14. CASE CallerCancels
  BY <1>14 DEF CallerCancels, Unwind, StopError, Cancelled, Awaits, control, result, history
<1>15. ASSUME NEW t \in Threads, Snapshot(t) PROVE EndHasCause'
  BY <1>15 DEF Snapshot, control, result, history
<1>16. ASSUME NEW t \in Threads, ReadReason(t) PROVE EndHasCause'
  BY <1>16 DEF ReadReason, control, result, history
<1>17. ASSUME NEW t \in Threads, WriteReason(t) PROVE EndHasCause'
  BY <1>17 DEF WriteReason, control, result, history
<1>18. ASSUME NEW t \in Threads, Post(t) PROVE EndHasCause'
  BY <1>18 DEF Post, control, result, history
<1> QED
  BY <1>1, <1>2, <1>3, <1>4, <1>5, <1>6, <1>7, <1>8, <1>9, <1>10, <1>11, <1>12, <1>13,
     <1>14, <1>15, <1>16, <1>17, <1>18 DEF Next, Compute, Cancel
\* A set with one element, of three, is one of three sets.
LEMMA OneCause ==
    ASSUME NEW C \in SUBSET {"cancel", "timeout", "caller"}, Cardinality(C) = 1
    PROVE  C \in {{"cancel"}, {"timeout"}, {"caller"}}
<1>1. IsFiniteSet({} \cup {"cancel"})
  BY FS_EmptySet, FS_AddElement
<1>2. IsFiniteSet({} \cup {"cancel"} \cup {"timeout"} \cup {"caller"})
  BY <1>1, FS_AddElement
<1>3. IsFiniteSet(C)
  <2>1. C \in SUBSET ({} \cup {"cancel"} \cup {"timeout"} \cup {"caller"})
    OBVIOUS
  <2> QED BY <1>2, <2>1, FS_Subset
<1>4. PICK x : C = {x}
  BY <1>3, FS_Singleton
<1> QED BY <1>4

\* The caller and the marker are told what the causes allow, when the run returns; after
\* that neither changes, nor do the causes.
LEMMA ToldNext == Inv /\ [Next]_vars => StopIsTold'
<1> SUFFICES ASSUME Inv, [Next]_vars PROVE StopIsTold'
  OBVIOUS
<1> USE DEF Inv
<1>1. CASE Return
  <2>1. pc = "unwound" /\ outcome' = Outcome /\ causes' = causes /\ marker' = marker
    BY <1>1 DEF Return, history
  <2>2. Cardinality(causes) = 1 /\ Outcome \in Reasons => marker = Outcome
    BY <2>1, OneCause, Outcomes, ControlAssumption
       DEF TypeOK, EndHasCause, ReasonHasCause, CauseOf, Cancelled, Reasons, Ends
  <2>3. /\ causes = {} => Outcome = "completed"
        /\ causes = {"cancel"} => Outcome \in {"completed", "cancelled"}
        /\ causes = {"timeout"} => Outcome \in {"completed", "timeout"}
        /\ causes = {"caller"} => Outcome \in {"completed", "propagated"}
    BY <2>1, Outcomes, ControlAssumption
       DEF TypeOK, EndHasCause, ReasonHasCause, CauseOf, Cancelled, Reasons, Ends
  <2> QED BY <2>1, <2>2, <2>3 DEF StopIsTold
<1>2. CASE CallerCancels
  <2>1. "caller" \in causes'
    BY <1>2 DEF CallerCancels
  <2>2. pc' = "over" =>
          /\ outcome' = Cancelled /\ marker' = marker /\ pc = "unwound"
          /\ reason' = reason /\ causes' = causes \cup {"caller"}
    BY <1>2 DEF CallerCancels, Unwind
  <2>3. causes' \subseteq {"cancel", "timeout", "caller"}
    BY <1>2 DEF CallerCancels, TypeOK
  <2>4. pc' = "over" /\ causes' = {"caller"} => outcome' = "propagated"
    BY <2>2, ControlAssumption DEF Cancelled, ReasonHasCause, TypeOK, CauseOf
  <2>5. Cardinality(causes') = 1 => causes' = {"caller"}
    BY <2>1, <2>3, OneCause
  <2> QED BY <2>1, <2>2, <2>4, <2>5 DEF StopIsTold, Reasons
<1>3. CASE ~Return /\ ~CallerCancels
  <2>1. pc' = "over" => pc = "over"
    BY <1>3 DEF Next, Compute, Cancel, vars, control, result, history, Start, MakeTask,
       CheckStopped, Begin, Done, Deliver, TimerFires, EnterLoop, Finish, TimePasses, Swallow,
       Snapshot, ReadReason, WriteReason, Post, Unwind
  <2>2. pc = "over" => UNCHANGED <<causes, outcome, marker>>
    BY <1>3 DEF Next, Compute, Cancel, vars, control, result, history, Start, MakeTask,
       CheckStopped, Begin, Done, Deliver, TimerFires, EnterLoop, Finish, TimePasses, Swallow,
       Snapshot, ReadReason, WriteReason, Post, Unwind, LoopIsFree, Awaits, TypeOK
  <2> QED BY <2>1, <2>2 DEF StopIsTold
<1> QED BY <1>1, <1>2, <1>3

----------------------------------------------------------------------------
(* The theorems *)

\* The five parts together are inductive.
LEMMA Invariance == Spec => []Inv
<1>1. Inv /\ [Next]_vars => Inv'
  BY TypeNext, LateNext, ReasonNext, EndNext, ToldNext DEF Inv
<1> QED BY InitInv, <1>1, PTL DEF Spec

\* Every variable of a run under control holds what the code can put there.
THEOREM ControlTypeCorrect == Spec => []TypeOK
<1>1. Inv => TypeOK
  BY DEF Inv
<1> QED BY Invariance, <1>1, PTL

\* After a cancel, a timeout or both, from however many threads, at most one more model or
\* tool call begins (check_stopped in the loops of agent/executor.py).
THEOREM StopsLandAtTheNextStep == Spec => []StopsAtNextStep
<1>1. Inv => StopsAtNextStep
  BY DEF Inv, LateIsLast, StopsAtNextStep
<1> QED BY Invariance, <1>1, PTL

\* What one cause did to a run is what its caller and its failed marker are told
\* (controlled in agent/run_control.py, stop_of in agent/executor.py).
THEOREM StopsAreTold == Spec => []StopIsTold
<1>1. Inv => StopIsTold
  BY DEF Inv
<1> QED BY Invariance, <1>1, PTL
=============================================================================
