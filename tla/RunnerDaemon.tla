---------------------------- MODULE RunnerDaemon ----------------------------
(***************************************************************************)
(* A registered runner: the daemon that polls the plane for commands, runs *)
(* each as a task under a semaphore, reports it, and on a stop drains and  *)
(* says "stopping".                                                        *)
(*                                                                         *)
(* The daemon is one event loop: an action is what one task does between   *)
(* two awaits.  The plane is external, modelled from what channel.py says  *)
(* of it: it knows a runner by its registration, which lapses when its     *)
(* heartbeats stop, and it queues again what it gave a runner that lapsed  *)
(* or said "stopping".  Other runners serve the same queue.                *)
(*                                                                         *)
(* Left out: labels, what a command does, the count active_jobs, traces,   *)
(* backoff (a failed registration or heartbeat is tried again).            *)
(***************************************************************************)
EXTENDS Naturals, FiniteSets

CONSTANTS
    Commands,   \* the commands the plane has for its runners
    Slots,      \* --max-concurrency
    MaxFaults   \* bound: lapses under a running daemon, failed requests, kills

ASSUME RunnerAssumption ==
    /\ IsFiniteSet(Commands) /\ Slots \in Nat \ {0} /\ MaxFaults \in Nat

VARIABLES
    main,     \* run(): where it is, the commands it still has to start, and whether
              \* its poll went out under a registration that was replaced since
    beat,     \* the task of _heartbeat_loop
    stop,     \* _stop is set
    free,     \* the value of the semaphore
    jobs,     \* the tasks of _run_command
    \* the plane
    known,    \* it knows the registration the daemon uses now
    order,    \* what it thinks of each command
    faults,
    \* history, read by no action
    verdict,  \* what was reported of it
    lapsed,   \* a registration lapsed while the daemon lived
    unheard   \* commands of which an answer was lost: the poll's, or a report's

daemon == <<main, beat, stop, free, jobs>>
plane == <<known, order>>
history == <<verdict, lapsed, unheard>>
vars == <<daemon, plane, faults, history>>

----------------------------------------------------------------------------

\* "given" to the registration in use, or to one it replaced ("stale").
Order == {"queued", "given", "stale", "elsewhere", "done"}
Job == [cmd : Commands, copy : 1..Slots, phase : {"run", "report", "failed"}]

Fault == faults < MaxFaults /\ faults' = faults + 1
Hand(S, to) == order' = [c \in Commands |-> IF c \in S THEN to ELSE order[c]]
Having(status) == {c \in Commands : order[c] = status}

\* Tells the jobs of one command apart.
Copy(c) == CHOOSE n \in 1..Slots : \A j \in jobs : j.cmd = c => j.copy # n

\* The head of the poll loop.
Head == [pc |-> IF stop THEN "drain" ELSE "poll", old |-> FALSE, batch |-> {}]

\* Broken variant: what finds no slot is dropped.
StartAndDrop(S) ==
    /\ main' = Head
    /\ \E T \in SUBSET S :
         /\ Cardinality(T) <= free /\ (T = S \/ Cardinality(T) = free)
         /\ free' = free - Cardinality(T)
         /\ jobs' = jobs \cup {[cmd |-> c, copy |-> Copy(c), phase |-> "run"] : c \in T}

\* Broken variant: a stop behind the semaphore keeps the slot it acquired.
StartHolding(S) ==
    \/ /\ stop /\ free > 0 /\ S # {}
       /\ main' = Head
       /\ free' = free - 1
       /\ UNCHANGED jobs
    \/ /\ ~(stop /\ free > 0 /\ S # {})
       /\ \E T \in SUBSET S :
            /\ Cardinality(T) <= free /\ (T = S \/ Cardinality(T) = free)
            /\ main' = IF T = S THEN Head ELSE [pc |-> "slot", old |-> FALSE, batch |-> S \ T]
            /\ free' = free - Cardinality(T)
            /\ jobs' = jobs \cup {[cmd |-> c, copy |-> Copy(c), phase |-> "run"] : c \in T}

\* The for loop over polled commands, up to the point where it must wait for a slot.
\* Acquiring a free slot does not yield, so a stop cannot come in between.
Start(S) ==
    \/ /\ stop /\ free > 0 /\ S # {}
       /\ main' = Head
       /\ UNCHANGED <<free, jobs>>
    \/ /\ ~(stop /\ free > 0 /\ S # {})
       /\ \E T \in SUBSET S :
            /\ Cardinality(T) <= free /\ (T = S \/ Cardinality(T) = free)
            /\ main' = IF T = S THEN Head ELSE [pc |-> "slot", old |-> FALSE, batch |-> S \ T]
            /\ free' = free - Cardinality(T)
            /\ jobs' = jobs \cup {[cmd |-> c, copy |-> Copy(c), phase |-> "run"] : c \in T}

----------------------------------------------------------------------------
(* run and _poll_loop *)

\* The plane mints a registration and the daemon adopts it; what the one before was
\* given is reported under the new one.
Adopt ==
    /\ known' = TRUE
    /\ Hand(Having("given"), "stale")

\* _register_with_retry, from run or behind a poll that lost its registration.
Register ==
    /\ main.pc = "register"
    /\ Adopt
    /\ main' = Head
    /\ beat' = IF beat = "off" THEN "beat" ELSE beat
    /\ UNCHANGED <<stop, free, jobs, faults, history>>

\* A stop ends the attempts.
GiveUpRegistering ==
    /\ main.pc = "register" /\ stop
    /\ main' = Head
    /\ beat' = IF beat = "off" THEN "over" ELSE beat
    /\ UNCHANGED <<stop, free, jobs, plane, faults, history>>

\* A long poll returns: with commands if there are any.
Poll ==
    /\ main.pc = "poll" /\ (main.old \/ known)
    /\ \E S \in SUBSET Having("queued") :
         /\ S = {} => Having("queued") = {}
         /\ Hand(S, IF main.old THEN "stale" ELSE "given")
         /\ Start(S)
    /\ UNCHANGED <<beat, stop, known, faults, verdict, lapsed, unheard>>

\* Its answer is lost, though the plane gave the commands away.
LosePoll ==
    /\ main.pc = "poll" /\ ~main.old /\ known
    /\ Fault
    /\ \E S \in SUBSET Having("queued") :
         /\ Hand(S, "given")
         /\ unheard' = unheard \cup S
    /\ main' = Head
    /\ UNCHANGED <<beat, stop, free, jobs, known, verdict, lapsed>>

\* 401 or 404: RunnerAuthError.
PollUnknown ==
    /\ main.pc = "poll" /\ (main.old \/ ~known)
    /\ main' = [main EXCEPT !.pc = "register", !.old = FALSE]
    /\ UNCHANGED <<beat, stop, free, jobs, plane, faults, history>>

\* The semaphore lets the loop go on.
GetSlot ==
    /\ main.pc = "slot" /\ free > 0
    /\ Start(main.batch)
    /\ UNCHANGED <<beat, stop, plane, faults, verdict, lapsed, unheard>>

\* _drain, when everything in flight has ended.
Drained ==
    /\ main.pc = "drain" /\ jobs = {}
    /\ main' = [main EXCEPT !.pc = "bye"]
    /\ UNCHANGED <<beat, stop, free, jobs, plane, faults, history>>

\* Broken variant: the jobs that are not done in time go on.
AbandonDrain ==
    /\ main.pc = "drain" /\ jobs # {}
    /\ main' = [main EXCEPT !.pc = "bye"]
    /\ UNCHANGED <<beat, stop, free, jobs, plane, faults, history>>

\* Broken variant: the drain has no timeout.
DrainForever == main.pc = "drain" /\ jobs # {} /\ UNCHANGED vars

\* Its timeout: wait_for cancels the gather, which cancels every job and waits for it.  A
\* cancelled job reports nothing.
DrainTimeout ==
    /\ main.pc = "drain" /\ jobs # {}
    /\ main' = [main EXCEPT !.pc = "bye"]
    /\ jobs' = {}
    /\ free' = free + Cardinality(jobs)
    /\ UNCHANGED <<beat, stop, plane, faults, history>>

\* The final heartbeat, "stopping"; then the heartbeat task is cancelled.
SayStopping ==
    /\ main.pc = "bye"
    /\ known' = FALSE
    /\ Hand(IF known THEN Having("given") ELSE {}, "queued")
    /\ main' = [main EXCEPT !.pc = "done"]
    /\ beat' = "over"
    /\ UNCHANGED <<stop, free, jobs, faults, history>>

\* It fails, which is logged.
FailStopping ==
    /\ main.pc = "bye"
    /\ Fault
    /\ main' = [main EXCEPT !.pc = "done"]
    /\ beat' = "over"
    /\ UNCHANGED <<stop, free, jobs, plane, history>>

----------------------------------------------------------------------------
(* _heartbeat_loop: a heartbeat that goes well changes nothing here *)

BeatUnknown ==
    /\ beat = "beat" /\ ~known
    /\ beat' = "register"
    /\ UNCHANGED <<main, stop, free, jobs, plane, faults, history>>

BeatRegister ==
    /\ beat = "register"
    /\ Adopt
    /\ beat' = "beat"
    /\ main' = [main EXCEPT !.old = (main.pc = "poll")]
    /\ UNCHANGED <<stop, free, jobs, faults, history>>

BeatEnd ==
    /\ beat \in {"beat", "register"} /\ stop
    /\ beat' = "over"
    /\ UNCHANGED <<main, stop, free, jobs, plane, faults, history>>

\* request_stop, from the signal handler.
RequestStop ==
    /\ ~stop /\ main.pc # "done"
    /\ stop' = TRUE
    /\ UNCHANGED <<main, beat, free, jobs, plane, faults, history>>

----------------------------------------------------------------------------
(* _run_command *)

\* The task ends and its done callback releases the slot.
End(j) == jobs' = jobs \ {j} /\ free' = free + 1

Turn(j, phase) == jobs' = (jobs \ {j}) \cup {[j EXCEPT !.phase = phase]}

\* The executor returns (it does not raise) and the traces are flushed.
Execute(j) ==
    /\ j.phase = "run"
    /\ Turn(j, "report")
    /\ UNCHANGED <<main, beat, stop, free, plane, faults, history>>

\* The plane takes a report from any registration it knows.
Take(j) ==
    /\ order' = [order EXCEPT ![j.cmd] = IF @ = "elsewhere" THEN @ ELSE "done"]
    /\ verdict' = [verdict EXCEPT ![j.cmd] =
                     @ \cup {IF j.phase = "report" THEN "result" ELSE "failed"}]

\* Broken variant: the report of a failure is sent in any case.
ReportAndFail(j) ==
    /\ j.phase \in {"report", "failed"} /\ known
    /\ Take(j)
    /\ IF j.phase = "report" THEN Turn(j, "failed") /\ UNCHANGED free ELSE End(j)
    /\ UNCHANGED <<main, beat, stop, known, faults, lapsed, unheard>>

\* report_result: the result, or behind a report that raised, "runner internal error".
Report(j) ==
    /\ j.phase \in {"report", "failed"} /\ known
    /\ Take(j)
    /\ End(j)
    /\ UNCHANGED <<main, beat, stop, known, faults, lapsed, unheard>>

\* A report that raises is followed by the other one; if that raises too, by nothing.
Raise(j) == IF j.phase = "report" THEN Turn(j, "failed") /\ UNCHANGED free ELSE End(j)

\* The plane does not know the registration.
ReportUnknown(j) ==
    /\ j.phase \in {"report", "failed"} /\ ~known
    /\ Raise(j)
    /\ UNCHANGED <<main, beat, stop, plane, faults, history>>

\* The request fails, or its answer is lost.
LoseReport(j) ==
    /\ j.phase \in {"report", "failed"} /\ known
    /\ Fault
    /\ Raise(j)
    /\ Take(j) \/ UNCHANGED <<order, verdict>>
    /\ unheard' = unheard \cup {j.cmd}
    /\ UNCHANGED <<main, beat, stop, known, lapsed>>

----------------------------------------------------------------------------
(* The plane, and the end of the process *)

\* A registration lapses: heartbeats that do not get through; that are not sent, from the
\* stop to the end of the drain; of a daemon that is gone.
Lapse ==
    /\ known
    /\ \/ Fault
       \/ (stop \/ main.pc = "done") /\ UNCHANGED faults
    /\ known' = FALSE
    /\ Hand(Having("given"), "queued")
    /\ lapsed' = (lapsed \/ main.pc # "done")
    /\ UNCHANGED <<daemon, verdict, unheard>>

\* The registrations that were replaced lapse.
LapseStale ==
    /\ Having("stale") # {}
    /\ Hand(Having("stale"), "queued")
    /\ UNCHANGED <<daemon, known, faults, history>>

OtherTakes(c) ==
    /\ order[c] = "queued"
    /\ order' = [order EXCEPT ![c] = "elsewhere"]
    /\ UNCHANGED <<daemon, known, faults, history>>

OtherReports(c) ==
    /\ order[c] = "elsewhere"
    /\ order' = [order EXCEPT ![c] = "done"]
    /\ UNCHANGED <<daemon, known, faults, history>>

Kill ==
    /\ main.pc # "done"
    /\ Fault
    /\ main' = [main EXCEPT !.pc = "done", !.batch = {}]
    /\ beat' = "over" /\ jobs' = {} /\ free' = Slots
    /\ UNCHANGED <<stop, plane, history>>

----------------------------------------------------------------------------

Init ==
    /\ main = [pc |-> "register", old |-> FALSE, batch |-> {}]
    /\ beat = "off" /\ stop = FALSE /\ free = Slots /\ jobs = {}
    /\ known = FALSE /\ order = [c \in Commands |-> "queued"] /\ faults = 0
    /\ verdict = [c \in Commands |-> {}]
    /\ lapsed = FALSE /\ unheard = {}

Main == Register \/ GiveUpRegistering \/ Poll \/ PollUnknown \/ GetSlot
        \/ Drained \/ SayStopping
Beat == BeatUnknown \/ BeatRegister \/ BeatEnd
Reporting == \E j \in jobs : Report(j) \/ ReportUnknown(j)

Next ==
    \/ Main \/ Beat \/ RequestStop \/ DrainTimeout
    \/ LosePoll \/ FailStopping \/ Lapse \/ LapseStale \/ Kill
    \/ \E j \in jobs : Execute(j) \/ Report(j) \/ ReportUnknown(j) \/ LoseReport(j)
    \/ \E c \in Commands : OtherTakes(c) \/ OtherReports(c)

Spec == Init /\ [][Next]_vars

\* Every task that is ready runs, every request ends (they all have a timeout), a drain
\* times out, and registrations without a heartbeat lapse.  Nothing is assumed of the
\* jobs: nothing in the daemon bounds how long the executor of one may take.
FairSpec ==
    /\ Spec
    /\ WF_vars(Main) /\ WF_vars(DrainTimeout) /\ WF_vars(Beat) /\ WF_vars(Reporting)
    /\ WF_vars(LapseStale) /\ WF_vars(Lapse /\ main.pc = "done")

----------------------------------------------------------------------------
(* Properties *)

\* Every variable holds what the code can put there, and the slots are accounted for.
TypeOK ==
    /\ main \in [pc : {"register", "poll", "slot", "drain", "bye", "done"},
                 old : BOOLEAN, batch : SUBSET Commands]
    /\ beat \in {"off", "beat", "register", "over"} /\ stop \in BOOLEAN
    /\ jobs \subseteq Job /\ free \in 0..Slots /\ free + Cardinality(jobs) = Slots
    /\ known \in BOOLEAN /\ order \in [Commands -> Order] /\ faults \in 0..MaxFaults
    /\ verdict \in [Commands -> SUBSET {"result", "failed"}]
    /\ lapsed \in BOOLEAN /\ unheard \subseteq Commands

\* While no registration lapsed, nobody else is at a command this daemon is running, and
\* it runs it in one job: what is queued again at "stopping" is at rest here.
OneAtATime ==
    ~lapsed => /\ \A j \in jobs : order[j.cmd] # "elsewhere"
               /\ \A i, j \in jobs : i.cmd = j.cmd => i = j

\* What the plane heard of a command is not taken back: no failure is reported of a result
\* that arrived, unless an answer was lost or the command was run again.
OneVerdict == \A c \in Commands \ unheard : ~lapsed => Cardinality(verdict[c]) <= 1

\* The executors return, which is up to what they run.
JobsEnd == WF_vars(\E j \in jobs : Execute(j))

\* What was given out comes to an end: reported, or queued again; but for what was lost
\* on the way, and as long as jobs end.
GivenIsSettled ==
    JobsEnd => \A c \in Commands :
                 order[c] = "given" ~> order[c] # "given" \/ c \in unheard

\* The poll loop waits for a slot, and an executor is at work in each of them.
HeldUp == main.pc = "slot" /\ Cardinality({j \in jobs : j.phase = "run"}) = Slots

\* A stop ends the daemon, also one whose jobs never end: the drain gives up on them.  Only
\* a poll loop that has a command in hand and waits for a slot is not woken by the stop,
\* and is held up for as long as every slot has a job at work.
StopEnds == []<>~HeldUp => (stop ~> main.pc = "done")
=============================================================================
