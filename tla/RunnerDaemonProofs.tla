------------------------- MODULE RunnerDaemonProofs -------------------------
(***************************************************************************)
(* What a runner promises, for every set of commands, any concurrency and  *)
(* any number of faults: its slots are accounted for, and as long as no    *)
(* registration lapsed a command is run in one job, by nobody else, and    *)
(* reported once.                                                          *)
(*                                                                         *)
(* None of this is inductive on its own.  The slots add up only because    *)
(* two jobs of one command never coincide; a command is run once only      *)
(* because a registration is minted once, so that nothing becomes stale    *)
(* and comes back while a job has it; and it is reported once because what *)
(* was reported is never at a job again.                                   *)
(***************************************************************************)
EXTENDS RunnerDaemon, FiniteSetTheorems, TLAPS

\* Two jobs of one command are told apart, and there are finitely many.
CopiesDiffer ==
    /\ IsFiniteSet(jobs)
    /\ \A i, j \in jobs : i.cmd = j.cmd /\ i.copy = j.copy => i = j

\* Commands wait only for a slot, and nothing runs once the drain is over.
LoopAtRest ==
    /\ main.pc # "slot" => main.batch = {}
    /\ main.pc \in {"bye", "done"} => jobs = {}
    /\ main.pc = "done" => beat = "over"

\* While no registration lapsed, the daemon registered once at most: the plane knows it
\* wherever it polls, runs or beats, and has nothing down as given to an earlier one.
RegisteredOnce ==
    ~lapsed => /\ ~main.old /\ beat # "register"
               /\ beat = "off" <=> main.pc = "register"
               /\ beat = "off" => ~known
               /\ beat = "beat" \/ main.pc \in {"poll", "slot"} => known
               /\ ~known => jobs = {}
               /\ \A c \in Commands : order[c] # "stale" /\ (order[c] = "given" => known)

\* Then a command that waits or runs here is down as given, or has been reported, and no
\* two jobs have it.
HeldHere ==
    ~lapsed => /\ \A c \in main.batch : order[c] = "given"
               /\ \A j \in jobs : order[j.cmd] \in {"given", "done"} /\ j.cmd \notin main.batch
               /\ \A i, j \in jobs : i.cmd = j.cmd => i = j

\* What was reported, and was not lost on the way, is not at a job any more.
ReportedIsOver ==
    \A c \in Commands \ unheard :
      ~lapsed /\ verdict[c] # {} => /\ order[c] = "done" /\ \A j \in jobs : j.cmd # c
                                    /\ \E v \in {"result", "failed"} : verdict[c] = {v}

Inv == TypeOK /\ CopiesDiffer /\ LoopAtRest /\ RegisteredOnce /\ HeldHere /\ ReportedIsOver
----------------------------------------------------------------------------
(* Starting jobs *)

\* The job that a command gets.
NewJob(c) == [cmd |-> c, copy |-> Copy(c), phase |-> "run"]
NewJobs(T) == {NewJob(c) : c \in T}

\* With a slot free there is a copy number that no job of the command has: the jobs that
\* have one are fewer than the slots.
LEMMA CopyIsFresh ==
    ASSUME TypeOK, CopiesDiffer, free > 0, NEW c \in Commands
    PROVE  Copy(c) \in 1..Slots /\ \A j \in jobs : j.cmd = c => j.copy # Copy(c)
<1> DEFINE Free(n) == \A j \in jobs : j.cmd = c => j.copy # n
<1>1. \E n \in 1..Slots : Free(n)
  <2> SUFFICES ASSUME \A n \in 1..Slots : ~Free(n) PROVE FALSE
    OBVIOUS
  <2> DEFINE Holder(n) == CHOOSE j \in jobs : j.cmd = c /\ j.copy = n
             f == [n \in 1..Slots |-> Holder(n)]
  <2>1. \A n \in 1..Slots : Holder(n) \in jobs /\ Holder(n).copy = n
    OBVIOUS
  <2> HIDE DEF Holder
  <2>2. f \in Injection(1..Slots, jobs)
    BY <2>1 DEF Injection, IsInjective
  <2>3. Cardinality(1..Slots) = Slots
    BY RunnerAssumption, FS_Interval
  <2>4. Cardinality(1..Slots) <= Cardinality(jobs)
    BY <2>2, FS_Injection DEF CopiesDiffer
  <2>5. Cardinality(jobs) \in Nat /\ free \in Nat /\ Slots \in Nat
    BY FS_CardinalityType, RunnerAssumption DEF CopiesDiffer, TypeOK
  <2> QED BY <2>3, <2>4, <2>5 DEF TypeOK
<1>2. Copy(c) = CHOOSE n \in 1..Slots : Free(n)
  BY DEF Copy
<1> HIDE DEF Free
<1>3. Copy(c) \in 1..Slots /\ Free(Copy(c))
  BY <1>1, <1>2
<1> QED BY <1>3 DEF Free

\* As many jobs start as commands, and each is new.
LEMMA JobsAreNew ==
    ASSUME TypeOK, CopiesDiffer, NEW T \in SUBSET Commands, Cardinality(T) <= free
    PROVE  /\ Cardinality(T) \in Nat
           /\ NewJobs(T) \subseteq Job
           /\ IsFiniteSet(jobs \cup NewJobs(T))
           /\ Cardinality(jobs \cup NewJobs(T)) = Cardinality(jobs) + Cardinality(T)
           /\ \A i, j \in jobs \cup NewJobs(T) : i.cmd = j.cmd /\ i.copy = j.copy => i = j
<1>1. IsFiniteSet(T) /\ Cardinality(T) \in Nat /\ Cardinality(jobs) \in Nat /\ free \in Nat
  BY RunnerAssumption, FS_Subset, FS_CardinalityType DEF CopiesDiffer, TypeOK
<1>2. T # {} => free > 0
  BY <1>1, FS_EmptySet
<1>3. \A c \in T : /\ Copy(c) \in 1..Slots
                   /\ \A j \in jobs : j.cmd = c => j.copy # Copy(c)
  BY <1>2, CopyIsFresh
<1>4. \A c \in T : /\ NewJob(c) \in Job /\ NewJob(c) \notin jobs
                   /\ NewJob(c).cmd = c /\ NewJob(c).copy = Copy(c)
  BY <1>3 DEF NewJob, Job
<1>5. IsFiniteSet(NewJobs(T)) /\ Cardinality(NewJobs(T)) = Cardinality(T)
  <2> DEFINE f == [c \in T |-> NewJob(c)]
  <2>1. f \in Surjection(T, NewJobs(T)) /\ f \in Injection(T, NewJobs(T))
    BY <1>4 DEF NewJobs, Surjection, Injection, IsInjective
  <2> QED BY <1>1, <2>1, FS_Surjection
<1>6. jobs \cap NewJobs(T) = {}
  BY <1>4 DEF NewJobs
<1>7. Cardinality(jobs \cap NewJobs(T)) = 0
  BY <1>6, FS_EmptySet
<1>8. /\ IsFiniteSet(jobs \cup NewJobs(T))
      /\ Cardinality(jobs \cup NewJobs(T)) = Cardinality(jobs) + Cardinality(T)
  BY <1>1, <1>5, <1>7, FS_Union DEF CopiesDiffer
<1>9. \A i, j \in jobs \cup NewJobs(T) : i.cmd = j.cmd /\ i.copy = j.copy => i = j
  BY <1>3, <1>4 DEF NewJobs, CopiesDiffer
<1> QED BY <1>1, <1>4, <1>8, <1>9 DEF NewJobs

\* What the loop over polled commands does: some start, the rest wait or are dropped.
LEMMA StartDoes ==
    ASSUME TypeOK, CopiesDiffer, NEW S \in SUBSET Commands, Start(S)
    PROVE  /\ main' \in [pc : {"poll", "drain", "slot"}, old : {FALSE}, batch : SUBSET S]
           /\ main'.pc # "slot" => main'.batch = {}
           /\ jobs' \subseteq Job /\ IsFiniteSet(jobs')
           /\ free' \in 0..Slots /\ free' + Cardinality(jobs') = Slots
           /\ \A i, j \in jobs' : i.cmd = j.cmd /\ i.copy = j.copy => i = j
           /\ \A j \in jobs' : j \in jobs \/ j.cmd \in S \ main'.batch
           /\ \A i, j \in jobs' : i.cmd = j.cmd => i = j \/ i \in jobs \/ j \in jobs
<1>0. /\ Head \in [pc : {"poll", "drain"}, old : {FALSE}, batch : {{}}]
      /\ Cardinality(jobs) \in Nat /\ free \in Nat /\ Slots \in Nat
  BY FS_CardinalityType, RunnerAssumption DEF Head, CopiesDiffer, TypeOK
<1>1. CASE main' = Head /\ UNCHANGED <<free, jobs>>
  BY <1>0, <1>1 DEF TypeOK, CopiesDiffer
<1>2. ASSUME NEW T \in SUBSET S, Cardinality(T) <= free,
             main' = IF T = S THEN Head ELSE [pc |-> "slot", old |-> FALSE, batch |-> S \ T],
             free' = free - Cardinality(T), jobs' = jobs \cup NewJobs(T)
      PROVE  /\ main' \in [pc : {"poll", "drain", "slot"}, old : {FALSE}, batch : SUBSET S]
             /\ main'.pc # "slot" => main'.batch = {}
             /\ jobs' \subseteq Job /\ IsFiniteSet(jobs')
             /\ free' \in 0..Slots /\ free' + Cardinality(jobs') = Slots
             /\ \A i, j \in jobs' : i.cmd = j.cmd /\ i.copy = j.copy => i = j
             /\ \A j \in jobs' : j \in jobs \/ j.cmd \in S \ main'.batch
             /\ \A i, j \in jobs' : i.cmd = j.cmd => i = j \/ i \in jobs \/ j \in jobs
  <2>1. T \in SUBSET Commands
    BY <1>2
  <2>2. /\ Cardinality(T) \in Nat /\ NewJobs(T) \subseteq Job /\ IsFiniteSet(jobs')
        /\ Cardinality(jobs') = Cardinality(jobs) + Cardinality(T)
        /\ \A i, j \in jobs' : i.cmd = j.cmd /\ i.copy = j.copy => i = j
    BY <1>2, <2>1, JobsAreNew
  <2>3. free' \in 0..Slots /\ free' + Cardinality(jobs') = Slots
    BY <1>0, <1>2, <2>2 DEF TypeOK
  <2>4. /\ main' \in [pc : {"poll", "drain", "slot"}, old : {FALSE}, batch : SUBSET S]
        /\ main'.pc # "slot" => main'.batch = {}
        /\ main'.batch \cap T = {}
    BY <1>0, <1>2
  <2>5. \A j \in NewJobs(T) : \E c \in T : j = NewJob(c) /\ j.cmd = c
    BY DEF NewJobs, NewJob
  <2>6. \A j \in jobs' : j \in jobs \/ j.cmd \in S \ main'.batch
    BY <1>2, <2>4, <2>5
  <2>7. \A i, j \in jobs' : i.cmd = j.cmd => i = j \/ i \in jobs \/ j \in jobs
    BY <1>2, <2>5
  <2> QED BY <1>2, <2>2, <2>3, <2>4, <2>6, <2>7 DEF TypeOK
<1> QED BY <1>1, <1>2 DEF Start, NewJobs, NewJob

\* A job that goes on is the same job.
LEMMA TurnDoes ==
    ASSUME TypeOK, CopiesDiffer, NEW j \in jobs, NEW phase \in {"run", "report", "failed"},
           Turn(j, phase)
    PROVE  /\ jobs' \subseteq Job /\ IsFiniteSet(jobs')
           /\ Cardinality(jobs') = Cardinality(jobs)
           /\ \A i \in jobs' : \E k \in jobs : i.cmd = k.cmd /\ i.copy = k.copy
           /\ \A i, k \in jobs' : i.cmd = k.cmd /\ i.copy = k.copy => i = k
           /\ \A i, k \in jobs' :
                i # k => \E m, n \in jobs : m # n /\ m.cmd = i.cmd /\ n.cmd = k.cmd
<1> DEFINE new == [j EXCEPT !.phase = phase]
<1>0. jobs' = (jobs \ {j}) \cup {new}
  BY DEF Turn
<1>1. j \in Job /\ new \in Job /\ new.cmd = j.cmd /\ new.copy = j.copy
  BY DEF TypeOK, Job
<1> HIDE DEF new
<1>2. new \notin jobs \ {j}
  BY <1>1 DEF CopiesDiffer
<1>3. IsFiniteSet(jobs') /\ Cardinality(jobs') = Cardinality(jobs)
  <2>1. /\ IsFiniteSet(jobs \ {j}) /\ Cardinality(jobs \ {j}) = Cardinality(jobs) - 1
        /\ Cardinality(jobs) \in Nat
    BY FS_RemoveElement, FS_CardinalityType DEF CopiesDiffer
  <2>2. IsFiniteSet(jobs') /\ Cardinality(jobs') = Cardinality(jobs \ {j}) + 1
    BY <1>0, <1>2, <2>1, FS_AddElement
  <2> QED BY <2>1, <2>2
<1> QED BY <1>0, <1>1, <1>3 DEF TypeOK, CopiesDiffer

\* A job that ends gives its slot back.
LEMMA EndDoes ==
    ASSUME TypeOK, CopiesDiffer, NEW j \in jobs, End(j)
    PROVE  /\ jobs' = jobs \ {j} /\ IsFiniteSet(jobs')
           /\ free' \in 0..Slots /\ free' + Cardinality(jobs') = Slots
<1>1. /\ jobs' = jobs \ {j} /\ IsFiniteSet(jobs') /\ Cardinality(jobs') = Cardinality(jobs) - 1
      /\ Cardinality(jobs') \in Nat /\ Cardinality(jobs) \in Nat
  BY FS_RemoveElement, FS_CardinalityType DEF End, CopiesDiffer
<1> QED BY <1>1, RunnerAssumption DEF End, TypeOK

\* A report that is taken settles its command, unless another runner has it.
LEMMA TakeDoes ==
    ASSUME TypeOK, NEW j \in jobs, Take(j)
    PROVE  /\ order' \in [Commands -> Order]
           /\ verdict' \in [Commands -> SUBSET {"result", "failed"}]
           /\ j.cmd \in Commands
           /\ order[j.cmd] # "elsewhere" => order'[j.cmd] = "done"
           /\ verdict'[j.cmd] = verdict[j.cmd] \cup
                                  {IF j.phase = "report" THEN "result" ELSE "failed"}
           /\ \A c \in Commands : c # j.cmd => order'[c] = order[c] /\ verdict'[c] = verdict[c]
<1>1. j.cmd \in Commands
  BY DEF TypeOK, Job
<1> QED BY <1>1 DEF Take, TypeOK, Order

\* A report that raises leaves the job to the other report, or ends it.
LEMMA RaiseDoes ==
    ASSUME TypeOK, CopiesDiffer, NEW j \in jobs, Raise(j)
    PROVE  /\ jobs' \subseteq Job /\ IsFiniteSet(jobs')
           /\ free' \in 0..Slots /\ free' + Cardinality(jobs') = Slots
           /\ \A i \in jobs' : \E k \in jobs : i.cmd = k.cmd /\ i.copy = k.copy
           /\ \A i, k \in jobs' : i.cmd = k.cmd /\ i.copy = k.copy => i = k
           /\ \A i, k \in jobs' :
                i # k => \E m, n \in jobs : m # n /\ m.cmd = i.cmd /\ n.cmd = k.cmd
<1>1. CASE Turn(j, "failed") /\ UNCHANGED free
  BY <1>1, TurnDoes DEF TypeOK
<1>2. CASE End(j)
  BY <1>2, EndDoes DEF TypeOK, CopiesDiffer
<1> QED BY <1>1, <1>2 DEF Raise

\* What the plane hands to somebody is theirs, and the rest stays where it is.
LEMMA HandDoes ==
    ASSUME TypeOK, NEW S, NEW to \in Order, Hand(S, to)
    PROVE  /\ order' \in [Commands -> Order]
           /\ \A c \in Commands : order'[c] = IF c \in S THEN to ELSE order[c]
BY DEF Hand, TypeOK

\* A new registration is known, and has nothing; what the one before had is stale.
LEMMA AdoptDoes ==
    ASSUME TypeOK, Adopt
    PROVE  /\ known' /\ known' \in BOOLEAN /\ order' \in [Commands -> Order]
           /\ \A c \in Commands :
                order'[c] = IF order[c] = "given" THEN "stale" ELSE order[c]
<1>1. "stale" \in Order
  BY DEF Order
<1>2. Hand(Having("given"), "stale")
  BY DEF Adopt
<1>3. /\ order' \in [Commands -> Order]
      /\ \A c \in Commands : order'[c] = IF c \in Having("given") THEN "stale" ELSE order[c]
  BY <1>1, <1>2, HandDoes
<1> QED BY <1>3 DEF Adopt, Having

\* What is queued again was given to the registration that is gone.
LEMMA RequeueDoes ==
    ASSUME TypeOK, NEW from, Hand(Having(from), "queued")
    PROVE  /\ order' \in [Commands -> Order]
           /\ \A c \in Commands :
                order'[c] = IF order[c] = from THEN "queued" ELSE order[c]
<1>1. "queued" \in Order
  BY DEF Order
<1>2. /\ order' \in [Commands -> Order]
      /\ \A c \in Commands : order'[c] = IF c \in Having(from) THEN "queued" ELSE order[c]
  BY <1>1, HandDoes
<1> QED BY <1>2 DEF Having

\* The head of the loop polls or drains, with nothing in hand.
LEMMA HeadIs ==
    Head \in [pc : {"poll", "drain"}, old : {FALSE}, batch : {{}}]
BY DEF Head

\* What a poll brings is given to the daemon, under its registration or an earlier one.
LEMMA PollDoes ==
    ASSUME TypeOK, Poll
    PROVE  \E S \in SUBSET Commands :
             /\ \A c \in S : order[c] = "queued"
             /\ order' \in [Commands -> Order]
             /\ \A c \in Commands :
                  order'[c] = IF c \in S THEN IF main.old THEN "stale" ELSE "given" ELSE order[c]
             /\ Start(S)
<1>1. PICK S \in SUBSET Having("queued") :
        Hand(S, IF main.old THEN "stale" ELSE "given") /\ Start(S)
  BY DEF Poll
<1>2. S \in SUBSET Commands /\ \A c \in S : order[c] = "queued"
  BY DEF Having
<1>3. /\ order' \in [Commands -> Order]
      /\ \A c \in Commands :
           order'[c] = IF c \in S THEN IF main.old THEN "stale" ELSE "given" ELSE order[c]
  <2>1. (IF main.old THEN "stale" ELSE "given") \in Order
    BY DEF Order
  <2> QED BY <1>1, <2>1, HandDoes
<1> QED BY <1>1, <1>2, <1>3

----------------------------------------------------------------------------
(* The inductive steps *)

\* Every action keeps the types, and the slots add up.
LEMMA TypeNext ==
    ASSUME TypeOK, CopiesDiffer, [Next]_vars
    PROVE  TypeOK' /\ CopiesDiffer'
<1>1. CASE Register
  BY <1>1, AdoptDoes, HeadIs DEF Register, TypeOK, CopiesDiffer, history
<1>2. CASE GiveUpRegistering
  BY <1>2, RunnerAssumption
  DEF GiveUpRegistering, TypeOK, CopiesDiffer, Order, Head, plane, history
<1>3. CASE Poll
  <2>1. PICK S \in SUBSET Commands :
          /\ \A c \in S : order[c] = "queued"
          /\ order' \in [Commands -> Order]
          /\ \A c \in Commands :
               order'[c] = IF c \in S THEN IF main.old THEN "stale" ELSE "given" ELSE order[c]
          /\ Start(S)
    BY <1>3, PollDoes
  <2> QED BY <1>3, <2>1, StartDoes DEF Poll, TypeOK, CopiesDiffer
<1>4. CASE PollUnknown
  BY <1>4, RunnerAssumption DEF PollUnknown, TypeOK, CopiesDiffer, Order, plane, history
<1>5. CASE GetSlot
  BY <1>5, StartDoes DEF GetSlot, TypeOK, CopiesDiffer, plane
<1>6. CASE Drained
  BY <1>6, RunnerAssumption DEF Drained, TypeOK, CopiesDiffer, Order, plane, history
<1>7. CASE SayStopping
  <2>1. /\ order' \in [Commands -> Order]
        /\ \A c \in Commands :
             order'[c] = IF known /\ order[c] = "given" THEN "queued" ELSE order[c]
    BY <1>7, HandDoes DEF SayStopping, Having, Order
  <2> QED BY <1>7, <2>1 DEF SayStopping, TypeOK, CopiesDiffer, history
<1>8. CASE BeatUnknown
  BY <1>8, RunnerAssumption DEF BeatUnknown, TypeOK, CopiesDiffer, Order, plane, history
<1>9. CASE BeatRegister
  BY <1>9, AdoptDoes DEF BeatRegister, TypeOK, CopiesDiffer, history
<1>10. CASE BeatEnd
  BY <1>10, RunnerAssumption DEF BeatEnd, TypeOK, CopiesDiffer, Order, plane, history
<1>11. CASE RequestStop
  BY <1>11, RunnerAssumption DEF RequestStop, TypeOK, CopiesDiffer, Order, plane, history
<1>12. CASE DrainTimeout
  BY <1>12, FS_EmptySet, FS_CardinalityType, RunnerAssumption
  DEF DrainTimeout, TypeOK, CopiesDiffer, Fault, plane, history
<1>13. CASE LosePoll
  <2>1. PICK S \in SUBSET Having("queued") : Hand(S, "given") /\ unheard' = unheard \cup S
    BY <1>13 DEF LosePoll
  <2>2. S \in SUBSET Commands
    BY DEF Having
  <2>3. order' \in [Commands -> Order]
    BY <2>1, HandDoes DEF Order
  <2>4. main' = Head /\ faults' \in 0..MaxFaults
    BY <1>13, RunnerAssumption DEF LosePoll, Fault, TypeOK
  <2> QED BY <1>13, <2>1, <2>2, <2>3, <2>4, HeadIs DEF LosePoll, TypeOK, CopiesDiffer
<1>14. CASE FailStopping
  BY <1>14, RunnerAssumption DEF FailStopping, TypeOK, CopiesDiffer, Order, Fault, plane, history
<1>15. CASE Lapse
  <2>1. faults' \in 0..MaxFaults
    BY <1>15, RunnerAssumption DEF Lapse, Fault, TypeOK
  <2> QED BY <1>15, <2>1, RequeueDoes DEF Lapse, daemon, TypeOK, CopiesDiffer
<1>16. CASE LapseStale
  BY <1>16, RequeueDoes DEF LapseStale, daemon, history, TypeOK, CopiesDiffer
<1>17. CASE Kill
  <2>1. faults' \in 0..MaxFaults
    BY <1>17, RunnerAssumption DEF Kill, Fault, TypeOK
  <2>2. IsFiniteSet(jobs') /\ Cardinality(jobs') = 0
    BY <1>17, FS_EmptySet DEF Kill
  <2>3. free' \in 0..Slots /\ free' + Cardinality(jobs') = Slots
    BY <1>17, <2>2, RunnerAssumption DEF Kill
  <2>4. main' = [main EXCEPT !.pc = "done", !.batch = {}] /\ beat' = "over" /\ jobs' = {}
    BY <1>17 DEF Kill
  <2> QED BY <1>17, <2>1, <2>2, <2>3, <2>4 DEF Kill, TypeOK, CopiesDiffer, plane, history
<1>18. ASSUME NEW j \in jobs, Execute(j) PROVE TypeOK' /\ CopiesDiffer'
  BY <1>18, TurnDoes DEF Execute, TypeOK, CopiesDiffer, plane, history
<1>19. ASSUME NEW j \in jobs, Report(j) PROVE TypeOK' /\ CopiesDiffer'
  BY <1>19, EndDoes, TakeDoes DEF Report, TypeOK, CopiesDiffer
<1>20. ASSUME NEW j \in jobs, ReportUnknown(j) PROVE TypeOK' /\ CopiesDiffer'
  BY <1>20, RaiseDoes DEF ReportUnknown, TypeOK, CopiesDiffer, plane, history
<1>21. ASSUME NEW j \in jobs, LoseReport(j) PROVE TypeOK' /\ CopiesDiffer'
  <2>1. faults' \in 0..MaxFaults
    BY <1>21, RunnerAssumption DEF LoseReport, Fault, TypeOK
  <2>2. j.cmd \in Commands
    BY DEF TypeOK, Job
  <2>3. /\ order' \in [Commands -> Order]
        /\ verdict' \in [Commands -> SUBSET {"result", "failed"}]
    BY <1>21, TakeDoes DEF LoseReport, TypeOK
  <2> QED BY <1>21, <2>1, <2>2, <2>3, RaiseDoes DEF LoseReport, TypeOK, CopiesDiffer
<1>22. ASSUME NEW c \in Commands, OtherTakes(c) PROVE TypeOK' /\ CopiesDiffer'
  BY <1>22, RunnerAssumption DEF OtherTakes, TypeOK, CopiesDiffer, Order, daemon, history
<1>23. ASSUME NEW c \in Commands, OtherReports(c) PROVE TypeOK' /\ CopiesDiffer'
  BY <1>23, RunnerAssumption DEF OtherReports, TypeOK, CopiesDiffer, Order, daemon, history
<1>24. CASE UNCHANGED vars
  BY <1>24 DEF TypeOK, CopiesDiffer, vars, daemon, plane, history
<1> QED BY <1>1, <1>2, <1>3, <1>4, <1>5, <1>6, <1>7, <1>8, <1>9, <1>10, <1>11, <1>12, <1>13,
           <1>14, <1>15, <1>16, <1>17, <1>18, <1>19, <1>20, <1>21, <1>22, <1>23, <1>24
        DEF Next, Main, Beat

\* The loop has commands in hand only where it waits for a slot.
LEMMA AtRestNext ==
    ASSUME TypeOK, CopiesDiffer, LoopAtRest, [Next]_vars
    PROVE  LoopAtRest'
<1>1. CASE Register
  BY <1>1 DEF Register, LoopAtRest, TypeOK, Head, history
<1>2. CASE GiveUpRegistering
  BY <1>2 DEF GiveUpRegistering, LoopAtRest, TypeOK, Head, plane, history
<1>3. CASE Poll
  <2>1. PICK S \in SUBSET Having("queued") : Start(S)
    BY <1>3 DEF Poll
  <2>2. S \in SUBSET Commands
    BY DEF Having
  <2> QED BY <1>3, <2>1, <2>2, StartDoes DEF Poll, LoopAtRest
<1>4. CASE PollUnknown
  BY <1>4 DEF PollUnknown, LoopAtRest, TypeOK, plane, history
<1>5. CASE GetSlot
  BY <1>5, StartDoes DEF GetSlot, LoopAtRest, TypeOK, plane
<1>6. CASE Drained
  BY <1>6 DEF Drained, LoopAtRest, TypeOK, plane, history
<1>7. CASE SayStopping
  BY <1>7 DEF SayStopping, LoopAtRest, TypeOK, history
<1>8. CASE BeatUnknown
  BY <1>8 DEF BeatUnknown, LoopAtRest, TypeOK, plane, history
<1>9. CASE BeatRegister
  BY <1>9 DEF BeatRegister, LoopAtRest, TypeOK, history
<1>10. CASE BeatEnd
  BY <1>10 DEF BeatEnd, LoopAtRest, TypeOK, plane, history
<1>11. CASE RequestStop
  BY <1>11 DEF RequestStop, LoopAtRest, TypeOK, plane, history
<1>12. CASE DrainTimeout
  BY <1>12 DEF DrainTimeout, LoopAtRest, TypeOK, plane, history
<1>13. CASE LosePoll
  BY <1>13 DEF LosePoll, LoopAtRest, TypeOK, Head
<1>14. CASE FailStopping
  BY <1>14 DEF FailStopping, LoopAtRest, TypeOK, plane, history
<1>15. CASE Lapse
  BY <1>15 DEF Lapse, LoopAtRest, TypeOK, daemon
<1>16. CASE LapseStale
  BY <1>16 DEF LapseStale, LoopAtRest, TypeOK, daemon, history
<1>17. CASE Kill
  BY <1>17 DEF Kill, LoopAtRest, TypeOK, plane, history
<1>18. ASSUME NEW j \in jobs, Execute(j) PROVE LoopAtRest'
  BY <1>18 DEF Execute, LoopAtRest, plane, history
<1>19. ASSUME NEW j \in jobs, Report(j) PROVE LoopAtRest'
  BY <1>19 DEF Report, LoopAtRest
<1>20. ASSUME NEW j \in jobs, ReportUnknown(j) PROVE LoopAtRest'
  BY <1>20 DEF ReportUnknown, LoopAtRest, plane, history
<1>21. ASSUME NEW j \in jobs, LoseReport(j) PROVE LoopAtRest'
  BY <1>21 DEF LoseReport, LoopAtRest
<1>22. ASSUME NEW c \in Commands, OtherTakes(c) PROVE LoopAtRest'
  BY <1>22 DEF OtherTakes, LoopAtRest, TypeOK, daemon, history
<1>23. ASSUME NEW c \in Commands, OtherReports(c) PROVE LoopAtRest'
  BY <1>23 DEF OtherReports, LoopAtRest, TypeOK, daemon, history
<1>24. CASE UNCHANGED vars
  BY <1>24 DEF LoopAtRest, vars, daemon, plane, history
<1> QED BY <1>1, <1>2, <1>3, <1>4, <1>5, <1>6, <1>7, <1>8, <1>9, <1>10, <1>11, <1>12, <1>13,
           <1>14, <1>15, <1>16, <1>17, <1>18, <1>19, <1>20, <1>21, <1>22, <1>23, <1>24
        DEF Next, Main, Beat

\* A second registration needs a lapse.
LEMMA RegisteredNext ==
    ASSUME TypeOK, CopiesDiffer, LoopAtRest, RegisteredOnce, [Next]_vars
    PROVE  RegisteredOnce'
<1>1. CASE Register
  <2>1. Head.pc \in {"poll", "drain"} /\ Head.old = FALSE
    BY DEF Head
  <2>2. ~lapsed => ~known
    BY <1>1 DEF Register, RegisteredOnce
  <2> QED BY <1>1, <2>1, <2>2, AdoptDoes DEF Register, RegisteredOnce, history
<1>2. CASE GiveUpRegistering
  BY <1>2 DEF GiveUpRegistering, RegisteredOnce, Head, plane, history
<1>3. CASE Poll
  <2>1. PICK S \in SUBSET Commands :
          /\ \A c \in S : order[c] = "queued"
          /\ order' \in [Commands -> Order]
          /\ \A c \in Commands :
               order'[c] = IF c \in S THEN IF main.old THEN "stale" ELSE "given" ELSE order[c]
          /\ Start(S)
    BY <1>3, PollDoes
  <2> QED BY <1>3, <2>1, StartDoes DEF Poll, RegisteredOnce
<1>4. CASE PollUnknown
  BY <1>4 DEF PollUnknown, RegisteredOnce, plane, history
<1>5. CASE GetSlot
  BY <1>5, StartDoes DEF GetSlot, RegisteredOnce, TypeOK, plane
<1>6. CASE Drained
  BY <1>6 DEF Drained, RegisteredOnce, plane, history
<1>7. CASE SayStopping
  <2>1. /\ order' \in [Commands -> Order]
        /\ \A c \in Commands :
             order'[c] = IF known /\ order[c] = "given" THEN "queued" ELSE order[c]
    BY <1>7, HandDoes DEF SayStopping, Having, Order
  <2> QED BY <1>7, <2>1 DEF SayStopping, RegisteredOnce, LoopAtRest, history
<1>8. CASE BeatUnknown
  BY <1>8 DEF BeatUnknown, RegisteredOnce, plane, history
<1>9. CASE BeatRegister
  BY <1>9, AdoptDoes DEF BeatRegister, RegisteredOnce, history
<1>10. CASE BeatEnd
  BY <1>10 DEF BeatEnd, RegisteredOnce, plane, history
<1>11. CASE RequestStop
  BY <1>11 DEF RequestStop, RegisteredOnce, plane, history
<1>12. CASE DrainTimeout
  BY <1>12 DEF DrainTimeout, RegisteredOnce, plane, history
<1>13. CASE LosePoll
  <2>1. PICK S \in SUBSET Having("queued") : Hand(S, "given") /\ unheard' = unheard \cup S
    BY <1>13 DEF LosePoll
  <2>2. S \in SUBSET Commands /\ \A c \in S : order[c] = "queued"
    BY DEF Having
  <2>3. /\ order' \in [Commands -> Order]
        /\ \A c \in Commands : order'[c] = IF c \in S THEN "given" ELSE order[c]
    BY <2>1, HandDoes DEF Order
  <2> QED BY <1>13, <2>1, <2>2, <2>3, HeadIs DEF LosePoll, Fault, RegisteredOnce
<1>14. CASE FailStopping
  BY <1>14 DEF FailStopping, RegisteredOnce, plane, history
<1>15. CASE Lapse
  <2>1. CASE main.pc = "done"
    BY <1>15, <2>1, RequeueDoes DEF Lapse, RegisteredOnce, LoopAtRest, daemon
  <2>2. CASE main.pc # "done"
    BY <1>15, <2>2 DEF Lapse, RegisteredOnce
  <2> QED BY <2>1, <2>2
<1>16. CASE LapseStale
  BY <1>16, RequeueDoes DEF LapseStale, daemon, history, RegisteredOnce
<1>17. CASE Kill
  BY <1>17 DEF Kill, RegisteredOnce, plane, history
<1>18. ASSUME NEW j \in jobs, Execute(j) PROVE RegisteredOnce'
  BY <1>18 DEF Execute, RegisteredOnce, plane, history
<1>19. ASSUME NEW j \in jobs, Report(j) PROVE RegisteredOnce'
  <2>1. \A c \in Commands : order'[c] = order[c] \/ order'[c] = "done"
    BY <1>19 DEF Report, Take
  <2>2. jobs = {} => jobs' = {}
    OBVIOUS
  <2>3. known /\ UNCHANGED <<main, beat, known, lapsed>>
    BY <1>19 DEF Report
  <2> QED BY <2>1, <2>2, <2>3 DEF RegisteredOnce
<1>20. ASSUME NEW j \in jobs, ReportUnknown(j) PROVE RegisteredOnce'
  BY <1>20 DEF ReportUnknown, RegisteredOnce, plane, history
<1>21. ASSUME NEW j \in jobs, LoseReport(j) PROVE RegisteredOnce'
  <2>1. \A c \in Commands : order'[c] = order[c] \/ order'[c] = "done"
    BY <1>21 DEF LoseReport, Take, TypeOK
  <2>2. jobs = {} => jobs' = {}
    OBVIOUS
  <2>3. known /\ UNCHANGED <<main, beat, known, lapsed>>
    BY <1>21 DEF LoseReport
  <2> QED BY <2>1, <2>2, <2>3 DEF RegisteredOnce
<1>22. ASSUME NEW c \in Commands, OtherTakes(c) PROVE RegisteredOnce'
  BY <1>22 DEF OtherTakes, RegisteredOnce, daemon, history
<1>23. ASSUME NEW c \in Commands, OtherReports(c) PROVE RegisteredOnce'
  BY <1>23 DEF OtherReports, RegisteredOnce, daemon, history
<1>24. CASE UNCHANGED vars
  BY <1>24 DEF RegisteredOnce, vars, daemon, plane, history
<1> QED BY <1>1, <1>2, <1>3, <1>4, <1>5, <1>6, <1>7, <1>8, <1>9, <1>10, <1>11, <1>12, <1>13,
           <1>14, <1>15, <1>16, <1>17, <1>18, <1>19, <1>20, <1>21, <1>22, <1>23, <1>24
        DEF Next, Main, Beat

\* A command at rest here comes from a poll, and only a lapse queues it again.
LEMMA HeldNext ==
    ASSUME TypeOK, CopiesDiffer, LoopAtRest, RegisteredOnce, HeldHere, [Next]_vars
    PROVE  HeldHere'
<1>1. CASE Register
  <2>1. Head.batch = {}
    BY DEF Head
  <2>2. ~lapsed => \A c \in Commands : order[c] # "given"
    BY <1>1 DEF Register, RegisteredOnce
  <2>3. \A j \in jobs : j.cmd \in Commands
    BY DEF TypeOK, Job
  <2> QED BY <1>1, <2>1, <2>2, <2>3, AdoptDoes DEF Register, HeldHere, history
<1>2. CASE GiveUpRegistering
  BY <1>2 DEF GiveUpRegistering, HeldHere, Head, plane, history
<1>3. CASE Poll
  <2>1. PICK S \in SUBSET Commands :
          /\ \A c \in S : order[c] = "queued"
          /\ \A c \in Commands :
               order'[c] = IF c \in S THEN IF main.old THEN "stale" ELSE "given" ELSE order[c]
          /\ Start(S)
    BY <1>3, PollDoes
  <2>2. /\ main'.batch \subseteq S
        /\ \A j \in jobs' : j \in jobs \/ j.cmd \in S \ main'.batch
        /\ \A i, j \in jobs' : i.cmd = j.cmd => i = j \/ i \in jobs \/ j \in jobs
    BY <2>1, StartDoes
  <2>3. \A j \in jobs : j.cmd \in Commands
    BY DEF TypeOK, Job
  <2>4. UNCHANGED <<lapsed, verdict, unheard>> /\ (~lapsed => ~main.old)
    BY <1>3 DEF Poll, RegisteredOnce
  <2>5. ~lapsed => \A j \in jobs : j.cmd \notin S
    BY <2>1, <2>3 DEF HeldHere
  <2> QED BY <2>1, <2>2, <2>3, <2>4, <2>5 DEF HeldHere
<1>4. CASE PollUnknown
  BY <1>4 DEF PollUnknown, HeldHere, plane, history
<1>5. CASE GetSlot
  <2>1. /\ main'.batch \subseteq main.batch
        /\ \A j \in jobs' : j \in jobs \/ j.cmd \in main.batch \ main'.batch
        /\ \A i, j \in jobs' : i.cmd = j.cmd => i = j \/ i \in jobs \/ j \in jobs
    BY <1>5, StartDoes DEF GetSlot, TypeOK
  <2>2. UNCHANGED <<order, lapsed, verdict, unheard>>
    BY <1>5 DEF GetSlot, plane
  <2> QED BY <2>1, <2>2 DEF HeldHere
<1>6. CASE Drained
  BY <1>6 DEF Drained, HeldHere, plane, history
<1>7. CASE SayStopping
  <2>1. /\ order' \in [Commands -> Order]
        /\ \A c \in Commands :
             order'[c] = IF known /\ order[c] = "given" THEN "queued" ELSE order[c]
    BY <1>7, HandDoes DEF SayStopping, Having, Order
  <2> QED BY <1>7, <2>1 DEF SayStopping, HeldHere, LoopAtRest, history
<1>8. CASE BeatUnknown
  BY <1>8 DEF BeatUnknown, HeldHere, plane, history
<1>9. CASE BeatRegister
  BY <1>9, AdoptDoes DEF BeatRegister, HeldHere, RegisteredOnce, history
<1>10. CASE BeatEnd
  BY <1>10 DEF BeatEnd, HeldHere, plane, history
<1>11. CASE RequestStop
  BY <1>11 DEF RequestStop, HeldHere, plane, history
<1>12. CASE DrainTimeout
  BY <1>12 DEF DrainTimeout, HeldHere, plane, history
<1>13. CASE LosePoll
  <2>1. PICK S \in SUBSET Having("queued") : Hand(S, "given") /\ unheard' = unheard \cup S
    BY <1>13 DEF LosePoll
  <2>2. S \in SUBSET Commands /\ \A c \in S : order[c] = "queued"
    BY DEF Having
  <2>3. /\ order' \in [Commands -> Order]
        /\ \A c \in Commands : order'[c] = IF c \in S THEN "given" ELSE order[c]
    BY <2>1, HandDoes DEF Order
  <2> QED BY <1>13, <2>1, <2>2, <2>3, HeadIs DEF LosePoll, Fault, HeldHere, TypeOK, Job
<1>14. CASE FailStopping
  BY <1>14 DEF FailStopping, HeldHere, plane, history
<1>15. CASE Lapse
  BY <1>15, RequeueDoes DEF Lapse, Fault, daemon, HeldHere, LoopAtRest
<1>16. CASE LapseStale
  BY <1>16, RequeueDoes DEF LapseStale, daemon, history, HeldHere, TypeOK, Job
<1>17. CASE Kill
  BY <1>17 DEF Kill, HeldHere, plane, history
<1>18. ASSUME NEW j \in jobs, Execute(j) PROVE HeldHere'
  BY <1>18, TurnDoes DEF Execute, HeldHere, plane, history
<1>19. ASSUME NEW j \in jobs, Report(j) PROVE HeldHere'
  BY <1>19, EndDoes, TakeDoes DEF Report, HeldHere, TypeOK, Job
<1>20. ASSUME NEW j \in jobs, ReportUnknown(j) PROVE HeldHere'
  BY <1>20, RaiseDoes DEF ReportUnknown, HeldHere, plane, history
<1>21. ASSUME NEW j \in jobs, LoseReport(j) PROVE HeldHere'
  BY <1>21, RaiseDoes, TakeDoes DEF LoseReport, HeldHere, TypeOK, Job
<1>22. ASSUME NEW c \in Commands, OtherTakes(c) PROVE HeldHere'
  BY <1>22 DEF OtherTakes, HeldHere, daemon, history
<1>23. ASSUME NEW c \in Commands, OtherReports(c) PROVE HeldHere'
  BY <1>23 DEF OtherReports, HeldHere, daemon, history
<1>24. CASE UNCHANGED vars
  BY <1>24 DEF HeldHere, vars, daemon, plane, history
<1> QED BY <1>1, <1>2, <1>3, <1>4, <1>5, <1>6, <1>7, <1>8, <1>9, <1>10, <1>11, <1>12, <1>13,
           <1>14, <1>15, <1>16, <1>17, <1>18, <1>19, <1>20, <1>21, <1>22, <1>23, <1>24
        DEF Next, Main, Beat

\* A report ends its job, and its command is not handed out again.
LEMMA ToldNext ==
    ASSUME TypeOK, CopiesDiffer, LoopAtRest, RegisteredOnce, HeldHere, ReportedIsOver, [Next]_vars
    PROVE  ReportedIsOver'
<1>1. CASE Register
  BY <1>1, AdoptDoes, HeadIs DEF Register, ReportedIsOver, history
<1>2. CASE GiveUpRegistering
  BY <1>2 DEF GiveUpRegistering, ReportedIsOver, Head, plane, history
<1>3. CASE Poll
  <2>1. PICK S \in SUBSET Commands :
          /\ \A c \in S : order[c] = "queued"
          /\ \A c \in Commands :
               order'[c] = IF c \in S THEN IF main.old THEN "stale" ELSE "given" ELSE order[c]
          /\ Start(S)
    BY <1>3, PollDoes
  <2>2. /\ main'.batch \subseteq S
        /\ \A j \in jobs' : j \in jobs \/ j.cmd \in S \ main'.batch
        /\ \A i, j \in jobs' : i.cmd = j.cmd => i = j \/ i \in jobs \/ j \in jobs
    BY <2>1, StartDoes
  <2>3. \A j \in jobs : j.cmd \in Commands
    BY DEF TypeOK, Job
  <2>4. UNCHANGED <<lapsed, verdict, unheard>> /\ (~lapsed => ~main.old)
    BY <1>3 DEF Poll, RegisteredOnce
  <2>5. ~lapsed => \A j \in jobs : j.cmd \notin S
    BY <2>1, <2>3 DEF HeldHere
  <2> QED BY <2>1, <2>2, <2>4, <2>5 DEF ReportedIsOver
<1>4. CASE PollUnknown
  BY <1>4 DEF PollUnknown, ReportedIsOver, plane, history
<1>5. CASE GetSlot
  <2>1. /\ main'.batch \subseteq main.batch
        /\ \A j \in jobs' : j \in jobs \/ j.cmd \in main.batch \ main'.batch
        /\ \A i, j \in jobs' : i.cmd = j.cmd => i = j \/ i \in jobs \/ j \in jobs
    BY <1>5, StartDoes DEF GetSlot, TypeOK
  <2>2. UNCHANGED <<order, lapsed, verdict, unheard>>
    BY <1>5 DEF GetSlot, plane
  <2> QED BY <2>1, <2>2 DEF HeldHere, ReportedIsOver
<1>6. CASE Drained
  BY <1>6 DEF Drained, ReportedIsOver, plane, history
<1>7. CASE SayStopping
  <2>1. /\ order' \in [Commands -> Order]
        /\ \A c \in Commands :
             order'[c] = IF known /\ order[c] = "given" THEN "queued" ELSE order[c]
    BY <1>7, HandDoes DEF SayStopping, Having, Order
  <2> QED BY <1>7, <2>1 DEF SayStopping, ReportedIsOver, history
<1>8. CASE BeatUnknown
  BY <1>8 DEF BeatUnknown, ReportedIsOver, plane, history
<1>9. CASE BeatRegister
  BY <1>9, AdoptDoes DEF BeatRegister, ReportedIsOver, history
<1>10. CASE BeatEnd
  BY <1>10 DEF BeatEnd, ReportedIsOver, plane, history
<1>11. CASE RequestStop
  BY <1>11 DEF RequestStop, ReportedIsOver, plane, history
<1>12. CASE DrainTimeout
  BY <1>12 DEF DrainTimeout, ReportedIsOver, plane, history
<1>13. CASE LosePoll
  <2>1. PICK S \in SUBSET Having("queued") : Hand(S, "given") /\ unheard' = unheard \cup S
    BY <1>13 DEF LosePoll
  <2>2. S \in SUBSET Commands /\ \A c \in S : order[c] = "queued"
    BY DEF Having
  <2>3. /\ order' \in [Commands -> Order]
        /\ \A c \in Commands : order'[c] = IF c \in S THEN "given" ELSE order[c]
    BY <2>1, HandDoes DEF Order
  <2> QED BY <1>13, <2>1, <2>2, <2>3, HeadIs DEF LosePoll, Fault, ReportedIsOver
<1>14. CASE FailStopping
  BY <1>14 DEF FailStopping, ReportedIsOver, plane, history
<1>15. CASE Lapse
  BY <1>15, RequeueDoes DEF Lapse, Fault, daemon, ReportedIsOver, TypeOK
<1>16. CASE LapseStale
  BY <1>16, RequeueDoes DEF LapseStale, daemon, history, ReportedIsOver
<1>17. CASE Kill
  BY <1>17 DEF Kill, ReportedIsOver, plane, history
<1>18. ASSUME NEW j \in jobs, Execute(j) PROVE ReportedIsOver'
  BY <1>18, TurnDoes DEF Execute, ReportedIsOver, plane, history
<1>19. ASSUME NEW j \in jobs, Report(j) PROVE ReportedIsOver'
  BY <1>19, EndDoes, TakeDoes DEF Report, ReportedIsOver, HeldHere
<1>20. ASSUME NEW j \in jobs, ReportUnknown(j) PROVE ReportedIsOver'
  BY <1>20, RaiseDoes DEF ReportUnknown, ReportedIsOver, plane, history
<1>21. ASSUME NEW j \in jobs, LoseReport(j) PROVE ReportedIsOver'
  BY <1>21, RaiseDoes, TakeDoes DEF LoseReport, ReportedIsOver
<1>22. ASSUME NEW c \in Commands, OtherTakes(c) PROVE ReportedIsOver'
  BY <1>22 DEF OtherTakes, ReportedIsOver, daemon, history
<1>23. ASSUME NEW c \in Commands, OtherReports(c) PROVE ReportedIsOver'
  BY <1>23 DEF OtherReports, ReportedIsOver, daemon, history
<1>24. CASE UNCHANGED vars
  BY <1>24 DEF ReportedIsOver, vars, daemon, plane, history
<1> QED BY <1>1, <1>2, <1>3, <1>4, <1>5, <1>6, <1>7, <1>8, <1>9, <1>10, <1>11, <1>12, <1>13,
           <1>14, <1>15, <1>16, <1>17, <1>18, <1>19, <1>20, <1>21, <1>22, <1>23, <1>24
        DEF Next, Main, Beat
----------------------------------------------------------------------------
(* The invariant, and what follows from it *)

\* A fresh daemon has every part of the invariant.
LEMMA InitInv ==
    Init => Inv
<1> SUFFICES ASSUME Init PROVE Inv
  OBVIOUS
<1>1. TypeOK /\ CopiesDiffer
  <2>1. free \in 0..Slots /\ free + Cardinality(jobs) = Slots /\ IsFiniteSet(jobs)
    BY RunnerAssumption, FS_EmptySet DEF Init
  <2>2. main.batch = {} /\ main.old = FALSE /\ main.pc = "register" /\ jobs = {}
    BY DEF Init
  <2>3. 0 \in 0..MaxFaults
    BY RunnerAssumption
  <2>4. main \in [pc : {"register", "poll", "slot", "drain", "bye", "done"},
                 old : BOOLEAN, batch : SUBSET Commands]
    BY DEF Init
  <2>5. order \in [Commands -> Order] /\ verdict \in [Commands -> SUBSET {"result", "failed"}]
    BY DEF Init, Order
  <2> QED BY <2>1, <2>2, <2>3, <2>4, <2>5 DEF Init, TypeOK, CopiesDiffer
<1>2. LoopAtRest /\ RegisteredOnce /\ HeldHere /\ ReportedIsOver
  BY DEF Init, LoopAtRest, RegisteredOnce, HeldHere, ReportedIsOver
<1> QED BY <1>1, <1>2 DEF Inv

\* Every step keeps it.
LEMMA NextInv ==
    Inv /\ [Next]_vars => Inv'
BY TypeNext, AtRestNext, RegisteredNext, HeldNext, ToldNext DEF Inv

\* It holds in every run.
LEMMA Invariance ==
    Spec => []Inv
BY InitInv, NextInv, PTL DEF Spec

\* Every variable of the daemon and of the plane keeps its type, and a slot is free or at a
\* job: no path out of _run_command, and no stop behind the semaphore, keeps one.
THEOREM RunnerTypeCorrect == Spec => []TypeOK
<1>1. Inv => TypeOK
  BY DEF Inv
<1> QED BY <1>1, Invariance, PTL

\* While no registration lapsed, nobody else is at a command this daemon runs, and it runs
\* it in one job: the drain leaves nothing behind that the plane queues at "stopping".
THEOREM CommandsRunInOneJob == Spec => []OneAtATime
<1>1. Inv => OneAtATime
  BY DEF Inv, HeldHere, OneAtATime
<1> QED BY <1>1, Invariance, PTL

\* Then no failure is reported of a result that arrived, and no result twice, unless an
\* answer was lost on the way.
THEOREM CommandsAreToldOnce == Spec => []OneVerdict
<1>1. ASSUME Inv, NEW c \in Commands \ unheard, ~lapsed PROVE Cardinality(verdict[c]) <= 1
  <2>1. CASE verdict[c] = {}
    BY <2>1, FS_EmptySet
  <2>2. CASE verdict[c] # {}
    <3>1. PICK v \in {"result", "failed"} : verdict[c] = {v}
      BY <1>1, <2>2 DEF Inv, ReportedIsOver
    <3>2. Cardinality({v}) = 1
      BY FS_Singleton
    <3> QED BY <3>1, <3>2
  <2> QED BY <2>1, <2>2
<1>2. Inv => OneVerdict
  BY <1>1 DEF OneVerdict
<1> QED BY <1>2, Invariance, PTL
=============================================================================
