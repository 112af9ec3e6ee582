-------------------------- MODULE CheckpointOutbox --------------------------
(***************************************************************************)
(* Replication of checkpoints to the plane (checkpointers/                 *)
(* platform_replica.py).  A checkpointer writes a row locally, un-acked,   *)
(* and kicks a daemon thread; the thread that gets the checkpointer's lock *)
(* drains the un-acked rows, oldest first, in batches, and marks a row     *)
(* only after the plane answered.  A row the plane refuses is isolated by  *)
(* bisecting its batch and parked with the reason.                         *)
(*                                                                         *)
(* Stores are checkpointer objects over one database file: they share the  *)
(* table, and each has its own lock.  A row is its rowid.                  *)
(***************************************************************************)
EXTENDS Naturals, Sequences, FiniteSets

CONSTANTS
    Stores,     \* the checkpointers open on the table
    Last,       \* bound: the number of rows ever written
    Limit,      \* _DRAIN_LIMIT
    Poison,     \* the rows whose payload the plane refuses
    MaxFaults   \* bound: crashes, disconnects, failed posts and failed marks

Row == 1..Last

ASSUME OutboxAssumption ==
    /\ Last \in Nat /\ Limit \in Nat \ {0} /\ MaxFaults \in Nat
    /\ Poison \subseteq Row

VARIABLES
    written,    \* how many rows the table has
    status,     \* row -> is it buffered, synced, or parked (quarantined)
    plane,      \* the rows the plane has ingested
    connected,  \* _connection.is_connected
    flushing,   \* a disconnect() under way and the stores it has yet to flush
    kicks,      \* store -> threads started and not yet at the lock
    drain,      \* store -> the thread that holds the lock
    faults      \* how many faults happened

conn == <<connected, flushing>>
vars == <<written, status, plane, conn, kicks, drain, faults>>

Status == {"buffered", "synced", "parked"}

\* todo: the batches still to post; synced, quarantined: the answers so far.
NoDrain == [pc |-> "off", batch |-> {}, todo |-> <<>>, synced |-> {}, quarantined |-> {},
            flush |-> FALSE]
NoFlush == [on |-> FALSE, left |-> {}]
Start(flush) == [NoDrain EXCEPT !.pc = "fetch", !.flush = flush]

Buffered == {r \in 1..written : status[r] = "buffered"}

\* fetch_unsynced: the oldest un-acked rows, at most Limit of them.
Oldest == {r \in Buffered : Cardinality({q \in Buffered : q <= r}) <= Limit}

\* The first half of a batch, in rowid order.
FirstHalf(b) == {r \in b : 2 * Cardinality({q \in b : q <= r}) <= Cardinality(b)}

Fault == faults < MaxFaults /\ faults' = faults + 1

Off(s) == drain' = [drain EXCEPT ![s] = NoDrain]

----------------------------------------------------------------------------
(* The application *)

\* put, record_interrupt: the local row first, then kick, which does nothing when not
\* connected.
Put(s) ==
    /\ written < Last
    /\ written' = written + 1
    /\ kicks' = IF connected THEN [kicks EXCEPT ![s] = @ + 1] ELSE kicks
    /\ UNCHANGED <<status, plane, conn, drain, faults>>

\* connect: drain_all_async visits every checkpointer.
Connect ==
    /\ ~connected
    /\ connected' = TRUE
    /\ kicks' = [s \in Stores |-> kicks[s] + 1]
    /\ UNCHANGED <<written, status, plane, flushing, drain, faults>>

\* disconnect: drain_all_sync visits the checkpointers in turn and drains each in the
\* caller's thread, unless a drain of it is running; then the connection goes.
Disconnect ==
    /\ connected /\ ~flushing.on /\ Fault
    /\ flushing' = [on |-> TRUE, left |-> Stores]
    /\ UNCHANGED <<written, status, plane, connected, kicks, drain>>

FlushStore(s) ==
    /\ s \in flushing.left /\ \A t \in Stores : ~drain[t].flush
    /\ flushing' = [flushing EXCEPT !.left = @ \ {s}]
    /\ drain' = IF drain[s].pc = "off" THEN [drain EXCEPT ![s] = Start(TRUE)] ELSE drain
    /\ UNCHANGED <<written, status, plane, connected, kicks, faults>>

TearDown ==
    /\ flushing.on /\ flushing.left = {} /\ \A t \in Stores : ~drain[t].flush
    /\ connected' = FALSE /\ flushing' = NoFlush
    /\ UNCHANGED <<written, status, plane, kicks, drain, faults>>

\* The process dies: the table and the plane remain.
Crash ==
    /\ Fault
    /\ connected' = FALSE /\ flushing' = NoFlush
    /\ kicks' = [s \in Stores |-> 0]
    /\ drain' = [s \in Stores |-> NoDrain]
    /\ UNCHANGED <<written, status, plane>>

----------------------------------------------------------------------------
(* A drain thread *)

\* Broken variant: a drain that no thread was started for.
TryLockUnkicked(s) ==
    /\ connected /\ drain[s].pc = "off"
    /\ kicks' = [kicks EXCEPT ![s] = @ - 1]
    /\ drain' = [drain EXCEPT ![s] = Start(FALSE)]
    /\ UNCHANGED <<written, status, plane, conn, faults>>

\* _drain_guarded: not connected, or a drain is already running: the thread ends.
TryLock(s) ==
    /\ kicks[s] > 0
    /\ kicks' = [kicks EXCEPT ![s] = @ - 1]
    /\ drain' = IF connected /\ drain[s].pc = "off"
                THEN [drain EXCEPT ![s] = Start(FALSE)] ELSE drain
    /\ UNCHANGED <<written, status, plane, conn, faults>>

Fetch(s) ==
    /\ drain[s].pc = "fetch"
    /\ IF Oldest = {}
       THEN Off(s)
       ELSE drain' = [drain EXCEPT ![s] = [@ EXCEPT !.pc = "post", !.batch = Oldest,
                                                    !.todo = <<Oldest>>]]
    /\ UNCHANGED <<written, status, plane, conn, kicks, faults>>

\* A 2xx: the plane keeps what it can and names the rows it dropped.
Accepted(s) ==
    LET d == drain[s]
        b == Head(d.todo)
    IN /\ d.pc = "post" /\ d.todo # <<>> /\ connected
       /\ plane' = plane \cup (b \ Poison)
       /\ drain' = [drain EXCEPT ![s] =
                      [d EXCEPT !.todo = Tail(d.todo), !.synced = d.synced \cup (b \ Poison),
                                !.quarantined = d.quarantined \cup (b \cap Poison)]]
       /\ UNCHANGED <<written, status, conn, kicks, faults>>

\* Broken variant: the drain stops at a batch that is refused.
RefusedStops(s) ==
    /\ drain[s].pc = "post" /\ drain[s].todo # <<>> /\ connected
    /\ Head(drain[s].todo) \cap Poison # {}
    /\ Off(s)
    /\ UNCHANGED <<written, status, plane, conn, kicks, faults>>

\* A payload 4xx (an older plane refuses a batch whole): bisect it until the offender
\* stands alone.
Refused(s) ==
    LET d == drain[s]
        b == Head(d.todo)
    IN /\ d.pc = "post" /\ d.todo # <<>> /\ connected
       /\ b \cap Poison # {}
       /\ IF \E r \in b : b = {r}
          THEN drain' = [drain EXCEPT ![s] =
                 [d EXCEPT !.todo = Tail(d.todo), !.quarantined = d.quarantined \cup b]]
          ELSE drain' = [drain EXCEPT ![s] =
                 [d EXCEPT !.todo = <<FirstHalf(b), b \ FirstHalf(b)>> \o Tail(d.todo)]]
       /\ UNCHANGED <<written, status, plane, conn, kicks, faults>>

\* Broken variant: a batch that failed on the way is parked.
RetryLaterParks(s) ==
    LET b == Head(drain[s].todo)
    IN /\ drain[s].pc = "post" /\ drain[s].todo # <<>>
       /\ IF connected THEN Fault ELSE UNCHANGED faults
       /\ drain' = [drain EXCEPT ![s] =
                      [@ EXCEPT !.todo = Tail(@), !.quarantined = @ \cup b]]
       /\ UNCHANGED <<written, status, plane, conn, kicks>>

\* Retries exhausted, or a 4xx about the connection: the batch stays buffered.  A lost
\* answer leaves the rows at the plane.
RetryLater(s) ==
    LET b == Head(drain[s].todo)
    IN /\ drain[s].pc = "post" /\ drain[s].todo # <<>>
       /\ IF connected THEN Fault /\ plane' \in {plane, plane \cup (b \ Poison)}
          ELSE UNCHANGED <<faults, plane>>
       /\ drain' = [drain EXCEPT ![s].todo = Tail(@)]
       /\ UNCHANGED <<written, status, conn, kicks>>

\* mark_synced: the answers to a batch are all in.
MarkSynced(s) ==
    /\ drain[s].pc = "post" /\ drain[s].todo = <<>>
    /\ status' = [r \in Row |-> IF r \in drain[s].synced THEN "synced" ELSE status[r]]
    /\ drain' = [drain EXCEPT ![s].pc = "park"]
    /\ UNCHANGED <<written, plane, conn, kicks, faults>>

\* Broken variant: the drain goes on although no row advanced.
MarkQuarantinedSpins(s) ==
    /\ drain[s].pc = "park"
    /\ status' = [r \in Row |-> IF r \in drain[s].quarantined THEN "parked" ELSE status[r]]
    /\ IF Cardinality(drain[s].batch) < Limit
       THEN Off(s) ELSE drain' = [drain EXCEPT ![s] = Start(drain[s].flush)]
    /\ UNCHANGED <<written, plane, conn, kicks, faults>>

\* mark_quarantined; the drain goes on if rows advanced and the batch was a full one.
MarkQuarantined(s) ==
    LET d == drain[s]
    IN /\ d.pc = "park"
       /\ status' = [r \in Row |-> IF r \in d.quarantined THEN "parked" ELSE status[r]]
       /\ IF d.synced \cup d.quarantined = {} \/ Cardinality(d.batch) < Limit
          THEN Off(s) ELSE drain' = [drain EXCEPT ![s] = Start(d.flush)]
       /\ UNCHANGED <<written, plane, conn, kicks, faults>>

\* A query that raises ends the drain with its rows as they are.
StoreFails(s) ==
    /\ \/ drain[s].pc \in {"fetch", "park"}
       \/ drain[s].pc = "post" /\ drain[s].todo = <<>>
    /\ Fault
    /\ Off(s)
    /\ UNCHANGED <<written, status, plane, conn, kicks>>

----------------------------------------------------------------------------

Init ==
    /\ written = 0 /\ status = [r \in Row |-> "buffered"] /\ plane = {}
    /\ connected = FALSE /\ flushing = NoFlush /\ faults = 0
    /\ kicks = [s \in Stores |-> 0] /\ drain = [s \in Stores |-> NoDrain]

Drain(s) ==
    \/ TryLock(s) \/ FlushStore(s) \/ Fetch(s)
    \/ Accepted(s) \/ Refused(s) \/ RetryLater(s)
    \/ MarkSynced(s) \/ MarkQuarantined(s)

Next == \/ Connect \/ Disconnect \/ TearDown \/ Crash
        \/ \E s \in Stores : Put(s) \/ Drain(s) \/ StoreFails(s)

Spec == Init /\ [][Next]_vars

\* A started thread is scheduled until it ends.
FairSpec == Spec /\ \A s \in Stores : WF_vars(Drain(s))

----------------------------------------------------------------------------
(* Properties *)

Drains == [pc : {"off", "fetch", "post", "park"}, batch : SUBSET Row,
           todo : Seq(SUBSET Row), synced : SUBSET Row, quarantined : SUBSET Row,
           flush : BOOLEAN]

\* Every variable holds what the code can put there.
TypeOK ==
    /\ written \in 0..Last /\ status \in [Row -> Status] /\ plane \subseteq Row
    /\ connected \in BOOLEAN /\ faults \in Nat
    /\ flushing \in [on : BOOLEAN, left : SUBSET Stores]
    /\ kicks \in [Stores -> Nat] /\ drain \in [Stores -> Drains]

\* The answers a drain has gathered and not marked yet are right ones.
AnswersAreRight ==
    \A s \in Stores : drain[s].synced \subseteq plane /\ drain[s].quarantined \subseteq Poison

\* A row that is no longer sent is at the plane, or is parked because the plane refuses it
\* itself: whatever threads, lost answers, half-done marks and crashes come between.
SettledRightly ==
    \A r \in Row : /\ status[r] = "synced" => r \in plane
                   /\ status[r] = "parked" => r \in Poison

\* A drain ends, also when nothing gets through: it does not spin on a refusing plane.
DrainEnds == \A s \in Stores : drain[s].pc # "off" ~> drain[s].pc = "off"

\* A poison row strands nobody: a drain that nothing disturbs any more, neither a fault
\* nor a disconnect, settles every row that was buffered when it began.
PoisonStrandsNobody ==
    \A s \in Stores, r \in Row :
      drain[s].pc = "fetch" /\ r \in Buffered /\ connected /\ faults = MaxFaults
        ~> status[r] # "buffered" \/ ~connected
=============================================================================
