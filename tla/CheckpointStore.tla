--------------------------- MODULE CheckpointStore ---------------------------
(***************************************************************************)
(* The SQLite file under the checkpointers of several processes: the       *)
(* statements and locks by which SQLiteCheckpointer (checkpointers/        *)
(* sqlite.py) records a pause, hands it to one resumer and deletes an      *)
(* execution, and SQLiteHelper (_internal/storage.py) closes connections   *)
(* other threads use.                                                      *)
(*                                                                         *)
(* A helper has a lock of its own and one connection per thread; helpers   *)
(* share only SQLite's write lock.  A connection inside a transaction      *)
(* reads the snapshot of its first statement.  One execution is followed;  *)
(* its pauses are numbered, and a row is the number of its pause.          *)
(***************************************************************************)
EXTENDS Naturals, FiniteSets

CONSTANTS
    Threads,    \* the threads that use a checkpointer
    Helpers,    \* the helpers, each with its process
    None,       \* no thread holds the lock
    MaxPauses,  \* bound: pauses recorded
    MaxOps,     \* bound: operations begun
    MaxFaults   \* bound: crashes, closes, refused rows

Pause == 1..MaxPauses

ASSUME StoreAssumption ==
    /\ None \notin Threads
    /\ MaxPauses \in Nat /\ MaxOps \in Nat /\ MaxFaults \in Nat

VARIABLES
    home,    \* thread -> the helper it uses
    db,      \* what is committed: the rows of the pauses, and the pending row (0: none)
    writer,  \* the thread whose connection holds SQLite's write lock, or None
    draft,   \* what it has written and not committed; else db
    tx,      \* thread -> the transaction open on its connection
    lock,    \* helper -> the thread that holds its _write_lock
    state,   \* helper -> how far its close() is
    op,      \* thread -> the operation it is in
    ops, faults,
    \* history
    asked,   \* how many pauses there were to record
    wins,    \* pause -> how many claims of it succeeded
    torn     \* a delete_execution was cut short, or a pause recorded in the middle of it

sqlite == <<db, writer, draft, tx>>
vars == <<home, sqlite, lock, state, op, ops, faults, asked, wins, torn>>

Content == [rows : SUBSET Pause, pend : {0} \cup Pause]

\* No transaction; one that has read nothing yet; one whose snapshot is, or is no longer,
\* the last commit; one that a refused row left behind, with the write lock.
Tx == {"none", "begun", "fresh", "stale", "refused"}

Idle == [kind |-> "none", pc |-> "idle", part |-> 0, pause |-> 0]

\* The operations that are one or more auto-committed statements, each counted while it
\* runs: fetchone or fetchall; put, put_idempotent, mark_synced or prune; delete_execution.
Counted == {"read", "put", "wipe"}
\* The two that reach for the connection and BEGIN a transaction of their own.
Transaction == {"record", "claim"}

Fault == faults < MaxFaults /\ faults' = faults + 1
Lock(t) == lock[home[t]]
Unlock(t) == lock' = [lock EXCEPT ![home[t]] = None]
Move(t, pc) == op' = [op EXCEPT ![t].pc = pc]
End(t) == op' = [op EXCEPT ![t] = Idle]
At(t, kind, pc) == op[t].kind = kind /\ op[t].pc = pc
Usable(t) == state[home[t]] # "closed"

----------------------------------------------------------------------------
(* SQLite *)

\* A connection with no snapshot waits for the write lock.  One with a snapshot does not
\* wait: it is SQLITE_BUSY when the lock is taken, or when its snapshot is stale.
MayWrite(t) == writer \in {None, t} /\ tx[t] # "stale"

\* t has committed: its transaction is over, the snapshots of the others are stale.
AfterCommit(t) ==
    [u \in Threads |-> IF u = t THEN "none" ELSE IF tx[u] = "fresh" THEN "stale" ELSE tx[u]]

\* conn.rollback(), or the connections are gone.
RollBack(S) ==
    /\ tx' = [t \in Threads |-> IF t \in S THEN "none" ELSE tx[t]]
    /\ writer' = IF writer \in S THEN None ELSE writer
    /\ draft' = IF writer \in S THEN db ELSE draft

\* A statement takes the write lock and changes what it sees to new.
Write(t, new) == writer' = t /\ draft' = new /\ tx' = [tx EXCEPT ![t] = "fresh"]

----------------------------------------------------------------------------
(* Beginning an operation *)

Begin(t, kind) ==
    /\ op[t].pc = "idle" /\ ops < MaxOps
    /\ ops' = ops + 1
    /\ IF kind = "record" THEN asked < MaxPauses /\ asked' = asked + 1 ELSE UNCHANGED asked
    /\ op' = [op EXCEPT ![t] = [kind |-> kind, pc |-> "start", part |-> 1,
                               pause |-> IF kind = "record" THEN asked' ELSE 0]]
    /\ UNCHANGED <<home, sqlite, lock, state, faults, wins, torn>>

\* _get_conn and _statement raise once close() has begun.
Closed(t) ==
    /\ op[t].pc = "start" /\ state[home[t]] # "open"
    /\ op[t].kind \in Transaction => Lock(t) = None
    /\ End(t)
    /\ UNCHANGED <<home, sqlite, lock, state, ops, faults, asked, wins, torn>>

\* _statement counts the statement; a read takes no lock.
Count(t) ==
    /\ op[t].pc = "start" /\ op[t].kind \in Counted /\ state[home[t]] = "open"
    /\ Move(t, IF op[t].kind = "read" THEN "run" ELSE "wait")
    /\ UNCHANGED <<home, sqlite, lock, state, ops, faults, asked, wins, torn>>

\* execute takes the lock behind its count; record_interrupt and the claim take it through
\* db._lock and are not counted.
TakeLock(t) ==
    /\ Lock(t) = None
    /\ \/ op[t].pc = "wait" /\ Move(t, "run")
       \/ /\ op[t].pc = "start" /\ op[t].kind \in Transaction /\ state[home[t]] = "open"
          /\ Move(t, "begin")
    /\ lock' = [lock EXCEPT ![home[t]] = t]
    /\ UNCHANGED <<home, sqlite, state, ops, faults, asked, wins, torn>>

----------------------------------------------------------------------------
(* Counted statements *)

\* fetchone, fetchall: inside a transaction somebody left open it takes a snapshot, which
\* stays.
Read(t) ==
    /\ At(t, "read", "run")
    /\ tx' = IF tx[t] = "begun" THEN [tx EXCEPT ![t] = "fresh"] ELSE tx
    /\ End(t)
    /\ UNCHANGED <<home, db, writer, draft, lock, state, ops, faults, asked, wins, torn>>

\* execute: the statement and its commit, of an older transaction too if one is open.
Put(t) ==
    /\ At(t, "put", "run") /\ MayWrite(t)
    /\ tx' = AfterCommit(t) /\ writer' = None
    /\ Unlock(t) /\ End(t)
    /\ UNCHANGED <<home, db, draft, state, ops, faults, asked, wins, torn>>

\* A constraint refuses the row (put is a plain INSERT, and a restored row may be there
\* already).  The statement is undone; the transaction the driver began for it is not, and
\* holds the write lock until this connection commits, rolls back or goes.
PutRefused(t) ==
    /\ At(t, "put", "run") /\ MayWrite(t)
    /\ Fault
    /\ tx' = [tx EXCEPT ![t] = "refused"] /\ writer' = t
    /\ Unlock(t) /\ End(t)
    /\ UNCHANGED <<home, db, draft, state, ops, asked, wins, torn>>

\* delete_execution, one execute after the other: checkpoints, pending_interrupts,
\* idempotency_cache.
Wipe(t) ==
    /\ At(t, "wipe", "run") /\ MayWrite(t)
    /\ tx' = AfterCommit(t) /\ writer' = None
    /\ Unlock(t)
    /\ \/ op[t].part = 1 /\ db' = [db EXCEPT !.rows = {}] /\ torn' = TRUE
       \/ op[t].part = 2 /\ db' = [db EXCEPT !.pend = 0] /\ torn' = (db.rows # {})
       \/ op[t].part = 3 /\ UNCHANGED <<db, torn>>
    /\ draft' = db'
    /\ IF op[t].part < 3 THEN op' = [op EXCEPT ![t].pc = "start", ![t].part = @ + 1] ELSE End(t)
    /\ UNCHANGED <<home, state, ops, faults, asked, wins>>

\* SQLITE_BUSY, at once or when busy_timeout is over: the statement raises, and the
\* transaction the driver began for it stays open.
ExecuteFails(t) ==
    /\ op[t].pc = "run" /\ op[t].kind \in {"put", "wipe"} /\ ~MayWrite(t)
    /\ tx' = [tx EXCEPT ![t] = IF @ = "none" THEN "begun" ELSE @]
    /\ Unlock(t) /\ End(t)
    /\ UNCHANGED <<home, db, writer, draft, state, ops, faults, asked, wins, torn>>

----------------------------------------------------------------------------
(* record_interrupt and delete_pending_interrupt_atomic *)

\* Broken variant: a failed transaction is left as it is.
RaiseHolding(t) == Unlock(t) /\ End(t) /\ UNCHANGED sqlite

\* The except branch: conn.rollback(), and the exception goes on.
Raise(t) == RollBack({t}) /\ Unlock(t) /\ End(t) /\ UNCHANGED db

InTransaction == {"begin", "second", "commit"}

\* BEGIN inside a transaction somebody left open.
BeginFails(t) ==
    /\ op[t].pc = "begin" /\ Usable(t) /\ tx[t] # "none"
    /\ Raise(t)
    /\ UNCHANGED <<home, state, ops, faults, asked, wins, torn>>

\* Broken variant: the row of the pause is committed by itself.
InsertRowAlone(t) ==
    LET new == [db EXCEPT !.rows = @ \cup {op[t].pause}]
    IN /\ At(t, "record", "begin") /\ Usable(t) /\ tx[t] = "none" /\ writer = None
       /\ db' = new
       /\ Write(t, new)
       /\ Move(t, "second")
       /\ UNCHANGED <<home, lock, state, ops, faults, asked, wins, torn>>

\* BEGIN and the row of the pause.
InsertRow(t) ==
    /\ At(t, "record", "begin") /\ Usable(t) /\ tx[t] = "none" /\ writer = None
    /\ Write(t, [db EXCEPT !.rows = @ \cup {op[t].pause}])
    /\ Move(t, "second")
    /\ UNCHANGED <<home, db, lock, state, ops, faults, asked, wins, torn>>

\* busy_timeout is over.
InsertTimesOut(t) ==
    /\ At(t, "record", "begin") /\ Usable(t) /\ tx[t] = "none" /\ writer # None
    /\ Raise(t)
    /\ UNCHANGED <<home, state, ops, faults, asked, wins, torn>>

\* The pending row, whose key is the execution: a second one is an IntegrityError.
InsertPending(t) ==
    /\ At(t, "record", "second") /\ Usable(t)
    /\ IF draft.pend # 0
       THEN Raise(t)
       ELSE /\ draft' = [draft EXCEPT !.pend = op[t].pause]
            /\ Move(t, "commit")
            /\ UNCHANGED <<db, writer, tx, lock>>
    /\ UNCHANGED <<home, state, ops, faults, asked, wins, torn>>

\* BEGIN and the SELECT of the pending row: its snapshot.  None: AlreadyResumed.
SelectPending(t) ==
    /\ At(t, "claim", "begin") /\ Usable(t) /\ tx[t] = "none"
    /\ IF db.pend = 0
       THEN Unlock(t) /\ End(t) /\ UNCHANGED tx
       ELSE /\ tx' = [tx EXCEPT ![t] = "fresh"]
            /\ op' = [op EXCEPT ![t].pc = "second", ![t].pause = db.pend]
            /\ UNCHANGED lock
    /\ UNCHANGED <<home, db, writer, draft, state, ops, faults, asked, wins, torn>>

\* Broken variant: the DELETE does not belong to the transaction of the SELECT.
DeletePendingAnew(t) ==
    /\ At(t, "claim", "second") /\ Usable(t) /\ writer = None
    /\ Write(t, [db EXCEPT !.pend = 0])
    /\ Move(t, "commit")
    /\ UNCHANGED <<home, db, lock, state, ops, faults, asked, wins, torn>>

\* The DELETE, which upgrades the snapshot to a write, or is SQLITE_BUSY.
DeletePending(t) ==
    /\ At(t, "claim", "second") /\ Usable(t)
    /\ IF MayWrite(t)
       THEN Write(t, [db EXCEPT !.pend = 0]) /\ Move(t, "commit") /\ UNCHANGED <<db, lock>>
       ELSE Raise(t)
    /\ UNCHANGED <<home, state, ops, faults, asked, wins, torn>>

CommitTx(t) ==
    /\ op[t].pc = "commit" /\ Usable(t)
    /\ db' = draft /\ writer' = None /\ tx' = AfterCommit(t)
    /\ Unlock(t) /\ End(t)
    /\ wins' = IF op[t].kind = "claim" THEN [wins EXCEPT ![op[t].pause] = @ + 1] ELSE wins
    /\ UNCHANGED <<home, draft, state, ops, faults, asked, torn>>

\* close() took the connection away between two statements.
ConnectionGone(t) ==
    /\ op[t].pc \in InTransaction /\ ~Usable(t)
    /\ Raise(t)
    /\ UNCHANGED <<home, state, ops, faults, asked, wins, torn>>

----------------------------------------------------------------------------
(* close(), and the death of a process *)

Users(h) == {t \in Threads : home[t] = h}

\* The statements close() waits for.
InFlight(h) == {t \in Users(h) : op[t].kind \in Counted /\ op[t].pc \in {"wait", "run"}}

Close(h) ==
    /\ state[h] = "open" /\ Fault
    /\ state' = [state EXCEPT ![h] = "closing"]
    /\ UNCHANGED <<home, sqlite, lock, op, ops, asked, wins, torn>>

\* Broken variant: close() frees the connections at once.
FreeAtOnce(h) ==
    /\ state[h] = "closing"
    /\ state' = [state EXCEPT ![h] = "closed"]
    /\ RollBack(Users(h))
    /\ UNCHANGED <<home, db, lock, op, ops, faults, asked, wins, torn>>

\* No statement runs: the connections are closed, and what they had open is rolled back.
Free(h) ==
    /\ state[h] = "closing" /\ InFlight(h) = {}
    /\ state' = [state EXCEPT ![h] = "closed"]
    /\ RollBack(Users(h))
    /\ UNCHANGED <<home, db, lock, op, ops, faults, asked, wins, torn>>

\* The timeout is over: the connections are left open.
LeaveOpen(h) ==
    /\ state[h] = "closing" /\ InFlight(h) # {}
    /\ state' = [state EXCEPT ![h] = "left"]
    /\ UNCHANGED <<home, sqlite, lock, op, ops, faults, asked, wins, torn>>

\* SQLiteCheckpointer._conn makes a new helper, once nobody uses the old one (bound).
Reopen(h) ==
    /\ state[h] \in {"closed", "left"} /\ \A t \in Users(h) : op[t].pc = "idle"
    /\ state' = [state EXCEPT ![h] = "open"]
    /\ RollBack(Users(h))
    /\ UNCHANGED <<home, db, lock, op, ops, faults, asked, wins, torn>>

\* The process dies and is started again.
Crash(h) ==
    /\ Fault
    /\ RollBack(Users(h))
    /\ lock' = [lock EXCEPT ![h] = None] /\ state' = [state EXCEPT ![h] = "open"]
    /\ op' = [t \in Threads |-> IF t \in Users(h) THEN Idle ELSE op[t]]
    /\ UNCHANGED <<home, db, ops, asked, wins, torn>>

----------------------------------------------------------------------------

Init ==
    /\ home \in [Threads -> Helpers]
    /\ db = [rows |-> {}, pend |-> 0] /\ writer = None /\ draft = db
    /\ tx = [t \in Threads |-> "none"]
    /\ lock = [h \in Helpers |-> None] /\ state = [h \in Helpers |-> "open"]
    /\ op = [t \in Threads |-> Idle] /\ ops = 0 /\ faults = 0
    /\ asked = 0 /\ wins = [p \in Pause |-> 0] /\ torn = FALSE

Step(t) ==
    \/ Closed(t) \/ Count(t) \/ TakeLock(t)
    \/ Read(t) \/ Put(t) \/ Wipe(t) \/ ExecuteFails(t)
    \/ BeginFails(t) \/ InsertRow(t) \/ InsertTimesOut(t) \/ InsertPending(t)
    \/ SelectPending(t) \/ DeletePending(t) \/ CommitTx(t) \/ ConnectionGone(t)

Next ==
    \/ \E t \in Threads : Step(t) \/ PutRefused(t) \/ \E kind \in Counted \cup Transaction : Begin(t, kind)
    \/ \E h \in Helpers : Close(h) \/ Free(h) \/ LeaveOpen(h) \/ Reopen(h) \/ Crash(h)

Spec == Init /\ [][Next]_vars

\* A thread is scheduled, and gets a helper's lock that others give back; for SQLite's it
\* waits no longer than busy_timeout.  No row has to be refused, no operation has to begin.
FairSpec == Spec /\ \A t \in Threads : WF_vars(Step(t))

----------------------------------------------------------------------------
(* Properties *)

\* Every variable holds what the code can put there.
TypeOK ==
    /\ home \in [Threads -> Helpers] /\ db \in Content /\ draft \in Content
    /\ writer \in Threads \cup {None} /\ lock \in [Helpers -> Threads \cup {None}]
    /\ tx \in [Threads -> Tx] /\ state \in [Helpers -> {"open", "closing", "closed", "left"}]
    /\ op \in [Threads -> [kind : {"none"} \cup Counted \cup Transaction,
                           pc : {"idle", "start", "wait", "run"} \cup InTransaction,
                           part : 0..3, pause : {0} \cup Pause]]
    /\ ops \in Nat /\ faults \in Nat /\ asked \in {0} \cup Pause
    /\ wins \in [Pause -> Nat] /\ torn \in BOOLEAN

\* A pause is handed to one resumer, whichever processes and connections claim it.
ClaimedOnce == \A p \in Pause : wins[p] <= 1

\* The row of a pause and its pending row are committed together and a claim takes only the
\* pending one: no crash, close, refused write or other process leaves a pause that no
\* answer can reach, or an answer that reaches no pause.  delete_execution may (torn).
PauseWhole ==
    ~torn => /\ db.pend # 0 => db.pend \in db.rows /\ wins[db.pend] = 0
             /\ \A p \in db.rows : db.pend = p \/ wins[p] = 1

\* "Closing one while it is mid-query is undefined behaviour": a connection is not closed
\* under a statement that is counted, running or waiting for the lock.
CloseWaits ==
    \A t \in Threads :
      op[t].kind \in Counted /\ op[t].pc \in {"wait", "run"} => state[home[t]] # "closed"

\* No failed operation, closed connection or dead process keeps a lock that others wait for:
\* a helper's lock, for which there is no timeout, comes back, and so does SQLite's write
\* lock, but for that of a row a constraint refused.  That one may stay for good, if its
\* thread never writes again: the writes of all the others then fail as locked.
LocksComeBack ==
    \A t \in Threads : /\ Lock(t) = t ~> Lock(t) # t
                       /\ writer = t ~> writer # t \/ tx[t] = "refused"
=============================================================================
