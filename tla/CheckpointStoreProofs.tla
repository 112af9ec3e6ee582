----------------------- MODULE CheckpointStoreProofs -----------------------
(***************************************************************************)
(* Theorems about CheckpointStore, for any number of threads, helpers,     *)
(* pauses and operations, and any spread of the threads over the helpers:  *)
(* a pause is recorded whole and handed out once, and close() spares the   *)
(* statements that are counted.                                            *)
(***************************************************************************)
EXTENDS CheckpointStore, TLAPS

----------------------------------------------------------------------------
(* The inductive invariant *)

Recording(t) == op[t].kind = "record"
Claiming(t) == op[t].kind = "claim"

\* The operations that have written and not committed.
Writing(t) == op[t].pc = "commit" \/ At(t, "record", "second")

\* SQLite's write lock is with an operation that has written, or with a connection that a
\* refused row left in a transaction; every operation that has written has it while its
\* connection lasts.  Only an operation that has written has a draft.
OneWriter ==
    /\ \A t \in Threads :
         /\ op[t].pc \in InTransaction => op[t].kind \in Transaction
         /\ writer = t => Writing(t) \/ tx[t] = "refused"
         /\ tx[t] = "refused" => /\ writer = t /\ op[t].pc \notin {"second", "commit"}
                                /\ draft = db
         /\ Writing(t) /\ Usable(t) => writer = t
    /\ writer = None => draft = db

\* What a writer is about to commit, from what is committed.
DraftFollows ==
    \A t \in Threads : writer = t =>
        /\ At(t, "record", "second") =>
             draft = [rows |-> db.rows \cup {op[t].pause}, pend |-> db.pend]
        /\ At(t, "record", "commit") =>
             /\ db.pend = 0
             /\ draft = [rows |-> db.rows \cup {op[t].pause}, pend |-> op[t].pause]
        /\ At(t, "claim", "commit") =>
             /\ db.pend # 0 /\ db.pend = op[t].pause
             /\ draft = [rows |-> db.rows, pend |-> 0]

\* A claim that has selected a pause holds a snapshot, and the pause is pending as long as
\* that is not stale.
SnapshotHolds ==
    \A t \in Threads : At(t, "claim", "second") =>
        /\ Usable(t) => tx[t] \in {"fresh", "stale"}
        /\ tx[t] = "fresh" => db.pend # 0 /\ db.pend = op[t].pause

\* A pause that is being recorded is in no row yet and was not claimed, and nobody else
\* records it; neither was the pending one claimed.
PausesAreNew ==
    /\ \A t \in Threads : Recording(t) =>
         /\ op[t].pause \in 1..asked
         /\ op[t].pause \notin db.rows /\ op[t].pause # db.pend
         /\ wins[op[t].pause] = 0
         /\ \A u \in Threads : Recording(u) /\ op[u].pause = op[t].pause => u = t
    /\ db.rows \subseteq 1..asked /\ db.pend <= asked
    /\ \A p \in Pause : wins[p] # 0 => p <= asked
    /\ db.pend # 0 => wins[db.pend] = 0

Inv == /\ TypeOK /\ OneWriter /\ DraftFollows /\ SnapshotHolds /\ PausesAreNew
       /\ ClaimedOnce /\ PauseWhole

----------------------------------------------------------------------------
(* Each part is kept by every step *)

Operation == [kind : {"none"} \cup Counted \cup Transaction,
              pc : {"idle", "start", "wait", "run"} \cup InTransaction,
              part : 0..3, pause : {0} \cup Pause]

\* An operation that moves on, and one that ends.
LEMMA MovingIsTyped ==
    ASSUME op \in [Threads -> Operation], NEW t \in Threads,
           NEW pc \in {"idle", "start", "wait", "run"} \cup InTransaction, Move(t, pc)
    PROVE  op' \in [Threads -> Operation]
<1>1. [op[t] EXCEPT !.pc = pc] \in Operation
  BY DEF Operation
<1>2. op' = [op EXCEPT ![t] = [@ EXCEPT !.pc = pc]]
  BY DEF Move
<1> QED BY <1>1, <1>2

LEMMA EndingIsTyped ==
    ASSUME op \in [Threads -> Operation], NEW t \in Threads, End(t)
    PROVE  op' \in [Threads -> Operation]
<1>1. Idle \in Operation
  BY DEF Idle, Operation
<1> QED BY <1>1 DEF End

\* delete_execution goes on to its next statement; a claim keeps what it selected.
LEMMA NextPartIsTyped ==
    ASSUME NEW o \in Operation, o.part < 3
    PROVE  [o EXCEPT !.pc = "start", !.part = @ + 1] \in Operation
<1>1. o.part + 1 \in 0..3
  BY DEF Operation
<1> QED BY <1>1 DEF Operation

LEMMA SelectingIsTyped ==
    ASSUME NEW o \in Operation, NEW p \in Pause
    PROVE  [o EXCEPT !.pc = "second", !.pause = p] \in Operation
BY DEF Operation, InTransaction

\* A rollback.
LEMMA RaisingIsTyped ==
    ASSUME TypeOK, NEW t \in Threads, Raise(t)
    PROVE  /\ op' \in [Threads -> Operation] /\ tx' \in [Threads -> Tx]
           /\ writer' \in Threads \cup {None} /\ draft' \in Content /\ db' \in Content
           /\ lock' \in [Helpers -> Threads \cup {None}]
<1>1. op \in [Threads -> Operation] /\ home[t] \in Helpers
  BY DEF TypeOK, Operation
<1>2. op' \in [Threads -> Operation]
  BY <1>1, EndingIsTyped DEF Raise
<1> QED BY <1>1, <1>2 DEF TypeOK, Raise, RollBack, Unlock, Tx

\* What a statement writes is content, if it was.
LEMMA ContentIsTyped ==
    ASSUME NEW d \in Content, NEW p \in Pause
    PROVE  /\ [d EXCEPT !.rows = @ \cup {p}] \in Content
           /\ [d EXCEPT !.rows = {}] \in Content
           /\ [d EXCEPT !.pend = p] \in Content
           /\ [d EXCEPT !.pend = 0] \in Content
BY DEF Content

\* A claim counts one more success.
LEMMA CountingIsTyped ==
    ASSUME NEW f \in [Pause -> Nat], NEW p
    PROVE  [f EXCEPT ![p] = @ + 1] \in [Pause -> Nat]
<1>1. CASE p \in Pause
  BY <1>1
<1>2. CASE p \notin Pause
  BY <1>2
<1> QED BY <1>1, <1>2

\* What the two inserts of a recorded pause write.
LEMMA InsertsAreTyped ==
    ASSUME TypeOK, PausesAreNew, NEW t \in Threads, Recording(t)
    PROVE  /\ [db EXCEPT !.rows = @ \cup {op[t].pause}] \in Content
           /\ [draft EXCEPT !.pend = op[t].pause] \in Content
<1>1. db \in Content /\ draft \in Content
  BY DEF TypeOK
<1>2. op[t].pause \in 1..asked /\ asked \in {0} \cup Pause
  BY DEF TypeOK, PausesAreNew
<1>3. op[t].pause \in Pause
  BY <1>2, StoreAssumption DEF Pause
<1> QED BY <1>1, <1>3, ContentIsTyped

\* Every variable keeps its type.
LEMMA TypeNext == TypeOK /\ PausesAreNew /\ [Next]_vars => TypeOK'
<1> SUFFICES ASSUME TypeOK, PausesAreNew, [Next]_vars PROVE TypeOK'
  OBVIOUS
<1> USE StoreAssumption DEF TypeOK
<1>0. op \in [Threads -> Operation]
  BY DEF Operation
<1>1. CASE UNCHANGED vars
  BY <1>1 DEF vars, sqlite
<1>2. ASSUME NEW t \in Threads, NEW kind \in Counted \cup Transaction, Begin(t, kind)
      PROVE  TypeOK'
  <2>1. asked' \in {0} \cup Pause /\ (kind = "record" => asked' \in Pause)
    BY <1>2 DEF Begin, Pause
  <2>2. op' = [op EXCEPT ![t] = [kind |-> kind, pc |-> "start", part |-> 1,
                                 pause |-> IF kind = "record" THEN asked' ELSE 0]]
    BY <1>2 DEF Begin
  <2>3. op' \in [Threads -> Operation]
    BY <1>0, <2>1, <2>2 DEF Operation
  <2> QED BY <1>2, <2>1, <2>3 DEF Begin, Operation, sqlite
<1>3. ASSUME NEW t \in Threads, Closed(t) PROVE TypeOK'
  BY <1>3, <1>0, EndingIsTyped DEF Closed, Operation, sqlite
<1>4. ASSUME NEW t \in Threads, Count(t) PROVE TypeOK'
  <2>1. op' \in [Threads -> Operation]
    BY <1>4, <1>0, MovingIsTyped DEF Count, InTransaction
  <2> QED BY <1>4, <2>1 DEF Count, Operation, Unlock, Lock, sqlite
<1>5. ASSUME NEW t \in Threads, TakeLock(t) PROVE TypeOK'
  <2>1. op' \in [Threads -> Operation] /\ home[t] \in Helpers
    BY <1>5, <1>0, MovingIsTyped DEF TakeLock, InTransaction
  <2> QED BY <1>5, <2>1 DEF TakeLock, Operation, sqlite
<1>6. ASSUME NEW t \in Threads, Read(t) PROVE TypeOK'
  BY <1>6, <1>0, EndingIsTyped DEF Read, Operation, Tx
<1>7. ASSUME NEW t \in Threads, Put(t) PROVE TypeOK'
  BY <1>7, <1>0, EndingIsTyped DEF Put, Operation, AfterCommit, Tx, Unlock
<1>8. ASSUME NEW t \in Threads, Wipe(t) PROVE TypeOK'
  <2>1. op' \in [Threads -> Operation]
    <3>1. CASE op[t].part < 3
      <4>1. op[t] \in Operation
        BY <1>0
      <4>2. op' = [op EXCEPT ![t] = [op[t] EXCEPT !.pc = "start", !.part = @ + 1]]
        BY <1>8, <3>1 DEF Wipe
      <4>3. [op[t] EXCEPT !.pc = "start", !.part = @ + 1] \in Operation
        BY <3>1, <4>1, NextPartIsTyped
      <4> QED BY <1>0, <4>2, <4>3
    <3>2. CASE ~(op[t].part < 3)
      BY <1>8, <1>0, <3>2, EndingIsTyped DEF Wipe
    <3> QED BY <3>1, <3>2
  <2>2. db' \in Content /\ draft' \in Content /\ torn' \in BOOLEAN
    BY <1>8 DEF Wipe, Content
  <2>3. tx' \in [Threads -> Tx] /\ lock' \in [Helpers -> Threads \cup {None}]
    BY <1>8 DEF Wipe, AfterCommit, Tx, Unlock
  <2> QED BY <1>8, <2>1, <2>2, <2>3 DEF Wipe, Operation
<1>9. ASSUME NEW t \in Threads, ExecuteFails(t) PROVE TypeOK'
  BY <1>9, <1>0, EndingIsTyped DEF ExecuteFails, Operation, Tx, Unlock, Fault
<1>10. ASSUME NEW t \in Threads, BeginFails(t) PROVE TypeOK'
  BY <1>10, RaisingIsTyped DEF BeginFails, Operation
<1>11. ASSUME NEW t \in Threads, InsertRow(t) PROVE TypeOK'
  <2>1. op' \in [Threads -> Operation]
    BY <1>11, <1>0, MovingIsTyped DEF InsertRow, InTransaction
  <2>2. draft' = [db EXCEPT !.rows = @ \cup {op[t].pause}] /\ Recording(t)
    BY <1>11 DEF InsertRow, Write, At, Recording
  <2>3. draft' \in Content
    BY <2>2, InsertsAreTyped
  <2> QED BY <1>11, <2>1, <2>3 DEF InsertRow, Write, Operation, Tx
<1>12. ASSUME NEW t \in Threads, InsertTimesOut(t) PROVE TypeOK'
  BY <1>12, RaisingIsTyped DEF InsertTimesOut, Operation, Fault
<1>13. ASSUME NEW t \in Threads, InsertPending(t) PROVE TypeOK'
  <2>1. CASE draft.pend # 0
    BY <1>13, <2>1, RaisingIsTyped DEF InsertPending, Operation
  <2>2. CASE draft.pend = 0
    <3>1. op' \in [Threads -> Operation]
      BY <1>13, <1>0, <2>2, MovingIsTyped DEF InsertPending, InTransaction
    <3>2. draft' \in Content
      BY <1>13, <2>2, InsertsAreTyped DEF InsertPending, At, Recording
    <3> QED BY <1>13, <2>2, <3>1, <3>2 DEF InsertPending, Operation
  <2> QED BY <2>1, <2>2
<1>14. ASSUME NEW t \in Threads, SelectPending(t) PROVE TypeOK'
  <2>1. op' \in [Threads -> Operation]
    <3>1. CASE db.pend = 0
      BY <1>14, <1>0, <3>1, EndingIsTyped DEF SelectPending
    <3>2. CASE db.pend # 0
      <4>1. op[t] \in Operation /\ db.pend \in Pause
        BY <1>0, <3>2 DEF Content
      <4>2. op' = [op EXCEPT ![t] = [op[t] EXCEPT !.pc = "second", !.pause = db.pend]]
        BY <1>14, <3>2 DEF SelectPending
      <4>3. [op[t] EXCEPT !.pc = "second", !.pause = db.pend] \in Operation
        BY <4>1, SelectingIsTyped
      <4> QED BY <1>0, <4>2, <4>3
    <3> QED BY <3>1, <3>2
  <2> QED BY <1>14, <2>1 DEF SelectPending, Operation, Unlock, Tx
<1>15. ASSUME NEW t \in Threads, DeletePending(t) PROVE TypeOK'
  <2>1. CASE MayWrite(t)
    <3>1. op' \in [Threads -> Operation]
      BY <1>15, <1>0, <2>1, MovingIsTyped DEF DeletePending, InTransaction
    <3>2. [db EXCEPT !.pend = 0] \in Content
      BY DEF Content
    <3> QED BY <1>15, <2>1, <3>1, <3>2 DEF DeletePending, Write, Operation, Tx
  <2>2. CASE ~MayWrite(t)
    BY <1>15, <2>2, RaisingIsTyped DEF DeletePending, Operation
  <2> QED BY <2>1, <2>2
<1>16. ASSUME NEW t \in Threads, CommitTx(t) PROVE TypeOK'
  <2>1. op' \in [Threads -> Operation]
    BY <1>16, <1>0, EndingIsTyped DEF CommitTx
  <2>2. wins' \in [Pause -> Nat]
    <3>1. CASE op[t].kind = "claim"
      <4>1. wins' = [wins EXCEPT ![op[t].pause] = @ + 1] /\ wins \in [Pause -> Nat]
        BY <1>16, <3>1 DEF CommitTx
      <4> QED BY <4>1, CountingIsTyped
    <3>2. CASE op[t].kind # "claim"
      BY <1>16, <3>2 DEF CommitTx
    <3> QED BY <3>1, <3>2
  <2>3. tx' \in [Threads -> Tx] /\ lock' \in [Helpers -> Threads \cup {None}]
    BY <1>16 DEF CommitTx, AfterCommit, Tx, Unlock
  <2> QED BY <1>16, <2>1, <2>2, <2>3 DEF CommitTx, Operation
<1>17. ASSUME NEW t \in Threads, ConnectionGone(t) PROVE TypeOK'
  BY <1>17, RaisingIsTyped DEF ConnectionGone, Operation
<1>18. ASSUME NEW h \in Helpers, Close(h) PROVE TypeOK'
  BY <1>18 DEF Close, Fault, sqlite
<1>19. ASSUME NEW h \in Helpers, Free(h) PROVE TypeOK'
  BY <1>19 DEF Free, RollBack, Tx
<1>20. ASSUME NEW h \in Helpers, LeaveOpen(h) PROVE TypeOK'
  BY <1>20 DEF LeaveOpen, sqlite
<1>21. ASSUME NEW h \in Helpers, Reopen(h) PROVE TypeOK'
  BY <1>21 DEF Reopen, RollBack, Tx
<1>22. ASSUME NEW h \in Helpers, Crash(h) PROVE TypeOK'
  <2>1. Idle \in Operation
    BY DEF Idle, Operation
  <2>2. op' \in [Threads -> Operation]
    BY <1>22, <1>0, <2>1 DEF Crash
  <2> QED BY <1>22, <2>2 DEF Crash, RollBack, Fault, Operation, Tx
<1>23. ASSUME NEW t \in Threads, PutRefused(t) PROVE TypeOK'
  BY <1>23, <1>0, EndingIsTyped DEF PutRefused, Operation, Tx, Unlock, Fault
<1> QED
  BY <1>1, <1>2, <1>3, <1>4, <1>5, <1>6, <1>7, <1>8, <1>9, <1>10, <1>11, <1>12, <1>13,
     <1>14, <1>15, <1>16, <1>17, <1>18, <1>19, <1>20, <1>21, <1>22, <1>23 DEF Next, Step

\* The write lock is taken with the first write, and given back by the commit, a rollback or the
\* end of the connection.
LEMMA WriterNext == TypeOK /\ OneWriter /\ [Next]_vars => OneWriter'
<1> SUFFICES ASSUME TypeOK, OneWriter, [Next]_vars PROVE OneWriter'
  OBVIOUS
<1> USE StoreAssumption DEF TypeOK, OneWriter, Writing, Usable, At, Move, End, Lock,
         Unlock, Idle, Fault, Counted, Transaction, InTransaction
<1>1. CASE UNCHANGED vars
  BY <1>1 DEF vars, sqlite
<1>2. ASSUME NEW t \in Threads, NEW kind \in Counted \cup Transaction, Begin(t, kind)
      PROVE  OneWriter'
  BY <1>2 DEF Begin, sqlite
<1>3. ASSUME NEW t \in Threads, Closed(t) PROVE OneWriter'
  BY <1>3 DEF Closed, sqlite
<1>4. ASSUME NEW t \in Threads, Count(t) PROVE OneWriter'
  BY <1>4 DEF Count, sqlite
<1>5. ASSUME NEW t \in Threads, TakeLock(t) PROVE OneWriter'
  <2>1. UNCHANGED <<sqlite, state, home>> /\ \A u \in Threads \ {t} : op'[u] = op[u]
    BY <1>5 DEF TakeLock
  <2>2. /\ op[t].pc \in {"wait", "start"} /\ op'[t].pc \in {"run", "begin"}
        /\ op'[t].pc = "begin" => op'[t].kind \in Transaction
    BY <1>5 DEF TakeLock
  <2> QED BY <2>1, <2>2 DEF sqlite
<1>6. ASSUME NEW t \in Threads, Read(t) PROVE OneWriter'
  BY <1>6 DEF Read, sqlite
<1>7. ASSUME NEW t \in Threads, Put(t) PROVE OneWriter'
  BY <1>7 DEF Put, AfterCommit, MayWrite, sqlite
<1>8. ASSUME NEW t \in Threads, Wipe(t) PROVE OneWriter'
  BY <1>8 DEF Wipe, AfterCommit, MayWrite, sqlite
<1>9. ASSUME NEW t \in Threads, ExecuteFails(t) PROVE OneWriter'
  BY <1>9 DEF ExecuteFails, MayWrite, sqlite
<1>10. ASSUME NEW t \in Threads, BeginFails(t) PROVE OneWriter'
  BY <1>10 DEF BeginFails, Raise, RollBack, sqlite
<1>11. ASSUME NEW t \in Threads, InsertRow(t) PROVE OneWriter'
  BY <1>11 DEF InsertRow, Write, sqlite
<1>12. ASSUME NEW t \in Threads, InsertTimesOut(t) PROVE OneWriter'
  BY <1>12 DEF InsertTimesOut, Raise, RollBack, sqlite
<1>13. ASSUME NEW t \in Threads, InsertPending(t) PROVE OneWriter'
  BY <1>13 DEF InsertPending, Raise, RollBack, sqlite
<1>14. ASSUME NEW t \in Threads, SelectPending(t) PROVE OneWriter'
  BY <1>14 DEF SelectPending, sqlite
<1>15. ASSUME NEW t \in Threads, DeletePending(t) PROVE OneWriter'
  <2>1. CASE MayWrite(t)
    <3>0. DeletePending(t) /\ writer = None
      <4>1. op[t].pc = "second" /\ op[t].kind = "claim"
        BY <1>15 DEF DeletePending
      <4>2. writer # t
        BY <4>1
      <4> QED BY <1>15, <2>1, <4>2 DEF MayWrite
    <3>1. /\ writer = None /\ writer' = t /\ home' = home /\ state' = state
          /\ op' = [op EXCEPT ![t].pc = "commit"] /\ op[t].kind = "claim"
          /\ tx' = [tx EXCEPT ![t] = "fresh"]
      BY <2>1, <3>0 DEF DeletePending, Write
    <3>2. /\ op'[t].pc = "commit" /\ op'[t].kind = "claim" /\ tx'[t] = "fresh"
          /\ \A u \in Threads \ {t} : op'[u] = op[u] /\ tx'[u] = tx[u]
      BY <3>1
    <3> QED BY <3>1, <3>2
  <2>2. CASE ~MayWrite(t)
    BY <1>15, <2>2 DEF DeletePending, Raise, RollBack, sqlite
  <2> QED BY <2>1, <2>2
<1>16. ASSUME NEW t \in Threads, CommitTx(t) PROVE OneWriter'
  BY <1>16 DEF CommitTx, AfterCommit, sqlite
<1>17. ASSUME NEW t \in Threads, ConnectionGone(t) PROVE OneWriter'
  BY <1>17 DEF ConnectionGone, Raise, RollBack, sqlite
<1>18. ASSUME NEW h \in Helpers, Close(h) PROVE OneWriter'
  BY <1>18 DEF Close, sqlite
<1>19. ASSUME NEW h \in Helpers, Free(h) PROVE OneWriter'
  BY <1>19 DEF Free, RollBack, Users, InFlight, sqlite
<1>20. ASSUME NEW h \in Helpers, LeaveOpen(h) PROVE OneWriter'
  BY <1>20 DEF LeaveOpen, InFlight, Users, sqlite
<1>21. ASSUME NEW h \in Helpers, Reopen(h) PROVE OneWriter'
  BY <1>21 DEF Reopen, RollBack, Users, sqlite
<1>22. ASSUME NEW h \in Helpers, Crash(h) PROVE OneWriter'
  BY <1>22 DEF Crash, RollBack, Users, sqlite
<1>23. ASSUME NEW t \in Threads, PutRefused(t) PROVE OneWriter'
  BY <1>23 DEF PutRefused, MayWrite
<1> QED
  BY <1>1, <1>2, <1>3, <1>4, <1>5, <1>6, <1>7, <1>8, <1>9, <1>10, <1>11, <1>12, <1>13,
     <1>14, <1>15, <1>16, <1>17, <1>18, <1>19, <1>20, <1>21, <1>22, <1>23 DEF Next, Step

\* Nobody commits while another holds the write lock, so a draft keeps following what is
\* committed.
LEMMA DraftNext ==
    TypeOK /\ OneWriter /\ SnapshotHolds /\ DraftFollows /\ [Next]_vars => DraftFollows'
<1> SUFFICES ASSUME TypeOK, OneWriter, SnapshotHolds, DraftFollows, [Next]_vars
             PROVE  DraftFollows'
  OBVIOUS
<1> USE StoreAssumption DEF TypeOK, Content, OneWriter, DraftFollows, SnapshotHolds,
         Writing, Usable, At, Move, End, Lock, Unlock, Idle, Fault, Counted, Transaction,
         InTransaction
<1>1. CASE UNCHANGED vars
  BY <1>1 DEF vars, sqlite
<1>2. ASSUME NEW t \in Threads, NEW kind \in Counted \cup Transaction, Begin(t, kind)
      PROVE  DraftFollows'
  BY <1>2 DEF Begin, sqlite
<1>3. ASSUME NEW t \in Threads, Closed(t) PROVE DraftFollows'
  BY <1>3 DEF Closed, sqlite
<1>4. ASSUME NEW t \in Threads, Count(t) PROVE DraftFollows'
  BY <1>4 DEF Count, sqlite
<1>5. ASSUME NEW t \in Threads, TakeLock(t) PROVE DraftFollows'
  BY <1>5 DEF TakeLock, sqlite
<1>6. ASSUME NEW t \in Threads, Read(t) PROVE DraftFollows'
  BY <1>6 DEF Read, sqlite
<1>7. ASSUME NEW t \in Threads, Put(t) PROVE DraftFollows'
  BY <1>7 DEF Put, AfterCommit, MayWrite, sqlite
<1>8. ASSUME NEW t \in Threads, Wipe(t) PROVE DraftFollows'
  BY <1>8 DEF Wipe, AfterCommit, MayWrite, sqlite
<1>9. ASSUME NEW t \in Threads, ExecuteFails(t) PROVE DraftFollows'
  BY <1>9 DEF ExecuteFails, MayWrite, sqlite
<1>10. ASSUME NEW t \in Threads, BeginFails(t) PROVE DraftFollows'
  <2>1. op'[t].pc = "idle" /\ db' = db /\ writer' # t
    BY <1>10 DEF BeginFails, Raise, RollBack
  <2>2. \A u \in Threads \ {t} :
          op'[u] = op[u] /\ (writer' = u => writer = u /\ draft' = draft)
    BY <1>10 DEF BeginFails, Raise, RollBack
  <2> QED BY <2>1, <2>2
<1>11. ASSUME NEW t \in Threads, InsertRow(t) PROVE DraftFollows'
  <2>1. /\ writer' = t /\ db' = db /\ op[t].kind = "record"
        /\ draft' = [db EXCEPT !.rows = @ \cup {op[t].pause}]
        /\ op' = [op EXCEPT ![t].pc = "second"]
    BY <1>11 DEF InsertRow, Write
  <2>2. op'[t].pc = "second" /\ op'[t].kind = "record" /\ op'[t].pause = op[t].pause
    BY <2>1
  <2>3. draft' = [rows |-> db.rows \cup {op[t].pause}, pend |-> db.pend]
    BY <2>1
  <2> QED BY <2>1, <2>2, <2>3
<1>12. ASSUME NEW t \in Threads, InsertTimesOut(t) PROVE DraftFollows'
  <2>1. op'[t].pc = "idle" /\ db' = db /\ writer' # t
    BY <1>12 DEF InsertTimesOut, Raise, RollBack
  <2>2. \A u \in Threads \ {t} :
          op'[u] = op[u] /\ (writer' = u => writer = u /\ draft' = draft)
    BY <1>12 DEF InsertTimesOut, Raise, RollBack
  <2> QED BY <2>1, <2>2
<1>13. ASSUME NEW t \in Threads, InsertPending(t) PROVE DraftFollows'
  BY <1>13 DEF InsertPending, Raise, RollBack, sqlite
<1>14. ASSUME NEW t \in Threads, SelectPending(t) PROVE DraftFollows'
  BY <1>14 DEF SelectPending, sqlite
<1>15. ASSUME NEW t \in Threads, DeletePending(t) PROVE DraftFollows'
  <2>1. CASE MayWrite(t)
    BY <1>15, <2>1 DEF DeletePending, MayWrite, Write, sqlite
  <2>2. CASE ~MayWrite(t)
    BY <1>15, <2>2 DEF DeletePending, Raise, RollBack, sqlite
  <2> QED BY <2>1, <2>2
<1>16. ASSUME NEW t \in Threads, CommitTx(t) PROVE DraftFollows'
  BY <1>16 DEF CommitTx, AfterCommit, sqlite
<1>17. ASSUME NEW t \in Threads, ConnectionGone(t) PROVE DraftFollows'
  <2>1. op'[t].pc = "idle" /\ db' = db /\ writer' # t
    BY <1>17 DEF ConnectionGone, Raise, RollBack
  <2>2. \A u \in Threads \ {t} :
          op'[u] = op[u] /\ (writer' = u => writer = u /\ draft' = draft)
    BY <1>17 DEF ConnectionGone, Raise, RollBack
  <2> QED BY <2>1, <2>2
<1>18. ASSUME NEW h \in Helpers, Close(h) PROVE DraftFollows'
  BY <1>18 DEF Close, sqlite
<1>19. ASSUME NEW h \in Helpers, Free(h) PROVE DraftFollows'
  BY <1>19 DEF Free, RollBack, Users, InFlight, sqlite
<1>20. ASSUME NEW h \in Helpers, LeaveOpen(h) PROVE DraftFollows'
  BY <1>20 DEF LeaveOpen, InFlight, Users, sqlite
<1>21. ASSUME NEW h \in Helpers, Reopen(h) PROVE DraftFollows'
  <2>1. op' = op /\ db' = db /\ \A u \in Threads : writer' = u => writer = u /\ draft' = draft
    BY <1>21 DEF Reopen, RollBack
  <2> QED BY <2>1
<1>22. ASSUME NEW h \in Helpers, Crash(h) PROVE DraftFollows'
  BY <1>22 DEF Crash, RollBack, Users, sqlite
<1>23. ASSUME NEW t \in Threads, PutRefused(t) PROVE DraftFollows'
  BY <1>23 DEF PutRefused, MayWrite
<1> QED
  BY <1>1, <1>2, <1>3, <1>4, <1>5, <1>6, <1>7, <1>8, <1>9, <1>10, <1>11, <1>12, <1>13,
     <1>14, <1>15, <1>16, <1>17, <1>18, <1>19, <1>20, <1>21, <1>22, <1>23 DEF Next, Step

\* Whoever commits makes the snapshots of the others stale.
LEMMA SnapshotNext == TypeOK /\ OneWriter /\ SnapshotHolds /\ [Next]_vars => SnapshotHolds'
<1> SUFFICES ASSUME TypeOK, OneWriter, SnapshotHolds, [Next]_vars PROVE SnapshotHolds'
  OBVIOUS
<1> USE StoreAssumption DEF TypeOK, OneWriter, SnapshotHolds, Writing, Usable, At, Move,
         End, Lock, Unlock, Idle, Fault, Counted, Transaction, InTransaction
<1>1. CASE UNCHANGED vars
  BY <1>1 DEF vars, sqlite
<1>2. ASSUME NEW t \in Threads, NEW kind \in Counted \cup Transaction, Begin(t, kind)
      PROVE  SnapshotHolds'
  BY <1>2 DEF Begin, sqlite
<1>3. ASSUME NEW t \in Threads, Closed(t) PROVE SnapshotHolds'
  BY <1>3 DEF Closed, sqlite
<1>4. ASSUME NEW t \in Threads, Count(t) PROVE SnapshotHolds'
  BY <1>4 DEF Count, sqlite
<1>5. ASSUME NEW t \in Threads, TakeLock(t) PROVE SnapshotHolds'
  <2>1. \A u \in Threads : op'[u].pc = "second" => op'[u] = op[u]
    BY <1>5 DEF TakeLock
  <2> QED BY <1>5, <2>1 DEF TakeLock, sqlite
<1>6. ASSUME NEW t \in Threads, Read(t) PROVE SnapshotHolds'
  BY <1>6 DEF Read, sqlite
<1>7. ASSUME NEW t \in Threads, Put(t) PROVE SnapshotHolds'
  BY <1>7 DEF Put, AfterCommit, MayWrite, sqlite
<1>8. ASSUME NEW t \in Threads, Wipe(t) PROVE SnapshotHolds'
  BY <1>8 DEF Wipe, AfterCommit, MayWrite, sqlite
<1>9. ASSUME NEW t \in Threads, ExecuteFails(t) PROVE SnapshotHolds'
  BY <1>9 DEF ExecuteFails, MayWrite, sqlite
<1>10. ASSUME NEW t \in Threads, BeginFails(t) PROVE SnapshotHolds'
  BY <1>10 DEF BeginFails, Raise, RollBack, sqlite
<1>11. ASSUME NEW t \in Threads, InsertRow(t) PROVE SnapshotHolds'
  BY <1>11 DEF InsertRow, Write, sqlite
<1>12. ASSUME NEW t \in Threads, InsertTimesOut(t) PROVE SnapshotHolds'
  BY <1>12 DEF InsertTimesOut, Raise, RollBack, sqlite
<1>13. ASSUME NEW t \in Threads, InsertPending(t) PROVE SnapshotHolds'
  BY <1>13 DEF InsertPending, Raise, RollBack, sqlite
<1>14. ASSUME NEW t \in Threads, SelectPending(t) PROVE SnapshotHolds'
  BY <1>14 DEF SelectPending, sqlite
<1>15. ASSUME NEW t \in Threads, DeletePending(t) PROVE SnapshotHolds'
  <2>1. CASE MayWrite(t)
    BY <1>15, <2>1 DEF DeletePending, MayWrite, Write, sqlite
  <2>2. CASE ~MayWrite(t)
    BY <1>15, <2>2 DEF DeletePending, Raise, RollBack, sqlite
  <2> QED BY <2>1, <2>2
<1>16. ASSUME NEW t \in Threads, CommitTx(t) PROVE SnapshotHolds'
  BY <1>16 DEF CommitTx, AfterCommit, sqlite
<1>17. ASSUME NEW t \in Threads, ConnectionGone(t) PROVE SnapshotHolds'
  BY <1>17 DEF ConnectionGone, Raise, RollBack, sqlite
<1>18. ASSUME NEW h \in Helpers, Close(h) PROVE SnapshotHolds'
  BY <1>18 DEF Close, sqlite
<1>19. ASSUME NEW h \in Helpers, Free(h) PROVE SnapshotHolds'
  BY <1>19 DEF Free, RollBack, Users, InFlight, sqlite
<1>20. ASSUME NEW h \in Helpers, LeaveOpen(h) PROVE SnapshotHolds'
  BY <1>20 DEF LeaveOpen, InFlight, Users, sqlite
<1>21. ASSUME NEW h \in Helpers, Reopen(h) PROVE SnapshotHolds'
  BY <1>21 DEF Reopen, RollBack, Users, sqlite
<1>22. ASSUME NEW h \in Helpers, Crash(h) PROVE SnapshotHolds'
  BY <1>22 DEF Crash, RollBack, Users, sqlite
<1>23. ASSUME NEW t \in Threads, PutRefused(t) PROVE SnapshotHolds'
  BY <1>23 DEF PutRefused, MayWrite
<1> QED
  BY <1>1, <1>2, <1>3, <1>4, <1>5, <1>6, <1>7, <1>8, <1>9, <1>10, <1>11, <1>12, <1>13,
     <1>14, <1>15, <1>16, <1>17, <1>18, <1>19, <1>20, <1>21, <1>22, <1>23 DEF Next, Step

\* What a commit does to what is committed, and counts.
LEMMA CommitsWhat ==
    ASSUME TypeOK, OneWriter, DraftFollows, NEW t \in Threads, CommitTx(t)
    PROVE  /\ op' = [op EXCEPT ![t] = Idle] /\ UNCHANGED <<asked, torn>>
           /\ \/ /\ Recording(t) /\ db.pend = 0 /\ wins' = wins
                 /\ db' = [rows |-> db.rows \cup {op[t].pause}, pend |-> op[t].pause]
              \/ /\ db.pend # 0 /\ wins' = [wins EXCEPT ![db.pend] = @ + 1]
                 /\ db' = [rows |-> db.rows, pend |-> 0]
<1>1. /\ op' = [op EXCEPT ![t] = Idle] /\ UNCHANGED <<asked, torn>> /\ db' = draft
      /\ op[t].pc = "commit"
      /\ wins' = IF op[t].kind = "claim" THEN [wins EXCEPT ![op[t].pause] = @ + 1] ELSE wins
  BY DEF CommitTx, End
<1>2. writer = t /\ op[t].kind \in {"record", "claim"}
  BY <1>1 DEF CommitTx, OneWriter, Writing, Usable, InTransaction, Transaction
<1>3. CASE op[t].kind = "record"
  BY <1>1, <1>2, <1>3 DEF DraftFollows, At, Recording
<1>4. CASE op[t].kind = "claim"
  BY <1>1, <1>2, <1>4 DEF DraftFollows, At
<1> QED BY <1>2, <1>3, <1>4

\* What a statement of delete_execution does.
LEMMA WipesWhat ==
    ASSUME TypeOK, NEW t \in Threads, Wipe(t)
    PROVE  /\ UNCHANGED <<wins, asked>> /\ ~Recording(t)
           /\ \A u \in Threads \ {t} : op'[u] = op[u]
           /\ op'[t].kind \in {"none", "wipe"}
           /\ \/ db' = [db EXCEPT !.rows = {}] /\ torn'
              \/ db' = [db EXCEPT !.pend = 0] /\ (~torn' => db.rows = {})
              \/ UNCHANGED <<db, torn>>
<1>1. UNCHANGED <<wins, asked>> /\ ~Recording(t)
  BY DEF Wipe, At, Recording
<1>2. (\A u \in Threads \ {t} : op'[u] = op[u]) /\ op'[t].kind \in {"none", "wipe"}
  BY DEF Wipe, At, TypeOK, End, Idle
<1>3. \/ db' = [db EXCEPT !.rows = {}] /\ torn'
      \/ db' = [db EXCEPT !.pend = 0] /\ (~torn' => db.rows = {})
      \/ UNCHANGED <<db, torn>>
  BY DEF Wipe
<1> QED BY <1>1, <1>2, <1>3

Committing == \E t \in Threads : Wipe(t) \/ CommitTx(t)

\* Whoever records a pause now did so before.
SameRecorders == \A u \in Threads : Recording(u)' => Recording(u) /\ op'[u].pause = op[u].pause

\* Nothing else changes what is committed.
CommitsNothing ==
    /\ UNCHANGED <<db, wins, torn>>
    /\ \/ UNCHANGED asked /\ SameRecorders
       \/ \E t \in Threads :
            /\ asked' = asked + 1 /\ asked < MaxPauses
            /\ \A u \in Threads \ {t} : op'[u] = op[u]
            /\ op'[t].pause = asked'

\* So it is after a move, and after an end.
LEMMA MovingKeeps ==
    ASSUME op \in [Threads -> Operation], NEW t \in Threads, NEW pc, Move(t, pc)
    PROVE  SameRecorders
<1>1. \A u \in Threads : op'[u] = IF u = t THEN [op[t] EXCEPT !.pc = pc] ELSE op[u]
  BY DEF Move
<1>2. op[t] \in Operation
  OBVIOUS
<1>3. [op[t] EXCEPT !.pc = pc].kind = op[t].kind /\ [op[t] EXCEPT !.pc = pc].pause = op[t].pause
  BY <1>2 DEF Operation
<1> QED BY <1>1, <1>3 DEF SameRecorders, Recording

LEMMA EndingKeeps ==
    ASSUME op \in [Threads -> Operation], NEW t \in Threads, End(t)
    PROVE  SameRecorders
<1>1. \A u \in Threads : op'[u] = IF u = t THEN Idle ELSE op[u]
  BY DEF End
<1>2. Idle.kind # "record"
  BY DEF Idle
<1> QED BY <1>1, <1>2 DEF SameRecorders, Recording

\* Every other step leaves the committed rows, and at most begins to record one more pause.
LEMMA OthersCommitNothing == TypeOK /\ [Next]_vars => CommitsNothing \/ Committing
<1> SUFFICES ASSUME TypeOK, [Next]_vars PROVE CommitsNothing \/ Committing
  OBVIOUS
<1> USE DEF TypeOK, CommitsNothing
<1>0. op \in [Threads -> Operation]
  BY DEF Operation
<1>1. CASE UNCHANGED vars
  BY <1>1 DEF vars, sqlite, SameRecorders, Recording
<1>2. ASSUME NEW t \in Threads, NEW kind \in Counted \cup Transaction, Begin(t, kind)
      PROVE  CommitsNothing \/ Committing
  <2>0. \A u \in Threads \ {t} : op'[u] = op[u]
    BY <1>2, <1>0 DEF Begin
  <2>1. CASE kind = "record"
    BY <1>2, <1>0, <2>0, <2>1 DEF Begin, sqlite
  <2>2. CASE kind # "record"
    <3>1. op'[t].kind # "record"
      BY <1>2, <1>0, <2>2 DEF Begin
    <3>2. SameRecorders
      BY <2>0, <3>1 DEF SameRecorders, Recording
    <3> QED BY <1>2, <2>2, <3>2 DEF Begin, sqlite
  <2> QED BY <2>1, <2>2
<1>3. ASSUME NEW t \in Threads, Closed(t) PROVE CommitsNothing \/ Committing
  BY <1>3, <1>0, EndingKeeps DEF Closed, sqlite
<1>4. ASSUME NEW t \in Threads, Count(t) PROVE CommitsNothing \/ Committing
  BY <1>4, <1>0, MovingKeeps DEF Count, sqlite
<1>5. ASSUME NEW t \in Threads, TakeLock(t) PROVE CommitsNothing \/ Committing
  BY <1>5, <1>0, MovingKeeps DEF TakeLock, sqlite
<1>6. ASSUME NEW t \in Threads, Read(t) PROVE CommitsNothing \/ Committing
  BY <1>6, <1>0, EndingKeeps DEF Read, sqlite
<1>7. ASSUME NEW t \in Threads, Put(t) PROVE CommitsNothing \/ Committing
  BY <1>7, <1>0, EndingKeeps DEF Put, sqlite
<1>8. ASSUME NEW t \in Threads, Wipe(t) PROVE CommitsNothing \/ Committing
  BY <1>8 DEF Committing
<1>9. ASSUME NEW t \in Threads, ExecuteFails(t) PROVE CommitsNothing \/ Committing
  BY <1>9, <1>0, EndingKeeps DEF ExecuteFails, sqlite
<1>10. ASSUME NEW t \in Threads, BeginFails(t) PROVE CommitsNothing \/ Committing
  BY <1>10, <1>0, EndingKeeps DEF BeginFails, Raise
<1>11. ASSUME NEW t \in Threads, InsertRow(t) PROVE CommitsNothing \/ Committing
  BY <1>11, <1>0, MovingKeeps DEF InsertRow, sqlite
<1>12. ASSUME NEW t \in Threads, InsertTimesOut(t) PROVE CommitsNothing \/ Committing
  BY <1>12, <1>0, EndingKeeps DEF InsertTimesOut, Raise
<1>13. ASSUME NEW t \in Threads, InsertPending(t) PROVE CommitsNothing \/ Committing
  BY <1>13, <1>0, MovingKeeps, EndingKeeps DEF InsertPending, Raise
<1>14. ASSUME NEW t \in Threads, SelectPending(t) PROVE CommitsNothing \/ Committing
  <2>1. CASE db.pend = 0
    BY <1>14, <1>0, <2>1, EndingKeeps DEF SelectPending
  <2>2. CASE db.pend # 0
    <3>1. /\ op' = [op EXCEPT ![t].pc = "second", ![t].pause = db.pend]
          /\ op[t].kind = "claim"
      BY <1>14, <2>2 DEF SelectPending, At
    <3>2. op'[t].kind = "claim" /\ \A u \in Threads \ {t} : op'[u] = op[u]
      BY <1>0, <3>1 DEF Operation
    <3>3. SameRecorders
      BY <3>2 DEF SameRecorders, Recording
    <3> QED BY <1>14, <3>3 DEF SelectPending
  <2> QED BY <2>1, <2>2
<1>15. ASSUME NEW t \in Threads, DeletePending(t) PROVE CommitsNothing \/ Committing
  BY <1>15, <1>0, MovingKeeps, EndingKeeps DEF DeletePending, Raise
<1>16. ASSUME NEW t \in Threads, CommitTx(t) PROVE CommitsNothing \/ Committing
  BY <1>16 DEF Committing
<1>17. ASSUME NEW t \in Threads, ConnectionGone(t) PROVE CommitsNothing \/ Committing
  BY <1>17, <1>0, EndingKeeps DEF ConnectionGone, Raise
<1>18. ASSUME NEW h \in Helpers, Close(h) PROVE CommitsNothing \/ Committing
  BY <1>18 DEF Close, SameRecorders, Recording, sqlite
<1>19. ASSUME NEW h \in Helpers, Free(h) PROVE CommitsNothing \/ Committing
  BY <1>19 DEF Free, SameRecorders, Recording, sqlite
<1>20. ASSUME NEW h \in Helpers, LeaveOpen(h) PROVE CommitsNothing \/ Committing
  BY <1>20 DEF LeaveOpen, SameRecorders, Recording, sqlite
<1>21. ASSUME NEW h \in Helpers, Reopen(h) PROVE CommitsNothing \/ Committing
  BY <1>21 DEF Reopen, SameRecorders, Recording, sqlite
<1>22. ASSUME NEW h \in Helpers, Crash(h) PROVE CommitsNothing \/ Committing
  BY <1>22 DEF Crash, SameRecorders, Recording, Idle
<1>23. ASSUME NEW t \in Threads, PutRefused(t) PROVE CommitsNothing \/ Committing
  BY <1>23, <1>0, EndingKeeps DEF PutRefused
<1> QED
  BY <1>1, <1>2, <1>3, <1>4, <1>5, <1>6, <1>7, <1>8, <1>9, <1>10, <1>11, <1>12, <1>13,
     <1>14, <1>15, <1>16, <1>17, <1>18, <1>19, <1>20, <1>21, <1>22, <1>23 DEF Next, Step

\* A number is given out once, and a pause that is pending was not claimed.
LEMMA NewNext ==
    TypeOK /\ OneWriter /\ DraftFollows /\ PausesAreNew /\ [Next]_vars => PausesAreNew'
<1> SUFFICES ASSUME TypeOK, OneWriter, DraftFollows, PausesAreNew, [Next]_vars
             PROVE  PausesAreNew'
  OBVIOUS
<1>0. /\ wins \in [Pause -> Nat] /\ asked \in Nat /\ op \in [Threads -> Operation]
      /\ db.pend \in {0} \cup Pause /\ db.rows \subseteq Pause
  BY StoreAssumption DEF TypeOK, Operation, Content, Pause
<1>1. ASSUME CommitsNothing PROVE PausesAreNew'
  <2>1. CASE UNCHANGED asked /\ SameRecorders
    BY <1>1, <2>1 DEF CommitsNothing, PausesAreNew, SameRecorders, Recording
  <2>2. ASSUME NEW t \in Threads, asked' = asked + 1, asked < MaxPauses,
               \A u \in Threads \ {t} : op'[u] = op[u], op'[t].pause = asked'
        PROVE  PausesAreNew'
    <3>1. asked' \in Pause /\ wins[asked'] = 0 /\ asked' \notin db.rows /\ asked' # db.pend
      BY <1>0, <2>2, StoreAssumption DEF PausesAreNew, Pause
    <3>2. UNCHANGED <<db, wins>>
      BY <1>1 DEF CommitsNothing
    <3>3. \A u \in Threads : Recording(u) => op[u].pause \in 1..asked
      BY DEF PausesAreNew
    <3>4. \A u \in Threads \ {t} : Recording(u)' <=> Recording(u)
      BY <2>2 DEF Recording
    <3>5. ASSUME NEW u \in Threads, Recording(u)'
          PROVE  /\ op'[u].pause \in 1..asked' /\ op'[u].pause \notin db.rows
                 /\ op'[u].pause # db.pend /\ wins[op'[u].pause] = 0
      <4>1. CASE u = t
        BY <1>0, <2>2, <3>1, <4>1
      <4>2. CASE u # t
        BY <1>0, <2>2, <3>4, <3>5, <4>2 DEF PausesAreNew
      <4> QED BY <4>1, <4>2
    <3>6. ASSUME NEW u \in Threads, NEW v \in Threads, Recording(u)', Recording(v)',
                 op'[v].pause = op'[u].pause
          PROVE  v = u
      <4>1. \A w \in Threads \ {t} : Recording(w)' => op'[w].pause # asked'
        BY <1>0, <2>2, <3>3, <3>4
      <4>2. CASE u # t /\ v # t
        BY <2>2, <3>4, <3>6, <4>2 DEF PausesAreNew
      <4> QED BY <2>2, <3>6, <4>1, <4>2
    <3>7. db.rows \subseteq 1..asked' /\ db.pend <= asked'
      BY <1>0, <2>2, StoreAssumption DEF PausesAreNew, Pause
    <3>8. \A p \in Pause : wins[p] # 0 => p <= asked'
      BY <1>0, <2>2, StoreAssumption DEF PausesAreNew, Pause
    <3> QED BY <3>2, <3>5, <3>6, <3>7, <3>8 DEF PausesAreNew
  <2> QED BY <1>1, <2>1, <2>2 DEF CommitsNothing
<1>2. ASSUME NEW t \in Threads, Wipe(t) PROVE PausesAreNew'
  <2>1. /\ UNCHANGED <<wins, asked>> /\ ~Recording(t)
        /\ \A u \in Threads \ {t} : op'[u] = op[u]
        /\ op'[t].kind \in {"none", "wipe"}
    BY <1>2, WipesWhat
  <2>2. db'.rows \subseteq db.rows /\ db'.pend \in {0, db.pend}
    BY <1>2, WipesWhat DEF TypeOK, Content
  <2> QED BY <1>0, <2>1, <2>2 DEF PausesAreNew, Recording
<1>3. ASSUME NEW t \in Threads, CommitTx(t) PROVE PausesAreNew'
  <2>1. op' = [op EXCEPT ![t] = Idle] /\ asked' = asked
    BY <1>3, CommitsWhat
  <2>2. ~Recording(t)' /\ \A u \in Threads \ {t} : op'[u] = op[u]
    BY <1>0, <2>1 DEF Recording, Idle
  <2>3. CASE /\ Recording(t) /\ wins' = wins
             /\ db' = [rows |-> db.rows \cup {op[t].pause}, pend |-> op[t].pause]
    <3>1. db'.rows = db.rows \cup {op[t].pause} /\ db'.pend = op[t].pause
      BY <2>3
    <3> QED BY <1>0, <2>1, <2>2, <2>3, <3>1 DEF PausesAreNew, Recording
  <2>4. CASE /\ db.pend # 0 /\ wins' = [wins EXCEPT ![db.pend] = @ + 1]
             /\ db' = [rows |-> db.rows, pend |-> 0]
    <3>1. db'.rows = db.rows /\ db'.pend = 0
      BY <2>4
    <3>2. \A p \in Pause : p # db.pend => wins'[p] = wins[p]
      BY <1>0, <2>4
    <3>3. db.pend \in Pause /\ db.pend <= asked
      BY <1>0, <2>4 DEF PausesAreNew
    <3>4. \A u \in Threads : Recording(u) => op[u].pause \in Pause
      BY <1>0 DEF PausesAreNew, Pause, TypeOK
    <3> QED BY <1>0, <2>1, <2>2, <3>1, <3>2, <3>3, <3>4 DEF PausesAreNew, Recording
  <2> QED BY <1>3, <2>3, <2>4, CommitsWhat
<1> QED BY <1>1, <1>2, <1>3, OthersCommitNothing DEF Committing

\* A claim counts the pending pause, which no claim had before.
LEMMA OnceNext ==
    TypeOK /\ OneWriter /\ DraftFollows /\ PausesAreNew /\ ClaimedOnce /\ [Next]_vars
      => ClaimedOnce'
<1> SUFFICES ASSUME TypeOK, OneWriter, DraftFollows, PausesAreNew, ClaimedOnce, [Next]_vars
             PROVE  ClaimedOnce'
  OBVIOUS
<1>0. wins \in [Pause -> Nat]
  BY DEF TypeOK
<1>1. ASSUME wins' = wins PROVE ClaimedOnce'
  BY <1>1 DEF ClaimedOnce
<1>2. ASSUME NEW t \in Threads, CommitTx(t) PROVE ClaimedOnce'
  <2>1. CASE db.pend # 0 /\ wins' = [wins EXCEPT ![db.pend] = @ + 1]
    <3>1. wins[db.pend] = 0
      BY <2>1 DEF PausesAreNew
    <3> QED BY <1>0, <2>1, <3>1 DEF ClaimedOnce
  <2> QED BY <1>1, <1>2, <2>1, CommitsWhat
<1> QED BY <1>1, <1>2, OthersCommitNothing, WipesWhat DEF CommitsNothing, Committing

\* A pause becomes pending with its row, and stops to be with its claim.
LEMMA WholeNext ==
    TypeOK /\ OneWriter /\ DraftFollows /\ PausesAreNew /\ PauseWhole /\ [Next]_vars
      => PauseWhole'
<1> SUFFICES ASSUME TypeOK, OneWriter, DraftFollows, PausesAreNew, PauseWhole, [Next]_vars
             PROVE  PauseWhole'
  OBVIOUS
<1>0. wins \in [Pause -> Nat] /\ db.pend \in {0} \cup Pause /\ db.rows \subseteq Pause
  BY DEF TypeOK, Content
<1>1. ASSUME UNCHANGED <<db, wins, torn>> PROVE PauseWhole'
  BY <1>1 DEF PauseWhole
<1>2. ASSUME NEW t \in Threads, Wipe(t) PROVE PauseWhole'
  <2>1. CASE db' = [db EXCEPT !.rows = {}] /\ torn'
    BY <2>1 DEF PauseWhole
  <2>2. CASE db' = [db EXCEPT !.pend = 0] /\ (~torn' => db.rows = {})
    <3>1. db'.pend = 0 /\ db'.rows = db.rows
      BY <2>2 DEF TypeOK, Content
    <3> QED BY <2>2, <3>1 DEF PauseWhole
  <2> QED BY <1>1, <1>2, <2>1, <2>2, WipesWhat
<1>3. ASSUME NEW t \in Threads, CommitTx(t) PROVE PauseWhole'
  <2>0. torn' = torn
    BY <1>3, CommitsWhat
  <2>1. CASE /\ Recording(t) /\ db.pend = 0 /\ wins' = wins
             /\ db' = [rows |-> db.rows \cup {op[t].pause}, pend |-> op[t].pause]
    <3>1. db'.rows = db.rows \cup {op[t].pause} /\ db'.pend = op[t].pause
      BY <2>1
    <3>2. wins[op[t].pause] = 0
      BY <2>1 DEF PausesAreNew
    <3>3. \A p \in db.rows : p # 0
      BY <1>0 DEF Pause
    <3> QED BY <2>0, <2>1, <3>1, <3>2, <3>3 DEF PauseWhole
  <2>2. CASE /\ db.pend # 0 /\ wins' = [wins EXCEPT ![db.pend] = @ + 1]
             /\ db' = [rows |-> db.rows, pend |-> 0]
    <3>1. db'.rows = db.rows /\ db'.pend = 0
      BY <2>2
    <3>2. wins'[db.pend] = 1
      BY <1>0, <2>2 DEF PausesAreNew
    <3>3. \A p \in Pause : p # db.pend => wins'[p] = wins[p]
      BY <1>0, <2>2
    <3> QED BY <1>0, <2>0, <3>1, <3>2, <3>3 DEF PauseWhole
  <2> QED BY <1>3, <2>1, <2>2, CommitsWhat
<1> QED BY <1>1, <1>2, <1>3, OthersCommitNothing DEF CommitsNothing, Committing

----------------------------------------------------------------------------
(* The theorems *)

LEMMA InitInv == Init => Inv
<1> SUFFICES ASSUME Init PROVE Inv
  OBVIOUS
<1> USE StoreAssumption
<1>1. db = [rows |-> {}, pend |-> 0] /\ draft = db /\ db \in Content
  BY DEF Init, Content
<1>2. \A t \in Threads : op[t] = Idle
  BY DEF Init
<1>3. op \in [Threads -> Operation]
  BY DEF Init, Idle, Operation
<1>4. TypeOK
  BY <1>1, <1>3 DEF Init, TypeOK, Tx, Operation
<1>5. \A t \in Threads : op[t].kind = "none" /\ op[t].pc = "idle"
  BY <1>2 DEF Idle
<1>6. OneWriter /\ DraftFollows /\ SnapshotHolds
  BY <1>1, <1>5 DEF Init, OneWriter, DraftFollows, SnapshotHolds, At, Writing, InTransaction
<1>7. \A p \in Pause : wins[p] = 0
  BY DEF Init
<1>8. PausesAreNew /\ ClaimedOnce /\ PauseWhole
  BY <1>1, <1>5, <1>7 DEF Init, PausesAreNew, ClaimedOnce, PauseWhole, Recording
<1> QED BY <1>4, <1>6, <1>8 DEF Inv

LEMMA Invariance == Spec => []Inv
<1>1. Inv /\ [Next]_vars => Inv'
  BY TypeNext, WriterNext, DraftNext, SnapshotNext, NewNext, OnceNext, WholeNext DEF Inv
<1> QED BY InitInv, <1>1, PTL DEF Spec

\* Every variable of the store keeps to what the code can put there.
THEOREM StoreTypeCorrect == Spec => []TypeOK
<1>1. Inv => TypeOK
  BY DEF Inv
<1> QED BY Invariance, <1>1, PTL

\* delete_pending_interrupt_atomic hands a pause to one resumer, whichever threads, helpers
\* and processes claim it, and whatever crashes, closes and refused writes come between.
THEOREM PausesAreClaimedOnce == Spec => []ClaimedOnce
<1>1. Inv => ClaimedOnce
  BY DEF Inv
<1> QED BY Invariance, <1>1, PTL

\* record_interrupt and delete_pending_interrupt_atomic keep the row of a pause and its
\* pending row together: whatever fails, no pause is left that no answer can reach, until a
\* delete_execution is cut short.
THEOREM PausesAreWhole == Spec => []PauseWhole
<1>1. Inv => PauseWhole
  BY DEF Inv
<1> QED BY Invariance, <1>1, PTL

\* The connections of a helper are freed with no counted statement in flight, and none begins
\* until it is opened again.
LEMMA CloseNext == TypeOK /\ CloseWaits /\ [Next]_vars => CloseWaits'
<1> SUFFICES ASSUME TypeOK, CloseWaits, [Next]_vars PROVE CloseWaits'
  OBVIOUS
<1> USE DEF TypeOK, CloseWaits, At, Move, End, Lock, Unlock, Idle, Fault, Counted,
         Transaction, InTransaction
<1>1. CASE UNCHANGED vars
  BY <1>1 DEF vars, sqlite
<1>2. ASSUME NEW t \in Threads, NEW kind \in Counted \cup Transaction, Begin(t, kind)
      PROVE  CloseWaits'
  BY <1>2 DEF Begin, sqlite
<1>3. ASSUME NEW t \in Threads, Closed(t) PROVE CloseWaits'
  BY <1>3 DEF Closed, sqlite
<1>4. ASSUME NEW t \in Threads, Count(t) PROVE CloseWaits'
  BY <1>4 DEF Count, sqlite
<1>5. ASSUME NEW t \in Threads, TakeLock(t) PROVE CloseWaits'
  BY <1>5 DEF TakeLock, sqlite
<1>6. ASSUME NEW t \in Threads, Read(t) PROVE CloseWaits'
  BY <1>6 DEF Read, sqlite
<1>7. ASSUME NEW t \in Threads, Put(t) PROVE CloseWaits'
  BY <1>7 DEF Put, AfterCommit, MayWrite, sqlite
<1>8. ASSUME NEW t \in Threads, Wipe(t) PROVE CloseWaits'
  BY <1>8 DEF Wipe, AfterCommit, MayWrite, sqlite
<1>9. ASSUME NEW t \in Threads, ExecuteFails(t) PROVE CloseWaits'
  BY <1>9 DEF ExecuteFails, MayWrite, sqlite
<1>10. ASSUME NEW t \in Threads, BeginFails(t) PROVE CloseWaits'
  BY <1>10 DEF BeginFails, Raise, RollBack, sqlite
<1>11. ASSUME NEW t \in Threads, InsertRow(t) PROVE CloseWaits'
  BY <1>11 DEF InsertRow, Write, sqlite
<1>12. ASSUME NEW t \in Threads, InsertTimesOut(t) PROVE CloseWaits'
  BY <1>12 DEF InsertTimesOut, Raise, RollBack, sqlite
<1>13. ASSUME NEW t \in Threads, InsertPending(t) PROVE CloseWaits'
  BY <1>13 DEF InsertPending, Raise, RollBack, sqlite
<1>14. ASSUME NEW t \in Threads, SelectPending(t) PROVE CloseWaits'
  BY <1>14 DEF SelectPending, sqlite
<1>15. ASSUME NEW t \in Threads, DeletePending(t) PROVE CloseWaits'
  <2>1. CASE MayWrite(t)
    BY <1>15, <2>1 DEF DeletePending, MayWrite, Write, sqlite
  <2>2. CASE ~MayWrite(t)
    BY <1>15, <2>2 DEF DeletePending, Raise, RollBack, sqlite
  <2> QED BY <2>1, <2>2
<1>16. ASSUME NEW t \in Threads, CommitTx(t) PROVE CloseWaits'
  BY <1>16 DEF CommitTx, AfterCommit, sqlite
<1>17. ASSUME NEW t \in Threads, ConnectionGone(t) PROVE CloseWaits'
  BY <1>17 DEF ConnectionGone, Raise, RollBack, sqlite
<1>18. ASSUME NEW h \in Helpers, Close(h) PROVE CloseWaits'
  BY <1>18 DEF Close, sqlite
<1>19. ASSUME NEW h \in Helpers, Free(h) PROVE CloseWaits'
  BY <1>19 DEF Free, RollBack, Users, InFlight, sqlite
<1>20. ASSUME NEW h \in Helpers, LeaveOpen(h) PROVE CloseWaits'
  BY <1>20 DEF LeaveOpen, InFlight, Users, sqlite
<1>21. ASSUME NEW h \in Helpers, Reopen(h) PROVE CloseWaits'
  BY <1>21 DEF Reopen, RollBack, Users, sqlite
<1>22. ASSUME NEW h \in Helpers, Crash(h) PROVE CloseWaits'
  BY <1>22 DEF Crash, RollBack, Users, sqlite
<1>23. ASSUME NEW t \in Threads, PutRefused(t) PROVE CloseWaits'
  BY <1>23 DEF PutRefused
<1> QED
  BY <1>1, <1>2, <1>3, <1>4, <1>5, <1>6, <1>7, <1>8, <1>9, <1>10, <1>11, <1>12, <1>13,
     <1>14, <1>15, <1>16, <1>17, <1>18, <1>19, <1>20, <1>21, <1>22, <1>23 DEF Next, Step

\* SQLiteHelper.close() frees no connection under a counted statement that runs or waits for
\* the lock, however many threads use the helper.
THEOREM ConnectionsOutliveStatements == Spec => []CloseWaits
<1>1. Init => CloseWaits
  BY DEF Init, CloseWaits, Idle
<1>2. TypeOK /\ CloseWaits /\ [Next]_vars => CloseWaits'
  BY CloseNext
<1> QED BY StoreTypeCorrect, <1>1, <1>2, PTL DEF Spec
=============================================================================
