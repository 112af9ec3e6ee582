----------------------- MODULE CheckpointOutboxProofs -----------------------
(***************************************************************************)
(* Theorems about CheckpointOutbox, for any number of stores, rows, poison *)
(* rows and faults and any batch size: the types, and that a row stops     *)
(* being sent only when it is at the plane or the plane refuses it.        *)
(***************************************************************************)
EXTENDS CheckpointOutbox, TLAPS

\* The locals of a drain that is not running.
LEMMA NoDrainIsADrain == NoDrain \in Drains
BY DEF NoDrain, Drains

\* A drain starts with no answers.
LEMMA StartIsADrain ==
    ASSUME NEW flush \in BOOLEAN
    PROVE  /\ Start(flush) \in Drains
           /\ Start(flush).synced = {} /\ Start(flush).quarantined = {}
<1>1. NoDrain.synced = {} /\ NoDrain.quarantined = {}
  BY DEF NoDrain
<1> QED BY <1>1, NoDrainIsADrain DEF Start, Drains

\* fetch_unsynced returns rows.
LEMMA OldestAreRows == ASSUME TypeOK PROVE Oldest \subseteq Row
BY OutboxAssumption DEF Oldest, Buffered, TypeOK, Row

\* Dropping the batch just answered, or splitting it in two.
LEMMA TodoIsTyped ==
    ASSUME NEW todo \in Seq(SUBSET Row), todo # <<>>
    PROVE  /\ Head(todo) \subseteq Row /\ Tail(todo) \in Seq(SUBSET Row)
           /\ \A a, b \in SUBSET Row : <<a, b>> \o Tail(todo) \in Seq(SUBSET Row)
<1>1. Head(todo) \subseteq Row /\ Tail(todo) \in Seq(SUBSET Row)
  OBVIOUS
<1>2. ASSUME NEW a \in SUBSET Row, NEW b \in SUBSET Row
      PROVE  <<a, b>> \o Tail(todo) \in Seq(SUBSET Row)
  <2>1. <<a, b>> \in Seq(SUBSET Row)
    OBVIOUS
  <2> QED BY <1>1, <2>1
<1> QED BY <1>1, <1>2

Inv == TypeOK /\ AnswersAreRight /\ SettledRightly

\* A step of the drain of s that marks nothing keeps the invariant, if the answers it has
\* then are right ones and the plane forgets nothing.
LEMMA DrainStep ==
    ASSUME Inv, NEW s \in Stores, NEW d \in Drains, drain' = [drain EXCEPT ![s] = d],
           UNCHANGED <<written, status, connected>>,
           plane \subseteq plane', plane' \subseteq Row,
           d.synced \subseteq plane', d.quarantined \subseteq Poison,
           kicks' \in [Stores -> Nat], faults' \in Nat,
           flushing' \in [on : BOOLEAN, left : SUBSET Stores]
    PROVE  Inv'
<1>1. TypeOK'
  BY DEF Inv, TypeOK
<1>2. drain'[s] = d /\ \A t \in Stores : t # s => drain'[t] = drain[t]
  BY DEF Inv, TypeOK
<1>3. AnswersAreRight'
  BY <1>2 DEF Inv, AnswersAreRight
<1>4. SettledRightly'
  BY DEF Inv, SettledRightly
<1> QED BY <1>1, <1>3, <1>4 DEF Inv

\* A step that moves no drain and marks nothing.
LEMMA QuietStep ==
    ASSUME Inv, UNCHANGED <<status, plane, drain>>,
           written' \in 0..Last, connected' \in BOOLEAN,
           kicks' \in [Stores -> Nat], faults' \in Nat,
           flushing' \in [on : BOOLEAN, left : SUBSET Stores]
    PROVE  Inv'
<1>1. TypeOK'
  BY DEF Inv, TypeOK
<1>2. AnswersAreRight' /\ SettledRightly'
  BY DEF Inv, AnswersAreRight, SettledRightly
<1> QED BY <1>1, <1>2 DEF Inv

\* No row is settled yet.
LEMMA InvInit == Init => Inv
<1> SUFFICES ASSUME Init PROVE Inv
  OBVIOUS
<1>1. TypeOK
  <2>1. drain \in [Stores -> Drains]
    BY NoDrainIsADrain DEF Init
  <2>2. kicks \in [Stores -> Nat] /\ status \in [Row -> Status]
    BY DEF Init, Status
  <2>3. flushing \in [on : BOOLEAN, left : SUBSET Stores]
    BY OutboxAssumption DEF Init, NoFlush
  <2>4. written \in 0..Last
    BY OutboxAssumption DEF Init
  <2> QED BY <2>1, <2>2, <2>3, <2>4 DEF Init, TypeOK
<1>2. AnswersAreRight /\ SettledRightly
  BY DEF Init, AnswersAreRight, SettledRightly, NoDrain
<1> QED BY <1>1, <1>2 DEF Inv

\* One case per action of Next.
LEMMA InvNext == Inv /\ [Next]_vars => Inv'
<1> SUFFICES ASSUME Inv, [Next]_vars PROVE Inv'
  OBVIOUS
<1>0. TypeOK
  BY DEF Inv
<1>1. CASE UNCHANGED vars
  BY <1>1 DEF vars, conn, Inv, TypeOK, AnswersAreRight, SettledRightly
<1>2. CASE Connect
  <2>1. kicks' \in [Stores -> Nat]
    BY <1>0, <1>2 DEF Connect, TypeOK
  <2> QED BY <1>0, <1>2, <2>1, QuietStep DEF Connect, TypeOK
<1>3. CASE Disconnect
  <2>1. flushing' \in [on : BOOLEAN, left : SUBSET Stores]
    BY <1>0, <1>3 DEF Disconnect, TypeOK
  <2> QED BY <1>0, <1>3, <2>1, QuietStep DEF Disconnect, Fault, TypeOK
<1>4. CASE TearDown
  <2>1. NoFlush \in [on : BOOLEAN, left : SUBSET Stores]
    BY OutboxAssumption DEF NoFlush
  <2> QED BY <1>0, <1>4, <2>1, QuietStep DEF TearDown, TypeOK
<1>5. CASE Crash
  <2>1. TypeOK'
    <3>1. drain' \in [Stores -> Drains]
      BY <1>5, NoDrainIsADrain DEF Crash
    <3>2. NoFlush \in [on : BOOLEAN, left : SUBSET Stores]
      BY OutboxAssumption DEF NoFlush
    <3>3. kicks' \in [Stores -> Nat] /\ faults' \in Nat
      BY <1>0, <1>5 DEF Crash, Fault, TypeOK
    <3> QED BY <1>0, <1>5, <3>1, <3>2, <3>3 DEF Crash, TypeOK
  <2>2. AnswersAreRight' /\ SettledRightly'
    BY <1>5 DEF Crash, NoDrain, Inv, AnswersAreRight, SettledRightly
  <2> QED BY <2>1, <2>2 DEF Inv
<1>6. ASSUME NEW s \in Stores, Put(s)
      PROVE  Inv'
  <2>1. written' \in 0..Last
    BY <1>0, <1>6, OutboxAssumption DEF Put, TypeOK
  <2>2. kicks' \in [Stores -> Nat]
    BY <1>0, <1>6 DEF Put, TypeOK
  <2> QED BY <1>0, <1>6, <2>1, <2>2, QuietStep DEF Put, conn, TypeOK
<1> USE <1>0
<1>7. ASSUME NEW s \in Stores, TryLock(s)
      PROVE  Inv'
  <2>1. kicks' \in [Stores -> Nat]
    BY <1>7 DEF TryLock, TypeOK
  <2>2. CASE connected /\ drain[s].pc = "off"
    <3>1. Start(FALSE) \in Drains /\ Start(FALSE).synced = {} /\ Start(FALSE).quarantined = {}
      BY StartIsADrain
    <3>2. drain' = [drain EXCEPT ![s] = Start(FALSE)]
      BY <1>7, <2>2 DEF TryLock
    <3> QED BY <1>7, <2>1, <3>1, <3>2, DrainStep DEF TryLock, conn, TypeOK
  <2>3. CASE ~(connected /\ drain[s].pc = "off")
    BY <1>7, <2>1, <2>3, QuietStep DEF TryLock, conn, TypeOK
  <2> QED BY <2>2, <2>3
<1>8. ASSUME NEW s \in Stores, FlushStore(s)
      PROVE  Inv'
  <2>1. flushing' \in [on : BOOLEAN, left : SUBSET Stores]
    BY <1>8 DEF FlushStore, TypeOK
  <2>2. CASE drain[s].pc = "off"
    <3>1. Start(TRUE) \in Drains /\ Start(TRUE).synced = {} /\ Start(TRUE).quarantined = {}
      BY StartIsADrain
    <3>2. drain' = [drain EXCEPT ![s] = Start(TRUE)]
      BY <1>8, <2>2 DEF FlushStore
    <3> QED BY <1>8, <2>1, <3>1, <3>2, DrainStep DEF FlushStore, TypeOK
  <2>3. CASE drain[s].pc # "off"
    BY <1>8, <2>1, <2>3, QuietStep DEF FlushStore, TypeOK
  <2> QED BY <2>2, <2>3
<1>9. \A s \in Stores : drain[s] \in Drains /\ drain[s].synced \subseteq plane
                        /\ drain[s].quarantined \subseteq Poison
  BY DEF Inv, TypeOK, AnswersAreRight
<1>10. ASSUME NEW s \in Stores, Off(s), UNCHANGED <<written, status, plane, conn, kicks>>,
              faults' \in Nat
       PROVE  Inv'
  <2>1. NoDrain \in Drains /\ NoDrain.synced = {} /\ NoDrain.quarantined = {}
    BY NoDrainIsADrain DEF NoDrain
  <2> QED BY <1>10, <2>1, DrainStep DEF Off, conn, TypeOK
<1>11. ASSUME NEW s \in Stores, Fetch(s)
       PROVE  Inv'
  <2>1. CASE Oldest = {}
    BY <1>10, <1>11, <2>1 DEF Fetch, conn, TypeOK
  <2>2. CASE Oldest # {}
    <3> DEFINE d == [drain[s] EXCEPT !.pc = "post", !.batch = Oldest, !.todo = <<Oldest>>]
    <3>1. d \in Drains /\ d.synced = drain[s].synced /\ d.quarantined = drain[s].quarantined
      <4>1. Oldest \in SUBSET Row
        BY OldestAreRows
      <4> DEFINE todo == <<Oldest>>
      <4>2. todo \in Seq(SUBSET Row)
        BY <4>1
      <4> HIDE DEF todo
      <4>3. [drain[s] EXCEPT !.pc = "post", !.batch = Oldest, !.todo = todo] \in Drains
        BY <1>9, <4>1, <4>2 DEF Drains
      <4>4. d \in Drains
        BY <4>3 DEF todo
      <4> QED BY <1>9, <4>4 DEF Drains
    <3>2. drain' = [drain EXCEPT ![s] = d]
      BY <1>11, <2>2 DEF Fetch
    <3> HIDE DEF d
    <3> QED BY <1>9, <1>11, <3>1, <3>2, DrainStep DEF Fetch, conn, TypeOK
  <2> QED BY <2>1, <2>2
<1>12. ASSUME NEW s \in Stores, Accepted(s)
       PROVE  Inv'
  <2> DEFINE b == Head(drain[s].todo)
             d == [drain[s] EXCEPT !.todo = Tail(drain[s].todo),
                     !.synced = drain[s].synced \cup (b \ Poison),
                     !.quarantined = drain[s].quarantined \cup (b \cap Poison)]
  <2>1. b \subseteq Row /\ Tail(drain[s].todo) \in Seq(SUBSET Row)
    BY <1>9, <1>12, TodoIsTyped DEF Accepted, Drains
  <2>2. /\ d.synced = drain[s].synced \cup (b \ Poison)
        /\ d.quarantined = drain[s].quarantined \cup (b \cap Poison)
    BY <1>9 DEF Drains
  <2>3. d \in Drains
    <3> HIDE DEF b
    <3> QED BY <1>9, <2>1 DEF Drains
  <2>4. drain' = [drain EXCEPT ![s] = d] /\ plane' = plane \cup (b \ Poison)
    BY <1>12 DEF Accepted
  <2> HIDE DEF d, b
  <2> QED BY <1>9, <1>12, <2>1, <2>2, <2>3, <2>4, DrainStep DEF Accepted, conn, TypeOK
<1>13. ASSUME NEW s \in Stores, Refused(s)
       PROVE  Inv'
  <2> DEFINE b == Head(drain[s].todo)
             alone == [drain[s] EXCEPT !.todo = Tail(drain[s].todo),
                         !.quarantined = drain[s].quarantined \cup b]
             split == [drain[s] EXCEPT
                         !.todo = <<FirstHalf(b), b \ FirstHalf(b)>> \o Tail(drain[s].todo)]
  <2>1. /\ b \subseteq Row /\ Tail(drain[s].todo) \in Seq(SUBSET Row)
        /\ \A x, y \in SUBSET Row : <<x, y>> \o Tail(drain[s].todo) \in Seq(SUBSET Row)
    BY <1>9, <1>13, TodoIsTyped DEF Refused, Drains
  <2>2. FirstHalf(b) \in SUBSET Row /\ b \ FirstHalf(b) \in SUBSET Row
    BY <2>1 DEF FirstHalf
  <2>3. UNCHANGED <<written, status, plane, conn, kicks, faults>> /\ b \cap Poison # {}
    BY <1>13 DEF Refused
  <2>4. CASE \E r \in b : b = {r}
    <3>1. b \subseteq Poison
      BY <2>3, <2>4
    <3>2. alone.synced = drain[s].synced /\ alone.quarantined = drain[s].quarantined \cup b
      BY <1>9 DEF Drains
    <3>3. alone \in Drains
      <4> HIDE DEF b
      <4> QED BY <1>9, <2>1 DEF Drains
    <3>4. drain' = [drain EXCEPT ![s] = alone]
      BY <1>13, <2>4 DEF Refused
    <3> HIDE DEF alone, b
    <3> QED BY <1>9, <2>3, <3>1, <3>2, <3>3, <3>4, DrainStep DEF conn, TypeOK
  <2>5. CASE ~(\E r \in b : b = {r})
    <3>1. split.synced = drain[s].synced /\ split.quarantined = drain[s].quarantined
      BY <1>9 DEF Drains
    <3>2. <<FirstHalf(b), b \ FirstHalf(b)>> \o Tail(drain[s].todo) \in Seq(SUBSET Row)
      BY <2>1, <2>2
    <3>3. split \in Drains
      <4> DEFINE todo == <<FirstHalf(b), b \ FirstHalf(b)>> \o Tail(drain[s].todo)
      <4> HIDE DEF todo
      <4>1. todo \in Seq(SUBSET Row)
        BY <3>2 DEF todo
      <4>2. [drain[s] EXCEPT !.todo = todo] \in Drains
        BY <1>9, <4>1 DEF Drains
      <4> QED BY <4>2 DEF todo
    <3>4. drain' = [drain EXCEPT ![s] = split]
      BY <1>13, <2>5 DEF Refused
    <3> HIDE DEF split, b
    <3> QED BY <1>9, <2>3, <3>1, <3>3, <3>4, DrainStep DEF conn, TypeOK
  <2> QED BY <2>4, <2>5
<1>14. ASSUME NEW s \in Stores, RetryLater(s)
       PROVE  Inv'
  <2> DEFINE b == Head(drain[s].todo)
             d == [drain[s] EXCEPT !.todo = Tail(drain[s].todo)]
  <2>1. b \subseteq Row /\ Tail(drain[s].todo) \in Seq(SUBSET Row)
    BY <1>9, <1>14, TodoIsTyped DEF RetryLater, Drains
  <2>2. d \in Drains /\ d.synced = drain[s].synced /\ d.quarantined = drain[s].quarantined
    BY <1>9, <2>1 DEF Drains
  <2>3. drain' = [drain EXCEPT ![s] = d]
    BY <1>14 DEF RetryLater
  <2>4. plane \subseteq plane' /\ plane' \subseteq Row /\ faults' \in Nat
    <3> HIDE DEF b
    <3>1. /\ plane' = plane \/ plane' = plane \cup (b \ Poison)
          /\ faults' = faults \/ faults' = faults + 1
      BY <1>14 DEF RetryLater, Fault, b
    <3> QED BY <2>1, <3>1 DEF TypeOK
  <2> HIDE DEF d
  <2> QED BY <1>9, <1>14, <2>2, <2>3, <2>4, DrainStep DEF RetryLater, conn, TypeOK
<1>15. ASSUME NEW s \in Stores, NEW d \in Drains, NEW S \in SUBSET Row,
              NEW mark \in {"synced", "parked"},
              mark = "synced" => S \subseteq plane, mark = "parked" => S \subseteq Poison,
              d.synced \subseteq plane, d.quarantined \subseteq Poison,
              status' = [r \in Row |-> IF r \in S THEN mark ELSE status[r]],
              drain' = [drain EXCEPT ![s] = d],
              UNCHANGED <<written, plane, conn, kicks, faults>>
       PROVE  Inv'
  <2>1. status' \in [Row -> Status]
    BY <1>15 DEF TypeOK, Status
  <2>2. TypeOK'
    BY <1>15, <2>1 DEF TypeOK, conn
  <2>3. AnswersAreRight'
    BY <1>15 DEF Inv, TypeOK, AnswersAreRight
  <2>4. SettledRightly'
    BY <1>15 DEF Inv, SettledRightly
  <2> QED BY <2>2, <2>3, <2>4 DEF Inv
<1>16. ASSUME NEW s \in Stores, MarkSynced(s)
       PROVE  Inv'
  <2> DEFINE d == [drain[s] EXCEPT !.pc = "park"]
  <2>1. d \in Drains /\ d.synced = drain[s].synced /\ d.quarantined = drain[s].quarantined
    BY <1>9 DEF Drains
  <2>2. drain[s].synced \in SUBSET Row
    BY <1>9 DEF Drains
  <2>3. drain' = [drain EXCEPT ![s] = d]
    BY <1>16 DEF MarkSynced
  <2> HIDE DEF d
  <2> QED BY <1>9, <1>15, <1>16, <2>1, <2>2, <2>3 DEF MarkSynced
<1>17. ASSUME NEW s \in Stores, MarkQuarantined(s)
       PROVE  Inv'
  <2>1. PICK d \in {NoDrain, Start(drain[s].flush)} : drain' = [drain EXCEPT ![s] = d]
    BY <1>17 DEF MarkQuarantined, Off
  <2>2. d \in Drains /\ d.synced = {} /\ d.quarantined = {}
    <3>1. drain[s].flush \in BOOLEAN
      BY <1>9 DEF Drains
    <3>2. NoDrain.synced = {} /\ NoDrain.quarantined = {}
      BY DEF NoDrain
    <3> QED BY <3>1, <3>2, NoDrainIsADrain, StartIsADrain
  <2>3. drain[s].quarantined \in SUBSET Row
    BY <1>9 DEF Drains
  <2> QED BY <1>9, <1>15, <1>17, <2>1, <2>2, <2>3 DEF MarkQuarantined
<1>18. ASSUME NEW s \in Stores, StoreFails(s)
       PROVE  Inv'
  <2>1. faults' \in Nat
    BY <1>18 DEF StoreFails, Fault, TypeOK
  <2> QED BY <1>10, <1>18, <2>1 DEF StoreFails
<1> QED
  BY <1>1, <1>2, <1>3, <1>4, <1>5, <1>6, <1>7, <1>8, <1>11, <1>12, <1>13, <1>14, <1>16,
     <1>17, <1>18 DEF Next, Drain

\* Every variable keeps its type, for any number of stores and rows.
THEOREM OutboxTypeCorrect == Spec => []TypeOK
<1>1. Inv => TypeOK
  BY DEF Inv
<1> QED BY <1>1, InvInit, InvNext, PTL DEF Spec

\* Whatever drains run at once, whatever answers are lost and wherever a process dies, a
\* row leaves the outbox only if the plane has it or refuses the row itself.
THEOREM OutboxSettlesRightly == Spec => []SettledRightly
<1>1. Inv => SettledRightly
  BY DEF Inv
<1> QED BY <1>1, InvInit, InvNext, PTL DEF Spec
=============================================================================
