------------------------ MODULE RelayControl_proofs ------------------------
(***************************************************************************)
(* Proofs about RelayControl, for every set of threads, every number of    *)
(* start attempts and every bound on requests.                             *)
(***************************************************************************)
EXTENDS RelayControl, TLAPS

\* The inductive invariant: no conjunct is inductive alone.  TypeOK needs the
\* press counts, those need the thread's place, and the button needs the lock.
IInv ==
  /\ TypeOK
  /\ LockDiscipline
  /\ ButtonFollowsHolder
  /\ SequenceFits
  /\ NothingOutlives

USE DEF Sequenced, Jobs, Driving, Critical, Points, EventTypes

\* The press counts are natural numbers: two per attempt, or one.
LEMMA PressesOfType ==
  ASSUME NEW j \in Jobs
  PROVE  PressesOf(j) \in 1 .. 2 * MaxStartRetries
  BY RetriesAssumption DEF PressesOf

\* Recording an event of a known type keeps the log a log.
LEMMA RecordType ==
  ASSUME TypeOK, NEW n \in 0 .. MaxRequests, NEW type \in EventTypes, Record(type, n)
  PROVE  events' \in Seq([type : EventTypes, request : 0 .. MaxRequests])
<1>1. [type |-> type, request |-> n] \in [type : EventTypes, request : 0 .. MaxRequests]
  OBVIOUS
<1>2. Append(events, [type |-> type, request |-> n])
        \in Seq([type : EventTypes, request : 0 .. MaxRequests])
  BY <1>1 DEF TypeOK
<1>3. QED
  BY <1>2 DEF TypeOK, Record

\* Initially every thread is idle and the relay released.
LEMMA InitIInv == Init => IInv
<1> SUFFICES ASSUME Init PROVE IInv
  OBVIOUS
<1>1. TypeOK
  <2>1. 0 \in 0 .. 2 * MaxStartRetries /\ 0 \in 0 .. MaxRequests
    BY RetriesAssumption, RequestsAssumption
  <2>2. events \in Seq([type : EventTypes, request : 0 .. MaxRequests])
    BY DEF Init
  <2>3. QED
    BY <2>1, <2>2 DEF Init, TypeOK
<1>2. LockDiscipline
  BY ThreadsAssumption DEF Init, LockDiscipline
<1>3. ButtonFollowsHolder
  BY DEF Init, ButtonFollowsHolder
<1>4. SequenceFits /\ NothingOutlives
  BY DEF Init, SequenceFits, NothingOutlives
<1>5. QED
  BY <1>1, <1>2, <1>3, <1>4 DEF IInv

\* Serving one more request keeps the bound and gives the thread a known job
\* and the next number.
LEMMA AcceptType ==
  ASSUME TypeOK, NEW t \in Threads, NEW j \in Jobs, Accept(t, j)
  PROVE  /\ requests' \in 0 .. MaxRequests
         /\ requests + 1 \in 0 .. MaxRequests
         /\ job' \in [Threads -> Jobs]
         /\ serial' \in [Threads -> 0 .. MaxRequests]
<1>1. requests' \in 0 .. MaxRequests /\ requests + 1 \in 0 .. MaxRequests
  BY RequestsAssumption DEF TypeOK, Accept
<1>2. job' \in [Threads -> Jobs]
  BY DEF TypeOK, Accept
<1>3. serial' \in [Threads -> 0 .. MaxRequests]
  BY <1>1 DEF TypeOK, Accept
<1>4. QED
  BY <1>1, <1>2, <1>3

\* Every step keeps every variable in its type.
LEMMA TypeOKStep ==
  ASSUME IInv, [Next]_vars
  PROVE  TypeOK'
<1> USE DEF IInv
<1>1. ASSUME NEW t \in Threads, ApiStart(t)
      PROVE  TypeOK'
  <2>1. /\ requests' \in 0 .. MaxRequests
        /\ requests + 1 \in 0 .. MaxRequests
        /\ job' \in [Threads -> Jobs]
        /\ serial' \in [Threads -> 0 .. MaxRequests]
    BY <1>1, AcceptType DEF ApiStart
  <2>2. events' \in Seq([type : EventTypes, request : 0 .. MaxRequests])
    BY <1>1, <2>1, RecordType DEF ApiStart, TypeOK
  <2>3. pc' \in [Threads -> Points]
    BY <1>1 DEF ApiStart, Goto, TypeOK
  <2>4. QED
    BY <1>1, <2>1, <2>2, <2>3 DEF ApiStart, TypeOK
<1>2. ASSUME NEW t \in Threads, ApiStop(t)
      PROVE  TypeOK'
  <2>1. /\ requests' \in 0 .. MaxRequests
        /\ requests + 1 \in 0 .. MaxRequests
        /\ job' \in [Threads -> Jobs]
        /\ serial' \in [Threads -> 0 .. MaxRequests]
    BY <1>2, AcceptType DEF ApiStop
  <2>2. pc' \in [Threads -> Points]
    BY <1>2 DEF ApiStop, Goto, TypeOK
  <2>3. presses' \in [Threads -> 0 .. 2 * MaxStartRetries]
    BY <1>2, RetriesAssumption DEF ApiStop, TypeOK
  <2>4. QED
    BY <1>2, <2>1, <2>2, <2>3 DEF ApiStop, TypeOK
<1>3. ASSUME NEW t \in Threads, NEW b \in BOOLEAN, ApiSetRunning(t, b)
      PROVE  TypeOK'
  <2>1. /\ requests' \in 0 .. MaxRequests
        /\ requests + 1 \in 0 .. MaxRequests
        /\ job' \in [Threads -> Jobs]
        /\ serial' \in [Threads -> 0 .. MaxRequests]
    BY <1>3, AcceptType DEF ApiSetRunning
  <2>2. pc' \in [Threads -> Points]
    BY <1>3 DEF ApiSetRunning, Goto, TypeOK
  <2>3. QED
    BY <1>3, <2>1, <2>2 DEF ApiSetRunning, TypeOK
<1>4. ASSUME NEW t \in Threads, ApiFactoryReset(t)
      PROVE  TypeOK'
  <2>1. /\ requests' \in 0 .. MaxRequests
        /\ requests + 1 \in 0 .. MaxRequests
        /\ job' \in [Threads -> Jobs]
        /\ serial' \in [Threads -> 0 .. MaxRequests]
    BY <1>4, AcceptType DEF ApiFactoryReset
  <2>2. events' \in Seq([type : EventTypes, request : 0 .. MaxRequests])
    <3>1. events' = events \/ events' = <<>>
      BY <1>4 DEF ApiFactoryReset
    <3>2. <<>> \in Seq([type : EventTypes, request : 0 .. MaxRequests])
      OBVIOUS
    <3>3. QED
      BY <3>1, <3>2 DEF TypeOK
  <2>3. pc' \in [Threads -> Points]
    BY <1>4 DEF ApiFactoryReset, Goto, TypeOK
  <2>4. QED
    BY <1>4, <2>1, <2>2, <2>3 DEF ApiFactoryReset, TypeOK
<1>5. ASSUME NEW t \in Threads, ResetState(t)
      PROVE  TypeOK'
  BY <1>5 DEF ResetState, Goto, TypeOK, SequenceFits, NothingOutlives
<1>6. ASSUME NEW t \in Threads, RecordOverride(t)
      PROVE  TypeOK'
  <2>1. ClosingEvent(job[t]) \in EventTypes
    BY <1>6 DEF RecordOverride, SequenceFits, ClosingEvent
  <2>2. events' \in Seq([type : EventTypes, request : 0 .. MaxRequests])
    BY <1>6, <2>1, RecordType DEF RecordOverride, TypeOK
  <2>3. pc' \in [Threads -> Points]
    BY <1>6 DEF RecordOverride, Goto, TypeOK
  <2>4. QED
    BY <1>6, <2>1, <2>2, <2>3 DEF RecordOverride, TypeOK
<1>7. ASSUME NEW t \in Threads, AcquireForStart(t)
      PROVE  TypeOK'
  <2>1. events' \in Seq([type : EventTypes, request : 0 .. MaxRequests])
    BY <1>7, RecordType DEF AcquireForStart, TypeOK
  <2>2. pc' \in [Threads -> Points]
    BY <1>7 DEF AcquireForStart, Goto, TypeOK
  <2>3. QED
    BY <1>7, <2>1, <2>2 DEF AcquireForStart, TypeOK
<1>8. ASSUME NEW t \in Threads, CheckRunning(t)
      PROVE  TypeOK'
  <2>1. events' \in Seq([type : EventTypes, request : 0 .. MaxRequests])
    BY <1>8, RecordType DEF CheckRunning, TypeOK
  <2>2. pc' \in [Threads -> Points]
    BY <1>8 DEF CheckRunning, Goto, TypeOK
  <2>3. presses' \in [Threads -> 0 .. 2 * MaxStartRetries]
    <3>1. 0 \in 0 .. 2 * MaxStartRetries
      BY RetriesAssumption
    <3>2. presses' = presses \/ presses' = [presses EXCEPT ![t] = 0]
      BY <1>8 DEF CheckRunning
    <3>3. QED
      BY <3>1, <3>2 DEF TypeOK
  <2>4. QED
    BY <1>8, <2>1, <2>2, <2>3 DEF CheckRunning, TypeOK
<1>9. ASSUME NEW t \in Threads, AnnounceStart(t)
      PROVE  TypeOK'
  <2>1. events' \in Seq([type : EventTypes, request : 0 .. MaxRequests])
    BY <1>9, RecordType DEF AnnounceStart, TypeOK
  <2>2. pc' \in [Threads -> Points]
    BY <1>9 DEF AnnounceStart, Goto, TypeOK
  <2>3. QED
    BY <1>9, <2>1, <2>2 DEF AnnounceStart, TypeOK
<1>10. ASSUME NEW t \in Threads, Press(t)
      PROVE  TypeOK'
  <2>1. pc' \in [Threads -> Points]
    BY <1>10 DEF Press, Goto, TypeOK
  <2>2. presses' \in [Threads -> 0 .. 2 * MaxStartRetries]
    <3>1. CASE proc = "closing"
      BY <1>10, <3>1 DEF Press, TypeOK
    <3>2. CASE proc = "serving"
      <4>1. job[t] \in Jobs /\ presses[t] \in Nat /\ presses[t] < PressesOf(job[t])
        BY <1>10 DEF Press, TypeOK, SequenceFits
      <4>2. PressesOf(job[t]) \in 1 .. 2 * MaxStartRetries
        BY <4>1, PressesOfType
      <4>3. presses[t] + 1 \in 0 .. 2 * MaxStartRetries
        BY <4>1, <4>2, RetriesAssumption
      <4>4. QED
        BY <1>10, <3>2, <4>3 DEF Press, TypeOK
    <3>3. QED
      BY <1>10, <3>1, <3>2 DEF Press
  <2>3. QED
    BY <1>10, <2>1, <2>2 DEF Press, TypeOK
<1>11. ASSUME NEW t \in Threads, Lift(t)
      PROVE  TypeOK'
  BY <1>11 DEF Lift, Goto, TypeOK, SequenceFits, NothingOutlives
<1>12. ASSUME NEW t \in Threads, Commit(t)
      PROVE  TypeOK'
  BY <1>12 DEF Commit, Goto, TypeOK, SequenceFits, NothingOutlives
<1>13. ASSUME NEW t \in Threads, RecordDone(t)
      PROVE  TypeOK'
  <2>1. ClosingEvent(job[t]) \in EventTypes
    BY <1>13 DEF RecordDone, SequenceFits, ClosingEvent
  <2>2. events' \in Seq([type : EventTypes, request : 0 .. MaxRequests])
    BY <1>13, <2>1, RecordType DEF RecordDone, TypeOK
  <2>3. pc' \in [Threads -> Points]
    BY <1>13 DEF RecordDone, Goto, TypeOK
  <2>4. QED
    BY <1>13, <2>1, <2>2, <2>3 DEF RecordDone, TypeOK
<1>14. ASSUME NEW t \in Threads, Release(t)
      PROVE  TypeOK'
  BY <1>14 DEF Release, Goto, TypeOK, SequenceFits, NothingOutlives
<1>15. CASE CloseDevice
  BY <1>15, ThreadsAssumption DEF CloseDevice, TypeOK, NothingOutlives
<1>16. CASE Exit
  BY <1>16, ThreadsAssumption DEF Exit, TypeOK, NothingOutlives
<1>17. CASE Boot
  BY <1>17, ThreadsAssumption DEF Boot, TypeOK, NothingOutlives
<1>18. CASE UNCHANGED vars
  BY <1>18 DEF vars, TypeOK
<1>19. QED
  BY <1>1, <1>2, <1>3, <1>4, <1>5, <1>6, <1>7, <1>8, <1>9, <1>10, <1>11, <1>12, <1>13, <1>14, <1>15, <1>16, <1>17, <1>18 DEF Next, Request, Step

\* Every step keeps the lock with the one thread inside a sequence.
LEMMA LockDisciplineStep ==
  ASSUME IInv, [Next]_vars
  PROVE  LockDiscipline'
<1> USE DEF IInv, TypeOK, LockDiscipline, NothingOutlives
<1>1. ASSUME NEW t \in Threads, ApiStart(t)
      PROVE  LockDiscipline'
  BY <1>1 DEF ApiStart, Accept, Goto
<1>2. ASSUME NEW t \in Threads, ApiStop(t)
      PROVE  LockDiscipline'
  BY <1>2, ThreadsAssumption DEF ApiStop, Accept, Goto
<1>3. ASSUME NEW t \in Threads, NEW b \in BOOLEAN, ApiSetRunning(t, b)
      PROVE  LockDiscipline'
  BY <1>3 DEF ApiSetRunning, Accept, Goto
<1>4. ASSUME NEW t \in Threads, ApiFactoryReset(t)
      PROVE  LockDiscipline'
  BY <1>4 DEF ApiFactoryReset, Accept, Goto
<1>5. ASSUME NEW t \in Threads, ResetState(t)
      PROVE  LockDiscipline'
  BY <1>5 DEF ResetState, Goto
<1>6. ASSUME NEW t \in Threads, RecordOverride(t)
      PROVE  LockDiscipline'
  BY <1>6 DEF RecordOverride, Goto
<1>7. ASSUME NEW t \in Threads, AcquireForStart(t)
      PROVE  LockDiscipline'
  BY <1>7, ThreadsAssumption DEF AcquireForStart, Goto
<1>8. ASSUME NEW t \in Threads, CheckRunning(t)
      PROVE  LockDiscipline'
  BY <1>8 DEF CheckRunning, Goto
<1>9. ASSUME NEW t \in Threads, AnnounceStart(t)
      PROVE  LockDiscipline'
  BY <1>9 DEF AnnounceStart, Goto
<1>10. ASSUME NEW t \in Threads, Press(t)
      PROVE  LockDiscipline'
  BY <1>10 DEF Press, Goto
<1>11. ASSUME NEW t \in Threads, Lift(t)
      PROVE  LockDiscipline'
  BY <1>11 DEF Lift, Goto
<1>12. ASSUME NEW t \in Threads, Commit(t)
      PROVE  LockDiscipline'
  BY <1>12 DEF Commit, Goto
<1>13. ASSUME NEW t \in Threads, RecordDone(t)
      PROVE  LockDiscipline'
  BY <1>13 DEF RecordDone, Goto
<1>14. ASSUME NEW t \in Threads, Release(t)
      PROVE  LockDiscipline'
  BY <1>14, ThreadsAssumption DEF Release, Goto
<1>15. CASE CloseDevice
  BY <1>15 DEF CloseDevice
<1>16. CASE Exit
  BY <1>16, ThreadsAssumption DEF Exit
<1>17. CASE Boot
  BY <1>17, ThreadsAssumption DEF Boot
<1>18. CASE UNCHANGED vars
  BY <1>18 DEF vars
<1>19. QED
  BY <1>1, <1>2, <1>3, <1>4, <1>5, <1>6, <1>7, <1>8, <1>9, <1>10, <1>11, <1>12, <1>13, <1>14, <1>15, <1>16, <1>17, <1>18 DEF Next, Request, Step

\* Every step keeps the button with the lock holder's press, and nothing outlives the process.
LEMMA ButtonStep ==
  ASSUME IInv, [Next]_vars
  PROVE  (ButtonFollowsHolder /\ NothingOutlives)'
<1> USE DEF IInv, TypeOK, LockDiscipline, ButtonFollowsHolder, NothingOutlives
<1>1. ASSUME NEW t \in Threads, ApiStart(t)
      PROVE  (ButtonFollowsHolder /\ NothingOutlives)'
  BY <1>1 DEF ApiStart, Accept, Goto
<1>2. ASSUME NEW t \in Threads, ApiStop(t)
      PROVE  (ButtonFollowsHolder /\ NothingOutlives)'
  BY <1>2, ThreadsAssumption DEF ApiStop, Accept, Goto
<1>3. ASSUME NEW t \in Threads, NEW b \in BOOLEAN, ApiSetRunning(t, b)
      PROVE  (ButtonFollowsHolder /\ NothingOutlives)'
  BY <1>3 DEF ApiSetRunning, Accept, Goto
<1>4. ASSUME NEW t \in Threads, ApiFactoryReset(t)
      PROVE  (ButtonFollowsHolder /\ NothingOutlives)'
  BY <1>4 DEF ApiFactoryReset, Accept, Goto
<1>5. ASSUME NEW t \in Threads, ResetState(t)
      PROVE  (ButtonFollowsHolder /\ NothingOutlives)'
  BY <1>5 DEF ResetState, Goto
<1>6. ASSUME NEW t \in Threads, RecordOverride(t)
      PROVE  (ButtonFollowsHolder /\ NothingOutlives)'
  BY <1>6 DEF RecordOverride, Goto
<1>7. ASSUME NEW t \in Threads, AcquireForStart(t)
      PROVE  (ButtonFollowsHolder /\ NothingOutlives)'
  BY <1>7, ThreadsAssumption DEF AcquireForStart, Goto
<1>8. ASSUME NEW t \in Threads, CheckRunning(t)
      PROVE  (ButtonFollowsHolder /\ NothingOutlives)'
  BY <1>8 DEF CheckRunning, Goto
<1>9. ASSUME NEW t \in Threads, AnnounceStart(t)
      PROVE  (ButtonFollowsHolder /\ NothingOutlives)'
  BY <1>9 DEF AnnounceStart, Goto
<1>10. ASSUME NEW t \in Threads, Press(t)
      PROVE  (ButtonFollowsHolder /\ NothingOutlives)'
  <2>1. relay_lock = t /\ relay_lock' = t
    BY <1>10 DEF Press
  <2>2. ButtonFollowsHolder'
    BY <1>10, <2>1, ThreadsAssumption DEF Press, Goto
  <2>3. NothingOutlives'
    BY <1>10 DEF Press, Goto
  <2>4. QED
    BY <2>2, <2>3
<1>11. ASSUME NEW t \in Threads, Lift(t)
      PROVE  (ButtonFollowsHolder /\ NothingOutlives)'
  BY <1>11 DEF Lift, Goto
<1>12. ASSUME NEW t \in Threads, Commit(t)
      PROVE  (ButtonFollowsHolder /\ NothingOutlives)'
  BY <1>12 DEF Commit, Goto
<1>13. ASSUME NEW t \in Threads, RecordDone(t)
      PROVE  (ButtonFollowsHolder /\ NothingOutlives)'
  BY <1>13 DEF RecordDone, Goto
<1>14. ASSUME NEW t \in Threads, Release(t)
      PROVE  (ButtonFollowsHolder /\ NothingOutlives)'
  BY <1>14, ThreadsAssumption DEF Release, Goto
<1>15. CASE CloseDevice
  BY <1>15 DEF CloseDevice
<1>16. CASE Exit
  BY <1>16, ThreadsAssumption DEF Exit
<1>17. CASE Boot
  BY <1>17, ThreadsAssumption DEF Boot
<1>18. CASE UNCHANGED vars
  BY <1>18 DEF vars
<1>19. QED
  BY <1>1, <1>2, <1>3, <1>4, <1>5, <1>6, <1>7, <1>8, <1>9, <1>10, <1>11, <1>12, <1>13, <1>14, <1>15, <1>16, <1>17, <1>18 DEF Next, Request, Step

\* Every step leaves each thread where its request and its press count can be.
LEMMA SequenceFitsStep ==
  ASSUME IInv, [Next]_vars
  PROVE  SequenceFits'
<1> USE DEF IInv, TypeOK, SequenceFits
<1>1. ASSUME NEW t \in Threads, ApiStart(t)
      PROVE  SequenceFits'
  BY <1>1 DEF ApiStart, Accept, Goto
<1>2. ASSUME NEW t \in Threads, ApiStop(t)
      PROVE  SequenceFits'
  BY <1>2, RetriesAssumption DEF ApiStop, Accept, Goto, PressesOf
<1>3. ASSUME NEW t \in Threads, NEW b \in BOOLEAN, ApiSetRunning(t, b)
      PROVE  SequenceFits'
  BY <1>3 DEF ApiSetRunning, Accept, Goto
<1>4. ASSUME NEW t \in Threads, ApiFactoryReset(t)
      PROVE  SequenceFits'
  BY <1>4 DEF ApiFactoryReset, Accept, Goto
<1>5. ASSUME NEW t \in Threads, ResetState(t)
      PROVE  SequenceFits'
  <2>1. job[t] \in {"mark", "reset"}
    BY <1>5 DEF ResetState
  <2>2. QED
    BY <1>5, <2>1 DEF ResetState, Goto
<1>6. ASSUME NEW t \in Threads, RecordOverride(t)
      PROVE  SequenceFits'
  BY <1>6 DEF RecordOverride, Goto
<1>7. ASSUME NEW t \in Threads, AcquireForStart(t)
      PROVE  SequenceFits'
  BY <1>7 DEF AcquireForStart, Goto
<1>8. ASSUME NEW t \in Threads, CheckRunning(t)
      PROVE  SequenceFits'
  BY <1>8, RetriesAssumption DEF CheckRunning, Goto, PressesOf
<1>9. ASSUME NEW t \in Threads, AnnounceStart(t)
      PROVE  SequenceFits'
  BY <1>9, RetriesAssumption DEF AnnounceStart, Goto, PressesOf
<1>10. ASSUME NEW t \in Threads, Press(t)
      PROVE  SequenceFits'
  <2>1. pc[t] = "press" /\ job[t] \in Sequenced /\ presses[t] < PressesOf(job[t])
    BY <1>10 DEF Press
  <2>2. PressesOf(job[t]) \in Nat /\ presses[t] \in Nat
    BY <2>1, RetriesAssumption DEF PressesOf
  <2>3. ASSUME NEW u \in Threads, u # t
        PROVE  pc'[u] = pc[u] /\ job'[u] = job[u] /\ presses'[u] = presses[u]
    BY <1>10, <2>3 DEF Press, Goto
  <2>4. /\ job'[t] = job[t]
        /\ \/ pc'[t] = "held" /\ presses'[t] = presses[t] + 1
           \/ pc'[t] = "release"
    BY <1>10 DEF Press, Goto
  <2>5. presses'[t] = presses[t] + 1 => presses'[t] \in 1 .. PressesOf(job[t])
    BY <2>1, <2>2
  <2>6. QED
    BY <2>1, <2>3, <2>4, <2>5
<1>11. ASSUME NEW t \in Threads, Lift(t)
      PROVE  SequenceFits'
  <2>1. pc[t] = "held" /\ job[t] \in Sequenced /\ presses[t] \in 1 .. PressesOf(job[t])
    BY <1>11 DEF Lift
  <2>2. PressesOf(job[t]) \in Nat
    BY <2>1, RetriesAssumption DEF PressesOf
  <2>3. ASSUME NEW u \in Threads, u # t
        PROVE  pc'[u] = pc[u] /\ job'[u] = job[u] /\ presses'[u] = presses[u]
    BY <1>11, <2>3 DEF Lift, Goto
  <2>4. /\ job'[t] = job[t] /\ presses'[t] = presses[t]
        /\ pc'[t] \in {"press", "commit", "release"}
        /\ pc'[t] = "press" => presses[t] < PressesOf(job[t])
        /\ pc'[t] = "commit" => presses[t] = PressesOf(job[t])
    BY <1>11, <2>1, <2>2 DEF Lift, Goto
  <2>5. QED
    BY <2>1, <2>3, <2>4
<1>12. ASSUME NEW t \in Threads, Commit(t)
      PROVE  SequenceFits'
  BY <1>12 DEF Commit, Goto
<1>13. ASSUME NEW t \in Threads, RecordDone(t)
      PROVE  SequenceFits'
  BY <1>13 DEF RecordDone, Goto
<1>14. ASSUME NEW t \in Threads, Release(t)
      PROVE  SequenceFits'
  BY <1>14 DEF Release, Goto
<1>15. CASE CloseDevice
  BY <1>15 DEF CloseDevice
<1>16. CASE Exit
  BY <1>16 DEF Exit
<1>17. CASE Boot
  BY <1>17 DEF Boot
<1>18. CASE UNCHANGED vars
  BY <1>18 DEF vars
<1>19. QED
  BY <1>1, <1>2, <1>3, <1>4, <1>5, <1>6, <1>7, <1>8, <1>9, <1>10, <1>11, <1>12, <1>13, <1>14, <1>15, <1>16, <1>17, <1>18 DEF Next, Request, Step

\* IInv is inductive.
LEMMA NextIInv ==
  ASSUME IInv, [Next]_vars
  PROVE  IInv'
  BY TypeOKStep, LockDisciplineStep, ButtonStep, SequenceFitsStep DEF IInv

\* Every reachable state satisfies the inductive invariant.
THEOREM Invariance == Spec => []IInv
<1>1. Init => IInv
  BY InitIInv
<1>2. IInv /\ [Next]_vars => IInv'
  BY NextIInv
<1>3. QED
  BY <1>1, <1>2, PTL DEF Spec

\* Type correctness of the relay control.
THEOREM TypeCorrect == Spec => []TypeOK
<1>1. IInv => TypeOK
  BY DEF IInv
<1>2. QED
  BY <1>1, Invariance, PTL

\* Relay sequences never overlap and never leak the lock (relay.py, control.py).
THEOREM MutualExclusion == Spec => []LockDiscipline
<1>1. IInv => LockDiscipline
  BY DEF IInv
<1>2. QED
  BY <1>1, Invariance, PTL

\* The button is down exactly while the lock holder sleeps inside a press.
THEOREM ButtonSafety == Spec => []ButtonFollowsHolder
<1>1. IInv => ButtonFollowsHolder
  BY DEF IInv
<1>2. QED
  BY <1>1, Invariance, PTL

\* A sequence commits only after every press its kind asks for.
THEOREM PressCounts == Spec => []SequenceFits
<1>1. IInv => SequenceFits
  BY DEF IInv
<1>2. QED
  BY <1>1, Invariance, PTL

\* With the device closed the button is up, and a dead process runs nothing.
THEOREM CleanEnd == Spec => []NothingOutlives
<1>1. IInv => NothingOutlives
  BY DEF IInv
<1>2. QED
  BY <1>1, Invariance, PTL

-----------------------------------------------------------------------------
(* The event log pairs every start_complete with its start.                 *)

\* Where a start has not yet announced itself, and where a sequence may still
\* record its end.
Before == {"acquire", "check", "announce"}
Open == {"press", "held", "commit", "record"}

Logs == Seq([type : EventTypes, request : 0 .. MaxRequests])

\* The strengthening, of a log, the threads' places and the numbering of their
\* requests: numbers are fresh, an unannounced start has no event, and while a
\* sequence is open its own start stays the last control event of the log.
Paired(log, at, number, last) ==
  /\ \A i, k \in 1 .. Len(log) :
       /\ log[k].type = "start_complete"
       /\ log[i] = StartOf(log[k].request)
       => /\ i < k
          /\ \A j \in i + 1 .. k - 1 : ~IsControl(log[j])
  /\ \A i \in 1 .. Len(log) : log[i].request <= last
  /\ \A t \in Threads : number[t] <= last
  /\ \A t, u \in Threads :
       t # u /\ at[t] # "idle" /\ at[u] # "idle" => number[t] # number[u]
  /\ \A t \in Threads, i \in 1 .. Len(log) :
       at[t] \in Before /\ log[i].request = number[t] =>
         log[i].type \notin {"start", "start_complete"}
  /\ \A t \in Threads, i \in 1 .. Len(log) :
       at[t] \in Open /\ log[i].request = number[t] =>
         /\ log[i].type # "start_complete"
         /\ log[i].type = "start" => \A j \in i + 1 .. Len(log) : ~IsControl(log[j])

PairInv == Paired(events, pc, serial, requests)

\* A thread that moves on without recording anything keeps the log paired.
LEMMA MovedOn ==
  ASSUME NEW log \in Logs, NEW at, NEW at2, NEW number, NEW last,
         Paired(log, at, number, last),
         \A t \in Threads :
           /\ at2[t] # "idle" => at[t] # "idle"
           /\ at2[t] \in Before => at[t] \in Before
           /\ at2[t] \in Open => at[t] \in Before \cup Open
  PROVE  Paired(log, at2, number, last)
  BY DEF Paired

\* Every event of a log is an event.
LEMMA EventOfLog ==
  ASSUME NEW log \in Logs, NEW i \in 1 .. Len(log)
  PROVE  log[i] \in [type : EventTypes, request : 0 .. MaxRequests]
<1> DEFINE Events == [type : EventTypes, request : 0 .. MaxRequests]
<1>1. log \in Seq(Events)
  BY DEF Logs
<1> HIDE DEF Events
<1>2. log[i] \in Events
  BY <1>1
<1>3. QED
  BY <1>2 DEF Events

\* A request that arrives gets a number no event and no thread has.
LEMMA Arrived ==
  ASSUME NEW log \in Logs, NEW at \in [Threads -> Points],
         NEW number \in [Threads -> 0 .. MaxRequests], NEW last \in Nat,
         NEW t \in Threads, NEW point \in Points,
         Paired(log, at, number, last)
  PROVE  Paired(log, [at EXCEPT ![t] = point], [number EXCEPT ![t] = last + 1], last + 1)
<1> DEFINE at2 == [at EXCEPT ![t] = point]
           number2 == [number EXCEPT ![t] = last + 1]
<1>1. /\ at2[t] = point /\ number2[t] = last + 1
      /\ \A u \in Threads \ {t} : at2[u] = at[u] /\ number2[u] = number[u]
  OBVIOUS
<1>2. \A i \in 1 .. Len(log) : log[i].request \in Nat /\ log[i].request # last + 1
  <2> SUFFICES ASSUME NEW i \in 1 .. Len(log)
               PROVE  log[i].request \in Nat /\ log[i].request # last + 1
    OBVIOUS
  <2>1. log[i] \in [type : EventTypes, request : 0 .. MaxRequests]
    BY EventOfLog
  <2>2. log[i].request \in Nat
    BY <2>1, RequestsAssumption
  <2>3. log[i].request <= last
    BY DEF Paired
  <2>4. QED
    BY <2>2, <2>3
<1>3. \A u \in Threads : number[u] \in Nat /\ number[u] <= last
  <2> SUFFICES ASSUME NEW u \in Threads
               PROVE  number[u] \in Nat /\ number[u] <= last
    OBVIOUS
  <2>1. number[u] \in Nat
    BY RequestsAssumption
  <2>2. QED
    BY <2>1 DEF Paired
<1> HIDE DEF at2, number2
<1>4. \A u \in Threads \ {t} : number2[u] # number2[t]
  <2> SUFFICES ASSUME NEW u \in Threads \ {t}
               PROVE  number2[u] # number2[t]
    OBVIOUS
  <2>1. number2[u] = number[u] /\ number2[t] = last + 1
    BY <1>1
  <2>2. number[u] \in Nat /\ number[u] <= last
    BY <1>3
  <2>3. QED
    BY <2>1, <2>2
<1>5. Paired(log, at2, number2, last + 1)
  <2>1. \A u \in Threads : number2[u] <= last + 1
    <3> SUFFICES ASSUME NEW u \in Threads
                 PROVE  number2[u] <= last + 1
      OBVIOUS
    <3>1. number[u] \in Nat /\ number[u] <= last
      BY <1>3
    <3>2. number2[u] = number[u] \/ number2[u] = last + 1
      BY <1>1
    <3>3. QED
      BY <3>1, <3>2
  <2>2. \A i \in 1 .. Len(log) : log[i].request <= last + 1
    BY <1>2 DEF Paired
  <2>3. \A u, v \in Threads :
          u # v /\ at2[u] # "idle" /\ at2[v] # "idle" => number2[u] # number2[v]
    BY <1>1, <1>4 DEF Paired
  <2>4. \A u \in Threads, i \in 1 .. Len(log) :
          at2[u] \in Before /\ log[i].request = number2[u] =>
            log[i].type \notin {"start", "start_complete"}
    BY <1>1, <1>2 DEF Paired
  <2>5. \A u \in Threads, i \in 1 .. Len(log) :
          at2[u] \in Open /\ log[i].request = number2[u] =>
            /\ log[i].type # "start_complete"
            /\ log[i].type = "start" => \A j \in i + 1 .. Len(log) : ~IsControl(log[j])
    BY <1>1, <1>2 DEF Paired
  <2>6. QED
    BY <2>1, <2>2, <2>3, <2>4, <2>5 DEF Paired
<1>6. QED
  BY <1>5 DEF at2, number2

\* What appending one event does to a log.
LEMMA Appended ==
  ASSUME NEW log \in Logs, NEW e \in [type : EventTypes, request : 0 .. MaxRequests]
  PROVE  /\ Append(log, e) \in Logs
         /\ Len(log) \in Nat
         /\ Len(Append(log, e)) = Len(log) + 1
         /\ \A i \in 1 .. Len(log) : Append(log, e)[i] = log[i]
         /\ Append(log, e)[Len(log) + 1] = e
  BY DEF Logs

\* An event no sequence writes keeps the log paired.
LEMMA Aside ==
  ASSUME NEW log \in Logs, NEW at, NEW number, NEW last,
         NEW e \in [type : {"start_rejected", "set_running", "factory_reset"},
                    request : 0 .. MaxRequests],
         e.request <= last,
         Paired(log, at, number, last)
  PROVE  Paired(Append(log, e), at, number, last)
<1> DEFINE log2 == Append(log, e)
<1>1. /\ Len(log) \in Nat /\ Len(log2) = Len(log) + 1
      /\ \A i \in 1 .. Len(log) : log2[i] = log[i]
      /\ log2[Len(log) + 1] = e
  BY Appended
<1>2. /\ e.type \notin {"start", "start_complete"} /\ ~IsControl(e)
      /\ \A n : e # StartOf(n)
  BY DEF IsControl, StartOf
<1> HIDE DEF log2
<1>3. \A i, k \in 1 .. Len(log2) :
        /\ log2[k].type = "start_complete"
        /\ log2[i] = StartOf(log2[k].request)
        => /\ i < k
           /\ \A j \in i + 1 .. k - 1 : ~IsControl(log2[j])
  <2> SUFFICES ASSUME NEW i \in 1 .. Len(log2), NEW k \in 1 .. Len(log2),
                      log2[k].type = "start_complete",
                      log2[i] = StartOf(log2[k].request)
               PROVE  i < k /\ \A j \in i + 1 .. k - 1 : ~IsControl(log2[j])
    OBVIOUS
  <2>1. i \in 1 .. Len(log) /\ k \in 1 .. Len(log)
    BY <1>1, <1>2
  <2>2. QED
    BY <1>1, <2>1 DEF Paired
<1>4. \A i \in 1 .. Len(log2) : log2[i].request <= last
  BY <1>1 DEF Paired
<1>5. \A t \in Threads, i \in 1 .. Len(log2) :
        at[t] \in Before /\ log2[i].request = number[t] =>
          log2[i].type \notin {"start", "start_complete"}
  BY <1>1, <1>2 DEF Paired
<1>6. \A t \in Threads, i \in 1 .. Len(log2) :
        at[t] \in Open /\ log2[i].request = number[t] =>
          /\ log2[i].type # "start_complete"
          /\ log2[i].type = "start" => \A j \in i + 1 .. Len(log2) : ~IsControl(log2[j])
  BY <1>1, <1>2 DEF Paired
<1>7. Paired(log2, at, number, last)
  BY <1>3, <1>4, <1>5, <1>6 DEF Paired
<1>8. QED
  BY <1>7 DEF log2

\* A start announces itself: its event is now the last control event.
LEMMA Announced ==
  ASSUME NEW log \in Logs, NEW at \in [Threads -> Points],
         NEW number \in [Threads -> 0 .. MaxRequests], NEW last \in Nat,
         NEW t \in Threads, at[t] = "announce",
         \A u \in Threads \ {t} : at[u] \notin Open,
         Paired(log, at, number, last)
  PROVE  Paired(Append(log, StartOf(number[t])), [at EXCEPT ![t] = "press"], number, last)
<1> DEFINE e == StartOf(number[t])
           log2 == Append(log, e)
           at2 == [at EXCEPT ![t] = "press"]
<1>1. /\ Len(log) \in Nat /\ Len(log2) = Len(log) + 1
      /\ \A i \in 1 .. Len(log) : log2[i] = log[i]
      /\ log2[Len(log) + 1] = e
  BY Appended DEF StartOf
<1>2. e.type = "start" /\ e.request = number[t]
  BY DEF StartOf
<1>3. at2[t] = "press" /\ \A u \in Threads \ {t} : at2[u] = at[u] /\ at2[u] \notin Open
  OBVIOUS
<1>4. \A i \in 1 .. Len(log) :
        log[i].request = number[t] => log[i].type \notin {"start", "start_complete"}
  BY DEF Paired, Before
<1> HIDE DEF e, log2, at2
<1>5. \A i, k \in 1 .. Len(log2) :
        /\ log2[k].type = "start_complete"
        /\ log2[i] = StartOf(log2[k].request)
        => /\ i < k
           /\ \A j \in i + 1 .. k - 1 : ~IsControl(log2[j])
  <2> SUFFICES ASSUME NEW i \in 1 .. Len(log2), NEW k \in 1 .. Len(log2),
                      log2[k].type = "start_complete",
                      log2[i] = StartOf(log2[k].request)
               PROVE  i < k /\ \A j \in i + 1 .. k - 1 : ~IsControl(log2[j])
    OBVIOUS
  <2>1. k \in 1 .. Len(log)
    BY <1>1, <1>2
  <2>2. i # Len(log) + 1
    BY <1>1, <1>2, <1>4, <2>1 DEF StartOf
  <2>3. i \in 1 .. Len(log)
    BY <1>1, <2>2
  <2>4. i < k /\ \A j \in i + 1 .. k - 1 : ~IsControl(log[j])
    BY <1>1, <2>1, <2>3 DEF Paired
  <2>5. \A j \in i + 1 .. k - 1 : log2[j] = log[j]
    BY <1>1, <2>1, <2>3
  <2>6. QED
    BY <2>4, <2>5
<1>6. \A i \in 1 .. Len(log2) : log2[i].request <= last
  BY <1>1, <1>2 DEF Paired
<1>7. \A u, v \in Threads :
        u # v /\ at2[u] # "idle" /\ at2[v] # "idle" => number[u] # number[v]
  BY <1>3 DEF Paired
<1>8. \A u \in Threads, i \in 1 .. Len(log2) :
        at2[u] \in Before /\ log2[i].request = number[u] =>
          log2[i].type \notin {"start", "start_complete"}
  <2> SUFFICES ASSUME NEW u \in Threads, NEW i \in 1 .. Len(log2),
                      at2[u] \in Before, log2[i].request = number[u]
               PROVE  log2[i].type \notin {"start", "start_complete"}
    OBVIOUS
  <2>1. u # t /\ at[u] \in Before
    BY <1>3 DEF Before
  <2>2. number[u] # number[t]
    BY <2>1 DEF Paired, Before
  <2>3. i \in 1 .. Len(log)
    BY <1>1, <1>2, <2>2
  <2>4. QED
    BY <1>1, <2>1, <2>3 DEF Paired
<1>9. \A u \in Threads, i \in 1 .. Len(log2) :
        at2[u] \in Open /\ log2[i].request = number[u] =>
          /\ log2[i].type # "start_complete"
          /\ log2[i].type = "start" => \A j \in i + 1 .. Len(log2) : ~IsControl(log2[j])
  <2> SUFFICES ASSUME NEW u \in Threads, NEW i \in 1 .. Len(log2),
                      at2[u] \in Open, log2[i].request = number[u]
               PROVE  /\ log2[i].type # "start_complete"
                      /\ log2[i].type = "start" => \A j \in i + 1 .. Len(log2) : ~IsControl(log2[j])
    OBVIOUS
  <2>1. u = t
    BY <1>3
  <2>2. CASE i \in 1 .. Len(log)
    BY <1>1, <1>4, <2>1, <2>2
  <2>3. CASE i = Len(log) + 1
    BY <1>1, <1>2, <2>3
  <2>4. QED
    BY <1>1, <2>2, <2>3
<1>10. Paired(log2, at2, number, last)
  BY <1>5, <1>6, <1>7, <1>8, <1>9 DEF Paired
<1>11. QED
  BY <1>10 DEF e, log2, at2

\* A sequence records its end: a start_complete finds its own start, if that is
\* in the log at all, the last control event before it.
LEMMA Done ==
  ASSUME NEW log \in Logs, NEW at \in [Threads -> Points],
         NEW number \in [Threads -> 0 .. MaxRequests], NEW last \in Nat,
         NEW t \in Threads, at[t] = "record",
         \A u \in Threads \ {t} : at[u] \notin Before \cup Open \/ at[u] = "acquire",
         NEW type \in {"start_complete", "stop"},
         Paired(log, at, number, last)
  PROVE  Paired(Append(log, [type |-> type, request |-> number[t]]),
                [at EXCEPT ![t] = "release"], number, last)
<1> DEFINE e == [type |-> type, request |-> number[t]]
           log2 == Append(log, e)
           at2 == [at EXCEPT ![t] = "release"]
<1>1. /\ Len(log) \in Nat /\ Len(log2) = Len(log) + 1
      /\ \A i \in 1 .. Len(log) : log2[i] = log[i]
      /\ log2[Len(log) + 1] = e
  BY Appended
<1>2. e.type = type /\ e.request = number[t] /\ \A n : e # StartOf(n)
  BY DEF StartOf
<1>3. at2[t] = "release" /\ \A u \in Threads \ {t} : at2[u] = at[u] /\ at2[u] \notin Open
  BY DEF Open
<1>4. \A i \in 1 .. Len(log) :
        log[i] = StartOf(number[t]) => \A j \in i + 1 .. Len(log) : ~IsControl(log[j])
  BY DEF Paired, Open, StartOf
<1> HIDE DEF e, log2, at2
<1>5. \A i, k \in 1 .. Len(log2) :
        /\ log2[k].type = "start_complete"
        /\ log2[i] = StartOf(log2[k].request)
        => /\ i < k
           /\ \A j \in i + 1 .. k - 1 : ~IsControl(log2[j])
  <2> SUFFICES ASSUME NEW i \in 1 .. Len(log2), NEW k \in 1 .. Len(log2),
                      log2[k].type = "start_complete",
                      log2[i] = StartOf(log2[k].request)
               PROVE  i < k /\ \A j \in i + 1 .. k - 1 : ~IsControl(log2[j])
    OBVIOUS
  <2>1. i \in 1 .. Len(log)
    BY <1>1, <1>2
  <2>2. CASE k \in 1 .. Len(log)
    <3>1. i < k /\ \A j \in i + 1 .. k - 1 : ~IsControl(log[j])
      BY <1>1, <2>1, <2>2 DEF Paired
    <3>2. \A j \in i + 1 .. k - 1 : log2[j] = log[j]
      BY <1>1, <2>1, <2>2
    <3>3. QED
      BY <3>1, <3>2
  <2>3. CASE k = Len(log) + 1
    <3>1. log[i] = StartOf(number[t])
      BY <1>1, <1>2, <2>1, <2>3
    <3>2. \A j \in i + 1 .. Len(log) : ~IsControl(log[j])
      BY <1>4, <2>1, <3>1
    <3>3. QED
      BY <1>1, <2>1, <2>3, <3>2
  <2>4. QED
    BY <1>1, <2>2, <2>3
<1>6. \A i \in 1 .. Len(log2) : log2[i].request <= last
  BY <1>1, <1>2 DEF Paired
<1>7. \A u, v \in Threads :
        u # v /\ at2[u] # "idle" /\ at2[v] # "idle" => number[u] # number[v]
  BY <1>3 DEF Paired
<1>8. \A u \in Threads, i \in 1 .. Len(log2) :
        at2[u] \in Before /\ log2[i].request = number[u] =>
          log2[i].type \notin {"start", "start_complete"}
  <2> SUFFICES ASSUME NEW u \in Threads, NEW i \in 1 .. Len(log2),
                      at2[u] \in Before, log2[i].request = number[u]
               PROVE  log2[i].type \notin {"start", "start_complete"}
    OBVIOUS
  <2>1. u # t /\ at[u] \in Before
    BY <1>3 DEF Before
  <2>2. number[u] # number[t]
    BY <2>1 DEF Paired, Before
  <2>3. i \in 1 .. Len(log)
    BY <1>1, <1>2, <2>2
  <2>4. QED
    BY <1>1, <2>1, <2>3 DEF Paired
<1>9. \A u \in Threads : at2[u] \notin Open
  BY <1>3 DEF Open
<1>10. Paired(log2, at2, number, last)
  BY <1>5, <1>6, <1>7, <1>8, <1>9 DEF Paired
<1>11. QED
  BY <1>10 DEF e, log2, at2

\* An empty log pairs whatever there is.
LEMMA Wiped ==
  ASSUME NEW log, NEW at, NEW number, NEW last, Paired(log, at, number, last)
  PROVE  Paired(<<>>, at, number, last)
  BY DEF Paired

\* Every step keeps the starts paired.
LEMMA PairedStep ==
  ASSUME IInv, PairInv, [Next]_vars
  PROVE  PairInv'
<1> USE DEF PairInv
<1>1. /\ events \in Logs /\ pc \in [Threads -> Points] /\ requests \in Nat
      /\ serial \in [Threads -> 0 .. MaxRequests]
      /\ \A t \in Threads : serial[t] <= requests /\ serial[t] \in 0 .. MaxRequests
  BY RequestsAssumption DEF IInv, TypeOK, Logs, Paired
<1>2. ASSUME NEW t \in Threads, NEW j, Accept(t, j)
      PROVE  /\ serial' = [serial EXCEPT ![t] = requests + 1]
             /\ requests' = requests + 1
             /\ requests + 1 \in 0 .. MaxRequests
             /\ \A point \in Points :
                  Paired(events, [pc EXCEPT ![t] = point], serial', requests')
  <2>1. /\ serial' = [serial EXCEPT ![t] = requests + 1]
        /\ requests' = requests + 1
        /\ requests + 1 \in 0 .. MaxRequests
    BY <1>1, <1>2, RequestsAssumption DEF Accept
  <2>2. \A point \in Points :
          Paired(events, [pc EXCEPT ![t] = point], serial', requests')
    BY <1>1, <2>1, Arrived
  <2>3. QED
    BY <2>1, <2>2
<1>3. ASSUME NEW t \in Threads, ApiStart(t) PROVE PairInv'
  <2>1. Accept(t, "start")
    BY <1>3 DEF ApiStart
  <2>2. CASE pc' = [pc EXCEPT ![t] = "acquire"] /\ events' = events
    BY <1>2, <2>1, <2>2
  <2>3. CASE pc' = pc /\ Record("start_rejected", requests + 1)
    <3>1. pc' = [pc EXCEPT ![t] = "idle"]
      BY <1>1, <2>1, <2>3 DEF Accept
    <3>2. Paired(events, pc', serial', requests') /\ requests' = requests + 1
      BY <1>2, <2>1, <3>1
    <3>3. CASE events' = events
      BY <3>2, <3>3
    <3>4. CASE events' = Append(events, [type |-> "start_rejected", request |-> requests + 1])
      <4>1. requests + 1 \in 0 .. MaxRequests
        BY <1>2, <2>1
      <4>2. QED
        BY <1>1, <3>2, <3>4, <4>1, Aside
    <3>5. QED
      BY <2>3, <3>3, <3>4 DEF Record
  <2>4. QED
    BY <1>3, <2>2, <2>3 DEF ApiStart, Goto
<1>4. ASSUME NEW t \in Threads, ApiStop(t) PROVE PairInv'
  <2>1. Accept(t, "stop") /\ events' = events
    BY <1>4 DEF ApiStop
  <2>2. pc' = [pc EXCEPT ![t] = "press"] \/ pc' = [pc EXCEPT ![t] = "idle"]
    BY <1>1, <1>4 DEF ApiStop, Accept, Goto
  <2>3. QED
    BY <1>2, <2>1, <2>2
<1>5. ASSUME NEW t \in Threads, NEW b \in BOOLEAN, ApiSetRunning(t, b) PROVE PairInv'
  BY <1>2, <1>5 DEF ApiSetRunning, Goto
<1>6. ASSUME NEW t \in Threads, ApiFactoryReset(t) PROVE PairInv'
  <2>1. Accept(t, "reset") /\ events' \in {events, <<>>}
    BY <1>6 DEF ApiFactoryReset
  <2>2. pc' = [pc EXCEPT ![t] = "reset_state"] \/ pc' = [pc EXCEPT ![t] = "idle"]
    BY <1>1, <1>6 DEF ApiFactoryReset, Accept, Goto
  <2>3. Paired(events, pc', serial', requests')
    BY <1>2, <2>1, <2>2
  <2>4. Paired(<<>>, pc', serial', requests')
    BY <2>3, Wiped
  <2>5. QED
    BY <2>1, <2>3, <2>4
<1>7. ASSUME NEW t \in Threads, RecordOverride(t) PROVE PairInv'
  <2>1. ClosingEvent(job[t]) \in {"set_running", "factory_reset"}
    BY <1>7 DEF RecordOverride, IInv, SequenceFits, ClosingEvent
  <2>2. Paired(events, pc', serial, requests)
    BY <1>1, <1>7, MovedOn DEF RecordOverride, Goto, Before, Open
  <2>3. Paired(Append(events, [type |-> ClosingEvent(job[t]), request |-> serial[t]]),
               pc', serial, requests)
    BY <1>1, <2>1, <2>2, Aside
  <2>4. QED
    BY <1>7, <2>2, <2>3 DEF RecordOverride, Record
<1>8. ASSUME NEW t \in Threads, AcquireForStart(t) \/ CheckRunning(t) PROVE PairInv'
  <2>1. Paired(events, pc', serial, requests)
    BY <1>1, <1>8, MovedOn DEF AcquireForStart, CheckRunning, Goto, Before, Open
  <2>2. Paired(Append(events, [type |-> "start_rejected", request |-> serial[t]]),
               pc', serial, requests)
    BY <1>1, <2>1, Aside
  <2>3. QED
    BY <1>8, <2>1, <2>2 DEF AcquireForStart, CheckRunning, Record
<1>9. ASSUME NEW t \in Threads, AnnounceStart(t) PROVE PairInv'
  <2>1. pc[t] = "announce" /\ pc' = [pc EXCEPT ![t] = "press"]
    BY <1>9 DEF AnnounceStart, Goto
  <2>2. \A u \in Threads \ {t} : pc[u] \notin Open
    BY <2>1 DEF IInv, LockDiscipline, Open
  <2>3. Paired(events, pc', serial, requests)
    BY <1>1, <2>1, MovedOn DEF Before, Open
  <2>4. Paired(Append(events, StartOf(serial[t])), pc', serial, requests)
    BY <1>1, <2>1, <2>2, Announced
  <2>5. QED
    BY <1>9, <2>3, <2>4 DEF AnnounceStart, Record, StartOf
<1>10. ASSUME NEW t \in Threads, RecordDone(t) PROVE PairInv'
  <2>1. pc[t] = "record" /\ pc' = [pc EXCEPT ![t] = "release"]
    BY <1>10 DEF RecordDone, Goto
  <2>2. ClosingEvent(job[t]) \in {"start_complete", "stop"}
    BY <2>1 DEF IInv, SequenceFits, ClosingEvent
  <2>3. \A u \in Threads \ {t} : pc[u] \notin Before \cup Open \/ pc[u] = "acquire"
    BY <2>1 DEF IInv, LockDiscipline, Before, Open
  <2>4. Paired(events, pc', serial, requests)
    BY <1>1, <2>1, MovedOn DEF Before, Open
  <2>5. Paired(Append(events, [type |-> ClosingEvent(job[t]), request |-> serial[t]]),
               pc', serial, requests)
    BY <1>1, <2>1, <2>2, <2>3, Done
  <2>6. QED
    BY <1>10, <2>4, <2>5 DEF RecordDone, Record
<1>11. ASSUME NEW t \in Threads,
              ResetState(t) \/ Press(t) \/ Lift(t) \/ Commit(t) \/ Release(t)
       PROVE  PairInv'
  <2>1. UNCHANGED <<events, serial, requests>>
    BY <1>11 DEF ResetState, Press, Lift, Commit, Release
  <2>2. \A u \in Threads :
          /\ pc'[u] # "idle" => pc[u] # "idle"
          /\ pc'[u] \in Before => pc[u] \in Before
          /\ pc'[u] \in Open => pc[u] \in Before \cup Open
    BY <1>1, <1>11 DEF ResetState, Press, Lift, Commit, Release, Goto, Before, Open
  <2>3. QED
    BY <1>1, <2>1, <2>2, MovedOn
<1>12. CASE CloseDevice \/ Exit \/ Boot
  <2>1. UNCHANGED <<events, serial, requests>>
    BY <1>12 DEF CloseDevice, Exit, Boot
  <2>2. \A u \in Threads :
          /\ pc'[u] # "idle" => pc[u] # "idle"
          /\ pc'[u] \in Before => pc[u] \in Before
          /\ pc'[u] \in Open => pc[u] \in Before \cup Open
    BY <1>1, <1>12 DEF CloseDevice, Exit, Boot, Before, Open
  <2>3. QED
    BY <1>1, <2>1, <2>2, MovedOn
<1>13. CASE UNCHANGED vars
  BY <1>13 DEF vars
<1>14. QED
  BY <1>3, <1>4, <1>5, <1>6, <1>7, <1>8, <1>9, <1>10, <1>11, <1>12, <1>13
     DEF Next, Request, Step

\* Between a start and the start_complete of the same request, when both were
\* recorded, the log holds no other sequence's event.
THEOREM PairedLog == Spec => []StartsArePaired
<1>1. Init => PairInv
  BY RequestsAssumption DEF Init, PairInv, Paired, Before, Open
<1>2. IInv /\ PairInv /\ [Next]_vars => PairInv'
  BY PairedStep
<1>3. PairInv => StartsArePaired
  BY DEF PairInv, Paired, StartsArePaired
<1>4. QED
  BY <1>1, <1>2, <1>3, Invariance, PTL DEF Spec

-----------------------------------------------------------------------------
(* RelayControl implements OneTouch.                                        *)

USE DEF Promise!Kinds

\* A thread outside every sequence can move without OneTouch seeing it, as
\* long as it leaves the lock, the relay, the flag and the process alone.
LEMMA OutsideSteps ==
  ASSUME IInv, NEW t \in Threads, relay_lock # t,
         UNCHANGED <<proc, relay, relay_lock, running>>,
         \A u \in Threads \ {t} :
           pc'[u] = pc[u] /\ job'[u] = job[u] /\ presses'[u] = presses[u]
  PROVE  UNCHANGED Promise!vars
<1>1. CASE relay_lock = NoThread
  BY <1>1 DEF Promise!vars, Session, Left, InSession
<1>2. CASE relay_lock # NoThread
  <2>1. relay_lock \in Threads \ {t}
    BY <1>2 DEF IInv, TypeOK
  <2>2. QED
    BY <2>1 DEF Promise!vars, Session, Left, InSession
<1>3. QED
  BY <1>1, <1>2

\* What OneTouch sees of a thread inside a sequence.
LEMMA HolderView ==
  ASSUME IInv, NEW t \in Threads, pc[t] \in Driving
  PROVE  /\ relay_lock = t
         /\ proc # "down"
         /\ job[t] \in Sequenced
         /\ Session = job[t]
         /\ Left = PressesOf(job[t]) - presses[t]
  BY ThreadsAssumption
     DEF IInv, LockDiscipline, NothingOutlives, SequenceFits, Session, Left, InSession

\* The initial states of RelayControl are initial states of OneTouch.
LEMMA InitRefines == Init => Promise!Init
  BY DEF Init, Promise!Init, Session, Left, InSession

\* Every step of RelayControl is a step of OneTouch or leaves it unchanged.
LEMMA StepRefines ==
  ASSUME IInv, IInv', [Next]_vars
  PROVE  [Promise!Next]_(Promise!vars)
<1> DEFINE Quiet == UNCHANGED Promise!vars
<1>1. ASSUME NEW t \in Threads, ApiStart(t) PROVE Quiet
  <2>1. relay_lock # t
    BY <1>1 DEF ApiStart, Accept, IInv, LockDiscipline
  <2>2. QED
    BY <1>1, <2>1, OutsideSteps DEF ApiStart, Accept, Goto, IInv, TypeOK
<1>2. ASSUME NEW t \in Threads, ApiStop(t) PROVE Promise!Next \/ Quiet
  <2>1. CASE relay_lock = NoThread
    <3>1. Session = "none" /\ Left = 0
      BY <1>2, <2>1 DEF ApiStop, Accept, Session, Left, InSession
    <3>2. pc'[t] = "press" /\ job'[t] = "stop" /\ presses'[t] = 0
      BY <1>2, <2>1, ThreadsAssumption DEF ApiStop, Accept, Goto, IInv, TypeOK
    <3>3. Session' = "stop" /\ Left' = 1
      BY <3>2, HolderView, <1>2, <2>1, ThreadsAssumption
         DEF ApiStop, Accept, Session, Left, InSession, PressesOf
    <3>4. Promise!Begin("stop")
      BY <1>2, <3>1, <3>3 DEF ApiStop, Promise!Begin, Promise!Presses
    <3>5. QED
      BY <3>4 DEF Promise!Next
  <2>2. CASE relay_lock # NoThread
    <3>1. relay_lock # t
      BY <1>2 DEF ApiStop, Accept, IInv, LockDiscipline
    <3>2. QED
      BY <1>2, <2>2, <3>1, OutsideSteps DEF ApiStop, Accept, IInv, TypeOK
  <2>3. QED
    BY <2>1, <2>2
<1>3. ASSUME NEW t \in Threads, NEW b \in BOOLEAN, ApiSetRunning(t, b) PROVE Promise!Override
  <2>1. relay_lock # t
    BY <1>3 DEF ApiSetRunning, Accept, IInv, LockDiscipline
  <2>2. UNCHANGED <<Session, Left>>
    BY <1>3, <2>1, ThreadsAssumption
       DEF ApiSetRunning, Accept, Goto, IInv, TypeOK, Session, Left, InSession
  <2>3. Session # "dead"
    BY <1>3 DEF ApiSetRunning, Accept, Session, InSession, IInv, TypeOK, SequenceFits, LockDiscipline
  <2>4. QED
    BY <1>3, <2>2, <2>3 DEF ApiSetRunning, Promise!Override
<1>4. ASSUME NEW t \in Threads, ApiFactoryReset(t) PROVE Quiet
  <2>1. relay_lock # t
    BY <1>4 DEF ApiFactoryReset, Accept, IInv, LockDiscipline
  <2>2. QED
    BY <1>4, <2>1, OutsideSteps DEF ApiFactoryReset, Accept, Goto, IInv, TypeOK
<1>5. ASSUME NEW t \in Threads, ResetState(t) PROVE Promise!Override
  <2>1. relay_lock # t
    BY <1>5 DEF ResetState, IInv, LockDiscipline
  <2>2. UNCHANGED <<Session, Left>>
    BY <1>5, <2>1, ThreadsAssumption
       DEF ResetState, Goto, IInv, TypeOK, Session, Left, InSession
  <2>3. Session # "dead"
    BY <1>5 DEF ResetState, Session, InSession, IInv, TypeOK, SequenceFits, NothingOutlives, LockDiscipline
  <2>4. QED
    BY <1>5, <2>2, <2>3 DEF ResetState, Promise!Override
<1>6. ASSUME NEW t \in Threads, RecordOverride(t) PROVE Quiet
  <2>1. relay_lock # t
    BY <1>6 DEF RecordOverride, IInv, LockDiscipline
  <2>2. QED
    BY <1>6, <2>1, OutsideSteps DEF RecordOverride, Goto, IInv, TypeOK
<1>7. ASSUME NEW t \in Threads, AcquireForStart(t) PROVE Quiet
  <2>1. CASE relay_lock = NoThread
    BY <1>7, <2>1, ThreadsAssumption
       DEF AcquireForStart, Goto, IInv, TypeOK, Session, Left, InSession, Promise!vars
  <2>2. CASE relay_lock # NoThread
    <3>1. relay_lock # t
      BY <1>7 DEF AcquireForStart, IInv, LockDiscipline
    <3>2. QED
      BY <1>7, <2>2, <3>1, OutsideSteps DEF AcquireForStart, Goto, IInv, TypeOK
  <2>3. QED
    BY <2>1, <2>2
<1>8. ASSUME NEW t \in Threads, CheckRunning(t) PROVE Promise!Next \/ Quiet
  <2>1. relay_lock = t /\ t # NoThread /\ job[t] = "start" /\ proc # "down"
    BY <1>8, ThreadsAssumption
       DEF CheckRunning, IInv, LockDiscipline, SequenceFits, NothingOutlives
  <2>2. Session = "none" /\ Left = 0
    BY <1>8, <2>1 DEF CheckRunning, Session, Left, InSession
  <2>3. CASE running
    BY <1>8, <2>1, <2>2, <2>3
       DEF CheckRunning, Goto, IInv, TypeOK, Session, Left, InSession, Promise!vars
  <2>4. CASE ~running
    <3>1. pc'[t] = "announce" /\ presses'[t] = 0
      BY <1>8, <2>4 DEF CheckRunning, Goto, IInv, TypeOK
    <3>2. Session' = "start" /\ Left' = PressesOf("start")
      BY <1>8, <2>1, <3>1, RetriesAssumption
         DEF CheckRunning, Session, Left, InSession, PressesOf
    <3>3. Promise!Begin("start")
      BY <1>8, <2>2, <2>4, <3>2
         DEF CheckRunning, Promise!Begin, Promise!Presses, PressesOf
    <3>4. QED
      BY <3>3 DEF Promise!Next
  <2>5. QED
    BY <2>3, <2>4
<1>9. ASSUME NEW t \in Threads, AnnounceStart(t) PROVE Quiet
  <2>1. relay_lock = t /\ t # NoThread
    BY <1>9, ThreadsAssumption DEF AnnounceStart, IInv, LockDiscipline
  <2>2. QED
    BY <1>9, <2>1
       DEF AnnounceStart, Goto, IInv, TypeOK, Session, Left, InSession, Promise!vars
<1>10. ASSUME NEW t \in Threads, Press(t) PROVE Promise!Next
  <2>1. pc[t] = "press" /\ job[t] \in Sequenced /\ presses[t] < PressesOf(job[t])
    BY <1>10 DEF Press, IInv, SequenceFits
  <2>2. relay_lock = t /\ proc # "down" /\ Session = job[t] /\ Left = PressesOf(job[t]) - presses[t]
    BY <2>1, HolderView
  <2>3. presses[t] \in Nat /\ PressesOf(job[t]) \in Nat
    BY <2>1, RetriesAssumption DEF IInv, TypeOK, PressesOf
  <2>4. CASE proc = "serving"
    <3>1. pc'[t] = "held" /\ presses'[t] = presses[t] + 1 /\ job'[t] = job[t]
      BY <1>10, <2>4 DEF Press, Goto, IInv, TypeOK
    <3>2. Session' = Session /\ Left' = Left - 1
      BY <1>10, <2>1, <2>2, <2>3, <2>4, <3>1, ThreadsAssumption
         DEF Press, Session, Left, InSession
    <3>3. ~relay
      BY <2>1, <2>2, <2>4, ThreadsAssumption DEF IInv, TypeOK, ButtonFollowsHolder
    <3>4. Promise!PushDown
      BY <1>10, <2>1, <2>2, <2>3, <2>4, <3>2, <3>3 DEF Press, Promise!PushDown
    <3>5. QED
      BY <3>4 DEF Promise!Next
  <2>5. CASE proc = "closing"
    <3>1. pc'[t] = "release"
      BY <1>10, <2>5 DEF Press, Goto, IInv, TypeOK
    <3>2. Session' = "none" /\ Left' = 0
      BY <1>10, <2>2, <2>5, <3>1 DEF Press, Session, Left, InSession
    <3>3. ~relay
      BY <2>5 DEF IInv, NothingOutlives
    <3>4. relay' = FALSE
      BY <1>10, <2>5, <3>3 DEF Press, IInv, TypeOK
    <3>5. Promise!Abandon
      BY <1>10, <2>1, <2>2, <3>2, <3>4 DEF Press, Promise!Abandon
    <3>6. QED
      BY <3>5 DEF Promise!Next
  <2>6. QED
    BY <1>10, <2>4, <2>5 DEF Press
<1>11. ASSUME NEW t \in Threads, Lift(t) PROVE Promise!Next
  <2>1. pc[t] = "held" /\ job[t] \in Sequenced
    BY <1>11 DEF Lift, IInv, SequenceFits
  <2>2. relay_lock = t /\ proc # "down" /\ Session = job[t] /\ t # NoThread
    BY <2>1, HolderView, ThreadsAssumption
  <2>3. CASE proc = "serving"
    <3>1. pc'[t] \in {"press", "commit"}
      BY <1>11, <2>3 DEF Lift, Goto, IInv, TypeOK
    <3>2. UNCHANGED <<Session, Left>>
      BY <1>11, <2>1, <2>2, <3>1 DEF Lift, Session, Left, InSession
    <3>3. relay
      BY <2>1, <2>2, <2>3 DEF IInv, ButtonFollowsHolder
    <3>4. Promise!LiftUp
      BY <1>11, <2>1, <2>2, <2>3, <3>2, <3>3 DEF Lift, Promise!LiftUp
    <3>5. QED
      BY <3>4 DEF Promise!Next
  <2>4. CASE proc = "closing"
    <3>1. pc'[t] = "release"
      BY <1>11, <2>4 DEF Lift, Goto, IInv, TypeOK
    <3>2. Session' = "none" /\ Left' = 0
      BY <1>11, <2>2, <2>4, <3>1 DEF Lift, Session, Left, InSession
    <3>3. ~relay
      BY <2>4 DEF IInv, NothingOutlives
    <3>4. relay' = FALSE
      BY <1>11, <2>4, <3>3 DEF Lift, IInv, TypeOK
    <3>5. Promise!Abandon
      BY <1>11, <2>1, <2>2, <3>2, <3>4 DEF Lift, Promise!Abandon
    <3>6. QED
      BY <3>5 DEF Promise!Next
  <2>5. QED
    BY <1>11, <2>3, <2>4 DEF Lift
<1>12. ASSUME NEW t \in Threads, Commit(t) PROVE Promise!Next
  <2>1. pc[t] = "commit" /\ job[t] \in Sequenced /\ presses[t] = PressesOf(job[t])
    BY <1>12 DEF Commit, IInv, SequenceFits
  <2>2. relay_lock = t /\ proc # "down" /\ Session = job[t] /\ Left = PressesOf(job[t]) - presses[t]
    BY <2>1, HolderView
  <2>3. Left = 0
    BY <2>1, <2>2, RetriesAssumption DEF PressesOf
  <2>4. ~relay
    BY <2>1, <2>2, ThreadsAssumption DEF IInv, TypeOK, ButtonFollowsHolder, NothingOutlives
  <2>5. pc'[t] = "record"
    BY <1>12 DEF Commit, Goto, IInv, TypeOK
  <2>6. Session' = "none" /\ Left' = 0
    BY <1>12, <2>2, <2>5 DEF Commit, Session, Left, InSession
  <2>7. Promise!Complete
    BY <1>12, <2>1, <2>2, <2>3, <2>4, <2>6 DEF Commit, Promise!Complete
  <2>8. QED
    BY <2>7 DEF Promise!Next
<1>13. ASSUME NEW t \in Threads, RecordDone(t) PROVE Quiet
  <2>1. relay_lock = t /\ t # NoThread
    BY <1>13, ThreadsAssumption DEF RecordDone, IInv, LockDiscipline
  <2>2. QED
    BY <1>13, <2>1
       DEF RecordDone, Goto, IInv, TypeOK, Session, Left, InSession, Promise!vars
<1>14. ASSUME NEW t \in Threads, Release(t) PROVE Quiet
  <2>1. relay_lock = t /\ t # NoThread
    BY <1>14, ThreadsAssumption DEF Release, IInv, LockDiscipline
  <2>2. QED
    BY <1>14, <2>1 DEF Release, Session, Left, InSession, Promise!vars
<1>15. ASSUME CloseDevice PROVE Promise!Next \/ Quiet
  <2>1. UNCHANGED <<Session, Left, running>> /\ relay' = FALSE
    BY <1>15 DEF CloseDevice, Session, Left, InSession
  <2>2. CASE relay
    <3>1. relay_lock \in Threads /\ pc[relay_lock] = "held"
      BY <1>15, <2>2 DEF CloseDevice, IInv, TypeOK, ButtonFollowsHolder
    <3>2. Session \in Sequenced
      BY <3>1, HolderView
    <3>3. Promise!LiftUp
      BY <2>1, <2>2, <3>2 DEF Promise!LiftUp
    <3>4. QED
      BY <3>3 DEF Promise!Next
  <2>3. CASE ~relay
    BY <2>1, <2>3 DEF Promise!vars, IInv, TypeOK
  <2>4. QED
    BY <2>2, <2>3
<1>16. ASSUME Exit PROVE Promise!Crash
  <2>1. Session # "dead"
    BY <1>16 DEF Exit, Session, InSession, IInv, TypeOK, SequenceFits
  <2>2. Session' = "dead" /\ Left' = 0
    BY <1>16 DEF Exit, Session, Left, InSession
  <2>3. QED
    BY <1>16, <2>1, <2>2 DEF Exit, Promise!Crash
<1>17. ASSUME Boot PROVE Promise!Boot
  <2>1. relay_lock = NoThread
    BY <1>17 DEF Boot, IInv, TypeOK, LockDiscipline, NothingOutlives
  <2>2. Session = "dead" /\ Left = 0 /\ Session' = "none" /\ Left' = 0
    BY <1>17, <2>1 DEF Boot, Session, Left, InSession
  <2>3. QED
    BY <1>17, <2>2 DEF Boot, Promise!Boot
<1>18. CASE UNCHANGED vars
  BY <1>18 DEF vars, Promise!vars, Session, Left, InSession
<1>19. QED
  BY <1>1, <1>2, <1>3, <1>4, <1>5, <1>6, <1>7, <1>8, <1>9, <1>10, <1>11, <1>12, <1>13,
     <1>14, <1>15, <1>16, <1>17, <1>18
     DEF Next, Request, Step, Promise!Next

\* The detailed sequences keep the promise: exclusive sessions, complete press
\* counts, a start only from stopped, a flag moved by nothing else.
THEOREM Refinement == Spec => ImplementsOneTouch
<1>1. Init => Promise!Init
  BY InitRefines
<1>2. IInv /\ IInv' /\ [Next]_vars => [Promise!Next]_(Promise!vars)
  BY StepRefines
<1>3. QED
  BY <1>1, <1>2, Invariance, PTL DEF Spec, ImplementsOneTouch, Promise!Spec

=============================================================================
