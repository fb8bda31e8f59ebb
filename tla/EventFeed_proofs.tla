---------------------------- MODULE EventFeed_proofs ----------------------------
(***************************************************************************)
(* The table of the event store, for any retention and any number of       *)
(* events and of wipes: whatever the browsers do, it is the newest events  *)
(* since the last wipe without a hole.  The poll queue, for any pollers,   *)
(* any refresh interval and any link: one job per key, in the order of     *)
(* queuing, and what has aged is not overtaken.                            *)
(***************************************************************************)
EXTENDS EventFeed, SequenceTheorems, WellFoundedInduction, TLAPS

TableInv == autoinc \in Nat /\ TableIsNewest

(* What the table holds, when its oldest possible row is the one after from. *)
Rows(from, last) == {s \in 1..last : s > from /\ s > last - EventLogMax}

(* The number just given out is the largest. *)
LEMMA NewestIsMax ==
  ASSUME NEW n \in Nat, NEW rows \in SUBSET (1..n)
  PROVE  Max(rows \cup {n + 1}) = n + 1
<1> DEFINE S == rows \cup {n + 1}
           IsMax(m) == m \in S /\ \A y \in S : m >= y
<1>1. S \subseteq Nat /\ IsMax(n + 1)
  OBVIOUS
<1>2. \A m : IsMax(m) => m = n + 1
  BY <1>1
<1>3. Max(S) = CHOOSE m \in S : \A y \in S : m >= y
  BY DEF Max
<1>4. IsMax(Max(S))
  BY <1>1, <1>3
<1> QED
  BY <1>2, <1>4

(* A trimmed insert moves the window up by one. *)
LEMMA InsertTrims ==
  ASSUME NEW n \in Nat, NEW from \in 0..n
  PROVE  Trimmed(Rows(from, n) \cup {n + 1}) = Rows(from, n + 1)
<1>1. Rows(from, n) \in SUBSET (1..n)
  BY DEF Rows
<1>2. Max(Rows(from, n) \cup {n + 1}) = n + 1
  BY <1>1, NewestIsMax
<1>3. EventLogMax \in Nat /\ EventLogMax > 0
  BY StoreAssumption
<1>4. Trimmed(Rows(from, n) \cup {n + 1})
        = {s \in Rows(from, n) \cup {n + 1} : s > (n + 1) - EventLogMax}
  BY <1>2 DEF Trimmed
<1> QED
  BY <1>3, <1>4 DEF Rows

\* The startup event is the whole table.
LEMMA TableInit == Init => TableInv
<1> SUFFICES ASSUME Init PROVE TableInv
  OBVIOUS
<1>1. events = {1} /\ autoinc = 1 /\ EventLogMax \in Nat /\ EventLogMax > 0
  BY StoreAssumption DEF Init, StoreInit
<1>2. events = {s \in 1..autoinc : s > 0 /\ s > autoinc - EventLogMax}
  BY <1>1
<1> QED
  BY <1>1, <1>2 DEF TableInv, TableIsNewest

\* Recording trims below the newest, a wipe starts anew, the browser writes nothing.
LEMMA TableStep == TableInv /\ [Next]_vars => TableInv'
<1> SUFFICES ASSUME TableInv, [Next]_vars PROVE TableInv'
  OBVIOUS
<1>1. PICK from \in 0..autoinc : events = Rows(from, autoinc)
  BY DEF TableInv, TableIsNewest, Rows
<1>2. CASE RecordEvent
  <2>1. autoinc' = autoinc + 1 /\ autoinc \in Nat
    BY <1>2 DEF RecordEvent, TableInv
  <2>2. events' = Rows(from, autoinc + 1)
    BY <1>1, <1>2, <2>1, InsertTrims DEF RecordEvent
  <2>3. from \in 0..autoinc' /\ events' = Rows(from, autoinc')
    BY <2>1, <2>2
  <2> QED
    BY <2>1, <2>3 DEF TableInv, TableIsNewest, Rows
<1>3. CASE Wipe
  <2>1. autoinc' = autoinc /\ autoinc \in Nat /\ events' = {}
    BY <1>3 DEF Wipe, TableInv
  <2>2. events' = {s \in 1..autoinc' : s > autoinc /\ s > autoinc' - EventLogMax}
    BY <2>1
  <2> QED
    BY <2>1, <2>2 DEF TableInv, TableIsNewest
<1>4. CASE UNCHANGED <<events, autoinc>>
  BY <1>4 DEF TableInv, TableIsNewest
<1>5. RecordEvent \/ Wipe \/ UNCHANGED <<events, autoinc>>
  BY DEF Next, vars, Store, Time, Refresh, PollHistory, SetLogView, PollAnswered,
    PollFailed, PollLost, LoadOlder, OlderAnswered, OlderLost
<1> QED
  BY <1>2, <1>3, <1>4, <1>5

(* The table is the newest EVENT_LOG_MAX events since the last wipe: bounded,
   and with no hole that a page could skip over. *)
THEOREM TableHolds == Spec => []TableIsNewest
<1>1. TableInv => TableIsNewest
  BY DEF TableInv
<1> QED
  BY TableInit, TableStep, <1>1, PTL DEF Spec
--------------------------------------------------------------------------------
(***************************************************************************)
(* The queue.  The path of a job is the cursor of the browser, whatever it *)
(* is: P stands for the paths seen so far.                                 *)
(***************************************************************************)
JobsOf(P) == [key : Pollers, path : P, waited : Nat]

\* One job per key, in the order of queuing.
InOrder(q) ==
  \A i, j \in 1..Len(q) : i < j => q[i].key # q[j].key /\ q[i].waited >= q[j].waited

\* What is true of the queue before it is drained.
Waiting(p, P) ==
  /\ p = [queue |-> p.queue, active |-> p.active]
  /\ p.queue \in Seq(JobsOf(P))
  /\ InOrder(p.queue)

\* Between two callbacks it is empty unless a request is in flight.
Queue(p, P) == Waiting(p, P) /\ (p.active = NoJob => p.queue = <<>>)

QueueInv == \E P : Queue(poll, P)

\* What a job is protected from waits in r as it does in p.
Kept(p, r) ==
  \A i, j \in DOMAIN p.queue :
    i < j /\ Protected(p.queue[i], p.queue[j]) /\ p.queue[i].key \in QueuedKeys(r) =>
      p.queue[j].key \in QueuedKeys(r)

(* The natural numbers are well ordered. *)
LEMMA LeastNat ==
  ASSUME NEW S \in SUBSET Nat, S # {}
  PROVE  \E x \in S : \A y \in S : x <= y
<1>1. IsWellFoundedOn(OpToRel(<, Nat), Nat)
  BY NatLessThanWellFounded
<1>2. PICK x \in S : \A y \in S : ~(<<y, x>> \in OpToRel(<, Nat))
  BY <1>1, WFMin
<1>3. \A y \in S : x <= y
  <2> SUFFICES ASSUME NEW y \in S, y < x PROVE FALSE
    OBVIOUS
  <2>1. <<y, x>> \in Nat \X Nat /\ <<y, x>>[1] < <<y, x>>[2]
    OBVIOUS
  <2>2. <<y, x>> \in OpToRel(<, Nat)
    BY <2>1 DEF OpToRel
  <2> QED
    BY <1>2, <2>2
<1> QED
  BY <1>3

(* Two waits contain at least the full intervals of each. *)
LEMMA FullIntervals ==
  ASSUME NEW a \in Nat, NEW b \in Nat
  PROVE  /\ a \div IntervalTicks \in Nat
         /\ (a + b) \div IntervalTicks >= (a \div IntervalTicks) + (b \div IntervalTicks)
<1> DEFINE N == IntervalTicks
           x == a \div N
           y == b \div N
           z == (a + b) \div N
<1>1. N \in Nat /\ N > 0
  BY PollAssumption
<1>2. x \in Int /\ N * x <= a /\ a < N * x + N
  BY <1>1
<1>3. y \in Int /\ N * y <= b /\ b < N * y + N
  BY <1>1
<1>4. z \in Int /\ N * z <= a + b /\ a + b < N * z + N
  BY <1>1
<1> HIDE DEF x, y, z, N
<1>5. x >= 0
  BY <1>1, <1>2
<1>6. z >= x + y
  <2> SUFFICES ASSUME z + 1 <= x + y PROVE FALSE
    BY <1>2, <1>3, <1>4
  <2>1. N * (z + 1) <= N * (x + y)
    BY <1>1, <1>2, <1>3, <1>4
  <2>2. N * (z + 1) = N * z + N /\ N * (x + y) = N * x + N * y
    BY <1>1, <1>2, <1>3, <1>4
  <2>3. N * x \in Int /\ N * y \in Int /\ N * z \in Int
    BY <1>1, <1>2, <1>3, <1>4
  <2> QED
    BY <1>1, <1>2, <1>3, <1>4, <2>1, <2>2, <2>3
<1> QED
  BY <1>2, <1>5, <1>6 DEF x, y, z, N

(* Levels are numbers, and a longer wait makes none of them higher. *)
LEMMA Levels ==
  ASSUME NEW key \in Pollers, NEW a \in Nat, NEW b \in Nat
  PROVE  /\ Level(key, a) \in Int
         /\ Level(key, a + b) <= Level(key, a) - (b \div IntervalTicks)
         /\ Level(key, a) >= 0 - (a \div IntervalTicks)
<1>1. Prio[key] \in 0..2
  BY PollAssumption DEF Prio
<1> DEFINE x == a \div IntervalTicks
           y == b \div IntervalTicks
           z == (a + b) \div IntervalTicks
<1>2. x \in Nat /\ y \in Nat /\ z \in Nat /\ z >= x + y
  <2>1. a + b \in Nat
    OBVIOUS
  <2>2. x \in Nat /\ y \in Nat /\ z >= x + y
    BY FullIntervals
  <2>3. z \in Nat
    BY <2>1, FullIntervals
  <2> QED
    BY <2>2, <2>3
<1>3. /\ Level(key, a) = Prio[key] - x /\ Level(key, a + b) = Prio[key] - z
  BY DEF Level
<1> HIDE DEF x, y, z
<1>4. /\ Prio[key] - x \in Int /\ Prio[key] - z <= Prio[key] - x - y /\ Prio[key] - x >= 0 - x
  BY <1>1, <1>2
<1> QED
  BY <1>3, <1>4 DEF x, y

(* A job that had aged when another was queued stays at least as urgent. *)
LEMMA StaysAhead ==
  ASSUME NEW P, NEW i \in JobsOf(P), NEW j \in JobsOf(P),
         i.waited >= j.waited, Protected(i, j)
  PROVE  LevelOf(i) <= LevelOf(j)
<1> DEFINE d == i.waited - j.waited
           w == j.waited
           k == i.key
           l == j.key
<1>1. d \in Nat /\ w \in Nat /\ i.waited = d + w /\ k \in Pollers /\ l \in Pollers
  BY DEF JobsOf
<1>2. Level(k, d) <= 0 /\ LevelOf(i) = Level(k, d + w) /\ LevelOf(j) = Level(l, w)
  BY <1>1 DEF Protected, LevelOf
<1> HIDE DEF d, w, k, l
<1> DEFINE y == w \div IntervalTicks
<1>3. y \in Nat /\ d + w \in Nat
  <2>1. w \in Nat
    BY <1>1
  <2>2. y \in Nat
    BY <2>1, FullIntervals
  <2> QED
    BY <1>1, <2>2
<1>4. Level(k, d) \in Int /\ Level(k, d + w) <= Level(k, d) - y
  BY <1>1, Levels
<1>5. Level(l, w) \in Int /\ Level(l, w) >= 0 - y
  BY <1>1, Levels
<1>6. Level(k, d + w) \in Int
  BY <1>1, <1>3, Levels
<1> HIDE DEF y
<1> QED
  BY <1>2, <1>3, <1>4, <1>5, <1>6

(* The scan of a queue that holds a job finds one: the levels are bounded by
   the wait of the first. *)
LEMMA ScanFinds ==
  ASSUME NEW P, NEW q \in Seq(JobsOf(P)), InOrder(q), q # <<>>
  PROVE  /\ MostUrgent(q) \in 1..Len(q)
         /\ \A m \in 1..Len(q) :
              \/ LevelOf(q[MostUrgent(q)]) < LevelOf(q[m])
              \/ LevelOf(q[MostUrgent(q)]) = LevelOf(q[m]) /\ MostUrgent(q) <= m
<1>1. /\ Len(q) \in Nat /\ DOMAIN q = 1..Len(q) /\ 1 \in 1..Len(q)
      /\ \A m \in 1..Len(q) : q[m] \in JobsOf(P)
  BY LenProperties, ElementOfSeq, EmptySeq
<1> DEFINE lev(m) == LevelOf(q[m])
           W == q[1].waited \div IntervalTicks
<1>2. ASSUME NEW m \in 1..Len(q) PROVE lev(m) \in Int /\ lev(m) + W \in Nat
  <2>1. /\ q[m].key \in Pollers /\ q[m].waited \in Nat /\ q[1].waited \in Nat
        /\ q[1].waited >= q[m].waited
    <3>1. q[m] \in JobsOf(P) /\ q[1] \in JobsOf(P)
      BY <1>1
    <3>2. m = 1 \/ 1 < m
      BY <1>1
    <3> QED
      BY <1>1, <3>1, <3>2 DEF InOrder, JobsOf
  <2> DEFINE a == q[m].waited
             b == q[1].waited - q[m].waited
  <2>2. a \in Nat /\ b \in Nat /\ q[1].waited = a + b
    BY <2>1
  <2> HIDE DEF a, b
  <2>3. /\ W \in Nat /\ a \div IntervalTicks \in Nat /\ b \div IntervalTicks \in Nat
        /\ W >= (a \div IntervalTicks) + (b \div IntervalTicks)
    <3>1. a + b \in Nat /\ W = (a + b) \div IntervalTicks
      BY <2>2
    <3> HIDE DEF W
    <3>2. a \div IntervalTicks \in Nat /\ b \div IntervalTicks \in Nat
      BY <2>2, FullIntervals
    <3>3. (a + b) \div IntervalTicks \in Nat
      BY <3>1, FullIntervals
    <3>4. (a + b) \div IntervalTicks >= (a \div IntervalTicks) + (b \div IntervalTicks)
      BY <2>2, FullIntervals
    <3> QED
      BY <3>1, <3>2, <3>3, <3>4
  <2>4. lev(m) \in Int /\ lev(m) >= 0 - (a \div IntervalTicks)
    BY <2>1, <2>2, Levels DEF LevelOf, a
  <2> HIDE DEF W, lev
  <2> QED
    BY <2>3, <2>4
<1> HIDE DEF lev, W
<1>3. W \in Int
  BY <1>1, FullIntervals DEF W, JobsOf
<1> DEFINE S == {lev(m) + W : m \in 1..Len(q)}
<1>4. S \in SUBSET Nat /\ S # {}
  BY <1>1, <1>2
<1>5. PICK low \in S : \A y \in S : low <= y
  BY <1>4, LeastNat
<1> DEFINE T == {m \in 1..Len(q) : lev(m) + W = low}
<1>6. T \in SUBSET Nat /\ T # {}
  BY <1>5
<1>7. PICK n \in T : \A m \in T : n <= m
  BY <1>6, LeastNat
<1>8. n \in 1..Len(q) /\ \A m \in 1..Len(q) : lev(n) < lev(m) \/ (lev(n) = lev(m) /\ n <= m)
  <2>1. n \in 1..Len(q) /\ lev(n) + W = low
    BY <1>7
  <2>2. ASSUME NEW m \in 1..Len(q) PROVE lev(n) < lev(m) \/ (lev(n) = lev(m) /\ n <= m)
    <3>1. low <= lev(m) + W
      BY <1>5
    <3>2. lev(n) \in Int /\ lev(m) \in Int
      BY <1>2, <2>1
    <3>3. CASE lev(m) = lev(n)
      <4>1. m \in T
        BY <2>1, <3>3
      <4> QED
        BY <1>7, <3>3, <4>1
    <3>4. CASE lev(m) # lev(n)
      BY <1>3, <2>1, <3>1, <3>2, <3>4
    <3> QED
      BY <3>3, <3>4
  <2> QED
    BY <2>1, <2>2
<1>9. MostUrgent(q) = CHOOSE k \in 1..Len(q) : \A m \in 1..Len(q) :
                        lev(k) < lev(m) \/ (lev(k) = lev(m) /\ k <= m)
  BY <1>1 DEF MostUrgent, lev
<1> QED
  BY <1>8, <1>9 DEF lev

(* RemoveAt takes out one job and keeps the others in their order. *)
LEMMA RemovedJob ==
  ASSUME NEW J, NEW q \in Seq(J), NEW n \in 1..Len(q)
  PROVE  /\ RemoveAt(q, n) \in Seq(J) /\ Len(RemoveAt(q, n)) = Len(q) - 1
         /\ \A k \in 1..Len(q) - 1 : RemoveAt(q, n)[k] = IF k < n THEN q[k] ELSE q[k + 1]
<1> DEFINE front == SubSeq(q, 1, n - 1)
           back == SubSeq(q, n + 1, Len(q))
           rest == RemoveAt(q, n)
<1>1. Len(q) \in Nat /\ n \in 1..Len(q) /\ \A k \in 1..Len(q) : q[k] \in J
  BY LenProperties, ElementOfSeq
<1>2. /\ front \in Seq(J) /\ Len(front) = n - 1
      /\ \A k \in 1..n - 1 : front[k] = q[k]
  <2>1. 1 \in Int /\ n - 1 \in Int /\ \A k \in 1..n - 1 : q[k] \in J
    BY <1>1
  <2>2. /\ front \in Seq(J)
        /\ Len(front) = IF 1 <= n - 1 THEN (n - 1) - 1 + 1 ELSE 0
        /\ \A k \in 1..(n - 1) - 1 + 1 : front[k] = q[1 + k - 1]
    BY <2>1, SubSeqProperties
  <2> QED
    BY <1>1, <2>2
<1>3. /\ back \in Seq(J) /\ Len(back) = Len(q) - n
      /\ \A k \in 1..Len(q) - n : back[k] = q[n + k]
  <2>1. n + 1 \in Int /\ Len(q) \in Int /\ \A k \in n + 1..Len(q) : q[k] \in J
    BY <1>1
  <2>2. /\ back \in Seq(J)
        /\ Len(back) = IF n + 1 <= Len(q) THEN Len(q) - (n + 1) + 1 ELSE 0
        /\ \A k \in 1..Len(q) - (n + 1) + 1 : back[k] = q[(n + 1) + k - 1]
    BY <2>1, SubSeqProperties
  <2> QED
    BY <1>1, <2>2
<1>4. rest = front \o back
  BY DEF RemoveAt
<1> HIDE DEF front, back, rest
<1>5. /\ rest \in Seq(J)
      /\ Len(rest) = Len(front) + Len(back)
      /\ \A k \in 1..Len(front) + Len(back) :
           rest[k] = IF k <= Len(front) THEN front[k] ELSE back[k - Len(front)]
  BY <1>2, <1>3, <1>4, ConcatProperties
<1>6. ASSUME NEW k \in 1..Len(q) - 1
      PROVE  rest[k] = IF k < n THEN q[k] ELSE q[k + 1]
  <2>1. CASE k < n
    BY <1>1, <1>2, <1>3, <1>5, <2>1
  <2>2. CASE ~(k < n)
    <3>1. k - (n - 1) \in 1..Len(q) - n /\ n + (k - (n - 1)) = k + 1
      BY <1>1, <2>2
    <3>2. rest[k] = back[k - (n - 1)]
      <4>1. Len(front) = n - 1 /\ Len(back) = Len(q) - n
        BY <1>2, <1>3
      <4>2. k \in 1..Len(front) + Len(back) /\ ~(k <= Len(front))
        BY <1>1, <2>2, <4>1
      <4> QED
        BY <1>5, <4>1, <4>2
    <3> QED
      BY <1>1, <1>3, <2>2, <3>1, <3>2
  <2> QED
    BY <2>1, <2>2
<1> QED
  BY <1>1, <1>2, <1>3, <1>5, <1>6 DEF rest

(* _drainPollQ leaves no job waiting behind nothing, and sends none before one
   it is protected from. *)
LEMMA Drained ==
  ASSUME NEW P, NEW p, Waiting(p, P)
  PROVE  Queue(Drain(p), P) /\ Kept(p, Drain(p))
<1> DEFINE q == p.queue
           n == MostUrgent(q)
           t == RemoveAt(q, n)
           d == Drain(p)
<1>1. /\ q \in Seq(JobsOf(P)) /\ Len(q) \in Nat /\ DOMAIN q = 1..Len(q)
      /\ \A i \in 1..Len(q) : q[i] \in JobsOf(P)
      /\ InOrder(q)
  BY LenProperties, ElementOfSeq DEF Waiting
<1>2. CASE p.active # NoJob \/ q = <<>>
  BY <1>1, <1>2 DEF Drain, Waiting, Queue, Kept, QueuedKeys
<1>3. CASE p.active = NoJob /\ q # <<>>
  <2>1. d = [queue |-> t, active |-> [key |-> q[n].key, path |-> q[n].path]]
    BY <1>3 DEF Drain
  <2>2. /\ n \in 1..Len(q)
        /\ \A m \in 1..Len(q) : \/ LevelOf(q[n]) < LevelOf(q[m])
                                \/ LevelOf(q[n]) = LevelOf(q[m]) /\ n <= m
    BY <1>1, <1>3, ScanFinds
  <2> HIDE DEF n
  <2>3. /\ t \in Seq(JobsOf(P)) /\ Len(t) = Len(q) - 1
        /\ \A k \in 1..Len(q) - 1 : t[k] = IF k < n THEN q[k] ELSE q[k + 1]
    BY <1>1, <2>2, RemovedJob
  <2> HIDE DEF q, t, d
  <2>4. DOMAIN t = 1..Len(q) - 1
    BY <1>1, <2>3, LenProperties
  <2> DEFINE at(k) == IF k < n THEN k ELSE k + 1
  <2>5. \A k \in 1..Len(q) - 1 : at(k) \in 1..Len(q) /\ t[k] = q[at(k)]
    BY <1>1, <2>2, <2>3
  <2>6. InOrder(t)
    <3> SUFFICES ASSUME NEW i \in 1..Len(q) - 1, NEW j \in 1..Len(q) - 1, i < j
                 PROVE  t[i].key # t[j].key /\ t[i].waited >= t[j].waited
      BY <2>3 DEF InOrder
    <3>1. at(i) < at(j)
      BY <1>1, <2>2
    <3>2. q[at(i)].key # q[at(j)].key /\ q[at(i)].waited >= q[at(j)].waited
      BY <1>1, <2>5, <3>1 DEF InOrder
    <3> QED
      BY <2>5, <3>2
  <2>7. [key |-> q[n].key, path |-> q[n].path] # NoJob
    <3>1. q[n].key \in Pollers
      BY <1>1, <2>2 DEF JobsOf
    <3> QED
      BY <3>1, PollAssumption DEF Prio, NoJob
  <2>8. Queue(d, P)
    BY <2>1, <2>3, <2>6, <2>7 DEF Queue, Waiting
  <2>9. ASSUME NEW i \in 1..Len(q), NEW j \in 1..Len(q), i < j, Protected(q[i], q[j])
        PROVE  q[j].key \in QueuedKeys(d)
    <3>1. LevelOf(q[i]) <= LevelOf(q[j])
      BY <1>1, <2>9, StaysAhead DEF InOrder
    <3>2. LevelOf(q[i]) \in Int /\ LevelOf(q[j]) \in Int
      <4>1. \A m \in 1..Len(q) : q[m].key \in Pollers /\ q[m].waited \in Nat
        BY <1>1 DEF JobsOf
      <4> QED
        BY <4>1, Levels DEF LevelOf
    <3>3. j # n
      BY <1>1, <2>2, <2>9, <3>1, <3>2
    <3> DEFINE k == IF j < n THEN j ELSE j - 1
    <3>4. k \in 1..Len(q) - 1 /\ at(k) = j
      BY <1>1, <2>2, <3>3
    <3>5. t[k].key = q[j].key
      BY <2>5, <3>4
    <3> QED
      BY <2>1, <2>4, <3>4, <3>5 DEF QueuedKeys
  <2> QED
    BY <1>1, <2>8, <2>9 DEF d, q, Kept
<1> QED
  BY <1>2, <1>3

\* Paths seen so far and one more.
LEMMA MorePaths ==
  ASSUME NEW P, NEW Q, P \subseteq Q, NEW p, Queue(p, P)
  PROVE  Queue(p, Q)
<1>1. JobsOf(P) \subseteq JobsOf(Q)
  BY DEF JobsOf
<1>2. Seq(JobsOf(P)) \subseteq Seq(JobsOf(Q))
  BY <1>1
<1> QED
  BY <1>2 DEF Queue, Waiting

\* What another path makes of a job, and what waiting does.
LEMMA LaterJob ==
  ASSUME NEW P, NEW j \in JobsOf(P), NEW path
  PROVE  /\ Waited(j) \in JobsOf(P) /\ Waited(j).key = j.key
         /\ Waited(j).waited = j.waited + 1 /\ j.waited \in Nat
         /\ path \in P => [j EXCEPT !.path = path] \in JobsOf(P)
         /\ [j EXCEPT !.path = path].key = j.key
         /\ [j EXCEPT !.path = path].waited = j.waited
<1>1. j \in [key : Pollers, path : P, waited : Nat]
  BY DEF JobsOf
<1>2. path \in P => [j EXCEPT !.path = path] \in [key : Pollers, path : P, waited : Nat]
  BY <1>1
<1>3. [j EXCEPT !.path = path].key = j.key /\ [j EXCEPT !.path = path].waited = j.waited
  BY <1>1
<1>4. Waited(j) \in [key : Pollers, path : P, waited : Nat]
  BY <1>1 DEF Waited
<1>5. Waited(j).key = j.key /\ Waited(j).waited = j.waited + 1 /\ j.waited \in Nat
  BY <1>1 DEF Waited
<1> QED
  BY <1>2, <1>3, <1>4, <1>5 DEF JobsOf

(* A queue whose jobs are replaced one by one by jobs of the same key, that have
   waited the same or all one tick more, is still in order. *)
LEMMA Replaced ==
  ASSUME NEW P, NEW p, Queue(p, P), NEW s, NEW more \in {0, 1},
         DOMAIN s = DOMAIN p.queue, s = [i \in DOMAIN p.queue |-> s[i]],
         \A i \in DOMAIN p.queue :
           /\ s[i] \in JobsOf(P) /\ s[i].key = p.queue[i].key
           /\ s[i].waited = p.queue[i].waited + more
  PROVE  /\ Queue([queue |-> s, active |-> p.active], P)
         /\ QueuedKeys([queue |-> s, active |-> p.active]) = QueuedKeys(p)
<1> DEFINE q == p.queue
           r == [queue |-> s, active |-> p.active]
<1>1. /\ q \in Seq(JobsOf(P)) /\ Len(q) \in Nat /\ DOMAIN q = 1..Len(q) /\ InOrder(q)
      /\ \A i \in 1..Len(q) : q[i].waited \in Nat
  <2>1. q \in Seq(JobsOf(P)) /\ InOrder(q)
    BY DEF Queue, Waiting
  <2> HIDE DEF q
  <2>2. Len(q) \in Nat /\ DOMAIN q = 1..Len(q) /\ \A i \in 1..Len(q) : q[i] \in JobsOf(P)
    BY <2>1, LenProperties, ElementOfSeq
  <2> QED
    BY <2>1, <2>2 DEF JobsOf
<1>2. s \in Seq(JobsOf(P)) /\ Len(s) = Len(q) /\ DOMAIN s = 1..Len(q)
  <2>1. s \in [1..Len(q) -> JobsOf(P)]
    BY <1>1
  <2> QED
    BY <1>1, <2>1, LenProperties
<1>3. \A i \in 1..Len(q) : s[i].key = q[i].key /\ s[i].waited = q[i].waited + more
  BY <1>1
<1> HIDE DEF q
<1>4. InOrder(s)
  <2> SUFFICES ASSUME NEW i \in 1..Len(q), NEW j \in 1..Len(q), i < j
               PROVE  s[i].key # s[j].key /\ s[i].waited >= s[j].waited
    BY <1>2 DEF InOrder
  <2>1. q[i].key # q[j].key /\ q[i].waited >= q[j].waited
    BY <1>1 DEF InOrder
  <2>2. q[i].waited + more >= q[j].waited + more
    BY <1>1, <2>1
  <2> QED
    BY <1>3, <2>1, <2>2
<1>5. p.active = NoJob => s = <<>>
  <2>1. p.active = NoJob => Len(q) = 0
    BY DEF Queue, q
  <2> QED
    BY <1>2, <2>1, EmptySeq
<1>6. Queue(r, P)
  BY <1>2, <1>4, <1>5 DEF Queue, Waiting
<1>7. QueuedKeys(r) = QueuedKeys(p)
  <2>1. DOMAIN q = 1..Len(q)
    BY <1>1
  <2>2. ASSUME NEW k PROVE k \in QueuedKeys(r) <=> \E i \in 1..Len(q) : k = s[i].key
    BY <1>2 DEF QueuedKeys
  <2>3. ASSUME NEW k PROVE k \in QueuedKeys(p) <=> \E i \in 1..Len(q) : k = q[i].key
    <3>1. k \in QueuedKeys(p) <=> \E i \in DOMAIN p.queue : k = p.queue[i].key
      BY Zenon DEF QueuedKeys
    <3>2. k \in QueuedKeys(p) <=> \E i \in DOMAIN q : k = q[i].key
      BY <3>1, Zenon DEF q
    <3> QED
      BY <2>1, <3>2, Zenon
  <2>4. \A i \in 1..Len(q) : s[i].key = q[i].key
    BY <1>3
  <2>5. ASSUME NEW k PROVE k \in QueuedKeys(r) <=> k \in QueuedKeys(p)
    <3>1. (\E i \in 1..Len(q) : k = s[i].key) <=> (\E i \in 1..Len(q) : k = q[i].key)
      BY <2>4, Zenon
    <3> QED
      BY <2>2, <2>3, <3>1, Zenon
  <2> QED
    BY <2>5
<1> QED
  BY <1>6, <1>7

(* pollFetch drops the request, or renews the path of a job that stays where it
   is, or queues a job behind all others; it takes none out that waits. *)
LEMMA PollFetchKeeps ==
  ASSUME NEW P, NEW p, Queue(p, P), NEW key, NEW path, path \in P
  PROVE  /\ Queue(PollFetch(p, key, path), P)
         /\ QueuedKeys(p) \subseteq QueuedKeys(PollFetch(p, key, path))
<1> DEFINE q == p.queue
           r == PollFetch(p, key, path)
<1>1. /\ q \in Seq(JobsOf(P)) /\ Len(q) \in Nat /\ DOMAIN q = 1..Len(q) /\ InOrder(q)
      /\ \A i \in 1..Len(q) : q[i] \in JobsOf(P)
      /\ p = [queue |-> q, active |-> p.active]
  BY LenProperties, ElementOfSeq DEF Queue, Waiting
<1>2. CASE key \notin Pollers \/ (paused /\ key # "state")
  BY <1>2 DEF PollFetch
<1>3. CASE ~(key \notin Pollers \/ (paused /\ key # "state")) /\ key \in QueuedKeys(p)
  <2> DEFINE Renewed(job) == IF job.key = key THEN [job EXCEPT !.path = path] ELSE job
             s == [i \in DOMAIN q |-> Renewed(q[i])]
  <2>1. r = [p EXCEPT !.queue = s]
    BY <1>3 DEF PollFetch
  <2> HIDE DEF s
  <2>2. r = [queue |-> s, active |-> p.active]
    BY <1>1, <2>1
  <2>3. ASSUME NEW j \in JobsOf(P)
        PROVE  Renewed(j) \in JobsOf(P) /\ Renewed(j).key = j.key /\ Renewed(j).waited = j.waited + 0
    <3>1. CASE j.key = key
      <4>1. Renewed(j) = [j EXCEPT !.path = path]
        BY <3>1
      <4> HIDE DEF Renewed
      <4>2. /\ [j EXCEPT !.path = path] \in JobsOf(P) /\ [j EXCEPT !.path = path].key = j.key
            /\ [j EXCEPT !.path = path].waited = j.waited /\ j.waited \in Nat
        BY LaterJob
      <4> QED
        BY <4>1, <4>2
    <3>2. CASE j.key # key
      <4>1. Renewed(j) = j
        BY <3>2
      <4> HIDE DEF Renewed
      <4>2. j.waited + 0 = j.waited
        BY DEF JobsOf
      <4> QED
        BY <4>1, <4>2
    <3> QED
      BY <3>1, <3>2
  <2>4. DOMAIN s = DOMAIN q /\ s = [i \in DOMAIN q |-> s[i]] /\ \A i \in DOMAIN q : s[i] = Renewed(q[i])
    BY DEF s
  <2> HIDE DEF Renewed
  <2>5. \A i \in DOMAIN q :
          s[i] \in JobsOf(P) /\ s[i].key = q[i].key /\ s[i].waited = q[i].waited + 0
    BY <1>1, <2>3, <2>4
  <2>6. 0 \in {0, 1}
    OBVIOUS
  <2> HIDE DEF r
  <2>7. Queue([queue |-> s, active |-> p.active], P)
        /\ QueuedKeys([queue |-> s, active |-> p.active]) = QueuedKeys(p)
    BY <2>4, <2>5, <2>6, Replaced
  <2> QED
    BY <2>2, <2>7 DEF r
<1>4. CASE ~(key \notin Pollers \/ (paused /\ key # "state")) /\ key \notin QueuedKeys(p)
  <2> DEFINE job == [key |-> key, path |-> path, waited |-> 0]
             t == Append(q, job)
             s == [p EXCEPT !.queue = t]
  <2>1. r = Drain(s)
    BY <1>4 DEF PollFetch
  <2>2. job \in JobsOf(P) /\ job.key = key /\ job.waited = 0
    BY <1>4 DEF JobsOf
  <2> HIDE DEF job
  <2>3. /\ t \in Seq(JobsOf(P)) /\ Len(t) = Len(q) + 1 /\ DOMAIN t = 1..Len(q) + 1
        /\ \A i \in 1..Len(q) : t[i] = q[i]
        /\ t[Len(q) + 1] = job
    BY <1>1, <2>2, AppendProperties, LenProperties
  <2> HIDE DEF t
  <2>4. s = [queue |-> t, active |-> p.active]
    BY <1>1
  <2>5. InOrder(t)
    <3> SUFFICES ASSUME NEW i \in 1..Len(q) + 1, NEW j \in 1..Len(q) + 1, i < j
                 PROVE  t[i].key # t[j].key /\ t[i].waited >= t[j].waited
      BY <2>3 DEF InOrder
    <3>1. i \in 1..Len(q) /\ t[i] = q[i]
      BY <1>1, <2>3
    <3>2. CASE j \in 1..Len(q)
      BY <1>1, <2>3, <3>1, <3>2 DEF InOrder
    <3>3. CASE j \notin 1..Len(q)
      <4>1. j = Len(q) + 1
        BY <1>1, <3>3
      <4>2. q[i].key # key
        BY <1>1, <1>4, <3>1 DEF QueuedKeys
      <4>3. q[i].waited \in Nat
        BY <1>1, <3>1 DEF JobsOf
      <4> QED
        BY <2>2, <2>3, <3>1, <4>1, <4>2, <4>3
    <3> QED
      BY <3>2, <3>3
  <2> HIDE DEF s, r
  <2>6. Waiting(s, P)
    BY <2>3, <2>4, <2>5 DEF Waiting
  <2>7. Queue(r, P)
    BY <2>1, <2>6, Drained
  <2>8. CASE p.active = NoJob
    <3>1. QueuedKeys(p) = {}
      <4>1. q = <<>> /\ Len(q) = 0
        BY <2>8 DEF Queue
      <4> QED
        BY <1>1, <4>1 DEF QueuedKeys
    <3> QED
      BY <2>7, <3>1 DEF r
  <2>9. CASE p.active # NoJob
    <3>1. r = s
      BY <2>1, <2>4, <2>9 DEF Drain
    <3>2. QueuedKeys(p) \subseteq QueuedKeys(s)
      <4>1. \A i \in 1..Len(q) : i \in 1..Len(q) + 1 /\ t[i].key = q[i].key
        BY <1>1, <2>3
      <4> QED
        BY <1>1, <2>3, <2>4, <4>1 DEF QueuedKeys
    <3> QED
      BY <2>7, <3>1, <3>2 DEF r
  <2> QED
    BY <2>8, <2>9
<1> QED
  BY <1>2, <1>3, <1>4

\* When a request ends the most urgent job is sent.
LEMMA SettledKeeps ==
  ASSUME NEW P, NEW p, Queue(p, P)
  PROVE  Queue(Settled(p), P) /\ Kept(p, Settled(p))
<1> DEFINE s == [p EXCEPT !.active = NoJob]
<1>1. s = [queue |-> p.queue, active |-> NoJob]
  BY DEF Queue, Waiting
<1>2. Waiting(s, P) /\ s.queue = p.queue
  BY <1>1 DEF Waiting, Queue
<1> HIDE DEF s
<1>3. Queue(Drain(s), P) /\ Kept(s, Drain(s))
  BY <1>2, Drained
<1> QED
  BY <1>2, <1>3 DEF Settled, s, Kept

\* The page loads with nothing to poll.
LEMMA QueueInit == Init => QueueInv
<1> SUFFICES ASSUME Init PROVE Queue(poll, {})
  BY DEF QueueInv
<1>1. poll = [queue |-> <<>>, active |-> NoJob]
  BY DEF Init, PollInit, Idle
<1>2. /\ poll.queue = <<>> /\ poll.active = NoJob
      /\ Len(poll.queue) = 0 /\ poll.queue \in Seq(JobsOf({}))
  BY <1>1
<1> QED
  BY <1>1, <1>2 DEF Queue, Waiting, InOrder

\* Every callback leaves the queue in order, and sends nothing before what it is
\* protected from.
LEMMA QueueStep == QueueInv /\ [Next]_vars => QueueInv' /\ Kept(poll, poll')
<1> SUFFICES ASSUME QueueInv, [Next]_vars PROVE QueueInv' /\ Kept(poll, poll')
  OBVIOUS
<1>1. PICK P : Queue(poll, P)
  BY DEF QueueInv
<1>2. QueuedKeys(poll) \subseteq QueuedKeys(poll') => Kept(poll, poll')
  BY DEF Kept, QueuedKeys
<1>3. ASSUME NEW key, NEW path, poll' = PollFetch(poll, key, path)
      PROVE  QueueInv' /\ Kept(poll, poll')
  <2>1. Queue(poll, P \cup {path})
    BY <1>1, MorePaths
  <2>2. Queue(poll', P \cup {path}) /\ QueuedKeys(poll) \subseteq QueuedKeys(poll')
    BY <1>3, <2>1, PollFetchKeeps
  <2> QED
    BY <1>2, <2>2 DEF QueueInv
<1>4. CASE PollEnds
  <2>1. Queue(poll', P) /\ Kept(poll, poll')
    BY <1>1, <1>4, SettledKeeps DEF PollEnds
  <2> QED
    BY <2>1 DEF QueueInv
<1>5. CASE UNCHANGED poll
  BY <1>1, <1>2, <1>5 DEF QueueInv
<1>6. CASE Tick
  <2> DEFINE q == poll.queue
             s == [i \in DOMAIN q |-> Waited(q[i])]
  <2>1. poll' = [poll EXCEPT !.queue = s]
    BY <1>6 DEF Tick
  <2>2. DOMAIN s = DOMAIN q /\ s = [i \in DOMAIN q |-> s[i]] /\ \A i \in DOMAIN q : s[i] = Waited(q[i])
    OBVIOUS
  <2> HIDE DEF s
  <2>3. poll' = [queue |-> s, active |-> poll.active]
    BY <1>1, <2>1 DEF Queue, Waiting
  <2>4. \A i \in DOMAIN q : q[i] \in JobsOf(P)
    BY <1>1, LenProperties, ElementOfSeq DEF Queue, Waiting
  <2>5. \A i \in DOMAIN q :
          s[i] \in JobsOf(P) /\ s[i].key = q[i].key /\ s[i].waited = q[i].waited + 1
    <3>1. ASSUME NEW j \in JobsOf(P)
          PROVE  Waited(j) \in JobsOf(P) /\ Waited(j).key = j.key /\ Waited(j).waited = j.waited + 1
      BY LaterJob
    <3> HIDE DEF q
    <3> QED
      BY <2>2, <2>4, <3>1
  <2>6. 1 \in {0, 1}
    OBVIOUS
  <2>7. Queue(poll', P) /\ QueuedKeys(poll') = QueuedKeys(poll)
    BY <1>1, <2>2, <2>3, <2>5, <2>6, Replaced
  <2> QED
    BY <1>2, <2>7 DEF QueueInv
<1>7. ASSUME NEW atTop \in BOOLEAN, Refresh(atTop) PROVE QueueInv' /\ Kept(poll, poll')
  <2> DEFINE path == IF logView = "events" THEN newestSeq ELSE 0
             Q == P \cup {0, path}
             p == PollFetch(poll, "state", 0)
  <2>1. Queue(poll, Q)
    BY <1>1, MorePaths
  <2>2. Queue(p, Q) /\ QueuedKeys(poll) \subseteq QueuedKeys(p)
    BY <2>1, PollFetchKeeps
  <2>3. poll' = IF atTop THEN PollFetch(p, FeedKey, path) ELSE p
    BY <1>7 DEF Refresh
  <2> HIDE DEF p, path
  <2>4. CASE ~atTop
    BY <1>2, <2>2, <2>3, <2>4 DEF QueueInv
  <2>5. CASE atTop
    <3>1. Queue(poll', Q) /\ QueuedKeys(p) \subseteq QueuedKeys(poll')
      BY <2>2, <2>3, <2>5, PollFetchKeeps
    <3> QED
      BY <1>2, <2>2, <3>1 DEF QueueInv
  <2> QED
    BY <2>4, <2>5
<1>8. CASE PollHistory
  BY <1>3, <1>8 DEF PollHistory
<1>9. ASSUME NEW v \in Views, SetLogView(v) PROVE QueueInv' /\ Kept(poll, poll')
  BY <1>3, <1>9 DEF SetLogView
<1>10. CASE PollAnswered \/ PollFailed \/ PollLost
  BY <1>4, <1>10 DEF PollAnswered, PollFailed, PollLost
<1>11. CASE Store \/ Pause \/ LoadOlder \/ OlderAnswered \/ OlderLost \/ UNCHANGED vars
  BY <1>5, <1>11 DEF Store, Pause, LoadOlder, OlderAnswered, OlderLost, vars
<1> QED
  BY <1>6, <1>7, <1>8, <1>9, <1>10, <1>11 DEF Next, Time

(* Whatever the user opens and however the link behaves, _pollQ holds one job per
   key, in the order in which they were queued (so that the first of several that
   are equally urgent is the one queued first), and none waits while no request is
   in flight. *)
THEOREM QueueHolds == Spec => []QueueInv
BY QueueInit, QueueStep, PTL DEF Spec

(* A job that has waited an interval for each level of its priority is not
   overtaken: whatever pollFetch queues from then on, _drainPollQ sends after it,
   although each of the two gains its levels at its own moments. *)
THEOREM NotOvertaken == Spec => NoOvertaking
<1>1. Kept(poll, poll') => [Kept(poll, poll')]_poll
  OBVIOUS
<1>2. QueueInv /\ [Next]_vars => [Kept(poll, poll')]_poll
  BY QueueStep
<1>3. Spec => [][Kept(poll, poll')]_poll
  BY QueueHolds, <1>2, PTL DEF Spec
<1> QED
  BY <1>3 DEF NoOvertaking, Kept
================================================================================
