--------------------------- MODULE RateLimiter_proofs ---------------------------
(***************************************************************************)
(* The lockout for any number of clients, threads and entries: the bounds  *)
(* of the map and of the attempts are inductive together, and a lockout    *)
(* that is shorter than the cleanup interval is lifted by no cleanup.      *)
(***************************************************************************)
EXTENDS RateLimiter, FiniteSetTheorems, TLAPS

LimiterTypeOK ==
  /\ Tracked \subseteq Clients /\ tracker \in [Tracked -> Entry]
  /\ sinceCleanup \in Nat
  /\ request \in [Threads -> Clients \cup {NoClient}]

\* A lockout and the time since the attempt that set it make up Lockout.
Aging ==
  \A c \in Tracked :
    tracker[c].left > 0 => tracker[c].age + tracker[c].left <= Lockout

LimiterInv == LimiterTypeOK /\ TrackerBounded /\ AttemptsBounded /\ Aging

(* The sets of clients and of threads that are counted are finite. *)
LEMMA Finite ==
  ASSUME LimiterTypeOK
  PROVE  /\ IsFiniteSet(Tracked) /\ Cardinality(Tracked) \in Nat
         /\ Cardinality(Threads) \in Nat
         /\ \A c : /\ IsFiniteSet(Verifying(c)) /\ Cardinality(Verifying(c)) \in Nat
                   /\ Cardinality(Verifying(c)) <= Cardinality(Threads)
<1>1. IsFiniteSet(Tracked) /\ IsFiniteSet(Threads)
  BY FS_Subset, LimiterAssumption DEF LimiterTypeOK
<1>2. ASSUME NEW c PROVE IsFiniteSet(Verifying(c)) /\ Cardinality(Verifying(c)) <= Cardinality(Threads)
  <2>1. Verifying(c) \in SUBSET Threads
    BY DEF Verifying
  <2> QED
    BY <1>1, <2>1, FS_Subset
<1> QED
  BY <1>1, <1>2, FS_CardinalityType

(* What a request that is let in, or whose verification ends, does to the
   number of verifications under way for each client. *)
LEMMA Begins ==
  ASSUME LimiterTypeOK, NEW t \in Threads, NEW c \in Clients, request[t] = NoClient,
         request' = [request EXCEPT ![t] = c]
  PROVE  /\ Cardinality(Verifying(c)') = Cardinality(Verifying(c)) + 1
         /\ \A d \in Clients \ {c} : Verifying(d)' = Verifying(d)
<1>1. t \notin Verifying(c) /\ Verifying(c)' = Verifying(c) \cup {t}
  BY LimiterAssumption DEF LimiterTypeOK, Verifying
<1>2. \A d \in Clients \ {c} : Verifying(d)' = Verifying(d)
  BY LimiterAssumption DEF LimiterTypeOK, Verifying
<1> QED
  BY <1>1, <1>2, Finite, FS_AddElement

\* A request that ends takes one from its client's verifications, and no other's.
LEMMA Ends ==
  ASSUME LimiterTypeOK, NEW t \in Threads, NEW c \in Clients, request[t] = c,
         request' = [request EXCEPT ![t] = NoClient]
  PROVE  /\ Cardinality(Verifying(c)') = Cardinality(Verifying(c)) - 1
         /\ \A d \in Clients \ {c} : Verifying(d)' = Verifying(d)
<1>1. t \in Verifying(c) /\ Verifying(c)' = Verifying(c) \ {t}
  BY LimiterAssumption DEF LimiterTypeOK, Verifying
<1>2. \A d \in Clients \ {c} : Verifying(d)' = Verifying(d)
  BY LimiterAssumption DEF LimiterTypeOK, Verifying
<1> QED
  BY <1>1, <1>2, Finite, FS_RemoveElement

(* The invariant holds at the start, *)
LEMMA LimiterInit == Init => LimiterInv
<1> SUFFICES ASSUME Init PROVE LimiterInv
  OBVIOUS
<1>1. Tracked = {}
  BY DEF Init, Tracked
<1>2. LimiterTypeOK
  BY <1>1 DEF Init, LimiterTypeOK, Tracked
<1>3. Cardinality(Tracked) <= MaxTracked
  BY <1>1, FS_EmptySet, LimiterAssumption
<1> QED
  BY <1>1, <1>2, <1>3 DEF LimiterInv, TrackerBounded, AttemptsBounded, Aging
(* and every step keeps it.  Entries only leave the map at a check and at a
   success, and only a failure makes one or counts up. *)
LEMMA Leaving ==
  ASSUME LimiterInv, NEW gone, tracker' = Remove(gone)
  PROVE  /\ Tracked' = Tracked \ gone
         /\ \A c \in Tracked' : tracker'[c] = tracker[c]
         /\ Tracked' \subseteq Clients /\ tracker' \in [Tracked' -> Entry]
         /\ TrackerBounded' /\ Aging'
<1>1. Tracked' = Tracked \ gone /\ \A c \in Tracked' : tracker'[c] = tracker[c]
  BY DEF Remove, Restrict, Tracked
<1>2. Tracked' \subseteq Clients /\ tracker' \in [Tracked' -> Entry]
  BY <1>1 DEF LimiterInv, LimiterTypeOK, Remove, Restrict, Tracked
<1>3. Cardinality(Tracked') <= Cardinality(Tracked) /\ Cardinality(Tracked') \in Nat
  <2>1. Tracked' \in SUBSET Tracked
    BY <1>1
  <2> QED
    BY <2>1, Finite, FS_Subset, FS_CardinalityType DEF LimiterInv
<1>4. TrackerBounded'
  BY <1>1, <1>3, Finite, LimiterAssumption DEF LimiterInv, TrackerBounded
<1>5. Aging'
  BY <1>1 DEF LimiterInv, Aging
<1> QED
  BY <1>1, <1>2, <1>4, <1>5

\* The saturated clock stays a natural number and never jumps.
LEMMA LaterType == \A n \in Nat : Later(n) \in Nat /\ Later(n) <= n + 1
BY LimiterAssumption DEF Later

\* Time alone adds no entry and no failure.
LEMMA TickStep == LimiterInv /\ Tick => LimiterInv'
<1> SUFFICES ASSUME LimiterInv, Tick PROVE LimiterInv'
  OBVIOUS
<1>1. Tracked' = Tracked
  BY DEF Tick, Tracked
<1>2. ASSUME NEW c \in Tracked
      PROVE  /\ tracker'[c] \in Entry
             /\ tracker'[c].count = tracker[c].count
             /\ tracker'[c].age <= tracker[c].age + 1
             /\ tracker'[c].left = IF tracker[c].left > 0 THEN tracker[c].left - 1 ELSE tracker[c].left
  <2>1. tracker[c] \in Entry /\ CleanupEvery \in Nat
    BY LimiterAssumption DEF LimiterInv, LimiterTypeOK
  <2>2. tracker'[c] = [tracker[c] EXCEPT !.age = Later(@), !.left = IF @ > 0 THEN @ - 1 ELSE @]
    BY DEF Tick, Tracked
  <2>3. /\ tracker'[c].count = tracker[c].count
        /\ tracker'[c].age = Later(tracker[c].age)
        /\ tracker'[c].left = IF tracker[c].left > 0 THEN tracker[c].left - 1 ELSE tracker[c].left
        /\ tracker'[c] = [count |-> tracker'[c].count, age |-> tracker'[c].age, left |-> tracker'[c].left]
    BY <2>1, <2>2 DEF Entry
  <2>4. tracker'[c].left \in Nat \cup {Never}
    BY <2>1, <2>3 DEF Entry, Never
  <2> QED
    BY <2>1, <2>3, <2>4, LaterType DEF Entry
<1>3. LimiterTypeOK'
  <2>1. tracker' \in [Tracked' -> Entry]
    BY <1>1, <1>2 DEF Tick, Tracked
  <2>2. sinceCleanup' \in Nat
    BY LaterType DEF Tick, LimiterInv, LimiterTypeOK
  <2> QED
    BY <1>1, <2>1, <2>2 DEF Tick, LimiterInv, LimiterTypeOK
<1>4. \A c \in Tracked : tracker[c] \in Entry
  BY DEF LimiterInv, LimiterTypeOK
<1>5. TrackerBounded'
  <2>1. ASSUME NEW c \in Tracked'
        PROVE  tracker'[c].left # Never <=> tracker'[c].count >= MaxFailures
    BY <1>1, <1>2, <1>4 DEF LimiterInv, TrackerBounded, Entry, Never
  <2> QED
    BY <1>1, <2>1 DEF LimiterInv, TrackerBounded
<1>6. AttemptsBounded'
  <2>1. \A c : Verifying(c)' = Verifying(c)
    BY DEF Tick, Verifying
  <2> QED
    BY <1>1, <1>2, <2>1 DEF LimiterInv, AttemptsBounded
<1>7. Aging'
  BY <1>1, <1>2, <1>4, LimiterAssumption DEF LimiterInv, Aging, Entry, Never
<1> QED
  BY <1>3, <1>5, <1>6, <1>7 DEF LimiterInv

\* A request that arrives forgets only what has ended or aged, and may begin to verify.
LEMMA ArriveStep ==
  ASSUME LimiterInv, NEW t \in Threads, NEW c \in Clients, Arrive(t, c)
  PROVE  LimiterInv'
<1> DEFINE gone == Purged \cup {d \in Tracked \cap {c} : tracker[d].left = 0}
<1>1. tracker' = Remove(gone)
  BY DEF Arrive, Check
<1>2. /\ Tracked' = Tracked \ gone
      /\ \A d \in Tracked' : tracker'[d] = tracker[d]
      /\ Tracked' \subseteq Clients /\ tracker' \in [Tracked' -> Entry]
      /\ TrackerBounded' /\ Aging'
  <2> HIDE DEF gone
  <2> QED
    BY <1>1, Leaving
<1>3. LimiterTypeOK'
  <2>1. sinceCleanup' \in Nat
    BY DEF Arrive, Check, LimiterInv, LimiterTypeOK
  <2>2. request' \in [Threads -> Clients \cup {NoClient}]
    BY DEF Arrive, LimiterInv, LimiterTypeOK
  <2> QED
    BY <1>2, <2>1, <2>2 DEF LimiterTypeOK
<1>4. AttemptsBounded'
  <2> SUFFICES ASSUME NEW d \in Tracked'
               PROVE  tracker'[d].count + Cardinality(Verifying(d)') < MaxFailures + Cardinality(Threads)
    BY DEF AttemptsBounded, Verifying
  <2>1. /\ d \in Tracked /\ d \notin gone /\ d \in Clients /\ tracker'[d] = tracker[d]
        /\ tracker[d] \in Entry
    BY <1>2 DEF LimiterInv, LimiterTypeOK
  <2>2. tracker[d].count + Cardinality(Verifying(d)) < MaxFailures + Cardinality(Threads)
    BY <2>1 DEF LimiterInv, AttemptsBounded
  <2>3. CASE LockedOut(c)
    <3>1. Verifying(d)' = Verifying(d)
      BY <2>3 DEF Arrive, Verifying
    <3> QED
      BY <2>1, <2>2, <3>1
  <2>4. CASE ~LockedOut(c)
    <3>1. \A e \in Clients \ {c} : Verifying(e)' = Verifying(e)
      BY <2>4, Begins DEF Arrive, LimiterInv
    <3>2. CASE d # c
      BY <2>1, <2>2, <3>1, <3>2
    <3>3. CASE d = c
      <4>1. tracker[d].left = Never
        BY <2>1, <2>4, <3>3 DEF LockedOut, Entry, Never
      <4>2. tracker[d].count < MaxFailures /\ tracker[d].count \in Nat /\ MaxFailures \in Nat
        BY <2>1, <4>1, LimiterAssumption DEF LimiterInv, TrackerBounded, Entry
      <4>3. Cardinality(Verifying(d)') <= Cardinality(Threads) /\ Cardinality(Verifying(d)') \in Nat
        <5>1. LimiterTypeOK' => Cardinality(Verifying(d)') <= Cardinality(Threads) /\ Cardinality(Verifying(d)') \in Nat
          <6>1. Verifying(d)' \in SUBSET Threads
            BY DEF Verifying
          <6> QED
            BY <6>1, FS_Subset, FS_CardinalityType, LimiterAssumption
        <5> QED
          BY <1>3, <5>1
      <4>4. Cardinality(Threads) \in Nat
        BY FS_CardinalityType, LimiterAssumption
      <4> QED
        BY <2>1, <4>2, <4>3, <4>4
    <3> QED
      BY <3>2, <3>3
  <2> QED
    BY <2>3, <2>4
<1> QED
  BY <1>2, <1>3, <1>4 DEF LimiterInv

\* A success removes its client and frees its thread.
LEMMA AcceptStep == ASSUME LimiterInv, NEW t \in Threads, Accept(t) PROVE LimiterInv'
<1> DEFINE c == request[t]
<1>1. c \in Clients /\ tracker' = Remove({c})
  BY DEF Accept, LimiterInv, LimiterTypeOK
<1>2. /\ Tracked' = Tracked \ {c}
      /\ \A d \in Tracked' : tracker'[d] = tracker[d]
      /\ Tracked' \subseteq Clients /\ tracker' \in [Tracked' -> Entry]
      /\ TrackerBounded' /\ Aging'
  <2> HIDE DEF c
  <2> QED
    BY <1>1, Leaving
<1>3. LimiterTypeOK'
  BY <1>2 DEF Accept, LimiterInv, LimiterTypeOK
<1>4. \A d \in Clients \ {c} : Verifying(d)' = Verifying(d)
  <2>1. request[t] = c /\ request' = [request EXCEPT ![t] = NoClient] /\ LimiterTypeOK
    BY DEF Accept, LimiterInv
  <2> HIDE DEF c
  <2> QED
    BY <1>1, <2>1, Ends
<1>5. AttemptsBounded'
  <2>1. \A d \in Tracked' : d \in Tracked /\ d \in Clients \ {c}
    BY <1>2
  <2> QED
    BY <1>2, <1>4, <2>1 DEF LimiterInv, AttemptsBounded
<1> QED
  BY <1>2, <1>3, <1>5 DEF LimiterInv

(* A failure of client c, with what it evicts: the map as it is afterwards. *)
After(c, evicted) ==
  /\ Tracked' = (Tracked \ evicted) \cup {c}
  /\ tracker' = [d \in (Tracked \ evicted) \cup {c} |-> IF d = c THEN Failed(c) ELSE tracker[d]]

\* What a failure does, with the evicted entries named.
LEMMA Rejected ==
  ASSUME LimiterInv, NEW t \in Threads, NEW c, request[t] = c, Reject(t)
  PROVE  /\ c \in Clients /\ request' = [request EXCEPT ![t] = NoClient]
         /\ sinceCleanup' = sinceCleanup
         /\ \E evicted \in Evictions(c) : After(c, evicted)
<1>1. c \in Clients
  BY DEF Reject, LimiterInv, LimiterTypeOK
<1>2. PICK evicted \in Evictions(c) :
        tracker' = [d \in (Tracked \ evicted) \cup {c} |->
                      IF d = c THEN Failed(d) ELSE tracker[d]]
  BY DEF Reject
<1>3. Tracked' = (Tracked \ evicted) \cup {c}
  BY <1>2 DEF Tracked
<1>4. tracker' = [d \in (Tracked \ evicted) \cup {c} |-> IF d = c THEN Failed(c) ELSE tracker[d]]
  BY <1>2
<1> QED
  BY <1>1, <1>3, <1>4 DEF Reject, After

\* The entry a failure leaves: counted once more, and locked from the limit on.
LEMMA FailedEntry ==
  ASSUME LimiterInv, NEW c
  PROVE  /\ Failed(c) \in Entry /\ Failed(c).age = 0 /\ Failed(c).left <= Lockout
         /\ Failed(c).left # Never <=> Failed(c).count >= MaxFailures
         /\ Failed(c).count = 1 + IF c \in Tracked THEN tracker[c].count ELSE 0
<1> DEFINE count == 1 + IF c \in Tracked THEN tracker[c].count ELSE 0
<1>1. c \in Tracked => tracker[c].count \in Nat
  BY DEF LimiterInv, LimiterTypeOK, Entry
<1>2. count \in Nat \ {0} /\ Lockout \in Nat \ {0} /\ MaxFailures \in Nat
  BY <1>1, LimiterAssumption
<1>3. Failed(c) = [count |-> count, age |-> 0, left |-> IF count >= MaxFailures THEN Lockout ELSE Never]
  BY DEF Failed
<1> HIDE DEF count
<1>4. /\ Failed(c) \in Entry /\ Failed(c).age = 0 /\ Failed(c).left <= Lockout
      /\ Failed(c).left # Never <=> Failed(c).count >= MaxFailures
      /\ Failed(c).count = count
  BY <1>2, <1>3 DEF Entry, Never
<1> QED
  BY <1>4 DEF count

(* An eviction makes the room that a new client takes. *)
LEMMA Room ==
  ASSUME LimiterInv, NEW c, NEW evicted \in Evictions(c)
  PROVE  Cardinality((Tracked \ evicted) \cup {c}) <= MaxTracked
<1>0. /\ IsFiniteSet(Tracked) /\ Cardinality(Tracked) \in Nat /\ MaxTracked \in Nat \ {0}
      /\ Cardinality(Tracked) <= MaxTracked
  BY Finite, LimiterAssumption DEF LimiterInv, TrackerBounded
<1>1. CASE c \in Tracked \/ Cardinality(Tracked) < MaxTracked
  <2>1. (Tracked \ evicted) \cup {c} = Tracked \cup {c}
    BY <1>1 DEF Evictions
  <2>2. Cardinality(Tracked \cup {c}) =
          IF c \in Tracked THEN Cardinality(Tracked) ELSE Cardinality(Tracked) + 1
    BY <1>0, FS_AddElement
  <2> QED
    BY <1>0, <1>1, <2>1, <2>2
<1>2. CASE c \notin Tracked /\ ~(Cardinality(Tracked) < MaxTracked)
  <2>1. PICK d \in Tracked : evicted = {d}
    BY <1>2 DEF Evictions
  <2>2. IsFiniteSet(Tracked \ {d}) /\ Cardinality(Tracked \ {d}) = Cardinality(Tracked) - 1
    BY <1>0, FS_RemoveElement
  <2>3. Cardinality((Tracked \ {d}) \cup {c}) = Cardinality(Tracked \ {d}) + 1
    BY <1>2, <2>2, FS_AddElement
  <2> QED
    BY <1>0, <2>1, <2>2, <2>3
<1> QED
  BY <1>1, <1>2

\* A failure keeps the bounds: it evicts an entry for the one it adds.
LEMMA RejectStep == ASSUME LimiterInv, NEW t \in Threads, Reject(t) PROVE LimiterInv'
<1>1. PICK c : request[t] = c
  OBVIOUS
<1>2. c \in Clients /\ request' = [request EXCEPT ![t] = NoClient] /\ sinceCleanup' = sinceCleanup
  BY <1>1, Rejected
<1>3. PICK evicted \in Evictions(c) : After(c, evicted)
  BY <1>1, Rejected
<1>4. /\ c \in Tracked' /\ tracker'[c] = Failed(c)
      /\ \A d \in Tracked' \ {c} : d \in Tracked /\ tracker'[d] = tracker[d]
  BY <1>3 DEF After
<1>5. \A d \in Tracked : d \in Clients /\ tracker[d] \in Entry
  BY DEF LimiterInv, LimiterTypeOK
<1>6. LimiterTypeOK'
  <2>1. Tracked' \subseteq Clients /\ tracker' \in [Tracked' -> Entry]
    <3>1. \A d \in Tracked' : d \in Clients /\ tracker'[d] \in Entry
      BY <1>2, <1>4, <1>5, FailedEntry
    <3> QED
      BY <1>3, <3>1 DEF After
  <2> QED
    BY <1>2, <2>1 DEF LimiterInv, LimiterTypeOK
<1>7. TrackerBounded'
  <2>1. Cardinality(Tracked') <= MaxTracked
    BY <1>3, Room DEF After
  <2>2. ASSUME NEW d \in Tracked'
        PROVE  tracker'[d].left # Never <=> tracker'[d].count >= MaxFailures
    BY <1>4, FailedEntry DEF LimiterInv, TrackerBounded
  <2> QED
    BY <2>1, <2>2 DEF TrackerBounded
<1>8. /\ Cardinality(Verifying(c)') = Cardinality(Verifying(c)) - 1
      /\ \A d \in Clients \ {c} : Verifying(d)' = Verifying(d)
  BY <1>1, <1>2, Ends DEF LimiterInv
<1>9. AttemptsBounded'
  <2> SUFFICES ASSUME NEW d \in Tracked'
               PROVE  tracker'[d].count + Cardinality(Verifying(d)') < MaxFailures + Cardinality(Threads)
    BY DEF AttemptsBounded, Verifying
  <2>0. /\ Cardinality(Threads) \in Nat /\ MaxFailures \in Nat \ {0}
        /\ Cardinality(Verifying(c)) \in Nat /\ Cardinality(Verifying(c)) <= Cardinality(Threads)
    BY Finite, LimiterAssumption DEF LimiterInv
  <2>1. CASE d # c
    <3>1. d \in Tracked /\ tracker'[d] = tracker[d] /\ d \in Clients \ {c}
      BY <1>4, <1>5, <2>1
    <3> QED
      BY <1>8, <3>1 DEF LimiterInv, AttemptsBounded
  <2>2. CASE d = c /\ c \in Tracked
    <3>1. /\ tracker'[d].count = 1 + tracker[c].count /\ tracker[c].count \in Nat
          /\ tracker[c].count + Cardinality(Verifying(c)) < MaxFailures + Cardinality(Threads)
      BY <1>4, <1>5, <2>2, FailedEntry DEF LimiterInv, AttemptsBounded, Entry
    <3> QED
      BY <1>8, <2>0, <2>2, <3>1
  <2>3. CASE d = c /\ c \notin Tracked
    <3>1. tracker'[d].count = 1
      BY <1>4, <2>3, FailedEntry
    <3> QED
      BY <1>8, <2>0, <2>3, <3>1
  <2> QED
    BY <2>1, <2>2, <2>3
<1>10. Aging'
  <2>1. Failed(c).age + Failed(c).left <= Lockout
    BY FailedEntry, LimiterAssumption DEF Entry, Never
  <2> QED
    BY <1>4, <2>1 DEF LimiterInv, Aging
<1> QED
  BY <1>6, <1>7, <1>9, <1>10 DEF LimiterInv

\* Every step preserves the invariant.
LEMMA LimiterStep == LimiterInv /\ [Next]_vars => LimiterInv'
<1> SUFFICES ASSUME LimiterInv, [Next]_vars PROVE LimiterInv'
  OBVIOUS
<1>1. CASE UNCHANGED vars
  <2>1. Tracked' = Tracked /\ \A c : Verifying(c)' = Verifying(c)
    BY <1>1 DEF vars, Tracked, Verifying
  <2> QED
    BY <1>1, <2>1 DEF vars, LimiterInv, LimiterTypeOK, TrackerBounded, AttemptsBounded, Aging
<1> QED
  BY <1>1, TickStep, ArriveStep, AcceptStep, RejectStep DEF Next

(* The inductive invariant: types, both bounds and the ages. *)
THEOREM LimiterInvariance == Spec => []LimiterInv
BY LimiterInit, LimiterStep, PTL DEF Spec

(* The map never holds more clients than it may, and an entry carries a lockout
   exactly when its count has reached the limit. *)
THEOREM MapBounded == Spec => []TrackerBounded
<1>1. LimiterInv => TrackerBounded
  BY DEF LimiterInv
<1> QED
  BY LimiterInvariance, <1>1, PTL

(* A client's failures never exceed the limit by more than the other threads. *)
THEOREM FailuresBounded == Spec => []AttemptsBounded
<1>1. LimiterInv => AttemptsBounded
  BY DEF LimiterInv
<1> QED
  BY LimiterInvariance, <1>1, PTL

(* Where the lockout is no longer than the cleanup interval, as by default, it
   is lifted by a success or an eviction of the oldest only. *)
Held(c) ==
  \/ c \in DOMAIN tracker' /\ tracker'[c].left >= tracker[c].left - 1
  \/ \E t \in Threads : request[t] = c /\ Accept(t)
  \/ /\ Cardinality(Tracked) >= MaxTracked
     /\ \E t \in Threads : request[t] \notin Tracked /\ Reject(t)
     /\ \A d \in Tracked : tracker[d].age <= tracker[c].age

\* Every step holds a running lockout, but for the two ways out.
LEMMA HeldByStep ==
  ASSUME Lockout <= CleanupEvery, LimiterInv, [Next]_vars,
         NEW c \in Tracked, tracker[c].left > 1
  PROVE  Held(c)
<1>1. tracker[c] \in Entry /\ tracker[c].age + tracker[c].left <= Lockout /\ c \in Clients
  BY DEF LimiterInv, LimiterTypeOK, Aging, Entry, Never
<1>2. CASE UNCHANGED vars
  BY <1>1, <1>2 DEF vars, Held, Tracked, Entry, Never
<1>3. CASE Tick
  <2>1. /\ tracker'[c] = [tracker[c] EXCEPT !.age = Later(@), !.left = IF @ > 0 THEN @ - 1 ELSE @]
        /\ c \in DOMAIN tracker'
    BY <1>3 DEF Tick, Tracked
  <2> QED
    BY <1>1, <2>1 DEF Held, Entry, Never
<1>4. ASSUME NEW t \in Threads, NEW d \in Clients, Arrive(t, d) PROVE Held(c)
  <2> DEFINE gone == Purged \cup {e \in Tracked \cap {d} : tracker[e].left = 0}
  <2>1. c \notin gone
    BY <1>1, LimiterAssumption DEF Purged, Entry, Never
  <2>2. tracker' = Remove(gone)
    BY <1>4 DEF Arrive, Check
  <2> HIDE DEF gone
  <2>3. c \in Tracked' /\ tracker'[c] = tracker[c]
    BY <2>1, <2>2, Leaving
  <2> QED
    BY <1>1, <2>3 DEF Held, Tracked, Entry, Never
<1>5. ASSUME NEW t \in Threads, Accept(t) PROVE Held(c)
  <2>1. CASE request[t] = c
    BY <1>5, <2>1 DEF Held
  <2>2. CASE request[t] # c
    <3>1. c \in Tracked' /\ tracker'[c] = tracker[c]
      BY <1>5, <2>2, Leaving DEF Accept
    <3> QED
      BY <1>1, <3>1 DEF Held, Tracked, Entry, Never
  <2> QED
    BY <2>1, <2>2
<1>6. ASSUME NEW t \in Threads, Reject(t) PROVE Held(c)
  <2>1. PICK d : request[t] = d
    OBVIOUS
  <2>2. PICK evicted \in Evictions(d) : After(d, evicted)
    BY <1>6, <2>1, Rejected
  <2>3. CASE c = d
    <3>1. c \in Tracked' /\ tracker'[c] = Failed(c)
      BY <2>2, <2>3 DEF After
    <3>2. Failed(c).left = Lockout
      <4>1. tracker[c].count >= MaxFailures /\ tracker[c].count \in Nat /\ MaxFailures \in Nat
        BY <1>1, LimiterAssumption DEF LimiterInv, TrackerBounded, Entry, Never
      <4>2. 1 + tracker[c].count >= MaxFailures
        BY <4>1
      <4> QED
        BY <4>2 DEF Failed
    <3> QED
      BY <1>1, <3>1, <3>2, LimiterAssumption DEF Held, Tracked, Entry, Never
  <2>4. CASE c # d /\ c \notin evicted
    BY <1>1, <2>2, <2>4 DEF After, Held, Tracked, Entry, Never
  <2>5. CASE c # d /\ c \in evicted
    <3>1. /\ d \notin Tracked /\ ~(Cardinality(Tracked) < MaxTracked)
          /\ \A e \in Tracked : tracker[e].age <= tracker[c].age
      BY <2>5 DEF Evictions
    <3>2. Cardinality(Tracked) >= MaxTracked
      BY <3>1, Finite, LimiterAssumption DEF LimiterInv
    <3> QED
      BY <1>6, <2>1, <3>1, <3>2 DEF Held
  <2> QED
    BY <2>3, <2>4, <2>5
<1> QED
  BY <1>2, <1>3, <1>4, <1>5, <1>6 DEF Next

\* No cleanup and no race of requests lifts or shortens a running lockout, as
\* long as it runs no longer than the cleanup's interval (ratelimit.py).
THEOREM LockoutsHold == ASSUME Lockout <= CleanupEvery PROVE Spec => LockoutHolds
<1>1. LimiterInv /\ [Next]_vars => [\A c \in Tracked : tracker[c].left > 1 => Held(c)]_vars
  BY HeldByStep
<1> QED
  BY LimiterInvariance, <1>1, PTL DEF Spec, LockoutHolds, Held
================================================================================
