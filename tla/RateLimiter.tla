------------------------------ MODULE RateLimiter ------------------------------
(***************************************************************************)
(* The lockout of ratelimit.py around auth_required (auth.py): a request   *)
(* is checked against the tracker, its credentials are verified without    *)
(* the tracker's lock (scrypt takes seconds on the Pi), and the outcome is *)
(* recorded.  Requests overlap, so a verification that began before a      *)
(* lockout ends inside it.  Each operation on the tracker is one section   *)
(* of _fail_tracker_lock.                                                  *)
(*                                                                         *)
(* time.monotonic() only ever enters as a difference, so an entry holds    *)
(* how long ago its last attempt was and how long its lockout still runs.  *)
(***************************************************************************)
EXTENDS Integers, FiniteSets, Functions

CONSTANTS
  Clients, Threads, NoClient,
  MaxFailures, Lockout, CleanupEvery, MaxTracked   \* RATE_LIMIT_*

ASSUME LimiterAssumption ==
  /\ {MaxFailures, MaxTracked, Lockout} \subseteq Nat \ {0}
  /\ CleanupEvery \in Nat
  /\ IsFiniteSet(Clients) /\ IsFiniteSet(Threads) /\ NoClient \notin Clients

VARIABLES
  tracker,      \* _fail_tracker: a function from the clients it holds
  sinceCleanup, \* how long ago the last cleanup was
  request       \* request[t]: the client whose credentials t verifies, if any

vars == <<tracker, sinceCleanup, request>>

Never == -1     \* locked_until is None
Tracked == DOMAIN tracker
Remove(cs) == Restrict(tracker, Tracked \ cs)

Init ==
  /\ tracker = [c \in {} |-> 0]
  /\ sinceCleanup = 0
  /\ request = [t \in Threads |-> NoClient]

\* A unit of time passes.  Beyond CleanupEvery it makes no difference how much.
Later(n) == IF n > CleanupEvery THEN n ELSE n + 1
Tick ==
  /\ tracker' = [c \in Tracked |-> [tracker[c] EXCEPT
        !.age = Later(@), !.left = IF @ > 0 THEN @ - 1 ELSE @]]
  /\ sinceCleanup' = Later(sinceCleanup)
  /\ UNCHANGED request

\* _cleanup_tracker, when it is due: ended lockouts and entries long untouched.
CleanupDue == sinceCleanup >= CleanupEvery

\* Mutant: an entry whose lockout will end before the next cleanup goes already.
Purged_SoonEnding == IF ~CleanupDue THEN {} ELSE {c \in Tracked : tracker[c].left < CleanupEvery}

Purged ==
  IF ~CleanupDue THEN {}
  ELSE {c \in Tracked : tracker[c].left = 0 \/ tracker[c].age > CleanupEvery}

\* is_rate_limited: the cleanup, then the client's own lockout, if it has ended.
LockedOut(c) == c \in Tracked \ Purged /\ tracker[c].left > 0

\* Mutant: a lockout that has ended leaves its count behind.
Check_KeepsEnded(c) ==
  /\ tracker' = Remove(Purged)
  /\ sinceCleanup' = IF CleanupDue THEN 0 ELSE sinceCleanup

Check(c) ==
  /\ tracker' = Remove(Purged \cup {d \in Tracked \cap {c} : tracker[c].left = 0})
  /\ sinceCleanup' = IF CleanupDue THEN 0 ELSE sinceCleanup

\* A request arrives: 429 while the client is locked out, else it is verified.
Arrive(t, c) ==
  /\ request[t] = NoClient
  /\ Check(c)
  /\ request' = IF LockedOut(c) THEN request ELSE [request EXCEPT ![t] = c]

\* The API key or the password is right: record_success.
Accept(t) ==
  /\ request[t] # NoClient
  /\ tracker' = Remove({request[t]})
  /\ request' = [request EXCEPT ![t] = NoClient]
  /\ UNCHANGED sinceCleanup

\* Mutant: the map grows.
Evictions_None(c) == {{}}

\* What record_failure evicts for a client it does not hold: nothing while there
\* is room, else the entry touched longest ago, any one of several.
Evictions(c) ==
  IF c \in Tracked \/ Cardinality(Tracked) < MaxTracked THEN {{}}
  ELSE {{d} : d \in {e \in Tracked : \A f \in Tracked : tracker[f].age <= tracker[e].age}}

\* It counts the failure, and locks the client out at the limit and beyond.
Failed(c) ==
  LET count == 1 + IF c \in Tracked THEN tracker[c].count ELSE 0
  IN  [count |-> count, age |-> 0,
       left |-> IF count >= MaxFailures THEN Lockout ELSE Never]

Reject(t) ==
  /\ request[t] # NoClient
  /\ \E evicted \in Evictions(request[t]) :
       tracker' = [c \in (Tracked \ evicted) \cup {request[t]} |->
                     IF c = request[t] THEN Failed(c) ELSE tracker[c]]
  /\ request' = [request EXCEPT ![t] = NoClient]
  /\ UNCHANGED sinceCleanup

Next ==
  \/ Tick
  \/ \E t \in Threads :
       \/ \E c \in Clients : Arrive(t, c)
       \/ Accept(t)
       \/ Reject(t)

Spec == Init /\ [][Next]_vars
--------------------------------------------------------------------------------
Entry == [count : Nat \ {0}, age : Nat, left : Nat \cup {Never}]

(* The map holds at most RATE_LIMIT_MAX_TRACKED_IPS clients, and an entry is
   locked, or was, exactly when its count has reached the limit. *)
TrackerBounded ==
  /\ Cardinality(Tracked) <= MaxTracked
  /\ \A c \in Tracked : tracker[c].left # Never <=> tracker[c].count >= MaxFailures

(* Requests that were let in before the lockout still count against it: they
   can exceed the limit, but by no more than the threads there are. *)
Verifying(c) == {t \in Threads : request[t] = c}
AttemptsBounded ==
  \A c \in Tracked :
    tracker[c].count + Cardinality(Verifying(c)) < MaxFailures + Cardinality(Threads)

(* With a lockout no longer than the cleanup's interval (300 s and 600 s unless the
   env file says otherwise), one that still runs is neither lifted nor shortened,
   except by a success of that client and by the eviction of the client touched
   longest ago from a full map; in particular no cleanup lifts it.  With a longer
   lockout the cleanup does. *)
LockoutHolds ==
  [][ \A c \in Tracked : tracker[c].left > 1 =>
        \/ c \in DOMAIN tracker' /\ tracker'[c].left >= tracker[c].left - 1
        \/ \E t \in Threads : request[t] = c /\ Accept(t)
        \/ /\ Cardinality(Tracked) >= MaxTracked
           /\ \E t \in Threads : request[t] \notin Tracked /\ Reject(t)
           /\ \A d \in Tracked : tracker[d].age <= tracker[c].age ]_vars

================================================================================
