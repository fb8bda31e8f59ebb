----------------------------- MODULE Subscriptions -----------------------------
(***************************************************************************)
(* The push subscriptions of store.py and the threads that send to them.   *)
(* The table is a sequence of endpoints by created_ts, oldest first: the   *)
(* order is all that eviction looks at.  A browser's endpoint is its own,  *)
(* and once the browser has dropped it, it is dead for ever: the push      *)
(* service answers 404 or 410.  A row's keys and the message are left out. *)
(***************************************************************************)
EXTENDS Integers, Sequences, FiniteSets, SequencesExt, FiniteSetsExt

CONSTANTS
  Endpoints,
  SubscriptionMax,   \* CONFIG["SUBSCRIPTION_MAX"]
  Pushers            \* bound: pushes under way at a time

ASSUME SubscriptionAssumption ==
  SubscriptionMax \in Nat \ {0} /\ IsFiniteSet(Endpoints)

VARIABLES
  subs,              \* the table subscriptions
  browser,           \* browser[e]: "fresh", "alive" or "dropped"
  sending,           \* sending[p]: "idle", "begun", or "sending" to todo[p]
  todo

subVars == <<subs, browser, sending, todo>>
Subscribed == Range(subs)

SubscriptionsInit ==
  /\ subs = <<>>
  /\ browser = [e \in Endpoints |-> "fresh"]
  /\ sending = [p \in Pushers |-> "idle"]
  /\ todo = [p \in Pushers |-> {}]

\* A new row goes last, or wherever a clock that was set back puts it.
Placed(e) == {InsertAt(subs, i, e) : i \in 1..Len(subs) + 1}

\* Mutant: the newest go first.
Newest_KeepsOldest(rows) == SubSeq(rows, 1, Min({Len(rows), SubscriptionMax}))

\* ORDER BY created_ts DESC LIMIT ?
Newest(rows) ==
  SubSeq(rows, 1 + Max({0, Len(rows) - SubscriptionMax}), Len(rows))

\* Mutant: the cap is not enforced.
AddSubscription_NoCap(e) == subs' \in IF e \in Subscribed THEN {subs} ELSE Placed(e)

\* add_subscription: a known endpoint keeps its created_ts, a new one may evict,
\* itself too; a write that fails is swallowed.
AddSubscription(e) ==
  \/ subs' \in {Newest(rows) : rows \in IF e \in Subscribed THEN {subs} ELSE Placed(e)}
  \/ UNCHANGED subs

\* remove_subscription: the endpoint is the primary key, so there is one row or
\* none; a write that fails is swallowed.
RemoveSubscription(e) ==
  \/ \E i \in DOMAIN subs : subs[i] = e /\ subs' = RemoveAt(subs, i)
  \/ UNCHANGED subs

\* The browser subscribes, or the page loads again and posts what it has.
Subscribe(e) ==
  /\ browser[e] \in {"fresh", "alive"}
  /\ browser' = [browser EXCEPT ![e] = "alive"]
  /\ AddSubscription(e)
  /\ UNCHANGED <<sending, todo>>

\* It drops its endpoint first, then posts that it did, if it gets to.
Drop(e) ==
  /\ browser[e] = "alive"
  /\ browser' = [browser EXCEPT ![e] = "dropped"]
  /\ UNCHANGED <<subs, sending, todo>>

Unsubscribe(e) ==
  /\ browser[e] = "dropped" /\ e \in Subscribed
  /\ RemoveSubscription(e)
  /\ UNCHANGED <<browser, sending, todo>>

\* send_push_async, and the snapshot its thread takes.
BeginPush(p) ==
  /\ sending[p] = "idle"
  /\ sending' = [sending EXCEPT ![p] = "begun"]
  /\ UNCHANGED <<subs, browser, todo>>

ReadSubscriptions(p) ==
  /\ sending[p] = "begun"
  /\ sending' = [sending EXCEPT ![p] = "sending"]
  /\ todo' = [todo EXCEPT ![p] = Subscribed]
  /\ UNCHANGED <<subs, browser>>

\* send_push returns early: get_subscriptions failed and gave [], or the key is bad.
PushGivesUp(p) ==
  /\ sending[p] = "begun"
  /\ sending' = [sending EXCEPT ![p] = "idle"]
  /\ UNCHANGED <<subs, browser, todo>>

\* What _deliver_push may come to; an exception is a failure like any other.
Answers(e) == {"failed", IF browser[e] = "dropped" THEN "gone" ELSE "accepted"}

Deliver(p, e) ==
  /\ sending[p] = "sending" /\ e \in todo[p]
  /\ \E answer \in Answers(e) :
       IF answer = "gone" THEN RemoveSubscription(e) ELSE UNCHANGED subs
  /\ todo' = [todo EXCEPT ![p] = @ \ {e}]
  /\ UNCHANGED <<browser, sending>>

EndPush(p) ==
  /\ sending[p] = "sending" /\ todo[p] = {}
  /\ sending' = [sending EXCEPT ![p] = "idle"]
  /\ UNCHANGED <<subs, browser, todo>>

(* The table holds an endpoint once and never more than SUBSCRIPTION_MAX. *)
SubscriptionsBounded ==
  /\ subs \in Seq(Endpoints) /\ IsInjective(subs)
  /\ Len(subs) <= SubscriptionMax
================================================================================
