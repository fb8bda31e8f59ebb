-------------------------- MODULE LowFuelAlert_proofs --------------------------
(***************************************************************************)
(* For any tank, threshold and margin: one push per crossing, because the  *)
(* flag is down only after a cause to alert.  For any number of endpoints, *)
(* pushes and rows: the table holds an endpoint once and stays within its  *)
(* limit, and no answer, push or other browser costs a live browser its    *)
(* row unless the table is full.                                           *)
(***************************************************************************)
EXTENDS LowFuelAlert, SequenceTheorems, WellFoundedInduction, TLAPS

TankTypeOK ==
  /\ running \in BOOLEAN /\ level \in Levels /\ threshold \in Thresholds
  /\ rearmed \in BOOLEAN

\* A flag that is down, a stopped engine and a recovered level are causes.
Armed == ~alerted \/ ~running \/ level > threshold + Margin => rearmed

AlertInv == TankTypeOK /\ Armed

(* The default threshold is one of those offered. *)
LEMMA DefaultOffered == Default \in Thresholds
<1>1. Thresholds \subseteq Nat /\ Thresholds # {}
  BY AlertAssumption
<1>2. IsWellFoundedOn(OpToRel(<, Nat), Nat)
  BY NatLessThanWellFounded
<1>3. PICK x \in Thresholds : \A y \in Thresholds : ~(<<y, x>> \in OpToRel(<, Nat))
  BY <1>1, <1>2, WFMin
<1>4. \A y \in Thresholds : x <= y
  <2> SUFFICES ASSUME NEW y \in Thresholds, y < x PROVE FALSE
    BY <1>1
  <2>1. <<y, x>> \in Nat \X Nat /\ <<y, x>>[1] < <<y, x>>[2]
    BY <1>1
  <2>2. <<y, x>> \in OpToRel(<, Nat)
    BY <2>1 DEF OpToRel
  <2> QED
    BY <1>3, <2>2
<1> QED
  BY <1>3, <1>4 DEF Default, Min

\* A fresh process has a cause to alert.
LEMMA AlertInit == Init => AlertInv
<1> SUFFICES ASSUME Init PROVE AlertInv
  OBVIOUS
<1>1. level \in Levels /\ threshold \in Thresholds
  BY DefaultOffered, AlertAssumption DEF Init, Levels
<1>2. running \in BOOLEAN /\ rearmed = TRUE
  BY DEF Init
<1> QED
  BY <1>1, <1>2 DEF AlertInv, TankTypeOK, Armed

\* What every operation does that notes its causes and leaves the flag alone.
LEMMA NotedKeeps ==
  ASSUME AlertInv, NoteCauses, UNCHANGED alerted,
         running' \in BOOLEAN, level' \in Levels, threshold' \in Thresholds
  PROVE  AlertInv'
BY DEF AlertInv, TankTypeOK, Armed, NoteCauses

\* Every step preserves the invariant: a lowered flag has a cause behind it.
LEMMA AlertStep == AlertInv /\ [Next]_vars => AlertInv'
<1> SUFFICES ASSUME AlertInv, [Next]_vars PROVE AlertInv'
  OBVIOUS
<1>0. Full \in Levels /\ Default \in Thresholds /\ \A n \in Levels : n - 1 \in Int
  BY DefaultOffered, AlertAssumption DEF Levels
<1>1. CASE SetRunning
  BY <1>1, NotedKeeps DEF SetRunning, AlertInv, TankTypeOK
<1>2. CASE Burn
  <2>1. level' \in Levels
    BY <1>2, AlertAssumption DEF Burn, Levels, AlertInv, TankTypeOK
  <2> QED
    BY <1>2, <2>1, NotedKeeps DEF Burn, AlertInv, TankTypeOK
<1>3. CASE Correct
  BY <1>3, NotedKeeps DEF Correct, AlertInv, TankTypeOK
<1>4. CASE SetFuelFill
  BY <1>4 DEF SetFuelFill, AlertInv, TankTypeOK, Armed
<1>5. CASE SetAlerts
  BY <1>5, NotedKeeps DEF SetAlerts, AlertInv, TankTypeOK
<1>6. CASE Crossing
  <2>1. ~(level > threshold + Margin)
    BY <1>6, AlertAssumption DEF Crossing, AlertInv, TankTypeOK, Levels
  <2> QED
    BY <1>6, <2>1 DEF Crossing, AlertInv, TankTypeOK, Armed, tank
<1>7. CASE Rearm
  BY <1>7 DEF Rearm, AlertInv, TankTypeOK, Armed, tank
<1>8. CASE PushLowFuel
  BY <1>8 DEF PushLowFuel, AlertInv, TankTypeOK, Armed, tank
<1>9. CASE PushStep
  <2>1. UNCHANGED <<tank, alerted>> /\ (NoteCauses \/ UNCHANGED rearmed)
    BY <1>9 DEF PushStep
  <2>2. CASE NoteCauses
    BY <2>1, <2>2, NotedKeeps DEF tank, AlertInv, TankTypeOK
  <2>3. CASE UNCHANGED rearmed
    BY <2>1, <2>3 DEF tank, AlertInv, TankTypeOK, Armed
  <2> QED
    BY <2>1, <2>2, <2>3
<1>10. CASE Browser
  BY <1>10, NotedKeeps DEF Browser, tank, AlertInv, TankTypeOK
<1>11. CASE ResetStore
  BY <1>11, NotedKeeps DEF ResetStore, tank, AlertInv, TankTypeOK
<1>12. CASE ResetMemory
  BY <1>0, <1>12, NotedKeeps DEF ResetMemory, AlertInv, TankTypeOK
<1>13. CASE Restart
  <2>1. running' = FALSE /\ rearmed' = TRUE /\ threshold' = threshold
    BY <1>13 DEF Restart, NoteCauses
  <2>2. level' \in Levels
    BY <1>13, AlertAssumption DEF Restart, Levels, AlertInv, TankTypeOK
  <2> QED
    BY <2>1, <2>2 DEF AlertInv, TankTypeOK, Armed
<1>14. CASE UNCHANGED vars
  BY <1>14 DEF vars, tank, AlertInv, TankTypeOK, Armed
<1> QED
  BY <1>1, <1>2, <1>3, <1>4, <1>5, <1>6, <1>7, <1>8, <1>9, <1>10, <1>11, <1>12,
     <1>13, <1>14 DEF Next

\* The inductive invariant of the alert, in every reachable state (fuel.py).
THEOREM AlertInvariance == Spec => []AlertInv
BY AlertInit, AlertStep, PTL DEF Spec

(* A push starts only where there was a cause since the last one: a stop, a
   fill, a level back above threshold and margin, or a restart. *)
THEOREM OneEach == Spec => OnePushPerCrossing
<1>1. AlertInv /\ [Next]_vars => [monitor = "waiting" /\ monitor' = "pushing" => rearmed]_vars
  <2> SUFFICES ASSUME AlertInv, Next, monitor = "waiting", monitor' = "pushing"
               PROVE  rearmed
    OBVIOUS
  <2>1. Crossing
    BY DEF Next, SetRunning, Burn, Correct, SetFuelFill, SetAlerts, Rearm, PushLowFuel,
      PushStep, Browser, ResetStore, ResetMemory, Restart
  <2> QED
    BY <2>1 DEF Crossing, AlertInv, Armed
<1> QED
  BY AlertInvariance, <1>1, PTL DEF Spec, OnePushPerCrossing

--------------------------------------------------------------------------------
(* What the table's operations do to its rows.                                *)

\* The maximum of zero and a number, which Newest skips.
LEMMA MaxWithZero ==
  ASSUME NEW n \in Int
  PROVE  Max({0, n}) = IF n > 0 THEN n ELSE 0
<1> DEFINE m == IF n > 0 THEN n ELSE 0
<1>1. m \in {0, n} /\ \A y \in {0, n} : m >= y
  OBVIOUS
<1>2. ASSUME NEW x \in {0, n}, \A y \in {0, n} : x >= y
      PROVE  x = m
  BY <1>2
<1> HIDE DEF m
<1>3. (CHOOSE x \in {0, n} : \A y \in {0, n} : x >= y) = m
  BY <1>1, <1>2
<1> QED
  BY <1>3 DEF Max, m

\* LIMIT keeps the end of the table, no more rows than SUBSCRIPTION_MAX.
LEMMA NewestRows ==
  ASSUME NEW rows \in Seq(Endpoints)
  PROVE  LET skip == IF Len(rows) > SubscriptionMax THEN Len(rows) - SubscriptionMax ELSE 0
         IN  /\ Newest(rows) \in Seq(Endpoints)
             /\ Len(Newest(rows)) = Len(rows) - skip
             /\ \A i \in 1..Len(rows) - skip : Newest(rows)[i] = rows[skip + i]
<1> DEFINE skip == IF Len(rows) > SubscriptionMax THEN Len(rows) - SubscriptionMax ELSE 0
<1>1. SubscriptionMax \in Nat /\ Len(rows) \in Nat /\ DOMAIN rows = 1..Len(rows)
  BY SubscriptionAssumption, LenProperties
<1>2. skip \in 0..Len(rows)
  BY <1>1
<1>3. Max({0, Len(rows) - SubscriptionMax}) = skip
  BY <1>1, MaxWithZero
<1> HIDE DEF skip
<1>4. Newest(rows) = SubSeq(rows, 1 + skip, Len(rows))
  BY <1>3 DEF Newest
<1>5. \A i \in 1 + skip..Len(rows) : rows[i] \in Endpoints
  BY <1>1, <1>2, ElementOfSeq
<1>6. /\ Newest(rows) \in Seq(Endpoints)
      /\ Len(Newest(rows)) = IF 1 + skip <= Len(rows) THEN Len(rows) - (1 + skip) + 1 ELSE 0
      /\ \A i \in 1..Len(rows) - (1 + skip) + 1 : Newest(rows)[i] = rows[1 + skip + i - 1]
  <2>1. 1 + skip \in Int /\ Len(rows) \in Int
    BY <1>1, <1>2
  <2> QED
    BY <1>4, <1>5, <2>1, SubSeqProperties
<1>7. Len(Newest(rows)) = Len(rows) - skip
  <2>1. \A n \in Nat : \A k \in 0..n :
          (IF 1 + k <= n THEN n - (1 + k) + 1 ELSE 0) = n - k
    OBVIOUS
  <2> QED
    BY <1>1, <1>2, <1>6, <2>1
<1>8. ASSUME NEW i \in 1..Len(rows) - skip
      PROVE  Newest(rows)[i] = rows[skip + i]
  <2>1. \A n \in Nat : \A k \in 0..n : \A j \in 1..n - k :
          j \in 1..n - (1 + k) + 1 /\ 1 + k + j - 1 = k + j
    OBVIOUS
  <2>2. i \in 1..Len(rows) - (1 + skip) + 1 /\ 1 + skip + i - 1 = skip + i
    BY <1>1, <1>2, <2>1
  <2>3. Newest(rows)[i] = rows[1 + skip + i - 1]
    BY <1>6, <2>2
  <2> QED
    BY <2>2, <2>3
<1> QED
  BY <1>6, <1>7, <1>8 DEF skip

\* A table within its limit is left as it is.
LEMMA NewestOfFew ==
  ASSUME NEW rows \in Seq(Endpoints), Len(rows) <= SubscriptionMax
  PROVE  Newest(rows) = rows
<1>1. SubscriptionMax \in Nat /\ Len(rows) \in Nat
  BY SubscriptionAssumption, LenProperties
<1>2. /\ Newest(rows) \in Seq(Endpoints)
      /\ Len(Newest(rows)) = Len(rows)
      /\ \A i \in 1..Len(rows) : Newest(rows)[i] = rows[i]
  BY <1>1, NewestRows
<1> QED
  BY <1>2, SeqEqual

\* LIMIT brings in no row and repeats none.
LEMMA NewestBounded ==
  ASSUME NEW rows \in Seq(Endpoints), IsInjective(rows)
  PROVE  /\ Newest(rows) \in Seq(Endpoints)
         /\ IsInjective(Newest(rows))
         /\ Len(Newest(rows)) <= SubscriptionMax
<1> DEFINE skip == IF Len(rows) > SubscriptionMax THEN Len(rows) - SubscriptionMax ELSE 0
<1>1. SubscriptionMax \in Nat /\ Len(rows) \in Nat /\ DOMAIN rows = 1..Len(rows)
  BY SubscriptionAssumption, LenProperties
<1>2. skip \in 0..Len(rows) /\ Len(rows) - skip <= SubscriptionMax
  BY <1>1
<1>3. /\ Newest(rows) \in Seq(Endpoints)
      /\ Len(Newest(rows)) = Len(rows) - skip
      /\ \A i \in 1..Len(rows) - skip : Newest(rows)[i] = rows[skip + i]
  BY NewestRows
<1> HIDE DEF skip
<1>4. DOMAIN Newest(rows) = 1..Len(rows) - skip
  BY <1>3, LenProperties
<1>5. ASSUME NEW i \in 1..Len(rows) - skip, NEW j \in 1..Len(rows) - skip,
             Newest(rows)[i] = Newest(rows)[j]
      PROVE  i = j
  <2>1. skip + i \in DOMAIN rows /\ skip + j \in DOMAIN rows
    BY <1>1, <1>2
  <2>2. rows[skip + i] = rows[skip + j]
    BY <1>3, <1>5
  <2>3. skip + i = skip + j
    BY <2>1, <2>2 DEF IsInjective
  <2> QED
    BY <1>1, <1>2, <2>3
<1> QED
  BY <1>2, <1>3, <1>4, <1>5 DEF IsInjective

\* Deleting by the primary key takes away that row and no other.
LEMMA RemovedRow ==
  ASSUME NEW rows \in Seq(Endpoints), IsInjective(rows), NEW i \in DOMAIN rows
  PROVE  /\ RemoveAt(rows, i) \in Seq(Endpoints)
         /\ IsInjective(RemoveAt(rows, i))
         /\ Len(RemoveAt(rows, i)) = Len(rows) - 1
         /\ \A e \in Range(rows) : e = rows[i] \/ e \in Range(RemoveAt(rows, i))
<1> DEFINE front == SubSeq(rows, 1, i - 1)
           back == SubSeq(rows, i + 1, Len(rows))
           rest == RemoveAt(rows, i)
<1>1. Len(rows) \in Nat /\ DOMAIN rows = 1..Len(rows) /\ i \in 1..Len(rows)
  BY LenProperties
<1>2. \A k \in 1..Len(rows) : rows[k] \in Endpoints
  BY ElementOfSeq
<1>3. /\ front \in Seq(Endpoints) /\ Len(front) = i - 1
      /\ \A k \in 1..i - 1 : front[k] = rows[k]
  <2>1. 1 \in Int /\ i - 1 \in Int /\ \A k \in 1..i - 1 : rows[k] \in Endpoints
    BY <1>1, <1>2
  <2>2. /\ front \in Seq(Endpoints)
        /\ Len(front) = IF 1 <= i - 1 THEN (i - 1) - 1 + 1 ELSE 0
        /\ \A k \in 1..(i - 1) - 1 + 1 : front[k] = rows[1 + k - 1]
    BY <2>1, SubSeqProperties
  <2> QED
    BY <1>1, <2>2
<1>4. /\ back \in Seq(Endpoints) /\ Len(back) = Len(rows) - i
      /\ \A k \in 1..Len(rows) - i : back[k] = rows[i + k]
  <2>1. i + 1 \in Int /\ Len(rows) \in Int /\ \A k \in i + 1..Len(rows) : rows[k] \in Endpoints
    BY <1>1, <1>2
  <2>2. /\ back \in Seq(Endpoints)
        /\ Len(back) = IF i + 1 <= Len(rows) THEN Len(rows) - (i + 1) + 1 ELSE 0
        /\ \A k \in 1..Len(rows) - (i + 1) + 1 : back[k] = rows[(i + 1) + k - 1]
    BY <2>1, SubSeqProperties
  <2> QED
    BY <1>1, <2>2
<1>5. rest = front \o back
  BY DEF RemoveAt
<1> HIDE DEF front, back, rest
<1>6. /\ rest \in Seq(Endpoints) /\ Len(rest) = Len(rows) - 1
      /\ \A k \in 1..Len(rows) - 1 : rest[k] = IF k < i THEN rows[k] ELSE rows[k + 1]
  <2>1. /\ rest \in Seq(Endpoints)
        /\ Len(rest) = Len(front) + Len(back)
        /\ \A k \in 1..Len(front) + Len(back) :
             rest[k] = IF k <= Len(front) THEN front[k] ELSE back[k - Len(front)]
    BY <1>3, <1>4, <1>5, ConcatProperties
  <2>2. ASSUME NEW k \in 1..Len(rows) - 1
        PROVE  rest[k] = IF k < i THEN rows[k] ELSE rows[k + 1]
    <3>1. CASE k < i
      BY <1>1, <1>3, <1>4, <2>1, <3>1
    <3>2. CASE ~(k < i)
      <4>1. k - (i - 1) \in 1..Len(rows) - i /\ i + (k - (i - 1)) = k + 1
        BY <1>1, <3>2
      <4>2. rest[k] = back[k - (i - 1)]
        BY <1>1, <1>3, <1>4, <2>1, <3>2
      <4> QED
        BY <1>1, <1>4, <3>2, <4>1, <4>2
    <3> QED
      BY <3>1, <3>2
  <2> QED
    BY <1>1, <1>3, <1>4, <2>1, <2>2
<1>7. DOMAIN rest = 1..Len(rows) - 1
  BY <1>6, LenProperties
<1>8. ASSUME NEW j \in DOMAIN rest, NEW k \in DOMAIN rest, rest[j] = rest[k]
      PROVE  j = k
  <2> DEFINE at(n) == IF n < i THEN n ELSE n + 1
  <2>1. at(j) \in DOMAIN rows /\ at(k) \in DOMAIN rows
    BY <1>1, <1>7
  <2>2. rows[at(j)] = rows[at(k)]
    BY <1>6, <1>7, <1>8
  <2>3. at(j) = at(k)
    BY <2>1, <2>2 DEF IsInjective
  <2> QED
    BY <1>1, <1>7, <2>3
<1>9. ASSUME NEW e \in Range(rows), e # rows[i]
      PROVE  e \in Range(rest)
  <2>1. PICK n \in 1..Len(rows) : rows[n] = e
    BY <1>1 DEF Range
  <2>2. n # i
    BY <1>9, <2>1
  <2> DEFINE k == IF n < i THEN n ELSE n - 1
  <2>3. k \in 1..Len(rows) - 1 /\ (IF k < i THEN k ELSE k + 1) = n
    BY <1>1, <2>2
  <2>4. rest[k] = e
    BY <1>6, <2>1, <2>3
  <2> QED
    BY <1>7, <2>3, <2>4 DEF Range
<1> QED
  BY <1>6, <1>8, <1>9 DEF rest, IsInjective

\* A new row, last or where the clock says, comes with the rows there were.
LEMMA PlacedRow ==
  ASSUME subs \in Seq(Endpoints), IsInjective(subs),
         NEW e \in Endpoints, e \notin Subscribed, NEW rows \in Placed(e)
  PROVE  /\ rows \in Seq(Endpoints) /\ IsInjective(rows) /\ Len(rows) = Len(subs) + 1
         /\ \E i \in 1..Len(subs) + 1 : \A k \in 1..Len(subs) + 1 :
              rows[k] = IF k < i THEN subs[k] ELSE IF k = i THEN e ELSE subs[k - 1]
<1>1. Len(subs) \in Nat /\ DOMAIN subs = 1..Len(subs)
  BY LenProperties
<1>2. \A k \in 1..Len(subs) : subs[k] \in Endpoints /\ subs[k] # e
  BY <1>1, ElementOfSeq DEF Subscribed, Range
<1>3. PICK i \in 1..Len(subs) + 1 : rows = InsertAt(subs, i, e)
  BY DEF Placed
<1>4. /\ rows \in Seq(Endpoints) /\ IsInjective(rows) /\ Len(rows) = Len(subs) + 1
      /\ \A k \in 1..Len(subs) + 1 :
           rows[k] = IF k < i THEN subs[k] ELSE IF k = i THEN e ELSE subs[k - 1]
  <2> DEFINE front == SubSeq(subs, 1, i - 1)
             back == SubSeq(subs, i, Len(subs))
  <2>2. /\ front \in Seq(Endpoints) /\ Len(front) = i - 1
        /\ \A k \in 1..i - 1 : front[k] = subs[k]
    <3>1. 1 \in Int /\ i - 1 \in Int /\ \A k \in 1..i - 1 : subs[k] \in Endpoints
      BY <1>1, <1>2
    <3>2. /\ front \in Seq(Endpoints)
          /\ Len(front) = IF 1 <= i - 1 THEN (i - 1) - 1 + 1 ELSE 0
          /\ \A k \in 1..(i - 1) - 1 + 1 : front[k] = subs[1 + k - 1]
      BY <3>1, SubSeqProperties
    <3> QED
      BY <1>1, <3>2
  <2>3. /\ back \in Seq(Endpoints) /\ Len(back) = Len(subs) - i + 1
        /\ \A k \in 1..Len(subs) - i + 1 : back[k] = subs[i + k - 1]
    <3>1. i \in Int /\ Len(subs) \in Int /\ \A k \in i..Len(subs) : subs[k] \in Endpoints
      BY <1>1, <1>2
    <3>2. /\ back \in Seq(Endpoints)
          /\ Len(back) = IF i <= Len(subs) THEN Len(subs) - i + 1 ELSE 0
          /\ \A k \in 1..Len(subs) - i + 1 : back[k] = subs[i + k - 1]
      BY <3>1, SubSeqProperties
    <3> QED
      BY <1>1, <3>2
  <2>4. <<e>> \in Seq(Endpoints) /\ Len(<<e>>) = 1 /\ <<e>>[1] = e
    OBVIOUS
  <2>5. rows = (front \o <<e>>) \o back
    BY <1>3 DEF InsertAt
  <2> HIDE DEF front, back
  <2> DEFINE head == front \o <<e>>
  <2>6. /\ head \in Seq(Endpoints) /\ Len(head) = i
        /\ \A k \in 1..i : head[k] = IF k < i THEN subs[k] ELSE e
    <3>1. /\ head \in Seq(Endpoints) /\ Len(head) = Len(front) + 1
          /\ \A k \in 1..Len(front) + 1 :
               head[k] = IF k <= Len(front) THEN front[k] ELSE <<e>>[k - Len(front)]
      BY <2>2, <2>4, ConcatProperties
    <3> HIDE DEF head
    <3>2. ASSUME NEW k \in 1..i PROVE head[k] = IF k < i THEN subs[k] ELSE e
      <4>1. CASE k < i
        BY <1>1, <2>2, <3>1, <4>1
      <4>2. CASE k = i
        <5>1. Len(front) = i - 1 /\ i \in 1..Len(front) + 1
          BY <1>1, <2>2
        <5>2. head[i] = <<e>>[i - Len(front)]
          BY <1>1, <3>1, <5>1
        <5>3. i - Len(front) = 1
          BY <1>1, <5>1
        <5>4. head[i] = e
          BY <2>4, <5>2, <5>3
        <5> QED
          BY <1>1, <4>2, <5>4
      <4> QED
        BY <1>1, <4>1, <4>2
    <3> QED
      BY <1>1, <2>2, <3>1, <3>2
  <2>7. rows = head \o back
    BY <2>5
  <2> HIDE DEF head
  <2>8. /\ rows \in Seq(Endpoints) /\ Len(rows) = Len(subs) + 1
        /\ \A k \in 1..Len(subs) + 1 :
             rows[k] = IF k < i THEN subs[k] ELSE IF k = i THEN e ELSE subs[k - 1]
    <3>1. /\ rows \in Seq(Endpoints) /\ Len(rows) = Len(head) + Len(back)
          /\ \A k \in 1..Len(head) + Len(back) :
               rows[k] = IF k <= Len(head) THEN head[k] ELSE back[k - Len(head)]
      BY <2>3, <2>6, <2>7, ConcatProperties
    <3>2. Len(head) + Len(back) = Len(subs) + 1
      BY <1>1, <2>3, <2>6
    <3>3. ASSUME NEW k \in 1..Len(subs) + 1
          PROVE  rows[k] = IF k < i THEN subs[k] ELSE IF k = i THEN e ELSE subs[k - 1]
      <4>1. CASE k <= i
        BY <1>1, <2>6, <3>1, <3>2, <4>1
      <4>2. CASE k > i
        <5>1. k - i \in 1..Len(subs) - i + 1 /\ i + (k - i) - 1 = k - 1
          BY <1>1, <4>2
        <5>2. rows[k] = back[k - i]
          BY <1>1, <2>6, <3>1, <3>2, <4>2
        <5>3. back[k - i] = subs[k - 1]
          BY <2>3, <5>1
        <5> QED
          BY <1>1, <4>2, <5>2, <5>3
      <4> QED
        BY <1>1, <4>1, <4>2
    <3> QED
      BY <3>1, <3>2, <3>3
  <2>9. DOMAIN rows = 1..Len(subs) + 1
    BY <2>8, LenProperties
  <2>10. ASSUME NEW j \in DOMAIN rows, NEW k \in DOMAIN rows, rows[j] = rows[k]
         PROVE  j = k
    <3> DEFINE was(n) == IF n < i THEN n ELSE n - 1
    <3>1. \A n \in 1..Len(subs) + 1 :
            n # i => was(n) \in 1..Len(subs) /\ rows[n] = subs[was(n)] /\ rows[n] # e
      <4> SUFFICES ASSUME NEW n \in 1..Len(subs) + 1, n # i
                   PROVE  was(n) \in 1..Len(subs) /\ rows[n] = subs[was(n)] /\ rows[n] # e
        OBVIOUS
      <4>1. was(n) \in 1..Len(subs)
        BY <1>1
      <4>2. rows[n] = subs[was(n)]
        BY <1>1, <2>8
      <4> QED
        BY <1>2, <4>1, <4>2
    <3>2. rows[i] = e
      BY <1>1, <2>8
    <3>3. CASE j = i \/ k = i
      BY <2>9, <2>10, <3>1, <3>2, <3>3
    <3>4. CASE j # i /\ k # i
      <4>1. subs[was(j)] = subs[was(k)] /\ was(j) \in DOMAIN subs /\ was(k) \in DOMAIN subs
        BY <1>1, <2>9, <2>10, <3>1, <3>4
      <4>2. was(j) = was(k)
        BY <4>1 DEF IsInjective
      <4> QED
        BY <1>1, <2>9, <3>4, <4>2
    <3> QED
      BY <3>3, <3>4
  <2> QED
    BY <2>8, <2>10 DEF IsInjective
<1> QED
  BY <1>4

--------------------------------------------------------------------------------
(* The table in every step.                                                   *)

\* Rows within bounds, and a browser that subscribes before it drops.
TableInv ==
  /\ SubscriptionsBounded
  /\ browser \in [Endpoints -> {"fresh", "alive", "dropped"}]

\* add_subscription leaves a table within bounds.
LEMMA AddKeeps ==
  ASSUME SubscriptionsBounded, NEW e \in Endpoints, AddSubscription(e)
  PROVE  SubscriptionsBounded'
<1>1. CASE UNCHANGED subs
  BY <1>1 DEF SubscriptionsBounded
<1>2. ASSUME NEW rows \in IF e \in Subscribed THEN {subs} ELSE Placed(e), subs' = Newest(rows)
      PROVE  SubscriptionsBounded'
  <2>1. rows \in Seq(Endpoints) /\ IsInjective(rows)
    BY <1>2, PlacedRow DEF SubscriptionsBounded
  <2> QED
    BY <1>2, <2>1, NewestBounded DEF SubscriptionsBounded
<1> QED
  BY <1>1, <1>2 DEF AddSubscription

\* remove_subscription leaves a table within bounds and every other row.
LEMMA RemoveKeeps ==
  ASSUME SubscriptionsBounded, NEW e \in Endpoints, RemoveSubscription(e)
  PROVE  SubscriptionsBounded' /\ Subscribed \ {e} \subseteq Range(subs')
<1>1. CASE UNCHANGED subs
  BY <1>1 DEF SubscriptionsBounded, Subscribed
<1>2. ASSUME NEW i \in DOMAIN subs, subs[i] = e, subs' = RemoveAt(subs, i)
      PROVE  SubscriptionsBounded' /\ Subscribed \ {e} \subseteq Range(subs')
  <2>1. /\ subs' \in Seq(Endpoints) /\ IsInjective(subs') /\ Len(subs') = Len(subs) - 1
        /\ \A x \in Range(subs) : x = e \/ x \in Range(subs')
    BY <1>2, RemovedRow DEF SubscriptionsBounded
  <2>2. Len(subs) \in Nat /\ Len(subs) <= SubscriptionMax /\ SubscriptionMax \in Nat
    BY SubscriptionAssumption, LenProperties DEF SubscriptionsBounded
  <2> QED
    BY <2>1, <2>2 DEF SubscriptionsBounded, Subscribed
<1> QED
  BY <1>1, <1>2 DEF RemoveSubscription

\* Wherever the clock puts a new row and whether or not the write succeeds, a row
\* that goes for it is the oldest of a full table, and then the new one is in.
LEMMA AddEvictsOldest ==
  ASSUME SubscriptionsBounded, NEW x \in Endpoints, AddSubscription(x),
         NEW e \in Subscribed \ Range(subs')
  PROVE  /\ e = Head(subs) /\ Len(subs) = SubscriptionMax
         /\ Range(subs') \ Subscribed # {}
<1>1. /\ subs \in Seq(Endpoints) /\ Len(subs) \in Nat /\ DOMAIN subs = 1..Len(subs)
      /\ Len(subs) <= SubscriptionMax /\ SubscriptionMax \in Nat \ {0}
      /\ IsInjective(subs)
  BY SubscriptionAssumption, LenProperties DEF SubscriptionsBounded
<1>2. subs' # subs
  BY DEF Subscribed
<1>3. x \notin Subscribed
  <2> SUFFICES ASSUME x \in Subscribed PROVE FALSE
    OBVIOUS
  <2>1. subs' = Newest(subs)
    BY <1>2 DEF AddSubscription
  <2> QED
    BY <1>1, <1>2, <2>1, NewestOfFew
<1>4. PICK rows \in Placed(x) : subs' = Newest(rows)
  BY <1>2, <1>3 DEF AddSubscription
<1>5. /\ rows \in Seq(Endpoints) /\ Len(rows) = Len(subs) + 1
      /\ \E i \in 1..Len(subs) + 1 : \A k \in 1..Len(subs) + 1 :
           rows[k] = IF k < i THEN subs[k] ELSE IF k = i THEN x ELSE subs[k - 1]
  BY <1>1, <1>3, PlacedRow
<1>6. PICK i \in 1..Len(subs) + 1 : \A k \in 1..Len(subs) + 1 :
        rows[k] = IF k < i THEN subs[k] ELSE IF k = i THEN x ELSE subs[k - 1]
  BY <1>5
<1> DEFINE skip == IF Len(rows) > SubscriptionMax THEN Len(rows) - SubscriptionMax ELSE 0
<1>7. /\ subs' \in Seq(Endpoints) /\ Len(subs') = Len(rows) - skip
      /\ \A k \in 1..Len(rows) - skip : subs'[k] = rows[skip + k]
  BY <1>4, <1>5, NewestRows
<1>8. skip = IF Len(subs) = SubscriptionMax THEN 1 ELSE 0
  <2>1. \A n, m \in Nat : n <= m =>
          (IF n + 1 > m THEN n + 1 - m ELSE 0) = IF n = m THEN 1 ELSE 0
    OBVIOUS
  <2>2. Len(rows) = Len(subs) + 1
    BY <1>5
  <2>3. Len(subs) \in Nat /\ SubscriptionMax \in Nat /\ Len(subs) <= SubscriptionMax
    BY <1>1
  <2> QED
    BY <2>1, <2>2, <2>3
<1> HIDE DEF skip
<1>9. skip \in {0, 1} /\ DOMAIN subs' = 1..Len(subs) + 1 - skip
  <2>1. DOMAIN subs' = 1..Len(subs')
    BY <1>7, LenProperties
  <2> QED
    BY <1>5, <1>7, <1>8, <2>1
<1>10. ASSUME NEW k \in 1..Len(subs) + 1, k > skip
       PROVE  rows[k] \in Range(subs')
  <2>1. k - skip \in 1..Len(subs) + 1 - skip /\ skip + (k - skip) = k
    BY <1>1, <1>9, <1>10
  <2>2. subs'[k - skip] = rows[k]
    <3>1. k - skip \in 1..Len(rows) - skip
      <4>1. Len(rows) = Len(subs) + 1
        BY <1>5
      <4>2. Len(subs) \in Nat /\ skip \in Int
        BY <1>1, <1>9
      <4> QED
        BY <2>1, <4>1, <4>2
    <3>2. subs'[k - skip] = rows[skip + (k - skip)]
      BY <1>7, <3>1
    <3> QED
      BY <2>1, <3>2
  <2> QED
    BY <1>9, <2>1, <2>2 DEF Range
<1>11. PICK k \in 1..Len(subs) : subs[k] = e
  BY <1>1 DEF Subscribed, Range
<1> DEFINE n == IF k < i THEN k ELSE k + 1
<1>12. n \in 1..Len(subs) + 1 /\ rows[n] = e
  <2>1. CASE k < i
    BY <1>1, <1>6, <1>11, <2>1
  <2>2. CASE ~(k < i)
    <3>1. k + 1 \in 1..Len(subs) + 1 /\ ~(k + 1 < i) /\ k + 1 # i /\ (k + 1) - 1 = k
      BY <1>1, <2>2
    <3> QED
      BY <1>6, <1>11, <2>2, <3>1
  <2> QED
    BY <2>1, <2>2
<1>13. ~(n > skip)
  BY <1>10, <1>12
<1>14. skip = 1 /\ k = 1 /\ 1 < i
  BY <1>1, <1>9, <1>12, <1>13
<1>15. rows[i] = x
  BY <1>6
<1>16. x \in Range(subs')
  BY <1>10, <1>14, <1>15
<1>17. Head(subs) = subs[1] /\ Len(subs) = SubscriptionMax
  <2>1. Len(subs) = SubscriptionMax
    BY <1>8, <1>14
  <2>2. subs # <<>>
    BY <1>1, <1>11
  <2> QED
    BY <2>1, <2>2
<1> QED
  BY <1>3, <1>11, <1>14, <1>16, <1>17

\* A fresh database is within bounds.
LEMMA TableInit == Init => TableInv
<1> SUFFICES ASSUME Init PROVE TableInv
  OBVIOUS
<1>1. subs = <<>> /\ browser = [e \in Endpoints |-> "fresh"]
  BY DEF Init, SubscriptionsInit
<1>2. <<>> \in Seq(Endpoints) /\ Len(<<>>) = 0 /\ DOMAIN <<>> = {}
  OBVIOUS
<1> QED
  BY <1>1, <1>2, SubscriptionAssumption DEF TableInv, SubscriptionsBounded, IsInjective

\* The steps that touch neither the table nor the browsers.
Elsewhere ==
  \/ SetRunning \/ Burn \/ Correct \/ SetFuelFill \/ SetAlerts
  \/ Crossing \/ Rearm \/ PushLowFuel \/ ResetMemory \/ Restart

\* They are most of the steps.
LEMMA ElsewhereLeavesTable == Elsewhere => UNCHANGED <<subs, browser>>
BY DEF Elsewhere, SetRunning, Burn, Correct, SetFuelFill, SetAlerts, Crossing, Rearm,
  PushLowFuel, BeginPush, ResetMemory, Restart, subVars

\* A push deletes a row only on the word that the browser has dropped it.
LEMMA PushDeletesDropped ==
  PushStep =>
    /\ UNCHANGED browser
    /\ \/ UNCHANGED subs
       \/ \E e \in Endpoints : browser[e] = "dropped" /\ RemoveSubscription(e)
BY DEF PushStep, ReadSubscriptions, PushGivesUp, EndPush, Deliver, Answers

\* Every step keeps the table within bounds.
LEMMA TableStep == TableInv /\ [Next]_vars => TableInv'
<1> SUFFICES ASSUME TableInv, [Next]_vars PROVE TableInv'
  OBVIOUS
<1>1. CASE UNCHANGED <<subs, browser>>
  BY <1>1 DEF TableInv, SubscriptionsBounded
<1>2. CASE PushStep
  BY <1>1, <1>2, PushDeletesDropped, RemoveKeeps DEF TableInv
<1>3. CASE Browser
  <2>1. PICK e \in Endpoints : Subscribe(e) \/ Drop(e) \/ Unsubscribe(e)
    BY <1>3 DEF Browser
  <2>2. browser' \in [Endpoints -> {"fresh", "alive", "dropped"}]
    BY <2>1 DEF Subscribe, Drop, Unsubscribe, TableInv
  <2>3. SubscriptionsBounded'
    <3>1. CASE Subscribe(e)
      BY <3>1, AddKeeps DEF Subscribe, TableInv
    <3>2. CASE Drop(e)
      BY <3>2 DEF Drop, TableInv, SubscriptionsBounded
    <3>3. CASE Unsubscribe(e)
      BY <3>3, RemoveKeeps DEF Unsubscribe, TableInv
    <3> QED
      BY <2>1, <3>1, <3>2, <3>3
  <2> QED
    BY <2>2, <2>3 DEF TableInv
<1>4. CASE ResetStore
  <2>1. subs' = <<>> /\ browser' = browser
    BY <1>4 DEF ResetStore
  <2>2. <<>> \in Seq(Endpoints) /\ Len(<<>>) = 0 /\ DOMAIN <<>> = {}
    OBVIOUS
  <2> QED
    BY <2>1, <2>2, SubscriptionAssumption DEF TableInv, SubscriptionsBounded, IsInjective
<1>5. CASE Elsewhere
  BY <1>1, <1>5, ElsewhereLeavesTable
<1>6. CASE UNCHANGED vars
  BY <1>1, <1>6 DEF vars, subVars
<1> QED
  BY <1>2, <1>3, <1>4, <1>5, <1>6 DEF Next, Elsewhere

\* The table's invariant, in every reachable state (store.py).
LEMMA TableInvariance == Spec => []TableInv
BY TableInit, TableStep, PTL DEF Spec

(* However many browsers subscribe, drop and are answered for, and wherever the
   clock puts a new row, the table holds an endpoint once and never more rows than
   SUBSCRIPTION_MAX. *)
THEOREM Bounded == Spec => []SubscriptionsBounded
<1>1. TableInv => SubscriptionsBounded
  BY DEF TableInv
<1> QED
  BY <1>1, TableInvariance, PTL

(* A browser that is still subscribed loses its row to factory_reset or as the
   oldest of a full table that takes in a new one, and to nothing else: no other
   browser's unsubscribe, no 410 for another endpoint, no clock that is set back
   and no write that fails. *)
THEOREM RowsStay == Spec => LiveRowsStay
<1> DEFINE Kept(e) ==
             browser[e] = "alive" =>
               \/ ResetStore
               \/ /\ e = Head(subs) /\ Len(subs) = SubscriptionMax
                  /\ Range(subs') \ Subscribed # {}
<1>1. TableInv /\ [Next]_vars => [\A e \in Subscribed \ Range(subs') : Kept(e)]_vars
  <2> SUFFICES ASSUME TableInv, Next, NEW e \in Subscribed \ Range(subs') PROVE Kept(e)
    OBVIOUS
  <2>1. CASE UNCHANGED <<subs, browser>>
    BY <2>1 DEF Subscribed
  <2>2. CASE PushStep
    BY <2>1, <2>2, PushDeletesDropped, RemoveKeeps DEF TableInv
  <2>3. CASE Browser
    <3>1. PICK x \in Endpoints : Subscribe(x) \/ Drop(x) \/ Unsubscribe(x)
      BY <2>3 DEF Browser
    <3>2. CASE Subscribe(x)
      BY <3>2, AddEvictsOldest DEF Subscribe, TableInv
    <3>3. CASE Drop(x)
      BY <3>3 DEF Drop, TableInv, Subscribed
    <3>4. CASE Unsubscribe(x)
      BY <3>4, RemoveKeeps DEF Unsubscribe, TableInv
    <3> QED
      BY <3>1, <3>2, <3>3, <3>4
  <2>4. CASE ResetStore
    BY <2>4
  <2>5. CASE Elsewhere
    BY <2>1, <2>5, ElsewhereLeavesTable
  <2> QED
    BY <2>2, <2>3, <2>4, <2>5 DEF Next, Elsewhere
<1> QED
  BY <1>1, TableInvariance, PTL DEF Spec, LiveRowsStay
================================================================================
