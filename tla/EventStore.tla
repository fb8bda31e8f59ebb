------------------------------ MODULE EventStore ------------------------------
(***************************************************************************)
(* The durable event log of store.py: an SQLite table whose rows are       *)
(* numbered by AUTOINCREMENT, trimmed at every insert to the newest        *)
(* EVENT_LOG_MAX, and read in pages, newest first.  A row is its number;   *)
(* what it says is left out.  Every operation is one section of            *)
(* _event_lock, and one that fails is taken to fail as a whole.            *)
(***************************************************************************)
EXTENDS Integers, FiniteSets, FiniteSetsExt

CONSTANTS
  EventLogMax,   \* CONFIG["EVENT_LOG_MAX"]
  PageSize,      \* the limit a browser asks for
  MaxSeq         \* bound: events recorded in a behaviour

ASSUME StoreAssumption ==
  EventLogMax \in Nat \ {0} /\ PageSize \in Nat \ {0} /\ MaxSeq \in Nat \ {0}

VARIABLES
  events,        \* the numbers of the rows in the table
  autoinc        \* sqlite_sequence: the last number given out

\* A fresh database holds the startup event.
StoreInit == events = {1} /\ autoinc = 1

\* Mutant: one row too many is kept.
Trimmed_OffByOne(rows) == {s \in rows : s >= Max(rows) - EventLogMax}

\* Insert, then delete what lies EVENT_LOG_MAX or more below the largest number.
Trimmed(rows) == {s \in rows : s > Max(rows) - EventLogMax}

RecordEvent ==
  /\ autoinc < MaxSeq
  /\ autoinc' = autoinc + 1
  /\ events' = Trimmed(events \cup {autoinc + 1})

\* Mutant: the rows are numbered from 1 again.
Wipe_Renumbers == events' = {} /\ autoinc' = 0

\* factory_reset deletes the rows; AUTOINCREMENT goes on counting.
Wipe == events' = {} /\ UNCHANGED autoinc

\* ORDER BY seq DESC LIMIT ?  The order of a page is that of its numbers.
NewestOf(rows) == {s \in rows : Cardinality({t \in rows : t > s}) < PageSize}

NewerThan(after)  == NewestOf({s \in events : s > after})
OlderThan(before) == NewestOf({s \in events : s < before})

(* The table is what it says it is: every event since some point (the last
   wipe, or the beginning) that is among the newest EVENT_LOG_MAX, and no
   other; so it is bounded and has no hole a page could skip over. *)
TableIsNewest ==
  \E from \in 0..autoinc :
    events = {s \in 1..autoinc : s > from /\ s > autoinc - EventLogMax}
===============================================================================
