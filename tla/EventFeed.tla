------------------------------- MODULE EventFeed -------------------------------
(***************************************************************************)
(* The EVENT LOG panel of the browser over the event store: the initial    *)
(* page, the delta polls that follow the newest row, the older pages that  *)
(* scrolling asks for, and the switch to the application log, all through  *)
(* the poll queue except the older pages, which go out at once.            *)
(*                                                                         *)
(* A callback of the browser runs to completion, so one action queues      *)
(* several polls.  A request carries the cursor of the moment it was       *)
(* queued; its answer meets the panel of the moment it arrives.  The       *)
(* server reads in between: what is recorded after that and before the     *)
(* answer arrives is as if it were recorded later.  Cursor 0 stands for   *)
(* none: loadNewEvents with newestSeq 0 is loadInitialEvents.              *)
(***************************************************************************)
EXTENDS EventStore, PollQueue

VARIABLES
  logView,       \* what the panel shows: "events" or "log"
  newestSeq,     \* the cursors of the browser
  oldestSeq,
  top,           \* the event painted at the top of the panel, 0 when it is empty
  blanked,       \* history: an empty page cleared the panel, nothing new since
  older          \* the request of loadOlderEvents in flight: its cursor

panel == <<logView, newestSeq, oldestSeq, top, blanked>>
vars == <<events, autoinc, poll, paused, panel, older>>

Views == {"events", "log"}
FeedKey == IF logView = "events" THEN "events" ELSE "logs"

\* The page loads, in the view it was left in.
Init ==
  /\ StoreInit /\ PollInit
  /\ logView \in Views
  /\ newestSeq = 0 /\ oldestSeq = 0 /\ top = 0
  /\ older = 0 /\ blanked = FALSE

Store == UNCHANGED <<poll, paused, panel, older>> /\ (RecordEvent \/ Wipe)
Time  == UNCHANGED <<events, autoinc, panel, older>> /\ (Tick \/ Pause)

\* refresh(): the timer and every action of the user poll the state, then the
\* feed shown, from the newest row held when the panel is scrolled to its top.
Refresh(atTop) ==
  /\ \E p \in {PollFetch(poll, "state", 0)} :
       poll' = IF atTop THEN PollFetch(p, FeedKey, IF logView = "events" THEN newestSeq ELSE 0)
                        ELSE p
  /\ UNCHANGED <<events, autoinc, paused, panel, older>>

\* The timer of the open SYSTEM drawer.
PollHistory ==
  /\ poll' = PollFetch(poll, "sys", 0)
  /\ UNCHANGED <<events, autoinc, paused, panel, older>>

SetLogView(v) ==
  /\ logView' = v /\ top' = 0 /\ blanked' = FALSE
  /\ IF v = "events" THEN newestSeq' = 0 /\ oldestSeq' = 0
                     ELSE UNCHANGED <<newestSeq, oldestSeq>>
  /\ poll' = PollFetch(poll, IF v = "events" THEN "events" ELSE "logs", 0)
  /\ UNCHANGED <<events, autoinc, paused, older>>

\* loadInitialEvents replaces the rows, loadNewEvents puts the new ones on top;
\* a page without rows leaves the cursors where they are.
PaintEvents(path, rows) ==
  /\ top' = IF rows # {} THEN Max(rows) ELSE IF path = 0 THEN 0 ELSE top
  /\ newestSeq' = IF rows = {} THEN newestSeq ELSE Max(rows)
  /\ oldestSeq' = IF path = 0 /\ rows # {} THEN Min(rows) ELSE oldestSeq
  /\ blanked' = (rows = {} /\ (blanked \/ path = 0))
  /\ UNCHANGED logView

\* loadAppLog: a delta goes in among the rows, a full tail clears the panel.
PaintLog == top' \in {top, 0} /\ UNCHANGED <<logView, newestSeq, oldestSeq, blanked>>

\* The request in flight ends, and the next job is sent.
PollEnds == poll.active # NoJob /\ poll' = Settled(poll)

PollAnswered ==
  /\ PollEnds
  /\ CASE poll.active.key = "events" /\ logView = "events" ->
            PaintEvents(poll.active.path, NewerThan(poll.active.path))
       [] poll.active.key = "logs" /\ logView = "log" -> PaintLog
       [] OTHER -> UNCHANGED panel
  /\ UNCHANGED <<events, autoinc, paused, older>>

\* An error answer, or one cut off in its body, is {}: a page without rows, and
\* of the application log nothing.
PollFailed ==
  /\ PollEnds
  /\ poll.active.key = "events" /\ logView = "events"
  /\ PaintEvents(poll.active.path, {})
  /\ UNCHANGED <<events, autoinc, paused, older>>

\* The link fails, or the request is aborted, before there is an answer.
PollLost == PollEnds /\ UNCHANGED <<events, autoinc, paused, panel, older>>

\* loadOlderEvents, when the panel is scrolled to its end.
LoadOlder ==
  /\ logView = "events" /\ older = 0
  /\ older' = oldestSeq
  /\ UNCHANGED <<events, autoinc, poll, paused, panel>>

\* The rows go in at the bottom, whatever the panel shows by now.
OlderAnswered ==
  /\ older # 0
  /\ LET rows == OlderThan(older)
     IN  /\ top' = IF top = 0 /\ rows # {} THEN Max(rows) ELSE top
         /\ oldestSeq' = IF rows = {} THEN oldestSeq ELSE Min(rows)
  /\ older' = 0
  /\ UNCHANGED <<events, autoinc, poll, paused, logView, newestSeq, blanked>>

\* Lost, or an error, which has no rows to append.
OlderLost ==
  /\ older # 0 /\ older' = 0
  /\ UNCHANGED <<events, autoinc, poll, paused, panel>>

Next ==
  \/ Store \/ Time
  \/ \E atTop \in BOOLEAN : Refresh(atTop)
  \/ PollHistory
  \/ \E v \in Views : SetLogView(v)
  \/ PollAnswered \/ PollFailed \/ PollLost
  \/ LoadOlder \/ OlderAnswered \/ OlderLost

(* The timer goes on firing with the panel at its top, time passes, every
   request ends (it is aborted when its time is up), and a link that is tried
   for ever answers for ever. *)
Fairness ==
  /\ WF_poll(Refresh(TRUE))
  /\ WF_poll(Tick)
  /\ WF_poll(PollEnds)
  /\ SF_poll(PollAnswered /\ poll.active.key = "events")

Spec == Init /\ [][Next]_vars /\ Fairness
--------------------------------------------------------------------------------
(* A panel that shows events, with no update in the way, comes to show the
   newest event of the table; or an error answered its initial page when it held
   the newest event already: it was cleared, and there is nothing newer to ask
   for until another event is recorded (app.js, loadInitialEvents). *)
CatchesUp ==
  <>[](logView = "events" /\ ~paused) =>
    []<>(events # {} => \/ top = Max(events)
                        \/ blanked /\ newestSeq = Max(events))
================================================================================
