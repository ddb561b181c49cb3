--------------------------- MODULE EventCalendar ---------------------------
(***************************************************************************)
(* EventsService: the calendar of the office.  An event has a start, may   *)
(* have an end, and is archived instead of deleted.  update, archive and   *)
(* reactivate read the row, check, and write in a later transaction        *)
(* together with the audit entry; an editor is one of them in flight.      *)
(* The fields other than the dates are left out: a change of them is an    *)
(* update that sends no date.  A day has DayLength moments.                *)
(***************************************************************************)
EXTENDS Integers

CONSTANTS
  Events,
  Editors,    \* concurrent update, archive and reactivate requests
  Horizon,    \* bound: the last moment of the calendar
  DayLength,
  Open,       \* endsAt null
  Unsent      \* a field that an update does not send

ASSUME CalendarAssumption ==
  /\ Horizon \in Nat /\ DayLength \in Nat \ {0}
  /\ Open \notin Int /\ Unsent \notin Int /\ Open # Unsent

Moments == 0..Horizon
Ends == Moments \cup {Open}

VARIABLES
  event,     \* the Event table
  recorded,  \* per event, the snapshot in its latest audit entry
  editor     \* per editor, the request in flight

calendarVars == <<event, recorded, editor>>

EventRows == [state : {"none", "active", "archived"}, start : Moments, end : Ends]
Snapshots == [start : Moments, end : Ends]

Idle == [op |-> "idle"]

\* start and end: what update will write
EditorJobs ==
  {Idle} \cup [op : {"archive", "reactivate"}, on : Events]
         \cup [op : {"update"}, on : Events, start : Moments, end : Ends]

CalendarTypeOK ==
  /\ event \in [Events -> EventRows]
  /\ recorded \in [Events -> Snapshots]
  /\ editor \in [Editors -> EditorJobs]

Snapshot(row) == [start |-> row.start, end |-> row.end]

CalendarInit ==
  /\ event = [e \in Events |->
       [state |-> "none", start |-> 0, end |-> Open]]
  /\ recorded = [e \in Events |-> Snapshot(event[e])]
  /\ editor = [q \in Editors |-> Idle]

-----------------------------------------------------------------------------
\* validateEventTimes
ValidTimes(start, end) == end # Open => end >= start

CreateEvent(e, start, end) ==
  LET row == [state |-> "active", start |-> start, end |-> end] IN
  /\ event[e].state = "none"
  /\ ValidTimes(start, end)
  /\ event' = [event EXCEPT ![e] = row]
  /\ recorded' = [recorded EXCEPT ![e] = Snapshot(row)]
  /\ UNCHANGED editor

Begin(q, job) ==
  /\ editor[q] = Idle
  /\ editor' = [editor EXCEPT ![q] = job]
  /\ UNCHANGED <<event, recorded>>

Finish(q) == editor' = [editor EXCEPT ![q] = Idle]

\* A date that is not sent keeps the value that was read.
Resolved(sent, read) == IF sent = Unsent THEN read ELSE sent

\* Mutant: the dates are compared only when both are sent.
BeginUpdateUnchecked(q, e, start, end) ==
  LET newStart == Resolved(start, event[e].start)
      newEnd == Resolved(end, event[e].end)
  IN  /\ event[e].state # "none"
      /\ start # Unsent /\ end # Unsent => ValidTimes(newStart, newEnd)
      /\ Begin(q, [op |-> "update", on |-> e, start |-> newStart, end |-> newEnd])

\* Mutant: an end that is not sent is written as it came.
BeginUpdateUnresolved(q, e, start, end) ==
  LET newStart == Resolved(start, event[e].start) IN
  /\ event[e].state # "none"
  /\ end # Unsent => ValidTimes(newStart, end)
  /\ Begin(q, [op |-> "update", on |-> e, start |-> newStart, end |-> end])

\* update reads the event, archived or not
BeginUpdate(q, e, start, end) ==
  LET newStart == Resolved(start, event[e].start)
      newEnd == Resolved(end, event[e].end)
  IN  /\ event[e].state # "none"
      /\ ValidTimes(newStart, newEnd)
      /\ Begin(q, [op |-> "update", on |-> e, start |-> newStart, end |-> newEnd])

\* Mutant: the audit entry is written after the transaction, and may be lost.
CommitUpdateUnrecorded(q) ==
  LET job == editor[q]
      row == [event[job.on] EXCEPT !.start = job.start, !.end = job.end]
  IN  /\ job.op = "update"
      /\ event' = [event EXCEPT ![job.on] = row]
      /\ \/ recorded' = [recorded EXCEPT ![job.on] = Snapshot(row)]
         \/ UNCHANGED recorded
      /\ Finish(q)

\* Both dates are always written, also the one that was only read.
CommitUpdate(q) ==
  LET job == editor[q]
      row == [event[job.on] EXCEPT !.start = job.start, !.end = job.end]
  IN  /\ job.op = "update"
      /\ event' = [event EXCEPT ![job.on] = row]
      /\ recorded' = [recorded EXCEPT ![job.on] = Snapshot(row)]
      /\ Finish(q)

BeginArchive(q, e) == event[e].state = "active" /\ Begin(q, [op |-> "archive", on |-> e])

BeginReactivate(q, e) ==
  event[e].state = "archived" /\ Begin(q, [op |-> "reactivate", on |-> e])

\* isActive and archivedAt, whatever they are by now
CommitArchive(q) ==
  /\ editor[q].op = "archive"
  /\ event' = [event EXCEPT ![editor[q].on].state = "archived"]
  /\ Finish(q)
  /\ UNCHANGED recorded

CommitReactivate(q) ==
  /\ editor[q].op = "reactivate"
  /\ event' = [event EXCEPT ![editor[q].on].state = "active"]
  /\ Finish(q)
  /\ UNCHANGED recorded

\* The request fails, or its process is lost, before the transaction.
AbandonEdit(q) == editor[q] # Idle /\ Finish(q) /\ UNCHANGED <<event, recorded>>

EditorNext(q) ==
  \/ \E e \in Events, start \in Moments \cup {Unsent}, end \in Ends \cup {Unsent} :
       BeginUpdate(q, e, start, end)
  \/ CommitUpdate(q)
  \/ \E e \in Events : BeginArchive(q, e) \/ BeginReactivate(q, e)
  \/ CommitArchive(q)
  \/ CommitReactivate(q)
  \/ AbandonEdit(q)

CalendarNext ==
  \/ \E e \in Events, start \in Moments, end \in Ends : CreateEvent(e, start, end)
  \/ \E q \in Editors : EditorNext(q)

CalendarSpec == CalendarInit /\ [][CalendarNext]_calendarVars

-----------------------------------------------------------------------------
(* findAll.  A bound of the range is absent (Open), a day (a date without  *)
(* a time) or a moment.                                                    *)
Days == 0..(Horizon \div DayLength)
NoBound == [kind |-> "none", at |-> 0]
Bounds == {NoBound} \cup [kind : {"day"}, at : Days] \cup [kind : {"moment"}, at : Moments]

\* Mutant: a day stands for its first moment at either end of the range.
BoundaryStart(b, endOfDay) == IF b.kind = "moment" THEN b.at ELSE b.at * DayLength

\* parseRangeBoundary
Boundary(b, endOfDay) ==
  IF b.kind = "moment" THEN b.at
                       ELSE b.at * DayLength + (IF endOfDay THEN DayLength - 1 ELSE 0)

\* The WHERE clause, for a range that is not refused.
Matches(row, from, to) ==
  LET first == Boundary(from, FALSE)
      last == Boundary(to, TRUE)
  IN  /\ to.kind # "none" => row.start <= last
      /\ from.kind # "none" => IF row.end = Open THEN row.start >= first ELSE row.end >= first

Refused(from, to) ==
  from.kind # "none" /\ to.kind # "none" /\ Boundary(from, FALSE) > Boundary(to, TRUE)

Listed(includeInactive, from, to) ==
  {e \in Events : /\ event[e].state = "active" \/ (includeInactive /\ event[e].state = "archived")
                  /\ Matches(event[e], from, to)}

-----------------------------------------------------------------------------
(* "endsAt must be greater than or equal to startsAt": also when two edits *)
(* of an event overlap, each of which checked the other's old date.        *)
EndsAfterStart == \A e \in Events : ValidTimes(event[e].start, event[e].end)

(* The latest audit entry of an event tells the dates it has, whoever      *)
(* wrote last and however many edits overlapped.                           *)
AuditDescribesRow == \A e \in Events : recorded[e] = Snapshot(event[e])

(* "Date-only calendar filters are inclusive Philippine calendar days": a  *)
(* listing has the events that last into the range, archived ones only     *)
(* when they are asked for, and no others.  It relies on every event       *)
(* ending after it starts.                                                 *)
ListingFindsOverlaps ==
  LET At(moment, b) == IF b.kind = "day" THEN moment \div DayLength ELSE moment
      Within(moment, from, to) ==
        /\ from.kind # "none" => from.at <= At(moment, from)
        /\ to.kind # "none" => At(moment, to) <= to.at
      Lasts(e) == event[e].start..(IF event[e].end = Open THEN event[e].start ELSE event[e].end)
  IN  \A from, to \in Bounds : ~Refused(from, to) =>
        LET Overlapping == {e \in Events : \E moment \in Lasts(e) : Within(moment, from, to)} IN
        /\ Listed(TRUE, from, to) = {e \in Overlapping : event[e].state # "none"}
        /\ Listed(FALSE, from, to) = {e \in Overlapping : event[e].state = "active"}
=============================================================================
