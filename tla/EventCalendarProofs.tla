------------------------ MODULE EventCalendarProofs ------------------------
(***************************************************************************)
(* Proofs about EventCalendar, for any events, editors and calendar.       *)
(* What an update in flight will write has been checked as a pair, and the *)
(* pair is written as a whole: that is the part the invariant adds.        *)
(***************************************************************************)
EXTENDS EventCalendar, TLAPS

UpdatesChecked ==
  \A q \in Editors : editor[q].op = "update" => ValidTimes(editor[q].start, editor[q].end)

CalendarInv ==
  CalendarTypeOK /\ EndsAfterStart /\ AuditDescribesRow /\ UpdatesChecked

(* Initially there are no events and nothing is in flight. *)
LEMMA CalendarInitOK == CalendarInit => CalendarInv
  <1> SUFFICES ASSUME CalendarInit PROVE CalendarInv
    OBVIOUS
  <1>1. /\ event \in [Events -> EventRows] /\ recorded \in [Events -> Snapshots]
        /\ \A e \in Events : event[e].end = Open /\ recorded[e] = Snapshot(event[e])
    BY CalendarAssumption DEF CalendarInit, EventRows, Snapshots, Snapshot, Moments, Ends
  <1>2. editor \in [Editors -> EditorJobs] /\ \A q \in Editors : editor[q].op = "idle"
    BY DEF CalendarInit, EditorJobs, Idle
  <1> QED
    BY <1>1, <1>2 DEF CalendarInv, CalendarTypeOK, EndsAfterStart, AuditDescribesRow,
                      UpdatesChecked, ValidTimes

(* A row that ends after it starts, written together with its snapshot,    *)
(* keeps the calendar in order.                                            *)
LEMMA RowWritten ==
  ASSUME CalendarInv, NEW e \in Events, NEW row \in EventRows,
         ValidTimes(row.start, row.end),
         event' = [event EXCEPT ![e] = row],
         recorded' = [recorded EXCEPT ![e] = Snapshot(row)]
  PROVE  /\ event' \in [Events -> EventRows] /\ recorded' \in [Events -> Snapshots]
         /\ EndsAfterStart' /\ AuditDescribesRow'
  <1>1. Snapshot(row) \in Snapshots
    BY DEF Snapshot, Snapshots, EventRows
  <1>2. event' \in [Events -> EventRows] /\ recorded' \in [Events -> Snapshots]
    BY <1>1 DEF CalendarInv, CalendarTypeOK
  <1>3. EndsAfterStart'
    BY DEF CalendarInv, CalendarTypeOK, EndsAfterStart
  <1>4. AuditDescribesRow'
    BY DEF CalendarInv, CalendarTypeOK, AuditDescribesRow
  <1> QED
    BY <1>2, <1>3, <1>4

(* Archiving and reactivation leave the dates alone. *)
LEMMA StateWritten ==
  ASSUME CalendarInv, NEW e \in Events, NEW state \in {"active", "archived"},
         event' = [event EXCEPT ![e].state = state], UNCHANGED recorded
  PROVE  /\ event' \in [Events -> EventRows] /\ recorded' \in [Events -> Snapshots]
         /\ EndsAfterStart' /\ AuditDescribesRow'
  <1>1. event' \in [Events -> EventRows]
    BY DEF CalendarInv, CalendarTypeOK, EventRows
  <1>2. \A f \in Events : event'[f].start = event[f].start /\ event'[f].end = event[f].end
    BY DEF CalendarInv, CalendarTypeOK, EventRows
  <1> QED
    BY <1>1, <1>2 DEF CalendarInv, CalendarTypeOK, EndsAfterStart, AuditDescribesRow, Snapshot

(* An editor that becomes idle adds nothing in flight. *)
LEMMA EditorFinished ==
  ASSUME CalendarInv, NEW q \in Editors, Finish(q)
  PROVE  editor' \in [Editors -> EditorJobs] /\ UpdatesChecked'
  <1>1. Idle \in EditorJobs /\ Idle.op # "update"
    BY DEF Idle, EditorJobs
  <1> QED
    BY <1>1 DEF CalendarInv, CalendarTypeOK, Finish, UpdatesChecked

(* An editor enters with a job whose dates, if it has any, were compared. *)
LEMMA EditorBegun ==
  ASSUME CalendarInv, NEW q \in Editors, NEW job \in EditorJobs, Begin(q, job),
         job.op = "update" => ValidTimes(job.start, job.end)
  PROVE  CalendarInv'
  <1>1. editor' \in [Editors -> EditorJobs] /\ UpdatesChecked'
    BY DEF CalendarInv, CalendarTypeOK, Begin, UpdatesChecked
  <1> QED
    BY <1>1 DEF CalendarInv, CalendarTypeOK, Begin, EndsAfterStart, AuditDescribesRow

(* Every step keeps the invariant. *)
LEMMA CalendarStep == CalendarInv /\ [CalendarNext]_calendarVars => CalendarInv'
  <1> SUFFICES ASSUME CalendarInv, [CalendarNext]_calendarVars PROVE CalendarInv'
    OBVIOUS
  <1>1. ASSUME NEW e \in Events, NEW start \in Moments, NEW end \in Ends, CreateEvent(e, start, end)
        PROVE  CalendarInv'
    <2> DEFINE row == [state |-> "active", start |-> start, end |-> end]
    <2>1. row \in EventRows /\ row.start = start /\ row.end = end
      BY DEF EventRows
    <2>2. /\ ValidTimes(row.start, row.end) /\ event' = [event EXCEPT ![e] = row]
          /\ recorded' = [recorded EXCEPT ![e] = Snapshot(row)] /\ UNCHANGED editor
      BY <1>1, <2>1 DEF CreateEvent
    <2> HIDE DEF row
    <2>3. /\ event' \in [Events -> EventRows] /\ recorded' \in [Events -> Snapshots]
          /\ EndsAfterStart' /\ AuditDescribesRow'
      BY <2>1, <2>2, RowWritten
    <2> QED
      BY <2>2, <2>3 DEF CalendarInv, CalendarTypeOK, UpdatesChecked
  <1>2. ASSUME NEW q \in Editors, EditorNext(q) PROVE CalendarInv'
    <2>1. ASSUME NEW e \in Events, NEW start \in Moments \cup {Unsent},
                 NEW end \in Ends \cup {Unsent}, BeginUpdate(q, e, start, end)
          PROVE  CalendarInv'
      <3> DEFINE newStart == Resolved(start, event[e].start)
                 newEnd == Resolved(end, event[e].end)
                 job == [op |-> "update", on |-> e, start |-> newStart, end |-> newEnd]
      <3>1. event[e] \in EventRows
        BY DEF CalendarInv, CalendarTypeOK
      <3>2. newStart \in Moments /\ newEnd \in Ends
        BY <3>1 DEF EventRows, Resolved
      <3>3. Begin(q, job) /\ ValidTimes(newStart, newEnd)
        BY <2>1 DEF BeginUpdate
      <3> HIDE DEF newStart, newEnd
      <3>4. job \in EditorJobs
        BY <3>2 DEF EditorJobs
      <3>5. job.op = "update" => ValidTimes(job.start, job.end)
        BY <3>3
      <3> HIDE DEF job
      <3> QED
        BY <3>3, <3>4, <3>5, EditorBegun
    <2>2. CASE CommitUpdate(q)
      <3> DEFINE job == editor[q]
                 row == [event[job.on] EXCEPT !.start = job.start, !.end = job.end]
      <3>1. job \in EditorJobs /\ job.op = "update"
        BY <2>2 DEF CalendarInv, CalendarTypeOK, CommitUpdate
      <3>2. job.on \in Events /\ job.start \in Moments /\ job.end \in Ends
        BY <3>1 DEF EditorJobs, Idle
      <3>3. row \in EventRows /\ row.start = job.start /\ row.end = job.end
        BY <3>2 DEF CalendarInv, CalendarTypeOK, EventRows
      <3>4. ValidTimes(row.start, row.end)
        BY <3>1, <3>3 DEF CalendarInv, UpdatesChecked
      <3>5. /\ event' = [event EXCEPT ![job.on] = row]
            /\ recorded' = [recorded EXCEPT ![job.on] = Snapshot(row)] /\ Finish(q)
        BY <2>2 DEF CommitUpdate
      <3> HIDE DEF row
      <3>6. /\ event' \in [Events -> EventRows] /\ recorded' \in [Events -> Snapshots]
            /\ EndsAfterStart' /\ AuditDescribesRow'
        BY <3>2, <3>3, <3>4, <3>5, RowWritten
      <3>7. editor' \in [Editors -> EditorJobs] /\ UpdatesChecked'
        BY <3>5, EditorFinished
      <3> QED
        BY <3>6, <3>7 DEF CalendarInv, CalendarTypeOK
    <2>3. ASSUME NEW e \in Events, BeginArchive(q, e) \/ BeginReactivate(q, e)
          PROVE  CalendarInv'
      <3>1. PICK op \in {"archive", "reactivate"} : Begin(q, [op |-> op, on |-> e])
        BY <2>3 DEF BeginArchive, BeginReactivate
      <3> DEFINE job == [op |-> op, on |-> e]
      <3>2. job \in EditorJobs /\ job.op # "update"
        BY DEF EditorJobs
      <3> HIDE DEF job
      <3>3. Begin(q, job)
        BY <3>1 DEF job
      <3> QED
        BY <3>2, <3>3, EditorBegun
    <2>4. CASE CommitArchive(q) \/ CommitReactivate(q)
      <3>1. editor[q] \in EditorJobs /\ editor[q].op \in {"archive", "reactivate"}
        BY <2>4 DEF CalendarInv, CalendarTypeOK, CommitArchive, CommitReactivate
      <3>2. editor[q].on \in Events
        BY <3>1 DEF EditorJobs, Idle
      <3>3. PICK state \in {"active", "archived"} :
              event' = [event EXCEPT ![editor[q].on].state = state]
        BY <2>4 DEF CommitArchive, CommitReactivate
      <3>4. UNCHANGED recorded /\ Finish(q)
        BY <2>4 DEF CommitArchive, CommitReactivate
      <3>5. /\ event' \in [Events -> EventRows] /\ recorded' \in [Events -> Snapshots]
            /\ EndsAfterStart' /\ AuditDescribesRow'
        BY <3>2, <3>3, <3>4, StateWritten
      <3>6. editor' \in [Editors -> EditorJobs] /\ UpdatesChecked'
        BY <3>4, EditorFinished
      <3> QED
        BY <3>5, <3>6 DEF CalendarInv, CalendarTypeOK
    <2>5. CASE AbandonEdit(q)
      <3>1. editor' \in [Editors -> EditorJobs] /\ UpdatesChecked'
        BY <2>5, EditorFinished DEF AbandonEdit
      <3> QED
        BY <2>5, <3>1 DEF AbandonEdit, CalendarInv, CalendarTypeOK, EndsAfterStart,
                          AuditDescribesRow
    <2> QED
      BY <1>2, <2>1, <2>2, <2>3, <2>4, <2>5 DEF EditorNext
  <1>3. CASE UNCHANGED calendarVars
    BY <1>3 DEF calendarVars, CalendarInv, CalendarTypeOK, EndsAfterStart, AuditDescribesRow,
                UpdatesChecked
  <1> QED
    BY <1>1, <1>2, <1>3 DEF CalendarNext

(* The invariant holds in every state: from it follow the theorems below. *)
THEOREM CalendarInvariant == CalendarSpec => []CalendarInv
  BY CalendarInitOK, CalendarStep, PTL DEF CalendarSpec

(* The tables and the requests in flight have their types. *)
THEOREM CalendarTypes == CalendarSpec => []CalendarTypeOK
  <1>1. CalendarInv => CalendarTypeOK
    BY DEF CalendarInv
  <1> QED
    BY <1>1, CalendarInvariant, PTL

(* No overlap of edits leaves an event that ends before it starts. *)
THEOREM EventsEndAfterStart == CalendarSpec => []EndsAfterStart
  <1>1. CalendarInv => EndsAfterStart
    BY DEF CalendarInv
  <1> QED
    BY <1>1, CalendarInvariant, PTL

(* The audit log and the calendar agree about every event. *)
THEOREM AuditAlwaysDescribes == CalendarSpec => []AuditDescribesRow
  <1>1. CalendarInv => AuditDescribesRow
    BY DEF CalendarInv
  <1> QED
    BY <1>1, CalendarInvariant, PTL

-----------------------------------------------------------------------------
(* Listings.  A day is the moments from its first to its last, which is    *)
(* what the two boundaries of findAll stand for.                           *)
LEMMA DayBounds ==
  ASSUME NEW m \in Nat, NEW day \in Nat, NEW length \in Nat \ {0}
  PROVE  /\ m \div length <= day <=> m <= day * length + (length - 1)
         /\ day <= m \div length <=> day * length <= m
  <1> DEFINE q == m \div length
             r == m % length
  <1>1. q \in Int /\ r \in 0..(length - 1) /\ m = length * q + r
    BY Z3
  <1> HIDE DEF q, r
  <1>2. q <= day => length * q <= length * day
    BY <1>1, Z3
  <1>3. q >= day + 1 => length * q >= length * (day + 1)
    BY <1>1, Z3
  <1>4. q >= day => length * q >= length * day
    BY <1>1, Z3
  <1>5. q + 1 <= day => length * (q + 1) <= length * day
    BY <1>1, Z3
  <1>6. /\ length * (day + 1) = day * length + length /\ length * day = day * length
        /\ length * (q + 1) = length * q + length
    BY <1>1, Z3
  <1> QED
    BY <1>1, <1>2, <1>3, <1>4, <1>5, <1>6 DEF q

\* A moment on the scale of a bound: its day, or itself.
OnScale(moment, b) == IF b.kind = "day" THEN moment \div DayLength ELSE moment

InRange(moment, from, to) ==
  /\ from.kind # "none" => from.at <= OnScale(moment, from)
  /\ to.kind # "none" => OnScale(moment, to) <= to.at

LEMMA BoundTypes ==
  ASSUME NEW b \in Bounds
  PROVE  /\ b.kind \in {"none", "day", "moment"} /\ b.at \in Nat
         /\ Boundary(b, TRUE) \in Nat /\ Boundary(b, FALSE) \in Nat
  <1>1. DayLength \in Nat \ {0} /\ Horizon \in Nat
    BY CalendarAssumption
  <1>2. b.kind \in {"none", "day", "moment"} /\ b.at \in Nat
    BY <1>1 DEF Bounds, NoBound, Days, Moments
  <1>3. b.at * DayLength \in Nat
    BY <1>1, <1>2
  <1> QED
    BY <1>1, <1>2, <1>3 DEF Boundary

LEMMA InRangeOfMoments ==
  ASSUME NEW m \in Nat, NEW from \in Bounds, NEW to \in Bounds
  PROVE  InRange(m, from, to) <=>
           /\ from.kind # "none" => Boundary(from, FALSE) <= m
           /\ to.kind # "none" => m <= Boundary(to, TRUE)
  <1>1. DayLength \in Nat \ {0}
    BY CalendarAssumption
  <1>2. from.kind # "none" => (from.at <= OnScale(m, from) <=> Boundary(from, FALSE) <= m)
    <2>1. CASE from.kind = "day"
      <3>1. from.at \in Nat
        BY BoundTypes
      <3>2. from.at * DayLength + 0 = from.at * DayLength
        BY <1>1, <3>1, Z3
      <3> QED
        BY <1>1, <2>1, <3>1, <3>2, DayBounds DEF OnScale, Boundary
    <2>2. CASE from.kind = "moment"
      BY <2>2, BoundTypes DEF OnScale, Boundary
    <2> QED BY <2>1, <2>2, BoundTypes
  <1>3. to.kind # "none" => (OnScale(m, to) <= to.at <=> m <= Boundary(to, TRUE))
    <2>1. CASE to.kind = "day"
      BY <1>1, <2>1, BoundTypes, DayBounds DEF OnScale, Boundary
    <2>2. CASE to.kind = "moment"
      BY <2>2, BoundTypes DEF OnScale, Boundary
    <2> QED BY <2>1, <2>2, BoundTypes
  <1> QED
    BY <1>2, <1>3 DEF InRange

(* The WHERE clause finds an event exactly when one of its moments is in a *)
(* range that is not refused.                                              *)
LEMMA MatchesOverlap ==
  ASSUME NEW row \in EventRows, ValidTimes(row.start, row.end),
         NEW from \in Bounds, NEW to \in Bounds, ~Refused(from, to)
  PROVE  Matches(row, from, to) <=>
           \E m \in row.start..(IF row.end = Open THEN row.start ELSE row.end) : InRange(m, from, to)
  <1> DEFINE until == IF row.end = Open THEN row.start ELSE row.end
             first == Boundary(from, FALSE)
             last == Boundary(to, TRUE)
  <1>1. row.start \in Nat /\ until \in Nat /\ row.start <= until
    BY CalendarAssumption DEF EventRows, Ends, Moments, ValidTimes
  <1>2. first \in Nat /\ last \in Nat
    BY BoundTypes
  <1>3. Matches(row, from, to) <=>
          (to.kind # "none" => row.start <= last) /\ (from.kind # "none" => until >= first)
    BY DEF Matches
  <1>4. \A m \in Nat : InRange(m, from, to) <=>
          (from.kind # "none" => first <= m) /\ (to.kind # "none" => m <= last)
    BY InRangeOfMoments
  <1>5. ~(from.kind # "none" /\ to.kind # "none" /\ first > last)
    BY DEF Refused
  <1> HIDE DEF until, first, last
  <1>6. from.kind # "none" /\ to.kind # "none" => first <= last
    BY <1>2, <1>5
  <1>7. ASSUME NEW m \in row.start..until, InRange(m, from, to) PROVE Matches(row, from, to)
    <2>1. m \in Nat /\ row.start <= m /\ m <= until
      BY <1>1, <1>7
    <2> QED
      BY <1>1, <1>2, <1>3, <1>4, <1>7, <2>1
  <1>8. ASSUME Matches(row, from, to) PROVE \E m \in row.start..until : InRange(m, from, to)
    <2>1. CASE from.kind # "none" /\ row.start < first
      <3>1. first \in row.start..until /\ InRange(first, from, to)
        BY <1>1, <1>2, <1>3, <1>6, <1>4, <1>8, <2>1
      <3> QED BY <3>1
    <2>2. CASE ~(from.kind # "none" /\ row.start < first)
      <3>1. row.start \in row.start..until /\ InRange(row.start, from, to)
        BY <1>1, <1>2, <1>3, <1>4, <1>8, <2>2
      <3> QED BY <3>1
    <2> QED BY <2>1, <2>2
  <1> QED
    BY <1>7, <1>8 DEF until

(* A listing has exactly the events that last into its range. *)
THEOREM ListingsFindOverlaps == CalendarSpec => []ListingFindsOverlaps
  <1>1. CalendarInv => ListingFindsOverlaps
    <2> SUFFICES ASSUME CalendarInv, NEW from \in Bounds, NEW to \in Bounds, ~Refused(from, to)
                 PROVE
          LET Lasts(e) ==
                event[e].start..(IF event[e].end = Open THEN event[e].start ELSE event[e].end)
              Overlapping == {e \in Events : \E moment \in Lasts(e) : InRange(moment, from, to)}
          IN  /\ Listed(TRUE, from, to) = {e \in Overlapping : event[e].state # "none"}
              /\ Listed(FALSE, from, to) = {e \in Overlapping : event[e].state = "active"}
      BY DEF ListingFindsOverlaps, InRange, OnScale
    <2>1. \A e \in Events :
            /\ Matches(event[e], from, to) <=>
                 \E m \in event[e].start..(IF event[e].end = Open THEN event[e].start
                                                                 ELSE event[e].end) :
                   InRange(m, from, to)
            /\ event[e].state \in {"none", "active", "archived"}
      <3>1. \A e \in Events : event[e] \in EventRows /\ ValidTimes(event[e].start, event[e].end)
        BY DEF CalendarInv, CalendarTypeOK, EndsAfterStart
      <3> QED
        BY <3>1, MatchesOverlap DEF EventRows
    <2> QED
      BY <2>1 DEF Listed
  <1> QED
    BY <1>1, CalendarInvariant, PTL
=============================================================================
