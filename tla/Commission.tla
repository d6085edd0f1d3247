------------------------------- MODULE Commission ------------------------------
(***************************************************************************)
(* One application for a notarial commission and its summary hearing:      *)
(* EnpCommissionApplicationsService's scheduleSummaryHearing, grant and    *)
(* deny, and CommissionHearingsService's room, recording, oppositions and  *)
(* the appointment that carries the lobby's checks.                        *)
(*                                                                         *)
(* Requests overlap at every await, and stop at any statement.  The dates, *)
(* instructions, names and the applicant's documents are left out.  The    *)
(* fee of the hearing and the joins are HearingFee.                        *)
(***************************************************************************)
EXTENDS Naturals, FiniteSets

CONSTANTS
    Requests,     \* concurrent calls of administrators, parties and oppositors
    Staff,        \* administrators who may review the application
    MaxAppts,     \* bound on verification appointments
    MaxEgress,    \* bound on recordings
    MaxOppositions

ASSUME CommissionAssumption ==
    MaxAppts \in Nat /\ MaxEgress \in Nat /\ MaxOppositions \in Nat

VARIABLES
    app,          \* the enp_commission_applications row
    room,         \* the commission_hearing_rooms row; its application_id is unique
    appts,        \* status of each appointments row of kind commission_hearing
    commissions,  \* enp_commissions rows; application_id is unique
    recording,    \* LiveKit egresses that run
    started,      \* how many were started
    oppositions,  \* commission_hearing_oppositions rows
    job,          \* what each request is doing
    crowded,      \* history: two requests overlapped
    crashed,      \* history: a request was cut off
    misreported   \* history: a recording was reported that is not so

vars == <<app, room, appts, commissions, recording, started, oppositions, job, crowded, crashed,
          misreported>>

applicationVars == <<app, commissions>>
roomVars == <<room, appts>>
recordingVars == <<recording, started>>
history == <<crowded, crashed, misreported>>

Final == {"approved", "rejected"}
Closed == {"ended", "cancelled"}
ApptIds == 1..MaxAppts
EgressIds == 1..MaxEgress
Unknown == MaxEgress + 1     \* an id that LiveKit never gave
StoredIds == 0..Unknown
OppositionIds == 1..MaxOppositions

NoRoom == [status |-> "absent", ena |-> "nobody", egress |-> 0, filed |-> FALSE, ended |-> FALSE]
NoOpposition == [status |-> "absent", inRoom |-> FALSE]
Idle == [at |-> "idle"]

Jobs ==
    {Idle}
    \cup [at : {"find_room", "insert_room", "insert_appt", "update_room", "schedule"}, by : Staff]
    \cup [at : {"link_appt"}, by : Staff, appt : ApptIds]
    \cup [at : {"record", "open", "stop", "end"}, egress : StoredIds, filed : BOOLEAN]
    \cup [at : {"ensure"}, then : {"update_room", "opened", "ended", "done"},
          status : {"scheduled", "in_session", "ended"}, by : Staff]
    \cup [at : {"link"}, then : {"update_room", "opened", "ended", "done"}, by : Staff, appt : ApptIds]
    \cup [at : {"opened", "ended"}, appt : ApptIds]
    \cup [at : {"hearing", "grant", "deny", "room_status"}]
    \cup [at : {"oppose"}, inRoom : BOOLEAN]

TypeOK ==
    /\ app \in [status : {"submitted", "hearing_scheduled"} \cup Final, room : BOOLEAN, appt : 0..MaxAppts]
    /\ room \in [status : {"absent", "scheduled", "in_session", "ended"}, ena : Staff \cup {"nobody"},
                 egress : StoredIds, filed : BOOLEAN, ended : BOOLEAN]
    /\ appts \in [ApptIds -> {"absent", "confirmed", "in_session", "ended"}]
    /\ commissions \in Nat
    /\ started \in 0..MaxEgress /\ recording \subseteq 1..started
    /\ oppositions \in [OppositionIds -> [status : {"absent", "filed", "answered"}, inRoom : BOOLEAN]]
    /\ job \in [Requests -> Jobs]
    /\ crowded \in BOOLEAN /\ crashed \in BOOLEAN /\ misreported \in BOOLEAN

Init ==
    /\ app = [status |-> "submitted", room |-> FALSE, appt |-> 0]
    /\ room = NoRoom
    /\ appts = [a \in ApptIds |-> "absent"]
    /\ commissions = 0
    /\ recording = {} /\ started = 0
    /\ oppositions = [o \in OppositionIds |-> NoOpposition]
    /\ job = [h \in Requests |-> Idle]
    /\ crowded = FALSE /\ crashed = FALSE /\ misreported = FALSE

Busy(h) == job[h] # Idle

Arrive(h, j) ==
    /\ ~Busy(h)
    /\ job' = [job EXCEPT ![h] = j]
    /\ crowded' = (crowded \/ \E g \in Requests \ {h} : Busy(g))
    /\ UNCHANGED <<applicationVars, roomVars, recordingVars, oppositions, crashed, misreported>>

Goto(h, j) == job' = [job EXCEPT ![h] = j] /\ UNCHANGED history

\* getRoomForEna
OwnRoom(s) == room.status # "absent" /\ room.ena = s

-----------------------------------------------------------------------------
(* ensureVerificationAppointmentForRoom, within a request that read the room *)

Ensure(then, status, by) == [at |-> "ensure", then |-> then, status |-> status, by |-> by]

Ensured(j, appt) ==
    CASE j.then = "done" -> Idle
      [] j.then = "update_room" -> [at |-> "update_room", by |-> j.by]
      [] j.then \in {"opened", "ended"} -> [at |-> j.then, appt |-> appt]

NextAppt(a) == appts[a] = "absent" /\ \A b \in 1..(a - 1) : appts[b] # "absent"

ApptStatus(status) == IF status = "scheduled" THEN "confirmed" ELSE status

FindAppt(h) ==
    /\ job[h].at = "ensure"
    /\ app.appt # 0
    /\ Goto(h, Ensured(job[h], app.appt))
    /\ UNCHANGED <<applicationVars, roomVars, recordingVars, oppositions>>

InsertMissingAppt(h) ==
    /\ job[h].at = "ensure"
    /\ app.appt = 0
    /\ \E a \in ApptIds :
          /\ NextAppt(a)
          /\ appts' = [appts EXCEPT ![a] = ApptStatus(job[h].status)]
          /\ Goto(h, [at |-> "link", then |-> job[h].then, by |-> job[h].by, appt |-> a])
    /\ UNCHANGED <<applicationVars, room, recordingVars, oppositions>>

LinkMissingAppt(h) ==
    /\ job[h].at = "link"
    /\ app' = [app EXCEPT !.appt = job[h].appt]
    /\ Goto(h, Ensured(job[h], job[h].appt))
    /\ UNCHANGED <<commissions, roomVars, recordingVars, oppositions>>

\* Every endpoint that shows the hearing ensures the appointment.
ShowHearing(h, s) ==
    /\ room.status # "absent"
    /\ Arrive(h, Ensure("done", room.status, s))

-----------------------------------------------------------------------------
(* scheduleSummaryHearing, with createRoomForApplication *)

CheckSchedule(h, s) ==
    /\ app.status \notin Final
    /\ Arrive(h, [at |-> "find_room", by |-> s])

FindRoom(h) ==
    /\ job[h].at = "find_room"
    /\ Goto(h, IF room.status = "absent" THEN [job[h] EXCEPT !.at = "insert_room"]
                                         ELSE Ensure("update_room", room.status, job[h].by))
    /\ UNCHANGED <<applicationVars, roomVars, recordingVars, oppositions>>

\* The unique index refuses a second room.
InsertRoom(h) ==
    /\ job[h].at = "insert_room"
    /\ IF room.status = "absent"
       THEN /\ room' = [NoRoom EXCEPT !.status = "scheduled", !.ena = job[h].by]
            /\ Goto(h, [job[h] EXCEPT !.at = "insert_appt"])
       ELSE Goto(h, Idle) /\ UNCHANGED room
    /\ UNCHANGED <<applicationVars, appts, recordingVars, oppositions>>

InsertAppt(h) ==
    /\ job[h].at = "insert_appt"
    /\ \E a \in ApptIds :
          /\ NextAppt(a)
          /\ appts' = [appts EXCEPT ![a] = "confirmed"]
          /\ Goto(h, [at |-> "link_appt", by |-> job[h].by, appt |-> a])
    /\ UNCHANGED <<applicationVars, room, recordingVars, oppositions>>

LinkAppt(h) ==
    /\ job[h].at = "link_appt"
    /\ app' = [app EXCEPT !.appt = job[h].appt]
    /\ Goto(h, [at |-> "schedule", by |-> job[h].by])
    /\ UNCHANGED <<commissions, roomVars, recordingVars, oppositions>>

\* A new date moves the room to its scheduler; an ended room stays ended.
UpdateRoom(h) ==
    /\ job[h].at = "update_room"
    /\ room' = [room EXCEPT !.ena = job[h].by]
    /\ Goto(h, [at |-> "schedule", by |-> job[h].by])
    /\ UNCHANGED <<applicationVars, appts, recordingVars, oppositions>>

\* UPDATE by id, whatever the application has become.
WriteSchedule(h) ==
    /\ job[h].at = "schedule"
    /\ app' = [app EXCEPT !.status = "hearing_scheduled", !.room = TRUE]
    /\ Goto(h, Idle)
    /\ UNCHANGED <<commissions, roomVars, recordingVars, oppositions>>

-----------------------------------------------------------------------------
(* openSession and endSession *)

Snapshot(at) == [at |-> at, egress |-> room.egress, filed |-> room.filed]

CheckOpen(h, s) ==
    /\ OwnRoom(s) /\ room.status \notin Closed
    /\ Arrive(h, Snapshot(IF room.egress = 0 THEN "record" ELSE "open"))

\* Egress is not configured, or LiveKit starts one; when it throws the request aborts.
StartRecording(h) ==
    /\ job[h].at = "record"
    /\ \/ Goto(h, [job[h] EXCEPT !.at = "open"]) /\ UNCHANGED recordingVars
       \/ /\ started < MaxEgress
          /\ started' = started + 1
          /\ recording' = recording \cup {started + 1}
          /\ Goto(h, [job[h] EXCEPT !.at = "open", !.egress = started + 1])
    /\ UNCHANGED <<applicationVars, roomVars, oppositions>>

\* Mutant: the egress that was started is not stored.
WriteOpen_Forgets(h) ==
    /\ job[h].at = "open"
    /\ room' = [room EXCEPT !.status = "in_session"]
    /\ Goto(h, Ensure("opened", "in_session", room.ena))
    /\ UNCHANGED <<applicationVars, appts, recordingVars, oppositions>>

\* UPDATE by id, whatever the room has become.
WriteOpen(h) ==
    /\ job[h].at = "open"
    /\ room' = [room EXCEPT !.status = "in_session", !.egress = job[h].egress]
    /\ Goto(h, Ensure("opened", "in_session", room.ena))
    /\ UNCHANGED <<applicationVars, appts, recordingVars, oppositions>>

\* It may end a hearing that was never opened, or end it twice.
CheckEnd(h, s) ==
    /\ OwnRoom(s)
    /\ Arrive(h, Snapshot(IF room.egress # 0 /\ ~room.filed THEN "stop" ELSE "end"))

\* stopEgress throws for an egress that does not run, and the request aborts.  Its answer
\* may name no file.
StopRecording(h) ==
    /\ job[h].at = "stop"
    /\ job[h].egress \in recording
    /\ recording' = recording \ {job[h].egress}
    /\ \E filed \in BOOLEAN : Goto(h, [job[h] EXCEPT !.at = "end", !.filed = filed])
    /\ UNCHANGED <<applicationVars, roomVars, started, oppositions>>

WriteEnd(h) ==
    /\ job[h].at = "end"
    /\ room' = [room EXCEPT !.status = "ended", !.ended = TRUE, !.filed = job[h].filed]
    /\ Goto(h, Ensure("ended", "ended", room.ena))
    /\ UNCHANGED <<applicationVars, appts, recordingVars, oppositions>>

\* The last write of both.
WriteAppt(h) ==
    /\ job[h].at \in {"opened", "ended"}
    /\ appts' = [appts EXCEPT ![job[h].appt] = IF job[h].at = "opened" THEN "in_session" ELSE "ended"]
    /\ Goto(h, Idle)
    /\ UNCHANGED <<applicationVars, room, recordingVars, oppositions>>

\* LiveKit ends the egress of a room that everyone has left.
EgressEnds ==
    /\ \E e \in recording : recording' = recording \ {e}
    /\ UNCHANGED <<applicationVars, roomVars, started, oppositions, job, history>>

\* recordingStarted writes the id that it is sent, running or not.
RecordingStarted(s) ==
    /\ OwnRoom(s)
    /\ \E e \in (1..started) \cup {Unknown} :
          /\ room' = [room EXCEPT !.egress = e]
          /\ misreported' = (misreported \/ e \notin recording)
    /\ UNCHANGED <<applicationVars, appts, recordingVars, oppositions, job, crowded, crashed>>

\* recordingStopped writes the file that it is sent, whether the egress has ended or still runs.
RecordingStopped(s) ==
    /\ OwnRoom(s)
    /\ room' = [room EXCEPT !.filed = TRUE]
    /\ misreported' = (misreported \/ room.egress \notin (1..started) \ recording)
    /\ UNCHANGED <<applicationVars, appts, recordingVars, oppositions, job, crowded, crashed>>

-----------------------------------------------------------------------------
(* grant and deny *)

\* Mutant: a hearing that is scheduled is enough.
ReadHearing_Scheduled(h) ==
    /\ job[h].at = "hearing"
    /\ Goto(h, IF room.status # "absent" THEN [at |-> "grant"] ELSE Idle)
    /\ UNCHANGED <<applicationVars, roomVars, recordingVars, oppositions>>

CheckGrant(h) ==
    /\ app.status \notin Final /\ app.room
    /\ Arrive(h, [at |-> "hearing"])

ReadHearing(h) ==
    /\ job[h].at = "hearing"
    /\ Goto(h, IF room.status = "ended" THEN [at |-> "grant"] ELSE Idle)
    /\ UNCHANGED <<applicationVars, roomVars, recordingVars, oppositions>>

\* One transaction; the unique index of enp_commissions rolls a second one back.
WriteGrant(h) ==
    /\ job[h].at = "grant"
    /\ IF commissions = 0
       THEN commissions' = 1 /\ app' = [app EXCEPT !.status = "approved"]
       ELSE UNCHANGED applicationVars
    /\ Goto(h, Idle)
    /\ UNCHANGED <<roomVars, recordingVars, oppositions>>

\* Mutant: a final decision is not looked for.
CheckDeny_Final(h) == Arrive(h, [at |-> "deny"])

CheckDeny(h) ==
    /\ app.status \notin Final
    /\ Arrive(h, [at |-> "deny"])

\* UPDATE by id, whatever the application has become.
WriteDeny(h) ==
    /\ job[h].at = "deny"
    /\ app' = [app EXCEPT !.status = "rejected"]
    /\ Goto(h, Idle)
    /\ UNCHANGED <<commissions, roomVars, recordingVars, oppositions>>

-----------------------------------------------------------------------------
(* Oppositions *)

\* fileOpposition; without a linked room it is filed for the application alone.
CheckOpposition(h) ==
    Arrive(h, IF app.room THEN [at |-> "room_status"] ELSE [at |-> "oppose", inRoom |-> FALSE])

ReadRoomStatus(h) ==
    /\ job[h].at = "room_status"
    /\ Goto(h, IF room.status \in Closed THEN Idle ELSE [at |-> "oppose", inRoom |-> TRUE])
    /\ UNCHANGED <<applicationVars, roomVars, recordingVars, oppositions>>

InsertOpposition(h) ==
    /\ job[h].at = "oppose"
    /\ \E o \in OppositionIds :
          /\ oppositions[o].status = "absent"
          /\ \A p \in 1..(o - 1) : oppositions[p].status # "absent"
          /\ oppositions' = [oppositions EXCEPT ![o] = [status |-> "filed", inRoom |-> job[h].inRoom]]
    /\ Goto(h, Idle)
    /\ UNCHANGED <<applicationVars, roomVars, recordingVars>>

\* forwardOpposition, grantOppositorAccess and decideOpposition, as often as they are called:
\* none asks for the opposition's status.  One of the application alone has no room to be
\* answered in.
AnswerOpposition(s, o) ==
    /\ OwnRoom(s) /\ oppositions[o].inRoom
    /\ oppositions' = [oppositions EXCEPT ![o].status = "answered"]
    /\ UNCHANGED <<applicationVars, roomVars, recordingVars, job, history>>

-----------------------------------------------------------------------------

\* The replica stops, or a statement or LiveKit throws.
Abort(h) ==
    /\ Busy(h)
    /\ job' = [job EXCEPT ![h] = Idle]
    /\ crashed' = TRUE
    /\ UNCHANGED <<applicationVars, roomVars, recordingVars, oppositions, crowded, misreported>>

Advance(h) ==
    \/ FindAppt(h) \/ InsertMissingAppt(h) \/ LinkMissingAppt(h)
    \/ FindRoom(h) \/ InsertRoom(h) \/ InsertAppt(h) \/ LinkAppt(h) \/ UpdateRoom(h) \/ WriteSchedule(h)
    \/ StartRecording(h) \/ WriteOpen(h) \/ StopRecording(h) \/ WriteEnd(h) \/ WriteAppt(h)
    \/ ReadHearing(h) \/ WriteGrant(h) \/ WriteDeny(h)
    \/ ReadRoomStatus(h) \/ InsertOpposition(h)

Call(h) ==
    \/ \E s \in Staff : CheckSchedule(h, s) \/ ShowHearing(h, s) \/ CheckOpen(h, s) \/ CheckEnd(h, s)
    \/ CheckGrant(h) \/ CheckDeny(h) \/ CheckOpposition(h)

Next ==
    \/ \E h \in Requests : Call(h) \/ Advance(h) \/ Abort(h)
    \/ \E s \in Staff, o \in OppositionIds : AnswerOpposition(s, o)
    \/ EgressEnds
    \/ \E s \in Staff : RecordingStarted(s) \/ RecordingStopped(s)

Spec == Init /\ [][Next]_vars

-----------------------------------------------------------------------------
(* Properties *)

\* Whatever overlaps and crashes, an application has one commission, issued by a grant
\* that found the hearing ended; and it is approved only with one.
CommissionedAfterHearing ==
    /\ commissions <= 1
    /\ commissions = 1 => room.ended
    /\ app.status = "approved" => commissions = 1

\* Unless requests overlap or crash, the lobby's appointment shows between requests the
\* state of the hearing.  Unless a report is false as well (recordingStarted of an egress
\* that does not run, recordingStopped while it runs or before there is one), a recording
\* that runs is named by the hearing's row, or about to be, and an ended hearing is no
\* longer recorded: after a false report endSession may stop nothing.
HearingIsTracked ==
    ~crowded /\ ~crashed =>
        /\ room.status # "absent" /\ (\A h \in Requests : ~Busy(h)) =>
              app.appt # 0 /\ appts[app.appt] = ApptStatus(room.status)
        /\ ~misreported =>
              /\ \A e \in recording :
                    room.egress = e \/ \E h \in Requests : job[h].at = "open" /\ job[h].egress = e
              /\ room.status = "ended" /\ (\A h \in Requests : ~Busy(h)) => recording = {}

\* The abstract promise of one decision, which says nothing once requests have overlapped.
Decision == INSTANCE CommissionDecision WITH
    decision <- CASE app.status = "approved" -> "granted"
                  [] app.status = "rejected" -> "denied"
                  [] OTHER -> "open",
    commissioned <- commissions > 0,
    heard <- room.ended,
    overlapped <- crowded

KeepsDecision == Decision!Spec
=============================================================================
