--------------------------- MODULE CommissionProofs ---------------------------
(***************************************************************************)
(* For any requests, staff, recordings and oppositions, with every overlap *)
(* and crash: an application has one commission, after its hearing.  As    *)
(* long as no two requests overlap it has one decision (Commission         *)
(* implements CommissionDecision), and unless a request is cut off the     *)
(* hearing's rows follow the hearing; its recording does so as long as no  *)
(* report of it is false.                                                  *)
(***************************************************************************)
EXTENDS Commission, TLAPS

USE CommissionAssumption

DataOK ==
    /\ app \in [status : {"submitted", "hearing_scheduled"} \cup Final, room : BOOLEAN,
                appt : 0..MaxAppts]
    /\ room \in [status : {"absent", "scheduled", "in_session", "ended"},
                 ena : Staff \cup {"nobody"},
                 egress : StoredIds, filed : BOOLEAN, ended : BOOLEAN]
    /\ appts \in [ApptIds -> {"absent", "confirmed", "in_session", "ended"}]
    /\ commissions \in Nat
    /\ started \in 0..MaxEgress /\ recording \subseteq 1..started
    /\ oppositions \in [OppositionIds -> [status : {"absent", "filed", "answered"},
                                          inRoom : BOOLEAN]]

\* A room that exists has someone who holds the hearing, and a hearing that is over
\* was ended.
RoomInv ==
    /\ room.status # "absent" => room.ena \in Staff
    /\ room.ended => room.status # "absent"
    /\ room.status = "ended" => room.ended

\* A grant under way found the hearing ended, and a session under way found a room.
JobOK(j) ==
    /\ j.at = "grant" => room.ended
    /\ j.at \in {"record", "open", "stop", "end"} => room.status # "absent"

JobInv == \A h \in Requests : JobOK(job[h])

IInv ==
    /\ DataOK /\ job \in [Requests -> Jobs]
    /\ RoomInv /\ JobInv /\ CommissionedAfterHearing

-----------------------------------------------------------------------------
(* The shapes of jobs *)

\* What a request remembers at each stage.
LEMMA JobKinds ==
    ASSUME NEW j \in Jobs
    PROVE  /\ j.at \in {"find_room", "insert_room", "insert_appt", "update_room", "schedule"} =>
                 j.by \in Staff /\ j = [at |-> j.at, by |-> j.by]
           /\ j.at = "link_appt" => j.by \in Staff /\ j.appt \in ApptIds
           /\ j.at \in {"record", "open", "stop", "end"} =>
                 /\ j.egress \in StoredIds /\ j.filed \in BOOLEAN
                 /\ j = [at |-> j.at, egress |-> j.egress, filed |-> j.filed]
           /\ j.at \in {"ensure", "link"} =>
                 j.then \in {"update_room", "opened", "ended", "done"} /\ j.by \in Staff
           /\ j.at = "ensure" => j.status \in {"scheduled", "in_session", "ended"}
           /\ j.at \in {"link", "opened", "ended"} => j.appt \in ApptIds
           /\ j.at = "oppose" => j.inRoom \in BOOLEAN
  BY DEF Jobs, Idle

\* The idle job.
LEMMA IdleKind == Idle \in Jobs /\ Idle.at = "idle" /\ JobOK(Idle)
  BY DEF Idle, Jobs, JobOK

\* The jobs that remember who asked.
LEMMA StaffJobs ==
    ASSUME NEW s \in Staff,
           NEW at \in {"find_room", "insert_room", "insert_appt", "update_room", "schedule"}
    PROVE  [at |-> at, by |-> s] \in Jobs
  BY DEF Jobs

\* The jobs of a session.
LEMMA SessionJobs ==
    ASSUME NEW at \in {"record", "open", "stop", "end"}, NEW e \in StoredIds,
           NEW filed \in BOOLEAN
    PROVE  [at |-> at, egress |-> e, filed |-> filed] \in Jobs
  BY DEF Jobs

\* A request that ensures the appointment.
LEMMA EnsureType ==
    ASSUME NEW then \in {"update_room", "opened", "ended", "done"},
           NEW status \in {"scheduled", "in_session", "ended"}, NEW s \in Staff
    PROVE  /\ Ensure(then, status, s) \in Jobs /\ Ensure(then, status, s).at = "ensure"
           /\ Ensure(then, status, s).then = then /\ Ensure(then, status, s).status = status
           /\ Ensure(then, status, s).by = s
  BY DEF Ensure, Jobs

\* ... goes on to what it was about.
LEMMA EnsuredType ==
    ASSUME NEW j \in Jobs, j.at \in {"ensure", "link"}, NEW appt \in ApptIds
    PROVE  /\ Ensured(j, appt) \in Jobs
           /\ j.then = "done" => Ensured(j, appt) = Idle
           /\ j.then = "update_room" => Ensured(j, appt).at = "update_room"
           /\ j.then \in {"opened", "ended"} =>
                 Ensured(j, appt).at = j.then /\ Ensured(j, appt).appt = appt
<1>1. j.then \in {"update_room", "opened", "ended", "done"} /\ j.by \in Staff
  BY JobKinds
<1>2. CASE j.then = "done"
  BY <1>2, IdleKind DEF Ensured
<1>3. CASE j.then = "update_room"
  BY <1>1, <1>3, StaffJobs DEF Ensured
<1>4. CASE j.then \in {"opened", "ended"}
  <2>1. Ensured(j, appt) = [at |-> j.then, appt |-> appt]
    BY <1>4 DEF Ensured
  <2> QED
    BY <1>4, <2>1 DEF Jobs
<1> QED
  BY <1>1, <1>2, <1>3, <1>4

\* Moving one request on replaces its job by another of the right type.
LEMMA JobMoved ==
    ASSUME job \in [Requests -> Jobs], NEW h \in Requests, NEW j \in Jobs,
           job' = [job EXCEPT ![h] = j]
    PROVE  /\ job' \in [Requests -> Jobs]
           /\ job'[h] = j
           /\ \A g \in Requests : g # h => job'[g] = job[g]
  OBVIOUS

\* The initial states satisfy the invariant.
LEMMA InitIInv == Init => IInv
<1> SUFFICES ASSUME Init PROVE IInv
  OBVIOUS
<1>1. DataOK
  BY DEF Init, DataOK, Final, NoRoom, NoOpposition, ApptIds, StoredIds, Unknown
<1>2. job \in [Requests -> Jobs] /\ JobInv
  BY IdleKind DEF Init, JobInv, JobOK
<1>3. RoomInv /\ CommissionedAfterHearing
  BY DEF Init, RoomInv, NoRoom, CommissionedAfterHearing
<1> QED
  BY <1>1, <1>2, <1>3 DEF IInv

\* A request has a job of its stage's shape.
LEMMA JobAt ==
    ASSUME IInv, NEW h \in Requests
    PROVE  job[h] \in Jobs /\ JobOK(job[h])
  BY DEF IInv, JobInv

-----------------------------------------------------------------------------
(* What the actions have in common *)

\* A step that writes rows of the right types and ends no hearing's end.
LEMMA StepKeeps ==
    ASSUME IInv, NEW h \in Requests, NEW j \in Jobs, job' = [job EXCEPT ![h] = j],
           DataOK', RoomInv', CommissionedAfterHearing',
           room.ended => room'.ended, room.status # "absent" => room'.status # "absent",
           j.at = "grant" => room'.ended,
           j.at \in {"record", "open", "stop", "end"} => room'.status # "absent"
    PROVE  IInv'
<1>1. job' \in [Requests -> Jobs] /\ \A g \in Requests : job'[g] = IF g = h THEN j ELSE job[g]
  BY JobMoved DEF IInv
<1>2. JobInv'
  BY <1>1 DEF IInv, JobInv, JobOK
<1> QED
  BY <1>1, <1>2 DEF IInv

\* A step that only moves one request on.
LEMMA MoveKeeps ==
    ASSUME IInv, NEW h \in Requests, NEW j \in Jobs, job' = [job EXCEPT ![h] = j], JobOK(j),
           UNCHANGED <<app, room, appts, commissions, started, recording, oppositions>>
    PROVE  IInv'
<1>1. DataOK' /\ RoomInv' /\ CommissionedAfterHearing'
  BY DEF IInv, DataOK, RoomInv, CommissionedAfterHearing
<1> QED
  BY <1>1, StepKeeps DEF JobOK

\* The arrival of a request, whatever it read.
LEMMA ArriveKeeps ==
    ASSUME IInv, NEW h \in Requests, NEW j \in Jobs, Arrive(h, j), JobOK(j)
    PROVE  IInv'
  BY MoveKeeps DEF Arrive, applicationVars, roomVars, recordingVars

\* Each group of rows keeps its type when the step leaves it alone.
LEMMA RowsKept ==
    ASSUME IInv
    PROVE  /\ UNCHANGED <<app, commissions, room>> => CommissionedAfterHearing'
           /\ UNCHANGED room => RoomInv'
  BY DEF IInv, CommissionedAfterHearing, RoomInv

-----------------------------------------------------------------------------
(* Each action keeps the invariant *)

\* The arrivals of requests.
LEMMA CallKeeps ==
    ASSUME IInv, NEW h \in Requests, Call(h)
    PROVE  IInv'
<1>0. /\ DataOK /\ RoomInv
  BY DEF IInv
<1>1. ASSUME NEW s \in Staff, CheckSchedule(h, s) PROVE IInv'
  <2>1. [at |-> "find_room", by |-> s] \in Jobs /\ JobOK([at |-> "find_room", by |-> s])
    BY StaffJobs DEF JobOK
  <2> QED
    BY <1>1, <2>1, ArriveKeeps DEF CheckSchedule
<1>2. ASSUME NEW s \in Staff, ShowHearing(h, s) PROVE IInv'
  <2> DEFINE j == Ensure("done", room.status, s)
  <2>1. room.status \in {"scheduled", "in_session", "ended"}
    BY <1>0, <1>2 DEF ShowHearing, DataOK
  <2>2. j \in Jobs /\ j.at = "ensure"
    BY <2>1, EnsureType
  <2>3. JobOK(j) /\ Arrive(h, j)
    BY <1>2, <2>2 DEF ShowHearing, JobOK
  <2> HIDE DEF j
  <2> QED
    BY <2>2, <2>3, ArriveKeeps
<1>3. ASSUME NEW s \in Staff, CheckOpen(h, s) PROVE IInv'
  <2> DEFINE j == Snapshot(IF room.egress = 0 THEN "record" ELSE "open")
  <2>1. j \in Jobs /\ j.at \in {"record", "open"}
    BY <1>0, SessionJobs DEF Snapshot, DataOK
  <2>2. JobOK(j) /\ Arrive(h, j)
    BY <1>3, <2>1 DEF CheckOpen, OwnRoom, JobOK
  <2> HIDE DEF j
  <2> QED
    BY <2>1, <2>2, ArriveKeeps
<1>4. ASSUME NEW s \in Staff, CheckEnd(h, s) PROVE IInv'
  <2> DEFINE j == Snapshot(IF room.egress # 0 /\ ~room.filed THEN "stop" ELSE "end")
  <2>1. j \in Jobs /\ j.at \in {"stop", "end"}
    BY <1>0, SessionJobs DEF Snapshot, DataOK
  <2>2. JobOK(j) /\ Arrive(h, j)
    BY <1>4, <2>1 DEF CheckEnd, OwnRoom, JobOK
  <2> HIDE DEF j
  <2> QED
    BY <2>1, <2>2, ArriveKeeps
<1>5. CASE CheckGrant(h) \/ CheckDeny(h)
  <2>1. \A at \in {"hearing", "deny"} : [at |-> at] \in Jobs /\ JobOK([at |-> at])
    BY DEF Jobs, JobOK
  <2> QED
    BY <1>5, <2>1, ArriveKeeps DEF CheckGrant, CheckDeny
<1>6. CASE CheckOpposition(h)
  <2> DEFINE j == IF app.room THEN [at |-> "room_status"] ELSE [at |-> "oppose", inRoom |-> FALSE]
  <2>1. j \in Jobs /\ JobOK(j)
    BY DEF Jobs, JobOK
  <2>2. Arrive(h, j)
    BY <1>6 DEF CheckOpposition
  <2> HIDE DEF j
  <2> QED
    BY <2>1, <2>2, ArriveKeeps
<1> QED
  BY <1>1, <1>2, <1>3, <1>4, <1>5, <1>6 DEF Call

\* The statements that only read, and a crash.
LEMMA ReadKeeps ==
    ASSUME IInv, NEW h \in Requests,
           FindAppt(h) \/ FindRoom(h) \/ ReadHearing(h) \/ ReadRoomStatus(h) \/ Abort(h)
    PROVE  IInv'
<1> USE DEF applicationVars, roomVars, recordingVars
<1>0. DataOK /\ RoomInv
  BY DEF IInv
<1>1. CASE FindAppt(h)
  <2> DEFINE j == Ensured(job[h], app.appt)
  <2>1. app.appt \in ApptIds /\ job[h].at = "ensure"
    BY <1>0, <1>1 DEF FindAppt, DataOK, ApptIds
  <2>2. j \in Jobs /\ j.at \in {"idle", "update_room", "opened", "ended"}
    BY <2>1, JobAt, JobKinds, EnsuredType, IdleKind
  <2>3. JobOK(j) /\ job' = [job EXCEPT ![h] = j]
    BY <1>1, <2>2 DEF FindAppt, Goto, JobOK
  <2> HIDE DEF j
  <2> QED
    BY <1>1, <2>2, <2>3, MoveKeeps DEF FindAppt
<1>2. CASE FindRoom(h)
  <2> DEFINE j == IF room.status = "absent" THEN [job[h] EXCEPT !.at = "insert_room"]
                                            ELSE Ensure("update_room", room.status, job[h].by)
  <2>1. job[h].by \in Staff /\ job[h] = [at |-> "find_room", by |-> job[h].by]
    BY <1>2, JobAt, JobKinds DEF FindRoom
  <2>2. CASE room.status = "absent"
    <3>1. j = [at |-> "insert_room", by |-> job[h].by]
      BY <2>1, <2>2
    <3> HIDE DEF j
    <3>2. j \in Jobs /\ JobOK(j)
      BY <2>1, <3>1, StaffJobs DEF JobOK
    <3>3. job' = [job EXCEPT ![h] = j]
      BY <1>2 DEF FindRoom, Goto, j
    <3> QED
      BY <1>2, <3>2, <3>3, MoveKeeps DEF FindRoom
  <2>3. CASE room.status # "absent"
    <3> DEFINE k == Ensure("update_room", room.status, job[h].by)
    <3>1. k \in Jobs /\ k.at = "ensure"
      BY <1>0, <2>1, <2>3, EnsureType DEF DataOK
    <3>2. JobOK(k) /\ job' = [job EXCEPT ![h] = k]
      BY <1>2, <2>3, <3>1 DEF FindRoom, Goto, JobOK
    <3> HIDE DEF k
    <3> QED
      BY <1>2, <3>1, <3>2, MoveKeeps DEF FindRoom
  <2> QED
    BY <2>2, <2>3
<1>3. CASE ReadHearing(h)
  <2> DEFINE j == IF room.status = "ended" THEN [at |-> "grant"] ELSE Idle
  <2>1. j \in Jobs /\ JobOK(j)
    BY <1>0, IdleKind DEF Jobs, JobOK, RoomInv
  <2>2. job' = [job EXCEPT ![h] = j]
    BY <1>3 DEF ReadHearing, Goto
  <2> HIDE DEF j
  <2> QED
    BY <1>3, <2>1, <2>2, MoveKeeps DEF ReadHearing
<1>4. CASE ReadRoomStatus(h)
  <2> DEFINE j == IF room.status \in Closed THEN Idle ELSE [at |-> "oppose", inRoom |-> TRUE]
  <2>1. j \in Jobs /\ JobOK(j)
    BY IdleKind DEF Jobs, JobOK
  <2>2. job' = [job EXCEPT ![h] = j]
    BY <1>4 DEF ReadRoomStatus, Goto
  <2> HIDE DEF j
  <2> QED
    BY <1>4, <2>1, <2>2, MoveKeeps DEF ReadRoomStatus
<1>5. CASE Abort(h)
  BY <1>5, IdleKind, MoveKeeps DEF Abort
<1> QED
  BY <1>1, <1>2, <1>3, <1>4, <1>5

\* The appointment is inserted, linked, and follows the session.
LEMMA ApptKeeps ==
    ASSUME IInv, NEW h \in Requests,
           \/ InsertMissingAppt(h) \/ LinkMissingAppt(h) \/ InsertAppt(h) \/ LinkAppt(h)
           \/ WriteAppt(h)
    PROVE  IInv'
<1> USE DEF applicationVars, roomVars, recordingVars
<1>0. DataOK /\ RoomInv /\ CommissionedAfterHearing /\ job[h] \in Jobs
  BY JobAt DEF IInv
<1>1. ASSUME UNCHANGED <<app, commissions, room, started, recording, oppositions>>,
             appts' \in [ApptIds -> {"absent", "confirmed", "in_session", "ended"}],
             NEW j \in Jobs, job' = [job EXCEPT ![h] = j],
             j.at \notin {"grant", "record", "open", "stop", "end"}
      PROVE  IInv'
  <2>1. DataOK'
    BY <1>0, <1>1 DEF DataOK
  <2> QED
    BY <1>1, <2>1, RowsKept, StepKeeps
<1>2. ASSUME UNCHANGED <<commissions, room, appts, started, recording, oppositions>>,
             NEW a \in ApptIds, app' = [app EXCEPT !.appt = a],
             NEW j \in Jobs, job' = [job EXCEPT ![h] = j],
             j.at \notin {"grant", "record", "open", "stop", "end"}
      PROVE  IInv'
  <2>1. DataOK'
    <3>1. app \in [status : {"submitted", "hearing_scheduled"} \cup Final, room : BOOLEAN,
                   appt : 0..MaxAppts] /\ a \in 0..MaxAppts
      BY <1>0 DEF DataOK, ApptIds
    <3>2. app' \in [status : {"submitted", "hearing_scheduled"} \cup Final, room : BOOLEAN,
                    appt : 0..MaxAppts]
      BY <1>2, <3>1
    <3> QED
      BY <1>0, <1>2, <3>2 DEF DataOK
  <2>2. CommissionedAfterHearing'
    BY <1>0, <1>2 DEF DataOK, CommissionedAfterHearing
  <2> QED
    BY <1>2, <2>1, <2>2, RowsKept, StepKeeps
<1>3. CASE InsertMissingAppt(h)
  <2>1. PICK a \in ApptIds :
          /\ appts' = [appts EXCEPT ![a] = ApptStatus(job[h].status)]
          /\ Goto(h, [at |-> "link", then |-> job[h].then, by |-> job[h].by, appt |-> a])
    BY <1>3 DEF InsertMissingAppt
  <2>2. ApptStatus(job[h].status) \in {"confirmed", "in_session", "ended"}
    BY <1>0, <1>3, JobKinds DEF InsertMissingAppt, ApptStatus
  <2> DEFINE j == [at |-> "link", then |-> job[h].then, by |-> job[h].by, appt |-> a]
  <2>3. j \in Jobs /\ j.at = "link"
    BY <1>0, <1>3, JobKinds DEF InsertMissingAppt, Jobs
  <2>4. job' = [job EXCEPT ![h] = j]
    BY <2>1 DEF Goto
  <2> HIDE DEF j
  <2>5. appts' \in [ApptIds -> {"absent", "confirmed", "in_session", "ended"}]
    BY <1>0, <2>1, <2>2 DEF DataOK
  <2> QED
    BY <1>1, <1>3, <2>3, <2>4, <2>5 DEF InsertMissingAppt
<1>4. CASE LinkMissingAppt(h)
  <2> DEFINE j == Ensured(job[h], job[h].appt)
  <2>1. job[h].appt \in ApptIds /\ job[h].at = "link"
    BY <1>0, <1>4, JobKinds DEF LinkMissingAppt
  <2>2. j \in Jobs /\ j.at \in {"idle", "update_room", "opened", "ended"}
    BY <1>0, <2>1, JobKinds, EnsuredType, IdleKind
  <2>3. job' = [job EXCEPT ![h] = j]
    BY <1>4 DEF LinkMissingAppt, Goto
  <2> HIDE DEF j
  <2> QED
    BY <1>2, <1>4, <2>1, <2>2, <2>3 DEF LinkMissingAppt
<1>5. CASE InsertAppt(h)
  <2>1. PICK a \in ApptIds :
          /\ appts' = [appts EXCEPT ![a] = "confirmed"]
          /\ Goto(h, [at |-> "link_appt", by |-> job[h].by, appt |-> a])
    BY <1>5 DEF InsertAppt
  <2> DEFINE j == [at |-> "link_appt", by |-> job[h].by, appt |-> a]
  <2>2. j \in Jobs /\ j.at = "link_appt"
    BY <1>0, <1>5, JobKinds DEF InsertAppt, Jobs
  <2>3. job' = [job EXCEPT ![h] = j]
    BY <2>1 DEF Goto
  <2> HIDE DEF j
  <2>4. appts' \in [ApptIds -> {"absent", "confirmed", "in_session", "ended"}]
    BY <1>0, <2>1 DEF DataOK
  <2> QED
    BY <1>1, <1>5, <2>2, <2>3, <2>4 DEF InsertAppt
<1>6. CASE LinkAppt(h)
  <2> DEFINE j == [at |-> "schedule", by |-> job[h].by]
  <2>1. job[h].appt \in ApptIds /\ j \in Jobs /\ j.at = "schedule"
    BY <1>0, <1>6, JobKinds, StaffJobs DEF LinkAppt
  <2>2. job' = [job EXCEPT ![h] = j]
    BY <1>6 DEF LinkAppt, Goto
  <2> HIDE DEF j
  <2> QED
    BY <1>2, <1>6, <2>1, <2>2 DEF LinkAppt
<1>7. CASE WriteAppt(h)
  <2>1. appts' \in [ApptIds -> {"absent", "confirmed", "in_session", "ended"}]
    BY <1>0, <1>7 DEF WriteAppt, DataOK
  <2> QED
    BY <1>1, <1>7, <2>1, IdleKind DEF WriteAppt, Goto
<1> QED
  BY <1>3, <1>4, <1>5, <1>6, <1>7

\* The decision and the schedule write the application, and one grant the commission.
LEMMA ApplicationKeeps ==
    ASSUME IInv, NEW h \in Requests, WriteSchedule(h) \/ WriteGrant(h) \/ WriteDeny(h)
    PROVE  IInv'
<1> USE DEF applicationVars, roomVars, recordingVars
<1>0. /\ DataOK /\ RoomInv /\ CommissionedAfterHearing /\ JobOK(job[h])
      /\ app \in [status : {"submitted", "hearing_scheduled"} \cup Final, room : BOOLEAN,
                  appt : 0..MaxAppts]
  BY JobAt DEF IInv, DataOK
<1>1. UNCHANGED <<room, appts, started, recording, oppositions>> /\ job' = [job EXCEPT ![h] = Idle]
  BY DEF WriteSchedule, WriteGrant, WriteDeny, Goto
<1>2. ASSUME app' \in [status : {"submitted", "hearing_scheduled"} \cup Final, room : BOOLEAN,
                       appt : 0..MaxAppts],
             commissions' \in Nat, CommissionedAfterHearing'
      PROVE  IInv'
  <2>1. DataOK'
    BY <1>0, <1>1, <1>2 DEF DataOK
  <2> QED
    BY <1>1, <1>2, <2>1, RowsKept, IdleKind, StepKeeps
<1>3. CASE WriteSchedule(h)
  <2>1. /\ app' \in [status : {"submitted", "hearing_scheduled"} \cup Final, room : BOOLEAN,
                     appt : 0..MaxAppts]
        /\ app'.status = "hearing_scheduled"
    BY <1>0, <1>3 DEF WriteSchedule
  <2> QED
    BY <1>0, <1>1, <1>2, <1>3, <2>1 DEF WriteSchedule, CommissionedAfterHearing, DataOK
<1>4. CASE WriteGrant(h)
  <2>1. CASE commissions = 0
    <3>1. /\ app' \in [status : {"submitted", "hearing_scheduled"} \cup Final, room : BOOLEAN,
                       appt : 0..MaxAppts]
          /\ commissions' = 1
      BY <1>0, <1>4, <2>1 DEF WriteGrant, Final
    <3> QED
      BY <1>0, <1>1, <1>2, <1>4, <3>1 DEF WriteGrant, CommissionedAfterHearing, JobOK
  <2>2. CASE commissions # 0
    BY <1>0, <1>1, <1>2, <1>4, <2>2 DEF WriteGrant, CommissionedAfterHearing, DataOK
  <2> QED
    BY <2>1, <2>2
<1>5. CASE WriteDeny(h)
  <2>1. /\ app' \in [status : {"submitted", "hearing_scheduled"} \cup Final, room : BOOLEAN,
                     appt : 0..MaxAppts]
        /\ app'.status = "rejected"
    BY <1>0, <1>5 DEF WriteDeny, Final
  <2> QED
    BY <1>0, <1>1, <1>2, <1>5, <2>1 DEF WriteDeny, CommissionedAfterHearing, DataOK
<1> QED
  BY <1>3, <1>4, <1>5

\* The room is made, moves to a scheduler, opens and ends.
LEMMA RoomKeeps ==
    ASSUME IInv, NEW h \in Requests,
           InsertRoom(h) \/ UpdateRoom(h) \/ WriteOpen(h) \/ WriteEnd(h)
    PROVE  IInv'
<1> USE DEF applicationVars, roomVars, recordingVars
<1> DEFINE Rooms == [status : {"absent", "scheduled", "in_session", "ended"},
                     ena : Staff \cup {"nobody"},
                     egress : StoredIds, filed : BOOLEAN, ended : BOOLEAN]
<1>0. /\ DataOK /\ RoomInv /\ CommissionedAfterHearing /\ JobOK(job[h]) /\ job[h] \in Jobs
      /\ room \in Rooms
  BY JobAt DEF IInv, DataOK
<1>1. UNCHANGED <<app, commissions, appts, started, recording, oppositions>>
  BY DEF InsertRoom, UpdateRoom, WriteOpen, WriteEnd
<1>2. ASSUME room' \in Rooms, RoomInv', room.ended => room'.ended,
             room.status # "absent" => room'.status # "absent",
             NEW j \in Jobs, job' = [job EXCEPT ![h] = j],
             j.at \notin {"grant", "record", "open", "stop", "end"}
      PROVE  IInv'
  <2>1. DataOK'
    BY <1>0, <1>1, <1>2 DEF DataOK
  <2>2. CommissionedAfterHearing'
    BY <1>0, <1>1, <1>2 DEF CommissionedAfterHearing
  <2> QED
    BY <1>2, <2>1, <2>2, StepKeeps
<1>3. CASE InsertRoom(h)
  <2>1. job[h].by \in Staff /\ job[h] = [at |-> "insert_room", by |-> job[h].by]
    BY <1>0, <1>3, JobKinds DEF InsertRoom
  <2>2. CASE room.status = "absent"
    <3> DEFINE j == [job[h] EXCEPT !.at = "insert_appt"]
    <3>1. j = [at |-> "insert_appt", by |-> job[h].by]
      BY <2>1
    <3>2. job' = [job EXCEPT ![h] = j]
      BY <1>3, <2>2 DEF InsertRoom, Goto
    <3> HIDE DEF j
    <3>3. j \in Jobs /\ j.at = "insert_appt"
      BY <2>1, <3>1, StaffJobs
    <3>4. /\ room' = [NoRoom EXCEPT !.status = "scheduled", !.ena = job[h].by]
      BY <1>3, <2>2 DEF InsertRoom
    <3>5. room' = [status |-> "scheduled", ena |-> job[h].by, egress |-> 0, filed |-> FALSE,
                   ended |-> FALSE]
      BY <3>4 DEF NoRoom
    <3>6. room' \in Rooms /\ RoomInv' /\ ~room.ended
      BY <1>0, <2>1, <2>2, <3>5 DEF RoomInv, StoredIds, Unknown
    <3> QED
      BY <1>2, <2>2, <3>2, <3>3, <3>6
  <2>3. CASE room.status # "absent"
    BY <1>0, <1>2, <1>3, <2>3, IdleKind, RowsKept DEF InsertRoom, Goto
  <2> QED
    BY <2>2, <2>3
<1>4. CASE UpdateRoom(h)
  <2> DEFINE j == [at |-> "schedule", by |-> job[h].by]
  <2>1. job[h].by \in Staff /\ j \in Jobs /\ j.at = "schedule"
    BY <1>0, <1>4, JobKinds, StaffJobs DEF UpdateRoom
  <2>2. job' = [job EXCEPT ![h] = j] /\ room' = [room EXCEPT !.ena = job[h].by]
    BY <1>4 DEF UpdateRoom, Goto
  <2> HIDE DEF j
  <2>3. /\ room' \in Rooms /\ room'.ena = job[h].by /\ room'.status = room.status
        /\ room'.ended = room.ended
    BY <1>0, <2>1, <2>2
  <2>4. RoomInv'
    BY <1>0, <2>1, <2>3 DEF RoomInv
  <2> QED
    BY <1>2, <2>1, <2>2, <2>3, <2>4
<1>5. CASE WriteOpen(h)
  <2> DEFINE j == Ensure("opened", "in_session", room.ena)
  <2>1. room.ena \in Staff /\ room.status # "absent" /\ job[h].egress \in StoredIds
    BY <1>0, <1>5, JobKinds DEF WriteOpen, JobOK, RoomInv
  <2>2. j \in Jobs /\ j.at = "ensure"
    BY <2>1, EnsureType
  <2>3. /\ job' = [job EXCEPT ![h] = j]
        /\ room' = [room EXCEPT !.status = "in_session", !.egress = job[h].egress]
    BY <1>5 DEF WriteOpen, Goto
  <2> HIDE DEF j
  <2>4. room' = [status |-> "in_session", ena |-> room.ena, egress |-> job[h].egress,
                 filed |-> room.filed, ended |-> room.ended]
    BY <1>0, <2>3
  <2>5. room' \in Rooms /\ RoomInv' /\ room'.status = "in_session" /\ room'.ended = room.ended
    BY <1>0, <2>1, <2>4 DEF RoomInv
  <2> QED
    BY <1>2, <2>2, <2>3, <2>5
<1>6. CASE WriteEnd(h)
  <2> DEFINE j == Ensure("ended", "ended", room.ena)
  <2>1. room.ena \in Staff /\ room.status # "absent" /\ job[h].filed \in BOOLEAN
    BY <1>0, <1>6, JobKinds DEF WriteEnd, JobOK, RoomInv
  <2>2. j \in Jobs /\ j.at = "ensure"
    BY <2>1, EnsureType
  <2>3. /\ job' = [job EXCEPT ![h] = j]
        /\ room' = [room EXCEPT !.status = "ended", !.ended = TRUE, !.filed = job[h].filed]
    BY <1>6 DEF WriteEnd, Goto
  <2> HIDE DEF j
  <2>4. room' = [status |-> "ended", ena |-> room.ena, egress |-> room.egress,
                 filed |-> job[h].filed, ended |-> TRUE]
    BY <1>0, <2>3
  <2>5. room' \in Rooms /\ RoomInv' /\ room'.status = "ended" /\ room'.ended = TRUE
    BY <1>0, <2>1, <2>4 DEF RoomInv
  <2> QED
    BY <1>2, <2>2, <2>3, <2>5
<1> QED
  BY <1>3, <1>4, <1>5, <1>6

\* Recordings start and stop, and oppositions are filed.
LEMMA RecordingKeeps ==
    ASSUME IInv, NEW h \in Requests, StartRecording(h) \/ StopRecording(h) \/ InsertOpposition(h)
    PROVE  IInv'
<1> USE DEF applicationVars, roomVars, recordingVars
<1>0. /\ DataOK /\ RoomInv /\ CommissionedAfterHearing /\ JobOK(job[h]) /\ job[h] \in Jobs
  BY JobAt DEF IInv
<1>1. UNCHANGED <<app, commissions, appts, room>>
  BY DEF StartRecording, StopRecording, InsertOpposition
<1>2. ASSUME started' \in 0..MaxEgress, recording' \subseteq 1..started',
             oppositions' \in [OppositionIds -> [status : {"absent", "filed", "answered"},
                                                 inRoom : BOOLEAN]],
             NEW j \in Jobs, job' = [job EXCEPT ![h] = j], JobOK(j)
      PROVE  IInv'
  <2>1. DataOK'
    BY <1>0, <1>1, <1>2 DEF DataOK
  <2> QED
    BY <1>1, <1>2, <2>1, RowsKept, StepKeeps DEF JobOK
<1>3. CASE StartRecording(h)
  <2>1. /\ job[h].egress \in StoredIds /\ job[h].filed \in BOOLEAN
        /\ job[h] = [at |-> "record", egress |-> job[h].egress, filed |-> job[h].filed]
        /\ room.status # "absent" /\ oppositions' = oppositions
    BY <1>0, <1>3, JobKinds DEF StartRecording, JobOK
  <2>2. CASE UNCHANGED recordingVars
    <3>1. PICK e \in StoredIds : job' = [job EXCEPT ![h] = [at |-> "open", egress |-> e,
                                                                filed |-> job[h].filed]]
      <4>1. CASE Goto(h, [job[h] EXCEPT !.at = "open"])
        <5>1. [job[h] EXCEPT !.at = "open"] =
                 [at |-> "open", egress |-> job[h].egress, filed |-> job[h].filed]
          BY <2>1
        <5> QED
          BY <2>1, <4>1, <5>1, Zenon DEF Goto
      <4>2. CASE started' = started + 1
        BY <1>0, <2>2, <4>2 DEF DataOK
      <4> QED
        BY <1>3, <4>1, <4>2 DEF StartRecording
    <3> DEFINE j == [at |-> "open", egress |-> e, filed |-> job[h].filed]
    <3>2. j \in Jobs /\ JobOK(j)
      BY <2>1, SessionJobs DEF JobOK
    <3> QED
      BY <1>0, <1>2, <2>1, <2>2, <3>1, <3>2 DEF DataOK
  <2>3. CASE /\ started < MaxEgress /\ started' = started + 1
             /\ recording' = recording \cup {started + 1}
             /\ Goto(h, [job[h] EXCEPT !.at = "open", !.egress = started + 1])
    <3> DEFINE j == [at |-> "open", egress |-> started + 1, filed |-> job[h].filed]
    <3>1. [job[h] EXCEPT !.at = "open", !.egress = started + 1] = j
      <4> DEFINE k == [job[h] EXCEPT !.at = "open"]
      <4>1. k = [at |-> "open", egress |-> job[h].egress, filed |-> job[h].filed]
        BY <2>1
      <4> HIDE DEF k
      <4>2. [k EXCEPT !.egress = started + 1] = j
        BY <4>1
      <4> QED
        BY <4>2 DEF k
    <3>2. started + 1 \in StoredIds /\ started' \in 0..MaxEgress
      BY <1>0, <2>3 DEF DataOK, StoredIds, Unknown
    <3>3. j \in Jobs /\ JobOK(j)
      BY <2>1, <3>2, SessionJobs DEF JobOK
    <3>4. job' = [job EXCEPT ![h] = j]
      BY <2>3, <3>1, Zenon DEF Goto
    <3>5. recording' \subseteq 1..started'
      BY <1>0, <2>3 DEF DataOK
    <3> HIDE DEF j
    <3> QED
      BY <1>0, <1>2, <2>1, <3>2, <3>3, <3>4, <3>5 DEF DataOK
  <2> QED
    BY <1>3, <2>2, <2>3 DEF StartRecording
<1>4. CASE StopRecording(h)
  <2>1. /\ job[h].egress \in StoredIds
        /\ job[h] = [at |-> "stop", egress |-> job[h].egress, filed |-> job[h].filed]
        /\ room.status # "absent"
    BY <1>0, <1>4, JobKinds DEF StopRecording, JobOK
  <2>2. PICK filed \in BOOLEAN : Goto(h, [job[h] EXCEPT !.at = "end", !.filed = filed])
    BY <1>4 DEF StopRecording
  <2> DEFINE j == [at |-> "end", egress |-> job[h].egress, filed |-> filed]
  <2>3. [job[h] EXCEPT !.at = "end", !.filed = filed] = j
    <3> DEFINE k == [job[h] EXCEPT !.at = "end"]
    <3>1. k = [at |-> "end", egress |-> job[h].egress, filed |-> job[h].filed]
      BY <2>1
    <3> HIDE DEF k
    <3>2. [k EXCEPT !.filed = filed] = j
      BY <3>1
    <3> QED
      BY <3>2 DEF k
  <2>4. job' = [job EXCEPT ![h] = j]
    BY <2>2, <2>3, Zenon DEF Goto
  <2>5. j \in Jobs /\ JobOK(j)
    BY <2>1, SessionJobs DEF JobOK
  <2> HIDE DEF j
  <2>6. started' \in 0..MaxEgress /\ recording' \subseteq 1..started' /\ oppositions' = oppositions
    BY <1>0, <1>4 DEF StopRecording, DataOK
  <2> QED
    BY <1>0, <1>2, <2>4, <2>5, <2>6 DEF DataOK
<1>5. CASE InsertOpposition(h)
  <2>1. job[h].inRoom \in BOOLEAN
    BY <1>0, <1>5, JobKinds DEF InsertOpposition
  <2>2. PICK o \in OppositionIds :
          oppositions' = [oppositions EXCEPT ![o] = [status |-> "filed", inRoom |-> job[h].inRoom]]
    BY <1>5 DEF InsertOpposition
  <2>3. oppositions' \in [OppositionIds -> [status : {"absent", "filed", "answered"},
                                            inRoom : BOOLEAN]]
    BY <1>0, <2>1, <2>2 DEF DataOK
  <2>4. started' \in 0..MaxEgress /\ recording' \subseteq 1..started'
    BY <1>0, <1>5 DEF InsertOpposition, DataOK
  <2> QED
    BY <1>2, <1>5, <2>3, <2>4, IdleKind DEF InsertOpposition, Goto
<1> QED
  BY <1>3, <1>4, <1>5

\* What happens without a request: the egress ends, LiveKit's notes, the answers.
OtherStep ==
    \/ \E s \in Staff, o \in OppositionIds : AnswerOpposition(s, o)
    \/ EgressEnds
    \/ \E s \in Staff : RecordingStarted(s) \/ RecordingStopped(s)

\* Such a step keeps the requests, the application and the hearing's status.
LEMMA OtherSteps ==
    ASSUME IInv, OtherStep
    PROVE  /\ DataOK'
           /\ UNCHANGED <<app, appts, commissions, started, job, crowded, crashed>>
           /\ room'.status = room.status /\ room'.ena = room.ena /\ room'.ended = room.ended
<1> USE DEF applicationVars, roomVars, recordingVars, history
<1>0. /\ DataOK
      /\ room \in [status : {"absent", "scheduled", "in_session", "ended"},
                   ena : Staff \cup {"nobody"},
                   egress : StoredIds, filed : BOOLEAN, ended : BOOLEAN]
  BY DEF IInv, DataOK
<1>1. ASSUME NEW s \in Staff, NEW o \in OppositionIds, AnswerOpposition(s, o)
      PROVE  DataOK' /\ UNCHANGED <<app, appts, commissions, started, job, room, crowded, crashed>>
  <2>1. oppositions' \in [OppositionIds -> [status : {"absent", "filed", "answered"},
                                            inRoom : BOOLEAN]]
    BY <1>0, <1>1 DEF AnswerOpposition, DataOK
  <2> QED
    BY <1>0, <1>1, <2>1 DEF AnswerOpposition, DataOK
<1>2. CASE EgressEnds
  BY <1>0, <1>2 DEF EgressEnds, DataOK
<1>3. ASSUME NEW s \in Staff, RecordingStarted(s)
      PROVE  /\ DataOK' /\ UNCHANGED <<app, appts, commissions, started, job, crowded, crashed>>
             /\ room'.status = room.status /\ room'.ena = room.ena /\ room'.ended = room.ended
  <2>1. PICK e \in (1..started) \cup {Unknown} : room' = [room EXCEPT !.egress = e]
    BY <1>3 DEF RecordingStarted
  <2>2. e \in StoredIds
    BY <1>0 DEF DataOK, StoredIds, Unknown
  <2>3. room' = [status |-> room.status, ena |-> room.ena, egress |-> e, filed |-> room.filed,
                 ended |-> room.ended]
    BY <1>0, <2>1
  <2> QED
    BY <1>0, <1>3, <2>2, <2>3 DEF RecordingStarted, DataOK
<1>4. ASSUME NEW s \in Staff, RecordingStopped(s)
      PROVE  /\ DataOK' /\ UNCHANGED <<app, appts, commissions, started, job, crowded, crashed>>
             /\ room'.status = room.status /\ room'.ena = room.ena /\ room'.ended = room.ended
  <2>1. room' = [status |-> room.status, ena |-> room.ena, egress |-> room.egress,
                 filed |-> TRUE, ended |-> room.ended]
    BY <1>0, <1>4 DEF RecordingStopped
  <2> QED
    BY <1>0, <1>4, <2>1 DEF RecordingStopped, DataOK
<1> QED
  BY <1>1, <1>2, <1>3, <1>4 DEF OtherStep

\* Every step keeps the invariant.
LEMMA NextKeeps == IInv /\ [Next]_vars => IInv'
<1> SUFFICES ASSUME IInv, [Next]_vars PROVE IInv'
  OBVIOUS
<1>1. CASE OtherStep
  BY <1>1, OtherSteps DEF IInv, RoomInv, JobInv, JobOK, CommissionedAfterHearing
<1>2. ASSUME NEW h \in Requests, Call(h) \/ Advance(h) \/ Abort(h) PROVE IInv'
  <2>1. CASE Call(h)
    BY <2>1, CallKeeps
  <2>2. CASE FindAppt(h) \/ FindRoom(h) \/ ReadHearing(h) \/ ReadRoomStatus(h) \/ Abort(h)
    BY <2>2, ReadKeeps
  <2>3. CASE \/ InsertMissingAppt(h) \/ LinkMissingAppt(h) \/ InsertAppt(h) \/ LinkAppt(h)
             \/ WriteAppt(h)
    BY <2>3, ApptKeeps
  <2>4. CASE WriteSchedule(h) \/ WriteGrant(h) \/ WriteDeny(h)
    BY <2>4, ApplicationKeeps
  <2>5. CASE InsertRoom(h) \/ UpdateRoom(h) \/ WriteOpen(h) \/ WriteEnd(h)
    BY <2>5, RoomKeeps
  <2>6. CASE StartRecording(h) \/ StopRecording(h) \/ InsertOpposition(h)
    BY <2>6, RecordingKeeps
  <2> QED
    BY <1>2, <2>1, <2>2, <2>3, <2>4, <2>5, <2>6, Zenon DEF Advance
<1>3. CASE UNCHANGED vars
  BY <1>3 DEF vars, IInv, DataOK, RoomInv, JobInv, JobOK, CommissionedAfterHearing
<1> QED
  BY <1>1, <1>2, <1>3, Zenon DEF Next, OtherStep

\* The invariant holds for ever.
LEMMA Invariance == Spec => []IInv
  BY InitIInv, NextKeeps, PTL DEF Spec

\* Whatever overlaps and crashes, an application has one commission, issued by a grant
\* that found the hearing ended (grant), and it is approved only with one.
THEOREM Commissioned == Spec => []CommissionedAfterHearing
<1>1. IInv => CommissionedAfterHearing
  BY DEF IInv
<1> QED
  BY <1>1, Invariance, PTL

FlagsOK == crowded \in BOOLEAN /\ crashed \in BOOLEAN /\ misreported \in BOOLEAN

\* The history flags are flags.
LEMMA FlagsKept == IInv /\ FlagsOK /\ [Next]_vars => FlagsOK'
<1> SUFFICES ASSUME [Next]_vars, IInv, FlagsOK PROVE FlagsOK'
  OBVIOUS
<1>1. ASSUME UNCHANGED <<crowded, crashed, misreported>> PROVE FlagsOK'
  BY <1>1, Zenon DEF FlagsOK
<1>2. CASE UNCHANGED vars
  BY <1>1, <1>2, Zenon DEF vars
<1>3. CASE OtherStep
  <2>1. UNCHANGED <<crowded, crashed>>
    BY <1>3, OtherSteps
  <2>2. misreported' \in BOOLEAN
    BY <1>3, Zenon
    DEF OtherStep, AnswerOpposition, EgressEnds, RecordingStarted, RecordingStopped, history, FlagsOK
  <2> QED
    BY <2>1, <2>2, Zenon DEF FlagsOK
<1>4. ASSUME NEW h \in Requests, Call(h) PROVE FlagsOK'
  <2>1. PICK j : Arrive(h, j)
    BY <1>4, Zenon
    DEF Call, CheckSchedule, ShowHearing, CheckOpen, CheckEnd, CheckGrant, CheckDeny,
        CheckOpposition
  <2> QED
    BY <2>1, Zenon DEF Arrive, FlagsOK
<1>5. ASSUME NEW h \in Requests, Advance(h) PROVE FlagsOK'
  <2>1. PICK j : Goto(h, j)
    BY <1>5, Zenon
    DEF Advance, FindAppt, InsertMissingAppt, LinkMissingAppt, FindRoom, InsertRoom, InsertAppt,
        LinkAppt, UpdateRoom, WriteSchedule, StartRecording, WriteOpen, StopRecording, WriteEnd,
        WriteAppt, ReadHearing, WriteGrant, WriteDeny, ReadRoomStatus, InsertOpposition
  <2> QED
    BY <1>1, <2>1, Zenon DEF Goto, history
<1>6. ASSUME NEW h \in Requests, Abort(h) PROVE FlagsOK'
  BY <1>6, Zenon DEF Abort, FlagsOK
<1> QED
  BY <1>2, <1>3, <1>4, <1>5, <1>6, Zenon DEF Next, OtherStep

\* Every variable keeps its type.
THEOREM TypeCorrect == Spec => []TypeOK
<1>1. Init => FlagsOK
  BY Zenon DEF Init, FlagsOK
<1>2. IInv /\ FlagsOK => TypeOK
  BY Zenon DEF IInv, DataOK, FlagsOK, TypeOK
<1> QED
  BY <1>1, <1>2, FlagsKept, Invariance, PTL DEF Spec

-----------------------------------------------------------------------------
(* One decision, as long as requests do not overlap *)

\* A request that is on its way to a decision, or to a new date, which is refused once the
\* application is decided.
Deciding(j) ==
    \/ j.at \in {"find_room", "insert_room", "insert_appt", "link_appt", "update_room",
                 "schedule", "hearing", "grant", "deny"}
    \/ j.at \in {"ensure", "link"} /\ j.then = "update_room"

OneRequest == \A g, h \in Requests : Busy(g) /\ Busy(h) => g = h

DecidingInv == \A h \in Requests : Deciding(job[h]) => app.status \notin Final

AloneInv ==
    ~crowded =>
        /\ OneRequest /\ DecidingInv
        /\ commissions = 1 => app.status = "approved"

\* An arrival that overlaps no other request finds none.
LEMMA ArriveAlone ==
    ASSUME NEW h \in Requests, NEW j, Arrive(h, j), ~crowded'
    PROVE  ~crowded /\ \A g \in Requests : ~Busy(g)
  BY Zenon DEF Arrive

\* A request that is called looks at the decision before it goes on to one.
LEMMA CallDecides ==
    ASSUME IInv, NEW h \in Requests, Call(h)
    PROVE  \E j : Arrive(h, j) /\ (Deciding(j) => app.status \notin Final)
<1> DEFINE Fresh(j) == Arrive(h, j) /\ (Deciding(j) => app.status \notin Final)
<1>1. ASSUME NEW s \in Staff, CheckSchedule(h, s) PROVE \E j : Fresh(j)
  BY <1>1, Zenon DEF CheckSchedule
<1>2. ASSUME NEW s \in Staff, ShowHearing(h, s) PROVE \E j : Fresh(j)
  <2>1. ~Deciding(Ensure("done", room.status, s))
    BY DEF Deciding, Ensure
  <2> QED
    BY <1>2, <2>1, Zenon DEF ShowHearing
<1>3. ASSUME NEW s \in Staff, CheckOpen(h, s) PROVE \E j : Fresh(j)
  <2>1. ~Deciding(Snapshot(IF room.egress = 0 THEN "record" ELSE "open"))
    BY DEF Deciding, Snapshot
  <2> QED
    BY <1>3, <2>1, Zenon DEF CheckOpen
<1>4. ASSUME NEW s \in Staff, CheckEnd(h, s) PROVE \E j : Fresh(j)
  <2>1. ~Deciding(Snapshot(IF room.egress # 0 /\ ~room.filed THEN "stop" ELSE "end"))
    BY DEF Deciding, Snapshot
  <2> QED
    BY <1>4, <2>1, Zenon DEF CheckEnd
<1>5. CASE CheckGrant(h) \/ CheckDeny(h)
  BY <1>5, Zenon DEF CheckGrant, CheckDeny
<1>6. CASE CheckOpposition(h)
  <2>1. ~Deciding(IF app.room THEN [at |-> "room_status"] ELSE [at |-> "oppose", inRoom |-> FALSE])
    BY DEF Deciding
  <2> QED
    BY <1>6, <2>1, Zenon DEF CheckOpposition
<1> QED
  BY <1>1, <1>2, <1>3, <1>4, <1>5, <1>6, Zenon DEF Call

\* A request under way moves on by itself, and comes near a decision only if it was already.
LEMMA AdvanceDecides ==
    ASSUME IInv, NEW h \in Requests, Advance(h)
    PROVE  /\ Busy(h) /\ UNCHANGED <<crowded, crashed, misreported>>
           /\ \E j : job' = [job EXCEPT ![h] = j]
                     /\ (Deciding(j) => Deciding(job[h]) /\ app'.status = app.status)
<1> DEFINE Near(j) == Goto(h, j) /\ (Deciding(j) => Deciding(job[h]) /\ app'.status = app.status)
<1> USE DEF applicationVars, roomVars, recordingVars
<1>0. DataOK /\ job[h] \in Jobs /\ ~Deciding(Idle)
  BY JobAt DEF IInv, Deciding, Idle
<1>1. Busy(h)
  BY IdleKind
  DEF Busy, Advance, FindAppt, InsertMissingAppt, LinkMissingAppt, FindRoom, InsertRoom,
      InsertAppt, LinkAppt, UpdateRoom, WriteSchedule, StartRecording, WriteOpen, StopRecording,
      WriteEnd, WriteAppt, ReadHearing, WriteGrant, WriteDeny, ReadRoomStatus, InsertOpposition
<1> SUFFICES \E j : Near(j)
  BY <1>1, Zenon DEF Goto, history
<1>2. CASE FindAppt(h) \/ LinkMissingAppt(h)
  <2>1. PICK a \in ApptIds : Goto(h, Ensured(job[h], a)) /\ app'.status = app.status
    BY <1>0, <1>2, JobKinds DEF FindAppt, LinkMissingAppt, DataOK, ApptIds
  <2>2. job[h].at \in {"ensure", "link"}
    BY <1>2 DEF FindAppt, LinkMissingAppt
  <2>3. Deciding(Ensured(job[h], a)) => Deciding(job[h])
    BY <1>0, <2>2, JobKinds, EnsuredType DEF Deciding
  <2> QED
    BY <2>1, <2>3, Zenon
<1>3. CASE InsertMissingAppt(h)
  <2>1. PICK a : Goto(h, [at |-> "link", then |-> job[h].then, by |-> job[h].by, appt |-> a])
    BY <1>3, Zenon DEF InsertMissingAppt
  <2>2. Deciding([at |-> "link", then |-> job[h].then, by |-> job[h].by, appt |-> a]) =>
            Deciding(job[h])
    BY <1>3 DEF InsertMissingAppt, Deciding
  <2>3. app' = app
    BY <1>3 DEF InsertMissingAppt
  <2> QED
    BY <2>1, <2>2, <2>3, Zenon
<1>4. CASE \/ FindRoom(h) \/ InsertRoom(h) \/ InsertAppt(h) \/ LinkAppt(h) \/ UpdateRoom(h)
           \/ ReadHearing(h)
  <2>1. Deciding(job[h])
    BY <1>4
    DEF FindRoom, InsertRoom, InsertAppt, LinkAppt, UpdateRoom, ReadHearing, Deciding
  <2>2. app'.status = app.status
    BY <1>0, <1>4 DEF FindRoom, InsertRoom, InsertAppt, LinkAppt, UpdateRoom, ReadHearing, DataOK
  <2>3. \E j : Goto(h, j)
    BY <1>4, Zenon DEF FindRoom, InsertRoom, InsertAppt, LinkAppt, UpdateRoom, ReadHearing
  <2> QED
    BY <2>1, <2>2, <2>3, Zenon
<1>5. CASE \/ WriteSchedule(h) \/ WriteGrant(h) \/ WriteDeny(h) \/ WriteAppt(h)
           \/ InsertOpposition(h)
  BY <1>0, <1>5, Zenon DEF WriteSchedule, WriteGrant, WriteDeny, WriteAppt, InsertOpposition
<1>6. CASE StartRecording(h) \/ StopRecording(h)
  <2>1. job[h] = [at |-> job[h].at, egress |-> job[h].egress, filed |-> job[h].filed]
    BY <1>0, <1>6, JobKinds DEF StartRecording, StopRecording
  <2> DEFINE k(at) == [job[h] EXCEPT !.at = at]
  <2>2. \A at : k(at) = [at |-> at, egress |-> job[h].egress, filed |-> job[h].filed]
    BY <2>1
  <2> HIDE DEF k
  <2>3. /\ ~Deciding(k("open")) /\ ~Deciding([k("open") EXCEPT !.egress = started + 1])
        /\ \A filed : ~Deciding([k("end") EXCEPT !.filed = filed])
    BY <2>2 DEF Deciding
  <2> QED
    BY <1>6, <2>3, Zenon DEF StartRecording, StopRecording, k
<1>7. CASE WriteOpen(h) \/ WriteEnd(h)
  <2>1. \A then \in {"opened", "ended"}, st \in {"in_session", "ended"} :
           ~Deciding(Ensure(then, st, room.ena))
    BY DEF Deciding, Ensure
  <2> QED
    BY <1>7, <2>1, Zenon DEF WriteOpen, WriteEnd
<1>8. CASE ReadRoomStatus(h)
  <2>1. ~Deciding(IF room.status \in Closed THEN Idle ELSE [at |-> "oppose", inRoom |-> TRUE])
    BY <1>0 DEF Deciding
  <2> QED
    BY <1>8, <2>1, Zenon DEF ReadRoomStatus
<1> QED
  BY <1>2, <1>3, <1>4, <1>5, <1>6, <1>7, <1>8, Zenon DEF Advance

\* As long as requests do not overlap, each step keeps that no decided application is on
\* its way to a decision; and it is a step of the promised decision.
LEMMA AloneKeeps ==
    ASSUME IInv, AloneInv, FlagsOK, [Next]_vars, IInv'
    PROVE  AloneInv'
<1> SUFFICES ASSUME ~crowded'
             PROVE  OneRequest' /\ DecidingInv' /\ (commissions' = 1 => app'.status = "approved")
  BY Zenon DEF AloneInv
<1>0. /\ DataOK /\ CommissionedAfterHearing /\ job \in [Requests -> Jobs]
      /\ app \in [status : {"submitted", "hearing_scheduled"} \cup Final, room : BOOLEAN,
                  appt : 0..MaxAppts]
  BY DEF IInv, DataOK
<1>1. CASE OtherStep \/ UNCHANGED vars
  <2>1. UNCHANGED <<app, commissions, job, crowded>>
    BY <1>1, OtherSteps DEF vars
  <2> QED
    BY <2>1, Zenon DEF AloneInv, OneRequest, DecidingInv, Busy
<1>2. ASSUME NEW h \in Requests, Call(h)
      PROVE  OneRequest' /\ DecidingInv' /\ (commissions' = 1 => app'.status = "approved")
  <2>1. PICK j : Arrive(h, j) /\ (Deciding(j) => app.status \notin Final)
    BY <1>2, CallDecides
  <2>2. ~crowded /\ \A g \in Requests : ~Busy(g)
    BY <2>1, ArriveAlone
  <2>3. job' = [job EXCEPT ![h] = j] /\ UNCHANGED <<app, commissions>>
    BY <2>1 DEF Arrive, applicationVars
  <2>4. job'[h] = j /\ \A g \in Requests : g # h => job'[g] = job[g]
    BY <1>0, <2>3
  <2>5. AloneInv /\ ~Deciding(Idle)
    BY DEF Deciding, Idle
  <2>6. OneRequest'
    BY <2>2, <2>4 DEF OneRequest, Busy
  <2>7. DecidingInv'
    BY <2>1, <2>2, <2>3, <2>4, <2>5 DEF DecidingInv, Busy
  <2> QED
    BY <2>2, <2>3, <2>6, <2>7, Zenon DEF AloneInv
<1>3. ASSUME NEW h \in Requests, Advance(h)
      PROVE  OneRequest' /\ DecidingInv' /\ (commissions' = 1 => app'.status = "approved")
  <2>1. Busy(h) /\ (crowded' <=> crowded)
    BY <1>3, AdvanceDecides, Zenon
  <2>2. OneRequest /\ DecidingInv /\ (commissions = 1 => app.status = "approved")
    BY <2>1, Zenon DEF AloneInv
  <2>3. PICK j : /\ job' = [job EXCEPT ![h] = j]
                 /\ Deciding(j) => Deciding(job[h]) /\ app'.status = app.status
    BY <1>3, AdvanceDecides
  <2>4. job'[h] = j /\ \A g \in Requests : g # h => job'[g] = job[g] /\ ~Busy(g)
    BY <1>0, <2>1, <2>2, <2>3 DEF OneRequest
  <2>5. OneRequest'
    BY <2>4 DEF OneRequest, Busy
  <2>6. ~Deciding(Idle)
    BY DEF Deciding, Idle
  <2>7. DecidingInv'
    BY <2>2, <2>3, <2>4, <2>6 DEF DecidingInv, Busy
  <2>8. commissions' = 1 => app'.status = "approved"
    <3>1. CASE WriteSchedule(h) \/ WriteDeny(h)
      <4>1. Deciding(job[h]) /\ commissions' = commissions
        BY <3>1 DEF WriteSchedule, WriteDeny, Deciding
      <4> QED
        BY <2>2, <4>1 DEF DecidingInv, Final
    <3>2. CASE WriteGrant(h)
      BY <1>0, <2>2, <3>2 DEF WriteGrant, applicationVars
    <3>3. CASE ~(WriteSchedule(h) \/ WriteDeny(h) \/ WriteGrant(h))
      <4>1. commissions' = commissions /\ app'.status = app.status
        BY <1>0, <1>3, <3>3
        DEF Advance, FindAppt, InsertMissingAppt, LinkMissingAppt, FindRoom, InsertRoom,
            InsertAppt, LinkAppt, UpdateRoom, StartRecording, WriteOpen, StopRecording, WriteEnd,
            WriteAppt, ReadHearing, ReadRoomStatus, InsertOpposition, applicationVars
      <4> QED
        BY <2>2, <4>1
    <3> QED
      BY <3>1, <3>2, <3>3
  <2> QED
    BY <2>5, <2>7, <2>8
<1>4. ASSUME NEW h \in Requests, Abort(h)
      PROVE  OneRequest' /\ DecidingInv' /\ (commissions' = 1 => app'.status = "approved")
  <2>1. OneRequest /\ DecidingInv /\ (commissions = 1 => app.status = "approved")
    BY <1>4, Zenon DEF Abort, AloneInv
  <2>2. job' = [job EXCEPT ![h] = Idle] /\ UNCHANGED <<app, commissions>>
    BY <1>4 DEF Abort, applicationVars
  <2>3. job'[h] = Idle /\ \A g \in Requests : g # h => job'[g] = job[g]
    BY <1>0, <2>2
  <2>4. OneRequest'
    BY <2>1, <2>3 DEF OneRequest, Busy
  <2>5. ~Deciding(Idle)
    BY DEF Deciding, Idle
  <2>6. DecidingInv'
    BY <2>1, <2>2, <2>3, <2>5 DEF DecidingInv
  <2> QED
    BY <2>1, <2>2, <2>4, <2>6
<1> QED
  BY <1>1, <1>2, <1>3, <1>4, Zenon DEF Next, OtherStep

\* What a step of the code is to the one who waits for the decision: the end of the hearing,
\* a grant, a denial, or nothing.
LEMMA DecisionSteps ==
    ASSUME IInv, AloneInv, FlagsOK, [Next]_vars, IInv', FlagsOK'
    PROVE  [Decision!Next]_(Decision!vars)
<1>0. /\ DataOK /\ CommissionedAfterHearing /\ RoomInv
      /\ app \in [status : {"submitted", "hearing_scheduled"} \cup Final, room : BOOLEAN,
                  appt : 0..MaxAppts]
      /\ room \in [status : {"absent", "scheduled", "in_session", "ended"},
                   ena : Staff \cup {"nobody"},
                   egress : StoredIds, filed : BOOLEAN, ended : BOOLEAN]
  BY DEF IInv, DataOK
<1>1. CASE crowded'
  <2>1. crowded' = TRUE
    BY <1>1, Zenon DEF FlagsOK
  <2> QED
    BY <2>1, Zenon DEF Decision!Next
<1> SUFFICES ASSUME crowded' = FALSE PROVE [Decision!Next]_(Decision!vars)
  BY <1>1, Zenon DEF FlagsOK
<1>2. ASSUME app'.status = app.status, commissions' = commissions, room'.ended = room.ended,
             crowded = FALSE
      PROVE  UNCHANGED Decision!vars
  BY <1>2 DEF Decision!vars
<1>3. CASE OtherStep \/ UNCHANGED vars
  <2>1. /\ app'.status = app.status /\ commissions' = commissions /\ room'.ended = room.ended
        /\ crowded = crowded'
    BY <1>3, OtherSteps DEF vars
  <2> QED
    BY <1>2, <2>1, Zenon
<1>4. ASSUME NEW h \in Requests, Call(h) PROVE UNCHANGED Decision!vars
  <2>1. PICK j : Arrive(h, j)
    BY <1>4, CallDecides
  <2>2. crowded = FALSE
    BY <2>1, ArriveAlone, Zenon DEF FlagsOK
  <2> QED
    BY <1>2, <2>1, <2>2 DEF Arrive, applicationVars, roomVars
<1>5. ASSUME NEW h \in Requests, Abort(h) PROVE UNCHANGED Decision!vars
  BY <1>2, <1>5 DEF Abort, applicationVars, roomVars
<1>6. ASSUME NEW h \in Requests, Advance(h) PROVE [Decision!Next]_(Decision!vars)
  <2>1. crowded = FALSE /\ DecidingInv /\ (commissions = 1 => app.status = "approved")
    <3>1. crowded = FALSE
      <4>1. crowded' = crowded
        BY <1>6, AdvanceDecides
      <4> QED
        BY <4>1
    <3> QED
      BY <3>1, Zenon DEF AloneInv
  <2>2. CASE WriteSchedule(h)
    <3>1. app.status \notin Final /\ app'.status = "hearing_scheduled"
      BY <1>0, <2>1, <2>2 DEF WriteSchedule, DecidingInv, Deciding
    <3>2. UNCHANGED <<commissions, room>>
      BY <2>2 DEF WriteSchedule, roomVars
    <3> QED
      BY <2>1, <3>1, <3>2 DEF Decision!vars, Final
  <2>3. CASE WriteGrant(h)
    <3>1. app.status \notin Final /\ JobOK(job[h]) /\ job[h].at = "grant"
      BY <2>1, <2>3, JobAt DEF WriteGrant, DecidingInv, Deciding
    <3>2. room.ended = TRUE /\ commissions = 0 /\ UNCHANGED room
      BY <1>0, <2>1, <2>3, <3>1 DEF JobOK, CommissionedAfterHearing, DataOK, Final, WriteGrant,
         roomVars
    <3>3. app'.status = "approved" /\ commissions' = 1
      BY <1>0, <2>3, <3>2 DEF WriteGrant
    <3> QED
      BY <3>1, <3>2, <3>3 DEF Decision!Next, Decision!Grant, Final
  <2>4. CASE WriteDeny(h)
    <3>1. app.status \notin Final /\ app'.status = "rejected"
      BY <1>0, <2>1, <2>4 DEF WriteDeny, DecidingInv, Deciding
    <3>2. UNCHANGED <<commissions, room>>
      BY <2>4 DEF WriteDeny, roomVars
    <3> QED
      BY <3>1, <3>2 DEF Decision!Next, Decision!Deny, Final
  <2>5. CASE WriteEnd(h)
    <3>1. UNCHANGED <<app, commissions>>
      BY <2>5 DEF WriteEnd, applicationVars
    <3>2. room'.ended = TRUE
      BY <1>0, <2>5 DEF WriteEnd
    <3> QED
      BY <3>1, <3>2 DEF Decision!Next, Decision!EndHearing
  <2>6. CASE ~(WriteSchedule(h) \/ WriteDeny(h) \/ WriteGrant(h) \/ WriteEnd(h))
    <3>1. commissions' = commissions /\ app'.status = app.status
      BY <1>0, <1>6, <2>6
      DEF Advance, FindAppt, InsertMissingAppt, LinkMissingAppt, FindRoom, InsertRoom,
          InsertAppt, LinkAppt, UpdateRoom, StartRecording, WriteOpen, StopRecording,
          WriteAppt, ReadHearing, ReadRoomStatus, InsertOpposition, applicationVars
    <3>2. room'.ended = room.ended
      <4>1. CASE InsertRoom(h)
        BY <1>0, <4>1 DEF InsertRoom, NoRoom, RoomInv
      <4>2. CASE UpdateRoom(h) \/ WriteOpen(h)
        BY <1>0, <4>2 DEF UpdateRoom, WriteOpen
      <4>3. CASE ~(InsertRoom(h) \/ UpdateRoom(h) \/ WriteOpen(h))
        BY <1>6, <2>6, <4>3
        DEF Advance, FindAppt, InsertMissingAppt, LinkMissingAppt, FindRoom, InsertAppt, LinkAppt,
            StartRecording, StopRecording, WriteAppt, ReadHearing, ReadRoomStatus,
            InsertOpposition, roomVars
      <4> QED
        BY <4>1, <4>2, <4>3
    <3> QED
      BY <1>2, <2>1, <3>1, <3>2, Zenon
  <2> QED
    BY <2>2, <2>3, <2>4, <2>5, <2>6
<1> QED
  BY <1>3, <1>4, <1>5, <1>6, Zenon DEF Next, OtherStep

\* Commission implements the abstract decision: an application is decided once, granted
\* only after its hearing has ended, and has a commission exactly when it was granted; until
\* two requests overlap (scheduleSummaryHearing, grant and deny check, then write by id).
THEOREM Implements == Spec => KeepsDecision
<1>1. Init => FlagsOK /\ AloneInv /\ Decision!Init
  <2> SUFFICES ASSUME Init PROVE FlagsOK /\ AloneInv /\ Decision!Init
    OBVIOUS
  <2>1. FlagsOK
    BY Zenon DEF Init, FlagsOK
  <2>2. OneRequest /\ DecidingInv /\ commissions = 0
    BY DEF Init, OneRequest, Busy, DecidingInv, Deciding, Idle
  <2>3. Decision!Init
    BY DEF Init, NoRoom, Decision!Init
  <2> QED
    BY <2>1, <2>2, <2>3 DEF AloneInv
<1>2. IInv /\ FlagsOK /\ AloneInv /\ [Next]_vars /\ IInv' /\ FlagsOK' =>
        AloneInv' /\ [Decision!Next]_(Decision!vars)
  BY AloneKeeps, DecisionSteps
<1> QED
  BY <1>1, <1>2, FlagsKept, Invariance, PTL DEF Spec, KeepsDecision, Decision!Spec

-----------------------------------------------------------------------------
(* The hearing's rows follow the hearing, unless requests overlap or crash, *)
(* and its recording unless a report of it is false as well                 *)

\* The lobby's appointment shows the state of the hearing, ...
Settled == room.status # "absent" => app.appt # 0 /\ appts[app.appt] = ApptStatus(room.status)

\* ... but for the statements between the room's write and the appointment's.
Unsettled(j) ==
    \/ j.at \in {"insert_appt", "link_appt", "opened", "ended"}
    \/ j.at = "ensure" /\ j.then \in {"opened", "ended"}

\* What a request under way knows of the recording, ...
RecordOK(j) ==
    /\ j.at = "record" => room.egress = 0 /\ room.status \in {"scheduled", "in_session"}
    /\ j.at = "open" => /\ recording \subseteq {j.egress} /\ room.egress \in {0, j.egress}
                        /\ room.status \in {"scheduled", "in_session"}
    /\ j.at = "stop" => room.egress = j.egress /\ j.egress # 0 /\ ~j.filed
    /\ j.at = "end" => recording = {} /\ (j.filed => room.egress # 0)

\* ... and of the room and its appointment.
RoomOK(j) ==
    /\ j.at = "insert_room" => room.status = "absent"
    /\ j.at \in {"insert_appt", "link_appt"} => room.status = "scheduled"
    /\ j.at = "link_appt" => appts[j.appt] = "confirmed"
    /\ j.at = "ensure" => /\ room.status = j.status /\ app.appt # 0
                          /\ j.then = "opened" => room.status = "in_session"
                          /\ j.then = "ended" => room.status = "ended"
    /\ j.at # "link"
    /\ j.at \in {"opened", "ended"} => j.appt = app.appt /\ app.appt # 0
    /\ j.at = "opened" => room.status = "in_session"
    /\ j.at = "ended" => room.status = "ended"

\* No recording runs of a hearing that is filed, ended or not scheduled yet.
FileOK ==
    /\ room.filed => recording = {} /\ room.egress # 0
    /\ room.status \in {"absent", "ended"} => recording = {}

RecordedBy(j) ==
    /\ RecordOK(j) /\ FileOK
    /\ j.at # "open" => recording \subseteq {room.egress}

TrackedBy(j) ==
    /\ RoomOK(j)
    /\ ~Unsettled(j) => Settled
    /\ ~misreported => RecordedBy(j)

Tracked ==
    /\ \A h \in Requests : Busy(h) => TrackedBy(job[h])
    /\ (\A h \in Requests : ~Busy(h)) => TrackedBy(Idle)

TrackInv == ~crowded /\ ~crashed => Tracked

\* One request under way is tracked when its new job is.
LEMMA TrackMoved ==
    ASSUME IInv, NEW h \in Requests, NEW j, job' = [job EXCEPT ![h] = j],
           \A g \in Requests : g # h => ~Busy(g), TrackedBy(j)'
    PROVE  Tracked'
<1>1. job'[h] = j /\ \A g \in Requests : g # h => job'[g] = job[g]
  BY DEF IInv
<1>2. ASSUME NEW g \in Requests, Busy(g)' PROVE TrackedBy(job[g])'
  <2>1. g = h
    BY <1>1, <1>2 DEF Busy
  <2>2. job'[g] = j
    BY <1>1, <2>1
  <2> QED
    BY <2>2 DEF TrackedBy, RecordedBy, RecordOK, RoomOK, Unsettled, Settled, FileOK
<1>3. ASSUME \A g \in Requests : ~Busy(g)' PROVE TrackedBy(Idle)'
  <2>1. j = Idle
    BY <1>1, <1>3 DEF Busy
  <2> QED
    BY <2>1, Zenon
<1> QED
  BY <1>2, <1>3, Zenon DEF Tracked

\* The calls of requests that find no other.
LEMMA TrackCall ==
    ASSUME IInv, NEW h \in Requests, Call(h), Tracked, \A g \in Requests : ~Busy(g)
    PROVE  Tracked'
<1>1. /\ DataOK /\ RoomInv /\ Settled
      /\ ~misreported => FileOK /\ recording \subseteq {room.egress}
  BY DEF IInv, Tracked, TrackedBy, RecordedBy, Unsettled, Idle
<1>2. ASSUME NEW j, Arrive(h, j), ~misreported => RecordOK(j), RoomOK(j),
             ~Unsettled(j)
      PROVE  Tracked'
  <2>1. job' = [job EXCEPT ![h] = j] /\ UNCHANGED <<app, room, appts, recording, misreported>>
    BY <1>2 DEF Arrive, applicationVars, roomVars, recordingVars
  <2>2. TrackedBy(j)'
    BY <1>1, <1>2, <2>1 DEF TrackedBy, RecordedBy, RecordOK, RoomOK, FileOK, Settled, Unsettled
  <2> QED
    BY <2>1, <2>2, TrackMoved
<1>3. ASSUME NEW s \in Staff, CheckSchedule(h, s) PROVE Tracked'
  <2>1. PICK j : Arrive(h, j) /\ j.at = "find_room"
    BY <1>3 DEF CheckSchedule
  <2> QED
    BY <1>2, <2>1 DEF RecordOK, RoomOK, Unsettled
<1>4. ASSUME NEW s \in Staff, ShowHearing(h, s) PROVE Tracked'
  <2>1. PICK j : Arrive(h, j) /\ j = Ensure("done", room.status, s)
    BY <1>4, Zenon DEF ShowHearing
  <2>2. j.at = "ensure" /\ j.then = "done" /\ j.status = room.status
    BY <2>1 DEF Ensure
  <2>3. app.appt # 0
    BY <1>1, <1>4 DEF ShowHearing, Settled
  <2> QED
    BY <1>2, <2>1, <2>2, <2>3 DEF RecordOK, RoomOK, Unsettled
<1>5. ASSUME NEW s \in Staff, CheckOpen(h, s) \/ CheckEnd(h, s) PROVE Tracked'
  <2>1. PICK j : /\ Arrive(h, j) /\ j.egress = room.egress /\ j.filed = room.filed
                 /\ j.at \in {"record", "open", "stop", "end"}
                 /\ j.at = "record" => room.egress = 0
                 /\ j.at \in {"record", "open"} => room.status \in {"scheduled", "in_session"}
                 /\ j.at = "stop" => room.egress # 0 /\ ~room.filed
                 /\ j.at = "end" => room.egress = 0 \/ room.filed
    BY <1>1, <1>5 DEF CheckOpen, CheckEnd, Snapshot, OwnRoom, DataOK, Closed
  <2>2. 0 \notin recording
    BY <1>1 DEF DataOK
  <2>3. ~misreported => RecordOK(j)
    BY <1>1, <2>1, <2>2 DEF RecordOK, FileOK
  <2> QED
    BY <1>2, <2>1, <2>3 DEF RoomOK, Unsettled
<1>6. CASE CheckGrant(h) \/ CheckDeny(h) \/ CheckOpposition(h)
  <2>1. PICK j : Arrive(h, j) /\ j.at \in {"hearing", "deny", "room_status", "oppose"}
    BY <1>6 DEF CheckGrant, CheckDeny, CheckOpposition
  <2> QED
    BY <1>2, <2>1 DEF RecordOK, RoomOK, Unsettled
<1> QED
  BY <1>3, <1>4, <1>5, <1>6, Zenon DEF Call

\* The statements of the request under way.
LEMMA TrackAdvance ==
    ASSUME IInv, NEW h \in Requests, Advance(h), TrackedBy(job[h]),
           \A g \in Requests : g # h => ~Busy(g)
    PROVE  Tracked'
<1> USE DEF applicationVars, roomVars, recordingVars
<1>0. /\ DataOK /\ RoomInv /\ RoomOK(job[h]) /\ JobOK(job[h])
      /\ job[h] \in Jobs
      /\ ~Unsettled(job[h]) => Settled
      /\ ~misreported => /\ FileOK /\ RecordOK(job[h])
                         /\ job[h].at # "open" => recording \subseteq {room.egress}
      /\ 0 \notin recording
      /\ misreported' = misreported
  BY JobAt, AdvanceDecides DEF IInv, TrackedBy, RecordedBy, DataOK
<1>1. ASSUME NEW j, Goto(h, j), TrackedBy(j)' PROVE Tracked'
  BY <1>1, TrackMoved DEF Goto
<1>2. /\ app \in [status : {"submitted", "hearing_scheduled"} \cup Final, room : BOOLEAN,
                  appt : 0..MaxAppts]
      /\ room \in [status : {"absent", "scheduled", "in_session", "ended"},
                   ena : Staff \cup {"nobody"},
                   egress : StoredIds, filed : BOOLEAN, ended : BOOLEAN]
  BY <1>0 DEF DataOK
<1>3. CASE FindAppt(h)
  <2>1. PICK j : Goto(h, j) /\ j = Ensured(job[h], app.appt)
    BY <1>3, Zenon DEF FindAppt
  <2>2. app.appt \in ApptIds /\ job[h].at = "ensure" /\ UNCHANGED <<app, room, appts, recording>>
    BY <1>2, <1>3 DEF FindAppt, ApptIds
  <2>3. /\ job[h].then \in {"update_room", "opened", "ended", "done"}
        /\ job[h].then = "done" => j = Idle
        /\ job[h].then = "update_room" => j.at = "update_room"
        /\ job[h].then \in {"opened", "ended"} => j.at = job[h].then /\ j.appt = app.appt
    BY <1>0, <2>1, <2>2, JobKinds, EnsuredType
  <2>4. j.at \in {"idle", "update_room"} => Settled
    BY <1>0, <2>2, <2>3, IdleKind DEF Unsettled
  <2>5. TrackedBy(j)'
    BY <1>0, <2>2, <2>3, <2>4, IdleKind
    DEF TrackedBy, RecordedBy, RecordOK, RoomOK, FileOK, Settled, Unsettled
  <2> QED
    BY <1>1, <2>1, <2>5
<1>4. CASE InsertMissingAppt(h) \/ LinkMissingAppt(h)
  BY <1>0, <1>4 DEF InsertMissingAppt, LinkMissingAppt, RoomOK
<1>5. CASE FindRoom(h)
  <2>1. Settled /\ UNCHANGED <<app, room, appts, recording>>
    BY <1>0, <1>5 DEF FindRoom, Unsettled
  <2>2. PICK j : /\ Goto(h, j)
                 /\ \/ j.at = "insert_room" /\ room.status = "absent"
                    \/ /\ j.at = "ensure" /\ j.then = "update_room" /\ j.status = room.status
                       /\ room.status # "absent"
    <3>1. CASE room.status = "absent"
      <4>1. [job[h] EXCEPT !.at = "insert_room"].at = "insert_room"
        BY <1>0, <1>5, JobKinds DEF FindRoom
      <4> QED
        BY <1>5, <3>1, <4>1 DEF FindRoom
    <3>2. CASE room.status # "absent"
      BY <1>5, <3>2 DEF FindRoom, Ensure
    <3> QED
      BY <3>1, <3>2
  <2>3. TrackedBy(j)'
    BY <1>0, <1>5, <2>1, <2>2 DEF FindRoom, TrackedBy, RecordedBy, RecordOK, RoomOK, FileOK, Settled, Unsettled
  <2> QED
    BY <1>1, <2>2, <2>3
<1>6. CASE InsertRoom(h)
  <2>1. room.status = "absent" /\ (~misreported => recording = {})
    BY <1>0, <1>6 DEF InsertRoom, RoomOK, FileOK
  <2>2. PICK j : Goto(h, j) /\ j.at = "insert_appt"
    <3>1. [job[h] EXCEPT !.at = "insert_appt"].at = "insert_appt"
      BY <1>0, <1>6, JobKinds DEF InsertRoom
    <3> QED
      BY <1>6, <2>1, <3>1 DEF InsertRoom
  <2>3. room' = [NoRoom EXCEPT !.status = "scheduled", !.ena = job[h].by]
        /\ UNCHANGED <<app, appts, recording>>
    BY <1>6, <2>1 DEF InsertRoom
  <2>4. room' = [status |-> "scheduled", ena |-> job[h].by, egress |-> 0, filed |-> FALSE,
                 ended |-> FALSE]
    BY <2>3 DEF NoRoom
  <2>5. room'.status = "scheduled" /\ ~room'.filed
    BY <2>4
  <2>6. TrackedBy(j)'
    <3>1. ~misreported' => recording' = {}
      BY <1>0, <1>6, <2>1 DEF InsertRoom
    <3> QED
      BY <2>2, <2>5, <3>1 DEF TrackedBy, RecordedBy, RecordOK, RoomOK, FileOK, Unsettled
  <2> QED
    BY <1>1, <2>2, <2>6
<1>7. CASE InsertAppt(h)
  <2>1. PICK a \in ApptIds : /\ appts' = [appts EXCEPT ![a] = "confirmed"]
                             /\ Goto(h, [at |-> "link_appt", by |-> job[h].by, appt |-> a])
    BY <1>7 DEF InsertAppt
  <2>2. PICK j : Goto(h, j) /\ j.at = "link_appt" /\ j.appt = a
    BY <2>1
  <2>3. appts'[a] = "confirmed" /\ UNCHANGED <<app, room, recording>>
    BY <1>0, <1>7, <2>1 DEF InsertAppt, DataOK
  <2>4. TrackedBy(j)'
    BY <1>0, <1>7, <2>2, <2>3 DEF InsertAppt, TrackedBy, RecordedBy, RecordOK, RoomOK, FileOK, Unsettled
  <2> QED
    BY <1>1, <2>2, <2>4
<1>8. CASE LinkAppt(h)
  <2>1. PICK j : Goto(h, j) /\ j.at = "schedule"
    BY <1>8 DEF LinkAppt
  <2>2. job[h].appt \in ApptIds /\ app'.appt = job[h].appt /\ UNCHANGED <<room, appts, recording>>
    BY <1>0, <1>2, <1>8, JobKinds DEF LinkAppt
  <2>3. Settled'
    BY <1>0, <1>8, <2>2 DEF LinkAppt, Settled, RoomOK, ApptStatus, ApptIds
  <2>4. TrackedBy(j)'
    BY <1>0, <1>8, <2>1, <2>2, <2>3 DEF LinkAppt, TrackedBy, RecordedBy, RecordOK, RoomOK, FileOK
  <2> QED
    BY <1>1, <2>1, <2>4
<1>9. CASE UpdateRoom(h)
  <2>1. PICK j : Goto(h, j) /\ j.at = "schedule"
    BY <1>9 DEF UpdateRoom
  <2>2. /\ room'.status = room.status /\ room'.egress = room.egress /\ room'.filed = room.filed
        /\ UNCHANGED <<app, appts, recording>>
    BY <1>2, <1>9 DEF UpdateRoom
  <2>3. Settled
    BY <1>0, <1>9 DEF UpdateRoom, Unsettled
  <2>4. TrackedBy(j)'
    BY <1>0, <1>9, <2>1, <2>2, <2>3 DEF UpdateRoom, TrackedBy, RecordedBy, RecordOK, RoomOK, FileOK, Settled
  <2> QED
    BY <1>1, <2>1, <2>4
<1>10. CASE WriteSchedule(h) \/ WriteGrant(h) \/ WriteDeny(h)
  <2>1. PICK j : Goto(h, j) /\ j.at = "idle"
    BY <1>10, IdleKind DEF WriteSchedule, WriteGrant, WriteDeny
  <2>2. app'.appt = app.appt /\ UNCHANGED <<room, appts, recording>>
    <3>1. CASE WriteSchedule(h)
      BY <1>2, <3>1 DEF WriteSchedule
    <3>2. CASE WriteGrant(h) \/ WriteDeny(h)
      BY <1>2, <3>2 DEF WriteGrant, WriteDeny
    <3> QED
      BY <1>10, <3>1, <3>2
  <2>3. Settled /\ (~misreported => recording \subseteq {room.egress})
    BY <1>0, <1>10 DEF WriteSchedule, WriteGrant, WriteDeny, Unsettled
  <2>4. TrackedBy(j)'
    BY <1>0, <2>1, <2>2, <2>3 DEF TrackedBy, RecordedBy, RecordOK, RoomOK, FileOK, Settled
  <2> QED
    BY <1>1, <2>1, <2>4
<1>11. CASE StartRecording(h)
  <2>1. /\ ~misreported => /\ room.egress = 0 /\ recording = {}
                            /\ room.status \in {"scheduled", "in_session"}
        /\ Settled /\ UNCHANGED <<app, room, appts>>
        /\ job[h] = [at |-> "record", egress |-> job[h].egress, filed |-> job[h].filed]
    BY <1>0, <1>11, JobKinds DEF StartRecording, RecordOK, Unsettled
  <2>2. PICK j : Goto(h, j) /\ j.at = "open" /\ (~misreported => recording' \subseteq {j.egress})
    <3>1. CASE Goto(h, [job[h] EXCEPT !.at = "open"]) /\ UNCHANGED recordingVars
      <4>1. [job[h] EXCEPT !.at = "open"].at = "open"
        BY <2>1
      <4> QED
        BY <2>1, <3>1, <4>1
    <3>2. CASE /\ recording' = recording \cup {started + 1}
               /\ Goto(h, [job[h] EXCEPT !.at = "open", !.egress = started + 1])
      <4> DEFINE k == [job[h] EXCEPT !.at = "open"]
      <4>1. k = [at |-> "open", egress |-> job[h].egress, filed |-> job[h].filed]
        BY <2>1
      <4> HIDE DEF k
      <4>2. [k EXCEPT !.egress = started + 1] =
                [at |-> "open", egress |-> started + 1, filed |-> job[h].filed]
        BY <4>1
      <4>3. Goto(h, [at |-> "open", egress |-> started + 1, filed |-> job[h].filed])
        BY <3>2, <4>2, Zenon DEF k
      <4> QED
        BY <2>1, <3>2, <4>3
    <3> QED
      BY <1>11, <3>1, <3>2 DEF StartRecording
  <2>3. TrackedBy(j)'
    BY <1>0, <2>1, <2>2 DEF TrackedBy, RecordedBy, RecordOK, RoomOK, FileOK, Settled
  <2> QED
    BY <1>1, <2>2, <2>3
<1>12. CASE WriteOpen(h)
  <2>1. PICK j : Goto(h, j) /\ j.at = "ensure" /\ j.then = "opened" /\ j.status = "in_session"
    BY <1>12 DEF WriteOpen, Ensure
  <2>2. /\ room'.status = "in_session" /\ room'.egress = job[h].egress /\ room'.filed = room.filed
        /\ UNCHANGED <<app, appts, recording>>
    <3> DEFINE k == [room EXCEPT !.status = "in_session"]
    <3>1. k = [status |-> "in_session", ena |-> room.ena, egress |-> room.egress,
               filed |-> room.filed, ended |-> room.ended]
      BY <1>2
    <3> HIDE DEF k
    <3>2. [k EXCEPT !.egress = job[h].egress].status = "in_session"
          /\ [k EXCEPT !.egress = job[h].egress].egress = job[h].egress
          /\ [k EXCEPT !.egress = job[h].egress].filed = room.filed
      BY <3>1
    <3> QED
      BY <1>12, <3>2 DEF WriteOpen, k
  <2>3. /\ ~misreported => /\ recording \subseteq {job[h].egress}
                            /\ room.egress \in {0, job[h].egress}
        /\ app.appt # 0
    <3>1. room.status # "absent" /\ Settled
      BY <1>0, <1>12 DEF WriteOpen, JobOK, Unsettled
    <3> QED
      BY <1>0, <1>12, <3>1 DEF WriteOpen, RecordOK, Settled
  <2>4. TrackedBy(j)'
    BY <1>0, <2>1, <2>2, <2>3 DEF TrackedBy, RecordedBy, RecordOK, RoomOK, FileOK, Unsettled
  <2> QED
    BY <1>1, <2>1, <2>4
<1>13. CASE StopRecording(h)
  <2>1. /\ ~misreported => /\ room.egress = job[h].egress /\ job[h].egress # 0
                            /\ recording' = {}
        /\ Settled /\ UNCHANGED <<app, room, appts>>
        /\ job[h] = [at |-> "stop", egress |-> job[h].egress, filed |-> job[h].filed]
    BY <1>0, <1>13, JobKinds DEF StopRecording, RecordOK, Unsettled
  <2>2. PICK j : Goto(h, j) /\ j.at = "end"
    <3>1. PICK filed \in BOOLEAN : Goto(h, [job[h] EXCEPT !.at = "end", !.filed = filed])
      BY <1>13 DEF StopRecording
    <3> DEFINE k == [job[h] EXCEPT !.at = "end"]
    <3>2. k = [at |-> "end", egress |-> job[h].egress, filed |-> job[h].filed]
      BY <2>1
    <3> HIDE DEF k
    <3>3. [k EXCEPT !.filed = filed].at = "end"
      BY <3>2
    <3> QED
      BY <3>1, <3>3, Zenon DEF k
  <2>3. TrackedBy(j)'
    BY <1>0, <2>1, <2>2 DEF TrackedBy, RecordedBy, RecordOK, RoomOK, FileOK, Settled
  <2> QED
    BY <1>1, <2>2, <2>3
<1>14. CASE WriteEnd(h)
  <2>1. PICK j : Goto(h, j) /\ j.at = "ensure" /\ j.then = "ended" /\ j.status = "ended"
    BY <1>14 DEF WriteEnd, Ensure
  <2>2. /\ job[h].at = "end" /\ UNCHANGED <<app, appts, recording>>
        /\ room' = [room EXCEPT !.status = "ended", !.ended = TRUE, !.filed = job[h].filed]
    BY <1>14 DEF WriteEnd
  <2>3. room' = [status |-> "ended", ena |-> room.ena, egress |-> room.egress,
                 filed |-> job[h].filed, ended |-> TRUE]
    BY <1>2, <2>2
  <2>4. /\ ~misreported => recording = {} /\ (job[h].filed => room.egress # 0)
        /\ app.appt # 0
    <3>1. room.status # "absent" /\ Settled
      BY <1>0, <2>2 DEF JobOK, Unsettled
    <3> QED
      BY <1>0, <2>2, <3>1 DEF RecordOK, Settled
  <2>5. TrackedBy(j)'
    <3>1. room'.status = "ended" /\ room'.egress = room.egress /\ room'.filed = job[h].filed
      BY <2>3
    <3>2. RoomOK(j)' /\ Unsettled(j)
      BY <2>1, <2>2, <2>4, <3>1 DEF RoomOK, Unsettled
    <3>3. ~misreported => RecordedBy(j)'
      BY <2>1, <2>2, <2>4, <3>1 DEF RecordedBy, RecordOK, FileOK
    <3> QED
      BY <1>0, <3>2, <3>3 DEF TrackedBy, Unsettled
  <2> QED
    BY <1>1, <2>1, <2>5
<1>15. CASE WriteAppt(h)
  <2>1. PICK j : Goto(h, j) /\ j.at = "idle"
    BY <1>15, IdleKind DEF WriteAppt
  <2>2. /\ job[h].at \in {"opened", "ended"} /\ job[h].appt \in ApptIds
        /\ job[h].appt = app.appt /\ UNCHANGED <<app, room, recording>>
    BY <1>0, <1>15, JobKinds DEF WriteAppt, RoomOK
  <2>3. Settled'
    BY <1>0, <1>15, <2>2 DEF WriteAppt, Settled, RoomOK, ApptStatus, ApptIds, DataOK
  <2>4. TrackedBy(j)'
    BY <1>0, <2>1, <2>2, <2>3 DEF TrackedBy, RecordedBy, RecordOK, RoomOK, FileOK
  <2> QED
    BY <1>1, <2>1, <2>4
<1>16. CASE ReadHearing(h) \/ ReadRoomStatus(h) \/ InsertOpposition(h)
  <2>1. PICK j : Goto(h, j) /\ j.at \in {"grant", "idle", "oppose"}
    BY <1>16, IdleKind DEF ReadHearing, ReadRoomStatus, InsertOpposition
  <2>2. /\ UNCHANGED <<app, room, appts, recording>> /\ Settled
        /\ ~misreported => recording \subseteq {room.egress}
    BY <1>0, <1>16 DEF ReadHearing, ReadRoomStatus, InsertOpposition, Unsettled
  <2>3. TrackedBy(j)'
    BY <1>0, <2>1, <2>2 DEF TrackedBy, RecordedBy, RecordOK, RoomOK, FileOK, Settled
  <2> QED
    BY <1>1, <2>1, <2>3
<1> QED
  BY <1>3, <1>4, <1>5, <1>6, <1>7, <1>8, <1>9, <1>10, <1>11, <1>12, <1>13, <1>14, <1>15, <1>16,
     Zenon DEF Advance

\* LiveKit ends an egress, and notes that one has started or stopped.
LEMMA TrackOther ==
    ASSUME IInv, OtherStep, OneRequest, Tracked
    PROVE  Tracked'
<1> USE DEF applicationVars, roomVars, recordingVars
<1>0. /\ DataOK /\ 0 \notin recording
      /\ room \in [status : {"absent", "scheduled", "in_session", "ended"},
                   ena : Staff \cup {"nobody"},
                   egress : StoredIds, filed : BOOLEAN, ended : BOOLEAN]
  BY DEF IInv, DataOK
<1>1. /\ UNCHANGED <<app, appts, job>> /\ room'.status = room.status
      /\ ~misreported' => ~misreported
  <2>1. ~misreported' => ~misreported
    BY Zenon
    DEF OtherStep, AnswerOpposition, EgressEnds, RecordingStarted, RecordingStopped, history
  <2> QED
    BY <2>1, OtherSteps
<1>2. SUFFICES ASSUME NEW j, TrackedBy(j) PROVE TrackedBy(j)'
  <2>1. ASSUME NEW h \in Requests, Busy(h)' PROVE TrackedBy(job[h])'
    <3>1. Busy(h) /\ job'[h] = job[h]
      BY <1>1, <2>1 DEF Busy
    <3>2. TrackedBy(job[h])
      BY <3>1 DEF Tracked
    <3>3. PICK j : j = job[h]
      OBVIOUS
    <3>4. TrackedBy(j)'
      BY <1>2, <3>2, <3>3, Zenon
    <3>5. job'[h] = j
      BY <3>1, <3>3
    <3> QED
      BY <3>4, <3>5 DEF TrackedBy, RecordedBy, RecordOK, RoomOK, Unsettled, Settled, FileOK
  <2>2. ASSUME \A h \in Requests : ~Busy(h)' PROVE TrackedBy(Idle)'
    <3>1. TrackedBy(Idle)
      BY <1>1, <2>2 DEF Tracked, Busy
    <3> QED
      BY <1>2, <3>1, Zenon
  <2> QED
    BY <2>1, <2>2, Zenon DEF Tracked
<1>3. ASSUME NEW s \in Staff, NEW o \in OppositionIds, AnswerOpposition(s, o) PROVE TrackedBy(j)'
  BY <1>1, <1>2, <1>3
  DEF AnswerOpposition, TrackedBy, RecordedBy, RecordOK, RoomOK, FileOK, Settled, Unsettled
<1>4. CASE EgressEnds
  <2>1. recording' \subseteq recording /\ UNCHANGED room
    BY <1>4 DEF EgressEnds
  <2> QED
    BY <1>1, <1>2, <2>1 DEF TrackedBy, RecordedBy, RecordOK, RoomOK, FileOK, Settled, Unsettled
<1>5. ASSUME NEW s \in Staff, RecordingStarted(s) PROVE TrackedBy(j)'
  <2>1. RoomOK(j)' /\ (~Unsettled(j) => Settled)'
    BY <1>1, <1>2 DEF TrackedBy, RoomOK, Settled, Unsettled
  <2>2. ASSUME ~misreported' PROVE RecordedBy(j)'
    <3>1. PICK e \in recording : room' = [room EXCEPT !.egress = e]
      BY <1>5, <2>2 DEF RecordingStarted
    <3>2. room'.egress = e /\ room'.filed = room.filed /\ UNCHANGED recording
      BY <1>0, <1>5, <3>1 DEF RecordingStarted
    <3>3. RecordedBy(j)
      BY <1>1, <1>2, <2>2 DEF TrackedBy
    <3>4. e # 0 /\ (j.at # "open" => e = room.egress)
      BY <1>0, <3>3 DEF RecordedBy
    <3>5. RecordOK(j)'
      BY <1>0, <1>1, <3>1, <3>2, <3>3, <3>4 DEF RecordedBy, RecordOK
    <3> QED
      BY <1>1, <3>1, <3>2, <3>3, <3>4, <3>5 DEF RecordedBy, FileOK
  <2> QED
    BY <2>1, <2>2 DEF TrackedBy
<1>6. ASSUME NEW s \in Staff, RecordingStopped(s) PROVE TrackedBy(j)'
  <2>1. RoomOK(j)' /\ (~Unsettled(j) => Settled)'
    BY <1>1, <1>2 DEF TrackedBy, RoomOK, Settled, Unsettled
  <2>2. ASSUME ~misreported' PROVE RecordedBy(j)'
    <3>1. room'.egress = room.egress /\ UNCHANGED recording
      BY <1>0, <1>6 DEF RecordingStopped
    <3>2. room.egress \in 1..started /\ room.egress \notin recording
      BY <1>6, <2>2 DEF RecordingStopped
    <3>3. room.egress # 0
      BY <1>0, <3>2 DEF DataOK
    <3>4. RecordedBy(j)
      BY <1>1, <1>2, <2>2 DEF TrackedBy
    <3>5. recording = {}
      BY <3>2, <3>3, <3>4 DEF RecordedBy, RecordOK
    <3> QED
      BY <1>1, <3>1, <3>3, <3>4, <3>5 DEF RecordedBy, RecordOK, FileOK
  <2> QED
    BY <2>1, <2>2 DEF TrackedBy
<1> QED
  BY <1>3, <1>4, <1>5, <1>6, Zenon DEF OtherStep

\* Every step keeps the hearing's rows, as long as no requests overlap and none is cut off.
LEMMA TrackKeeps ==
    ASSUME IInv, AloneInv, TrackInv, FlagsOK, [Next]_vars
    PROVE  TrackInv'
<1> SUFFICES ASSUME ~crowded', ~crashed' PROVE Tracked'
  BY Zenon DEF TrackInv
<1>1. CASE OtherStep
  <2>1. UNCHANGED <<crowded, crashed>>
    BY <1>1, OtherSteps
  <2> QED
    BY <1>1, <2>1, TrackOther, Zenon DEF TrackInv, AloneInv
<1>2. CASE UNCHANGED vars
  <2>1. UNCHANGED <<crowded, crashed>>
    BY <1>2 DEF vars
  <2>2. Tracked
    BY <2>1, Zenon DEF TrackInv
  <2> QED
    BY <1>2, <2>2
    DEF vars, Tracked, Busy, TrackedBy, RecordedBy, RecordOK, RoomOK, FileOK, Settled, Unsettled
<1>3. ASSUME NEW h \in Requests, Call(h) PROVE Tracked'
  <2>1. PICK j : Arrive(h, j)
    BY <1>3, CallDecides, Zenon
  <2>2. ~crowded /\ \A g \in Requests : ~Busy(g)
    BY <2>1, ArriveAlone
  <2>3. crashed' = crashed
    BY <2>1 DEF Arrive
  <2>4. Tracked
    BY <2>2, <2>3, Zenon DEF TrackInv
  <2> QED
    BY <1>3, <2>2, <2>4, TrackCall
<1>4. ASSUME NEW h \in Requests, Advance(h) PROVE Tracked'
  <2>1. Busy(h) /\ UNCHANGED <<crowded, crashed>>
    BY <1>4, AdvanceDecides
  <2>2. Tracked /\ OneRequest
    BY <2>1, Zenon DEF TrackInv, AloneInv
  <2>3. TrackedBy(job[h]) /\ \A g \in Requests : g # h => ~Busy(g)
    BY <2>1, <2>2, Zenon DEF Tracked, OneRequest
  <2> QED
    BY <1>4, <2>3, TrackAdvance
<1>5. ASSUME NEW h \in Requests, Abort(h) PROVE FALSE
  BY <1>5, Zenon DEF Abort
<1> QED
  BY <1>1, <1>2, <1>3, <1>4, <1>5, Zenon DEF Next, OtherStep

\* Unless requests overlap or are cut off, openSession and endSession leave the lobby's
\* appointment at the state of the hearing; and unless recordingStarted or recordingStopped
\* is called with what is not so, they lose no recording.
THEOREM Tracks == Spec => []HearingIsTracked
<1>1. Init => FlagsOK /\ AloneInv /\ TrackInv
  <2> SUFFICES ASSUME Init PROVE FlagsOK /\ AloneInv /\ TrackInv
    OBVIOUS
  <2>1. FlagsOK
    BY Zenon DEF Init, FlagsOK
  <2>2. OneRequest /\ DecidingInv /\ commissions = 0
    BY DEF Init, OneRequest, Busy, DecidingInv, Deciding, Idle
  <2>3. room.status = "absent" /\ ~room.filed /\ recording = {}
    BY DEF Init, NoRoom
  <2>4. Tracked
    BY <2>3 DEF Init, Tracked, Busy, TrackedBy, RecordedBy, RecordOK, RoomOK, FileOK, Settled, Unsettled, Idle
  <2> QED
    BY <2>1, <2>2, <2>4 DEF AloneInv, TrackInv
<1>2. IInv /\ FlagsOK /\ AloneInv /\ TrackInv /\ [Next]_vars /\ IInv' => AloneInv' /\ TrackInv'
  BY AloneKeeps, TrackKeeps
<1>3. TrackInv => HearingIsTracked
  <2> SUFFICES ASSUME Tracked
               PROVE  /\ room.status # "absent" /\ (\A h \in Requests : ~Busy(h)) =>
                           app.appt # 0 /\ appts[app.appt] = ApptStatus(room.status)
                      /\ ~misreported =>
                           /\ \A e \in recording :
                                \/ room.egress = e
                                \/ \E h \in Requests : job[h].at = "open" /\ job[h].egress = e
                           /\ room.status = "ended" /\ (\A h \in Requests : ~Busy(h)) =>
                                recording = {}
    BY Zenon DEF TrackInv, HearingIsTracked
  <2>1. CASE \A h \in Requests : ~Busy(h)
    <3>1. TrackedBy(Idle)
      BY <2>1 DEF Tracked
    <3> QED
      BY <3>1 DEF TrackedBy, RecordedBy, FileOK, Settled, Unsettled, Idle
  <2>2. ASSUME NEW h \in Requests, Busy(h), ~misreported
        PROVE  \A e \in recording : room.egress = e \/ (job[h].at = "open" /\ job[h].egress = e)
    BY <2>2 DEF Tracked, TrackedBy, RecordedBy, RecordOK
  <2> QED
    BY <2>1, <2>2
<1> QED
  BY <1>1, <1>2, <1>3, FlagsKept, Invariance, PTL DEF Spec
=============================================================================
