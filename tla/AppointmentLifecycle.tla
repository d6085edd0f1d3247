------------------------- MODULE AppointmentLifecycle -------------------------
(***************************************************************************)
(* The life of one appointment of kind "standard": AppointmentsService's   *)
(* create, sendBookingQuote and updateStatus (accept, decline, confirm,    *)
(* cancel, start, end), the session room of SessionsService and the        *)
(* can_start cron.                                                         *)
(*                                                                         *)
(* A handler reads the row, checks what it read, and later updates the row *)
(* by id without looking at the status again.  So every request is several *)
(* actions and other requests run in between.  Who calls is left out: each *)
(* transition has one party that may ask for it and that party may ask at  *)
(* any time.  The payment gate of "ended" is MeetingPayment's subject.     *)
(***************************************************************************)
EXTENDS Naturals

CONSTANTS Requests    \* concurrent requests on the appointment

VARIABLES
    status, docs, enb,       \* as in Booking
    canStart, canRejoin,     \* appointments.canStart, canRejoin
    confirmedAt,             \* appointments.confirmedAt is set
    declineReason,           \* appointments.declineReason is set
    room,                    \* session_rooms: "none", "live", "closed"
    fit,                     \* the notary's KYC, government ID and commission
    phase,                   \* now against the scheduled window
    op,                      \* what each request asks for
    at,                      \* where it stands
    seen,                    \* row.confirmedAt as it read it
    raced                    \* history: two requests were once in flight together

vars == <<status, docs, enb, canStart, canRejoin, confirmedAt, declineReason,
          room, fit, phase, op, at, seen, raced>>

Statuses == {"absent", "pending", "quote_sent", "confirmed", "in_session",
             "ended", "declined", "cancelled"}
Ops == {"create", "quote", "confirmed", "declined", "cancelled", "in_session", "ended"}
Stages == {"idle", "created", "checked", "priced", "ensure", "insert", "closing"}

TypeOK ==
    /\ status \in Statuses
    /\ docs \in {"none", "unpriced", "priced"}
    /\ enb \in {"not_started", "active", "completed"}
    /\ canStart \in BOOLEAN /\ canRejoin \in BOOLEAN
    /\ confirmedAt \in BOOLEAN /\ declineReason \in BOOLEAN
    /\ room \in {"none", "live", "closed"}
    /\ fit \in BOOLEAN
    /\ phase \in {"early", "open", "late"}
    /\ op \in [Requests -> Ops \cup {"none"}]
    /\ at \in [Requests -> Stages]
    /\ seen \in [Requests -> BOOLEAN]
    /\ raced \in BOOLEAN

Init ==
    /\ status = "absent" /\ docs = "none" /\ enb = "not_started"
    /\ canStart = FALSE /\ canRejoin = FALSE
    /\ confirmedAt = FALSE /\ declineReason = FALSE
    /\ room = "none"
    /\ fit = TRUE
    /\ phase = "early"
    /\ op = [h \in Requests |-> "none"]
    /\ at = [h \in Requests |-> "idle"]
    /\ seen = [h \in Requests |-> FALSE]
    /\ raced = FALSE

rowVars == <<status, docs, enb, canStart, canRejoin, confirmedAt, declineReason>>
worldVars == <<fit, phase>>

\* computeCanStart
Startable(s) == s = "confirmed" /\ phase = "open"

Busy(h) == at[h] # "idle"

\* Request h arrives: o is what it asks for, s where it stands after its reads.
Arrive(h, o, s) ==
    /\ ~Busy(h)
    /\ op' = [op EXCEPT ![h] = o]
    /\ at' = [at EXCEPT ![h] = s]
    /\ seen' = [seen EXCEPT ![h] = confirmedAt]
    /\ raced' = (raced \/ \E g \in Requests \ {h} : Busy(g))

Goto(h, s) ==
    /\ at' = [at EXCEPT ![h] = s]
    /\ UNCHANGED <<op, seen, raced>>

Done(h) ==
    /\ at' = [at EXCEPT ![h] = "idle"]
    /\ op' = [op EXCEPT ![h] = "none"]
    /\ seen' = [seen EXCEPT ![h] = FALSE]
    /\ raced' = raced

-----------------------------------------------------------------------------
(* create: the appointment, then its documents, in separate inserts *)

InsertAppointment(h) ==
    /\ status = "absent"
    /\ Arrive(h, "create", "created")
    /\ status' = "pending"
    /\ UNCHANGED <<docs, enb, canStart, canRejoin, confirmedAt, declineReason, room>>
    /\ UNCHANGED worldVars

InsertDocuments(h) ==
    /\ at[h] = "created"
    /\ docs' = "unpriced"
    /\ Done(h)
    /\ UNCHANGED <<status, enb, canStart, canRejoin, confirmedAt, declineReason, room>>
    /\ UNCHANGED worldVars

-----------------------------------------------------------------------------
(* sendBookingQuote: prices each document, then writes the status *)

CheckQuote(h) ==
    /\ status = "pending"
    /\ fit
    /\ docs # "none"
    /\ Arrive(h, "quote", "checked")
    /\ UNCHANGED rowVars /\ UNCHANGED worldVars /\ UNCHANGED room

PriceDocuments(h) ==
    /\ at[h] = "checked" /\ op[h] = "quote"
    /\ docs' = "priced"
    /\ Goto(h, "priced")
    /\ UNCHANGED <<status, enb, canStart, canRejoin, confirmedAt, declineReason, room>>
    /\ UNCHANGED worldVars

SendQuote(h) ==
    /\ at[h] = "priced"
    /\ status' = "quote_sent"
    /\ Done(h)
    /\ UNCHANGED <<docs, enb, canStart, canRejoin, confirmedAt, declineReason, room>>
    /\ UNCHANGED worldVars

-----------------------------------------------------------------------------
(* updateStatus: the checks on the row as read *)

\* Mutant: confirms without asking for a quote of the booking documents.
CheckConfirm_NoQuoteNeeded(h) ==
    /\ \/ status = "quote_sent"
       \/ status = "pending" /\ fit
    /\ Arrive(h, "confirmed", "checked")
    /\ UNCHANGED rowVars /\ UNCHANGED worldVars /\ UNCHANGED room

CheckConfirm(h) ==
    /\ \/ status = "quote_sent"                           \* by the client
       \/ status = "pending" /\ docs = "none" /\ fit      \* by the notary
    /\ Arrive(h, "confirmed", "checked")
    /\ UNCHANGED rowVars /\ UNCHANGED worldVars /\ UNCHANGED room

CheckDecline(h) ==
    /\ \/ status = "quote_sent"
       \/ status = "pending" /\ fit
    /\ Arrive(h, "declined", "checked")
    /\ UNCHANGED rowVars /\ UNCHANGED worldVars /\ UNCHANGED room

CheckCancel(h) ==
    /\ status \in {"pending", "quote_sent"}
    /\ Arrive(h, "cancelled", "checked")
    /\ UNCHANGED rowVars /\ UNCHANGED worldVars /\ UNCHANGED room

\* Nothing compares the time with the scheduled window.
CheckStart(h) ==
    /\ status = "confirmed"
    /\ fit
    /\ Arrive(h, "in_session", "checked")
    /\ UNCHANGED rowVars /\ UNCHANGED worldVars /\ UNCHANGED room

\* Either party asks for in_session again: only the room is ensured.
Rejoin(h) ==
    /\ status = "in_session"
    /\ Arrive(h, "in_session", "ensure")
    /\ UNCHANGED rowVars /\ UNCHANGED worldVars /\ UNCHANGED room

\* Mutant: closes the room before it writes the status.
CheckEnd_ClosesFirst(h) ==
    /\ status = "in_session"
    /\ enb = "completed"
    /\ Arrive(h, "ended", "checked")
    /\ room' = IF room = "live" THEN "closed" ELSE room
    /\ UNCHANGED rowVars /\ UNCHANGED worldVars

CheckEnd(h) ==
    /\ status = "in_session"
    /\ enb = "completed"
    /\ Arrive(h, "ended", "checked")
    /\ UNCHANGED rowVars /\ UNCHANGED worldVars /\ UNCHANGED room

-----------------------------------------------------------------------------
(* updateStatus: the UPDATE by id, and the room *)

WriteStatus(h) ==
    /\ at[h] = "checked" /\ op[h] # "quote"
    /\ status' = op[h]
    /\ declineReason' = (op[h] = "declined")
    /\ confirmedAt' = (op[h] = "confirmed" \/ seen[h])
    /\ canStart' = Startable(op[h])
    /\ canRejoin' = (op[h] = "in_session")
    /\ CASE op[h] = "in_session" -> Goto(h, "ensure")
         [] op[h] = "ended"      -> Goto(h, "closing")
         [] OTHER                -> Done(h)
    /\ UNCHANGED <<docs, enb, room>> /\ UNCHANGED worldVars

\* ensureRoomForAppointment reads the status and looks for the room ...
LookForRoom(h) ==
    /\ at[h] = "ensure"
    /\ IF status = "in_session" /\ room = "none" THEN Goto(h, "insert") ELSE Done(h)
    /\ UNCHANGED rowVars /\ UNCHANGED worldVars /\ UNCHANGED room

\* ... and inserts it; appointment_id is unique, so a second insert throws.
InsertRoom(h) ==
    /\ at[h] = "insert"
    /\ room' = IF room = "none" THEN "live" ELSE room
    /\ Done(h)
    /\ UNCHANGED rowVars /\ UNCHANGED worldVars

\* Mutant: writes a state that session_rooms does not have.
CloseRoom_Archives(h) ==
    /\ at[h] = "closing"
    /\ room' = "archived"
    /\ Done(h)
    /\ UNCHANGED rowVars /\ UNCHANGED worldVars

\* endRoomForAppointment
CloseRoom(h) ==
    /\ at[h] = "closing"
    /\ room' = IF room = "live" THEN "closed" ELSE room
    /\ Done(h)
    /\ UNCHANGED rowVars /\ UNCHANGED worldVars

\* The replica stops, or a later check of the same request throws.
Abort(h) ==
    /\ Busy(h)
    /\ Done(h)
    /\ UNCHANGED rowVars /\ UNCHANGED worldVars /\ UNCHANGED room

-----------------------------------------------------------------------------
(* Other actors *)

requestVars == <<op, at, seen, raced>>

\* Mutant: the cron forgets the rows that are no longer confirmed.
RefreshCanStart_ConfirmedOnly ==
    /\ status = "confirmed"
    /\ canStart' = Startable(status)
    /\ UNCHANGED <<status, docs, enb, canRejoin, confirmedAt, declineReason, room>>
    /\ UNCHANGED worldVars /\ UNCHANGED requestVars

\* AppointmentsCanStartCron, one UPDATE every minute.
RefreshCanStart ==
    /\ status = "confirmed" \/ canStart
    /\ canStart' = Startable(status)
    /\ UNCHANGED <<status, docs, enb, canRejoin, confirmedAt, declineReason, room>>
    /\ UNCHANGED worldVars /\ UNCHANGED requestVars

\* MeetingEnbSigningService, abstracted to the order of its statuses (NotarialBook
\* has the rest).  A start that overlaps the last signature writes "active" over
\* "completed", and completes the book again when it has tallied the entries.
EnbProgress ==
    /\ \/ status = "in_session" /\ enb = "not_started" /\ enb' = "active" /\ raced' = raced
       \/ status = "in_session" /\ enb = "active" /\ enb' = "completed" /\ raced' = raced
       \/ /\ status \in {"in_session", "ended"}
          /\ enb # "not_started"
          /\ enb' \in {"active", "completed"} \ {enb}
          /\ raced' = TRUE
    /\ UNCHANGED <<status, docs, canStart, canRejoin, confirmedAt, declineReason, room>>
    /\ UNCHANGED worldVars /\ UNCHANGED <<op, at, seen>>

\* The notary's identity documents or commission lapse or are renewed.
FitnessChanges ==
    /\ fit' = ~fit
    /\ UNCHANGED rowVars /\ UNCHANGED <<room, phase>> /\ UNCHANGED requestVars

TimePasses ==
    /\ \/ phase = "early" /\ phase' = "open"
       \/ phase = "open" /\ phase' = "late"
    /\ UNCHANGED rowVars /\ UNCHANGED <<room, fit>> /\ UNCHANGED requestVars

RequestStep(h) ==
    \/ InsertAppointment(h) \/ InsertDocuments(h)
    \/ CheckQuote(h) \/ PriceDocuments(h) \/ SendQuote(h)
    \/ CheckConfirm(h) \/ CheckDecline(h) \/ CheckCancel(h)
    \/ CheckStart(h) \/ Rejoin(h) \/ CheckEnd(h)
    \/ WriteStatus(h) \/ LookForRoom(h) \/ InsertRoom(h) \/ CloseRoom(h)
    \/ Abort(h)

Next ==
    \/ \E h \in Requests : RequestStep(h)
    \/ RefreshCanStart
    \/ EnbProgress
    \/ FitnessChanges
    \/ TimePasses

Spec == Init /\ [][Next]_vars

\* The cron runs every minute of the life of a replica.
Fairness == WF_vars(RefreshCanStart)

FairSpec == Spec /\ Fairness

\* The behaviours in which no two requests on this appointment overlap.
RaceFreeNext == Next /\ ~raced'

RaceFreeSpec == Init /\ [][RaceFreeNext]_vars

-----------------------------------------------------------------------------
(* Properties *)

Promise == INSTANCE Booking WITH status <- status, docs <- docs, enb <- enb

\* Until two requests overlap, every step keeps the promises of Booking, whatever
\* crashes between their statements and whatever the crons, the clock, the
\* notary's commission and the notarial book do meanwhile.
KeepsPromise == Promise!Init /\ [][~raced' => Promise!Next]_(Promise!vars)

\* A meeting in session never has a closed room, which would lock both parties
\* out of it: the room is closed only after "ended" is written.
InSessionRoomOpen == ~raced => (status = "in_session" => room # "closed")

\* The columns written along with the status stay true to it.
RowCoherent ==
    ~raced =>
        /\ canRejoin <=> status = "in_session"
        /\ declineReason <=> status = "declined"
        /\ confirmedAt <=> status \in {"confirmed", "in_session", "ended"}

\* A stale can_start (its window has passed, or a concurrent request has moved
\* the row on without clearing it) is eventually cleared.
CanStartIsRefreshed ==
    (canStart /\ ~Startable(status)) ~> (canStart => Startable(status))
=============================================================================
