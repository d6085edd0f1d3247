--------------------------- MODULE MCMeetingProofs ---------------------------
(***************************************************************************)
(* For any number of requests on an appointment, as long as no two of them *)
(* overlap, the read-then-write handlers keep every promise of Booking.    *)
(* For any number of requests and intents on the fee of a hearing, with    *)
(* every overlap: who joins has paid, and what was paid stays recorded.    *)
(* A meeting is one in which each of its components runs as it does alone, *)
(* so that what is proved of it alone holds of the run.                    *)
(***************************************************************************)
EXTENDS MCMeeting, TLAPS

\* A request past its checks is one that will write a status or a quote.
TypeInv ==
    /\ TypeOK
    /\ \A h \in Requests :
          at[h] = "checked" => op[h] \in {"quote", "confirmed", "declined", "cancelled",
                                         "in_session", "ended"}

\* What a request in flight still knows about the row it read.
Stands(h) ==
    /\ at[h] = "created" => status = "pending" /\ docs = "none"
    /\ at[h] = "checked" /\ op[h] = "quote" => status = "pending" /\ docs # "none"
    /\ at[h] = "priced" => status = "pending" /\ docs = "priced"
    /\ at[h] = "checked" /\ op[h] = "confirmed" =>
          status = "quote_sent" \/ (status = "pending" /\ docs = "none")
    /\ at[h] = "checked" /\ op[h] \in {"declined", "cancelled"} =>
          status \in {"pending", "quote_sent"}
    /\ at[h] = "checked" /\ op[h] = "in_session" => status = "confirmed"
    /\ at[h] = "checked" /\ op[h] = "ended" => status = "in_session" /\ enb = "completed"
    /\ at[h] = "checked" => op[h] \in {"quote", "confirmed", "declined", "cancelled",
                                       "in_session", "ended"}
    /\ at[h] = "closing" => status = "ended"
    /\ at[h] = "checked" => seen[h] = confirmedAt

AloneInv ==
    ~raced =>
        /\ \A g, h \in Requests : Busy(g) /\ Busy(h) => g = h
        /\ \A h \in Requests : Stands(h)
        /\ status = "absent" => docs = "none"

\* The columns that follow the status, and the room.
RowInv ==
    ~raced =>
        /\ canRejoin <=> status = "in_session"
        /\ declineReason <=> status = "declined"
        /\ confirmedAt <=> status \in {"confirmed", "in_session", "ended"}
        /\ room = "closed" => status = "ended"

IInv == TypeOK /\ AloneInv /\ RowInv

-----------------------------------------------------------------------------
(* Type correctness *)

\* Every variable keeps its type.
LEMMA TypePreserved == TypeInv /\ [Next]_vars => TypeInv'
<1> SUFFICES ASSUME TypeInv, [Next]_vars PROVE TypeInv'
  OBVIOUS
<1>1. ASSUME NEW h \in Requests, RequestStep(h) PROVE TypeInv'
  <2>1. CASE InsertAppointment(h)
    BY <2>1 DEF InsertAppointment, Arrive, Busy, rowVars, worldVars,
        requestVars, TypeInv, TypeOK, Statuses, Ops, Stages
  <2>2. CASE InsertDocuments(h)
    BY <2>2 DEF InsertDocuments, Done, rowVars, worldVars, requestVars, TypeInv, TypeOK,
        Statuses, Ops, Stages
  <2>3. CASE CheckQuote(h)
    BY <2>3 DEF CheckQuote, Arrive, Busy, rowVars, worldVars, requestVars,
        TypeInv, TypeOK, Statuses, Ops, Stages
  <2>4. CASE PriceDocuments(h)
    BY <2>4 DEF PriceDocuments, Goto, rowVars, worldVars, requestVars, TypeInv, TypeOK,
        Statuses, Ops, Stages
  <2>5. CASE SendQuote(h)
    BY <2>5 DEF SendQuote, Done, rowVars, worldVars, requestVars, TypeInv, TypeOK,
        Statuses, Ops, Stages
  <2>6. CASE CheckConfirm(h)
    BY <2>6 DEF CheckConfirm, Arrive, Busy, rowVars, worldVars, requestVars,
        TypeInv, TypeOK, Statuses, Ops, Stages
  <2>7. CASE CheckDecline(h)
    BY <2>7 DEF CheckDecline, Arrive, Busy, rowVars, worldVars, requestVars,
        TypeInv, TypeOK, Statuses, Ops, Stages
  <2>8. CASE CheckCancel(h)
    BY <2>8 DEF CheckCancel, Arrive, Busy, rowVars, worldVars, requestVars,
        TypeInv, TypeOK, Statuses, Ops, Stages
  <2>9. CASE CheckStart(h)
    BY <2>9 DEF CheckStart, Arrive, Busy, rowVars, worldVars, requestVars,
        TypeInv, TypeOK, Statuses, Ops, Stages
  <2>10. CASE Rejoin(h)
    BY <2>10 DEF Rejoin, Arrive, Busy, rowVars, worldVars, requestVars, TypeInv, TypeOK,
        Statuses, Ops, Stages
  <2>11. CASE CheckEnd(h)
    BY <2>11 DEF CheckEnd, Arrive, Busy, rowVars, worldVars, requestVars,
        TypeInv, TypeOK, Statuses, Ops, Stages
  <2>12. CASE WriteStatus(h)
    <3>1. CASE op[h] = "in_session"
      BY <2>12, <3>1 DEF WriteStatus, Done, Goto, Startable, rowVars, worldVars, TypeInv,
          TypeOK, Statuses, Ops, Stages
    <3>2. CASE op[h] = "ended"
      BY <2>12, <3>2 DEF WriteStatus, Done, Goto, Startable, rowVars, worldVars, TypeInv,
          TypeOK, Statuses, Ops, Stages
    <3>3. CASE op[h] \notin {"in_session", "ended"}
      BY <2>12, <3>3 DEF WriteStatus, Done, Goto, Startable, rowVars, worldVars, TypeInv,
          TypeOK, Statuses, Ops, Stages
    <3>4. QED
      BY <3>1, <3>2, <3>3
  <2>13. CASE LookForRoom(h)
    <3>1. UNCHANGED <<status, docs, enb, canStart, canRejoin, confirmedAt,
                      declineReason, room, fit, phase>>
      BY <2>13 DEF LookForRoom, rowVars, worldVars
    <3>2. CASE Goto(h, "insert")
      BY <3>1, <3>2 DEF Goto, TypeInv, TypeOK, Ops, Stages
    <3>3. CASE Done(h)
      BY <3>1, <3>3 DEF Done, TypeInv, TypeOK, Ops, Stages
    <3>4. QED
      BY <2>13, <3>2, <3>3 DEF LookForRoom
  <2>14. CASE InsertRoom(h)
    BY <2>14 DEF InsertRoom, Done, rowVars, worldVars, requestVars, TypeInv, TypeOK,
        Statuses, Ops, Stages
  <2>15. CASE CloseRoom(h)
    BY <2>15 DEF CloseRoom, Done, rowVars, worldVars, requestVars, TypeInv, TypeOK,
        Statuses, Ops, Stages
  <2>16. CASE Abort(h)
    BY <2>16 DEF Abort, Done, Busy, rowVars, worldVars, requestVars, TypeInv, TypeOK,
        Statuses, Ops, Stages
  <2>17. QED
    BY <1>1, <2>1, <2>2, <2>3, <2>4, <2>5, <2>6, <2>7, <2>8, <2>9, <2>10, <2>11,
        <2>12, <2>13, <2>14, <2>15, <2>16 DEF RequestStep
<1>2. CASE RefreshCanStart
  BY <1>2 DEF RefreshCanStart, Startable, rowVars, worldVars, requestVars,
      TypeInv, TypeOK, Statuses, Ops, Stages
<1>3. CASE EnbProgress
  <2>1. raced' \in BOOLEAN
    BY <1>3, Zenon DEF EnbProgress, TypeInv, TypeOK
  <2>2. QED
    BY <1>3, <2>1 DEF EnbProgress, rowVars, worldVars, TypeInv, TypeOK, Statuses,
        Ops, Stages
<1>4. CASE FitnessChanges
  BY <1>4 DEF FitnessChanges, rowVars, worldVars, requestVars, TypeInv, TypeOK, Statuses,
      Ops, Stages
<1>5. CASE TimePasses
  BY <1>5 DEF TimePasses, rowVars, worldVars, requestVars, TypeInv, TypeOK, Statuses,
      Ops, Stages
<1>6. CASE UNCHANGED vars
  BY <1>6 DEF vars, rowVars, worldVars, requestVars, TypeInv, TypeOK, Statuses, Ops,
      Stages
<1>7. QED
  BY <1>1, <1>2, <1>3, <1>4, <1>5, <1>6 DEF Next

\* The handlers, the cron and the clock keep every variable in its type.
THEOREM TypeCorrect == Spec => []TypeOK
<1>1. Init => TypeInv
  BY DEF Init, TypeInv, TypeOK, Statuses, Ops, Stages
<1>2. TypeInv => TypeOK
  BY DEF TypeInv
<1>3. QED
  BY <1>1, <1>2, TypePreserved, PTL DEF Spec

-----------------------------------------------------------------------------
(* A request that runs alone knows the row *)

\* Until two requests have overlapped, what a request has read still stands.
LEMMA AlonePreserved == TypeOK /\ AloneInv /\ [Next]_vars => AloneInv'
<1> SUFFICES ASSUME TypeOK, AloneInv, [Next]_vars, ~raced' PROVE AloneInv'
  BY DEF AloneInv
<1>1. ASSUME NEW h \in Requests, RequestStep(h) PROVE AloneInv'
  <2>1. CASE InsertAppointment(h)
    <3>1. /\ ~Busy(h) /\ ~raced /\ \A g \in Requests \ {h} : ~Busy(g)
          /\ at' = [at EXCEPT ![h] = "created"]
          /\ op' = [op EXCEPT ![h] = "create"]
          /\ status' = "pending" /\ docs' = docs
      BY <2>1 DEF InsertAppointment, Arrive
    <3>2. docs = "none"
      BY <2>1, <3>1 DEF InsertAppointment, AloneInv
    <3>3. \A g \in Requests : at'[g] = IF g = h THEN "created" ELSE "idle"
      BY <3>1 DEF Busy, TypeOK
    <3>4. QED
      BY <3>1, <3>2, <3>3 DEF AloneInv, Stands, Busy
  <2>2. CASE InsertDocuments(h)
    BY <2>2 DEF InsertDocuments, Done, rowVars, worldVars, requestVars,
        AloneInv, Stands, Busy, TypeOK, Stages, Ops
  <2>3. CASE CheckQuote(h)
    BY <2>3 DEF CheckQuote, Arrive, Busy, rowVars, worldVars, requestVars,
        AloneInv, Stands, TypeOK, Stages, Ops
  <2>4. CASE PriceDocuments(h)
    BY <2>4 DEF PriceDocuments, Goto, rowVars, worldVars, requestVars, AloneInv,
        Stands, Busy, TypeOK, Stages, Ops
  <2>5. CASE SendQuote(h)
    BY <2>5 DEF SendQuote, Done, rowVars, worldVars, requestVars, AloneInv,
        Stands, Busy, TypeOK, Stages, Ops
  <2>6. CASE CheckConfirm(h)
    BY <2>6 DEF CheckConfirm, Arrive, Busy, rowVars, worldVars, requestVars,
        AloneInv, Stands, TypeOK, Stages, Ops
  <2>7. CASE CheckDecline(h)
    BY <2>7 DEF CheckDecline, Arrive, Busy, rowVars, worldVars, requestVars,
        AloneInv, Stands, TypeOK, Stages, Ops
  <2>8. CASE CheckCancel(h)
    BY <2>8 DEF CheckCancel, Arrive, Busy, rowVars, worldVars, requestVars,
        AloneInv, Stands, TypeOK, Stages, Ops
  <2>9. CASE CheckStart(h)
    BY <2>9 DEF CheckStart, Arrive, Busy, rowVars, worldVars, requestVars,
        AloneInv, Stands, TypeOK, Stages, Ops
  <2>10. CASE Rejoin(h)
    BY <2>10 DEF Rejoin, Arrive, Busy, rowVars, worldVars, requestVars,
        AloneInv, Stands, TypeOK, Stages, Ops
  <2>11. CASE CheckEnd(h)
    BY <2>11 DEF CheckEnd, Arrive, Busy, rowVars, worldVars, requestVars,
        AloneInv, Stands, TypeOK, Stages, Ops
  <2>12. CASE WriteStatus(h)
    BY <2>12 DEF WriteStatus, Done, Goto, Startable, rowVars, worldVars,
        requestVars, AloneInv, Stands, Busy, TypeOK, Stages, Ops
  <2>13. CASE LookForRoom(h)
    BY <2>13 DEF LookForRoom, Done, Goto, rowVars, worldVars, requestVars,
        AloneInv, Stands, Busy, TypeOK, Stages, Ops
  <2>14. CASE InsertRoom(h)
    BY <2>14 DEF InsertRoom, Done, rowVars, worldVars, requestVars, AloneInv,
        Stands, Busy, TypeOK, Stages, Ops
  <2>15. CASE CloseRoom(h)
    BY <2>15 DEF CloseRoom, Done, rowVars, worldVars, requestVars, AloneInv,
        Stands, Busy, TypeOK, Stages, Ops
  <2>16. CASE Abort(h)
    BY <2>16 DEF Abort, Done, Busy, rowVars, worldVars, requestVars, AloneInv,
        Stands, TypeOK, Stages, Ops
  <2>17. QED
    BY <1>1, <2>1, <2>2, <2>3, <2>4, <2>5, <2>6, <2>7, <2>8, <2>9, <2>10, <2>11,
        <2>12, <2>13, <2>14, <2>15, <2>16 DEF RequestStep
<1>2. CASE RefreshCanStart
  BY <1>2 DEF RefreshCanStart, Startable, rowVars, worldVars, requestVars,
      AloneInv, Stands, Busy, TypeOK, Stages, Ops
<1>3. CASE EnbProgress
  BY <1>3 DEF EnbProgress, rowVars, worldVars, requestVars, AloneInv, Stands,
      Busy, TypeOK, Stages, Ops
<1>4. CASE FitnessChanges
  BY <1>4 DEF FitnessChanges, rowVars, worldVars, requestVars, AloneInv, Stands,
      Busy, TypeOK, Stages, Ops
<1>5. CASE TimePasses
  BY <1>5 DEF TimePasses, rowVars, worldVars, requestVars, AloneInv, Stands,
      Busy, TypeOK, Stages, Ops
<1>6. CASE UNCHANGED vars
  BY <1>6 DEF vars, rowVars, worldVars, requestVars, AloneInv, Stands, Busy,
      TypeOK, Stages, Ops
<1>7. QED
  BY <1>1, <1>2, <1>3, <1>4, <1>5, <1>6 DEF Next

\* ... and the row agrees with its status.
LEMMA RowPreserved == TypeOK /\ AloneInv /\ RowInv /\ [Next]_vars => RowInv'
<1> SUFFICES ASSUME TypeOK, AloneInv, RowInv, [Next]_vars, ~raced' PROVE RowInv'
  BY DEF RowInv
<1>1. ASSUME NEW h \in Requests, RequestStep(h) PROVE RowInv'
  <2>1. CASE InsertAppointment(h)
    BY <2>1 DEF InsertAppointment, Arrive, Busy, rowVars, worldVars,
        requestVars, AloneInv, Stands, RowInv, TypeOK
  <2>2. CASE InsertDocuments(h)
    BY <2>2 DEF InsertDocuments, Done, rowVars, worldVars, requestVars,
        AloneInv, Stands, RowInv, Busy, TypeOK
  <2>3. CASE CheckQuote(h)
    BY <2>3 DEF CheckQuote, Arrive, Busy, rowVars, worldVars, requestVars,
        AloneInv, Stands, RowInv, TypeOK
  <2>4. CASE PriceDocuments(h)
    BY <2>4 DEF PriceDocuments, Goto, rowVars, worldVars, requestVars, AloneInv,
        Stands, RowInv, Busy, TypeOK
  <2>5. CASE SendQuote(h)
    BY <2>5 DEF SendQuote, Done, rowVars, worldVars, requestVars, AloneInv,
        Stands, RowInv, Busy, TypeOK
  <2>6. CASE CheckConfirm(h)
    BY <2>6 DEF CheckConfirm, Arrive, Busy, rowVars, worldVars, requestVars,
        AloneInv, Stands, RowInv, TypeOK
  <2>7. CASE CheckDecline(h)
    BY <2>7 DEF CheckDecline, Arrive, Busy, rowVars, worldVars, requestVars,
        AloneInv, Stands, RowInv, TypeOK
  <2>8. CASE CheckCancel(h)
    BY <2>8 DEF CheckCancel, Arrive, Busy, rowVars, worldVars, requestVars,
        AloneInv, Stands, RowInv, TypeOK
  <2>9. CASE CheckStart(h)
    BY <2>9 DEF CheckStart, Arrive, Busy, rowVars, worldVars, requestVars,
        AloneInv, Stands, RowInv, TypeOK
  <2>10. CASE Rejoin(h)
    BY <2>10 DEF Rejoin, Arrive, Busy, rowVars, worldVars, requestVars,
        AloneInv, Stands, RowInv, TypeOK
  <2>11. CASE CheckEnd(h)
    BY <2>11 DEF CheckEnd, Arrive, Busy, rowVars, worldVars, requestVars,
        AloneInv, Stands, RowInv, TypeOK
  <2>12. CASE WriteStatus(h)
    BY <2>12 DEF WriteStatus, Done, Goto, Startable, rowVars, worldVars,
        requestVars, AloneInv, Stands, RowInv, Busy, TypeOK
  <2>13. CASE LookForRoom(h)
    BY <2>13 DEF LookForRoom, Done, Goto, rowVars, worldVars, requestVars,
        AloneInv, Stands, RowInv, Busy, TypeOK
  <2>14. CASE InsertRoom(h)
    BY <2>14 DEF InsertRoom, Done, rowVars, worldVars, requestVars, AloneInv,
        Stands, RowInv, Busy, TypeOK
  <2>15. CASE CloseRoom(h)
    BY <2>15 DEF CloseRoom, Done, rowVars, worldVars, requestVars, AloneInv,
        Stands, RowInv, Busy, TypeOK
  <2>16. CASE Abort(h)
    BY <2>16 DEF Abort, Done, Busy, rowVars, worldVars, requestVars, AloneInv,
        Stands, RowInv, TypeOK
  <2>17. QED
    BY <1>1, <2>1, <2>2, <2>3, <2>4, <2>5, <2>6, <2>7, <2>8, <2>9, <2>10, <2>11,
        <2>12, <2>13, <2>14, <2>15, <2>16 DEF RequestStep
<1>2. CASE RefreshCanStart
  BY <1>2 DEF RefreshCanStart, Startable, rowVars, worldVars, requestVars,
      AloneInv, Stands, RowInv, Busy, TypeOK
<1>3. CASE EnbProgress
  BY <1>3 DEF EnbProgress, rowVars, worldVars, requestVars, AloneInv, Stands,
      RowInv, Busy, TypeOK
<1>4. CASE FitnessChanges
  BY <1>4 DEF FitnessChanges, rowVars, worldVars, requestVars, AloneInv, Stands,
      RowInv, Busy, TypeOK
<1>5. CASE TimePasses
  BY <1>5 DEF TimePasses, rowVars, worldVars, requestVars, AloneInv, Stands,
      RowInv, Busy, TypeOK
<1>6. CASE UNCHANGED vars
  BY <1>6 DEF vars, rowVars, worldVars, requestVars, AloneInv, Stands, RowInv,
      Busy, TypeOK
<1>7. QED
  BY <1>1, <1>2, <1>3, <1>4, <1>5, <1>6 DEF Next

\* The inductive invariant.
THEOREM Invariant == Spec => []IInv
<1>1. Init => AloneInv /\ RowInv
  BY DEF Init, AloneInv, RowInv, Stands, Busy
<1>2. Spec => [](AloneInv /\ RowInv)
  BY <1>1, TypeCorrect, AlonePreserved, RowPreserved, PTL DEF Spec
<1>3. QED
  BY <1>2, TypeCorrect, PTL DEF IInv

-----------------------------------------------------------------------------
(* The properties *)

\* Until two requests have overlapped, the flags, the confirmation time and the
\* decline reason agree with the status.
THEOREM Coherent == Spec => []RowCoherent
<1>1. IInv => RowCoherent
  BY DEF IInv, RowInv, RowCoherent
<1>2. QED
  BY <1>1, Invariant, PTL

\* Until two requests have overlapped, no meeting in session has a closed room.
THEOREM RoomOpen == Spec => []InSessionRoomOpen
<1>1. IInv => InSessionRoomOpen
  BY DEF IInv, RowInv, InSessionRoomOpen
<1>2. QED
  BY <1>1, Invariant, PTL

\* What has overlapped has overlapped for good.
LEMMA RacedStays == raced /\ [Next]_vars => raced'
<1> SUFFICES ASSUME raced, [Next]_vars PROVE raced'
  OBVIOUS
<1>1. ASSUME NEW h \in Requests, RequestStep(h) PROVE raced'
  BY <1>1 DEF RequestStep, InsertAppointment, InsertDocuments, CheckQuote, PriceDocuments,
      SendQuote, CheckConfirm, CheckDecline, CheckCancel, CheckStart, Rejoin, CheckEnd,
      WriteStatus, LookForRoom, InsertRoom, CloseRoom, Abort, Arrive, Goto, Done
<1>2. CASE RefreshCanStart \/ EnbProgress \/ FitnessChanges \/ TimePasses
  BY <1>2 DEF RefreshCanStart, EnbProgress, FitnessChanges, TimePasses, requestVars
<1>3. CASE UNCHANGED vars
  BY <1>3 DEF vars, requestVars
<1>4. QED
  BY <1>1, <1>2, <1>3 DEF Next

\* One step of a request alone is a step of Booking or leaves it unchanged.
LEMMA StepKeepsPromise ==
    TypeOK /\ AloneInv /\ ~raced' /\ [Next]_vars => [Promise!Next]_(Promise!vars)
<1> SUFFICES ASSUME TypeOK, AloneInv, ~raced, [Next]_vars, ~raced'
             PROVE  [Promise!Next]_(Promise!vars)
  BY RacedStays DEF vars
<1>1. ASSUME NEW h \in Requests, RequestStep(h) PROVE [Promise!Next]_(Promise!vars)
  <2>1. CASE InsertAppointment(h)
    BY <2>1 DEF InsertAppointment, Arrive, Busy, rowVars, worldVars,
        requestVars, AloneInv, Stands, TypeOK, Ops, Promise!Request,
        Promise!Move, Promise!Next, Promise!vars
  <2>2. CASE InsertDocuments(h)
    BY <2>2 DEF InsertDocuments, Done, rowVars, worldVars, requestVars,
        AloneInv, Stands, Busy, TypeOK, Ops, Promise!Attach, Promise!Move,
        Promise!Next, Promise!vars
  <2>3. CASE CheckQuote(h)
    BY <2>3 DEF CheckQuote, Arrive, Busy, rowVars, worldVars, requestVars,
        AloneInv, Stands, TypeOK, Ops, Promise!vars
  <2>4. CASE PriceDocuments(h)
    BY <2>4 DEF PriceDocuments, Goto, rowVars, worldVars, requestVars, AloneInv,
        Stands, Busy, TypeOK, Ops, Promise!Price, Promise!Move, Promise!Next,
        Promise!vars
  <2>5. CASE SendQuote(h)
    BY <2>5 DEF SendQuote, Done, rowVars, worldVars, requestVars, AloneInv,
        Stands, Busy, TypeOK, Ops, Promise!Quote, Promise!Move, Promise!Next,
        Promise!vars
  <2>6. CASE CheckConfirm(h)
    BY <2>6 DEF CheckConfirm, Arrive, Busy, rowVars, worldVars, requestVars,
        AloneInv, Stands, TypeOK, Ops, Promise!vars
  <2>7. CASE CheckDecline(h)
    BY <2>7 DEF CheckDecline, Arrive, Busy, rowVars, worldVars, requestVars,
        AloneInv, Stands, TypeOK, Ops, Promise!vars
  <2>8. CASE CheckCancel(h)
    BY <2>8 DEF CheckCancel, Arrive, Busy, rowVars, worldVars, requestVars,
        AloneInv, Stands, TypeOK, Ops, Promise!vars
  <2>9. CASE CheckStart(h)
    BY <2>9 DEF CheckStart, Arrive, Busy, rowVars, worldVars, requestVars,
        AloneInv, Stands, TypeOK, Ops, Promise!vars
  <2>10. CASE Rejoin(h)
    BY <2>10 DEF Rejoin, Arrive, Busy, rowVars, worldVars, requestVars,
        AloneInv, Stands, TypeOK, Ops, Promise!vars
  <2>11. CASE CheckEnd(h)
    BY <2>11 DEF CheckEnd, Arrive, Busy, rowVars, worldVars, requestVars,
        AloneInv, Stands, TypeOK, Ops, Promise!vars
  <2>12. CASE WriteStatus(h)
    BY <2>12 DEF WriteStatus, Done, Goto, Startable, rowVars, worldVars,
        requestVars, AloneInv, Stands, Busy, TypeOK, Ops, Promise!Accept,
        Promise!Confirm, Promise!Decline, Promise!Cancel, Promise!Start,
        Promise!End, Promise!Move, Promise!Next, Promise!vars
  <2>13. CASE LookForRoom(h)
    BY <2>13 DEF LookForRoom, Done, Goto, rowVars, worldVars, requestVars,
        AloneInv, Stands, Busy, TypeOK, Ops, Promise!vars
  <2>14. CASE InsertRoom(h)
    BY <2>14 DEF InsertRoom, Done, rowVars, worldVars, requestVars, AloneInv,
        Stands, Busy, TypeOK, Ops, Promise!vars
  <2>15. CASE CloseRoom(h)
    BY <2>15 DEF CloseRoom, Done, rowVars, worldVars, requestVars, AloneInv,
        Stands, Busy, TypeOK, Ops, Promise!vars
  <2>16. CASE Abort(h)
    BY <2>16 DEF Abort, Done, Busy, rowVars, worldVars, requestVars, AloneInv,
        Stands, TypeOK, Ops, Promise!vars
  <2>17. QED
    BY <1>1, <2>1, <2>2, <2>3, <2>4, <2>5, <2>6, <2>7, <2>8, <2>9, <2>10, <2>11,
        <2>12, <2>13, <2>14, <2>15, <2>16 DEF RequestStep
<1>2. CASE RefreshCanStart
  BY <1>2 DEF RefreshCanStart, Startable, rowVars, worldVars, requestVars,
      AloneInv, Stands, Busy, TypeOK, Ops, Promise!vars
<1>3. CASE EnbProgress
  BY <1>3 DEF EnbProgress, rowVars, worldVars, requestVars, AloneInv, Stands,
      Busy, TypeOK, Ops, Promise!SignBook, Promise!Move, Promise!Next,
      Promise!vars
<1>4. CASE FitnessChanges
  BY <1>4 DEF FitnessChanges, rowVars, worldVars, requestVars, AloneInv, Stands,
      Busy, TypeOK, Ops, Promise!vars
<1>5. CASE TimePasses
  BY <1>5 DEF TimePasses, rowVars, worldVars, requestVars, AloneInv, Stands,
      Busy, TypeOK, Ops, Promise!vars
<1>6. CASE UNCHANGED vars
  BY <1>6 DEF vars, rowVars, worldVars, requestVars, AloneInv, Stands, Busy,
      TypeOK, Ops, Promise!vars
<1>7. QED
  BY <1>1, <1>2, <1>3, <1>4, <1>5, <1>6 DEF Next

\* Every step before two requests overlap is one of Booking.
THEOREM Implements == Spec => KeepsPromise
<1>1. Init => Promise!Init
  BY DEF Init, Promise!Init
<1>2. IInv /\ [Next]_vars => [~raced' => Promise!Next]_(Promise!vars)
  BY StepKeepsPromise DEF IInv
<1>3. QED
  BY <1>1, <1>2, Invariant, PTL DEF Spec, KeepsPromise

\* Requests that never overlap implement Booking.
THEOREM ImplementsBooking == RaceFreeSpec => Promise!Spec
<1>1. Init => Promise!Init /\ TypeInv /\ AloneInv
  BY DEF Init, Promise!Init, AloneInv, Stands, Busy, TypeInv, TypeOK, Statuses, Ops, Stages
<1>2. TypeInv /\ AloneInv /\ [RaceFreeNext]_vars => TypeInv' /\ AloneInv'
  BY TypePreserved, AlonePreserved DEF vars, TypeInv, RaceFreeNext
<1>3. TypeInv /\ AloneInv /\ [RaceFreeNext]_vars => [Promise!Next]_(Promise!vars)
  <2>1. CASE RaceFreeNext
    BY <2>1, StepKeepsPromise DEF TypeInv, RaceFreeNext
  <2>2. CASE UNCHANGED vars
    BY <2>2 DEF vars, rowVars, Promise!vars
  <2>3. QED
    BY <2>1, <2>2
<1>4. QED
  BY <1>1, <1>2, <1>3, PTL DEF RaceFreeSpec, Promise!Spec

-----------------------------------------------------------------------------
(* The fee of a hearing: an intent that was paid stays recorded *)

FeeRow == [status : {"absent", "pending", "processing", "succeeded", "failed", "cancelled"}, qr : BOOLEAN]

\* An intent whose QR code is being asked for is there, without a code and in the hands of one
\* request; only what was captured, or an administrator has marked, is succeeded.
FeeInv ==
    /\ intents \in [Fee!IntentIds -> FeeRow] /\ captured \subseteq Fee!IntentIds
    /\ paying \in [Requests -> Fee!Jobs]
    /\ \A i \in captured : intents[i].qr
    /\ \A i \in Fee!IntentIds : intents[i].qr => intents[i].status # "absent"
    /\ \A h \in Requests : paying[h].at = "request" =>
          /\ intents[paying[h].id].status # "absent" /\ ~intents[paying[h].id].qr
          /\ \A g \in Requests : paying[g].at = "request" /\ paying[g].id = paying[h].id => g = h
    /\ marked \/ \A i \in Fee!IntentIds : intents[i].status = "succeeded" => i \in captured
    /\ Fee!JoinedHasPaid

LEMMA FeeJobs ==
    ASSUME NEW j \in Fee!Jobs
    PROVE  /\ j.at \in {"request", "poll"} => j.id \in Fee!IntentIds
           /\ j.at = "idle" => j = Fee!Idle
  BY DEF Fee!Jobs, Fee!Idle

LEMMA InitFee == Fee!Init => FeeInv
<1> SUFFICES ASSUME Fee!Init PROVE FeeInv
  OBVIOUS
<1>1. Fee!Idle \in Fee!Jobs /\ Fee!Idle.at # "request"
  BY DEF Fee!Idle, Fee!Jobs
<1>2. Fee!NoIntent \in FeeRow /\ ~Fee!NoIntent.qr /\ Fee!NoIntent.status = "absent"
  BY DEF Fee!NoIntent, FeeRow
<1> QED
  BY <1>1, <1>2 DEF Fee!Init, FeeInv, Fee!JoinedHasPaid

\* What has happened to the intents, apart from an answer of HitPay, and to what was paid.
FeeGoesOn ==
    /\ intents' \in [Fee!IntentIds -> FeeRow]
    /\ \A i \in Fee!IntentIds :
          /\ intents'[i].qr = intents[i].qr
          /\ intents[i].status # "absent" => intents'[i].status # "absent"
          /\ intents[i].status = "succeeded" => intents'[i].status = "succeeded"
          /\ intents'[i].status = "succeeded" => intents[i].status = "succeeded" \/ i \in captured \/ marked'
    /\ captured \subseteq captured' /\ captured' \subseteq {i \in Fee!IntentIds : intents[i].qr}
    /\ marked => marked'

\* A step that gives no request an intent to ask the code of.
LEMMA FeeStep ==
    ASSUME FeeInv, FeeGoesOn, paying' \in [Requests -> Fee!Jobs],
           \A h \in Requests : paying'[h].at = "request" => paying'[h] = paying[h],
           joined' => joined \/ Fee!Paid
    PROVE  FeeInv'
<1>1. \A h \in Requests : paying'[h].at = "request" => paying'[h].id \in Fee!IntentIds
  BY FeeJobs
<1>2. \A h \in Requests : paying'[h].at = "request" =>
         /\ intents'[paying'[h].id].status # "absent" /\ ~intents'[paying'[h].id].qr
         /\ \A g \in Requests : paying'[g].at = "request" /\ paying'[g].id = paying'[h].id => g = h
  BY <1>1 DEF FeeInv, FeeGoesOn
<1>3. marked' \/ \A i \in Fee!IntentIds : intents'[i].status = "succeeded" => i \in captured'
  BY DEF FeeInv, FeeGoesOn
<1>4. Fee!JoinedHasPaid'
  <2>1. CASE joined
    BY <2>1 DEF FeeInv, FeeGoesOn, Fee!JoinedHasPaid
  <2>2. CASE Fee!Paid
    <3>1. PICK i \in Fee!IntentIds : intents'[i].status = "succeeded"
      BY <2>2 DEF Fee!Paid, FeeGoesOn
    <3> QED
      BY <3>1, <1>3 DEF Fee!JoinedHasPaid
  <2> QED
    BY <2>1, <2>2 DEF Fee!JoinedHasPaid
<1>5. /\ \A i \in captured' : intents'[i].qr
      /\ \A i \in Fee!IntentIds : intents'[i].qr => intents'[i].status # "absent"
  BY DEF FeeInv, FeeGoesOn
<1> QED
  BY <1>2, <1>3, <1>4, <1>5 DEF FeeInv, FeeGoesOn

LEMMA FeeMoves ==
    ASSUME FeeInv, NEW h \in Requests, NEW j \in Fee!Jobs, paying' = [paying EXCEPT ![h] = j]
    PROVE  /\ paying' \in [Requests -> Fee!Jobs] /\ paying'[h] = j
           /\ \A g \in Requests : g # h => paying'[g] = paying[g]
  BY DEF FeeInv

\* The steps that leave the intents alone.
LEMMA FeeStays ==
    ASSUME FeeInv, UNCHANGED <<intents, captured, marked>>
    PROVE  FeeGoesOn
  BY DEF FeeInv, FeeGoesOn

\* Requests that arrive, join or stop.
LEMMA FeeCalls ==
    ASSUME FeeInv, NEW h \in Requests,
           Fee!CheckPay(h) \/ Fee!CheckPoll(h) \/ Fee!CheckJoin(h) \/ Fee!Join(h) \/ Fee!Abort(h)
    PROVE  FeeInv' /\ FeeGoesOn
<1>1. PICK j \in Fee!Jobs : j.at # "request" /\ paying' = [paying EXCEPT ![h] = j]
  <2>1. CASE Fee!CheckPay(h)
    BY <2>1 DEF Fee!CheckPay, Fee!Arrive, Fee!Jobs
  <2>2. CASE Fee!CheckPoll(h)
    <3>1. PICK i \in Fee!IntentIds : Fee!Arrive(h, [at |-> "poll", id |-> i])
      BY <2>2 DEF Fee!CheckPoll
    <3>2. [at |-> "poll", id |-> i] \in Fee!Jobs
      BY DEF Fee!Jobs
    <3> QED
      BY <3>1, <3>2 DEF Fee!Arrive
  <2>3. CASE Fee!CheckJoin(h)
    BY <2>3 DEF Fee!CheckJoin, Fee!Arrive, Fee!Jobs
  <2>4. CASE Fee!Join(h) \/ Fee!Abort(h)
    BY <2>4 DEF Fee!Join, Fee!Abort, Fee!Goto, Fee!Idle, Fee!Jobs
  <2> QED
    BY <2>1, <2>2, <2>3, <2>4
<1>2. UNCHANGED <<intents, captured, marked>>
  BY DEF Fee!CheckPay, Fee!CheckPoll, Fee!CheckJoin, Fee!Join, Fee!Abort, Fee!Arrive, Fee!paidVars
<1>3. joined' => joined \/ Fee!Paid
  BY DEF Fee!CheckPay, Fee!CheckPoll, Fee!CheckJoin, Fee!Join, Fee!Abort, Fee!Arrive, Fee!lobbyVars
<1>4. FeeGoesOn
  BY <1>2, FeeStays
<1> QED
  BY <1>1, <1>3, <1>4, FeeMoves, FeeStep

\* A write of one intent.
LEMMA FeeWritten ==
    ASSUME FeeInv, NEW i \in Fee!IntentIds, NEW s \in {"pending", "processing", "succeeded", "failed", "cancelled"},
           intents' = [intents EXCEPT ![i].status = s]
    PROVE  /\ intents' \in [Fee!IntentIds -> FeeRow]
           /\ intents'[i].status = s /\ intents'[i].qr = intents[i].qr
           /\ \A k \in Fee!IntentIds : k # i => intents'[k] = intents[k]
  BY DEF FeeInv, FeeRow

\* An intent that is there is recorded as paid.
LEMMA FeeRecords ==
    ASSUME FeeInv, NEW i \in Fee!IntentIds, intents[i].status # "absent", i \in captured \/ marked',
           intents' = [intents EXCEPT ![i].status = "succeeded"], UNCHANGED captured, marked => marked'
    PROVE  FeeGoesOn
<1>1. /\ intents' \in [Fee!IntentIds -> FeeRow]
      /\ intents'[i].status = "succeeded" /\ intents'[i].qr = intents[i].qr
      /\ \A k \in Fee!IntentIds : k # i => intents'[k] = intents[k]
  BY FeeWritten
<1> QED
  BY <1>1 DEF FeeInv, FeeGoesOn

\* What happens at HitPay, in its webhook, and by an administrator and the reaper.
LEMMA FeeOutside ==
    ASSUME FeeInv, NEW i \in Fee!IntentIds,
           Fee!Capture(i) \/ Fee!Webhook(i) \/ Fee!AdminMarks(i) \/ Fee!ReapPending(i)
    PROVE  FeeInv' /\ FeeGoesOn
<1>1. UNCHANGED <<paying, joined>>
  BY DEF Fee!Capture, Fee!Webhook, Fee!AdminMarks, Fee!ReapPending, Fee!lobbyVars
<1>2. FeeGoesOn
  <2>1. CASE Fee!Capture(i)
    BY <2>1 DEF Fee!Capture, FeeInv, FeeGoesOn
  <2>2. CASE Fee!Webhook(i)
    <3>1. i \in captured /\ intents' = [intents EXCEPT ![i].status = "succeeded"] /\ UNCHANGED <<captured, marked>>
      BY <2>2 DEF Fee!Webhook, Fee!paidVars
    <3>2. intents[i].status # "absent"
      BY <3>1 DEF FeeInv
    <3> QED
      BY <3>1, <3>2, FeeRecords
  <2>3. CASE Fee!AdminMarks(i)
    <3>1. intents' = [intents EXCEPT ![i].status = "succeeded"] /\ UNCHANGED captured /\ marked' = TRUE
      BY <2>3 DEF Fee!AdminMarks
    <3> QED
      BY <3>1, FeeWritten DEF FeeInv, FeeGoesOn
  <2>4. CASE Fee!ReapPending(i)
    <3>1. /\ intents[i].status = "pending" /\ intents' = [intents EXCEPT ![i].status = "cancelled"]
          /\ UNCHANGED <<captured, marked>>
      BY <2>4 DEF Fee!ReapPending, Fee!paidVars
    <3> QED
      BY <3>1, FeeWritten DEF FeeInv, FeeGoesOn
  <2> QED
    BY <2>1, <2>2, <2>3, <2>4
<1> QED
  BY <1>1, <1>2, FeeStep DEF FeeInv

\* A new payment cancels the active intents; a poll records what was captured.
LEMMA FeeWrites ==
    ASSUME FeeInv, NEW h \in Requests, Fee!CancelActive(h) \/ Fee!WritePoll(h)
    PROVE  FeeInv' /\ FeeGoesOn
<1>1. PICK j \in Fee!Jobs : j.at # "request" /\ paying' = [paying EXCEPT ![h] = j]
  BY DEF Fee!CancelActive, Fee!WritePoll, Fee!Goto, Fee!Idle, Fee!Jobs
<1>2. UNCHANGED <<captured, marked, joined>>
  BY DEF Fee!CancelActive, Fee!WritePoll, Fee!paidVars, Fee!lobbyVars
<1>3. FeeGoesOn
  <2>1. CASE Fee!CancelActive(h)
    <3>1. intents' = [i \in Fee!IntentIds |-> IF intents[i].status \in Fee!Active
                                              THEN [intents[i] EXCEPT !.status = "cancelled"] ELSE intents[i]]
      BY <2>1 DEF Fee!CancelActive
    <3>2. ASSUME NEW i \in Fee!IntentIds
          PROVE  /\ intents'[i] \in FeeRow /\ intents'[i].qr = intents[i].qr
                 /\ \/ intents'[i] = intents[i]
                    \/ intents[i].status \notin {"absent", "succeeded"} /\ intents'[i].status = "cancelled"
      BY <3>1 DEF FeeInv, FeeRow, Fee!Active
    <3>3. intents' \in [Fee!IntentIds -> FeeRow]
      BY <3>1, <3>2
    <3> QED
      BY <1>2, <3>2, <3>3 DEF FeeInv, FeeGoesOn
  <2>2. CASE Fee!WritePoll(h) /\ paying[h].id \notin captured
    BY <1>2, <2>2, FeeStays DEF Fee!WritePoll
  <2>3. CASE Fee!WritePoll(h) /\ paying[h].id \in captured
    <3>1. intents' = [intents EXCEPT ![paying[h].id].status = "succeeded"] /\ paying[h].id \in Fee!IntentIds
      BY <2>3 DEF Fee!WritePoll, FeeInv
    <3>2. intents[paying[h].id].status # "absent"
      BY <2>3, <3>1 DEF FeeInv
    <3> QED
      BY <1>2, <2>3, <3>1, <3>2, FeeRecords
  <2> QED
    BY <2>1, <2>2, <2>3
<1> QED
  BY <1>1, <1>2, <1>3, FeeMoves, FeeStep

\* A new intent is in the hands of the request that inserts it.
LEMMA FeeInserts ==
    ASSUME FeeInv, NEW h \in Requests, Fee!InsertIntent(h)
    PROVE  FeeInv' /\ FeeGoesOn
<1>1. PICK i \in Fee!IntentIds :
         /\ intents[i].status = "absent" /\ intents' = [intents EXCEPT ![i].status = "pending"]
         /\ paying' = [paying EXCEPT ![h] = [at |-> "request", id |-> i]]
         /\ UNCHANGED <<captured, marked, joined>>
  BY DEF Fee!InsertIntent, Fee!Goto, Fee!paidVars, Fee!lobbyVars
<1>2. /\ intents' \in [Fee!IntentIds -> FeeRow]
      /\ intents'[i].status = "pending" /\ intents'[i].qr = intents[i].qr
      /\ \A k \in Fee!IntentIds : k # i => intents'[k] = intents[k]
  BY <1>1, FeeWritten
<1>3. FeeGoesOn
  BY <1>1, <1>2 DEF FeeInv, FeeGoesOn
<1> DEFINE j == [at |-> "request", id |-> i]
<1>4. j \in Fee!Jobs /\ j.at = "request" /\ j.id = i
  BY DEF Fee!Jobs
<1>5. /\ paying' \in [Requests -> Fee!Jobs] /\ paying'[h] = j
      /\ \A g \in Requests : g # h => paying'[g] = paying[g]
  BY <1>1, <1>4, FeeMoves
<1>6. ~intents[i].qr /\ \A g \in Requests : paying[g].at = "request" => paying[g].id \in Fee!IntentIds /\ paying[g].id # i
  BY <1>1, FeeJobs DEF FeeInv
<1> HIDE DEF j
<1>7. \A g \in Requests : paying'[g].at = "request" =>
          /\ intents'[paying'[g].id].status # "absent" /\ ~intents'[paying'[g].id].qr
          /\ \A f \in Requests : paying'[f].at = "request" /\ paying'[f].id = paying'[g].id => f = g
  BY <1>2, <1>4, <1>5, <1>6 DEF FeeInv
<1>8. Fee!JoinedHasPaid'
  BY <1>1, <1>2 DEF FeeInv, Fee!JoinedHasPaid
<1> QED
  BY <1>1, <1>2, <1>3, <1>5, <1>6, <1>7, <1>8 DEF FeeInv

\* HitPay's answer is written over whatever the intent has become, which cannot have been captured:
\* its code was with nobody.
LEMMA FeeAnswers ==
    ASSUME FeeInv, NEW h \in Requests, Fee!WriteRequest(h)
    PROVE  FeeInv' /\ UNCHANGED captured /\ \A k \in captured : intents'[k] = intents[k]
<1> DEFINE i == paying[h].id
<1>1. paying[h].at = "request" /\ i \in Fee!IntentIds /\ i \notin captured /\ intents[i].status # "absent"
  BY FeeJobs DEF Fee!WriteRequest, FeeInv
<1>2. paying' = [paying EXCEPT ![h] = Fee!Idle] /\ UNCHANGED <<captured, marked, joined>>
  BY DEF Fee!WriteRequest, Fee!Goto, Fee!paidVars, Fee!lobbyVars
<1>3. Fee!Idle \in Fee!Jobs /\ Fee!Idle.at # "request"
  BY DEF Fee!Idle, Fee!Jobs
<1>4. /\ paying' \in [Requests -> Fee!Jobs] /\ paying'[h] = Fee!Idle
      /\ \A g \in Requests : g # h => paying'[g] = paying[g]
  BY <1>2, <1>3, FeeMoves
<1>5. /\ intents' \in [Fee!IntentIds -> FeeRow]
      /\ intents'[i].status \in {"processing", "failed"}
      /\ \A k \in Fee!IntentIds : k # i => intents'[k] = intents[k]
  <2>1. CASE intents' = [intents EXCEPT ![i].status = "failed"]
    BY <1>1, <2>1, FeeWritten
  <2>2. CASE intents' = [intents EXCEPT ![i] = [status |-> "processing", qr |-> TRUE]]
    BY <1>1, <2>2 DEF FeeInv, FeeRow
  <2> QED
    BY <2>1, <2>2 DEF Fee!WriteRequest
<1>6. \A k \in captured : intents'[k] = intents[k]
  BY <1>1, <1>5 DEF FeeInv
<1>7. \A g \in Requests : paying'[g].at = "request" =>
          /\ paying'[g].id \in Fee!IntentIds /\ paying'[g].id # i /\ paying'[g] = paying[g]
  BY <1>1, <1>3, <1>4, FeeJobs DEF FeeInv
<1>8. Fee!JoinedHasPaid'
  BY <1>2, <1>6 DEF FeeInv, Fee!JoinedHasPaid
<1>9. \A k \in Fee!IntentIds : intents'[k].status = "succeeded" => intents[k].status = "succeeded"
  BY <1>5
<1>10. \A k \in captured' : intents'[k].qr
  BY <1>2, <1>6 DEF FeeInv
<1>11. \A k \in Fee!IntentIds : intents'[k].qr => intents'[k].status # "absent"
  BY <1>5 DEF FeeInv
<1>12. \A g \in Requests : paying'[g].at = "request" =>
          /\ intents'[paying'[g].id].status # "absent" /\ ~intents'[paying'[g].id].qr
          /\ \A f \in Requests : paying'[f].at = "request" /\ paying'[f].id = paying'[g].id => f = g
  BY <1>5, <1>7 DEF FeeInv
<1> QED
  BY <1>2, <1>4, <1>5, <1>6, <1>8, <1>9, <1>10, <1>11, <1>12 DEF FeeInv

\* What was captured and recorded stays so.
FeeKept == \A i \in Fee!IntentIds :
              i \in captured /\ intents[i].status = "succeeded" => i \in captured' /\ intents'[i].status = "succeeded"

LEMMA NextFee == FeeInv /\ [Fee!Next]_(Fee!vars) => FeeInv' /\ FeeKept
<1> SUFFICES ASSUME FeeInv, [Fee!Next]_(Fee!vars) PROVE FeeInv' /\ FeeKept
  OBVIOUS
<1>1. FeeGoesOn => FeeKept
  BY DEF FeeGoesOn, FeeKept
<1>2. CASE UNCHANGED <<intents, captured, marked, joined, paying>>
  BY <1>1, <1>2, FeeStays, FeeStep DEF FeeInv
<1>3. CASE Fee!OpenHearing \/ Fee!EndHearing \/ Fee!PassChecks \/ UNCHANGED Fee!vars
  BY <1>2, <1>3 DEF Fee!OpenHearing, Fee!EndHearing, Fee!PassChecks, Fee!paidVars, Fee!vars
<1>4. ASSUME NEW h \in Requests, Fee!WriteRequest(h) PROVE FeeInv' /\ FeeKept
  BY <1>4, FeeAnswers DEF FeeKept
<1> QED
  BY <1>1, <1>3, <1>4, FeeCalls, FeeOutside, FeeWrites, FeeInserts DEF Fee!Next, Fee!Advance

meetingVars == <<active, bookingVars, signingVars, feeVars>>

\* The fee's tables agree in every behaviour, and a step keeps what was recorded.
LEMMA MeetingFee == FeeInv /\ [MeetingNext]_meetingVars => FeeInv' /\ FeeKept
<1> SUFFICES ASSUME FeeInv, [MeetingNext]_meetingVars PROVE FeeInv' /\ FeeKept
  OBVIOUS
<1>1. Fee!Next \/ UNCHANGED Fee!vars
  BY DEF MeetingNext, meetingVars, feeVars, Fee!vars
<1> QED
  BY <1>1, NextFee

LEMMA FeeInvariance == MeetingSpec => []FeeInv
<1>1. MeetingInit => FeeInv
  BY InitFee DEF MeetingInit
<1> QED
  BY <1>1, MeetingFee, PTL DEF MeetingSpec, meetingVars

\* Whatever the applicant's tabs, HitPay, the reaper and an administrator do at the same time, who has
\* joined the hearing has paid its fee, which is still recorded, or an administrator has said so
\* (CommissionHearingPaymentService).
THEOREM JoinedAfterPaying == MeetingSpec => []Fee!JoinedHasPaid
<1>1. FeeInv => Fee!JoinedHasPaid
  BY DEF FeeInv
<1> QED
  BY <1>1, FeeInvariance, PTL

\* The half of FeeIsRecorded that no schedule can break: a fee that was captured and recorded is
\* recorded for good, though a later payment cancels intents, and late answers are written by id.
THEOREM FeeStaysRecorded ==
    ASSUME NEW i \in Fee!IntentIds
    PROVE  MeetingSpec =>
             [](i \in captured /\ intents[i].status = "succeeded" => [](intents[i].status = "succeeded"))
<1> DEFINE Recorded == i \in captured /\ intents[i].status = "succeeded"
<1>1. FeeInv /\ Recorded /\ [MeetingNext]_meetingVars => Recorded'
  BY MeetingFee DEF FeeKept
<1>2. Recorded => intents[i].status = "succeeded"
  OBVIOUS
<1> HIDE DEF Recorded
<1>3. MeetingSpec => [](Recorded => [](intents[i].status = "succeeded"))
  BY <1>1, <1>2, FeeInvariance, PTL DEF MeetingSpec, meetingVars
<1> QED
  BY <1>3 DEF Recorded

-----------------------------------------------------------------------------
(* The components of a meeting *)

\* In a meeting the appointment, its documents and the fee of a hearing each behave as their own
\* specification says (the handlers act on different rows).
THEOREM Composes == MeetingSpec => Spec /\ Signing!Spec /\ Fee!Spec
<1>1. MeetingInit => Init /\ Signing!Init /\ Fee!Init
  BY DEF MeetingInit
<1>2. [MeetingNext]_meetingVars => [Next]_vars
  BY DEF MeetingNext, meetingVars, bookingVars
<1>3. [MeetingNext]_meetingVars => [Signing!Next]_(Signing!vars)
  BY DEF MeetingNext, meetingVars, signingVars, Signing!vars
<1>4. [MeetingNext]_meetingVars => [Fee!Next]_(Fee!vars)
  BY DEF MeetingNext, meetingVars, feeVars, Fee!vars
<1> QED
  BY <1>1, <1>2, <1>3, <1>4, PTL DEF MeetingSpec, meetingVars, Spec, Signing!Spec, Fee!Spec
=============================================================================
