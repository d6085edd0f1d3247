------------------------------ MODULE HearingFee ------------------------------
(***************************************************************************)
(* The fee of a commission hearing, which the applicant pays before        *)
(* joining: createHearingPayment, getHearingPaymentStatus, the HitPay      *)
(* webhook of an intent of purpose commission_hearing, and issueJoinToken. *)
(*                                                                         *)
(* The applicant may have several tabs, each a request.  The hearing is    *)
(* opened and ended by Commission's handlers, here in one step each.  The  *)
(* lobby's checks are of the appointment that the application links.       *)
(* Assumption: the generic webhook, which would write by id over any       *)
(* intent and has no branch for a hearing's, reports nothing about them.   *)
(***************************************************************************)
EXTENDS Naturals

CONSTANTS
    Requests,    \* concurrent calls of the applicant
    MaxIntents   \* bound on payment intents

VARIABLES
    hearing,     \* commission_hearing_rooms.status
    intents,     \* payment_intents of the hearing: status, and whether it has its QR code
    captured,    \* intents paid at HitPay
    marked,      \* history: an administrator has marked an intent as paid
    checked,     \* the applicant has passed the lobby's checks
    joined,      \* the applicant's commission_hearing_room_participants row
    job          \* what each request is doing

vars == <<hearing, intents, captured, marked, checked, joined, job>>
lobbyVars == <<hearing, checked, joined>>
paidVars == <<captured, marked>>

IntentIds == 1..MaxIntents
Active == {"pending", "processing"}
NoIntent == [status |-> "absent", qr |-> FALSE]
Idle == [at |-> "idle"]
Jobs ==
    {Idle}
    \cup [at : {"cancel", "insert", "gate"}]
    \cup [at : {"request", "poll"}, id : IntentIds]

TypeOK ==
    /\ hearing \in {"scheduled", "in_session", "ended"}
    /\ intents \in [IntentIds -> [status : {"absent", "pending", "processing", "succeeded",
                                            "failed", "cancelled"}, qr : BOOLEAN]]
    /\ marked \in BOOLEAN
    /\ captured \subseteq {i \in IntentIds : intents[i].qr}
    /\ checked \in BOOLEAN /\ joined \in BOOLEAN
    /\ job \in [Requests -> Jobs]

Init ==
    /\ hearing = "scheduled"
    /\ intents = [i \in IntentIds |-> NoIntent]
    /\ captured = {} /\ marked = FALSE
    /\ checked = FALSE /\ joined = FALSE
    /\ job = [h \in Requests |-> Idle]

Busy(h) == job[h] # Idle
Paid == \E i \in IntentIds : intents[i].status = "succeeded"

\* findActiveHearingPaymentIntent: the last one created.
LatestActive(i) ==
    /\ intents[i].status \in Active
    /\ \A j \in IntentIds : intents[j].status \in Active => j <= i

Arrive(h, j) ==
    /\ ~Busy(h)
    /\ job' = [job EXCEPT ![h] = j]
    /\ UNCHANGED <<intents, paidVars, lobbyVars>>

Goto(h, j) == job' = [job EXCEPT ![h] = j]

-----------------------------------------------------------------------------
(* createHearingPayment *)

CheckPay(h) ==
    /\ hearing = "in_session"
    /\ ~Paid
    /\ Arrive(h, [at |-> "cancel"])

\* One UPDATE of the active intents; HitPay is not told.
CancelActive(h) ==
    /\ job[h].at = "cancel"
    /\ intents' = [i \in IntentIds |->
          IF intents[i].status \in Active THEN [intents[i] EXCEPT !.status = "cancelled"]
                                          ELSE intents[i]]
    /\ Goto(h, [at |-> "insert"])
    /\ UNCHANGED <<paidVars, lobbyVars>>

InsertIntent(h) ==
    /\ job[h].at = "insert"
    /\ \E i \in IntentIds :
          /\ intents[i].status = "absent"
          /\ \A j \in 1..(i - 1) : intents[j].status # "absent"
          /\ intents' = [intents EXCEPT ![i].status = "pending"]
          /\ Goto(h, [at |-> "request", id |-> i])
    /\ UNCHANGED <<paidVars, lobbyVars>>

\* HitPay's answer is written by id, whatever the intent has become; so is its failure.
WriteRequest(h) ==
    /\ job[h].at = "request"
    /\ \/ intents' = [intents EXCEPT ![job[h].id] = [status |-> "processing", qr |-> TRUE]]
       \/ intents' = [intents EXCEPT ![job[h].id].status = "failed"]
    /\ Goto(h, Idle)
    /\ UNCHANGED <<paidVars, lobbyVars>>

-----------------------------------------------------------------------------
(* HitPay, its webhook, and getHearingPaymentStatus *)

\* The QR code reaches the applicant's tab, where it can be paid as long as the tab is
\* open: a cancelled intent can be paid.
Capture(i) ==
    /\ intents[i].qr /\ i \notin captured
    /\ captured' = captured \cup {i}
    /\ UNCHANGED <<intents, marked, job, lobbyVars>>

\* Delivered at any time; the status may be cancelled by now.
Webhook(i) ==
    /\ i \in captured /\ intents[i].status # "succeeded"
    /\ intents' = [intents EXCEPT ![i].status = "succeeded"]
    /\ UNCHANGED <<paidVars, job, lobbyVars>>

\* markSucceededByAdmin
AdminMarks(i) ==
    /\ intents[i].status \in Active
    /\ intents' = [intents EXCEPT ![i].status = "succeeded"]
    /\ marked' = TRUE
    /\ UNCHANGED <<captured, job, lobbyVars>>

\* PaymentIntentReaperCron
ReapPending(i) ==
    /\ intents[i].status = "pending"
    /\ intents' = [intents EXCEPT ![i].status = "cancelled"]
    /\ UNCHANGED <<paidVars, job, lobbyVars>>

CheckPoll(h) ==
    /\ ~Paid
    /\ \E i \in IntentIds : LatestActive(i) /\ intents[i].qr /\ Arrive(h, [at |-> "poll", id |-> i])

\* trySyncHearingPaymentFromHitpay writes by id, and only a success.
WritePoll(h) ==
    /\ job[h].at = "poll"
    /\ IF job[h].id \in captured
       THEN intents' = [intents EXCEPT ![job[h].id].status = "succeeded"]
       ELSE UNCHANGED intents
    /\ Goto(h, Idle)
    /\ UNCHANGED <<paidVars, lobbyVars>>

-----------------------------------------------------------------------------
(* issueJoinToken, and the lobby *)

PassChecks ==
    /\ hearing = "in_session" /\ ~checked
    /\ checked' = TRUE
    /\ UNCHANGED <<hearing, joined, intents, paidVars, job>>

CheckJoin(h) ==
    /\ hearing = "in_session"
    /\ Arrive(h, [at |-> "gate"])

\* Mutant: an intent whose code was shown is as good as paid.
Join_Pending(h) ==
    /\ job[h].at = "gate"
    /\ joined' = (joined \/ (checked /\ \E i \in IntentIds : intents[i].qr))
    /\ Goto(h, Idle)
    /\ UNCHANGED <<hearing, checked, intents, paidVars>>

\* assertHearingLobbyChecksOk and assertHearingPaymentSettled, then the upsert.
Join(h) ==
    /\ job[h].at = "gate"
    /\ joined' = (joined \/ (checked /\ Paid))
    /\ Goto(h, Idle)
    /\ UNCHANGED <<hearing, checked, intents, paidVars>>

\* An openSession that overlaps endSession may open the hearing again.
OpenHearing ==
    /\ hearing # "in_session"
    /\ hearing' = "in_session"
    /\ UNCHANGED <<checked, joined, intents, paidVars, job>>

EndHearing ==
    /\ hearing # "ended"
    /\ hearing' = "ended"
    /\ UNCHANGED <<checked, joined, intents, paidVars, job>>

-----------------------------------------------------------------------------

Abort(h) ==
    /\ Busy(h)
    /\ job' = [job EXCEPT ![h] = Idle]
    /\ UNCHANGED <<intents, paidVars, lobbyVars>>

Advance(h) ==
    \/ CancelActive(h) \/ InsertIntent(h) \/ WriteRequest(h) \/ WritePoll(h) \/ Join(h)

Next ==
    \/ OpenHearing \/ EndHearing \/ PassChecks
    \/ \E i \in IntentIds : Capture(i) \/ Webhook(i) \/ AdminMarks(i) \/ ReapPending(i)
    \/ \E h \in Requests : CheckPay(h) \/ CheckPoll(h) \/ CheckJoin(h) \/ Advance(h) \/ Abort(h)

Spec == Init /\ [][Next]_vars

\* HitPay repeats a webhook until it is answered.
Fairness == \A i \in IntentIds : WF_vars(Webhook(i))

FairSpec == Spec /\ Fairness

-----------------------------------------------------------------------------
(* Properties *)

\* An applicant in the hearing has paid for it, which stays recorded, or an administrator
\* has said so.
JoinedHasPaid == joined => marked \/ \E i \in captured : intents[i].status = "succeeded"

\* What was paid comes to be recorded for good, even for an intent that was cancelled.
FeeIsRecorded == \A i \in IntentIds : i \in captured ~> [](intents[i].status = "succeeded")
=============================================================================
