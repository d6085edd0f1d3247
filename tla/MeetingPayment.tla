---------------------------- MODULE MeetingPayment ----------------------------
(***************************************************************************)
(* Collecting the session fee of one meeting: the payment intents of an    *)
(* appointment, the createMeetingPayment handler that opens a checkout at  *)
(* the provider, the operations that change the fee while the meeting is   *)
(* live, the provider's notifications, the webhook of the generic payment  *)
(* gateway, the reaper cron, the admin override and the gate that lets the *)
(* notary end the meeting.                                                 *)
(*                                                                         *)
(* No handler runs in a database transaction, so a handler is several      *)
(* actions, one per statement or external call between which other         *)
(* requests may run.  An intent is named by its rank in createdAt order.   *)
(* The client total is strictly increasing in the notarial fees, so the    *)
(* total stands for both the sum of the fees and the amount charged.       *)
(***************************************************************************)
EXTENDS Integers

CONSTANTS
    Requests,    \* concurrent invocations of createMeetingPayment
    Editors,     \* concurrent invocations of the document and fee operations
    MaxIntents,  \* bound: rows of payment_intents for this meeting
    MaxFee       \* bound: session total

ASSUME BoundsAssumption == MaxIntents \in Nat /\ MaxFee \in Nat

VARIABLES
    meeting,     \* appointments.status, from in_session on
    fee,         \* computeMeetingSessionFeeTotal: sum of the documents' feePhp
    issued,      \* intents whose createdAt has been taken
    status,      \* payment_intents.status per intent; "none": not inserted
    amount,      \* payment_intents.amount per intent
    settled,     \* the intents whose paidAt is set
    link,        \* the provider's payment request of each intent
    pc,          \* where each createMeetingPayment invocation stands
    mine,        \* the intent it is creating
    quoted,      \* the total it read
    edit,        \* where each document operation stands
    ending,      \* where updateStatus(ended) stands
    overlapped   \* history: two createMeetingPayment calls once ran together

vars == <<meeting, fee, issued, status, amount, settled, link,
          pc, mine, quoted, edit, ending, overlapped>>

Ids == 1 .. MaxIntents
Statuses == {"none", "pending", "processing", "succeeded", "failed", "cancelled"}
Stages == {"idle", "priced", "cleared", "inserted", "granted"}
Active == {"pending", "processing"}

TypeOK ==
    /\ meeting \in {"in_session", "ended"}
    /\ fee \in 0 .. MaxFee
    /\ issued \in 0 .. MaxIntents
    /\ status \in [Ids -> Statuses]
    /\ amount \in [Ids -> 0 .. MaxFee]
    /\ settled \subseteq Ids
    /\ link \in [Ids -> {"none", "minted", "open", "paid"}]
    /\ pc \in [Requests -> Stages]
    /\ mine \in [Requests -> 0 .. MaxIntents]
    /\ quoted \in [Requests -> 0 .. MaxFee]
    /\ edit \in [Editors -> {"idle", "upload", "change", "written"}]
    /\ ending \in {"idle", "checked"}
    /\ overlapped \in BOOLEAN

Init ==
    /\ meeting = "in_session"
    /\ fee = 0
    /\ issued = 0
    /\ status = [i \in Ids |-> "none"]
    /\ amount = [i \in Ids |-> 0]
    /\ settled = {}
    /\ link = [i \in Ids |-> "none"]
    /\ pc = [r \in Requests |-> "idle"]
    /\ mine = [r \in Requests |-> 0]
    /\ quoted = [r \in Requests |-> 0]
    /\ edit = [e \in Editors |-> "idle"]
    /\ ending = "idle"
    /\ overlapped = FALSE

\* findSucceededMeetingPaymentIntent
Paid == \E i \in Ids : status[i] = "succeeded"

\* findActiveMeetingPaymentIntent: the latest pending or processing intent
LatestActive(i) ==
    /\ status[i] \in Active
    /\ \A j \in Ids : status[j] \in Active => j <= i

\* Mutant: the UPDATE forgets to filter on the status.
CancelledActive_Unfiltered ==
    [i \in Ids |-> IF status[i] # "none" THEN "cancelled" ELSE status[i]]

\* The UPDATE ... WHERE status IN (pending, processing) shared by a new
\* checkout and by a fee change.  It changes rows of this database only.
CancelledActive ==
    [i \in Ids |-> IF status[i] \in Active THEN "cancelled" ELSE status[i]]

MarkSucceeded(i) ==
    /\ status' = [status EXCEPT ![i] = "succeeded"]
    /\ settled' = settled \cup {i}

\* The invocation returns, throws or dies: its locals are gone.
Return(r) ==
    /\ pc' = [pc EXCEPT ![r] = "idle"]
    /\ mine' = [mine EXCEPT ![r] = 0]
    /\ quoted' = [quoted EXCEPT ![r] = 0]

paymentVars == <<issued, status, amount, settled, link>>
createVars == <<pc, mine, quoted, overlapped>>

-----------------------------------------------------------------------------
(* createMeetingPayment *)

\* The reads: the meeting is live, some fee is due, nothing is paid yet.
ReadQuote(r) ==
    /\ pc[r] = "idle"
    /\ meeting = "in_session"
    /\ fee > 0
    /\ ~Paid
    /\ pc' = [pc EXCEPT ![r] = "priced"]
    /\ quoted' = [quoted EXCEPT ![r] = fee]
    /\ overlapped' = (overlapped \/ \E q \in Requests \ {r} : pc[q] # "idle")
    /\ UNCHANGED <<meeting, fee, mine, edit, ending>> /\ UNCHANGED paymentVars

\* Mutant: cancels pending intents and forgets the processing ones.
CancelEarlier_PendingOnly(r) ==
    /\ pc[r] = "priced"
    /\ issued < MaxIntents
    /\ status' = [i \in Ids |-> IF status[i] = "pending" THEN "cancelled" ELSE status[i]]
    /\ issued' = issued + 1
    /\ mine' = [mine EXCEPT ![r] = issued + 1]
    /\ pc' = [pc EXCEPT ![r] = "cleared"]
    /\ UNCHANGED <<meeting, fee, amount, settled, link, quoted, edit, ending, overlapped>>

\* Takes `now`, the createdAt of the new intent, and cancels the earlier ones.
CancelEarlier(r) ==
    /\ pc[r] = "priced"
    /\ issued < MaxIntents
    /\ status' = CancelledActive
    /\ issued' = issued + 1
    /\ mine' = [mine EXCEPT ![r] = issued + 1]
    /\ pc' = [pc EXCEPT ![r] = "cleared"]
    /\ UNCHANGED <<meeting, fee, amount, settled, link, quoted, edit, ending, overlapped>>

InsertIntent(r) ==
    /\ pc[r] = "cleared"
    /\ status' = [status EXCEPT ![mine[r]] = "pending"]
    /\ amount' = [amount EXCEPT ![mine[r]] = quoted[r]]
    /\ pc' = [pc EXCEPT ![r] = "inserted"]
    /\ UNCHANGED <<meeting, fee, issued, settled, link, mine, quoted, edit, ending, overlapped>>

\* Mutant: the link reaches the client before the row is updated.
ProviderGrants_LinkLeaks(r) ==
    /\ pc[r] = "inserted"
    /\ link' = [link EXCEPT ![mine[r]] = "open"]
    /\ pc' = [pc EXCEPT ![r] = "granted"]
    /\ UNCHANGED <<meeting, fee, issued, status, amount, settled, mine, quoted,
                   edit, ending, overlapped>>

\* The provider has created the payment request; nobody has its link yet.
ProviderGrants(r) ==
    /\ pc[r] = "inserted"
    /\ link' = [link EXCEPT ![mine[r]] = "minted"]
    /\ pc' = [pc EXCEPT ![r] = "granted"]
    /\ UNCHANGED <<meeting, fee, issued, status, amount, settled, mine, quoted,
                   edit, ending, overlapped>>

\* The UPDATE by id after the call, whatever the row's status has become; the
\* response carries the link to the client.
StoreCheckout(r) ==
    /\ pc[r] = "granted"
    /\ status' = [status EXCEPT ![mine[r]] = "processing"]
    /\ link' = [link EXCEPT ![mine[r]] = "open"]
    /\ Return(r)
    /\ UNCHANGED <<meeting, fee, issued, amount, settled, edit, ending, overlapped>>

\* The catch clause.
ProviderFails(r) ==
    /\ pc[r] = "inserted"
    /\ status' = [status EXCEPT ![mine[r]] = "failed"]
    /\ Return(r)
    /\ UNCHANGED <<meeting, fee, issued, amount, settled, link, edit, ending, overlapped>>

\* The replica serving the request stops.
CrashCreate(r) ==
    /\ pc[r] # "idle"
    /\ Return(r)
    /\ UNCHANGED <<meeting, fee, edit, ending, overlapped>>
    /\ UNCHANGED paymentVars

-----------------------------------------------------------------------------
(* The client at the provider, and the provider's notifications *)

\* The client pays a request it was given.  Nothing asks the provider to
\* withdraw one, so a cancelled intent's request stays payable.
ClientPays(i) ==
    /\ link[i] = "open"
    /\ link' = [link EXCEPT ![i] = "paid"]
    /\ UNCHANGED <<meeting, fee, issued, status, amount, settled, edit, ending>>
    /\ UNCHANGED createVars

\* Mutant: a notification for a row that is no longer active is dropped.
Webhook_ActiveOnly(i) ==
    /\ link[i] = "paid"
    /\ status[i] \in Active
    /\ MarkSucceeded(i)
    /\ UNCHANGED <<meeting, fee, issued, amount, link, edit, ending>>
    /\ UNCHANGED createVars

\* The notification of the intent's provider: HitPay's and TLPE's do the same to the
\* row.  Delivered late, lost or repeated: enabled as long as it would change the row.
Webhook(i) ==
    /\ link[i] = "paid"
    /\ status[i] # "succeeded"
    /\ MarkSucceeded(i)
    /\ UNCHANGED <<meeting, fee, issued, amount, link, edit, ending>>
    /\ UNCHANGED createVars

\* PaymentWebhookService.handleVerifiedJsonPayload: a signed report of the generic
\* gateway names an intent and an outcome, and is written by id over any status.
GatewayReports(i, outcome) ==
    /\ status[i] # "none"
    /\ status' = [status EXCEPT ![i] = outcome]
    /\ settled' = IF outcome = "succeeded" THEN settled \cup {i} ELSE settled \ {i}
    /\ UNCHANGED <<meeting, fee, issued, amount, link, edit, ending>>
    /\ UNCHANGED createVars

\* getMeetingPaymentStatus polls the provider for the latest active intent.
SyncFromRemote(i) ==
    /\ ~Paid
    /\ LatestActive(i)
    /\ link[i] = "paid"
    /\ MarkSucceeded(i)
    /\ UNCHANGED <<meeting, fee, issued, amount, link, edit, ending>>
    /\ UNCHANGED createVars

\* markSucceededByAdmin: one conditional UPDATE.
AdminMarksPaid(i) ==
    /\ status[i] \in Active
    /\ MarkSucceeded(i)
    /\ UNCHANGED <<meeting, fee, issued, amount, link, edit, ending>>
    /\ UNCHANGED createVars

\* Mutant: the reaper writes a status that the column does not have.
ReapPending_Expired(i) ==
    /\ status[i] = "pending"
    /\ status' = [status EXCEPT ![i] = "expired"]
    /\ UNCHANGED <<meeting, fee, issued, amount, settled, link, edit, ending>>
    /\ UNCHANGED createVars

\* expireStalePendingIntents, for one row past the age limit.
ReapPending(i) ==
    /\ status[i] = "pending"
    /\ status' = [status EXCEPT ![i] = "cancelled"]
    /\ UNCHANGED <<meeting, fee, issued, amount, settled, link, edit, ending>>
    /\ UNCHANGED createVars

-----------------------------------------------------------------------------
(* Operations of the notary and the client that change the fee *)

\* linkMeetingDocument, linkPrincipalMeetingDocument: live and not paid yet.
CheckUpload(e) ==
    /\ edit[e] = "idle"
    /\ meeting = "in_session"
    /\ fee = 0 \/ ~Paid
    /\ edit' = [edit EXCEPT ![e] = "upload"]
    /\ UNCHANGED <<meeting, fee, ending>> /\ UNCHANGED paymentVars
    /\ UNCHANGED createVars

\* The insert or update of the document row; total is the new session total.
LinkDocument(e, total) ==
    /\ edit[e] = "upload"
    /\ total > 0
    /\ fee' = total
    /\ edit' = [edit EXCEPT ![e] = "written"]
    /\ UNCHANGED <<meeting, ending>> /\ UNCHANGED paymentVars
    /\ UNCHANGED createVars

\* updateMeetingDocumentFee, deleteMeetingDocument and
\* createMeetingDocumentProject ask only that the meeting be live.
CheckChange(e) ==
    /\ edit[e] = "idle"
    /\ meeting = "in_session"
    /\ edit' = [edit EXCEPT ![e] = "change"]
    /\ UNCHANGED <<meeting, fee, ending>> /\ UNCHANGED paymentVars
    /\ UNCHANGED createVars

UpdateDocumentFee(e, total) ==
    /\ edit[e] = "change"
    /\ total > 0
    /\ fee' = total
    /\ edit' = [edit EXCEPT ![e] = "written"]
    /\ UNCHANGED <<meeting, ending>> /\ UNCHANGED paymentVars
    /\ UNCHANGED createVars

DeleteDocument(e, total) ==
    /\ edit[e] = "change"
    /\ total <= fee
    /\ fee' = total
    /\ edit' = [edit EXCEPT ![e] = "written"]
    /\ UNCHANGED <<meeting, ending>> /\ UNCHANGED paymentVars
    /\ UNCHANGED createVars

\* createMeetingDocumentProject writes a fee and never invalidates a payment.
ProjectFee(e, total) ==
    /\ edit[e] = "change"
    /\ total > 0
    /\ fee' = total
    /\ edit' = [edit EXCEPT ![e] = "idle"]
    /\ UNCHANGED <<meeting, ending>> /\ UNCHANGED paymentVars
    /\ UNCHANGED createVars

\* invalidateMeetingPaymentAfterFeeChange
Invalidate(e) ==
    /\ edit[e] = "written"
    /\ status' = IF \E i \in Ids : LatestActive(i) /\ amount[i] # fee
                   THEN CancelledActive
                   ELSE status
    /\ edit' = [edit EXCEPT ![e] = "idle"]
    /\ UNCHANGED <<meeting, fee, issued, amount, settled, link, ending>>
    /\ UNCHANGED createVars

\* An error after the write (DocOnChain provisioning, reloading the list), or
\* a refusal before it, or the end of the replica: no invalidation happens.
AbandonEdit(e) ==
    /\ edit[e] # "idle"
    /\ edit' = [edit EXCEPT ![e] = "idle"]
    /\ UNCHANGED <<meeting, fee, ending>> /\ UNCHANGED paymentVars
    /\ UNCHANGED createVars

-----------------------------------------------------------------------------
(* updateStatus(ended) *)

\* assertMeetingPaymentCompleteForEnd: any succeeded intent will do.
CheckEnd ==
    /\ ending = "idle"
    /\ meeting = "in_session"
    /\ fee = 0 \/ Paid
    /\ ending' = "checked"
    /\ UNCHANGED <<meeting, fee, edit>> /\ UNCHANGED paymentVars
    /\ UNCHANGED createVars

EndMeeting ==
    /\ ending = "checked"
    /\ meeting' = "ended"
    /\ ending' = "idle"
    /\ UNCHANGED <<fee, edit>> /\ UNCHANGED paymentVars
    /\ UNCHANGED createVars

-----------------------------------------------------------------------------
CreateStep(r) ==
    \/ ReadQuote(r)
    \/ CancelEarlier(r)
    \/ InsertIntent(r)
    \/ ProviderGrants(r)
    \/ StoreCheckout(r)
    \/ ProviderFails(r)
    \/ CrashCreate(r)

IntentStep(i) ==
    \/ ClientPays(i)
    \/ Webhook(i)
    \/ \E outcome \in {"succeeded", "failed"} : GatewayReports(i, outcome)
    \/ SyncFromRemote(i)
    \/ AdminMarksPaid(i)
    \/ ReapPending(i)

EditStep(e) ==
    \/ CheckUpload(e)
    \/ CheckChange(e)
    \/ \E total \in 0 .. MaxFee :
          \/ LinkDocument(e, total)
          \/ UpdateDocumentFee(e, total)
          \/ DeleteDocument(e, total)
          \/ ProjectFee(e, total)
    \/ Invalidate(e)
    \/ AbandonEdit(e)

Next ==
    \/ \E r \in Requests : CreateStep(r)
    \/ \E i \in Ids : IntentStep(i)
    \/ \E e \in Editors : EditStep(e)
    \/ CheckEnd
    \/ EndMeeting

Spec == Init /\ [][Next]_vars

\* A provider repeats its notification until it is answered (not once more when the
\* generic gateway has reported a failure since), and the reaper is a cron job that
\* runs every minute.  Nothing else is assumed to happen.
Fairness ==
    \A i \in Ids :
        /\ WF_vars(Webhook(i) /\ status[i] # "failed")
        /\ WF_vars(ReapPending(i))

FairSpec == Spec /\ Fairness

-----------------------------------------------------------------------------
(* Properties *)

\* Unless two createMeetingPayment calls ran at the same time, an active intent is the
\* latest one: the one that the poll asks its provider about, and whose amount a fee
\* change compares.  It is about the rows: a cancelled intent's request stays payable.
ActiveIsLatest ==
    ~overlapped => \A i \in Ids : status[i] \in Active => LatestActive(i)

\* Money the provider has captured and the system has recorded is un-recorded only by
\* a gateway's report that the intent failed: no late write of the handler that opened
\* the checkout, no cancellation and no cron takes a captured intent out of succeeded.
CapturedStaysSucceeded ==
    [][\A i \in Ids : link[i] = "paid" /\ status[i] = "succeeded"
                        => status'[i] = "succeeded" \/ GatewayReports(i, "failed")]_vars

\* A request the client can pay always has a row its notification settles.
PayableIsTracked ==
    \A i \in Ids : link[i] \in {"open", "paid"}
                     => status[i] \in {"processing", "cancelled", "succeeded", "failed"}

\* Once a meeting has ended as paid, only what was under way at its end or a gateway's
\* report of failure makes it unpaid again: a document operation past its check, or a
\* checkout that writes its own status over a recorded success.
EndedStaysPaid ==
    [][meeting = "ended" /\ (fee = 0 \/ Paid) /\ ~(fee' = 0 \/ Paid') =>
          \/ \E e \in Editors : edit[e] \in {"upload", "change"}
          \/ \E r \in Requests :
                pc[r] \in {"inserted", "granted"} /\ status[mine[r]] = "succeeded"
          \/ \E i \in Ids : GatewayReports(i, "failed")]_vars

\* Captured money is eventually recorded, even on an intent that a fee change or a newer
\* checkout cancelled in the meantime, unless the gateway reports that it failed; and a
\* checkout whose handler died before the provider answered does not stay pending.
PaymentsSettle ==
    \A i \in Ids :
        /\ link[i] = "paid" ~> status[i] \in {"succeeded", "failed"}
        /\ status[i] = "pending" ~> status[i] # "pending"

\* "Cancel in-flight HitPay requests when session document fees change"
\* (invalidateMeetingPaymentAfterFeeChange): nobody pays a request that was cancelled
\* and asks for another sum than the one that is due.
CancelledIsNotPaid ==
    [][\A i \in Ids : status[i] = "cancelled" /\ amount[i] # fee => ~ClientPays(i)]_vars
=============================================================================
