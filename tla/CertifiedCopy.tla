----------------------------- MODULE CertifiedCopy -----------------------------
(***************************************************************************)
(* A client's requests for one act of a notary's book: the certified true  *)
(* copy of a document of an ended session, which CtcPaymentService lets    *)
(* the client pay online, and the virtual access to the book; and the      *)
(* notary's decisions.                                                     *)
(*                                                                         *)
(* The client's identity is verified, the act is in the book and TLPE is   *)
(* configured; the sandbox's simulated payment is left out.  A request     *)
(* that stops, or whose statement throws, changes nothing more.            *)
(* Assumption: the generic webhook, which would write by id over any       *)
(* intent and has no branch for a copy's, reports nothing about them.      *)
(***************************************************************************)
EXTENDS Naturals

CONSTANTS
    Requests,    \* concurrent calls of the client and the notary
    MaxCopies,   \* bound on enb_access_requests rows
    MaxIntents   \* bound on payment_intents rows

VARIABLES
    copies,      \* enb_access_requests: outcome, payment method and payment_intent_id
    intents,     \* payment_intents of purpose ctc_request, and whether their link is out
    captured,    \* intents paid at TLPE
    job,         \* what each request is doing
    crowded      \* history: two requests overlapped

vars == <<copies, intents, captured, job, crowded>>

CopyIds == 1..MaxCopies
IntentIds == 1..MaxIntents
Active == {"pending", "processing"}
\* A virtual access has no method of payment.
Methods == {"online", "cash", "none"}

NoCopy == [outcome |-> "absent", method |-> "none", intent |-> 0]
NoIntent == [status |-> "absent", copy |-> 0, link |-> FALSE]
Idle == [at |-> "idle"]
Jobs ==
    {Idle}
    \cup [at : {"insert"}, method : Methods]
    \cup [at : {"decide"}, copy : CopyIds, outcome : {"granted", "refused"}]
    \cup [at : {"cancel", "insert_intent"}, copy : CopyIds]
    \cup [at : {"link_intent", "request", "poll"}, copy : CopyIds, intent : IntentIds]

TypeOK ==
    /\ copies \in [CopyIds -> [outcome : {"absent", "pending", "granted", "refused"},
                               method : Methods, intent : 0..MaxIntents]]
    /\ intents \in [IntentIds -> [status : {"absent", "pending", "processing", "succeeded",
                                            "failed", "cancelled"},
                                  copy : 0..MaxCopies, link : BOOLEAN]]
    /\ captured \subseteq {i \in IntentIds : intents[i].link}
    /\ job \in [Requests -> Jobs]
    /\ crowded \in BOOLEAN

Init ==
    /\ copies = [q \in CopyIds |-> NoCopy]
    /\ intents = [i \in IntentIds |-> NoIntent]
    /\ captured = {}
    /\ job = [h \in Requests |-> Idle]
    /\ crowded = FALSE

Busy(h) == job[h] # Idle

Arrive(h, j) ==
    /\ ~Busy(h)
    /\ job' = [job EXCEPT ![h] = j]
    /\ crowded' = (crowded \/ \E g \in Requests \ {h} : Busy(g))
    /\ UNCHANGED <<copies, intents, captured>>

Goto(h, j) == job' = [job EXCEPT ![h] = j] /\ UNCHANGED crowded

-----------------------------------------------------------------------------
(* Requesting and deciding *)

Pending(methods) == \E q \in CopyIds : copies[q].outcome = "pending" /\ copies[q].method \in methods

CheckCopy(h, method) ==
    /\ ~Pending({"online", "cash"})
    /\ Arrive(h, [at |-> "insert", method |-> method])

CheckVirtual(h) ==
    /\ ~Pending({"none"})
    /\ Arrive(h, [at |-> "insert", method |-> "none"])

InsertRequest(h) ==
    /\ job[h].at = "insert"
    /\ \E q \in CopyIds :
          /\ copies[q].outcome = "absent"
          /\ \A p \in 1..(q - 1) : copies[p].outcome # "absent"
          /\ copies' = [copies EXCEPT ![q] = [outcome |-> "pending", method |-> job[h].method,
                                              intent |-> 0]]
    /\ Goto(h, Idle)
    /\ UNCHANGED <<intents, captured>>

\* Whether the client has paid is not asked.
CheckDecide(h, q, outcome) ==
    /\ copies[q].outcome = "pending"
    /\ Arrive(h, [at |-> "decide", copy |-> q, outcome |-> outcome])

\* UPDATE by id, whatever the outcome has become.
WriteDecision(h) ==
    /\ job[h].at = "decide"
    /\ copies' = [copies EXCEPT ![job[h].copy].outcome = job[h].outcome]
    /\ Goto(h, Idle)
    /\ UNCHANGED <<intents, captured>>

-----------------------------------------------------------------------------
(* CtcPaymentService *)

OfCopy(q) == {i \in IntentIds : intents[i].copy = q}
Paid(q) == \E i \in OfCopy(q) : intents[i].status = "succeeded"

\* loadClientCtcRequest
Payable(q) == copies[q].method = "online" /\ copies[q].outcome \in {"pending", "granted"}

CheckPay(h, q) ==
    /\ Payable(q) /\ ~Paid(q)
    /\ Arrive(h, [at |-> "cancel", copy |-> q])

\* One UPDATE; TLPE is not told.
CancelActive(h) ==
    /\ job[h].at = "cancel"
    /\ intents' = [i \in IntentIds |-> IF i \in OfCopy(job[h].copy) /\ intents[i].status \in Active
          THEN [intents[i] EXCEPT !.status = "cancelled"] ELSE intents[i]]
    /\ Goto(h, [job[h] EXCEPT !.at = "insert_intent"])
    /\ UNCHANGED <<copies, captured>>

InsertIntent(h) ==
    /\ job[h].at = "insert_intent"
    /\ \E i \in IntentIds :
          /\ intents[i].status = "absent"
          /\ \A j \in 1..(i - 1) : intents[j].status # "absent"
          /\ intents' = [intents EXCEPT ![i] = [status |-> "pending", copy |-> job[h].copy, link |-> FALSE]]
          /\ Goto(h, [at |-> "link_intent", copy |-> job[h].copy, intent |-> i])
    /\ UNCHANGED <<copies, captured>>

\* Mutant: the first intent stays the request's.
LinkIntent_Once(h) ==
    /\ job[h].at = "link_intent"
    /\ copies' = [copies EXCEPT ![job[h].copy].intent = IF @ = 0 THEN job[h].intent ELSE @]
    /\ Goto(h, [job[h] EXCEPT !.at = "request"])
    /\ UNCHANGED <<intents, captured>>

LinkIntent(h) ==
    /\ job[h].at = "link_intent"
    /\ copies' = [copies EXCEPT ![job[h].copy].intent = job[h].intent]
    /\ Goto(h, [job[h] EXCEPT !.at = "request"])
    /\ UNCHANGED <<intents, captured>>

\* TLPE's link, or its failure, is written by id, whatever the intent has become.
WriteRequest(h) ==
    /\ job[h].at = "request"
    /\ \/ intents' = [intents EXCEPT ![job[h].intent] = [@ EXCEPT !.status = "processing", !.link = TRUE]]
       \/ intents' = [intents EXCEPT ![job[h].intent].status = "failed"]
    /\ Goto(h, Idle)
    /\ UNCHANGED <<copies, captured>>

\* A link that is out can be paid, even of an intent that is cancelled by now.
Capture(i) ==
    /\ intents[i].link /\ i \notin captured
    /\ captured' = captured \cup {i}
    /\ UNCHANGED <<copies, intents, job, crowded>>

\* PaymentTlpeWebhookService
Webhook(i) ==
    /\ i \in captured /\ intents[i].status # "succeeded"
    /\ intents' = [intents EXCEPT ![i].status = "succeeded"]
    /\ UNCHANGED <<copies, captured, job, crowded>>

\* markSucceededByAdmin
AdminMarks(i) ==
    /\ intents[i].status \in Active
    /\ intents' = [intents EXCEPT ![i].status = "succeeded"]
    /\ UNCHANGED <<copies, captured, job, crowded>>

\* PaymentIntentReaperCron
ReapPending(i) ==
    /\ intents[i].status = "pending"
    /\ intents' = [intents EXCEPT ![i].status = "cancelled"]
    /\ UNCHANGED <<copies, captured, job, crowded>>

\* getPaymentStatus asks TLPE of the last active intent.
CheckPoll(h, q) ==
    /\ Payable(q) /\ ~Paid(q)
    /\ \E i \in OfCopy(q) :
          /\ intents[i].status \in Active
          /\ \A j \in OfCopy(q) : intents[j].status \in Active => j <= i
          /\ Arrive(h, [at |-> "poll", copy |-> q, intent |-> i])

WritePoll(h) ==
    /\ job[h].at = "poll"
    /\ IF job[h].intent \in captured
       THEN intents' = [intents EXCEPT ![job[h].intent].status = "succeeded"]
       ELSE UNCHANGED intents
    /\ Goto(h, Idle)
    /\ UNCHANGED <<copies, captured>>

-----------------------------------------------------------------------------

Abort(h) ==
    /\ Busy(h)
    /\ Goto(h, Idle)
    /\ UNCHANGED <<copies, intents, captured>>

Next ==
    \/ \E i \in IntentIds : Capture(i) \/ Webhook(i) \/ AdminMarks(i) \/ ReapPending(i)
    \/ \E h \in Requests :
          \/ CheckVirtual(h) \/ \E method \in {"online", "cash"} : CheckCopy(h, method)
          \/ \E q \in CopyIds : \/ CheckPay(h, q) \/ CheckPoll(h, q)
                                \/ \E o \in {"granted", "refused"} : CheckDecide(h, q, o)
          \/ InsertRequest(h) \/ WriteDecision(h) \/ CancelActive(h) \/ InsertIntent(h)
          \/ LinkIntent(h) \/ WriteRequest(h) \/ WritePoll(h) \/ Abort(h)

Spec == Init /\ [][Next]_vars

-----------------------------------------------------------------------------
(* Properties *)

\* Unless requests overlap, the client's list, which shows the intent that the request
\* names, shows the last intent that could be paid.
LastIntentIsShown ==
    ~crowded => \A i \in IntentIds :
        intents[i].link /\ (\A j \in OfCopy(intents[i].copy) : intents[j].link => j <= i) =>
            copies[intents[i].copy].intent >= i

=============================================================================
