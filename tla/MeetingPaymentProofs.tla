------------------------- MODULE MeetingPaymentProofs -------------------------
(***************************************************************************)
(* Theorems about MeetingPayment for any number of requests, of document   *)
(* operations and of intents.                                              *)
(***************************************************************************)
EXTENDS MeetingPayment, TLAPS

InFlight(r) == pc[r] # "idle"
HasIntent(r) == pc[r] \in {"cleared", "inserted", "granted"}

\* Calls that hold an intent hold the latest ones issued, each its own, and no
\* link of theirs has been given out.
IntentsOwned ==
    /\ \A r \in Requests : HasIntent(r) =>
          /\ mine[r] \in Ids
          /\ mine[r] <= issued
          /\ link[mine[r]] \in {"none", "minted"}
    /\ \A r, q \in Requests : HasIntent(r) /\ HasIntent(q) /\ mine[r] = mine[q] => r = q

\* An intent not yet issued has no row and no link; nor has, until it is
\* inserted, the intent of a call.
UnissuedIsBlank ==
    /\ \A i \in Ids : i > issued => status[i] = "none" /\ link[i] = "none"
    /\ \A r \in Requests : pc[r] = "cleared" => status[mine[r]] = "none"

\* While calls have never overlapped there is one call at a time: between its
\* cancellation and its insert no intent is active, and then only its own.
AloneInv ==
    ~overlapped =>
        /\ \A r, q \in Requests : InFlight(r) /\ InFlight(q) => r = q
        /\ \A i, j \in Ids : status[i] \in Active /\ status[j] \in Active => i = j
        /\ \A r \in Requests : pc[r] = "cleared" =>
              \A i \in Ids : status[i] \notin Active
        /\ \A r \in Requests : pc[r] \in {"inserted", "granted"} =>
              \A i \in Ids : status[i] \in Active => i = mine[r]

IInv == TypeOK /\ IntentsOwned /\ UnissuedIsBlank /\ PayableIsTracked /\ AloneInv

-----------------------------------------------------------------------------
(* Type correctness *)

\* Every variable keeps its type: the rows keep to the statuses of the schema
\* and no counter leaves its bound.
LEMMA TypePreserved == TypeOK /\ [Next]_vars => TypeOK'
<1> SUFFICES ASSUME TypeOK, [Next]_vars PROVE TypeOK'
  OBVIOUS
<1> USE BoundsAssumption
<1>1. ASSUME NEW r \in Requests, CreateStep(r) PROVE TypeOK'
  <2>1. CASE ReadQuote(r)
    BY <2>1 DEF ReadQuote, TypeOK, paymentVars, createVars, Stages
  <2>2. CASE CancelEarlier(r)
    BY <2>2 DEF CancelEarlier, TypeOK, paymentVars, createVars, CancelledActive,
        Ids, Active, Stages, Statuses
  <2>3. CASE InsertIntent(r)
    BY <2>3 DEF InsertIntent, TypeOK, paymentVars, createVars, Statuses, Stages
  <2>4. CASE ProviderGrants(r)
    BY <2>4 DEF ProviderGrants, TypeOK, paymentVars, createVars, Stages
  <2>5. CASE StoreCheckout(r)
    <3>1. status' \in [Ids -> Statuses]
      BY <2>5 DEF StoreCheckout, TypeOK, Statuses
    <3>2. link' \in [Ids -> {"none", "minted", "open", "paid"}]
      BY <2>5 DEF StoreCheckout, TypeOK
    <3>3. /\ pc' \in [Requests -> Stages]
          /\ mine' \in [Requests -> 0 .. MaxIntents]
          /\ quoted' \in [Requests -> 0 .. MaxFee]
      BY <2>5 DEF StoreCheckout, TypeOK, Return, Stages
    <3>4. QED
      BY <2>5, <3>1, <3>2, <3>3 DEF StoreCheckout, TypeOK
  <2>6. CASE ProviderFails(r)
    <3>1. status' \in [Ids -> Statuses]
      BY <2>6 DEF ProviderFails, TypeOK, Statuses
    <3>2. link' \in [Ids -> {"none", "minted", "open", "paid"}]
      BY <2>6 DEF ProviderFails, TypeOK
    <3>3. /\ pc' \in [Requests -> Stages]
          /\ mine' \in [Requests -> 0 .. MaxIntents]
          /\ quoted' \in [Requests -> 0 .. MaxFee]
      BY <2>6 DEF ProviderFails, TypeOK, Return, Stages
    <3>4. QED
      BY <2>6, <3>1, <3>2, <3>3 DEF ProviderFails, TypeOK
  <2>7. CASE CrashCreate(r)
    BY <2>7 DEF CrashCreate, TypeOK, paymentVars, createVars, Return, Stages
  <2>8. QED
    BY <1>1, <2>1, <2>2, <2>3, <2>4, <2>5, <2>6, <2>7 DEF CreateStep
<1>2. ASSUME NEW i \in Ids, IntentStep(i) PROVE TypeOK'
  <2>1. CASE ClientPays(i)
    BY <2>1 DEF ClientPays, TypeOK, paymentVars, createVars
  <2>2. CASE Webhook(i)
    BY <2>2 DEF Webhook, TypeOK, paymentVars, createVars, MarkSucceeded,
        Statuses
  <2>3. CASE SyncFromRemote(i)
    BY <2>3 DEF SyncFromRemote, TypeOK, paymentVars, createVars, MarkSucceeded,
        Statuses
  <2>4. CASE AdminMarksPaid(i)
    BY <2>4 DEF AdminMarksPaid, TypeOK, paymentVars, createVars, MarkSucceeded,
        Statuses
  <2>5. CASE ReapPending(i)
    BY <2>5 DEF ReapPending, TypeOK, paymentVars, createVars, Statuses
  <2>6. ASSUME NEW outcome \in {"succeeded", "failed"}, GatewayReports(i, outcome) PROVE TypeOK'
    BY <2>6 DEF GatewayReports, TypeOK, paymentVars, createVars, Statuses
  <2>7. QED
    BY <1>2, <2>1, <2>2, <2>3, <2>4, <2>5, <2>6 DEF IntentStep
<1>3. ASSUME NEW e \in Editors, EditStep(e) PROVE TypeOK'
  <2>1. CASE CheckUpload(e)
    BY <2>1 DEF CheckUpload, TypeOK, paymentVars, createVars
  <2>2. CASE CheckChange(e)
    BY <2>2 DEF CheckChange, TypeOK, paymentVars, createVars
  <2>3. CASE Invalidate(e)
    BY <2>3 DEF Invalidate, TypeOK, paymentVars, createVars, CancelledActive,
        Ids, Active, Statuses
  <2>4. CASE AbandonEdit(e)
    BY <2>4 DEF AbandonEdit, TypeOK, paymentVars, createVars
  <2>5. ASSUME NEW total \in 0 .. MaxFee, LinkDocument(e, total) PROVE TypeOK'
    BY <2>5 DEF LinkDocument, TypeOK, paymentVars, createVars
  <2>6. ASSUME NEW total \in 0 .. MaxFee, UpdateDocumentFee(e, total) PROVE TypeOK'
    BY <2>6 DEF UpdateDocumentFee, TypeOK, paymentVars, createVars
  <2>7. ASSUME NEW total \in 0 .. MaxFee, DeleteDocument(e, total) PROVE TypeOK'
    BY <2>7 DEF DeleteDocument, TypeOK, paymentVars, createVars
  <2>8. ASSUME NEW total \in 0 .. MaxFee, ProjectFee(e, total) PROVE TypeOK'
    BY <2>8 DEF ProjectFee, TypeOK, paymentVars, createVars
  <2>9. QED
    BY <1>3, <2>1, <2>2, <2>3, <2>4, <2>5, <2>6, <2>7, <2>8 DEF EditStep
<1>4. CASE CheckEnd
  BY <1>4 DEF CheckEnd, TypeOK, paymentVars, createVars
<1>5. CASE EndMeeting
  BY <1>5 DEF EndMeeting, TypeOK, paymentVars, createVars
<1>6. CASE UNCHANGED vars
  BY <1>6 DEF vars, TypeOK, paymentVars, createVars
<1>7. QED
  BY <1>1, <1>2, <1>3, <1>4, <1>5, <1>6 DEF Next

\* The handlers keep every intent, call and counter in its type.
THEOREM TypeCorrect == Spec => []TypeOK
<1>1. Init => TypeOK
  <2>1. 0 \in 0 .. MaxIntents /\ 0 \in 0 .. MaxFee
    BY BoundsAssumption
  <2>2. "none" \in Statuses /\ "idle" \in Stages
    BY DEF Statuses, Stages
  <2>3. Init => /\ status \in [Ids -> Statuses]
                /\ amount \in [Ids -> 0 .. MaxFee]
                /\ link \in [Ids -> {"none", "minted", "open", "paid"}]
    BY <2>1, <2>2 DEF Init
  <2>4. Init => /\ pc \in [Requests -> Stages]
                /\ mine \in [Requests -> 0 .. MaxIntents]
                /\ quoted \in [Requests -> 0 .. MaxFee]
                /\ edit \in [Editors -> {"idle", "upload", "change", "written"}]
    BY <2>1, <2>2 DEF Init
  <2>5. QED
    BY <2>1, <2>3, <2>4 DEF Init, TypeOK
<1>2. QED
  BY <1>1, TypePreserved, PTL DEF Spec

-----------------------------------------------------------------------------
(* Every call owns its intent until its link is given out *)

OwnInv == IntentsOwned /\ UnissuedIsBlank /\ PayableIsTracked

\* A call's intent is its own, blank until inserted, and unpayable until the
\* call has returned.
LEMMA OwnPreserved == TypeOK /\ OwnInv /\ [Next]_vars => OwnInv'
<1> SUFFICES ASSUME TypeOK, OwnInv, [Next]_vars PROVE OwnInv'
  OBVIOUS
<1> USE BoundsAssumption
<1>1. ASSUME NEW r \in Requests, CreateStep(r) PROVE OwnInv'
  <2>1. CASE ReadQuote(r)
    BY <2>1 DEF ReadQuote, OwnInv, IntentsOwned, UnissuedIsBlank,
        PayableIsTracked, HasIntent, TypeOK, Ids, paymentVars, createVars,
        Active
  <2>2. CASE CancelEarlier(r)
    <3>1. /\ issued + 1 \in Ids /\ issued' = issued + 1 /\ issued \in Nat
          /\ status[issued + 1] = "none" /\ link[issued + 1] = "none"
      BY <2>2 DEF CancelEarlier, TypeOK, Ids, OwnInv, UnissuedIsBlank
    <3>2. /\ \A i \in Ids : status[i] = "none" => status'[i] = "none"
          /\ \A i \in Ids : status'[i] \in {status[i], "cancelled"}
      BY <2>2 DEF CancelEarlier, CancelledActive, Active
    <3>3. ASSUME NEW q \in Requests, HasIntent(q)'
          PROVE  \/ q = r /\ mine'[q] = issued + 1
                 \/ q # r /\ HasIntent(q) /\ mine'[q] = mine[q] /\ mine[q] <= issued
                          /\ mine[q] \in Ids
      BY <2>2, <3>3 DEF CancelEarlier, HasIntent, TypeOK, OwnInv, IntentsOwned
    <3>4. IntentsOwned'
      <4>1. ASSUME NEW q \in Requests, HasIntent(q)'
            PROVE  /\ mine'[q] \in Ids
                   /\ mine'[q] <= issued'
                   /\ link'[mine'[q]] \in {"none", "minted"}
        BY <2>2, <3>1, <3>3, <4>1 DEF CancelEarlier, OwnInv, IntentsOwned, Ids
      <4>2. ASSUME NEW p \in Requests, NEW q \in Requests, HasIntent(p)', HasIntent(q)',
                   mine'[p] = mine'[q]
            PROVE  p = q
        BY <3>1, <3>3, <4>2 DEF OwnInv, IntentsOwned, Ids
      <4>3. QED
        BY <4>1, <4>2 DEF IntentsOwned
    <3>5. UnissuedIsBlank'
      <4>1. ASSUME NEW i \in Ids, i > issued' PROVE status'[i] = "none" /\ link'[i] = "none"
        BY <2>2, <3>1, <3>2, <4>1 DEF CancelEarlier, OwnInv, UnissuedIsBlank, Ids
      <4>2. ASSUME NEW q \in Requests, pc'[q] = "cleared" PROVE status'[mine'[q]] = "none"
        <5>1. HasIntent(q)'
          BY <4>2 DEF HasIntent
        <5>2. q # r => pc[q] = "cleared"
          BY <2>2, <4>2 DEF CancelEarlier, TypeOK
        <5>3. QED
          BY <3>1, <3>2, <3>3, <5>1, <5>2 DEF OwnInv, UnissuedIsBlank
      <4>3. QED
        BY <4>1, <4>2 DEF UnissuedIsBlank
    <3>6. PayableIsTracked'
      BY <2>2, <3>2 DEF CancelEarlier, OwnInv, PayableIsTracked
    <3>7. QED
      BY <3>4, <3>5, <3>6 DEF OwnInv
  <2>3. CASE InsertIntent(r)
    BY <2>3 DEF InsertIntent, OwnInv, IntentsOwned, UnissuedIsBlank,
        PayableIsTracked, HasIntent, TypeOK, Ids, paymentVars, createVars,
        Active
  <2>4. CASE ProviderGrants(r)
    BY <2>4 DEF ProviderGrants, OwnInv, IntentsOwned, UnissuedIsBlank,
        PayableIsTracked, HasIntent, TypeOK, Ids, paymentVars, createVars,
        Active
  <2>5. CASE StoreCheckout(r)
    BY <2>5 DEF StoreCheckout, OwnInv, IntentsOwned, UnissuedIsBlank,
        PayableIsTracked, HasIntent, TypeOK, Ids, paymentVars, createVars,
        Return, Active
  <2>6. CASE ProviderFails(r)
    <3>1. /\ mine[r] \in Ids /\ mine[r] <= issued
          /\ link[mine[r]] \in {"none", "minted"}
      BY <2>6 DEF ProviderFails, OwnInv, IntentsOwned, HasIntent
    <3>2. ASSUME NEW q \in Requests, HasIntent(q)'
          PROVE  q # r /\ HasIntent(q) /\ mine'[q] = mine[q] /\ mine[q] # mine[r]
      BY <2>6, <3>2 DEF ProviderFails, Return, HasIntent, TypeOK, OwnInv, IntentsOwned
    <3>3. IntentsOwned'
      BY <2>6, <3>2 DEF ProviderFails, OwnInv, IntentsOwned
    <3>4. UnissuedIsBlank'
      <4>1. \A i \in Ids : i > issued => i # mine[r]
        BY <3>1 DEF Ids, TypeOK
      <4>2. \A q \in Requests : pc'[q] = "cleared" => HasIntent(q)' /\ pc[q] = "cleared"
        BY <2>6 DEF ProviderFails, Return, HasIntent, TypeOK
      <4>3. QED
        BY <2>6, <3>2, <4>1, <4>2
        DEF ProviderFails, OwnInv, UnissuedIsBlank, IntentsOwned, HasIntent, TypeOK
    <3>5. PayableIsTracked'
      BY <2>6, <3>1 DEF ProviderFails, OwnInv, PayableIsTracked, TypeOK
    <3>6. QED
      BY <3>3, <3>4, <3>5 DEF OwnInv
  <2>7. CASE CrashCreate(r)
    BY <2>7 DEF CrashCreate, OwnInv, IntentsOwned, UnissuedIsBlank,
        PayableIsTracked, HasIntent, TypeOK, Ids, paymentVars, createVars,
        Return, Active
  <2>8. QED
    BY <1>1, <2>1, <2>2, <2>3, <2>4, <2>5, <2>6, <2>7 DEF CreateStep
<1>2. ASSUME NEW i \in Ids, IntentStep(i) PROVE OwnInv'
  <2>1. CASE ClientPays(i)
    BY <2>1 DEF ClientPays, OwnInv, IntentsOwned, UnissuedIsBlank,
        PayableIsTracked, HasIntent, TypeOK, Ids, paymentVars, createVars,
        Active
  <2>2. CASE Webhook(i)
    BY <2>2 DEF Webhook, OwnInv, IntentsOwned, UnissuedIsBlank,
        PayableIsTracked, HasIntent, TypeOK, Ids, paymentVars, createVars,
        MarkSucceeded, Active
  <2>3. CASE SyncFromRemote(i)
    BY <2>3 DEF SyncFromRemote, OwnInv, IntentsOwned, UnissuedIsBlank,
        PayableIsTracked, HasIntent, TypeOK, Ids, paymentVars, createVars,
        MarkSucceeded, Active
  <2>4. CASE AdminMarksPaid(i)
    BY <2>4 DEF AdminMarksPaid, OwnInv, IntentsOwned, UnissuedIsBlank,
        PayableIsTracked, HasIntent, TypeOK, Ids, paymentVars, createVars,
        MarkSucceeded, Active
  <2>5. CASE ReapPending(i)
    BY <2>5 DEF ReapPending, OwnInv, IntentsOwned, UnissuedIsBlank,
        PayableIsTracked, HasIntent, TypeOK, Ids, paymentVars, createVars,
        Active
  <2>6. ASSUME NEW outcome \in {"succeeded", "failed"}, GatewayReports(i, outcome) PROVE OwnInv'
    BY <2>6 DEF GatewayReports, OwnInv, IntentsOwned, UnissuedIsBlank,
        PayableIsTracked, HasIntent, TypeOK, Ids, paymentVars, createVars, Active
  <2>7. QED
    BY <1>2, <2>1, <2>2, <2>3, <2>4, <2>5, <2>6 DEF IntentStep
<1>3. ASSUME NEW e \in Editors, EditStep(e) PROVE OwnInv'
  <2>1. CASE CheckUpload(e)
    BY <2>1 DEF CheckUpload, OwnInv, IntentsOwned, UnissuedIsBlank,
        PayableIsTracked, HasIntent, TypeOK, Ids, paymentVars, createVars,
        Active
  <2>2. CASE CheckChange(e)
    BY <2>2 DEF CheckChange, OwnInv, IntentsOwned, UnissuedIsBlank,
        PayableIsTracked, HasIntent, TypeOK, Ids, paymentVars, createVars,
        Active
  <2>3. CASE Invalidate(e)
    BY <2>3 DEF Invalidate, OwnInv, IntentsOwned, UnissuedIsBlank,
        PayableIsTracked, HasIntent, TypeOK, Ids, paymentVars, createVars,
        CancelledActive, Active
  <2>4. CASE AbandonEdit(e)
    BY <2>4 DEF AbandonEdit, OwnInv, IntentsOwned, UnissuedIsBlank,
        PayableIsTracked, HasIntent, TypeOK, Ids, paymentVars, createVars,
        Active
  <2>5. ASSUME NEW total \in 0 .. MaxFee, LinkDocument(e, total) PROVE OwnInv'
    BY <2>5 DEF LinkDocument, OwnInv, IntentsOwned, UnissuedIsBlank,
        PayableIsTracked, HasIntent, TypeOK, Ids, paymentVars, createVars,
        Active
  <2>6. ASSUME NEW total \in 0 .. MaxFee, UpdateDocumentFee(e, total) PROVE OwnInv'
    BY <2>6 DEF UpdateDocumentFee, OwnInv, IntentsOwned, UnissuedIsBlank,
        PayableIsTracked, HasIntent, TypeOK, Ids, paymentVars, createVars,
        Active
  <2>7. ASSUME NEW total \in 0 .. MaxFee, DeleteDocument(e, total) PROVE OwnInv'
    BY <2>7 DEF DeleteDocument, OwnInv, IntentsOwned, UnissuedIsBlank,
        PayableIsTracked, HasIntent, TypeOK, Ids, paymentVars, createVars,
        Active
  <2>8. ASSUME NEW total \in 0 .. MaxFee, ProjectFee(e, total) PROVE OwnInv'
    BY <2>8 DEF ProjectFee, OwnInv, IntentsOwned, UnissuedIsBlank,
        PayableIsTracked, HasIntent, TypeOK, Ids, paymentVars, createVars,
        Active
  <2>9. QED
    BY <1>3, <2>1, <2>2, <2>3, <2>4, <2>5, <2>6, <2>7, <2>8 DEF EditStep
<1>4. CASE CheckEnd
  BY <1>4 DEF CheckEnd, OwnInv, IntentsOwned, UnissuedIsBlank, PayableIsTracked,
      HasIntent, TypeOK, Ids, paymentVars, createVars, Active
<1>5. CASE EndMeeting
  BY <1>5 DEF EndMeeting, OwnInv, IntentsOwned, UnissuedIsBlank,
      PayableIsTracked, HasIntent, TypeOK, Ids, paymentVars, createVars, Active
<1>6. CASE UNCHANGED vars
  BY <1>6 DEF vars, OwnInv, IntentsOwned, UnissuedIsBlank, PayableIsTracked,
      HasIntent, TypeOK, Ids, paymentVars, createVars, Active
<1>7. QED
  BY <1>1, <1>2, <1>3, <1>4, <1>5, <1>6 DEF Next

\* A call that has not overlapped another leaves at most one active intent.
LEMMA AlonePreserved ==
    TypeOK /\ OwnInv /\ AloneInv /\ [Next]_vars => AloneInv'
<1> SUFFICES ASSUME TypeOK, IntentsOwned, UnissuedIsBlank, AloneInv, [Next]_vars
             PROVE  AloneInv'
  BY DEF OwnInv
<1> USE BoundsAssumption
<1>1. ASSUME NEW r \in Requests, CreateStep(r) PROVE AloneInv'
  <2>1. CASE ReadQuote(r)
    <3>1. SUFFICES ASSUME ~overlapped'
                   PROVE  /\ \A p, q \in Requests : InFlight(p)' /\ InFlight(q)' => p = q
                          /\ \A i, j \in Ids : status[i] \in Active /\ status[j] \in Active => i = j
                          /\ \A q \in Requests : pc'[q] \notin {"cleared", "inserted", "granted"}
      BY <2>1 DEF ReadQuote, AloneInv, paymentVars
    <3>2. ~overlapped /\ \A q \in Requests : q # r => pc[q] = "idle"
      BY <2>1, <3>1 DEF ReadQuote, TypeOK
    <3>3. \A q \in Requests : pc'[q] = IF q = r THEN "priced" ELSE "idle"
      BY <2>1, <3>2 DEF ReadQuote, TypeOK
    <3>4. QED
      BY <3>2, <3>3 DEF AloneInv, InFlight
  <2>2. CASE CancelEarlier(r)
    BY <2>2 DEF CancelEarlier, AloneInv, IntentsOwned, UnissuedIsBlank,
        HasIntent, InFlight, Stages, TypeOK, Ids, paymentVars, createVars,
        CancelledActive, Active
  <2>3. CASE InsertIntent(r)
    <3> SUFFICES ASSUME ~overlapped PROVE AloneInv'
      BY <2>3 DEF InsertIntent, AloneInv
    <3>1. \A q \in Requests : q # r => pc[q] = "idle"
      BY <2>3 DEF InsertIntent, AloneInv, InFlight
    <3>2. \A q \in Requests : pc'[q] = IF q = r THEN "inserted" ELSE "idle"
      BY <2>3, <3>1 DEF InsertIntent, TypeOK
    <3>3. \A i \in Ids : status'[i] \in Active => i = mine[r]
      BY <2>3 DEF InsertIntent, AloneInv, TypeOK
    <3>4. mine' = mine
      BY <2>3 DEF InsertIntent
    <3>5. QED
      BY <3>2, <3>3, <3>4 DEF AloneInv, InFlight
  <2>4. CASE ProviderGrants(r)
    BY <2>4 DEF ProviderGrants, AloneInv, IntentsOwned, UnissuedIsBlank,
        HasIntent, InFlight, Stages, TypeOK, Ids, paymentVars, createVars,
        Active
  <2>5. CASE StoreCheckout(r)
    <3> SUFFICES ASSUME ~overlapped PROVE AloneInv'
      BY <2>5 DEF StoreCheckout, AloneInv
    <3>1. \A q \in Requests : q # r => pc[q] = "idle"
      BY <2>5 DEF StoreCheckout, AloneInv, InFlight
    <3>2. \A q \in Requests : pc'[q] = "idle"
      BY <2>5, <3>1 DEF StoreCheckout, Return, TypeOK
    <3>3. \A i \in Ids : status'[i] \in Active => i = mine[r]
      BY <2>5 DEF StoreCheckout, AloneInv, TypeOK
    <3>4. QED
      BY <3>2, <3>3 DEF AloneInv, InFlight
  <2>6. CASE ProviderFails(r)
    BY <2>6 DEF ProviderFails, AloneInv, IntentsOwned, UnissuedIsBlank,
        HasIntent, InFlight, Stages, TypeOK, Ids, paymentVars, createVars,
        Return, Active
  <2>7. CASE CrashCreate(r)
    BY <2>7 DEF CrashCreate, AloneInv, IntentsOwned, UnissuedIsBlank, HasIntent,
        InFlight, Stages, TypeOK, Ids, paymentVars, createVars, Return, Active
  <2>8. QED
    BY <1>1, <2>1, <2>2, <2>3, <2>4, <2>5, <2>6, <2>7 DEF CreateStep
<1>2. ASSUME NEW i \in Ids, IntentStep(i) PROVE AloneInv'
  <2>1. CASE ClientPays(i)
    BY <2>1 DEF ClientPays, AloneInv, IntentsOwned, UnissuedIsBlank, HasIntent,
        InFlight, Stages, TypeOK, Ids, paymentVars, createVars, Active
  <2>2. CASE Webhook(i)
    BY <2>2 DEF Webhook, AloneInv, IntentsOwned, UnissuedIsBlank,
        HasIntent, InFlight, Stages, TypeOK, Ids, paymentVars, createVars,
        MarkSucceeded, Active
  <2>3. CASE SyncFromRemote(i)
    BY <2>3 DEF SyncFromRemote, AloneInv, IntentsOwned, UnissuedIsBlank,
        HasIntent, InFlight, Stages, TypeOK, Ids, paymentVars, createVars,
        MarkSucceeded, Active
  <2>4. CASE AdminMarksPaid(i)
    BY <2>4 DEF AdminMarksPaid, AloneInv, IntentsOwned, UnissuedIsBlank,
        HasIntent, InFlight, Stages, TypeOK, Ids, paymentVars, createVars,
        MarkSucceeded, Active
  <2>5. CASE ReapPending(i)
    BY <2>5 DEF ReapPending, AloneInv, IntentsOwned, UnissuedIsBlank, HasIntent,
        InFlight, Stages, TypeOK, Ids, paymentVars, createVars, Active
  <2>6. ASSUME NEW outcome \in {"succeeded", "failed"}, GatewayReports(i, outcome) PROVE AloneInv'
    BY <2>6 DEF GatewayReports, AloneInv, IntentsOwned, UnissuedIsBlank, HasIntent,
        InFlight, Stages, TypeOK, Ids, paymentVars, createVars, Active
  <2>7. QED
    BY <1>2, <2>1, <2>2, <2>3, <2>4, <2>5, <2>6 DEF IntentStep
<1>3. ASSUME NEW e \in Editors, EditStep(e) PROVE AloneInv'
  <2>1. CASE CheckUpload(e)
    BY <2>1 DEF CheckUpload, AloneInv, IntentsOwned, UnissuedIsBlank, HasIntent,
        InFlight, Stages, TypeOK, Ids, paymentVars, createVars, Active
  <2>2. CASE CheckChange(e)
    BY <2>2 DEF CheckChange, AloneInv, IntentsOwned, UnissuedIsBlank, HasIntent,
        InFlight, Stages, TypeOK, Ids, paymentVars, createVars, Active
  <2>3. CASE Invalidate(e)
    BY <2>3 DEF Invalidate, AloneInv, IntentsOwned, UnissuedIsBlank, HasIntent,
        InFlight, Stages, TypeOK, Ids, paymentVars, createVars, CancelledActive,
        Active
  <2>4. CASE AbandonEdit(e)
    BY <2>4 DEF AbandonEdit, AloneInv, IntentsOwned, UnissuedIsBlank, HasIntent,
        InFlight, Stages, TypeOK, Ids, paymentVars, createVars, Active
  <2>5. ASSUME NEW total \in 0 .. MaxFee, LinkDocument(e, total) PROVE AloneInv'
    BY <2>5 DEF LinkDocument, AloneInv, IntentsOwned, UnissuedIsBlank,
        HasIntent, InFlight, Stages, TypeOK, Ids, paymentVars, createVars,
        Active
  <2>6. ASSUME NEW total \in 0 .. MaxFee, UpdateDocumentFee(e, total) PROVE AloneInv'
    BY <2>6 DEF UpdateDocumentFee, AloneInv, IntentsOwned, UnissuedIsBlank,
        HasIntent, InFlight, Stages, TypeOK, Ids, paymentVars, createVars,
        Active
  <2>7. ASSUME NEW total \in 0 .. MaxFee, DeleteDocument(e, total) PROVE AloneInv'
    BY <2>7 DEF DeleteDocument, AloneInv, IntentsOwned, UnissuedIsBlank,
        HasIntent, InFlight, Stages, TypeOK, Ids, paymentVars, createVars,
        Active
  <2>8. ASSUME NEW total \in 0 .. MaxFee, ProjectFee(e, total) PROVE AloneInv'
    BY <2>8 DEF ProjectFee, AloneInv, IntentsOwned, UnissuedIsBlank, HasIntent,
        InFlight, Stages, TypeOK, Ids, paymentVars, createVars, Active
  <2>9. QED
    BY <1>3, <2>1, <2>2, <2>3, <2>4, <2>5, <2>6, <2>7, <2>8 DEF EditStep
<1>4. CASE CheckEnd
  BY <1>4 DEF CheckEnd, AloneInv, IntentsOwned, UnissuedIsBlank, HasIntent,
      InFlight, Stages, TypeOK, Ids, paymentVars, createVars, Active
<1>5. CASE EndMeeting
  BY <1>5 DEF EndMeeting, AloneInv, IntentsOwned, UnissuedIsBlank, HasIntent,
      InFlight, Stages, TypeOK, Ids, paymentVars, createVars, Active
<1>6. CASE UNCHANGED vars
  BY <1>6 DEF vars, AloneInv, IntentsOwned, UnissuedIsBlank, HasIntent,
      InFlight, Stages, TypeOK, Ids, paymentVars, createVars, Active
<1>7. QED
  BY <1>1, <1>2, <1>3, <1>4, <1>5, <1>6 DEF Next

\* The inductive invariant.
THEOREM Invariant == Spec => []IInv
<1>1. Init => OwnInv /\ AloneInv
  BY BoundsAssumption DEF Init, OwnInv, AloneInv, IntentsOwned, UnissuedIsBlank,
     PayableIsTracked, InFlight, HasIntent, Active, Ids
<1>2. Spec => [](OwnInv /\ AloneInv)
  BY <1>1, TypeCorrect, OwnPreserved, AlonePreserved, PTL DEF Spec
<1>3. TypeOK /\ OwnInv /\ AloneInv => IInv
  BY DEF IInv, OwnInv
<1>4. QED
  BY <1>2, <1>3, TypeCorrect, PTL

-----------------------------------------------------------------------------
(* The properties *)

\* Without overlapping calls an active intent is the one the poll and the fee changes
\* look at, however many calls, intents and fee changes there are.
THEOREM ActiveIsPolled == Spec => []ActiveIsLatest
<1>1. IInv => ActiveIsLatest
  BY DEF IInv, AloneInv, ActiveIsLatest, LatestActive, Ids
<1>2. QED
  BY <1>1, Invariant, PTL

\* Every request a client can pay has a row that its notification settles.
THEOREM Tracked == Spec => []PayableIsTracked
<1>1. IInv => PayableIsTracked
  BY DEF IInv
<1>2. QED
  BY <1>1, Invariant, PTL

KeepsCaptured ==
    \A i \in Ids : link[i] = "paid" /\ status[i] = "succeeded"
                    => status'[i] = "succeeded" \/ GatewayReports(i, "failed")

\* No step but a report of the gateway takes a captured intent out of succeeded: the
\* other unguarded writes by id are all to intents whose link nobody has yet.
LEMMA StepKeepsCaptured == TypeOK /\ OwnInv /\ [Next]_vars => KeepsCaptured
<1> SUFFICES ASSUME TypeOK, OwnInv, [Next]_vars PROVE KeepsCaptured
  OBVIOUS
<1> USE BoundsAssumption DEF KeepsCaptured, OwnInv
<1>1. ASSUME NEW r \in Requests, CreateStep(r) PROVE KeepsCaptured
  <2>1. CASE ReadQuote(r)
    BY <2>1 DEF ReadQuote, IntentsOwned, UnissuedIsBlank, HasIntent, TypeOK,
        Ids, paymentVars, createVars, Active
  <2>2. CASE CancelEarlier(r)
    BY <2>2 DEF CancelEarlier, IntentsOwned, UnissuedIsBlank, HasIntent, TypeOK,
        Ids, paymentVars, createVars, CancelledActive, Active
  <2>3. CASE InsertIntent(r)
    BY <2>3 DEF InsertIntent, IntentsOwned, UnissuedIsBlank, HasIntent, TypeOK,
        Ids, paymentVars, createVars, Active
  <2>4. CASE ProviderGrants(r)
    BY <2>4 DEF ProviderGrants, IntentsOwned, UnissuedIsBlank, HasIntent,
        TypeOK, Ids, paymentVars, createVars, Active
  <2>5. CASE StoreCheckout(r)
    BY <2>5 DEF StoreCheckout, IntentsOwned, UnissuedIsBlank, HasIntent, TypeOK,
        Ids, paymentVars, createVars, Return, Active
  <2>6. CASE ProviderFails(r)
    BY <2>6 DEF ProviderFails, IntentsOwned, UnissuedIsBlank, HasIntent, TypeOK,
        Ids, paymentVars, createVars, Return, Active
  <2>7. CASE CrashCreate(r)
    BY <2>7 DEF CrashCreate, IntentsOwned, UnissuedIsBlank, HasIntent, TypeOK,
        Ids, paymentVars, createVars, Return, Active
  <2>8. QED
    BY <1>1, <2>1, <2>2, <2>3, <2>4, <2>5, <2>6, <2>7 DEF CreateStep
<1>2. ASSUME NEW i \in Ids, IntentStep(i) PROVE KeepsCaptured
  <2>1. CASE ClientPays(i)
    BY <2>1 DEF ClientPays, IntentsOwned, UnissuedIsBlank, HasIntent, TypeOK,
        Ids, paymentVars, createVars, Active
  <2>2. CASE Webhook(i)
    BY <2>2 DEF Webhook, IntentsOwned, UnissuedIsBlank, HasIntent, TypeOK,
        Ids, paymentVars, createVars, MarkSucceeded, Active
  <2>3. CASE SyncFromRemote(i)
    BY <2>3 DEF SyncFromRemote, IntentsOwned, UnissuedIsBlank, HasIntent,
        TypeOK, Ids, paymentVars, createVars, MarkSucceeded, Active
  <2>4. CASE AdminMarksPaid(i)
    BY <2>4 DEF AdminMarksPaid, IntentsOwned, UnissuedIsBlank, HasIntent,
        TypeOK, Ids, paymentVars, createVars, MarkSucceeded, Active
  <2>5. CASE ReapPending(i)
    BY <2>5 DEF ReapPending, IntentsOwned, UnissuedIsBlank, HasIntent, TypeOK,
        Ids, paymentVars, createVars, Active
  <2>6. ASSUME NEW outcome \in {"succeeded", "failed"}, GatewayReports(i, outcome) PROVE KeepsCaptured
    <3>1. ASSUME NEW k \in Ids, link[k] = "paid", status[k] = "succeeded"
          PROVE  status'[k] = "succeeded" \/ GatewayReports(k, "failed")
      <4>1. CASE k = i /\ outcome = "failed"
        BY <2>6, <4>1
      <4>2. CASE k # i \/ outcome = "succeeded"
        BY <2>6, <3>1, <4>2 DEF GatewayReports, TypeOK
      <4>3. QED
        BY <4>1, <4>2
    <3>2. QED
      BY <3>1
  <2>7. QED
    BY <1>2, <2>1, <2>2, <2>3, <2>4, <2>5, <2>6 DEF IntentStep
<1>3. ASSUME NEW e \in Editors, EditStep(e) PROVE KeepsCaptured
  <2>1. CASE CheckUpload(e)
    BY <2>1 DEF CheckUpload, IntentsOwned, UnissuedIsBlank, HasIntent, TypeOK,
        Ids, paymentVars, createVars, Active
  <2>2. CASE CheckChange(e)
    BY <2>2 DEF CheckChange, IntentsOwned, UnissuedIsBlank, HasIntent, TypeOK,
        Ids, paymentVars, createVars, Active
  <2>3. CASE Invalidate(e)
    BY <2>3 DEF Invalidate, IntentsOwned, UnissuedIsBlank, HasIntent, TypeOK,
        Ids, paymentVars, createVars, CancelledActive, Active
  <2>4. CASE AbandonEdit(e)
    BY <2>4 DEF AbandonEdit, IntentsOwned, UnissuedIsBlank, HasIntent, TypeOK,
        Ids, paymentVars, createVars, Active
  <2>5. ASSUME NEW total \in 0 .. MaxFee, LinkDocument(e, total) PROVE KeepsCaptured
    BY <2>5 DEF LinkDocument, IntentsOwned, UnissuedIsBlank, HasIntent, TypeOK,
        Ids, paymentVars, createVars, Active
  <2>6. ASSUME NEW total \in 0 .. MaxFee, UpdateDocumentFee(e, total) PROVE KeepsCaptured
    BY <2>6 DEF UpdateDocumentFee, IntentsOwned, UnissuedIsBlank, HasIntent,
        TypeOK, Ids, paymentVars, createVars, Active
  <2>7. ASSUME NEW total \in 0 .. MaxFee, DeleteDocument(e, total) PROVE KeepsCaptured
    BY <2>7 DEF DeleteDocument, IntentsOwned, UnissuedIsBlank, HasIntent,
        TypeOK, Ids, paymentVars, createVars, Active
  <2>8. ASSUME NEW total \in 0 .. MaxFee, ProjectFee(e, total) PROVE KeepsCaptured
    BY <2>8 DEF ProjectFee, IntentsOwned, UnissuedIsBlank, HasIntent, TypeOK,
        Ids, paymentVars, createVars, Active
  <2>9. QED
    BY <1>3, <2>1, <2>2, <2>3, <2>4, <2>5, <2>6, <2>7, <2>8 DEF EditStep
<1>4. CASE CheckEnd
  BY <1>4 DEF CheckEnd, IntentsOwned, UnissuedIsBlank, HasIntent, TypeOK, Ids,
      paymentVars, createVars, Active
<1>5. CASE EndMeeting
  BY <1>5 DEF EndMeeting, IntentsOwned, UnissuedIsBlank, HasIntent, TypeOK, Ids,
      paymentVars, createVars, Active
<1>6. CASE UNCHANGED vars
  BY <1>6 DEF vars, IntentsOwned, UnissuedIsBlank, HasIntent, TypeOK, Ids,
      paymentVars, createVars, Active
<1>7. QED
  BY <1>1, <1>2, <1>3, <1>4, <1>5, <1>6 DEF Next

\* A captured and recorded payment stays recorded until the gateway reports a failure.
THEOREM CapturedStays == Spec => CapturedStaysSucceeded
<1>1. IInv => TypeOK /\ OwnInv
  BY DEF IInv, OwnInv
<1>2. IInv /\ [Next]_vars => [KeepsCaptured]_vars
  BY <1>1, StepKeepsCaptured
<1>3. Spec => [][KeepsCaptured]_vars
  BY <1>2, Invariant, PTL DEF Spec
<1>4. QED
  BY <1>3 DEF CapturedStaysSucceeded, KeepsCaptured

\* Only a document operation past its check changes the fee.
LEMMA FeeChangers == [Next]_vars /\ fee' # fee => \E e \in Editors : edit[e] \in {"upload", "change"}
<1> SUFFICES ASSUME [Next]_vars, fee' # fee PROVE \E e \in Editors : edit[e] \in {"upload", "change"}
  OBVIOUS
<1>1. ASSUME NEW r \in Requests, CreateStep(r) PROVE FALSE
  BY <1>1 DEF CreateStep, ReadQuote, CancelEarlier, InsertIntent, ProviderGrants,
      StoreCheckout, ProviderFails, CrashCreate
<1>2. ASSUME NEW i \in Ids, IntentStep(i) PROVE FALSE
  BY <1>2 DEF IntentStep, ClientPays, Webhook, GatewayReports, SyncFromRemote, AdminMarksPaid,
      ReapPending
<1>3. ASSUME NEW e \in Editors, EditStep(e) PROVE edit[e] \in {"upload", "change"}
  BY <1>3 DEF EditStep, CheckUpload, CheckChange, LinkDocument, UpdateDocumentFee,
      DeleteDocument, ProjectFee, Invalidate, AbandonEdit
<1>4. CASE CheckEnd \/ EndMeeting \/ UNCHANGED vars
  BY <1>4 DEF CheckEnd, EndMeeting, vars
<1>5. QED
  BY <1>1, <1>2, <1>3, <1>4 DEF Next

\* A step that takes an intent out of succeeded is the write by id of the checkout that
\* created it, or of the gateway's report that it failed: the cancellations leave
\* succeeded rows alone, and an insert finds no row.
LEMMA SucceededLosers ==
  ASSUME TypeOK, OwnInv, [Next]_vars,
         NEW i \in Ids, status[i] = "succeeded", status'[i] # "succeeded"
  PROVE  \/ \E r \in Requests : pc[r] \in {"inserted", "granted"} /\ mine[r] = i
         \/ GatewayReports(i, "failed")
<1>1. ASSUME NEW r \in Requests, CreateStep(r)
      PROVE  pc[r] \in {"inserted", "granted"} /\ mine[r] = i
  <2>1. CASE ReadQuote(r) \/ ProviderGrants(r) \/ CrashCreate(r)
    BY <2>1 DEF ReadQuote, ProviderGrants, CrashCreate, paymentVars
  <2>2. CASE CancelEarlier(r)
    BY <2>2 DEF CancelEarlier, CancelledActive, Active
  <2>3. CASE InsertIntent(r)
    BY <2>3 DEF InsertIntent, OwnInv, UnissuedIsBlank, TypeOK
  <2>4. CASE StoreCheckout(r)
    BY <2>4 DEF StoreCheckout, TypeOK
  <2>5. CASE ProviderFails(r)
    BY <2>5 DEF ProviderFails, TypeOK
  <2>6. QED
    BY <1>1, <2>1, <2>2, <2>3, <2>4, <2>5 DEF CreateStep
<1>2. ASSUME NEW k \in Ids, IntentStep(k) PROVE GatewayReports(i, "failed")
  <2>1. ASSUME NEW outcome \in {"succeeded", "failed"}, GatewayReports(k, outcome)
        PROVE  GatewayReports(i, "failed")
    <3>1. k = i /\ outcome = "failed"
      BY <2>1 DEF GatewayReports, TypeOK
    <3>2. QED
      BY <2>1, <3>1
  <2>2. QED
    BY <1>2, <2>1 DEF IntentStep, ClientPays, Webhook, SyncFromRemote, AdminMarksPaid,
        ReapPending, MarkSucceeded, TypeOK
<1>3. ASSUME NEW e \in Editors, EditStep(e) PROVE FALSE
  <2>1. CASE Invalidate(e)
    BY <2>1 DEF Invalidate, CancelledActive, Active
  <2>2. QED
    BY <1>3, <2>1 DEF EditStep, CheckUpload, CheckChange, LinkDocument, UpdateDocumentFee,
        DeleteDocument, ProjectFee, AbandonEdit, paymentVars
<1>4. CASE CheckEnd \/ EndMeeting \/ UNCHANGED vars
  BY <1>4 DEF CheckEnd, EndMeeting, vars, paymentVars
<1>5. QED
  BY <1>1, <1>2, <1>3, <1>4 DEF Next

\* What alone can make an ended meeting unpaid, for any number of operations and
\* checkouts (assertMeetingPaymentCompleteForEnd and the end are two statements).
THEOREM StaysPaid == Spec => EndedStaysPaid
<1>1. IInv /\ [Next]_vars =>
        [meeting = "ended" /\ (fee = 0 \/ Paid) /\ ~(fee' = 0 \/ Paid') =>
          \/ \E e \in Editors : edit[e] \in {"upload", "change"}
          \/ \E r \in Requests :
                pc[r] \in {"inserted", "granted"} /\ status[mine[r]] = "succeeded"
          \/ \E i \in Ids : GatewayReports(i, "failed")]_vars
  <2> SUFFICES ASSUME IInv, [Next]_vars, fee = 0 \/ Paid, ~(fee' = 0 \/ Paid')
               PROVE  \/ \E e \in Editors : edit[e] \in {"upload", "change"}
                      \/ \E r \in Requests :
                           pc[r] \in {"inserted", "granted"} /\ status[mine[r]] = "succeeded"
                      \/ \E i \in Ids : GatewayReports(i, "failed")
    OBVIOUS
  <2>1. CASE fee = 0
    BY <2>1, FeeChangers
  <2>2. CASE Paid
    <3>1. PICK i \in Ids : status[i] = "succeeded" /\ status'[i] # "succeeded"
      BY <2>2 DEF Paid
    <3>2. \/ \E r \in Requests : pc[r] \in {"inserted", "granted"} /\ mine[r] = i
          \/ GatewayReports(i, "failed")
      BY <3>1, SucceededLosers DEF IInv, OwnInv
    <3>3. QED
      BY <3>1, <3>2
  <2>3. QED
    BY <2>1, <2>2
<1>2. QED
  BY <1>1, Invariant, PTL DEF Spec, EndedStaysPaid
=============================================================================
