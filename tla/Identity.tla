------------------------------- MODULE Identity -------------------------------
(***************************************************************************)
(* The identity of one notary, verified at HyperVerge: the attempts        *)
(* (OnboardingService), whose result comes from the browser's SDK and from *)
(* a webhook (HypervergeWebhookService), in any order and more than once;  *)
(* the expiry date read from the ID that was shown                         *)
(* (syncGovernmentIdExpiryFromKyc); the resets of an identity that is too  *)
(* old or whose ID has expired, which every load of the profile performs;  *)
(* and an administrator's review.                                          *)
(*                                                                         *)
(* retake_count, which nothing reads, and the audit rows are left out.  A  *)
(* request that stops, or whose statement throws, changes nothing more.    *)
(***************************************************************************)
EXTENDS Naturals

CONSTANTS
    Requests,    \* concurrent calls
    MaxTxns,     \* bound on hyperverge_transactions rows
    Results,     \* what is reported of an attempt: "success", "needs_review" or "fail"
    Validity,    \* KYC_VERIFICATION_VALIDITY_DAYS
    MaxTime      \* bound on the clock

VARIABLES
    clock,       \* the day
    txns,        \* hyperverge_transactions rows, and the expiry date of the ID they show
    profile,     \* the identity columns of the enp_profiles row; 0 is null
    job,         \* what each request is doing
    reviewed     \* history: an administrator has reviewed a transaction

vars == <<clock, txns, profile, job, reviewed>>

Time == 1..MaxTime
\* An ID that is shown may outlast the clock.
Dates == 2..(MaxTime + 1)
TxnIds == 1..MaxTxns

NoTxn == [kind |-> "onboarding", status |-> "absent", sdk |-> FALSE, webhook |-> FALSE, id |-> 0]
Idle == [at |-> "idle"]
Jobs ==
    {Idle}
    \cup [at : {"write"}, txn : TxnIds, channel : {"sdk", "webhook"}, result : Results]
    \cup [at : {"store"}, txn : TxnIds]
    \cup [at : {"reset"}]
    \cup [at : {"review"}, result : {"success", "fail"}]

TypeOK ==
    /\ clock \in Time
    /\ txns \in [TxnIds -> [kind : {"onboarding", "liveness"}, status : {"absent", "started", "success", "fail"} \cup Results,
                            sdk : BOOLEAN, webhook : BOOLEAN, id : Dates \cup {0}]]
    /\ profile \in [status : {"unverified", "verified", "failed"}, verifiedAt : Time \cup {0},
                    idUntil : Dates \cup {0}, latest : 0..MaxTxns]
    /\ job \in [Requests -> Jobs]
    /\ reviewed \in BOOLEAN

Init ==
    /\ clock = 1
    /\ txns = [t \in TxnIds |-> NoTxn]
    /\ profile = [status |-> "unverified", verifiedAt |-> 0, idUntil |-> 0, latest |-> 0]
    /\ job = [h \in Requests |-> Idle]
    /\ reviewed = FALSE

Busy(h) == job[h] # Idle

\* Bound: a review ends the behaviour, but for what is under way.
Arrive(h, j) ==
    /\ ~Busy(h) /\ ~reviewed
    /\ job' = [job EXCEPT ![h] = j]

Goto(h, j) == job' = [job EXCEPT ![h] = j]

-----------------------------------------------------------------------------
(* Attempts and their results *)

\* startHypervergeAttempt, one INSERT.  The ID that will be shown expires some later day,
\* and a liveness check shows none.
StartAttempt(kind, id) ==
    /\ ~reviewed
    /\ \E t \in TxnIds :
          /\ txns[t].status = "absent"
          /\ \A s \in 1..(t - 1) : txns[s].status # "absent"
          /\ txns' = [txns EXCEPT ![t] = [NoTxn EXCEPT !.kind = kind, !.status = "started", !.id = id]]
    /\ IF kind = "liveness" THEN id = 0 ELSE id > clock
    /\ UNCHANGED <<clock, profile, job, reviewed>>

AfterResult(h, t, result) ==
    IF result = "success" /\ txns[t].kind = "onboarding" THEN [at |-> "store", txn |-> t] ELSE Idle

\* A result that this channel has brought before is skipped, but for the expiry date.
CheckCallback(h, t, channel, result) ==
    /\ txns[t].status # "absent"
    /\ Arrive(h, IF txns[t][channel] /\ txns[t].status = result THEN AfterResult(h, t, result)
                 ELSE [at |-> "write", txn |-> t, channel |-> channel, result |-> result])
    /\ UNCHANGED <<clock, txns, profile, reviewed>>

\* The time was read just before the transaction: the same day.
Verdict(p, j) ==
    [p EXCEPT !.status = IF j.result = "success" THEN "verified" ELSE "failed",
              !.verifiedAt = IF j.result = "success" THEN clock ELSE 0,
              !.latest = j.txn]

Received(h) == [txns EXCEPT ![job[h].txn].status = job[h].result, ![job[h].txn][job[h].channel] = TRUE]

\* Mutant: a liveness check is taken for a verification.
WriteCallback_Liveness(h) ==
    /\ job[h].at = "write"
    /\ txns' = Received(h)
    /\ profile' = Verdict(profile, job[h])
    /\ Goto(h, AfterResult(h, job[h].txn, job[h].result))
    /\ UNCHANGED <<clock, reviewed>>

\* One transaction, on what the request has read before it.
WriteCallback(h) ==
    /\ job[h].at = "write"
    /\ txns' = Received(h)
    /\ profile' = IF txns[job[h].txn].kind = "onboarding"
                  THEN Verdict(profile, job[h]) ELSE profile
    /\ Goto(h, AfterResult(h, job[h].txn, job[h].result))
    /\ UNCHANGED <<clock, reviewed>>

\* HyperVerge's logs come up to 22 seconds later.
StoreIdExpiry(h) ==
    /\ job[h].at = "store"
    /\ profile' = [profile EXCEPT !.idUntil = txns[job[h].txn].id]
    /\ Goto(h, Idle)
    /\ UNCHANGED <<clock, txns, reviewed>>

-----------------------------------------------------------------------------
(* Loading the profile resets it *)

IdExpired == profile.idUntil # 0 /\ profile.idUntil <= clock
TooOld == profile.verifiedAt # 0 /\ profile.verifiedAt + Validity <= clock

\* expireIdentityIfGovernmentIdExpired, then expireEnpIdentityIfNeeded, which asks again.
CheckExpiry(h) ==
    /\ profile.status = "verified"
    /\ IdExpired \/ TooOld
    /\ Arrive(h, [at |-> "reset"])
    /\ UNCHANGED <<clock, txns, profile, reviewed>>

\* UPDATE by id, whatever the identity has become.
ResetIdentity(h) ==
    /\ job[h].at = "reset"
    /\ profile' = [profile EXCEPT !.status = "unverified", !.verifiedAt = 0]
    /\ Goto(h, Idle)
    /\ UNCHANGED <<clock, txns, reviewed>>

-----------------------------------------------------------------------------
(* AdminService.reviewIdentity: the transaction, then the profile *)

ReviewTxn(h, t, result) ==
    /\ txns[t].status # "absent"
    /\ txns' = [txns EXCEPT ![t].status = result]
    /\ Arrive(h, [at |-> "review", result |-> result])
    /\ reviewed' = TRUE
    /\ UNCHANGED <<clock, profile>>

\* verifiedAt and latest stay what they were.
ReviewProfile(h) ==
    /\ job[h].at = "review"
    /\ profile' = [profile EXCEPT !.status = IF job[h].result = "success" THEN "verified" ELSE "failed"]
    /\ Goto(h, Idle)
    /\ UNCHANGED <<clock, txns, reviewed>>

-----------------------------------------------------------------------------

Tick ==
    /\ clock < MaxTime /\ ~reviewed
    /\ clock' = clock + 1
    /\ UNCHANGED <<txns, profile, job, reviewed>>

\* A request stops before its next statement, or reads no date from the ID.
Abort(h) ==
    /\ Busy(h)
    /\ Goto(h, Idle)
    /\ UNCHANGED <<clock, txns, profile, reviewed>>

Next ==
    \/ Tick
    \/ \E kind \in {"onboarding", "liveness"}, id \in Dates \cup {0} : StartAttempt(kind, id)
    \/ \E h \in Requests :
          \/ \E t \in TxnIds :
                \/ \E channel \in {"sdk", "webhook"}, result \in Results :
                      CheckCallback(h, t, channel, result)
                \/ \E result \in {"success", "fail"} : ReviewTxn(h, t, result)
          \/ WriteCallback(h) \/ StoreIdExpiry(h)
          \/ CheckExpiry(h) \/ ResetIdentity(h) \/ ReviewProfile(h) \/ Abort(h)

Spec == Init /\ [][Next]_vars

-----------------------------------------------------------------------------
(* Properties *)

Succeeded == profile.latest # 0 /\ txns[profile.latest].status = "success"

\* Unless an administrator intervenes, and however results overlap, repeat and overtake
\* each other and the resets: a verified identity is that of a verification that
\* succeeded last, since a known day, and a failed one that of one that did not.
StatusIsLatest ==
    ~reviewed =>
        /\ profile.latest # 0 => txns[profile.latest].kind = "onboarding"
        /\ profile.status = "verified" => Succeeded /\ profile.verifiedAt # 0
        /\ profile.status = "failed" => profile.latest # 0 /\ ~Succeeded
        /\ profile.status # "verified" => profile.verifiedAt = 0

\* Who has completed the verification with an ID that has not expired, and whose date is
\* on file, is verified, where no verification gets too old.
RenewalCounts ==
    /\ Validity >= MaxTime /\ ~reviewed
    /\ \A h \in Requests : ~Busy(h)
    /\ Succeeded /\ txns[profile.latest].id = profile.idUntil /\ ~IdExpired
    => profile.status = "verified"

=============================================================================
