------------------------------ MODULE ScRegistry ------------------------------
(***************************************************************************)
(* The acts of one electronic notary public and the Supreme Court's        *)
(* registry: the submission after an act is entered, bulkScSync, and the   *)
(* notary's commission status, which a submission, the refresh of every    *)
(* replica and an administrator write to the same columns.                 *)
(*                                                                         *)
(* The registry is configured.  A bulk call is a request per act: its acts *)
(* are submitted in parallel.                                              *)
(* Payloads and the upload of the PDF, whose failure is swallowed, are     *)
(* left out.                                                               *)
(***************************************************************************)
EXTENDS Naturals

CONSTANTS
    Requests,    \* concurrent calls, and the submissions they leave running
    Acts,        \* registry_acts ids
    MaxFilings   \* bound on the registrations of one act at the Supreme Court

VARIABLES
    acts,        \* scStatus and whether scExternalRef is live, by act
    filings,     \* registrations (NRIDs) at the Supreme Court, by act
    sc,          \* the commission status the Supreme Court answers
    profile,     \* enp_profiles: scCommissionStatus, scCommissionStatusAdminOverride, and
                 \* whether the roll and the commission number are filled in
    job,         \* what each request is doing
    crowded,     \* history: a request met another, or an administrator
    lost         \* history: a request was cut off, or an answer lost

vars == <<acts, filings, sc, profile, job, crowded, lost>>

Statuses == {"active", "blocked"}
Idle == [at |-> "idle"]
Jobs ==
    {Idle}
    \cup [at : {"pdf", "query", "persist", "file", "synced", "failed"}, act : Acts,
          by : {"insert", "bulk"}]
    \cup [at : {"ask"}, by : {"refresh", "admin"}]
    \cup [at : {"store"}, by : {"refresh", "admin"}, status : Statuses]

TypeOK ==
    /\ acts \in [Acts -> [status : {"absent", "draft", "synced", "sync_failed"}, ref : BOOLEAN]]
    /\ filings \in [Acts -> 0..MaxFilings]
    /\ sc \in Statuses
    /\ profile \in [status : Statuses, override : BOOLEAN, complete : BOOLEAN]
    /\ job \in [Requests -> Jobs]
    /\ crowded \in BOOLEAN /\ lost \in BOOLEAN

Init ==
    /\ acts = [a \in Acts |-> [status |-> "absent", ref |-> FALSE]]
    /\ filings = [a \in Acts |-> 0]
    /\ sc = "active"
    /\ profile = [status |-> "active", override |-> FALSE, complete |-> FALSE]
    /\ job = [h \in Requests |-> Idle]
    /\ crowded = FALSE /\ lost = FALSE

Busy(h) == job[h] # Idle

Arrive(h, j) ==
    /\ ~Busy(h)
    /\ job' = [job EXCEPT ![h] = j]
    /\ crowded' = (crowded \/ \E g \in Requests \ {h} : Busy(g))
    /\ UNCHANGED <<filings, sc, profile, lost>>

Goto(h, j) == job' = [job EXCEPT ![h] = j] /\ UNCHANGED <<sc, crowded>>
GoAt(h, at) == Goto(h, [job[h] EXCEPT !.at = at]) /\ UNCHANGED lost

-----------------------------------------------------------------------------
(* Entering an act *)

\* The draft of a meeting's document; its submission is not awaited.
InsertAndSubmit(h, a) ==
    /\ acts[a].status = "absent" /\ profile.complete
    /\ acts' = [acts EXCEPT ![a].status = "draft"]
    /\ Arrive(h, [at |-> "pdf", act |-> a, by |-> "insert"])

\* An act that the notary enters, or whose notary has not filled in the numbers, is not
\* submitted by itself.
InsertAct(a) ==
    /\ acts[a].status = "absent"
    /\ acts' = [acts EXCEPT ![a].status = "draft"]
    /\ UNCHANGED <<filings, sc, profile, job, crowded, lost>>

-----------------------------------------------------------------------------
(* submitAct, from tryScSyncRegistryActAfterInsert or bulkScSync *)

\* Mutant: an act that is registered is submitted again.
ReadForBulk_Again(h, a) ==
    /\ profile.complete /\ acts[a].status # "absent"
    /\ Arrive(h, [at |-> "pdf", act |-> a, by |-> "bulk"])
    /\ UNCHANGED acts

ReadForBulk(h, a) ==
    /\ profile.complete
    /\ acts[a].status \notin {"absent", "synced"} /\ ~acts[a].ref
    /\ Arrive(h, [at |-> "pdf", act |-> a, by |-> "bulk"])
    /\ UNCHANGED acts

\* Without the PDF a bulk submission is failed, one after an insert is forgotten.
LoadPdf(h) ==
    /\ job[h].at = "pdf"
    /\ \/ GoAt(h, "query")
       \/ job[h].by = "bulk" /\ GoAt(h, "failed")
       \/ job[h].by = "insert" /\ Goto(h, Idle) /\ UNCHANGED lost
    /\ UNCHANGED <<acts, filings, profile>>

\* A blocked commission, or no answer, fails the submission.
AskCommission(h) ==
    /\ job[h].at = "query"
    /\ \/ GoAt(h, "failed")
       \/ sc = "active" /\ GoAt(h, "persist")
    /\ UNCHANGED <<acts, filings, profile>>

\* persistEnpScCommissionStatus, whose default ends an administrator's override.
PersistCommission(h) ==
    /\ job[h].at = "persist"
    /\ profile' = [profile EXCEPT !.status = "active", !.override = FALSE]
    /\ GoAt(h, "file")
    /\ UNCHANGED <<acts, filings>>

\* The registry registers the act and answers, or its answer is lost, or it refuses.
FileAct(h) ==
    /\ job[h].at = "file"
    /\ \/ /\ filings[job[h].act] < MaxFilings
          /\ filings' = [filings EXCEPT ![job[h].act] = @ + 1]
          /\ \/ GoAt(h, "synced")
             \/ Goto(h, [job[h] EXCEPT !.at = "failed"]) /\ lost' = TRUE
       \/ GoAt(h, "failed") /\ UNCHANGED filings
    /\ UNCHANGED <<acts, profile>>

\* UPDATE by id, as is the next.
WriteSynced(h) ==
    /\ job[h].at = "synced"
    /\ acts' = [acts EXCEPT ![job[h].act] = [status |-> "synced", ref |-> TRUE]]
    /\ Goto(h, Idle)
    /\ UNCHANGED <<filings, profile, lost>>

\* Mutant: the failure has a name of its own.
WriteFailed_Renamed(h) ==
    /\ job[h].at = "failed"
    /\ acts' = [acts EXCEPT ![job[h].act].status = "failed"]
    /\ Goto(h, Idle)
    /\ UNCHANGED <<filings, profile, lost>>

\* The reference of an earlier success is left.
WriteFailed(h) ==
    /\ job[h].at = "failed"
    /\ acts' = [acts EXCEPT ![job[h].act].status = "sync_failed"]
    /\ Goto(h, Idle)
    /\ UNCHANGED <<filings, profile, lost>>

-----------------------------------------------------------------------------
(* The commission status *)

\* Mutant: an override is refreshed as well.
CheckRefresh_Override(h) ==
    /\ profile.complete
    /\ Arrive(h, [at |-> "ask", by |-> "refresh"])
    /\ UNCHANGED acts

\* syncEnpScCommissionStatusIfStale of a profile load, or of the cron's list of rows.
CheckRefresh(h) ==
    /\ profile.complete /\ ~profile.override
    /\ Arrive(h, [at |-> "ask", by |-> "refresh"])
    /\ UNCHANGED acts

\* An administrator asks the Supreme Court again, override or not.
AdminSync(h) ==
    /\ profile.complete
    /\ Arrive(h, [at |-> "ask", by |-> "admin"])
    /\ UNCHANGED acts

AskStatus(h) ==
    /\ job[h].at = "ask"
    /\ Goto(h, [at |-> "store", by |-> job[h].by, status |-> sc]) /\ UNCHANGED lost
    /\ UNCHANGED <<acts, filings, profile>>

\* Errors of the Supreme Court are logged.
AskFails(h) ==
    /\ job[h].at = "ask"
    /\ Goto(h, Idle)
    /\ UNCHANGED <<acts, filings, profile, lost>>

\* Mutant: a status is stored once.
StoreStatus_Once(h) ==
    /\ job[h].at = "store"
    /\ profile' = [profile EXCEPT !.status = IF @ = "blocked" THEN @ ELSE job[h].status,
                                  !.override = FALSE]
    /\ Goto(h, Idle)
    /\ UNCHANGED <<acts, filings, lost>>

StoreStatus(h) ==
    /\ job[h].at = "store"
    /\ profile' = [profile EXCEPT !.status = job[h].status, !.override = FALSE]
    /\ Goto(h, Idle)
    /\ UNCHANGED <<acts, filings, lost>>

\* setEnpScCommissionStatus
Override(status) ==
    /\ profile' = [profile EXCEPT !.status = status, !.override = TRUE]
    /\ crowded' = (crowded \/ \E g \in Requests : Busy(g))
    /\ UNCHANGED <<acts, filings, sc, job, lost>>

\* The notary fills in the numbers of the profile, or clears them.
EditProfile ==
    /\ profile' = [profile EXCEPT !.complete = ~@]
    /\ UNCHANGED <<acts, filings, sc, job, crowded, lost>>

ScDecides(status) ==
    /\ sc # status
    /\ sc' = status
    /\ UNCHANGED <<acts, filings, profile, job, crowded, lost>>

-----------------------------------------------------------------------------

Abort(h) ==
    /\ Busy(h)
    /\ job' = [job EXCEPT ![h] = Idle]
    /\ lost' = TRUE
    /\ UNCHANGED <<acts, filings, sc, profile, crowded>>

Advance(h) ==
    \/ LoadPdf(h) \/ AskCommission(h) \/ PersistCommission(h) \/ FileAct(h)
    \/ WriteSynced(h) \/ WriteFailed(h)
    \/ AskStatus(h) \/ AskFails(h) \/ StoreStatus(h)

Call(h) ==
    \/ \E a \in Acts : InsertAndSubmit(h, a) \/ ReadForBulk(h, a)
    \/ CheckRefresh(h) \/ AdminSync(h)

NextWithoutCrash ==
    \/ \E h \in Requests : Call(h) \/ Advance(h)
    \/ \E a \in Acts : InsertAct(a)
    \/ EditProfile
    \/ \E status \in Statuses : Override(status) \/ ScDecides(status)

Next == NextWithoutCrash \/ \E h \in Requests : Abort(h)

Spec == Init /\ [][Next]_vars

\* Requests run to their end, the cron keeps refreshing, the Supreme Court answers now
\* and then, and replicas do not crash for ever.
Fairness ==
    /\ \A h \in Requests : WF_vars(Advance(h)) /\ SF_vars(AskStatus(h))
    /\ SF_vars(\E h \in Requests : CheckRefresh(h))
    /\ <>[][NextWithoutCrash]_vars

FairSpec == Spec /\ Fairness

-----------------------------------------------------------------------------
(* Properties *)

\* Whatever overlaps or is lost, an act that shows as synced is registered, under a
\* reference that keeps it from being submitted again; and an act is registered twice
\* only after an overlap or a loss.
FiledOnce ==
    \A a \in Acts :
        /\ acts[a].status = "synced" => filings[a] > 0 /\ acts[a].ref
        /\ ~crowded /\ ~lost => filings[a] <= 1

AdminStores == \E h \in Requests : job[h].at = "store" /\ job[h].by = "admin" /\ job'[h] = Idle
Submits == \E h \in Requests : job[h].at = "persist" /\ job'[h].at = "file"

\* What an administrator set outlasts the refreshes, unless an act is submitted or the
\* refresh was under way.
OverrideOutlastsRefresh ==
    [][profile.override /\ ~profile'.override /\ ~crowded' => AdminStores \/ Submits]_vars

\* Without an override, a complete profile comes to show what the Supreme Court says.
StatusFollows ==
    \A status \in Statuses :
        <>[](sc = status /\ profile.complete /\ ~profile.override) => <>[](profile.status = status)
=============================================================================
