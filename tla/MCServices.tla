------------------------------- MODULE MCServices -------------------------------
(***************************************************************************)
(* Model-checking instance of the record-keeping services: the notarial    *)
(* book of a meeting, the compliance log, the codes mailed to a user, the  *)
(* copies asked of an act, the reviews of documents, and the verification  *)
(* of an identity.  They act on different rows, so that a behaviour is one *)
(* of a single component, chosen at the start, while the others stay in    *)
(* their initial states.  Never in play together, the replicas of the log, *)
(* the sessions of the user and the documents of the book are the same two *)
(* values, which keeps the symmetry small.                                 *)
(***************************************************************************)
EXTENDS NotarialBook, TLC

CONSTANTS
    Exports,
    MaxRows, MaxTime,           \* the log; the clocks of the log, the codes and the identity
    MaxCodes,
    MaxCopies, MaxIntents,
    Files, MaxProjects, MaxSessions,
    MaxTxns, Results, Validity

ASSUME ServicesAssumption ==
    /\ {MaxRows, MaxTime, MaxCodes, MaxCopies, MaxIntents, Files, MaxProjects, MaxSessions,
        MaxTxns, Validity} \subseteq Nat
    /\ MaxTime > 0
    /\ Results \subseteq {"success", "needs_review", "fail"}

VARIABLES
    active,
    log, appended, clock, head, stage, covered, late, touched,
    sessions, codes, inbox, time,
    copies, intents, captured,
    review, link, projects, meetings,
    day, txns, profile, reviewed

bookVars == <<session, enb, linked, sealed, acts, pending, signed>>
requestVars == <<job, crowded, crashed>>
logVars == <<log, appended, clock, head, stage, covered, late, touched>>
codesVars == <<sessions, codes, inbox, time>>
copyVars == <<copies, intents, captured>>
reviewVars == <<review, link, projects, meetings>>
identityVars == <<day, txns, profile, reviewed>>

Log == INSTANCE AccessLog WITH Replicas <- Docs
Codes == INSTANCE EmailCodes WITH Sessions <- Docs, session <- sessions, clock <- time
Copies == INSTANCE CertifiedCopy
Reviews == INSTANCE DocumentReview WITH sessions <- meetings
Identities == INSTANCE Identity WITH clock <- day

ServicesInit ==
    /\ active \in {"book", "log", "codes", "copies", "reviews", "identity"}
    /\ Init /\ Log!Init /\ Codes!Init /\ Copies!Init /\ Reviews!Init /\ Identities!Init

ServicesNext ==
    \/ active = "book" /\ Next
       /\ UNCHANGED <<active, logVars, codesVars, copyVars, reviewVars, identityVars>>
    \/ active = "log" /\ Log!Next
       /\ UNCHANGED <<active, bookVars, codesVars, copyVars, reviewVars, identityVars, requestVars>>
    \/ active = "codes" /\ Codes!Next
       /\ UNCHANGED <<active, bookVars, logVars, copyVars, reviewVars, identityVars>>
    \/ active = "copies" /\ Copies!Next
       /\ UNCHANGED <<active, bookVars, logVars, codesVars, reviewVars, identityVars, crashed>>
    \/ active = "reviews" /\ Reviews!Next
       /\ UNCHANGED <<active, bookVars, logVars, codesVars, copyVars, identityVars>>
    \/ active = "identity" /\ Identities!Next
       /\ UNCHANGED <<active, bookVars, logVars, codesVars, copyVars, reviewVars, crowded, crashed>>

servicesVars == <<active, requestVars, bookVars, logVars, codesVars, copyVars, reviewVars,
                  identityVars>>

ServicesSpec == ServicesInit /\ [][ServicesNext]_servicesVars

\* Used with invariants and [][A]_v only.
Symmetry == Permutations(Requests) \cup Permutations(Docs)

-----------------------------------------------------------------------------
(* What is checked, next to the properties of NotarialBook *)

\* Every column of every service has its type.
TypesOK ==
    /\ active = "book" => TypeOK
    /\ active = "log" => Log!TypeOK
    /\ active = "codes" => Codes!TypeOK
    /\ active = "copies" => Copies!TypeOK
    /\ active = "reviews" => Reviews!TypeOK
    /\ active = "identity" => Identities!TypeOK

\* A log that verifies has been changed nowhere, one that does not is changed where
\* verify says, and an export is bound to the rows that were there when it was taken
\* (AccessLog).
LogIsRight == active = "log" => Log!VerifyIsRight /\ Log!ExportsAreBound

\* The user can sign in, and only the user (EmailCodes).
CodesWork == active = "codes" => Codes!CodesWork

\* The client's list shows the last intent that could be paid (CertifiedCopy).
LastIntentIsShown == active = "copies" => Copies!LastIntentIsShown

\* A review has one outcome, which made what it says and nothing else (DocumentReview).
OneOutcome == active = "reviews" => Reviews!OneOutcome

\* The documents of a review are signed one after the other (DocumentReview).
QueueInOrder == active = "reviews" => Reviews!QueueInOrder

\* An identity is that of its latest verification (Identity).
StatusIsLatest == active = "identity" => Identities!StatusIsLatest
=============================================================================
