------------------------------- MODULE MCMeeting -------------------------------
(***************************************************************************)
(* Model-checking instance of components of a meeting that promise that    *)
(* something happens: the appointment, a document signed in it, and the    *)
(* fee of a commission hearing.  They act on different rows, and each is   *)
(* modelled against anything the others do to it, so that a behaviour is   *)
(* one of a single component, chosen at the start, while the others stay   *)
(* in their initial states.                                                *)
(***************************************************************************)
EXTENDS AppointmentLifecycle

CONSTANTS Browsers, Signers, Notary, MaxIntents

ASSUME FeeAssumption == MaxIntents \in Nat

VARIABLES
    active,
    inSession, booked, row, assigned, completed, plotted, fields, stamps, file, signing, crossed, doubled,
    hearing, intents, captured, marked, checked, joined, paying

bookingVars == vars
signingVars == <<inSession, booked, row, assigned, completed, plotted, fields, stamps, file, signing,
                 crossed, doubled>>
feeVars == <<hearing, intents, captured, marked, checked, joined, paying>>

Signing == INSTANCE DocumentSigning WITH Requests <- Browsers, MaxAssignments <- 1, job <- signing
Fee == INSTANCE HearingFee WITH job <- paying

MeetingInit ==
    /\ active \in {"booking", "signing", "fee"}
    /\ Init /\ Signing!Init /\ Fee!Init

MeetingNext ==
    \/ active = "booking" /\ Next /\ UNCHANGED <<active, signingVars, feeVars>>
    \/ active = "signing" /\ Signing!Next /\ UNCHANGED <<active, bookingVars, feeVars>>
    \/ active = "fee" /\ Fee!Next /\ UNCHANGED <<active, bookingVars, signingVars>>

\* In its initial state no component has an action of its fairness enabled, so that
\* only the one that was chosen is constrained.
MeetingSpec ==
    /\ MeetingInit
    /\ [][MeetingNext]_<<active, bookingVars, signingVars, feeVars>>
    /\ Fairness /\ Signing!Fairness /\ Fee!Fairness

-----------------------------------------------------------------------------
(* What is checked, next to the properties of AppointmentLifecycle *)

\* A document that everyone has signed is completed (DocumentSigning).
SignedIsCompleted == Signing!SignedIsCompleted

\* An applicant in a hearing has paid for it, and what was paid comes to be recorded
\* (HearingFee).
PaidAndRecorded == [](active = "fee" => Fee!JoinedHasPaid) /\ Fee!FeeIsRecorded
=============================================================================
