------------------------------- MODULE MCProgress -------------------------------
(***************************************************************************)
(* Model-checking instance of components that promise that something       *)
(* happens: the answers of an exam and the Supreme Court's registry.  They *)
(* share no table, so that a behaviour is one of a single component,       *)
(* chosen at the start, while the other stays in its initial state.        *)
(***************************************************************************)
EXTENDS CertExam

CONSTANTS Acts, MaxFilings

ASSUME RegistryAssumption == MaxFilings \in Nat

VARIABLES
    active,
    acts, filings, sc, profile, syncing, syncCrowded, lost

examVars == vars
registryVars == <<acts, filings, sc, profile, syncing, syncCrowded, lost>>

Registry == INSTANCE ScRegistry WITH job <- syncing, crowded <- syncCrowded

ProgressInit ==
    /\ active \in {"exam", "registry"}
    /\ Init /\ Registry!Init

ProgressNext ==
    \/ active = "exam" /\ Next /\ UNCHANGED <<active, registryVars>>
    \/ active = "registry" /\ Registry!Next /\ UNCHANGED <<active, examVars>>

\* In its initial state no component has an action of its fairness enabled, so that
\* only the one that was chosen is constrained.
ProgressSpec ==
    /\ ProgressInit
    /\ [][ProgressNext]_<<active, examVars, registryVars>>
    /\ Fairness /\ Registry!Fairness

-----------------------------------------------------------------------------
(* What is checked, next to the properties of CertExam *)

\* Every column of every component has its type.
TypesOK ==
    /\ active = "exam" => TypeOK
    /\ active = "registry" => Registry!TypeOK

\* An act is registered as often as it should be (ScRegistry).
FiledOnce == active = "registry" => Registry!FiledOnce

\* What an administrator set outlasts the refreshes (ScRegistry).
OverrideOutlastsRefresh == Registry!OverrideOutlastsRefresh

\* A profile comes to show what the Supreme Court says (ScRegistry).
StatusFollows == Registry!StatusFollows
=============================================================================
