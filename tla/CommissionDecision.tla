-------------------------- MODULE CommissionDecision --------------------------
(***************************************************************************)
(* What an applicant for a notarial commission is promised: one decision,  *)
(* taken once, granted only after the summary hearing has ended, and a     *)
(* commission exactly when it was granted.  Nothing is promised of a       *)
(* decision once two requests on it have overlapped.                       *)
(***************************************************************************)

VARIABLES
    decision,      \* "open", "granted" or "denied"
    commissioned,  \* a commission has been issued
    heard,         \* the summary hearing has ended
    overlapped     \* two requests have overlapped

vars == <<decision, commissioned, heard, overlapped>>

Init == decision = "open" /\ commissioned = FALSE /\ heard = FALSE /\ overlapped = FALSE

EndHearing == heard' = TRUE /\ UNCHANGED <<decision, commissioned>>

Grant ==
    /\ decision = "open" /\ heard
    /\ decision' = "granted" /\ commissioned' = TRUE
    /\ UNCHANGED heard

Deny ==
    /\ decision = "open"
    /\ decision' = "denied"
    /\ UNCHANGED <<commissioned, heard>>

Next ==
    \/ overlapped' = FALSE /\ (EndHearing \/ Grant \/ Deny)
    \/ overlapped' = TRUE

Spec == Init /\ [][Next]_vars
=============================================================================
