-------------------------------- MODULE Booking --------------------------------
(***************************************************************************)
(* What the appointment service promises its two parties, one step per     *)
(* decision: a booking with documents is confirmed only by accepting a     *)
(* quote, only a confirmed booking becomes a meeting, a meeting ends only  *)
(* once its notarial book is signed, and a final status is final.          *)
(* AppointmentLifecycle, the code's read-then-write handlers, implements   *)
(* it as long as no two requests on the appointment overlap.               *)
(***************************************************************************)

VARIABLES
    status,  \* appointments.status; "absent" before the row exists
    docs,    \* the booking documents: none attached, not all priced, priced
    enb      \* appointments.enbSigningStatus

vars == <<status, docs, enb>>

Init == status = "absent" /\ docs = "none" /\ enb = "not_started"

Move(from, to) ==
    /\ status \in from
    /\ status' = to
    /\ UNCHANGED <<docs, enb>>

Request == Move({"absent"}, "pending")
Quote == docs = "priced" /\ Move({"pending"}, "quote_sent")
Accept == Move({"quote_sent"}, "confirmed")
Confirm == docs = "none" /\ Move({"pending"}, "confirmed")
Decline == Move({"pending", "quote_sent"}, "declined")
Cancel == Move({"pending", "quote_sent"}, "cancelled")
Start == Move({"confirmed"}, "in_session")
End == enb = "completed" /\ Move({"in_session"}, "ended")

Attach ==
    /\ status = "pending" /\ docs = "none"
    /\ docs' = "unpriced"
    /\ UNCHANGED <<status, enb>>

Price ==
    /\ status = "pending" /\ docs # "none"
    /\ docs' = "priced"
    /\ UNCHANGED <<status, enb>>

SignBook ==
    /\ status = "in_session"
    /\ \/ enb = "not_started" /\ enb' = "active"
       \/ enb = "active" /\ enb' = "completed"
    /\ UNCHANGED <<status, docs>>

Next ==
    \/ Request \/ Quote \/ Accept \/ Confirm \/ Decline \/ Cancel \/ Start \/ End
    \/ Attach \/ Price \/ SignBook

Spec == Init /\ [][Next]_vars
=============================================================================
