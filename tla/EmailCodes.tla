------------------------------- MODULE EmailCodes -------------------------------
(***************************************************************************)
(* The codes that EmailMfaService mails to one user, for each session that *)
(* is opened by a sign-in; they are rows of email_verification_otps.       *)
(* EmailVerificationService would keep its codes there too, but answers    *)
(* before it inserts one: every user is created with a verified address,   *)
(* and nothing takes that back.                                            *)
(*                                                                         *)
(* A code is the id of its row: its digits are hashed with the session.  A *)
(* wrong code changes nothing and is left out.  The mailer is that of      *)
(* production.                                                             *)
(***************************************************************************)
EXTENDS Naturals

CONSTANTS
    Requests,   \* concurrent calls of the user
    Sessions,
    MaxCodes,   \* bound on the rows
    MaxTime     \* bound on the clock

VARIABLES
    session,    \* the sessions' mfaRequiredAt and mfaVerifiedAt
    codes,      \* email_verification_otps
    inbox,      \* codes that the user was mailed
    clock,
    job,        \* what each request is doing
    crowded,    \* history: two requests overlapped
    crashed     \* history: a request was cut off

vars == <<session, codes, inbox, clock, job, crowded, crashed>>

CodeIds == 1..MaxCodes
Times == 0..MaxTime
Lifetime == 1    \* OTP_TTL_MS, in ticks of the clock
NoSession == "none"

NoCode == [status |-> "absent", session |-> NoSession, at |-> 0]
Idle == [at |-> "idle"]

Jobs ==
    {Idle}
    \cup [at : {"insert"}, for : Sessions, time : Times]
    \cup [at : {"send", "delete", "accept"}, for : Sessions, code : CodeIds]

TypeOK ==
    /\ session \in [Sessions -> {"none", "required", "verified"}]
    /\ codes \in [CodeIds -> [status : {"absent", "live", "deleted"},
                              session : Sessions \cup {NoSession}, at : Times]]
    /\ inbox \subseteq {c \in CodeIds : codes[c].status # "absent"}
    /\ clock \in Times
    /\ job \in [Requests -> Jobs]
    /\ crowded \in BOOLEAN /\ crashed \in BOOLEAN

Init ==
    /\ session = [s \in Sessions |-> "none"]
    /\ codes = [c \in CodeIds |-> NoCode]
    /\ inbox = {}
    /\ clock = 0
    /\ job = [h \in Requests |-> Idle]
    /\ crowded = FALSE /\ crashed = FALSE

Busy(h) == job[h] # Idle

Arrive(h, j) ==
    /\ ~Busy(h)
    /\ job' = [job EXCEPT ![h] = j]
    /\ crowded' = (crowded \/ \E g \in Requests \ {h} : Busy(g))
    /\ UNCHANGED <<session, codes, inbox, clock, crashed>>

Goto(h, j) == job' = [job EXCEPT ![h] = j] /\ UNCHANGED <<clock, crowded, crashed>>

-----------------------------------------------------------------------------
(* The queries *)

Live == {c \in CodeIds : codes[c].status = "live"}
Expired(c) == clock > codes[c].at + Lifetime

\* ORDER BY created_at DESC; either of two that were created at once.
Latest(rows) == {c \in rows : \A d \in rows : codes[d].at <= codes[c].at}

MfaRows(s) == {c \in Live : codes[c].session = s}

-----------------------------------------------------------------------------
(* Requesting a code *)

\* Mutant: the code that is still valid is not looked for.
RequestMfa_Again(h, s) ==
    /\ session[s] = "required"
    /\ Arrive(h, [at |-> "insert", for |-> s, time |-> clock])

RequestMfa(h, s) ==
    /\ session[s] = "required"
    /\ MfaRows(s) = {} \/ \E c \in Latest(MfaRows(s)) : Expired(c)
    /\ Arrive(h, [at |-> "insert", for |-> s, time |-> clock])

InsertCode(h) ==
    /\ job[h].at = "insert"
    /\ \E c \in CodeIds :
          /\ codes[c].status = "absent"
          /\ \A d \in 1..(c - 1) : codes[d].status # "absent"
          /\ codes' = [codes EXCEPT ![c] = [status |-> "live", session |-> job[h].for,
                                            at |-> job[h].time]]
          /\ Goto(h, [at |-> "send", for |-> job[h].for, code |-> c])
    /\ UNCHANGED <<session, inbox>>

SendCode(h) ==
    /\ job[h].at = "send"
    /\ inbox' = inbox \cup {job[h].code}
    /\ Goto(h, Idle)
    /\ UNCHANGED <<session, codes>>

\* The row is taken back, in a statement of its own.
SendFails(h) ==
    /\ job[h].at = "send"
    /\ Goto(h, [job[h] EXCEPT !.at = "delete"])
    /\ UNCHANGED <<session, codes, inbox>>

DeleteCode(h) ==
    /\ job[h].at = "delete"
    /\ codes' = [codes EXCEPT ![job[h].code].status = "deleted"]
    /\ Goto(h, Idle)
    /\ UNCHANGED <<session, inbox>>

-----------------------------------------------------------------------------
(* Entering a code *)

VerifyMfa(h, s, c) ==
    /\ session[s] = "required"
    /\ c \in inbox /\ c \in Latest(MfaRows(s)) /\ ~Expired(c)
    /\ Arrive(h, [at |-> "accept", for |-> s, code |-> c])

\* One transaction: every code of the session is deleted, and the session verified.
AcceptMfa(h) ==
    /\ job[h].at = "accept"
    /\ codes' = [c \in CodeIds |-> IF codes[c].session = job[h].for
                                   THEN [codes[c] EXCEPT !.status = "deleted"] ELSE codes[c]]
    /\ session' = [session EXCEPT ![job[h].for] = "verified"]
    /\ Goto(h, Idle)
    /\ UNCHANGED <<inbox>>

-----------------------------------------------------------------------------

\* The session's token is returned after the hook that requires the MFA.
SignIn(s) ==
    /\ session[s] = "none"
    /\ session' = [session EXCEPT ![s] = "required"]
    /\ UNCHANGED <<codes, inbox, clock, job, crowded, crashed>>

Tick ==
    /\ clock < MaxTime
    /\ clock' = clock + 1
    /\ UNCHANGED <<session, codes, inbox, job, crowded, crashed>>

Abort(h) ==
    /\ Busy(h)
    /\ job' = [job EXCEPT ![h] = Idle]
    /\ crashed' = TRUE
    /\ UNCHANGED <<session, codes, inbox, clock, crowded>>

Next ==
    \/ Tick
    \/ \E s \in Sessions : SignIn(s)
    \/ \E h \in Requests :
          \/ \E s \in Sessions : RequestMfa(h, s) \/ \E c \in CodeIds : VerifyMfa(h, s, c)
          \/ InsertCode(h) \/ SendCode(h) \/ SendFails(h) \/ DeleteCode(h)
          \/ AcceptMfa(h) \/ Abort(h)

Spec == Init /\ [][Next]_vars

-----------------------------------------------------------------------------
(* Properties *)

\* Unless requests overlap, a code that was mailed for a session is accepted until it
\* expires: no newer row stands before it.
MailedCodeWorks ==
    ~crowded => \A c \in inbox \cap Live : ~Expired(c) =>
        Latest(MfaRows(codes[c].session)) = {c}

\* Unless a request is cut off, a session's code that keeps another from being mailed was
\* mailed, or is on its way to be mailed or deleted.
MailedOrGone ==
    ~crashed => \A c \in Live :
        c \in inbox \/ \E h \in Requests : job[h].at \in {"send", "delete"} /\ job[h].code = c

\* A session passes the MFA only when a code was mailed for it.
VerifiedByOwnCode ==
    \A s \in Sessions : session[s] = "verified" => \E c \in inbox : codes[c].session = s

\* The user can sign in, and only the user: the codes of the sessions reach the user or
\* make way, those that reached the user are accepted, and nothing else is.
CodesWork == MailedCodeWorks /\ MailedOrGone /\ VerifiedByOwnCode
=============================================================================
