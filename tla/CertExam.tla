------------------------------- MODULE CertExam -------------------------------
(***************************************************************************)
(* The certification exam of one notary candidate, for one exam version:   *)
(* CertExamService's startExam, resumeExam, submitSection and              *)
(* submitExamLegacy, the sweep of expired attempts that every replica runs *)
(* each minute, and the retake payments that generic webhooks and          *)
(* administrators settle.                                                  *)
(*                                                                         *)
(* A section stands for its questions: it is answered right or wrong.      *)
(* The LMS is not configured, so a pass issues the certificate here.       *)
(* Nothing in the code makes an attempt "abandoned".                       *)
(***************************************************************************)
EXTENDS Naturals, FiniteSets

CONSTANTS
    Requests,     \* concurrent calls: the candidate's and the sweepers'
    MaxAttempts,  \* bound on attempts
    MaxIntents,   \* bound on retake payment intents
    Sections,     \* version.sectionCount
    PassMark,     \* right sections needed to pass
    Duration,     \* version.durationMinutes
    Grace,        \* the 15 minutes of a resume
    MaxTime       \* bound on the clock

ASSUME ExamAssumption ==
    /\ MaxAttempts \in Nat /\ MaxIntents \in Nat /\ MaxTime \in Nat
    /\ Sections \in Nat \ {0} /\ PassMark \in 1..Sections
    /\ Duration \in Nat \ {0} /\ Grace \in Nat \ {0}

VARIABLES
    now,          \* the clock
    attempt,      \* exam_attempts and their answers
    started,      \* how many there are
    paid,         \* the exam_retake intents that are succeeded now
    consumed,     \* the intents with consumedAt
    issued,       \* certificates issued for each attempt
    retakes,      \* enp_profiles.retakeCount
    job,          \* what each request is doing
    crowded,      \* history: two requests overlapped
    crashed       \* history: a request was cut off

vars == <<now, attempt, started, paid, consumed, issued, retakes, job, crowded, crashed>>

AttemptIds == 1..MaxAttempts
IntentIds == 1..MaxIntents
Answers == [1..Sections -> {"none", "right", "wrong"}]
Blank == [s \in 1..Sections |-> "none"]
Times == 0..(MaxTime + Duration + Grace)

Attempts == [status : {"absent", "in_progress", "submitted", "expired"},
             answers : Answers, done : 0..Sections, begun : Times, expires : Times,
             resumed : BOOLEAN, passed : BOOLEAN, paidBy : 0..MaxIntents]

NoAttempt == [status |-> "absent", answers |-> Blank, done |-> 0, begun |-> 0, expires |-> 0,
              resumed |-> FALSE, passed |-> FALSE, paidBy |-> 0]

Idle == [at |-> "idle"]
Jobs ==
    {Idle}
    \cup [at : {"start"}, time : Times, pay : 0..MaxIntents]
    \cup [at : {"resume"}, id : AttemptIds, expires : Times]
    \cup [at : {"save"}, id : AttemptIds, section : 1..Sections, answers : Answers]
    \cup [at : {"count", "expire", "grade"}, id : AttemptIds]
    \cup [at : {"record", "profile"}, id : AttemptIds, passed : BOOLEAN]
    \cup [at : {"certify"}, id : AttemptIds]
    \cup [at : {"failed"}, retakes : Nat]

TypeOK ==
    /\ now \in 0..MaxTime
    /\ started \in 0..MaxAttempts
    /\ attempt \in [AttemptIds -> Attempts]
    /\ \A a \in AttemptIds : attempt[a].status = "absent" <=> a > started
    /\ paid \subseteq IntentIds /\ consumed \subseteq IntentIds
    /\ issued \in [AttemptIds -> Nat] /\ retakes \in Nat
    /\ job \in [Requests -> Jobs]
    /\ crowded \in BOOLEAN /\ crashed \in BOOLEAN

Init ==
    /\ now = 0
    /\ attempt = [a \in AttemptIds |-> NoAttempt] /\ started = 0
    /\ paid = {} /\ consumed = {}
    /\ issued = [a \in AttemptIds |-> 0] /\ retakes = 0
    /\ job = [h \in Requests |-> Idle]
    /\ crowded = FALSE /\ crashed = FALSE

paymentVars == <<paid, consumed>>
profileVars == <<issued, retakes>>

Busy(h) == job[h] # Idle
InProgress(a) == attempt[a].status = "in_progress"
Failed(a) == attempt[a].status = "submitted" /\ ~attempt[a].passed
Passed(a) == attempt[a].status = "submitted" /\ attempt[a].passed
Expired(a) == InProgress(a) /\ now > attempt[a].expires

\* gradeAttempt
Grade(answers) == Cardinality({s \in 1..Sections : answers[s] = "right"}) >= PassMark

Arrive(h, j) ==
    /\ ~Busy(h)
    /\ job' = [job EXCEPT ![h] = j]
    /\ crowded' = (crowded \/ \E g \in Requests \ {h} : Busy(g))
    /\ UNCHANGED <<now, attempt, started, crashed>>
    /\ UNCHANGED paymentVars /\ UNCHANGED profileVars

Goto(h, j) == job' = [job EXCEPT ![h] = j] /\ UNCHANGED <<now, crowded, crashed>>

-----------------------------------------------------------------------------
(* startExam *)

\* assertCanStart, and the look for an open attempt: LIMIT 1 without an order, so
\* any attempt in progress may be the one that is looked at.
CheckStart(h, pay) ==
    /\ started < MaxAttempts
    /\ \A a \in AttemptIds : ~Passed(a)
    /\ IF \E a \in AttemptIds : Failed(a)
       THEN pay \in paid \ consumed
       ELSE pay = 0
    /\ (\E a \in AttemptIds : InProgress(a)) =>
          \E a \in AttemptIds : InProgress(a) /\ attempt[a].expires <= now
    /\ Arrive(h, [at |-> "start", time |-> now, pay |-> pay])

\* Mutant: the intent is not consumed.
InsertAttempt_KeepsIntent(h) ==
    /\ job[h].at = "start"
    /\ started < MaxAttempts
    /\ started' = started + 1
    /\ attempt' = [attempt EXCEPT ![started + 1] =
          [NoAttempt EXCEPT !.status = "in_progress", !.begun = job[h].time,
                            !.expires = job[h].time + Duration, !.paidBy = job[h].pay]]
    /\ Goto(h, Idle)
    /\ UNCHANGED paymentVars /\ UNCHANGED profileVars

\* One transaction; it consumes the intent by id.
InsertAttempt(h) ==
    /\ job[h].at = "start"
    /\ started < MaxAttempts
    /\ consumed' = consumed \cup ({job[h].pay} \ {0})
    /\ started' = started + 1
    /\ attempt' = [attempt EXCEPT ![started + 1] =
          [NoAttempt EXCEPT !.status = "in_progress", !.begun = job[h].time,
                            !.expires = job[h].time + Duration, !.paidBy = job[h].pay]]
    /\ Goto(h, Idle)
    /\ UNCHANGED paid /\ UNCHANGED profileVars

-----------------------------------------------------------------------------
(* resumeExam *)

\* Mutant: the status is not checked.
CheckResume_Closed(h, a) ==
    /\ attempt[a].status # "absent" /\ ~attempt[a].resumed
    /\ now <= attempt[a].expires
    /\ Arrive(h, [at |-> "resume", id |-> a, expires |-> attempt[a].expires + Grace])

CheckResume(h, a) ==
    /\ InProgress(a) /\ ~attempt[a].resumed
    /\ now <= attempt[a].expires
    /\ Arrive(h, [at |-> "resume", id |-> a, expires |-> attempt[a].expires + Grace])

\* Mutant: the grace is added to the column when it is written.
WriteResume_Adds(h) ==
    /\ job[h].at = "resume"
    /\ attempt' = [attempt EXCEPT ![job[h].id].resumed = TRUE, ![job[h].id].expires = @ + Grace]
    /\ Goto(h, Idle)
    /\ UNCHANGED started /\ UNCHANGED paymentVars /\ UNCHANGED profileVars

WriteResume(h) ==
    /\ job[h].at = "resume"
    /\ attempt' = [attempt EXCEPT ![job[h].id].resumed = TRUE,
                                  ![job[h].id].expires = job[h].expires]
    /\ Goto(h, Idle)
    /\ UNCHANGED started /\ UNCHANGED paymentVars /\ UNCHANGED profileVars

-----------------------------------------------------------------------------
(* submitSection and submitExamLegacy *)

CheckSection(h, a) ==
    /\ InProgress(a) /\ now <= attempt[a].expires
    /\ attempt[a].done < Sections
    /\ \E answer \in {"right", "wrong"} :
          LET s == attempt[a].done + 1
          IN  Arrive(h, [at |-> "save", id |-> a, section |-> s,
                         answers |-> [Blank EXCEPT ![s] = answer]])

CheckLegacy(h, a) ==
    /\ InProgress(a) /\ now <= attempt[a].expires
    /\ attempt[a].done = 0
    /\ \E answers \in [1..Sections -> {"right", "wrong"}] :
          Arrive(h, [at |-> "save", id |-> a, section |-> Sections, answers |-> answers])

\* One transaction; the status of the attempt is not read again.
SaveAnswers(h) ==
    /\ job[h].at = "save"
    /\ attempt' = [attempt EXCEPT
          ![job[h].id].answers = [s \in 1..Sections |->
              IF job[h].answers[s] = "none" THEN @[s] ELSE job[h].answers[s]],
          ![job[h].id].done = job[h].section]
    /\ Goto(h, IF job[h].section = Sections THEN [at |-> "grade", id |-> job[h].id] ELSE Idle)
    /\ UNCHANGED started /\ UNCHANGED paymentVars /\ UNCHANGED profileVars

-----------------------------------------------------------------------------
(* finalizeAttempt *)

GradeAttempt(h) ==
    /\ job[h].at = "grade"
    /\ Goto(h, [at |-> "record", id |-> job[h].id, passed |-> Grade(attempt[job[h].id].answers)])
    /\ UNCHANGED <<attempt, started>> /\ UNCHANGED paymentVars /\ UNCHANGED profileVars

\* UPDATE by id, whatever the status has become.
RecordGrade(h) ==
    /\ job[h].at = "record"
    /\ attempt' = [attempt EXCEPT ![job[h].id].status = "submitted",
                                  ![job[h].id].passed = job[h].passed]
    /\ Goto(h, [job[h] EXCEPT !.at = "profile"])
    /\ UNCHANGED started /\ UNCHANGED paymentVars /\ UNCHANGED profileVars

ReadProfile(h) ==
    /\ job[h].at = "profile"
    /\ Goto(h, IF job[h].passed THEN [at |-> "certify", id |-> job[h].id]
                                ELSE [at |-> "failed", retakes |-> retakes])
    /\ UNCHANGED <<attempt, started>> /\ UNCHANGED paymentVars /\ UNCHANGED profileVars

\* A new certificate id replaces the profile's, and certificate_issued is audited.
IssueCertificate(h) ==
    /\ job[h].at = "certify"
    /\ issued' = [issued EXCEPT ![job[h].id] = @ + 1]
    /\ Goto(h, Idle)
    /\ UNCHANGED <<attempt, started, retakes>> /\ UNCHANGED paymentVars

CountRetake(h) ==
    /\ job[h].at = "failed"
    /\ retakes' = job[h].retakes + 1
    /\ Goto(h, Idle)
    /\ UNCHANGED <<attempt, started, issued>> /\ UNCHANGED paymentVars

-----------------------------------------------------------------------------
(* sweepExpiredExamAttempts *)

\* Mutant: attempts are found by their time alone.
FindExpired_Closed(h, a) ==
    /\ attempt[a].status # "absent" /\ now > attempt[a].expires
    /\ Arrive(h, [at |-> "count", id |-> a])

FindExpired(h, a) ==
    /\ Expired(a)
    /\ Arrive(h, [at |-> "count", id |-> a])

\* Mutant: a swept attempt counts as expired when its sections are incomplete.
CountAnswers_Sections(h) ==
    /\ job[h].at = "count"
    /\ Goto(h, [at |-> IF attempt[job[h].id].done < Sections THEN "expire" ELSE "grade",
                id |-> job[h].id])
    /\ UNCHANGED <<attempt, started>> /\ UNCHANGED paymentVars /\ UNCHANGED profileVars

\* Mutant: an attempt with answers is left for the candidate to submit.
CountAnswers_LeavesAnswered(h) ==
    /\ job[h].at = "count"
    /\ Goto(h, IF attempt[job[h].id].answers = Blank THEN [at |-> "expire", id |-> job[h].id]
                                                    ELSE Idle)
    /\ UNCHANGED <<attempt, started>> /\ UNCHANGED paymentVars /\ UNCHANGED profileVars

CountAnswers(h) ==
    /\ job[h].at = "count"
    /\ Goto(h, [at |-> IF attempt[job[h].id].answers = Blank THEN "expire" ELSE "grade",
                id |-> job[h].id])
    /\ UNCHANGED <<attempt, started>> /\ UNCHANGED paymentVars /\ UNCHANGED profileVars

WriteExpired(h) ==
    /\ job[h].at = "expire"
    /\ attempt' = [attempt EXCEPT ![job[h].id].status = "expired"]
    /\ Goto(h, Idle)
    /\ UNCHANGED started /\ UNCHANGED paymentVars /\ UNCHANGED profileVars

-----------------------------------------------------------------------------
(* Retake payments *)

others == <<now, attempt, started, consumed, issued, retakes, job, crowded, crashed>>

\* createAdminRetakeGrant, markSucceededByAdmin, or a webhook: the intent succeeds.
PayIntent(i) ==
    /\ i \notin paid
    /\ paid' = paid \cup {i}
    /\ UNCHANGED others

\* A webhook that says "failed" is written over "succeeded", whenever it comes.
UnpayIntent(i) ==
    /\ i \in paid
    /\ paid' = paid \ {i}
    /\ UNCHANGED others

-----------------------------------------------------------------------------

TimePasses ==
    /\ now < MaxTime
    /\ now' = now + 1
    /\ UNCHANGED <<attempt, started, job, crowded, crashed>>
    /\ UNCHANGED paymentVars /\ UNCHANGED profileVars

\* The replica stops, or a statement of the request throws.
Abort(h) ==
    /\ Busy(h)
    /\ job' = [job EXCEPT ![h] = Idle]
    /\ crashed' = TRUE
    /\ UNCHANGED <<now, attempt, started, crowded>>
    /\ UNCHANGED paymentVars /\ UNCHANGED profileVars

Advance(h) ==
    \/ InsertAttempt(h) \/ WriteResume(h) \/ SaveAnswers(h)
    \/ GradeAttempt(h) \/ RecordGrade(h) \/ ReadProfile(h) \/ IssueCertificate(h) \/ CountRetake(h)
    \/ CountAnswers(h) \/ WriteExpired(h)

CandidateStep(h) ==
    \/ \E pay \in 0..MaxIntents : CheckStart(h, pay)
    \/ \E a \in AttemptIds : CheckResume(h, a) \/ CheckSection(h, a) \/ CheckLegacy(h, a)

NextWithoutCrash ==
    \/ TimePasses
    \/ \E i \in IntentIds : PayIntent(i) \/ UnpayIntent(i)
    \/ \E h \in Requests :
          CandidateStep(h) \/ Advance(h) \/ \E a \in AttemptIds : FindExpired(h, a)

Next == NextWithoutCrash \/ \E h \in Requests : Abort(h)

Spec == Init /\ [][Next]_vars

\* Requests run to their end, the cron of some replica keeps finding an expired
\* attempt, and replicas do not crash for ever.
Fairness ==
    /\ \A h \in Requests : WF_vars(Advance(h))
    /\ \A a \in AttemptIds : SF_vars(\E h \in Requests : FindExpired(h, a))
    /\ <>[][NextWithoutCrash]_vars

FairSpec == Spec /\ Fairness

-----------------------------------------------------------------------------
(* Properties *)

\* However resumes overlap, an attempt is extended once.
GraceOnce ==
    \A a \in 1..started : attempt[a].expires <= attempt[a].begun + Duration + Grace

\* Whatever overlaps and crashes, the consumed intents are those that fund an attempt ...
ConsumedFunds == consumed = {attempt[a].paidBy : a \in AttemptIds} \ {0}

\* ... and without overlaps each funds one attempt.
OneRetakePerIntent ==
    ~crowded => \A a, b \in AttemptIds :
                   attempt[a].paidBy = attempt[b].paidBy /\ attempt[a].paidBy # 0 => a = b

\* Without overlaps, an attempt that is closed was graded on the answers it has,
\* or has none.
ClosedAsAnswered ==
    ~crowded => \A a \in AttemptIds :
        /\ attempt[a].status = "submitted" => attempt[a].passed = Grade(attempt[a].answers)
        /\ attempt[a].status = "expired" => attempt[a].answers = Blank

\* Without overlaps and crashes, when nothing is under way each pass has its
\* certificate and each failure its retake counted.
ResultsAreBooked ==
    ~crowded /\ ~crashed /\ (\A h \in Requests : ~Busy(h)) =>
        /\ \A a \in AttemptIds : issued[a] = IF Passed(a) THEN 1 ELSE 0
        /\ retakes = Cardinality({a \in AttemptIds : Failed(a)})

\* Without overlaps a result is final.
ResultStands ==
    [][\A a \in AttemptIds : attempt[a].status \in {"submitted", "expired"} /\ ~crowded' =>
          attempt'[a] = attempt[a]]_vars

\* An attempt whose time is over is closed by a sweep, unless it was just resumed.
ExpiredIsClosed == \A a \in AttemptIds : Expired(a) ~> ~Expired(a)
=============================================================================
