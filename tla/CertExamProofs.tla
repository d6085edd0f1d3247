---------------------------- MODULE CertExamProofs ----------------------------
(***************************************************************************)
(* For any number of candidates' calls, sweeps, attempts and payments,     *)
(* with every overlap and crash: an attempt is extended by at most one     *)
(* grace period, the consumed payments are those that fund attempts, and a *)
(* result is the one its answers earn and stays.  Without overlaps a       *)
(* payment funds one attempt, and results are booked once.                 *)
(***************************************************************************)
EXTENDS CertExam, FiniteSetTheorems, TLAPS

USE ExamAssumption

\* What a request under way remembers: a clock that is past, a row that exists,
\* and the end of an attempt that is extended once.
JobOK(j) ==
    /\ j.at = "start" => j.time <= now
    /\ j.at \in {"resume", "save", "count", "expire", "grade", "record", "profile",
                 "certify"} => j.id <= started
    /\ j.at = "resume" => j.expires = attempt[j.id].begun + Duration + Grace

JobInv == \A h \in Requests : JobOK(job[h])

\* An attempt ends when it began plus its duration, and the grace if it was resumed.
ClockOK(r) ==
    /\ r.begun <= now
    /\ ~r.resumed => r.expires = r.begun + Duration
    /\ r.resumed => r.expires = r.begun + Duration + Grace

ClockInv == \A a \in AttemptIds : a <= started => ClockOK(attempt[a])

FundInv ==
    /\ consumed = {attempt[a].paidBy : a \in AttemptIds} \ {0}
    /\ \A a \in AttemptIds : a > started => attempt[a].paidBy = 0

IInv == TypeOK /\ JobInv /\ ClockInv /\ FundInv

-----------------------------------------------------------------------------
(* The shapes of jobs *)

\* What a request remembers at each stage.
LEMMA JobKinds ==
    ASSUME NEW j \in Jobs
    PROVE  /\ j.at = "start" => j.time \in Times /\ j.pay \in 0..MaxIntents
           /\ j.at = "resume" => j.id \in AttemptIds /\ j.expires \in Times
           /\ j.at = "save" => /\ j.id \in AttemptIds /\ j.section \in 1..Sections
                               /\ j.answers \in Answers
           /\ j.at \in {"count", "expire", "grade", "certify"} => j.id \in AttemptIds
           /\ j.at \in {"record", "profile"} =>
                 /\ j.id \in AttemptIds /\ j.passed \in BOOLEAN
                 /\ [j EXCEPT !.at = "profile"] =
                       [at |-> "profile", id |-> j.id, passed |-> j.passed]
           /\ j.at = "failed" => j.retakes \in Nat
  BY DEF Jobs, Idle

\* A row without answers has the type of a row.
LEMMA NoAttemptType == NoAttempt \in Attempts
<1>1. Blank \in Answers
  BY DEF Blank, Answers
<1> QED
  BY <1>1 DEF NoAttempt, Attempts, Times

\* The initial states satisfy the invariant.
LEMMA InitIInv == Init => IInv
<1> SUFFICES ASSUME Init PROVE IInv
  OBVIOUS
<1>1. TypeOK
  <2>1. Idle \in Jobs
    BY DEF Jobs
  <2>2. attempt \in [AttemptIds -> Attempts]
    BY NoAttemptType DEF Init
  <2>3. \A a \in AttemptIds : attempt[a].status = "absent" <=> a > started
    BY DEF Init, NoAttempt, AttemptIds
  <2>4. job \in [Requests -> Jobs]
    BY <2>1 DEF Init
  <2>5. now \in 0..MaxTime /\ started \in 0..MaxAttempts
    BY DEF Init
  <2>6. issued \in [AttemptIds -> Nat] /\ retakes \in Nat
    BY DEF Init
  <2>7. crowded \in BOOLEAN /\ crashed \in BOOLEAN
    BY Zenon DEF Init
  <2>8. paid \subseteq IntentIds /\ consumed \subseteq IntentIds
    BY DEF Init
  <2> QED
    BY <2>2, <2>3, <2>4, <2>5, <2>6, <2>7, <2>8, Zenon DEF TypeOK
<1>2. JobInv
  BY DEF Init, JobInv, JobOK, Idle
<1>3. ClockInv
  BY DEF Init, ClockInv, AttemptIds
<1>4. FundInv
  BY DEF Init, FundInv, NoAttempt
<1> QED
  BY <1>1, <1>2, <1>3, <1>4 DEF IInv

-----------------------------------------------------------------------------
(* What the actions have in common *)

\* Moving one request on replaces its job by another of the right type.
LEMMA JobMoved ==
    ASSUME job \in [Requests -> Jobs], NEW h \in Requests, NEW j \in Jobs,
           job' = [job EXCEPT ![h] = j]
    PROVE  /\ job' \in [Requests -> Jobs]
           /\ job'[h] = j
           /\ \A g \in Requests : g # h => job'[g] = job[g]
  OBVIOUS

\* A step that changes no row and no consumption, and moves one request on.
LEMMA MoveKeeps ==
    ASSUME IInv, NEW h \in Requests, NEW j \in Jobs, JobOK(j),
           job' = [job EXCEPT ![h] = j], crowded' \in BOOLEAN, crashed' \in BOOLEAN,
           UNCHANGED <<now, attempt, started, paid, consumed>>,
           issued' \in [AttemptIds -> Nat], retakes' \in Nat
    PROVE  IInv'
<1>1. TypeOK'
  BY JobMoved DEF IInv, TypeOK
<1>2. JobInv'
  BY JobMoved DEF IInv, TypeOK, JobInv, JobOK
<1>3. ClockInv'
  BY DEF IInv, ClockInv, ClockOK
<1>4. FundInv'
  BY DEF IInv, FundInv
<1> QED
  BY <1>1, <1>2, <1>3, <1>4 DEF IInv

\* The arrival of a request, whatever it read.
LEMMA ArriveKeeps ==
    ASSUME IInv, NEW h \in Requests, NEW j \in Jobs, JobOK(j), Arrive(h, j)
    PROVE  IInv'
<1>1. crowded' \in BOOLEAN
  BY Zenon DEF Arrive
<1>2. crashed' \in BOOLEAN
  BY Zenon DEF Arrive, IInv, TypeOK
<1>3. issued' \in [AttemptIds -> Nat] /\ retakes' \in Nat
  BY DEF Arrive, profileVars, IInv, TypeOK
<1> QED
  BY <1>1, <1>2, <1>3, MoveKeeps DEF Arrive, paymentVars

\* A step that writes one row and moves one request on.
LEMMA RowKeeps ==
    ASSUME IInv, NEW h \in Requests, NEW j \in Jobs, JobOK(j), Goto(h, j),
           NEW a \in AttemptIds, a <= started, NEW r \in Attempts, ClockOK(r),
           r.begun = attempt[a].begun, r.paidBy = attempt[a].paidBy, r.status # "absent",
           attempt' = [attempt EXCEPT ![a] = r],
           UNCHANGED <<started, paid, consumed, issued, retakes>>
    PROVE  IInv'
<1>0. /\ attempt' \in [AttemptIds -> Attempts]
      /\ attempt'[a] = r
      /\ \A b \in AttemptIds : b # a => attempt'[b] = attempt[b]
  BY DEF IInv, TypeOK
<1>1. TypeOK'
  <2>1. \A b \in AttemptIds : attempt'[b].status = "absent" <=> b > started'
    BY <1>0 DEF IInv, TypeOK, AttemptIds
  <2>2. job' \in [Requests -> Jobs]
    BY JobMoved DEF IInv, TypeOK, Goto
  <2>3. /\ now' \in 0..MaxTime /\ started' \in 0..MaxAttempts
        /\ paid' \subseteq IntentIds /\ consumed' \subseteq IntentIds
        /\ issued' \in [AttemptIds -> Nat] /\ retakes' \in Nat
    BY DEF IInv, TypeOK, Goto
  <2>4. crowded' \in BOOLEAN /\ crashed' \in BOOLEAN
    BY Zenon DEF IInv, TypeOK, Goto
  <2> QED
    BY <1>0, <2>1, <2>2, <2>3, <2>4, Zenon DEF TypeOK
<1>2. JobInv'
  <2> SUFFICES ASSUME NEW g \in Requests PROVE JobOK(job[g])'
    BY DEF JobInv
  <2>1. JobOK(job'[g])
    BY JobMoved DEF IInv, TypeOK, JobInv, Goto
  <2>2. job'[g] \in Jobs
    BY JobMoved DEF IInv, TypeOK, Goto
  <2>3. \A b \in AttemptIds : attempt'[b].begun = attempt[b].begun
    BY <1>0
  <2> QED
    BY <2>1, <2>2, <2>3, JobKinds DEF JobOK, Goto
<1>3. ClockInv'
  BY <1>0 DEF IInv, ClockInv, ClockOK, Goto
<1>4. FundInv'
  <2>1. \A b \in AttemptIds : attempt'[b].paidBy = attempt[b].paidBy
    BY <1>0
  <2> QED
    BY <2>1 DEF IInv, FundInv
<1> QED
  BY <1>1, <1>2, <1>3, <1>4 DEF IInv

\* A request at a stage has a job of that stage's shape.
LEMMA JobAt ==
    ASSUME IInv, NEW h \in Requests
    PROVE  /\ job[h] \in Jobs /\ JobOK(job[h])
           /\ job[h].at \in {"resume", "save", "count", "expire", "grade", "record", "profile",
                             "certify"} => job[h].id \in AttemptIds /\ job[h].id <= started
           /\ Idle \in Jobs /\ JobOK(Idle)
<1>1. job[h] \in Jobs /\ JobOK(job[h])
  BY DEF IInv, TypeOK, JobInv
<1>2. Idle \in Jobs /\ JobOK(Idle)
  BY DEF Jobs, JobOK, Idle
<1> QED
  BY <1>1, <1>2, JobKinds DEF JobOK

-----------------------------------------------------------------------------
(* The arrivals *)

\* A start has read the clock, and chosen a payment or none.
LEMMA StartArrives ==
    ASSUME IInv, NEW h \in Requests, NEW pay \in 0..MaxIntents, CheckStart(h, pay)
    PROVE  IInv'
<1> DEFINE j == [at |-> "start", time |-> now, pay |-> pay]
<1>1. j \in Jobs /\ JobOK(j)
  BY DEF IInv, TypeOK, Jobs, JobOK, Times
<1> QED
  BY <1>1, ArriveKeeps DEF CheckStart

\* A resume computes its end from a row that was not resumed.
LEMMA ResumeArrives ==
    ASSUME IInv, NEW h \in Requests, NEW a \in AttemptIds, CheckResume(h, a)
    PROVE  IInv'
<1> DEFINE j == [at |-> "resume", id |-> a, expires |-> attempt[a].expires + Grace]
<1>1. a <= started /\ attempt[a] \in Attempts
  BY DEF CheckResume, InProgress, IInv, TypeOK, AttemptIds
<1>2. attempt[a].begun <= now /\ attempt[a].expires = attempt[a].begun + Duration
  BY <1>1 DEF CheckResume, IInv, ClockInv, ClockOK
<1>3. j.expires \in Times /\ j.expires = attempt[a].begun + Duration + Grace
  BY <1>1, <1>2 DEF IInv, TypeOK, Attempts, Times
<1>4. j \in Jobs /\ JobOK(j)
  BY <1>1, <1>3 DEF Jobs, JobOK
<1> QED
  BY <1>4, ArriveKeeps DEF CheckResume

\* A section is submitted in its turn.
LEMMA SectionArrives ==
    ASSUME IInv, NEW h \in Requests, NEW a \in AttemptIds, CheckSection(h, a)
    PROVE  IInv'
<1> DEFINE s == attempt[a].done + 1
<1>1. PICK answer \in {"right", "wrong"} :
        Arrive(h, [at |-> "save", id |-> a, section |-> s,
                   answers |-> [Blank EXCEPT ![s] = answer]])
  BY DEF CheckSection
<1> DEFINE j == [at |-> "save", id |-> a, section |-> s,
                 answers |-> [Blank EXCEPT ![s] = answer]]
<1>2. a <= started
  BY DEF CheckSection, InProgress, IInv, TypeOK, AttemptIds
<1>3. s \in 1..Sections
  BY DEF CheckSection, IInv, TypeOK, Attempts
<1>4. [Blank EXCEPT ![s] = answer] \in Answers
  BY DEF Blank, Answers
<1>5. j \in Jobs /\ JobOK(j)
  BY <1>2, <1>3, <1>4 DEF Jobs, JobOK
<1> QED
  BY <1>1, <1>5, ArriveKeeps

\* All sections are submitted at once.
LEMMA LegacyArrives ==
    ASSUME IInv, NEW h \in Requests, NEW a \in AttemptIds, CheckLegacy(h, a)
    PROVE  IInv'
<1>1. PICK answers \in [1..Sections -> {"right", "wrong"}] :
        Arrive(h, [at |-> "save", id |-> a, section |-> Sections, answers |-> answers])
  BY DEF CheckLegacy
<1> DEFINE j == [at |-> "save", id |-> a, section |-> Sections, answers |-> answers]
<1>2. a <= started
  BY DEF CheckLegacy, InProgress, IInv, TypeOK, AttemptIds
<1>3. answers \in Answers /\ Sections \in 1..Sections
  BY DEF Answers
<1>4. j \in Jobs /\ JobOK(j)
  BY <1>2, <1>3 DEF Jobs, JobOK
<1> QED
  BY <1>1, <1>4, ArriveKeeps

\* A sweep finds an attempt that exists.
LEMMA SweepArrives ==
    ASSUME IInv, NEW h \in Requests, NEW a \in AttemptIds, FindExpired(h, a)
    PROVE  IInv'
<1> DEFINE j == [at |-> "count", id |-> a]
<1>1. a <= started
  BY DEF FindExpired, Expired, InProgress, IInv, TypeOK, AttemptIds
<1>2. j \in Jobs /\ JobOK(j)
  BY <1>1 DEF Jobs, JobOK
<1> QED
  BY <1>2, ArriveKeeps DEF FindExpired

-----------------------------------------------------------------------------
(* The statements of a request under way *)

\* The transaction of startExam: a row, and the payment it consumes.
LEMMA InsertKeeps ==
    ASSUME IInv, NEW h \in Requests, InsertAttempt(h)
    PROVE  IInv'
<1> DEFINE n == started + 1
           r == [NoAttempt EXCEPT !.status = "in_progress", !.begun = job[h].time,
                                  !.expires = job[h].time + Duration, !.paidBy = job[h].pay]
<1>1. /\ n \in AttemptIds /\ n > started /\ started' = n
      /\ now' = now /\ now \in 0..MaxTime
  BY DEF InsertAttempt, Goto, IInv, TypeOK, AttemptIds
<1>2. job[h].time \in Times /\ job[h].time <= now /\ job[h].pay \in 0..MaxIntents
  BY JobAt, JobKinds DEF InsertAttempt, JobOK
<1>3. r \in Attempts /\ ClockOK(r) /\ r.paidBy = job[h].pay /\ r.status = "in_progress"
  <2>1. job[h].time \in Times /\ job[h].time + Duration \in Times
    BY <1>1, <1>2 DEF Times
  <2>2. r \in Attempts
    BY <1>2, <2>1, NoAttemptType DEF Attempts
  <2>3. /\ r.begun = job[h].time /\ r.expires = job[h].time + Duration
        /\ r.paidBy = job[h].pay /\ r.status = "in_progress" /\ r.resumed = FALSE
    BY NoAttemptType DEF Attempts, NoAttempt
  <2> QED
    BY <1>2, <2>2, <2>3 DEF ClockOK
<1> HIDE DEF r
<1>4. /\ attempt' \in [AttemptIds -> Attempts]
      /\ attempt'[n] = r
      /\ \A b \in AttemptIds : b # n => attempt'[b] = attempt[b]
  BY <1>1, <1>3 DEF InsertAttempt, IInv, TypeOK, r
<1>5. TypeOK'
  <2>1. \A b \in AttemptIds : attempt'[b].status = "absent" <=> b > started'
    BY <1>1, <1>3, <1>4 DEF IInv, TypeOK, AttemptIds
  <2>2. job' \in [Requests -> Jobs]
    BY JobMoved, JobAt DEF IInv, TypeOK, Goto, InsertAttempt
  <2>3. /\ now' \in 0..MaxTime /\ started' \in 0..MaxAttempts
        /\ issued' \in [AttemptIds -> Nat] /\ retakes' \in Nat
    BY <1>1 DEF IInv, TypeOK, Goto, InsertAttempt, profileVars, AttemptIds
  <2>4. crowded' \in BOOLEAN /\ crashed' \in BOOLEAN
    BY Zenon DEF IInv, TypeOK, Goto, InsertAttempt
  <2>5. paid' \subseteq IntentIds /\ consumed' \subseteq IntentIds
    BY <1>2 DEF IInv, TypeOK, InsertAttempt, IntentIds
  <2> QED
    BY <1>4, <2>1, <2>2, <2>3, <2>4, <2>5, Zenon DEF TypeOK
<1>6. JobInv'
  <2> SUFFICES ASSUME NEW g \in Requests PROVE JobOK(job[g])'
    BY DEF JobInv
  <2>1. JobOK(job'[g]) /\ job'[g] \in Jobs
    BY JobMoved, JobAt DEF IInv, TypeOK, JobInv, Goto, InsertAttempt
  <2>2. \A b \in AttemptIds : b <= started => attempt'[b] = attempt[b]
    BY <1>1, <1>4 DEF IInv, TypeOK, AttemptIds
  <2>3. job'[g].at = "resume" => job'[g].id \in AttemptIds /\ job'[g].id <= started
    BY <2>1, JobKinds DEF JobOK
  <2>4. job'[g].at \in {"resume", "save", "count", "expire", "grade", "record", "profile",
                        "certify"} => job'[g].id \in AttemptIds
    BY <2>1, JobKinds
  <2> QED
    BY <1>1, <2>1, <2>2, <2>3, <2>4 DEF JobOK, AttemptIds, IInv, TypeOK
<1>7. ClockInv'
  <2> SUFFICES ASSUME NEW b \in AttemptIds, b <= started' PROVE ClockOK(attempt[b])'
    BY DEF ClockInv
  <2>1. CASE b = n
    BY <1>1, <1>3, <1>4, <2>1 DEF ClockOK
  <2>2. CASE b # n
    <3>1. b <= started /\ attempt'[b] = attempt[b]
      BY <1>1, <1>4, <2>2 DEF AttemptIds, IInv, TypeOK
    <3> QED
      BY <1>1, <3>1 DEF IInv, ClockInv, ClockOK
  <2> QED
    BY <2>1, <2>2
<1>8. FundInv'
  <2>1. consumed' = consumed \cup ({r.paidBy} \ {0})
    BY <1>3 DEF InsertAttempt
  <2>2. attempt[n].paidBy = 0
    BY <1>1 DEF IInv, FundInv
  <2>3. consumed' = {attempt'[b].paidBy : b \in AttemptIds} \ {0}
    BY <1>1, <1>4, <2>1, <2>2 DEF IInv, FundInv
  <2>4. \A b \in AttemptIds : b > started' => attempt'[b].paidBy = 0
    BY <1>1, <1>4 DEF IInv, TypeOK, FundInv, AttemptIds
  <2> QED
    BY <2>3, <2>4 DEF FundInv
<1> QED
  BY <1>5, <1>6, <1>7, <1>8 DEF IInv

\* The row is extended to the end the resume computed.
LEMMA WriteResumeKeeps ==
    ASSUME IInv, NEW h \in Requests, WriteResume(h)
    PROVE  IInv'
<1> DEFINE a == job[h].id
           r == [attempt[a] EXCEPT !.resumed = TRUE, !.expires = job[h].expires]
<1>1. /\ a \in AttemptIds /\ a <= started /\ job[h].expires \in Times
      /\ job[h].expires = attempt[a].begun + Duration + Grace
  BY JobAt, JobKinds DEF WriteResume, JobOK
<1>2. attempt[a] \in Attempts /\ attempt[a].status # "absent" /\ attempt[a].begun <= now
  BY <1>1 DEF IInv, TypeOK, ClockInv, ClockOK, AttemptIds
<1>3. /\ r \in Attempts /\ r.begun = attempt[a].begun /\ r.paidBy = attempt[a].paidBy
      /\ r.status # "absent" /\ r.resumed = TRUE /\ r.expires = job[h].expires
  BY <1>1, <1>2 DEF Attempts
<1>4. ClockOK(r)
  BY <1>1, <1>2, <1>3 DEF ClockOK
<1>5. attempt' = [attempt EXCEPT ![a] = r]
  BY DEF WriteResume
<1> HIDE DEF a, r
<1> QED
  BY <1>1, <1>3, <1>4, <1>5, JobAt, RowKeeps DEF WriteResume, paymentVars, profileVars

\* Answers are merged into a row whose times stay.
LEMMA SaveAnswersKeeps ==
    ASSUME IInv, NEW h \in Requests, SaveAnswers(h)
    PROVE  IInv'
<1> DEFINE a == job[h].id
           merged == [s \in 1..Sections |-> IF job[h].answers[s] = "none"
                                            THEN attempt[a].answers[s] ELSE job[h].answers[s]]
           r == [attempt[a] EXCEPT !.answers = merged, !.done = job[h].section]
           j == IF job[h].section = Sections THEN [at |-> "grade", id |-> a] ELSE Idle
<1>1. /\ a \in AttemptIds /\ a <= started /\ job[h].section \in 1..Sections
      /\ job[h].answers \in Answers
  BY JobAt, JobKinds DEF SaveAnswers
<1>2. attempt[a] \in Attempts /\ attempt[a].status # "absent" /\ ClockOK(attempt[a])
  BY <1>1 DEF IInv, TypeOK, ClockInv, AttemptIds
<1>3. merged \in Answers
  BY <1>1, <1>2 DEF Attempts, Answers
<1>4. attempt' = [attempt EXCEPT ![a] = r]
  BY DEF SaveAnswers
<1>5. Goto(h, j)
  BY DEF SaveAnswers
<1> HIDE DEF merged
<1>6. /\ r \in Attempts /\ r.begun = attempt[a].begun /\ r.paidBy = attempt[a].paidBy
      /\ r.status # "absent" /\ r.resumed = attempt[a].resumed
      /\ r.expires = attempt[a].expires
  <2>1. job[h].section \in 0..Sections
    BY <1>1
  <2> HIDE DEF a
  <2> QED
    BY <1>2, <1>3, <2>1 DEF Attempts
<1>7. ClockOK(r)
  BY <1>2, <1>6 DEF ClockOK
<1>8. j \in Jobs /\ JobOK(j)
  BY <1>1, JobAt DEF Jobs, JobOK
<1> HIDE DEF a, r, j
<1> QED
  BY <1>1, <1>4, <1>5, <1>6, <1>7, <1>8, RowKeeps DEF SaveAnswers, paymentVars, profileVars

\* A grade leaves the times and the payment of its row.
LEMMA RecordGradeKeeps ==
    ASSUME IInv, NEW h \in Requests, RecordGrade(h)
    PROVE  IInv'
<1> DEFINE a == job[h].id
           r == [attempt[a] EXCEPT !.status = "submitted", !.passed = job[h].passed]
           j == [at |-> "profile", id |-> a, passed |-> job[h].passed]
<1>1. a \in AttemptIds /\ a <= started /\ job[h].passed \in BOOLEAN
  BY JobAt, JobKinds DEF RecordGrade
<1>2. attempt[a] \in Attempts /\ ClockOK(attempt[a])
  BY <1>1 DEF IInv, TypeOK, ClockInv
<1>3. /\ r \in Attempts /\ r.begun = attempt[a].begun /\ r.paidBy = attempt[a].paidBy
      /\ r.status # "absent" /\ r.resumed = attempt[a].resumed
      /\ r.expires = attempt[a].expires
  BY <1>1, <1>2 DEF Attempts
<1>4. ClockOK(r)
  BY <1>2, <1>3 DEF ClockOK
<1>5. attempt' = [attempt EXCEPT ![a] = r]
  BY DEF RecordGrade
<1>6. Goto(h, j)
  BY JobAt, JobKinds DEF RecordGrade
<1>7. j \in Jobs /\ JobOK(j)
  BY <1>1 DEF Jobs, JobOK
<1> HIDE DEF a, r, j
<1> QED
  BY <1>1, <1>3, <1>4, <1>5, <1>6, <1>7, RowKeeps DEF RecordGrade, paymentVars, profileVars

\* So does an expiry.
LEMMA WriteExpiredKeeps ==
    ASSUME IInv, NEW h \in Requests, WriteExpired(h)
    PROVE  IInv'
<1> DEFINE a == job[h].id
           r == [attempt[a] EXCEPT !.status = "expired"]
<1>1. a \in AttemptIds /\ a <= started
  BY JobAt DEF WriteExpired
<1>2. attempt[a] \in Attempts /\ ClockOK(attempt[a])
  BY <1>1 DEF IInv, TypeOK, ClockInv
<1>3. /\ r \in Attempts /\ r.begun = attempt[a].begun /\ r.paidBy = attempt[a].paidBy
      /\ r.status # "absent" /\ r.resumed = attempt[a].resumed
      /\ r.expires = attempt[a].expires
  BY <1>2 DEF Attempts
<1>4. ClockOK(r)
  BY <1>2, <1>3 DEF ClockOK
<1>5. attempt' = [attempt EXCEPT ![a] = r]
  BY DEF WriteExpired
<1> HIDE DEF a, r
<1> QED
  BY <1>1, <1>3, <1>4, <1>5, JobAt, RowKeeps DEF WriteExpired, paymentVars, profileVars

\* The statements that write no row of exam_attempts.
LEMMA OtherStatementsKeep ==
    ASSUME IInv, NEW h \in Requests,
           GradeAttempt(h) \/ ReadProfile(h) \/ IssueCertificate(h) \/ CountRetake(h)
             \/ CountAnswers(h) \/ Abort(h)
    PROVE  IInv'
<1>0. /\ crowded \in BOOLEAN /\ crashed \in BOOLEAN
      /\ issued \in [AttemptIds -> Nat] /\ retakes \in Nat
  BY Zenon DEF IInv, TypeOK
<1>1. CASE GradeAttempt(h)
  <2> DEFINE j == [at |-> "record", id |-> job[h].id,
                   passed |-> Grade(attempt[job[h].id].answers)]
  <2>1. Grade(attempt[job[h].id].answers) \in BOOLEAN
    BY DEF Grade
  <2>2. j \in Jobs /\ JobOK(j)
    BY <1>1, <2>1, JobAt DEF GradeAttempt, Jobs, JobOK
  <2> QED
    BY <1>0, <1>1, <2>2, MoveKeeps DEF GradeAttempt, Goto, paymentVars, profileVars
<1>2. CASE ReadProfile(h)
  <2> DEFINE j == IF job[h].passed THEN [at |-> "certify", id |-> job[h].id]
                                   ELSE [at |-> "failed", retakes |-> retakes]
  <2>1. j \in Jobs /\ JobOK(j)
    BY <1>0, <1>2, JobAt DEF ReadProfile, Jobs, JobOK
  <2> QED
    BY <1>0, <1>2, <2>1, MoveKeeps DEF ReadProfile, Goto, paymentVars, profileVars
<1>3. CASE IssueCertificate(h)
  <2>1. issued' \in [AttemptIds -> Nat]
    BY <1>0, <1>3, JobAt DEF IssueCertificate
  <2> QED
    BY <1>0, <1>3, <2>1, JobAt, MoveKeeps DEF IssueCertificate, Goto, paymentVars
<1>4. CASE CountRetake(h)
  <2>1. retakes' \in Nat
    <3>1. job[h].at = "failed" /\ job[h] \in Jobs
      BY <1>4, JobAt DEF CountRetake
    <3>2. job[h].retakes \in Nat
      BY <3>1, JobKinds
    <3> QED
      BY <1>4, <3>2 DEF CountRetake
  <2> QED
    BY <1>0, <1>4, <2>1, JobAt, MoveKeeps DEF CountRetake, Goto, paymentVars
<1>5. CASE CountAnswers(h)
  <2> DEFINE j == [at |-> IF attempt[job[h].id].answers = Blank THEN "expire" ELSE "grade",
                   id |-> job[h].id]
  <2>1. j \in Jobs /\ JobOK(j)
    BY <1>5, JobAt DEF CountAnswers, Jobs, JobOK
  <2> QED
    BY <1>0, <1>5, <2>1, MoveKeeps DEF CountAnswers, Goto, paymentVars, profileVars
<1>6. CASE Abort(h)
  <2>1. crashed' \in BOOLEAN
    BY <1>6, Zenon DEF Abort
  <2> QED
    BY <1>0, <1>6, <2>1, JobAt, MoveKeeps DEF Abort, paymentVars, profileVars
<1> QED
  BY <1>1, <1>2, <1>3, <1>4, <1>5, <1>6

\* Payments and the clock.
LEMMA WorldKeeps ==
    ASSUME IInv, TimePasses \/ \E i \in IntentIds : PayIntent(i) \/ UnpayIntent(i)
    PROVE  IInv'
<1>1. CASE TimePasses
  <2>1. now \in 0..MaxTime /\ now' \in 0..MaxTime /\ now <= now'
    BY <1>1 DEF TimePasses, IInv, TypeOK
  <2>2. TypeOK'
    BY <1>1, <2>1, Zenon DEF TimePasses, IInv, TypeOK, paymentVars, profileVars
  <2>3. JobInv'
    <3> SUFFICES ASSUME NEW h \in Requests PROVE JobOK(job[h])'
      BY DEF JobInv
    <3>1. job[h].at = "start" => job[h].time \in Times
      BY JobAt, JobKinds
    <3> QED
      BY <1>1, <2>1, <3>1 DEF TimePasses, IInv, JobInv, JobOK, Times
  <2>4. ClockInv'
    <3> SUFFICES ASSUME NEW a \in AttemptIds, a <= started' PROVE ClockOK(attempt[a])'
      BY DEF ClockInv
    <3>1. ClockOK(attempt[a]) /\ attempt[a].begun \in Times /\ attempt'[a] = attempt[a]
      BY <1>1 DEF TimePasses, IInv, TypeOK, ClockInv, Attempts
    <3> QED
      BY <2>1, <3>1 DEF ClockOK, Times
  <2>5. FundInv'
    BY <1>1 DEF TimePasses, paymentVars, IInv, FundInv
  <2> QED
    BY <2>2, <2>3, <2>4, <2>5 DEF IInv
<1>2. CASE \E i \in IntentIds : PayIntent(i) \/ UnpayIntent(i)
  <2>1. paid' \subseteq IntentIds
    BY <1>2 DEF PayIntent, UnpayIntent, IInv, TypeOK
  <2>2. UNCHANGED others
    BY <1>2 DEF PayIntent, UnpayIntent
  <2>3. TypeOK'
    BY <2>1, <2>2, Zenon DEF others, IInv, TypeOK
  <2>4. JobInv'
    BY <2>2 DEF others, IInv, JobInv, JobOK
  <2>5. ClockInv'
    BY <2>2 DEF others, IInv, ClockInv, ClockOK
  <2>6. FundInv'
    BY <2>2 DEF others, IInv, FundInv
  <2> QED
    BY <2>3, <2>4, <2>5, <2>6 DEF IInv
<1> QED
  BY <1>1, <1>2

\* Every step keeps the invariant.
LEMMA NextKeeps == IInv /\ [Next]_vars => IInv'
<1> SUFFICES ASSUME IInv, [Next]_vars PROVE IInv'
  OBVIOUS
<1>1. ASSUME NEW h \in Requests, CandidateStep(h) PROVE IInv'
  BY <1>1, StartArrives, ResumeArrives, SectionArrives, LegacyArrives DEF CandidateStep
<1>2. ASSUME NEW h \in Requests, Advance(h) PROVE IInv'
  BY <1>2, InsertKeeps, WriteResumeKeeps, SaveAnswersKeeps, RecordGradeKeeps,
     WriteExpiredKeeps, OtherStatementsKeep DEF Advance
<1>3. ASSUME NEW h \in Requests, NEW a \in AttemptIds, FindExpired(h, a) PROVE IInv'
  BY <1>3, SweepArrives
<1>4. ASSUME NEW h \in Requests, Abort(h) PROVE IInv'
  BY <1>4, OtherStatementsKeep
<1>5. CASE UNCHANGED vars
  <2>1. TypeOK'
    BY <1>5, Zenon DEF vars, IInv, TypeOK
  <2>2. JobInv' /\ ClockInv' /\ FundInv'
    BY <1>5 DEF vars, IInv, JobInv, JobOK, ClockInv, ClockOK, FundInv
  <2> QED
    BY <2>1, <2>2 DEF IInv
<1> QED
  BY <1>1, <1>2, <1>3, <1>4, <1>5, WorldKeeps DEF Next, NextWithoutCrash

\* The invariant holds for ever.
LEMMA Invariance == Spec => []IInv
  BY InitIInv, NextKeeps, PTL DEF Spec

\* Every variable keeps its type.
THEOREM TypeCorrect == Spec => []TypeOK
<1>1. IInv => TypeOK
  BY DEF IInv
<1> QED
  BY <1>1, Invariance, PTL

\* Resumes that overlap write the same end: both computed it from the row that
\* neither had extended (resumeExam).
THEOREM Extended == Spec => []GraceOnce
<1>1. IInv => GraceOnce
  <2> SUFFICES ASSUME IInv, NEW a \in 1..started
               PROVE  attempt[a].expires <= attempt[a].begun + Duration + Grace
    BY DEF GraceOnce
  <2>1. a \in AttemptIds /\ a <= started
    BY DEF IInv, TypeOK, AttemptIds
  <2>2. ClockOK(attempt[a]) /\ attempt[a].begun \in Times /\ attempt[a].resumed \in BOOLEAN
    BY <2>1 DEF IInv, TypeOK, ClockInv, Attempts
  <2> QED
    BY <2>2 DEF ClockOK, Times
<1> QED
  BY <1>1, Invariance, PTL

\* Consumption and the attempt it pays for are one transaction (startExam), so no
\* crash or overlap parts them.
THEOREM Funded == Spec => []ConsumedFunds
<1>1. IInv => ConsumedFunds
  BY DEF IInv, FundInv, ConsumedFunds
<1> QED
  BY <1>1, Invariance, PTL

-----------------------------------------------------------------------------
(* Without overlaps *)

\* Until two requests overlap one alone is under way, and the payment it means
\* to consume is not consumed yet.
AloneInv ==
    ~crowded =>
        /\ \A g, h \in Requests : Busy(g) /\ Busy(h) => g = h
        /\ \A h \in Requests :
              job[h].at = "start" /\ job[h].pay # 0 => job[h].pay \notin consumed
        /\ OneRetakePerIntent

\* At first nothing is under way.
LEMMA InitAlone == Init => AloneInv
  BY DEF Init, AloneInv, Busy, Idle, OneRetakePerIntent, NoAttempt

\* A request that arrives alone has read what is still true.
LEMMA ArriveAlone ==
    ASSUME IInv, AloneInv, NEW h \in Requests, NEW j, Arrive(h, j),
           j.at = "start" /\ j.pay # 0 => j.pay \notin consumed
    PROVE  AloneInv'
<1> SUFFICES ASSUME ~crowded' PROVE AloneInv'
  BY DEF AloneInv
<1>1. ~crowded /\ \A g \in Requests \ {h} : ~Busy(g)
  BY DEF Arrive
<1>2. job'[h] = j /\ \A g \in Requests \ {h} : job'[g] = Idle
  BY <1>1 DEF Arrive, Busy, IInv, TypeOK
<1>3. consumed' = consumed /\ attempt' = attempt
  BY DEF Arrive, paymentVars
<1>4. \A g, k \in Requests : Busy(g)' /\ Busy(k)' => g = k
  BY <1>2 DEF Busy
<1>5. \A g \in Requests :
         job'[g].at = "start" /\ job'[g].pay # 0 => job'[g].pay \notin consumed'
  BY <1>2, <1>3 DEF Idle
<1>6. OneRetakePerIntent'
  BY <1>1, <1>3 DEF AloneInv, OneRetakePerIntent
<1> QED
  BY <1>4, <1>5, <1>6 DEF AloneInv

\* A statement that consumes nothing disturbs nobody.
LEMMA MoveAlone ==
    ASSUME IInv, AloneInv, NEW h \in Requests, NEW j, Busy(h), j.at # "start",
           job' = [job EXCEPT ![h] = j], UNCHANGED <<crowded, consumed>>,
           \A a \in AttemptIds : attempt'[a].paidBy = attempt[a].paidBy
    PROVE  AloneInv'
<1> SUFFICES ASSUME ~crowded' PROVE AloneInv'
  BY DEF AloneInv
<1>1. ~crowded
  OBVIOUS
<1>2. job'[h] = j /\ \A g \in Requests : g # h => job'[g] = job[g]
  BY DEF IInv, TypeOK
<1>3. \A g, k \in Requests : Busy(g)' /\ Busy(k)' => g = k
  BY <1>1, <1>2 DEF Busy, AloneInv
<1>4. \A g \in Requests :
         job'[g].at = "start" /\ job'[g].pay # 0 => job'[g].pay \notin consumed'
  BY <1>1, <1>2 DEF AloneInv
<1>5. OneRetakePerIntent'
  BY <1>1 DEF AloneInv, OneRetakePerIntent
<1> QED
  BY <1>3, <1>4, <1>5 DEF AloneInv

\* A start that is alone spends a payment that funded no attempt.
LEMMA InsertAlone ==
    ASSUME IInv, AloneInv, NEW h \in Requests, InsertAttempt(h)
    PROVE  AloneInv'
<1> SUFFICES ASSUME ~crowded' PROVE AloneInv'
  BY DEF AloneInv
<1> DEFINE n == started + 1
           pay == job[h].pay
           r == [NoAttempt EXCEPT !.status = "in_progress", !.begun = job[h].time,
                                  !.expires = job[h].time + Duration, !.paidBy = pay]
<1>1. ~crowded /\ Busy(h) /\ (pay # 0 => pay \notin consumed)
  BY DEF InsertAttempt, Goto, Busy, Idle, AloneInv
<1>2. /\ job'[h] = Idle
      /\ \A g \in Requests : g # h => job'[g] = job[g] /\ ~Busy(g)
  BY <1>1 DEF IInv, TypeOK, InsertAttempt, Goto, AloneInv
<1>3. r.paidBy = pay
  BY NoAttemptType DEF Attempts
<1>4. n \in AttemptIds
  BY DEF InsertAttempt, IInv, TypeOK, AttemptIds
<1> HIDE DEF r
<1>5. attempt'[n].paidBy = pay /\ \A a \in AttemptIds : a # n => attempt'[a] = attempt[a]
  BY <1>3, <1>4 DEF InsertAttempt, IInv, TypeOK, r
<1>6. \A a \in AttemptIds : attempt[a].paidBy # 0 => attempt[a].paidBy \in consumed
  BY DEF IInv, FundInv
<1>7. OneRetakePerIntent'
  BY <1>1, <1>5, <1>6 DEF AloneInv, OneRetakePerIntent
<1>8. \A g, k \in Requests : Busy(g)' /\ Busy(k)' => g = k
  BY <1>2 DEF Busy
<1>9. \A g \in Requests :
         job'[g].at = "start" /\ job'[g].pay # 0 => job'[g].pay \notin consumed'
  BY <1>2 DEF Busy, Idle
<1> QED
  BY <1>7, <1>8, <1>9 DEF AloneInv

\* The statements after an attempt's start consume nothing and move no payment.
LEMMA AdvanceAlone ==
    ASSUME IInv, AloneInv, NEW h \in Requests, Advance(h) \/ Abort(h)
    PROVE  AloneInv'
<1>1. CASE InsertAttempt(h)
  BY <1>1, InsertAlone
<1>2. CASE WriteResume(h) \/ SaveAnswers(h) \/ RecordGrade(h) \/ WriteExpired(h)
  <2> DEFINE j == IF job[h].at = "save" /\ job[h].section = Sections
                  THEN [at |-> "grade", id |-> job[h].id]
                  ELSE IF job[h].at = "record" THEN [job[h] EXCEPT !.at = "profile"] ELSE Idle
  <2>1. Busy(h) /\ UNCHANGED <<crowded, consumed>>
    BY <1>2 DEF WriteResume, SaveAnswers, RecordGrade, WriteExpired, Goto, paymentVars, Busy,
        Idle
  <2>2. job' = [job EXCEPT ![h] = j]
    BY <1>2 DEF WriteResume, SaveAnswers, RecordGrade, WriteExpired, Goto
  <2>3. job[h].at = "record" => [job[h] EXCEPT !.at = "profile"].at = "profile"
    BY JobAt, JobKinds
  <2>4. j.at # "start"
    BY <2>3 DEF Idle
  <2>5. \A a \in AttemptIds : attempt'[a].paidBy = attempt[a].paidBy
    <3> HIDE DEF j
    <3>1. attempt \in [AttemptIds -> Attempts]
      BY DEF IInv, TypeOK
    <3>2. CASE WriteResume(h)
      BY <3>1, <3>2 DEF WriteResume, Attempts
    <3>3. CASE SaveAnswers(h)
      BY <3>1, <3>3 DEF SaveAnswers, Attempts
    <3>4. CASE RecordGrade(h)
      BY <3>1, <3>4 DEF RecordGrade, Attempts
    <3>5. CASE WriteExpired(h)
      BY <3>1, <3>5 DEF WriteExpired, Attempts
    <3> QED
      BY <1>2, <3>2, <3>3, <3>4, <3>5
  <2> HIDE DEF j
  <2> QED
    BY <2>1, <2>2, <2>4, <2>5, MoveAlone
<1>3. CASE GradeAttempt(h) \/ ReadProfile(h) \/ IssueCertificate(h) \/ CountRetake(h)
             \/ CountAnswers(h) \/ Abort(h)
  <2>1. Busy(h) /\ UNCHANGED <<crowded, consumed, attempt>>
    BY <1>3 DEF GradeAttempt, ReadProfile, IssueCertificate, CountRetake, CountAnswers, Abort,
        Goto, paymentVars, Busy, Idle
  <2>2. CASE GradeAttempt(h)
    BY <2>1, <2>2, MoveAlone DEF GradeAttempt, Goto
  <2>3. CASE ReadProfile(h)
    BY <2>1, <2>3, MoveAlone DEF ReadProfile, Goto
  <2>4. CASE IssueCertificate(h) \/ CountRetake(h) \/ Abort(h)
    BY <2>1, <2>4, MoveAlone DEF IssueCertificate, CountRetake, Abort, Goto, Idle
  <2>5. CASE CountAnswers(h)
    <3> DEFINE j == [at |-> IF attempt[job[h].id].answers = Blank THEN "expire" ELSE "grade",
                     id |-> job[h].id]
    <3>1. j.at # "start"
      OBVIOUS
    <3>2. job' = [job EXCEPT ![h] = j]
      BY <2>5 DEF CountAnswers, Goto
    <3> HIDE DEF j
    <3> QED
      BY <2>1, <3>1, <3>2, MoveAlone
  <2> QED
    BY <1>3, <2>2, <2>3, <2>4, <2>5
<1> QED
  BY <1>1, <1>2, <1>3 DEF Advance

\* Every step keeps it.
LEMMA NextAlone == IInv /\ AloneInv /\ [Next]_vars => AloneInv'
<1> SUFFICES ASSUME IInv, AloneInv, [Next]_vars PROVE AloneInv'
  OBVIOUS
<1>1. ASSUME NEW h \in Requests, NEW pay \in 0..MaxIntents, CheckStart(h, pay)
      PROVE  AloneInv'
  BY <1>1, ArriveAlone DEF CheckStart
<1>2. ASSUME NEW h \in Requests, NEW a \in AttemptIds,
             CheckResume(h, a) \/ CheckSection(h, a) \/ CheckLegacy(h, a) \/ FindExpired(h, a)
      PROVE  AloneInv'
  <2>1. CASE CheckResume(h, a)
    BY <2>1, ArriveAlone DEF CheckResume
  <2>2. CASE CheckSection(h, a)
    BY <2>2, ArriveAlone DEF CheckSection
  <2>3. CASE CheckLegacy(h, a)
    BY <2>3, ArriveAlone DEF CheckLegacy
  <2>4. CASE FindExpired(h, a)
    BY <2>4, ArriveAlone DEF FindExpired
  <2> QED
    BY <1>2, <2>1, <2>2, <2>3, <2>4
<1>3. ASSUME NEW h \in Requests, Advance(h) \/ Abort(h) PROVE AloneInv'
  BY <1>3, AdvanceAlone
<1>4. CASE TimePasses \/ UNCHANGED vars
             \/ \E i \in IntentIds : PayIntent(i) \/ UnpayIntent(i)
  <2>1. UNCHANGED <<job, consumed, attempt, crowded>>
    BY <1>4 DEF TimePasses, PayIntent, UnpayIntent, others, vars, paymentVars
  <2> QED
    BY <2>1 DEF AloneInv, Busy, OneRetakePerIntent
<1> QED
  BY <1>1, <1>2, <1>3, <1>4 DEF Next, NextWithoutCrash, CandidateStep

\* A succeeded retake payment starts one attempt, however late or often the
\* provider notifies (assertCanStart looks for an intent without consumedAt).
THEOREM OneRetake == Spec => []OneRetakePerIntent
<1>1. Spec => []AloneInv
  BY Invariance, InitAlone, NextAlone, PTL DEF Spec
<1>2. IInv /\ AloneInv => OneRetakePerIntent
  BY DEF AloneInv, OneRetakePerIntent
<1> QED
  BY <1>1, <1>2, Invariance, PTL

-----------------------------------------------------------------------------
(* Results without overlaps *)

\* An attempt that is closed was graded on its answers, or has none.
ClosedRow(r) ==
    /\ r.status = "submitted" => r.passed = Grade(r.answers)
    /\ r.status = "expired" => r.answers = Blank

ClosedRows == \A a \in AttemptIds : ClosedRow(attempt[a])

\* What a request under way found is still true of its attempt.
ResultOK(j) ==
    /\ j.at \in {"resume", "save", "count", "expire", "grade", "record"} =>
          attempt[j.id].status = "in_progress"
    /\ j.at = "expire" => attempt[j.id].answers = Blank
    /\ j.at = "record" => j.passed = Grade(attempt[j.id].answers)
    /\ j.at = "profile" => attempt[j.id].status = "submitted" /\ attempt[j.id].passed = j.passed
    /\ j.at = "certify" => Passed(j.id)

Results == ClosedRows /\ \A h \in Requests : ResultOK(job[h])

ResultInv == ~crowded => Results

\* A step leaves the closed attempts alone.
ClosedStay ==
    \A a \in AttemptIds : attempt[a].status \in {"submitted", "expired"} => attempt'[a] = attempt[a]

\* One request moved on while the others were idle.
LEMMA ResultMoved ==
    ASSUME IInv, NEW h \in Requests, NEW j, job' = [job EXCEPT ![h] = j],
           \A g \in Requests : g # h => ~Busy(g), ResultOK(j)', ClosedRows'
    PROVE  Results'
<1>1. job'[h] = j /\ \A g \in Requests : g # h => job'[g] = Idle
  BY DEF IInv, TypeOK, Busy
<1> QED
  BY <1>1 DEF Results, ResultOK, Idle, Passed

\* The statements that write one row, by what they leave of it.
LEMMA RowWritten ==
    ASSUME IInv, NEW h \in Requests,
           WriteResume(h) \/ SaveAnswers(h) \/ RecordGrade(h) \/ WriteExpired(h)
    PROVE  \E r \in Attempts :
             /\ job[h].id \in AttemptIds /\ attempt' = [attempt EXCEPT ![job[h].id] = r]
             /\ WriteResume(h) \/ SaveAnswers(h) => r.status = attempt[job[h].id].status
             /\ RecordGrade(h) => /\ r.status = "submitted" /\ r.passed = job[h].passed
                                  /\ r.answers = attempt[job[h].id].answers
             /\ WriteExpired(h) => /\ r.status = "expired"
                                   /\ r.answers = attempt[job[h].id].answers
<1> DEFINE a == job[h].id
<1>0. a \in AttemptIds /\ attempt[a] \in Attempts /\ job[h] \in Jobs
  <2>1. job[h].at \in {"resume", "save", "record", "expire"}
    BY DEF WriteResume, SaveAnswers, RecordGrade, WriteExpired
  <2>2. a \in AttemptIds /\ job[h] \in Jobs
    BY <2>1, JobAt
  <2> QED
    BY <2>2 DEF IInv, TypeOK
<1>1. CASE WriteResume(h)
  <2> DEFINE r == [attempt[a] EXCEPT !.resumed = TRUE, !.expires = job[h].expires]
  <2>1. job[h].expires \in Times /\ ~SaveAnswers(h) /\ ~RecordGrade(h) /\ ~WriteExpired(h)
    BY <1>0, <1>1, JobKinds DEF WriteResume, SaveAnswers, RecordGrade, WriteExpired
  <2>2. r \in Attempts /\ r.status = attempt[a].status
    BY <1>0, <2>1 DEF Attempts
  <2>3. attempt' = [attempt EXCEPT ![a] = r]
    BY <1>1 DEF WriteResume
  <2> HIDE DEF r
  <2> QED
    BY <1>0, <2>1, <2>2, <2>3
<1>2. CASE SaveAnswers(h)
  <2> DEFINE merged == [s \in 1..Sections |-> IF job[h].answers[s] = "none"
                                              THEN attempt[a].answers[s] ELSE job[h].answers[s]]
             r == [attempt[a] EXCEPT !.answers = merged, !.done = job[h].section]
  <2>1. /\ job[h].section \in 0..Sections /\ job[h].answers \in Answers
        /\ ~WriteResume(h) /\ ~RecordGrade(h) /\ ~WriteExpired(h)
    <3>1. job[h].at = "save"
      BY <1>2 DEF SaveAnswers
    <3> HIDE DEF merged, r
    <3>2. job[h].section \in 1..Sections /\ job[h].answers \in Answers
      BY <1>0, <3>1, JobKinds
    <3>3. ~WriteResume(h) /\ ~RecordGrade(h) /\ ~WriteExpired(h)
      BY <3>1 DEF WriteResume, RecordGrade, WriteExpired
    <3> QED
      BY <3>2, <3>3
  <2>2. merged \in Answers
    BY <1>0, <2>1 DEF Attempts, Answers
  <2>3. attempt' = [attempt EXCEPT ![a] = r]
    BY <1>2 DEF SaveAnswers
  <2> HIDE DEF merged
  <2>4. r \in Attempts /\ r.status = attempt[a].status
    BY <1>0, <2>1, <2>2 DEF Attempts
  <2> HIDE DEF r
  <2> QED
    BY <1>0, <2>1, <2>3, <2>4
<1>3. CASE RecordGrade(h)
  <2> DEFINE r == [attempt[a] EXCEPT !.status = "submitted", !.passed = job[h].passed]
  <2>1. job[h].passed \in BOOLEAN /\ ~SaveAnswers(h) /\ ~WriteResume(h) /\ ~WriteExpired(h)
    BY <1>0, <1>3, JobKinds DEF WriteResume, SaveAnswers, RecordGrade, WriteExpired
  <2>2. /\ r \in Attempts /\ r.status = "submitted" /\ r.passed = job[h].passed
        /\ r.answers = attempt[a].answers
    BY <1>0, <2>1 DEF Attempts
  <2>3. attempt' = [attempt EXCEPT ![a] = r]
    BY <1>3 DEF RecordGrade
  <2> HIDE DEF r
  <2> QED
    BY <1>0, <2>1, <2>2, <2>3
<1>4. CASE WriteExpired(h)
  <2> DEFINE r == [attempt[a] EXCEPT !.status = "expired"]
  <2>1. ~SaveAnswers(h) /\ ~WriteResume(h) /\ ~RecordGrade(h)
    BY <1>4 DEF WriteResume, SaveAnswers, RecordGrade, WriteExpired
  <2>2. r \in Attempts /\ r.status = "expired" /\ r.answers = attempt[a].answers
    BY <1>0 DEF Attempts
  <2>3. attempt' = [attempt EXCEPT ![a] = r]
    BY <1>4 DEF WriteExpired
  <2> HIDE DEF r
  <2> QED
    BY <1>0, <2>1, <2>2, <2>3
<1> QED
  BY <1>1, <1>2, <1>3, <1>4

\* A new attempt takes the place of none.
LEMMA RowInserted ==
    ASSUME IInv, NEW h \in Requests, InsertAttempt(h)
    PROVE  \E r \in Attempts :
             /\ started + 1 \in AttemptIds /\ attempt[started + 1].status = "absent"
             /\ attempt' = [attempt EXCEPT ![started + 1] = r] /\ r.status = "in_progress"
<1> DEFINE r == [NoAttempt EXCEPT !.status = "in_progress", !.begun = job[h].time,
                                  !.expires = job[h].time + Duration, !.paidBy = job[h].pay]
<1>1. /\ started + 1 \in AttemptIds /\ attempt[started + 1].status = "absent"
      /\ now \in 0..MaxTime
  BY DEF InsertAttempt, IInv, TypeOK, AttemptIds
<1>2. job[h].time \in Times /\ job[h].time <= now /\ job[h].pay \in 0..MaxIntents
  BY JobAt, JobKinds DEF InsertAttempt, JobOK
<1>3. job[h].time + Duration \in Times
  BY <1>1, <1>2 DEF Times
<1>4. r \in Attempts /\ r.status = "in_progress"
  BY <1>2, <1>3, NoAttemptType DEF Attempts
<1>5. attempt' = [attempt EXCEPT ![started + 1] = r]
  BY DEF InsertAttempt
<1> HIDE DEF r
<1> QED
  BY <1>1, <1>4, <1>5

\* The statements of a request that is alone: each result is written once, as it was graded.
LEMMA AdvanceResults ==
    ASSUME IInv, Results, NEW h \in Requests, Advance(h),
           \A g \in Requests : g # h => ~Busy(g)
    PROVE  Results' /\ ClosedStay
<1>0. /\ attempt \in [AttemptIds -> Attempts] /\ job[h] \in Jobs
      /\ ClosedRows /\ ResultOK(job[h])
  BY JobAt DEF IInv, TypeOK, Results
<1>1. ASSUME NEW j, Goto(h, j), ResultOK(j)', ClosedRows' PROVE Results'
  BY <1>1, ResultMoved DEF Goto
<1>2. CASE InsertAttempt(h)
  <2>1. PICK r \in Attempts :
           /\ started + 1 \in AttemptIds /\ attempt[started + 1].status = "absent"
           /\ attempt' = [attempt EXCEPT ![started + 1] = r] /\ r.status = "in_progress"
    BY <1>2, RowInserted
  <2>2. attempt'[started + 1] = r /\ \A a \in AttemptIds : a # started + 1 => attempt'[a] = attempt[a]
    BY <1>0, <2>1
  <2>3. ClosedRows'
    BY <1>0, <2>1, <2>2 DEF ClosedRows, ClosedRow
  <2>4. PICK j : Goto(h, j) /\ j.at = "idle"
    BY <1>2 DEF InsertAttempt, Idle
  <2>5. ResultOK(j)'
    BY <2>4 DEF ResultOK
  <2> QED
    BY <1>1, <2>1, <2>2, <2>3, <2>4, <2>5 DEF ClosedStay
<1>3. CASE WriteResume(h) \/ SaveAnswers(h) \/ RecordGrade(h) \/ WriteExpired(h)
  <2> DEFINE a == job[h].id
  <2>1. PICK r \in Attempts :
             /\ a \in AttemptIds /\ attempt' = [attempt EXCEPT ![a] = r]
             /\ WriteResume(h) \/ SaveAnswers(h) => r.status = attempt[a].status
             /\ RecordGrade(h) => /\ r.status = "submitted" /\ r.passed = job[h].passed
                                  /\ r.answers = attempt[a].answers
             /\ WriteExpired(h) => r.status = "expired" /\ r.answers = attempt[a].answers
    BY <1>3, RowWritten
  <2>2. attempt'[a] = r /\ \A b \in AttemptIds : b # a => attempt'[b] = attempt[b]
    BY <1>0, <2>1
  <2>3. attempt[a].status = "in_progress"
    BY <1>0, <1>3 DEF WriteResume, SaveAnswers, RecordGrade, WriteExpired, ResultOK
  <2>4. ClosedRow(r)
    BY <1>0, <1>3, <2>1, <2>3
    DEF WriteResume, SaveAnswers, RecordGrade, WriteExpired, ResultOK, ClosedRow
  <2>5. ClosedRows'
    BY <1>0, <2>2, <2>4 DEF ClosedRows, ClosedRow
  <2>6. ClosedStay
    BY <2>2, <2>3 DEF ClosedStay
  <2>7. CASE WriteResume(h) \/ WriteExpired(h)
    <3>1. PICK j : Goto(h, j) /\ j.at = "idle"
      BY <2>7 DEF WriteResume, WriteExpired, Idle
    <3>2. ResultOK(j)'
      BY <3>1 DEF ResultOK
    <3> QED
      BY <1>1, <2>5, <2>6, <3>1, <3>2
  <2>8. CASE SaveAnswers(h)
    <3>1. PICK j : Goto(h, j) /\ (j.at = "grade" => j.id = a) /\ j.at \in {"idle", "grade"}
      BY <2>8 DEF SaveAnswers, Idle
    <3>2. ResultOK(j)'
      BY <2>1, <2>2, <2>3, <2>8, <3>1 DEF ResultOK
    <3> QED
      BY <1>1, <2>5, <2>6, <3>1, <3>2
  <2>9. CASE RecordGrade(h)
    <3>1. [job[h] EXCEPT !.at = "profile"] = [at |-> "profile", id |-> a, passed |-> job[h].passed]
      BY <1>0, <2>9, JobKinds DEF RecordGrade
    <3>2. Goto(h, [at |-> "profile", id |-> a, passed |-> job[h].passed])
      BY <2>9, <3>1 DEF RecordGrade
    <3>3. PICK j : Goto(h, j) /\ j.at = "profile" /\ j.id = a /\ j.passed = job[h].passed
      BY <3>2
    <3>4. ResultOK(j)'
      BY <2>1, <2>2, <2>9, <3>3 DEF ResultOK
    <3> QED
      BY <1>1, <2>5, <2>6, <3>3, <3>4
  <2> QED
    BY <1>3, <2>7, <2>8, <2>9
<1>4. CASE \/ GradeAttempt(h) \/ ReadProfile(h) \/ IssueCertificate(h) \/ CountRetake(h)
           \/ CountAnswers(h)
  <2>1. UNCHANGED attempt
    BY <1>4 DEF GradeAttempt, ReadProfile, IssueCertificate, CountRetake, CountAnswers
  <2>2. ClosedRows' /\ ClosedStay
    BY <1>0, <2>1 DEF ClosedRows, ClosedStay
  <2>3. CASE GradeAttempt(h)
    <3>1. PICK j : /\ Goto(h, j) /\ j.at = "record" /\ j.id = job[h].id
                   /\ j.passed = Grade(attempt[job[h].id].answers)
      BY <2>3 DEF GradeAttempt
    <3>2. ResultOK(j)'
      BY <1>0, <2>1, <2>3, <3>1 DEF GradeAttempt, ResultOK
    <3> QED
      BY <1>1, <2>2, <3>1, <3>2
  <2>4. CASE ReadProfile(h)
    <3>1. PICK j : /\ Goto(h, j) /\ j.at \in {"certify", "failed"}
                   /\ j.at = "certify" => j.id = job[h].id /\ job[h].passed
      BY <2>4 DEF ReadProfile
    <3>2. ResultOK(j)'
      BY <1>0, <2>1, <2>4, <3>1 DEF ReadProfile, ResultOK, Passed
    <3> QED
      BY <1>1, <2>2, <3>1, <3>2
  <2>5. CASE IssueCertificate(h) \/ CountRetake(h)
    <3>1. PICK j : Goto(h, j) /\ j.at = "idle"
      BY <2>5 DEF IssueCertificate, CountRetake, Idle
    <3>2. ResultOK(j)'
      BY <3>1 DEF ResultOK
    <3> QED
      BY <1>1, <2>2, <3>1, <3>2
  <2>6. CASE CountAnswers(h)
    <3>1. PICK j : /\ Goto(h, j) /\ j.id = job[h].id
                   /\ j.at \in {"grade", "expire"}
                   /\ j.at = "expire" => attempt[job[h].id].answers = Blank
      BY <2>6 DEF CountAnswers
    <3>2. ResultOK(j)'
      BY <1>0, <2>1, <2>6, <3>1 DEF CountAnswers, ResultOK
    <3> QED
      BY <1>1, <2>2, <3>1, <3>2
  <2> QED
    BY <1>4, <2>3, <2>4, <2>5, <2>6
<1> QED
  BY <1>2, <1>3, <1>4, Zenon DEF Advance

\* A request that is called finds its attempt in progress.
LEMMA CallResults ==
    ASSUME NEW h \in Requests, CandidateStep(h) \/ \E a \in AttemptIds : FindExpired(h, a)
    PROVE  \E j : Arrive(h, j) /\ ResultOK(j) /\ j.at \in {"start", "resume", "save", "count"}
<1>1. ASSUME NEW pay \in 0..MaxIntents, CheckStart(h, pay)
      PROVE  \E j : Arrive(h, j) /\ ResultOK(j) /\ j.at \in {"start", "resume", "save", "count"}
  BY <1>1 DEF CheckStart, ResultOK
<1>2. ASSUME NEW a \in AttemptIds, CheckResume(h, a) \/ FindExpired(h, a)
      PROVE  \E j : Arrive(h, j) /\ ResultOK(j) /\ j.at \in {"start", "resume", "save", "count"}
  BY <1>2 DEF CheckResume, FindExpired, Expired, InProgress, ResultOK
<1>3. ASSUME NEW a \in AttemptIds, CheckSection(h, a) \/ CheckLegacy(h, a)
      PROVE  \E j : Arrive(h, j) /\ ResultOK(j) /\ j.at \in {"start", "resume", "save", "count"}
  <2>1. PICK s, answers : Arrive(h, [at |-> "save", id |-> a, section |-> s, answers |-> answers])
    BY <1>3, Zenon DEF CheckSection, CheckLegacy
  <2>2. attempt[a].status = "in_progress"
    BY <1>3 DEF CheckSection, CheckLegacy, InProgress
  <2> QED
    BY <2>1, <2>2 DEF ResultOK
<1> QED
  BY <1>1, <1>2, <1>3, Zenon DEF CandidateStep

\* A request under way keeps the history, a cut-off one is done.
LEMMA UnderWay ==
    ASSUME NEW h \in Requests
    PROVE  /\ Advance(h) => Busy(h) /\ UNCHANGED <<crowded, crashed>>
           /\ Abort(h) => /\ Busy(h) /\ UNCHANGED <<attempt, crowded>> /\ crashed'
                          /\ job' = [job EXCEPT ![h] = Idle]
<1>1. ASSUME Advance(h) PROVE Busy(h)
  <2>1. \/ job[h].at = "start" \/ job[h].at = "resume" \/ job[h].at = "save"
        \/ job[h].at = "grade" \/ job[h].at = "record" \/ job[h].at = "profile"
        \/ job[h].at = "certify" \/ job[h].at = "failed" \/ job[h].at = "count"
        \/ job[h].at = "expire"
    BY <1>1, Zenon
    DEF Advance, InsertAttempt, WriteResume, SaveAnswers, GradeAttempt, RecordGrade, ReadProfile,
        IssueCertificate, CountRetake, CountAnswers, WriteExpired
  <2> QED
    BY <2>1 DEF Busy, Idle
<1>2. ASSUME Advance(h) PROVE \E j : Goto(h, j)
  BY <1>2, Zenon
  DEF Advance, InsertAttempt, WriteResume, SaveAnswers, GradeAttempt, RecordGrade, ReadProfile,
      IssueCertificate, CountRetake, CountAnswers, WriteExpired
<1>3. ASSUME Advance(h) PROVE UNCHANGED <<crowded, crashed>>
  BY <1>2, <1>3 DEF Goto
<1> QED
  BY <1>1, <1>3 DEF Abort

\* Requests, other than the one named, are idle.
LEMMA AloneWith ==
    ASSUME AloneInv, ~crowded, NEW h \in Requests, Busy(h)
    PROVE  \A g \in Requests : g # h => ~Busy(g)
  BY Zenon DEF AloneInv

\* As long as requests do not overlap, every step keeps the results.
LEMMA NextResults ==
    ASSUME IInv, AloneInv, ResultInv, [Next]_vars, ~crowded'
    PROVE  Results' /\ ClosedStay
<1>1. ASSUME NEW h \in Requests, CandidateStep(h) \/ \E a \in AttemptIds : FindExpired(h, a)
      PROVE  Results' /\ ClosedStay
  <2>1. PICK j : Arrive(h, j) /\ ResultOK(j)
    BY <1>1, CallResults, Zenon
  <2>2. ~crowded /\ \A g \in Requests \ {h} : ~Busy(g)
    BY <2>1, Zenon DEF Arrive
  <2>3. job' = [job EXCEPT ![h] = j] /\ UNCHANGED attempt
    BY <2>1 DEF Arrive
  <2>4. Results
    BY <2>2, Zenon DEF ResultInv
  <2>5. ResultOK(j)' /\ ClosedRows' /\ ClosedStay
    BY <2>1, <2>3, <2>4 DEF Results, ResultOK, ClosedRows, ClosedStay, Passed
  <2> QED
    BY <2>2, <2>3, <2>5, ResultMoved
<1>2. ASSUME NEW h \in Requests, Advance(h) PROVE Results' /\ ClosedStay
  <2>1. Busy(h) /\ UNCHANGED crowded
    BY <1>2, UnderWay
  <2>2. ~crowded /\ Results
    BY <2>1, Zenon DEF ResultInv
  <2>3. \A g \in Requests : g # h => ~Busy(g)
    BY <2>1, <2>2, AloneWith
  <2> QED
    BY <1>2, <2>2, <2>3, AdvanceResults
<1>3. ASSUME NEW h \in Requests, Abort(h) PROVE Results' /\ ClosedStay
  <2>1. Busy(h) /\ UNCHANGED <<attempt, crowded>> /\ job' = [job EXCEPT ![h] = Idle]
    BY <1>3, UnderWay
  <2>2. ~crowded /\ Results
    BY <2>1, Zenon DEF ResultInv
  <2>3. \A g \in Requests : g # h => ~Busy(g)
    BY <2>1, <2>2, AloneWith
  <2>4. ClosedRows' /\ ResultOK(Idle)' /\ ClosedStay
    BY <2>1, <2>2 DEF Results, ClosedRows, ResultOK, Idle, ClosedStay
  <2> QED
    BY <2>1, <2>3, <2>4, ResultMoved
<1>4. CASE \/ TimePasses \/ UNCHANGED vars
           \/ \E i \in IntentIds : PayIntent(i) \/ UnpayIntent(i)
  <2>1. UNCHANGED <<job, attempt, crowded>>
    BY <1>4 DEF TimePasses, PayIntent, UnpayIntent, others, vars
  <2>2. Results
    BY <2>1, Zenon DEF ResultInv
  <2> QED
    BY <2>1, <2>2 DEF Results, ClosedRows, ResultOK, ClosedStay, Passed
<1> QED
  BY <1>1, <1>2, <1>3, <1>4, Zenon DEF Next, NextWithoutCrash

\* The two invariants of exams without overlaps hold for ever.
LEMMA AloneInvariance == Spec => [](IInv /\ AloneInv /\ ResultInv)
<1>1. Init => ResultInv
  BY DEF Init, ResultInv, Results, ClosedRows, ClosedRow, NoAttempt, ResultOK, Idle
<1>2. IInv /\ AloneInv /\ ResultInv /\ [Next]_vars => ResultInv'
  BY NextResults, Zenon DEF ResultInv
<1> QED
  BY <1>1, <1>2, Invariance, InitAlone, NextAlone, PTL DEF Spec

\* Without overlaps a submitted attempt was graded on the answers it has, and the sweep
\* expires only attempts without answers (finalizeAttempt, sweepExpiredExamAttempts).
THEOREM Answered == Spec => []ClosedAsAnswered
<1>1. ResultInv => ClosedAsAnswered
  BY DEF ResultInv, Results, ClosedRows, ClosedRow, ClosedAsAnswered
<1> QED
  BY <1>1, AloneInvariance, PTL

\* Without overlaps a result is final: no resume, late section or sweep writes a closed
\* attempt, whatever was cut off before.
THEOREM ResultIsFinal == Spec => ResultStands
<1>1. IInv /\ AloneInv /\ ResultInv /\ [Next]_vars =>
        [\A a \in AttemptIds : attempt[a].status \in {"submitted", "expired"} /\ ~crowded' =>
            attempt'[a] = attempt[a]]_vars
  BY NextResults, Zenon DEF ClosedStay
<1> QED
  BY <1>1, AloneInvariance, PTL DEF Spec, ResultStands

-----------------------------------------------------------------------------
(* The books, without overlaps and crashes *)

Failures == {a \in AttemptIds : Failed(a)}

\* A pass that is on its way to its certificate, a failure that is on its way to be counted.
Uncertified(j, a) == j.at \in {"profile", "certify"} /\ j.id = a
Uncounted(j) == j.at = "failed" \/ (j.at = "profile" /\ ~j.passed)

\* With one request under way at most, the books lack what it is about to write.
BookedBy(j) ==
    /\ \A a \in AttemptIds : issued[a] = IF Passed(a) /\ ~Uncertified(j, a) THEN 1 ELSE 0
    /\ Cardinality(Failures) = retakes + (IF Uncounted(j) THEN 1 ELSE 0)
    /\ j.at = "failed" => j.retakes = retakes

Booked ==
    /\ \A h \in Requests : Busy(h) => BookedBy(job[h])
    /\ (\A h \in Requests : ~Busy(h)) => BookedBy(Idle)

BookInv == ~crowded /\ ~crashed => Booked

\* One request moved on while the others were idle.
LEMMA BookMoved ==
    ASSUME IInv, NEW h \in Requests, NEW j, job' = [job EXCEPT ![h] = j],
           \A g \in Requests : g # h => ~Busy(g), BookedBy(j)'
    PROVE  Booked'
<1>1. job'[h] = j /\ \A g \in Requests : g # h => job'[g] = Idle
  BY DEF IInv, TypeOK, Busy
<1>2. ASSUME NEW g \in Requests, Busy(g)' PROVE BookedBy(job[g])'
  <2>1. job'[g] = j
    BY <1>1, <1>2 DEF Busy
  <2> QED
    BY <2>1 DEF BookedBy, Uncertified, Uncounted, Passed, Failures
<1>3. ASSUME \A g \in Requests : ~Busy(g)' PROVE BookedBy(Idle)'
  <2>1. j = Idle
    BY <1>1, <1>3 DEF Busy
  <2> QED
    BY <2>1, Zenon
<1> QED
  BY <1>2, <1>3, Zenon DEF Booked

\* A step that changes no result is nothing to the books.
LEMMA BookUnmoved ==
    ASSUME NEW k, NEW j, BookedBy(k), retakes \in Nat,
           k.at \notin {"profile", "certify", "failed"}, j.at \notin {"profile", "certify", "failed"},
           \A a \in AttemptIds : (Passed(a)' <=> Passed(a)) /\ (Failed(a)' <=> Failed(a)),
           UNCHANGED <<issued, retakes>>
    PROVE  BookedBy(j)'
<1>1. Failures' = Failures
  BY Zenon DEF Failures
<1>2. Cardinality(Failures') = retakes'
  BY <1>1 DEF BookedBy, Uncounted
<1>3. \A a \in AttemptIds : issued'[a] = IF Passed(a)' THEN 1 ELSE 0
  BY DEF BookedBy, Uncertified
<1> QED
  BY <1>2, <1>3 DEF BookedBy, Uncertified, Uncounted

\* The grade of one attempt adds it to the failures, or not.
LEMMA OneMoreFailure ==
    ASSUME IInv, NEW a \in AttemptIds, ~Failed(a),
           \A b \in AttemptIds : b # a => (Failed(b)' <=> Failed(b))
    PROVE  Cardinality(Failures') = Cardinality(Failures) + (IF Failed(a)' THEN 1 ELSE 0)
<1>1. IsFiniteSet(Failures) /\ a \notin Failures
  <2>1. IsFiniteSet(AttemptIds)
    BY FS_Interval DEF AttemptIds
  <2> QED
    BY <2>1, FS_Subset DEF Failures
<1>2. CASE Failed(a)'
  <2>1. Failures' = Failures \cup {a}
    BY <1>2, Zenon DEF Failures
  <2> QED
    BY <1>1, <1>2, <2>1, FS_AddElement
<1>3. CASE ~Failed(a)'
  <2>1. Failures' = Failures
    BY <1>3, Zenon DEF Failures
  <2> QED
    BY <1>1, <1>3, <2>1, FS_CardinalityType
<1> QED
  BY <1>2, <1>3

\* The statements of a request that is alone keep the books.
LEMMA AdvanceBooks ==
    ASSUME IInv, Results, NEW h \in Requests, Advance(h), BookedBy(job[h]),
           \A g \in Requests : g # h => ~Busy(g)
    PROVE  Booked'
<1>0. /\ attempt \in [AttemptIds -> Attempts] /\ job[h] \in Jobs
      /\ issued \in [AttemptIds -> Nat] /\ retakes \in Nat /\ ResultOK(job[h])
  BY JobAt DEF IInv, TypeOK, Results
<1>1. ASSUME NEW j, Goto(h, j), BookedBy(j)' PROVE Booked'
  BY <1>1, BookMoved DEF Goto
<1>2. CASE InsertAttempt(h)
  <2>1. PICK r \in Attempts :
           /\ started + 1 \in AttemptIds /\ attempt[started + 1].status = "absent"
           /\ attempt' = [attempt EXCEPT ![started + 1] = r] /\ r.status = "in_progress"
    BY <1>2, RowInserted
  <2>2. attempt'[started + 1] = r /\ \A a \in AttemptIds : a # started + 1 => attempt'[a] = attempt[a]
    BY <1>0, <2>1
  <2>3. \A a \in AttemptIds : (Passed(a)' <=> Passed(a)) /\ (Failed(a)' <=> Failed(a))
    BY <2>1, <2>2 DEF Passed, Failed
  <2>4. PICK j : Goto(h, j) /\ j.at = "idle"
    BY <1>2 DEF InsertAttempt, Idle
  <2>5. job[h].at = "start" /\ UNCHANGED <<issued, retakes>>
    BY <1>2 DEF InsertAttempt, profileVars
  <2> QED
    BY <1>0, <1>1, <2>3, <2>4, <2>5, BookUnmoved
<1>3. CASE WriteResume(h) \/ SaveAnswers(h) \/ WriteExpired(h)
  <2> DEFINE a == job[h].id
  <2>0. ~RecordGrade(h) /\ job[h].at \in {"resume", "save", "expire"}
    BY <1>3 DEF WriteResume, SaveAnswers, WriteExpired, RecordGrade
  <2>1. PICK r \in Attempts :
             /\ a \in AttemptIds /\ attempt' = [attempt EXCEPT ![a] = r]
             /\ WriteResume(h) \/ SaveAnswers(h) => r.status = attempt[a].status
             /\ WriteExpired(h) => r.status = "expired"
    BY <1>3, RowWritten
  <2>2. attempt'[a] = r /\ \A b \in AttemptIds : b # a => attempt'[b] = attempt[b]
    BY <1>0, <2>1
  <2>3. attempt[a].status = "in_progress" /\ r.status # "submitted"
    BY <1>0, <1>3, <2>0, <2>1 DEF ResultOK
  <2>4. \A b \in AttemptIds : (Passed(b)' <=> Passed(b)) /\ (Failed(b)' <=> Failed(b))
    BY <2>2, <2>3 DEF Passed, Failed
  <2>5. PICK j : Goto(h, j) /\ j.at \in {"idle", "grade"}
    BY <1>3 DEF WriteResume, SaveAnswers, WriteExpired, Idle
  <2>6. UNCHANGED <<issued, retakes>>
    BY <1>3 DEF WriteResume, SaveAnswers, WriteExpired, profileVars
  <2> QED
    BY <1>0, <1>1, <2>0, <2>4, <2>5, <2>6, BookUnmoved
<1>4. CASE GradeAttempt(h) \/ CountAnswers(h)
  <2>1. PICK j : Goto(h, j) /\ j.at \in {"record", "expire", "grade"}
    BY <1>4 DEF GradeAttempt, CountAnswers
  <2>2. job[h].at \in {"grade", "count"} /\ UNCHANGED <<attempt, issued, retakes>>
    BY <1>4 DEF GradeAttempt, CountAnswers, profileVars
  <2>3. \A a \in AttemptIds : (Passed(a)' <=> Passed(a)) /\ (Failed(a)' <=> Failed(a))
    BY <2>2 DEF Passed, Failed
  <2> QED
    BY <1>0, <1>1, <2>1, <2>2, <2>3, BookUnmoved
<1>5. CASE RecordGrade(h)
  <2> PICK a : a = job[h].id
    OBVIOUS
  <2>0. /\ job[h].at = "record" /\ job[h].passed \in BOOLEAN /\ UNCHANGED <<issued, retakes>>
        /\ job[h] = [at |-> "record", id |-> a, passed |-> job[h].passed]
    <3>1. job[h].at = "record" /\ UNCHANGED <<issued, retakes>>
      BY <1>5 DEF RecordGrade, profileVars
    <3> QED
      BY <1>0, <3>1 DEF Jobs, Idle
  <2>1. PICK r \in Attempts :
             /\ a \in AttemptIds /\ attempt' = [attempt EXCEPT ![a] = r]
             /\ r.status = "submitted" /\ r.passed = job[h].passed
    BY <1>5, RowWritten
  <2>2. attempt'[a] = r /\ \A b \in AttemptIds : b # a => attempt'[b] = attempt[b]
    BY <1>0, <2>1
  <2>3. attempt[a].status = "in_progress"
    BY <1>0, <2>0 DEF ResultOK
  <2>4. PICK j : Goto(h, j) /\ j.at = "profile" /\ j.id = a /\ j.passed = job[h].passed
    <3>1. [job[h] EXCEPT !.at = "profile"] = [at |-> "profile", id |-> a, passed |-> job[h].passed]
      BY <2>0
    <3> QED
      BY <1>5, <3>1 DEF RecordGrade
  <2>5. /\ ~Passed(a) /\ ~Failed(a) /\ (Passed(a)' <=> j.passed) /\ (Failed(a)' <=> ~j.passed)
        /\ \A b \in AttemptIds : b # a => (Passed(b)' <=> Passed(b)) /\ (Failed(b)' <=> Failed(b))
    <3>1. ~Passed(a) /\ ~Failed(a)
      BY <2>3 DEF Passed, Failed
    <3>2. attempt'[a].status = "submitted" /\ attempt'[a].passed = j.passed
      BY <2>1, <2>2, <2>4
    <3>3. (Passed(a)' <=> j.passed) /\ (Failed(a)' <=> ~j.passed)
      <4>1. CASE j.passed = TRUE
        BY <3>2, <4>1, Zenon DEF Passed, Failed
      <4>2. CASE j.passed = FALSE
        BY <3>2, <4>2, Zenon DEF Passed, Failed
      <4> QED
        BY <2>0, <2>4, <4>1, <4>2
    <3>4. \A b \in AttemptIds : b # a => (Passed(b)' <=> Passed(b)) /\ (Failed(b)' <=> Failed(b))
      BY <2>2, Zenon DEF Passed, Failed
    <3> QED
      BY <3>1, <3>3, <3>4
  <2>6. Cardinality(Failures') = retakes' + (IF Uncounted(j) THEN 1 ELSE 0)
    <3>1. Cardinality(Failures) = retakes
      BY <1>0, <2>0 DEF BookedBy, Uncounted
    <3>2. Uncounted(j) <=> Failed(a)'
      BY <2>4, <2>5 DEF Uncounted
    <3>3. Cardinality(Failures') = Cardinality(Failures) + (IF Failed(a)' THEN 1 ELSE 0)
      BY <2>1, <2>5, OneMoreFailure, Zenon
    <3> QED
      BY <2>0, <3>1, <3>2, <3>3
  <2>7. \A b \in AttemptIds :
           issued'[b] = IF Passed(b)' /\ ~Uncertified(j, b) THEN 1 ELSE 0
    BY <2>0, <2>4, <2>5 DEF BookedBy, Uncertified
  <2>8. BookedBy(j)'
    BY <2>4, <2>6, <2>7 DEF BookedBy, Uncertified, Uncounted
  <2> QED
    BY <1>1, <2>4, <2>8
<1>6. CASE ReadProfile(h)
  <2>1. /\ job[h].at = "profile" /\ UNCHANGED <<attempt, issued, retakes>>
        /\ job[h].id \in AttemptIds
    BY <1>0, <1>6, JobKinds DEF ReadProfile, profileVars
  <2>2. attempt[job[h].id].status = "submitted" /\ attempt[job[h].id].passed = job[h].passed
    BY <1>0, <2>1 DEF ResultOK
  <2>3. PICK j : /\ Goto(h, j) /\ j.at \in {"certify", "failed"}
                 /\ j.at = "certify" => j.id = job[h].id /\ job[h].passed
                 /\ j.at = "failed" => j.retakes = retakes /\ ~job[h].passed
    BY <1>6 DEF ReadProfile
  <2>4. Failures' = Failures /\ \A a \in AttemptIds : (Passed(a)' <=> Passed(a))
    BY <2>1 DEF Failures, Failed, Passed
  <2>5. Cardinality(Failures') = retakes' + (IF Uncounted(j) THEN 1 ELSE 0)
    BY <2>1, <2>3, <2>4 DEF BookedBy, Uncounted
  <2>6. \A a \in AttemptIds :
           issued'[a] = IF Passed(a)' /\ ~Uncertified(j, a) THEN 1 ELSE 0
    <3>1. CASE j.at = "certify"
      BY <2>1, <2>3, <2>4, <3>1 DEF BookedBy, Uncertified
    <3>2. CASE j.at = "failed"
      <4>1. ~Passed(job[h].id)
        BY <2>2, <2>3, <3>2 DEF Passed
      <4> QED
        BY <2>1, <2>4, <3>2, <4>1 DEF BookedBy, Uncertified
    <3> QED
      BY <2>3, <3>1, <3>2
  <2>7. BookedBy(j)'
    BY <2>1, <2>3, <2>5, <2>6 DEF BookedBy, Uncertified, Uncounted
  <2> QED
    BY <1>1, <2>3, <2>7
<1>7. CASE IssueCertificate(h)
  <2>1. /\ job[h].at = "certify" /\ job[h].id \in AttemptIds /\ UNCHANGED <<attempt, retakes>>
        /\ issued' = [issued EXCEPT ![job[h].id] = @ + 1]
    BY <1>0, <1>7, JobKinds DEF IssueCertificate
  <2>2. Passed(job[h].id)
    BY <1>0, <2>1 DEF ResultOK
  <2>3. PICK j : Goto(h, j) /\ j.at = "idle"
    BY <1>7 DEF IssueCertificate, Idle
  <2>4. Failures' = Failures /\ \A a \in AttemptIds : (Passed(a)' <=> Passed(a))
    BY <2>1 DEF Failures, Failed, Passed
  <2>5. \A a \in AttemptIds : issued'[a] = IF Passed(a)' THEN 1 ELSE 0
    BY <1>0, <2>1, <2>2, <2>4 DEF BookedBy, Uncertified
  <2>6. Cardinality(Failures') = retakes'
    BY <1>0, <2>1, <2>4 DEF BookedBy, Uncounted
  <2>7. BookedBy(j)'
    BY <1>0, <2>1, <2>3, <2>5, <2>6 DEF BookedBy, Uncertified, Uncounted
  <2> QED
    BY <1>1, <2>3, <2>7
<1>8. CASE CountRetake(h)
  <2>1. /\ job[h].at = "failed" /\ UNCHANGED <<attempt, issued>> /\ retakes' = job[h].retakes + 1
    BY <1>8 DEF CountRetake
  <2>2. PICK j : Goto(h, j) /\ j.at = "idle"
    BY <1>8 DEF CountRetake, Idle
  <2>3. Failures' = Failures /\ \A a \in AttemptIds : (Passed(a)' <=> Passed(a))
    BY <2>1 DEF Failures, Failed, Passed
  <2>4. Cardinality(Failures') = retakes'
    BY <1>0, <2>1, <2>3 DEF BookedBy, Uncounted
  <2>5. \A a \in AttemptIds : issued'[a] = IF Passed(a)' THEN 1 ELSE 0
    BY <2>1, <2>3 DEF BookedBy, Uncertified
  <2>6. BookedBy(j)'
    BY <1>0, <2>1, <2>2, <2>4, <2>5 DEF BookedBy, Uncertified, Uncounted
  <2> QED
    BY <1>1, <2>2, <2>6
<1> QED
  BY <1>2, <1>3, <1>4, <1>5, <1>6, <1>7, <1>8, Zenon DEF Advance

\* As long as requests neither overlap nor are cut off, every step keeps the books.
LEMMA NextBooks == IInv /\ AloneInv /\ ResultInv /\ BookInv /\ [Next]_vars => BookInv'
<1> SUFFICES ASSUME IInv, AloneInv, ResultInv, BookInv, [Next]_vars, ~crowded', ~crashed'
             PROVE  Booked'
  BY Zenon DEF BookInv
<1>0. retakes \in Nat
  BY DEF IInv, TypeOK
<1>1. ASSUME NEW h \in Requests, CandidateStep(h) \/ \E a \in AttemptIds : FindExpired(h, a)
      PROVE  Booked'
  <2>1. PICK j : Arrive(h, j) /\ j.at \in {"start", "resume", "save", "count"}
    BY <1>1, CallResults, Zenon
  <2>2. ~crowded /\ crashed' = crashed /\ \A g \in Requests \ {h} : ~Busy(g)
    BY <2>1, Zenon DEF Arrive
  <2>3. ~Busy(h) /\ job' = [job EXCEPT ![h] = j] /\ UNCHANGED <<attempt, issued, retakes>>
    BY <2>1 DEF Arrive, profileVars
  <2>4. BookedBy(Idle)
    BY <2>2, <2>3, Zenon DEF BookInv, Booked
  <2>5. \A a \in AttemptIds : (Passed(a)' <=> Passed(a)) /\ (Failed(a)' <=> Failed(a))
    BY <2>3 DEF Passed, Failed
  <2>6. Idle.at = "idle"
    BY DEF Idle
  <2>7. BookedBy(j)'
    BY <1>0, <2>1, <2>3, <2>4, <2>5, <2>6, BookUnmoved
  <2> QED
    BY <2>2, <2>3, <2>7, BookMoved
<1>2. ASSUME NEW h \in Requests, Advance(h) PROVE Booked'
  <2>1. Busy(h) /\ UNCHANGED <<crowded, crashed>>
    BY <1>2, UnderWay
  <2>2. ~crowded /\ Results /\ Booked
    BY <2>1, Zenon DEF ResultInv, BookInv
  <2>3. (\A g \in Requests : g # h => ~Busy(g)) /\ BookedBy(job[h])
    BY <2>1, <2>2, AloneWith, Zenon DEF Booked
  <2> QED
    BY <1>2, <2>2, <2>3, AdvanceBooks
<1>3. ASSUME NEW h \in Requests, Abort(h) PROVE FALSE
  BY <1>3, UnderWay, Zenon
<1>4. CASE \/ TimePasses \/ UNCHANGED vars
           \/ \E i \in IntentIds : PayIntent(i) \/ UnpayIntent(i)
  <2>1. UNCHANGED <<job, attempt, issued, retakes, crowded, crashed>>
    BY <1>4 DEF TimePasses, PayIntent, UnpayIntent, others, vars, profileVars
  <2>2. Booked
    BY <2>1, Zenon DEF BookInv
  <2> QED
    BY <2>1, <2>2
    DEF Booked, Busy, BookedBy, Uncertified, Uncounted, Failures, Failed, Passed
<1> QED
  BY <1>1, <1>2, <1>3, <1>4, Zenon DEF Next, NextWithoutCrash

\* Without overlaps and crashes, each pass gets one certificate and each failure is counted
\* once among the retakes, as soon as nothing is under way (finalizeAttempt).
THEOREM BooksResults == Spec => []ResultsAreBooked
<1>1. Init => BookInv
  <2> SUFFICES ASSUME Init PROVE Booked
    BY Zenon DEF BookInv
  <2>1. \A a \in AttemptIds : ~Passed(a) /\ ~Failed(a)
    BY DEF Init, Passed, Failed, NoAttempt
  <2>2. Failures = {}
    BY <2>1 DEF Failures
  <2>3. Cardinality(Failures) = 0
    BY <2>2, FS_EmptySet
  <2> QED
    BY <2>1, <2>3 DEF Init, Booked, Busy, BookedBy, Uncounted, Uncertified, Idle
<1>2. IInv /\ BookInv => ResultsAreBooked
  <2> SUFFICES ASSUME IInv, Booked, \A h \in Requests : ~Busy(h)
               PROVE  /\ \A a \in AttemptIds : issued[a] = IF Passed(a) THEN 1 ELSE 0
                      /\ retakes = Cardinality({a \in AttemptIds : Failed(a)})
    BY Zenon DEF BookInv, ResultsAreBooked
  <2>1. BookedBy(Idle) /\ Idle.at = "idle" /\ retakes \in Nat
    BY DEF Booked, Idle, IInv, TypeOK
  <2> QED
    BY <2>1 DEF BookedBy, Uncounted, Uncertified, Failures
<1> QED
  BY <1>1, <1>2, NextBooks, AloneInvariance, PTL DEF Spec
=============================================================================
