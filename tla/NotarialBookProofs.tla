-------------------------- MODULE NotarialBookProofs --------------------------
(***************************************************************************)
(* For any number of requests, documents and principals, with every        *)
(* overlap and crash: signatures and acts stay, and the last signature     *)
(* completes the book unless a request was cut off.  As long as no two     *)
(* requests that write the book overlap, a completed book is signed and a  *)
(* document has one act.                                                   *)
(***************************************************************************)
EXTENDS NotarialBook, FiniteSetTheorems, TLAPS

USE BookAssumption

\* A request that tallies or completes found the book started, and the number it
\* gives an act is one more than a count of the acts there were.
JobOK(j) ==
    /\ j.at \in {"sign", "tally", "complete"} => enb # "not_started"
    /\ j.at = "insert" => j.number <= Cardinality(acts) + 1

JobInv == \A h \in Requests : JobOK(job[h])

\* Acts are numbered from 1; so the next id is new.
NumberInv ==
    /\ IsFiniteSet(acts)
    /\ \A a \in acts : a.id <= Cardinality(acts) /\ a.number <= Cardinality(acts)

\* Whoever signed last, or activated a book without entries, will complete it.
LastInv ==
    ~crashed /\ enb = "active" /\ pending = {} =>
        \E h \in Requests : job[h].at \in {"tally", "complete"}

IInv == TypeOK /\ JobInv /\ NumberInv /\ LastInv

-----------------------------------------------------------------------------
(* The shapes of jobs *)

\* What a request remembers at each stage.
LEMMA JobKinds ==
    ASSUME NEW j \in Jobs
    PROVE  /\ j.at \in {"look", "number", "insert"} =>
                 j.docs \in SUBSET Docs /\ j.start \in BOOLEAN
           /\ j.at = "insert" => j.doc \in Docs /\ j.number \in 1..MaxActs
           /\ j.at = "entries" => j.entries \in SUBSET Entries
           /\ j.at = "sign" => j.entry \in Entries
  BY DEF Jobs

\* The idle job.
LEMMA IdleKind == Idle \in Jobs /\ Idle.at = "idle"
  BY DEF Idle, Jobs

\* Moving one request on replaces its job by another of the right type.
LEMMA JobMoved ==
    ASSUME job \in [Requests -> Jobs], NEW h \in Requests, NEW j \in Jobs,
           job' = [job EXCEPT ![h] = j]
    PROVE  /\ job' \in [Requests -> Jobs]
           /\ job'[h] = j
           /\ \A g \in Requests : g # h => job'[g] = job[g]
  OBVIOUS

\* The initial states satisfy the invariant.
LEMMA InitIInv == Init => IInv
<1> SUFFICES ASSUME Init PROVE IInv
  OBVIOUS
<1>1. TypeOK
  <2>1. job \in [Requests -> Jobs]
    BY IdleKind DEF Init
  <2>2. crowded \in BOOLEAN /\ crashed \in BOOLEAN
    BY Zenon DEF Init
  <2> QED
    BY <2>1, <2>2 DEF Init, TypeOK
<1>2. JobInv
  BY IdleKind DEF Init, JobInv, JobOK
<1>3. NumberInv
  BY FS_EmptySet DEF Init, NumberInv
<1>4. LastInv
  BY DEF Init, LastInv
<1> QED
  BY <1>1, <1>2, <1>3, <1>4 DEF IInv

\* The number of acts is a natural number.
LEMMA CountType == IInv => Cardinality(acts) \in Nat
  BY FS_CardinalityType DEF IInv, NumberInv

-----------------------------------------------------------------------------
(* What the actions have in common *)

\* A step that reads, and moves one request on: the book stays as it is.
LEMMA ReadKeeps ==
    ASSUME IInv, NEW h \in Requests, NEW j \in Jobs, JobOK(j),
           job' = [job EXCEPT ![h] = j], crowded' \in BOOLEAN, crashed' \in BOOLEAN,
           UNCHANGED <<session, linked, sealed, enb, acts, pending, signed>>,
           crashed => crashed',
           \/ crashed' \/ pending # {}
           \/ job[h].at \notin {"tally", "complete"} \/ j.at \in {"tally", "complete"}
    PROVE  IInv'
<1>1. TypeOK'
  BY JobMoved DEF IInv, TypeOK
<1>2. JobInv'
  BY JobMoved DEF IInv, TypeOK, JobInv, JobOK
<1>3. NumberInv'
  BY DEF IInv, NumberInv
<1>4. LastInv'
  BY JobMoved DEF IInv, TypeOK, LastInv
<1> QED
  BY <1>1, <1>2, <1>3, <1>4 DEF IInv

\* The arrival of a request, whatever it read.
LEMMA ArriveKeeps ==
    ASSUME IInv, NEW h \in Requests, NEW j \in Jobs, JobOK(j), Arrive(h, j),
           UNCHANGED <<session, linked, sealed, enb, acts, pending, signed>>
    PROVE  IInv'
<1>1. crowded' \in BOOLEAN /\ crashed' \in BOOLEAN
  BY Zenon DEF Arrive, IInv, TypeOK
<1>2. job[h].at = "idle"
  BY IdleKind DEF Arrive, Busy
<1> QED
  BY <1>1, <1>2, ReadKeeps DEF Arrive

\* A statement that only reads.
LEMMA GotoKeeps ==
    ASSUME IInv, NEW h \in Requests, NEW j \in Jobs, JobOK(j), Goto(h, j),
           UNCHANGED <<session, linked, sealed, enb, acts, pending, signed>>,
           \/ pending # {}
           \/ job[h].at \notin {"tally", "complete"} \/ j.at \in {"tally", "complete"}
    PROVE  IInv'
<1>1. crowded' \in BOOLEAN /\ crashed' \in BOOLEAN /\ (crashed => crashed')
  BY Zenon DEF Goto, historyVars, IInv, TypeOK
<1> QED
  BY <1>1, ReadKeeps DEF Goto

\* A request has a job of its stage's shape.
LEMMA JobAt ==
    ASSUME IInv, NEW h \in Requests
    PROVE  job[h] \in Jobs /\ JobOK(job[h]) /\ Idle \in Jobs /\ JobOK(Idle)
  BY IdleKind DEF IInv, TypeOK, JobInv, JobOK

-----------------------------------------------------------------------------
(* Each action keeps the invariant *)

\* startEnbSigning, up to the activation of the book.
LEMMA StartKeeps ==
    ASSUME IInv, NEW h \in Requests,
           CheckStart(h) \/ ReadBook(h) \/ InsertEntry(h) \/ EntriesDone(h)
    PROVE  IInv'
<1>1. CASE CheckStart(h)
  <2> DEFINE j == IF enb = "not_started" THEN [at |-> "look", docs |-> linked, start |-> TRUE]
                                         ELSE [at |-> "activate"]
  <2>1. j \in Jobs /\ JobOK(j)
    BY DEF IInv, TypeOK, Jobs, JobOK
  <2> QED
    BY <1>1, <2>1, ArriveKeeps DEF CheckStart, meetingVars, entryVars
<1>2. CASE ReadBook(h)
  <2> DEFINE j == [at |-> "entries", entries |-> {a.id : a \in acts} \X Principals]
  <2>1. {a.id : a \in acts} \X Principals \in SUBSET Entries
    BY DEF IInv, TypeOK, Acts, Entries
  <2>2. j \in Jobs /\ JobOK(j)
    BY <2>1 DEF Jobs, JobOK
  <2> HIDE DEF j
  <2> QED
    BY <1>2, <2>2, GotoKeeps DEF ReadBook, meetingVars, entryVars, j
<1>3. CASE InsertEntry(h)
  <2>1. PICK e \in job[h].entries :
          /\ pending' = IF e \in signed THEN pending ELSE pending \cup {e}
          /\ Goto(h, [job[h] EXCEPT !.entries = @ \ {e}])
    BY <1>3 DEF InsertEntry
  <2> DEFINE j == [job[h] EXCEPT !.entries = @ \ {e}]
  <2>2. job[h].at = "entries" /\ job[h].entries \in SUBSET Entries
    BY <1>3, JobAt, JobKinds DEF InsertEntry
  <2>3. j \in Jobs /\ j.at = "entries"
    BY <2>2, JobAt DEF Jobs
  <2> HIDE DEF j
  <2>4. /\ pending' \subseteq Entries /\ pending' \cap signed = {} /\ pending \subseteq pending'
        /\ signed' = signed
    BY <1>3, <2>1, <2>2 DEF IInv, TypeOK, InsertEntry
  <2>5. job' = [job EXCEPT ![h] = j]
    BY <2>1 DEF Goto, j
  <2>6. TypeOK'
    <3>1. crowded' \in BOOLEAN /\ crashed' \in BOOLEAN
      BY <2>1, Zenon DEF Goto, historyVars, IInv, TypeOK
    <3> QED
      BY <1>3, <2>3, <2>4, <2>5, <3>1, JobMoved DEF IInv, TypeOK, InsertEntry, meetingVars
  <2>7. JobInv'
    BY <1>3, <2>3, <2>5, JobMoved DEF IInv, TypeOK, JobInv, JobOK, InsertEntry
  <2>8. NumberInv'
    BY <1>3 DEF IInv, NumberInv, InsertEntry
  <2>9. LastInv'
    BY <1>3, <2>1, <2>2, <2>3, <2>4, <2>5, JobMoved
    DEF IInv, TypeOK, LastInv, InsertEntry, Goto, historyVars
  <2> QED
    BY <2>6, <2>7, <2>8, <2>9 DEF IInv
<1>4. CASE EntriesDone(h)
  <2>1. [at |-> "activate"] \in Jobs /\ JobOK([at |-> "activate"])
    BY DEF Jobs, JobOK
  <2> QED
    BY <1>4, <2>1, GotoKeeps DEF EntriesDone, meetingVars, entryVars
<1> QED
  BY <1>1, <1>2, <1>3, <1>4

\* The activation, the tally and the completion of the book.
LEMMA CompletionKeeps ==
    ASSUME IInv, NEW h \in Requests, Activate(h) \/ Tally(h) \/ CompleteBook(h)
    PROVE  IInv'
<1>1. CASE Activate(h)
  <2>1. [at |-> "tally"] \in Jobs
    BY DEF Jobs
  <2>2. job' = [job EXCEPT ![h] = [at |-> "tally"]] /\ enb' = "active"
    BY <1>1 DEF Activate, Goto
  <2>3. UNCHANGED <<session, linked, sealed, acts, pending, signed>>
    BY <1>1 DEF Activate, meetingVars, entryVars
  <2>4. crowded' \in BOOLEAN /\ crashed' \in BOOLEAN
    BY <1>1, Zenon DEF Activate, Goto, historyVars, IInv, TypeOK
  <2>5. TypeOK'
    BY <2>1, <2>2, <2>3, <2>4, JobMoved DEF IInv, TypeOK
  <2>6. JobInv'
    BY <2>1, <2>2, <2>3, JobMoved DEF IInv, TypeOK, JobInv, JobOK
  <2>7. NumberInv' /\ LastInv'
    BY <2>1, <2>2, <2>3, JobMoved DEF IInv, TypeOK, NumberInv, LastInv
  <2> QED
    BY <2>5, <2>6, <2>7 DEF IInv
<1>2. CASE Tally(h)
  <2> DEFINE j == IF pending = {} THEN [at |-> "complete"] ELSE Idle
  <2>1. j \in Jobs /\ JobOK(j)
    BY <1>2, JobAt DEF Tally, Jobs, JobOK
  <2>2. Goto(h, j)
    BY <1>2 DEF Tally, Done
  <2>3. pending # {} \/ j.at = "complete"
    OBVIOUS
  <2> HIDE DEF j
  <2> QED
    BY <1>2, <2>1, <2>2, <2>3, GotoKeeps DEF Tally, meetingVars, entryVars
<1>3. CASE CompleteBook(h)
  <2>1. job' = [job EXCEPT ![h] = Idle] /\ enb' = "completed"
    BY <1>3 DEF CompleteBook, Done, Goto
  <2>2. UNCHANGED <<session, linked, sealed, acts, pending, signed>>
    BY <1>3 DEF CompleteBook, meetingVars, entryVars
  <2>3. crowded' \in BOOLEAN /\ crashed' \in BOOLEAN
    BY <1>3, Zenon DEF CompleteBook, Done, Goto, historyVars, IInv, TypeOK
  <2>4. TypeOK'
    BY <2>1, <2>2, <2>3, JobMoved, IdleKind DEF IInv, TypeOK
  <2>5. JobInv'
    BY <2>1, <2>2, JobMoved, IdleKind DEF IInv, TypeOK, JobInv, JobOK
  <2>6. NumberInv' /\ LastInv'
    BY <2>1, <2>2 DEF IInv, NumberInv, LastInv
  <2> QED
    BY <2>4, <2>5, <2>6 DEF IInv
<1> QED
  BY <1>1, <1>2, <1>3

\* signEntry, in its two statements.
LEMMA SigningKeeps ==
    ASSUME IInv, NEW h \in Requests, SignEntry(h) \/ \E e \in Entries : CheckSign(h, e)
    PROVE  IInv'
<1>1. ASSUME NEW e \in Entries, CheckSign(h, e) PROVE IInv'
  <2> DEFINE j == [at |-> "sign", entry |-> e]
  <2>1. j \in Jobs /\ JobOK(j)
    BY <1>1 DEF CheckSign, Jobs, JobOK
  <2> QED
    BY <1>1, <2>1, ArriveKeeps DEF CheckSign, meetingVars, entryVars
<1>2. CASE SignEntry(h)
  <2>1. [at |-> "tally"] \in Jobs /\ job[h].entry \in Entries /\ enb # "not_started"
    BY <1>2, JobAt, JobKinds DEF SignEntry, Jobs, JobOK
  <2>2. job' = [job EXCEPT ![h] = [at |-> "tally"]]
    BY <1>2 DEF SignEntry, Goto
  <2>3. UNCHANGED <<session, linked, sealed, enb, acts>>
    BY <1>2 DEF SignEntry, meetingVars
  <2>4. crowded' \in BOOLEAN /\ crashed' \in BOOLEAN
    BY <1>2, Zenon DEF SignEntry, Goto, historyVars, IInv, TypeOK
  <2>5. pending' \subseteq Entries /\ signed' \subseteq Entries /\ pending' \cap signed' = {}
    BY <1>2, <2>1 DEF SignEntry, IInv, TypeOK
  <2>6. TypeOK'
    BY <2>1, <2>2, <2>3, <2>4, <2>5, JobMoved DEF IInv, TypeOK
  <2>7. JobInv'
    BY <2>1, <2>2, <2>3, JobMoved DEF IInv, TypeOK, JobInv, JobOK
  <2>8. NumberInv' /\ LastInv'
    BY <2>1, <2>2, <2>3, JobMoved DEF IInv, TypeOK, NumberInv, LastInv
  <2> QED
    BY <2>6, <2>7, <2>8 DEF IInv
<1> QED
  BY <1>1, <1>2

\* The statements of syncActsFromEndedMeeting that only read.
LEMMA SyncKeeps ==
    ASSUME IInv, NEW h \in Requests,
           \/ \E d \in Docs : ViewPdf(h, d)
           \/ Populate(h) \/ FindCandidates(h) \/ NumberAct(h) \/ SyncDone(h)
    PROVE  IInv'
<1>1. ASSUME NEW d \in Docs, ViewPdf(h, d) PROVE IInv'
  <2> DEFINE j == [at |-> "look", docs |-> {d}, start |-> FALSE]
  <2>1. j \in Jobs /\ JobOK(j)
    BY DEF Jobs, JobOK
  <2> QED
    BY <1>1, <2>1, ArriveKeeps DEF ViewPdf, meetingVars, entryVars
<1>2. CASE Populate(h)
  <2> DEFINE j == [at |-> "look", docs |-> linked, start |-> FALSE]
  <2>1. j \in Jobs /\ JobOK(j)
    BY DEF Jobs, JobOK, IInv, TypeOK
  <2> QED
    BY <1>2, <2>1, ArriveKeeps DEF Populate, meetingVars, entryVars
<1>3. CASE FindCandidates(h)
  <2>1. PICK C \in SUBSET job[h].docs :
          Goto(h, [at |-> "number", docs |-> C, start |-> job[h].start])
    BY <1>3 DEF FindCandidates
  <2> DEFINE j == [at |-> "number", docs |-> C, start |-> job[h].start]
  <2>2. j \in Jobs /\ JobOK(j)
    BY <1>3, JobAt, JobKinds DEF FindCandidates, Jobs, JobOK
  <2> QED
    BY <1>3, <2>1, <2>2, GotoKeeps DEF FindCandidates, meetingVars, entryVars
<1>4. CASE NumberAct(h)
  <2>1. PICK d \in job[h].docs :
          Goto(h, [at |-> "insert", docs |-> job[h].docs, start |-> job[h].start,
                   doc |-> d, number |-> Cardinality(acts) + 1])
    BY <1>4 DEF NumberAct
  <2> DEFINE j == [at |-> "insert", docs |-> job[h].docs, start |-> job[h].start,
                   doc |-> d, number |-> Cardinality(acts) + 1]
  <2>2. job[h].docs \in SUBSET Docs /\ job[h].start \in BOOLEAN
    BY <1>4, JobAt, JobKinds DEF NumberAct
  <2>3. Cardinality(acts) + 1 \in 1..MaxActs
    BY <1>4, CountType DEF NumberAct
  <2>4. j \in Jobs /\ JobOK(j)
    BY <2>2, <2>3 DEF Jobs, JobOK
  <2> QED
    BY <1>4, <2>1, <2>4, GotoKeeps DEF NumberAct, meetingVars, entryVars
<1>5. CASE SyncDone(h)
  <2> DEFINE j == IF job[h].start THEN [at |-> "book"] ELSE Idle
  <2>1. j \in Jobs /\ JobOK(j)
    BY JobAt DEF Jobs, JobOK
  <2>2. Goto(h, j)
    BY <1>5 DEF SyncDone, Done
  <2> HIDE DEF j
  <2> QED
    BY <1>5, <2>1, <2>2, GotoKeeps DEF SyncDone, meetingVars, entryVars
<1> QED
  BY <1>1, <1>2, <1>3, <1>4, <1>5

\* An act that is inserted is new: its id is one more than the acts there are.
LEMMA ActAdded ==
    ASSUME IInv, NEW h \in Requests, InsertAct(h)
    PROVE  \E a \in Acts :
             /\ a.id = Cardinality(acts) + 1 /\ a.doc = job[h].doc /\ a.number = job[h].number
             /\ a \notin acts /\ acts' = acts \cup {a}
             /\ Cardinality(acts') = Cardinality(acts) + 1 /\ IsFiniteSet(acts')
<1> DEFINE a == [id |-> Cardinality(acts) + 1, doc |-> job[h].doc, number |-> job[h].number]
<1>1. Cardinality(acts) \in Nat /\ Cardinality(acts) < MaxActs
  BY CountType DEF InsertAct
<1>2. a \in Acts
  BY <1>1, JobAt, JobKinds DEF InsertAct, Acts
<1>3. a \notin acts
  BY <1>1 DEF IInv, NumberInv
<1>4. acts' = acts \cup {a}
  BY DEF InsertAct
<1>5. a.id = Cardinality(acts) + 1 /\ a.doc = job[h].doc /\ a.number = job[h].number
  OBVIOUS
<1> HIDE DEF a
<1>6. Cardinality(acts') = Cardinality(acts) + 1 /\ IsFiniteSet(acts')
  BY <1>3, <1>4, FS_AddElement DEF IInv, NumberInv
<1> QED
  BY <1>2, <1>3, <1>4, <1>5, <1>6

\* The insertion of an act.
LEMMA InsertKeeps ==
    ASSUME IInv, NEW h \in Requests, InsertAct(h)
    PROVE  IInv'
<1> DEFINE j == [at |-> "number", docs |-> job[h].docs \ {job[h].doc}, start |-> job[h].start]
<1>1. PICK a \in Acts :
         /\ a.id = Cardinality(acts) + 1 /\ a.number = job[h].number
         /\ acts' = acts \cup {a}
         /\ Cardinality(acts') = Cardinality(acts) + 1 /\ IsFiniteSet(acts')
  BY ActAdded
<1>2. j \in Jobs /\ j.at = "number" /\ job[h].number <= Cardinality(acts) + 1
  BY JobAt, JobKinds DEF InsertAct, Jobs, JobOK
<1>3. job' = [job EXCEPT ![h] = j]
  BY DEF InsertAct, Goto
<1>4. UNCHANGED <<session, linked, sealed, enb, pending, signed>>
  BY DEF InsertAct, meetingVars, entryVars
<1>5. crowded' \in BOOLEAN /\ crashed' \in BOOLEAN /\ crashed' = crashed
  BY Zenon DEF InsertAct, Goto, historyVars, IInv, TypeOK
<1> HIDE DEF j
<1>6. TypeOK'
  BY <1>1, <1>2, <1>3, <1>4, <1>5, JobMoved DEF IInv, TypeOK
<1>7. JobInv'
  <2> SUFFICES ASSUME NEW g \in Requests PROVE JobOK(job[g])'
    BY DEF JobInv
  <2>1. job'[g] = j \/ job'[g] = job[g]
    BY <1>2, <1>3, JobMoved DEF IInv, TypeOK
  <2>2. Cardinality(acts) \in Nat
    BY CountType
  <2>3. job[g].at = "insert" => job[g].number \in Nat /\ job[g].number <= Cardinality(acts) + 1
    BY JobAt, JobKinds DEF JobOK
  <2>4. job[g].at \in {"sign", "tally", "complete"} => enb # "not_started"
    BY JobAt DEF JobOK
  <2> QED
    BY <1>1, <1>2, <1>4, <2>1, <2>2, <2>3, <2>4 DEF JobOK
<1>8. NumberInv'
  <2> SUFFICES ASSUME NEW b \in acts'
               PROVE  b.id <= Cardinality(acts') /\ b.number <= Cardinality(acts')
    BY <1>1 DEF NumberInv
  <2>1. CASE b = a
    BY <1>1, <1>2, <2>1, CountType
  <2>2. CASE b \in acts
    <3>1. b.id \in Nat /\ b.number \in Nat
      BY <2>2 DEF IInv, TypeOK, Acts
    <3> QED
      BY <1>1, <2>2, <3>1, CountType DEF IInv, NumberInv
  <2> QED
    BY <1>1, <2>1, <2>2
<1>9. LastInv'
  BY <1>2, <1>3, <1>4, <1>5, JobMoved DEF IInv, TypeOK, LastInv, InsertAct
<1> QED
  BY <1>6, <1>7, <1>8, <1>9 DEF IInv

\* The end of the meeting, a crash, and what the documents do meanwhile.
LEMMA MeetingKeeps ==
    ASSUME IInv
    PROVE  /\ DocumentStep => IInv'
           /\ \A h \in Requests : CheckEnd(h) \/ WriteEnded(h) \/ Abort(h) => IInv'
<1>1. ASSUME DocumentStep PROVE IInv'
  <2>1. crowded' \in BOOLEAN /\ crashed' \in BOOLEAN
    BY <1>1, Zenon DEF DocumentStep, historyVars, IInv, TypeOK
  <2>2. TypeOK'
    BY <1>1, <2>1 DEF DocumentStep, IInv, TypeOK, entryVars
  <2> QED
    BY <1>1, <2>2
    DEF DocumentStep, IInv, JobInv, JobOK, NumberInv, LastInv, entryVars, historyVars
<1>2. ASSUME NEW h \in Requests, CheckEnd(h) PROVE IInv'
  <2>1. [at |-> "ending"] \in Jobs /\ JobOK([at |-> "ending"])
    BY DEF Jobs, JobOK
  <2> QED
    BY <1>2, <2>1, ArriveKeeps DEF CheckEnd, meetingVars, entryVars
<1>3. ASSUME NEW h \in Requests, WriteEnded(h) PROVE IInv'
  <2>1. job' = [job EXCEPT ![h] = Idle]
    BY <1>3 DEF WriteEnded, Done, Goto
  <2>2. crowded' \in BOOLEAN /\ crashed' \in BOOLEAN /\ crashed' = crashed
    BY <1>3, Zenon DEF WriteEnded, Done, Goto, historyVars, IInv, TypeOK
  <2>3. TypeOK'
    BY <1>3, <2>1, <2>2, JobMoved, IdleKind DEF WriteEnded, IInv, TypeOK, entryVars
  <2>4. JobInv'
    BY <1>3, <2>1, JobMoved, IdleKind DEF WriteEnded, IInv, TypeOK, JobInv, JobOK
  <2>5. NumberInv' /\ LastInv'
    BY <1>3, <2>1, <2>2, JobMoved, IdleKind
    DEF WriteEnded, IInv, TypeOK, NumberInv, LastInv, entryVars
  <2> QED
    BY <2>3, <2>4, <2>5 DEF IInv
<1>4. ASSUME NEW h \in Requests, Abort(h) PROVE IInv'
  <2>1. crowded' \in BOOLEAN /\ crashed' \in BOOLEAN /\ crashed'
    BY <1>4, Zenon DEF Abort, IInv, TypeOK
  <2> QED
    BY <1>4, <2>1, JobAt, ReadKeeps DEF Abort, meetingVars, entryVars
<1> QED
  BY <1>1, <1>2, <1>3, <1>4

\* Every step keeps the invariant.
LEMMA NextKeeps == IInv /\ [Next]_vars => IInv'
<1> SUFFICES ASSUME IInv, [Next]_vars PROVE IInv'
  OBVIOUS
<1>1. CASE DocumentStep
  BY <1>1, MeetingKeeps
<1>2. ASSUME NEW h \in Requests, RequestStep(h) PROVE IInv'
  BY <1>2, StartKeeps, CompletionKeeps, SigningKeeps, SyncKeeps, InsertKeeps, MeetingKeeps
  DEF RequestStep
<1>3. CASE UNCHANGED vars
  <2>1. TypeOK'
    BY <1>3, Zenon DEF vars, IInv, TypeOK
  <2> QED
    BY <1>3, <2>1 DEF vars, IInv, JobInv, JobOK, NumberInv, LastInv
<1> QED
  BY <1>1, <1>2, <1>3 DEF Next

\* The invariant holds for ever.
LEMMA Invariance == Spec => []IInv
  BY InitIInv, NextKeeps, PTL DEF Spec

\* Every variable keeps its type, and no entry is both pending and signed.
THEOREM TypeCorrect == Spec => []TypeOK
<1>1. IInv => TypeOK
  BY DEF IInv
<1> QED
  BY <1>1, Invariance, PTL

\* The request that signs last tallies after it signed, and whoever finds the book
\* signed completes it (signEntry, maybeCompleteSigning): an active book with nothing
\* to sign has a request on its way, unless one was cut off.
THEOREM LastCompletes == Spec => []LastSignatureCompletes
<1>1. IInv => LastSignatureCompletes
  BY IdleKind DEF IInv, LastInv, LastSignatureCompletes, Busy
<1> QED
  BY <1>1, Invariance, PTL

\* No statement unsigns an entry or removes an act, in any order (the entries of a
\* conflict are kept, createSignatureRequests).
LEMMA SignaturesKept == [Next]_vars => signed \subseteq signed' /\ acts \subseteq acts'
<1> SUFFICES ASSUME [Next]_vars PROVE signed \subseteq signed' /\ acts \subseteq acts'
  OBVIOUS
<1>1. CASE DocumentStep \/ UNCHANGED vars
  BY <1>1 DEF DocumentStep, entryVars, vars
<1>2. ASSUME NEW h \in Requests, RequestStep(h)
      PROVE  signed \subseteq signed' /\ acts \subseteq acts'
  <2>1. CASE \/ CheckStart(h) \/ ReadBook(h) \/ InsertEntry(h) \/ EntriesDone(h)
             \/ Activate(h) \/ Tally(h) \/ CompleteBook(h)
    BY <2>1 DEF CheckStart, ReadBook, InsertEntry, EntriesDone, Activate, Tally, CompleteBook,
        entryVars
  <2>2. CASE SignEntry(h) \/ \E e \in Entries : CheckSign(h, e)
    BY <2>2 DEF CheckSign, SignEntry, entryVars
  <2>3. CASE \/ \E d \in Docs : ViewPdf(h, d)
             \/ Populate(h) \/ FindCandidates(h) \/ NumberAct(h) \/ SyncDone(h)
    BY <2>3 DEF ViewPdf, Populate, FindCandidates, NumberAct, SyncDone, entryVars
  <2>4. CASE InsertAct(h)
    BY <2>4 DEF InsertAct, entryVars
  <2>5. CASE CheckEnd(h) \/ WriteEnded(h) \/ Abort(h)
    BY <2>5 DEF CheckEnd, WriteEnded, Abort, entryVars
  <2> QED
    BY <1>2, <2>1, <2>2, <2>3, <2>4, <2>5 DEF RequestStep
<1> QED
  BY <1>1, <1>2 DEF Next

\* An entry, once signed, stays signed, and an act stays in the book.
THEOREM SignaturesAreKept == Spec => SignaturesStay
  BY SignaturesKept, PTL DEF Spec, SignaturesStay

-----------------------------------------------------------------------------
(* Without overlaps of the requests that write the book *)

\* A request that prepares the first entries of the book.
Starting(j) ==
    \/ j.at \in {"look", "number", "insert"} /\ j.start
    \/ j.at \in {"book", "entries"}

\* One request writes the book.  While it prepares the entries nobody has activated
\* the book, so that no tally it would spoil is under way.
WriterInv ==
    /\ \A g, h \in Requests : WritesBook(job[g]) /\ WritesBook(job[h]) => g = h
    /\ \A h \in Requests : Starting(job[h]) => enb = "not_started"
    /\ \A h \in Requests : job[h].at = "complete" => pending = {}
    /\ enb = "completed" => pending = {}

\* The documents it looks at have no act yet, and the number it chose is the next.
ActsInv ==
    /\ \A h \in Requests :
          /\ job[h].at \in {"number", "insert"} => \A a \in acts : a.doc \notin job[h].docs
          /\ job[h].at = "insert" => /\ job[h].doc \in job[h].docs
                                     /\ job[h].number = Cardinality(acts) + 1
    /\ \A a, b \in acts : a.doc = b.doc \/ a.number = b.number => a = b

AloneInv == ~crowded => WriterInv /\ ActsInv

\* At first nothing is under way.
LEMMA InitAlone == Init => AloneInv
  BY IdleKind DEF Init, AloneInv, WriterInv, ActsInv, WritesBook, Starting

\* A request that arrives writes the book alone, or does not write it.
LEMMA ArriveAlone ==
    ASSUME IInv, AloneInv, NEW h \in Requests, NEW j \in Jobs, Arrive(h, j),
           j.at \notin {"complete", "number", "insert"}, Starting(j) => enb = "not_started",
           UNCHANGED <<enb, acts, pending>>
    PROVE  AloneInv'
<1> SUFFICES ASSUME ~crowded' PROVE WriterInv' /\ ActsInv'
  BY DEF AloneInv
<1>1. WriterInv /\ ActsInv /\ (WritesBook(j) => \A g \in Requests \ {h} : ~WritesBook(job[g]))
  BY DEF Arrive, AloneInv
<1>2. job'[h] = j /\ \A g \in Requests : g # h => job'[g] = job[g]
  BY JobMoved DEF Arrive, IInv, TypeOK
<1>3. WriterInv'
  <2>1. ASSUME NEW g \in Requests, NEW k \in Requests, WritesBook(job'[g]), WritesBook(job'[k])
        PROVE  g = k
    BY <1>1, <1>2, <2>1 DEF WriterInv
  <2>2. \A g \in Requests : WritesBook(job[g])' <=> WritesBook(job'[g])
    BY DEF WritesBook
  <2>3. \A g \in Requests : Starting(job[g])' => enb' = "not_started"
    BY <1>1, <1>2 DEF WriterInv, Starting
  <2> QED
    BY <1>1, <1>2, <2>1, <2>2, <2>3 DEF WriterInv
<1>4. ActsInv'
  BY <1>1, <1>2 DEF ActsInv
<1> QED
  BY <1>3, <1>4

\* A statement that leaves the acts alone, of a request that wrote the book before it
\* if it writes the book after it.
LEMMA MoveAlone ==
    ASSUME IInv, AloneInv, NEW h \in Requests, NEW j \in Jobs,
           job' = [job EXCEPT ![h] = j], UNCHANGED <<crowded, acts>>,
           WritesBook(j) => WritesBook(job[h]),
           Starting(j) => Starting(job[h]),
           ~crowded => /\ enb' = enb \/ \A g \in Requests : ~Starting(job'[g])
                       /\ pending' \subseteq pending \/ Starting(job[h])
                       /\ j.at = "complete" => pending' = {}
                       /\ enb' = "completed" => pending' = {},
           j.at = "number" => \A a \in acts : a.doc \notin j.docs,
           j.at = "insert" => /\ job[h].at = "number" /\ j.docs = job[h].docs
                              /\ j.doc \in j.docs /\ j.number = Cardinality(acts) + 1
    PROVE  AloneInv'
<1> SUFFICES ASSUME ~crowded' PROVE WriterInv' /\ ActsInv'
  BY DEF AloneInv
<1>1. ~crowded /\ WriterInv /\ ActsInv
  BY DEF AloneInv
<1>2. job'[h] = j /\ \A g \in Requests : g # h => job'[g] = job[g]
  BY JobMoved DEF IInv, TypeOK
<1>3. WriterInv'
  <2>1. ASSUME NEW g \in Requests, NEW k \in Requests, WritesBook(job'[g]), WritesBook(job'[k])
        PROVE  g = k
    BY <1>1, <1>2, <2>1 DEF WriterInv
  <2>2. \A g \in Requests : WritesBook(job[g])' <=> WritesBook(job'[g])
    BY DEF WritesBook
  <2>3. \A g \in Requests : Starting(job'[g]) => Starting(job[g])
    BY <1>2
  <2>4. \A g \in Requests : Starting(job'[g]) => enb' = "not_started"
    BY <1>1, <2>3 DEF WriterInv
  <2>5. \A g \in Requests : Starting(job[g])' <=> Starting(job'[g])
    BY DEF Starting
  <2>6. ASSUME NEW g \in Requests, job'[g].at = "complete" PROVE pending' = {}
    <3>1. CASE g = h
      BY <1>1, <1>2, <2>6, <3>1
    <3>2. CASE g # h
      <4>1. job[g].at = "complete" /\ pending = {}
        BY <1>1, <1>2, <2>6, <3>2 DEF WriterInv
      <4>2. enb # "not_started"
        BY <4>1, JobAt DEF JobOK
      <4>3. ~Starting(job[h])
        BY <1>1, <4>2 DEF WriterInv
      <4> QED
        BY <1>1, <4>1, <4>3
    <3> QED
      BY <3>1, <3>2
  <2> QED
    BY <1>1, <2>1, <2>2, <2>4, <2>5, <2>6 DEF WriterInv
<1>4. ActsInv'
  BY <1>1, <1>2 DEF ActsInv
<1> QED
  BY <1>3, <1>4

\* The arrivals.
LEMMA ArrivalsAlone ==
    ASSUME IInv, AloneInv, NEW h \in Requests,
           \/ CheckStart(h) \/ Populate(h) \/ CheckEnd(h)
           \/ \E e \in Entries : CheckSign(h, e)
           \/ \E d \in Docs : ViewPdf(h, d)
    PROVE  AloneInv'
<1>1. CASE CheckStart(h)
  <2> DEFINE j == IF enb = "not_started" THEN [at |-> "look", docs |-> linked, start |-> TRUE]
                                         ELSE [at |-> "activate"]
  <2>1. /\ j \in Jobs /\ j.at \notin {"complete", "number", "insert"}
        /\ Starting(j) => enb = "not_started"
    BY DEF IInv, TypeOK, Jobs, Starting
  <2> QED
    BY <1>1, <2>1, ArriveAlone DEF CheckStart, entryVars
<1>2. CASE Populate(h)
  <2> DEFINE j == [at |-> "look", docs |-> linked, start |-> FALSE]
  <2>1. j \in Jobs /\ j.at = "look" /\ ~Starting(j)
    BY DEF IInv, TypeOK, Jobs, Starting
  <2> QED
    BY <1>2, <2>1, ArriveAlone DEF Populate, entryVars
<1>3. CASE CheckEnd(h)
  <2> DEFINE j == [at |-> "ending"]
  <2>1. j \in Jobs /\ j.at = "ending" /\ ~Starting(j)
    BY DEF Jobs, Starting
  <2> QED
    BY <1>3, <2>1, ArriveAlone DEF CheckEnd, entryVars
<1>4. ASSUME NEW e \in Entries, CheckSign(h, e) PROVE AloneInv'
  <2> DEFINE j == [at |-> "sign", entry |-> e]
  <2>1. j \in Jobs /\ j.at = "sign" /\ ~Starting(j)
    BY DEF Jobs, Starting
  <2> QED
    BY <1>4, <2>1, ArriveAlone DEF CheckSign, entryVars
<1>5. ASSUME NEW d \in Docs, ViewPdf(h, d) PROVE AloneInv'
  <2> DEFINE j == [at |-> "look", docs |-> {d}, start |-> FALSE]
  <2>1. j \in Jobs /\ j.at = "look" /\ ~Starting(j)
    BY DEF Jobs, Starting
  <2> QED
    BY <1>5, <2>1, ArriveAlone DEF ViewPdf, entryVars
<1> QED
  BY <1>1, <1>2, <1>3, <1>4, <1>5

\* The statements of startEnbSigning and signEntry.
LEMMA EntriesAlone ==
    ASSUME IInv, AloneInv, NEW h \in Requests,
           \/ ReadBook(h) \/ InsertEntry(h) \/ EntriesDone(h) \/ Activate(h)
           \/ Tally(h) \/ CompleteBook(h) \/ SignEntry(h)
    PROVE  AloneInv'
<1>0. ~crowded => (enb = "completed" => pending = {})
  BY DEF AloneInv, WriterInv
<1>1. CASE ReadBook(h)
  <2> DEFINE j == [at |-> "entries", entries |-> {a.id : a \in acts} \X Principals]
  <2>1. {a.id : a \in acts} \X Principals \in SUBSET Entries
    BY DEF IInv, TypeOK, Acts, Entries
  <2>2. j \in Jobs /\ j.at = "entries"
    BY <2>1 DEF Jobs
  <2>3. job' = [job EXCEPT ![h] = j]
    BY <1>1 DEF ReadBook, Goto
  <2> HIDE DEF j
  <2>4. UNCHANGED <<crowded, acts, enb, pending>>
    BY <1>1 DEF ReadBook, Goto, historyVars, entryVars
  <2>5. WritesBook(job[h]) /\ Starting(job[h])
    BY <1>1 DEF ReadBook, WritesBook, Starting
  <2> QED
    BY <1>0, <2>2, <2>3, <2>4, <2>5, MoveAlone
<1>2. CASE InsertEntry(h)
  <2>1. PICK e \in job[h].entries : Goto(h, [job[h] EXCEPT !.entries = @ \ {e}])
    BY <1>2 DEF InsertEntry
  <2> DEFINE j == [job[h] EXCEPT !.entries = @ \ {e}]
  <2>2. j \in Jobs /\ j.at = "entries"
    BY <1>2, JobAt, JobKinds DEF InsertEntry, Jobs
  <2>3. job' = [job EXCEPT ![h] = j]
    BY <2>1 DEF Goto
  <2> HIDE DEF j
  <2>4. UNCHANGED <<crowded, acts, enb>>
    BY <1>2, <2>1 DEF InsertEntry, Goto, historyVars
  <2>5. WritesBook(job[h]) /\ Starting(job[h])
    BY <1>2 DEF InsertEntry, WritesBook, Starting
  <2>6. ~crowded => enb = "not_started"
    BY <2>5 DEF AloneInv, WriterInv
  <2> QED
    BY <2>2, <2>3, <2>4, <2>5, <2>6, MoveAlone
<1>3. CASE EntriesDone(h)
  <2> DEFINE j == [at |-> "activate"]
  <2>1. j \in Jobs /\ j.at = "activate" /\ ~Starting(j) /\ WritesBook(job[h])
    BY <1>3 DEF EntriesDone, Jobs, Starting, WritesBook
  <2>2. job' = [job EXCEPT ![h] = j] /\ UNCHANGED <<crowded, acts, enb, pending>>
    BY <1>3 DEF EntriesDone, Goto, historyVars, entryVars
  <2> QED
    BY <1>0, <2>1, <2>2, MoveAlone
<1>4. CASE Activate(h)
  <2> DEFINE j == [at |-> "tally"]
  <2>1. j \in Jobs /\ j.at = "tally" /\ ~Starting(j) /\ ~WritesBook(j)
    BY DEF Jobs, Starting, WritesBook
  <2>2. job' = [job EXCEPT ![h] = j] /\ UNCHANGED <<crowded, acts, pending>> /\ enb' = "active"
    BY <1>4 DEF Activate, Goto, historyVars, entryVars
  <2>3. ASSUME ~crowded, NEW g \in Requests PROVE ~Starting(job'[g])
    <3>1. WritesBook(job[h]) /\ (Starting(job[g]) => WritesBook(job[g]))
      BY <1>4 DEF Activate, WritesBook, Starting
    <3>2. Starting(job[g]) => g = h
      BY <2>3, <3>1 DEF AloneInv, WriterInv
    <3>3. job'[g] = IF g = h THEN j ELSE job[g]
      BY <2>2 DEF IInv, TypeOK
    <3> QED
      BY <2>1, <3>2, <3>3
  <2> QED
    BY <2>1, <2>2, <2>3, MoveAlone
<1>5. CASE Tally(h)
  <2> DEFINE j == IF pending = {} THEN [at |-> "complete"] ELSE Idle
  <2>1. /\ j \in Jobs /\ j.at \in {"complete", "idle"} /\ (j.at = "complete" => pending = {})
        /\ ~Starting(j) /\ ~WritesBook(j)
    BY IdleKind DEF Jobs, Starting, WritesBook
  <2>2. job' = [job EXCEPT ![h] = j] /\ UNCHANGED <<crowded, acts, enb, pending>>
    BY <1>5 DEF Tally, Done, Goto, historyVars, entryVars
  <2> HIDE DEF j
  <2> QED
    BY <1>0, <2>1, <2>2, MoveAlone
<1>6. CASE CompleteBook(h)
  <2>1. ~Starting(Idle) /\ ~WritesBook(Idle)
    BY DEF Idle, Starting, WritesBook
  <2>2. /\ job' = [job EXCEPT ![h] = Idle] /\ UNCHANGED <<crowded, acts, pending>>
        /\ enb' = "completed"
    BY <1>6 DEF CompleteBook, Done, Goto, historyVars, entryVars
  <2>3. ASSUME ~crowded PROVE pending = {} /\ \A g \in Requests : ~Starting(job'[g])
    <3>1. pending = {} /\ enb # "not_started"
      BY <1>6, <2>3, JobAt DEF CompleteBook, JobOK, AloneInv, WriterInv
    <3>2. ASSUME NEW g \in Requests PROVE ~Starting(job'[g])
      <4>1. job'[g] = IF g = h THEN Idle ELSE job[g]
        BY <2>2 DEF IInv, TypeOK
      <4> QED
        BY <2>1, <2>3, <3>1, <4>1 DEF AloneInv, WriterInv
    <3> QED
      BY <3>1, <3>2
  <2> QED
    BY <2>1, <2>2, <2>3, IdleKind, MoveAlone
<1>7. CASE SignEntry(h)
  <2> DEFINE j == [at |-> "tally"]
  <2>1. j \in Jobs /\ j.at = "tally" /\ ~Starting(j) /\ ~WritesBook(j)
    BY DEF Jobs, Starting, WritesBook
  <2>2. /\ job' = [job EXCEPT ![h] = j] /\ UNCHANGED <<crowded, acts, enb>>
        /\ pending' \subseteq pending
    BY <1>7 DEF SignEntry, Goto, historyVars
  <2>3. ~crowded => (enb' = "completed" => pending' = {})
    BY <1>0, <2>2
  <2> QED
    BY <2>1, <2>2, <2>3, MoveAlone
<1> QED
  BY <1>1, <1>2, <1>3, <1>4, <1>5, <1>6, <1>7

\* The statements of syncActsFromEndedMeeting that read, and those that end a request.
LEMMA SyncAlone ==
    ASSUME IInv, AloneInv, NEW h \in Requests,
           FindCandidates(h) \/ NumberAct(h) \/ SyncDone(h) \/ WriteEnded(h) \/ Abort(h)
    PROVE  AloneInv'
<1>0. ~crowded => (enb = "completed" => pending = {})
  BY DEF AloneInv, WriterInv
<1>1. CASE FindCandidates(h)
  <2>1. PICK C \in SUBSET {d \in job[h].docs : \A a \in acts : a.doc # d} :
          Goto(h, [at |-> "number", docs |-> C, start |-> job[h].start])
    BY <1>1 DEF FindCandidates
  <2> DEFINE j == [at |-> "number", docs |-> C, start |-> job[h].start]
  <2>2. /\ j \in Jobs /\ j.at = "number" /\ (Starting(j) => Starting(job[h]))
        /\ WritesBook(job[h]) /\ \A a \in acts : a.doc \notin j.docs
    BY <1>1, JobAt, JobKinds DEF FindCandidates, Jobs, Starting, WritesBook
  <2>3. job' = [job EXCEPT ![h] = j] /\ UNCHANGED <<crowded, acts, enb, pending>>
    BY <1>1, <2>1 DEF FindCandidates, Goto, historyVars, entryVars
  <2> HIDE DEF j
  <2> QED
    BY <1>0, <2>2, <2>3, MoveAlone
<1>2. CASE NumberAct(h)
  <2>1. PICK d \in job[h].docs :
          Goto(h, [at |-> "insert", docs |-> job[h].docs, start |-> job[h].start,
                   doc |-> d, number |-> Cardinality(acts) + 1])
    BY <1>2 DEF NumberAct
  <2> DEFINE j == [at |-> "insert", docs |-> job[h].docs, start |-> job[h].start,
                   doc |-> d, number |-> Cardinality(acts) + 1]
  <2>2. job[h].docs \in SUBSET Docs /\ job[h].start \in BOOLEAN
    BY <1>2, JobAt, JobKinds DEF NumberAct
  <2>3. Cardinality(acts) + 1 \in 1..MaxActs
    BY <1>2, CountType DEF NumberAct
  <2>4. /\ j \in Jobs /\ j.at = "insert" /\ (Starting(j) => Starting(job[h]))
        /\ WritesBook(job[h]) /\ job[h].at = "number" /\ j.docs = job[h].docs
        /\ j.doc \in j.docs /\ j.number = Cardinality(acts) + 1
    BY <1>2, <2>2, <2>3 DEF NumberAct, Jobs, Starting, WritesBook
  <2>5. job' = [job EXCEPT ![h] = j] /\ UNCHANGED <<crowded, acts, enb, pending>>
    BY <1>2, <2>1 DEF NumberAct, Goto, historyVars, entryVars
  <2> HIDE DEF j
  <2> QED
    BY <1>0, <2>4, <2>5, MoveAlone
<1>3. CASE SyncDone(h)
  <2> DEFINE j == IF job[h].start THEN [at |-> "book"] ELSE Idle
  <2>1. /\ j \in Jobs /\ j.at \in {"book", "idle"} /\ (Starting(j) => Starting(job[h]))
        /\ WritesBook(job[h])
    BY <1>3, IdleKind DEF SyncDone, Jobs, Starting, WritesBook
  <2>2. job' = [job EXCEPT ![h] = j] /\ UNCHANGED <<crowded, acts, enb, pending>>
    BY <1>3 DEF SyncDone, Done, Goto, historyVars, entryVars
  <2> HIDE DEF j
  <2> QED
    BY <1>0, <2>1, <2>2, MoveAlone
<1>4. CASE WriteEnded(h) \/ Abort(h)
  <2>1. ~Starting(Idle) /\ ~WritesBook(Idle)
    BY DEF Idle, Starting, WritesBook
  <2>2. job' = [job EXCEPT ![h] = Idle] /\ UNCHANGED <<crowded, acts, enb, pending>>
    BY <1>4 DEF WriteEnded, Abort, Done, Goto, historyVars, entryVars
  <2> QED
    BY <1>0, <2>1, <2>2, IdleKind, MoveAlone
<1> QED
  BY <1>1, <1>2, <1>3, <1>4

\* The one request that numbers acts inserts an act with a new number, of a document
\* that had none.
LEMMA InsertAlone ==
    ASSUME IInv, AloneInv, NEW h \in Requests, InsertAct(h)
    PROVE  AloneInv'
<1> SUFFICES ASSUME ~crowded' PROVE WriterInv' /\ ActsInv'
  BY DEF AloneInv
<1> DEFINE j == [at |-> "number", docs |-> job[h].docs \ {job[h].doc}, start |-> job[h].start]
<1>1. PICK a \in Acts :
         /\ a.id = Cardinality(acts) + 1 /\ a.doc = job[h].doc /\ a.number = job[h].number
         /\ acts' = acts \cup {a}
  BY ActAdded
<1>2. ~crowded /\ UNCHANGED <<enb, pending>> /\ job' = [job EXCEPT ![h] = j]
  BY DEF InsertAct, Goto, historyVars, entryVars
<1>3. WriterInv /\ ActsInv
  BY <1>2 DEF AloneInv
<1>4. /\ j.at = "number" /\ (Starting(j) => Starting(job[h])) /\ WritesBook(job[h])
      /\ j.docs = job[h].docs \ {job[h].doc}
  BY DEF InsertAct, Starting, WritesBook
<1> HIDE DEF j
<1>5. job'[h] = j /\ \A g \in Requests : g # h => job'[g] = job[g]
  BY <1>2 DEF IInv, TypeOK
<1>6. WriterInv'
  <2>1. \A g \in Requests : WritesBook(job[g])' <=> WritesBook(job'[g])
    BY DEF WritesBook
  <2>2. \A g \in Requests : Starting(job[g])' <=> Starting(job'[g])
    BY DEF Starting
  <2> QED
    BY <1>2, <1>3, <1>4, <1>5, <2>1, <2>2 DEF WriterInv
<1>7. ActsInv'
  <2>1. ASSUME NEW g \in Requests, job'[g].at \in {"number", "insert"}
        PROVE  g = h /\ \A b \in acts' : b.doc \notin job'[g].docs
    <3>1. g = h
      BY <1>3, <1>4, <1>5, <2>1 DEF WriterInv, WritesBook
    <3> QED
      BY <1>1, <1>3, <1>4, <1>5, <3>1 DEF ActsInv, InsertAct
  <2>2. ASSUME NEW b \in acts PROVE b.doc # a.doc /\ b.number # a.number
    <3>1. b.doc # a.doc /\ a.number = Cardinality(acts) + 1
      BY <1>1, <1>3 DEF ActsInv, InsertAct
    <3>2. b.number \in Nat /\ b.number <= Cardinality(acts) /\ Cardinality(acts) \in Nat
      BY CountType DEF IInv, TypeOK, Acts, NumberInv
    <3> QED
      BY <3>1, <3>2
  <2> QED
    BY <1>1, <1>3, <1>4, <1>5, <2>1, <2>2 DEF ActsInv
<1> QED
  BY <1>6, <1>7

\* Every step keeps it.
LEMMA NextAlone == IInv /\ AloneInv /\ [Next]_vars => AloneInv'
<1> SUFFICES ASSUME IInv, AloneInv, [Next]_vars PROVE AloneInv'
  OBVIOUS
<1>1. ASSUME NEW h \in Requests, RequestStep(h) PROVE AloneInv'
  BY <1>1, ArrivalsAlone, EntriesAlone, SyncAlone, InsertAlone DEF RequestStep
<1>2. CASE DocumentStep \/ UNCHANGED vars
  <2>1. UNCHANGED <<enb, acts, pending, job, crowded>>
    BY <1>2 DEF DocumentStep, entryVars, historyVars, vars
  <2> QED
    BY <2>1 DEF AloneInv, WriterInv, ActsInv, WritesBook, Starting
<1> QED
  BY <1>1, <1>2 DEF Next

\* It holds for ever.
LEMMA Alone == Spec => []AloneInv
  BY Invariance, InitAlone, NextAlone, PTL DEF Spec

\* A completed book has no unsigned entry as long as no two requests that write the
\* book overlap, whatever crashes and whoever signs meanwhile (maybeCompleteSigning).
THEOREM CompletedSigned == Spec => []CompletedIsSigned
<1>1. AloneInv => CompletedIsSigned
  BY DEF AloneInv, WriterInv, CompletedIsSigned
<1> QED
  BY <1>1, Alone, PTL

\* ... and then the acts, looked up, counted and inserted in three statements, are one
\* of each document at most, and no two share a number (syncActsFromEndedMeeting).
THEOREM OneAct == Spec => []OneActPerDocument
<1>1. AloneInv => OneActPerDocument
  BY DEF AloneInv, ActsInv, OneActPerDocument
<1> QED
  BY <1>1, Alone, PTL
=============================================================================
