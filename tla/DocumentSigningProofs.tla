------------------------- MODULE DocumentSigningProofs -------------------------
(***************************************************************************)
(* For any signers, requests and assignments, with every overlap and       *)
(* crash: a signature is given to the row the signer read.  As long as no  *)
(* other request overlaps an assignment, signatures are given in order and *)
(* a project is completed on all of them; as long as no two requests that  *)
(* write the PDF overlap either, the stored PDF bears them.                *)
(***************************************************************************)
EXTENDS DocumentSigning, FiniteSetTheorems, SequenceTheorems, TLAPS

USE SigningAssumption

Rows == [Signers -> [id : Nat, order : Nat, signed : BOOLEAN]]
Jobs == Assigning \cup Signing \cup Sealing \cup Replacing \cup Other

FlagsOK ==
    /\ inSession \in BOOLEAN /\ booked \in BOOLEAN
    /\ completed \in BOOLEAN /\ plotted \in BOOLEAN
    /\ crossed \in BOOLEAN /\ doubled \in BOOLEAN

DataOK ==
    /\ row \in Rows /\ assigned \in 0..MaxAssignments
    /\ fields \in SUBSET Signers /\ stamps \in SUBSET Signers /\ file \in Files
    /\ job \in [Requests -> Jobs]

\* An assignment has rows left to insert, and a signature goes to a row there was.
JobOK(j) ==
    /\ j.at \in {"ensure", "delete", "insert"} => j.list # <<>>
    /\ j.at = "sign" => j.id # 0

JobInv == \A h \in Requests : JobOK(job[h])

\* A row that exists has the id of its assignment.
RowInv == \A s \in Signers : row[s].id = 0 => row[s] = NoRow

IInv == DataOK /\ JobInv /\ RowInv

-----------------------------------------------------------------------------
(* The shapes of jobs *)

\* What a request remembers at each stage.
LEMMA JobKinds ==
    ASSUME NEW j \in Jobs
    PROVE  /\ j.at \in {"ensure", "delete", "insert"} =>
                 /\ j.list \in Seq(Signers) /\ j.id \in 1..MaxAssignments /\ j.order \in Nat
                 /\ j = [at |-> j.at, list |-> j.list, id |-> j.id, order |-> j.order]
           /\ j.at \in {"reread", "sign"} => j.who \in Signers
           /\ j.at = "sign" => j.id \in Nat /\ j = [at |-> "sign", who |-> j.who, id |-> j.id]
           /\ j.at \in {"stamp", "save"} => j.todo \in SUBSET Signers
           /\ j.at \in {"stamp", "save", "link"} => j.force \in BOOLEAN
           /\ j.at = "save" => j.who \in Signers /\ j.pdf \in SUBSET Signers
           /\ j.at = "link" => j.upload \in Files
           /\ j.at = "replace" => j.signers \in SUBSET Signers
  BY DEF Jobs, Assigning, Signing, Sealing, Replacing, Other

\* The jobs that remember nothing.
LEMMA PlainJobs ==
    /\ Idle \in Jobs /\ Idle.at = "idle" /\ JobOK(Idle)
    /\ \A a \in {"plot", "mark", "force"} : [at |-> a] \in Jobs /\ JobOK([at |-> a])
  BY DEF Idle, Jobs, Other, JobOK

\* The insertion that follows the insertion of a row.
LEMMA NextInsert ==
    ASSUME NEW j \in Assigning, NEW rest \in Seq(Signers)
    PROVE  [j EXCEPT !.list = rest, !.order = @ + 1] =
              [at |-> j.at, list |-> rest, id |-> j.id, order |-> j.order + 1]
<1> DEFINE k == [j EXCEPT !.list = rest]
<1>1. k = [at |-> j.at, list |-> rest, id |-> j.id, order |-> j.order]
  BY DEF Assigning
<1> HIDE DEF k
<1>2. [k EXCEPT !.order = j.order + 1] =
         [at |-> j.at, list |-> rest, id |-> j.id, order |-> j.order + 1]
  BY <1>1 DEF Assigning
<1> QED
  BY <1>2 DEF k

\* A signing order has a first signer.
LEMMA OrderType ==
    ASSUME NEW q \in Orders
    PROVE  q \in Seq(Signers) /\ q # <<>>
<1>1. Cardinality(Signers) \in Nat
  BY FS_CardinalityType
<1>2. PICK n \in 1..Cardinality(Signers) : q \in [1..n -> Signers]
  BY DEF Orders
<1>3. n \in Nat /\ 1 \in 1..n
  BY <1>1, <1>2
<1>4. q \in Seq(Signers)
  BY <1>2, <1>3, SeqDef
<1>5. DOMAIN q = 1..n /\ DOMAIN <<>> = {}
  BY <1>2
<1> QED
  BY <1>3, <1>4, <1>5

\* Moving one request on replaces its job by another of the right type.
LEMMA JobMoved ==
    ASSUME job \in [Requests -> Jobs], NEW h \in Requests, NEW j \in Jobs,
           job' = [job EXCEPT ![h] = j]
    PROVE  /\ job' \in [Requests -> Jobs]
           /\ job'[h] = j
           /\ \A g \in Requests : g # h => job'[g] = job[g]
  OBVIOUS

\* The initial states satisfy the invariant.
LEMMA InitIInv == Init => IInv
<1> SUFFICES ASSUME Init PROVE IInv
  OBVIOUS
<1>1. row \in Rows /\ RowInv
  BY DEF Init, Rows, RowInv, NoRow
<1>2. job \in [Requests -> Jobs] /\ JobInv
  BY PlainJobs DEF Init, JobInv, JobOK
<1>3. file \in Files
  BY DEF Init, Files
<1> QED
  BY <1>1, <1>2, <1>3 DEF Init, IInv, DataOK

-----------------------------------------------------------------------------
(* Each action keeps the invariant *)

\* A step that moves one request on and writes what has its type.
LEMMA MoveKeeps ==
    ASSUME IInv, NEW h \in Requests, NEW j \in Jobs, JobOK(j),
           job' = [job EXCEPT ![h] = j],
           row' \in Rows, RowInv', assigned' \in 0..MaxAssignments,
           fields' \in SUBSET Signers, stamps' \in SUBSET Signers, file' \in Files
    PROVE  IInv'
<1>1. JobInv'
  BY JobMoved DEF IInv, DataOK, JobInv, JobOK
<1> QED
  BY <1>1, JobMoved DEF IInv, DataOK

\* A step that only moves one request on.
LEMMA ReadKeeps ==
    ASSUME IInv, NEW h \in Requests, NEW j \in Jobs, JobOK(j),
           job' = [job EXCEPT ![h] = j],
           UNCHANGED <<row, assigned, fields, stamps, file>>
    PROVE  IInv'
<1>1. RowInv' /\ row' \in Rows
  BY DEF IInv, DataOK, RowInv
<1> QED
  BY <1>1, MoveKeeps DEF IInv, DataOK

\* A request has a job of its stage's shape.
LEMMA JobAt ==
    ASSUME IInv, NEW h \in Requests
    PROVE  job[h] \in Jobs /\ JobOK(job[h])
  BY DEF IInv, DataOK, JobInv

\* setMeetingDocumentSigners
LEMMA AssignKeeps ==
    ASSUME IInv, NEW h \in Requests,
           \/ \E q \in Orders : CheckAssign(h, q)
           \/ EnsureProject(h) \/ DeleteRows(h) \/ InsertRow(h)
    PROVE  IInv'
<1>0. row \in Rows /\ RowInv
  BY DEF IInv, DataOK
<1>1. ASSUME NEW q \in Orders, CheckAssign(h, q) PROVE IInv'
  <2> DEFINE j == [at |-> IF plotted THEN "delete" ELSE "ensure", list |-> q,
                   id |-> assigned + 1, order |-> 1]
  <2>1. assigned' \in 1..MaxAssignments /\ assigned' = assigned + 1
    BY <1>1 DEF CheckAssign, IInv, DataOK
  <2>2. j \in Jobs /\ JobOK(j)
    BY <2>1, OrderType DEF Jobs, Assigning, JobOK
  <2>3. job' = [job EXCEPT ![h] = j]
    BY <1>1, <2>1 DEF CheckAssign, Arrive
  <2> HIDE DEF j
  <2>4. RowInv' /\ row' \in Rows
    BY <1>0, <1>1 DEF CheckAssign, RowInv
  <2>5. assigned' \in 0..MaxAssignments /\ UNCHANGED <<fields, stamps, file>>
    BY <1>1, <2>1 DEF CheckAssign, projectVars, pdfVars
  <2> QED
    BY <2>2, <2>3, <2>4, <2>5, MoveKeeps DEF IInv, DataOK
<1>2. CASE EnsureProject(h)
  <2> DEFINE j == [job[h] EXCEPT !.at = "delete"]
  <2>1. /\ job[h].list \in Seq(Signers) /\ job[h].list # <<>> /\ job[h].id \in 1..MaxAssignments
        /\ job[h].order \in Nat
        /\ job[h] = [at |-> "ensure", list |-> job[h].list, id |-> job[h].id,
                     order |-> job[h].order]
    BY <1>2, JobAt, JobKinds DEF EnsureProject, JobOK
  <2>2. j = [at |-> "delete", list |-> job[h].list, id |-> job[h].id, order |-> job[h].order]
    BY <2>1
  <2>3. j \in Jobs /\ JobOK(j)
    BY <2>1, <2>2 DEF Jobs, Assigning, JobOK
  <2>4. ToSet(job[h].list) \in SUBSET Signers
    BY <2>1 DEF ToSet
  <2>5. RowInv' /\ row' \in Rows
    BY <1>0, <1>2 DEF EnsureProject, rowVars, RowInv
  <2>6. job' = [job EXCEPT ![h] = j]
    BY <1>2 DEF EnsureProject, Goto
  <2> HIDE DEF j
  <2> QED
    BY <1>2, <2>3, <2>4, <2>5, <2>6, MoveKeeps
    DEF EnsureProject, FreshProject, rowVars, IInv, DataOK
<1>3. CASE DeleteRows(h)
  <2> DEFINE j == [job[h] EXCEPT !.at = "insert"]
  <2>1. /\ job[h].list \in Seq(Signers) /\ job[h].list # <<>> /\ job[h].id \in 1..MaxAssignments
        /\ job[h].order \in Nat
        /\ job[h] = [at |-> "delete", list |-> job[h].list, id |-> job[h].id,
                     order |-> job[h].order]
    BY <1>3, JobAt, JobKinds DEF DeleteRows, JobOK
  <2>2. j = [at |-> "insert", list |-> job[h].list, id |-> job[h].id, order |-> job[h].order]
    BY <2>1
  <2>3. j \in Jobs /\ JobOK(j)
    BY <2>1, <2>2 DEF Jobs, Assigning, JobOK
  <2>4. RowInv' /\ row' \in Rows
    BY <1>3 DEF DeleteRows, RowInv, Rows, NoRow
  <2>5. job' = [job EXCEPT ![h] = j]
    BY <1>3 DEF DeleteRows, Goto
  <2> HIDE DEF j
  <2> QED
    BY <1>3, <2>3, <2>4, <2>5, MoveKeeps DEF DeleteRows, projectVars, pdfVars, IInv, DataOK
<1>4. CASE InsertRow(h)
  <2> DEFINE s == Head(job[h].list)
             rest == Tail(job[h].list)
             r == [id |-> job[h].id, order |-> job[h].order, signed |-> FALSE]
             j == [job[h] EXCEPT !.list = rest, !.order = @ + 1]
  <2>1. /\ job[h].list \in Seq(Signers) /\ job[h].list # <<>> /\ job[h].id \in 1..MaxAssignments
        /\ job[h].order \in Nat
        /\ job[h] = [at |-> "insert", list |-> job[h].list, id |-> job[h].id,
                     order |-> job[h].order]
    BY <1>4, JobAt, JobKinds DEF InsertRow, JobOK
  <2>2. s \in Signers /\ rest \in Seq(Signers)
    BY <2>1, HeadTailProperties
  <2>3. j = [at |-> "insert", list |-> rest, id |-> job[h].id, order |-> job[h].order + 1]
    <3>1. job[h] \in Assigning /\ job[h].at = "insert"
      BY <1>4, <2>1 DEF InsertRow, Assigning
    <3> QED
      BY <2>2, <3>1, NextInsert, Zenon
  <2> HIDE DEF j
  <2>4. rest # <<>> => j \in Jobs /\ JobOK(j)
    BY <2>1, <2>2, <2>3 DEF Jobs, Assigning, JobOK
  <2>5. row' = row \/ row' = [row EXCEPT ![s] = r]
    BY <1>4 DEF InsertRow
  <2>6. RowInv' /\ row' \in Rows
    <3>1. r \in [id : Nat, order : Nat, signed : BOOLEAN] /\ r.id # 0
      BY <2>1
    <3> HIDE DEF r, s
    <3> QED
      BY <1>0, <2>2, <2>5, <3>1 DEF RowInv, Rows
  <2>7. job' = [job EXCEPT ![h] = Idle] \/ (rest # <<>> /\ job' = [job EXCEPT ![h] = j])
    BY <1>4, Zenon DEF InsertRow, Done, Goto, j
  <2>8. UNCHANGED <<assigned, fields, stamps, file>>
    BY <1>4 DEF InsertRow, projectVars, pdfVars
  <2> HIDE DEF j, r, s, rest
  <2> QED
    BY <2>4, <2>6, <2>7, <2>8, PlainJobs, MoveKeeps DEF IInv, DataOK
<1> QED
  BY <1>1, <1>2, <1>3, <1>4

\* markMeetingDocumentPlotted and markSignedForCurrentUser
LEMMA SignerKeeps ==
    ASSUME IInv, NEW h \in Requests,
           \/ CheckPlot(h) \/ RereadRow(h) \/ SignRow(h)
           \/ \E F \in SUBSET Signers : WritePlot(h, F)
           \/ \E s \in Signers : CheckTurn(h, s)
    PROVE  IInv'
<1>0. row \in Rows /\ RowInv
  BY DEF IInv, DataOK
<1>1. CASE CheckPlot(h)
  BY <1>1, PlainJobs, ReadKeeps DEF CheckPlot, Arrive, rowVars, projectVars, pdfVars
<1>2. ASSUME NEW F \in SUBSET Signers, WritePlot(h, F) PROVE IInv'
  <2>1. RowInv' /\ row' \in Rows
    BY <1>0, <1>2 DEF WritePlot, rowVars, RowInv
  <2>2. fields' \in SUBSET Signers
    BY <1>2 DEF WritePlot, IInv, DataOK
  <2> QED
    BY <1>2, <2>1, <2>2, PlainJobs, MoveKeeps
    DEF WritePlot, Done, Goto, rowVars, pdfVars, IInv, DataOK
<1>3. ASSUME NEW s \in Signers, CheckTurn(h, s) PROVE IInv'
  <2> DEFINE j == [at |-> "reread", who |-> s]
  <2>1. j \in Jobs /\ JobOK(j)
    BY DEF Jobs, Signing, JobOK
  <2> QED
    BY <1>3, <2>1, ReadKeeps DEF CheckTurn, Arrive, rowVars, projectVars, pdfVars
<1>4. CASE RereadRow(h)
  <2> DEFINE s == job[h].who
             j == [at |-> "sign", who |-> s, id |-> row[s].id]
  <2>1. s \in Signers
    BY <1>4, JobAt, JobKinds DEF RereadRow
  <2>2. row[s] # NoRow => j \in Jobs /\ JobOK(j)
    BY <1>0, <2>1 DEF Jobs, Signing, JobOK, Rows, RowInv
  <2>3. job' = [job EXCEPT ![h] = Idle] \/ (row[s] # NoRow /\ job' = [job EXCEPT ![h] = j])
    BY <1>4 DEF RereadRow, Done, Goto
  <2> HIDE DEF j
  <2> QED
    BY <1>4, <2>2, <2>3, PlainJobs, ReadKeeps DEF RereadRow, rowVars, projectVars, pdfVars
<1>5. CASE SignRow(h)
  <2> DEFINE s == job[h].who
  <2>1. s \in Signers /\ job[h].id # 0
    BY <1>5, JobAt, JobKinds DEF SignRow, JobOK
  <2>2. row' = IF row[s].id = job[h].id THEN [row EXCEPT ![s].signed = TRUE] ELSE row
    BY <1>5 DEF SignRow
  <2>3. RowInv' /\ row' \in Rows
    BY <1>0, <2>1, <2>2 DEF RowInv, Rows
  <2> QED
    BY <1>5, <2>3, PlainJobs, MoveKeeps
    DEF SignRow, Done, Goto, projectVars, pdfVars, IInv, DataOK
<1> QED
  BY <1>1, <1>2, <1>3, <1>4, <1>5

\* generateMeetingDocumentPlotLink
LEMMA PlotLinkKeeps ==
    ASSUME IInv, NEW h \in Requests, CheckPlotLink(h) \/ ReplaceProject(h)
    PROVE  IInv'
<1>1. CASE CheckPlotLink(h)
  <2> DEFINE j == [at |-> "replace", signers |-> Assigned]
  <2>1. j \in Jobs /\ JobOK(j)
    BY DEF Jobs, Replacing, Assigned, JobOK
  <2> QED
    BY <1>1, <2>1, ReadKeeps DEF CheckPlotLink, Arrive, rowVars, projectVars, pdfVars
<1>2. CASE ReplaceProject(h)
  <2>1. job[h].signers \in SUBSET Signers
    BY <1>2, JobAt, JobKinds DEF ReplaceProject
  <2>2. RowInv' /\ row' \in Rows
    BY <1>2 DEF ReplaceProject, rowVars, IInv, DataOK, RowInv
  <2> QED
    BY <1>2, <2>1, <2>2, PlainJobs, MoveKeeps
    DEF ReplaceProject, FreshProject, Done, Goto, rowVars, IInv, DataOK
<1> QED
  BY <1>1, <1>2

\* A set of signers is a PDF that can be stored.
LEMMA FileTypes == {} \in Files /\ \A pdf \in SUBSET Signers : {pdf} \in Files
  BY DEF Files

\* After a finalization the request ends, or sets the status itself.
LEMMA AfterSealGoes ==
    ASSUME NEW h \in Requests, AfterSeal(h)
    PROVE  \E j \in Jobs : /\ j.at \in {"force", "idle"} /\ JobOK(j)
                           /\ job' = [job EXCEPT ![h] = j]
<1>1. CASE job[h].force
  BY <1>1, PlainJobs DEF AfterSeal, Goto
<1>2. CASE ~job[h].force
  BY <1>2, PlainJobs DEF AfterSeal, Done, Goto
<1> QED
  BY <1>1, <1>2

\* checkAndFinalizeSignatures
LEMMA SealKeeps ==
    ASSUME IInv, NEW h \in Requests,
           \/ \E force \in BOOLEAN : CheckSeal(h, force)
           \/ \E s \in Signers : StampSignature(h, s)
           \/ SavePdf(h) \/ UploadPdf(h) \/ CompleteProject(h) \/ ForceComplete(h)
    PROVE  IInv'
<1>0. row \in Rows /\ RowInv
  BY DEF IInv, DataOK
<1>1. ASSUME NEW force \in BOOLEAN, CheckSeal(h, force) PROVE IInv'
  <2> DEFINE j == [at |-> "stamp", todo |-> Assigned, force |-> force]
  <2>1. j \in Jobs /\ JobOK(j)
    BY DEF Jobs, Sealing, Assigned, JobOK
  <2> QED
    BY <1>1, <2>1, ReadKeeps DEF CheckSeal, Arrive, rowVars, projectVars, pdfVars
<1>2. ASSUME NEW s \in Signers, StampSignature(h, s) PROVE IInv'
  <2> DEFINE j == [at |-> "save", todo |-> job[h].todo \ {s}, force |-> job[h].force,
                   who |-> s, pdf |-> stamps]
  <2>1. job[h].todo \in SUBSET Signers /\ job[h].force \in BOOLEAN
    BY <1>2, JobAt, JobKinds DEF StampSignature
  <2>2. j \in Jobs /\ JobOK(j)
    BY <2>1 DEF Jobs, Sealing, JobOK, IInv, DataOK
  <2>3. UNCHANGED <<row, assigned, fields, stamps, file>>
    BY <1>2 DEF StampSignature, rowVars, projectVars, pdfVars
  <2>4. CASE s \in fields
    <3>1. job' = [job EXCEPT ![h] = j]
      BY <1>2, <2>4 DEF StampSignature, Goto
    <3> HIDE DEF j
    <3> QED
      BY <2>2, <2>3, <3>1, ReadKeeps
  <2>5. CASE s \notin fields
    BY <1>2, <2>3, <2>5, AfterSealGoes, ReadKeeps DEF StampSignature
  <2> QED
    BY <2>4, <2>5
<1>3. CASE SavePdf(h)
  <2> DEFINE j == [at |-> "stamp", todo |-> job[h].todo, force |-> job[h].force]
  <2>1. /\ job[h].todo \in SUBSET Signers /\ job[h].force \in BOOLEAN
        /\ job[h].who \in Signers /\ job[h].pdf \in SUBSET Signers
    BY <1>3, JobAt, JobKinds DEF SavePdf
  <2>2. j \in Jobs /\ JobOK(j)
    BY <2>1 DEF Jobs, Sealing, JobOK
  <2>3. RowInv' /\ row' \in Rows
    BY <1>0, <1>3 DEF SavePdf, rowVars, RowInv
  <2>4. job' = [job EXCEPT ![h] = j] /\ stamps' \in SUBSET Signers
    BY <1>3, <2>1 DEF SavePdf, Goto
  <2>5. UNCHANGED <<assigned, fields, file>>
    BY <1>3 DEF SavePdf, rowVars, projectVars
  <2> HIDE DEF j
  <2> QED
    BY <2>2, <2>3, <2>4, <2>5, MoveKeeps DEF IInv, DataOK
<1>4. CASE UploadPdf(h)
  <2>1. PICK u \in {{}, {stamps}} :
          Goto(h, [at |-> "link", force |-> job[h].force, upload |-> u])
    BY <1>4 DEF UploadPdf
  <2> DEFINE j == [at |-> "link", force |-> job[h].force, upload |-> u]
  <2>2. job[h].force \in BOOLEAN /\ u \in Files
    BY <1>4, JobAt, JobKinds, FileTypes DEF UploadPdf, IInv, DataOK
  <2>3. j \in Jobs /\ JobOK(j)
    BY <2>2 DEF Jobs, Sealing, JobOK
  <2> QED
    BY <1>4, <2>1, <2>3, ReadKeeps DEF UploadPdf, Goto, rowVars, projectVars, pdfVars
<1>5. CASE CompleteProject(h)
  <2>1. file' \in Files /\ AfterSeal(h)
    BY <1>5, JobAt, JobKinds DEF CompleteProject
  <2>2. RowInv' /\ row' \in Rows
    BY <1>0, <1>5 DEF CompleteProject, rowVars, RowInv
  <2>3. UNCHANGED <<assigned, fields, stamps>>
    BY <1>5 DEF CompleteProject, rowVars
  <2> QED
    BY <2>1, <2>2, <2>3, AfterSealGoes, MoveKeeps DEF IInv, DataOK
<1>6. CASE ForceComplete(h)
  <2>1. job' = [job EXCEPT ![h] = Idle]
    BY <1>6 DEF ForceComplete, Done, Goto
  <2>2. UNCHANGED <<row, assigned, fields, stamps, file>>
    BY <1>6 DEF ForceComplete, rowVars, pdfVars
  <2> QED
    BY <2>1, <2>2, PlainJobs, ReadKeeps
<1> QED
  BY <1>1, <1>2, <1>3, <1>4, <1>5, <1>6

\* The end of the meeting, and a crash.
LEMMA EndKeeps ==
    ASSUME IInv, NEW h \in Requests, EndMeeting(h) \/ CheckMark(h) \/ Abort(h)
    PROVE  IInv'
<1>1. UNCHANGED <<row, assigned, fields, stamps, file>>
  BY DEF EndMeeting, CheckMark, Abort, rowVars, projectVars, pdfVars
<1>2. CASE EndMeeting(h)
  BY <1>1, <1>2, PlainJobs, ReadKeeps DEF EndMeeting, Arrive
<1>3. CASE CheckMark(h)
  BY <1>1, <1>3, PlainJobs, ReadKeeps DEF CheckMark, Done, Goto
<1>4. CASE Abort(h)
  BY <1>1, <1>4, PlainJobs, ReadKeeps DEF Abort, Done, Goto
<1> QED
  BY <1>2, <1>3, <1>4

\* Every step keeps the invariant.
LEMMA NextKeeps == IInv /\ [Next]_vars => IInv'
<1> SUFFICES ASSUME IInv, [Next]_vars PROVE IInv'
  OBVIOUS
<1>1. CASE OpenBook \/ UNCHANGED vars
  <2>1. UNCHANGED <<row, assigned, fields, stamps, file, job>>
    BY <1>1 DEF OpenBook, rowVars, projectVars, pdfVars, vars
  <2> QED
    BY <2>1 DEF IInv, DataOK, JobInv, JobOK, RowInv
<1>2. ASSUME NEW h \in Requests, RequestStep(h) PROVE IInv'
  <2>1. CASE (\E q \in Orders : CheckAssign(h, q)) \/ EnsureProject(h) \/ DeleteRows(h)
             \/ InsertRow(h)
    BY <2>1, AssignKeeps
  <2>2. CASE \/ CheckPlot(h) \/ RereadRow(h) \/ SignRow(h)
             \/ \E F \in SUBSET Signers : WritePlot(h, F)
             \/ \E s \in Signers : CheckTurn(h, s)
    BY <2>2, SignerKeeps
  <2>3. CASE \/ \E force \in BOOLEAN : CheckSeal(h, force)
             \/ \E s \in Signers : StampSignature(h, s)
             \/ SavePdf(h) \/ UploadPdf(h) \/ CompleteProject(h) \/ ForceComplete(h)
    BY <2>3, SealKeeps
  <2>4. CASE EndMeeting(h) \/ CheckMark(h)
    BY <2>4, EndKeeps
  <2>5. CASE CheckPlotLink(h) \/ ReplaceProject(h)
    BY <2>5, PlotLinkKeeps
  <2> QED
    BY <1>2, <2>1, <2>2, <2>3, <2>4, <2>5, Zenon DEF RequestStep, Advance
<1>3. ASSUME NEW h \in Requests, Abort(h) PROVE IInv'
  BY <1>3, EndKeeps
<1> QED
  BY <1>1, <1>2, <1>3, Zenon DEF Next, NextWithoutCrash

\* The invariant holds for ever.
LEMMA Invariance == Spec => []IInv
  BY InitIInv, NextKeeps, PTL DEF Spec

-----------------------------------------------------------------------------
(* Types *)

\* The flags keep their type.
LEMMA FlagsKept == FlagsOK /\ [Next]_vars => FlagsOK'
<1> SUFFICES ASSUME FlagsOK, [Next]_vars PROVE FlagsOK'
  OBVIOUS
<1> USE DEF FlagsOK, meetingVars, rowVars, projectVars, pdfVars, raceVars
<1>1. ASSUME NEW h, NEW j, Arrive(h, j) PROVE crossed' \in BOOLEAN /\ doubled' \in BOOLEAN
  BY <1>1, Zenon DEF Arrive
<1>2. ASSUME NEW h, NEW j, Goto(h, j) PROVE crossed' \in BOOLEAN /\ doubled' \in BOOLEAN
  BY <1>2, Zenon DEF Goto
<1>3. ASSUME NEW h \in Requests,
             \/ \E q \in Orders : CheckAssign(h, q)
             \/ CheckPlotLink(h) \/ CheckPlot(h) \/ EndMeeting(h)
             \/ \E s \in Signers : CheckTurn(h, s)
             \/ \E force \in BOOLEAN : CheckSeal(h, force)
      PROVE  FlagsOK'
  BY <1>1, <1>3, Zenon DEF CheckAssign, CheckPlotLink, CheckPlot, EndMeeting, CheckTurn, CheckSeal
<1>4. ASSUME NEW h \in Requests, Advance(h) \/ Abort(h) PROVE FlagsOK'
  <2>1. CASE EnsureProject(h) \/ ReplaceProject(h) \/ DeleteRows(h) \/ InsertRow(h)
    BY <1>2, <2>1, Zenon
    DEF EnsureProject, ReplaceProject, FreshProject, DeleteRows, InsertRow, Done
  <2>2. CASE RereadRow(h) \/ SignRow(h) \/ \E F \in SUBSET Signers : WritePlot(h, F)
    BY <1>2, <2>2, Zenon DEF RereadRow, SignRow, WritePlot, Done
  <2>3. CASE SavePdf(h) \/ UploadPdf(h) \/ \E s \in Signers : StampSignature(h, s)
    BY <1>2, <2>3, Zenon DEF SavePdf, UploadPdf, StampSignature, AfterSeal, Done
  <2>4. CASE CompleteProject(h) \/ ForceComplete(h)
    BY <1>2, <2>4, Zenon DEF CompleteProject, ForceComplete, AfterSeal, Done
  <2>5. CASE CheckMark(h) \/ Abort(h)
    BY <1>2, <2>5, Zenon DEF CheckMark, Abort, Done
  <2> QED
    BY <1>4, <2>1, <2>2, <2>3, <2>4, <2>5, Zenon DEF Advance
<1>5. CASE OpenBook \/ UNCHANGED vars
  BY <1>5, Zenon DEF OpenBook, vars
<1> QED
  BY <1>3, <1>4, <1>5, Zenon DEF Next, NextWithoutCrash, RequestStep

\* Every variable keeps its type.
THEOREM TypeCorrect == Spec => []TypeOK
<1>1. Init => FlagsOK
  BY Zenon DEF Init, FlagsOK
<1>2. IInv /\ FlagsOK => TypeOK
  BY Zenon DEF IInv, DataOK, FlagsOK, TypeOK, Rows, Jobs
<1> QED
  BY <1>1, <1>2, FlagsKept, Invariance, PTL DEF Spec

-----------------------------------------------------------------------------
(* What a step does to the rows *)

\* A signature is given to the row that was read, which is there.
LEMMA RowSigned ==
    ASSUME IInv, NEW h \in Requests, SignRow(h)
    PROVE  \/ row' = row
           \/ LET s == job[h].who
              IN /\ s \in Assigned /\ row[s].id = job[h].id
                 /\ row' = [row EXCEPT ![s].signed = TRUE]
<1>1. job[h].who \in Signers /\ job[h].id # 0
  BY JobAt, JobKinds DEF SignRow, JobOK
<1> QED
  BY <1>1 DEF SignRow, Assigned, NoRow

\* A signature leaves the assignment and its order as they are, and unsigns nothing.
LEMMA SignedRows ==
    ASSUME IInv, NEW h \in Requests, SignRow(h)
    PROVE  /\ Assigned' = Assigned
           /\ \A s \in Signers : row'[s].order = row[s].order
           /\ \A s \in Signers : row[s].signed => row'[s].signed
           /\ \A s \in Signers : s # job[h].who => row'[s] = row[s]
<1>1. row \in Rows
  BY DEF IInv, DataOK
<1>2. CASE row' = row
  BY <1>2 DEF Assigned
<1>3. CASE LET s == job[h].who
           IN s \in Assigned /\ row' = [row EXCEPT ![s].signed = TRUE]
  <2> DEFINE w == job[h].who
  <2>1. w \in Signers /\ row[w] # NoRow /\ row' = [row EXCEPT ![w].signed = TRUE]
    BY <1>3 DEF Assigned
  <2> HIDE DEF w
  <2>2. \A s \in Signers : s # w => row'[s] = row[s]
    BY <1>1, <2>1 DEF Rows
  <2>3. /\ row'[w].order = row[w].order /\ row'[w].signed = TRUE
    BY <1>1, <2>1 DEF Rows
  <2>4. row'[w] # NoRow
    BY <2>3 DEF NoRow
  <2>5. Assigned' = Assigned
    BY <2>1, <2>2, <2>4 DEF Assigned
  <2> QED
    BY <2>2, <2>3, <2>5 DEF w
<1> QED
  BY <1>2, <1>3, RowSigned

\* The other steps of requests under way write no row, or are of an assignment.
LEMMA RowsStay ==
    ASSUME NEW h \in Requests, Advance(h) \/ Abort(h)
    PROVE  SignRow(h) \/ DeleteRows(h) \/ InsertRow(h) \/ UNCHANGED row
<1> USE DEF rowVars
<1>1. CASE \/ EnsureProject(h) \/ ReplaceProject(h) \/ RereadRow(h)
           \/ \E F \in SUBSET Signers : WritePlot(h, F)
  BY <1>1 DEF EnsureProject, ReplaceProject, RereadRow, WritePlot
<1>2. CASE SavePdf(h) \/ UploadPdf(h) \/ \E s \in Signers : StampSignature(h, s)
  BY <1>2 DEF SavePdf, UploadPdf, StampSignature
<1>3. CASE CompleteProject(h) \/ ForceComplete(h)
  BY <1>3 DEF CompleteProject, ForceComplete
<1>4. CASE CheckMark(h) \/ Abort(h)
  BY <1>4 DEF CheckMark, Abort
<1> QED
  BY <1>1, <1>2, <1>3, <1>4, Zenon DEF Advance

\* The arrivals write no row.
LEMMA ArrivalsWriteNoRow ==
    ASSUME NEW h \in Requests,
           \/ \E q \in Orders : CheckAssign(h, q)
           \/ CheckPlotLink(h) \/ CheckPlot(h) \/ EndMeeting(h)
           \/ \E s \in Signers : CheckTurn(h, s)
           \/ \E force \in BOOLEAN : CheckSeal(h, force)
    PROVE  UNCHANGED row
  BY DEF CheckAssign, CheckPlotLink, CheckPlot, EndMeeting, CheckTurn, CheckSeal, rowVars

\* A row is signed by the request that read it, under the id it read.
LEMMA SignedByReader ==
    ASSUME IInv, [Next]_vars, NEW s \in Signers, row'[s].signed, ~row[s].signed
    PROVE  \E h \in Requests : job[h] = [at |-> "sign", who |-> s, id |-> row[s].id]
<1>1. CASE OpenBook \/ UNCHANGED vars
  BY <1>1 DEF OpenBook, rowVars, vars
<1>2. ASSUME NEW h \in Requests, Advance(h) \/ Abort(h)
      PROVE  \E g \in Requests : job[g] = [at |-> "sign", who |-> s, id |-> row[s].id]
  <2>1. CASE SignRow(h)
    <3>1. job[h] = [at |-> "sign", who |-> job[h].who, id |-> job[h].id]
      BY <2>1, JobAt, JobKinds DEF SignRow
    <3>2. s = job[h].who /\ row' # row
      BY <2>1, SignedRows
    <3>3. row[s].id = job[h].id
      BY <2>1, <3>2, RowSigned
    <3> QED
      BY <3>1, <3>2, <3>3
  <2>2. CASE DeleteRows(h)
    BY <2>2 DEF DeleteRows, NoRow
  <2>3. CASE InsertRow(h)
    <3> DEFINE w == Head(job[h].list)
               r == [id |-> job[h].id, order |-> job[h].order, signed |-> FALSE]
    <3>1. row' = row \/ row' = [row EXCEPT ![w] = r]
      BY <2>3 DEF InsertRow
    <3>2. r.signed = FALSE /\ row \in Rows
      BY DEF IInv, DataOK
    <3> HIDE DEF w, r
    <3>3. row'[s] = row[s] \/ row'[s] = r
      BY <3>1, <3>2 DEF Rows
    <3> QED
      BY <3>2, <3>3
  <2> QED
    BY <1>2, <2>1, <2>2, <2>3, RowsStay
<1>3. ASSUME NEW h \in Requests, RequestStep(h), ~Advance(h)
      PROVE  UNCHANGED row
  BY <1>3, ArrivalsWriteNoRow, Zenon DEF RequestStep
<1> QED
  BY <1>1, <1>2, <1>3 DEF Next, NextWithoutCrash

\* A new assignment starts without signatures, whatever is in flight: the UPDATE of
\* markSignedForCurrentUser names the row by its id.
THEOREM SignatureOfItsRow == Spec => SignatureStaysWithItsRow
<1>1. IInv /\ [Next]_vars =>
        \A s \in Signers : row'[s].signed /\ ~row[s].signed =>
          \E h \in Requests : job[h] = [at |-> "sign", who |-> s, id |-> row[s].id]
  BY SignedByReader
<1> QED
  BY <1>1, Invariance, PTL DEF Spec, SignatureStaysWithItsRow

-----------------------------------------------------------------------------
(* As long as no other request overlaps an assignment *)

\* A signer whose turn it is.
TurnOK(s) == \A t \in Assigned : row[t].order < row[s].order => row[t].signed

\* What a request found is still so: its signer's turn, rows without signatures, or
\* rows that are all signed.
PlaceOK(j) ==
    /\ j.at \in {"reread", "sign"} => TurnOK(j.who)
    /\ j.at = "insert" => \A s \in Signers : ~row[s].signed
    /\ j.at \in {"stamp", "save", "link", "force"} => AllSigned

\* While a request assigns no other is under way.
OneAssigns == \A g, h \in Requests : Assigns(h) /\ Busy(g) => g = h

TurnsInOrder ==
    \A s, t \in Assigned : row[s].order < row[t].order /\ row[t].signed => row[s].signed

AloneInv ==
    ~crossed => /\ OneAssigns
                /\ TurnsInOrder
                /\ \A h \in Requests : PlaceOK(job[h])

\* At first nothing is under way.
LEMMA InitAlone == Init => AloneInv
  BY PlainJobs DEF Init, AloneInv, OneAssigns, Assigns, TurnsInOrder, PlaceOK, Assigned, NoRow

\* A step that writes no row keeps what was found.
LEMMA FoundStays ==
    ASSUME IInv, UNCHANGED row,
           TurnsInOrder, \A h \in Requests : PlaceOK(job[h]),
           NEW h \in Requests, NEW j \in Jobs, job' = [job EXCEPT ![h] = j], PlaceOK(j)
    PROVE  TurnsInOrder' /\ \A g \in Requests : PlaceOK(job[g])'
<1>1. Assigned' = Assigned /\ AllSigned' = AllSigned
  BY DEF Assigned, AllSigned
<1>2. job'[h] = j /\ \A g \in Requests : g # h => job'[g] = job[g]
  BY JobMoved DEF IInv, DataOK
<1>3. TurnsInOrder'
  BY <1>1 DEF TurnsInOrder
<1>4. ASSUME NEW g \in Requests PROVE PlaceOK(job[g])'
  <2>1. PlaceOK(job'[g])
    BY <1>2
  <2> QED
    BY <1>1, <2>1 DEF PlaceOK, TurnOK
<1> QED
  BY <1>3, <1>4

\* The arrival of a request, with what it found.
LEMMA ArriveAlone ==
    ASSUME IInv, AloneInv, UNCHANGED row,
           NEW h \in Requests, NEW j \in Jobs, Arrive(h, j),
           j.at # "insert", ~crossed => PlaceOK(j)
    PROVE  AloneInv'
<1> SUFFICES ASSUME ~crossed'
             PROVE  OneAssigns' /\ TurnsInOrder' /\ \A g \in Requests : PlaceOK(job[g])'
  BY DEF AloneInv
<1>1. /\ ~crossed /\ job' = [job EXCEPT ![h] = j]
      /\ \A g \in Requests \ {h} : ~Assigns(g) /\ (j.at \in {"ensure", "delete"} => ~Busy(g))
  BY DEF Arrive
<1>2. job'[h] = j /\ \A g \in Requests : g # h => job'[g] = job[g]
  BY <1>1, JobMoved DEF IInv, DataOK
<1>3. OneAssigns'
  BY <1>1, <1>2 DEF OneAssigns, Assigns, Busy
<1>4. TurnsInOrder' /\ \A g \in Requests : PlaceOK(job[g])'
  BY <1>1, FoundStays DEF AloneInv
<1> QED
  BY <1>3, <1>4

\* A statement of a request that writes no row.
LEMMA MoveAlone ==
    ASSUME IInv, AloneInv, UNCHANGED <<row, crossed>>,
           NEW h \in Requests, NEW j \in Jobs, Busy(h), job' = [job EXCEPT ![h] = j],
           j.at \in {"ensure", "delete", "insert"} => Assigns(h),
           ~crossed => PlaceOK(j)
    PROVE  AloneInv'
<1> SUFFICES ASSUME ~crossed'
             PROVE  OneAssigns' /\ TurnsInOrder' /\ \A g \in Requests : PlaceOK(job[g])'
  BY DEF AloneInv
<1>1. job'[h] = j /\ \A g \in Requests : g # h => job'[g] = job[g]
  BY JobMoved DEF IInv, DataOK
<1>2. OneAssigns'
  BY <1>1 DEF AloneInv, OneAssigns, Assigns, Busy
<1>3. TurnsInOrder' /\ \A g \in Requests : PlaceOK(job[g])'
  BY FoundStays DEF AloneInv
<1> QED
  BY <1>2, <1>3

\* The arrivals.
LEMMA ArrivalsAlone ==
    ASSUME IInv, AloneInv, NEW h \in Requests,
           \/ \E q \in Orders : CheckAssign(h, q)
           \/ CheckPlotLink(h) \/ CheckPlot(h) \/ EndMeeting(h)
           \/ \E s \in Signers : CheckTurn(h, s)
           \/ \E force \in BOOLEAN : CheckSeal(h, force)
    PROVE  AloneInv'
<1>0. UNCHANGED row
  BY ArrivalsWriteNoRow
<1>1. ASSUME NEW q \in Orders, CheckAssign(h, q) PROVE AloneInv'
  <2> DEFINE j == [at |-> IF plotted THEN "delete" ELSE "ensure", list |-> q,
                   id |-> assigned', order |-> 1]
  <2>1. assigned' \in 1..MaxAssignments
    BY <1>1 DEF CheckAssign, IInv, DataOK
  <2>2. j \in Jobs /\ j.at \in {"ensure", "delete"}
    BY <2>1, OrderType DEF Jobs, Assigning
  <2>3. Arrive(h, j)
    BY <1>1 DEF CheckAssign
  <2> HIDE DEF j
  <2> QED
    BY <1>0, <2>2, <2>3, ArriveAlone DEF PlaceOK
<1>2. CASE CheckPlot(h)
  BY <1>0, <1>2, PlainJobs, ArriveAlone DEF CheckPlot, PlaceOK
<1>3. CASE EndMeeting(h)
  BY <1>0, <1>3, PlainJobs, ArriveAlone DEF EndMeeting, PlaceOK
<1>4. ASSUME NEW s \in Signers, CheckTurn(h, s) PROVE AloneInv'
  <2> DEFINE j == [at |-> "reread", who |-> s]
  <2>1. j \in Jobs /\ j.at = "reread" /\ j.who = s
    BY DEF Jobs, Signing
  <2>2. Arrive(h, j) /\ TurnOK(s)
    BY <1>4 DEF CheckTurn, TurnOK
  <2> HIDE DEF j
  <2> QED
    BY <1>0, <2>1, <2>2, ArriveAlone DEF PlaceOK
<1>5. ASSUME NEW force \in BOOLEAN, CheckSeal(h, force) PROVE AloneInv'
  <2> DEFINE j == [at |-> "stamp", todo |-> Assigned, force |-> force]
  <2>1. j \in Jobs /\ j.at = "stamp"
    BY DEF Jobs, Sealing, Assigned
  <2>2. Arrive(h, j) /\ AllSigned
    BY <1>5 DEF CheckSeal
  <2> HIDE DEF j
  <2> QED
    BY <1>0, <2>1, <2>2, ArriveAlone DEF PlaceOK
<1>6. CASE CheckPlotLink(h)
  <2> DEFINE j == [at |-> "replace", signers |-> Assigned]
  <2>1. j \in Jobs /\ j.at = "replace"
    BY DEF Jobs, Replacing, Assigned
  <2>2. Arrive(h, j)
    BY <1>6 DEF CheckPlotLink
  <2> HIDE DEF j
  <2> QED
    BY <1>0, <2>1, <2>2, ArriveAlone DEF PlaceOK
<1> QED
  BY <1>1, <1>2, <1>3, <1>4, <1>5, <1>6

\* Where a statement that writes no row takes its request.
LEMMA AdvanceGoes ==
    ASSUME IInv, NEW h \in Requests, Advance(h) \/ Abort(h), ~DeleteRows(h), ~InsertRow(h)
    PROVE  /\ Busy(h) /\ UNCHANGED <<crossed, doubled>>
           /\ \E j \in Jobs :
                /\ job' = [job EXCEPT ![h] = j]
                /\ \/ j.at = "idle"
                   \/ j.at = "delete" /\ Assigns(h)
                   \/ j.at = "sign" /\ job[h].at = "reread" /\ j.who = job[h].who
                   \/ j.at \in {"stamp", "save", "link", "force"} /\ Seals(h)
                   \/ j.at = "force" /\ job[h].at = "mark" /\ AllSigned
<1> DEFINE Goes == \E j \in Jobs :
                /\ job' = [job EXCEPT ![h] = j]
                /\ \/ j.at = "idle"
                   \/ j.at = "delete" /\ Assigns(h)
                   \/ j.at = "sign" /\ job[h].at = "reread" /\ j.who = job[h].who
                   \/ j.at \in {"stamp", "save", "link", "force"} /\ Seals(h)
                   \/ j.at = "force" /\ job[h].at = "mark" /\ AllSigned
<1>0. ASSUME job' = [job EXCEPT ![h] = Idle] PROVE Goes
  BY <1>0, PlainJobs
<1>1. CASE EnsureProject(h)
  <2>1. job[h] \in Jobs /\ job[h].at = "ensure"
    BY <1>1, JobAt DEF EnsureProject
  <2> DEFINE j == [job[h] EXCEPT !.at = "delete"]
  <2>2. j = [at |-> "delete", list |-> job[h].list, id |-> job[h].id, order |-> job[h].order]
    BY <2>1, JobKinds
  <2>3. j \in Jobs /\ j.at = "delete" /\ Assigns(h)
    BY <2>1, <2>2, JobKinds DEF Jobs, Assigning, Assigns
  <2>4. job' = [job EXCEPT ![h] = j]
    BY <1>1 DEF EnsureProject, Goto
  <2> HIDE DEF j
  <2>5. Busy(h) /\ UNCHANGED <<crossed, doubled>>
    BY <1>1 DEF EnsureProject, Goto, raceVars, Busy, Idle
  <2> QED
    BY <2>3, <2>4, <2>5
<1>2. CASE \/ SignRow(h) \/ ReplaceProject(h) \/ ForceComplete(h) \/ Abort(h)
           \/ \E F \in SUBSET Signers : WritePlot(h, F)
  <2>1. Busy(h) /\ UNCHANGED <<crossed, doubled>> /\ job' = [job EXCEPT ![h] = Idle]
    BY <1>2 DEF SignRow, ReplaceProject, ForceComplete, Abort, WritePlot, Done, Goto, raceVars,
        Busy, Idle
  <2> QED
    BY <1>0, <2>1
<1>3. CASE RereadRow(h)
  <2>1. Busy(h) /\ UNCHANGED <<crossed, doubled>>
    BY <1>3 DEF RereadRow, Done, Goto, raceVars, Busy, Idle
  <2> DEFINE j == [at |-> "sign", who |-> job[h].who, id |-> row[job[h].who].id]
  <2>2. j \in Jobs /\ j.at = "sign" /\ j.who = job[h].who /\ job[h].at = "reread"
    BY <1>3, JobAt, JobKinds DEF RereadRow, Jobs, Signing, IInv, DataOK, Rows
  <2>3. job' = [job EXCEPT ![h] = Idle] \/ job' = [job EXCEPT ![h] = j]
    BY <1>3 DEF RereadRow, Done, Goto
  <2> HIDE DEF j
  <2> QED
    BY <1>0, <2>1, <2>2, <2>3
<1>4. ASSUME job[h].at \in {"stamp", "save", "link"}, AfterSeal(h)
      PROVE  Goes /\ UNCHANGED <<crossed, doubled>>
  <2>1. UNCHANGED <<crossed, doubled>>
    BY <1>4 DEF AfterSeal, Done, Goto, raceVars
  <2> QED
    BY <1>4, <2>1, AfterSealGoes DEF Seals
<1>5. ASSUME NEW s \in Signers, StampSignature(h, s)
      PROVE  Goes /\ Busy(h) /\ UNCHANGED <<crossed, doubled>>
  <2> DEFINE j == [at |-> "save", todo |-> job[h].todo \ {s}, force |-> job[h].force,
                   who |-> s, pdf |-> stamps]
  <2>1. job[h].todo \in SUBSET Signers /\ job[h].force \in BOOLEAN /\ job[h].at = "stamp"
    BY <1>5, JobAt, JobKinds DEF StampSignature
  <2>2. j \in Jobs /\ j.at = "save" /\ Seals(h) /\ Busy(h)
    BY <2>1 DEF Jobs, Sealing, IInv, DataOK, Seals, Busy, Idle
  <2>3. AfterSeal(h) \/ (job' = [job EXCEPT ![h] = j] /\ UNCHANGED <<crossed, doubled>>)
    BY <1>5 DEF StampSignature, Goto, raceVars
  <2> HIDE DEF j
  <2> QED
    BY <1>4, <2>1, <2>2, <2>3
<1>6. CASE SavePdf(h)
  <2> DEFINE j == [at |-> "stamp", todo |-> job[h].todo, force |-> job[h].force]
  <2>1. j \in Jobs /\ j.at = "stamp" /\ Seals(h) /\ Busy(h)
    BY <1>6, JobAt, JobKinds DEF SavePdf, Jobs, Sealing, Seals, Busy, Idle
  <2>2. job' = [job EXCEPT ![h] = j] /\ UNCHANGED <<crossed, doubled>>
    BY <1>6 DEF SavePdf, Goto, raceVars
  <2> HIDE DEF j
  <2> QED
    BY <2>1, <2>2
<1>7. CASE UploadPdf(h)
  <2>1. PICK u \in {{}, {stamps}} :
          Goto(h, [at |-> "link", force |-> job[h].force, upload |-> u])
    BY <1>7 DEF UploadPdf
  <2> DEFINE j == [at |-> "link", force |-> job[h].force, upload |-> u]
  <2>2. u \in Files
    BY FileTypes DEF IInv, DataOK
  <2>3. j \in Jobs /\ j.at = "link" /\ Seals(h) /\ Busy(h)
    BY <1>7, <2>2, JobAt, JobKinds DEF UploadPdf, Jobs, Sealing, Seals, Busy, Idle
  <2>4. job' = [job EXCEPT ![h] = j] /\ UNCHANGED <<crossed, doubled>>
    BY <2>1 DEF Goto, raceVars
  <2> HIDE DEF j
  <2> QED
    BY <2>3, <2>4
<1>8. CASE CompleteProject(h)
  <2>1. job[h].at = "link" /\ AfterSeal(h) /\ Busy(h)
    BY <1>8 DEF CompleteProject, Busy, Idle
  <2> QED
    BY <1>4, <2>1
<1>9. CASE CheckMark(h)
  <2>1. Busy(h) /\ UNCHANGED <<crossed, doubled>> /\ job[h].at = "mark"
    BY <1>9 DEF CheckMark, Done, Goto, raceVars, Busy, Idle
  <2>2. \/ job' = [job EXCEPT ![h] = Idle]
        \/ AllSigned /\ job' = [job EXCEPT ![h] = [at |-> "force"]]
    BY <1>9 DEF CheckMark, Done, Goto
  <2> QED
    BY <1>0, <2>1, <2>2, PlainJobs
<1> QED
  BY <1>1, <1>2, <1>3, <1>5, <1>6, <1>7, <1>8, <1>9, Zenon DEF Advance

\* A statement that writes no row.
LEMMA AdvanceAlone ==
    ASSUME IInv, AloneInv, NEW h \in Requests, Advance(h) \/ Abort(h), UNCHANGED row,
           ~DeleteRows(h), ~InsertRow(h)
    PROVE  AloneInv'
<1>1. Busy(h) /\ UNCHANGED <<crossed, doubled>>
  BY AdvanceGoes
<1>2. PICK j \in Jobs :
        /\ job' = [job EXCEPT ![h] = j]
        /\ \/ j.at = "idle"
           \/ j.at = "delete" /\ Assigns(h)
           \/ j.at = "sign" /\ job[h].at = "reread" /\ j.who = job[h].who
           \/ j.at \in {"stamp", "save", "link", "force"} /\ Seals(h)
           \/ j.at = "force" /\ job[h].at = "mark" /\ AllSigned
  BY AdvanceGoes
<1>3. ~crossed => PlaceOK(job[h])
  BY DEF AloneInv
<1>4. ~crossed => PlaceOK(j)
  BY <1>2, <1>3 DEF PlaceOK, Seals
<1> QED
  BY <1>1, <1>2, <1>4, MoveAlone

\* A signature is given in turn, to rows that others only read.
LEMMA SignAlone ==
    ASSUME IInv, AloneInv, NEW h \in Requests, SignRow(h)
    PROVE  AloneInv'
<1> SUFFICES ASSUME ~crossed'
             PROVE  OneAssigns' /\ TurnsInOrder' /\ \A g \in Requests : PlaceOK(job[g])'
  BY DEF AloneInv
<1>1. /\ ~crossed /\ job' = [job EXCEPT ![h] = Idle] /\ Busy(h)
      /\ job[h].at = "sign"
  BY DEF SignRow, Done, Goto, raceVars, Busy, Idle
<1>2. OneAssigns /\ TurnsInOrder /\ \A g \in Requests : PlaceOK(job[g])
  BY <1>1 DEF AloneInv
<1>3. /\ Assigned' = Assigned
      /\ \A s \in Signers : row'[s].order = row[s].order
      /\ \A s \in Signers : row[s].signed => row'[s].signed
      /\ \A s \in Signers : s # job[h].who => row'[s] = row[s]
  BY SignedRows
<1>4. job'[h] = Idle /\ \A g \in Requests : g # h => job'[g] = job[g]
  BY <1>1, PlainJobs, JobMoved DEF IInv, DataOK
<1>5. OneAssigns'
  BY <1>2, <1>4, PlainJobs DEF OneAssigns, Assigns, Busy
<1>6. Assigned \subseteq Signers
  BY DEF Assigned
<1>7. TurnOK(job[h].who)
  BY <1>1, <1>2 DEF PlaceOK
<1>8. TurnsInOrder'
  <2> SUFFICES ASSUME NEW s \in Assigned, NEW t \in Assigned,
                      row'[s].order < row'[t].order, row'[t].signed
               PROVE  row'[s].signed
    BY <1>3 DEF TurnsInOrder
  <2>1. row[s].order < row[t].order
    BY <1>3, <1>6
  <2>2. CASE t = job[h].who
    BY <1>3, <1>6, <1>7, <2>1, <2>2 DEF TurnOK
  <2>3. CASE t # job[h].who
    BY <1>2, <1>3, <1>6, <2>1, <2>3 DEF TurnsInOrder
  <2> QED
    BY <2>2, <2>3
<1>9. ASSUME NEW g \in Requests PROVE PlaceOK(job[g])'
  <2>1. AllSigned => AllSigned'
    BY <1>3, <1>6 DEF AllSigned
  <2>2. CASE g = h
    BY <1>4, <2>2, PlainJobs DEF PlaceOK
  <2>3. CASE g # h
    <3>1. job'[g] = job[g] /\ PlaceOK(job[g]) /\ job[g] \in Jobs
      BY <1>2, <1>4, <2>3, JobAt
    <3>2. job[g].at \in {"reread", "sign"} => job[g].who \in Signers
      BY <3>1, JobKinds
    <3>3. job[g].at # "insert"
      BY <1>1, <1>2, <2>3 DEF OneAssigns, Assigns
    <3>4. ASSUME job[g].at \in {"reread", "sign"}, NEW t \in Assigned,
                 row'[t].order < row'[job[g].who].order
          PROVE  row'[t].signed
      <4>1. row[t].order < row[job[g].who].order
        BY <1>3, <1>6, <3>2, <3>4
      <4> QED
        BY <1>3, <1>6, <3>1, <3>4, <4>1 DEF PlaceOK, TurnOK
    <3> QED
      BY <1>3, <2>1, <3>1, <3>3, <3>4 DEF PlaceOK, TurnOK
  <2> QED
    BY <2>2, <2>3
<1> QED
  BY <1>5, <1>8, <1>9

\* An assignment is alone; the rows it makes are not signed.
LEMMA AssignAlone ==
    ASSUME IInv, AloneInv, NEW h \in Requests, DeleteRows(h) \/ InsertRow(h)
    PROVE  AloneInv'
<1> SUFFICES ASSUME ~crossed'
             PROVE  OneAssigns' /\ TurnsInOrder' /\ \A g \in Requests : PlaceOK(job[g])'
  BY DEF AloneInv
<1>1. ~crossed /\ Assigns(h) /\ Busy(h)
  BY DEF DeleteRows, InsertRow, Done, Goto, raceVars, Busy, Idle, Assigns
<1>2. \A g \in Requests : g # h => job[g] = Idle
  BY <1>1 DEF AloneInv, OneAssigns, Busy
<1>3. PICK j \in Jobs : job' = [job EXCEPT ![h] = j] /\ j.at \in {"insert", "idle"}
  <2>1. /\ job[h].list \in Seq(Signers) /\ job[h].list # <<>> /\ job[h].id \in 1..MaxAssignments
        /\ job[h].order \in Nat
        /\ job[h] = [at |-> job[h].at, list |-> job[h].list, id |-> job[h].id,
                     order |-> job[h].order]
    BY <1>1, JobAt, JobKinds DEF Assigns, JobOK
  <2>2. CASE DeleteRows(h)
    <3> DEFINE j == [job[h] EXCEPT !.at = "insert"]
    <3>1. j = [at |-> "insert", list |-> job[h].list, id |-> job[h].id, order |-> job[h].order]
      BY <2>1
    <3>2. job' = [job EXCEPT ![h] = j]
      BY <2>2 DEF DeleteRows, Goto
    <3> HIDE DEF j
    <3>3. j \in Jobs /\ j.at = "insert"
      BY <2>1, <3>1 DEF Jobs, Assigning
    <3> QED
      BY <3>2, <3>3
  <2>3. CASE InsertRow(h)
    <3> DEFINE rest == Tail(job[h].list)
               j == [job[h] EXCEPT !.list = rest, !.order = @ + 1]
    <3>1. rest \in Seq(Signers)
      BY <2>1, HeadTailProperties
    <3>2. job[h] \in Assigning
      BY <1>1, <2>1 DEF Assigning, Assigns
    <3>3. j = [at |-> job[h].at, list |-> rest, id |-> job[h].id, order |-> job[h].order + 1]
      BY <3>1, <3>2, NextInsert, Zenon
    <3>4. job' = [job EXCEPT ![h] = Idle] \/ job' = [job EXCEPT ![h] = j]
      BY <2>3, Zenon DEF InsertRow, Done, Goto
    <3>5. job[h].at = "insert"
      BY <2>3 DEF InsertRow
    <3> HIDE DEF j, rest
    <3>6. j \in Jobs /\ j.at = "insert"
      BY <2>1, <3>1, <3>3, <3>5 DEF Jobs, Assigning
    <3> QED
      BY <3>4, <3>6, PlainJobs
  <2> QED
    BY <2>2, <2>3
<1>4. job'[h] = j /\ \A g \in Requests : g # h => job'[g] = Idle
  BY <1>2, <1>3, JobMoved DEF IInv, DataOK
<1>5. OneAssigns'
  BY <1>4, PlainJobs DEF OneAssigns, Assigns, Busy
<1>6. \A s \in Signers : ~row'[s].signed
  <2>1. CASE DeleteRows(h)
    BY <2>1 DEF DeleteRows, NoRow
  <2>2. CASE InsertRow(h)
    <3> DEFINE w == Head(job[h].list)
               r == [id |-> job[h].id, order |-> job[h].order, signed |-> FALSE]
    <3>1. row' = row \/ row' = [row EXCEPT ![w] = r]
      BY <2>2 DEF InsertRow
    <3>2. r.signed = FALSE /\ row \in Rows
      BY DEF IInv, DataOK
    <3>3. \A s \in Signers : ~row[s].signed
      BY <1>1, <2>2 DEF AloneInv, PlaceOK, InsertRow
    <3> HIDE DEF w, r
    <3> QED
      BY <3>1, <3>2, <3>3 DEF Rows
  <2> QED
    BY <2>1, <2>2
<1>7. TurnsInOrder'
  BY <1>6 DEF TurnsInOrder, Assigned
<1>8. \A g \in Requests : PlaceOK(job[g])'
  BY <1>3, <1>4, <1>6, PlainJobs DEF PlaceOK
<1> QED
  BY <1>5, <1>7, <1>8

\* Every step keeps it.
LEMMA NextAlone == IInv /\ AloneInv /\ [Next]_vars => AloneInv'
<1> SUFFICES ASSUME IInv, AloneInv, [Next]_vars PROVE AloneInv'
  OBVIOUS
<1>1. CASE OpenBook \/ UNCHANGED vars
  <2>1. UNCHANGED <<row, job, crossed>>
    BY <1>1 DEF OpenBook, rowVars, raceVars, vars
  <2> QED
    BY <2>1 DEF AloneInv, OneAssigns, Assigns, Busy, TurnsInOrder, PlaceOK, TurnOK, AllSigned,
        Assigned
<1>2. ASSUME NEW h \in Requests, Advance(h) \/ Abort(h) PROVE AloneInv'
  BY <1>2, AssignAlone, SignAlone, AdvanceAlone, RowsStay
<1>3. ASSUME NEW h \in Requests, RequestStep(h), ~Advance(h) PROVE AloneInv'
  BY <1>3, ArrivalsAlone, Zenon DEF RequestStep
<1> QED
  BY <1>1, <1>2, <1>3 DEF Next, NextWithoutCrash

\* It holds for ever.
LEMMA Alone == Spec => []AloneInv
  BY Invariance, InitAlone, NextAlone, PTL DEF Spec

\* Whoever has signed, everyone before them has (assertMeetingSignerCanSignNow), as
\* long as no other request overlaps an assignment: between that check and the
\* signature any number of requests may sign.
THEOREM SignedInOrder == Spec => []InOrder
<1>1. AloneInv => InOrder
  BY DEF AloneInv, TurnsInOrder, InOrder
<1> QED
  BY <1>1, Alone, PTL

\* What completes a project.
LEMMA CompletedBySeal ==
    ASSUME [Next]_vars, completed', ~completed
    PROVE  \E h \in Requests : Seals(h) /\ UNCHANGED <<row, crossed>>
<1> USE DEF projectVars
<1>1. CASE OpenBook \/ UNCHANGED vars
  BY <1>1 DEF OpenBook, vars
<1>2. ASSUME NEW h \in Requests, Advance(h) \/ Abort(h)
      PROVE  Seals(h) /\ UNCHANGED <<row, crossed>>
  <2>1. CASE CompleteProject(h) \/ ForceComplete(h)
    BY <2>1 DEF CompleteProject, ForceComplete, AfterSeal, Done, Goto, raceVars, rowVars, Seals
  <2>2. CASE EnsureProject(h) \/ ReplaceProject(h) \/ DeleteRows(h) \/ InsertRow(h)
    BY <2>2 DEF EnsureProject, ReplaceProject, FreshProject, DeleteRows, InsertRow
  <2>3. CASE RereadRow(h) \/ SignRow(h) \/ \E F \in SUBSET Signers : WritePlot(h, F)
    BY <2>3 DEF RereadRow, SignRow, WritePlot
  <2>4. CASE SavePdf(h) \/ UploadPdf(h) \/ \E s \in Signers : StampSignature(h, s)
    BY <2>4 DEF SavePdf, UploadPdf, StampSignature
  <2>5. CASE CheckMark(h) \/ Abort(h)
    BY <2>5 DEF CheckMark, Abort
  <2> QED
    BY <1>2, <2>1, <2>2, <2>3, <2>4, <2>5, Zenon DEF Advance
<1>3. ASSUME NEW h \in Requests, RequestStep(h), ~Advance(h) PROVE FALSE
  <2>1. UNCHANGED completed
    BY <1>3 DEF RequestStep, CheckAssign, CheckPlotLink, CheckPlot, EndMeeting, CheckTurn,
        CheckSeal
  <2> QED
    BY <2>1
<1> QED
  BY <1>1, <1>2, <1>3 DEF Next, NextWithoutCrash

\* A project is completed on every assigned signer's signature, by a poll, by the PDF
\* view or by the end of the meeting (checkAndFinalizeSignatures and
\* markQuicksignProjectsCompletedWhenMeetingEnds).
THEOREM CompletedSigned == Spec => CompletedOnSignatures
<1>1. AloneInv /\ [Next]_vars => (~completed /\ completed' /\ ~crossed' => AllSigned)
  BY CompletedBySeal DEF AloneInv, PlaceOK, Seals
<1> QED
  BY <1>1, Alone, PTL DEF Spec, CompletedOnSignatures

-----------------------------------------------------------------------------
(* As long as no two requests that write the PDF overlap either *)

\* A finalization up to the update of the project.
Stamping(j) == j.at \in {"stamp", "save", "link"}

\* A finalization, or a plot link that makes the project anew.
Drawing(j) == Stamping(j) \/ j.at = "replace"

\* Whose stamp is not in the PDF yet is still to be stamped.
SealOK(j) ==
    /\ j.at = "stamp" => Assigned \subseteq stamps \cup j.todo
    /\ j.at = "save" => Assigned \subseteq j.pdf \cup {j.who} \cup j.todo
    /\ j.at = "link" => \A f \in j.upload : Assigned \subseteq f

SealInv ==
    ~crossed /\ ~doubled =>
        /\ \A g, h \in Requests : Drawing(job[g]) /\ Drawing(job[h]) => g = h
        /\ \A h \in Requests : SealOK(job[h])

\* At first nothing is under way.
LEMMA InitSeal == Init => SealInv
  BY PlainJobs DEF Init, SealInv, Drawing, Stamping, SealOK

\* A request that goes on to something that does not write the PDF disturbs none.
LEMMA OtherSeal ==
    ASSUME IInv, SealInv, NEW h \in Requests, NEW j \in Jobs, ~Drawing(j),
           job' = [job EXCEPT ![h] = j], crossed => crossed', doubled => doubled',
           Assigned' = Assigned, stamps' = stamps
    PROVE  SealInv'
<1> SUFFICES ASSUME ~crossed', ~doubled'
             PROVE  /\ \A g, k \in Requests : Drawing(job'[g]) /\ Drawing(job'[k]) => g = k
                    /\ \A g \in Requests : SealOK(job[g])'
  BY DEF SealInv, Drawing, Stamping
<1>1. job'[h] = j /\ \A g \in Requests : g # h => job'[g] = job[g]
  BY JobMoved DEF IInv, DataOK
<1>2. \A g, k \in Requests : Drawing(job[g]) /\ Drawing(job[k]) => g = k
  BY DEF SealInv
<1>3. ASSUME NEW g \in Requests PROVE SealOK(job[g])'
  BY <1>1 DEF SealInv, SealOK, Drawing, Stamping
<1> QED
  BY <1>1, <1>2, <1>3

\* The request that is alone in writing the PDF goes on.
LEMMA OwnSeal ==
    ASSUME IInv, SealInv, NEW h \in Requests, NEW j \in Jobs,
           job' = [job EXCEPT ![h] = j], crossed => crossed', doubled => doubled',
           ~crossed' /\ ~doubled' =>
               /\ \A g \in Requests : g # h => ~Drawing(job[g])
               /\ SealOK(j)'
    PROVE  SealInv'
<1> SUFFICES ASSUME ~crossed', ~doubled'
             PROVE  /\ \A g, k \in Requests : Drawing(job'[g]) /\ Drawing(job'[k]) => g = k
                    /\ \A g \in Requests : SealOK(job[g])'
  BY DEF SealInv, Drawing, Stamping
<1>1. job'[h] = j /\ \A g \in Requests : g # h => job'[g] = job[g] /\ ~Drawing(job[g])
  BY JobMoved DEF IInv, DataOK
<1>2. ASSUME NEW g \in Requests PROVE SealOK(job[g])'
  BY <1>1 DEF SealOK, Drawing, Stamping
<1> QED
  BY <1>1, <1>2

\* The arrivals: a finalization finds every stamp still to be made.
LEMMA ArrivalsSeal ==
    ASSUME IInv, SealInv, NEW h \in Requests,
           \/ \E q \in Orders : CheckAssign(h, q)
           \/ CheckPlotLink(h) \/ CheckPlot(h) \/ EndMeeting(h)
           \/ \E s \in Signers : CheckTurn(h, s)
           \/ \E force \in BOOLEAN : CheckSeal(h, force)
    PROVE  SealInv'
<1>0. Assigned' = Assigned /\ stamps' = stamps
  <2>1. UNCHANGED row
    BY ArrivalsWriteNoRow
  <2> QED
    BY <2>1 DEF Assigned, CheckAssign, CheckPlotLink, CheckPlot, EndMeeting, CheckTurn,
        CheckSeal, pdfVars
<1>1. ASSUME NEW j \in Jobs, Arrive(h, j), ~Drawing(j) PROVE SealInv'
  BY <1>0, <1>1, OtherSeal DEF Arrive
<1>2. ASSUME NEW q \in Orders, CheckAssign(h, q) PROVE SealInv'
  <2> DEFINE j == [at |-> IF plotted THEN "delete" ELSE "ensure", list |-> q,
                   id |-> assigned', order |-> 1]
  <2>1. assigned' \in 1..MaxAssignments
    BY <1>2 DEF CheckAssign, IInv, DataOK
  <2>2. j \in Jobs /\ ~Drawing(j)
    BY <2>1, OrderType DEF Jobs, Assigning, Drawing, Stamping
  <2>3. Arrive(h, j)
    BY <1>2 DEF CheckAssign
  <2> HIDE DEF j
  <2> QED
    BY <1>1, <2>2, <2>3
<1>3. CASE CheckPlot(h) \/ EndMeeting(h)
  BY <1>1, <1>3, PlainJobs DEF CheckPlot, EndMeeting, Drawing, Stamping
<1>4. ASSUME NEW s \in Signers, CheckTurn(h, s) PROVE SealInv'
  <2> DEFINE j == [at |-> "reread", who |-> s]
  <2>1. j \in Jobs /\ ~Drawing(j)
    BY DEF Jobs, Signing, Drawing, Stamping
  <2> QED
    BY <1>1, <1>4, <2>1 DEF CheckTurn
<1>5. ASSUME NEW force \in BOOLEAN, CheckSeal(h, force) PROVE SealInv'
  <2> DEFINE k == [at |-> "stamp", todo |-> Assigned, force |-> force]
  <2>0. k \in Jobs /\ k.at = "stamp" /\ k.todo = Assigned /\ Arrive(h, k)
    BY <1>5 DEF CheckSeal, Jobs, Sealing, Assigned
  <2> HIDE DEF k
  <2>1. PICK j \in Jobs : j.at = "stamp" /\ j.todo = Assigned /\ Arrive(h, j)
    BY <2>0
  <2>2. Arrive(h, j)
    BY <2>1
  <2>3. SealOK(j)'
    BY <1>0, <2>1 DEF SealOK
  <2>4. ~doubled' => \A g \in Requests : g # h => ~Drawing(job[g])
    BY <2>1, <2>2 DEF Arrive, WritesPdf, Seals, Drawing, Stamping
  <2> QED
    BY <2>1, <2>2, <2>3, <2>4, OwnSeal DEF Arrive
<1>6. CASE CheckPlotLink(h)
  <2> DEFINE k == [at |-> "replace", signers |-> Assigned]
  <2>0. k \in Jobs /\ k.at = "replace" /\ Arrive(h, k)
    BY <1>6 DEF CheckPlotLink, Jobs, Replacing, Assigned
  <2> HIDE DEF k
  <2>1. PICK j \in Jobs : j.at = "replace" /\ Arrive(h, j)
    BY <2>0
  <2>2. Arrive(h, j)
    BY <2>1
  <2>3. SealOK(j)'
    BY <2>1 DEF SealOK
  <2>4. ~doubled' => \A g \in Requests : g # h => ~Drawing(job[g])
    BY <2>1, <2>2 DEF Arrive, WritesPdf, Seals, Drawing, Stamping
  <2> QED
    BY <2>1, <2>2, <2>3, <2>4, OwnSeal DEF Arrive
<1> QED
  BY <1>2, <1>3, <1>4, <1>5, <1>6

\* A plot link that makes the project anew, alone in writing the PDF.
LEMMA ReplaceSeal ==
    ASSUME IInv, SealInv, NEW h \in Requests, ReplaceProject(h)
    PROVE  SealInv'
<1>1. job' = [job EXCEPT ![h] = Idle] /\ UNCHANGED <<crossed, doubled>>
  BY DEF ReplaceProject, Done, Goto, raceVars
<1>2. Drawing(job[h])
  BY DEF ReplaceProject, Drawing
<1>3. ~crossed' /\ ~doubled' => \A g \in Requests : g # h => ~Drawing(job[g])
  BY <1>1, <1>2 DEF SealInv
<1>4. SealOK(Idle)'
  BY PlainJobs DEF SealOK, Idle
<1> QED
  BY <1>1, <1>3, <1>4, PlainJobs, OwnSeal

\* The statements of a finalization up to the update of the project.
LEMMA StampsSeal ==
    ASSUME IInv, SealInv, NEW h \in Requests,
           \/ \E s \in Signers : StampSignature(h, s)
           \/ SavePdf(h) \/ UploadPdf(h) \/ CompleteProject(h)
    PROVE  SealInv'
<1>0. UNCHANGED <<row, crossed, doubled>> /\ Assigned' = Assigned
  <2>1. UNCHANGED <<row, crossed, doubled>>
    BY DEF StampSignature, SavePdf, UploadPdf, CompleteProject, AfterSeal, Done, Goto, raceVars,
        rowVars
  <2> QED
    BY <2>1 DEF Assigned
<1>1. Drawing(job[h])
  BY DEF StampSignature, SavePdf, UploadPdf, CompleteProject, Drawing, Stamping
<1>2. ~crossed' /\ ~doubled' =>
         SealOK(job[h]) /\ \A g \in Requests : g # h => ~Drawing(job[g])
  BY <1>0, <1>1 DEF SealInv
<1>3. ASSUME AfterSeal(h), stamps' = stamps PROVE SealInv'
  BY <1>0, <1>3, AfterSealGoes, OtherSeal DEF Drawing, Stamping
<1>4. ASSUME NEW s \in Signers, StampSignature(h, s) PROVE SealInv'
  <2> DEFINE k == [at |-> "save", todo |-> job[h].todo \ {s}, force |-> job[h].force,
                   who |-> s, pdf |-> stamps]
  <2>1. job[h].todo \in SUBSET Signers /\ job[h].force \in BOOLEAN /\ job[h].at = "stamp"
    BY <1>4, JobAt, JobKinds DEF StampSignature
  <2>0. /\ k \in Jobs /\ k.at = "save" /\ k.pdf = stamps /\ k.who = s
        /\ k.todo = job[h].todo \ {s}
        /\ (AfterSeal(h) /\ stamps' = stamps) \/ job' = [job EXCEPT ![h] = k]
    BY <1>4, <2>1 DEF StampSignature, Goto, pdfVars, Jobs, Sealing, IInv, DataOK
  <2> HIDE DEF k
  <2>2. PICK j \in Jobs :
          /\ j.at = "save" /\ j.pdf = stamps /\ j.who = s /\ j.todo = job[h].todo \ {s}
          /\ (AfterSeal(h) /\ stamps' = stamps) \/ job' = [job EXCEPT ![h] = j]
    BY <2>0
  <2>3. (AfterSeal(h) /\ stamps' = stamps) \/ job' = [job EXCEPT ![h] = j]
    BY <2>2
  <2>4. SealOK(job[h]) => SealOK(j)'
    BY <1>0, <2>1, <2>2 DEF SealOK
  <2> QED
    BY <1>0, <1>2, <1>3, <2>2, <2>3, <2>4, OwnSeal
<1>5. CASE SavePdf(h)
  <2> DEFINE k == [at |-> "stamp", todo |-> job[h].todo, force |-> job[h].force]
  <2>0. k \in Jobs /\ k.at = "stamp" /\ k.todo = job[h].todo /\ job' = [job EXCEPT ![h] = k]
    BY <1>5, JobAt, JobKinds DEF SavePdf, Goto, Jobs, Sealing
  <2> HIDE DEF k
  <2>1. PICK j \in Jobs : j.at = "stamp" /\ j.todo = job[h].todo /\ job' = [job EXCEPT ![h] = j]
    BY <2>0
  <2>2. job[h].at = "save" /\ stamps' = job[h].pdf \cup {job[h].who}
    BY <1>5 DEF SavePdf
  <2>3. SealOK(job[h]) => SealOK(j)'
    BY <1>0, <2>1, <2>2 DEF SealOK
  <2> QED
    BY <1>0, <1>2, <2>1, <2>3, OwnSeal
<1>6. CASE UploadPdf(h)
  <2>1. PICK u \in {{}, {stamps}} :
          Goto(h, [at |-> "link", force |-> job[h].force, upload |-> u])
    BY <1>6 DEF UploadPdf
  <2> DEFINE k == [at |-> "link", force |-> job[h].force, upload |-> u]
  <2>2. u \in Files
    BY FileTypes DEF IInv, DataOK
  <2>0. k \in Jobs /\ k.at = "link" /\ k.upload = u /\ job' = [job EXCEPT ![h] = k]
    BY <1>6, <2>1, <2>2, JobAt, JobKinds DEF UploadPdf, Goto, Jobs, Sealing
  <2> HIDE DEF k
  <2>3. PICK j \in Jobs : j.at = "link" /\ j.upload = u /\ job' = [job EXCEPT ![h] = j]
    BY <2>0
  <2>4. job[h].at = "stamp" /\ job[h].todo = {}
    BY <1>6 DEF UploadPdf
  <2>5. SealOK(job[h]) => SealOK(j)'
    BY <1>0, <2>1, <2>3, <2>4 DEF SealOK
  <2> QED
    BY <1>0, <1>2, <2>3, <2>5, OwnSeal
<1>7. CASE CompleteProject(h)
  BY <1>3, <1>7 DEF CompleteProject
<1> QED
  BY <1>4, <1>5, <1>6, <1>7

\* Every step keeps it.
LEMMA NextSeal == IInv /\ AloneInv /\ SealInv /\ [Next]_vars => SealInv'
<1> SUFFICES ASSUME IInv, AloneInv, SealInv, [Next]_vars PROVE SealInv'
  OBVIOUS
<1>1. CASE OpenBook \/ UNCHANGED vars
  <2>1. UNCHANGED <<row, job, stamps, crossed, doubled>>
    BY <1>1 DEF OpenBook, rowVars, pdfVars, raceVars, vars
  <2> QED
    BY <2>1 DEF SealInv, Drawing, Stamping, SealOK, Assigned
<1>2. ASSUME NEW h \in Requests, RequestStep(h), ~Advance(h) PROVE SealInv'
  BY <1>2, ArrivalsSeal, Zenon DEF RequestStep
<1>3. ASSUME NEW h \in Requests, Advance(h) \/ Abort(h) PROVE SealInv'
  <2>1. CASE SignRow(h) \/ ForceComplete(h) \/ Abort(h) \/ \E F \in SUBSET Signers : WritePlot(h, F)
    <3>1. /\ job' = [job EXCEPT ![h] = Idle] /\ UNCHANGED <<crossed, doubled, stamps>>
          /\ SignRow(h) \/ UNCHANGED row
      BY <2>1 DEF SignRow, ForceComplete, Abort, WritePlot, Done, Goto, raceVars, pdfVars, rowVars
    <3>2. Assigned' = Assigned
      BY <3>1, SignedRows DEF Assigned
    <3> QED
      BY <3>1, <3>2, PlainJobs, OtherSeal DEF Drawing, Stamping
  <2>2. CASE RereadRow(h) \/ CheckMark(h)
    <3>1. ~Seals(h) /\ UNCHANGED <<row, stamps>> /\ ~DeleteRows(h) /\ ~InsertRow(h)
      BY <2>2 DEF RereadRow, CheckMark, Seals, rowVars, pdfVars, DeleteRows, InsertRow
    <3>2. PICK j \in Jobs : job' = [job EXCEPT ![h] = j] /\ ~Drawing(j)
      BY <1>3, <3>1, AdvanceGoes DEF Drawing, Stamping
    <3>3. UNCHANGED <<crossed, doubled>> /\ Assigned' = Assigned
      BY <1>3, <3>1, AdvanceGoes DEF Assigned
    <3> QED
      BY <3>1, <3>2, <3>3, OtherSeal
  <2>3. CASE \/ \E s \in Signers : StampSignature(h, s)
             \/ SavePdf(h) \/ UploadPdf(h) \/ CompleteProject(h)
    BY <2>3, StampsSeal
  <2>4. CASE EnsureProject(h) \/ DeleteRows(h) \/ InsertRow(h)
    <3> SUFFICES ASSUME ~crossed'
                 PROVE  \A g \in Requests : job'[g].at \notin {"stamp", "save", "link", "replace"}
      BY DEF SealInv, Drawing, Stamping, SealOK
    <3>1. ~crossed /\ Assigns(h)
      BY <2>4 DEF EnsureProject, DeleteRows, InsertRow, Done, Goto, raceVars, Assigns
    <3>2. ~crossed' /\ AloneInv'
      BY NextAlone
    <3>3. \A g \in Requests : g # h => job[g] = Idle
      BY <3>1 DEF AloneInv, OneAssigns, Busy
    <3>4. \A g \in Requests : g # h => job'[g] = job[g]
      BY <2>4 DEF EnsureProject, DeleteRows, InsertRow, Done, Goto, IInv, DataOK
    <3>5. job'[h].at \in {"delete", "insert", "idle"}
      <4>1. job[h].at \in {"ensure", "delete", "insert"} /\ job[h] \in Jobs
        BY <3>1, JobAt DEF Assigns
      <4>2. job[h] = [at |-> job[h].at, list |-> job[h].list, id |-> job[h].id,
                      order |-> job[h].order]
        BY <4>1, JobKinds
      <4> QED
        BY <2>4, <4>1, <4>2, PlainJobs
        DEF EnsureProject, DeleteRows, InsertRow, Done, Goto, IInv, DataOK
    <3> QED
      BY <3>3, <3>4, <3>5, PlainJobs
  <2>5. CASE ReplaceProject(h)
    BY <2>5, ReplaceSeal
  <2> QED
    BY <1>3, <2>1, <2>2, <2>3, <2>4, <2>5, Zenon DEF Advance
<1> QED
  BY <1>1, <1>2, <1>3 DEF Next, NextWithoutCrash

\* It holds for ever.
LEMMA Sealed == Spec => []SealInv
  BY Invariance, Alone, InitSeal, NextSeal, PTL DEF Spec

\* Only the end of a finalization stores a PDF, the one it uploaded.
LEMMA StoredBySeal ==
    ASSUME [Next]_vars, file' # file
    PROVE  \E h \in Requests :
             job[h].at = "link" /\ file' = job[h].upload /\ UNCHANGED <<crossed, doubled>>
<1> USE DEF pdfVars
<1>1. CASE OpenBook \/ UNCHANGED vars
  BY <1>1 DEF OpenBook, vars
<1>2. ASSUME NEW h \in Requests, Advance(h) \/ Abort(h) PROVE CompleteProject(h)
  <2>1. CASE EnsureProject(h) \/ ReplaceProject(h) \/ DeleteRows(h) \/ InsertRow(h)
    BY <2>1 DEF EnsureProject, ReplaceProject, DeleteRows, InsertRow
  <2>2. CASE RereadRow(h) \/ SignRow(h) \/ \E F \in SUBSET Signers : WritePlot(h, F)
    BY <2>2 DEF RereadRow, SignRow, WritePlot
  <2>3. CASE SavePdf(h) \/ UploadPdf(h) \/ \E s \in Signers : StampSignature(h, s)
    BY <2>3 DEF SavePdf, UploadPdf, StampSignature
  <2>4. CASE ForceComplete(h) \/ CheckMark(h) \/ Abort(h)
    BY <2>4 DEF ForceComplete, CheckMark, Abort
  <2> QED
    BY <1>2, <2>1, <2>2, <2>3, <2>4, Zenon DEF Advance
<1>3. ASSUME NEW h \in Requests, CompleteProject(h)
      PROVE  job[h].at = "link" /\ file' = job[h].upload /\ UNCHANGED <<crossed, doubled>>
  BY <1>3 DEF CompleteProject, AfterSeal, Done, Goto, raceVars
<1>4. ASSUME NEW h \in Requests, RequestStep(h), ~Advance(h) PROVE FALSE
  <2>1. UNCHANGED file
    BY <1>4 DEF RequestStep, CheckAssign, CheckPlotLink, CheckPlot, EndMeeting, CheckTurn,
        CheckSeal
  <2> QED
    BY <2>1
<1> QED
  BY <1>1, <1>2, <1>3, <1>4 DEF Next, NextWithoutCrash

\* The PDF that is stored bears the stamp of every assigned signer, though stamps are
\* read, made and saved one by one (stampSignature) and a plot link puts the original back
\* (generateMeetingDocumentPlotLink), as long as no two of these overlap: until a
\* finalization ends, whose stamp is missing is still to be stamped.
THEOREM StoredWhole == Spec => StoredPdfIsWhole
<1>1. SealInv /\ [Next]_vars =>
        (file' # file /\ ~crossed' /\ ~doubled' => \A f \in file' : Assigned \subseteq f)
  BY StoredBySeal DEF SealInv, SealOK
<1> QED
  BY <1>1, Sealed, PTL DEF Spec, StoredPdfIsWhole
=============================================================================
