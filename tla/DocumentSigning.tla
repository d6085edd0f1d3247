---------------------------- MODULE DocumentSigning ----------------------------
(***************************************************************************)
(* The signatures on one document of a meeting: MeetingSignersService's    *)
(* assignment of signers, plot links, plotting, signing in turn and        *)
(* finalization, and what the end of the meeting does to the project.      *)
(* Assumption: nobody works on the project of a meeting through            *)
(* QuickSign's own pages, whose stampSignature, saveSignatureFields and    *)
(* completePlotting take the id of any project of the notary.              *)
(*                                                                         *)
(* Nothing runs in a transaction, so each statement of a request is an     *)
(* action.  Every participant's browser polls the signer list every four   *)
(* seconds, and the poll is what finalizes: several finalizations of one   *)
(* document run at once.  The copy of the signers in quicksign_signers     *)
(* (names and emails) is left out; every signature comes with its image.   *)
(***************************************************************************)
EXTENDS Naturals, FiniteSets, SequencesExt

CONSTANTS
    Signers,          \* the participants who may be assigned
    Notary,           \* the ENP, one of them
    Requests,         \* concurrent requests on the document
    MaxAssignments    \* bound on calls of setMeetingDocumentSigners

ASSUME SigningAssumption ==
    /\ Notary \in Signers
    /\ IsFiniteSet(Signers)
    /\ MaxAssignments \in Nat

VARIABLES
    inSession,   \* appointments.status = "in_session"
    booked,      \* the notarial book was opened with this document notarized
    row,         \* meeting_signature_requests of the document, by signer
    assigned,    \* assignment calls so far; a row's id is the call it is from
    completed,   \* quicksign_projects.status = "completed"
    plotted,     \* plotCompletedAt is set
    fields,      \* signers with a field in signatureFields
    stamps,      \* signers whose image the local PDF bears
    file,        \* the PDF behind notarizedFileObjectId: {its stamps}, or {} when null
    job,         \* what each request is doing
    crossed,     \* history: another request overlapped an assignment
    doubled      \* history: two requests that write the PDF overlapped

vars == <<inSession, booked, row, assigned, completed, plotted, fields, stamps,
          file, job, crossed, doubled>>

NoRow == [id |-> 0, order |-> 0, signed |-> FALSE]
Idle == [at |-> "idle"]

\* Signing orders: no signer twice, and someone besides the notary.
Orders == {q \in UNION {[1..n -> Signers] : n \in 1..Cardinality(Signers)} :
              IsInjective(q) /\ ToSet(q) # {Notary}}

\* No PDF, or one, known by the stamps it bears.
Files == {{}} \cup {{pdf} : pdf \in SUBSET Signers}

Assigning == [at : {"ensure", "delete", "insert"}, list : Seq(Signers),
              id : 1..MaxAssignments, order : Nat]
Signing == [at : {"reread"}, who : Signers]
           \cup [at : {"sign"}, who : Signers, id : Nat]
Sealing == [at : {"stamp"}, todo : SUBSET Signers, force : BOOLEAN]
           \cup [at : {"save"}, todo : SUBSET Signers, force : BOOLEAN,
                 who : Signers, pdf : SUBSET Signers]
           \cup [at : {"link"}, force : BOOLEAN, upload : Files]
Replacing == [at : {"replace"}, signers : SUBSET Signers]
Other == [at : {"idle", "plot", "mark", "force"}]

TypeOK ==
    /\ inSession \in BOOLEAN /\ booked \in BOOLEAN
    /\ row \in [Signers -> [id : Nat, order : Nat, signed : BOOLEAN]]
    /\ assigned \in 0..MaxAssignments
    /\ completed \in BOOLEAN /\ plotted \in BOOLEAN
    /\ fields \in SUBSET Signers /\ stamps \in SUBSET Signers
    /\ file \in Files
    /\ job \in [Requests -> Assigning \cup Signing \cup Sealing \cup Replacing \cup Other]
    /\ crossed \in BOOLEAN /\ doubled \in BOOLEAN

Init ==
    /\ inSession = TRUE /\ booked = FALSE
    /\ row = [s \in Signers |-> NoRow]
    /\ assigned = 0
    /\ completed = FALSE /\ plotted = FALSE
    /\ fields = {} /\ stamps = {}
    /\ file = {}
    /\ job = [h \in Requests |-> Idle]
    /\ crossed = FALSE /\ doubled = FALSE

meetingVars == <<inSession, booked>>
rowVars == <<row, assigned>>
projectVars == <<completed, plotted, fields>>
pdfVars == <<stamps, file>>
raceVars == <<crossed, doubled>>

Assigned == {s \in Signers : row[s] # NoRow}
AllSigned == Assigned # {} /\ \A s \in Assigned : row[s].signed

Busy(h) == job[h] # Idle
Assigns(h) == job[h].at \in {"ensure", "delete", "insert"}
Seals(h) == job[h].at \in {"stamp", "save", "link", "force"}
WritesPdf(h) == Seals(h) \/ job[h].at = "replace"

\* Request h arrives and j is what it does next.
Arrive(h, j) ==
    /\ ~Busy(h)
    /\ job' = [job EXCEPT ![h] = j]
    /\ crossed' = (crossed \/ \E g \in Requests \ {h} :
                      Assigns(g) \/ (Busy(g) /\ j.at \in {"ensure", "delete"}))
    /\ doubled' = (doubled \/ (j.at \in {"stamp", "replace"}
                                 /\ \E g \in Requests \ {h} : WritesPdf(g)))

Goto(h, j) == job' = [job EXCEPT ![h] = j] /\ UNCHANGED raceVars
Done(h) == Goto(h, Idle)

-----------------------------------------------------------------------------
(* setMeetingDocumentSigners *)

CheckAssign(h, q) ==
    /\ inSession
    /\ assigned < MaxAssignments
    /\ assigned' = assigned + 1
    /\ Arrive(h, [at |-> IF plotted THEN "delete" ELSE "ensure", list |-> q,
                  id |-> assigned', order |-> 1])
    /\ UNCHANGED meetingVars /\ UNCHANGED row
    /\ UNCHANGED projectVars /\ UNCHANGED pdfVars

\* ensureDoconchainProjectForSignerAssignment: the original PDF again, default fields
\* and the status pending_signatures (the file and the row, taken as one step).
FreshProject(S) ==
    /\ stamps' = {}
    /\ fields' = S
    /\ completed' = FALSE

EnsureProject(h) ==
    /\ job[h].at = "ensure"
    /\ FreshProject(ToSet(job[h].list))
    /\ Goto(h, [job[h] EXCEPT !.at = "delete"])
    /\ UNCHANGED meetingVars /\ UNCHANGED rowVars /\ UNCHANGED <<plotted, file>>

DeleteRows(h) ==
    /\ job[h].at = "delete"
    /\ row' = [s \in Signers |-> NoRow]
    /\ Goto(h, [job[h] EXCEPT !.at = "insert"])
    /\ UNCHANGED assigned
    /\ UNCHANGED meetingVars /\ UNCHANGED projectVars /\ UNCHANGED pdfVars

\* One insert per signer; a second row for the same signer breaks the unique
\* index and throws.
InsertRow(h) ==
    /\ job[h].at = "insert"
    /\ LET s == Head(job[h].list)
           rest == Tail(job[h].list)
       IN IF row[s] = NoRow
          THEN /\ row' = [row EXCEPT ![s] =
                            [id |-> job[h].id, order |-> job[h].order, signed |-> FALSE]]
               /\ IF rest = <<>> THEN Done(h)
                  ELSE Goto(h, [job[h] EXCEPT !.list = rest, !.order = @ + 1])
          ELSE Done(h) /\ UNCHANGED row
    /\ UNCHANGED assigned
    /\ UNCHANGED meetingVars /\ UNCHANGED projectVars /\ UNCHANGED pdfVars

-----------------------------------------------------------------------------
(* generateMeetingDocumentPlotLink, also asked for by initiateMeetingSigning *)

CheckPlotLink(h) ==
    /\ inSession
    /\ Assigned # {}
    /\ ~plotted
    /\ Arrive(h, [at |-> "replace", signers |-> Assigned])
    /\ UNCHANGED meetingVars /\ UNCHANGED rowVars
    /\ UNCHANGED projectVars /\ UNCHANGED pdfVars

\* The project is made anew by what was read, although it may be plotted and signed by now.
ReplaceProject(h) ==
    /\ job[h].at = "replace"
    /\ FreshProject(job[h].signers)
    /\ Done(h)
    /\ UNCHANGED meetingVars /\ UNCHANGED rowVars /\ UNCHANGED <<plotted, file>>

-----------------------------------------------------------------------------
(* markMeetingDocumentPlotted *)

CheckPlot(h) ==
    /\ inSession
    /\ Assigned # {}
    /\ Arrive(h, [at |-> "plot"])
    /\ UNCHANGED meetingVars /\ UNCHANGED rowVars
    /\ UNCHANGED projectVars /\ UNCHANGED pdfVars

\* A completed project goes back to pending_signatures; F is what the plotting
\* page sends, nothing keeps the stored fields.
WritePlot(h, F) ==
    /\ job[h].at = "plot"
    /\ plotted' = TRUE
    /\ completed' = FALSE
    /\ fields' = IF F = {} THEN fields ELSE F
    /\ Done(h)
    /\ UNCHANGED meetingVars /\ UNCHANGED rowVars /\ UNCHANGED pdfVars

-----------------------------------------------------------------------------
(* markSignedForCurrentUser *)

\* Mutant: forgets to ask whether earlier signers are done.
CheckTurn_AnyTurn(h, s) ==
    /\ plotted \/ s = Notary
    /\ row[s] # NoRow /\ ~row[s].signed
    /\ Arrive(h, [at |-> "reread", who |-> s])
    /\ UNCHANGED meetingVars /\ UNCHANGED rowVars
    /\ UNCHANGED projectVars /\ UNCHANGED pdfVars

\* assertMeetingSignerCanSignNow.  Whether the meeting is in session is not asked.
CheckTurn(h, s) ==
    /\ plotted \/ s = Notary
    /\ row[s] # NoRow /\ ~row[s].signed
    /\ \A t \in Assigned : row[t].order < row[s].order => row[t].signed
    /\ Arrive(h, [at |-> "reread", who |-> s])
    /\ UNCHANGED meetingVars /\ UNCHANGED rowVars
    /\ UNCHANGED projectVars /\ UNCHANGED pdfVars

\* The signer's own row is read again for its id.
RereadRow(h) ==
    /\ job[h].at = "reread"
    /\ LET s == job[h].who
       IN IF row[s] # NoRow /\ ~row[s].signed
          THEN Goto(h, [at |-> "sign", who |-> s, id |-> row[s].id])
          ELSE Done(h)
    /\ UNCHANGED meetingVars /\ UNCHANGED rowVars
    /\ UNCHANGED projectVars /\ UNCHANGED pdfVars

\* Mutant: updates the signer's row of the document instead of the row it read.
SignRow_BySigner(h) ==
    /\ job[h].at = "sign"
    /\ LET s == job[h].who
       IN row' = IF row[s] # NoRow THEN [row EXCEPT ![s].signed = TRUE] ELSE row
    /\ Done(h)
    /\ UNCHANGED assigned
    /\ UNCHANGED meetingVars /\ UNCHANGED projectVars /\ UNCHANGED pdfVars

\* UPDATE by row id: a row deleted meanwhile is not found, which is no error.
SignRow(h) ==
    /\ job[h].at = "sign"
    /\ LET s == job[h].who
       IN row' = IF row[s].id = job[h].id THEN [row EXCEPT ![s].signed = TRUE] ELSE row
    /\ Done(h)
    /\ UNCHANGED assigned
    /\ UNCHANGED meetingVars /\ UNCHANGED projectVars /\ UNCHANGED pdfVars

-----------------------------------------------------------------------------
(* checkAndFinalizeSignatures, from the poll (listMeetingDocumentSigners) and
   from the PDF view (streamMeetingDocumentNotarizedPdf) *)

\* The PDF view sets the status itself afterwards, finalized or not: force.
CheckSeal(h, force) ==
    /\ AllSigned
    /\ ~completed
    /\ Arrive(h, [at |-> "stamp", todo |-> Assigned, force |-> force])
    /\ UNCHANGED meetingVars /\ UNCHANGED rowVars
    /\ UNCHANGED projectVars /\ UNCHANGED pdfVars

AfterSeal(h) == IF job[h].force THEN Goto(h, [at |-> "force"]) ELSE Done(h)

\* Mutant: passes over a signer without a field.
StampSignature_Skips(h, s) ==
    /\ job[h].at = "stamp"
    /\ s \in job[h].todo
    /\ IF s \in fields
       THEN Goto(h, [at |-> "save", todo |-> job[h].todo \ {s}, force |-> job[h].force,
                     who |-> s, pdf |-> stamps])
       ELSE Goto(h, [job[h] EXCEPT !.todo = @ \ {s}])
    /\ UNCHANGED meetingVars /\ UNCHANGED rowVars
    /\ UNCHANGED projectVars /\ UNCHANGED pdfVars

\* stampSignature reads the PDF; a signer without a field makes it throw.
StampSignature(h, s) ==
    /\ job[h].at = "stamp"
    /\ s \in job[h].todo
    /\ IF s \in fields
       THEN Goto(h, [at |-> "save", todo |-> job[h].todo \ {s}, force |-> job[h].force,
                     who |-> s, pdf |-> stamps])
       ELSE AfterSeal(h)
    /\ UNCHANGED meetingVars /\ UNCHANGED rowVars
    /\ UNCHANGED projectVars /\ UNCHANGED pdfVars

SavePdf(h) ==
    /\ job[h].at = "save"
    /\ stamps' = job[h].pdf \cup {job[h].who}
    /\ Goto(h, [at |-> "stamp", todo |-> job[h].todo, force |-> job[h].force])
    /\ UNCHANGED meetingVars /\ UNCHANGED rowVars
    /\ UNCHANGED projectVars /\ UNCHANGED file

\* The upload may fail, which is logged and passed over.
UploadPdf(h) ==
    /\ job[h].at = "stamp"
    /\ job[h].todo = {}
    /\ \E u \in {{}, {stamps}} :
          Goto(h, [at |-> "link", force |-> job[h].force, upload |-> u])
    /\ UNCHANGED meetingVars /\ UNCHANGED rowVars
    /\ UNCHANGED projectVars /\ UNCHANGED pdfVars

\* Mutant: leaves the project pending when the upload has failed.
CompleteProject_NeedsUpload(h) ==
    /\ job[h].at = "link"
    /\ completed' = (completed \/ job[h].upload # {})
    /\ file' = job[h].upload
    /\ AfterSeal(h)
    /\ UNCHANGED meetingVars /\ UNCHANGED rowVars
    /\ UNCHANGED <<plotted, fields, stamps>>

CompleteProject(h) ==
    /\ job[h].at = "link"
    /\ completed' = TRUE
    /\ file' = job[h].upload
    /\ AfterSeal(h)
    /\ UNCHANGED meetingVars /\ UNCHANGED rowVars
    /\ UNCHANGED <<plotted, fields, stamps>>

\* The PDF view's own UPDATE, and that of the end of the meeting.
ForceComplete(h) ==
    /\ job[h].at = "force"
    /\ completed' = TRUE
    /\ Done(h)
    /\ UNCHANGED meetingVars /\ UNCHANGED rowVars
    /\ UNCHANGED <<plotted, fields>> /\ UNCHANGED pdfVars

-----------------------------------------------------------------------------
(* The end of the meeting *)

\* startEnbSigning asks that the project be completed; AppointmentLifecycle
\* and NotarialBook have the rest of it.
OpenBook ==
    /\ inSession
    /\ completed
    /\ booked' = TRUE
    /\ UNCHANGED <<inSession, job>> /\ UNCHANGED rowVars
    /\ UNCHANGED projectVars /\ UNCHANGED pdfVars /\ UNCHANGED raceVars

EndMeeting(h) ==
    /\ inSession
    /\ booked
    /\ inSession' = FALSE
    /\ Arrive(h, [at |-> "mark"])
    /\ UNCHANGED booked /\ UNCHANGED rowVars
    /\ UNCHANGED projectVars /\ UNCHANGED pdfVars

\* Mutant: completes the document's project whatever its signatures.
CheckMark_Unchecked(h) ==
    /\ job[h].at = "mark"
    /\ Goto(h, [at |-> "force"])
    /\ UNCHANGED meetingVars /\ UNCHANGED rowVars
    /\ UNCHANGED projectVars /\ UNCHANGED pdfVars

\* markQuicksignProjectsCompletedWhenMeetingEnds
CheckMark(h) ==
    /\ job[h].at = "mark"
    /\ IF AllSigned THEN Goto(h, [at |-> "force"]) ELSE Done(h)
    /\ UNCHANGED meetingVars /\ UNCHANGED rowVars
    /\ UNCHANGED projectVars /\ UNCHANGED pdfVars

\* The replica stops, or a statement of the request throws.
Abort(h) ==
    /\ Busy(h)
    /\ Done(h)
    /\ UNCHANGED meetingVars /\ UNCHANGED rowVars
    /\ UNCHANGED projectVars /\ UNCHANGED pdfVars

\* A request that is under way goes on.
Advance(h) ==
    \/ EnsureProject(h) \/ DeleteRows(h) \/ InsertRow(h) \/ ReplaceProject(h)
    \/ \E F \in SUBSET Signers : WritePlot(h, F)
    \/ RereadRow(h) \/ SignRow(h)
    \/ \E s \in Signers : StampSignature(h, s)
    \/ SavePdf(h) \/ UploadPdf(h) \/ CompleteProject(h) \/ ForceComplete(h)
    \/ CheckMark(h)

RequestStep(h) ==
    \/ \E q \in Orders : CheckAssign(h, q)
    \/ CheckPlotLink(h) \/ CheckPlot(h)
    \/ \E s \in Signers : CheckTurn(h, s)
    \/ \E force \in BOOLEAN : CheckSeal(h, force)
    \/ EndMeeting(h)
    \/ Advance(h)

NextWithoutCrash == OpenBook \/ \E h \in Requests : RequestStep(h)

Next == NextWithoutCrash \/ \E h \in Requests : Abort(h)

Spec == Init /\ [][Next]_vars

\* The browsers poll every four seconds until the document is completed (as
\* often as one of the modelled requests is free), a request under way ends,
\* and the crashes cease at some time.
Fairness ==
    /\ SF_vars(\E h \in Requests : CheckSeal(h, FALSE))
    /\ \A h \in Requests : WF_vars(Advance(h))
    /\ <>[][NextWithoutCrash]_vars

FairSpec == Spec /\ Fairness

-----------------------------------------------------------------------------
(* Properties *)

\* Signatures are given in the signing order, as long as no other request
\* overlaps an assignment: whoever has signed, everyone before them has.
InOrder ==
    ~crossed => \A s, t \in Assigned :
        row[s].order < row[t].order /\ row[t].signed => row[s].signed

\* A project is completed only with every assigned signer's signature, as long
\* as no other request overlaps an assignment.
CompletedOnSignatures ==
    [][~completed /\ completed' /\ ~crossed' => AllSigned]_vars

\* The stored PDF bears the stamp of every signer of the row set it was sealed for, as
\* long as no two requests that write the PDF overlap either: finalizations, and plot links
\* that make the project anew.
StoredPdfIsWhole ==
    [][file' # file /\ ~crossed' /\ ~doubled' => \A f \in file' : Assigned \subseteq f]_vars

\* A signature counts only for the assignment whose row the signer read: a new
\* assignment starts without signatures, whatever is in flight.
SignatureStaysWithItsRow ==
    [][\A s \in Signers : row'[s].signed /\ ~row[s].signed =>
          \E h \in Requests : job[h] = [at |-> "sign", who |-> s, id |-> row[s].id]]_vars

\* A document that everyone has signed, with a field for each of them, is
\* completed in the end however often polls crash before that, unless the notary changes it.
Sealable == AllSigned /\ Assigned \subseteq fields
SignedIsCompleted == Sealable ~> (completed \/ ~Sealable)

(* A claim of the code that its behaviours refute *)

\* "All documents must be fully notarized before ENB signing can begin"
BookedIsSigned == [][booked' /\ ~booked => AllSigned]_vars
=============================================================================
