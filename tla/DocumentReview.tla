---------------------------- MODULE DocumentReview ----------------------------
(***************************************************************************)
(* A client's request that a notary reviews some documents                 *)
(* (DocumentReviewRequestsService), the notary's answer, and what the      *)
(* answer makes: an appointment that carries the documents, or a queue in  *)
(* which every document in turn becomes a QuickSign project                *)
(* (QuicksignService), is plotted, gets a session of its own and is        *)
(* signed.                                                                 *)
(*                                                                         *)
(* The notary's identity and commission are in order and the documents'    *)
(* files exist; QuickSign projects that belong to no review, and the       *)
(* signing itself, are left out.  A request that stops, or whose statement *)
(* throws, changes nothing more.                                           *)
(***************************************************************************)
EXTENDS Naturals, Sequences

CONSTANTS
    Requests,    \* concurrent calls of the client and the notary
    Files,       \* number of documents of the review
    MaxProjects, \* bound on quicksign_projects rows
    MaxSessions  \* bound on appointments rows

VARIABLES
    review,      \* the document_review_requests row
    link,        \* document_review_request_files: the project of each file, in sort order
    projects,    \* quicksign_projects rows, oldest first
    sessions,    \* appointments rows that an answer or a project has made
    job,         \* what each request is doing
    crowded,     \* history: two requests on one review, or on one project, overlapped
    crashed      \* history: a request stopped halfway

vars == <<review, link, projects, sessions, job, crowded, crashed>>

ProjectIds == DOMAIN projects
SessionIds == DOMAIN sessions

\* "on" is what a request decides about: the review (0) or a project.
Idle == [at |-> "idle"]
Jobs ==
    {Idle}
    \cup [at : {"insert_review", "insert_files"}, on : {0}]
    \cup [at : {"book"}, on : {0}, files : 0..Files]
    \cup [at : {"attach", "approve_meeting"}, on : {0}, files : 0..Files, session : 1..MaxSessions]
    \cup [at : {"decide"}, on : {0}, status : {"rejected", "cancelled"}]
    \cup [at : {"insert_project"}, on : {0}, file : 1..Files, answers : BOOLEAN]
    \cup [at : {"open", "sign_up", "link", "activate", "approve_quicksign"}, on : {0},
          file : 1..Files, answers : BOOLEAN, project : 1..MaxProjects]
    \cup [at : {"start"}, on : 1..MaxProjects]
    \cup [at : {"document", "bind"}, on : 1..MaxProjects, session : 1..MaxSessions]

TypeOK ==
    /\ review \in [status : {"absent", "pending", "approved", "rejected", "cancelled"},
                   path : {"none", "meeting", "quicksign"},
                   appointment : 0..MaxSessions, active : 0..MaxProjects]
    /\ link \in {<<>>} \cup [1..Files -> 0..MaxProjects]
    /\ projects \in Seq([file : 1..Files, status : {"draft", "pending_signatures", "completed"},
                         signer : BOOLEAN, plotted : BOOLEAN, finished : BOOLEAN,
                         appointment : 0..MaxSessions])
    /\ sessions \in Seq([project : 0..MaxProjects, documents : 0..Files])
    /\ Len(projects) <= MaxProjects /\ Len(sessions) <= MaxSessions
    /\ job \in [Requests -> Jobs]
    /\ crowded \in BOOLEAN /\ crashed \in BOOLEAN

Init ==
    /\ review = [status |-> "absent", path |-> "none", appointment |-> 0, active |-> 0]
    /\ link = <<>>
    /\ projects = <<>>
    /\ sessions = <<>>
    /\ job = [h \in Requests |-> Idle]
    /\ crowded = FALSE /\ crashed = FALSE

rows == <<review, link, projects, sessions>>

Busy(h) == job[h] # Idle

Arrive(h, j) ==
    /\ ~Busy(h)
    /\ job' = [job EXCEPT ![h] = j]
    /\ crowded' = (crowded \/ \E g \in Requests \ {h} : Busy(g) /\ job[g].on = j.on)
    /\ UNCHANGED crashed

Goto(h, j) == job' = [job EXCEPT ![h] = j] /\ UNCHANGED <<crowded, crashed>>

-----------------------------------------------------------------------------
(* The client's request, and an answer that makes nothing *)

CheckCreate(h) ==
    /\ review.status = "absent"
    /\ Arrive(h, [at |-> "insert_review", on |-> 0])
    /\ UNCHANGED rows

InsertReview(h) ==
    /\ job[h].at = "insert_review"
    /\ review.status = "absent"
    /\ review' = [review EXCEPT !.status = "pending"]
    /\ Goto(h, [at |-> "insert_files", on |-> 0])
    /\ UNCHANGED <<link, projects, sessions>>

InsertFiles(h) ==
    /\ job[h].at = "insert_files"
    /\ link' = [f \in 1..Files |-> 0]
    /\ Goto(h, Idle)
    /\ UNCHANGED <<review, projects, sessions>>

\* Mutant: a review that has been answered can be rejected and cancelled too.
CheckDecide_Anytime(h, status) ==
    /\ review.status # "absent"
    /\ Arrive(h, [at |-> "decide", on |-> 0, status |-> status])
    /\ UNCHANGED rows

\* The notary's reject and the client's cancel.
CheckDecide(h, status) ==
    /\ review.status = "pending"
    /\ Arrive(h, [at |-> "decide", on |-> 0, status |-> status])
    /\ UNCHANGED rows

\* UPDATE by id, whatever the status has become.
WriteDecision(h) ==
    /\ job[h].at = "decide"
    /\ review' = [review EXCEPT !.status = job[h].status]
    /\ Goto(h, Idle)
    /\ UNCHANGED <<link, projects, sessions>>

-----------------------------------------------------------------------------
(* approve by way of a meeting *)

CheckApproveMeeting(h) ==
    /\ review.status = "pending"
    /\ Arrive(h, [at |-> "book", on |-> 0, files |-> Len(link)])
    /\ UNCHANGED rows

\* The appointment is confirmed from the start.
BookMeeting(h) ==
    /\ job[h].at = "book"
    /\ Len(sessions) < MaxSessions
    /\ sessions' = Append(sessions, [project |-> 0, documents |-> 0])
    /\ Goto(h, [at |-> "attach", on |-> 0, files |-> job[h].files, session |-> Len(sessions')])
    /\ UNCHANGED <<review, link, projects>>

AttachDocuments(h) ==
    /\ job[h].at = "attach"
    /\ sessions' = [sessions EXCEPT ![job[h].session].documents = job[h].files]
    /\ Goto(h, [job[h] EXCEPT !.at = "approve_meeting"])
    /\ UNCHANGED <<review, link, projects>>

ApproveMeeting(h) ==
    /\ job[h].at = "approve_meeting"
    /\ review' = [status |-> "approved", path |-> "meeting", appointment |-> job[h].session, active |-> 0]
    /\ Goto(h, Idle)
    /\ UNCHANGED <<link, projects, sessions>>

-----------------------------------------------------------------------------
(* approve by way of QuickSign, and the queue *)

\* The first document is opened, whether or not it has been before.
CheckApproveQuicksign(h) ==
    /\ review.status = "pending"
    /\ link # <<>>
    /\ Arrive(h, [at |-> "insert_project", on |-> 0, file |-> 1, answers |-> TRUE])
    /\ UNCHANGED rows

Linked == {f \in DOMAIN link : link[f] # 0}

\* assertLatestQuicksignDocComplete: the project of the last document that has one.
Latest == IF Linked = {} THEN 0 ELSE link[CHOOSE f \in Linked : \A g \in Linked : g <= f]

Completed(p) == [projects EXCEPT ![p].status = "completed", ![p].finished = TRUE]

\* Mutant: a project that has its session is taken as complete.
LatestIsComplete_Bound ==
    /\ Latest # 0 => projects[Latest].appointment # 0
    /\ UNCHANGED projects

\* Reading the latest project may find it signed in its session, and completes it.
LatestIsComplete ==
    \/ /\ Latest # 0 => projects[Latest].status = "completed"
       /\ UNCHANGED projects
    \/ /\ Latest # 0
       /\ projects[Latest].status # "completed" /\ projects[Latest].appointment # 0
       /\ projects' = Completed(Latest)

CheckAdvance(h) ==
    /\ review.status = "approved" /\ review.path = "quicksign"
    /\ \E f \in DOMAIN link \ Linked :
          /\ \A g \in DOMAIN link \ Linked : f <= g
          /\ Arrive(h, [at |-> "insert_project", on |-> 0, file |-> f, answers |-> FALSE])
    /\ LatestIsComplete
    /\ UNCHANGED <<review, link, sessions>>

\* bootstrapQuicksignForReviewFile and QuicksignService.create, a statement at a time
InsertProject(h) ==
    /\ job[h].at = "insert_project"
    /\ Len(projects) < MaxProjects
    /\ projects' = Append(projects, [file |-> job[h].file, status |-> "draft", signer |-> FALSE,
                                     plotted |-> FALSE, finished |-> FALSE, appointment |-> 0])
    /\ Goto(h, [at |-> "open", on |-> 0, file |-> job[h].file, answers |-> job[h].answers,
                project |-> Len(projects')])
    /\ UNCHANGED <<review, link, sessions>>

OpenProject(h) ==
    /\ job[h].at = "open"
    /\ projects' = [projects EXCEPT ![job[h].project].status = "pending_signatures"]
    /\ Goto(h, [job[h] EXCEPT !.at = "sign_up"])
    /\ UNCHANGED <<review, link, sessions>>

RegisterSigner(h) ==
    /\ job[h].at = "sign_up"
    /\ projects' = [projects EXCEPT ![job[h].project].signer = TRUE]
    /\ Goto(h, [job[h] EXCEPT !.at = "link"])
    /\ UNCHANGED <<review, link, sessions>>

LinkProject(h) ==
    /\ job[h].at = "link"
    /\ link' = [link EXCEPT ![job[h].file] = job[h].project]
    /\ Goto(h, [job[h] EXCEPT !.at = "activate"])
    /\ UNCHANGED <<review, projects, sessions>>

ActivateProject(h) ==
    /\ job[h].at = "activate"
    /\ review' = [review EXCEPT !.active = job[h].project]
    /\ Goto(h, IF job[h].answers THEN [job[h] EXCEPT !.at = "approve_quicksign"] ELSE Idle)
    /\ UNCHANGED <<link, projects, sessions>>

ApproveQuicksign(h) ==
    /\ job[h].at = "approve_quicksign"
    /\ review' = [status |-> "approved", path |-> "quicksign", appointment |-> 0,
                  active |-> job[h].project]
    /\ Goto(h, Idle)
    /\ UNCHANGED <<link, projects, sessions>>

-----------------------------------------------------------------------------
(* A project: plotting, its session and its signatures *)

\* saveSignatureFields and completePlotting, one UPDATE
Plot(p) ==
    /\ ~projects[p].plotted
    /\ projects' = [projects EXCEPT ![p].plotted = TRUE]
    /\ UNCHANGED <<review, link, sessions, job, crowded, crashed>>

\* retryDcProject and the plotting of the session's document ask for no status.
Reopen(p) ==
    /\ projects[p].status # "pending_signatures"
    /\ projects' = [projects EXCEPT ![p].status = "pending_signatures"]
    /\ UNCHANGED <<review, link, sessions, job, crowded, crashed>>

CheckFinalize(h, p) ==
    /\ projects[p].plotted /\ projects[p].signer /\ projects[p].status # "draft"
    /\ projects[p].appointment = 0
    /\ Arrive(h, [at |-> "start", on |-> p])
    /\ UNCHANGED rows

\* The appointment is in session from the start.
StartSession(h) ==
    /\ job[h].at = "start"
    /\ Len(sessions) < MaxSessions
    /\ sessions' = Append(sessions, [project |-> job[h].on, documents |-> 0])
    /\ Goto(h, [at |-> "document", on |-> job[h].on, session |-> Len(sessions')])
    /\ UNCHANGED <<review, link, projects>>

InsertDocument(h) ==
    /\ job[h].at = "document"
    /\ sessions' = [sessions EXCEPT ![job[h].session].documents = 1]
    /\ Goto(h, [job[h] EXCEPT !.at = "bind"])
    /\ UNCHANGED <<review, link, projects>>

BindSession(h) ==
    /\ job[h].at = "bind"
    /\ projects' = [projects EXCEPT ![job[h].on].appointment = job[h].session]
    /\ Goto(h, Idle)
    /\ UNCHANGED <<review, link, sessions>>

\* Every signer has signed in a session that carries the document.
Complete(p) ==
    /\ projects[p].status # "completed"
    /\ \E s \in SessionIds : sessions[s].project = p /\ sessions[s].documents = 1
    /\ projects' = Completed(p)
    /\ UNCHANGED <<review, link, sessions, job, crowded, crashed>>

-----------------------------------------------------------------------------

\* At most one request stops.
Abort(h) ==
    /\ Busy(h) /\ ~crashed
    /\ job' = [job EXCEPT ![h] = Idle]
    /\ crashed' = TRUE
    /\ UNCHANGED rows /\ UNCHANGED crowded

Next ==
    \/ \E p \in ProjectIds : Plot(p) \/ Reopen(p) \/ Complete(p)
    \/ \E h \in Requests :
          \/ CheckCreate(h) \/ InsertReview(h) \/ InsertFiles(h)
          \/ \E status \in {"rejected", "cancelled"} : CheckDecide(h, status)
          \/ WriteDecision(h)
          \/ CheckApproveMeeting(h) \/ BookMeeting(h) \/ AttachDocuments(h) \/ ApproveMeeting(h)
          \/ CheckApproveQuicksign(h) \/ CheckAdvance(h)
          \/ InsertProject(h) \/ OpenProject(h) \/ RegisterSigner(h) \/ LinkProject(h)
          \/ ActivateProject(h) \/ ApproveQuicksign(h)
          \/ \E p \in ProjectIds : CheckFinalize(h, p)
          \/ StartSession(h) \/ InsertDocument(h) \/ BindSession(h)
          \/ Abort(h)

Spec == Init /\ [][Next]_vars

-----------------------------------------------------------------------------
(* Properties *)

Quiet(on) == \A h \in Requests : Busy(h) => job[h].on # on
Meetings == {s \in SessionIds : sessions[s].project = 0}
SessionsOf(p) == {s \in SessionIds : sessions[s].project = p}

\* Unless requests overlap or one stops halfway, a review has one outcome and what it
\* has made is that and nothing else: its one meeting, or its queue, whose last project
\* is the active one; and a project has at most its own session.
OneOutcome ==
    ~crowded /\ ~crashed =>
        /\ Quiet(0) =>
              /\ Meetings = {review.appointment} \ {0}
              /\ ProjectIds = {link[f] : f \in Linked}
              /\ review.active = Latest
              /\ review.path = "meeting" <=> review.appointment # 0
              /\ review.path = "quicksign" <=> review.active # 0
              /\ review.status = "approved" <=> review.path # "none"
        /\ \A p \in ProjectIds : Quiet(p) => SessionsOf(p) = {projects[p].appointment} \ {0}

\* Whatever overlaps or stops halfway and is asked again, a document of the queue has a
\* project of its own that can be signed.  Unless requests overlap, documents enter the
\* queue in their order, each when the one before it has been completed, and an approved
\* review's meeting has all of its documents.
QueueInOrder ==
    /\ \A f \in Linked :
          /\ projects[link[f]].file = f
          /\ projects[link[f]].signer /\ projects[link[f]].status # "draft"
    /\ ~crowded =>
          /\ \A f \in Linked : \A g \in 1..(f - 1) : g \in Linked /\ projects[link[g]].finished
          /\ review.appointment # 0 => sessions[review.appointment].documents = Len(link)

=============================================================================
