------------------------------ MODULE NotarialBook ------------------------------
(***************************************************************************)
(* The electronic notarial book (ENB) of one meeting: registry acts made   *)
(* by RegistryService.syncActsFromEndedMeeting, the entries its principals *)
(* sign (MeetingEnbSigningService), and the end of the meeting, which asks *)
(* that the book be completed.                                             *)
(*                                                                         *)
(* Acts are looked up, counted and inserted in separate statements, and    *)
(* four callers run that code: the start of ENB signing, the view of a     *)
(* notarized PDF, and the end of the meeting, at once and 15 seconds later.*)
(* DocOnChain answers each lookup or does not.  How a document comes to be *)
(* completed is DocumentSigning's subject; here that is Seal and Reopen.   *)
(* A notary's acts of other meetings, which share the numbers, are not in  *)
(* the module.                                                             *)
(***************************************************************************)
EXTENDS Naturals, FiniteSets

CONSTANTS
    Requests,     \* concurrent requests on the meeting
    Docs,         \* documents that may be linked
    Principals,   \* principals and witnesses, who sign every entry
    MaxActs       \* bound on registry acts

ASSUME BookAssumption == MaxActs \in Nat

VARIABLES
    session,      \* appointments.status: "in_session", "ended"
    enb,          \* appointments.enbSigningStatus
    linked,       \* appointment_documents
    sealed,       \* documents whose quicksign project is completed
    acts,         \* registry_acts of the meeting
    pending,      \* meeting_enb_signature_requests not yet signed
    signed,       \* ... and signed
    job,          \* what each request is doing
    crowded,      \* history: two requests that write the book overlapped
    crashed       \* history: a request was cut off

vars == <<session, enb, linked, sealed, acts, pending, signed, job, crowded, crashed>>

Idle == [at |-> "idle"]
Entries == (1..MaxActs) \X Principals
Acts == [id : 1..MaxActs, doc : Docs, number : 1..MaxActs]

Jobs ==
    [at : {"idle", "book", "activate", "tally", "complete", "ending"}]
    \cup [at : {"look"}, docs : SUBSET Docs, start : BOOLEAN]
    \cup [at : {"number"}, docs : SUBSET Docs, start : BOOLEAN]
    \cup [at : {"insert"}, docs : SUBSET Docs, start : BOOLEAN, doc : Docs, number : 1..MaxActs]
    \cup [at : {"entries"}, entries : SUBSET Entries]
    \cup [at : {"sign"}, entry : Entries]

TypeOK ==
    /\ session \in {"in_session", "ended"}
    /\ enb \in {"not_started", "active", "completed"}
    /\ linked \subseteq Docs /\ sealed \subseteq Docs
    /\ acts \subseteq Acts
    /\ pending \subseteq Entries /\ signed \subseteq Entries
    /\ pending \cap signed = {}
    /\ job \in [Requests -> Jobs]
    /\ crowded \in BOOLEAN /\ crashed \in BOOLEAN

Init ==
    /\ session = "in_session" /\ enb = "not_started"
    /\ linked = {} /\ sealed = {}
    /\ acts = {} /\ pending = {} /\ signed = {}
    /\ job = [h \in Requests |-> Idle]
    /\ crowded = FALSE /\ crashed = FALSE

meetingVars == <<session, linked, sealed>>
entryVars == <<pending, signed>>
historyVars == <<crowded, crashed>>

Busy(h) == job[h] # Idle
WritesBook(j) == j.at \in {"look", "number", "insert", "book", "entries", "activate"}

Arrive(h, j) ==
    /\ ~Busy(h)
    /\ job' = [job EXCEPT ![h] = j]
    /\ crowded' = (crowded \/ (WritesBook(j) /\ \E g \in Requests \ {h} : WritesBook(job[g])))
    /\ UNCHANGED crashed

Goto(h, j) == job' = [job EXCEPT ![h] = j] /\ UNCHANGED historyVars
Done(h) == Goto(h, Idle)

-----------------------------------------------------------------------------
(* startEnbSigning *)

CheckStart(h) ==
    /\ session = "in_session"
    /\ enb # "completed"
    /\ linked # {} /\ linked \subseteq sealed
    /\ Arrive(h, IF enb = "not_started" THEN [at |-> "look", docs |-> linked, start |-> TRUE]
                                        ELSE [at |-> "activate"])
    /\ UNCHANGED meetingVars /\ UNCHANGED entryVars /\ UNCHANGED <<enb, acts>>

\* createSignatureRequests reads the acts of the meeting ...
ReadBook(h) ==
    /\ job[h].at = "book"
    /\ Goto(h, [at |-> "entries", entries |-> {a.id : a \in acts} \X Principals])
    /\ UNCHANGED meetingVars /\ UNCHANGED entryVars /\ UNCHANGED <<enb, acts>>
\* Mutant: a conflicting entry is inserted beside the signed one.
InsertEntry_Beside(h) ==
    /\ job[h].at = "entries"
    /\ \E e \in job[h].entries :
          /\ pending' = pending \cup {e}
          /\ Goto(h, [job[h] EXCEPT !.entries = @ \ {e}])
    /\ UNCHANGED signed
    /\ UNCHANGED meetingVars /\ UNCHANGED <<enb, acts>>

\* Mutant: a conflicting entry is updated and is pending again.
InsertEntry_Overwrites(h) ==
    /\ job[h].at = "entries"
    /\ \E e \in job[h].entries :
          /\ pending' = pending \cup {e}
          /\ signed' = signed \ {e}
          /\ Goto(h, [job[h] EXCEPT !.entries = @ \ {e}])
    /\ UNCHANGED meetingVars /\ UNCHANGED <<enb, acts>>

\* ... and inserts their entries one by one; those that exist are kept.
InsertEntry(h) ==
    /\ job[h].at = "entries"
    /\ \E e \in job[h].entries :
          /\ pending' = IF e \in signed THEN pending ELSE pending \cup {e}
          /\ Goto(h, [job[h] EXCEPT !.entries = @ \ {e}])
    /\ UNCHANGED signed
    /\ UNCHANGED meetingVars /\ UNCHANGED <<enb, acts>>

EntriesDone(h) ==
    /\ job[h].at = "entries"
    /\ job[h].entries = {}
    /\ Goto(h, [at |-> "activate"])
    /\ UNCHANGED meetingVars /\ UNCHANGED entryVars /\ UNCHANGED <<enb, acts>>

\* UPDATE by id: also a book completed since it was read becomes active again.
Activate(h) ==
    /\ job[h].at = "activate"
    /\ enb' = "active"
    /\ Goto(h, [at |-> "tally"])
    /\ UNCHANGED meetingVars /\ UNCHANGED entryVars /\ UNCHANGED acts
\* Mutant: some signature is enough.
Tally_Some(h) ==
    /\ job[h].at = "tally"
    /\ IF pending = {} \/ signed # {} THEN Goto(h, [at |-> "complete"]) ELSE Done(h)
    /\ UNCHANGED meetingVars /\ UNCHANGED entryVars /\ UNCHANGED <<enb, acts>>

\* maybeCompleteSigning; a book without entries counts as signed.
Tally(h) ==
    /\ job[h].at = "tally"
    /\ IF pending = {} THEN Goto(h, [at |-> "complete"]) ELSE Done(h)
    /\ UNCHANGED meetingVars /\ UNCHANGED entryVars /\ UNCHANGED <<enb, acts>>

CompleteBook(h) ==
    /\ job[h].at = "complete"
    /\ enb' = "completed"
    /\ Done(h)
    /\ UNCHANGED meetingVars /\ UNCHANGED entryVars /\ UNCHANGED acts

-----------------------------------------------------------------------------
(* signEntry *)

CheckSign(h, e) ==
    /\ session = "in_session"
    /\ enb = "active"
    /\ e \in pending
    /\ Arrive(h, [at |-> "sign", entry |-> e])
    /\ UNCHANGED meetingVars /\ UNCHANGED entryVars /\ UNCHANGED <<enb, acts>>
\* Mutant: the entries tallied are those read before the signature is written.
SignEntry_TalliesFirst(h) ==
    /\ job[h].at = "sign"
    /\ pending' = pending \ {job[h].entry}
    /\ signed' = signed \cup {job[h].entry}
    /\ Goto(h, IF pending = {} THEN [at |-> "complete"] ELSE Idle)
    /\ UNCHANGED meetingVars /\ UNCHANGED <<enb, acts>>

SignEntry(h) ==
    /\ job[h].at = "sign"
    /\ pending' = pending \ {job[h].entry}
    /\ signed' = signed \cup {job[h].entry}
    /\ Goto(h, [at |-> "tally"])
    /\ UNCHANGED meetingVars /\ UNCHANGED <<enb, acts>>

-----------------------------------------------------------------------------
(* syncActsFromEndedMeeting *)

\* streamMeetingDocumentNotarizedPdf asks for the one document it shows.
ViewPdf(h, d) ==
    /\ d \in linked \cap sealed
    /\ Arrive(h, [at |-> "look", docs |-> {d}, start |-> FALSE])
    /\ UNCHANGED meetingVars /\ UNCHANGED entryVars /\ UNCHANGED <<enb, acts>>

\* populateNotarialRegistryOnMeetingEnd
Populate(h) ==
    /\ session = "ended"
    /\ Arrive(h, [at |-> "look", docs |-> linked, start |-> FALSE])
    /\ UNCHANGED meetingVars /\ UNCHANGED entryVars /\ UNCHANGED <<enb, acts>>
\* Mutant: documents that have an act are candidates again.
FindCandidates_Again(h) ==
    /\ job[h].at = "look"
    /\ \E C \in SUBSET job[h].docs :
          Goto(h, [at |-> "number", docs |-> C, start |-> job[h].start])
    /\ UNCHANGED meetingVars /\ UNCHANGED entryVars /\ UNCHANGED <<enb, acts>>

\* The candidates: documents without an act that DocOnChain reports on.  Without
\* an access token there are none, and none of this is an error.
FindCandidates(h) ==
    /\ job[h].at = "look"
    /\ \E C \in SUBSET {d \in job[h].docs : \A a \in acts : a.doc # d} :
          Goto(h, [at |-> "number", docs |-> C, start |-> job[h].start])
    /\ UNCHANGED meetingVars /\ UNCHANGED entryVars /\ UNCHANGED <<enb, acts>>

\* nextActNumber counts the acts there are.
NumberAct(h) ==
    /\ job[h].at = "number"
    /\ Cardinality(acts) < MaxActs
    /\ \E d \in job[h].docs :
          Goto(h, [at |-> "insert", docs |-> job[h].docs, start |-> job[h].start,
                   doc |-> d, number |-> Cardinality(acts) + 1])
    /\ UNCHANGED meetingVars /\ UNCHANGED entryVars /\ UNCHANGED <<enb, acts>>

InsertAct(h) ==
    /\ job[h].at = "insert"
    /\ Cardinality(acts) < MaxActs
    /\ acts' = acts \cup {[id |-> Cardinality(acts) + 1, doc |-> job[h].doc,
                           number |-> job[h].number]}
    /\ Goto(h, [at |-> "number", docs |-> job[h].docs \ {job[h].doc}, start |-> job[h].start])
    /\ UNCHANGED meetingVars /\ UNCHANGED entryVars /\ UNCHANGED enb

SyncDone(h) ==
    /\ job[h].at = "number"
    /\ job[h].docs = {}
    /\ IF job[h].start THEN Goto(h, [at |-> "book"]) ELSE Done(h)
    /\ UNCHANGED meetingVars /\ UNCHANGED entryVars /\ UNCHANGED <<enb, acts>>

-----------------------------------------------------------------------------
(* The meeting *)

CheckEnd(h) ==
    /\ session = "in_session"
    /\ enb = "completed"
    /\ Arrive(h, [at |-> "ending"])
    /\ UNCHANGED meetingVars /\ UNCHANGED entryVars /\ UNCHANGED <<enb, acts>>

WriteEnded(h) ==
    /\ job[h].at = "ending"
    /\ session' = "ended"
    /\ Done(h)
    /\ UNCHANGED <<linked, sealed, enb, acts>> /\ UNCHANGED entryVars

\* The replica stops, or a statement of the request throws.
Abort(h) ==
    /\ Busy(h)
    /\ job' = [job EXCEPT ![h] = Idle]
    /\ crashed' = TRUE
    /\ UNCHANGED meetingVars /\ UNCHANGED entryVars /\ UNCHANGED <<enb, acts, crowded>>

\* Documents come and go while the meeting is in session; one with signers
\* (and a completed one has them) is not deleted.
DocumentStep ==
    /\ session = "in_session"
    /\ \E d \in Docs :
          \/ d \notin linked /\ linked' = linked \cup {d} /\ sealed' = sealed
          \/ d \in linked \ sealed /\ linked' = linked \ {d} /\ sealed' = sealed
          \/ d \in linked \ sealed /\ sealed' = sealed \cup {d} /\ linked' = linked
          \/ d \in sealed /\ sealed' = sealed \ {d} /\ linked' = linked
    /\ UNCHANGED <<session, enb, acts, job>> /\ UNCHANGED entryVars /\ UNCHANGED historyVars

RequestStep(h) ==
    \/ CheckStart(h) \/ ReadBook(h) \/ InsertEntry(h) \/ EntriesDone(h)
    \/ Activate(h) \/ Tally(h) \/ CompleteBook(h)
    \/ \E e \in Entries : CheckSign(h, e)
    \/ SignEntry(h)
    \/ \E d \in Docs : ViewPdf(h, d)
    \/ Populate(h) \/ FindCandidates(h) \/ NumberAct(h) \/ InsertAct(h) \/ SyncDone(h)
    \/ CheckEnd(h) \/ WriteEnded(h)
    \/ Abort(h)

Next == DocumentStep \/ \E h \in Requests : RequestStep(h)

Spec == Init /\ [][Next]_vars

-----------------------------------------------------------------------------
(* Properties *)

\* A completed book has no unsigned entry, as long as no two requests that
\* write the book overlap, whatever crashes and whoever signs meanwhile.
CompletedIsSigned == ~crowded => (enb = "completed" => pending = {})

\* ... and then each document has one act at most, and no two acts share a number.
OneActPerDocument ==
    ~crowded => \A a, b \in acts : a.doc = b.doc \/ a.number = b.number => a = b

\* The last signature completes the book: when no request is under way and none
\* was cut off, a book that is still active waits for a signature.
LastSignatureCompletes ==
    ~crashed /\ (\A h \in Requests : ~Busy(h)) => (enb = "active" => pending # {})

\* An entry, once signed, stays in the book and stays signed.
SignaturesStay == [][signed \subseteq signed' /\ acts \subseteq acts']_vars

(* A claim of the code that its behaviours refute *)

\* "Complete notarization and collect ENB signatures before ending the session"
EndedIsSigned ==
    [][session' = "ended" /\ session # "ended" =>
          \A d \in linked : \E a \in acts : a.doc = d /\ \A p \in Principals : <<a.id, p>> \in signed]_vars
=============================================================================
