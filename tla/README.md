# qLegal: a verification of the notarization backend

qLegal is a platform for electronic notarization: a client books a notary
(ENP), they meet in a video session, documents are signed and sealed, the
client pays, the acts go into the notary's electronic book (ENB), and the
meeting ends. The program is a NestJS backend over PostgreSQL
(`apps/backend`), a Next.js client (`apps/web`), a Flutter client, and adapters
to external services. This project models the backend's state machines in
TLA+, checks them with TLC and proves the central theorems with TLAPS.

Paths below are relative to the repository; `v1/` is
`apps/backend/src/modules/v1/`.

## 1. What is hard about this code

Almost no service uses a database transaction or a conditional UPDATE. The
common shape of a handler is

    row = SELECT ... ; if (row.status !== x) throw ; ... ; UPDATE ... WHERE id

with calls to external services in between. So every handler is several atomic
steps, and anything may run between them: another request of either party, a
webhook, a poll of a browser, a cron. Every replica of the backend runs every
cron (`apps/backend/docs/g1-hardening-runbook.md`). A replica can stop between
two statements, and nothing resumes a handler that was cut off. Every module
below has this shape: a request is a *job* whose record says which statement
comes next and what it has read; `Abort` (or `Crash...`) cuts it off anywhere.

## 2. Inventory

| part | state it keeps | operations | what is hard | what makes it correct |
|---|---|---|---|---|
| appointment lifecycle (`v1/appointments`) | `appointments.status`, `canStart`, `canRejoin`, `confirmedAt`, `declineReason`, the documents and their prices | create, quote, accept, confirm, decline, cancel, start, rejoin, end, the can_start cron | stale reads, UPDATE by id, rows inserted in two statements, the clock | no confirmation without a quote, final statuses are final, columns agree with the status |
| session rooms (`v1/sessions/sessions.service.ts`) | `session_rooms` | ensure, end | created by whoever comes first | no meeting in session has a closed room |
| meeting payments (`v1/appointments`, `v1/payments`) | `payment_intents` of a meeting, the provider's requests | createMeetingPayment, fee changes, webhooks, poll, admin override, reaper, gate of the end | late and repeated webhooks, a generic webhook that writes any outcome, lost answers, two checkouts | the poll sees every active intent; captured money is recorded, and only a report of failure takes that back |
| document signing (`v1/sessions/meeting-signers.service.ts`, `services/signing`, `services/storage`) | `meeting_signature_requests`, `quicksign_projects`, the local PDF, the sealed file | assign signers, link to the plotting page, plot, sign, finalize (from every poll and PDF view) | reassignment during polls, a PDF rewritten or replaced without a lock | signing order, completion only on all signatures, a whole PDF |
| electronic book (`v1/sessions/meeting-enb-signing.service.ts`, `v1/registry`) | `registry_acts`, `meeting_enb_signature_requests`, `appointments.enbSigningStatus` | start, sign, synchronize acts (four callers) | DocOnChain may not answer, numbers counted without an index | a completed book has all its signatures, one act per document |
| certification exam (`v1/cert-exam`) | `exam_attempts`, answers, retake payments, certificate, retake count | start, resume, submit, sweep, finalize | sweeps of several replicas against a late submit | one result per attempt, one retake per payment |
| registry outside meetings, SC registry sync, commission status (`v1/registry`, `services/sc-registry`) | acts' `scStatus` and reference, `enp_profiles` SC columns | enter, submit, bulk submit; refresh (profile loads, cron), admin override | bulk submission against single ones, answers lost after the registration, a refresh across an override | an act is registered once, an override lasts, the status follows the Supreme Court |
| commission applications and hearings (`v1/enp-commission-applications`, `v1/commission-hearings`) | applications, rooms, the lobby's appointment, recordings, oppositions, the fee's intents, commissions | schedule, open, record, oppose, end, pay, join, grant, deny | a decision against an opposition; a room created by whoever comes first; recordings nobody names; a fee cancelled while it is paid | one decision after the hearing, with its commission; only who has paid joins |
| document review requests (`v1/document-review-requests`) | requests, files, the projects and appointments they make | create, approve into a meeting or a queue, advance, reject, cancel | an answer in many statements, approved twice, stopped halfway and asked again | one outcome, documents in order |
| quicksign (`v1/quicksign`) | projects, their appointment | create, plot, retry, finalize, complete | shares projects with meetings and reviews | one session per project |
| onboarding and KYC (`v1/onboarding`, `v1/auth-profile`) | HyperVerge transactions, the identity's columns | start, SDK callback, webhook, expiry date, resets, review | a result through two channels, in any order and repeated, against a reset by every profile load | a verified identity is that of the latest verification |
| codes by e-mail (`v1/email-mfa`, `v1/email-verification`) | codes, expiry, the session's MFA times | request, mail, verify, sign in | a row before its mail, a mail that fails, requests at one time | a mailed code works, nothing else does |
| audit and access log (`v1/compliance-audit`) | hash chain, exports | append, verify, export | concurrent appends by several clocks | verify and exports tell the truth |
| PDF archive and delivery (`services/notarized-pdf`) | sealed file ids, `notarizedPdfEmailedAt` | archive, e-mail | one job per replica, linked only when empty | one file per project |
| certified copies (`v1/signed`) | `enb_access_requests`, `ctc_request` intents | request, decide, pay, poll | two checkouts, late webhooks, an intent linked by a second UPDATE | the list shows the payment that counts |
| session liveness and location, lobby, guests (`v1/sessions`) | `liveness_validations`, guest invites | check, join, invite | invite replaced while a guest joins | only admitted parties join |
| notary profiles, IEN attestation, messages, files, admin, verify, LMS integration, AI, tickets, templates | CRUD | CRUD | little | - |
| clients of DocOnChain, HitPay, TLPE, HyperVerge, LiveKit, LMS, e-mail | none | HTTP | unreliable answers | - |
| web and mobile clients, shared packages | - | - | the web client polls signers every four seconds | - |

How they interact: the appointment row is the hub. A meeting is started and
ended by `updateStatus`, whose end asks the payment gate
(`assertMeetingPaymentCompleteForEnd`) and the book (`enbSigningStatus`), and
then completes signing projects and synchronizes the registry. Signing
completes a project, which lets ENB signing start. Document operations change
the fee total and so invalidate payments. Retake payments of the exam share
`payment_intents`, its reaper and its generic webhook with meetings.

## 3. Modules

| module | what it models |
|---|---|
| `Booking` | abstract: an appointment, one step per decision |
| `AppointmentLifecycle` | the handlers of `AppointmentsService` on one appointment, the room, the can_start cron; implements `Booking` |
| `MeetingPayment` | the payment intents of one meeting, its fee operations, the provider, its webhooks and the generic one, poll, admin, reaper, end of meeting |
| `DocumentSigning` | one document of a meeting: its project, the assignment of signers, plotting, and the stored PDF |
| `NotarialBook` | acts, entries and the status of the book of one meeting |
| `CertExam` | the attempts of one candidate at one exam version and the payments of retakes |
| `CommissionDecision` | abstract: one decision after the hearing, with its commission |
| `Commission` | one application, its hearing, recording, oppositions and the lobby's appointment; implements `CommissionDecision` |
| `HearingFee` | the fee of a hearing and the joining of the applicant |
| `ScRegistry` | acts submitted to the Supreme Court, and a notary's commission status |
| `AccessLog` | the hash-chained log, its verification and its exports |
| `EmailCodes` | the codes mailed to one user for the MFA of each session |
| `CertifiedCopy` | the requests for copies of one act, their payment and decision |
| `DocumentReview` | one review request and the meeting or the QuickSign queue it makes |
| `Identity` | the identity verifications of one notary |
| `MeetingPaymentProofs`, `CertExamProofs`, `NotarialBookProofs`, `DocumentSigningProofs`, `CommissionProofs` | theorems and proofs about the module of that name |
| `MCMeetingProofs` | theorems and proofs about `AppointmentLifecycle` and, in `MCMeeting`, about `HearingFee` |
| `MCServicesProofs` | theorems and proofs about the services that `MCServices` puts side by side |
| `MCProgressProofs` | theorems and proofs about `ScRegistry`, in `MCProgress` |
| `MC*` | instances for TLC, see section 4 |

Each concrete module has the same plan: database columns and external state as
variables; a job per concurrent request; `Check...` actions for what a handler
reads and refuses; one action per later statement; history variables that
record what the properties are about (`raced`, `overlapped`, `crossed`,
`crowded`: two requests of a kind were under way together; `crashed`, `lost`:
one was cut off). Authentication and roles are not modelled: each operation has
a party that may call it, and that party may call it at any time. Wording,
e-mails, events to sockets and logs are left out.

### AppointmentLifecycle and Booking

`Booking` says what the two parties are promised. `AppointmentLifecycle` has
the code: `op[h]`, `at[h]` and `seen[h]` are a request's operation, stage and
what it remembers of the row. `KeepsPromise` is `Booking`'s specification under
the identity mapping of `status`, `docs` and `enb`; the rows `canStart`,
`canRejoin`, `confirmedAt`, `declineReason` and `room` are hidden. It holds for
requests that do not overlap (`RaceFreeSpec`), through crashes, crons, the
clock and changes of the notary's commission. With overlaps it does not:
section 4 names the ways. The book is one action (`EnbProgress`);
`NotarialBook` has its detail.

### MeetingPayment

`status`, `amount` and `link` are an intent, its sum and the provider's
request. `createMeetingPayment` is split into the price (several reads taken
as one step), the cancellation of earlier intents, the INSERT, the provider's
answer and the UPDATE. The fee total stands for the amounts charged, which grow
strictly with it. Document operations are a check and a write, then the
invalidation of payments. The notifications of HitPay and of TLPE do the same to
their intents, at any time and any number of times; when one is lost, a poll
records the payment, if it is of the latest active intent (`ActiveIsLatest`).
The generic webhook (`GatewayReports`) writes the outcome it is told by the
intent's id, over any status, so that a reported failure takes back a success;
every property of recorded money names that step. The properties speak of rows.
A cancelled intent's request stays payable at the provider, so that two
requests can be payable after two checkouts one after the other.
The reaper's minimum age is left out: it may cancel any pending intent.
`simulateMeetingPayment` (development only) is left out.

### DocumentSigning

`row` is a signer's `meeting_signature_requests` row with the number of the
assignment that inserted it as its id; `fields` are the placed signature
fields, `stamps` the stamps in the local PDF, `file` the sealed copies.
Assignments delete all rows and insert the new ones one by one. Finalization
stamps the signers one by one, each a read and a save of the file, then
uploads, then writes the project. The link to the plotting page makes the
document's project, or makes it anew when it has none or has lost its PDF, as
an assignment does (`FreshProject`): the new PDF bears no stamps, and a
finalization may be under way. Every signature has an image, and the copies
of signers in `quicksign_signers` are left out. It is assumed that nobody works
on a meeting's project through the pages of QuickSign itself, which have their
own `stampSignature`, `saveSignatureFields` and `completePlotting`.

### NotarialBook

`acts`, `pending` and `signed` are registry acts and entries. A start looks for
candidates (any subset of the documents without an act: DocOnChain answers or
does not), numbers and inserts them one by one, reads the acts, inserts the
entries one by one, activates the book and tallies it. A synchronization that
fails half way is the same as one with fewer candidates, because its `catch`
swallows the error. A notary's acts of other meetings are numbered in the same
sequence; only this meeting's acts are in the module, so that `OneActPerDocument`
says nothing of a number shared with an act of another meeting. All principals sign every entry; page numbers are left out.
How a document is completed is a free choice (`DocumentStep`): a completed
project is reopened when it is plotted again. An upload under way when the
meeting ends is not in this module; `MeetingPayment` has it.

### CertExam

`attempt` holds the rows with their answers. A section stands for its
questions and is right or wrong. A request finalizes through five statements:
grade, record, read the profile, and issue the certificate or count the
retake. A sweep that has found an expired attempt is a request of its own, so
several replicas' sweeps are several requests. `paid` are the retake intents
that are succeeded now: statuses other than succeeded look alike to the exam.
`startExam`'s reads are one step. No code makes an attempt `abandoned` or
deactivates a version, so both are left out. Time is a small counter; an
attempt may run into the minute at which it expires (`now <= expires`) while a
new one may already start (`expires <= now`), as in the code.

### Commission, CommissionDecision and HearingFee

`Commission` has the row of the application, the room of its hearing, the
appointment through which the lobby admits the parties, LiveKit's recordings
and the oppositions. Opening starts a recording at LiveKit and then writes it
to the room, so that `recording` (what runs) and `room.egress` (what the row
names) are two variables. `recordingStarted` and `recordingStopped` write the
egress id they are sent, whatever runs: an id may be of another recording or of
none (`Unknown`), and the last one may be taken away while its egress runs.
`misreported` remembers a report that was not so; after one the recording that
runs may be one the room does not name, and `endSession` does not stop it. A
grant reads the application, then the hearing, and
issues and approves in a transaction, the only one of these handlers;
`KeepsDecision` maps it to one `Grant` of `CommissionDecision`, and `crowded` to
its `overlapped`. `CommissionedAfterHearing` needs no such condition: a unique
index rolls a second grant back.
`HearingFee` has the applicant's tabs: a checkout cancels the active intents,
inserts one and asks HitPay; the webhook settles even a cancelled one; a join
reads the hearing, and then the lobby's checks and the payment. It is assumed,
here and in `CertifiedCopy`, that the generic webhook reports nothing about the
intents of hearings and copies, for which it has no branch: it writes by id and
would write over them too.

### ScRegistry

`acts` is the `scStatus` of an act and whether its `scExternalRef` is live,
`filings` what the Supreme Court has registered. A submission loads the PDF,
asks for the commission status and stores it, files the act and writes the
reference; its answer may be lost after the filing, and then the act is marked
as failed and may be filed again. `profile` holds the status, the override and
whether the notary's numbers are filled in; a profile load, the cron and the
administrator write the same columns.

### AccessLog

A row is its content, the hash before it and its own hash. A hash is the
sequence of the contents it covers, that is, a hash function without
collisions. Rows are ordered by the clock of the replica that appended them and
then by a random id, as in the query of `append` and of `verify`. Hands in the
database may change or delete rows (`touched` remembers which); `late` records
that a row was not given a later time than the row before it.

### EmailCodes

A row of `email_verification_otps` is a code, its session, the time and its
status. Requests insert, then mail; a mail that fails deletes the row. `inbox`
are the codes that arrived. The verification of the address, which keeps its
codes in the same table, is left out: `users.emailVerified` is true for every
user from the start (`packages/db/src/schema.ts:14`,
`packages/auth/src/config.ts:159`) and nothing makes it false, so `requestOtp`
of `v1/email-verification` returns before it inserts a code.

### CertifiedCopy

A request (`enb_access_requests`) is paid in cash, online, or free for virtual
access. A checkout inserts the intent, asks TLPE, and links the intent to the
request by a separate UPDATE; the webhook and the poll both settle intents. The
decision reads the outcome and writes by id, and does not ask for the payment.
The client's list shows only the newest request for a document;
`LastIntentIsShown` is about the payment that each request names.

### DocumentReview

`review`, `link`, `projects` and `sessions` are the request, the project of
each file, the QuickSign projects and the appointments that are made. Every
insert of an approval is a statement of its own, so that it can stop between
them and be asked again. A project of the queue is plotted, gets a session and
is completed, which lets the next document in. `crowded` records two requests
about the same review or project.

### Identity

`txns` are HyperVerge's transactions with the result each channel has brought;
`profile` the identity's status, its latest transaction, `identityVerifiedAt`
and the ID's expiry date. The SDK's callback and the webhook write a result in
a transaction, and then read the ID's date from HyperVerge's logs and store it:
a job of its own, which the resets of profile loads may overtake. After an
administrator's review only what is under way goes on: the properties say
nothing of reviewed identities. Clients have other columns with the same
handlers.

## 4. Runs

Several components are checked in one run when they share no table, or when
each is modelled against anything the other does to it. Such an `MC` module
extends one component and instantiates the others; its variable `active`
chooses one at the start, the others keep their initial states. So a run's
states are those of its components side by side, not their product, and a
component's fairness demands nothing of one that was not chosen, because no
action under fairness is enabled initially. Where components are never in play
together, `MCServices` lets them use one variable for their requests, which
keeps the module short and changes no behaviour.

TLC's coverage shows that every action of every component is taken in a run.

Runs that pass:

| run | instance | what it shows |
|---|---|---|
| `payment` (`MeetingPayment`) | 2 checkouts, 2 intents, 1 fee operation, fees to 1 | an active intent is the one the poll asks about, every payable request is tracked; what alone can un-record money or make an ended meeting unpaid; captured money is recorded in the end and no intent stays pending |
| `exam` (`MCCertExam`) | 2 requests, 2 attempts of 1 section, 1 payment | one extension, consumed payments fund attempts, results are booked once and final |
| `meeting` (`MCMeeting`) | appointment: 2 requests; signing: 3 signers, 1 browser, 1 assignment; fee: 2 tabs, 2 intents | the handlers implement `Booking`, no meeting in session has a closed room, a stale `can_start` is repaired; a signed document is completed; only who has paid joins a hearing and what was paid is recorded |
| `signing_safety` (`MCDocumentSigning`) | 2 signers, 2 requests, 2 assignments | order, completion, the stored PDF, and signatures that stay with their assignment |
| `services` (`MCServices`) | 2 requests each; book: 2 documents, 1 signer, 2 acts; log: 2 clocks, 3 rows, 1 export; codes: 2 sessions, 2 codes; copies: 1 request, 2 intents; review: 2 documents, 3 projects; identity: 2 transactions | completed books are signed; the log's verification and exports tell the truth; a session is let in by its own code and can be; the last payment is shown; a review has one outcome, in order; an identity is that of the latest verification |
| `progress` (`MCProgress`) | exam: 2 requests, 1 attempt of 2 sections; registry: 1 act, 2 filings | an attempt is closed as its answers say, and in the end; an act is registered once, an override outlasts the refreshes, the status follows the Supreme Court |
| `commission` (`MCCommission`) | 2 requests, 1 administrator, 1 appointment, 1 recording, 1 opposition | one commission, after the hearing; a recording is named unless a report of one was false, and the lobby shows the hearing; the decision implements `CommissionDecision` |

Two requests are the least that race, and a third adds nothing the guards can
see: they read rows, not requests. Two of each datum (intent, assignment,
document, attempt, transaction, code) let an old one meet its successor; the
log has three rows so that one can be changed or deleted between two others,
and a review has a third project for the one that a stopped request leaves
behind. `commission` has one appointment of the lobby: a second one is made only
after an overlap or a crash, when `HearingIsTracked` says nothing of
appointments, and `CommissionProofs` is for any number. Where a run also has a
liveness property, one datum is smaller (`payment`: fees; `meeting`: one
browser; `progress`: one attempt, one act).
The safety of payments is proved for all sums, the exam's is proved and checked
with two attempts in `exam`, and that of signing in `signing_safety`. Bounds
(`MaxIntents`, `MaxFee`, `MaxAssignments`, `MaxActs`, `MaxAttempts`, `MaxTime`,
`MaxAppts`, `MaxEgress`, `MaxOppositions`, `MaxFilings`, `MaxRows`, `MaxCodes`,
`MaxCopies`, `MaxProjects`, `MaxSessions`, `MaxTxns`) are guards on creation
only. `CHECK_DEADLOCK FALSE` is set because an appointment, a meeting, an exam
or a decision really comes to an end, and because the bounds stop creation.
Symmetry is used in runs without liveness properties.

Runs that end in a violation each check one sentence of the code, quoted in
`PROJECT.json` under "findings", that its behaviours refute:

| run | what happens |
|---|---|
| `claim_booked_signed` | a completed document is given new signers, stays completed, and the book opens without their signatures |
| `claim_ended_booked` | a meeting ends on an empty book when DocOnChain did not answer |
| `claim_clean_verifies` | two rows appended in one millisecond are ordered by their random ids, and an untouched log does not verify |
| `claim_fee_change` | a document's fee changes, the meeting's intent is cancelled, and its request at the provider is paid all the same, at the old sum |
| `claim_renewal` | a renewed ID is verified, a profile load resets the identity by the old ID's date, then the new date is stored on an identity that stays unverified |

Findings that reading the code settles, and that have no run:

* a submission to the Supreme Court resets the administrator's override
  (`sync-notarial-act.ts:120`), so `OverrideOutlastsRefresh` excepts it;
* `assertOnlinePaymentComplete` is called nowhere, so a copy is granted unpaid
  (`ctc-payment.service.ts:447`);
* an identity that an administrator approved has no `identityVerifiedAt` and
  never gets too old (`expire-enp-identity-if-needed.ts:81`);
* an older success delivered again writes its ID's date over the newer one
  (`hyperverge-webhook.service.ts:115`).

Many properties say "until two requests overlap" (`~raced`, `~crossed`,
`~doubled`, `~crowded`; two requests that write the PDF of a document, for
`~doubled`), and `HearingIsTracked` also "until a false report of a recording"
(`~misreported`). The condition is needed: without it the models show

* a quote written over a cancellation, and a confirmation between the two
  inserts of `create` that skips the quote;
* a fee that lands after the payment gate of the end, a document inserted after
  the payment, and a checkout that writes its status over an administrator's
  `succeeded`;
* a signature out of order, or a sealed PDF without an assigned signer's stamp,
  when an assignment overlaps it; a sealed file replaced or unlinked by a second
  finalization, or stored without stamps when a plotting link makes the project
  anew beside it;
* a document linked after the check that all are notarized, and two acts of one
  document;
* two replicas that sweep one attempt and issue two certificates;
* an application denied by one request and granted by another, and a hearing
  recorded by two recordings of which the row names one, or by one that
  `recordingStopped` has declared stopped;
* an act registered twice at the Supreme Court, by two submissions or by a
  retry after a lost answer;
* two codes for one session, of which the older is refused;
* a list that shows the older of two payments of a copy;
* a review cancelled although its meeting is confirmed, and a second meeting
  when an approval that was stopped is asked again.

Some guards that one would expect are not in the code, so no property is stated:
`updateStatus` starts a session outside the window of `can_start`,
`markSignedForCurrentUser` signs on an ended meeting, `startExam` opens a second
live attempt while an expired one is unswept, and between the end of a failed
attempt's time and its sweep a retake is free. Two more are named by the
properties: the generic webhook writes `failed` and an empty `paid_at` over an
intent whose money is recorded (`payment-webhook.service.ts:61`; the providers'
webhooks ask for the status first), and `recordingStarted` and
`recordingStopped` write the egress and the file they are sent
(`commission-hearings.service.ts:373`).

Fairness, and why the code gives it:

* `RefreshCanStart` and the sweeps: crons of every replica, each minute. The
  cron that refreshes `can_start` is one statement (weak fairness); a sweep
  competes for a request of the model with the candidate's calls (strong).
* `Webhook` of `MeetingPayment` and `HearingFee`: providers repeat a
  notification until it is acknowledged, and the client's page polls; weak
  fairness, in `MeetingPayment` only while the gateway has not reported that the
  intent failed, after which nothing need come. A notification that is lost for
  good is outside of `PaymentsSettle`. `ReapPending`: a cron.
* polls in `DocumentSigning`: the web client polls every four seconds
  (`apps/web/features/appointments/api/meeting.hooks.ts`).
* `ScRegistry`: the refresh of the commission status is a cron of every replica
  and part of every profile load; it competes for the model's requests, and the
  Supreme Court answers now and then (strong fairness of both).
* a request under way goes on (weak fairness of its steps), and crashes cease
  some time (`<>[][NextWithoutCrash]_vars`): otherwise a replica could crash in
  each poll and nothing would be finished.

Every property of a passing run has a *mutant*: a definition `X_Something` beside
`X` with a plausible bug, under which the run's property fails.

## 5. Theorems

All proofs are checked by TLAPS for every value of the constants that satisfies
the named assumption of the module: `BoundsAssumption` (payment),
`ExamAssumption`, `BookAssumption`, `SigningAssumption`,
`CommissionAssumption`, `ServicesAssumption`, `RegistryAssumption`,
`FeeAssumption`. They say that bounds are naturals
(that a clock may advance and that a duration is positive, where the code needs
it), that the signers of a document are finitely many, and which words a result
may be; requests, replicas and documents may be any sets. TLC evaluates each
assumption in the runs of its module.

The proofs have one plan. Every module has an inductive invariant of types, and
of what a request remembers of the rows between two statements: `JobOK(j)` says
of a job what its handler's last read still guarantees whatever others do. A
property that holds only "until two requests overlap" has a second invariant
under `~crowded` (`~crossed`, `~doubled`), which begins with "one request is
under way" and goes on with what that request may then rely on. Without these,
no property below is inductive: each needs to know what a request that is about
to write has seen.

* `MeetingPaymentProofs`: `TypeCorrect`; `ActiveIsPolled`
  (`ActiveIsLatest`), from the inductive invariant `IInv`, which
  adds that a call owns the intent it inserted (`OwnInv`) and that a call alone
  has cancelled all others (`AloneInv`); `Tracked` (`PayableIsTracked`);
  `CapturedStays` (`CapturedStaysSucceeded`) and `StaysPaid` (`EndedStaysPaid`),
  step properties from `OwnInv`, with the gateway's report of failure named in
  both. They hold for any number of calls and any
  sums, which the run `payment` does not reach.
* `MCMeetingProofs`, of the appointment: `TypeCorrect`; `Coherent` (`RowCoherent`) and
  `RoomOpen` (`InSessionRoomOpen`), from `AloneInv` (what a lone request has
  read still stands) and `RowInv`; `Implements` (`Spec => KeepsPromise`), and
  `ImplementsBooking`, the refinement of `Booking` by the behaviours without
  overlaps (`RaceFreeSpec`), each step of a lone request being a step of
  `Booking` or a stutter. Of the fee of a hearing: `JoinedAfterPaying` and
  `FeeStaysRecorded`, the safety of `PaidAndRecorded`, whatever overlaps, from
  `FeeInv`. A checkout writes HitPay's answer over whatever its intent has
  become; that this unmakes no payment needs to be known of three tables at
  once: an intent is captured only by its QR code, the request that asks for the
  code is the only one that has the intent, and until it has answered there is
  no code.
* `CertExamProofs`: `TypeCorrect`, `Extended` (`GraceOnce`) and `Funded`
  (`ConsumedFunds`), whatever overlaps and crashes. `GraceOnce` is not
  inductive: `ClockInv` and `JobInv` say that an attempt ends at
  `begun + Duration`, plus `Grace` exactly when it was resumed, and that every
  resume under way writes `begun + Duration + Grace`. `OneRetake`
  (`OneRetakePerIntent`: without overlaps a payment buys one attempt) needs also
  that a lone start's payment is not consumed (`AloneInv`); a run would need a
  third attempt to say anything of it, so it is proved and not run. `Answered`
  (`ClosedAsAnswered`) and `ResultIsFinal` (`ResultStands`) come from
  `ResultInv`: a lone request that grades, saves or resumes found the attempt
  open, and the grade it carries is that of the answers in the row.
  `BooksResults` (`ResultsAreBooked`) comes from `BookInv`, which says for each
  stage of a finalization which certificate or retake is still missing.
* `NotarialBookProofs`: `TypeCorrect`; `LastCompletes`
  (`LastSignatureCompletes`), whatever overlaps, from `LastInv`: a book with
  nothing left to sign has a request that will tally or complete it;
  `SignaturesAreKept` (`SignaturesStay`), a step property; `CompletedSigned`
  (`CompletedIsSigned`) and `OneAct` (`OneActPerDocument`) from `AloneInv`: a
  lone start still finds the book not started and no act of its documents
  (`WriterInv`, `ActsInv`), and its next number is one more than the count of
  acts (`NumberInv`, by the cardinality of a finite set).
* `DocumentSigningProofs`: `TypeCorrect`; `SignatureOfItsRow`
  (`SignatureStaysWithItsRow`), which holds whatever overlaps because an UPDATE
  names the row's id and `RowInv` ties ids to assignments; `SignedInOrder`
  (`InOrder`) and `CompletedSigned` (`CompletedOnSignatures`) from `AloneInv`:
  without a crossing an assignment is alone, and what a signer has found of the
  signers before it stands while any number of others sign; `StoredWhole`
  (`StoredPdfIsWhole`) from `SealInv`, until requests that write the PDF overlap
  (finalizations, and plotting links that make the project anew): a signer whose
  stamp is missing in what a finalization carries is still on its list.
* `CommissionProofs`: `TypeCorrect`; `Commissioned`
  (`CommissionedAfterHearing`), whatever overlaps and crashes; `Implements`
  (`KeepsDecision`), the refinement of `CommissionDecision`: a lone request
  that decides still finds the application open (`DecidingInv`), and every step
  is a step of the abstract decision or a stutter; `Tracks`
  (`HearingIsTracked`) from `TrackInv`, which says stage by stage which of
  recording, room and appointment is ahead of the others, and that only a report
  that is not so (`misreported`) parts the room from what runs.
* `MCProgressProofs`, for the registry in `ProgressSpec`: `RegisteredOnce`
  (`FiledOnce`) and `OverrideOutlasts` (`OverrideOutlastsRefresh`). `SyncedInv`,
  whatever overlaps and is lost: an act that shows as synced, or is about to,
  has been registered and has its reference. `AloneFiling`, unless submissions
  overlap or an answer is lost: one request is under way, it goes to file only
  an act that is not registered, and a registration is in the act's row or in
  the hands of the request that will write it. A refresh that has read the row
  before an override is why `OverrideOutlasts` needs that nothing overlaps.
* `MCServicesProofs`, for the services that act alone in `ServicesSpec`. A lemma
  (`OneService`) shows that a step is one of the service chosen at the start, so
  that each proof is about one service:
  * `LogAlwaysRight` (`LogIsRight`). `LogInv` says that ids are used once and
    that a row that no hand has touched hashes its content and the hash it was
    given; `ChainInv`, that without late clocks and deletions that hash is the
    one of the row before it; `HeadInv`, that an export's head stands for the
    rows it covers. That a log which verifies has been changed nowhere follows
    by going from row to row: the rows are finite and totally ordered, so each
    set of them has a first and a last (`FirstRow`, `LastRow`, by well-founded
    induction on finite subsets).
  * `CodesAlwaysWork` (`CodesWork`). `CodesInv`: a code that is being mailed or
    accepted is a row of the session it is for, and was mailed when it is
    accepted. `MailedInv`, unless one is cut off: a live code has been mailed or
    is on its way. `FreshInv`, unless requests overlap: a session's codes are
    strictly ordered in time.
  * `LastIntentShown` (`LastIntentIsShown`). `ShownInv`: a lone checkout links
    the newest of all intents, so that the payment a request names is never
    older than one with a link.
  * `IdentityIsLatest` (`StatusIsLatest`). `IdentityInv` adds that the latest
    transaction is there and that a review under way has been noted: no other
    step writes the status and leaves the transaction it belongs to.
  * `QueueStaysInOrder` (`QueueInOrder`) and `OutcomeIsOne` (`OneOutcome`), of
    the reviews. `ReviewRefs`, whatever overlaps and stops: the project, the
    document and the session that a job names are rows that are there, of what
    it is about, and a project has been opened and has its signer before it is
    linked. `TurnInv`, unless requests overlap: what the one request on the
    review has checked still holds, and all documents before the one it opens
    are in the queue and completed. `ReviewMade` and `SessionsMade`, unless one
    stops besides: what has been made, for a review that no request is on, and
    after each statement of an approval or of a project's start.

* `TypesCorrect` (`TypesOK`) of `MCServicesProofs` and `MCProgressProofs`: each
  component's types, which come with its inductive invariant, except the history
  flags (`FlagsInv`) and the results that a verification may have (`Outcomes`).
* `Composes` of `MCMeetingProofs`, `MCProgressProofs` and `MCServicesProofs`: a
  behaviour of the module that puts components side by side is one of each
  component's own specification (in `MCServices`, of the one that was chosen).
  So what is proved of `AppointmentLifecycle`, `CertExam` or `NotarialBook`
  alone holds of the runs `meeting`, `progress` and `services`.

Every invariant and every step property of the passing runs is a theorem, and so
are the refinements. What only TLC checks is liveness: `PaymentsSettle`,
`CanStartIsRefreshed`, `SignedIsCompleted`, `ExpiredIsClosed`, `StatusFollows`,
and the half of `PaidAndRecorded` that says a fee comes to be recorded
(`FeeIsRecorded`). They need fairness and ENABLED, which the prover does not
reason about. They hold on the instances of section 4 and nothing is claimed
beyond them.

No module has a RECURSIVE operator, and nothing is proved by induction over the
definition of a function: the verification of a log is stated over all of its
rows and not row by row.

## 6. What could follow

1. A composition of payment, signing and book with `updateStatus`'s end: an
   abstract specification "ended means paid, sealed and booked", and the
   conditions under which the end implements it. Today each of the three says
   its part of this (`EndedStaysPaid`, `CompletedOnSignatures`,
   `CompletedIsSigned`), and the `claim_` runs show where the parts do not meet.
2. `PdfArchive` (the archive job over several replicas), `SessionLobby` (guests
   and tokens), QuickSign beyond the queue of a review.

## 7. Not modelled, and why

* Clients of external services keep no state the properties speak of; where a
  service's answer matters it is an external or nondeterministic action.
* The web and mobile user interfaces, which are most of the repository's lines:
  what they do to the backend is that any request may come at any time, and
  that they poll, which is a fairness assumption. For the same reason the HTTP
  adapters, PDF rendering and export, legal templates and generated schema are
  not mapped, and the modules' share of all lines stays small while the
  services that decide anything are covered statement by statement.
* Single-statement CRUD (administration, templates, tickets, document types,
  messages, IEN attestation) has no interleaving to check.
* PDF and certificate contents, e-mail wording, question shuffling and AI text
  are data the properties do not tell apart.
* Left out of modelled parts: the reaper's minimum age; how late HyperVerge's
  logs are (any time); a QuickSign project that DocOnChain completes without a
  session; the checks of profiles and commission in front of a review;
  development-only simulations of payments; six hours of staleness before the
  commission status is refreshed (any time).
* Lists, search and calendars only read.

`PROJECT.json` lists every part with its status, and what is left out of it.
