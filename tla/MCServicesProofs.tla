---------------------------- MODULE MCServicesProofs ----------------------------
(***************************************************************************)
(* For any requests, rows and times, with every overlap and crash: what    *)
(* the record-keeping services and the reviews of documents promise.       *)
(***************************************************************************)
EXTENDS MCServices, NotarialBookProofs, Sequences

USE ServicesAssumption

-----------------------------------------------------------------------------
(* One service at a time *)

\* A behaviour is one of the service that was chosen at the start.
LEMMA OneService ==
  ASSUME [ServicesNext]_servicesVars
  PROVE  /\ active' = active
         /\ active = "book" => Next \/ UNCHANGED vars
         /\ active = "log" => Log!Next \/ UNCHANGED Log!vars
         /\ active = "codes" => Codes!Next \/ UNCHANGED Codes!vars
         /\ active = "copies" => Copies!Next \/ UNCHANGED Copies!vars
         /\ active = "reviews" => Reviews!Next \/ UNCHANGED Reviews!vars
         /\ active = "identity" => Identities!Next \/ UNCHANGED Identities!vars
<1>1. CASE UNCHANGED servicesVars
  BY <1>1 DEF servicesVars, requestVars, bookVars, logVars, codesVars, copyVars, reviewVars, identityVars,
     vars, Log!vars, Codes!vars, Copies!vars, Reviews!vars, Identities!vars
<1>2. CASE ServicesNext
  BY <1>2 DEF ServicesNext
<1> QED
  BY <1>1, <1>2

-----------------------------------------------------------------------------
(* EmailCodes: what is on its way names rows that are there *)

CodesData ==
    /\ sessions \in [Docs -> {"none", "required", "verified"}]
    /\ codes \in [Codes!CodeIds -> [status : {"absent", "live", "deleted"},
                                    session : Docs \cup {Codes!NoSession}, at : Codes!Times]]
    /\ inbox \subseteq Codes!CodeIds
    /\ time \in Codes!Times
    /\ job \in [Requests -> Codes!Jobs]

\* A code that is being mailed, taken back or accepted is a row of the session it is for,
\* and one that is being accepted was mailed.
CodeJobOK(j) ==
    /\ j.at \in {"send", "delete", "accept"} =>
          codes[j.code].status # "absent" /\ codes[j.code].session = j.for
    /\ j.at = "accept" => j.code \in inbox

CodesInv ==
    /\ CodesData
    /\ \A c \in inbox : codes[c].status # "absent"
    /\ \A h \in Requests : CodeJobOK(job[h])

\* A row stays its session's, with its time, and what was mailed is mailed.
CodesStay ==
    /\ \A c \in Codes!CodeIds : codes[c].status # "absent" =>
          /\ codes'[c].status # "absent"
          /\ codes'[c].session = codes[c].session /\ codes'[c].at = codes[c].at
    /\ inbox \subseteq inbox'

\* One request goes on, or none does.
Others(h) == \A g \in Requests \ {h} : job'[g] = job[g]

LEMMA InitCodes == Codes!Init => CodesInv
<1> SUFFICES ASSUME Codes!Init PROVE CodesInv
  OBVIOUS
<1>1. CodesData
  BY DEF Codes!Init, CodesData, Codes!NoCode, Codes!NoSession, Codes!Times, Codes!Jobs, Codes!Idle
<1> QED
  BY <1>1 DEF Codes!Init, CodesInv, CodeJobOK, Codes!Idle

\* What each job looks like.
LEMMA CodeJobs ==
  ASSUME CodesData, NEW h \in Requests
  PROVE  /\ job[h].at = "insert" =>
              job[h] = [at |-> "insert", for |-> job[h].for, time |-> job[h].time]
              /\ job[h].for \in Docs /\ job[h].time \in Codes!Times
         /\ job[h].at \in {"send", "delete", "accept"} =>
              job[h] = [at |-> job[h].at, for |-> job[h].for, code |-> job[h].code]
              /\ job[h].for \in Docs /\ job[h].code \in Codes!CodeIds
         /\ job[h].at = "idle" <=> ~Codes!Busy(h)
<1>1. job[h] \in Codes!Jobs
  BY DEF CodesData
<1> QED
  BY <1>1 DEF Codes!Jobs, Codes!Idle, Codes!Busy

\* A request arrives, to insert a code or to accept one that it found.
CodeArrives(h, j) ==
    /\ Codes!Arrive(h, j)
    /\ j.at = "accept" =>
          j.code \in inbox /\ codes[j.code].status # "absent" /\ codes[j.code].session = j.for

LEMMA CodesArrival ==
  ASSUME CodesInv, NEW h \in Requests,
         \/ \E s \in Docs : Codes!RequestMfa(h, s) \/ \E c \in Codes!CodeIds : Codes!VerifyMfa(h, s, c)
  PROVE  \E j \in Codes!Jobs : j.at \in {"insert", "accept"} /\ CodeArrives(h, j)
<1>1. ASSUME NEW s \in Docs, Codes!RequestMfa(h, s)
      PROVE  \E j \in Codes!Jobs : j.at \in {"insert", "accept"} /\ CodeArrives(h, j)
  <2>1. [at |-> "insert", for |-> s, time |-> time] \in Codes!Jobs
    BY DEF CodesInv, CodesData, Codes!Jobs
  <2> QED
    BY <1>1, <2>1 DEF Codes!RequestMfa, CodeArrives
<1>2. ASSUME NEW s \in Docs, NEW c \in Codes!CodeIds, Codes!VerifyMfa(h, s, c)
      PROVE  \E j \in Codes!Jobs : j.at \in {"insert", "accept"} /\ CodeArrives(h, j)
  <2>1. [at |-> "accept", for |-> s, code |-> c] \in Codes!Jobs
    BY DEF Codes!Jobs
  <2> QED
    BY <1>2, <2>1 DEF Codes!VerifyMfa, Codes!Latest, Codes!MfaRows, Codes!Live, CodeArrives
<1> QED
  BY <1>1, <1>2

\* What a request's next statement does to the rows and to its job, and that no other
\* request notices.
CodesStep(h) ==
    /\ CodesData' /\ CodesStay /\ Others(h)
    /\ \A c \in inbox' : c \in inbox \/ codes[c].status # "absent"
    /\ CodeJobOK(job[h])'

LEMMA CodesArrive ==
  ASSUME CodesInv, NEW h \in Requests, NEW j \in Codes!Jobs, CodeArrives(h, j),
         j.at \in {"insert", "accept"}
  PROVE  CodesStep(h)
<1>1. job' = [job EXCEPT ![h] = j] /\ UNCHANGED <<sessions, codes, inbox, time>>
  BY DEF CodeArrives, Codes!Arrive
<1>2. CodesData' /\ CodesStay /\ Others(h)
  BY <1>1 DEF CodesInv, CodesData, CodesStay, Others
<1>3. job'[h] = j
  BY <1>1 DEF CodesInv, CodesData
<1> QED
  BY <1>1, <1>2, <1>3 DEF CodesStep, CodeJobOK, CodeArrives

LEMMA CodesInsert ==
  ASSUME CodesInv, NEW h \in Requests, Codes!InsertCode(h) PROVE CodesStep(h)
<1>1. job[h].for \in Docs /\ job[h].time \in Codes!Times
  BY CodeJobs DEF Codes!InsertCode, CodesInv
<1>2. PICK c \in Codes!CodeIds :
        /\ codes[c].status = "absent"
        /\ codes' = [codes EXCEPT ![c] = [status |-> "live", session |-> job[h].for, at |-> job[h].time]]
        /\ job' = [job EXCEPT ![h] = [at |-> "send", for |-> job[h].for, code |-> c]]
  BY DEF Codes!InsertCode, Codes!Goto
<1>3. UNCHANGED <<sessions, inbox, time>>
  BY DEF Codes!InsertCode, Codes!Goto
<1>4. [at |-> "send", for |-> job[h].for, code |-> c] \in Codes!Jobs
  BY <1>1 DEF Codes!Jobs
<1>5. CodesData'
  BY <1>1, <1>2, <1>3, <1>4 DEF CodesInv, CodesData
<1>6. CodesStay /\ Others(h)
  BY <1>2, <1>3 DEF CodesInv, CodesData, CodesStay, Others
<1>7. codes'[c].status = "live" /\ codes'[c].session = job[h].for
      /\ job'[h] = [at |-> "send", for |-> job[h].for, code |-> c]
  BY <1>2 DEF CodesInv, CodesData
<1> QED
  BY <1>3, <1>5, <1>6, <1>7 DEF CodesStep, CodeJobOK

LEMMA CodesSend ==
  ASSUME CodesInv, NEW h \in Requests, Codes!SendCode(h) \/ Codes!SendFails(h) PROVE CodesStep(h)
<1>1. /\ job[h].at = "send" /\ job[h].code \in Codes!CodeIds /\ job[h].for \in Docs
      /\ job[h] = [at |-> "send", for |-> job[h].for, code |-> job[h].code]
      /\ codes[job[h].code].status # "absent" /\ codes[job[h].code].session = job[h].for
  BY CodeJobs DEF Codes!SendCode, Codes!SendFails, CodesInv, CodeJobOK
<1>2. PICK j : /\ job' = [job EXCEPT ![h] = j]
               /\ j = Codes!Idle \/ j = [at |-> "delete", for |-> job[h].for, code |-> job[h].code]
  BY <1>1 DEF Codes!SendCode, Codes!SendFails, Codes!Goto
<1>3. UNCHANGED <<sessions, codes, time>> /\ (inbox' = inbox \/ inbox' = inbox \cup {job[h].code})
  BY DEF Codes!SendCode, Codes!SendFails, Codes!Goto
<1>4. j \in Codes!Jobs
  BY <1>1, <1>2 DEF Codes!Jobs
<1>5. CodesData' /\ CodesStay /\ Others(h)
  BY <1>1, <1>2, <1>3, <1>4 DEF CodesInv, CodesData, CodesStay, Others
<1>6. job'[h] = j
  BY <1>2 DEF CodesInv, CodesData
<1> QED
  BY <1>1, <1>2, <1>3, <1>5, <1>6 DEF CodesStep, CodeJobOK, Codes!Idle

LEMMA CodesRetire ==
  ASSUME CodesInv, NEW h \in Requests,
         Codes!DeleteCode(h) \/ Codes!AcceptMfa(h)
  PROVE  CodesStep(h)
<1>1. /\ job[h].code \in Codes!CodeIds /\ job[h].for \in Docs
      /\ codes[job[h].code].status # "absent" /\ codes[job[h].code].session = job[h].for
  BY CodeJobs DEF Codes!DeleteCode, Codes!AcceptMfa, CodesInv, CodeJobOK
<1>2. job' = [job EXCEPT ![h] = Codes!Idle] /\ UNCHANGED <<inbox, time>>
  BY DEF Codes!DeleteCode, Codes!AcceptMfa, Codes!Goto
<1>3. sessions' \in [Docs -> {"none", "required", "verified"}]
  BY DEF Codes!DeleteCode, Codes!AcceptMfa, CodesInv, CodesData
<1>4. /\ codes' \in [Codes!CodeIds -> [status : {"absent", "live", "deleted"},
                                       session : Docs \cup {Codes!NoSession}, at : Codes!Times]]
      /\ CodesStay
  <2>1. CASE Codes!DeleteCode(h)
    BY <1>1, <1>2, <2>1 DEF Codes!DeleteCode, CodesInv, CodesData, CodesStay
  <2>2. CASE Codes!AcceptMfa(h)
    BY <1>1, <1>2, <2>2 DEF Codes!AcceptMfa, CodesInv, CodesData, CodesStay
  <2> QED
    BY <2>1, <2>2
<1>5. CodesData' /\ Others(h) /\ job'[h] = Codes!Idle
  BY <1>2, <1>3, <1>4 DEF CodesInv, CodesData, Others, Codes!Jobs
<1> QED
  BY <1>2, <1>4, <1>5 DEF CodesStep, CodeJobOK, Codes!Idle

LEMMA CodesAbort ==
  ASSUME CodesInv, NEW h \in Requests, Codes!Abort(h) PROVE CodesStep(h)
<1>1. job' = [job EXCEPT ![h] = Codes!Idle] /\ UNCHANGED <<sessions, codes, inbox, time>>
  BY DEF Codes!Abort
<1>2. CodesData' /\ CodesStay /\ Others(h) /\ job'[h] = Codes!Idle
  BY <1>1 DEF CodesInv, CodesData, CodesStay, Others, Codes!Jobs
<1> QED
  BY <1>1, <1>2 DEF CodesStep, CodeJobOK, Codes!Idle

LEMMA CodesElse ==
  ASSUME CodesInv, Codes!Tick \/ (\E s \in Docs : Codes!SignIn(s)) \/ UNCHANGED Codes!vars
  PROVE  CodesData' /\ CodesStay /\ UNCHANGED <<job, codes, inbox>>
<1>1. UNCHANGED <<job, codes, inbox>>
  BY DEF Codes!Tick, Codes!SignIn, Codes!vars
<1>2. sessions' \in [Docs -> {"none", "required", "verified"}]
  BY DEF CodesInv, CodesData, Codes!Tick, Codes!SignIn, Codes!vars
<1>3. time' \in Codes!Times
  <2>1. CASE Codes!Tick
    BY <2>1 DEF CodesInv, CodesData, Codes!Tick, Codes!Times
  <2> QED
    BY <2>1 DEF CodesInv, CodesData, Codes!SignIn, Codes!vars
<1> QED
  BY <1>1, <1>2, <1>3 DEF CodesInv, CodesData, CodesStay

\* Any step is one of these.
LEMMA CodesSteps ==
  ASSUME CodesInv, Codes!Next \/ UNCHANGED Codes!vars
  PROVE  \/ \E h \in Requests : CodesStep(h)
         \/ CodesData' /\ CodesStay /\ UNCHANGED <<job, codes, inbox>>
<1>1. ASSUME NEW h \in Requests,
             \/ \E s \in Docs : Codes!RequestMfa(h, s) \/ \E c \in Codes!CodeIds : Codes!VerifyMfa(h, s, c)
      PROVE  CodesStep(h)
  BY <1>1, CodesArrival, CodesArrive
<1> QED
  BY <1>1, CodesInsert, CodesSend, CodesRetire, CodesAbort, CodesElse, Zenon DEF Codes!Next

LEMMA NextCodes ==
  ASSUME CodesInv, Codes!Next \/ UNCHANGED Codes!vars PROVE CodesInv'
<1>1. ASSUME NEW h \in Requests, CodesStep(h) PROVE CodesInv'
  <2>1. ASSUME NEW c \in inbox' PROVE codes'[c].status # "absent"
    <3>1. c \in Codes!CodeIds /\ codes[c].status # "absent"
      BY <1>1 DEF CodesStep, CodesInv, CodesData
    <3> QED
      BY <1>1, <3>1 DEF CodesStep, CodesStay
  <2>2. ASSUME NEW g \in Requests \ {h} PROVE CodeJobOK(job[g])'
    <3>1. job'[g] = job[g] /\ CodeJobOK(job[g])
      BY <1>1 DEF CodesStep, Others, CodesInv
    <3>2. job[g].at \in {"send", "delete", "accept"} => job[g].code \in Codes!CodeIds
      BY CodeJobs DEF CodesInv
    <3> QED
      BY <1>1, <3>1, <3>2 DEF CodesStep, CodesStay, CodeJobOK
  <2> QED
    BY <1>1, <2>1, <2>2 DEF CodesStep, CodesInv
<1>2. CASE CodesData' /\ CodesStay /\ UNCHANGED <<job, codes, inbox>>
  BY <1>2 DEF CodesInv, CodeJobOK
<1> QED
  BY <1>1, <1>2, CodesSteps

-----------------------------------------------------------------------------
(* EmailCodes: a session is verified by its own code *)

\* The step that verifies a session accepts a code of that session that was mailed.
LEMMA CodesVerify ==
  ASSUME CodesInv, Codes!Next \/ UNCHANGED Codes!vars
  PROVE  \A s \in Docs : sessions'[s] = "verified" =>
              sessions[s] = "verified" \/ \E c \in inbox : codes[c].session = s
<1>1. CASE UNCHANGED sessions
  BY <1>1
<1>2. ASSUME NEW s \in Docs, Codes!SignIn(s)
      PROVE  \A t \in Docs : sessions'[t] = "verified" => sessions[t] = "verified"
  BY <1>2 DEF Codes!SignIn, CodesInv, CodesData
<1>3. ASSUME NEW h \in Requests, Codes!AcceptMfa(h)
      PROVE  \A s \in Docs : sessions'[s] = "verified" =>
                  sessions[s] = "verified" \/ \E c \in inbox : codes[c].session = s
  BY <1>3 DEF Codes!AcceptMfa, CodesInv, CodesData, CodeJobOK
<1>4. ASSUME NEW h \in Requests,
             \/ \E s \in Docs : Codes!RequestMfa(h, s) \/ \E c \in Codes!CodeIds : Codes!VerifyMfa(h, s, c)
             \/ Codes!InsertCode(h) \/ Codes!SendCode(h) \/ Codes!SendFails(h) \/ Codes!DeleteCode(h)
             \/ Codes!Abort(h)
      PROVE  UNCHANGED sessions
  BY <1>4 DEF Codes!RequestMfa, Codes!VerifyMfa, Codes!Arrive,
      Codes!InsertCode, Codes!SendCode, Codes!SendFails, Codes!DeleteCode, Codes!Abort
<1>5. CASE Codes!Tick \/ UNCHANGED Codes!vars
  BY <1>1, <1>5 DEF Codes!Tick, Codes!vars
<1> QED
  BY <1>1, <1>2, <1>3, <1>4, <1>5, Zenon DEF Codes!Next

LEMMA NextVerified ==
  ASSUME CodesInv, Codes!VerifiedByOwnCode, Codes!Next \/ UNCHANGED Codes!vars
  PROVE  Codes!VerifiedByOwnCode'
<1>1. \A c \in inbox : c \in inbox' /\ codes'[c].session = codes[c].session
  BY CodesSteps DEF CodesStep, CodesStay, CodesInv, CodesData
<1>2. \A s \in Docs : sessions'[s] = "verified" => \E c \in inbox : codes[c].session = s
  BY CodesVerify, Zenon DEF Codes!VerifiedByOwnCode
<1> QED
  BY <1>1, <1>2, Zenon DEF Codes!VerifiedByOwnCode

-----------------------------------------------------------------------------
(* EmailCodes: unless a request is cut off, a session's code is mailed or makes way *)

OnItsWay(c) == \E h \in Requests : job[h].at \in {"send", "delete"} /\ job[h].code = c

MailedInv ==
    \A c \in Codes!CodeIds : codes[c].status = "live" =>
        c \in inbox \/ OnItsWay(c)

LEMMA NextMailed ==
  ASSUME CodesInv, MailedInv, Codes!Next \/ UNCHANGED Codes!vars, ~crashed'
  PROVE  MailedInv'
<1>1. ASSUME NEW h \in Requests, CodesStep(h), job[h].at \notin {"send", "delete"},
             \A c \in Codes!CodeIds : codes'[c].status = "live" => codes[c].status = "live"
      PROVE  MailedInv'
  <2> SUFFICES ASSUME NEW c \in Codes!CodeIds, codes'[c].status = "live", c \notin inbox'
               PROVE  OnItsWay(c)'
    BY DEF MailedInv
  <2>1. codes[c].status = "live" /\ c \notin inbox
    BY <1>1 DEF CodesStep, CodesStay
  <2>2. PICK g \in Requests : job[g].at \in {"send", "delete"} /\ job[g].code = c
    BY <2>1 DEF MailedInv, OnItsWay
  <2>3. job'[g] = job[g]
    BY <1>1, <2>2 DEF CodesStep, Others
  <2> QED
    BY <2>2, <2>3 DEF OnItsWay
<1>2. ASSUME NEW h \in Requests, NEW j \in Codes!Jobs, CodeArrives(h, j), j.at \in {"insert", "accept"}
      PROVE  MailedInv'
  <2>1. job[h].at = "idle" /\ UNCHANGED codes
    BY <1>2 DEF CodeArrives, Codes!Arrive, Codes!Busy, Codes!Idle
  <2> QED
    BY <1>1, <1>2, <2>1, CodesArrive
<1>3. ASSUME NEW h \in Requests, Codes!InsertCode(h) PROVE MailedInv'
  <2>1. job[h].at = "insert" /\ inbox' = inbox
    BY <1>3 DEF Codes!InsertCode
  <2>2. PICK d \in Codes!CodeIds :
          /\ \A c \in Codes!CodeIds \ {d} : codes'[c] = codes[c]
          /\ job'[h].at = "send" /\ job'[h].code = d
    BY <1>3 DEF Codes!InsertCode, Codes!Goto, CodesInv, CodesData
  <2>3. CodesStep(h)
    BY <1>3, CodesInsert
  <2> SUFFICES ASSUME NEW c \in Codes!CodeIds, codes'[c].status = "live", c \notin inbox'
               PROVE  OnItsWay(c)'
    BY DEF MailedInv
  <2>4. CASE c = d
    BY <2>2, <2>4 DEF OnItsWay
  <2>5. CASE c # d
    <3>1. PICK g \in Requests : job[g].at \in {"send", "delete"} /\ job[g].code = c
      BY <2>1, <2>2, <2>5 DEF MailedInv, OnItsWay
    <3>2. job'[g] = job[g]
      BY <2>1, <2>3, <3>1 DEF CodesStep, Others
    <3> QED
      BY <3>1, <3>2 DEF OnItsWay
  <2> QED
    BY <2>4, <2>5
<1>4. ASSUME NEW h \in Requests, Codes!SendCode(h) \/ Codes!SendFails(h) \/ Codes!DeleteCode(h)
      PROVE  MailedInv'
  <2>1. CodesStep(h)
    BY <1>4, CodesSend, CodesRetire
  <2>2. /\ \A c \in Codes!CodeIds : codes'[c].status = "live" => codes[c].status = "live"
        /\ job[h].code \in Codes!CodeIds /\ codes[job[h].code].session = job[h].for
    BY <1>4, CodeJobs DEF Codes!SendCode, Codes!SendFails, Codes!DeleteCode, CodesInv, CodesData, CodeJobOK
  <2>3. \/ job[h].code \in inbox' \/ codes'[job[h].code].status # "live"
        \/ job'[h].at = "delete" /\ job'[h].code = job[h].code
    <3>1. CASE Codes!SendCode(h)
      BY <3>1 DEF Codes!SendCode
    <3>2. CASE Codes!DeleteCode(h)
      BY <2>2, <3>2 DEF Codes!DeleteCode, CodesInv, CodesData
    <3>3. CASE Codes!SendFails(h)
      <4> DEFINE j == [job[h] EXCEPT !.at = "delete"]
      <4>1. job[h] = [at |-> "send", for |-> job[h].for, code |-> job[h].code]
        BY <3>3, CodeJobs DEF Codes!SendFails, CodesInv
      <4>2. j = [at |-> "delete", for |-> job[h].for, code |-> job[h].code]
        BY <4>1
      <4>3. job' = [job EXCEPT ![h] = j]
        BY <3>3, Zenon DEF Codes!SendFails, Codes!Goto
      <4> HIDE DEF j
      <4> QED
        BY <4>2, <4>3 DEF CodesInv, CodesData
    <3> QED
      BY <1>4, <3>1, <3>2, <3>3
  <2> SUFFICES ASSUME NEW c \in Codes!CodeIds, codes'[c].status = "live", c \notin inbox'
               PROVE  OnItsWay(c)'
    BY DEF MailedInv
  <2>4. codes[c].status = "live" /\ codes'[c].session = codes[c].session /\ c \notin inbox
    BY <2>1, <2>2 DEF CodesStep, CodesStay
  <2>5. PICK g \in Requests : job[g].at \in {"send", "delete"} /\ job[g].code = c
    BY <2>4 DEF MailedInv, OnItsWay
  <2>6. CASE g = h
    BY <2>2, <2>3, <2>4, <2>5, <2>6 DEF OnItsWay
  <2>7. CASE g # h
    BY <2>1, <2>5, <2>7 DEF OnItsWay, CodesStep, Others
  <2> QED
    BY <2>6, <2>7
<1>5. ASSUME NEW h \in Requests, Codes!AcceptMfa(h) PROVE MailedInv'
  <2>1. \A c \in Codes!CodeIds : codes'[c].status = "live" => codes[c].status = "live"
    BY <1>5 DEF Codes!AcceptMfa, CodesInv, CodesData
  <2> QED
    BY <1>1, <1>5, <2>1, CodesRetire DEF Codes!AcceptMfa
<1>6. ASSUME NEW h \in Requests, Codes!Abort(h) PROVE FALSE
  BY <1>6 DEF Codes!Abort
<1>7. CASE Codes!Tick \/ (\E s \in Docs : Codes!SignIn(s)) \/ UNCHANGED Codes!vars
  BY <1>7, CodesElse DEF MailedInv, OnItsWay
<1>8. ASSUME NEW h \in Requests,
             \/ \E s \in Docs : Codes!RequestMfa(h, s) \/ \E c \in Codes!CodeIds : Codes!VerifyMfa(h, s, c)
      PROVE  MailedInv'
  BY <1>2, <1>8, CodesArrival
<1> QED
  BY <1>3, <1>4, <1>5, <1>6, <1>7, <1>8, Zenon DEF Codes!Next

-----------------------------------------------------------------------------
(* EmailCodes: unless requests overlap, no newer code stands before a session's code *)

Older(row, other) == row.at + Codes!Lifetime < other.at

\* A request that is alone inserts a code that is newer than its session's live codes, which
\* have expired.
FreshInv ==
    /\ \A g, h \in Requests : Codes!Busy(g) /\ Codes!Busy(h) => g = h
    /\ \A c \in Codes!Live : codes[c].at <= time
    /\ \A c, d \in Codes!Live : c # d /\ codes[c].session = codes[d].session =>
          Older(codes[c], codes[d]) \/ Older(codes[d], codes[c])
    /\ \A h \in Requests : job[h].at = "insert" =>
          /\ job[h].time <= time
          /\ \A c \in Codes!Live : codes[c].session = job[h].for =>
                codes[c].at + Codes!Lifetime < job[h].time

LEMMA FreshWorks ==
  ASSUME CodesInv, FreshInv, NEW c \in inbox \cap Codes!Live, ~Codes!Expired(c)
  PROVE  Codes!Latest(Codes!MfaRows(codes[c].session)) = {c}
<1>1. \A d \in Codes!Live : codes[d].at \in Nat /\ codes[d].at <= time
  BY DEF CodesInv, CodesData, Codes!Times, Codes!Live, FreshInv
<1>2. c \in Codes!MfaRows(codes[c].session)
  BY DEF Codes!MfaRows
<1>3. ASSUME NEW d \in Codes!MfaRows(codes[c].session), d # c PROVE Older(codes[d], codes[c])
  <2>1. Older(codes[c], codes[d]) \/ Older(codes[d], codes[c])
    BY <1>3, Zenon DEF FreshInv, Codes!MfaRows
  <2>2. d \in Codes!Live /\ time \in Nat
    BY DEF Codes!MfaRows, CodesInv, CodesData, Codes!Times
  <2> QED
    BY <1>1, <2>1, <2>2 DEF Older, Codes!Expired, Codes!Lifetime
<1>4. \A d \in Codes!MfaRows(codes[c].session) : codes[d].at <= codes[c].at /\ (d # c => codes[d].at < codes[c].at)
  BY <1>1, <1>3 DEF Older, Codes!Lifetime, Codes!MfaRows
<1> QED
  BY <1>1, <1>2, <1>4 DEF Codes!Latest, Codes!MfaRows

\* Steps after which there are no new live rows, and no new request to insert one.
LEMMA FreshKept ==
  ASSUME CodesInv, FreshInv,
         \A c \in Codes!CodeIds : codes'[c].status = "live" => codes[c].status = "live",
         CodesStay, time' \in Nat, time <= time',
         \A g \in Requests : job'[g] = job[g] \/ (job'[g].at \notin {"idle", "insert"} /\ Codes!Busy(g))
                             \/ job'[g] = Codes!Idle
  PROVE  FreshInv'
<1>1. \A c \in Codes!Live' : c \in Codes!Live /\ codes'[c].at = codes[c].at /\ codes'[c].session = codes[c].session
                             /\ codes[c].at \in Nat
  BY DEF Codes!Live, CodesStay, CodesInv, CodesData, Codes!Times
<1>2. \A g \in Requests : Codes!Busy(g)' => Codes!Busy(g)
  BY DEF Codes!Busy
<1>3. \A g, h \in Requests : Codes!Busy(g)' /\ Codes!Busy(h)' => g = h
  BY <1>2, Zenon DEF FreshInv
<1>4. \A c \in Codes!Live' : codes'[c].at <= time'
  BY <1>1 DEF FreshInv, CodesInv, CodesData, Codes!Times
<1>5. \A c, d \in Codes!Live' : c # d /\ codes'[c].session = codes'[d].session =>
        Older(codes'[c], codes'[d]) \/ Older(codes'[d], codes'[c])
  BY <1>1 DEF FreshInv, Older, Codes!Lifetime
<1>6. ASSUME NEW h \in Requests, job'[h].at = "insert"
      PROVE  /\ job'[h].time <= time'
             /\ \A c \in Codes!Live' : codes'[c].session = job'[h].for =>
                  codes'[c].at + Codes!Lifetime < job'[h].time
  <2>1. job'[h] = job[h] /\ job[h].at = "insert" /\ job[h].time \in Nat /\ time \in Nat
    BY <1>6, CodeJobs DEF Codes!Idle, CodesInv, CodesData, Codes!Times
  <2>2. job[h].time <= time'
    BY <2>1 DEF FreshInv
  <2>3. ASSUME NEW c \in Codes!Live', codes'[c].session = job[h].for
        PROVE  codes'[c].at + Codes!Lifetime < job[h].time
    <3>1. c \in Codes!Live /\ codes[c].session = job[h].for
      BY <1>1, <2>3
    <3> QED
      BY <1>1, <2>1, <2>3, <3>1 DEF FreshInv
  <2> QED
    BY <2>1, <2>2, <2>3
<1> QED
  BY <1>3, <1>4, <1>5, <1>6 DEF FreshInv

LEMMA FreshArrives ==
  ASSUME CodesInv, FreshInv, NEW h \in Requests, ~crowded',
         \/ \E s \in Docs : Codes!RequestMfa(h, s) \/ \E c \in Codes!CodeIds : Codes!VerifyMfa(h, s, c)
  PROVE  FreshInv'
<1>1. PICK j \in Codes!Jobs :
        /\ Codes!Arrive(h, j)
        /\ \/ j.at = "accept"
           \/ /\ j.at = "insert" /\ j.time = time
              /\ Codes!MfaRows(j.for) = {} \/ \E c \in Codes!Latest(Codes!MfaRows(j.for)) : Codes!Expired(c)
  <2>1. \A s \in Docs : [at |-> "insert", for |-> s, time |-> time] \in Codes!Jobs
    BY DEF CodesInv, CodesData, Codes!Jobs
  <2>2. \A s \in Docs, c \in Codes!CodeIds : [at |-> "accept", for |-> s, code |-> c] \in Codes!Jobs
    BY DEF Codes!Jobs
  <2>3. CASE \E s \in Docs : Codes!RequestMfa(h, s)
    BY <2>1, <2>3 DEF Codes!RequestMfa
  <2>4. CASE \E s \in Docs, c \in Codes!CodeIds : Codes!VerifyMfa(h, s, c)
    BY <2>2, <2>4 DEF Codes!VerifyMfa
  <2> QED
    BY <2>3, <2>4
<1>2. /\ ~Codes!Busy(h) /\ job' = [job EXCEPT ![h] = j] /\ UNCHANGED <<codes, inbox, time>>
      /\ \A g \in Requests \ {h} : ~Codes!Busy(g)
  BY <1>1, Zenon DEF Codes!Arrive
<1>3. \A g \in Requests : job'[g] = IF g = h THEN j ELSE job[g]
  BY <1>2 DEF CodesInv, CodesData
<1>4. \A g \in Requests \ {h} : ~Codes!Busy(g)'
  BY <1>2, <1>3 DEF Codes!Busy
<1>5. \A f, g \in Requests : Codes!Busy(f)' /\ Codes!Busy(g)' => f = g
  BY <1>4, Zenon
<1>6. ASSUME j.at = "insert", NEW c \in Codes!MfaRows(j.for)
      PROVE  codes[c].at + Codes!Lifetime < time
  <2>1. PICK d \in Codes!Latest(Codes!MfaRows(j.for)) : Codes!Expired(d)
    BY <1>1, <1>6
  <2>2. codes[c].at <= codes[d].at /\ c \in Codes!CodeIds /\ d \in Codes!CodeIds
    BY <1>6, <2>1 DEF Codes!Latest, Codes!MfaRows, Codes!Live
  <2>3. codes[c].at \in Nat /\ codes[d].at \in Nat /\ time \in Nat
    BY <2>2 DEF CodesInv, CodesData, Codes!Times
  <2> QED
    BY <2>1, <2>2, <2>3 DEF Codes!Expired, Codes!Lifetime
<1>7. ASSUME NEW g \in Requests, job'[g].at = "insert"
      PROVE  /\ job'[g].time <= time'
             /\ \A c \in Codes!Live' : codes'[c].session = job'[g].for =>
                  codes'[c].at + Codes!Lifetime < job'[g].time
  <2>1. g = h
    BY <1>4, <1>7 DEF Codes!Busy, Codes!Idle
  <2>2. job'[g] = j /\ j.at = "insert" /\ j.time = time /\ time \in Nat
    BY <1>1, <1>3, <1>7, <2>1 DEF CodesInv, CodesData, Codes!Times
  <2>3. \A c \in Codes!Live' : codes'[c].session = j.for => c \in Codes!MfaRows(j.for)
    BY <1>2 DEF Codes!MfaRows, Codes!Live
  <2> QED
    BY <1>2, <1>6, <2>2, <2>3
<1>8. Codes!Live' = Codes!Live
  BY <1>2 DEF Codes!Live
<1> QED
  BY <1>2, <1>5, <1>7, <1>8 DEF FreshInv

\* The new row is newer than the live rows of its session.
LEMMA FreshInserted ==
  ASSUME CodesInv, FreshInv, NEW h \in Requests, Codes!InsertCode(h) PROVE FreshInv'
<1>1. PICK d \in Codes!CodeIds :
        /\ codes[d].status = "absent"
        /\ codes' = [codes EXCEPT ![d] = [status |-> "live", session |-> job[h].for, at |-> job[h].time]]
        /\ job' = [job EXCEPT ![h] = [at |-> "send", for |-> job[h].for, code |-> d]]
  BY DEF Codes!InsertCode, Codes!Goto
<1>2. UNCHANGED time /\ time \in Nat /\ job[h].at = "insert" /\ job[h].time \in Nat
  BY CodeJobs DEF Codes!InsertCode, Codes!Goto, CodesInv, CodesData, Codes!Times
<1>3. /\ codes'[d] = [status |-> "live", session |-> job[h].for, at |-> job[h].time]
      /\ \A c \in Codes!CodeIds \ {d} : codes'[c] = codes[c]
      /\ \A g \in Requests \ {h} : job'[g] = job[g]
      /\ job'[h].at = "send"
  BY <1>1 DEF CodesInv, CodesData
<1>4. \A c \in Codes!Live' : c = d \/ (c \in Codes!Live /\ codes'[c] = codes[c])
  BY <1>3 DEF Codes!Live
<1>5. \A g \in Requests : Codes!Busy(g)' => Codes!Busy(g)
  BY <1>2, <1>3 DEF Codes!Busy, Codes!Idle
<1>6. \A f, g \in Requests : Codes!Busy(f)' /\ Codes!Busy(g)' => f = g
  BY <1>5, Zenon DEF FreshInv
<1>7. \A c \in Codes!Live' : codes'[c].at <= time'
  BY <1>2, <1>3, <1>4 DEF FreshInv
<1>8. ASSUME NEW c \in Codes!Live', c # d, codes'[c].session = codes'[d].session
      PROVE  Older(codes'[c], codes'[d])
  <2>1. c \in Codes!Live /\ codes[c].session = job[h].for
    BY <1>3, <1>4, <1>8
  <2>2. codes[c].at + Codes!Lifetime < job[h].time
    BY <1>2, <2>1 DEF FreshInv
  <2> QED
    BY <1>3, <1>4, <1>8, <2>2 DEF Older
<1>9. ASSUME NEW b \in Codes!Live', NEW c \in Codes!Live', b # c, codes'[b].session = codes'[c].session
      PROVE  Older(codes'[b], codes'[c]) \/ Older(codes'[c], codes'[b])
  <2>1. CASE b = d \/ c = d
    BY <1>8, <1>9, <2>1
  <2>2. CASE b # d /\ c # d
    <3>1. b \in Codes!Live /\ c \in Codes!Live /\ codes'[b] = codes[b] /\ codes'[c] = codes[c]
      BY <1>4, <2>2
    <3> QED
      BY <1>9, <3>1 DEF FreshInv, Older
  <2> QED
    BY <2>1, <2>2
<1>10. ASSUME NEW g \in Requests, job'[g].at = "insert" PROVE FALSE
  <2>1. g # h /\ job[g].at = "insert"
    BY <1>3, <1>10
  <2> QED
    BY <1>2, <2>1 DEF FreshInv, Codes!Busy, Codes!Idle
<1> QED
  BY <1>6, <1>7, <1>9, <1>10 DEF FreshInv

LEMMA NextFresh ==
  ASSUME CodesInv, FreshInv, Codes!Next \/ UNCHANGED Codes!vars, ~crowded'
  PROVE  FreshInv'
<1>1. time \in Nat
  BY DEF CodesInv, CodesData, Codes!Times
<1>2. ASSUME NEW h \in Requests,
             Codes!SendCode(h) \/ Codes!SendFails(h) \/ Codes!DeleteCode(h)
             \/ Codes!AcceptMfa(h) \/ Codes!Abort(h)
      PROVE  FreshInv'
  <2>1. CodesStep(h)
    BY <1>2, CodesSend, CodesRetire, CodesAbort
  <2>2. UNCHANGED time
    BY <1>2 DEF Codes!SendCode, Codes!SendFails, Codes!DeleteCode, Codes!AcceptMfa, Codes!Abort, Codes!Goto
  <2>3. \A c \in Codes!CodeIds : codes'[c].status = "live" => codes[c].status = "live"
    <3>1. CASE Codes!AcceptMfa(h)
      BY <3>1 DEF Codes!AcceptMfa, CodesInv, CodesData
    <3>2. CASE Codes!SendCode(h) \/ Codes!SendFails(h) \/ Codes!Abort(h)
      BY <3>2 DEF Codes!SendCode, Codes!SendFails, Codes!Abort
    <3>3. CASE Codes!DeleteCode(h)
      BY <3>3 DEF Codes!DeleteCode, CodesInv, CodesData
    <3> QED
      BY <1>2, <3>1, <3>2, <3>3
  <2>4. job'[h] = Codes!Idle \/ (job'[h].at = "delete" /\ Codes!Busy(h))
    <3>1. CASE Codes!SendFails(h)
      <4> DEFINE j == [job[h] EXCEPT !.at = "delete"]
      <4>1. job[h] = [at |-> "send", for |-> job[h].for, code |-> job[h].code] /\ Codes!Busy(h)
        BY <3>1, CodeJobs DEF Codes!SendFails, CodesInv
      <4>2. j.at = "delete"
        BY <4>1
      <4>3. job' = [job EXCEPT ![h] = j]
        BY <3>1, Zenon DEF Codes!SendFails, Codes!Goto
      <4> HIDE DEF j
      <4> QED
        BY <4>1, <4>2, <4>3 DEF CodesInv, CodesData
    <3>2. CASE ~Codes!SendFails(h)
      <4>1. job' = [job EXCEPT ![h] = Codes!Idle]
        BY <1>2, <3>2, Zenon DEF Codes!SendCode, Codes!SendFails, Codes!DeleteCode, Codes!AcceptMfa, Codes!Abort, Codes!Goto
      <4> QED
        BY <4>1 DEF CodesInv, CodesData
    <3> QED
      BY <3>1, <3>2
  <2>5. \A g \in Requests : job'[g] = job[g] \/ (job'[g].at \notin {"idle", "insert"} /\ Codes!Busy(g))
                             \/ job'[g] = Codes!Idle
    BY <2>1, <2>4 DEF CodesStep, Others
  <2> QED
    BY <1>1, <2>1, <2>2, <2>3, <2>5, FreshKept DEF CodesStep
<1>3. CASE Codes!Tick \/ (\E s \in Docs : Codes!SignIn(s)) \/ UNCHANGED Codes!vars
  <2>1. CodesData' /\ CodesStay /\ UNCHANGED <<job, codes, inbox>>
    BY <1>3, CodesElse
  <2>2. time' \in Nat /\ time <= time'
    BY <1>1, <1>3, <2>1 DEF Codes!Tick, Codes!SignIn, Codes!vars
  <2> QED
    BY <2>1, <2>2, FreshKept
<1>4. ASSUME NEW h \in Requests,
             \/ \E s \in Docs : Codes!RequestMfa(h, s) \/ \E c \in Codes!CodeIds : Codes!VerifyMfa(h, s, c)
             \/ Codes!InsertCode(h)
      PROVE  FreshInv'
  BY <1>4, FreshArrives, FreshInserted
<1> QED
  BY <1>2, <1>3, <1>4, Zenon DEF Codes!Next

LEMMA CodesHistory ==
  ASSUME Codes!Next \/ UNCHANGED Codes!vars
  PROVE  (crashed => crashed') /\ (crowded => crowded')
<1>1. ASSUME NEW h \in Requests, NEW j, Codes!Arrive(h, j) PROVE (crashed => crashed') /\ (crowded => crowded')
  BY <1>1, Zenon DEF Codes!Arrive
<1>2. ASSUME NEW h \in Requests,
             \/ Codes!InsertCode(h) \/ Codes!SendCode(h) \/ Codes!SendFails(h) \/ Codes!DeleteCode(h)
             \/ Codes!AcceptMfa(h)
      PROVE  UNCHANGED <<crowded, crashed>>
  BY <1>2 DEF Codes!InsertCode, Codes!SendCode, Codes!SendFails, Codes!DeleteCode, Codes!AcceptMfa, Codes!Goto
<1>3. ASSUME NEW h \in Requests, Codes!Abort(h) PROVE crashed' /\ UNCHANGED crowded
  BY <1>3, Zenon DEF Codes!Abort
<1>4. CASE Codes!Tick \/ (\E s \in Docs : Codes!SignIn(s)) \/ UNCHANGED Codes!vars
  <2>1. UNCHANGED <<crowded, crashed>>
    BY <1>4 DEF Codes!Tick, Codes!SignIn, Codes!vars
  <2> QED
    BY <2>1, Zenon
<1>5. ASSUME NEW h \in Requests,
             \/ \E s \in Docs : Codes!RequestMfa(h, s) \/ \E c \in Codes!CodeIds : Codes!VerifyMfa(h, s, c)
      PROVE  (crashed => crashed') /\ (crowded => crowded')
  BY <1>1, <1>5, Zenon DEF Codes!RequestMfa, Codes!VerifyMfa
<1> QED
  BY <1>2, <1>3, <1>4, <1>5, Zenon DEF Codes!Next

CodesIInv ==
    /\ CodesInv
    /\ Codes!VerifiedByOwnCode
    /\ ~crashed => MailedInv
    /\ ~crowded => FreshInv

LEMMA CodesIInvWorks == CodesIInv => Codes!CodesWork
<1> SUFFICES ASSUME CodesIInv PROVE Codes!CodesWork
  OBVIOUS
<1>1. Codes!MailedCodeWorks
  BY FreshWorks, Zenon DEF CodesIInv, Codes!MailedCodeWorks
<1>2. Codes!MailedOrGone
  BY Zenon DEF CodesIInv, MailedInv, OnItsWay, Codes!MailedOrGone, Codes!Live
<1> QED
  BY <1>1, <1>2 DEF CodesIInv, Codes!CodesWork

LEMMA InitCodesIInv == Codes!Init => CodesIInv
<1> SUFFICES ASSUME Codes!Init PROVE CodesIInv
  OBVIOUS
<1>1. CodesInv
  BY InitCodes
<1>2. \A c \in Codes!CodeIds : codes[c].status = "absent"
  BY DEF Codes!Init, Codes!NoCode
<1>3. \A h \in Requests : job[h] = Codes!Idle
  BY DEF Codes!Init
<1>4. Codes!VerifiedByOwnCode
  BY DEF Codes!Init, Codes!VerifiedByOwnCode
<1>5. MailedInv
  BY <1>2 DEF MailedInv
<1>6. FreshInv
  BY <1>2, <1>3 DEF FreshInv, Codes!Live, Codes!Busy, Codes!Idle
<1> QED
  BY <1>1, <1>4, <1>5, <1>6 DEF CodesIInv

\* The codes' tables agree when the codes are in play.
LEMMA CodesInvariance == ServicesSpec => [](active = "codes" => CodesIInv)
<1>1. ServicesInit => (active = "codes" => CodesIInv)
  BY InitCodesIInv DEF ServicesInit
<1>2. (active = "codes" => CodesIInv) /\ [ServicesNext]_servicesVars => (active = "codes" => CodesIInv)'
  <2> SUFFICES ASSUME active = "codes" => CodesIInv, [ServicesNext]_servicesVars, active' = "codes"
               PROVE  CodesIInv'
    OBVIOUS
  <2>1. Codes!Next \/ UNCHANGED Codes!vars
    BY OneService
  <2>2. CodesIInv
    BY OneService
  <2>3. CodesInv' /\ Codes!VerifiedByOwnCode'
    BY <2>1, <2>2, NextCodes, NextVerified DEF CodesIInv
  <2>4. ~crashed' => MailedInv'
    BY <2>1, <2>2, CodesHistory, NextMailed, Zenon DEF CodesIInv
  <2>5. ~crowded' => FreshInv'
    BY <2>1, <2>2, CodesHistory, NextFresh, Zenon DEF CodesIInv
  <2> QED
    BY <2>3, <2>4, <2>5 DEF CodesIInv
<1> QED
  BY <1>1, <1>2, PTL DEF ServicesSpec

\* Whatever the user asks for and the mailer does, a code mailed for a session is accepted until
\* it expires unless requests overlap, a session's code reaches the user or makes way unless a
\* request is cut off, and nothing but a session's own code verifies it (EmailMfaService).
THEOREM CodesAlwaysWork == ServicesSpec => []CodesWork
<1>1. (active = "codes" => CodesIInv) => CodesWork
  BY CodesIInvWorks DEF CodesWork
<1> QED
  BY <1>1, CodesInvariance, PTL

-----------------------------------------------------------------------------
(* Identity: the status is that of the latest verification *)

IdResults == {"success", "needs_review", "fail"}
IdTxns == [Identities!TxnIds -> [kind : {"onboarding", "liveness"},
                                 status : {"absent", "started"} \cup IdResults,
                                 sdk : BOOLEAN, webhook : BOOLEAN, id : Identities!Dates \cup {0}]]

IdentityData ==
    /\ day \in Identities!Time
    /\ txns \in IdTxns
    /\ profile \in [status : {"unverified", "verified", "failed"}, verifiedAt : Identities!Time \cup {0},
                    idUntil : Identities!Dates \cup {0}, latest : 0..MaxTxns]
    /\ job \in [Requests -> Identities!Jobs]

\* The latest verification has begun; while no administrator has reviewed it, the status is its
\* outcome's.  Only a review writes the status otherwise.
IdentityInv ==
    /\ IdentityData
    /\ \A h \in Requests : job[h].at = "review" => reviewed
    /\ profile.latest # 0 => txns[profile.latest].status # "absent"
    /\ Identities!StatusIsLatest

LEMMA InitIdentity == Identities!Init => IdentityInv
<1> SUFFICES ASSUME Identities!Init PROVE IdentityInv
  OBVIOUS
<1>1. txns \in IdTxns
  BY DEF Identities!Init, Identities!NoTxn, IdTxns, IdResults, Identities!Dates
<1>2. IdentityData
  BY <1>1 DEF IdentityData, Identities!Init, Identities!Time, Identities!Dates, Identities!Jobs
<1> QED
  BY <1>2 DEF Identities!Init, IdentityInv, Identities!Idle, Identities!StatusIsLatest

\* What each job looks like.
LEMMA IdentityJobs ==
  ASSUME IdentityData, NEW h \in Requests
  PROVE  /\ job[h].at \in {"write", "store"} => job[h].txn \in Identities!TxnIds
         /\ job[h].at = "write" => job[h].channel \in {"sdk", "webhook"} /\ job[h].result \in IdResults
         /\ job[h].at = "review" => job[h].result \in {"success", "fail"}
<1>1. job[h] \in Identities!Jobs
  BY DEF IdentityData
<1>2. CASE job[h] \in [at : {"write"}, txn : Identities!TxnIds, channel : {"sdk", "webhook"}, result : Results]
  BY <1>2 DEF IdResults
<1>3. CASE job[h] \in [at : {"store"}, txn : Identities!TxnIds]
  BY <1>3
<1>4. CASE job[h] \in [at : {"review"}, result : {"success", "fail"}]
  BY <1>4
<1>5. CASE job[h] \in {Identities!Idle} \cup [at : {"reset"}]
  BY <1>5 DEF Identities!Idle
<1> QED
  BY <1>1, <1>2, <1>3, <1>4, <1>5, Zenon DEF Identities!Jobs

LEMMA IdentityAfter ==
  ASSUME NEW h, NEW t \in Identities!TxnIds, NEW r
  PROVE  Identities!AfterResult(h, t, r) \in Identities!Jobs /\ Identities!AfterResult(h, t, r).at # "review"
BY DEF Identities!AfterResult, Identities!Jobs, Identities!Idle

\* The row of a new attempt.
LEMMA StartedIs ==
  ASSUME NEW kind, NEW id \in Nat
  PROVE  [Identities!NoTxn EXCEPT !.kind = kind, !.status = "started", !.id = id]
         = [kind |-> kind, status |-> "started", sdk |-> FALSE, webhook |-> FALSE, id |-> id]
<1> DEFINE Row == [kind |-> "onboarding", status |-> "absent", sdk |-> FALSE, webhook |-> FALSE, id |-> 0]
<1>n. PICK n : n = Row
  OBVIOUS
<1>1. PICK k : k = [n EXCEPT !.kind = kind]
  OBVIOUS
<1>2. k = [kind |-> kind, status |-> "absent", sdk |-> FALSE, webhook |-> FALSE, id |-> 0]
  BY <1>n, <1>1
<1>3. PICK s : s = [k EXCEPT !.status = "started"]
  OBVIOUS
<1>4. s = [kind |-> kind, status |-> "started", sdk |-> FALSE, webhook |-> FALSE, id |-> 0]
  BY <1>2, <1>3
<1>5. [s EXCEPT !.id = id] = [kind |-> kind, status |-> "started", sdk |-> FALSE, webhook |-> FALSE, id |-> id]
  <2>1. PICK i : i \in Nat /\ i = id
    OBVIOUS
  <2>2. s \in [kind : {kind}, status : {"started"}, sdk : BOOLEAN, webhook : BOOLEAN, id : Nat]
    BY <1>4
  <2>3. [s EXCEPT !.id = i]
        = [kind |-> s.kind, status |-> s.status, sdk |-> s.sdk, webhook |-> s.webhook, id |-> i]
    BY <2>1, <2>2
  <2> QED
    BY <1>4, <2>1, <2>3
<1> QED
  BY <1>n, <1>1, <1>3, <1>5, Zenon DEF Identities!NoTxn

\* An attempt begins on a row that the profile does not name.
LEMMA IdentityStart ==
  ASSUME IdentityInv, NEW kind \in {"onboarding", "liveness"}, NEW id \in Identities!Dates \cup {0},
         Identities!StartAttempt(kind, id)
  PROVE  IdentityInv'
<1> DEFINE R == [kind |-> kind, status |-> "started", sdk |-> FALSE, webhook |-> FALSE, id |-> id]
<1>1. [Identities!NoTxn EXCEPT !.kind = kind, !.status = "started", !.id = id] = R
  <2>1. id \in Nat
    BY DEF Identities!Dates
  <2> QED
    BY <2>1, StartedIs, Zenon
<1>2. PICK t \in Identities!TxnIds : txns[t].status = "absent" /\ txns' = [txns EXCEPT ![t] = R]
  BY <1>1, Zenon DEF Identities!StartAttempt
<1>3. UNCHANGED <<day, profile, job, reviewed>>
  BY DEF Identities!StartAttempt
<1>4. txns' \in IdTxns
  BY <1>2 DEF IdentityInv, IdentityData, IdTxns
<1>5. \A s \in Identities!TxnIds \ {t} : txns'[s] = txns[s]
  BY <1>2 DEF IdentityInv, IdentityData, IdTxns
<1>6. profile.latest # 0 => profile.latest \in Identities!TxnIds \ {t}
  BY <1>2 DEF IdentityInv, IdentityData, Identities!TxnIds
<1>7. IdentityData'
  BY <1>3, <1>4 DEF IdentityInv, IdentityData
<1> QED
  BY <1>3, <1>5, <1>6, <1>7 DEF IdentityInv, Identities!StatusIsLatest, Identities!Succeeded

\* A result is one transaction: the profile's verdict is that of the row it now names.
LEMMA IdentityWrite ==
  ASSUME IdentityInv, NEW h \in Requests, Identities!WriteCallback(h)
  PROVE  IdentityInv'
<1> DEFINE t == job[h].txn
           r == job[h].result
<1>1. t \in Identities!TxnIds /\ r \in IdResults /\ job[h].channel \in {"sdk", "webhook"}
  BY IdentityJobs DEF Identities!WriteCallback, IdentityInv
<1>2. txns' = Identities!Received(h) /\ UNCHANGED <<day, reviewed>>
      /\ job' = [job EXCEPT ![h] = Identities!AfterResult(h, t, r)]
  BY DEF Identities!WriteCallback, Identities!Goto
<1>3. /\ txns' \in IdTxns
      /\ txns'[t].status = r /\ txns'[t].kind = txns[t].kind
      /\ \A s \in Identities!TxnIds \ {t} : txns'[s] = txns[s]
  <2>1. txns \in IdTxns
    BY DEF IdentityInv, IdentityData
  <2>2. txns' = [txns EXCEPT ![t].status = r, ![t][job[h].channel] = TRUE]
    BY <1>2, Zenon DEF Identities!Received
  <2> DEFINE R == [txns[t] EXCEPT !.status = r]
             S == [txns EXCEPT ![t] = R]
  <2>3. R = [kind |-> txns[t].kind, status |-> r, sdk |-> txns[t].sdk, webhook |-> txns[t].webhook,
             id |-> txns[t].id]
    BY <1>1, <2>1 DEF IdTxns
  <2>4. S \in IdTxns /\ S[t] = R /\ \A s \in Identities!TxnIds \ {t} : S[s] = txns[s]
    BY <1>1, <2>1, <2>3 DEF IdTxns
  <2> QED
    BY <1>1, <2>1, <2>2, <2>3, <2>4 DEF IdTxns
<1>4. job' \in [Requests -> Identities!Jobs] /\ \A g \in Requests : job'[g] = job[g] \/ job'[g].at # "review"
  BY <1>1, <1>2, IdentityAfter DEF IdentityInv, IdentityData
<1>5. CASE txns[t].kind # "onboarding"
  <2>1. UNCHANGED profile
    BY <1>5 DEF Identities!WriteCallback
  <2>2. profile.latest # 0 => profile.latest \in Identities!TxnIds
    BY DEF IdentityInv, IdentityData, Identities!TxnIds
  <2>3. IdentityData'
    BY <1>2, <1>3, <1>4, <2>1 DEF IdentityInv, IdentityData
  <2>4. ~reviewed /\ profile.latest # 0 => txns'[profile.latest] = txns[profile.latest]
    BY <1>3, <1>5, <2>2, <1>1 DEF IdentityInv, Identities!StatusIsLatest
  <2>5. profile.latest # 0 => txns'[profile.latest].status # "absent"
    BY <1>1, <1>3, <2>2 DEF IdentityInv, IdResults
  <2> QED
    BY <1>2, <1>4, <2>1, <2>3, <2>4, <2>5 DEF IdentityInv, Identities!StatusIsLatest, Identities!Succeeded
<1>6. CASE txns[t].kind = "onboarding"
  <2>1. profile' = Identities!Verdict(profile, job[h])
    BY <1>6 DEF Identities!WriteCallback
  <2>2. profile' = [status |-> IF r = "success" THEN "verified" ELSE "failed",
                    verifiedAt |-> IF r = "success" THEN day ELSE 0,
                    idUntil |-> profile.idUntil, latest |-> t]
    BY <2>1 DEF Identities!Verdict, IdentityInv, IdentityData
  <2>3. day \in Identities!Time /\ day # 0 /\ t \in 0..MaxTxns /\ t # 0
    BY <1>1 DEF IdentityInv, IdentityData, Identities!Time, Identities!TxnIds
  <2>4. IdentityData'
    BY <1>2, <1>3, <1>4, <2>2, <2>3 DEF IdentityInv, IdentityData
  <2> QED
    BY <1>1, <1>2, <1>3, <1>4, <1>6, <2>2, <2>3, <2>4
    DEF IdentityInv, Identities!StatusIsLatest, Identities!Succeeded, IdResults
<1> QED
  BY <1>5, <1>6

LEMMA NextIdentity ==
  ASSUME IdentityInv, Identities!Next \/ UNCHANGED Identities!vars
  PROVE  IdentityInv'
<1>1. CASE Identities!Tick
  <2>1. day' \in Identities!Time /\ UNCHANGED <<txns, profile, job, reviewed>>
    BY <1>1 DEF Identities!Tick, IdentityInv, IdentityData, Identities!Time
  <2> QED
    BY <2>1 DEF IdentityInv, IdentityData, Identities!StatusIsLatest, Identities!Succeeded
<1>2. ASSUME NEW h \in Requests, NEW t \in Identities!TxnIds, NEW c \in {"sdk", "webhook"}, NEW r \in Results,
             Identities!CheckCallback(h, t, c, r)
      PROVE  IdentityInv'
  <2>1. PICK j \in Identities!Jobs : j.at # "review" /\ job' = [job EXCEPT ![h] = j]
    <3>1. [at |-> "write", txn |-> t, channel |-> c, result |-> r] \in Identities!Jobs
      BY <1>2 DEF Identities!Jobs
    <3> QED
      BY <1>2, <3>1, IdentityAfter DEF Identities!CheckCallback, Identities!Arrive
  <2>2. UNCHANGED <<day, txns, profile, reviewed>>
    BY <1>2 DEF Identities!CheckCallback
  <2> QED
    BY <2>1, <2>2 DEF IdentityInv, IdentityData, Identities!StatusIsLatest, Identities!Succeeded
<1>3. ASSUME NEW h \in Requests, Identities!StoreIdExpiry(h) PROVE IdentityInv'
  <2>1. job[h].txn \in Identities!TxnIds
    BY <1>3, IdentityJobs DEF Identities!StoreIdExpiry, IdentityInv
  <2>2. /\ profile' = [profile EXCEPT !.idUntil = txns[job[h].txn].id]
        /\ job' = [job EXCEPT ![h] = Identities!Idle] /\ UNCHANGED <<day, txns, reviewed>>
    BY <1>3 DEF Identities!StoreIdExpiry, Identities!Goto
  <2>3. txns[job[h].txn].id \in Identities!Dates \cup {0}
    BY <2>1 DEF IdentityInv, IdentityData, IdTxns
  <2> QED
    BY <2>2, <2>3 DEF IdentityInv, IdentityData, Identities!StatusIsLatest, Identities!Succeeded, Identities!Jobs,
       Identities!Idle
<1>4. ASSUME NEW h \in Requests, Identities!CheckExpiry(h) PROVE IdentityInv'
  <2>1. job' = [job EXCEPT ![h] = [at |-> "reset"]] /\ UNCHANGED <<day, txns, profile, reviewed>>
    BY <1>4 DEF Identities!CheckExpiry, Identities!Arrive
  <2> QED
    BY <2>1 DEF IdentityInv, IdentityData, Identities!StatusIsLatest, Identities!Succeeded, Identities!Jobs
<1>5. ASSUME NEW h \in Requests, Identities!ResetIdentity(h) PROVE IdentityInv'
  <2>1. /\ job' = [job EXCEPT ![h] = Identities!Idle] /\ UNCHANGED <<day, txns, reviewed>>
        /\ profile' = [profile EXCEPT !.status = "unverified", !.verifiedAt = 0]
    BY <1>5 DEF Identities!ResetIdentity, Identities!Goto
  <2>2. profile' = [status |-> "unverified", verifiedAt |-> 0, idUntil |-> profile.idUntil,
                    latest |-> profile.latest]
    BY <2>1 DEF IdentityInv, IdentityData
  <2> QED
    BY <2>1, <2>2 DEF IdentityInv, IdentityData, Identities!StatusIsLatest, Identities!Succeeded, Identities!Jobs,
       Identities!Idle
<1>6. ASSUME NEW h \in Requests, NEW t \in Identities!TxnIds, NEW r \in {"success", "fail"},
             Identities!ReviewTxn(h, t, r)
      PROVE  IdentityInv'
  <2>1. /\ txns' = [txns EXCEPT ![t].status = r] /\ reviewed' = TRUE /\ UNCHANGED <<day, profile>>
        /\ job' = [job EXCEPT ![h] = [at |-> "review", result |-> r]]
    BY <1>6 DEF Identities!ReviewTxn, Identities!Arrive
  <2>2. txns' \in IdTxns /\ \A s \in Identities!TxnIds : txns[s].status # "absent" => txns'[s].status # "absent"
    BY <2>1 DEF IdentityInv, IdentityData, IdTxns, IdResults
  <2>3. profile.latest # 0 => profile.latest \in Identities!TxnIds
    BY DEF IdentityInv, IdentityData, Identities!TxnIds
  <2> QED
    BY <1>6, <2>1, <2>2, <2>3 DEF IdentityInv, IdentityData, Identities!StatusIsLatest, Identities!Jobs
<1>7. ASSUME NEW h \in Requests, Identities!ReviewProfile(h) PROVE IdentityInv'
  <2>1. /\ job' = [job EXCEPT ![h] = Identities!Idle] /\ UNCHANGED <<day, txns, reviewed>>
        /\ profile' = [profile EXCEPT !.status = IF job[h].result = "success" THEN "verified" ELSE "failed"]
        /\ reviewed
    BY <1>7 DEF Identities!ReviewProfile, Identities!Goto, IdentityInv
  <2> QED
    BY <2>1 DEF IdentityInv, IdentityData, Identities!StatusIsLatest, Identities!Jobs, Identities!Idle
<1>8. ASSUME NEW h \in Requests, Identities!Abort(h) PROVE IdentityInv'
  <2>1. job' = [job EXCEPT ![h] = Identities!Idle] /\ UNCHANGED <<day, txns, profile, reviewed>>
    BY <1>8 DEF Identities!Abort, Identities!Goto
  <2> QED
    BY <2>1 DEF IdentityInv, IdentityData, Identities!StatusIsLatest, Identities!Succeeded, Identities!Jobs,
       Identities!Idle
<1>9. CASE UNCHANGED Identities!vars
  BY <1>9 DEF Identities!vars, IdentityInv, IdentityData, Identities!StatusIsLatest, Identities!Succeeded
<1> QED
  BY <1>1, <1>2, <1>3, <1>4, <1>5, <1>6, <1>7, <1>8, <1>9, IdentityStart, IdentityWrite, Zenon
  DEF Identities!Next

\* The identity's tables agree when the identity is in play.
LEMMA IdentityInvariance == ServicesSpec => [](active = "identity" => IdentityInv)
<1>1. ServicesInit => (active = "identity" => IdentityInv)
  BY InitIdentity DEF ServicesInit
<1>2. (active = "identity" => IdentityInv) /\ [ServicesNext]_servicesVars => (active = "identity" => IdentityInv)'
  BY OneService, NextIdentity
<1> QED
  BY <1>1, <1>2, PTL DEF ServicesSpec

\* However the results of both channels overlap, repeat and overtake each other and the resets of
\* profile loads, an identity is that of the verification that was written last, until an
\* administrator reviews it (OnboardingService, HypervergeWebhookService).
THEOREM IdentityIsLatest == ServicesSpec => []StatusIsLatest
<1>1. (active = "identity" => IdentityInv) => StatusIsLatest
  BY DEF StatusIsLatest, IdentityInv
<1> QED
  BY <1>1, IdentityInvariance, PTL

-----------------------------------------------------------------------------
(* Certified copies: the client's list shows the last intent that can be paid *)

CopyRow == [outcome : {"absent", "pending", "granted", "refused"}, method : Copies!Methods,
            intent : 0..MaxIntents]
IntentRow == [status : {"absent", "pending", "processing", "succeeded", "failed", "cancelled"},
              copy : 0..MaxCopies, link : BOOLEAN]

CopyRows ==
    /\ copies \in [Copies!CopyIds -> CopyRow]
    /\ intents \in [Copies!IntentIds -> IntentRow]

\* An intent is one of a request that is there, and intents are numbered as they are inserted.
IntentsOK ==
    /\ \A i \in Copies!IntentIds : intents[i].status # "absent" =>
          intents[i].copy \in Copies!CopyIds /\ copies[intents[i].copy].outcome # "absent"
    /\ \A i \in Copies!IntentIds : intents[i].link => intents[i].status # "absent"
    /\ \A i \in captured : i \in Copies!IntentIds /\ intents[i].link
    /\ \A i, k \in Copies!IntentIds : i < k /\ intents[k].status # "absent" => intents[i].status # "absent"

\* What a job names is there.
CopyJobOK(j) ==
    /\ j \in Copies!Jobs
    /\ j.at \in {"cancel", "insert_intent"} => copies[j.copy].outcome # "absent"
    /\ j.at \in {"link_intent", "request", "poll"} =>
          intents[j.intent].status # "absent" /\ intents[j.intent].copy = j.copy

CopyInv == CopyRows /\ IntentsOK /\ job \in [Requests -> Copies!Jobs] /\ \A h \in Requests : CopyJobOK(job[h])

\* While requests do not overlap, no intent is inserted between the last intent and its link,
\* so that a link comes after those of all the intents before it.
ShownInv ==
    /\ \A g, h \in Requests : Copies!Busy(g) /\ Copies!Busy(h) => g = h
    /\ \A i \in Copies!IntentIds : intents[i].link => i <= copies[intents[i].copy].intent
    /\ \A h \in Requests : job[h].at = "link_intent" =>
          \A i \in Copies!IntentIds : intents[i].status # "absent" => i <= job[h].intent
    /\ \A h \in Requests : job[h].at = "request" => job[h].intent <= copies[job[h].copy].intent

\* The parts of a job that are read.
LEMMA CopyJobs ==
  ASSUME NEW j \in Copies!Jobs
  PROVE  /\ j.at \in {"cancel", "insert_intent", "decide"} => j.copy \in Copies!CopyIds
         /\ j.at \in {"link_intent", "request", "poll"} =>
               j.copy \in Copies!CopyIds /\ j.intent \in Copies!IntentIds
         /\ j.at = "insert" => j.method \in Copies!Methods
         /\ j.at = "decide" => j.outcome \in {"granted", "refused"}
<1>1. CASE j \in [at : {"insert"}, method : Copies!Methods]
  BY <1>1
<1>2. CASE j \in [at : {"decide"}, copy : Copies!CopyIds, outcome : {"granted", "refused"}]
  BY <1>2
<1>3. CASE j \in [at : {"cancel", "insert_intent"}, copy : Copies!CopyIds]
  BY <1>3
<1>4. CASE j \in [at : {"link_intent", "request", "poll"}, copy : Copies!CopyIds, intent : Copies!IntentIds]
  BY <1>4
<1>5. CASE j = Copies!Idle
  BY <1>5 DEF Copies!Idle
<1> QED
  BY <1>1, <1>2, <1>3, <1>4, <1>5, Zenon DEF Copies!Jobs

\* What a request has been told stays so while rows are only added and written.
CopiesGrow ==
    /\ \A q \in Copies!CopyIds : copies[q].outcome # "absent" => copies'[q].outcome # "absent"
    /\ \A i \in Copies!IntentIds : intents[i].status # "absent" =>
          /\ intents'[i].status # "absent" /\ intents'[i].copy = intents[i].copy
          /\ intents[i].link => intents'[i].link

LEMMA CopyJobStays ==
  ASSUME CopyRows, CopiesGrow, NEW j, CopyJobOK(j)
  PROVE  CopyJobOK(j)'
BY CopyJobs DEF CopyRows, CopiesGrow, CopyJobOK

LEMMA CopyJobsStay ==
  ASSUME CopyInv, CopyRows', IntentsOK', CopiesGrow,
         NEW h \in Requests, NEW j, job' = [job EXCEPT ![h] = j], CopyJobOK(j)'
  PROVE  CopyInv'
<1>1. job' \in [Requests -> Copies!Jobs]
  BY DEF CopyInv, CopyJobOK
<1>2. ASSUME NEW g \in Requests PROVE CopyJobOK(job[g])'
  <2>1. CASE g = h
    BY <2>1 DEF CopyInv
  <2>2. CASE g # h
    <3>1. job'[g] = job[g] /\ CopyJobOK(job[g])
      BY <2>2 DEF CopyInv
    <3> QED
      BY <3>1, CopyJobStays DEF CopyInv, CopyJobOK
  <2> QED
    BY <2>1, <2>2
<1> QED
  BY <1>1, <1>2 DEF CopyInv

LEMMA InitCopies == Copies!Init => CopyInv /\ ShownInv
<1> SUFFICES ASSUME Copies!Init PROVE CopyInv /\ ShownInv
  OBVIOUS
<1>1. CopyRows
  BY DEF Copies!Init, Copies!NoCopy, Copies!NoIntent, CopyRows, CopyRow, IntentRow, Copies!Methods
<1>2. \A h \in Requests : job[h] = Copies!Idle
  BY DEF Copies!Init
<1>3. CopyInv
  BY <1>1, <1>2 DEF Copies!Init, CopyInv, IntentsOK, Copies!NoIntent, CopyJobOK, Copies!Jobs, Copies!Idle
<1> QED
  BY <1>2, <1>3 DEF Copies!Init, ShownInv, Copies!NoIntent, Copies!Busy, Copies!Idle

\* A request arrives: if it meets no other, it is the only one.
LEMMA CopyArrives ==
  ASSUME CopyInv, ~crowded => ShownInv, NEW h \in Requests, NEW j, Copies!Arrive(h, j), CopyJobOK(j),
         j.at \notin {"link_intent", "request"}
  PROVE  CopyInv' /\ (~crowded' => ShownInv')
<1>1. job' = [job EXCEPT ![h] = j] /\ UNCHANGED <<copies, intents, captured>>
  BY DEF Copies!Arrive
<1>2. CopyInv'
  <2>1. CopiesGrow /\ CopyRows' /\ IntentsOK'
    BY <1>1 DEF CopiesGrow, CopyInv, CopyRows, IntentsOK
  <2>2. CopyJobOK(j)'
    BY <2>1, CopyJobStays DEF CopyInv
  <2> QED
    BY <1>1, <2>1, <2>2, CopyJobsStay
<1>3. ~crowded' => ~crowded /\ \A g \in Requests \ {h} : ~Copies!Busy(g)
  BY Zenon DEF Copies!Arrive
<1>4. \A g \in Requests \ {h} : job'[g] = job[g]
  BY <1>1 DEF CopyInv
<1>5. job'[h] = j
  BY <1>1 DEF CopyInv
<1>6. ASSUME ShownInv, \A g \in Requests \ {h} : ~Copies!Busy(g) PROVE ShownInv'
  BY <1>1, <1>4, <1>5, <1>6 DEF ShownInv, Copies!Busy
<1> QED
  BY <1>2, <1>3, <1>6, Zenon

\* Rows are written, but no intent is inserted or linked.
LEMMA CopyWrites ==
  ASSUME CopyInv, ~crowded => ShownInv, UNCHANGED <<captured, crowded>>, CopyRows', CopiesGrow,
         \A q \in Copies!CopyIds : copies[q].outcome # "absent" => copies'[q].intent = copies[q].intent,
         \A i \in Copies!IntentIds : intents'[i].status = "absent" <=> intents[i].status = "absent",
         \A i \in Copies!IntentIds : intents'[i].link =>
             intents[i].status # "absent" /\ (ShownInv => i <= copies[intents[i].copy].intent),
         job' \in [Requests -> Copies!Jobs],
         \A g \in Requests :
             \/ job'[g] = job[g]
             \/ CopyJobOK(job[g])' /\ Copies!Busy(g) /\ job'[g].at \notin {"link_intent", "request"}
  PROVE  CopyInv' /\ (~crowded' => ShownInv')
<1>1. IntentsOK'
  BY DEF CopyInv, IntentsOK, CopiesGrow, CopyRows
<1>2. ASSUME NEW g \in Requests PROVE CopyJobOK(job[g])'
  <2>1. CASE job'[g] = job[g]
    <3>1. CopyJobOK(job[g])
      BY DEF CopyInv
    <3> QED
      BY <2>1, <3>1, CopyJobStays DEF CopyInv, CopyJobOK
  <2> QED
    BY <2>1
<1>3. CopyInv'
  BY <1>1, <1>2 DEF CopyInv
<1>4. ASSUME ShownInv PROVE ShownInv'
  <2>1. \A g, h \in Requests : Copies!Busy(g)' /\ Copies!Busy(h)' => g = h
    BY <1>4 DEF ShownInv, Copies!Busy
  <2>2. ASSUME NEW i \in Copies!IntentIds, intents'[i].link PROVE i <= copies'[intents'[i].copy].intent
    BY <1>4, <2>2 DEF CopyInv, IntentsOK, CopiesGrow
  <2>3. ASSUME NEW g \in Requests, job'[g].at \in {"link_intent", "request"} PROVE job'[g] = job[g]
    BY <2>3
  <2>4. ASSUME NEW g \in Requests, job'[g].at = "link_intent", NEW i \in Copies!IntentIds,
               intents'[i].status # "absent"
        PROVE  i <= job'[g].intent
    BY <1>4, <2>3, <2>4 DEF ShownInv
  <2>5. ASSUME NEW g \in Requests, job'[g].at = "request" PROVE job'[g].intent <= copies'[job'[g].copy].intent
    <3>1. job[g] \in Copies!Jobs /\ job[g].at = "request" /\ job'[g] = job[g] /\ CopyJobOK(job[g])
      BY <2>3, <2>5 DEF CopyInv
    <3>2. intents[job[g].intent].status # "absent" /\ intents[job[g].intent].copy = job[g].copy
          /\ job[g].intent \in Copies!IntentIds
      BY <3>1, CopyJobs DEF CopyJobOK
    <3> QED
      BY <1>4, <3>1, <3>2 DEF ShownInv, CopyInv, IntentsOK
  <2> QED
    BY <2>1, <2>2, <2>4, <2>5 DEF ShownInv
<1> QED
  BY <1>3, <1>4, Zenon

\* The new intent is the last one.
LEMMA CopyInsertsIntent ==
  ASSUME CopyInv, ~crowded => ShownInv, NEW h \in Requests, Copies!InsertIntent(h)
  PROVE  CopyInv' /\ (~crowded' => ShownInv')
<1>1. PICK i \in Copies!IntentIds :
        /\ intents[i].status = "absent"
        /\ \A k \in 1..(i - 1) : intents[k].status # "absent"
        /\ intents' = [intents EXCEPT ![i] = [status |-> "pending", copy |-> job[h].copy, link |-> FALSE]]
        /\ job' = [job EXCEPT ![h] = [at |-> "link_intent", copy |-> job[h].copy, intent |-> i]]
  BY DEF Copies!InsertIntent, Copies!Goto
<1>2. job[h].at = "insert_intent" /\ UNCHANGED <<copies, captured, crowded>>
  BY DEF Copies!InsertIntent, Copies!Goto
<1>3. job[h].copy \in Copies!CopyIds /\ copies[job[h].copy].outcome # "absent"
  BY <1>2, CopyJobs DEF CopyInv, CopyJobOK
<1>4. CopyRows'
  BY <1>1, <1>2, <1>3 DEF CopyInv, CopyRows, IntentRow, Copies!CopyIds
<1>5. /\ intents'[i].status = "pending" /\ intents'[i].copy = job[h].copy /\ intents'[i].link = FALSE
      /\ \A k \in Copies!IntentIds \ {i} : intents'[k] = intents[k]
  BY <1>1 DEF CopyInv, CopyRows
<1>6. \A k \in Copies!IntentIds : intents[k].status # "absent" => k < i
  BY <1>1 DEF CopyInv, IntentsOK, Copies!IntentIds
<1>7. IntentsOK'
  BY <1>1, <1>2, <1>3, <1>5, <1>6 DEF CopyInv, IntentsOK, Copies!IntentIds
<1>8. CopiesGrow
  BY <1>1, <1>2, <1>5 DEF CopiesGrow
<1>9. CopyInv'
  <2>j. PICK j : j = [at |-> "link_intent", copy |-> job[h].copy, intent |-> i]
    OBVIOUS
  <2>1. CopyJobOK(j)'
    <3>1. j \in [at : {"link_intent", "request", "poll"}, copy : Copies!CopyIds, intent : Copies!IntentIds]
      BY <1>3, <2>j
    <3>2. j \in Copies!Jobs
      BY <3>1, Zenon DEF Copies!Jobs
    <3> QED
      BY <1>5, <2>j, <3>2 DEF CopyJobOK
  <2> QED
    BY <1>1, <1>4, <1>7, <1>8, <2>j, <2>1, CopyJobsStay
<1>10. ASSUME ShownInv PROVE ShownInv'
  <2>1. \A g \in Requests \ {h} : job'[g] = Copies!Idle /\ job[g] = Copies!Idle
    BY <1>1, <1>2, <1>10 DEF ShownInv, CopyInv, Copies!Busy, Copies!Idle
  <2>2. job'[h].at = "link_intent" /\ job'[h].intent = i
    BY <1>1 DEF CopyInv
  <2>3. \A k \in Copies!IntentIds : intents'[k].status # "absent" => k <= i
    BY <1>5, <1>6 DEF Copies!IntentIds
  <2>4. \A k \in Copies!IntentIds : intents'[k].link => k <= copies'[intents'[k].copy].intent
    BY <1>2, <1>5, <1>10 DEF ShownInv
  <2> QED
    BY <2>1, <2>2, <2>3, <2>4 DEF ShownInv, Copies!Busy, Copies!Idle
<1> QED
  BY <1>2, <1>9, <1>10, Zenon

\* The request names its last intent.
LEMMA CopyLinks ==
  ASSUME CopyInv, ~crowded => ShownInv, NEW h \in Requests, Copies!LinkIntent(h)
  PROVE  CopyInv' /\ (~crowded' => ShownInv')
<1> DEFINE q == job[h].copy
           i == job[h].intent
<1>j. PICK j : j = [job[h] EXCEPT !.at = "request"]
  OBVIOUS
<1>1. /\ job[h].at = "link_intent" /\ UNCHANGED <<intents, captured, crowded>>
      /\ copies' = [copies EXCEPT ![q].intent = i]
  BY DEF Copies!LinkIntent, Copies!Goto
<1>2. job' = [job EXCEPT ![h] = j]
  BY <1>j, Zenon DEF Copies!LinkIntent, Copies!Goto
<1>3. q \in Copies!CopyIds /\ i \in Copies!IntentIds /\ intents[i].status # "absent" /\ intents[i].copy = q
  BY <1>1, CopyJobs DEF CopyInv, CopyJobOK
<1>4. j = [at |-> "request", copy |-> q, intent |-> i]
  <2>1. job[h] \in [at : {"link_intent"}, copy : Copies!CopyIds, intent : Copies!IntentIds]
    BY <1>1 DEF CopyInv, Copies!Jobs, Copies!Idle
  <2> QED
    BY <1>j, <2>1
<1>5. CopyRows'
  <2>1. [copies[q] EXCEPT !.intent = i] \in CopyRow
    <3>1. [copies[q] EXCEPT !.intent = i]
          = [outcome |-> copies[q].outcome, method |-> copies[q].method, intent |-> i]
      BY <1>3 DEF CopyInv, CopyRows, CopyRow
    <3> QED
      BY <1>3, <3>1 DEF CopyInv, CopyRows, CopyRow, Copies!IntentIds
  <2> QED
    BY <1>1, <1>3, <2>1 DEF CopyInv, CopyRows
<1>6. /\ copies'[q].outcome = copies[q].outcome /\ copies'[q].intent = i
      /\ \A p \in Copies!CopyIds \ {q} : copies'[p] = copies[p]
  BY <1>1, <1>3 DEF CopyInv, CopyRows, CopyRow
<1>7. CopiesGrow
  BY <1>1, <1>6 DEF CopiesGrow
<1>8. IntentsOK'
  BY <1>1, <1>7 DEF CopyInv, IntentsOK, CopiesGrow
<1>9. CopyInv'
  <2>1. CopyJobOK(j)'
    <3>1. j \in [at : {"link_intent", "request", "poll"}, copy : Copies!CopyIds, intent : Copies!IntentIds]
      BY <1>3, <1>4
    <3>2. j \in Copies!Jobs
      BY <3>1, Zenon DEF Copies!Jobs
    <3>3. j.at = "request" /\ j.copy = q /\ j.intent = i
      BY <1>4
    <3> QED
      BY <1>1, <1>3, <3>2, <3>3 DEF CopyJobOK
  <2> QED
    BY <1>2, <1>5, <1>7, <1>8, <2>1, CopyJobsStay, Zenon
<1>10. ASSUME ShownInv PROVE ShownInv'
  <2>1. \A g \in Requests \ {h} : job'[g] = Copies!Idle
    BY <1>1, <1>2, <1>10 DEF ShownInv, CopyInv, Copies!Busy, Copies!Idle
  <2>2. job'[h].at = "request" /\ job'[h].copy = q /\ job'[h].intent = i
    BY <1>2, <1>4 DEF CopyInv
  <2>3. ASSUME NEW k \in Copies!IntentIds, intents'[k].link PROVE k <= copies'[intents'[k].copy].intent
    <3>1. intents[k].status # "absent" /\ k <= i
      BY <1>1, <1>3, <1>10, <2>3 DEF ShownInv, CopyInv, IntentsOK
    <3>2. CASE intents[k].copy = q
      BY <1>1, <1>6, <3>1, <3>2
    <3>3. CASE intents[k].copy # q
      <4>1. intents[k].copy \in Copies!CopyIds \ {q}
        BY <3>1, <3>3 DEF CopyInv, IntentsOK
      <4> QED
        BY <1>1, <1>6, <1>10, <2>3, <4>1 DEF ShownInv
    <3> QED
      BY <3>2, <3>3
  <2> QED
    BY <1>3, <1>6, <2>1, <2>2, <2>3 DEF ShownInv, Copies!Busy, Copies!Idle, Copies!IntentIds
<1> QED
  BY <1>1, <1>9, <1>10, Zenon

\* One intent's row is written: its status, or its status and its link.
LEMMA IntentWritten ==
  ASSUME CopyInv, NEW i \in Copies!IntentIds, intents[i].status # "absent",
         NEW s \in {"processing", "succeeded", "failed", "cancelled"}, 
         NEW l \in BOOLEAN, intents[i].link => l,
         intents' = [intents EXCEPT ![i] = [status |-> s, copy |-> intents[i].copy, link |-> l]],
         UNCHANGED copies
  PROVE  /\ CopyRows' /\ CopiesGrow
         /\ \A k \in Copies!IntentIds : intents'[k].status = "absent" <=> intents[k].status = "absent"
         /\ \A k \in Copies!IntentIds : k # i => intents'[k] = intents[k]
         /\ intents'[i].link = l
<1>1. intents'[i] = [status |-> s, copy |-> intents[i].copy, link |-> l]
      /\ \A k \in Copies!IntentIds : k # i => intents'[k] = intents[k]
  BY DEF CopyInv, CopyRows
<1>2. CopyRows'
  BY DEF CopyInv, CopyRows, IntentRow
<1>3. /\ CopiesGrow
      /\ \A k \in Copies!IntentIds : intents'[k].status = "absent" <=> intents[k].status = "absent"
  BY <1>1 DEF CopiesGrow
<1> QED
  BY <1>1, <1>2, <1>3

\* The rows of an intent whose status alone is written.
LEMMA StatusWritten ==
  ASSUME CopyInv, NEW i \in Copies!IntentIds, NEW s \in {"processing", "succeeded", "failed", "cancelled"}
  PROVE  [intents EXCEPT ![i].status = s]
         = [intents EXCEPT ![i] = [status |-> s, copy |-> intents[i].copy, link |-> intents[i].link]]
<1>1. intents[i] \in IntentRow
  BY DEF CopyInv, CopyRows
<1>2. [intents[i] EXCEPT !.status = s] = [status |-> s, copy |-> intents[i].copy, link |-> intents[i].link]
  BY <1>1 DEF IntentRow
<1> QED
  BY <1>2, Zenon

\* A payment is reported for, taken of, or withdrawn from an intent.
LEMMA CopyStatus ==
  ASSUME CopyInv, ~crowded => ShownInv, UNCHANGED <<copies, captured, crowded>>,
         NEW i \in Copies!IntentIds, intents[i].status # "absent",
         NEW s \in {"processing", "succeeded", "failed", "cancelled"},
         intents' = [intents EXCEPT ![i].status = s],
         job' \in [Requests -> Copies!Jobs],
         \A g \in Requests : job'[g] = job[g] \/ (job'[g] = Copies!Idle /\ Copies!Busy(g))
  PROVE  CopyInv' /\ (~crowded' => ShownInv')
<1>1. intents' = [intents EXCEPT ![i] = [status |-> s, copy |-> intents[i].copy, link |-> intents[i].link]]
  BY StatusWritten
<1>2. intents[i].link \in BOOLEAN
  BY DEF CopyInv, CopyRows, IntentRow
<1>3. /\ CopyRows' /\ CopiesGrow
      /\ \A k \in Copies!IntentIds : intents'[k].status = "absent" <=> intents[k].status = "absent"
      /\ \A k \in Copies!IntentIds : k # i => intents'[k] = intents[k]
      /\ intents'[i].link = intents[i].link
  BY <1>1, <1>2, IntentWritten
<1>4. \A k \in Copies!IntentIds : intents'[k].link =>
        intents[k].status # "absent" /\ (ShownInv => k <= copies[intents[k].copy].intent)
  BY <1>3 DEF CopyInv, IntentsOK, ShownInv
<1>5. ASSUME NEW g \in Requests, job'[g] = Copies!Idle
      PROVE  CopyJobOK(job[g])' /\ job'[g].at \notin {"link_intent", "request"}
  BY <1>5 DEF CopyJobOK, Copies!Jobs, Copies!Idle
<1> QED
  BY <1>3, <1>4, <1>5, CopyWrites

\* A request or a decision is written, or a request stops.
LEMMA CopyDecides ==
  ASSUME CopyInv, ~crowded => ShownInv, UNCHANGED <<intents, captured, crowded>>, CopyRows', NEW h \in Requests,
         job' = [job EXCEPT ![h] = Copies!Idle], Copies!Busy(h),
         \A q \in Copies!CopyIds : copies[q].outcome # "absent" =>
             copies'[q].outcome # "absent" /\ copies'[q].intent = copies[q].intent
  PROVE  CopyInv' /\ (~crowded' => ShownInv')
<1>1. CopiesGrow
  BY DEF CopiesGrow
<1>2. \A i \in Copies!IntentIds : intents'[i].link =>
        intents[i].status # "absent" /\ (ShownInv => i <= copies[intents[i].copy].intent)
  BY DEF CopyInv, IntentsOK, ShownInv
<1>3. job' \in [Requests -> Copies!Jobs] /\ \A g \in Requests : job'[g] = IF g = h THEN Copies!Idle ELSE job[g]
  BY DEF CopyInv, Copies!Jobs
<1>4. ASSUME NEW g \in Requests, job'[g] = Copies!Idle
      PROVE  CopyJobOK(job[g])' /\ job'[g].at \notin {"link_intent", "request"}
  BY <1>4 DEF CopyJobOK, Copies!Jobs, Copies!Idle
<1>5. \A g \in Requests :
             \/ job'[g] = job[g]
             \/ CopyJobOK(job[g])' /\ Copies!Busy(g) /\ job'[g].at \notin {"link_intent", "request"}
  BY <1>3, <1>4
<1> QED
  BY <1>1, <1>2, <1>3, <1>5, CopyWrites

\* The intents of the request that are active are cancelled.
LEMMA CopyCancels ==
  ASSUME CopyInv, ~crowded => ShownInv, NEW h \in Requests, Copies!CancelActive(h)
  PROVE  CopyInv' /\ (~crowded' => ShownInv')
<1>j. PICK j : j = [job[h] EXCEPT !.at = "insert_intent"]
  OBVIOUS
<1>1. job[h].at = "cancel" /\ UNCHANGED <<copies, captured, crowded>>
  BY DEF Copies!CancelActive, Copies!Goto
<1>2. job' = [job EXCEPT ![h] = j]
  BY <1>j, Zenon DEF Copies!CancelActive, Copies!Goto
<1>3. job[h].copy \in Copies!CopyIds /\ copies[job[h].copy].outcome # "absent"
  BY <1>1, CopyJobs DEF CopyInv, CopyJobOK
<1>4. j = [at |-> "insert_intent", copy |-> job[h].copy]
  <2>1. job[h] \in [at : {"cancel"}, copy : Copies!CopyIds]
    BY <1>1 DEF CopyInv, Copies!Jobs, Copies!Idle
  <2> QED
    BY <1>j, <2>1
<1>5. ASSUME NEW i \in Copies!IntentIds
      PROVE  /\ intents'[i] \in IntentRow
             /\ intents'[i].copy = intents[i].copy /\ intents'[i].link = intents[i].link
             /\ intents'[i].status = "absent" <=> intents[i].status = "absent"
  <2> DEFINE K == [intents[i] EXCEPT !.status = "cancelled"]
  <2>1. intents[i] \in IntentRow
    BY DEF CopyInv, CopyRows
  <2>2. K = [status |-> "cancelled", copy |-> intents[i].copy, link |-> intents[i].link]
    BY <2>1 DEF IntentRow
  <2>3. K \in IntentRow /\ K.copy = intents[i].copy /\ K.link = intents[i].link /\ K.status = "cancelled"
    BY <2>1, <2>2 DEF IntentRow
  <2>4. intents'[i] = IF i \in Copies!OfCopy(job[h].copy) /\ intents[i].status \in Copies!Active
                      THEN K ELSE intents[i]
    BY Zenon DEF Copies!CancelActive
  <2> QED
    BY <2>1, <2>3, <2>4 DEF Copies!Active
<1>6. CopyRows' /\ CopiesGrow
  <2>1. intents' \in [Copies!IntentIds -> IntentRow]
    BY <1>5 DEF Copies!CancelActive
  <2> QED
    BY <1>1, <1>5, <2>1 DEF CopyInv, CopyRows, CopiesGrow
<1>7. \A i \in Copies!IntentIds : intents'[i].link =>
        intents[i].status # "absent" /\ (ShownInv => i <= copies[intents[i].copy].intent)
  BY <1>5 DEF CopyInv, IntentsOK, ShownInv
<1>8. CopyJobOK(j)'
  <2>1. j \in [at : {"cancel", "insert_intent"}, copy : Copies!CopyIds]
    BY <1>3, <1>4
  <2>2. j \in Copies!Jobs
    BY <2>1, Zenon DEF Copies!Jobs
  <2>3. j.at = "insert_intent" /\ j.copy = job[h].copy
    BY <1>4
  <2> QED
    BY <1>1, <1>3, <2>2, <2>3 DEF CopyJobOK
<1>9. job' \in [Requests -> Copies!Jobs] /\ \A g \in Requests : job'[g] = IF g = h THEN j ELSE job[g]
  BY <1>2, <1>8 DEF CopyInv, CopyJobOK
<1>10. \A g \in Requests :
             \/ job'[g] = job[g]
             \/ CopyJobOK(job[g])' /\ Copies!Busy(g) /\ job'[g].at \notin {"link_intent", "request"}
  <2>1. Copies!Busy(h) /\ j.at \notin {"link_intent", "request"}
    BY <1>1, <1>4 DEF Copies!Busy, Copies!Idle
  <2> QED
    BY <1>8, <1>9, <2>1 DEF CopyJobOK
<1> QED
  BY <1>1, <1>5, <1>6, <1>7, <1>9, <1>10, CopyWrites

LEMMA NextCopies ==
  ASSUME CopyInv, ~crowded => ShownInv, Copies!Next \/ UNCHANGED Copies!vars
  PROVE  CopyInv' /\ (~crowded' => ShownInv')
<1>1. ASSUME NEW h \in Requests, NEW method \in Copies!Methods,
             Copies!Arrive(h, [at |-> "insert", method |-> method])
      PROVE  CopyInv' /\ (~crowded' => ShownInv')
  <2>1. PICK j : j = [at |-> "insert", method |-> method]
    OBVIOUS
  <2>2. CopyJobOK(j) /\ j.at \notin {"link_intent", "request"}
    BY <2>1 DEF CopyJobOK, Copies!Jobs
  <2> QED
    BY <1>1, <2>1, <2>2, CopyArrives
<1>2. ASSUME NEW h \in Requests, NEW q \in Copies!CopyIds, NEW o \in {"granted", "refused"},
             Copies!CheckDecide(h, q, o)
      PROVE  CopyInv' /\ (~crowded' => ShownInv')
  <2>1. PICK j : j = [at |-> "decide", copy |-> q, outcome |-> o]
    OBVIOUS
  <2>2. CopyJobOK(j) /\ j.at \notin {"link_intent", "request"}
    BY <2>1 DEF CopyJobOK, Copies!Jobs
  <2>3. Copies!Arrive(h, j)
    BY <1>2, <2>1, Zenon DEF Copies!CheckDecide
  <2> QED
    BY <2>2, <2>3, CopyArrives
<1>3. ASSUME NEW h \in Requests, NEW q \in Copies!CopyIds, Copies!CheckPay(h, q)
      PROVE  CopyInv' /\ (~crowded' => ShownInv')
  <2>1. PICK j : j = [at |-> "cancel", copy |-> q]
    OBVIOUS
  <2>2. copies[q].outcome # "absent"
    BY <1>3 DEF Copies!CheckPay, Copies!Payable
  <2>3. CopyJobOK(j) /\ j.at \notin {"link_intent", "request"}
    BY <2>1, <2>2 DEF CopyJobOK, Copies!Jobs
  <2>4. Copies!Arrive(h, j)
    BY <1>3, <2>1, Zenon DEF Copies!CheckPay
  <2> QED
    BY <2>3, <2>4, CopyArrives
<1>4. ASSUME NEW h \in Requests, NEW q \in Copies!CopyIds, Copies!CheckPoll(h, q)
      PROVE  CopyInv' /\ (~crowded' => ShownInv')
  <2>1. PICK i \in Copies!OfCopy(q) :
           intents[i].status \in Copies!Active /\ Copies!Arrive(h, [at |-> "poll", copy |-> q, intent |-> i])
    BY <1>4, Zenon DEF Copies!CheckPoll
  <2>2. PICK j : j = [at |-> "poll", copy |-> q, intent |-> i]
    OBVIOUS
  <2>3. i \in Copies!IntentIds /\ intents[i].copy = q /\ intents[i].status # "absent"
    BY <2>1 DEF Copies!OfCopy, Copies!Active
  <2>4. CopyJobOK(j) /\ j.at \notin {"link_intent", "request"}
    BY <2>2, <2>3 DEF CopyJobOK, Copies!Jobs
  <2> QED
    BY <2>1, <2>2, <2>4, CopyArrives
<1>5. ASSUME NEW h \in Requests, Copies!InsertRequest(h) PROVE CopyInv' /\ (~crowded' => ShownInv')
  <2>1. PICK q \in Copies!CopyIds :
           /\ copies[q].outcome = "absent"
           /\ copies' = [copies EXCEPT ![q] = [outcome |-> "pending", method |-> job[h].method, intent |-> 0]]
    BY <1>5 DEF Copies!InsertRequest
  <2>2. job[h].at = "insert" /\ job' = [job EXCEPT ![h] = Copies!Idle] /\ UNCHANGED <<intents, captured, crowded>>
    BY <1>5 DEF Copies!InsertRequest, Copies!Goto
  <2>3. job[h].method \in Copies!Methods
    BY <2>2, CopyJobs DEF CopyInv
  <2>4. CopyRows'
    BY <2>1, <2>2, <2>3 DEF CopyInv, CopyRows, CopyRow
  <2>5. \A p \in Copies!CopyIds : copies[p].outcome # "absent" =>
             copies'[p].outcome # "absent" /\ copies'[p].intent = copies[p].intent
    BY <2>1 DEF CopyInv, CopyRows
  <2>6. Copies!Busy(h)
    BY <2>2 DEF Copies!Busy, Copies!Idle
  <2> QED
    BY <2>2, <2>4, <2>5, <2>6, CopyDecides
<1>6. ASSUME NEW h \in Requests, Copies!WriteDecision(h) PROVE CopyInv' /\ (~crowded' => ShownInv')
  <2> DEFINE q == job[h].copy
             R == [copies[q] EXCEPT !.outcome = job[h].outcome]
  <2>1. /\ job[h].at = "decide" /\ job' = [job EXCEPT ![h] = Copies!Idle] /\ UNCHANGED <<intents, captured, crowded>>
    BY <1>6 DEF Copies!WriteDecision, Copies!Goto
  <2>2. copies' = [copies EXCEPT ![q] = R]
    BY <1>6, Zenon DEF Copies!WriteDecision
  <2>3. q \in Copies!CopyIds /\ job[h].outcome \in {"granted", "refused"}
    BY <2>1, CopyJobs DEF CopyInv
  <2>4. R = [outcome |-> job[h].outcome, method |-> copies[q].method, intent |-> copies[q].intent]
    BY <2>3 DEF CopyInv, CopyRows, CopyRow
  <2>5. R \in CopyRow /\ R.outcome # "absent" /\ R.intent = copies[q].intent
    BY <2>3, <2>4 DEF CopyInv, CopyRows, CopyRow
  <2> HIDE DEF R
  <2>6. CopyRows'
    BY <2>1, <2>2, <2>3, <2>5 DEF CopyInv, CopyRows
  <2>7. \A p \in Copies!CopyIds : copies[p].outcome # "absent" =>
             copies'[p].outcome # "absent" /\ copies'[p].intent = copies[p].intent
    BY <2>2, <2>3, <2>5 DEF CopyInv, CopyRows
  <2>8. Copies!Busy(h)
    BY <2>1 DEF Copies!Busy, Copies!Idle
  <2> QED
    BY <2>1, <2>6, <2>7, <2>8, CopyDecides
<1>7. ASSUME NEW h \in Requests, Copies!WriteRequest(h) PROVE CopyInv' /\ (~crowded' => ShownInv')
  <2> DEFINE i == job[h].intent
  <2>1. /\ job[h].at = "request" /\ job' = [job EXCEPT ![h] = Copies!Idle] /\ UNCHANGED <<copies, captured, crowded>>
    BY <1>7, Zenon DEF Copies!WriteRequest, Copies!Goto
  <2>2. i \in Copies!IntentIds /\ intents[i].status # "absent" /\ intents[i].copy = job[h].copy
    BY <2>1, CopyJobs DEF CopyInv, CopyJobOK
  <2>3. job' \in [Requests -> Copies!Jobs]
        /\ \A g \in Requests : job'[g] = job[g] \/ (job'[g] = Copies!Idle /\ Copies!Busy(g))
    BY <2>1 DEF CopyInv, Copies!Jobs, Copies!Busy, Copies!Idle
  <2>4. CASE intents' = [intents EXCEPT ![i].status = "failed"]
    BY <2>1, <2>2, <2>3, <2>4, CopyStatus
  <2>5. CASE intents' = [intents EXCEPT ![i] = [@ EXCEPT !.status = "processing", !.link = TRUE]]
    <3> DEFINE K == [intents[i] EXCEPT !.status = "processing"]
    <3>1. K = [status |-> "processing", copy |-> intents[i].copy, link |-> intents[i].link]
      BY <2>2 DEF CopyInv, CopyRows, IntentRow
    <3>2. [K EXCEPT !.link = TRUE] = [status |-> "processing", copy |-> intents[i].copy, link |-> TRUE]
      <4>1. PICK k : k = K
        OBVIOUS
      <4>2. k \in IntentRow
        BY <2>2, <3>1, <4>1 DEF CopyInv, CopyRows, IntentRow
      <4>3. [k EXCEPT !.link = TRUE] = [status |-> k.status, copy |-> k.copy, link |-> TRUE]
        <5>1. \A l \in BOOLEAN : [k EXCEPT !.link = l] = [status |-> k.status, copy |-> k.copy, link |-> l]
          BY <4>2 DEF IntentRow
        <5> QED
          BY <5>1, Zenon
      <4>4. k.status = "processing" /\ k.copy = intents[i].copy
        BY <3>1, <4>1
      <4> QED
        BY <4>1, <4>3, <4>4, Zenon
    <3>3. intents' = [intents EXCEPT ![i] = [status |-> "processing", copy |-> intents[i].copy, link |-> TRUE]]
      BY <2>5, <3>2, Zenon
    <3>4. /\ CopyRows' /\ CopiesGrow
          /\ \A k \in Copies!IntentIds : intents'[k].status = "absent" <=> intents[k].status = "absent"
          /\ \A k \in Copies!IntentIds : k # i => intents'[k] = intents[k]
      BY <2>1, <2>2, <3>3, IntentWritten
    <3>5. ShownInv => i <= copies[intents[i].copy].intent
      BY <2>1, <2>2 DEF ShownInv
    <3>6. \A k \in Copies!IntentIds : intents'[k].link =>
            intents[k].status # "absent" /\ (ShownInv => k <= copies[intents[k].copy].intent)
      BY <2>2, <3>4, <3>5 DEF CopyInv, IntentsOK, ShownInv
    <3>7. ASSUME NEW g \in Requests, job'[g] = Copies!Idle
          PROVE  CopyJobOK(job[g])' /\ job'[g].at \notin {"link_intent", "request"}
      BY <3>7 DEF CopyJobOK, Copies!Jobs, Copies!Idle
    <3> QED
      BY <2>1, <2>3, <3>4, <3>6, <3>7, CopyWrites
  <2> QED
    BY <1>7, <2>4, <2>5, Zenon DEF Copies!WriteRequest
<1>8. ASSUME NEW h \in Requests, Copies!WritePoll(h) PROVE CopyInv' /\ (~crowded' => ShownInv')
  <2> DEFINE i == job[h].intent
  <2>1. /\ job[h].at = "poll" /\ job' = [job EXCEPT ![h] = Copies!Idle] /\ UNCHANGED <<copies, captured, crowded>>
    BY <1>8 DEF Copies!WritePoll, Copies!Goto
  <2>2. i \in Copies!IntentIds /\ intents[i].status # "absent"
    BY <2>1, CopyJobs DEF CopyInv, CopyJobOK
  <2>3. job' \in [Requests -> Copies!Jobs]
        /\ \A g \in Requests : job'[g] = job[g] \/ (job'[g] = Copies!Idle /\ Copies!Busy(g))
    BY <2>1 DEF CopyInv, Copies!Jobs, Copies!Busy, Copies!Idle
  <2>4. CASE intents' = [intents EXCEPT ![i].status = "succeeded"]
    BY <2>1, <2>2, <2>3, <2>4, CopyStatus
  <2>5. CASE UNCHANGED intents
    <3>1. CopyRows' /\ Copies!Busy(h)
      BY <2>1, <2>5 DEF CopyInv, CopyRows, Copies!Busy, Copies!Idle
    <3> QED
      BY <2>1, <2>5, <3>1, CopyDecides
  <2> QED
    BY <1>8, <2>4, <2>5 DEF Copies!WritePoll
<1>9. ASSUME NEW h \in Requests, Copies!Abort(h) PROVE CopyInv' /\ (~crowded' => ShownInv')
  <2>1. /\ Copies!Busy(h) /\ job' = [job EXCEPT ![h] = Copies!Idle]
        /\ UNCHANGED <<copies, intents, captured, crowded>>
    BY <1>9 DEF Copies!Abort, Copies!Goto
  <2>2. CopyRows'
    BY <2>1 DEF CopyInv, CopyRows
  <2> QED
    BY <2>1, <2>2, CopyDecides
<1>10. ASSUME NEW i \in Copies!IntentIds, Copies!Webhook(i) \/ Copies!AdminMarks(i) \/ Copies!ReapPending(i)
       PROVE  CopyInv' /\ (~crowded' => ShownInv')
  <2>1. UNCHANGED <<copies, job, captured, crowded>>
    BY <1>10 DEF Copies!Webhook, Copies!AdminMarks, Copies!ReapPending
  <2>2. job' \in [Requests -> Copies!Jobs] /\ \A g \in Requests : job'[g] = job[g]
    BY <2>1 DEF CopyInv
  <2>3. PICK s \in {"succeeded", "cancelled"} : intents' = [intents EXCEPT ![i].status = s]
    BY <1>10, Zenon DEF Copies!Webhook, Copies!AdminMarks, Copies!ReapPending
  <2>4. intents[i].status # "absent"
    BY <1>10 DEF Copies!Webhook, Copies!AdminMarks, Copies!ReapPending, Copies!Active, CopyInv, IntentsOK
  <2> QED
    BY <2>1, <2>2, <2>3, <2>4, CopyStatus
<1>11. CASE (\E i \in Copies!IntentIds : Copies!Capture(i)) \/ UNCHANGED Copies!vars
  <2>1. /\ UNCHANGED <<copies, intents, job, crowded>>
        /\ \A i \in captured' : i \in captured \/ (i \in Copies!IntentIds /\ intents[i].link)
    BY <1>11 DEF Copies!Capture, Copies!vars
  <2>2. CopyInv' /\ (ShownInv => ShownInv')
    BY <2>1 DEF CopyInv, CopyRows, IntentsOK, CopyJobOK, ShownInv, Copies!Busy
  <2> QED
    BY <2>1, <2>2, Zenon
<1>12. CASE \E h \in Requests : Copies!CheckVirtual(h) \/ \E method \in {"online", "cash"} : Copies!CheckCopy(h, method)
  BY <1>1, <1>12 DEF Copies!CheckVirtual, Copies!CheckCopy, Copies!Methods
<1> QED
  BY <1>2, <1>3, <1>4, <1>5, <1>6, <1>7, <1>8, <1>9, <1>10, <1>11, <1>12,
     CopyInsertsIntent, CopyLinks, CopyCancels, Zenon DEF Copies!Next

CopiesIInv == CopyInv /\ (~crowded => ShownInv)

LEMMA CopiesShown == CopiesIInv => Copies!LastIntentIsShown
<1> SUFFICES ASSUME CopiesIInv, ~crowded, NEW i \in Copies!IntentIds, intents[i].link
             PROVE  copies[intents[i].copy].intent >= i
  BY Zenon DEF Copies!LastIntentIsShown
<1>1. ShownInv
  BY Zenon DEF CopiesIInv
<1>2. i <= copies[intents[i].copy].intent
  BY <1>1 DEF ShownInv
<1> QED
  BY <1>2

\* The copies' tables agree when the copies are in play.
LEMMA CopiesInvariance == ServicesSpec => [](active = "copies" => CopiesIInv)
<1>1. ServicesInit => (active = "copies" => CopiesIInv)
  BY InitCopies DEF ServicesInit, CopiesIInv
<1>2. (active = "copies" => CopiesIInv) /\ [ServicesNext]_servicesVars => (active = "copies" => CopiesIInv)'
  <2> SUFFICES ASSUME active = "copies" => CopiesIInv, [ServicesNext]_servicesVars, active' = "copies"
               PROVE  CopiesIInv'
    OBVIOUS
  <2>1. Copies!Next \/ UNCHANGED Copies!vars
    BY OneService
  <2>2. CopiesIInv
    BY OneService
  <2> QED
    BY <2>1, <2>2, NextCopies, Zenon DEF CopiesIInv
<1> QED
  BY <1>1, <1>2, PTL DEF ServicesSpec

\* Whatever is requested, decided, paid, cancelled and reaped, and whichever request stops, the
\* client's list names the last intent of a certified copy that was given a link, unless requests
\* overlap (CtcPaymentService).
THEOREM LastIntentShown == ServicesSpec => []LastIntentIsShown
<1>1. (active = "copies" => CopiesIInv) => LastIntentIsShown
  BY CopiesShown DEF LastIntentIsShown
<1> QED
  BY <1>1, CopiesInvariance, PTL

-----------------------------------------------------------------------------
(* The log: its rows are in an order, and each hash stands for the rows before it *)

LogRows ==
    /\ log \subseteq Log!Rows
    /\ IsFiniteSet(log)
    /\ \A r, s \in log : r.id = s.id => r = s

\* The rows are in a total order.
LEMMA RowOrder ==
  ASSUME LogRows, NEW r \in log, NEW s \in log
  PROVE  /\ ~Log!Before(r, r)
         /\ Log!Before(r, s) => ~Log!Before(s, r)
         /\ Log!Before(r, s) \/ Log!Before(s, r) \/ r = s
         /\ \A t \in log : Log!Before(r, s) /\ Log!Before(s, t) => Log!Before(r, t)
<1>1. \A q \in log : q.id \in Nat /\ q.core.at \in Nat
  BY DEF LogRows, Log!Rows, Log!Ids, Log!Contents, Log!Times
<1> QED
  BY <1>1 DEF LogRows, Log!Before

\* Some rows have a first one: a smallest set of rows without one would lose any row and still
\* have none.
LEMMA FirstRow ==
  ASSUME LogRows, NEW L \in SUBSET log, L # {}
  PROVE  \E m \in L : \A r \in L : ~Log!Before(r, m)
<1> DEFINE NoFirst == {T \in SUBSET log : T # {} /\ \A m \in T : \E r \in T : Log!Before(r, m)}
<1> SUFFICES ASSUME L \in NoFirst PROVE FALSE
  OBVIOUS
<1>1. IsWellFoundedOn(StrictSubsetOrdering(log), FiniteSubsetsOf(log))
  BY FS_StrictSubsetOrderingWellFounded
<1>2. FiniteSubsetsOf(log) = SUBSET log
  BY FS_FiniteSubsetsOfFinite DEF LogRows
<1>3. PICK T \in NoFirst : \A U \in NoFirst : <<U, T>> \notin StrictSubsetOrdering(log)
  <2>1. NoFirst \subseteq SUBSET log /\ NoFirst # {}
    OBVIOUS
  <2> HIDE DEF NoFirst
  <2> QED
    BY <1>1, <1>2, <2>1, WFMin
<1>4. PICK x \in T : TRUE
  OBVIOUS
<1>5. T \ {x} \notin NoFirst
  BY <1>3, <1>4 DEF StrictSubsetOrdering
<1>6. CASE T = {x}
  BY <1>4, <1>6, RowOrder
<1>7. ASSUME NEW m \in T \ {x}, \A r \in T \ {x} : ~Log!Before(r, m) PROVE FALSE
  <2>1. m \in log /\ x \in log /\ T \subseteq log
    BY <1>4, <1>7
  <2>2. CASE Log!Before(x, m)
    <3>1. \A r \in T : ~Log!Before(r, x)
      BY <1>7, <2>1, <2>2, RowOrder
    <3> QED
      BY <1>4, <3>1
  <2>3. CASE ~Log!Before(x, m)
    BY <1>7, <2>3
  <2> QED
    BY <2>2, <2>3
<1> QED
  BY <1>4, <1>5, <1>6, <1>7

\* And a last one.
LEMMA LastRow ==
  ASSUME LogRows, NEW L \in SUBSET log, L # {}
  PROVE  \E m \in L : \A r \in L : ~Log!Before(m, r)
<1> DEFINE NoLast == {T \in SUBSET log : T # {} /\ \A m \in T : \E r \in T : Log!Before(m, r)}
<1> SUFFICES ASSUME L \in NoLast PROVE FALSE
  OBVIOUS
<1>1. IsWellFoundedOn(StrictSubsetOrdering(log), FiniteSubsetsOf(log))
  BY FS_StrictSubsetOrderingWellFounded
<1>2. FiniteSubsetsOf(log) = SUBSET log
  BY FS_FiniteSubsetsOfFinite DEF LogRows
<1>3. PICK T \in NoLast : \A U \in NoLast : <<U, T>> \notin StrictSubsetOrdering(log)
  <2>1. NoLast \subseteq SUBSET log /\ NoLast # {}
    OBVIOUS
  <2> HIDE DEF NoLast
  <2> QED
    BY <1>1, <1>2, <2>1, WFMin
<1>4. PICK x \in T : TRUE
  OBVIOUS
<1>5. T \ {x} \notin NoLast
  BY <1>3, <1>4 DEF StrictSubsetOrdering
<1>6. CASE T = {x}
  BY <1>4, <1>6, RowOrder
<1>7. ASSUME NEW m \in T \ {x}, \A r \in T \ {x} : ~Log!Before(m, r) PROVE FALSE
  <2>1. m \in log /\ x \in log /\ T \subseteq log
    BY <1>4, <1>7
  <2>2. CASE Log!Before(m, x)
    <3>1. \A r \in T : ~Log!Before(x, r)
      BY <1>7, <2>1, <2>2, RowOrder
    <3> QED
      BY <1>4, <3>1
  <2>3. CASE ~Log!Before(m, x)
    BY <1>7, <2>3
  <2> QED
    BY <2>2, <2>3
<1> QED
  BY <1>4, <1>5, <1>6, <1>7

LEMMA HashOfOne == \A m : Log!HashOf({m}) = m.hash
BY DEF Log!HashOf

\* The last row, and the row before a row.
LEMMA LastIs ==
  ASSUME LogRows
  PROVE  \/ log = {} /\ Log!Last = {} /\ Log!HashOf(Log!Last) = <<>>
         \/ \E m \in log : /\ Log!Last = {m} /\ Log!HashOf(Log!Last) = m.hash
                           /\ \A r \in log : r = m \/ Log!Before(r, m)
<1>1. CASE log = {}
  BY <1>1 DEF Log!Last, Log!HashOf
<1>2. CASE log # {}
  <2>1. PICK m \in log : \A r \in log : ~Log!Before(m, r)
    BY <1>2, LastRow
  <2>2. \A r \in log : r = m \/ Log!Before(r, m)
    BY <2>1, RowOrder
  <2>3. Log!Last = {m}
    BY <2>1, <2>2 DEF Log!Last
  <2> QED
    BY <2>2, <2>3, HashOfOne
<1> QED
  BY <1>1, <1>2

LEMMA PreviousIs ==
  ASSUME LogRows, NEW r \in log
  PROVE  \/ (\A s \in log : ~Log!Before(s, r)) /\ Log!HashOf(Log!Previous(r)) = <<>>
         \/ \E p \in log : /\ Log!Before(p, r) /\ Log!HashOf(Log!Previous(r)) = p.hash
                           /\ Log!Previous(r) = {p}
                           /\ \A s \in log : Log!Before(s, r) => s = p \/ Log!Before(s, p)
<1> DEFINE L == {s \in log : Log!Before(s, r)}
<1>1. CASE L = {}
  BY <1>1 DEF Log!Previous, Log!HashOf
<1>2. CASE L # {}
  <2>1. PICK m \in L : \A s \in L : ~Log!Before(m, s)
    BY <1>2, LastRow
  <2>2. \A s \in L : s = m \/ Log!Before(s, m)
    BY <2>1, RowOrder
  <2>3. Log!Previous(r) = {m}
    BY <2>1, <2>2, RowOrder DEF Log!Previous
  <2> QED
    BY <2>1, <2>2, <2>3, HashOfOne
<1> QED
  BY <1>1, <1>2

\* The content that a row was appended with is the last one of its hash.
Original(r) == r.hash[Len(r.hash)]

\* A hand changes the content of a row, and neither its place nor its hash.
RowOK(r) ==
    /\ r.hash = Append(r.prev, Original(r))
    /\ Original(r).at = r.core.at /\ Original(r).entry \in 1..appended
    /\ IF r.id \in touched.changed THEN r.core.entry = 0 ELSE r.core = Original(r)

\* No id is used twice.
Used == {r.id : r \in log} \cup touched.deleted

LogInv ==
    /\ LogRows
    /\ \A r \in log : RowOK(r)
    /\ \A r, s \in log : Original(r).entry = Original(s).entry => r.id = s.id
    /\ \A r \in log : r.id \notin touched.deleted
    /\ touched.changed \subseteq {r.id : r \in log}
    /\ touched.deleted \subseteq Log!Ids /\ appended = Cardinality(Used)

\* While clocks go on and no row is deleted, each row hashes the one before it.
ChainInv ==
    ~late /\ touched.deleted = {} => \A r \in log : r.prev = Log!HashOf(Log!Previous(r))

\* An export's head is the hash of a row, and it has the contents of all the rows that the export
\* covers: no other row was appended with one of these.
HeadInv ==
    /\ head \in [Exports -> Log!Hashes]
    /\ \A e \in Exports : head[e] # <<>> /\ touched.deleted = {} => \E r \in log : r.hash = head[e]
    /\ \A e \in Exports : \A n \in covered[e] : \E i \in DOMAIN head[e] :
          /\ head[e][i].entry \in 1..appended
          /\ \A s \in log : Original(s).entry = head[e][i].entry => s.id = n

\* What a row is made of.
LEMMA RowParts ==
  ASSUME LogInv, NEW r \in log
  PROVE  /\ r.prev \in Seq(Log!Contents) /\ r.hash \in Seq(Log!Contents) /\ r.core \in Log!Contents
         /\ r.id \in Log!Ids /\ r.core.at \in Log!Times
         /\ Len(r.hash) = Len(r.prev) + 1 /\ Len(r.prev) \in Nat
         /\ Original(r) \in Log!Contents
         /\ DOMAIN r.hash = 1..(Len(r.prev) + 1) /\ DOMAIN r.prev = 1..Len(r.prev)
         /\ \A i \in 1..Len(r.prev) : r.hash[i] = r.prev[i]
<1>1. r \in Log!Rows /\ r.hash = Append(r.prev, Original(r))
  BY DEF LogInv, LogRows, RowOK
<1>2. r.prev \in Seq(Log!Contents) /\ r.hash \in Seq(Log!Contents) /\ r.core \in Log!Contents
      /\ r.id \in Log!Ids /\ r.core.at \in Log!Times
  BY <1>1 DEF Log!Rows, Log!Hashes, Log!Contents
<1> HIDE DEF Original
<1>3. Len(r.hash) = Len(r.prev) + 1 /\ Len(r.prev) \in Nat
  BY <1>1, <1>2
<1>4. DOMAIN r.hash = 1..(Len(r.prev) + 1) /\ DOMAIN r.prev = 1..Len(r.prev)
  BY <1>2, <1>3
<1>5. \A i \in 1..Len(r.prev) : r.hash[i] = r.prev[i]
  BY <1>1, <1>2
<1>6. Original(r) \in Log!Contents
  BY <1>2, <1>3, <1>4 DEF Original
<1> QED
  BY <1>2, <1>3, <1>4, <1>5, <1>6

\* The hash of a row of a log that verifies holds the contents of the rows up to it, and no other.
UpTo(r) ==
    /\ \A i \in DOMAIN r.hash : \E s \in log : r.hash[i] = s.core
    /\ \A s \in log : Log!Before(s, r) => \E i \in DOMAIN r.prev : r.prev[i] = s.core

LEMMA IntactHolds ==
  ASSUME LogInv, Log!Intact
  PROVE  /\ \A r \in log : r.core = Original(r) /\ r.id \notin touched.changed
         /\ \A r \in log : UpTo(r)
<1>1. ASSUME NEW r \in log
      PROVE  r.prev = Log!HashOf(Log!Previous(r)) /\ r.hash = Append(r.prev, r.core)
  BY DEF Log!Intact, Log!Broken, Log!hashRow
<1>2. ASSUME NEW r \in log PROVE r.hash[Len(r.prev) + 1] = r.core
  BY <1>1, RowParts
<1>3. ASSUME NEW r \in log PROVE r.core = Original(r)
  BY <1>2, RowParts DEF Original
<1>4. ASSUME NEW r \in log PROVE r.id \notin touched.changed
  <2>1. Original(r).entry # 0 /\ RowOK(r)
    BY DEF LogInv, RowOK
  <2> QED
    BY <1>3, <2>1 DEF RowOK
<1>5. \A r \in log : UpTo(r)
  <2> DEFINE L == {r \in log : ~UpTo(r)}
  <2>1. SUFFICES ASSUME L # {} PROVE FALSE
    BY DEF L
  <2>2. PICK r \in L : \A s \in L : ~Log!Before(s, r)
    <3>1. L \in SUBSET log /\ LogRows
      BY DEF LogInv
    <3> HIDE DEF L
    <3> QED
      BY <2>1, <3>1, FirstRow
  <2>3. r \in log /\ ~UpTo(r)
    OBVIOUS
  <2>4. CASE (\A s \in log : ~Log!Before(s, r)) /\ Log!HashOf(Log!Previous(r)) = <<>>
    <3>1. r.prev = <<>>
      BY <1>1, <2>3, <2>4
    <3>2. Len(r.prev) = 0
      BY <3>1
    <3>3. \A i \in DOMAIN r.hash : r.hash[i] = r.core
      BY <1>2, <2>3, <3>2, RowParts
    <3> QED
      BY <2>3, <2>4, <3>3 DEF UpTo
  <2>5. ASSUME NEW p \in log, Log!Before(p, r), Log!HashOf(Log!Previous(r)) = p.hash,
               \A s \in log : Log!Before(s, r) => s = p \/ Log!Before(s, p)
        PROVE  FALSE
    <3>1. UpTo(p)
      BY <2>2, <2>5
    <3>2. r.prev = p.hash
      BY <1>1, <2>3, <2>5
    <3>3. ASSUME NEW i \in DOMAIN r.hash PROVE \E s \in log : r.hash[i] = s.core
      <4>1. CASE i = Len(r.prev) + 1
        BY <1>2, <2>3, <4>1
      <4>2. CASE i \in DOMAIN r.prev
        <5>1. r.hash[i] = p.hash[i] /\ i \in DOMAIN p.hash
          BY <2>3, <3>2, <4>2, RowParts
        <5> QED
          BY <3>1, <5>1 DEF UpTo
      <4> QED
        BY <2>3, <3>3, <4>1, <4>2, RowParts
    <3>4. ASSUME NEW s \in log, Log!Before(s, r) PROVE \E i \in DOMAIN r.prev : r.prev[i] = s.core
      <4>1. CASE s = p
        <5>1. Len(p.prev) + 1 \in DOMAIN r.prev /\ r.prev[Len(p.prev) + 1] = p.core
          BY <1>2, <2>5, <3>2, RowParts
        <5> QED
          BY <4>1, <5>1
      <4>2. CASE Log!Before(s, p)
        <5>1. PICK i \in DOMAIN p.prev : p.prev[i] = s.core
          BY <3>1, <4>2 DEF UpTo
        <5>2. i \in DOMAIN p.hash /\ p.hash[i] = s.core
          <6>1. /\ DOMAIN p.hash = 1..(Len(p.prev) + 1) /\ DOMAIN p.prev = 1..Len(p.prev)
                /\ \A k \in 1..Len(p.prev) : p.hash[k] = p.prev[k]
                /\ Len(p.prev) \in Nat
            BY RowParts
          <6> QED
            BY <5>1, <6>1
        <5> QED
          BY <3>2, <5>2
      <4> QED
        BY <2>5, <3>4, <4>1, <4>2
    <3> QED
      BY <2>3, <3>3, <3>4 DEF UpTo
  <2> QED
    BY <2>3, <2>4, <2>5, PreviousIs DEF LogInv
<1> QED
  BY <1>3, <1>4, <1>5

\* verify tells the truth: a row is broken just when it has been changed, and in a log that
\* verifies none has.
LEMMA LogVerifies ==
  ASSUME LogInv, ChainInv
  PROVE  Log!VerifyIsRight
<1>1. Log!IntactIsAsAppended
  BY IntactHolds DEF Log!IntactIsAsAppended, Log!Changed, UpTo
<1>2. ASSUME ~late, touched.deleted = {}, NEW r \in log
      PROVE  Log!Broken(r) <=> r.id \in touched.changed
  <2>1. r.prev = Log!HashOf(Log!Previous(r))
    BY <1>2 DEF ChainInv
  <2>2. Log!Broken(r) <=> r.hash # Append(r.prev, r.core)
    BY <2>1 DEF Log!Broken, Log!hashRow
  <2>3. r.hash = Append(r.prev, r.core) => r.core = Original(r)
    <3>1. SUFFICES ASSUME r.hash = Append(r.prev, r.core) PROVE r.core = Original(r)
      OBVIOUS
    <3>2. r.hash[Len(r.prev) + 1] = r.core
      BY <3>1, RowParts
    <3> QED
      BY <3>2, RowParts DEF Original
  <2>4. RowOK(r)
    BY DEF LogInv
  <2> QED
    BY <2>2, <2>3, <2>4 DEF RowOK
<1>3. Log!ChangeIsPinpointed
  BY <1>2 DEF Log!ChangeIsPinpointed, Log!FirstBroken, Log!Changed
<1> QED
  BY <1>1, <1>3 DEF Log!VerifyIsRight

\* While its head is the hash of a row of a log that verifies, an export's rows are all there.
LEMMA LogBinds ==
  ASSUME LogInv, HeadInv
  PROVE  Log!ExportsAreBound
<1>1. ASSUME Log!Intact, NEW e \in Exports, NEW r \in log, r.hash = head[e], NEW n \in covered[e]
      PROVE  n \in {s.id : s \in log} \ touched.changed
  <2>1. PICK i \in DOMAIN head[e] : \A s \in log : Original(s).entry = head[e][i].entry => s.id = n
    BY <1>1 DEF HeadInv
  <2>2. PICK s \in log : head[e][i] = s.core
    BY <1>1, IntactHolds DEF UpTo
  <2>3. s.core = Original(s) /\ s.id \notin touched.changed
    BY <1>1, IntactHolds
  <2> QED
    BY <2>1, <2>2, <2>3
<1>2. \A e \in Exports : head[e] # <<>> /\ touched.deleted = {} => \E r \in log : r.hash = head[e]
  BY DEF HeadInv
<1> QED
  BY <1>1, <1>2 DEF Log!ExportsAreBound

LogTypes ==
    /\ clock \in [Docs -> Log!Times]
    /\ stage \in [Exports -> {"collect", "insert", "log", "done"}]
    /\ covered \in [Exports -> SUBSET Log!Ids]
    /\ touched \in [changed : SUBSET Log!Ids, deleted : SUBSET Log!Ids]

LogIInv == LogTypes /\ LogInv /\ ChainInv /\ HeadInv

LEMMA InitLog == Log!Init => LogIInv
<1> SUFFICES ASSUME Log!Init PROVE LogIInv
  OBVIOUS
<1>1. LogTypes
  BY DEF Log!Init, LogTypes, Log!Times
<1>2. LogInv
  <2>1. log = {} /\ touched.changed = {} /\ touched.deleted = {} /\ appended = 0
    BY DEF Log!Init
  <2>2. Used = {}
    BY <2>1 DEF Used
  <2> QED
    BY <2>1, <2>2, FS_EmptySet DEF LogInv, LogRows
<1>3. HeadInv
  BY DEF Log!Init, HeadInv, Log!Hashes
<1> QED
  BY <1>1, <1>2, <1>3 DEF Log!Init, LogIInv, ChainInv

\* There are as many ids as rows may be appended.
LEMMA UsedFits ==
  ASSUME LogInv
  PROVE  /\ IsFiniteSet(Used) /\ Used \subseteq Log!Ids /\ appended \in 0..MaxRows
         /\ \A i \in Log!Ids \ Used : appended + 1 \in 1..MaxRows /\ Cardinality(Used \cup {i}) = appended + 1
<1>1. MaxRows \in Nat /\ IsFiniteSet(Log!Ids) /\ Cardinality(Log!Ids) = MaxRows
  <2>1. MaxRows \in Nat
    OBVIOUS
  <2>2. IsFiniteSet(1..MaxRows)
        /\ Cardinality(1..MaxRows) = IF 1 > MaxRows THEN 0 ELSE MaxRows - 1 + 1
    <3>1. 1 \in Int /\ MaxRows \in Int
      BY <2>1
    <3> QED
      BY <3>1, FS_Interval, Zenon
  <2> QED
    BY <2>1, <2>2 DEF Log!Ids
<1>2. Used \subseteq Log!Ids
  BY DEF Used, LogInv, LogRows, Log!Rows
<1>3. IsFiniteSet(Used) /\ Cardinality(Used) <= MaxRows /\ Cardinality(Used) \in Nat
  BY <1>1, <1>2, FS_Subset, FS_CardinalityType
<1>4. ASSUME NEW i \in Log!Ids \ Used PROVE appended + 1 \in 1..MaxRows /\ Cardinality(Used \cup {i}) = appended + 1
  <2>1. Cardinality(Used \cup {i}) = appended + 1
    BY <1>3, FS_AddElement DEF LogInv
  <2>2. Cardinality(Used \cup {i}) <= MaxRows
    <3>1. Used \cup {i} \in SUBSET Log!Ids
      BY <1>2
    <3> QED
      BY <1>1, <3>1, FS_Subset
  <2> QED
    BY <1>3, <2>1, <2>2 DEF LogInv
<1> QED
  BY <1>2, <1>3, <1>4 DEF LogInv

\* What an append writes.
LEMMA Appends ==
  ASSUME LogTypes, LogInv, NEW d \in Docs, Log!AppendRow(d)
  PROVE  \E n \in Log!Rows :
            /\ log' = log \cup {n} /\ n.id \notin Used /\ n.prev = Log!HashOf(Log!Last)
            /\ n.core = [entry |-> appended + 1, at |-> clock[d]] /\ n.hash = Append(n.prev, n.core)
            /\ appended' = appended + 1 /\ appended + 1 \in 1..MaxRows /\ Cardinality(Used \cup {n.id}) = appended + 1
<1>1. PICK i \in Log!Ids :
        /\ \A s \in log : s.id # i
        /\ i \notin touched.deleted
        /\ LET core == [entry |-> appended + 1, at |-> clock[d]]
           IN  log' = log \cup {[id |-> i, core |-> core, prev |-> Log!HashOf(Log!Last),
                                 hash |-> Log!hashRow(Log!HashOf(Log!Last), core)]}
  BY Zenon DEF Log!AppendRow
<1>2. PICK core : core = [entry |-> appended + 1, at |-> clock[d]]
  OBVIOUS
<1>3. PICK p : p = Log!HashOf(Log!Last)
  OBVIOUS
<1>4. PICK n : n = [id |-> i, core |-> core, prev |-> p, hash |-> Append(p, core)]
  OBVIOUS
<1>5. log' = log \cup {n}
  BY <1>1, <1>2, <1>3, <1>4, Zenon DEF Log!hashRow
<1>6. i \notin Used
  BY <1>1 DEF Used
<1>7. appended + 1 \in 1..MaxRows /\ Cardinality(Used \cup {i}) = appended + 1
  BY <1>6, UsedFits
<1>8. core \in Log!Contents
  BY <1>2, <1>7 DEF LogTypes, Log!Contents
<1>9. p \in Seq(Log!Contents)
  <2>1. LogRows /\ \A m \in log : m.hash \in Seq(Log!Contents)
    BY RowParts DEF LogInv
  <2>2. <<>> \in Seq(Log!Contents)
    OBVIOUS
  <2> QED
    BY <1>3, <2>1, <2>2, LastIs
<1>10. Append(p, core) \in Seq(Log!Contents)
  BY <1>8, <1>9
<1>11. n \in Log!Rows
  BY <1>4, <1>8, <1>9, <1>10 DEF Log!Rows, Log!Hashes
<1>12. n.id = i /\ n.core = core /\ n.prev = p /\ n.hash = Append(p, core)
  BY <1>4
<1> QED
  BY <1>2, <1>3, <1>5, <1>6, <1>7, <1>11, <1>12, Zenon DEF Log!AppendRow

\* The log grows by one row.
LEMMA AppendLog ==
  ASSUME LogIInv, NEW d \in Docs, Log!AppendRow(d)
  PROVE  LogInv' /\ ChainInv' /\ (UNCHANGED <<head, covered>> => HeadInv')
<1>1. PICK n \in Log!Rows :
            /\ log' = log \cup {n} /\ n.id \notin Used /\ n.prev = Log!HashOf(Log!Last)
            /\ n.core = [entry |-> appended + 1, at |-> clock[d]] /\ n.hash = Append(n.prev, n.core)
            /\ appended' = appended + 1 /\ appended + 1 \in 1..MaxRows /\ Cardinality(Used \cup {n.id}) = appended + 1
  BY Appends DEF LogIInv
<1>2. UNCHANGED <<clock, touched>>
  BY DEF Log!AppendRow
<1>3. n.id \in Log!Ids /\ n.prev \in Seq(Log!Contents)
  BY DEF Log!Rows, Log!Hashes
<1>4. Original(n) = n.core /\ n.hash # <<>>
  <2>1. n.core \in Log!Contents /\ Len(n.prev) \in Nat
    BY <1>3 DEF Log!Rows
  <2>2. Len(n.hash) = Len(n.prev) + 1 /\ n.hash[Len(n.prev) + 1] = n.core
    BY <1>1, <1>3, <2>1
  <2>3. n.hash # <<>>
    BY <2>1, <2>2
  <2> QED
    BY <2>2, <2>3 DEF Original
<1>5. n.core.entry = appended + 1 /\ n.core.at = clock[d]
  BY <1>1
<1>6. \A s \in log : s.id # n.id /\ n.id \notin touched.deleted /\ s.id \in Log!Ids
  BY <1>1 DEF Used, LogIInv, LogInv, LogRows, Log!Rows
<1>7. \A s \in log : Original(s).entry \in 1..appended
  BY DEF LogIInv, LogInv, RowOK
<1>8. appended \in Nat
  BY UsedFits DEF LogIInv
<1>9. n.id \notin touched.changed /\ n.id \notin touched.deleted
  BY <1>1 DEF Used, LogIInv, LogInv
<1>10. LogRows'
  BY <1>1, <1>6, FS_AddElement DEF LogIInv, LogInv, LogRows
<1>11. ASSUME NEW s \in log' PROVE RowOK(s)'
  <2>1. CASE s = n
    <3>1. n.hash = Append(n.prev, Original(n)) /\ Original(n) = n.core
      BY <1>1, <1>4
    <3>2. n.core.entry \in 1..appended' /\ n.id \notin touched'.changed
      BY <1>1, <1>2, <1>5, <1>8, <1>9
    <3> QED
      BY <2>1, <3>1, <3>2 DEF RowOK
  <2>2. CASE s \in log
    <3>1. RowOK(s)
      BY <2>2 DEF LogIInv, LogInv
    <3> QED
      BY <1>1, <1>2, <1>8, <3>1 DEF RowOK
  <2> QED
    BY <1>1, <2>1, <2>2
<1>12. \A r, s \in log' : Original(r).entry = Original(s).entry => r.id = s.id
  BY <1>1, <1>4, <1>5, <1>7, <1>8 DEF LogIInv, LogInv
<1>13. Used' = Used \cup {n.id}
  BY <1>1, <1>2 DEF Used
<1>14. LogInv'
  <2>1. \A r \in log' : r.id \notin touched'.deleted
    BY <1>1, <1>2, <1>9 DEF LogIInv, LogInv
  <2>2. touched'.changed \subseteq {r.id : r \in log'} /\ touched'.deleted \subseteq Log!Ids
    BY <1>1, <1>2 DEF LogIInv, LogInv
  <2>3. appended' = Cardinality(Used')
    BY <1>1, <1>13
  <2> QED
    BY <1>10, <1>11, <1>12, <2>1, <2>2, <2>3 DEF LogInv, Original
<1>15. ASSUME ~late', touched'.deleted = {}, NEW s \in log' PROVE s.prev = Log!HashOf(Log!Previous(s))'
  <2>1. ~late /\ \A q \in log : ~(clock[d] <= q.core.at)
    BY <1>15, Zenon DEF Log!AppendRow
  <2>2. \A q \in log : Log!Before(q, n) /\ ~Log!Before(n, q)
    <3>1. clock[d] \in Nat /\ \A q \in log : q.core.at \in Nat
      BY DEF LogIInv, LogTypes, LogInv, LogRows, Log!Rows, Log!Contents, Log!Times
    <3> QED
      BY <1>5, <2>1, <3>1 DEF Log!Before
  <2>3. ~Log!Before(n, n)
    <3>1. n.id \in Nat /\ n.core.at \in Nat
      BY DEF Log!Rows, Log!Ids, Log!Contents, Log!Times
    <3> QED
      BY <3>1 DEF Log!Before
  <2>4. CASE s = n
    <3>1. Log!Previous(n)' = Log!Last
      BY <1>1, <2>2, <2>3 DEF Log!Previous, Log!Last
    <3> QED
      BY <1>1, <2>4, <3>1 DEF Log!HashOf
  <2>5. CASE s \in log
    <3>1. Log!Previous(s)' = Log!Previous(s)
      BY <1>1, <2>2, <2>5 DEF Log!Previous
    <3>2. s.prev = Log!HashOf(Log!Previous(s))
      BY <1>2, <1>15, <2>1, <2>5 DEF LogIInv, ChainInv
    <3> QED
      BY <3>1, <3>2 DEF Log!HashOf
  <2> QED
    BY <1>1, <2>4, <2>5
<1>16. ASSUME UNCHANGED <<head, covered>> PROVE HeadInv'
  <2>1. \A e \in Exports : head'[e] # <<>> /\ touched'.deleted = {} => \E r \in log' : r.hash = head'[e]
    BY <1>1, <1>2, <1>16 DEF LogIInv, HeadInv
  <2>2. ASSUME NEW e \in Exports, NEW m \in covered[e]
        PROVE  \E i \in DOMAIN head[e] :
                  /\ head[e][i].entry \in 1..appended'
                  /\ \A s \in log' : Original(s).entry = head[e][i].entry => s.id = m
    <3>1. PICK i \in DOMAIN head[e] :
                  /\ head[e][i].entry \in 1..appended
                  /\ \A s \in log : Original(s).entry = head[e][i].entry => s.id = m
      BY DEF LogIInv, HeadInv
    <3>2. head[e][i].entry \in 1..appended' /\ head[e][i].entry # appended + 1
      BY <1>1, <1>8, <3>1
    <3> QED
      BY <1>1, <1>4, <1>5, <3>1, <3>2
  <2> QED
    BY <1>16, <2>1, <2>2 DEF LogIInv, HeadInv, Original
<1> QED
  BY <1>14, <1>15, <1>16, Zenon DEF ChainInv

\* A change by hand leaves the row's id, its time, what it was appended with and its hashes.
LEMMA ChangedRow ==
  ASSUME LogInv, NEW r \in log, Log!ChangeRow(r)
  PROVE  \E t \in Log!Rows :
            /\ log' = (log \ {r}) \cup {t}
            /\ t.id = r.id /\ t.core.at = r.core.at /\ t.core.entry = 0 /\ t.prev = r.prev /\ t.hash = r.hash
<1>1. r \in Log!Rows
  BY DEF LogInv, LogRows
<1>2. PICK c : c = [r.core EXCEPT !.entry = 0]
  OBVIOUS
<1>3. c = [entry |-> 0, at |-> r.core.at] /\ c \in Log!Contents
  BY <1>1, <1>2 DEF Log!Rows, Log!Contents
<1>4. PICK t : t = [r EXCEPT !.core = c]
  OBVIOUS
<1>5. t = [id |-> r.id, core |-> c, prev |-> r.prev, hash |-> r.hash] /\ t \in Log!Rows
  BY <1>1, <1>3, <1>4 DEF Log!Rows
<1>6. log' = (log \ {r}) \cup {t}
  BY <1>2, <1>4, Zenon DEF Log!ChangeRow
<1>7. t.id = r.id /\ t.core.at = r.core.at /\ t.core.entry = 0 /\ t.prev = r.prev /\ t.hash = r.hash
  BY <1>3, <1>5
<1> QED
  BY <1>5, <1>6, <1>7

LEMMA ChangeLog ==
  ASSUME LogIInv, NEW r \in log, Log!ChangeRow(r)
  PROVE  LogIInv'
<1>1. PICK t \in Log!Rows :
            /\ log' = (log \ {r}) \cup {t}
            /\ t.id = r.id /\ t.core.at = r.core.at /\ t.core.entry = 0 /\ t.prev = r.prev /\ t.hash = r.hash
  BY ChangedRow DEF LogIInv
<1>2. UNCHANGED <<appended, clock, head, stage, covered, late>>
  BY DEF Log!ChangeRow
<1>3. touched'.changed = touched.changed \cup {r.id} /\ touched'.deleted = touched.deleted
      /\ touched' \in [changed : SUBSET Log!Ids, deleted : SUBSET Log!Ids]
  <2>1. touched' = [changed |-> touched.changed \cup {r.id}, deleted |-> touched.deleted]
    BY DEF Log!ChangeRow, LogIInv, LogTypes
  <2>2. r.id \in Log!Ids
    BY RowParts DEF LogIInv
  <2> QED
    BY <2>1, <2>2 DEF LogIInv, LogTypes
<1>4. Original(t) = Original(r)
  BY <1>1 DEF Original
<1>5. LogTypes'
  BY <1>2, <1>3 DEF LogIInv, LogTypes
<1>6. \A s \in log \ {r} : s.id # r.id
  BY DEF LogIInv, LogInv, LogRows
<1>7. LogRows'
  <2>1. IsFiniteSet(log')
    BY <1>1, FS_AddElement, FS_RemoveElement DEF LogIInv, LogInv, LogRows
  <2> QED
    BY <1>1, <1>6, <2>1 DEF LogIInv, LogInv, LogRows
<1>8. ASSUME NEW s \in log' PROVE RowOK(s)'
  <2>1. CASE s = t
    <3>1. RowOK(r)
      BY DEF LogIInv, LogInv
    <3> QED
      BY <1>1, <1>2, <1>3, <1>4, <2>1, <3>1 DEF RowOK
  <2>2. CASE s \in log \ {r}
    <3>1. RowOK(s)
      BY <2>2 DEF LogIInv, LogInv
    <3> QED
      BY <1>2, <1>3, <1>6, <2>2, <3>1 DEF RowOK
  <2> QED
    BY <1>1, <2>1, <2>2
<1>9. {s.id : s \in log'} = {s.id : s \in log}
  BY <1>1
<1>10. Used' = Used
  BY <1>3, <1>9 DEF Used
<1>11. \A s \in log' : \E q \in log : Original(s) = Original(q) /\ s.id = q.id /\ s.hash = q.hash
  BY <1>1, <1>4
<1>12. LogInv'
  <2>1. \A q, s \in log' : Original(q).entry = Original(s).entry => q.id = s.id
    BY <1>11 DEF LogIInv, LogInv
  <2>2. \A s \in log' : s.id \notin touched'.deleted
    BY <1>3, <1>11 DEF LogIInv, LogInv
  <2>3. touched'.changed \subseteq {s.id : s \in log'} /\ touched'.deleted \subseteq Log!Ids
    BY <1>3, <1>9 DEF LogIInv, LogInv
  <2>4. appended' = Cardinality(Used')
    BY <1>2, <1>10 DEF LogIInv, LogInv
  <2> QED
    BY <1>7, <1>8, <2>1, <2>2, <2>3, <2>4 DEF LogInv
<1>13. HeadInv'
  <2>1. \A e \in Exports : head'[e] # <<>> /\ touched'.deleted = {} => \E s \in log' : s.hash = head'[e]
    <3>1. \A q \in log : \E s \in log' : s.hash = q.hash
      BY <1>1
    <3> QED
      BY <1>2, <1>3, <3>1 DEF LogIInv, HeadInv
  <2>2. ASSUME NEW e \in Exports, NEW m \in covered[e]
        PROVE  \E i \in DOMAIN head[e] :
                  /\ head[e][i].entry \in 1..appended
                  /\ \A s \in log' : Original(s).entry = head[e][i].entry => s.id = m
    <3>1. PICK i \in DOMAIN head[e] :
                  /\ head[e][i].entry \in 1..appended
                  /\ \A s \in log : Original(s).entry = head[e][i].entry => s.id = m
      BY DEF LogIInv, HeadInv
    <3> QED
      BY <1>11, <3>1
  <2> QED
    BY <1>2, <2>1, <2>2 DEF LogIInv, HeadInv
<1>14. ASSUME ~late', touched'.deleted = {}, NEW s \in log' PROVE s.prev = Log!HashOf(Log!Previous(s))'
  <2>1. PICK q \in log : q = (IF s = t THEN r ELSE s)
    BY <1>1, <1>14
  <2>2. q.prev = s.prev /\ q.id = s.id /\ q.core.at = s.core.at
    BY <1>1, <2>1
  <2>3. q.prev = Log!HashOf(Log!Previous(q))
    BY <1>2, <1>3, <1>14 DEF LogIInv, ChainInv
  <2>4. /\ \A p \in log \ {r} : Log!Before(p, s) <=> Log!Before(p, q)
        /\ Log!Before(t, s) <=> Log!Before(r, q)
        /\ \A p \in log \ {r} : Log!Before(p, t) <=> Log!Before(p, r)
        /\ \A p \in log \ {r} : Log!Before(t, p) <=> Log!Before(r, p)
        /\ Log!Before(t, t) <=> Log!Before(r, r)
    BY <1>1, <2>2 DEF Log!Before
  <2>5. CASE (\A p \in log : ~Log!Before(p, q)) /\ Log!HashOf(Log!Previous(q)) = <<>>
    <3>1. Log!Previous(s)' = {}
      BY <1>1, <2>4, <2>5 DEF Log!Previous
    <3> QED
      BY <2>2, <2>3, <2>5, <3>1 DEF Log!HashOf
  <2>6. ASSUME NEW p \in log, Log!Previous(q) = {p}, Log!HashOf(Log!Previous(q)) = p.hash
        PROVE  s.prev = Log!HashOf(Log!Previous(s))'
    <3>1. Log!Previous(s)' = {IF p = r THEN t ELSE p}
      BY <1>1, <2>4, <2>6 DEF Log!Previous
    <3>2. PICK u : u = IF p = r THEN t ELSE p
      OBVIOUS
    <3>3. Log!HashOf(Log!Previous(s))' = u.hash /\ u.hash = p.hash
      BY <1>1, <3>1, <3>2 DEF Log!HashOf
    <3> QED
      BY <2>2, <2>3, <2>6, <3>3
  <2> QED
    BY <2>5, <2>6, PreviousIs DEF LogIInv, LogInv
<1> QED
  BY <1>5, <1>12, <1>13, <1>14, Zenon DEF LogIInv, ChainInv

LEMMA DeleteLog ==
  ASSUME LogIInv, NEW r \in log, Log!DeleteRow(r)
  PROVE  LogIInv'
<1>1. /\ log' = log \ {r} /\ UNCHANGED <<appended, clock, head, stage, covered, late>>
      /\ touched' = [changed |-> touched.changed \ {r.id}, deleted |-> touched.deleted \cup {r.id}]
  BY DEF Log!DeleteRow
<1>2. r.id \in Log!Ids
  BY RowParts DEF LogIInv
<1>3. touched'.changed = touched.changed \ {r.id} /\ touched'.deleted = touched.deleted \cup {r.id}
      /\ touched' \in [changed : SUBSET Log!Ids, deleted : SUBSET Log!Ids]
  BY <1>1, <1>2 DEF LogIInv, LogTypes
<1>4. LogTypes'
  BY <1>1, <1>3 DEF LogIInv, LogTypes
<1>5. \A s \in log' : s \in log /\ s.id # r.id
  BY <1>1 DEF LogIInv, LogInv, LogRows
<1>6. LogRows'
  BY <1>1, FS_RemoveElement DEF LogIInv, LogInv, LogRows
<1>7. ASSUME NEW s \in log' PROVE RowOK(s)'
  <2>1. RowOK(s)
    BY <1>5 DEF LogIInv, LogInv
  <2> QED
    BY <1>1, <1>3, <1>5, <2>1 DEF RowOK
<1>8. Used' = Used
  BY <1>1, <1>3, <1>5 DEF Used
<1>9. LogInv'
  <2>1. \A q, s \in log' : Original(q).entry = Original(s).entry => q.id = s.id
    BY <1>5 DEF LogIInv, LogInv
  <2>2. \A s \in log' : s.id \notin touched'.deleted
    BY <1>3, <1>5 DEF LogIInv, LogInv
  <2>3. touched'.changed \subseteq {s.id : s \in log'} /\ touched'.deleted \subseteq Log!Ids
    BY <1>1, <1>2, <1>3 DEF LogIInv, LogInv
  <2>4. appended' = Cardinality(Used')
    BY <1>1, <1>8 DEF LogIInv, LogInv
  <2> QED
    BY <1>6, <1>7, <2>1, <2>2, <2>3, <2>4 DEF LogInv
<1>10. touched'.deleted # {}
  BY <1>3
<1>11. HeadInv'
  <2>1. ASSUME NEW e \in Exports, NEW m \in covered[e]
        PROVE  \E i \in DOMAIN head[e] :
                  /\ head[e][i].entry \in 1..appended
                  /\ \A s \in log' : Original(s).entry = head[e][i].entry => s.id = m
    BY <1>5 DEF LogIInv, HeadInv
  <2> QED
    BY <1>1, <1>10, <2>1 DEF LogIInv, HeadInv
<1>12. ChainInv'
  BY <1>10 DEF ChainInv
<1> QED
  BY <1>4, <1>9, <1>11, <1>12 DEF LogIInv

LEMMA LogStays ==
  ASSUME LogInv, ChainInv, UNCHANGED <<log, appended, late, touched>>
  PROVE  LogInv' /\ ChainInv'
<1>1. LogRows'
  BY DEF LogInv, LogRows
<1>2. ASSUME NEW s \in log' PROVE RowOK(s)'
  <2>1. RowOK(s)
    BY DEF LogInv
  <2> QED
    BY <2>1 DEF RowOK
<1>3. Used' = Used
  BY DEF Used
<1>4. LogInv'
  BY <1>1, <1>2, <1>3 DEF LogInv
<1>5. ASSUME NEW s \in log' PROVE Log!HashOf(Log!Previous(s))' = Log!HashOf(Log!Previous(s))
  BY DEF Log!HashOf, Log!Previous
<1>6. ChainInv'
  BY <1>5 DEF ChainInv
<1> QED
  BY <1>4, <1>6

\* The head of an export is the hash of the last row, in a log that verifies of all of them.
LEMMA ReadLog ==
  ASSUME LogIInv, NEW e \in Exports, Log!ReadHead(e)
  PROVE  LogIInv'
<1>1. UNCHANGED <<log, appended, clock, late, touched>> /\ stage' = [stage EXCEPT ![e] = "insert"]
      /\ head' = [head EXCEPT ![e] = Log!HashOf(Log!Last)]
  BY DEF Log!ReadHead
<1>2. covered' = [covered EXCEPT ![e] = IF Log!Intact THEN {r.id : r \in log} ELSE {}]
  BY DEF Log!ReadHead, Log!Cover
<1>3. {r.id : r \in log} \subseteq Log!Ids
  BY RowParts DEF LogIInv
<1>4. LogTypes'
  BY <1>1, <1>2, <1>3 DEF LogIInv, LogTypes
<1>5. LogInv' /\ ChainInv'
  BY <1>1, LogStays DEF LogIInv
<1>6. head' \in [Exports -> Log!Hashes]
  <2>1. Log!HashOf(Log!Last) \in Seq(Log!Contents)
    <3>1. LogRows /\ \A m \in log : m.hash \in Seq(Log!Contents)
      BY RowParts DEF LogIInv, LogInv
    <3>2. <<>> \in Seq(Log!Contents)
      OBVIOUS
    <3> QED
      BY <3>1, <3>2, LastIs
  <2> QED
    BY <1>1, <2>1 DEF LogIInv, HeadInv, Log!Hashes
<1>7. /\ head'[e] = Log!HashOf(Log!Last) /\ covered'[e] = IF Log!Intact THEN {r.id : r \in log} ELSE {}
      /\ \A d \in Exports \ {e} : head'[d] = head[d] /\ covered'[d] = covered[d]
  BY <1>1, <1>2 DEF LogIInv, LogTypes, HeadInv
<1>8. head'[e] # <<>> => \E r \in log : r.hash = head'[e]
  BY <1>7, LastIs DEF LogIInv, LogInv
<1>9. ASSUME NEW m \in covered'[e]
      PROVE  \E i \in DOMAIN head'[e] :
                  /\ head'[e][i].entry \in 1..appended
                  /\ \A s \in log : Original(s).entry = head'[e][i].entry => s.id = m
  <2>1. Log!Intact
    BY <1>7, <1>9
  <2>2. PICK r \in log : r.id = m
    BY <1>7, <1>9
  <2>3. PICK l \in log : Log!HashOf(Log!Last) = l.hash /\ \A q \in log : q = l \/ Log!Before(q, l)
    BY <2>2, LastIs DEF LogIInv, LogInv
  <2>4. r.core = Original(r) /\ UpTo(l)
    BY <2>1, IntactHolds DEF LogIInv
  <2>5. \E i \in DOMAIN l.hash : l.hash[i] = Original(r)
    <3>1. CASE r = l
      <4>1. Len(l.hash) \in DOMAIN l.hash
        BY RowParts DEF LogIInv
      <4> QED
        BY <3>1, <4>1 DEF Original
    <3>2. CASE Log!Before(r, l)
      <4>1. PICK i \in DOMAIN l.prev : l.prev[i] = r.core
        BY <2>4, <3>2 DEF UpTo
      <4>2. /\ DOMAIN l.hash = 1..(Len(l.prev) + 1) /\ DOMAIN l.prev = 1..Len(l.prev)
            /\ \A k \in 1..Len(l.prev) : l.hash[k] = l.prev[k]
            /\ Len(l.prev) \in Nat
        BY RowParts DEF LogIInv
      <4>3. i \in DOMAIN l.hash /\ l.hash[i] = l.prev[i]
        BY <4>1, <4>2
      <4> QED
        BY <2>4, <4>1, <4>3
    <3> QED
      BY <2>3, <3>1, <3>2
  <2>6. /\ Original(r).entry \in 1..appended
        /\ \A s \in log : Original(s).entry = Original(r).entry => s.id = m
    BY <2>2 DEF LogIInv, LogInv, RowOK
  <2> QED
    BY <1>7, <2>3, <2>5, <2>6
<1>10. HeadInv'
  <2>1. \A d \in Exports : head'[d] # <<>> /\ touched.deleted = {} => \E r \in log : r.hash = head'[d]
    BY <1>7, <1>8 DEF LogIInv, HeadInv
  <2>2. ASSUME NEW d \in Exports, NEW m \in covered'[d]
        PROVE  \E i \in DOMAIN head'[d] :
                  /\ head'[d][i].entry \in 1..appended
                  /\ \A s \in log : Original(s).entry = head'[d][i].entry => s.id = m
    <3>1. CASE d = e
      BY <1>9, <2>2, <3>1
    <3>2. CASE d # e
      <4>1. head'[d] = head[d] /\ covered'[d] = covered[d]
        BY <1>7, <3>2
      <4> QED
        BY <2>2, <4>1 DEF LogIInv, HeadInv
    <3> QED
      BY <3>1, <3>2
  <2> QED
    BY <1>1, <1>6, <2>1, <2>2 DEF HeadInv
<1> QED
  BY <1>4, <1>5, <1>10 DEF LogIInv

LEMMA NextLog ==
  ASSUME LogIInv, Log!Next \/ UNCHANGED Log!vars
  PROVE  LogIInv'
<1>1. ASSUME NEW d \in Docs, Log!LogAccess(d) PROVE LogIInv'
  <2>1. LogInv' /\ ChainInv' /\ HeadInv'
    BY <1>1, AppendLog DEF Log!LogAccess
  <2>2. LogTypes'
    BY <1>1 DEF Log!LogAccess, Log!AppendRow, LogIInv, LogTypes
  <2> QED
    BY <2>1, <2>2 DEF LogIInv
<1>2. ASSUME NEW d \in Docs, NEW e \in Exports, Log!LogExport(e, d) PROVE LogIInv'
  <2>1. LogInv' /\ ChainInv' /\ HeadInv'
    BY <1>2, AppendLog DEF Log!LogExport
  <2>2. LogTypes'
    BY <1>2 DEF Log!LogExport, Log!AppendRow, LogIInv, LogTypes
  <2> QED
    BY <2>1, <2>2 DEF LogIInv
<1>3. CASE \/ \E d \in Docs : Log!Tick(d)
           \/ \E e \in Exports : Log!InsertExport(e)
           \/ UNCHANGED Log!vars
  <2>1. UNCHANGED <<log, appended, head, covered, late, touched>>
    BY <1>3 DEF Log!Tick, Log!InsertExport, Log!vars
  <2>2. LogTypes'
    BY <1>3 DEF Log!Tick, Log!InsertExport, Log!vars, LogIInv, LogTypes, Log!Times
  <2>3. LogInv' /\ ChainInv' /\ HeadInv'
    BY <2>1, LogStays DEF LogIInv, HeadInv
  <2> QED
    BY <2>2, <2>3 DEF LogIInv
<1> QED
  BY <1>1, <1>2, <1>3, ChangeLog, DeleteLog, ReadLog, Zenon DEF Log!Next

\* The log's tables agree when the log is in play.
LEMMA LogInvariance == ServicesSpec => [](active = "log" => LogIInv)
<1>1. ServicesInit => (active = "log" => LogIInv)
  BY InitLog DEF ServicesInit
<1>2. (active = "log" => LogIInv) /\ [ServicesNext]_servicesVars => (active = "log" => LogIInv)'
  <2> SUFFICES ASSUME active = "log" => LogIInv, [ServicesNext]_servicesVars, active' = "log"
               PROVE  LogIInv'
    OBVIOUS
  <2>1. Log!Next \/ UNCHANGED Log!vars
    BY OneService
  <2>2. LogIInv
    BY OneService
  <2> QED
    BY <2>1, <2>2, NextLog
<1> QED
  BY <1>1, <1>2, PTL DEF ServicesSpec

\* For any replicas and clocks, any rows and exports, and any changes and deletions by hand: verify
\* names the first row that was changed, or none, while clocks go on and no row is deleted; a log
\* that verifies has been changed nowhere, and its hashes vouch for all its rows; and an export is
\* bound to the rows it was taken of (ComplianceAuditService).
THEOREM LogAlwaysRight == ServicesSpec => []LogIsRight
<1>1. (active = "log" => LogIInv) => LogIsRight
  BY LogVerifies, LogBinds DEF LogIsRight, LogIInv
<1> QED
  BY <1>1, LogInvariance, PTL

-----------------------------------------------------------------------------
(* DocumentReview: what is there, the turns, and what is made *)

ProjectRow == [file : 1..Files, status : {"draft", "pending_signatures", "completed"}, signer : BOOLEAN,
               plotted : BOOLEAN, finished : BOOLEAN, appointment : 0..MaxSessions]
MeetingRow == [project : 0..MaxProjects, documents : 0..Files]
ReviewRow == [status : {"absent", "pending", "approved", "rejected", "cancelled"},
              path : {"none", "meeting", "quicksign"}, appointment : 0..MaxSessions, active : 0..MaxProjects]
Statuses == {"draft", "pending_signatures", "completed"}

ReviewTables ==
    /\ review \in ReviewRow
    /\ link = <<>> \/ link \in [1..Files -> 0..MaxProjects]
    /\ projects \in Seq(ProjectRow) /\ Len(projects) <= MaxProjects
    /\ meetings \in Seq(MeetingRow) /\ Len(meetings) <= MaxSessions

ReviewData == ReviewTables /\ job \in [Requests -> Reviews!Jobs]

\* The jobs that decide about the review: an answer, and one that opens a project.
QueueJobs == {"insert_project", "open", "sign_up", "link", "activate", "approve_quicksign"}
ReviewJobs == {"insert_review", "insert_files", "book", "attach", "approve_meeting", "decide"} \cup QueueJobs
SessionJobs == {"start", "document", "bind"}

\* The parts of a job that are read.
LEMMA ReviewJobIs ==
  ASSUME NEW j \in Reviews!Jobs
  PROVE  /\ j = Reviews!Idle \/ j.at \in ReviewJobs \/ j.at \in SessionJobs
         /\ j = Reviews!Idle => j.at = "idle"
         /\ j.at \in ReviewJobs => j.on = 0
         /\ j.at \in SessionJobs => j.on \in 1..MaxProjects
         /\ j.at \in {"book", "attach", "approve_meeting"} => j.files \in 0..Files
         /\ j.at \in {"attach", "approve_meeting", "document", "bind"} => j.session \in 1..MaxSessions
         /\ j.at = "decide" => j.status \in {"rejected", "cancelled"}
         /\ j.at \in QueueJobs => j.file \in 1..Files /\ j.answers \in BOOLEAN
         /\ j.at \in QueueJobs \ {"insert_project"} => j.project \in 1..MaxProjects
<1> USE DEF ReviewJobs, QueueJobs, SessionJobs, Reviews!Idle
<1>1. CASE j \in [at : {"insert_review", "insert_files"}, on : {0}]
  BY <1>1
<1>2. CASE j \in [at : {"book"}, on : {0}, files : 0..Files]
  BY <1>2
<1>3. CASE j \in [at : {"attach", "approve_meeting"}, on : {0}, files : 0..Files, session : 1..MaxSessions]
  BY <1>3
<1>4. CASE j \in [at : {"decide"}, on : {0}, status : {"rejected", "cancelled"}]
  BY <1>4
<1>5. CASE j \in [at : {"insert_project"}, on : {0}, file : 1..Files, answers : BOOLEAN]
  BY <1>5
<1>6. CASE j \in [at : {"open", "sign_up", "link", "activate", "approve_quicksign"}, on : {0},
                  file : 1..Files, answers : BOOLEAN, project : 1..MaxProjects]
  BY <1>6
<1>7. CASE j \in [at : {"start"}, on : 1..MaxProjects]
  BY <1>7
<1>8. CASE j \in [at : {"document", "bind"}, on : 1..MaxProjects, session : 1..MaxSessions]
  BY <1>8
<1>9. CASE j = Reviews!Idle
  BY <1>9
<1> QED
  BY <1>1, <1>2, <1>3, <1>4, <1>5, <1>6, <1>7, <1>8, <1>9, Zenon DEF Reviews!Jobs

\* A job that goes on with the next statement.
LEMMA QueueJobGoesOn ==
  ASSUME NEW j \in Reviews!Jobs, j.at \in QueueJobs \ {"insert_project"},
         NEW a \in QueueJobs \ {"insert_project"}
  PROVE  LET k == [j EXCEPT !.at = a]
         IN  /\ k \in Reviews!Jobs
             /\ k.at = a /\ k.on = 0 /\ k.file = j.file /\ k.answers = j.answers /\ k.project = j.project
<1> DEFINE K == [at : QueueJobs \ {"insert_project"}, on : {0}, file : 1..Files, answers : BOOLEAN,
                 project : 1..MaxProjects]
           k == [j EXCEPT !.at = a]
<1>1. j \in K
  BY DEF Reviews!Jobs, QueueJobs, Reviews!Idle
<1>2. k = [at |-> a, on |-> j.on, file |-> j.file, answers |-> j.answers, project |-> j.project]
  BY <1>1
<1>3. k \in K
  BY <1>1, <1>2
<1>4. K = [at : {"open", "sign_up", "link", "activate", "approve_quicksign"}, on : {0},
           file : 1..Files, answers : BOOLEAN, project : 1..MaxProjects]
  BY DEF QueueJobs
<1>5. k \in Reviews!Jobs
  BY <1>3, <1>4, Zenon DEF Reviews!Jobs
<1> QED
  BY <1>1, <1>2, <1>5

\* One column of a project is written.
LEMMA ProjectColumns ==
  ASSUME NEW r \in ProjectRow, NEW s \in Statuses, NEW b \in BOOLEAN, NEW a \in 0..MaxSessions
  PROVE  /\ [r EXCEPT !.status = s] = [file |-> r.file, status |-> s, signer |-> r.signer, plotted |-> r.plotted,
                                       finished |-> r.finished, appointment |-> r.appointment]
         /\ [r EXCEPT !.signer = b] = [file |-> r.file, status |-> r.status, signer |-> b, plotted |-> r.plotted,
                                       finished |-> r.finished, appointment |-> r.appointment]
         /\ [r EXCEPT !.plotted = b] = [file |-> r.file, status |-> r.status, signer |-> r.signer, plotted |-> b,
                                        finished |-> r.finished, appointment |-> r.appointment]
         /\ [r EXCEPT !.finished = b] = [file |-> r.file, status |-> r.status, signer |-> r.signer,
                                         plotted |-> r.plotted, finished |-> b, appointment |-> r.appointment]
         /\ [r EXCEPT !.appointment = a] = [file |-> r.file, status |-> r.status, signer |-> r.signer,
                                            plotted |-> r.plotted, finished |-> r.finished, appointment |-> a]
BY DEF ProjectRow, Statuses

LEMMA SeqWritten ==
  ASSUME NEW S, NEW q \in Seq(S), NEW i \in 1..Len(q), NEW e \in S, NEW w, w = [q EXCEPT ![i] = e]
  PROVE  /\ w \in Seq(S) /\ Len(w) = Len(q) /\ w[i] = e
         /\ \A k \in 1..Len(q) : k # i => w[k] = q[k]
OBVIOUS

LEMMA SeqAppended ==
  ASSUME NEW S, NEW q \in Seq(S), NEW e \in S, NEW w, w = Append(q, e)
  PROVE  /\ w \in Seq(S) /\ Len(w) = Len(q) + 1 /\ w[Len(q) + 1] = e
         /\ \A k \in 1..Len(q) : w[k] = q[k]
OBVIOUS

\* What a job names is there.
RefsOK(j) ==
    /\ j \in Reviews!Jobs
    /\ j.at \in QueueJobs => j.file \in DOMAIN link
    /\ j.at \in QueueJobs \ {"insert_project"} =>
          j.project \in 1..Len(projects) /\ projects[j.project].file = j.file
    /\ j.at \in {"sign_up", "link"} => projects[j.project].status # "draft"
    /\ j.at = "link" => projects[j.project].signer
    /\ j.at \in SessionJobs => j.on \in 1..Len(projects)
    /\ j.at \in {"document", "bind"} => j.session \in 1..Len(meetings) /\ meetings[j.session].project = j.on
    /\ j.at \in {"attach", "approve_meeting"} => j.session \in 1..Len(meetings) /\ meetings[j.session].project = 0

\* A document of the queue has a project of its own that can be signed.
QueuedOK ==
    \A f \in Reviews!Linked :
        /\ link[f] \in 1..Len(projects) /\ projects[link[f]].file = f
        /\ projects[link[f]].signer /\ projects[link[f]].status # "draft"

ReviewRefs ==
    /\ QueuedOK
    /\ \A p \in 1..Len(projects) : projects[p].status = "completed" => projects[p].finished
    /\ \A s \in 1..Len(meetings) : meetings[s].project <= Len(projects)
    /\ review.appointment # 0 => review.appointment \in 1..Len(meetings) /\ meetings[review.appointment].project = 0
    /\ \A h \in Requests : RefsOK(job[h])

\* While no two requests on one thing overlap: what a job on the review has checked still holds.
TurnOK(j) ==
    /\ j.at \in {"insert_files", "decide", "book", "attach", "approve_meeting"} => review.status = "pending"
    /\ j.at \in QueueJobs =>
          IF j.answers THEN review.status = "pending" /\ j.file = 1 ELSE review.status = "approved"
    /\ j.at \in {"book", "attach"} => j.files = Len(link)
    /\ j.at = "approve_meeting" => meetings[j.session].documents = Len(link)
    /\ j.at \in {"insert_project", "open", "sign_up", "link"} =>
          /\ \A g \in Reviews!Linked : g <= j.file
          /\ \A g \in 1..(j.file - 1) : g \in Reviews!Linked /\ projects[link[g]].finished

\* Documents enter the queue in their order, the first one before the review is answered.
TurnInv ==
    /\ \A g, h \in Requests : Reviews!Busy(g) /\ Reviews!Busy(h) /\ job[g].on = job[h].on => g = h
    /\ \A f \in Reviews!Linked : \A g \in 1..(f - 1) : g \in Reviews!Linked /\ projects[link[g]].finished
    /\ review.status \in {"absent", "pending"} => Reviews!Linked \subseteq {1} /\ review.appointment = 0
    /\ review.appointment # 0 => meetings[review.appointment].documents = Len(link)
    /\ \A h \in Requests : TurnOK(job[h])

\* What the answers have made, when no request is on the review.
Settled ==
    /\ Reviews!Meetings = {review.appointment} \ {0}
    /\ 1..Len(projects) = {link[f] : f \in Reviews!Linked}
    /\ review.active = Reviews!Latest
    /\ review.path = "meeting" <=> review.appointment # 0
    /\ review.path = "quicksign" <=> review.active # 0
    /\ review.status = "approved" <=> review.path # "none"

Unanswered == review.status = "pending" /\ review.path = "none" /\ review.appointment = 0 /\ review.active = 0

\* What they have made halfway.
MadeOK(j) ==
    /\ j.at \in {"insert_review", "insert_files", "book", "decide", "insert_project"} => Settled
    /\ j.at \in {"insert_project", "open", "sign_up", "link"} => \A g \in Reviews!Linked : g < j.file
    /\ j.at \in QueueJobs /\ ~j.answers => review.path = "quicksign"
    /\ j.at \in {"attach", "approve_meeting"} =>
          Unanswered /\ Reviews!Linked = {} /\ Len(projects) = 0 /\ Reviews!Meetings = {j.session}
    /\ j.at \in {"open", "sign_up", "link"} =>
          /\ Reviews!Meetings = {review.appointment} \ {0}
          /\ 1..Len(projects) = {link[f] : f \in Reviews!Linked} \cup {j.project}
          /\ j.project \notin {link[f] : f \in Reviews!Linked}
          /\ review.active = Reviews!Latest
          /\ review.path = "meeting" <=> review.appointment # 0
          /\ review.path = "quicksign" <=> review.active # 0
          /\ review.status = "approved" <=> review.path # "none"
    /\ j.at \in {"activate", "approve_quicksign"} =>
          /\ Reviews!Meetings = {} /\ review.appointment = 0
          /\ 1..Len(projects) = {link[f] : f \in Reviews!Linked}
          /\ Reviews!Latest = j.project
          /\ j.answers => review.path = "none"

\* And the session of a project.
SessionOK(j) ==
    /\ j.at = "start" => Reviews!SessionsOf(j.on) = {} /\ projects[j.on].appointment = 0
    /\ j.at \in {"document", "bind"} =>
          Reviews!SessionsOf(j.on) = {j.session} /\ projects[j.on].appointment = 0

ReviewMade ==
    /\ Reviews!Quiet(0) => Settled
    /\ \A h \in Requests : MadeOK(job[h])

SessionsMade ==
    /\ \A p \in 1..Len(projects) : Reviews!Quiet(p) => Reviews!SessionsOf(p) = {projects[p].appointment} \ {0}
    /\ \A h \in Requests : SessionOK(job[h])

ReviewInv ==
    /\ ReviewData /\ ReviewRefs
    /\ ~crowded => TurnInv
    /\ ~crowded /\ ~crashed => ReviewMade /\ SessionsMade

\* Rows are added and written, and never go back on what a job relies on.
RowsGrow ==
    /\ Len(projects) <= Len(projects') /\ Len(meetings) <= Len(meetings')
    /\ \A p \in 1..Len(projects) :
          /\ projects'[p].file = projects[p].file
          /\ projects[p].signer => projects'[p].signer
          /\ projects[p].status # "draft" => projects'[p].status # "draft"
          /\ projects[p].finished => projects'[p].finished
    /\ \A s \in 1..Len(meetings) : meetings'[s].project = meetings[s].project
    /\ DOMAIN link \subseteq DOMAIN link'

LEMMA RefsStay ==
  ASSUME ReviewData, RowsGrow, NEW j, RefsOK(j)
  PROVE  RefsOK(j)'
<1>1. j \in Reviews!Jobs
  BY DEF RefsOK
<1>2. Len(projects) \in Nat /\ Len(meetings) \in Nat /\ Len(projects') \in Int /\ Len(meetings') \in Int
  BY DEF ReviewData, ReviewTables, RowsGrow
<1>a. /\ \A p \in 1..Len(projects) : p \in 1..Len(projects')
      /\ \A s \in 1..Len(meetings) : s \in 1..Len(meetings') /\ meetings'[s].project = meetings[s].project
  BY <1>2 DEF RowsGrow
<1>3. j.at \in QueueJobs => j.file \in DOMAIN link'
  BY DEF RefsOK, RowsGrow
<1>4. j.at \in QueueJobs \ {"insert_project"} =>
        j.project \in 1..Len(projects) /\ j.project \in 1..Len(projects') /\ projects'[j.project].file = j.file
  BY <1>a DEF RefsOK, RowsGrow
<1>5. j.at \in {"sign_up", "link"} => projects'[j.project].status # "draft"
  BY <1>4 DEF RefsOK, RowsGrow, QueueJobs
<1>6. j.at = "link" => projects'[j.project].signer
  BY <1>4 DEF RefsOK, RowsGrow, QueueJobs
<1>7. j.at \in SessionJobs => j.on \in 1..Len(projects')
  BY <1>a DEF RefsOK, RowsGrow
<1>8. j.at \in {"document", "bind"} => j.session \in 1..Len(meetings') /\ meetings'[j.session].project = j.on
  BY <1>a DEF RefsOK
<1>9. j.at \in {"attach", "approve_meeting"} => j.session \in 1..Len(meetings') /\ meetings'[j.session].project = 0
  BY <1>a DEF RefsOK
<1> QED
  BY <1>1, <1>3, <1>4, <1>5, <1>6, <1>7, <1>8, <1>9 DEF RefsOK

LEMMA RefsKept ==
  ASSUME ReviewData, ReviewRefs, ReviewTables', RowsGrow,
         \A p \in 1..Len(projects') : projects'[p].status = "completed" => projects'[p].finished,
         \A s \in 1..Len(meetings') : meetings'[s].project <= Len(projects'),
         review'.appointment # 0 =>
             \/ review'.appointment = review.appointment
             \/ review'.appointment \in 1..Len(meetings') /\ meetings'[review'.appointment].project = 0,
         link' = link \/ QueuedOK',
         job' \in [Requests -> Reviews!Jobs],
         \A g \in Requests : job'[g] # job[g] => RefsOK(job[g])'
  PROVE  ReviewData' /\ ReviewRefs'
<1>1. ReviewData'
  BY DEF ReviewData
<1>2. QueuedOK'
  <2> SUFFICES ASSUME link' = link PROVE QueuedOK'
    OBVIOUS
  <2>1. Reviews!Linked' = Reviews!Linked
    BY DEF Reviews!Linked
  <2>2. Len(projects) \in Nat /\ Len(projects') \in Int
    BY DEF ReviewData, ReviewTables
  <2>3. ASSUME NEW f \in Reviews!Linked
        PROVE  /\ link[f] \in 1..Len(projects') /\ projects'[link[f]].file = f
               /\ projects'[link[f]].signer /\ projects'[link[f]].status # "draft"
    <3>1. PICK p : p = link[f]
      OBVIOUS
    <3>2. p \in 1..Len(projects) /\ projects[p].file = f /\ projects[p].signer /\ projects[p].status # "draft"
      BY <3>1 DEF QueuedOK, ReviewRefs
    <3>3. p \in 1..Len(projects')
      BY <2>2, <3>2 DEF RowsGrow
    <3> QED
      BY <3>1, <3>2, <3>3 DEF RowsGrow
  <2> QED
    BY <2>1, <2>3 DEF QueuedOK
<1>3. ASSUME NEW g \in Requests PROVE RefsOK(job[g])'
  <2>1. CASE job'[g] = job[g]
    <3>1. PICK k : k = job[g]
      OBVIOUS
    <3>2. RefsOK(k)
      BY <3>1 DEF ReviewRefs
    <3>3. RefsOK(k)'
      BY <3>2, RefsStay
    <3> QED
      BY <2>1, <3>1, <3>3, Zenon DEF RefsOK
  <2> QED
    BY <2>1
<1>4. review'.appointment # 0 =>
        review'.appointment \in 1..Len(meetings') /\ meetings'[review'.appointment].project = 0
  <2>1. Len(meetings) \in Nat /\ Len(meetings') \in Int
    BY DEF ReviewData, ReviewTables
  <2>2. CASE review'.appointment = review.appointment
    <3>1. PICK a : a = review.appointment
      OBVIOUS
    <3>2. a # 0 => a \in 1..Len(meetings) /\ meetings[a].project = 0
      BY <3>1 DEF ReviewRefs
    <3>3. a # 0 => a \in 1..Len(meetings') /\ meetings'[a].project = 0
      <4>1. \A s \in 1..Len(meetings) : s \in 1..Len(meetings') /\ meetings'[s].project = meetings[s].project
        BY <2>1 DEF RowsGrow
      <4> QED
        BY <3>2, <4>1, Zenon
    <3> QED
      BY <2>2, <3>1, <3>3
  <2> QED
    BY <2>2
<1> QED
  BY <1>1, <1>2, <1>3, <1>4 DEF ReviewRefs

LEMMA InitReviews == Reviews!Init => ReviewInv
<1> SUFFICES ASSUME Reviews!Init PROVE ReviewInv
  OBVIOUS
<1>1. /\ projects = <<>> /\ meetings = <<>> /\ link = <<>> /\ Len(projects) = 0 /\ Len(meetings) = 0
      /\ DOMAIN link = {} /\ Reviews!Linked = {}
  BY DEF Reviews!Init, Reviews!Linked
<1>2. \A h \in Requests : job[h] = Reviews!Idle /\ job[h].at = "idle" /\ ~Reviews!Busy(h)
  BY DEF Reviews!Init, Reviews!Idle, Reviews!Busy
<1>3. review = [status |-> "absent", path |-> "none", appointment |-> 0, active |-> 0]
  BY DEF Reviews!Init
<1>4. ReviewData
  <2>1. review \in ReviewRow
    BY <1>3 DEF ReviewRow
  <2>2. job \in [Requests -> Reviews!Jobs]
    BY DEF Reviews!Init, Reviews!Jobs
  <2> QED
    BY <1>1, <2>1, <2>2 DEF ReviewData, ReviewTables
<1>5. ReviewRefs
  BY <1>1, <1>2, <1>3, <1>4 DEF ReviewRefs, QueuedOK, RefsOK, QueueJobs, SessionJobs, ReviewData, ReviewTables
<1>6. TurnInv
  BY <1>1, <1>2, <1>3 DEF TurnInv, TurnOK, QueueJobs
<1>7. Settled
  <2>1. Reviews!Meetings = {}
    BY <1>1 DEF Reviews!Meetings, Reviews!SessionIds
  <2>2. Reviews!Latest = 0
    BY <1>1 DEF Reviews!Latest
  <2>3. 1..Len(projects) = {link[f] : f \in Reviews!Linked}
    BY <1>1
  <2> QED
    BY <1>3, <2>1, <2>2, <2>3 DEF Settled
<1>8. ReviewMade /\ SessionsMade
  BY <1>1, <1>2, <1>7 DEF ReviewMade, SessionsMade, MadeOK, SessionOK, QueueJobs
<1> QED
  BY <1>4, <1>5, <1>6, <1>8 DEF ReviewInv

-----------------------------------------------------------------------------
(* How the steps write projects and meetings *)

\* One project is written, and nothing of it is taken back.
ProjectsWritten(p) ==
    /\ projects' \in Seq(ProjectRow) /\ Len(projects') = Len(projects)
    /\ \A q \in 1..Len(projects) : q # p => projects'[q] = projects[q]
    /\ \A q \in 1..Len(projects) : projects'[q].status = "completed" => projects'[q].finished
    /\ RowsGrow

LEMMA ProjectWritten ==
  ASSUME ReviewData, ReviewRefs, NEW p \in 1..Len(projects), NEW r \in ProjectRow,
         projects' = [projects EXCEPT ![p] = r], UNCHANGED meetings, DOMAIN link \subseteq DOMAIN link',
         r.file = projects[p].file, projects[p].signer => r.signer,
         projects[p].status # "draft" => r.status # "draft",
         projects[p].finished => r.finished, r.status = "completed" => r.finished
  PROVE  ProjectsWritten(p) /\ projects'[p] = r
<1>1. projects \in Seq(ProjectRow) /\ Len(projects) \in Nat /\ Len(meetings) \in Nat
  BY DEF ReviewData, ReviewTables
<1>2. /\ projects' \in Seq(ProjectRow) /\ Len(projects') = Len(projects) /\ projects'[p] = r
      /\ \A q \in 1..Len(projects) : q # p => projects'[q] = projects[q]
  BY <1>1, SeqWritten
<1>3. ASSUME NEW q \in 1..Len(projects)
      PROVE  /\ projects'[q].file = projects[q].file
             /\ projects[q].signer => projects'[q].signer
             /\ projects[q].status # "draft" => projects'[q].status # "draft"
             /\ projects[q].finished => projects'[q].finished
             /\ projects'[q].status = "completed" => projects'[q].finished
  <2>1. CASE q = p
    BY <1>2, <2>1
  <2>2. CASE q # p
    BY <1>2, <2>2 DEF ReviewRefs
  <2> QED
    BY <2>1, <2>2
<1>4. RowsGrow
  BY <1>1, <1>2, <1>3 DEF RowsGrow
<1> QED
  BY <1>2, <1>3, <1>4 DEF ProjectsWritten

LEMMA ArgsOK == "draft" \in Statuses /\ 0 \in 0..MaxSessions
  BY DEF Statuses, ServicesAssumption

\* The columns that plotting, reopening, opening and completing write.
Touched(p) == ProjectsWritten(p) /\ \A q \in 1..Len(projects) : projects'[q].appointment = projects[q].appointment

LEMMA ProjectTouched ==
  ASSUME ReviewData, ReviewRefs, NEW p \in 1..Len(projects), UNCHANGED meetings, DOMAIN link \subseteq DOMAIN link'
  PROVE  /\ projects' = [projects EXCEPT ![p].plotted = TRUE] => Touched(p)
         /\ projects' = [projects EXCEPT ![p].status = "pending_signatures"] =>
               Touched(p) /\ projects'[p].status = "pending_signatures"
         /\ projects' = [projects EXCEPT ![p].signer = TRUE] =>
               Touched(p) /\ projects'[p].signer /\ projects'[p].status = projects[p].status
         /\ projects' = Reviews!Completed(p) => Touched(p) /\ projects'[p].finished
<1>1. projects \in Seq(ProjectRow) /\ projects[p] \in ProjectRow
  BY DEF ReviewData, ReviewTables
<1>2. projects[p].status = "completed" => projects[p].finished
  BY DEF ReviewRefs
<1>3. ASSUME NEW n \in ProjectRow, projects' = [projects EXCEPT ![p] = n], n.file = projects[p].file,
             projects[p].signer => n.signer, projects[p].status # "draft" => n.status # "draft",
             projects[p].finished => n.finished, n.status = "completed" => n.finished,
             n.appointment = projects[p].appointment
      PROVE  Touched(p) /\ projects'[p] = n
  <2>1. ProjectsWritten(p) /\ projects'[p] = n
    BY <1>3, ProjectWritten
  <2>2. \A q \in 1..Len(projects) : projects'[q].appointment = projects[q].appointment
    BY <1>3, <2>1 DEF ProjectsWritten
  <2> QED
    BY <2>1, <2>2 DEF Touched
<1>4. PICK r : r = projects[p]
  OBVIOUS
<1>5. r \in ProjectRow
  BY <1>1, <1>4
<1>6. ASSUME projects' = [projects EXCEPT ![p].plotted = TRUE] PROVE Touched(p)
  <2>1. PICK n : n = [file |-> r.file, status |-> r.status, signer |-> r.signer, plotted |-> TRUE,
                      finished |-> r.finished, appointment |-> r.appointment]
    OBVIOUS
  <2>2. n = [r EXCEPT !.plotted = TRUE] /\ n \in ProjectRow
    <3>1. n \in ProjectRow
      BY <1>5, <2>1 DEF ProjectRow
    <3>2. [r EXCEPT !.plotted = TRUE] = [file |-> r.file, status |-> r.status, signer |-> r.signer, plotted |-> TRUE,
                                     finished |-> r.finished, appointment |-> r.appointment]
      BY <1>5, TRUE \in BOOLEAN, ArgsOK, ProjectColumns, Zenon
    <3> QED
      BY <2>1, <3>1, <3>2, Zenon
  <2>3. projects' = [projects EXCEPT ![p] = n]
    BY <1>6, <1>4, <2>2, Zenon
  <2> QED
    BY <1>2, <1>3, <1>4, <2>1, <2>2, <2>3
<1>7. ASSUME projects' = [projects EXCEPT ![p].status = "pending_signatures"]
      PROVE Touched(p) /\ projects'[p].status = "pending_signatures"
  <2>1. PICK n : n = [file |-> r.file, status |-> "pending_signatures", signer |-> r.signer, plotted |-> r.plotted,
                      finished |-> r.finished, appointment |-> r.appointment]
    OBVIOUS
  <2>2. n = [r EXCEPT !.status = "pending_signatures"] /\ n \in ProjectRow
    BY <1>5, <2>1 DEF ProjectRow
  <2>3. projects' = [projects EXCEPT ![p] = n]
    BY <1>7, <1>4, <2>2, Zenon
  <2> QED
    BY <1>2, <1>3, <1>4, <2>1, <2>2, <2>3
<1>8. ASSUME projects' = [projects EXCEPT ![p].signer = TRUE]
      PROVE Touched(p) /\ projects'[p].signer /\ projects'[p].status = projects[p].status
  <2>1. PICK n : n = [file |-> r.file, status |-> r.status, signer |-> TRUE, plotted |-> r.plotted,
                      finished |-> r.finished, appointment |-> r.appointment]
    OBVIOUS
  <2>2. n = [r EXCEPT !.signer = TRUE] /\ n \in ProjectRow
    <3>1. n \in ProjectRow
      BY <1>5, <2>1 DEF ProjectRow
    <3>2. [r EXCEPT !.signer = TRUE] = [file |-> r.file, status |-> r.status, signer |-> TRUE, plotted |-> r.plotted,
                                     finished |-> r.finished, appointment |-> r.appointment]
      BY <1>5, TRUE \in BOOLEAN, ArgsOK, ProjectColumns, Zenon
    <3> QED
      BY <2>1, <3>1, <3>2, Zenon
  <2>3. projects' = [projects EXCEPT ![p] = n]
    BY <1>8, <1>4, <2>2, Zenon
  <2> QED
    BY <1>2, <1>3, <1>4, <2>1, <2>2, <2>3
<1>9. ASSUME projects' = Reviews!Completed(p) PROVE Touched(p) /\ projects'[p].finished
  <2>1. PICK m : m = [file |-> r.file, status |-> "completed", signer |-> r.signer, plotted |-> r.plotted,
                      finished |-> r.finished, appointment |-> r.appointment]
    OBVIOUS
  <2>2. PICK n : n = [file |-> r.file, status |-> "completed", signer |-> r.signer, plotted |-> r.plotted,
                      finished |-> TRUE, appointment |-> r.appointment]
    OBVIOUS
  <2>3. m = [r EXCEPT !.status = "completed"] /\ m \in ProjectRow
    BY <1>5, <2>1 DEF ProjectRow
  <2>4. n = [m EXCEPT !.finished = TRUE] /\ n \in ProjectRow
    <3>1. n \in ProjectRow
      BY <1>5, <2>2 DEF ProjectRow
    <3>2. [m EXCEPT !.finished = TRUE] = [file |-> m.file, status |-> m.status, signer |-> m.signer,
                                       plotted |-> m.plotted, finished |-> TRUE, appointment |-> m.appointment]
      BY <2>3, TRUE \in BOOLEAN, ArgsOK, ProjectColumns, Zenon
    <3>3. /\ m.file = r.file /\ m.status = "completed" /\ m.signer = r.signer /\ m.plotted = r.plotted
          /\ m.appointment = r.appointment
      BY <2>1
    <3> QED
      BY <2>2, <3>1, <3>2, <3>3, Zenon
  <2>5. PICK w : w = [projects EXCEPT ![p] = m]
    OBVIOUS
  <2>6. w = [projects EXCEPT ![p].status = "completed"]
    BY <1>4, <2>3, <2>5, Zenon
  <2>7. w \in Seq(ProjectRow) /\ Len(w) = Len(projects) /\ w[p] = m
    BY <1>1, <2>3, <2>5, SeqWritten
  <2>8. projects' = [w EXCEPT ![p].finished = TRUE]
    BY <1>9, <2>6, Zenon DEF Reviews!Completed
  <2>9. projects' = [w EXCEPT ![p] = n]
    BY <2>4, <2>7, <2>8, Zenon
  <2>10. [w EXCEPT ![p] = n] = [projects EXCEPT ![p] = n]
    BY <1>1, <2>3, <2>4, <2>5
  <2>11. /\ n.file = r.file /\ n.signer = r.signer /\ n.appointment = r.appointment
         /\ n.status = "completed" /\ n.status # "draft" /\ n.finished
    BY <2>2
  <2>12. projects' = [projects EXCEPT ![p] = n]
    BY <2>9, <2>10, Zenon
  <2>13. Touched(p) /\ projects'[p] = n
    BY <1>3, <1>4, <2>4, <2>11, <2>12, Zenon
  <2> QED
    BY <2>11, <2>13, Zenon
<1> QED
  BY <1>6, <1>7, <1>8, <1>9

\* A session is given to its project.
LEMMA ProjectBound ==
  ASSUME ReviewData, ReviewRefs, NEW p \in 1..Len(projects), UNCHANGED <<link, meetings>>,
         NEW s \in 0..MaxSessions, projects' = [projects EXCEPT ![p].appointment = s]
  PROVE  ProjectsWritten(p) /\ projects'[p].appointment = s
<1>1. projects \in Seq(ProjectRow) /\ projects[p] \in ProjectRow
  BY DEF ReviewData, ReviewTables
<1>2. projects[p].status = "completed" => projects[p].finished
  BY DEF ReviewRefs
<1>3. PICK r : r = projects[p]
  OBVIOUS
<1>4. PICK n : n = [file |-> r.file, status |-> r.status, signer |-> r.signer, plotted |-> r.plotted,
                    finished |-> r.finished, appointment |-> s]
  OBVIOUS
<1>5. n = [r EXCEPT !.appointment = s] /\ n \in ProjectRow
  <2>1. n \in ProjectRow
    BY <1>1, <1>3, <1>4 DEF ProjectRow
  <2>2. [r EXCEPT !.appointment = s] = [file |-> r.file, status |-> r.status, signer |-> r.signer,
                                        plotted |-> r.plotted, finished |-> r.finished, appointment |-> s]
    BY <1>1, <1>3, TRUE \in BOOLEAN, ArgsOK, ProjectColumns, Zenon
  <2> QED
    BY <1>4, <2>1, <2>2, Zenon
<1>6. projects' = [projects EXCEPT ![p] = n]
  BY <1>3, <1>5, Zenon
<1>7. /\ n.file = r.file /\ n.signer = r.signer /\ n.status = r.status /\ n.finished = r.finished
      /\ n.appointment = s
  BY <1>4
<1>8. ProjectsWritten(p) /\ projects'[p] = n
  <2>1. /\ n.file = projects[p].file /\ (projects[p].signer => n.signer)
        /\ (projects[p].status # "draft" => n.status # "draft") /\ (projects[p].finished => n.finished)
        /\ (n.status = "completed" => n.finished)
    BY <1>2, <1>3, <1>7, Zenon
  <2>2. DOMAIN link \subseteq DOMAIN link' /\ UNCHANGED meetings
    OBVIOUS
  <2> QED
    BY <1>5, <1>6, <2>1, <2>2, ProjectWritten, Zenon
<1> QED
  BY <1>7, <1>8, Zenon

\* A project is inserted.
LEMMA ProjectAppended ==
  ASSUME ReviewData, ReviewRefs, UNCHANGED <<link, meetings>>, Len(projects) < MaxProjects, NEW f \in 1..Files,
         projects' = Append(projects, [file |-> f, status |-> "draft", signer |-> FALSE, plotted |-> FALSE,
                                       finished |-> FALSE, appointment |-> 0])
  PROVE  /\ projects' \in Seq(ProjectRow) /\ Len(projects') = Len(projects) + 1 /\ Len(projects') <= MaxProjects
         /\ \A q \in 1..Len(projects) : projects'[q] = projects[q]
         /\ projects'[Len(projects')].file = f /\ projects'[Len(projects')].appointment = 0
         /\ \A q \in 1..Len(projects') : projects'[q].status = "completed" => projects'[q].finished
         /\ RowsGrow
<1>1. projects \in Seq(ProjectRow) /\ Len(projects) \in Nat /\ Len(meetings) \in Nat
  BY DEF ReviewData, ReviewTables
<1>2. PICK n : n = [file |-> f, status |-> "draft", signer |-> FALSE, plotted |-> FALSE,
                    finished |-> FALSE, appointment |-> 0]
  OBVIOUS
<1>3. n \in ProjectRow
  BY <1>2 DEF ProjectRow
<1>4. /\ projects' \in Seq(ProjectRow) /\ Len(projects') = Len(projects) + 1 /\ projects'[Len(projects) + 1] = n
      /\ \A q \in 1..Len(projects) : projects'[q] = projects[q]
  BY <1>1, <1>2, <1>3, SeqAppended
<1>5. \A q \in 1..Len(projects') : projects'[q].status = "completed" => projects'[q].finished
  <2> SUFFICES ASSUME NEW q \in 1..Len(projects') PROVE projects'[q].status = "completed" => projects'[q].finished
    OBVIOUS
  <2>1. CASE q \in 1..Len(projects)
    BY <1>4, <2>1 DEF ReviewRefs
  <2>2. CASE q = Len(projects) + 1
    BY <1>2, <1>4, <2>2
  <2> QED
    BY <1>1, <1>4, <2>1, <2>2
<1>6. RowsGrow
  BY <1>1, <1>4 DEF RowsGrow
<1> QED
  BY <1>1, <1>2, <1>4, <1>5, <1>6

\* An appointment is inserted, for a meeting or for a project.
LEMMA MeetingAppended ==
  ASSUME ReviewData, ReviewRefs, UNCHANGED <<link, projects>>, Len(meetings) < MaxSessions, NEW p \in 0..MaxProjects,
         p <= Len(projects), meetings' = Append(meetings, [project |-> p, documents |-> 0])
  PROVE  /\ meetings' \in Seq(MeetingRow) /\ Len(meetings') = Len(meetings) + 1 /\ Len(meetings') <= MaxSessions
         /\ \A s \in 1..Len(meetings) : meetings'[s] = meetings[s]
         /\ meetings'[Len(meetings')].project = p
         /\ \A s \in 1..Len(meetings') : meetings'[s].project <= Len(projects)
         /\ RowsGrow
<1>1. meetings \in Seq(MeetingRow) /\ Len(projects) \in Nat /\ Len(meetings) \in Nat
  BY DEF ReviewData, ReviewTables
<1>2. PICK n : n = [project |-> p, documents |-> 0]
  OBVIOUS
<1>3. n \in MeetingRow
  BY <1>2 DEF MeetingRow
<1>4. /\ meetings' \in Seq(MeetingRow) /\ Len(meetings') = Len(meetings) + 1 /\ meetings'[Len(meetings) + 1] = n
      /\ \A s \in 1..Len(meetings) : meetings'[s] = meetings[s]
  BY <1>1, <1>2, <1>3, SeqAppended
<1>5. \A s \in 1..Len(meetings') : meetings'[s].project <= Len(projects)
  <2> SUFFICES ASSUME NEW s \in 1..Len(meetings') PROVE meetings'[s].project <= Len(projects)
    OBVIOUS
  <2>1. CASE s \in 1..Len(meetings)
    BY <1>4, <2>1 DEF ReviewRefs
  <2>2. CASE s = Len(meetings) + 1
    BY <1>2, <1>4, <2>2
  <2> QED
    BY <1>1, <1>4, <2>1, <2>2
<1>6. RowsGrow
  BY <1>1, <1>4 DEF RowsGrow
<1> QED
  BY <1>1, <1>2, <1>4, <1>5, <1>6

LEMMA MeetingPut ==
  ASSUME meetings \in Seq(MeetingRow), NEW s \in 1..Len(meetings), NEW m \in MeetingRow,
         meetings' = [meetings EXCEPT ![s] = m]
  PROVE  /\ meetings' \in Seq(MeetingRow) /\ Len(meetings') = Len(meetings) /\ meetings'[s] = m
         /\ \A t \in 1..Len(meetings) : t # s => meetings'[t] = meetings[t]
  BY SeqWritten

\* Its documents are inserted.
LEMMA MeetingWritten ==
  ASSUME ReviewData, ReviewRefs, UNCHANGED <<link, projects>>, NEW s \in 1..Len(meetings), NEW n \in 0..Files,
         meetings' = [meetings EXCEPT ![s].documents = n]
  PROVE  /\ meetings' \in Seq(MeetingRow) /\ Len(meetings') = Len(meetings)
         /\ \A t \in 1..Len(meetings) : t # s => meetings'[t] = meetings[t]
         /\ \A t \in 1..Len(meetings) : meetings'[t].project = meetings[t].project
         /\ meetings'[s].documents = n
         /\ \A t \in 1..Len(meetings') : meetings'[t].project <= Len(projects)
         /\ RowsGrow
<1>1. meetings \in Seq(MeetingRow) /\ meetings[s] \in MeetingRow /\ Len(projects) \in Nat /\ Len(meetings) \in Nat
  BY DEF ReviewData, ReviewTables
<1>2. PICK r : r = meetings[s]
  OBVIOUS
<1>3. PICK m : m = [project |-> r.project, documents |-> n]
  OBVIOUS
<1>4. m = [r EXCEPT !.documents = n] /\ m \in MeetingRow
  <2>1. \A q \in MeetingRow, d \in 0..Files :
          /\ [q EXCEPT !.documents = d] = [project |-> q.project, documents |-> d]
          /\ [project |-> q.project, documents |-> d] \in MeetingRow
    BY DEF MeetingRow
  <2> QED
    BY <1>1, <1>2, <1>3, <2>1, Zenon
<1>5. meetings' = [meetings EXCEPT ![s] = m]
  BY <1>2, <1>4, Zenon
<1>6. /\ meetings' \in Seq(MeetingRow) /\ Len(meetings') = Len(meetings) /\ meetings'[s] = m
      /\ \A t \in 1..Len(meetings) : t # s => meetings'[t] = meetings[t]
  BY <1>1, <1>4, <1>5, MeetingPut, Zenon
<1>7. \A t \in 1..Len(meetings) : meetings'[t].project = meetings[t].project
  <2>1. m.project = r.project
    BY <1>3
  <2> QED
    BY <1>2, <1>6, <2>1, Zenon
<1>8. \A t \in 1..Len(meetings') : meetings'[t].project <= Len(projects)
  BY <1>6, <1>7 DEF ReviewRefs
<1>9. RowsGrow
  BY <1>1, <1>6, <1>7 DEF RowsGrow
<1> QED
  BY <1>3, <1>6, <1>7, <1>8, <1>9

-----------------------------------------------------------------------------
(* What each step does to what the jobs name *)

RefsInv == ReviewData /\ ReviewRefs

LEMMA LinkShape ==
  ASSUME ReviewData
  PROVE  /\ Len(link) \in 0..Files
         /\ DOMAIN link \subseteq 1..Files /\ (link # <<>> => DOMAIN link = 1..Files)
         /\ \A f \in DOMAIN link : link[f] \in 0..MaxProjects
<1>1. Files \in Nat
  BY DEF ServicesAssumption
<1>2. CASE link = <<>>
  BY <1>1, <1>2
<1>3. CASE link \in [1..Files -> 0..MaxProjects]
  BY <1>1, <1>3
<1> QED
  BY <1>2, <1>3 DEF ReviewData, ReviewTables

\* Numbers up to a bound have a last one.
LEMMA LastOf ==
  ASSUME NEW n \in Nat, NEW L \in SUBSET (1..n), L # {}
  PROVE  \E m \in L : \A g \in L : g <= m
<1>0. PICK S : S = 1..n
  OBVIOUS
<1> DEFINE NoLast == {T \in SUBSET S : T # {} /\ \A m \in T : \E g \in T : ~(g <= m)}
<1> SUFFICES ASSUME L \in NoLast PROVE FALSE
  BY <1>0
<1>1. IsWellFoundedOn(StrictSubsetOrdering(S), FiniteSubsetsOf(S))
  BY FS_StrictSubsetOrderingWellFounded
<1>2. FiniteSubsetsOf(S) = SUBSET S
  <2>1. n \in Int /\ 1 \in Int
    OBVIOUS
  <2>2. IsFiniteSet(1..n)
    BY <2>1, FS_Interval, Zenon
  <2>3. IsFiniteSet(S)
    BY <1>0, <2>2
  <2> QED
    BY <2>3, FS_FiniteSubsetsOfFinite
<1>3. PICK T \in NoLast : \A U \in NoLast : <<U, T>> \notin StrictSubsetOrdering(S)
  <2>1. NoLast \subseteq SUBSET S /\ NoLast # {}
    OBVIOUS
  <2> DEFINE R == StrictSubsetOrdering(S)
  <2>2. IsWellFoundedOn(R, SUBSET S)
    BY <1>1, <1>2, Zenon
  <2> HIDE DEF NoLast, R
  <2>3. \E T \in NoLast : \A U \in NoLast : ~(<<U, T>> \in R)
    BY <2>1, <2>2, WFMin
  <2> QED
    BY <2>3, Zenon DEF R
<1>4. PICK x \in T : TRUE
  OBVIOUS
<1>5. T \ {x} \notin NoLast
  BY <1>3, <1>4 DEF StrictSubsetOrdering
<1>6. ~(T = {x})
  BY <1>0, <1>4
<1>7. ASSUME NEW m \in T \ {x}, \A g \in T \ {x} : g <= m PROVE FALSE
  BY <1>0, <1>4, <1>7
<1> QED
  BY <1>4, <1>5, <1>6, <1>7

\* The latest document that has a project.
LEMMA LatestIs ==
  ASSUME RefsInv, Reviews!Linked # {}
  PROVE  \E m \in Reviews!Linked :
            (\A g \in Reviews!Linked : g <= m) /\ Reviews!Latest = link[m] /\ link[m] \in 1..Len(projects)
<1>1. Reviews!Linked \subseteq 1..Files /\ Files \in Nat
  BY LinkShape DEF RefsInv, Reviews!Linked, ServicesAssumption
<1>6. \E k \in Reviews!Linked : \A g \in Reviews!Linked : g <= k
  BY <1>1, LastOf
<1> DEFINE m == CHOOSE f \in Reviews!Linked : \A g \in Reviews!Linked : g <= f
<1>7. m \in Reviews!Linked /\ \A g \in Reviews!Linked : g <= m
  BY <1>6
<1>8. Reviews!Latest = link[m]
  BY Zenon DEF Reviews!Latest
<1> QED
  BY <1>7, <1>8 DEF RefsInv, ReviewRefs, QueuedOK

\* A step of h, after which its job is j.
Step(h, j) == RefsInv' /\ RowsGrow /\ j \in Reviews!Jobs /\ job' = [job EXCEPT ![h] = j]

LEMMA RefsMoved ==
  ASSUME RefsInv, ReviewTables', RowsGrow,
         \A p \in 1..Len(projects') : projects'[p].status = "completed" => projects'[p].finished,
         \A s \in 1..Len(meetings') : meetings'[s].project <= Len(projects'),
         review'.appointment # 0 =>
             \/ review'.appointment = review.appointment
             \/ review'.appointment \in 1..Len(meetings') /\ meetings'[review'.appointment].project = 0,
         link' = link \/ QueuedOK',
         NEW h \in Requests, NEW j, RefsOK(j)', job' = [job EXCEPT ![h] = j]
  PROVE  Step(h, j)
<1>1. j \in Reviews!Jobs
  BY DEF RefsOK
<1>2. job' \in [Requests -> Reviews!Jobs]
  BY <1>1 DEF RefsInv, ReviewData
<1>3. ASSUME NEW g \in Requests, job'[g] # job[g] PROVE RefsOK(job[g])'
  <2>1. job'[g] = j
    BY <1>3 DEF RefsInv, ReviewData
  <2> QED
    BY <2>1, Zenon DEF RefsOK
<1>4. ReviewData' /\ ReviewRefs'
  BY <1>2, <1>3, RefsKept DEF RefsInv
<1> QED
  BY <1>1, <1>4 DEF Step, RefsInv

\* A request arrives, or stops.
LEMMA ArriveDoes ==
  ASSUME RefsInv, NEW h \in Requests, NEW j, RefsOK(j), job' = [job EXCEPT ![h] = j],
         UNCHANGED <<review, link, projects, meetings>>
  PROVE  Step(h, j)
<1>1. RowsGrow
  BY DEF RowsGrow, RefsInv, ReviewData, ReviewTables
<1>2. ReviewTables' /\ RefsOK(j)'
  BY <1>1, RefsStay DEF RefsInv, ReviewData, ReviewTables
<1> QED
  BY <1>1, <1>2, RefsMoved DEF RefsInv, ReviewRefs

\* The review is answered, or named a project.
LEMMA AnswerDoes ==
  ASSUME RefsInv, NEW h \in Requests, NEW j, RefsOK(j), job' = [job EXCEPT ![h] = j],
         UNCHANGED <<link, projects, meetings>>, review' \in ReviewRow,
         \/ review'.appointment = review.appointment
         \/ review'.appointment = 0
         \/ review'.appointment \in 1..Len(meetings) /\ meetings[review'.appointment].project = 0
  PROVE  Step(h, j)
<1>1. RowsGrow
  BY DEF RowsGrow, RefsInv, ReviewData, ReviewTables
<1>2. ReviewTables' /\ RefsOK(j)'
  BY <1>1, RefsStay DEF RefsInv, ReviewData, ReviewTables
<1> QED
  BY <1>1, <1>2, RefsMoved DEF RefsInv, ReviewRefs

\* A project is written by a step of h ...
LEMMA WriteDoes ==
  ASSUME RefsInv, NEW h \in Requests, NEW j, RefsOK(j)', job' = [job EXCEPT ![h] = j],
         UNCHANGED <<review, link, meetings>>, NEW p \in 1..Len(projects), ProjectsWritten(p)
  PROVE  Step(h, j)
<1>1. RowsGrow /\ ReviewTables'
  BY DEF ProjectsWritten, RefsInv, ReviewData, ReviewTables
<1>2. \A q \in 1..Len(projects') : projects'[q].status = "completed" => projects'[q].finished
  BY DEF ProjectsWritten
<1>3. \A s \in 1..Len(meetings') : meetings'[s].project <= Len(projects')
  BY DEF ProjectsWritten, RefsInv, ReviewRefs
<1> QED
  BY <1>1, <1>2, <1>3, RefsMoved, Zenon

\* ... or of none.
LEMMA TouchDoes ==
  ASSUME RefsInv, UNCHANGED <<review, link, meetings, job>>, NEW p \in 1..Len(projects), ProjectsWritten(p)
  PROVE  RefsInv' /\ RowsGrow
<1>1. RowsGrow /\ ReviewTables'
  BY DEF ProjectsWritten, RefsInv, ReviewData, ReviewTables
<1>2. \A q \in 1..Len(projects') : projects'[q].status = "completed" => projects'[q].finished
  BY DEF ProjectsWritten
<1>3. \A s \in 1..Len(meetings') : meetings'[s].project <= Len(projects')
  BY DEF ProjectsWritten, RefsInv, ReviewRefs
<1>4. job' \in [Requests -> Reviews!Jobs] /\ \A g \in Requests : job'[g] # job[g] => RefsOK(job[g])'
  BY DEF RefsInv, ReviewData
<1>5. ReviewData' /\ ReviewRefs'
  BY <1>1, <1>2, <1>3, <1>4, RefsKept DEF RefsInv
<1> QED
  BY <1>1, <1>5 DEF RefsInv

\* An appointment is inserted or written.
LEMMA MeetDoes ==
  ASSUME RefsInv, NEW h \in Requests, NEW j, RefsOK(j)', job' = [job EXCEPT ![h] = j],
         UNCHANGED <<review, link, projects>>, meetings' \in Seq(MeetingRow), Len(meetings') <= MaxSessions,
         \A s \in 1..Len(meetings') : meetings'[s].project <= Len(projects), RowsGrow
  PROVE  Step(h, j)
<1>1. ReviewTables'
  BY DEF RefsInv, ReviewData, ReviewTables
<1> QED
  BY <1>1, RefsMoved DEF RefsInv, ReviewRefs

\* The jobs that remember nothing of the rows, or what was just read.
LEMMA Arrivals ==
  ASSUME RefsInv
  PROVE  /\ RefsOK(Reviews!Idle)
         /\ RefsOK([at |-> "insert_review", on |-> 0]) /\ RefsOK([at |-> "insert_files", on |-> 0])
         /\ \A s \in {"rejected", "cancelled"} : RefsOK([at |-> "decide", on |-> 0, status |-> s])
         /\ RefsOK([at |-> "book", on |-> 0, files |-> Len(link)])
         /\ \A f \in DOMAIN link, a \in BOOLEAN :
               RefsOK([at |-> "insert_project", on |-> 0, file |-> f, answers |-> a])
         /\ \A p \in 1..Len(projects) : RefsOK([at |-> "start", on |-> p])
<1> USE DEF QueueJobs, SessionJobs
<1>1. RefsOK(Reviews!Idle)
  BY DEF RefsOK, Reviews!Jobs, Reviews!Idle
<1>2. RefsOK([at |-> "insert_review", on |-> 0]) /\ RefsOK([at |-> "insert_files", on |-> 0])
  BY DEF RefsOK, Reviews!Jobs
<1>3. ASSUME NEW s \in {"rejected", "cancelled"} PROVE RefsOK([at |-> "decide", on |-> 0, status |-> s])
  <2>1. [at |-> "decide", on |-> 0, status |-> s] \in [at : {"decide"}, on : {0}, status : {"rejected", "cancelled"}]
    OBVIOUS
  <2>2. [at |-> "decide", on |-> 0, status |-> s] \in Reviews!Jobs
    BY <2>1, Zenon DEF Reviews!Jobs
  <2> QED
    BY <2>2 DEF RefsOK
<1>4. RefsOK([at |-> "book", on |-> 0, files |-> Len(link)])
  <2>1. PICK n \in 0..Files : n = Len(link)
    BY LinkShape DEF RefsInv
  <2>2. [at |-> "book", on |-> 0, files |-> n] \in [at : {"book"}, on : {0}, files : 0..Files]
    OBVIOUS
  <2>3. [at |-> "book", on |-> 0, files |-> n] \in Reviews!Jobs
    BY <2>2, Zenon DEF Reviews!Jobs
  <2> QED
    BY <2>1, <2>3 DEF RefsOK
<1>5. ASSUME NEW f \in DOMAIN link, NEW a \in BOOLEAN
      PROVE  RefsOK([at |-> "insert_project", on |-> 0, file |-> f, answers |-> a])
  <2>1. f \in 1..Files
    BY LinkShape DEF RefsInv
  <2>2. [at |-> "insert_project", on |-> 0, file |-> f, answers |-> a]
          \in [at : {"insert_project"}, on : {0}, file : 1..Files, answers : BOOLEAN]
    BY <2>1
  <2>3. [at |-> "insert_project", on |-> 0, file |-> f, answers |-> a] \in Reviews!Jobs
    BY <2>2, Zenon DEF Reviews!Jobs
  <2> QED
    BY <2>3 DEF RefsOK
<1>6. ASSUME NEW p \in 1..Len(projects) PROVE RefsOK([at |-> "start", on |-> p])
  <2>1. p \in 1..MaxProjects
    BY DEF RefsInv, ReviewData, ReviewTables, ServicesAssumption
  <2>2. [at |-> "start", on |-> p] \in [at : {"start"}, on : 1..MaxProjects]
    BY <2>1
  <2>3. [at |-> "start", on |-> p] \in Reviews!Jobs
    BY <2>2, Zenon DEF Reviews!Jobs
  <2> QED
    BY <2>3 DEF RefsOK
<1> QED
  BY <1>1, <1>2, <1>3, <1>4, <1>5, <1>6

\* The answers that make nothing, and those that end an approval.
LEMMA InsertReviewDoes ==
  ASSUME RefsInv, NEW h \in Requests, Reviews!InsertReview(h)
  PROVE  /\ Step(h, [at |-> "insert_files", on |-> 0])
         /\ review' = [status |-> "pending", path |-> review.path, appointment |-> review.appointment,
                       active |-> review.active]
<1>1. review \in ReviewRow /\ review' = [review EXCEPT !.status = "pending"]
  BY DEF RefsInv, ReviewData, ReviewTables, Reviews!InsertReview
<1>2. review' = [status |-> "pending", path |-> review.path, appointment |-> review.appointment,
                   active |-> review.active]
  BY <1>1 DEF ReviewRow
<1>3. review' \in ReviewRow /\ review'.appointment = review.appointment
  BY <1>1, <1>2 DEF ReviewRow
<1>4. job' = [job EXCEPT ![h] = [at |-> "insert_files", on |-> 0]]
  BY Zenon DEF Reviews!InsertReview, Reviews!Goto
<1>5. RefsOK([at |-> "insert_files", on |-> 0])
  BY Arrivals
<1> QED
  BY <1>2, <1>3, <1>4, <1>5, AnswerDoes DEF Reviews!InsertReview

LEMMA WriteDecisionDoes ==
  ASSUME RefsInv, NEW h \in Requests, NEW k, k = job[h], Reviews!WriteDecision(h)
  PROVE  /\ Step(h, Reviews!Idle)
         /\ k.status \in {"rejected", "cancelled"}
         /\ review' = [status |-> k.status, path |-> review.path, appointment |-> review.appointment,
                       active |-> review.active]
<1>1. k \in Reviews!Jobs /\ k.at = "decide"
  BY DEF RefsInv, ReviewData, Reviews!WriteDecision
<1>2. k.status \in {"rejected", "cancelled"}
  BY <1>1, ReviewJobIs
<1>3. review \in ReviewRow /\ review' = [review EXCEPT !.status = k.status]
  BY DEF RefsInv, ReviewData, ReviewTables, Reviews!WriteDecision
<1>4. review' = [status |-> k.status, path |-> review.path, appointment |-> review.appointment,
                   active |-> review.active]
  BY <1>3 DEF ReviewRow
<1>5. review' \in ReviewRow /\ review'.appointment = review.appointment
  BY <1>2, <1>3, <1>4 DEF ReviewRow
<1>6. job' = [job EXCEPT ![h] = Reviews!Idle]
  BY Zenon DEF Reviews!WriteDecision, Reviews!Goto
<1> QED
  BY <1>2, <1>4, <1>5, <1>6, Arrivals, AnswerDoes DEF Reviews!WriteDecision

LEMMA ApproveMeetingDoes ==
  ASSUME RefsInv, NEW h \in Requests, NEW k, k = job[h], Reviews!ApproveMeeting(h)
  PROVE  /\ Step(h, Reviews!Idle)
         /\ k.session \in 1..Len(meetings)
         /\ review' = [status |-> "approved", path |-> "meeting", appointment |-> k.session, active |-> 0]
<1>1. k \in Reviews!Jobs /\ k.at = "approve_meeting" /\ RefsOK(k)
  BY DEF RefsInv, ReviewData, ReviewRefs, Reviews!ApproveMeeting
<1>2. k.session \in 1..MaxSessions /\ k.session \in 1..Len(meetings) /\ meetings[k.session].project = 0
  BY <1>1, ReviewJobIs DEF RefsOK
<1>3. review' = [status |-> "approved", path |-> "meeting", appointment |-> k.session, active |-> 0]
  BY DEF Reviews!ApproveMeeting
<1>4. review' \in ReviewRow /\ review'.appointment = k.session
  BY <1>2, <1>3 DEF ReviewRow, ServicesAssumption
<1>5. job' = [job EXCEPT ![h] = Reviews!Idle]
  BY Zenon DEF Reviews!ApproveMeeting, Reviews!Goto
<1> QED
  BY <1>2, <1>3, <1>4, <1>5, Arrivals, AnswerDoes DEF Reviews!ApproveMeeting

LEMMA ApproveQuicksignDoes ==
  ASSUME RefsInv, NEW h \in Requests, NEW k, k = job[h], Reviews!ApproveQuicksign(h)
  PROVE  /\ Step(h, Reviews!Idle)
         /\ k.project \in 1..Len(projects)
         /\ review' = [status |-> "approved", path |-> "quicksign", appointment |-> 0, active |-> k.project]
<1>1. k \in Reviews!Jobs /\ k.at = "approve_quicksign" /\ RefsOK(k)
  BY DEF RefsInv, ReviewData, ReviewRefs, Reviews!ApproveQuicksign
<1>2. k.project \in 1..MaxProjects /\ k.project \in 1..Len(projects)
  BY <1>1, ReviewJobIs DEF RefsOK, QueueJobs
<1>3. review' = [status |-> "approved", path |-> "quicksign", appointment |-> 0, active |-> k.project]
  BY DEF Reviews!ApproveQuicksign
<1>4. review' \in ReviewRow /\ review'.appointment = 0
  BY <1>2, <1>3 DEF ReviewRow, ServicesAssumption
<1>5. job' = [job EXCEPT ![h] = Reviews!Idle]
  BY Zenon DEF Reviews!ApproveQuicksign, Reviews!Goto
<1> QED
  BY <1>2, <1>3, <1>4, <1>5, Arrivals, AnswerDoes DEF Reviews!ApproveQuicksign

LEMMA ActivateDoes ==
  ASSUME RefsInv, NEW h \in Requests, NEW k, k = job[h], Reviews!ActivateProject(h)
  PROVE  /\ \E j : /\ Step(h, j)
                   /\ IF k.answers
                        THEN j.at = "approve_quicksign" /\ j.on = 0 /\ j.file = k.file /\ j.answers
                             /\ j.project = k.project
                        ELSE j = Reviews!Idle
         /\ k.project \in 1..Len(projects)
         /\ review' = [status |-> review.status, path |-> review.path, appointment |-> review.appointment,
                       active |-> k.project]
<1>1. k \in Reviews!Jobs /\ k.at = "activate" /\ RefsOK(k)
  BY DEF RefsInv, ReviewData, ReviewRefs, Reviews!ActivateProject
<1>2. k.project \in 1..MaxProjects /\ k.project \in 1..Len(projects) /\ projects[k.project].file = k.file
      /\ k.file \in DOMAIN link
  BY <1>1, ReviewJobIs DEF RefsOK, QueueJobs
<1>3. review \in ReviewRow /\ review' = [review EXCEPT !.active = k.project]
  BY DEF RefsInv, ReviewData, ReviewTables, Reviews!ActivateProject
<1>4. review' = [status |-> review.status, path |-> review.path, appointment |-> review.appointment,
                   active |-> k.project]
  BY <1>3 DEF ReviewRow
<1>5. review' \in ReviewRow /\ review'.appointment = review.appointment
  <2>1. review \in ReviewRow /\ k.project \in 0..MaxProjects
    BY <1>2, <1>3 DEF ServicesAssumption
  <2> QED
    BY <1>4, <2>1 DEF ReviewRow
<1>6. job' = [job EXCEPT ![h] = IF k.answers THEN [k EXCEPT !.at = "approve_quicksign"] ELSE Reviews!Idle]
  BY Zenon DEF Reviews!ActivateProject, Reviews!Goto
<1>7. CASE k.answers
  <2>1. PICK j : j = [k EXCEPT !.at = "approve_quicksign"]
    OBVIOUS
  <2>2. /\ j \in Reviews!Jobs
        /\ j.at = "approve_quicksign" /\ j.on = 0 /\ j.file = k.file /\ j.answers = k.answers /\ j.project = k.project
    BY <1>1, <2>1, QueueJobGoesOn DEF QueueJobs
  <2>3. RefsOK(j)
    BY <1>2, <2>2 DEF RefsOK, QueueJobs, SessionJobs
  <2>4. job' = [job EXCEPT ![h] = j]
    BY <1>6, <1>7, <2>1, Zenon
  <2>5. Step(h, j)
    BY <1>5, <2>3, <2>4, AnswerDoes DEF Reviews!ActivateProject
  <2> QED
    BY <1>2, <1>4, <1>7, <2>2, <2>5, Zenon
<1>8. CASE ~k.answers
  <2>1. job' = [job EXCEPT ![h] = Reviews!Idle]
    BY <1>6, <1>8, Zenon
  <2>2. Step(h, Reviews!Idle)
    BY <1>5, <2>1, Arrivals, AnswerDoes DEF Reviews!ActivateProject
  <2> QED
    BY <1>2, <1>4, <1>8, <2>2, Zenon
<1> QED
  BY <1>7, <1>8

\* The columns of a job are those of the job before it.
LEMMA AttachGoesOn ==
  ASSUME NEW k \in Reviews!Jobs, k.at = "attach"
  PROVE  \E j \in Reviews!Jobs : /\ j = [k EXCEPT !.at = "approve_meeting"]
                                 /\ j.at = "approve_meeting" /\ j.on = 0 /\ j.session = k.session /\ j.files = k.files
<1> DEFINE K == [at : {"attach", "approve_meeting"}, on : {0}, files : 0..Files, session : 1..MaxSessions]
<1>1. k \in K
  BY DEF Reviews!Jobs, Reviews!Idle
<1>2. PICK j : j = [at |-> "approve_meeting", on |-> k.on, files |-> k.files, session |-> k.session]
  OBVIOUS
<1>3. j = [k EXCEPT !.at = "approve_meeting"] /\ j \in K
  BY <1>1, <1>2
<1>4. j \in Reviews!Jobs
  BY <1>3, Zenon DEF Reviews!Jobs
<1> QED
  BY <1>1, <1>2, <1>3, <1>4

LEMMA DocumentGoesOn ==
  ASSUME NEW k \in Reviews!Jobs, k.at = "document"
  PROVE  \E j \in Reviews!Jobs : /\ j = [k EXCEPT !.at = "bind"]
                                 /\ j.at = "bind" /\ j.on = k.on /\ j.session = k.session
<1> DEFINE K == [at : {"document", "bind"}, on : 1..MaxProjects, session : 1..MaxSessions]
<1>1. k \in K
  BY DEF Reviews!Jobs, Reviews!Idle
<1>2. PICK j : j = [at |-> "bind", on |-> k.on, session |-> k.session]
  OBVIOUS
<1>3. j = [k EXCEPT !.at = "bind"] /\ j \in K
  BY <1>1, <1>2
<1>4. j \in Reviews!Jobs
  BY <1>3, Zenon DEF Reviews!Jobs
<1> QED
  BY <1>1, <1>2, <1>3, <1>4

\* The meeting of an approval.
LEMMA BookDoes ==
  ASSUME RefsInv, NEW h \in Requests, NEW k, k = job[h], Reviews!BookMeeting(h)
  PROVE  /\ \E j : /\ Step(h, j)
                   /\ j.at = "attach" /\ j.on = 0 /\ j.files = k.files /\ j.session = Len(meetings) + 1
         /\ Len(meetings') = Len(meetings) + 1 /\ meetings'[Len(meetings) + 1].project = 0
         /\ \A s \in 1..Len(meetings) : meetings'[s] = meetings[s]
<1>1. k \in Reviews!Jobs /\ k.at = "book" /\ Len(meetings) < MaxSessions
  BY DEF RefsInv, ReviewData, Reviews!BookMeeting
<1>2. k.files \in 0..Files
  BY <1>1, ReviewJobIs
<1>3. meetings' = Append(meetings, [project |-> 0, documents |-> 0]) /\ UNCHANGED <<review, link, projects>>
  BY DEF Reviews!BookMeeting
<1>4. 0 \in 0..MaxProjects /\ 0 <= Len(projects) /\ Len(meetings) \in Nat /\ Len(projects) \in Nat
  BY DEF RefsInv, ReviewData, ReviewTables, ServicesAssumption
<1>5. /\ meetings' \in Seq(MeetingRow) /\ Len(meetings') = Len(meetings) + 1 /\ Len(meetings') <= MaxSessions
      /\ \A s \in 1..Len(meetings) : meetings'[s] = meetings[s]
      /\ meetings'[Len(meetings')].project = 0
      /\ \A s \in 1..Len(meetings') : meetings'[s].project <= Len(projects)
      /\ RowsGrow
  BY <1>1, <1>3, <1>4, MeetingAppended, Zenon DEF RefsInv
<1>6. PICK n : n = Len(meetings) + 1
  OBVIOUS
<1>7. n \in 1..MaxSessions /\ n \in 1..Len(meetings')
  BY <1>4, <1>5, <1>6 DEF ServicesAssumption
<1>8. PICK j : j = [at |-> "attach", on |-> 0, files |-> k.files, session |-> n]
  OBVIOUS
<1>9. j \in [at : {"attach", "approve_meeting"}, on : {0}, files : 0..Files, session : 1..MaxSessions]
  BY <1>2, <1>7, <1>8
<1>10. j \in Reviews!Jobs
  BY <1>9, Zenon DEF Reviews!Jobs
<1>11. j.at = "attach" /\ j.on = 0 /\ j.files = k.files /\ j.session = n
  BY <1>8
<1>12. RefsOK(j)'
  BY <1>5, <1>6, <1>7, <1>10, <1>11 DEF RefsOK, QueueJobs, SessionJobs
<1>13. job' = [job EXCEPT ![h] = j]
  BY <1>5, <1>6, <1>8, Zenon DEF Reviews!BookMeeting, Reviews!Goto
<1>14. Step(h, j)
  BY <1>3, <1>5, <1>12, <1>13, MeetDoes, Zenon
<1> QED
  BY <1>5, <1>6, <1>11, <1>14

LEMMA AttachDoes ==
  ASSUME RefsInv, NEW h \in Requests, NEW k, k = job[h], Reviews!AttachDocuments(h)
  PROVE  /\ \E j : Step(h, j) /\ j.at = "approve_meeting" /\ j.on = 0 /\ j.session = k.session
         /\ k.session \in 1..Len(meetings)
         /\ Len(meetings') = Len(meetings) /\ meetings'[k.session].documents = k.files
         /\ \A s \in 1..Len(meetings) : meetings'[s].project = meetings[s].project
<1>1. k \in Reviews!Jobs /\ k.at = "attach" /\ RefsOK(k)
  BY DEF RefsInv, ReviewData, ReviewRefs, Reviews!AttachDocuments
<1>2. k.files \in 0..Files /\ k.session \in 1..Len(meetings) /\ meetings[k.session].project = 0
  BY <1>1, ReviewJobIs DEF RefsOK
<1>3. meetings' = [meetings EXCEPT ![k.session].documents = k.files] /\ UNCHANGED <<review, link, projects>>
  BY DEF Reviews!AttachDocuments
<1>4. /\ meetings' \in Seq(MeetingRow) /\ Len(meetings') = Len(meetings)
      /\ \A t \in 1..Len(meetings) : meetings'[t].project = meetings[t].project
      /\ meetings'[k.session].documents = k.files
      /\ \A t \in 1..Len(meetings') : meetings'[t].project <= Len(projects)
      /\ RowsGrow
  BY <1>2, <1>3, MeetingWritten, Zenon DEF RefsInv
<1>5. PICK j \in Reviews!Jobs : /\ j = [k EXCEPT !.at = "approve_meeting"]
                                /\ j.at = "approve_meeting" /\ j.on = 0 /\ j.session = k.session /\ j.files = k.files
  BY <1>1, AttachGoesOn
<1>6. RefsOK(j)'
  BY <1>2, <1>4, <1>5 DEF RefsOK, QueueJobs, SessionJobs
<1>7. job' = [job EXCEPT ![h] = j]
  BY <1>5, Zenon DEF Reviews!AttachDocuments, Reviews!Goto
<1>8. Len(meetings') <= MaxSessions
  BY <1>4 DEF RefsInv, ReviewData, ReviewTables
<1>9. Step(h, j)
  BY <1>3, <1>4, <1>6, <1>7, <1>8, MeetDoes, Zenon
<1> QED
  BY <1>2, <1>4, <1>5, <1>9, Zenon

\* The session of a project.
LEMMA StartDoes ==
  ASSUME RefsInv, NEW h \in Requests, NEW k, k = job[h], Reviews!StartSession(h)
  PROVE  /\ \E j : Step(h, j) /\ j.at = "document" /\ j.on = k.on /\ j.session = Len(meetings) + 1
         /\ k.on \in 1..Len(projects)
         /\ Len(meetings') = Len(meetings) + 1 /\ meetings'[Len(meetings) + 1].project = k.on
         /\ \A s \in 1..Len(meetings) : meetings'[s] = meetings[s]
<1>1. k \in Reviews!Jobs /\ k.at = "start" /\ Len(meetings) < MaxSessions /\ RefsOK(k)
  BY DEF RefsInv, ReviewData, ReviewRefs, Reviews!StartSession
<1>2. k.on \in 1..MaxProjects /\ k.on \in 1..Len(projects)
  BY <1>1, ReviewJobIs DEF RefsOK, SessionJobs
<1>3. meetings' = Append(meetings, [project |-> k.on, documents |-> 0]) /\ UNCHANGED <<review, link, projects>>
  BY DEF Reviews!StartSession
<1>4. k.on \in 0..MaxProjects /\ k.on <= Len(projects) /\ Len(meetings) \in Nat /\ Len(projects) \in Nat
  BY <1>2 DEF RefsInv, ReviewData, ReviewTables, ServicesAssumption
<1>5. /\ meetings' \in Seq(MeetingRow) /\ Len(meetings') = Len(meetings) + 1 /\ Len(meetings') <= MaxSessions
      /\ \A s \in 1..Len(meetings) : meetings'[s] = meetings[s]
      /\ meetings'[Len(meetings')].project = k.on
      /\ \A s \in 1..Len(meetings') : meetings'[s].project <= Len(projects)
      /\ RowsGrow
  BY <1>1, <1>3, <1>4, MeetingAppended, Zenon DEF RefsInv
<1>6. PICK n : n = Len(meetings) + 1
  OBVIOUS
<1>7. n \in 1..MaxSessions /\ n \in 1..Len(meetings')
  BY <1>4, <1>5, <1>6 DEF ServicesAssumption
<1>8. PICK j : j = [at |-> "document", on |-> k.on, session |-> n]
  OBVIOUS
<1>9. j \in [at : {"document", "bind"}, on : 1..MaxProjects, session : 1..MaxSessions]
  BY <1>2, <1>7, <1>8
<1>10. j \in Reviews!Jobs
  BY <1>9, Zenon DEF Reviews!Jobs
<1>11. j.at = "document" /\ j.on = k.on /\ j.session = n
  BY <1>8
<1>12. RefsOK(j)'
  BY <1>2, <1>3, <1>5, <1>6, <1>7, <1>10, <1>11 DEF RefsOK, QueueJobs, SessionJobs
<1>13. job' = [job EXCEPT ![h] = j]
  BY <1>5, <1>6, <1>8, Zenon DEF Reviews!StartSession, Reviews!Goto
<1>14. Step(h, j)
  BY <1>3, <1>5, <1>12, <1>13, MeetDoes, Zenon
<1> QED
  BY <1>2, <1>5, <1>6, <1>11, <1>14

LEMMA DocumentDoes ==
  ASSUME RefsInv, NEW h \in Requests, NEW k, k = job[h], Reviews!InsertDocument(h)
  PROVE  /\ \E j : Step(h, j) /\ j.at = "bind" /\ j.on = k.on /\ j.session = k.session
         /\ k.on \in 1..Len(projects) /\ k.session \in 1..Len(meetings) /\ meetings[k.session].project = k.on
         /\ Len(meetings') = Len(meetings)
         /\ \A s \in 1..Len(meetings) : meetings'[s].project = meetings[s].project
         /\ \A s \in 1..Len(meetings) : s # k.session => meetings'[s] = meetings[s]
<1>1. k \in Reviews!Jobs /\ k.at = "document" /\ RefsOK(k)
  BY DEF RefsInv, ReviewData, ReviewRefs, Reviews!InsertDocument
<1>2. k.session \in 1..Len(meetings) /\ meetings[k.session].project = k.on /\ k.on \in 1..Len(projects)
  BY <1>1 DEF RefsOK, SessionJobs
<1>a. 1 \in 0..Files
  <2>1. projects \in Seq(ProjectRow) /\ projects[k.on] \in ProjectRow
    BY <1>2 DEF RefsInv, ReviewData, ReviewTables
  <2>2. projects[k.on].file \in 1..Files
    BY <2>1 DEF ProjectRow
  <2> QED
    BY <2>2 DEF ServicesAssumption
<1>3. meetings' = [meetings EXCEPT ![k.session].documents = 1] /\ UNCHANGED <<review, link, projects>>
  BY DEF Reviews!InsertDocument
<1>4. /\ meetings' \in Seq(MeetingRow) /\ Len(meetings') = Len(meetings)
      /\ \A t \in 1..Len(meetings) : t # k.session => meetings'[t] = meetings[t]
      /\ \A t \in 1..Len(meetings) : meetings'[t].project = meetings[t].project
      /\ \A t \in 1..Len(meetings') : meetings'[t].project <= Len(projects)
      /\ RowsGrow
  BY <1>a, <1>2, <1>3, MeetingWritten, Zenon DEF RefsInv
<1>5. PICK j \in Reviews!Jobs : j = [k EXCEPT !.at = "bind"] /\ j.at = "bind" /\ j.on = k.on /\ j.session = k.session
  BY <1>1, DocumentGoesOn
<1>6. RefsOK(j)'
  BY <1>2, <1>3, <1>4, <1>5 DEF RefsOK, QueueJobs, SessionJobs
<1>7. job' = [job EXCEPT ![h] = j]
  BY <1>5, Zenon DEF Reviews!InsertDocument, Reviews!Goto
<1>8. Len(meetings') <= MaxSessions
  BY <1>4 DEF RefsInv, ReviewData, ReviewTables
<1>9. Step(h, j)
  BY <1>3, <1>4, <1>6, <1>7, <1>8, MeetDoes, Zenon
<1> QED
  BY <1>2, <1>4, <1>5, <1>9, Zenon

LEMMA BindDoes ==
  ASSUME RefsInv, NEW h \in Requests, NEW k, k = job[h], Reviews!BindSession(h)
  PROVE  /\ Step(h, Reviews!Idle)
         /\ k.on \in 1..Len(projects) /\ ProjectsWritten(k.on) /\ projects'[k.on].appointment = k.session
<1>1. k \in Reviews!Jobs /\ k.at = "bind" /\ RefsOK(k)
  BY DEF RefsInv, ReviewData, ReviewRefs, Reviews!BindSession
<1>2. k.session \in 1..MaxSessions /\ k.on \in 1..Len(projects)
  BY <1>1, ReviewJobIs DEF RefsOK, SessionJobs
<1>3. k.session \in 0..MaxSessions
  BY <1>2 DEF ServicesAssumption
<1>4. projects' = [projects EXCEPT ![k.on].appointment = k.session] /\ UNCHANGED <<review, link, meetings>>
  BY DEF Reviews!BindSession
<1>5. ProjectsWritten(k.on) /\ projects'[k.on].appointment = k.session
  BY <1>2, <1>3, <1>4, ProjectBound, Zenon DEF RefsInv
<1>6. job' = [job EXCEPT ![h] = Reviews!Idle]
  BY Zenon DEF Reviews!BindSession, Reviews!Goto
<1>7. RefsOK(Reviews!Idle)'
  BY DEF RefsOK, Reviews!Jobs, Reviews!Idle, QueueJobs, SessionJobs
<1>8. Step(h, Reviews!Idle)
  BY <1>2, <1>4, <1>5, <1>6, <1>7, WriteDoes, Zenon
<1> QED
  BY <1>2, <1>5, <1>8

\* The files of the review, and the statements that make the project of one.
LEMMA InsertFilesDoes ==
  ASSUME RefsInv, NEW h \in Requests, Reviews!InsertFiles(h)
  PROVE  Step(h, Reviews!Idle) /\ Reviews!Linked' = {} /\ DOMAIN link' = 1..Files
<1>1. link' = [f \in 1..Files |-> 0] /\ UNCHANGED <<review, projects, meetings>>
  BY DEF Reviews!InsertFiles
<1>2. link' \in [1..Files -> 0..MaxProjects] /\ DOMAIN link' = 1..Files
  BY <1>1 DEF ServicesAssumption
<1>3. Reviews!Linked' = {}
  BY <1>1 DEF Reviews!Linked
<1>4. RowsGrow /\ ReviewTables'
  BY <1>1, <1>2, LinkShape DEF RowsGrow, RefsInv, ReviewData, ReviewTables
<1>5. QueuedOK'
  BY <1>3 DEF QueuedOK
<1>6. job' = [job EXCEPT ![h] = Reviews!Idle]
  BY Zenon DEF Reviews!InsertFiles, Reviews!Goto
<1>7. RefsOK(Reviews!Idle)'
  BY DEF RefsOK, Reviews!Jobs, Reviews!Idle, QueueJobs, SessionJobs
<1>8. Step(h, Reviews!Idle)
  BY <1>1, <1>4, <1>5, <1>6, <1>7, RefsMoved DEF RefsInv, ReviewRefs
<1> QED
  BY <1>2, <1>3, <1>8

\* A job goes on with the same document and project.
SameQueue(j, k) == j.on = 0 /\ j.file = k.file /\ j.answers = k.answers /\ j.project = k.project

LEMMA InsertProjectDoes ==
  ASSUME RefsInv, NEW h \in Requests, NEW k, k = job[h], Reviews!InsertProject(h)
  PROVE  /\ \E j : /\ Step(h, j)
                   /\ j.at = "open" /\ j.on = 0 /\ j.file = k.file /\ j.answers = k.answers
                   /\ j.project = Len(projects) + 1
         /\ Len(projects') = Len(projects) + 1
         /\ \A q \in 1..Len(projects) : projects'[q] = projects[q]
         /\ projects'[Len(projects) + 1].appointment = 0
<1>1. k \in Reviews!Jobs /\ k.at = "insert_project" /\ Len(projects) < MaxProjects /\ RefsOK(k)
  BY DEF RefsInv, ReviewData, ReviewRefs, Reviews!InsertProject
<1>2. k.file \in 1..Files /\ k.answers \in BOOLEAN /\ k.file \in DOMAIN link
  BY <1>1, ReviewJobIs DEF RefsOK, QueueJobs
<1>3. /\ projects' = Append(projects, [file |-> k.file, status |-> "draft", signer |-> FALSE, plotted |-> FALSE,
                                       finished |-> FALSE, appointment |-> 0])
      /\ UNCHANGED <<review, link, meetings>>
  BY DEF Reviews!InsertProject
<1>4. /\ projects' \in Seq(ProjectRow) /\ Len(projects') = Len(projects) + 1 /\ Len(projects') <= MaxProjects
      /\ \A q \in 1..Len(projects) : projects'[q] = projects[q]
      /\ projects'[Len(projects')].file = k.file /\ projects'[Len(projects')].appointment = 0
      /\ \A q \in 1..Len(projects') : projects'[q].status = "completed" => projects'[q].finished
      /\ RowsGrow
  BY <1>1, <1>2, <1>3, ProjectAppended, Zenon DEF RefsInv
<1>5. PICK n : n = Len(projects) + 1
  OBVIOUS
<1>6. Len(projects) \in Nat /\ Len(meetings) \in Nat /\ n \in 1..MaxProjects /\ n \in 1..Len(projects')
  BY <1>4, <1>5 DEF RefsInv, ReviewData, ReviewTables, ServicesAssumption
<1>7. PICK j : j = [at |-> "open", on |-> 0, file |-> k.file, answers |-> k.answers, project |-> n]
  OBVIOUS
<1>8. j \in [at : {"open", "sign_up", "link", "activate", "approve_quicksign"}, on : {0},
             file : 1..Files, answers : BOOLEAN, project : 1..MaxProjects]
  BY <1>2, <1>6, <1>7
<1>9. j \in Reviews!Jobs
  BY <1>8, Zenon DEF Reviews!Jobs
<1>10. j.at = "open" /\ j.on = 0 /\ j.file = k.file /\ j.answers = k.answers /\ j.project = n
  BY <1>7
<1>11. RefsOK(j)'
  BY <1>2, <1>3, <1>4, <1>5, <1>6, <1>9, <1>10 DEF RefsOK, QueueJobs, SessionJobs
<1>12. job' = [job EXCEPT ![h] = j]
  BY <1>4, <1>5, <1>7, Zenon DEF Reviews!InsertProject, Reviews!Goto
<1>13. ReviewTables'
  BY <1>3, <1>4 DEF RefsInv, ReviewData, ReviewTables
<1>14. \A s \in 1..Len(meetings') : meetings'[s].project <= Len(projects')
  <2>1. \A s \in 1..Len(meetings) : meetings[s].project <= Len(projects) /\ meetings[s].project \in Int
    <3> SUFFICES ASSUME NEW s \in 1..Len(meetings)
                 PROVE  meetings[s].project <= Len(projects) /\ meetings[s].project \in Int
      OBVIOUS
    <3>1. meetings[s] \in MeetingRow
      BY DEF RefsInv, ReviewData, ReviewTables
    <3>2. meetings[s].project \in Int
      BY <3>1 DEF MeetingRow
    <3> QED
      BY <3>2 DEF RefsInv, ReviewRefs
  <2> QED
    BY <1>3, <1>4, <1>6, <2>1
<1>15. Step(h, j)
  BY <1>3, <1>4, <1>11, <1>12, <1>13, <1>14, RefsMoved, Zenon
<1> QED
  BY <1>4, <1>5, <1>10, <1>15, Zenon

LEMMA OpenDoes ==
  ASSUME RefsInv, NEW h \in Requests, NEW k, k = job[h], Reviews!OpenProject(h)
  PROVE  /\ \E j : Step(h, j) /\ j.at = "sign_up" /\ SameQueue(j, k)
         /\ k.project \in 1..Len(projects) /\ Touched(k.project)
<1>1. k \in Reviews!Jobs /\ k.at = "open" /\ RefsOK(k)
  BY DEF RefsInv, ReviewData, ReviewRefs, Reviews!OpenProject
<1>2. k.file \in DOMAIN link /\ k.project \in 1..Len(projects) /\ projects[k.project].file = k.file
  BY <1>1 DEF RefsOK, QueueJobs
<1>3. projects' = [projects EXCEPT ![k.project].status = "pending_signatures"] /\ UNCHANGED <<review, link, meetings>>
  BY DEF Reviews!OpenProject
<1>4. Touched(k.project) /\ projects'[k.project].status = "pending_signatures"
  BY <1>2, <1>3, ProjectTouched, Zenon DEF RefsInv
<1>5. PICK j : j = [k EXCEPT !.at = "sign_up"]
  OBVIOUS
<1>6. /\ j \in Reviews!Jobs /\ j.at = "sign_up" /\ j.on = 0
      /\ j.file = k.file /\ j.answers = k.answers /\ j.project = k.project
  BY <1>1, <1>5, QueueJobGoesOn DEF QueueJobs
<1>7. RefsOK(j)'
  BY <1>2, <1>3, <1>4, <1>6 DEF RefsOK, QueueJobs, SessionJobs, Touched, ProjectsWritten, RowsGrow
<1>8. job' = [job EXCEPT ![h] = j]
  BY <1>5, Zenon DEF Reviews!OpenProject, Reviews!Goto
<1>9. Step(h, j)
  BY <1>2, <1>3, <1>4, <1>7, <1>8, WriteDoes, Zenon DEF Touched
<1> QED
  BY <1>2, <1>4, <1>6, <1>9, Zenon DEF SameQueue

LEMMA SignUpDoes ==
  ASSUME RefsInv, NEW h \in Requests, NEW k, k = job[h], Reviews!RegisterSigner(h)
  PROVE  /\ \E j : Step(h, j) /\ j.at = "link" /\ SameQueue(j, k)
         /\ k.project \in 1..Len(projects) /\ Touched(k.project)
<1>1. k \in Reviews!Jobs /\ k.at = "sign_up" /\ RefsOK(k)
  BY DEF RefsInv, ReviewData, ReviewRefs, Reviews!RegisterSigner
<1>2. /\ k.file \in DOMAIN link /\ k.project \in 1..Len(projects) /\ projects[k.project].file = k.file
      /\ projects[k.project].status # "draft"
  BY <1>1 DEF RefsOK, QueueJobs
<1>3. projects' = [projects EXCEPT ![k.project].signer = TRUE] /\ UNCHANGED <<review, link, meetings>>
  BY DEF Reviews!RegisterSigner
<1>4. Touched(k.project) /\ projects'[k.project].signer /\ projects'[k.project].status = projects[k.project].status
  BY <1>2, <1>3, ProjectTouched, Zenon DEF RefsInv
<1>5. PICK j : j = [k EXCEPT !.at = "link"]
  OBVIOUS
<1>6. /\ j \in Reviews!Jobs /\ j.at = "link" /\ j.on = 0
      /\ j.file = k.file /\ j.answers = k.answers /\ j.project = k.project
  BY <1>1, <1>5, QueueJobGoesOn DEF QueueJobs
<1>7. RefsOK(j)'
  BY <1>2, <1>3, <1>4, <1>6 DEF RefsOK, QueueJobs, SessionJobs, Touched, ProjectsWritten, RowsGrow
<1>8. job' = [job EXCEPT ![h] = j]
  BY <1>5, Zenon DEF Reviews!RegisterSigner, Reviews!Goto
<1>9. Step(h, j)
  BY <1>2, <1>3, <1>4, <1>7, <1>8, WriteDoes, Zenon DEF Touched
<1> QED
  BY <1>2, <1>4, <1>6, <1>9, Zenon DEF SameQueue

LEMMA LinkDoes ==
  ASSUME RefsInv, NEW h \in Requests, NEW k, k = job[h], Reviews!LinkProject(h)
  PROVE  /\ \E j : Step(h, j) /\ j.at = "activate" /\ SameQueue(j, k)
         /\ k.file \in DOMAIN link /\ k.file \in 1..Files /\ k.project \in 1..Len(projects)
         /\ Reviews!Linked' = Reviews!Linked \cup {k.file}
         /\ link'[k.file] = k.project /\ DOMAIN link' = DOMAIN link /\ Len(link') = Len(link)
         /\ \A f \in DOMAIN link : f # k.file => link'[f] = link[f]
<1>1. k \in Reviews!Jobs /\ k.at = "link" /\ RefsOK(k)
  BY DEF RefsInv, ReviewData, ReviewRefs, Reviews!LinkProject
<1>2. /\ k.file \in DOMAIN link /\ k.project \in 1..Len(projects) /\ projects[k.project].file = k.file
      /\ projects[k.project].status # "draft" /\ projects[k.project].signer
  BY <1>1 DEF RefsOK, QueueJobs
<1>3. k.project \in 1..MaxProjects /\ k.file \in 1..Files
  BY <1>1, ReviewJobIs DEF QueueJobs
<1>4. link' = [link EXCEPT ![k.file] = k.project] /\ UNCHANGED <<review, projects, meetings>>
  BY DEF Reviews!LinkProject
<1>5. link \in [1..Files -> 0..MaxProjects] /\ DOMAIN link = 1..Files
  BY <1>2 DEF RefsInv, ReviewData, ReviewTables
<1>6. /\ link' \in [1..Files -> 0..MaxProjects] /\ DOMAIN link' = DOMAIN link
      /\ link'[k.file] = k.project /\ \A f \in DOMAIN link : f # k.file => link'[f] = link[f]
  BY <1>3, <1>4, <1>5
<1>7. Len(link') = Len(link)
  BY <1>5, <1>6 DEF ServicesAssumption
<1>8. Reviews!Linked' = Reviews!Linked \cup {k.file}
  <2>1. ASSUME NEW f \in DOMAIN link PROVE link'[f] # 0 <=> f = k.file \/ link[f] # 0
    BY <1>3, <1>6
  <2>2. Reviews!Linked' = {f \in DOMAIN link : link'[f] # 0}
    BY <1>6, Zenon DEF Reviews!Linked
  <2>3. \A f : f \in Reviews!Linked <=> f \in DOMAIN link /\ link[f] # 0
    BY DEF Reviews!Linked
  <2> QED
    BY <1>2, <2>1, <2>2, <2>3
<1>9. QueuedOK'
  BY <1>2, <1>4, <1>6, <1>8 DEF QueuedOK, RefsInv, ReviewRefs, Reviews!Linked
<1>10. RowsGrow /\ ReviewTables'
  BY <1>4, <1>6 DEF RowsGrow, RefsInv, ReviewData, ReviewTables
<1>11. PICK j : j = [k EXCEPT !.at = "activate"]
  OBVIOUS
<1>12. /\ j \in Reviews!Jobs /\ j.at = "activate" /\ j.on = 0
       /\ j.file = k.file /\ j.answers = k.answers /\ j.project = k.project
  BY <1>1, <1>11, QueueJobGoesOn DEF QueueJobs
<1>13. RefsOK(j)'
  BY <1>2, <1>4, <1>6, <1>12 DEF RefsOK, QueueJobs, SessionJobs
<1>14. job' = [job EXCEPT ![h] = j]
  BY <1>11, Zenon DEF Reviews!LinkProject, Reviews!Goto
<1>15. Step(h, j)
  BY <1>4, <1>9, <1>10, <1>13, <1>14, RefsMoved DEF RefsInv, ReviewRefs
<1> QED
  BY <1>2, <1>3, <1>6, <1>7, <1>8, <1>12, <1>15, Zenon DEF SameQueue

\* Reading the latest project may complete it.
LEMMA AdvanceDoes ==
  ASSUME RefsInv, NEW h \in Requests, Reviews!CheckAdvance(h)
  PROVE  \E f \in DOMAIN link \ Reviews!Linked : \E j :
           /\ \A g \in DOMAIN link \ Reviews!Linked : f <= g
           /\ Reviews!Arrive(h, j) /\ Step(h, j)
           /\ j = [at |-> "insert_project", on |-> 0, file |-> f, answers |-> FALSE]
           /\ projects' = projects \/ \E p \in 1..Len(projects) : Touched(p)
           /\ Reviews!Latest # 0 /\ Reviews!Latest \in 1..Len(projects) => projects'[Reviews!Latest].finished
<1>1. PICK f \in DOMAIN link \ Reviews!Linked :
        /\ \A g \in DOMAIN link \ Reviews!Linked : f <= g
        /\ Reviews!Arrive(h, [at |-> "insert_project", on |-> 0, file |-> f, answers |-> FALSE])
  BY Zenon DEF Reviews!CheckAdvance
<1>2. PICK j : j = [at |-> "insert_project", on |-> 0, file |-> f, answers |-> FALSE]
  OBVIOUS
<1>3. RefsOK(j) /\ job' = [job EXCEPT ![h] = j]
  BY <1>1, <1>2, Arrivals, FALSE \in BOOLEAN, Zenon DEF Reviews!Arrive
<1>4. UNCHANGED <<review, link, meetings>>
  BY DEF Reviews!CheckAdvance
<1>5. PICK p : p = Reviews!Latest
  OBVIOUS
<1>6. p # 0 => p \in 1..Len(projects)
  BY <1>5, LatestIs DEF Reviews!Latest
<1>7. \/ /\ p # 0 => projects[p].status = "completed"
         /\ projects' = projects
      \/ p # 0 /\ projects' = Reviews!Completed(p)
  BY <1>5, Zenon DEF Reviews!CheckAdvance, Reviews!LatestIsComplete
<1>8. CASE projects' = projects /\ (p # 0 => projects[p].status = "completed")
  <2>1. Step(h, j)
    BY <1>3, <1>4, <1>8, ArriveDoes
  <2>2. p # 0 => projects'[p].finished
    BY <1>6, <1>8 DEF RefsInv, ReviewRefs
  <2> QED
    BY <1>1, <1>2, <1>5, <1>8, <2>1, <2>2, Zenon
<1>9. CASE p # 0 /\ projects' = Reviews!Completed(p)
  <2>1. Touched(p) /\ projects'[p].finished
    BY <1>4, <1>6, <1>9, ProjectTouched DEF RefsInv
  <2>2. RefsOK(j)'
    BY <1>3, <2>1, RefsStay DEF RefsInv, Touched, ProjectsWritten
  <2>3. Step(h, j)
    BY <1>3, <1>4, <1>6, <1>9, <2>1, <2>2, WriteDoes, Zenon DEF Touched
  <2> QED
    BY <1>1, <1>2, <1>5, <1>6, <1>9, <2>1, <2>3, Zenon
<1> QED
  BY <1>7, <1>8, <1>9

\* Plotting, reopening and completing a project are no request's.
Touching(p) == Reviews!Plot(p) \/ Reviews!Reopen(p) \/ Reviews!Complete(p)

LEMMA TouchingDoes ==
  ASSUME RefsInv, NEW p \in Reviews!ProjectIds, Touching(p)
  PROVE  /\ RefsInv' /\ RowsGrow /\ p \in 1..Len(projects) /\ Touched(p)
         /\ UNCHANGED <<review, link, meetings, job, crowded, crashed>>
<1>1. p \in 1..Len(projects)
  BY DEF Reviews!ProjectIds, RefsInv, ReviewData, ReviewTables
<1>2. UNCHANGED <<review, link, meetings, job>> /\ UNCHANGED <<crowded, crashed>>
  BY Zenon DEF Touching, Reviews!Plot, Reviews!Reopen, Reviews!Complete
<1>3. \/ projects' = [projects EXCEPT ![p].plotted = TRUE]
      \/ projects' = [projects EXCEPT ![p].status = "pending_signatures"]
      \/ projects' = Reviews!Completed(p)
  BY Zenon DEF Touching, Reviews!Plot, Reviews!Reopen, Reviews!Complete
<1>4. Touched(p)
  <2>1. DOMAIN link \subseteq DOMAIN link' /\ UNCHANGED meetings
    BY <1>2
  <2> QED
    BY <1>1, <1>3, <2>1, ProjectTouched, Zenon DEF RefsInv
<1> QED
  BY <1>1, <1>2, <1>4, TouchDoes DEF Touched

\* What a job names is there for ever.
LEMMA NextRefs ==
  ASSUME RefsInv, Reviews!Next \/ UNCHANGED Reviews!vars
  PROVE  RefsInv'
<1>1. ASSUME NEW h \in Requests, NEW j, RefsOK(j), Reviews!Arrive(h, j), UNCHANGED Reviews!rows PROVE RefsInv'
  <2>1. job' = [job EXCEPT ![h] = j] /\ UNCHANGED <<review, link, projects, meetings>>
    BY <1>1, Zenon DEF Reviews!Arrive, Reviews!rows
  <2>2. Step(h, j)
    BY <1>1, <2>1, ArriveDoes
  <2> QED
    BY <2>2 DEF Step
<1>2. ASSUME NEW h \in Requests,
             \/ Reviews!CheckCreate(h) \/ Reviews!CheckApproveMeeting(h) \/ Reviews!CheckApproveQuicksign(h)
             \/ \E s \in {"rejected", "cancelled"} : Reviews!CheckDecide(h, s)
             \/ \E p \in Reviews!ProjectIds : Reviews!CheckFinalize(h, p)
      PROVE  RefsInv'
  <2>1. Reviews!ProjectIds = 1..Len(projects)
    BY DEF Reviews!ProjectIds, RefsInv, ReviewData, ReviewTables
  <2>2. Reviews!CheckApproveQuicksign(h) => 1 \in DOMAIN link
    <3>1. link # <<>> /\ link \in [1..Files -> 0..MaxProjects] => 1 \in DOMAIN link
      BY DEF ServicesAssumption
    <3> QED
      BY <3>1 DEF RefsInv, ReviewData, ReviewTables, Reviews!CheckApproveQuicksign
  <2>3. CASE Reviews!CheckCreate(h)
    BY <1>1, <2>3, Arrivals, Zenon DEF Reviews!CheckCreate
  <2>4. CASE Reviews!CheckApproveMeeting(h)
    BY <1>1, <2>4, Arrivals, Zenon DEF Reviews!CheckApproveMeeting
  <2>5. CASE Reviews!CheckApproveQuicksign(h)
    BY <1>1, <2>2, <2>5, Arrivals, TRUE \in BOOLEAN, Zenon DEF Reviews!CheckApproveQuicksign
  <2>6. ASSUME NEW s \in {"rejected", "cancelled"}, Reviews!CheckDecide(h, s) PROVE RefsInv'
    BY <1>1, <2>6, Arrivals, Zenon DEF Reviews!CheckDecide
  <2>7. ASSUME NEW p \in Reviews!ProjectIds, Reviews!CheckFinalize(h, p) PROVE RefsInv'
    BY <1>1, <2>1, <2>7, Arrivals, Zenon DEF Reviews!CheckFinalize
  <2> QED
    BY <1>2, <2>3, <2>4, <2>5, <2>6, <2>7, Zenon
<1>3. ASSUME NEW h \in Requests, Reviews!Abort(h) PROVE RefsInv'
  <2>1. job' = [job EXCEPT ![h] = Reviews!Idle] /\ UNCHANGED <<review, link, projects, meetings>>
    BY <1>3, Zenon DEF Reviews!Abort, Reviews!rows
  <2>2. Step(h, Reviews!Idle)
    BY <2>1, ArriveDoes, Arrivals
  <2> QED
    BY <2>2 DEF Step
<1>4. ASSUME NEW h \in Requests,
             \/ Reviews!InsertReview(h) \/ Reviews!InsertFiles(h) \/ Reviews!WriteDecision(h)
             \/ Reviews!BookMeeting(h) \/ Reviews!AttachDocuments(h) \/ Reviews!ApproveMeeting(h)
             \/ Reviews!CheckAdvance(h) \/ Reviews!InsertProject(h) \/ Reviews!OpenProject(h)
             \/ Reviews!RegisterSigner(h) \/ Reviews!LinkProject(h) \/ Reviews!ActivateProject(h)
             \/ Reviews!ApproveQuicksign(h) \/ Reviews!StartSession(h) \/ Reviews!InsertDocument(h)
             \/ Reviews!BindSession(h)
      PROVE  RefsInv'
  <2>1. \E j : Step(h, j)
    BY <1>4, InsertReviewDoes, InsertFilesDoes, WriteDecisionDoes, BookDoes, AttachDoes, ApproveMeetingDoes,
       AdvanceDoes, InsertProjectDoes, OpenDoes, SignUpDoes, LinkDoes, ActivateDoes, ApproveQuicksignDoes,
       StartDoes, DocumentDoes, BindDoes, Zenon
  <2> QED
    BY <2>1 DEF Step
<1>5. CASE UNCHANGED Reviews!vars
  <2>1. UNCHANGED <<review, link, projects, meetings, job>>
    BY <1>5 DEF Reviews!vars
  <2> QED
    BY <2>1 DEF RefsInv, ReviewData, ReviewTables, ReviewRefs, QueuedOK, RefsOK, Reviews!Linked
<1>6. ASSUME NEW p \in Reviews!ProjectIds, Touching(p) PROVE RefsInv'
  BY <1>6, TouchingDoes
<1> QED
  BY <1>2, <1>3, <1>4, <1>5, <1>6, Zenon DEF Reviews!Next, Touching

-----------------------------------------------------------------------------
(* Turns: while requests do not overlap *)

OneEach == \A g, h \in Requests : Reviews!Busy(g) /\ Reviews!Busy(h) /\ job[g].on = job[h].on => g = h

LEMMA OneEachStays ==
  ASSUME RefsInv, OneEach, NEW h \in Requests, NEW j, job' = [job EXCEPT ![h] = j],
         \/ j = Reviews!Idle
         \/ Reviews!Busy(h) /\ j.on = job[h].on
         \/ \A g \in Requests \ {h} : ~(Reviews!Busy(g) /\ job[g].on = j.on)
  PROVE  OneEach'
<1>1. job'[h] = j /\ \A g \in Requests : g # h => job'[g] = job[g]
  BY DEF RefsInv, ReviewData
<1> QED
  BY <1>1 DEF OneEach, Reviews!Busy

LEMMA TurnStays ==
  ASSUME RefsInv, RowsGrow, UNCHANGED <<review, link>>, NEW k, RefsOK(k), TurnOK(k),
         k.at = "approve_meeting" => meetings'[k.session].documents = meetings[k.session].documents
  PROVE  TurnOK(k)'
<1>1. Reviews!Linked' = Reviews!Linked
  BY DEF Reviews!Linked
<1>2. \A g \in Reviews!Linked : projects[link[g]].finished => projects'[link[g]].finished
  BY DEF RefsInv, ReviewRefs, QueuedOK, RowsGrow
<1>3. k.at \in {"insert_project", "open", "sign_up", "link"} =>
        /\ \A g \in Reviews!Linked' : g <= k.file
        /\ \A g \in 1..(k.file - 1) : g \in Reviews!Linked' /\ projects'[link'[g]].finished
  BY <1>1, <1>2 DEF TurnOK
<1>4. /\ k.at \in {"insert_files", "decide", "book", "attach", "approve_meeting"} => review'.status = "pending"
      /\ k.at \in QueueJobs =>
            IF k.answers THEN review'.status = "pending" /\ k.file = 1 ELSE review'.status = "approved"
      /\ k.at \in {"book", "attach"} => k.files = Len(link')
      /\ k.at = "approve_meeting" => meetings'[k.session].documents = Len(link')
  BY DEF TurnOK
<1> QED
  BY <1>3, <1>4 DEF TurnOK

LEMMA TurnKept ==
  ASSUME RefsInv, TurnInv, RowsGrow, UNCHANGED <<review, link>>, OneEach',
         review.appointment # 0 =>
             meetings'[review.appointment].documents = meetings[review.appointment].documents,
         \A g \in Requests :
             \/ TurnOK(job[g])'
             \/ /\ job'[g] = job[g]
                /\ job[g].at = "approve_meeting" =>
                      meetings'[job[g].session].documents = meetings[job[g].session].documents
  PROVE  TurnInv'
<1>1. ASSUME NEW g \in Requests PROVE TurnOK(job[g])'
  <2>1. PICK k : k = job[g]
    OBVIOUS
  <2>2. RefsOK(k) /\ TurnOK(k)
    BY <2>1 DEF RefsInv, ReviewRefs, TurnInv
  <2> SUFFICES ASSUME job'[g] = k,
                      k.at = "approve_meeting" => meetings'[k.session].documents = meetings[k.session].documents
               PROVE  TurnOK(job[g])'
    BY <2>1
  <2>3. TurnOK(k)'
    BY <2>2, TurnStays
  <2> QED
    BY <2>3, Zenon DEF TurnOK
<1>2. Reviews!Linked' = Reviews!Linked
  BY DEF Reviews!Linked
<1>3. \A g \in Reviews!Linked : projects[link[g]].finished => projects'[link[g]].finished
  BY DEF RefsInv, ReviewRefs, QueuedOK, RowsGrow
<1>4. \A f \in Reviews!Linked' : \A g \in 1..(f - 1) : g \in Reviews!Linked' /\ projects'[link'[g]].finished
  BY <1>2, <1>3 DEF TurnInv
<1>5. /\ review'.status \in {"absent", "pending"} => Reviews!Linked' \subseteq {1} /\ review'.appointment = 0
      /\ review'.appointment # 0 => meetings'[review'.appointment].documents = Len(link')
  BY <1>2 DEF TurnInv
<1> QED
  BY <1>1, <1>4, <1>5 DEF TurnInv, OneEach

\* A request on the review is the only one.
LEMMA TurnAlone ==
  ASSUME RefsInv, TurnInv, NEW h \in Requests, job[h].at \in ReviewJobs, NEW j, job' = [job EXCEPT ![h] = j],
         j = Reviews!Idle \/ j.on = 0, TurnOK(j)'
  PROVE  OneEach' /\ \A g \in Requests : TurnOK(job[g])'
<1>1. job'[h] = j /\ \A g \in Requests : g # h => job'[g] = job[g]
  BY DEF RefsInv, ReviewData
<1>2. OneEach
  BY DEF TurnInv, OneEach
<1>3. Reviews!Busy(h) /\ job[h].on = 0
  <2>1. PICK k \in Reviews!Jobs : k = job[h]
    BY DEF RefsInv, ReviewData
  <2>2. k.on = 0 /\ k # Reviews!Idle
    BY <2>1, ReviewJobIs DEF ReviewJobs, QueueJobs
  <2> QED
    BY <2>1, <2>2 DEF Reviews!Busy
<1>4. OneEach'
  BY <1>2, <1>3, OneEachStays, Zenon
<1>5. ASSUME NEW g \in Requests PROVE TurnOK(job[g])'
  <2>1. CASE g = h
    BY <1>1, <2>1, Zenon DEF TurnOK
  <2>2. CASE g # h
    <3>1. PICK k \in Reviews!Jobs : k = job[g]
      BY DEF RefsInv, ReviewData
    <3>2. k.at \notin ReviewJobs
      <4>1. k.at \in ReviewJobs => k.on = 0 /\ k # Reviews!Idle
        BY ReviewJobIs DEF ReviewJobs, QueueJobs
      <4> QED
        BY <1>2, <1>3, <2>2, <3>1, <4>1, Zenon DEF OneEach, Reviews!Busy
    <3>3. job'[g] = k
      BY <1>1, <2>2, <3>1
    <3> QED
      BY <3>2, <3>3 DEF TurnOK, ReviewJobs, QueueJobs
  <2> QED
    BY <2>1, <2>2
<1> QED
  BY <1>4, <1>5

LEMMA AloneArrives ==
  ASSUME NEW h \in Requests, NEW j, Reviews!Arrive(h, j), ~crowded'
  PROVE  /\ ~crowded /\ UNCHANGED crashed /\ job' = [job EXCEPT ![h] = j] /\ ~Reviews!Busy(h)
         /\ \A g \in Requests \ {h} : ~(Reviews!Busy(g) /\ job[g].on = j.on)
  BY Zenon DEF Reviews!Arrive

LEMMA ArriveTurn ==
  ASSUME RefsInv, TurnInv, NEW h \in Requests, NEW j, Reviews!Arrive(h, j), ~crowded', TurnOK(j)', RowsGrow,
         UNCHANGED <<review, link, meetings>>
  PROVE  TurnInv'
<1>1. OneEach'
  <2>1. OneEach
    BY DEF OneEach, TurnInv
  <2> QED
    BY <2>1, AloneArrives, OneEachStays, Zenon
<1>2. job' = [job EXCEPT ![h] = j]
  BY AloneArrives
<1>3. ASSUME NEW g \in Requests PROVE TurnOK(job[g])' \/ job'[g] = job[g]
  <2>1. CASE g = h
    <3>1. job'[g] = j
      BY <1>2, <2>1 DEF RefsInv, ReviewData
    <3> QED
      BY <3>1, Zenon DEF TurnOK
  <2>2. CASE g # h
    BY <1>2, <2>2 DEF RefsInv, ReviewData
  <2> QED
    BY <2>1, <2>2
<1>4. \A g \in Requests :
        \/ TurnOK(job[g])'
        \/ /\ job'[g] = job[g]
           /\ job[g].at = "approve_meeting" =>
                 meetings'[job[g].session].documents = meetings[job[g].session].documents
  BY <1>3
<1> QED
  BY <1>1, <1>4, TurnKept

\* The reads of what is answered and of what is to be advanced.
LEMMA CheckTurn ==
  ASSUME RefsInv, ~crowded => TurnInv, NEW h \in Requests, ~crowded',
         \/ Reviews!CheckCreate(h) \/ Reviews!CheckApproveMeeting(h) \/ Reviews!CheckApproveQuicksign(h)
         \/ \E s \in {"rejected", "cancelled"} : Reviews!CheckDecide(h, s)
         \/ \E p \in Reviews!ProjectIds : Reviews!CheckFinalize(h, p)
  PROVE  TurnInv'
<1>1. ASSUME NEW j, Reviews!Arrive(h, j), UNCHANGED Reviews!rows, TurnInv => TurnOK(j) PROVE TurnInv'
  <2>1. UNCHANGED <<review, link, projects, meetings>>
    BY <1>1 DEF Reviews!rows
  <2>2. TurnInv
    BY <1>1, AloneArrives
  <2>3. RowsGrow
    BY <2>1 DEF RowsGrow, RefsInv, ReviewData, ReviewTables
  <2>4. TurnOK(j)'
    BY <1>1, <2>1, <2>2 DEF TurnOK, Reviews!Linked
  <2> QED
    BY <1>1, <2>1, <2>2, <2>3, <2>4, ArriveTurn
<1>2. CASE Reviews!CheckCreate(h)
  <2>1. TurnOK([at |-> "insert_review", on |-> 0])
    BY DEF TurnOK, QueueJobs
  <2> QED
    BY <1>1, <1>2, <2>1, Zenon DEF Reviews!CheckCreate
<1>3. CASE Reviews!CheckApproveMeeting(h)
  <2>1. TurnOK([at |-> "book", on |-> 0, files |-> Len(link)])
    BY <1>3 DEF TurnOK, QueueJobs, Reviews!CheckApproveMeeting
  <2> QED
    BY <1>1, <1>3, <2>1, Zenon DEF Reviews!CheckApproveMeeting
<1>4. CASE Reviews!CheckApproveQuicksign(h)
  <2>1. review.status = "pending"
    BY <1>4 DEF Reviews!CheckApproveQuicksign
  <2>2. TurnInv => TurnOK([at |-> "insert_project", on |-> 0, file |-> 1, answers |-> TRUE])
    BY <2>1 DEF TurnOK, QueueJobs, TurnInv
  <2> QED
    BY <1>1, <1>4, <2>2, Zenon DEF Reviews!CheckApproveQuicksign
<1>5. ASSUME NEW s \in {"rejected", "cancelled"}, Reviews!CheckDecide(h, s) PROVE TurnInv'
  <2>1. TurnOK([at |-> "decide", on |-> 0, status |-> s])
    BY <1>5 DEF TurnOK, QueueJobs, Reviews!CheckDecide
  <2> QED
    BY <1>1, <1>5, <2>1, Zenon DEF Reviews!CheckDecide
<1>6. ASSUME NEW p \in Reviews!ProjectIds, Reviews!CheckFinalize(h, p) PROVE TurnInv'
  <2>1. TurnOK([at |-> "start", on |-> p])
    BY DEF TurnOK, QueueJobs
  <2> QED
    BY <1>1, <1>6, <2>1, Zenon DEF Reviews!CheckFinalize
<1> QED
  BY <1>2, <1>3, <1>4, <1>5, <1>6, Zenon

\* The documents that have a project are the first ones, and the latest of them is the last.
LEMMA NextInLine ==
  ASSUME RefsInv, TurnInv, NEW f \in DOMAIN link \ Reviews!Linked, \A g \in DOMAIN link \ Reviews!Linked : f <= g
  PROVE  /\ f \in 1..Files /\ Reviews!Linked = 1..(f - 1)
         /\ \A g \in 1..(f - 2) : projects[link[g]].finished
         /\ f > 1 => Reviews!Latest = link[f - 1] /\ Reviews!Latest # 0 /\ Reviews!Latest \in 1..Len(projects)
<1>1. DOMAIN link = 1..Files /\ Files \in Nat /\ f \in 1..Files /\ Reviews!Linked \subseteq 1..Files
  BY LinkShape DEF RefsInv, ServicesAssumption, Reviews!Linked
<1>2. ASSUME NEW g \in 1..(f - 1) PROVE g \in Reviews!Linked
  BY <1>1, <1>2
<1>3. ASSUME NEW g \in Reviews!Linked PROVE g \in 1..(f - 1)
  <2>1. g \in 1..Files /\ g # f
    BY <1>1
  <2>2. CASE g > f
    BY <1>1, <2>1, <2>2 DEF TurnInv
  <2> QED
    BY <1>1, <2>1, <2>2
<1>4. Reviews!Linked = 1..(f - 1)
  BY <1>2, <1>3
<1>5. ASSUME NEW g \in 1..(f - 2) PROVE projects[link[g]].finished
  <2>1. f - 1 \in Reviews!Linked /\ g \in 1..(f - 1 - 1)
    BY <1>1, <1>4
  <2> QED
    BY <2>1 DEF TurnInv
<1>6. ASSUME f > 1 PROVE Reviews!Latest = link[f - 1] /\ Reviews!Latest # 0 /\ Reviews!Latest \in 1..Len(projects)
  <2>0. f \in Int /\ f - 1 \in 1..(f - 1)
    <3>1. f \in Int
      BY <1>1
    <3> QED
      BY <1>6, <3>1
  <2>1. f - 1 \in Reviews!Linked /\ Reviews!Linked # {}
    BY <1>4, <2>0, Zenon
  <2>2. PICK m \in Reviews!Linked : (\A g \in Reviews!Linked : g <= m) /\ Reviews!Latest = link[m]
                                    /\ link[m] \in 1..Len(projects)
    BY <2>1, LatestIs
  <2>3. m = f - 1
    <3>1. m \in 1..(f - 1) /\ f - 1 <= m
      BY <1>4, <2>1, <2>2, Zenon
    <3> QED
      BY <2>0, <3>1
  <2> QED
    BY <2>2, <2>3
<1> QED
  BY <1>1, <1>4, <1>5, <1>6

LEMMA AdvanceTurn ==
  ASSUME RefsInv, ~crowded => TurnInv, NEW h \in Requests, ~crowded', Reviews!CheckAdvance(h)
  PROVE  TurnInv'
<1>1. PICK f \in DOMAIN link \ Reviews!Linked : \E j :
        /\ \A g \in DOMAIN link \ Reviews!Linked : f <= g
        /\ Reviews!Arrive(h, j) /\ Step(h, j)
        /\ j = [at |-> "insert_project", on |-> 0, file |-> f, answers |-> FALSE]
        /\ projects' = projects \/ \E p \in 1..Len(projects) : Touched(p)
        /\ Reviews!Latest # 0 /\ Reviews!Latest \in 1..Len(projects) => projects'[Reviews!Latest].finished
  BY AdvanceDoes
<1>2. PICK j :
        /\ \A g \in DOMAIN link \ Reviews!Linked : f <= g
        /\ Reviews!Arrive(h, j) /\ Step(h, j)
        /\ j = [at |-> "insert_project", on |-> 0, file |-> f, answers |-> FALSE]
        /\ Reviews!Latest # 0 /\ Reviews!Latest \in 1..Len(projects) => projects'[Reviews!Latest].finished
  BY <1>1, Zenon
<1>3. TurnInv
  BY <1>2, AloneArrives
<1>4. /\ f \in 1..Files /\ Reviews!Linked = 1..(f - 1)
      /\ \A g \in 1..(f - 2) : projects[link[g]].finished
      /\ f > 1 => Reviews!Latest = link[f - 1] /\ Reviews!Latest # 0 /\ Reviews!Latest \in 1..Len(projects)
  BY <1>2, <1>3, NextInLine
<1>5. UNCHANGED <<review, link, meetings>> /\ review.status = "approved"
  BY DEF Reviews!CheckAdvance
<1>6. RowsGrow
  BY <1>2 DEF Step
<1>7. j.at = "insert_project" /\ j.file = f /\ ~j.answers
  BY <1>2
<1>8. Reviews!Linked' = 1..(f - 1)
  BY <1>4, <1>5 DEF Reviews!Linked
<1>9. ASSUME NEW g \in 1..(f - 1) PROVE projects'[link'[g]].finished
  <2>1. CASE g = f - 1
    BY <1>2, <1>4, <1>5, <2>1
  <2>2. CASE g # f - 1
    <3>1. g \in 1..(f - 2) /\ g \in Reviews!Linked
      BY <1>4, <2>2
    <3>2. link[g] \in 1..Len(projects) /\ projects[link[g]].finished
      BY <1>4, <3>1 DEF RefsInv, ReviewRefs, QueuedOK
    <3> QED
      BY <1>5, <1>6, <3>2 DEF RowsGrow
  <2> QED
    BY <2>1, <2>2
<1>10. TurnOK(j)'
  BY <1>4, <1>5, <1>7, <1>8, <1>9 DEF TurnOK, QueueJobs
<1> QED
  BY <1>2, <1>3, <1>5, <1>6, <1>10, ArriveTurn

\* A request on the review goes on, and the review and its queue stay as they are.
LEMMA GoOnTurn ==
  ASSUME RefsInv, TurnInv, NEW h \in Requests, job[h].at \in ReviewJobs, NEW j, Step(h, j),
         j = Reviews!Idle \/ j.on = 0, TurnOK(j)', UNCHANGED <<review, link>>,
         review.appointment # 0 =>
             meetings'[review.appointment].documents = meetings[review.appointment].documents
  PROVE  TurnInv'
<1>1. job' = [job EXCEPT ![h] = j] /\ RowsGrow
  BY DEF Step
<1>2. OneEach' /\ \A g \in Requests : TurnOK(job[g])'
  BY <1>1, TurnAlone, Zenon
<1> QED
  BY <1>1, <1>2, TurnKept

LEMMA QueueTurn ==
  ASSUME RefsInv, RowsGrow, UNCHANGED <<review, link>>, NEW k, RefsOK(k), TurnOK(k),
         k.at \in {"insert_project", "open", "sign_up"},
         NEW j, j.at \in {"open", "sign_up", "link"}, j.file = k.file, j.answers = k.answers
  PROVE  TurnOK(j)'
<1>1. Reviews!Linked' = Reviews!Linked
  BY DEF Reviews!Linked
<1>2. \A g \in Reviews!Linked : projects[link[g]].finished => projects'[link[g]].finished
  BY DEF RefsInv, ReviewRefs, QueuedOK, RowsGrow
<1>3. /\ \A g \in Reviews!Linked' : g <= j.file
      /\ \A g \in 1..(j.file - 1) : g \in Reviews!Linked' /\ projects'[link'[g]].finished
  BY <1>1, <1>2 DEF TurnOK
<1>4. IF j.answers THEN review'.status = "pending" /\ j.file = 1 ELSE review'.status = "approved"
  <2>1. IF k.answers THEN review.status = "pending" /\ k.file = 1 ELSE review.status = "approved"
    BY DEF TurnOK, QueueJobs
  <2> QED
    BY <2>1, Zenon
<1> QED
  BY <1>3, <1>4 DEF TurnOK, QueueJobs

LEMMA MakeTurn ==
  ASSUME RefsInv, TurnInv, NEW h \in Requests,
         \/ Reviews!BookMeeting(h) \/ Reviews!AttachDocuments(h) \/ Reviews!InsertProject(h)
         \/ Reviews!OpenProject(h) \/ Reviews!RegisterSigner(h)
  PROVE  TurnInv'
<1>1. PICK k : k = job[h]
  OBVIOUS
<1>2. RefsOK(k) /\ TurnOK(k) /\ k \in Reviews!Jobs
  BY <1>1 DEF RefsInv, ReviewRefs, ReviewData, TurnInv
<1>3. review.appointment # 0 => review.appointment \in 1..Len(meetings)
  BY DEF RefsInv, ReviewRefs
<1>4. CASE Reviews!BookMeeting(h)
  <2>1. k.at = "book" /\ UNCHANGED <<review, link>>
    BY <1>1, <1>4 DEF Reviews!BookMeeting
  <2>2. PICK j : /\ Step(h, j)
                 /\ j.at = "attach" /\ j.on = 0 /\ j.files = k.files /\ j.session = Len(meetings) + 1
    BY <1>1, <1>4, BookDoes
  <2>3. \A s \in 1..Len(meetings) : meetings'[s] = meetings[s]
    BY <1>1, <1>4, BookDoes
  <2>4. TurnOK(j)'
    BY <1>2, <2>1, <2>2 DEF TurnOK, QueueJobs
  <2> QED
    BY <1>1, <1>3, <2>1, <2>2, <2>3, <2>4, GoOnTurn DEF ReviewJobs
<1>5. CASE Reviews!AttachDocuments(h)
  <2>1. k.at = "attach" /\ UNCHANGED <<review, link>>
    BY <1>1, <1>5 DEF Reviews!AttachDocuments
  <2>2. PICK j : Step(h, j) /\ j.at = "approve_meeting" /\ j.on = 0 /\ j.session = k.session
    BY <1>1, <1>5, AttachDoes
  <2>3. meetings'[k.session].documents = k.files
    BY <1>1, <1>5, AttachDoes
  <2>4. review.status = "pending" /\ k.files = Len(link) /\ review.appointment = 0
    BY <1>2, <2>1 DEF TurnOK, TurnInv
  <2>5. TurnOK(j)'
    BY <2>1, <2>2, <2>3, <2>4 DEF TurnOK, QueueJobs
  <2> QED
    BY <1>1, <2>1, <2>2, <2>4, <2>5, GoOnTurn DEF ReviewJobs
<1>6. CASE Reviews!InsertProject(h) \/ Reviews!OpenProject(h) \/ Reviews!RegisterSigner(h)
  <2>1. k.at \in {"insert_project", "open", "sign_up"} /\ UNCHANGED <<review, link, meetings>>
    BY <1>1, <1>6 DEF Reviews!InsertProject, Reviews!OpenProject, Reviews!RegisterSigner
  <2>2. PICK j : /\ Step(h, j)
                 /\ j.at \in {"open", "sign_up", "link"} /\ j.on = 0 /\ j.file = k.file /\ j.answers = k.answers
    <3>1. CASE Reviews!InsertProject(h)
      BY <1>1, <3>1, InsertProjectDoes
    <3>2. CASE Reviews!OpenProject(h)
      BY <1>1, <3>2, OpenDoes DEF SameQueue
    <3>3. CASE Reviews!RegisterSigner(h)
      BY <1>1, <3>3, SignUpDoes DEF SameQueue
    <3> QED
      BY <1>6, <3>1, <3>2, <3>3
  <2>3. TurnOK(j)'
    BY <1>2, <2>1, <2>2, QueueTurn DEF Step
  <2> QED
    BY <1>1, <2>1, <2>2, <2>3, GoOnTurn DEF ReviewJobs, QueueJobs
<1> QED
  BY <1>4, <1>5, <1>6

\* A request on a project goes on, beside the one on the review.
LEMMA SessionTurn ==
  ASSUME RefsInv, TurnInv, NEW h \in Requests,
         \/ Reviews!StartSession(h) \/ Reviews!InsertDocument(h) \/ Reviews!BindSession(h) \/ Reviews!Abort(h)
  PROVE  TurnInv'
<1>1. PICK k : k = job[h]
  OBVIOUS
<1>2. RefsOK(k) /\ k \in Reviews!Jobs
  BY <1>1 DEF RefsInv, ReviewRefs, ReviewData
<1>3. OneEach
  BY DEF OneEach, TurnInv
<1>4. ASSUME NEW j, Step(h, j), UNCHANGED <<review, link>>, j.at \notin ReviewJobs,
             j = Reviews!Idle \/ (Reviews!Busy(h) /\ j.on = k.on),
             \A s \in 1..Len(meetings) :
                 meetings[s].project = 0 => meetings'[s].documents = meetings[s].documents
      PROVE  TurnInv'
  <2>1. job' = [job EXCEPT ![h] = j] /\ RowsGrow
    BY <1>4 DEF Step
  <2>2. OneEach'
    BY <1>1, <1>3, <1>4, <2>1, OneEachStays, Zenon
  <2>3. review.appointment # 0 =>
          meetings'[review.appointment].documents = meetings[review.appointment].documents
    BY <1>4 DEF RefsInv, ReviewRefs
  <2>4. ASSUME NEW g \in Requests
        PROVE  \/ TurnOK(job[g])'
               \/ /\ job'[g] = job[g]
                  /\ job[g].at = "approve_meeting" =>
                        meetings'[job[g].session].documents = meetings[job[g].session].documents
    <3>1. CASE g = h
      <4>1. job'[g] = j
        BY <2>1, <3>1 DEF RefsInv, ReviewData
      <4> QED
        BY <1>4, <4>1 DEF TurnOK, ReviewJobs, QueueJobs
    <3>2. CASE g # h
      <4>1. job'[g] = job[g]
        BY <2>1, <3>2 DEF RefsInv, ReviewData
      <4>2. job[g].at = "approve_meeting" =>
              job[g].session \in 1..Len(meetings) /\ meetings[job[g].session].project = 0
        BY DEF RefsInv, ReviewRefs, RefsOK
      <4> QED
        BY <1>4, <4>1, <4>2
    <3> QED
      BY <3>1, <3>2
  <2> QED
    BY <1>4, <2>1, <2>2, <2>3, <2>4, TurnKept
<1>5. CASE Reviews!StartSession(h)
  <2>1. PICK j : Step(h, j) /\ j.at = "document" /\ j.on = k.on
    BY <1>1, <1>5, StartDoes
  <2>2. \A s \in 1..Len(meetings) : meetings'[s] = meetings[s]
    BY <1>1, <1>5, StartDoes
  <2>3. k.at = "start" /\ UNCHANGED <<review, link>>
    BY <1>1, <1>5 DEF Reviews!StartSession
  <2>4. Reviews!Busy(h)
    BY <1>1, <2>3 DEF Reviews!Busy, Reviews!Idle
  <2> QED
    BY <1>4, <2>1, <2>2, <2>3, <2>4 DEF ReviewJobs, QueueJobs
<1>6. CASE Reviews!InsertDocument(h)
  <2>1. PICK j : Step(h, j) /\ j.at = "bind" /\ j.on = k.on
    BY <1>1, <1>6, DocumentDoes
  <2>2. k.at = "document" /\ UNCHANGED <<review, link>>
    BY <1>1, <1>6 DEF Reviews!InsertDocument
  <2>3. /\ k.session \in 1..Len(meetings) /\ meetings[k.session].project = k.on
        /\ \A s \in 1..Len(meetings) : s # k.session => meetings'[s] = meetings[s]
    BY <1>1, <1>6, DocumentDoes
  <2>4. k.on # 0
    BY <1>2, <2>2, ReviewJobIs DEF SessionJobs
  <2>5. Reviews!Busy(h)
    BY <1>1, <2>2 DEF Reviews!Busy, Reviews!Idle
  <2>6. \A s \in 1..Len(meetings) : meetings[s].project = 0 => meetings'[s].documents = meetings[s].documents
    BY <2>3, <2>4
  <2> QED
    BY <1>4, <2>1, <2>2, <2>5, <2>6 DEF ReviewJobs, QueueJobs
<1>7. Reviews!Idle.at \notin ReviewJobs
  BY DEF Reviews!Idle, ReviewJobs, QueueJobs
<1>8. CASE Reviews!BindSession(h)
  <2>1. Step(h, Reviews!Idle) /\ UNCHANGED <<review, link, meetings>>
    BY <1>1, <1>8, BindDoes DEF Reviews!BindSession
  <2>2. \A s \in 1..Len(meetings) : meetings[s].project = 0 => meetings'[s].documents = meetings[s].documents
    BY <2>1
  <2> QED
    BY <1>4, <1>7, <2>1, <2>2, Zenon
<1>9. CASE Reviews!Abort(h)
  <2>1. job' = [job EXCEPT ![h] = Reviews!Idle] /\ UNCHANGED <<review, link, projects, meetings>>
    BY <1>9, Zenon DEF Reviews!Abort, Reviews!rows
  <2>2. Step(h, Reviews!Idle)
    BY <2>1, ArriveDoes, Arrivals
  <2>3. \A s \in 1..Len(meetings) : meetings[s].project = 0 => meetings'[s].documents = meetings[s].documents
    BY <2>1
  <2> QED
    BY <1>4, <1>7, <2>1, <2>2, <2>3, Zenon
<1> QED
  BY <1>5, <1>6, <1>8, <1>9

\* The answers, and the document that enters the queue.
LEMMA AnswerTurn ==
  ASSUME RefsInv, TurnInv, NEW h \in Requests,
         \/ Reviews!InsertReview(h) \/ Reviews!InsertFiles(h) \/ Reviews!WriteDecision(h)
         \/ Reviews!ApproveMeeting(h) \/ Reviews!ApproveQuicksign(h) \/ Reviews!ActivateProject(h)
  PROVE  TurnInv'
<1>1. PICK k : k = job[h]
  OBVIOUS
<1>2. RefsOK(k) /\ TurnOK(k) /\ k \in Reviews!Jobs
  BY <1>1 DEF RefsInv, ReviewRefs, ReviewData, TurnInv
<1>3. ASSUME NEW j, Step(h, j), k.at \in ReviewJobs, j = Reviews!Idle \/ j.on = 0, TurnOK(j)',
             UNCHANGED <<link, projects, meetings>>,
             review'.status \in {"absent", "pending"} => Reviews!Linked \subseteq {1} /\ review'.appointment = 0,
             review'.appointment # 0 => meetings[review'.appointment].documents = Len(link)
      PROVE  TurnInv'
  <2>1. OneEach' /\ \A g \in Requests : TurnOK(job[g])'
    BY <1>1, <1>3, TurnAlone, Zenon DEF Step
  <2>2. Reviews!Linked' = Reviews!Linked
    BY <1>3 DEF Reviews!Linked
  <2>3. \A f \in Reviews!Linked' : \A g \in 1..(f - 1) : g \in Reviews!Linked' /\ projects'[link'[g]].finished
    BY <1>3, <2>2 DEF TurnInv
  <2> QED
    BY <1>3, <2>1, <2>2, <2>3 DEF TurnInv, OneEach
<1>4. TurnOK(Reviews!Idle)'
  BY DEF TurnOK, Reviews!Idle, QueueJobs
<1> USE DEF ReviewJobs, QueueJobs
<1>5. CASE Reviews!InsertReview(h)
  <2>1. /\ Step(h, [at |-> "insert_files", on |-> 0])
        /\ review' = [status |-> "pending", path |-> review.path, appointment |-> review.appointment,
                      active |-> review.active]
    BY <1>5, InsertReviewDoes
  <2>2. k.at = "insert_review" /\ UNCHANGED <<link, projects, meetings>> /\ review.status = "absent"
    BY <1>1, <1>5 DEF Reviews!InsertReview
  <2>3. review'.status = "pending" /\ review'.appointment = review.appointment
    BY <2>1
  <2>4. TurnOK([at |-> "insert_files", on |-> 0])'
    BY <2>3 DEF TurnOK
  <2>5. /\ Reviews!Linked \subseteq {1} /\ review'.appointment = 0
        /\ [at |-> "insert_files", on |-> 0].on = 0
    BY <2>2, <2>3 DEF TurnInv
  <2> QED
    BY <1>3, <2>1, <2>2, <2>4, <2>5
<1>6. CASE Reviews!InsertFiles(h)
  <2>1. Step(h, Reviews!Idle) /\ Reviews!Linked' = {}
    BY <1>6, InsertFilesDoes
  <2>2. k.at = "insert_files" /\ UNCHANGED <<review, projects, meetings>>
    BY <1>1, <1>6 DEF Reviews!InsertFiles
  <2>3. OneEach' /\ \A g \in Requests : TurnOK(job[g])'
    BY <1>1, <1>4, <2>1, <2>2, TurnAlone, Zenon DEF Step
  <2>4. review.appointment = 0
    BY <1>2, <2>2 DEF TurnOK, TurnInv
  <2> QED
    BY <2>1, <2>2, <2>3, <2>4 DEF TurnInv, OneEach
<1>7. CASE Reviews!WriteDecision(h)
  <2>1. /\ Step(h, Reviews!Idle)
        /\ k.status \in {"rejected", "cancelled"}
        /\ review' = [status |-> k.status, path |-> review.path, appointment |-> review.appointment,
                      active |-> review.active]
    BY <1>1, <1>7, WriteDecisionDoes
  <2>2. k.at = "decide" /\ UNCHANGED <<link, projects, meetings>>
    BY <1>1, <1>7 DEF Reviews!WriteDecision
  <2>3. review'.status \in {"rejected", "cancelled"} /\ review'.appointment = review.appointment
    BY <2>1
  <2>4. review.appointment = 0
    BY <1>2, <2>2 DEF TurnOK, TurnInv
  <2> QED
    BY <1>3, <1>4, <2>1, <2>2, <2>3, <2>4
<1>8. CASE Reviews!ApproveMeeting(h)
  <2>1. /\ Step(h, Reviews!Idle)
        /\ k.session \in 1..Len(meetings)
        /\ review' = [status |-> "approved", path |-> "meeting", appointment |-> k.session, active |-> 0]
    BY <1>1, <1>8, ApproveMeetingDoes
  <2>2. k.at = "approve_meeting" /\ UNCHANGED <<link, projects, meetings>>
    BY <1>1, <1>8 DEF Reviews!ApproveMeeting
  <2>3. review'.status = "approved" /\ review'.appointment = k.session
    BY <2>1
  <2>4. meetings[k.session].documents = Len(link)
    BY <1>2, <2>2 DEF TurnOK
  <2> QED
    BY <1>3, <1>4, <2>1, <2>2, <2>3, <2>4
<1>9. CASE Reviews!ApproveQuicksign(h)
  <2>1. /\ Step(h, Reviews!Idle)
        /\ review' = [status |-> "approved", path |-> "quicksign", appointment |-> 0, active |-> k.project]
    BY <1>1, <1>9, ApproveQuicksignDoes
  <2>2. k.at = "approve_quicksign" /\ UNCHANGED <<link, projects, meetings>>
    BY <1>1, <1>9 DEF Reviews!ApproveQuicksign
  <2>3. review'.status = "approved" /\ review'.appointment = 0
    BY <2>1
  <2> QED
    BY <1>3, <1>4, <2>1, <2>2, <2>3
<1>10. CASE Reviews!ActivateProject(h)
  <2>1. PICK j : /\ Step(h, j)
                 /\ IF k.answers
                      THEN j.at = "approve_quicksign" /\ j.on = 0 /\ j.file = k.file /\ j.answers
                           /\ j.project = k.project
                      ELSE j = Reviews!Idle
    BY <1>1, <1>10, ActivateDoes
  <2>2. review' = [status |-> review.status, path |-> review.path, appointment |-> review.appointment,
                   active |-> k.project]
    BY <1>1, <1>10, ActivateDoes
  <2>3. k.at = "activate" /\ UNCHANGED <<link, projects, meetings>>
    BY <1>1, <1>10 DEF Reviews!ActivateProject
  <2>4. review'.status = review.status /\ review'.appointment = review.appointment
    BY <2>2
  <2>5. IF k.answers THEN review.status = "pending" /\ k.file = 1 ELSE review.status = "approved"
    BY <1>2, <2>3 DEF TurnOK
  <2>6. TurnOK(j)'
    <3>1. CASE k.answers
      <4>1. j.at = "approve_quicksign" /\ j.file = k.file /\ j.answers
        BY <2>1, <3>1, Zenon
      <4>2. review'.status = "pending" /\ k.file = 1
        BY <2>4, <2>5, <3>1, Zenon
      <4> QED
        BY <4>1, <4>2 DEF TurnOK
    <3>2. CASE ~k.answers
      BY <1>4, <2>1, <3>2, Zenon DEF TurnOK
    <3> QED
      BY <3>1, <3>2
  <2>7. j = Reviews!Idle \/ j.on = 0
    BY <2>1, Zenon
  <2>8. /\ review'.status \in {"absent", "pending"} => Reviews!Linked \subseteq {1} /\ review'.appointment = 0
        /\ review'.appointment # 0 => meetings[review'.appointment].documents = Len(link)
    BY <2>4, Zenon DEF TurnInv
  <2> QED
    BY <1>3, <2>1, <2>3, <2>6, <2>7, <2>8
<1> QED
  BY <1>5, <1>6, <1>7, <1>8, <1>9, <1>10

LEMMA LinkTurn ==
  ASSUME RefsInv, TurnInv, NEW h \in Requests, Reviews!LinkProject(h)
  PROVE  TurnInv'
<1>1. PICK k : k = job[h]
  OBVIOUS
<1>2. RefsOK(k) /\ TurnOK(k) /\ k \in Reviews!Jobs
  BY <1>1 DEF RefsInv, ReviewRefs, ReviewData, TurnInv
<1>3. k.at = "link" /\ UNCHANGED <<review, projects, meetings>>
  BY <1>1 DEF Reviews!LinkProject
<1>4. PICK j : Step(h, j) /\ j.at = "activate" /\ SameQueue(j, k)
  BY <1>1, LinkDoes
<1>5. /\ k.file \in DOMAIN link /\ k.file \in 1..Files
      /\ Reviews!Linked' = Reviews!Linked \cup {k.file}
      /\ Len(link') = Len(link)
      /\ \A f \in DOMAIN link : f # k.file => link'[f] = link[f]
  BY <1>1, LinkDoes
<1>6. /\ IF k.answers THEN review.status = "pending" /\ k.file = 1 ELSE review.status = "approved"
      /\ \A g \in Reviews!Linked : g <= k.file
      /\ \A g \in 1..(k.file - 1) : g \in Reviews!Linked /\ projects[link[g]].finished
  BY <1>2, <1>3 DEF TurnOK, QueueJobs
<1>7. Reviews!Linked \subseteq 1..Files /\ Reviews!Linked \subseteq DOMAIN link /\ Files \in Nat
  BY LinkShape DEF RefsInv, Reviews!Linked, ServicesAssumption
<1>8. TurnOK(j)'
  <2>1. j.file = k.file /\ j.answers = k.answers
    BY <1>4 DEF SameQueue
  <2>2. IF j.answers THEN review'.status = "pending" /\ j.file = 1 ELSE review'.status = "approved"
    BY <1>3, <1>6, <2>1, Zenon
  <2> QED
    BY <1>4, <2>2 DEF TurnOK, QueueJobs
<1>9. OneEach' /\ \A g \in Requests : TurnOK(job[g])'
  <2>1. job[h].at \in ReviewJobs
    BY <1>1, <1>3 DEF ReviewJobs, QueueJobs
  <2> QED
    BY <1>4, <1>8, <2>1, TurnAlone, Zenon DEF Step, SameQueue
<1>10. ASSUME NEW f \in Reviews!Linked', NEW g \in 1..(f - 1)
       PROVE  g \in Reviews!Linked' /\ projects'[link'[g]].finished
  <2>1. f \in 1..Files /\ f <= k.file
    BY <1>5, <1>6, <1>7
  <2>2. g \in 1..(k.file - 1) /\ g # k.file
    BY <1>5, <1>7, <2>1
  <2>3. g \in Reviews!Linked /\ projects[link[g]].finished
    BY <1>6, <2>2
  <2> QED
    BY <1>3, <1>5, <1>7, <2>2, <2>3
<1>11. review'.status \in {"absent", "pending"} => Reviews!Linked' \subseteq {1} /\ review'.appointment = 0
  <2>1. review.status \in {"absent", "pending"} => k.file = 1
    BY <1>6
  <2> QED
    BY <1>3, <1>5, <2>1 DEF TurnInv
<1>12. review'.appointment # 0 => meetings'[review'.appointment].documents = Len(link')
  BY <1>3, <1>5 DEF TurnInv
<1> QED
  BY <1>9, <1>10, <1>11, <1>12 DEF TurnInv, OneEach

LEMMA NextTurn ==
  ASSUME RefsInv, ~crowded => TurnInv, Reviews!Next \/ UNCHANGED Reviews!vars
  PROVE  ~crowded' => TurnInv'
<1> SUFFICES ASSUME ~crowded' PROVE TurnInv'
  OBVIOUS
<1>1. ASSUME NEW h \in Requests,
             \/ Reviews!CheckCreate(h) \/ Reviews!CheckApproveMeeting(h) \/ Reviews!CheckApproveQuicksign(h)
             \/ \E s \in {"rejected", "cancelled"} : Reviews!CheckDecide(h, s)
             \/ \E p \in Reviews!ProjectIds : Reviews!CheckFinalize(h, p)
      PROVE  TurnInv'
  BY <1>1, CheckTurn
<1>2. ASSUME NEW h \in Requests, Reviews!CheckAdvance(h) PROVE TurnInv'
  BY <1>2, AdvanceTurn
<1>3. ASSUME NEW h \in Requests,
             \/ Reviews!InsertReview(h) \/ Reviews!InsertFiles(h) \/ Reviews!WriteDecision(h)
             \/ Reviews!BookMeeting(h) \/ Reviews!AttachDocuments(h) \/ Reviews!ApproveMeeting(h)
             \/ Reviews!InsertProject(h) \/ Reviews!OpenProject(h) \/ Reviews!RegisterSigner(h)
             \/ Reviews!LinkProject(h) \/ Reviews!ActivateProject(h) \/ Reviews!ApproveQuicksign(h)
             \/ Reviews!StartSession(h) \/ Reviews!InsertDocument(h) \/ Reviews!BindSession(h) \/ Reviews!Abort(h)
      PROVE  TurnInv'
  <2>1. UNCHANGED crowded
    BY <1>3, Zenon DEF Reviews!InsertReview, Reviews!InsertFiles, Reviews!WriteDecision, Reviews!BookMeeting,
       Reviews!AttachDocuments, Reviews!ApproveMeeting, Reviews!InsertProject, Reviews!OpenProject,
       Reviews!RegisterSigner, Reviews!LinkProject, Reviews!ActivateProject, Reviews!ApproveQuicksign,
       Reviews!StartSession, Reviews!InsertDocument, Reviews!BindSession, Reviews!Abort, Reviews!Goto
  <2>2. TurnInv
    BY <2>1
  <2> QED
    BY <1>3, <2>2, MakeTurn, SessionTurn, AnswerTurn, LinkTurn, Zenon
<1>4. CASE UNCHANGED Reviews!vars
  <2>1. UNCHANGED <<review, link, projects, meetings, job, crowded>>
    BY <1>4 DEF Reviews!vars
  <2> QED
    BY <2>1 DEF TurnInv, TurnOK, Reviews!Linked, Reviews!Busy, Reviews!Idle
<1>5. ASSUME NEW p \in Reviews!ProjectIds, Touching(p) PROVE TurnInv'
  <2>1. RowsGrow /\ UNCHANGED <<review, link, meetings, job, crowded>>
    BY <1>5, TouchingDoes
  <2>2. TurnInv
    BY <2>1
  <2>3. OneEach'
    BY <2>1, <2>2 DEF TurnInv, OneEach, Reviews!Busy, Reviews!Idle
  <2> QED
    BY <2>1, <2>2, <2>3, TurnKept
<1> QED
  BY <1>1, <1>2, <1>3, <1>4, <1>5, Zenon DEF Reviews!Next, Touching

-----------------------------------------------------------------------------
(* What is made: while, besides, no request stops halfway *)

\* The meetings of the review are the appointments of no project.
LEMMA MeetingsAre == Reviews!Meetings = Reviews!SessionsOf(0)
  BY DEF Reviews!Meetings, Reviews!SessionsOf

LEMMA SessionsSame ==
  ASSUME RefsInv, RefsInv', Len(meetings') = Len(meetings),
         \A s \in 1..Len(meetings) : meetings'[s].project = meetings[s].project
  PROVE  \A p : Reviews!SessionsOf(p)' = Reviews!SessionsOf(p)
<1>1. DOMAIN meetings = 1..Len(meetings) /\ DOMAIN meetings' = 1..Len(meetings)
  BY DEF RefsInv, ReviewData, ReviewTables
<1> QED
  BY <1>1 DEF Reviews!SessionsOf, Reviews!SessionIds

LEMMA SessionsMore ==
  ASSUME RefsInv, RefsInv', Len(meetings') = Len(meetings) + 1,
         \A s \in 1..Len(meetings) : meetings'[s] = meetings[s]
  PROVE  /\ \A p : p # meetings'[Len(meetings) + 1].project => Reviews!SessionsOf(p)' = Reviews!SessionsOf(p)
         /\ \A p : p = meetings'[Len(meetings) + 1].project =>
               Reviews!SessionsOf(p)' = Reviews!SessionsOf(p) \cup {Len(meetings) + 1}
<1>1. /\ DOMAIN meetings = 1..Len(meetings) /\ DOMAIN meetings' = 1..(Len(meetings) + 1)
      /\ Len(meetings) \in Nat
  BY DEF RefsInv, ReviewData, ReviewTables
<1>2. 1..(Len(meetings) + 1) = 1..Len(meetings) \cup {Len(meetings) + 1}
  BY <1>1
<1> QED
  BY <1>1, <1>2 DEF Reviews!SessionsOf, Reviews!SessionIds

\* No appointment names a project before it is there.
LEMMA SessionsNone ==
  ASSUME RefsInv, NEW p \in Nat, p > Len(projects)
  PROVE  Reviews!SessionsOf(p) = {}
<1>1. DOMAIN meetings = 1..Len(meetings) /\ Len(projects) \in Nat
  BY DEF RefsInv, ReviewData, ReviewTables
<1>2. \A s \in 1..Len(meetings) : meetings[s].project <= Len(projects)
  BY DEF RefsInv, ReviewRefs
<1> QED
  BY <1>1, <1>2 DEF Reviews!SessionsOf, Reviews!SessionIds

LEMMA LatestNone ==
  ASSUME RefsInv
  PROVE  /\ Reviews!Linked = {} => Reviews!Latest = 0
         /\ Reviews!Latest = 0 => Reviews!Linked = {}
<1>1. Reviews!Linked = {} => Reviews!Latest = 0
  BY DEF Reviews!Latest
<1>2. Reviews!Linked # {} => Reviews!Latest # 0
  <2> SUFFICES ASSUME Reviews!Linked # {} PROVE Reviews!Latest # 0
    OBVIOUS
  <2>1. Reviews!Latest \in 1..Len(projects)
    BY LatestIs
  <2>2. Len(projects) \in Nat
    BY DEF RefsInv, ReviewData, ReviewTables
  <2> QED
    BY <2>1, <2>2
<1> QED
  BY <1>1, <1>2

\* A review that is settled and not approved has nothing.
LEMMA NothingMade ==
  ASSUME RefsInv, Settled, review.status # "approved"
  PROVE  /\ review.path = "none" /\ review.appointment = 0 /\ review.active = 0
         /\ Reviews!Linked = {} /\ Len(projects) = 0 /\ Reviews!Meetings = {}
<1>1. review.path = "none" /\ review.appointment = 0 /\ review.active = 0
  BY DEF Settled
<1>2. Reviews!Linked = {}
  BY <1>1, LatestNone DEF Settled
<1>3. Len(projects) = 0
  <2>1. 1..Len(projects) = {} /\ Len(projects) \in Nat
    BY <1>2 DEF Settled, RefsInv, ReviewData, ReviewTables
  <2>2. Len(projects) # 0 => 1 \in 1..Len(projects)
    BY <2>1
  <2> QED
    BY <2>1, <2>2
<1> QED
  BY <1>1, <1>2, <1>3 DEF Settled

\* What the answers have made is the same.
SameMade == UNCHANGED <<review, link>> /\ Len(projects') = Len(projects) /\ Reviews!Meetings' = Reviews!Meetings

LEMMA MadeStays ==
  ASSUME SameMade, NEW k
  PROVE  /\ Settled' = Settled /\ Reviews!Linked' = Reviews!Linked /\ Reviews!Latest' = Reviews!Latest
         /\ MadeOK(k) => MadeOK(k)'
<1>1. Reviews!Linked' = Reviews!Linked
  BY DEF Reviews!Linked, SameMade
<1>2. Reviews!Latest' = Reviews!Latest
  BY <1>1 DEF Reviews!Latest, SameMade
<1>3. {link'[f] : f \in Reviews!Linked'} = {link[f] : f \in Reviews!Linked}
  BY <1>1 DEF SameMade
<1>4. Settled' = Settled
  BY <1>2, <1>3 DEF Settled, SameMade
<1>5. Unanswered' = Unanswered
  BY DEF Unanswered, SameMade
<1>6. MadeOK(k) => MadeOK(k)'
  BY <1>1, <1>2, <1>3, <1>4, <1>5 DEF MadeOK, SameMade
<1> QED
  BY <1>1, <1>2, <1>4, <1>6

\* A request on the review is the only one.
LEMMA MadeAlone ==
  ASSUME RefsInv, NEW h \in Requests, \A g \in Requests \ {h} : ~(Reviews!Busy(g) /\ job[g].on = 0),
         NEW j, job' = [job EXCEPT ![h] = j],
         MadeOK(j)', j = Reviews!Idle => Settled', j # Reviews!Idle => j.on = 0
  PROVE  ReviewMade'
<1>1. job'[h] = j /\ \A g \in Requests : g # h => job'[g] = job[g]
  BY DEF RefsInv, ReviewData
<1>2. Reviews!Quiet(0)' => Settled'
  BY <1>1 DEF Reviews!Quiet, Reviews!Busy
<1>3. ASSUME NEW g \in Requests PROVE MadeOK(job[g])'
  <2>1. CASE g = h
    BY <1>1, <2>1, Zenon DEF MadeOK
  <2>2. CASE g # h
    <3>1. PICK k \in Reviews!Jobs : k = job[g]
      BY DEF RefsInv, ReviewData
    <3>2. k.at \notin ReviewJobs
      <4>1. k.at \in ReviewJobs => k.on = 0 /\ k # Reviews!Idle
        BY ReviewJobIs DEF ReviewJobs, QueueJobs
      <4> QED
        BY <2>2, <3>1, <4>1, Zenon DEF Reviews!Busy
    <3>3. job'[g] = k
      BY <1>1, <2>2, <3>1
    <3> QED
      BY <3>2, <3>3 DEF MadeOK, ReviewJobs, QueueJobs
  <2> QED
    BY <2>1, <2>2
<1> QED
  BY <1>2, <1>3 DEF ReviewMade

LEMMA AloneOn ==
  ASSUME RefsInv, TurnInv, NEW h \in Requests, job[h].at \in ReviewJobs
  PROVE  \A g \in Requests \ {h} : ~(Reviews!Busy(g) /\ job[g].on = 0)
<1>1. PICK k \in Reviews!Jobs : k = job[h]
  BY DEF RefsInv, ReviewData
<1>2. k.on = 0 /\ k # Reviews!Idle
  BY <1>1, ReviewJobIs DEF ReviewJobs, QueueJobs
<1> QED
  BY <1>1, <1>2, Zenon DEF TurnInv, Reviews!Busy

\* A request on a project leaves the review as it is.
LEMMA MadeBeside ==
  ASSUME RefsInv, ReviewMade, SameMade, NEW h \in Requests, NEW j, job' = [job EXCEPT ![h] = j],
         job[h] = Reviews!Idle \/ job[h].on # 0, j = Reviews!Idle \/ j.on # 0, j.at \notin ReviewJobs
  PROVE  ReviewMade'
<1>1. job'[h] = j /\ \A g \in Requests : g # h => job'[g] = job[g]
  BY DEF RefsInv, ReviewData
<1>2. Reviews!Quiet(0)' => Settled'
  <2>1. Reviews!Quiet(0)' => Reviews!Quiet(0)
    BY <1>1 DEF Reviews!Quiet, Reviews!Busy
  <2> QED
    BY <2>1, MadeStays DEF ReviewMade
<1>3. ASSUME NEW g \in Requests PROVE MadeOK(job[g])'
  <2>1. CASE g = h
    BY <1>1, <2>1 DEF MadeOK, ReviewJobs, QueueJobs
  <2>2. CASE g # h
    <3>1. PICK k : k = job[g]
      OBVIOUS
    <3>2. MadeOK(k)
      BY <3>1 DEF ReviewMade
    <3>3. MadeOK(k)'
      BY <3>2, MadeStays
    <3>4. job'[g] = k
      BY <1>1, <2>2, <3>1
    <3> QED
      BY <3>3, <3>4, Zenon DEF MadeOK
  <2> QED
    BY <2>1, <2>2
<1> QED
  BY <1>2, <1>3 DEF ReviewMade

LEMMA SettledDoes ==
  ASSUME Settled, UNCHANGED <<link, projects, meetings>>,
         review'.appointment = review.appointment, review'.active = review.active, review'.path = review.path,
         review'.status = "approved" <=> review.status = "approved"
  PROVE  Settled' /\ Reviews!Linked' = Reviews!Linked
<1>1. Reviews!Linked' = Reviews!Linked
  BY DEF Reviews!Linked
<1>2. Reviews!Latest' = Reviews!Latest
  BY <1>1 DEF Reviews!Latest
<1>3. {link'[f] : f \in Reviews!Linked'} = {link[f] : f \in Reviews!Linked}
  BY <1>1
<1>4. Reviews!Meetings' = Reviews!Meetings
  BY DEF Reviews!Meetings, Reviews!SessionIds
<1> QED
  BY <1>1, <1>2, <1>3, <1>4 DEF Settled

LEMMA ArriveMade ==
  ASSUME RefsInv, ReviewMade, NEW h \in Requests, NEW j, Reviews!Arrive(h, j), ~crowded', j.on = 0,
         SameMade, Settled => MadeOK(j), j # Reviews!Idle
  PROVE  ReviewMade'
<1>1. /\ job' = [job EXCEPT ![h] = j] /\ ~Reviews!Busy(h)
      /\ \A g \in Requests \ {h} : ~(Reviews!Busy(g) /\ job[g].on = 0)
  BY AloneArrives, Zenon
<1>2. Settled
  BY <1>1 DEF ReviewMade, Reviews!Quiet
<1>3. MadeOK(j)'
  BY <1>2, MadeStays
<1> QED
  BY <1>1, <1>3, MadeAlone

\* The reads of what is answered and of what is to be advanced.
LEMMA CheckMade ==
  ASSUME RefsInv, RefsInv', TurnInv, ReviewMade, NEW h \in Requests, ~crowded',
         \/ Reviews!CheckCreate(h) \/ Reviews!CheckApproveMeeting(h) \/ Reviews!CheckApproveQuicksign(h)
         \/ \E s \in {"rejected", "cancelled"} : Reviews!CheckDecide(h, s)
         \/ \E p \in Reviews!ProjectIds : Reviews!CheckFinalize(h, p)
  PROVE  ReviewMade'
<1>1. UNCHANGED <<review, link, projects, meetings>>
  BY Zenon DEF Reviews!rows, Reviews!CheckCreate, Reviews!CheckApproveMeeting, Reviews!CheckApproveQuicksign,
     Reviews!CheckDecide, Reviews!CheckFinalize
<1>2. SameMade
  BY <1>1 DEF SameMade, Reviews!Meetings, Reviews!SessionIds
<1> USE DEF QueueJobs
<1>3. CASE Reviews!CheckCreate(h)
  <2> DEFINE j == [at |-> "insert_review", on |-> 0]
  <2>1. Reviews!Arrive(h, j)
    BY <1>3, Zenon DEF Reviews!CheckCreate
  <2>2. j.on = 0 /\ j # Reviews!Idle /\ (Settled => MadeOK(j))
    BY DEF MadeOK, Reviews!Idle
  <2> QED
    BY <1>2, <2>1, <2>2, ArriveMade, Zenon
<1>4. CASE Reviews!CheckApproveMeeting(h)
  <2> DEFINE j == [at |-> "book", on |-> 0, files |-> Len(link)]
  <2>1. Reviews!Arrive(h, j)
    BY <1>4, Zenon DEF Reviews!CheckApproveMeeting
  <2>2. j.on = 0 /\ j # Reviews!Idle /\ (Settled => MadeOK(j))
    BY DEF MadeOK, Reviews!Idle
  <2> QED
    BY <1>2, <2>1, <2>2, ArriveMade, Zenon
<1>5. CASE Reviews!CheckApproveQuicksign(h)
  <2> DEFINE j == [at |-> "insert_project", on |-> 0, file |-> 1, answers |-> TRUE]
  <2>1. Reviews!Arrive(h, j) /\ review.status = "pending"
    BY <1>5, Zenon DEF Reviews!CheckApproveQuicksign
  <2>2. Settled => Reviews!Linked = {}
    BY <2>1, NothingMade
  <2>3. j.on = 0 /\ j # Reviews!Idle
    BY DEF Reviews!Idle
  <2>4. Settled => MadeOK(j)
    BY <2>2 DEF MadeOK
  <2> QED
    BY <1>2, <2>1, <2>3, <2>4, ArriveMade, Zenon
<1>6. ASSUME NEW s \in {"rejected", "cancelled"}, Reviews!CheckDecide(h, s) PROVE ReviewMade'
  <2> DEFINE j == [at |-> "decide", on |-> 0, status |-> s]
  <2>1. Reviews!Arrive(h, j)
    BY <1>6, Zenon DEF Reviews!CheckDecide
  <2>2. j.on = 0 /\ j # Reviews!Idle /\ (Settled => MadeOK(j))
    BY DEF MadeOK, Reviews!Idle
  <2> QED
    BY <1>2, <2>1, <2>2, ArriveMade, Zenon
<1>7. ASSUME NEW p \in Reviews!ProjectIds, Reviews!CheckFinalize(h, p) PROVE ReviewMade'
  <2> DEFINE j == [at |-> "start", on |-> p]
  <2>1. Reviews!Arrive(h, j)
    BY <1>7, Zenon DEF Reviews!CheckFinalize
  <2>2. p # 0
    BY DEF Reviews!ProjectIds, RefsInv, ReviewData, ReviewTables
  <2>3. j.on # 0 /\ j.at \notin ReviewJobs
    BY <2>2 DEF ReviewJobs
  <2>4. job' = [job EXCEPT ![h] = j] /\ job[h] = Reviews!Idle
    BY <2>1, AloneArrives, Zenon DEF Reviews!Busy
  <2> QED
    BY <1>2, <2>3, <2>4, MadeBeside
<1> QED
  BY <1>3, <1>4, <1>5, <1>6, <1>7, Zenon

LEMMA AdvanceMade ==
  ASSUME RefsInv, TurnInv, ReviewMade, NEW h \in Requests, ~crowded', Reviews!CheckAdvance(h)
  PROVE  ReviewMade'
<1>1. PICK f \in DOMAIN link \ Reviews!Linked : \E j :
        /\ \A g \in DOMAIN link \ Reviews!Linked : f <= g
        /\ Reviews!Arrive(h, j) /\ Step(h, j)
        /\ j = [at |-> "insert_project", on |-> 0, file |-> f, answers |-> FALSE]
        /\ projects' = projects \/ \E p \in 1..Len(projects) : Touched(p)
        /\ Reviews!Latest # 0 /\ Reviews!Latest \in 1..Len(projects) => projects'[Reviews!Latest].finished
  BY AdvanceDoes
<1>2. PICK j :
        /\ \A g \in DOMAIN link \ Reviews!Linked : f <= g
        /\ Reviews!Arrive(h, j)
        /\ j = [at |-> "insert_project", on |-> 0, file |-> f, answers |-> FALSE]
        /\ projects' = projects \/ \E p \in 1..Len(projects) : Touched(p)
  BY <1>1, Zenon
<1>3. f \in 1..Files /\ Reviews!Linked = 1..(f - 1)
  BY <1>2, NextInLine
<1>4. UNCHANGED <<review, link, meetings>> /\ review.path = "quicksign"
  BY DEF Reviews!CheckAdvance
<1>5. Len(projects') = Len(projects)
  BY <1>2 DEF Touched, ProjectsWritten
<1>6. SameMade
  BY <1>4, <1>5 DEF SameMade, Reviews!Meetings, Reviews!SessionIds
<1>7. j.at = "insert_project" /\ j.on = 0 /\ j.file = f /\ ~j.answers
  BY <1>2
<1>8. \A g \in Reviews!Linked : g < f
  BY <1>3
<1>9. Settled => MadeOK(j)
  BY <1>4, <1>7, <1>8 DEF MadeOK, QueueJobs
<1>10. j # Reviews!Idle
  BY <1>7 DEF Reviews!Idle
<1> QED
  BY <1>2, <1>6, <1>7, <1>9, <1>10, ArriveMade

\* The request, and the answers that make nothing.
LEMMA AnswerMade ==
  ASSUME RefsInv, TurnInv, ReviewMade, NEW h \in Requests,
         Reviews!InsertReview(h) \/ Reviews!InsertFiles(h) \/ Reviews!WriteDecision(h)
  PROVE  ReviewMade'
<1>1. PICK k : k = job[h]
  OBVIOUS
<1>2. RefsOK(k) /\ TurnOK(k) /\ MadeOK(k)
  BY <1>1 DEF RefsInv, ReviewRefs, TurnInv, ReviewMade
<1>3. MadeOK(Reviews!Idle)'
  BY DEF MadeOK, Reviews!Idle, QueueJobs
<1>4. CASE Reviews!InsertReview(h)
  <2> DEFINE j == [at |-> "insert_files", on |-> 0]
  <2>1. /\ Step(h, j)
        /\ review' = [status |-> "pending", path |-> review.path, appointment |-> review.appointment,
                      active |-> review.active]
    BY <1>4, InsertReviewDoes
  <2>2. k.at = "insert_review" /\ UNCHANGED <<link, projects, meetings>> /\ review.status = "absent"
    BY <1>1, <1>4 DEF Reviews!InsertReview
  <2>3. /\ review'.appointment = review.appointment /\ review'.active = review.active /\ review'.path = review.path
        /\ review'.status = "pending"
    BY <2>1
  <2>4. Settled'
    BY <1>2, <2>2, <2>3, SettledDoes DEF MadeOK
  <2>5. MadeOK(j)'
    BY <2>4 DEF MadeOK, QueueJobs
  <2>6. job' = [job EXCEPT ![h] = j] /\ j.on = 0 /\ j # Reviews!Idle
    BY <2>1 DEF Step, Reviews!Idle
  <2>7. \A g \in Requests \ {h} : ~(Reviews!Busy(g) /\ job[g].on = 0)
    BY <1>1, <2>2, AloneOn DEF ReviewJobs
  <2> QED
    BY <2>5, <2>6, <2>7, MadeAlone, Zenon
<1>5. CASE Reviews!InsertFiles(h)
  <2>1. Step(h, Reviews!Idle) /\ Reviews!Linked' = {}
    BY <1>5, InsertFilesDoes
  <2>2. k.at = "insert_files" /\ UNCHANGED <<review, projects, meetings>>
    BY <1>1, <1>5 DEF Reviews!InsertFiles
  <2>3. review.status = "pending" /\ Settled
    BY <1>2, <2>2 DEF MadeOK, TurnOK
  <2>4. /\ review.path = "none" /\ review.appointment = 0 /\ review.active = 0
        /\ Len(projects) = 0 /\ Reviews!Meetings = {}
    BY <2>3, NothingMade
  <2>5. Reviews!Latest' = 0
    BY <2>1 DEF Reviews!Latest
  <2>6. Reviews!Meetings' = {}
    BY <2>2, <2>4 DEF Reviews!Meetings, Reviews!SessionIds
  <2>7. Settled'
    BY <2>1, <2>2, <2>3, <2>4, <2>5, <2>6 DEF Settled
  <2>8. \A g \in Requests \ {h} : ~(Reviews!Busy(g) /\ job[g].on = 0)
    BY <1>1, <2>2, AloneOn DEF ReviewJobs
  <2> QED
    BY <1>3, <2>1, <2>7, <2>8, MadeAlone, Zenon DEF Step
<1>6. CASE Reviews!WriteDecision(h)
  <2>1. /\ Step(h, Reviews!Idle)
        /\ k.status \in {"rejected", "cancelled"}
        /\ review' = [status |-> k.status, path |-> review.path, appointment |-> review.appointment,
                      active |-> review.active]
    BY <1>1, <1>6, WriteDecisionDoes
  <2>2. k.at = "decide" /\ UNCHANGED <<link, projects, meetings>>
    BY <1>1, <1>6 DEF Reviews!WriteDecision
  <2>3. /\ review'.appointment = review.appointment /\ review'.active = review.active /\ review'.path = review.path
        /\ review'.status = k.status
    BY <2>1
  <2>4. review.status = "pending" /\ Settled
    BY <1>2, <2>2 DEF MadeOK, TurnOK
  <2>5. Settled'
    BY <2>1, <2>2, <2>3, <2>4, SettledDoes
  <2>6. \A g \in Requests \ {h} : ~(Reviews!Busy(g) /\ job[g].on = 0)
    BY <1>1, <2>2, AloneOn DEF ReviewJobs
  <2> QED
    BY <1>3, <2>1, <2>5, <2>6, MadeAlone, Zenon DEF Step
<1> QED
  BY <1>4, <1>5, <1>6

\* The meeting of an approval.
LEMMA MeetingMade ==
  ASSUME RefsInv, RefsInv', TurnInv, ReviewMade, NEW h \in Requests,
         Reviews!BookMeeting(h) \/ Reviews!AttachDocuments(h) \/ Reviews!ApproveMeeting(h)
  PROVE  ReviewMade'
<1>1. PICK k : k = job[h]
  OBVIOUS
<1>2. RefsOK(k) /\ TurnOK(k) /\ MadeOK(k)
  BY <1>1 DEF RefsInv, ReviewRefs, TurnInv, ReviewMade
<1>3. Reviews!Linked' = Reviews!Linked
  BY DEF Reviews!Linked, Reviews!BookMeeting, Reviews!AttachDocuments, Reviews!ApproveMeeting
<1>4. CASE Reviews!BookMeeting(h)
  <2>1. k.at = "book" /\ UNCHANGED <<review, link, projects>>
    BY <1>1, <1>4 DEF Reviews!BookMeeting
  <2>2. PICK j : Step(h, j) /\ j.at = "attach" /\ j.on = 0 /\ j.session = Len(meetings) + 1
    BY <1>1, <1>4, BookDoes
  <2>3. /\ Len(meetings') = Len(meetings) + 1 /\ meetings'[Len(meetings) + 1].project = 0
        /\ \A s \in 1..Len(meetings) : meetings'[s] = meetings[s]
    BY <1>1, <1>4, BookDoes
  <2>4. review.status = "pending" /\ Settled
    BY <1>2, <2>1 DEF MadeOK, TurnOK
  <2>5. /\ review.path = "none" /\ review.appointment = 0 /\ review.active = 0
        /\ Reviews!Linked = {} /\ Len(projects) = 0 /\ Reviews!Meetings = {}
    BY <2>4, NothingMade
  <2>6. Reviews!Meetings' = {Len(meetings) + 1}
    BY <2>3, <2>5, SessionsMore, MeetingsAre DEF Reviews!Meetings, Reviews!SessionsOf
  <2>7. Unanswered'
    BY <2>1, <2>4, <2>5 DEF Unanswered
  <2>8. MadeOK(j)'
    BY <1>3, <2>1, <2>2, <2>5, <2>6, <2>7 DEF MadeOK, QueueJobs
  <2>9. j # Reviews!Idle /\ job' = [job EXCEPT ![h] = j]
    BY <2>2 DEF Reviews!Idle, Step
  <2>10. \A g \in Requests \ {h} : ~(Reviews!Busy(g) /\ job[g].on = 0)
    BY <1>1, <2>1, AloneOn DEF ReviewJobs
  <2> QED
    BY <2>2, <2>8, <2>9, <2>10, MadeAlone, Zenon
<1>5. CASE Reviews!AttachDocuments(h)
  <2>1. k.at = "attach" /\ UNCHANGED <<review, link, projects>>
    BY <1>1, <1>5 DEF Reviews!AttachDocuments
  <2>2. PICK j : Step(h, j) /\ j.at = "approve_meeting" /\ j.on = 0 /\ j.session = k.session
    BY <1>1, <1>5, AttachDoes
  <2>3. /\ Len(meetings') = Len(meetings)
        /\ \A s \in 1..Len(meetings) : meetings'[s].project = meetings[s].project
    BY <1>1, <1>5, AttachDoes
  <2>4. Reviews!Meetings' = Reviews!Meetings
    BY <2>3, SessionsSame DEF Reviews!Meetings, Reviews!SessionsOf
  <2>5. Unanswered /\ Reviews!Linked = {} /\ Len(projects) = 0 /\ Reviews!Meetings = {k.session}
    BY <1>2, <2>1 DEF MadeOK
  <2>6. Unanswered'
    BY <2>1, <2>5 DEF Unanswered
  <2>7. MadeOK(j)'
    BY <1>3, <2>1, <2>2, <2>4, <2>5, <2>6 DEF MadeOK, QueueJobs
  <2>8. j # Reviews!Idle /\ job' = [job EXCEPT ![h] = j]
    BY <2>2 DEF Reviews!Idle, Step
  <2>9. \A g \in Requests \ {h} : ~(Reviews!Busy(g) /\ job[g].on = 0)
    BY <1>1, <2>1, AloneOn DEF ReviewJobs
  <2> QED
    BY <2>2, <2>7, <2>8, <2>9, MadeAlone, Zenon
<1>6. CASE Reviews!ApproveMeeting(h)
  <2>1. /\ Step(h, Reviews!Idle)
        /\ k.session \in 1..Len(meetings)
        /\ review' = [status |-> "approved", path |-> "meeting", appointment |-> k.session, active |-> 0]
    BY <1>1, <1>6, ApproveMeetingDoes
  <2>2. k.at = "approve_meeting" /\ UNCHANGED <<link, projects, meetings>>
    BY <1>1, <1>6 DEF Reviews!ApproveMeeting
  <2>3. review'.status = "approved" /\ review'.path = "meeting" /\ review'.appointment = k.session
        /\ review'.active = 0
    BY <2>1
  <2>4. Reviews!Linked = {} /\ Len(projects) = 0 /\ Reviews!Meetings = {k.session}
    BY <1>2, <2>2 DEF MadeOK
  <2>5. Reviews!Meetings' = Reviews!Meetings
    BY <2>2 DEF Reviews!Meetings, Reviews!SessionIds
  <2>6. Reviews!Latest' = 0
    BY <1>3, <2>4 DEF Reviews!Latest
  <2>7. k.session # 0
    BY <2>1 DEF RefsInv, ReviewData, ReviewTables
  <2>8. Settled'
    BY <1>3, <2>2, <2>3, <2>4, <2>5, <2>6, <2>7 DEF Settled
  <2>9. MadeOK(Reviews!Idle)'
    BY DEF MadeOK, Reviews!Idle, QueueJobs
  <2>10. \A g \in Requests \ {h} : ~(Reviews!Busy(g) /\ job[g].on = 0)
    BY <1>1, <2>2, AloneOn DEF ReviewJobs
  <2> QED
    BY <2>1, <2>8, <2>9, <2>10, MadeAlone, Zenon DEF Step
<1> QED
  BY <1>4, <1>5, <1>6

\* A project that is not yet linked is the only one beside those of the queue.
Unlinked(j) ==
    /\ \A g \in Reviews!Linked : g < j.file
    /\ ~j.answers => review.path = "quicksign"
    /\ Reviews!Meetings = {review.appointment} \ {0}
    /\ 1..Len(projects) = {link[f] : f \in Reviews!Linked} \cup {j.project}
    /\ j.project \notin {link[f] : f \in Reviews!Linked}
    /\ review.active = Reviews!Latest
    /\ review.path = "meeting" <=> review.appointment # 0
    /\ review.path = "quicksign" <=> review.active # 0
    /\ review.status = "approved" <=> review.path # "none"

LEMMA UnlinkedMade ==
  ASSUME NEW j, j.at \in {"open", "sign_up", "link"}
  PROVE  MadeOK(j) <=> Unlinked(j)
  BY DEF MadeOK, Unlinked, QueueJobs

LEMMA ProjectMade ==
  ASSUME RefsInv, TurnInv, ReviewMade, NEW h \in Requests,
         Reviews!InsertProject(h) \/ Reviews!OpenProject(h) \/ Reviews!RegisterSigner(h)
  PROVE  ReviewMade'
<1>1. PICK k : k = job[h]
  OBVIOUS
<1>2. RefsOK(k) /\ MadeOK(k)
  BY <1>1 DEF RefsInv, ReviewRefs, ReviewMade
<1>3. UNCHANGED <<review, link, meetings>>
      /\ k.at \in {"insert_project", "open", "sign_up"}
  BY <1>1 DEF Reviews!InsertProject, Reviews!OpenProject, Reviews!RegisterSigner
<1>4. /\ Reviews!Linked' = Reviews!Linked /\ Reviews!Meetings' = Reviews!Meetings
      /\ Reviews!Latest' = Reviews!Latest
  BY <1>3 DEF Reviews!Linked, Reviews!Meetings, Reviews!SessionIds, Reviews!Latest
<1>5. ASSUME NEW j, Step(h, j), j.on = 0, j.at \in {"open", "sign_up", "link"}, Unlinked(j)' PROVE ReviewMade'
  <2>1. MadeOK(j)'
    BY <1>5 DEF MadeOK, Unlinked, QueueJobs
  <2>2. j # Reviews!Idle /\ job' = [job EXCEPT ![h] = j]
    BY <1>5 DEF Reviews!Idle, Step
  <2>3. \A g \in Requests \ {h} : ~(Reviews!Busy(g) /\ job[g].on = 0)
    BY <1>1, <1>3, AloneOn DEF ReviewJobs, QueueJobs
  <2> QED
    BY <1>5, <2>1, <2>2, <2>3, MadeAlone, Zenon
<1>6. CASE Reviews!InsertProject(h)
  <2>1. k.at = "insert_project"
    BY <1>1, <1>6 DEF Reviews!InsertProject
  <2>2. PICK j : /\ Step(h, j)
                 /\ j.at = "open" /\ j.on = 0 /\ j.file = k.file /\ j.answers = k.answers
                 /\ j.project = Len(projects) + 1
    <3>1. k = job[h] /\ Reviews!InsertProject(h)
      BY <1>1, <1>6
    <3> QED
      BY <3>1, InsertProjectDoes, SMTT(60)
  <2>3. Len(projects') = Len(projects) + 1
    BY <1>1, <1>6, InsertProjectDoes
  <2>4. Settled /\ (\A g \in Reviews!Linked : g < k.file) /\ (~k.answers => review.path = "quicksign")
    BY <1>2, <2>1 DEF MadeOK, QueueJobs
  <2>5. Len(projects) \in Nat
    BY DEF RefsInv, ReviewData, ReviewTables
  <2>6. 1..Len(projects') = 1..Len(projects) \cup {j.project} /\ j.project \notin 1..Len(projects)
    BY <2>2, <2>3, <2>5
  <2>7. /\ 1..Len(projects') = {link'[f] : f \in Reviews!Linked'} \cup {j.project}
        /\ j.project \notin {link'[f] : f \in Reviews!Linked'}
    BY <1>3, <1>4, <2>4, <2>6, Zenon DEF Settled
  <2>8. (\A g \in Reviews!Linked' : g < j.file) /\ (~j.answers => review'.path = "quicksign")
    BY <1>3, <1>4, <2>2, <2>4, Zenon
  <2>9. Unlinked(j)'
    BY <1>3, <1>4, <2>4, <2>7, <2>8 DEF Unlinked, Settled
  <2> QED
    BY <1>5, <2>2, <2>9
<1>7. CASE Reviews!OpenProject(h) \/ Reviews!RegisterSigner(h)
  <2>1. k.at \in {"open", "sign_up"}
    BY <1>1, <1>7 DEF Reviews!OpenProject, Reviews!RegisterSigner
  <2>2. PICK j : Step(h, j) /\ j.at \in {"sign_up", "link"} /\ SameQueue(j, k)
    BY <1>1, <1>7, OpenDoes, SignUpDoes
  <2>3. Len(projects') = Len(projects)
    BY <1>1, <1>7, OpenDoes, SignUpDoes DEF Touched, ProjectsWritten
  <2>4. Unlinked(k)
    BY <1>2, <2>1, UnlinkedMade
  <2>5. j.on = 0 /\ j.file = k.file /\ j.answers = k.answers /\ j.project = k.project
    BY <2>2 DEF SameQueue
  <2>6. /\ 1..Len(projects') = {link'[f] : f \in Reviews!Linked'} \cup {j.project}
        /\ j.project \notin {link'[f] : f \in Reviews!Linked'}
    BY <1>3, <1>4, <2>3, <2>4, <2>5, Zenon DEF Unlinked
  <2>7. (\A g \in Reviews!Linked' : g < j.file) /\ (~j.answers => review'.path = "quicksign")
    BY <1>3, <1>4, <2>4, <2>5, Zenon DEF Unlinked
  <2>8. Unlinked(j)'
    BY <1>3, <1>4, <2>4, <2>6, <2>7 DEF Unlinked
  <2> QED
    BY <1>5, <2>2, <2>5, <2>8
<1> QED
  BY <1>6, <1>7

\* The project is linked: it is the latest one.
Newest(j) ==
    /\ Reviews!Meetings = {} /\ review.appointment = 0
    /\ 1..Len(projects) = {link[f] : f \in Reviews!Linked}
    /\ Reviews!Latest = j.project
    /\ IF j.answers THEN review.path = "none" ELSE review.path = "quicksign"

LEMMA NewestMade ==
  ASSUME NEW j, j.at \in {"activate", "approve_quicksign"}, j.answers \in BOOLEAN
  PROVE  MadeOK(j) <=> Newest(j)
  BY Zenon DEF MadeOK, Newest, QueueJobs

LEMMA LinkMade ==
  ASSUME RefsInv, TurnInv, ReviewMade, NEW h \in Requests, Reviews!LinkProject(h)
  PROVE  ReviewMade'
<1>1. PICK k : k = job[h]
  OBVIOUS
<1>2. RefsOK(k) /\ TurnOK(k) /\ MadeOK(k) /\ k \in Reviews!Jobs
  BY <1>1 DEF RefsInv, ReviewRefs, TurnInv, ReviewMade, ReviewData
<1>3. k.at = "link" /\ UNCHANGED <<review, projects, meetings>>
  BY <1>1 DEF Reviews!LinkProject
<1>4. PICK j : Step(h, j) /\ j.at = "activate" /\ SameQueue(j, k)
  BY <1>1, LinkDoes
<1>5. /\ k.file \in 1..Files
      /\ Reviews!Linked' = Reviews!Linked \cup {k.file}
      /\ link'[k.file] = k.project
      /\ \A f \in DOMAIN link : f # k.file => link'[f] = link[f]
  BY <1>1, LinkDoes
<1>6. Unlinked(k)
  BY <1>2, <1>3, UnlinkedMade
<1>7. Reviews!Linked \subseteq 1..Files /\ Reviews!Linked \subseteq DOMAIN link
  BY LinkShape DEF RefsInv, Reviews!Linked
<1>8. k.file \notin Reviews!Linked
  BY <1>5, <1>6 DEF Unlinked
<1>9. {link'[f] : f \in Reviews!Linked'} = {link[f] : f \in Reviews!Linked} \cup {k.project}
  BY <1>5, <1>7, <1>8
<1>10. Reviews!Latest' = k.project
  <2>1. PICK m \in Reviews!Linked' : (\A g \in Reviews!Linked' : g <= m) /\ Reviews!Latest' = link'[m]
    <3> DEFINE m == CHOOSE f \in Reviews!Linked' : \A g \in Reviews!Linked' : g <= f
    <3>1. \A g \in Reviews!Linked' : g <= k.file
      BY <1>5, <1>6, <1>7 DEF Unlinked
    <3>2. m \in Reviews!Linked' /\ \A g \in Reviews!Linked' : g <= m
      BY <1>5, <3>1
    <3>3. Reviews!Latest' = link'[m]
      BY <1>5, Zenon DEF Reviews!Latest
    <3> QED
      BY <3>2, <3>3
  <2>2. m = k.file
    <3>1. m \in Int /\ k.file \in Int /\ k.file <= m
      BY <1>5, <1>7, <2>1
    <3>2. m \in Reviews!Linked => m < k.file
      BY <1>6 DEF Unlinked
    <3> QED
      BY <1>5, <3>1, <3>2
  <2> QED
    BY <1>5, <2>1, <2>2
<1>11. k.answers \in BOOLEAN /\ j.on = 0 /\ j.answers = k.answers /\ j.project = k.project
  BY <1>2, <1>3, <1>4, ReviewJobIs DEF SameQueue, QueueJobs
<1>12. IF k.answers THEN review.status = "pending" ELSE review.path = "quicksign"
  BY <1>2, <1>3, <1>6 DEF TurnOK, QueueJobs, Unlinked
<1>13. review.appointment = 0 /\ IF k.answers THEN review.path = "none" ELSE review.path = "quicksign"
  BY <1>6, <1>12 DEF Unlinked
<1>14. Reviews!Meetings' = {} /\ review'.appointment = 0
  BY <1>3, <1>6, <1>13 DEF Unlinked, Reviews!Meetings, Reviews!SessionIds
<1>15. IF j.answers THEN review'.path = "none" ELSE review'.path = "quicksign"
  BY <1>3, <1>11, <1>13, Zenon
<1>16. 1..Len(projects') = {link'[f] : f \in Reviews!Linked'} /\ Reviews!Latest' = j.project
  BY <1>3, <1>6, <1>9, <1>10, <1>11, Zenon DEF Unlinked
<1>17. Newest(j)'
  BY <1>14, <1>15, <1>16 DEF Newest
<1>18. MadeOK(j)'
  BY <1>4, <1>11, <1>17, Zenon DEF MadeOK, Newest, QueueJobs
<1>19. j # Reviews!Idle /\ job' = [job EXCEPT ![h] = j]
  BY <1>4 DEF Reviews!Idle, Step
<1>20. \A g \in Requests \ {h} : ~(Reviews!Busy(g) /\ job[g].on = 0)
  BY <1>1, <1>3, AloneOn DEF ReviewJobs, QueueJobs
<1> QED
  BY <1>11, <1>18, <1>19, <1>20, MadeAlone, Zenon

LEMMA ApproveMade ==
  ASSUME RefsInv, TurnInv, ReviewMade, NEW h \in Requests,
         Reviews!ActivateProject(h) \/ Reviews!ApproveQuicksign(h)
  PROVE  ReviewMade'
<1>1. PICK k : k = job[h]
  OBVIOUS
<1>2. RefsOK(k) /\ TurnOK(k) /\ MadeOK(k) /\ k \in Reviews!Jobs
  BY <1>1 DEF RefsInv, ReviewRefs, TurnInv, ReviewMade, ReviewData
<1>3. k.at \in {"activate", "approve_quicksign"} /\ UNCHANGED <<link, projects, meetings>>
  BY <1>1 DEF Reviews!ActivateProject, Reviews!ApproveQuicksign
<1>4. k.answers \in BOOLEAN
  BY <1>2, <1>3, ReviewJobIs DEF QueueJobs
<1>5. Newest(k)
  BY <1>2, <1>3, <1>4, NewestMade
<1>6. /\ Reviews!Linked' = Reviews!Linked /\ Reviews!Meetings' = Reviews!Meetings
      /\ Reviews!Latest' = Reviews!Latest
  BY <1>3 DEF Reviews!Linked, Reviews!Meetings, Reviews!SessionIds, Reviews!Latest
<1>7. \A g \in Requests \ {h} : ~(Reviews!Busy(g) /\ job[g].on = 0)
  BY <1>1, <1>3, AloneOn DEF ReviewJobs, QueueJobs
<1>8. MadeOK(Reviews!Idle)'
  BY DEF MadeOK, Reviews!Idle, QueueJobs
<1>9. ASSUME Step(h, Reviews!Idle), review'.status = "approved", review'.path = "quicksign",
             review'.appointment = 0, review'.active = k.project, k.project \in 1..Len(projects)
      PROVE  ReviewMade'
  <2>1. Len(projects) \in Nat
    BY DEF RefsInv, ReviewData, ReviewTables
  <2>2. Settled'
    BY <1>3, <1>5, <1>6, <1>9, <2>1 DEF Settled, Newest
  <2> QED
    BY <1>7, <1>8, <1>9, <2>2, MadeAlone, Zenon DEF Step
<1>10. CASE Reviews!ActivateProject(h)
  <2>1. PICK j : /\ Step(h, j)
                 /\ IF k.answers
                      THEN j.at = "approve_quicksign" /\ j.on = 0 /\ j.file = k.file /\ j.answers
                           /\ j.project = k.project
                      ELSE j = Reviews!Idle
    BY <1>1, <1>10, ActivateDoes
  <2>2. /\ k.project \in 1..Len(projects)
        /\ review' = [status |-> review.status, path |-> review.path, appointment |-> review.appointment,
                      active |-> k.project]
    BY <1>1, <1>10, ActivateDoes
  <2>3. /\ review'.status = review.status /\ review'.path = review.path
        /\ review'.appointment = review.appointment /\ review'.active = k.project
    BY <2>2
  <2>4. CASE k.answers
    <3>1. j.at = "approve_quicksign" /\ j.on = 0 /\ j.answers /\ j.project = k.project
      BY <2>1, <2>4, Zenon
    <3>2. Newest(j)'
      <4>1. IF j.answers THEN review'.path = "none" ELSE review'.path = "quicksign"
        BY <1>5, <2>3, <2>4, <3>1, Zenon DEF Newest
      <4> QED
        BY <1>3, <1>5, <1>6, <2>3, <3>1, <4>1, Zenon DEF Newest
    <3>3. MadeOK(j)'
      BY <3>1, <3>2, Zenon DEF MadeOK, Newest, QueueJobs
    <3>4. j # Reviews!Idle /\ job' = [job EXCEPT ![h] = j]
      BY <2>1, <3>1 DEF Reviews!Idle, Step
    <3> QED
      BY <1>7, <3>1, <3>3, <3>4, MadeAlone, Zenon
  <2>5. CASE ~k.answers
    <3>1. Step(h, Reviews!Idle)
      BY <2>1, <2>5, Zenon
    <3>2. review.status = "approved" /\ review.path = "quicksign" /\ review.appointment = 0
      <4>1. k.at \in QueueJobs
        BY <1>3 DEF QueueJobs
      <4> QED
        BY <1>2, <1>5, <2>5, <4>1, Zenon DEF TurnOK, Newest
    <3> QED
      BY <1>9, <2>2, <2>3, <3>1, <3>2
  <2> QED
    BY <2>4, <2>5
<1>11. CASE Reviews!ApproveQuicksign(h)
  <2>1. /\ Step(h, Reviews!Idle)
        /\ k.project \in 1..Len(projects)
        /\ review' = [status |-> "approved", path |-> "quicksign", appointment |-> 0, active |-> k.project]
    BY <1>1, <1>11, ApproveQuicksignDoes
  <2>2. /\ review'.status = "approved" /\ review'.path = "quicksign"
        /\ review'.appointment = 0 /\ review'.active = k.project
    BY <2>1
  <2> QED
    BY <1>9, <2>1, <2>2
<1> QED
  BY <1>10, <1>11

\* A request on a project goes on.
LEMMA BesideMade ==
  ASSUME RefsInv, RefsInv', ReviewMade, NEW h \in Requests,
         Reviews!StartSession(h) \/ Reviews!InsertDocument(h) \/ Reviews!BindSession(h)
  PROVE  ReviewMade'
<1>1. PICK k : k = job[h]
  OBVIOUS
<1>2. k \in Reviews!Jobs /\ k.at \in SessionJobs /\ UNCHANGED <<review, link>>
  BY <1>1 DEF RefsInv, ReviewData, SessionJobs, Reviews!StartSession, Reviews!InsertDocument, Reviews!BindSession
<1>3. k.on # 0
  BY <1>2, ReviewJobIs
<1>4. ASSUME NEW j, Step(h, j), j = Reviews!Idle \/ j.on = k.on, j.at \notin ReviewJobs,
             Len(projects') = Len(projects), Reviews!Meetings' = Reviews!Meetings
      PROVE  ReviewMade'
  <2>1. SameMade /\ job' = [job EXCEPT ![h] = j]
    BY <1>2, <1>4 DEF SameMade, Step
  <2> QED
    BY <1>1, <1>3, <1>4, <2>1, MadeBeside, Zenon
<1>5. CASE Reviews!StartSession(h)
  <2>1. PICK j : Step(h, j) /\ j.at = "document" /\ j.on = k.on
    BY <1>1, <1>5, StartDoes
  <2>2. /\ Len(meetings') = Len(meetings) + 1 /\ meetings'[Len(meetings) + 1].project = k.on
        /\ \A s \in 1..Len(meetings) : meetings'[s] = meetings[s]
    BY <1>1, <1>5, StartDoes
  <2>3. Reviews!Meetings' = Reviews!Meetings
    BY <1>3, <2>2, SessionsMore DEF Reviews!Meetings, Reviews!SessionsOf
  <2>4. UNCHANGED projects
    BY <1>5 DEF Reviews!StartSession
  <2> QED
    BY <1>4, <2>1, <2>3, <2>4 DEF ReviewJobs, QueueJobs
<1>6. CASE Reviews!InsertDocument(h)
  <2>1. PICK j : Step(h, j) /\ j.at = "bind" /\ j.on = k.on
    BY <1>1, <1>6, DocumentDoes
  <2>2. /\ Len(meetings') = Len(meetings)
        /\ \A s \in 1..Len(meetings) : meetings'[s].project = meetings[s].project
    BY <1>1, <1>6, DocumentDoes
  <2>3. Reviews!Meetings' = Reviews!Meetings
    BY <2>2, SessionsSame DEF Reviews!Meetings, Reviews!SessionsOf
  <2>4. UNCHANGED projects
    BY <1>6 DEF Reviews!InsertDocument
  <2> QED
    BY <1>4, <2>1, <2>3, <2>4 DEF ReviewJobs, QueueJobs
<1>7. CASE Reviews!BindSession(h)
  <2>1. Step(h, Reviews!Idle) /\ Len(projects') = Len(projects)
    BY <1>1, <1>7, BindDoes DEF ProjectsWritten
  <2>2. Reviews!Meetings' = Reviews!Meetings
    BY <1>7 DEF Reviews!BindSession, Reviews!Meetings, Reviews!SessionIds
  <2>3. Reviews!Idle.at \notin ReviewJobs
    BY DEF Reviews!Idle, ReviewJobs, QueueJobs
  <2> QED
    BY <1>4, <2>1, <2>2, <2>3
<1> QED
  BY <1>5, <1>6, <1>7

LEMMA NextMade ==
  ASSUME RefsInv, TurnInv, ReviewMade, Reviews!Next \/ UNCHANGED Reviews!vars, ~crowded', ~crashed'
  PROVE  ReviewMade'
<1>0. RefsInv'
  BY NextRefs
<1>1. ASSUME NEW h \in Requests,
             \/ Reviews!CheckCreate(h) \/ Reviews!CheckApproveMeeting(h) \/ Reviews!CheckApproveQuicksign(h)
             \/ \E s \in {"rejected", "cancelled"} : Reviews!CheckDecide(h, s)
             \/ \E p \in Reviews!ProjectIds : Reviews!CheckFinalize(h, p)
      PROVE  ReviewMade'
  BY <1>0, <1>1, CheckMade
<1>2. ASSUME NEW h \in Requests,
             \/ Reviews!CheckAdvance(h)
             \/ Reviews!InsertReview(h) \/ Reviews!InsertFiles(h) \/ Reviews!WriteDecision(h)
             \/ Reviews!BookMeeting(h) \/ Reviews!AttachDocuments(h) \/ Reviews!ApproveMeeting(h)
             \/ Reviews!InsertProject(h) \/ Reviews!OpenProject(h) \/ Reviews!RegisterSigner(h)
             \/ Reviews!LinkProject(h) \/ Reviews!ActivateProject(h) \/ Reviews!ApproveQuicksign(h)
             \/ Reviews!StartSession(h) \/ Reviews!InsertDocument(h) \/ Reviews!BindSession(h)
      PROVE  ReviewMade'
  BY <1>0, <1>2, AdvanceMade, AnswerMade, MeetingMade, ProjectMade, LinkMade, ApproveMade, BesideMade, Zenon
<1>3. ASSUME NEW h \in Requests, Reviews!Abort(h) PROVE FALSE
  BY <1>3, Zenon DEF Reviews!Abort
<1>4. ASSUME SameMade, UNCHANGED job PROVE ReviewMade'
  <2>1. Reviews!Quiet(0)' => Settled'
    <3>1. Reviews!Quiet(0)' => Reviews!Quiet(0)
      BY <1>4 DEF Reviews!Quiet, Reviews!Busy, Reviews!Idle
    <3> QED
      BY <1>4, <3>1, MadeStays DEF ReviewMade
  <2>2. ASSUME NEW g \in Requests PROVE MadeOK(job[g])'
    <3>1. PICK k : k = job[g]
      OBVIOUS
    <3>2. MadeOK(k)'
      BY <1>4, <3>1, MadeStays DEF ReviewMade
    <3> QED
      BY <1>4, <3>1, <3>2, Zenon DEF MadeOK
  <2> QED
    BY <2>1, <2>2 DEF ReviewMade
<1>5. CASE UNCHANGED Reviews!vars
  <2>1. UNCHANGED <<review, link, projects, meetings, job>>
    BY <1>5 DEF Reviews!vars
  <2>2. SameMade
    BY <2>1 DEF SameMade, Reviews!Meetings, Reviews!SessionIds
  <2> QED
    BY <1>4, <2>1, <2>2
<1>6. ASSUME NEW p \in Reviews!ProjectIds, Touching(p) PROVE ReviewMade'
  <2>1. UNCHANGED <<review, link, meetings, job>> /\ Len(projects') = Len(projects)
    BY <1>6, TouchingDoes DEF Touched, ProjectsWritten
  <2>2. SameMade
    BY <2>1 DEF SameMade, Reviews!Meetings, Reviews!SessionIds
  <2> QED
    BY <1>4, <2>1, <2>2
<1> QED
  BY <1>1, <1>2, <1>3, <1>5, <1>6, Zenon DEF Reviews!Next, Touching

\* A project has the session it names and no other.
OwnSession(p) == Reviews!SessionsOf(p) = {projects[p].appointment} \ {0}

\* A request goes on with q, which no other one is on, and leaves it with its own session.
GoesOn(h, j, q) ==
    /\ job[h] = Reviews!Idle \/ job[h].on = q
    /\ j = Reviews!Idle \/ j.on = q
    /\ q = 0 \/ \A g \in Requests \ {h} : ~(Reviews!Busy(g) /\ job[g].on = q)
    /\ q = 0 \/ j # Reviews!Idle \/ OwnSession(q)'

\* A request leaves the projects it is not on, or adds one that has no session.
LEMMA SessionsStay ==
  ASSUME RefsInv, SessionsMade, RowsGrow, NEW h \in Requests, NEW j, job' = [job EXCEPT ![h] = j],
         NEW q \in Nat, GoesOn(h, j, q),
         \A p \in 1..Len(projects) : p # q =>
             Reviews!SessionsOf(p)' = Reviews!SessionsOf(p) /\ projects'[p].appointment = projects[p].appointment,
         \A p \in 1..Len(projects') : p \notin 1..Len(projects) =>
             Reviews!SessionsOf(p)' = {} /\ projects'[p].appointment = 0,
         SessionOK(j)'
  PROVE  SessionsMade'
<1>1. job'[h] = j /\ \A g \in Requests : g # h => job'[g] = job[g]
  BY DEF RefsInv, ReviewData
<1>2. ASSUME NEW p \in 1..Len(projects'), Reviews!Quiet(p)'
      PROVE  Reviews!SessionsOf(p)' = {projects'[p].appointment} \ {0}
  <2>1. CASE p \notin 1..Len(projects)
    BY <2>1
  <2>2. CASE p \in 1..Len(projects) /\ p # q
    <3>1. Reviews!Quiet(p)
      BY <1>1, <1>2, <2>2 DEF GoesOn, Reviews!Quiet, Reviews!Busy
    <3>2. Reviews!SessionsOf(p) = {projects[p].appointment} \ {0}
      BY <2>2, <3>1 DEF SessionsMade
    <3> QED
      BY <2>2, <3>2
  <2>3. CASE p \in 1..Len(projects) /\ p = q
    <3>1. q # 0
      BY <2>3
    <3>2. j = Reviews!Idle
      BY <1>1, <1>2, <2>3 DEF GoesOn, Reviews!Quiet, Reviews!Busy
    <3> QED
      BY <2>3, <3>1, <3>2 DEF GoesOn, OwnSession
  <2> QED
    BY <2>1, <2>2, <2>3
<1>3. ASSUME NEW g \in Requests PROVE SessionOK(job[g])'
  <2>1. CASE g = h
    BY <1>1, <2>1, Zenon DEF SessionOK
  <2>2. CASE g # h
    <3>1. PICK k : k = job[g]
      OBVIOUS
    <3>2. RefsOK(k) /\ SessionOK(k)
      BY <3>1 DEF SessionsMade, RefsInv, ReviewRefs
    <3>3. ASSUME k.at \in SessionJobs PROVE k.on \in 1..Len(projects) /\ k.on # q
      <4>1. k.on \in 1..Len(projects)
        BY <3>2, <3>3 DEF RefsOK
      <4>2. k # Reviews!Idle
        BY <3>3 DEF SessionJobs, Reviews!Idle
      <4>3. q # 0 => k.on # q
        BY <2>2, <3>1, <4>2, Zenon DEF GoesOn, Reviews!Busy
      <4> QED
        BY <4>1, <4>3
    <3>4. k.at \in SessionJobs =>
            /\ Reviews!SessionsOf(k.on)' = Reviews!SessionsOf(k.on)
            /\ projects'[k.on].appointment = projects[k.on].appointment
      BY <3>3
    <3>5. SessionOK(k)'
      BY <3>2, <3>4 DEF SessionOK, SessionJobs
    <3>6. job'[g] = k
      BY <1>1, <2>2, <3>1
    <3> QED
      BY <3>5, <3>6, Zenon DEF SessionOK
  <2> QED
    BY <2>1, <2>2
<1> QED
  BY <1>2, <1>3 DEF SessionsMade

\* A request on the review leaves the sessions of the projects.
LEMMA SessionsBeside ==
  ASSUME RefsInv, SessionsMade, NEW h \in Requests, NEW j, Step(h, j),
         job[h] = Reviews!Idle \/ job[h].on = 0, j = Reviews!Idle \/ j.on = 0,
         \A p \in 1..Len(projects) : projects'[p].appointment = projects[p].appointment,
         \A p \in 1..Len(projects') : p \notin 1..Len(projects) => projects'[p].appointment = 0,
         \A p : p # 0 => Reviews!SessionsOf(p)' = Reviews!SessionsOf(p)
  PROVE  SessionsMade'
<1>1. RowsGrow /\ job' = [job EXCEPT ![h] = j] /\ j \in Reviews!Jobs
  BY DEF Step
<1>2. Len(projects) \in Nat /\ Len(projects') \in Nat
  BY DEF RefsInv, ReviewData, ReviewTables, Step
<1>3. \A p \in 1..Len(projects') : p \notin 1..Len(projects) =>
        Reviews!SessionsOf(p)' = {} /\ projects'[p].appointment = 0
  <2> SUFFICES ASSUME NEW p \in 1..Len(projects'), p \notin 1..Len(projects) PROVE Reviews!SessionsOf(p)' = {}
    OBVIOUS
  <2>1. p \in Nat /\ p > Len(projects) /\ p # 0
    BY <1>2
  <2>2. Reviews!SessionsOf(p) = {}
    BY <2>1, SessionsNone
  <2> QED
    BY <2>1, <2>2
<1>4. SessionOK(j)'
  <2>1. j = Reviews!Idle => j.at = "idle"
    BY DEF Reviews!Idle
  <2>2. j.at \notin SessionJobs
    <3>1. j.at \in SessionJobs => j.on \in 1..MaxProjects
      BY <1>1, ReviewJobIs
    <3>2. j.at \in SessionJobs => j # Reviews!Idle
      BY <2>1 DEF SessionJobs
    <3> QED
      BY <3>1, <3>2
  <2> QED
    BY <2>2 DEF SessionOK, SessionJobs
<1>5. \A p \in 1..Len(projects) : p # 0 =>
        Reviews!SessionsOf(p)' = Reviews!SessionsOf(p) /\ projects'[p].appointment = projects[p].appointment
  OBVIOUS
<1>6. GoesOn(h, j, 0)
  BY DEF GoesOn
<1> QED
  BY <1>1, <1>3, <1>4, <1>5, <1>6, 0 \in Nat, SessionsStay, Zenon

LEMMA SameSessions ==
  ASSUME UNCHANGED meetings
  PROVE  \A p : Reviews!SessionsOf(p)' = Reviews!SessionsOf(p)
  BY DEF Reviews!SessionsOf, Reviews!SessionIds

\* The session of a project.
LEMMA ProjectSessions ==
  ASSUME RefsInv, RefsInv', TurnInv, SessionsMade, NEW h \in Requests,
         Reviews!StartSession(h) \/ Reviews!InsertDocument(h) \/ Reviews!BindSession(h)
  PROVE  SessionsMade'
<1>1. PICK k : k = job[h]
  OBVIOUS
<1>2. k \in Reviews!Jobs /\ k.at \in SessionJobs /\ RefsOK(k) /\ SessionOK(k)
  BY <1>1 DEF RefsInv, ReviewData, ReviewRefs, SessionsMade, SessionJobs, Reviews!StartSession,
     Reviews!InsertDocument, Reviews!BindSession
<1>3. k.on \in 1..Len(projects) /\ k.on \in Nat /\ k # Reviews!Idle
  BY <1>2 DEF RefsOK, SessionJobs, Reviews!Idle
<1>4. \A g \in Requests \ {h} : ~(Reviews!Busy(g) /\ job[g].on = k.on)
  BY <1>1, <1>3, Zenon DEF TurnInv, Reviews!Busy
<1>5. ASSUME NEW j, Step(h, j), j = Reviews!Idle \/ j.on = k.on, Len(projects') = Len(projects), SessionOK(j)',
             \A p \in 1..Len(projects) : p # k.on =>
                 Reviews!SessionsOf(p)' = Reviews!SessionsOf(p) /\ projects'[p].appointment = projects[p].appointment,
             j = Reviews!Idle => Reviews!SessionsOf(k.on)' = {projects'[k.on].appointment} \ {0}
      PROVE  SessionsMade'
  <2>1. RowsGrow /\ job' = [job EXCEPT ![h] = j]
    BY <1>5 DEF Step
  <2>2. \A p \in 1..Len(projects') : p \notin 1..Len(projects) =>
          Reviews!SessionsOf(p)' = {} /\ projects'[p].appointment = 0
    BY <1>5
  <2>3. PICK q \in Nat : q = k.on
    BY <1>3
  <2>4. OwnSession(q)' \/ j # Reviews!Idle
    BY <1>5, <2>3 DEF OwnSession
  <2>5. GoesOn(h, j, q)
    BY <1>1, <1>4, <1>5, <2>3, <2>4, Zenon DEF GoesOn
  <2>6. \A p \in 1..Len(projects) : p # q =>
          Reviews!SessionsOf(p)' = Reviews!SessionsOf(p) /\ projects'[p].appointment = projects[p].appointment
    BY <1>5, <2>3
  <2>7. SessionOK(j)'
    BY <1>5
  <2> QED
    BY <2>1, <2>2, <2>5, <2>6, <2>7, SessionsStay, Zenon
<1>6. CASE Reviews!StartSession(h)
  <2>1. PICK j : Step(h, j) /\ j.at = "document" /\ j.on = k.on /\ j.session = Len(meetings) + 1
    BY <1>1, <1>6, StartDoes
  <2>2. /\ Len(meetings') = Len(meetings) + 1 /\ meetings'[Len(meetings) + 1].project = k.on
        /\ \A s \in 1..Len(meetings) : meetings'[s] = meetings[s]
    BY <1>1, <1>6, StartDoes
  <2>3. k.at = "start" /\ UNCHANGED projects
    BY <1>1, <1>6 DEF Reviews!StartSession
  <2>4. Reviews!SessionsOf(k.on) = {} /\ projects[k.on].appointment = 0
    BY <1>2, <2>3 DEF SessionOK
  <2>5. /\ Reviews!SessionsOf(k.on)' = {Len(meetings) + 1}
        /\ \A p : p # k.on => Reviews!SessionsOf(p)' = Reviews!SessionsOf(p)
    BY <2>2, <2>4, SessionsMore
  <2>6. SessionOK(j)'
    <3>1. Reviews!SessionsOf(j.on)' = {j.session} /\ projects'[j.on].appointment = 0
      BY <2>1, <2>3, <2>4, <2>5, Zenon
    <3> QED
      BY <2>1, <3>1 DEF SessionOK
  <2>7. j # Reviews!Idle
    BY <2>1 DEF Reviews!Idle
  <2> QED
    BY <1>5, <2>1, <2>3, <2>5, <2>6, <2>7
<1>7. CASE Reviews!InsertDocument(h)
  <2>1. PICK j : Step(h, j) /\ j.at = "bind" /\ j.on = k.on /\ j.session = k.session
    BY <1>1, <1>7, DocumentDoes
  <2>2. /\ Len(meetings') = Len(meetings)
        /\ \A s \in 1..Len(meetings) : meetings'[s].project = meetings[s].project
    BY <1>1, <1>7, DocumentDoes
  <2>3. k.at = "document" /\ UNCHANGED projects
    BY <1>1, <1>7 DEF Reviews!InsertDocument
  <2>4. Reviews!SessionsOf(k.on) = {k.session} /\ projects[k.on].appointment = 0
    BY <1>2, <2>3 DEF SessionOK
  <2>5. \A p : Reviews!SessionsOf(p)' = Reviews!SessionsOf(p)
    BY <2>2, SessionsSame
  <2>6. SessionOK(j)'
    <3>1. Reviews!SessionsOf(j.on)' = {j.session} /\ projects'[j.on].appointment = 0
      BY <2>1, <2>3, <2>4, <2>5, Zenon
    <3> QED
      BY <2>1, <3>1 DEF SessionOK
  <2>7. j # Reviews!Idle
    BY <2>1 DEF Reviews!Idle
  <2> QED
    BY <1>5, <2>1, <2>3, <2>5, <2>6, <2>7
<1>8. CASE Reviews!BindSession(h)
  <2>1. Step(h, Reviews!Idle) /\ ProjectsWritten(k.on) /\ projects'[k.on].appointment = k.session
    BY <1>1, <1>8, BindDoes
  <2>2. k.at = "bind" /\ UNCHANGED meetings
    BY <1>1, <1>8 DEF Reviews!BindSession
  <2>3. k.session # 0
    BY <1>2, <2>2, ReviewJobIs
  <2>4. Reviews!SessionsOf(k.on) = {k.session}
    BY <1>2, <2>2 DEF SessionOK
  <2>5. \A p : Reviews!SessionsOf(p)' = Reviews!SessionsOf(p)
    BY <2>2, SameSessions
  <2>6. Reviews!SessionsOf(k.on)' = {projects'[k.on].appointment} \ {0}
    BY <2>1, <2>3, <2>4, <2>5
  <2>7. SessionOK(Reviews!Idle)'
    BY DEF SessionOK, Reviews!Idle
  <2>8. Len(projects') = Len(projects) /\ \A p \in 1..Len(projects) : p # k.on => projects'[p] = projects[p]
    BY <2>1 DEF ProjectsWritten
  <2> QED
    BY <1>5, <2>1, <2>5, <2>6, <2>7, <2>8, Zenon
<1> QED
  BY <1>6, <1>7, <1>8

\* The reads.
LEMMA CheckSessions ==
  ASSUME RefsInv, RefsInv', SessionsMade, NEW h \in Requests, ~crowded',
         \/ Reviews!CheckCreate(h) \/ Reviews!CheckApproveMeeting(h) \/ Reviews!CheckApproveQuicksign(h)
         \/ \E s \in {"rejected", "cancelled"} : Reviews!CheckDecide(h, s)
         \/ \E p \in Reviews!ProjectIds : Reviews!CheckFinalize(h, p)
  PROVE  SessionsMade'
<1>1. UNCHANGED <<review, link, projects, meetings>>
  BY Zenon DEF Reviews!rows, Reviews!CheckCreate, Reviews!CheckApproveMeeting, Reviews!CheckApproveQuicksign,
     Reviews!CheckDecide, Reviews!CheckFinalize
<1>2. \A p : Reviews!SessionsOf(p)' = Reviews!SessionsOf(p)
  BY <1>1, SameSessions
<1>3. RowsGrow
  BY <1>1 DEF RowsGrow, RefsInv, ReviewData, ReviewTables
<1>4. ASSUME NEW j, Reviews!Arrive(h, j), j.on \in Nat, SessionOK(j), j # Reviews!Idle PROVE SessionsMade'
  <2>1. /\ job' = [job EXCEPT ![h] = j] /\ job[h] = Reviews!Idle
        /\ \A g \in Requests \ {h} : ~(Reviews!Busy(g) /\ job[g].on = j.on)
    BY <1>4, AloneArrives, Zenon DEF Reviews!Busy
  <2>2. SessionOK(j)'
    BY <1>1, <1>2, <1>4 DEF SessionOK
  <2>3. \A p \in 1..Len(projects) : p # j.on =>
          Reviews!SessionsOf(p)' = Reviews!SessionsOf(p) /\ projects'[p].appointment = projects[p].appointment
    BY <1>1, <1>2
  <2>4. \A p \in 1..Len(projects') : p \notin 1..Len(projects) =>
          Reviews!SessionsOf(p)' = {} /\ projects'[p].appointment = 0
    BY <1>1
  <2>5. GoesOn(h, j, j.on)
    BY <1>4, <2>1, Zenon DEF GoesOn
  <2> QED
    BY <1>3, <1>4, <2>1, <2>2, <2>3, <2>4, <2>5, SessionsStay, Zenon
<1> USE DEF Reviews!Idle
<1>5. CASE Reviews!CheckCreate(h)
  <2> DEFINE j == [at |-> "insert_review", on |-> 0]
  <2>1. j.on \in Nat /\ SessionOK(j) /\ j # Reviews!Idle
    BY DEF SessionOK
  <2> QED
    BY <1>4, <1>5, <2>1, Zenon DEF Reviews!CheckCreate
<1>6. CASE Reviews!CheckApproveMeeting(h)
  <2> DEFINE j == [at |-> "book", on |-> 0, files |-> Len(link)]
  <2>1. j.on \in Nat /\ SessionOK(j) /\ j # Reviews!Idle
    BY DEF SessionOK
  <2> QED
    BY <1>4, <1>6, <2>1, Zenon DEF Reviews!CheckApproveMeeting
<1>7. CASE Reviews!CheckApproveQuicksign(h)
  <2> DEFINE j == [at |-> "insert_project", on |-> 0, file |-> 1, answers |-> TRUE]
  <2>1. j.on \in Nat /\ SessionOK(j) /\ j # Reviews!Idle
    BY DEF SessionOK
  <2> QED
    BY <1>4, <1>7, <2>1, Zenon DEF Reviews!CheckApproveQuicksign
<1>8. ASSUME NEW s \in {"rejected", "cancelled"}, Reviews!CheckDecide(h, s) PROVE SessionsMade'
  <2> DEFINE j == [at |-> "decide", on |-> 0, status |-> s]
  <2>1. j.on \in Nat /\ SessionOK(j) /\ j # Reviews!Idle
    BY DEF SessionOK
  <2> QED
    BY <1>4, <1>8, <2>1, Zenon DEF Reviews!CheckDecide
<1>9. ASSUME NEW p \in Reviews!ProjectIds, Reviews!CheckFinalize(h, p) PROVE SessionsMade'
  <2> DEFINE j == [at |-> "start", on |-> p]
  <2>1. Reviews!Arrive(h, j) /\ projects[p].appointment = 0
    BY <1>9, Zenon DEF Reviews!CheckFinalize
  <2>2. p \in 1..Len(projects) /\ p \in Nat
    BY DEF Reviews!ProjectIds, RefsInv, ReviewData, ReviewTables
  <2>3. Reviews!Quiet(p)
    <3>1. j.on = p
      OBVIOUS
    <3> QED
      BY <2>1, <3>1, AloneArrives, Zenon DEF Reviews!Quiet
  <2>4. Reviews!SessionsOf(p) = {}
    BY <2>1, <2>2, <2>3 DEF SessionsMade
  <2>5. j.on \in Nat /\ SessionOK(j) /\ j # Reviews!Idle
    BY <2>1, <2>2, <2>4 DEF SessionOK
  <2> QED
    BY <1>4, <2>1, <2>5, Zenon
<1> QED
  BY <1>5, <1>6, <1>7, <1>8, <1>9, Zenon

\* The steps of a request on the review.
LEMMA ReviewSessions ==
  ASSUME RefsInv, RefsInv', SessionsMade, NEW h \in Requests,
         \/ Reviews!InsertReview(h) \/ Reviews!InsertFiles(h) \/ Reviews!WriteDecision(h)
         \/ Reviews!BookMeeting(h) \/ Reviews!AttachDocuments(h) \/ Reviews!ApproveMeeting(h)
         \/ Reviews!InsertProject(h) \/ Reviews!OpenProject(h) \/ Reviews!RegisterSigner(h)
         \/ Reviews!LinkProject(h) \/ Reviews!ActivateProject(h) \/ Reviews!ApproveQuicksign(h)
  PROVE  SessionsMade'
<1>1. PICK k \in Reviews!Jobs : k = job[h]
  BY DEF RefsInv, ReviewData
<1>2. k.at \in ReviewJobs
  BY <1>1, Zenon DEF ReviewJobs, QueueJobs, Reviews!InsertReview, Reviews!InsertFiles, Reviews!WriteDecision,
     Reviews!BookMeeting, Reviews!AttachDocuments, Reviews!ApproveMeeting, Reviews!InsertProject,
     Reviews!OpenProject, Reviews!RegisterSigner, Reviews!LinkProject, Reviews!ActivateProject,
     Reviews!ApproveQuicksign
<1>3. job[h].on = 0
  BY <1>1, <1>2, ReviewJobIs
<1>4. ASSUME NEW j, Step(h, j), j = Reviews!Idle \/ j.on = 0, UNCHANGED meetings,
             Len(projects') = Len(projects),
             \A p \in 1..Len(projects) : projects'[p].appointment = projects[p].appointment
      PROVE  SessionsMade'
  <2>1. \A p : Reviews!SessionsOf(p)' = Reviews!SessionsOf(p)
    BY <1>4, SameSessions
  <2>2. \A p \in 1..Len(projects') : p \notin 1..Len(projects) => projects'[p].appointment = 0
    BY <1>4
  <2> QED
    BY <1>3, <1>4, <2>1, <2>2, SessionsBeside, Zenon
<1>5. CASE \/ Reviews!InsertReview(h) \/ Reviews!InsertFiles(h) \/ Reviews!WriteDecision(h)
           \/ Reviews!ApproveMeeting(h) \/ Reviews!LinkProject(h) \/ Reviews!ApproveQuicksign(h)
  <2>1. UNCHANGED <<projects, meetings>>
    BY <1>5 DEF Reviews!InsertReview, Reviews!InsertFiles, Reviews!WriteDecision, Reviews!ApproveMeeting,
       Reviews!LinkProject, Reviews!ApproveQuicksign
  <2>2. PICK j : Step(h, j) /\ (j = Reviews!Idle \/ j.on = 0)
    <3>1. [at |-> "insert_files", on |-> 0].on = 0
      OBVIOUS
    <3> QED
      BY <1>1, <1>5, <3>1, InsertReviewDoes, InsertFilesDoes, WriteDecisionDoes, ApproveMeetingDoes, LinkDoes,
         ApproveQuicksignDoes, Zenon DEF SameQueue
  <2> QED
    BY <1>4, <2>1, <2>2
<1>6. CASE Reviews!ActivateProject(h)
  <2>1. UNCHANGED <<projects, meetings>>
    BY <1>6 DEF Reviews!ActivateProject
  <2>2. PICK j : /\ Step(h, j)
                 /\ IF k.answers
                      THEN j.at = "approve_quicksign" /\ j.on = 0 /\ j.file = k.file /\ j.answers
                           /\ j.project = k.project
                      ELSE j = Reviews!Idle
    BY <1>1, <1>6, ActivateDoes
  <2>3. j = Reviews!Idle \/ j.on = 0
    BY <2>2, Zenon
  <2> QED
    BY <1>4, <2>1, <2>2, <2>3
<1>7. CASE Reviews!OpenProject(h) \/ Reviews!RegisterSigner(h)
  <2>1. UNCHANGED meetings
    BY <1>7 DEF Reviews!OpenProject, Reviews!RegisterSigner
  <2>2. PICK j : Step(h, j) /\ SameQueue(j, k)
    BY <1>1, <1>7, OpenDoes, SignUpDoes
  <2>3. Touched(k.project)
    BY <1>1, <1>7, OpenDoes, SignUpDoes
  <2> QED
    BY <1>4, <2>1, <2>2, <2>3 DEF Touched, ProjectsWritten, SameQueue
<1>8. CASE Reviews!AttachDocuments(h)
  <2>1. PICK j : Step(h, j) /\ j.on = 0
    BY <1>1, <1>8, AttachDoes
  <2>2. /\ Len(meetings') = Len(meetings)
        /\ \A s \in 1..Len(meetings) : meetings'[s].project = meetings[s].project
    BY <1>1, <1>8, AttachDoes
  <2>3. \A p : Reviews!SessionsOf(p)' = Reviews!SessionsOf(p)
    BY <2>2, SessionsSame
  <2>4. UNCHANGED projects
    BY <1>8 DEF Reviews!AttachDocuments
  <2> QED
    BY <1>3, <2>1, <2>3, <2>4, SessionsBeside
<1>9. CASE Reviews!BookMeeting(h)
  <2>1. PICK j : Step(h, j) /\ j.on = 0
    BY <1>1, <1>9, BookDoes
  <2>2. /\ Len(meetings') = Len(meetings) + 1 /\ meetings'[Len(meetings) + 1].project = 0
        /\ \A s \in 1..Len(meetings) : meetings'[s] = meetings[s]
    BY <1>1, <1>9, BookDoes
  <2>3. \A p : p # 0 => Reviews!SessionsOf(p)' = Reviews!SessionsOf(p)
    BY <2>2, SessionsMore
  <2>4. UNCHANGED projects
    BY <1>9 DEF Reviews!BookMeeting
  <2> QED
    BY <1>3, <2>1, <2>3, <2>4, SessionsBeside
<1>10. CASE Reviews!InsertProject(h)
  <2>1. PICK j : Step(h, j) /\ j.on = 0
    BY <1>1, <1>10, InsertProjectDoes
  <2>2. /\ Len(projects') = Len(projects) + 1
        /\ \A q \in 1..Len(projects) : projects'[q] = projects[q]
        /\ projects'[Len(projects) + 1].appointment = 0
    BY <1>1, <1>10, InsertProjectDoes
  <2>3. \A p : Reviews!SessionsOf(p)' = Reviews!SessionsOf(p)
    BY <1>10, SameSessions DEF Reviews!InsertProject
  <2>4. Len(projects) \in Nat
    BY DEF RefsInv, ReviewData, ReviewTables
  <2>5. \A p \in 1..Len(projects') : p \notin 1..Len(projects) => projects'[p].appointment = 0
    BY <2>2, <2>4
  <2>6. \A p \in 1..Len(projects) : projects'[p].appointment = projects[p].appointment
    BY <2>2
  <2> QED
    BY <1>3, <2>1, <2>3, <2>5, <2>6, SessionsBeside, Zenon
<1> QED
  BY <1>5, <1>6, <1>7, <1>8, <1>9, <1>10, Zenon

LEMMA AdvanceSessions ==
  ASSUME RefsInv, SessionsMade, NEW h \in Requests, ~crowded', Reviews!CheckAdvance(h)
  PROVE  SessionsMade'
<1>1. PICK j :
        /\ Reviews!Arrive(h, j) /\ Step(h, j) /\ j.on = 0
        /\ projects' = projects \/ \E p \in 1..Len(projects) : Touched(p)
  <2>1. PICK f, j :
          /\ Reviews!Arrive(h, j) /\ Step(h, j)
          /\ j = [at |-> "insert_project", on |-> 0, file |-> f, answers |-> FALSE]
          /\ projects' = projects \/ \E p \in 1..Len(projects) : Touched(p)
    BY AdvanceDoes, Zenon
  <2>2. j.on = 0
    BY <2>1
  <2> QED
    BY <2>1, <2>2
<1>2. job[h] = Reviews!Idle
  BY <1>1, AloneArrives, Zenon DEF Reviews!Busy
<1>3. \A p : Reviews!SessionsOf(p)' = Reviews!SessionsOf(p)
  BY SameSessions DEF Reviews!CheckAdvance
<1>4. /\ Len(projects') = Len(projects)
      /\ \A p \in 1..Len(projects) : projects'[p].appointment = projects[p].appointment
  BY <1>1 DEF Touched, ProjectsWritten
<1>5. \A p \in 1..Len(projects') : p \notin 1..Len(projects) => projects'[p].appointment = 0
  BY <1>4
<1> QED
  BY <1>1, <1>2, <1>3, <1>4, <1>5, SessionsBeside, Zenon

LEMMA NextSessions ==
  ASSUME RefsInv, TurnInv, SessionsMade, Reviews!Next \/ UNCHANGED Reviews!vars, ~crowded', ~crashed'
  PROVE  SessionsMade'
<1>0. RefsInv'
  BY NextRefs
<1>1. ASSUME NEW h \in Requests,
             \/ Reviews!CheckCreate(h) \/ Reviews!CheckApproveMeeting(h) \/ Reviews!CheckApproveQuicksign(h)
             \/ \E s \in {"rejected", "cancelled"} : Reviews!CheckDecide(h, s)
             \/ \E p \in Reviews!ProjectIds : Reviews!CheckFinalize(h, p)
      PROVE  SessionsMade'
  BY <1>0, <1>1, CheckSessions
<1>2. ASSUME NEW h \in Requests,
             \/ Reviews!InsertReview(h) \/ Reviews!InsertFiles(h) \/ Reviews!WriteDecision(h)
             \/ Reviews!BookMeeting(h) \/ Reviews!AttachDocuments(h) \/ Reviews!ApproveMeeting(h)
             \/ Reviews!InsertProject(h) \/ Reviews!OpenProject(h) \/ Reviews!RegisterSigner(h)
             \/ Reviews!LinkProject(h) \/ Reviews!ActivateProject(h) \/ Reviews!ApproveQuicksign(h)
      PROVE  SessionsMade'
  BY <1>0, <1>2, ReviewSessions
<1>3. ASSUME NEW h \in Requests,
             \/ Reviews!CheckAdvance(h)
             \/ Reviews!StartSession(h) \/ Reviews!InsertDocument(h) \/ Reviews!BindSession(h)
      PROVE  SessionsMade'
  BY <1>0, <1>3, AdvanceSessions, ProjectSessions, Zenon
<1>4. ASSUME NEW h \in Requests, Reviews!Abort(h) PROVE FALSE
  BY <1>4, Zenon DEF Reviews!Abort
<1>5. ASSUME UNCHANGED <<meetings, job>>, Len(projects') = Len(projects),
             \A p \in 1..Len(projects) : projects'[p].appointment = projects[p].appointment
      PROVE  SessionsMade'
  <2>1. \A p : Reviews!SessionsOf(p)' = Reviews!SessionsOf(p)
    BY <1>5, SameSessions
  <2>2. \A p \in 1..Len(projects) : Reviews!Quiet(p)' => Reviews!Quiet(p)
    BY <1>5 DEF Reviews!Quiet, Reviews!Busy, Reviews!Idle
  <2>3. \A p \in 1..Len(projects') :
          Reviews!Quiet(p)' => Reviews!SessionsOf(p)' = {projects'[p].appointment} \ {0}
    BY <1>5, <2>1, <2>2 DEF SessionsMade
  <2>4. ASSUME NEW g \in Requests PROVE SessionOK(job[g])'
    <3>1. PICK k : k = job[g]
      OBVIOUS
    <3>2. RefsOK(k) /\ SessionOK(k)
      BY <3>1 DEF SessionsMade, RefsInv, ReviewRefs
    <3>3. SessionOK(k)'
      BY <1>5, <2>1, <3>2 DEF SessionOK, RefsOK, SessionJobs
    <3> QED
      BY <1>5, <3>1, <3>3, Zenon DEF SessionOK
  <2> QED
    BY <2>3, <2>4 DEF SessionsMade
<1>6. CASE UNCHANGED Reviews!vars
  BY <1>5, <1>6 DEF Reviews!vars
<1>7. ASSUME NEW p \in Reviews!ProjectIds, Touching(p) PROVE SessionsMade'
  BY <1>5, <1>7, TouchingDoes DEF Touched, ProjectsWritten
<1> QED
  BY <1>1, <1>2, <1>3, <1>4, <1>6, <1>7, Zenon DEF Reviews!Next, Touching

LEMMA NextReviews ==
  ASSUME ReviewInv, Reviews!Next \/ UNCHANGED Reviews!vars
  PROVE  ReviewInv'
<1>1. RefsInv
  BY DEF ReviewInv, RefsInv
<1>2. RefsInv'
  BY <1>1, NextRefs
<1>3. ~crowded' => TurnInv'
  BY <1>1, NextTurn DEF ReviewInv
<1>4. (crowded => crowded') /\ (crashed => crashed')
  <2>1. CASE UNCHANGED Reviews!vars
    BY <2>1 DEF Reviews!vars
  <2>2. CASE \E p \in Reviews!ProjectIds : Touching(p)
    BY <1>1, <2>2, TouchingDoes
  <2>3. ASSUME NEW h \in Requests,
               \/ \E j : Reviews!Arrive(h, j) \/ Reviews!Goto(h, j)
               \/ Reviews!Abort(h)
        PROVE  (crowded => crowded') /\ (crashed => crashed')
    <3>1. CASE \E j : Reviews!Arrive(h, j)
      <4>1. (~crowded' => ~crowded) /\ UNCHANGED crashed
        BY <3>1, Zenon DEF Reviews!Arrive
      <4> QED
        BY <4>1
    <3>2. CASE \E j : Reviews!Goto(h, j)
      BY <3>2 DEF Reviews!Goto
    <3>3. CASE Reviews!Abort(h)
      BY <3>3 DEF Reviews!Abort
    <3> QED
      BY <2>3, <3>1, <3>2, <3>3, Zenon
  <2>4. ASSUME NEW h \in Requests,
               \/ Reviews!CheckCreate(h) \/ Reviews!CheckApproveMeeting(h) \/ Reviews!CheckApproveQuicksign(h)
               \/ \E s \in {"rejected", "cancelled"} : Reviews!CheckDecide(h, s)
               \/ \E p \in Reviews!ProjectIds : Reviews!CheckFinalize(h, p)
               \/ Reviews!CheckAdvance(h)
        PROVE  \E j : Reviews!Arrive(h, j)
    BY <2>4, Zenon DEF Reviews!CheckCreate, Reviews!CheckApproveMeeting, Reviews!CheckApproveQuicksign,
       Reviews!CheckDecide, Reviews!CheckFinalize, Reviews!CheckAdvance
  <2>5. ASSUME NEW h \in Requests,
               \/ Reviews!InsertReview(h) \/ Reviews!InsertFiles(h) \/ Reviews!WriteDecision(h)
               \/ Reviews!BookMeeting(h) \/ Reviews!AttachDocuments(h) \/ Reviews!ApproveMeeting(h)
               \/ Reviews!InsertProject(h) \/ Reviews!OpenProject(h) \/ Reviews!RegisterSigner(h)
               \/ Reviews!LinkProject(h) \/ Reviews!ActivateProject(h) \/ Reviews!ApproveQuicksign(h)
               \/ Reviews!StartSession(h) \/ Reviews!InsertDocument(h) \/ Reviews!BindSession(h)
        PROVE  \E j : Reviews!Goto(h, j)
    BY <2>5, Zenon DEF Reviews!InsertReview, Reviews!InsertFiles, Reviews!WriteDecision, Reviews!BookMeeting,
       Reviews!AttachDocuments, Reviews!ApproveMeeting, Reviews!InsertProject, Reviews!OpenProject,
       Reviews!RegisterSigner, Reviews!LinkProject, Reviews!ActivateProject, Reviews!ApproveQuicksign,
       Reviews!StartSession, Reviews!InsertDocument, Reviews!BindSession
  <2> QED
    BY <2>1, <2>2, <2>3, <2>4, <2>5, Zenon DEF Reviews!Next, Touching
<1>5. ASSUME ~crowded', ~crashed' PROVE ReviewMade' /\ SessionsMade'
  <2>1. TurnInv /\ ReviewMade /\ SessionsMade
    BY <1>4, <1>5, Zenon DEF ReviewInv
  <2> QED
    BY <1>1, <1>5, <2>1, NextMade, NextSessions
<1> QED
  BY <1>2, <1>3, <1>5, Zenon DEF ReviewInv, RefsInv

LEMMA ReviewsStay ==
  ASSUME active = "reviews" => ReviewInv, [ServicesNext]_servicesVars
  PROVE  active' = "reviews" => ReviewInv'
<1>1. active' = active /\ (active = "reviews" => Reviews!Next \/ UNCHANGED Reviews!vars)
  BY OneService
<1> QED
  BY <1>1, NextReviews

\* The review's tables agree when the review is in play.
LEMMA ReviewsInvariance == ServicesSpec => [](active = "reviews" => ReviewInv)
<1>1. ServicesInit => (active = "reviews" => ReviewInv)
  BY InitReviews DEF ServicesInit
<1>2. (active = "reviews" => ReviewInv) /\ [ServicesNext]_servicesVars => (active = "reviews" => ReviewInv)'
  BY ReviewsStay
<1> QED
  BY <1>1, <1>2, PTL DEF ServicesSpec

\* For any requests, documents and rows: whatever overlaps or stops halfway, a document of a review's
\* queue has a project of its own that can be signed; and while no two requests on one review or one
\* project overlap, documents enter the queue in their order, each after the one before it has been
\* completed, and an approved review's meeting has all the documents (DocumentReviewRequestsService).
THEOREM QueueStaysInOrder == ServicesSpec => []QueueInOrder
<1>1. (active = "reviews" => ReviewInv) => QueueInOrder
  <2> SUFFICES ASSUME ReviewInv PROVE Reviews!QueueInOrder
    BY DEF QueueInOrder
  <2>1. QueuedOK
    BY DEF ReviewInv, ReviewRefs
  <2>2. ~crowded =>
          /\ \A f \in Reviews!Linked : \A g \in 1..(f - 1) : g \in Reviews!Linked /\ projects[link[g]].finished
          /\ review.appointment # 0 => meetings[review.appointment].documents = Len(link)
    BY DEF ReviewInv, TurnInv
  <2> QED
    BY <2>1, <2>2, Zenon DEF Reviews!QueueInOrder, QueuedOK
<1> QED
  BY <1>1, ReviewsInvariance, PTL

\* And while, besides, no request stops halfway, a review has one outcome: between requests its status,
\* its path and what has been made agree, its one meeting or the queue of its projects, and nothing that
\* was made is without its review; and a project has at most the one session it names (ditto, and
\* QuicksignService).
THEOREM OutcomeIsOne == ServicesSpec => []OneOutcome
<1>1. (active = "reviews" => ReviewInv) => OneOutcome
  <2> SUFFICES ASSUME ReviewInv, ~crowded, ~crashed PROVE Reviews!OneOutcome
    BY DEF OneOutcome, Reviews!OneOutcome
  <2>1. ReviewMade /\ SessionsMade
    BY DEF ReviewInv
  <2>2. Reviews!ProjectIds = 1..Len(projects)
    BY DEF Reviews!ProjectIds, ReviewInv, ReviewData, ReviewTables
  <2>3. Reviews!Quiet(0) =>
          /\ Reviews!Meetings = {review.appointment} \ {0}
          /\ Reviews!ProjectIds = {link[f] : f \in Reviews!Linked}
          /\ review.active = Reviews!Latest
          /\ review.path = "meeting" <=> review.appointment # 0
          /\ review.path = "quicksign" <=> review.active # 0
          /\ review.status = "approved" <=> review.path # "none"
    BY <2>1, <2>2, Zenon DEF ReviewMade, Settled
  <2>4. \A p \in Reviews!ProjectIds :
          Reviews!Quiet(p) => Reviews!SessionsOf(p) = {projects[p].appointment} \ {0}
    BY <2>1, <2>2, Zenon DEF SessionsMade
  <2> QED
    BY <2>3, <2>4, Zenon DEF Reviews!OneOutcome
<1> QED
  BY <1>1, ReviewsInvariance, PTL

-----------------------------------------------------------------------------
(* The types of all services *)

\* What has happened is so or not.
FlagsInv == {late, crowded, crashed, reviewed} \subseteq BOOLEAN

LEMMA CodesFlags ==
  ASSUME FlagsInv, Codes!Next
  PROVE  {crowded, crashed}' \subseteq BOOLEAN
<1>1. CASE Codes!Tick \/ \E s \in Docs : Codes!SignIn(s)
  BY <1>1 DEF Codes!Tick, Codes!SignIn, FlagsInv
<1>2. ASSUME NEW h \in Requests, NEW j, Codes!Arrive(h, j) PROVE {crowded, crashed}' \subseteq BOOLEAN
  <2>1. crowded' \in BOOLEAN
    BY <1>2, Zenon DEF Codes!Arrive
  <2>2. UNCHANGED crashed
    BY <1>2 DEF Codes!Arrive
  <2> QED
    BY <2>1, <2>2 DEF FlagsInv
<1>3. ASSUME NEW h \in Requests, NEW j, Codes!Goto(h, j)
      PROVE  {crowded, crashed}' \subseteq BOOLEAN
  BY <1>3 DEF Codes!Goto, FlagsInv
<1>4. ASSUME NEW h \in Requests, Codes!Abort(h) PROVE {crowded, crashed}' \subseteq BOOLEAN
  BY <1>4 DEF Codes!Abort, FlagsInv
<1>5. ASSUME NEW h \in Requests,
             \/ \E s \in Docs : Codes!RequestMfa(h, s) \/ \E c \in Codes!CodeIds : Codes!VerifyMfa(h, s, c)
      PROVE  \E j : Codes!Arrive(h, j)
  BY <1>5, Zenon DEF Codes!RequestMfa, Codes!VerifyMfa
<1>6. ASSUME NEW h \in Requests,
             \/ Codes!InsertCode(h) \/ Codes!SendCode(h) \/ Codes!SendFails(h) \/ Codes!DeleteCode(h)
             \/ Codes!AcceptMfa(h)
      PROVE  \E j : Codes!Goto(h, j)
  BY <1>6, Zenon DEF Codes!InsertCode, Codes!SendCode, Codes!SendFails, Codes!DeleteCode, Codes!AcceptMfa
<1> QED
  BY <1>1, <1>2, <1>3, <1>4, <1>5, <1>6, Zenon DEF Codes!Next

LEMMA LogFlags ==
  ASSUME FlagsInv, Log!Next
  PROVE  late' \in BOOLEAN
<1>1. late' = late \/ \E r \in Docs : Log!AppendRow(r)
  BY Zenon DEF Log!Next, Log!LogAccess, Log!LogExport, Log!Tick, Log!ReadHead, Log!InsertExport, Log!ChangeRow,
     Log!DeleteRow
<1>2. ASSUME NEW r \in Docs, Log!AppendRow(r) PROVE late' \in BOOLEAN
  BY <1>2, Zenon DEF Log!AppendRow
<1> QED
  BY <1>1, <1>2 DEF FlagsInv

LEMMA CopiesFlags ==
  ASSUME FlagsInv, Copies!Next
  PROVE  crowded' \in BOOLEAN
<1>1. UNCHANGED crowded \/ \E h \in Requests : \E j : Copies!Arrive(h, j) \/ Copies!Goto(h, j)
  BY Zenon DEF Copies!Next, Copies!Capture, Copies!Webhook, Copies!AdminMarks, Copies!ReapPending,
     Copies!CheckVirtual, Copies!CheckCopy, Copies!InsertRequest, Copies!CheckDecide, Copies!WriteDecision,
     Copies!CheckPay, Copies!CancelActive, Copies!InsertIntent, Copies!LinkIntent, Copies!WriteRequest,
     Copies!CheckPoll, Copies!WritePoll, Copies!Abort
<1>2. ASSUME NEW h \in Requests, NEW j, Copies!Arrive(h, j) PROVE crowded' \in BOOLEAN
  BY <1>2, Zenon DEF Copies!Arrive
<1> QED
  BY <1>1, <1>2 DEF FlagsInv, Copies!Goto

LEMMA IdentityFlags ==
  ASSUME FlagsInv, Identities!Next
  PROVE  reviewed' \in BOOLEAN
<1>1. UNCHANGED reviewed \/ reviewed' = TRUE
  BY Zenon DEF Identities!Next, Identities!Tick, Identities!StartAttempt, Identities!CheckCallback,
     Identities!ReviewTxn, Identities!WriteCallback, Identities!StoreIdExpiry, Identities!CheckExpiry,
     Identities!ResetIdentity, Identities!ReviewProfile, Identities!Abort
<1> QED
  BY <1>1 DEF FlagsInv

LEMMA ReviewsFlags ==
  ASSUME FlagsInv, Reviews!Next
  PROVE  {crowded, crashed}' \subseteq BOOLEAN
<1>1. ASSUME NEW h \in Requests, NEW j, Reviews!Arrive(h, j) PROVE {crowded, crashed}' \subseteq BOOLEAN
  <2>1. crowded' \in BOOLEAN
    BY <1>1, Zenon DEF Reviews!Arrive
  <2>2. UNCHANGED crashed
    BY <1>1 DEF Reviews!Arrive
  <2> QED
    BY <2>1, <2>2 DEF FlagsInv
<1>2. ASSUME NEW h \in Requests, NEW j, Reviews!Goto(h, j) PROVE {crowded, crashed}' \subseteq BOOLEAN
  BY <1>2 DEF Reviews!Goto, FlagsInv
<1>3. ASSUME NEW h \in Requests, Reviews!Abort(h) PROVE {crowded, crashed}' \subseteq BOOLEAN
  BY <1>3 DEF Reviews!Abort, FlagsInv
<1>4. ASSUME NEW p \in Reviews!ProjectIds, Touching(p) PROVE {crowded, crashed}' \subseteq BOOLEAN
  <2>1. UNCHANGED <<crowded, crashed>>
    BY <1>4, Zenon DEF Touching, Reviews!Plot, Reviews!Reopen, Reviews!Complete
  <2> QED
    BY <2>1 DEF FlagsInv
<1>5. ASSUME NEW h \in Requests,
             \/ Reviews!CheckCreate(h) \/ Reviews!CheckApproveMeeting(h) \/ Reviews!CheckApproveQuicksign(h)
             \/ \E s \in {"rejected", "cancelled"} : Reviews!CheckDecide(h, s)
             \/ \E p \in Reviews!ProjectIds : Reviews!CheckFinalize(h, p)
             \/ Reviews!CheckAdvance(h)
      PROVE  \E j : Reviews!Arrive(h, j)
  BY <1>5, Zenon DEF Reviews!CheckCreate, Reviews!CheckApproveMeeting, Reviews!CheckApproveQuicksign,
     Reviews!CheckDecide, Reviews!CheckFinalize, Reviews!CheckAdvance
<1>6. ASSUME NEW h \in Requests,
             \/ Reviews!InsertReview(h) \/ Reviews!InsertFiles(h) \/ Reviews!WriteDecision(h)
             \/ Reviews!BookMeeting(h) \/ Reviews!AttachDocuments(h) \/ Reviews!ApproveMeeting(h)
             \/ Reviews!InsertProject(h) \/ Reviews!OpenProject(h) \/ Reviews!RegisterSigner(h)
             \/ Reviews!LinkProject(h) \/ Reviews!ActivateProject(h) \/ Reviews!ApproveQuicksign(h)
             \/ Reviews!StartSession(h) \/ Reviews!InsertDocument(h) \/ Reviews!BindSession(h)
      PROVE  \E j : Reviews!Goto(h, j)
  BY <1>6, Zenon DEF Reviews!InsertReview, Reviews!InsertFiles, Reviews!WriteDecision, Reviews!BookMeeting,
     Reviews!AttachDocuments, Reviews!ApproveMeeting, Reviews!InsertProject, Reviews!OpenProject,
     Reviews!RegisterSigner, Reviews!LinkProject, Reviews!ActivateProject, Reviews!ApproveQuicksign,
     Reviews!StartSession, Reviews!InsertDocument, Reviews!BindSession
<1> QED
  BY <1>1, <1>2, <1>3, <1>4, <1>5, <1>6, Zenon DEF Reviews!Next, Touching

\* A verification's outcome is one that the service gives, or an administrator's.
Outcomes == \A t \in Identities!TxnIds : txns[t].status \in {"absent", "started", "success", "fail"} \cup Results

LEMMA NextOutcomes ==
  ASSUME IdentityInv, Outcomes, Identities!Next \/ UNCHANGED Identities!vars
  PROVE  Outcomes'
<1>1. ASSUME NEW kind \in {"onboarding", "liveness"}, NEW id \in Identities!Dates \cup {0},
             Identities!StartAttempt(kind, id)
      PROVE  Outcomes'
  <2> DEFINE r == [Identities!NoTxn EXCEPT !.kind = kind, !.status = "started", !.id = id]
  <2>1. PICK t \in Identities!TxnIds : txns' = [txns EXCEPT ![t] = r]
    BY <1>1, Zenon DEF Identities!StartAttempt
  <2>2. r.status = "started"
    <3>1. id \in Nat
      BY DEF Identities!Dates
    <3> QED
      BY <3>1, StartedIs
  <2> HIDE DEF r
  <2> QED
    BY <2>1, <2>2 DEF Outcomes, IdentityInv, IdentityData, IdTxns
<1>2. ASSUME NEW h \in Requests, Identities!WriteCallback(h) PROVE Outcomes'
  <2> DEFINE t == job[h].txn
  <2>1. t \in Identities!TxnIds /\ job[h].result \in Results
    <3>1. job[h] \in Identities!Jobs /\ job[h].at = "write"
      BY <1>2 DEF Identities!WriteCallback, IdentityInv, IdentityData
    <3> QED
      BY <3>1 DEF Identities!Jobs, Identities!Idle
  <2>2. txns' = [txns EXCEPT ![t].status = job[h].result, ![t][job[h].channel] = TRUE]
    BY <1>2, Zenon DEF Identities!WriteCallback, Identities!Received
  <2>3. \A s \in Identities!TxnIds : txns'[s].status = txns[s].status \/ txns'[s].status = job[h].result
    <3>1. job[h].channel \in {"sdk", "webhook"}
      BY <1>2, IdentityJobs DEF Identities!WriteCallback, IdentityInv
    <3> QED
      BY <2>1, <2>2, <3>1 DEF IdentityInv, IdentityData, IdTxns
  <2> QED
    BY <2>1, <2>3 DEF Outcomes
<1>3. ASSUME NEW h \in Requests, NEW t \in Identities!TxnIds, NEW r \in {"success", "fail"},
             Identities!ReviewTxn(h, t, r)
      PROVE  Outcomes'
  <2>1. txns' = [txns EXCEPT ![t].status = r]
    BY <1>3 DEF Identities!ReviewTxn
  <2> QED
    BY <2>1 DEF Outcomes, IdentityInv, IdentityData, IdTxns
<1>4. CASE UNCHANGED txns
  BY <1>4 DEF Outcomes
<1>5. \/ UNCHANGED txns
      \/ \E kind \in {"onboarding", "liveness"}, id \in Identities!Dates \cup {0} :
            Identities!StartAttempt(kind, id)
      \/ \E h \in Requests :
            \/ Identities!WriteCallback(h)
            \/ \E t \in Identities!TxnIds, r \in {"success", "fail"} : Identities!ReviewTxn(h, t, r)
  <2>1. CASE UNCHANGED Identities!vars
    BY <2>1 DEF Identities!vars
  <2>2. CASE Identities!Next
    BY <2>2, Zenon DEF Identities!Next, Identities!Tick, Identities!CheckCallback, Identities!StoreIdExpiry,
       Identities!CheckExpiry, Identities!ResetIdentity, Identities!ReviewProfile, Identities!Abort
  <2> QED
    BY <2>1, <2>2
<1> QED
  BY <1>1, <1>2, <1>3, <1>4, <1>5, Zenon

LEMMA NextFlags ==
  ASSUME FlagsInv, active = "book" => IInv, [ServicesNext]_servicesVars
  PROVE  FlagsInv'
<1>1. CASE UNCHANGED servicesVars
  BY <1>1 DEF servicesVars, requestVars, logVars, codesVars, identityVars, FlagsInv
<1>2. CASE active = "book" /\ Next /\ UNCHANGED <<logVars, codesVars, identityVars>>
  <2>1. IInv'
    BY <1>2, NextKeeps
  <2> QED
    BY <1>2, <2>1 DEF IInv, TypeOK, FlagsInv, logVars, codesVars, identityVars
<1>3. CASE Log!Next /\ UNCHANGED <<codesVars, identityVars, requestVars>>
  BY <1>3, LogFlags DEF FlagsInv, codesVars, identityVars, requestVars
<1>4. CASE Codes!Next /\ UNCHANGED <<logVars, identityVars>>
  BY <1>4, CodesFlags DEF FlagsInv, logVars, identityVars
<1>5. CASE Copies!Next /\ UNCHANGED <<logVars, codesVars, identityVars, crashed>>
  BY <1>5, CopiesFlags DEF FlagsInv, logVars, codesVars, identityVars
<1>6. CASE Reviews!Next /\ UNCHANGED <<logVars, codesVars, identityVars>>
  BY <1>6, ReviewsFlags DEF FlagsInv, logVars, codesVars, identityVars
<1>7. CASE Identities!Next /\ UNCHANGED <<logVars, codesVars, crowded, crashed>>
  BY <1>7, IdentityFlags DEF FlagsInv, logVars, codesVars
<1> QED
  BY <1>1, <1>2, <1>3, <1>4, <1>5, <1>6, <1>7 DEF ServicesNext

\* What the notarial book of a meeting keeps when it is the service in play, and the flags.
LEMMA BookInvariance == ServicesSpec => [](FlagsInv /\ (active = "book" => IInv))
<1>1. ServicesInit => FlagsInv /\ (active = "book" => IInv)
  BY InitIInv DEF ServicesInit, Init, Log!Init, Codes!Init, Identities!Init, FlagsInv
<1>2. FlagsInv /\ (active = "book" => IInv) /\ [ServicesNext]_servicesVars
        => (FlagsInv /\ (active = "book" => IInv))'
  BY OneService, NextKeeps, NextFlags
<1> QED
  BY <1>1, <1>2, PTL DEF ServicesSpec

LEMMA OutcomesInvariance == ServicesSpec => [](active = "identity" => Outcomes)
<1>1. ServicesInit => (active = "identity" => Outcomes)
  BY DEF ServicesInit, Identities!Init, Identities!NoTxn, Outcomes
<1>2. /\ active = "identity" => IdentityInv
      /\ active = "identity" => Outcomes
      /\ [ServicesNext]_servicesVars
      => (active = "identity" => Outcomes)'
  BY OneService, NextOutcomes
<1> QED
  BY <1>1, <1>2, IdentityInvariance, PTL DEF ServicesSpec

\* Every column of every service keeps its type: no clock, row number or foreign key leaves the
\* range of the rows that are there, an intent that was paid has a link, and a code that was mailed
\* is a row.
THEOREM TypesCorrect == ServicesSpec => []TypesOK
<1>1. FlagsInv /\ IInv => TypeOK
  BY DEF IInv
<1>2. FlagsInv /\ LogIInv => Log!TypeOK
  <2> SUFFICES ASSUME FlagsInv, LogIInv PROVE Log!TypeOK
    OBVIOUS
  <2>1. appended \in 0..MaxRows
    BY UsedFits DEF LogIInv
  <2> QED
    BY <2>1 DEF FlagsInv, LogIInv, LogTypes, LogInv, LogRows, HeadInv, Log!TypeOK
<1>3. FlagsInv /\ CodesIInv => Codes!TypeOK
  BY DEF FlagsInv, CodesIInv, CodesInv, CodesData, Codes!TypeOK
<1>4. FlagsInv /\ CopiesIInv => Copies!TypeOK
  BY DEF FlagsInv, CopiesIInv, CopyInv, CopyRows, CopyRow, IntentRow, IntentsOK, Copies!TypeOK
<1>5. FlagsInv /\ ReviewInv => Reviews!TypeOK
  BY DEF FlagsInv, ReviewInv, ReviewData, ReviewTables, ReviewRow, ProjectRow, MeetingRow, Reviews!TypeOK
<1>6. FlagsInv /\ IdentityInv /\ Outcomes => Identities!TypeOK
  <2> SUFFICES ASSUME FlagsInv, IdentityInv, Outcomes PROVE Identities!TypeOK
    OBVIOUS
  <2> DEFINE S == {"absent", "started", "success", "fail"} \cup Results
             T == [kind : {"onboarding", "liveness"}, status : S,
                   sdk : BOOLEAN, webhook : BOOLEAN, id : Identities!Dates \cup {0}]
  <2>1. ASSUME NEW t \in Identities!TxnIds PROVE txns[t] \in T
    <3>1. txns[t].status \in S
      BY DEF Outcomes
    <3> QED
      BY <3>1 DEF IdentityInv, IdentityData, IdTxns
  <2>2. txns \in [Identities!TxnIds -> T]
    BY <2>1 DEF IdentityInv, IdentityData, IdTxns
  <2> QED
    BY <2>2 DEF FlagsInv, IdentityInv, IdentityData, Identities!TypeOK
<1>7. /\ FlagsInv /\ (active = "book" => IInv)
      /\ active = "log" => LogIInv
      /\ active = "codes" => CodesIInv
      /\ active = "copies" => CopiesIInv
      /\ active = "reviews" => ReviewInv
      /\ active = "identity" => IdentityInv
      /\ active = "identity" => Outcomes
      => TypesOK
  BY <1>1, <1>2, <1>3, <1>4, <1>5, <1>6 DEF TypesOK
<1> QED
  BY <1>7, BookInvariance, LogInvariance, CodesInvariance, CopiesInvariance, ReviewsInvariance,
     IdentityInvariance, OutcomesInvariance, PTL

-----------------------------------------------------------------------------
(* The services *)

\* The service chosen at the start behaves as its own specification says, so that what
\* NotarialBookProofs proves of the book holds of a behaviour about a book: requests share a
\* variable with those of no other service, because no other is in play.
THEOREM Composes ==
    ServicesSpec =>
      /\ active = "book" => Spec
      /\ active = "log" => Log!Spec
      /\ active = "codes" => Codes!Spec
      /\ active = "copies" => Copies!Spec
      /\ active = "reviews" => Reviews!Spec
      /\ active = "identity" => Identities!Spec
<1>1. ServicesInit => Init /\ Log!Init /\ Codes!Init /\ Copies!Init /\ Reviews!Init /\ Identities!Init
  BY DEF ServicesInit
<1>2. /\ active = "book" /\ [ServicesNext]_servicesVars => [Next]_vars /\ (active = "book")'
      /\ active = "log" /\ [ServicesNext]_servicesVars => [Log!Next]_(Log!vars) /\ (active = "log")'
      /\ active = "codes" /\ [ServicesNext]_servicesVars => [Codes!Next]_(Codes!vars) /\ (active = "codes")'
      /\ active = "copies" /\ [ServicesNext]_servicesVars => [Copies!Next]_(Copies!vars) /\ (active = "copies")'
      /\ active = "reviews" /\ [ServicesNext]_servicesVars => [Reviews!Next]_(Reviews!vars) /\ (active = "reviews")'
      /\ active = "identity" /\ [ServicesNext]_servicesVars
           => [Identities!Next]_(Identities!vars) /\ (active = "identity")'
  BY OneService
<1> QED
  BY <1>1, <1>2, PTL DEF ServicesSpec, Spec, Log!Spec, Codes!Spec, Copies!Spec, Reviews!Spec,
     Identities!Spec
=============================================================================
