---------------------------- MODULE MCProgressProofs ----------------------------
(***************************************************************************)
(* For any requests and acts, with every overlap, loss and crash, an act   *)
(* that shows as synced is registered; unless submissions overlap or an    *)
(* answer is lost, it is registered once.  Until requests overlap, the     *)
(* refreshes of the commission status leave alone what an administrator    *)
(* set.                                                                    *)
(***************************************************************************)
EXTENDS MCProgress, CertExamProofs

-----------------------------------------------------------------------------
(* One component at a time *)

progressVars == <<active, examVars, registryVars>>

\* A behaviour is one of the component that was chosen at the start.
LEMMA OneComponent ==
    ASSUME [ProgressNext]_progressVars
    PROVE  /\ active' = active
           /\ active = "exam" => [Next]_vars
           /\ active = "registry" => [Registry!Next]_(Registry!vars)
<1>1. CASE UNCHANGED progressVars
  BY <1>1 DEF progressVars, examVars, registryVars, vars, Registry!vars
<1>2. CASE ProgressNext
  BY <1>2 DEF ProgressNext
<1> QED
  BY <1>1, <1>2

-----------------------------------------------------------------------------
(* The registry: its types *)

Filing == {"pdf", "query", "persist", "file"}

\* A submission is about an act; what is stored is a status of the Supreme Court.
LEMMA RegistryJobs ==
    ASSUME NEW j \in Registry!Jobs
    PROVE  /\ j.at \in Filing \cup {"synced", "failed"} =>
                 /\ j.act \in Acts /\ j.by \in {"insert", "bulk"}
                 /\ j = [at |-> j.at, act |-> j.act, by |-> j.by]
           /\ j.at \in {"ask", "store"} => j.by \in {"refresh", "admin"}
           /\ j.at = "store" => j.status \in Registry!Statuses
           /\ j.at = "idle" => j = Registry!Idle
  BY DEF Registry!Jobs, Registry!Idle, Registry!Statuses, Filing

-----------------------------------------------------------------------------
(* The registry: what a submission knows, whatever overlaps *)

\* A success that is on its way to the row, or has reached it, was registered.
SyncedInv ==
    /\ \A h \in Requests : syncing[h].at = "synced" => filings[syncing[h].act] > 0
    /\ \A a \in Acts :
          /\ acts[a].ref => filings[a] > 0 /\ acts[a].status # "absent"
          /\ acts[a].status = "synced" => acts[a].ref

\* Without overlaps and losses: one request at a time, which files what is not registered
\* yet; and a registration is the row's, or that of the request that will write it.
AloneFiling ==
    ~syncCrowded =>
        /\ \A g, h \in Requests : Registry!Busy(g) /\ Registry!Busy(h) => g = h
        /\ \A h \in Requests :
              syncing[h].at \in {"ask", "store"} /\ syncing[h].by = "refresh" => ~profile.override
        /\ ~lost =>
              /\ \A h \in Requests :
                    syncing[h].at \in Filing \cup {"failed"} => filings[syncing[h].act] = 0
              /\ \A a \in Acts :
                    /\ filings[a] <= 1
                    /\ filings[a] = 1 =>
                          acts[a].ref \/ \E h \in Requests : syncing[h].at = "synced" /\ syncing[h].act = a

RegistryInv == Registry!TypeOK /\ SyncedInv /\ AloneFiling

LEMMA InitRegistry == Registry!Init => RegistryInv
<1> SUFFICES ASSUME Registry!Init PROVE RegistryInv
  OBVIOUS
<1>1. Registry!Idle \in Registry!Jobs /\ Registry!Idle.at = "idle"
  BY DEF Registry!Idle, Registry!Jobs
<1>2. \A h \in Requests : syncing[h] = Registry!Idle
  BY DEF Registry!Init
<1>3. \A a \in Acts : filings[a] = 0 /\ acts[a].status = "absent" /\ acts[a].ref = FALSE
  BY DEF Registry!Init
<1>4. Registry!TypeOK
  <2>1. filings \in [Acts -> 0..MaxFilings]
    BY RegistryAssumption DEF Registry!Init
  <2>2. syncing \in [Requests -> Registry!Jobs]
    BY <1>1 DEF Registry!Init
  <2> QED
    BY <2>1, <2>2 DEF Registry!Init, Registry!TypeOK, Registry!Statuses
<1> QED
  BY <1>1, <1>2, <1>3, <1>4 DEF RegistryInv, SyncedInv, AloneFiling, Registry!Busy, Filing

LEMMA RegistryMoves ==
    ASSUME syncing \in [Requests -> Registry!Jobs], NEW h \in Requests, NEW j \in Registry!Jobs,
           syncing' = [syncing EXCEPT ![h] = j]
    PROVE  /\ syncing' \in [Requests -> Registry!Jobs]
           /\ syncing'[h] = j
           /\ \A g \in Requests : g # h => syncing'[g] = syncing[g]
  OBVIOUS

\* A submission that goes on is about the same act.
LEMMA SubmissionGoesOn ==
    ASSUME NEW j \in Registry!Jobs, j.at \in Filing \cup {"synced", "failed"},
           NEW at \in Filing \cup {"synced", "failed"}
    PROVE  LET k == [j EXCEPT !.at = at]
           IN  k \in Registry!Jobs /\ k.at = at /\ k.act = j.act /\ k.by = j.by
<1>1. j = [at |-> j.at, act |-> j.act, by |-> j.by] /\ j.act \in Acts /\ j.by \in {"insert", "bulk"}
  BY RegistryJobs
<1>2. [j EXCEPT !.at = at] = [at |-> at, act |-> j.act, by |-> j.by]
  BY <1>1
<1> QED
  BY <1>1, <1>2 DEF Registry!Jobs, Filing

-----------------------------------------------------------------------------
(* The registry: what an action does *)

\* Requests that arrive: of which kind, and what they know.
LEMMA CallDoes ==
    ASSUME NEW h \in Requests, Registry!Call(h)
    PROVE  \E j \in Registry!Jobs :
              /\ Registry!Arrive(h, j) /\ UNCHANGED profile
              /\ \/ /\ j.at = "pdf" /\ j.act \in Acts
                    /\ \/ acts[j.act].status = "absent" /\ acts' = [acts EXCEPT ![j.act].status = "draft"]
                       \/ acts[j.act].status # "absent" /\ ~acts[j.act].ref /\ UNCHANGED acts
                 \/ /\ j.at = "ask" /\ (j.by = "refresh" => ~profile.override)
                    /\ UNCHANGED acts
<1>1. ASSUME NEW a \in Acts, NEW by \in {"insert", "bulk"}
      PROVE  [at |-> "pdf", act |-> a, by |-> by] \in Registry!Jobs
  BY DEF Registry!Jobs
<1>2. ASSUME NEW by \in {"refresh", "admin"}
      PROVE  [at |-> "ask", by |-> by] \in Registry!Jobs
  BY DEF Registry!Jobs
<1>3. CASE \E a \in Acts : Registry!InsertAndSubmit(h, a)
  <2>1. PICK a \in Acts : Registry!InsertAndSubmit(h, a)
    BY <1>3
  <2> DEFINE j == [at |-> "pdf", act |-> a, by |-> "insert"]
  <2>2. j \in Registry!Jobs /\ j.at = "pdf" /\ j.act = a
    BY <1>1
  <2>3. /\ Registry!Arrive(h, j) /\ UNCHANGED profile
        /\ acts[a].status = "absent" /\ acts' = [acts EXCEPT ![a].status = "draft"]
    BY <2>1 DEF Registry!InsertAndSubmit, Registry!Arrive
  <2> QED
    BY <2>2, <2>3
<1>4. CASE \E a \in Acts : Registry!ReadForBulk(h, a)
  <2>1. PICK a \in Acts : Registry!ReadForBulk(h, a)
    BY <1>4
  <2> DEFINE j == [at |-> "pdf", act |-> a, by |-> "bulk"]
  <2>2. j \in Registry!Jobs /\ j.at = "pdf" /\ j.act = a
    BY <1>1
  <2>3. /\ Registry!Arrive(h, j) /\ UNCHANGED profile
        /\ acts[a].status # "absent" /\ ~acts[a].ref /\ UNCHANGED acts
    BY <2>1 DEF Registry!ReadForBulk, Registry!Arrive
  <2> QED
    BY <2>2, <2>3
<1>5. CASE Registry!CheckRefresh(h)
  <2> DEFINE j == [at |-> "ask", by |-> "refresh"]
  <2>1. j \in Registry!Jobs /\ j.at = "ask"
    BY <1>2
  <2>2. Registry!Arrive(h, j) /\ UNCHANGED <<profile, acts>> /\ ~profile.override
    BY <1>5 DEF Registry!CheckRefresh, Registry!Arrive
  <2> QED
    BY <2>1, <2>2
<1>6. CASE Registry!AdminSync(h)
  <2> DEFINE j == [at |-> "ask", by |-> "admin"]
  <2>1. j \in Registry!Jobs /\ j.at = "ask" /\ j.by # "refresh"
    BY <1>2
  <2>2. Registry!Arrive(h, j) /\ UNCHANGED <<profile, acts>>
    BY <1>6 DEF Registry!AdminSync, Registry!Arrive
  <2> QED
    BY <2>1, <2>2
<1> QED
  BY <1>3, <1>4, <1>5, <1>6 DEF Registry!Call

\* A request that is alone is the only one that is busy.
LEMMA NobodyElse ==
    ASSUME RegistryInv, ~syncCrowded, NEW h \in Requests, Registry!Busy(h), NEW g \in Requests, g # h
    PROVE  syncing[g] = Registry!Idle
  BY DEF RegistryInv, AloneFiling, Registry!Busy

\* What arrives keeps what holds.
LEMMA CallKeeps ==
    ASSUME RegistryInv, NEW h \in Requests, Registry!Call(h)
    PROVE  RegistryInv'
<1>1. PICK j \in Registry!Jobs :
         /\ Registry!Arrive(h, j) /\ UNCHANGED profile
         /\ \/ /\ j.at = "pdf" /\ j.act \in Acts
               /\ \/ acts[j.act].status = "absent" /\ acts' = [acts EXCEPT ![j.act].status = "draft"]
                  \/ acts[j.act].status # "absent" /\ ~acts[j.act].ref /\ UNCHANGED acts
            \/ /\ j.at = "ask" /\ (j.by = "refresh" => ~profile.override)
               /\ UNCHANGED acts
  BY CallDoes
<1> USE DEF RegistryInv
<1>2. /\ syncing' = [syncing EXCEPT ![h] = j] /\ UNCHANGED <<filings, sc, profile, lost>>
      /\ syncCrowded' = (syncCrowded \/ \E g \in Requests \ {h} : Registry!Busy(g))
      /\ syncing[h] = Registry!Idle
  BY <1>1 DEF Registry!Arrive, Registry!Busy
<1>3. /\ syncing' \in [Requests -> Registry!Jobs] /\ syncing'[h] = j
      /\ \A g \in Requests : g # h => syncing'[g] = syncing[g]
  BY <1>2, RegistryMoves DEF Registry!TypeOK
<1>4. /\ acts' \in [Acts -> [status : {"absent", "draft", "synced", "sync_failed"}, ref : BOOLEAN]]
      /\ \A a \in Acts : acts'[a].ref = acts[a].ref
      /\ \A a \in Acts : acts'[a].status # acts[a].status => acts[a].status = "absent" /\ acts'[a].status = "draft"
  BY <1>1 DEF Registry!TypeOK
<1>5. Registry!TypeOK'
  BY <1>2, <1>3, <1>4 DEF Registry!TypeOK
<1>6. SyncedInv'
  BY <1>1, <1>2, <1>3, <1>4 DEF SyncedInv
<1>7. ASSUME ~syncCrowded' PROVE AloneFiling'
  <2>1. ~syncCrowded /\ \A g \in Requests : syncing[g] = Registry!Idle
    BY <1>2, <1>7 DEF Registry!Busy
  <2>2. \A g \in Requests : g # h => syncing'[g] = Registry!Idle
    BY <2>1, <1>3
  <2>3. Registry!Idle.at = "idle"
    BY DEF Registry!Idle
  <2>4. ASSUME ~lost' PROVE \A a \in Acts : filings[a] <= 1 /\ (filings[a] = 1 => acts[a].ref)
    BY <2>1, <2>3, <2>4, <1>2 DEF AloneFiling
  <2>5. ASSUME ~lost', j.at = "pdf" PROVE filings[j.act] = 0
    <3>1. j.act \in Acts /\ ~acts[j.act].ref
      BY <1>1, <2>5 DEF SyncedInv
    <3>2. filings[j.act] \in 0..MaxFilings
      BY <3>1 DEF Registry!TypeOK
    <3>3. filings[j.act] <= 1 /\ filings[j.act] # 1
      BY <2>4, <2>5, <3>1
    <3> HIDE DEF RegistryInv
    <3> QED
      BY <3>2, <3>3
  <2> QED
    BY <1>1, <1>2, <1>3, <1>4, <2>2, <2>3, <2>4, <2>5 DEF AloneFiling, Registry!Busy, Filing
<1> QED
  BY <1>5, <1>6, <1>7 DEF AloneFiling

\* A step of a request keeps what holds, when what it leaves agrees with what it wrote.
LEMMA StepKeeps ==
    ASSUME RegistryInv, NEW h \in Requests, Registry!Busy(h), NEW j \in Registry!Jobs,
           Registry!Goto(h, j),
           acts' \in [Acts -> [status : {"absent", "draft", "synced", "sync_failed"}, ref : BOOLEAN]],
           filings' \in [Acts -> 0..MaxFilings],
           profile' \in [status : Registry!Statuses, override : BOOLEAN, complete : BOOLEAN],
           lost' \in BOOLEAN,
           \A a \in Acts : filings'[a] >= filings[a],
           j.at = "synced" => filings'[j.act] > 0,
           \A a \in Acts : /\ acts'[a].ref => filings'[a] > 0 /\ acts'[a].status # "absent"
                           /\ acts'[a].status = "synced" => acts'[a].ref,
           ~syncCrowded => (j.at \in {"ask", "store"} /\ j.by = "refresh" => ~profile'.override),
           ~syncCrowded /\ ~lost' =>
              /\ j.at \in Filing \cup {"failed"} => filings'[j.act] = 0
              /\ \A a \in Acts : /\ filings'[a] <= 1
                                 /\ filings'[a] = 1 => acts'[a].ref \/ (j.at = "synced" /\ j.act = a)
    PROVE  RegistryInv'
<1>1. syncing' = [syncing EXCEPT ![h] = j] /\ UNCHANGED <<sc, syncCrowded>>
  BY DEF Registry!Goto
<1>2. /\ syncing' \in [Requests -> Registry!Jobs] /\ syncing'[h] = j
      /\ \A g \in Requests : g # h => syncing'[g] = syncing[g]
  BY <1>1, RegistryMoves DEF RegistryInv, Registry!TypeOK
<1>3. Registry!TypeOK'
  BY <1>1, <1>2 DEF RegistryInv, Registry!TypeOK
<1>4. SyncedInv'
  <2>1. ASSUME NEW g \in Requests, g # h, syncing'[g].at = "synced"
        PROVE  filings'[syncing'[g].act] > 0
    <3>1. syncing[g].act \in Acts /\ filings[syncing[g].act] > 0 /\ syncing'[g] = syncing[g]
      BY <2>1, <1>2, RegistryJobs DEF RegistryInv, Registry!TypeOK, SyncedInv
    <3> QED
      BY <3>1 DEF RegistryInv, Registry!TypeOK
  <2> QED
    BY <2>1, <1>2 DEF SyncedInv
<1>5. ASSUME ~syncCrowded' PROVE AloneFiling'
  <2>1. ~syncCrowded /\ \A g \in Requests : g # h => syncing'[g] = Registry!Idle
    BY <1>1, <1>2, <1>5, NobodyElse
  <2>2. Registry!Idle.at = "idle"
    BY DEF Registry!Idle
  <2> QED
    BY <1>2, <2>1, <2>2 DEF AloneFiling, Registry!Busy, Filing
<1> QED
  BY <1>3, <1>4, <1>5 DEF RegistryInv, AloneFiling

\* What a request that is alone knows.
LEMMA Alone ==
    ASSUME RegistryInv, ~syncCrowded, NEW h \in Requests, Registry!Busy(h)
    PROVE  /\ syncing[h].at \in {"ask", "store"} /\ syncing[h].by = "refresh" => ~profile.override
           /\ ~lost =>
                 /\ syncing[h].at \in Filing \cup {"failed"} => filings[syncing[h].act] = 0
                 /\ \A a \in Acts :
                       /\ filings[a] <= 1
                       /\ filings[a] = 1 =>
                             acts[a].ref \/ (syncing[h].at = "synced" /\ syncing[h].act = a)
<1>1. \A g \in Requests : g # h => syncing[g].at = "idle"
  BY NobodyElse DEF Registry!Idle
<1> QED
  BY <1>1 DEF RegistryInv, AloneFiling

\* The steps before the Supreme Court is asked to register the act.
LEMMA BeforeFiling ==
    ASSUME RegistryInv, NEW h \in Requests,
           Registry!LoadPdf(h) \/ Registry!AskCommission(h) \/ Registry!PersistCommission(h)
    PROVE  RegistryInv'
<1>1. syncing[h] \in Registry!Jobs /\ syncing[h].at \in Filing
  BY DEF RegistryInv, Registry!TypeOK, Registry!LoadPdf, Registry!AskCommission,
     Registry!PersistCommission, Filing
<1>2. Registry!Busy(h)
  BY <1>1 DEF Registry!Busy, Registry!Idle, Filing
<1>3. /\ UNCHANGED <<acts, filings, lost>>
      /\ \/ UNCHANGED profile
         \/ profile' = [profile EXCEPT !.status = "active", !.override = FALSE]
  BY DEF Registry!LoadPdf, Registry!AskCommission, Registry!PersistCommission, Registry!GoAt
<1>4. profile' \in [status : Registry!Statuses, override : BOOLEAN, complete : BOOLEAN]
  BY <1>3 DEF RegistryInv, Registry!TypeOK, Registry!Statuses
<1>5. PICK j \in Registry!Jobs :
         /\ Registry!Goto(h, j)
         /\ \/ j = Registry!Idle
            \/ j.at \in Filing \cup {"failed"} /\ j.act = syncing[h].act
  <2>1. ASSUME NEW at \in Filing \cup {"failed"}, Registry!GoAt(h, at)
        PROVE  \E j \in Registry!Jobs :
                  Registry!Goto(h, j) /\ j.at \in Filing \cup {"failed"} /\ j.act = syncing[h].act
    <3> DEFINE j == [syncing[h] EXCEPT !.at = at]
    <3>1. j \in Registry!Jobs /\ j.at = at /\ j.act = syncing[h].act
      BY <1>1, SubmissionGoesOn DEF Filing
    <3>2. Registry!Goto(h, j)
      BY <2>1 DEF Registry!GoAt
    <3> QED
      BY <3>1, <3>2
  <2>2. Registry!Idle \in Registry!Jobs
    BY DEF Registry!Jobs
  <2>3. Registry!Goto(h, Registry!Idle) \/ \E at \in Filing \cup {"failed"} : Registry!GoAt(h, at)
    BY DEF Registry!LoadPdf, Registry!AskCommission, Registry!PersistCommission, Filing
  <2> QED
    BY <2>1, <2>2, <2>3
<1>6. j.at \notin {"synced", "ask", "store"}
  BY <1>5 DEF Registry!Idle, Filing
<1>7. /\ acts' \in [Acts -> [status : {"absent", "draft", "synced", "sync_failed"}, ref : BOOLEAN]]
      /\ filings' \in [Acts -> 0..MaxFilings] /\ lost' \in BOOLEAN
      /\ \A a \in Acts : filings'[a] >= filings[a]
      /\ \A a \in Acts : /\ acts'[a].ref => filings'[a] > 0 /\ acts'[a].status # "absent"
                         /\ acts'[a].status = "synced" => acts'[a].ref
  BY <1>3 DEF RegistryInv, Registry!TypeOK, SyncedInv
<1>8. ~syncCrowded /\ ~lost' =>
         /\ j.at \in Filing \cup {"failed"} => filings'[j.act] = 0
         /\ \A a \in Acts : /\ filings'[a] <= 1
                            /\ filings'[a] = 1 => acts'[a].ref \/ (j.at = "synced" /\ j.act = a)
  BY <1>1, <1>2, <1>3, <1>5, Alone DEF Registry!Idle, Filing
<1> QED
  BY <1>2, <1>4, <1>5, <1>6, <1>7, <1>8, StepKeeps

\* The registration, its answer, and the loss of the answer.
LEMMA FilingKeeps ==
    ASSUME RegistryInv, NEW h \in Requests, Registry!FileAct(h)
    PROVE  RegistryInv'
<1> DEFINE a == syncing[h].act
<1>1. syncing[h] \in Registry!Jobs /\ syncing[h].at = "file" /\ a \in Acts
  BY RegistryJobs DEF RegistryInv, Registry!TypeOK, Registry!FileAct, Filing
<1>2. Registry!Busy(h)
  BY <1>1 DEF Registry!Busy, Registry!Idle
<1>3. UNCHANGED <<acts, profile>> /\ filings \in [Acts -> 0..MaxFilings]
  BY DEF Registry!FileAct, RegistryInv, Registry!TypeOK
<1>4. ASSUME NEW at \in {"synced", "failed"}, filings' \in [Acts -> 0..MaxFilings], lost' \in BOOLEAN,
             Registry!Goto(h, [syncing[h] EXCEPT !.at = at]),
             \A b \in Acts : b # a => filings'[b] = filings[b],
             \/ at = "synced" /\ filings'[a] = filings[a] + 1 /\ lost' = lost
             \/ at = "failed" /\ filings'[a] = filings[a] /\ lost' = lost
             \/ at = "failed" /\ filings'[a] = filings[a] + 1 /\ lost' = TRUE
      PROVE  RegistryInv'
  <2> DEFINE j == [syncing[h] EXCEPT !.at = at]
  <2>1. j \in Registry!Jobs /\ j.at = at /\ j.act = a
    BY <1>1, <1>4, SubmissionGoesOn DEF Filing
  <2>2. \A b \in Acts : filings'[b] >= filings[b]
    BY <1>1, <1>3, <1>4
  <2>3. j.at = "synced" => filings'[j.act] > 0
    BY <1>1, <1>3, <1>4, <2>1
  <2>4. \A b \in Acts : /\ acts'[b].ref => filings'[b] > 0 /\ acts'[b].status # "absent"
                        /\ acts'[b].status = "synced" => acts'[b].ref
    BY <1>3, <1>4, <2>2 DEF RegistryInv, SyncedInv
  <2>5. ~syncCrowded /\ ~lost' =>
           /\ j.at \in Filing \cup {"failed"} => filings'[j.act] = 0
           /\ \A b \in Acts : /\ filings'[b] <= 1
                              /\ filings'[b] = 1 => acts'[b].ref \/ (j.at = "synced" /\ j.act = b)
    <3> SUFFICES ASSUME ~syncCrowded, ~lost'
                 PROVE  /\ j.at \in Filing \cup {"failed"} => filings'[j.act] = 0
                        /\ \A b \in Acts :
                              /\ filings'[b] <= 1
                              /\ filings'[b] = 1 => acts'[b].ref \/ (j.at = "synced" /\ j.act = b)
      OBVIOUS
    <3>1. ~lost
      BY <1>4
    <3>2. filings[a] = 0 /\ \A b \in Acts : filings[b] <= 1 /\ (filings[b] = 1 => acts[b].ref)
      BY <1>1, <1>2, <3>1, Alone DEF Filing
    <3> QED
      BY <1>1, <1>3, <1>4, <2>1, <3>2 DEF Filing
  <2>6. j.at \notin {"ask", "store"}
    BY <2>1
  <2>7. /\ acts' \in [Acts -> [status : {"absent", "draft", "synced", "sync_failed"}, ref : BOOLEAN]]
        /\ profile' \in [status : Registry!Statuses, override : BOOLEAN, complete : BOOLEAN]
    BY <1>3 DEF RegistryInv, Registry!TypeOK
  <2> HIDE DEF j
  <2>8. Registry!Goto(h, j)
    BY <1>4 DEF j
  <2> QED
    BY <1>2, <1>4, <2>1, <2>2, <2>3, <2>4, <2>5, <2>6, <2>7, <2>8, StepKeeps
<1>5. CASE filings[a] < MaxFilings /\ filings' = [filings EXCEPT ![a] = @ + 1]
  <2>1. /\ filings' \in [Acts -> 0..MaxFilings] /\ filings'[a] = filings[a] + 1
        /\ \A b \in Acts : b # a => filings'[b] = filings[b]
    BY <1>1, <1>3, <1>5, RegistryAssumption
  <2>2. filings # filings'
    BY <1>1, <1>3, <2>1
  <2>3. \/ Registry!GoAt(h, "synced")
        \/ Registry!Goto(h, [syncing[h] EXCEPT !.at = "failed"]) /\ lost' = TRUE
    BY <2>2 DEF Registry!FileAct
  <2>4. lost \in BOOLEAN
    BY DEF RegistryInv, Registry!TypeOK
  <2> QED
    BY <1>4, <2>1, <2>3, <2>4 DEF Registry!GoAt
<1>6. CASE Registry!GoAt(h, "failed") /\ UNCHANGED filings
  BY <1>3, <1>4, <1>6 DEF Registry!GoAt, RegistryInv, Registry!TypeOK
<1> QED
  BY <1>5, <1>6 DEF Registry!FileAct

\* The row is told what became of its submission.
LEMMA WritesKeep ==
    ASSUME RegistryInv, NEW h \in Requests, Registry!WriteSynced(h) \/ Registry!WriteFailed(h)
    PROVE  RegistryInv'
<1> DEFINE a == syncing[h].act
<1>1. syncing[h] \in Registry!Jobs /\ syncing[h].at \in {"synced", "failed"} /\ a \in Acts
  BY RegistryJobs DEF RegistryInv, Registry!TypeOK, Registry!WriteSynced, Registry!WriteFailed
<1>2. Registry!Busy(h)
  BY <1>1 DEF Registry!Busy, Registry!Idle
<1>3. /\ UNCHANGED <<filings, profile, lost>> /\ Registry!Goto(h, Registry!Idle)
      /\ \/ syncing[h].at = "synced" /\ acts' = [acts EXCEPT ![a] = [status |-> "synced", ref |-> TRUE]]
         \/ syncing[h].at = "failed" /\ acts' = [acts EXCEPT ![a].status = "sync_failed"]
  BY DEF Registry!WriteSynced, Registry!WriteFailed
<1>4. Registry!Idle \in Registry!Jobs /\ Registry!Idle.at = "idle"
  BY DEF Registry!Idle, Registry!Jobs
<1>5. /\ filings' \in [Acts -> 0..MaxFilings] /\ lost' \in BOOLEAN
      /\ profile' \in [status : Registry!Statuses, override : BOOLEAN, complete : BOOLEAN]
      /\ \A b \in Acts : filings'[b] >= filings[b]
  BY <1>3 DEF RegistryInv, Registry!TypeOK
<1>6. /\ acts' \in [Acts -> [status : {"absent", "draft", "synced", "sync_failed"}, ref : BOOLEAN]]
      /\ \A b \in Acts : acts[b].ref => acts'[b].ref
      /\ syncing[h].at = "synced" => acts'[a].ref
      /\ \A b \in Acts : acts'[b].ref => acts[b].ref \/ (b = a /\ syncing[h].at = "synced")
      /\ \A b \in Acts : acts'[b].status = "absent" => b # a /\ acts'[b] = acts[b]
      /\ \A b \in Acts : acts'[b].status = "synced" =>
            acts'[b] = acts[b] \/ (b = a /\ acts'[b].ref)
  <2> DEFINE Row == [status : {"absent", "draft", "synced", "sync_failed"}, ref : BOOLEAN]
  <2>1. acts \in [Acts -> Row]
    BY DEF RegistryInv, Registry!TypeOK
  <2>2. PICK r \in Row :
           /\ acts' = [acts EXCEPT ![a] = r]
           /\ \/ syncing[h].at = "synced" /\ r.status = "synced" /\ r.ref
              \/ syncing[h].at = "failed" /\ r.status = "sync_failed" /\ r.ref = acts[a].ref
    <3>1. CASE syncing[h].at = "synced"
      <4> DEFINE r == [status |-> "synced", ref |-> TRUE]
      <4>1. acts' = [acts EXCEPT ![a] = r] /\ r \in Row /\ r.status = "synced" /\ r.ref
        BY <3>1, <1>3
      <4> QED
        BY <3>1, <4>1
    <3>2. CASE syncing[h].at = "failed"
      <4>1. acts[a] \in Row /\ acts' = [acts EXCEPT ![a] = [acts[a] EXCEPT !.status = "sync_failed"]]
        BY <3>2, <2>1, <1>1, <1>3
      <4>2. [acts[a] EXCEPT !.status = "sync_failed"] \in Row
        BY <4>1
      <4> QED
        BY <4>1, <4>2, <3>2
    <3> QED
      BY <1>1, <3>1, <3>2
  <2>3. acts' \in [Acts -> Row] /\ acts'[a] = r /\ \A b \in Acts : b # a => acts'[b] = acts[b]
    BY <2>1, <2>2, <1>1
  <2> QED
    BY <1>1, <2>2, <2>3
<1>7. \A b \in Acts : /\ acts'[b].ref => filings'[b] > 0 /\ acts'[b].status # "absent"
                      /\ acts'[b].status = "synced" => acts'[b].ref
  BY <1>1, <1>3, <1>6 DEF RegistryInv, SyncedInv
<1>8. ~syncCrowded /\ ~lost' => \A b \in Acts : filings'[b] <= 1 /\ (filings'[b] = 1 => acts'[b].ref)
  BY <1>1, <1>2, <1>3, <1>6, Alone
<1> QED
  BY <1>2, <1>3, <1>4, <1>5, <1>6, <1>7, <1>8, StepKeeps DEF Filing

\* The answer about the commission, and what is stored of it.
LEMMA StatusKeeps ==
    ASSUME RegistryInv, NEW h \in Requests,
           Registry!AskStatus(h) \/ Registry!AskFails(h) \/ Registry!StoreStatus(h)
    PROVE  RegistryInv'
<1>1. syncing[h] \in Registry!Jobs /\ syncing[h].at \in {"ask", "store"}
  BY DEF RegistryInv, Registry!TypeOK, Registry!AskStatus, Registry!AskFails, Registry!StoreStatus
<1>2. Registry!Busy(h) /\ syncing[h].by \in {"refresh", "admin"}
  BY <1>1, RegistryJobs DEF Registry!Busy, Registry!Idle
<1>3. UNCHANGED <<acts, filings, lost>>
  BY DEF Registry!AskStatus, Registry!AskFails, Registry!StoreStatus
<1>4. /\ profile' \in [status : Registry!Statuses, override : BOOLEAN, complete : BOOLEAN]
      /\ syncing[h].at = "ask" => UNCHANGED profile
  <2>1. CASE UNCHANGED profile
    BY <2>1 DEF RegistryInv, Registry!TypeOK
  <2>2. CASE Registry!StoreStatus(h)
    <3>1. /\ syncing[h].at = "store" /\ syncing[h].status \in Registry!Statuses
          /\ profile' = [profile EXCEPT !.status = syncing[h].status, !.override = FALSE]
      BY <2>2, <1>1, RegistryJobs DEF Registry!StoreStatus
    <3> QED
      BY <3>1 DEF RegistryInv, Registry!TypeOK
  <2> QED
    BY <2>1, <2>2 DEF Registry!AskStatus, Registry!AskFails
<1>5. PICK j \in Registry!Jobs :
         /\ Registry!Goto(h, j)
         /\ \/ j = Registry!Idle
            \/ j.at = "store" /\ j.by = syncing[h].by /\ UNCHANGED profile
  <2>1. CASE Registry!AskStatus(h)
    <3> DEFINE j == [at |-> "store", by |-> syncing[h].by, status |-> sc]
    <3>1. j \in Registry!Jobs
      BY <1>2 DEF Registry!Jobs, RegistryInv, Registry!TypeOK
    <3>2. Registry!Goto(h, j) /\ UNCHANGED profile
      BY <2>1 DEF Registry!AskStatus
    <3> QED
      BY <3>1, <3>2
  <2>2. CASE Registry!AskFails(h) \/ Registry!StoreStatus(h)
    BY <2>2 DEF Registry!AskFails, Registry!StoreStatus, Registry!Jobs
  <2> QED
    BY <2>1, <2>2
<1>6. j.at \notin Filing \cup {"synced", "failed"}
  BY <1>5 DEF Registry!Idle, Filing
<1>7. ~syncCrowded => (j.at \in {"ask", "store"} /\ j.by = "refresh" => ~profile'.override)
  BY <1>1, <1>2, <1>5, Alone DEF Registry!Idle
<1>8. /\ acts' \in [Acts -> [status : {"absent", "draft", "synced", "sync_failed"}, ref : BOOLEAN]]
      /\ filings' \in [Acts -> 0..MaxFilings] /\ lost' \in BOOLEAN
      /\ \A a \in Acts : filings'[a] >= filings[a]
      /\ \A a \in Acts : /\ acts'[a].ref => filings'[a] > 0 /\ acts'[a].status # "absent"
                         /\ acts'[a].status = "synced" => acts'[a].ref
  BY <1>3 DEF RegistryInv, Registry!TypeOK, SyncedInv
<1>9. ~syncCrowded /\ ~lost' => \A a \in Acts : filings'[a] <= 1 /\ (filings'[a] = 1 => acts'[a].ref)
  BY <1>1, <1>2, <1>3, Alone
<1> QED
  BY <1>2, <1>4, <1>5, <1>6, <1>7, <1>8, <1>9, StepKeeps

\* A request that is cut off leaves its row to others.
LEMMA AbortKeeps ==
    ASSUME RegistryInv, NEW h \in Requests, Registry!Abort(h)
    PROVE  RegistryInv'
<1>1. /\ syncing' = [syncing EXCEPT ![h] = Registry!Idle]
      /\ lost' = TRUE /\ UNCHANGED <<acts, filings, sc, profile, syncCrowded>>
  BY DEF Registry!Abort
<1>2. Registry!Idle \in Registry!Jobs /\ Registry!Idle.at = "idle"
  BY DEF Registry!Idle, Registry!Jobs
<1>3. /\ syncing' \in [Requests -> Registry!Jobs] /\ syncing'[h] = Registry!Idle
      /\ \A g \in Requests : g # h => syncing'[g] = syncing[g]
  BY <1>1, <1>2, RegistryMoves DEF RegistryInv, Registry!TypeOK
<1> QED
  BY <1>1, <1>2, <1>3 DEF RegistryInv, Registry!TypeOK, SyncedInv, AloneFiling, Registry!Busy

\* The notary, the administrator and the Supreme Court.
LEMMA OthersKeep ==
    ASSUME RegistryInv,
           \/ \E a \in Acts : Registry!InsertAct(a)
           \/ Registry!EditProfile
           \/ \E status \in Registry!Statuses : Registry!Override(status) \/ Registry!ScDecides(status)
    PROVE  RegistryInv'
<1>1. CASE \E a \in Acts : Registry!InsertAct(a)
  <2>1. PICK a \in Acts :
           /\ acts[a].status = "absent" /\ acts' = [acts EXCEPT ![a].status = "draft"]
           /\ UNCHANGED <<filings, sc, profile, syncing, syncCrowded, lost>>
    BY <1>1 DEF Registry!InsertAct
  <2>2. /\ acts' \in [Acts -> [status : {"absent", "draft", "synced", "sync_failed"}, ref : BOOLEAN]]
        /\ \A b \in Acts : acts'[b].ref = acts[b].ref
        /\ \A b \in Acts : acts'[b].status # acts[b].status => acts'[b].status = "draft"
    BY <2>1 DEF RegistryInv, Registry!TypeOK
  <2> QED
    BY <2>1, <2>2 DEF RegistryInv, Registry!TypeOK, SyncedInv, AloneFiling, Registry!Busy
<1>2. CASE Registry!EditProfile
  <2>1. /\ UNCHANGED <<acts, filings, sc, syncing, syncCrowded, lost>>
        /\ profile' = [profile EXCEPT !.complete = ~@]
    BY <1>2 DEF Registry!EditProfile
  <2>2. /\ profile' \in [status : Registry!Statuses, override : BOOLEAN, complete : BOOLEAN]
        /\ profile'.override = profile.override
    BY <2>1 DEF RegistryInv, Registry!TypeOK
  <2> QED
    BY <2>1, <2>2 DEF RegistryInv, Registry!TypeOK, SyncedInv, AloneFiling, Registry!Busy
<1>3. CASE \E status \in Registry!Statuses : Registry!Override(status)
  <2>1. PICK status \in Registry!Statuses :
           /\ profile' = [profile EXCEPT !.status = status, !.override = TRUE]
           /\ syncCrowded' = (syncCrowded \/ \E g \in Requests : Registry!Busy(g))
           /\ UNCHANGED <<acts, filings, sc, syncing, lost>>
    BY <1>3 DEF Registry!Override
  <2>2. profile' \in [status : Registry!Statuses, override : BOOLEAN, complete : BOOLEAN]
    BY <2>1 DEF RegistryInv, Registry!TypeOK
  <2>3. ~syncCrowded' => ~syncCrowded /\ \A g \in Requests : syncing'[g].at = "idle"
    <3> SUFFICES ASSUME ~syncCrowded' PROVE ~syncCrowded /\ \A g \in Requests : syncing'[g].at = "idle"
      OBVIOUS
    <3>1. ~syncCrowded /\ \A g \in Requests : ~Registry!Busy(g)
      BY <2>1, Zenon
    <3> QED
      BY <3>1, <2>1 DEF Registry!Busy, Registry!Idle
  <2>4. syncCrowded' \in BOOLEAN
    BY <2>1 DEF RegistryInv, Registry!TypeOK
  <2> QED
    BY <2>1, <2>2, <2>3, <2>4 DEF RegistryInv, Registry!TypeOK, SyncedInv, AloneFiling, Registry!Busy
<1>4. CASE \E status \in Registry!Statuses : Registry!ScDecides(status)
  <2>1. /\ sc' \in Registry!Statuses
        /\ UNCHANGED <<acts, filings, profile, syncing, syncCrowded, lost>>
    BY <1>4 DEF Registry!ScDecides
  <2> QED
    BY <2>1 DEF RegistryInv, Registry!TypeOK, SyncedInv, AloneFiling, Registry!Busy
<1> QED
  BY <1>1, <1>2, <1>3, <1>4

LEMMA NextRegistry == RegistryInv /\ [Registry!Next]_(Registry!vars) => RegistryInv'
<1> SUFFICES ASSUME RegistryInv, [Registry!Next]_(Registry!vars) PROVE RegistryInv'
  OBVIOUS
<1>1. CASE UNCHANGED Registry!vars
  BY <1>1 DEF Registry!vars, RegistryInv, Registry!TypeOK, SyncedInv, AloneFiling, Registry!Busy
<1>2. ASSUME NEW h \in Requests, Registry!Advance(h) PROVE RegistryInv'
  BY <1>2, BeforeFiling, FilingKeeps, WritesKeep, StatusKeeps DEF Registry!Advance
<1> QED
  BY <1>1, <1>2, CallKeeps, AbortKeeps, OthersKeep DEF Registry!Next, Registry!NextWithoutCrash

\* However the behaviour began, the registry's tables agree when the registry is in play.
LEMMA RegistryInvariance == ProgressSpec => [](active = "registry" => RegistryInv)
<1>1. ProgressInit => (active = "registry" => RegistryInv)
  BY InitRegistry DEF ProgressInit
<1>2. (active = "registry" => RegistryInv) /\ [ProgressNext]_progressVars
        => (active = "registry" => RegistryInv)'
  BY OneComponent, NextRegistry
<1> QED
  BY <1>1, <1>2, PTL DEF ProgressSpec, progressVars

\* Whatever overlaps or is lost, an act that shows as synced is registered, under a reference
\* that bulkScSync respects; unless submissions overlap or an answer is lost,
\* tryScSyncRegistryActAfterInsert and bulkScSync register an act at most once (RegistryService).
THEOREM RegisteredOnce == ProgressSpec => []FiledOnce
<1>1. (active = "registry" => RegistryInv) => FiledOnce
  BY DEF FiledOnce, Registry!FiledOnce, RegistryInv, SyncedInv, AloneFiling
<1> QED
  BY <1>1, RegistryInvariance, PTL

-----------------------------------------------------------------------------
(* The registry: who ends an override *)

\* Without overlaps only an administrator's own question and a submission end an override.
LEMMA OverrideEnds ==
    ASSUME RegistryInv, Registry!Next, profile.override, ~profile'.override, ~syncCrowded'
    PROVE  Registry!AdminStores \/ Registry!Submits
<1>1. profile' # profile
  OBVIOUS
<1>2. ASSUME NEW h \in Requests, Registry!PersistCommission(h) PROVE Registry!Submits
  <2>1. syncing[h] \in Registry!Jobs /\ syncing[h].at = "persist"
    BY <1>2 DEF RegistryInv, Registry!TypeOK, Registry!PersistCommission
  <2>2. [syncing[h] EXCEPT !.at = "file"].at = "file" /\ [syncing[h] EXCEPT !.at = "file"] \in Registry!Jobs
    BY <2>1, SubmissionGoesOn DEF Filing
  <2>3. syncing' = [syncing EXCEPT ![h] = [syncing[h] EXCEPT !.at = "file"]]
    BY <1>2 DEF Registry!PersistCommission, Registry!GoAt, Registry!Goto
  <2>4. syncing'[h].at = "file"
    BY <2>2, <2>3, RegistryMoves DEF RegistryInv, Registry!TypeOK
  <2> QED
    BY <2>1, <2>4 DEF Registry!Submits
<1>3. ASSUME NEW h \in Requests, Registry!StoreStatus(h) PROVE Registry!AdminStores
  <2>1. /\ syncing[h] \in Registry!Jobs /\ syncing[h].at = "store"
        /\ syncing' = [syncing EXCEPT ![h] = Registry!Idle] /\ UNCHANGED syncCrowded
    BY <1>3 DEF RegistryInv, Registry!TypeOK, Registry!StoreStatus, Registry!Goto
  <2>2. Registry!Busy(h) /\ syncing[h].by \in {"refresh", "admin"}
    BY <2>1, RegistryJobs DEF Registry!Busy, Registry!Idle
  <2>3. syncing[h].by = "admin"
    BY <2>1, <2>2, Alone
  <2>4. syncing'[h] = Registry!Idle
    BY <2>1 DEF RegistryInv, Registry!TypeOK
  <2> QED
    BY <2>1, <2>3, <2>4 DEF Registry!AdminStores
<1>4. ASSUME NEW h \in Requests, Registry!Call(h) PROVE UNCHANGED profile
  BY <1>4, CallDoes
<1>5. ASSUME NEW h \in Requests, Registry!Advance(h) PROVE Registry!AdminStores \/ Registry!Submits
  <2>1. Registry!PersistCommission(h) \/ Registry!StoreStatus(h)
    BY <1>1, <1>5 DEF Registry!Advance, Registry!LoadPdf, Registry!AskCommission, Registry!FileAct,
       Registry!WriteSynced, Registry!WriteFailed, Registry!AskStatus, Registry!AskFails
  <2> QED
    BY <2>1, <1>2, <1>3
<1>6. CASE Registry!EditProfile
  <2>1. profile' = [profile EXCEPT !.complete = ~@]
    BY <1>6 DEF Registry!EditProfile
  <2> QED
    BY <2>1 DEF RegistryInv, Registry!TypeOK
<1>7. ASSUME NEW status \in Registry!Statuses, Registry!Override(status) PROVE profile'.override
  <2>1. profile' = [profile EXCEPT !.status = status, !.override = TRUE]
    BY <1>7 DEF Registry!Override
  <2> QED
    BY <2>1 DEF RegistryInv, Registry!TypeOK
<1>8. /\ \A a \in Acts : ~Registry!InsertAct(a)
      /\ \A status \in Registry!Statuses : ~Registry!ScDecides(status)
      /\ \A h \in Requests : ~Registry!Abort(h)
  BY <1>1 DEF Registry!InsertAct, Registry!ScDecides, Registry!Abort
<1> QED
  BY <1>1, <1>4, <1>5, <1>6, <1>7, <1>8 DEF Registry!Next, Registry!NextWithoutCrash

\* What setEnpScCommissionStatus set outlasts syncEnpScCommissionStatusIfStale: while nothing
\* overlaps, only an administrator who asks the Supreme Court again, and the submission of an
\* act, end an override (AdminService, RegistryService).
THEOREM OverrideOutlasts == ProgressSpec => OverrideOutlastsRefresh
<1>1. (active = "registry" => RegistryInv) /\ [ProgressNext]_progressVars
        => [profile.override /\ ~profile'.override /\ ~syncCrowded'
              => Registry!AdminStores \/ Registry!Submits]_(Registry!vars)
  <2> SUFFICES ASSUME active = "registry" => RegistryInv, ProgressNext, ~UNCHANGED Registry!vars,
                      profile.override, ~profile'.override, ~syncCrowded'
               PROVE  Registry!AdminStores \/ Registry!Submits
    BY DEF progressVars, registryVars, Registry!vars
  <2>1. active = "registry" /\ Registry!Next
    BY DEF ProgressNext, registryVars, Registry!vars
  <2> QED
    BY <2>1, OverrideEnds
<1> QED
  BY <1>1, RegistryInvariance, PTL
     DEF OverrideOutlastsRefresh, Registry!OverrideOutlastsRefresh, ProgressSpec, progressVars

-----------------------------------------------------------------------------
(* The types of both components *)

\* The exam's tables agree when the exam is in play.
LEMMA ExamInvariance == ProgressSpec => [](active = "exam" => IInv)
<1>1. ProgressInit => (active = "exam" => IInv)
  BY InitIInv DEF ProgressInit
<1>2. (active = "exam" => IInv) /\ [ProgressNext]_progressVars => (active = "exam" => IInv)'
  BY OneComponent, NextKeeps
<1> QED
  BY <1>1, <1>2, PTL DEF ProgressSpec, progressVars

\* Every column of the exam and of the registry keeps its type, which bounds the clocks, the
\* answers and the registrations.
THEOREM TypesCorrect == ProgressSpec => []TypesOK
<1>1. (active = "exam" => IInv) /\ (active = "registry" => RegistryInv) => TypesOK
  BY DEF TypesOK, IInv, RegistryInv
<1> QED
  BY <1>1, ExamInvariance, RegistryInvariance, PTL

-----------------------------------------------------------------------------
(* The two components *)

\* Next to the other, the exam and the registry each behave as their own specification says, so
\* that what CertExamProofs proves of the exam holds of the run: they share no table.
THEOREM Composes == ProgressSpec => Spec /\ Registry!Spec
<1>1. ProgressInit => Init /\ Registry!Init
  BY DEF ProgressInit
<1>2. [ProgressNext]_progressVars => [Next]_vars
  BY DEF ProgressNext, progressVars, examVars
<1>3. [ProgressNext]_progressVars => [Registry!Next]_(Registry!vars)
  BY DEF ProgressNext, progressVars, registryVars, Registry!vars
<1> QED
  BY <1>1, <1>2, <1>3, PTL DEF ProgressSpec, progressVars, Spec, Registry!Spec
=============================================================================
