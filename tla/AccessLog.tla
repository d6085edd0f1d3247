------------------------------- MODULE AccessLog -------------------------------
(***************************************************************************)
(* The hash-chained log of the compliance endpoints: append, verify and    *)
(* the exports that are bound to the chain's head.                         *)
(*                                                                         *)
(* The rows are ordered by the clock of the replica that appends and then  *)
(* by a random id.  A hash stands for what is hashed, so that it is the    *)
(* sequence of the contents of the rows before it, and its own.  A row     *)
(* may be changed or deleted in the database by hand.                      *)
(***************************************************************************)
EXTENDS Naturals, Sequences

CONSTANTS
    Replicas,
    Exports,    \* exports under way or made
    MaxRows,    \* bound on the rows, and on their ids
    MaxTime     \* bound on the clocks

VARIABLES
    log,        \* compliance_access_log
    appended,   \* how many rows have been
    clock,      \* each replica's
    head,       \* chainHeadHash of each export
    stage,      \* where each export stands
    covered,    \* history: the rows each export was bound to, if the log verified then
    late,       \* history: an append was timed no later than the one before
    touched     \* history: the contents changed by hand, and the deleted rows

vars == <<log, appended, clock, head, stage, covered, late, touched>>

Ids == 1..MaxRows
Times == 0..MaxTime

\* The contents tell the appends apart; 0 is what a change by hand writes.
Contents == [entry : 0..MaxRows, at : Times]
Hashes == Seq(Contents)
Rows == [id : Ids, core : Contents, prev : Hashes, hash : Hashes]

TypeOK ==
    /\ log \subseteq Rows
    /\ appended \in 0..MaxRows
    /\ clock \in [Replicas -> Times]
    /\ head \in [Exports -> Hashes]
    /\ stage \in [Exports -> {"collect", "insert", "log", "done"}]
    /\ covered \in [Exports -> SUBSET Ids]
    /\ late \in BOOLEAN
    /\ touched \in [changed : SUBSET Ids, deleted : SUBSET Ids]

Init ==
    /\ log = {}
    /\ appended = 0
    /\ clock = [r \in Replicas |-> 0]
    /\ head = [e \in Exports |-> <<>>]
    /\ stage = [e \in Exports |-> "collect"]
    /\ covered = [e \in Exports |-> {}]
    /\ late = FALSE
    /\ touched = [changed |-> {}, deleted |-> {}]

-----------------------------------------------------------------------------

\* ORDER BY occurred_at, id
Before(r, s) == r.core.at < s.core.at \/ (r.core.at = s.core.at /\ r.id < s.id)

\* The row before r in that order, if there is one, and the last row.
Previous(r) == {p \in log : Before(p, r) /\ \A q \in log : Before(q, r) => ~Before(p, q)}
Last == {p \in log : \A q \in log : ~Before(p, q)}

\* A null, the hash of no row, is the hash of nothing.
HashOf(rows) == IF rows = {} THEN <<>> ELSE (CHOOSE r \in rows : TRUE).hash

\* Mutant: the hash before is left out.
hashRow_Alone(prev, core) == <<core>>

hashRow(prev, core) == Append(prev, core)

\* append: one transaction, alone under the advisory lock.
AppendRow(r) ==
    /\ \E i \in Ids :
          /\ \A s \in log : s.id # i
          /\ i \notin touched.deleted
          /\ LET core == [entry |-> appended + 1, at |-> clock[r]]
             IN  log' = log \cup {[id |-> i, core |-> core, prev |-> HashOf(Last),
                                   hash |-> hashRow(HashOf(Last), core)]}
    /\ appended' = appended + 1
    /\ late' = (late \/ \E s \in log : clock[r] <= s.core.at)
    /\ UNCHANGED <<clock, touched>>

LogAccess(r) == AppendRow(r) /\ UNCHANGED <<head, stage, covered>>

\* Mutant: the content is not hashed again.
Broken_Links(r) == r.prev # HashOf(Previous(r))

\* verify stops at the first row whose prev_hash or row_hash is not the expected.
Broken(r) ==
    \/ r.prev # HashOf(Previous(r))
    \/ r.hash # hashRow(HashOf(Previous(r)), r.core)
Intact == \A r \in log : ~Broken(r)
FirstBroken == {r \in log : Broken(r) /\ \A s \in log : Broken(s) => ~Before(s, r)}

-----------------------------------------------------------------------------
(* createExport *)

Cover(e) ==
    covered' = [covered EXCEPT ![e] = IF Intact THEN {r.id : r \in log} ELSE {}]

ReadHead(e) ==
    /\ stage[e] = "collect"
    /\ head' = [head EXCEPT ![e] = HashOf(Last)]
    /\ stage' = [stage EXCEPT ![e] = "insert"]
    /\ Cover(e)
    /\ UNCHANGED <<log, appended, clock, late, touched>>

InsertExport(e) ==
    /\ stage[e] = "insert"
    /\ stage' = [stage EXCEPT ![e] = "log"]
    /\ UNCHANGED <<log, appended, clock, head, covered, late, touched>>

LogExport(e, r) ==
    /\ stage[e] = "log"
    /\ AppendRow(r)
    /\ stage' = [stage EXCEPT ![e] = "done"]
    /\ UNCHANGED <<head, covered>>

-----------------------------------------------------------------------------

Tick(r) ==
    /\ clock[r] < MaxTime
    /\ clock' = [clock EXCEPT ![r] = @ + 1]
    /\ UNCHANGED <<log, appended, head, stage, covered, late, touched>>

\* The content of a row is changed, but not its time or its hashes.
ChangeRow(r) ==
    /\ r.core.entry # 0
    /\ log' = (log \ {r}) \cup {[r EXCEPT !.core.entry = 0]}
    /\ touched' = [touched EXCEPT !.changed = @ \cup {r.id}]
    /\ UNCHANGED <<appended, clock, head, stage, covered, late>>

DeleteRow(r) ==
    /\ log' = log \ {r}
    /\ touched' = [changed |-> touched.changed \ {r.id}, deleted |-> touched.deleted \cup {r.id}]
    /\ UNCHANGED <<appended, clock, head, stage, covered, late>>

Next ==
    \/ \E r \in Replicas : LogAccess(r) \/ Tick(r)
    \/ \E e \in Exports : ReadHead(e) \/ InsertExport(e) \/ \E r \in Replicas : LogExport(e, r)
    \/ \E r \in log : ChangeRow(r) \/ DeleteRow(r)

Spec == Init /\ [][Next]_vars

-----------------------------------------------------------------------------
(* Properties *)

Changed == {r \in log : r.id \in touched.changed}

\* As long as no clock stands still or goes back between two appends, and no row is
\* deleted, verify names the first row that was changed by hand, and none if there is none.
ChangeIsPinpointed ==
    ~late /\ touched.deleted = {} =>
        FirstBroken = {r \in Changed : \A s \in Changed : ~Before(s, r)}

\* Whatever the clocks and the deletions, a log that verifies has been changed nowhere,
\* and each row in it vouches for the content of all the rows before it.
IntactIsAsAppended ==
    Intact =>
        /\ Changed = {}
        /\ \A r, s \in log : Before(s, r) => \E i \in DOMAIN r.prev : r.prev[i] = s.core
        /\ \A r \in log : \A i \in DOMAIN r.hash : \E s \in log : r.hash[i] = s.core

\* verify tells the truth, in both directions.
VerifyIsRight == ChangeIsPinpointed /\ IntactIsAsAppended

\* An export is bound to the log: its head is the hash of a row, unless rows were deleted;
\* and if the log verified when the export was taken and that row is still in a log that
\* verifies, no row the log then had has since been changed or deleted.
ExportsAreBound ==
    \A e \in Exports : stage[e] # "collect" /\ head[e] # <<>> =>
        /\ touched.deleted = {} => \E r \in log : r.hash = head[e]
        /\ Intact /\ (\E r \in log : r.hash = head[e]) =>
              covered[e] \subseteq {r.id : r \in log} \ touched.changed

\* Claim: a log that no hand has touched verifies.
CleanVerifies == touched.changed = {} /\ touched.deleted = {} => Intact
=============================================================================
