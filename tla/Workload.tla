------------------------------ MODULE Workload ------------------------------
(***************************************************************************)
(* The workloads (internal/workload/single.go, batch.go) of several bench  *)
(* processes on one database: Setup, which creates and seeds bench_single  *)
(* one request at a time, and NextStatements, which rotates through its    *)
(* ids.  A process keeps its workload, and so its id counter, over all its *)
(* cells and calls Setup in each of them.                                  *)
(***************************************************************************)
EXTENDS Integers, Sequences, FiniteSets

CONSTANTS
    Procs,          \* the bench processes
    SingleSeedRows, \* rows Setup wants in the table
    BatchSize       \* of each process; 0 stands for the single workload

ASSUME SeedAssumption == SingleSeedRows \in Nat \ {0}
ASSUME BatchAssumption == BatchSize \in [Procs -> Nat]

VARIABLES
    table,      \* bench_single exists
    rows,       \* the ids it holds
    wpc,        \* [Procs -> ...]: the request of Setup under way, "idle" outside Setup
    setup,      \* [Procs -> ...]: result of the last Setup; "duplicate" is a unique violation
    found,      \* [Procs -> BOOLEAN]: the table existed when that Setup began
    nextID,     \* [Procs -> Nat]: the workload's counter
    issued      \* [Procs -> Seq(Nat)]: the ids of all statements so far

database == <<table, rows>>
setups == <<wpc, setup, found>>
ids == <<nextID, issued>>

Seeded == 0 .. SingleSeedRows - 1

WorkloadTypeOK ==
    /\ table \in BOOLEAN /\ rows \subseteq Seeded
    /\ wpc \in [Procs -> {"idle", "create", "creating", "count", "seed"}]
    /\ setup \in [Procs -> {"none", "ok", "duplicate", "failed"}]
    /\ found \in [Procs -> BOOLEAN]
    /\ nextID \in [Procs -> Nat]
    /\ issued \in [Procs -> Seq(Nat)]

WorkloadInit ==
    /\ table = FALSE /\ rows = {}
    /\ wpc = [p \in Procs |-> "idle"]
    /\ setup = [p \in Procs |-> "none"]
    /\ found = [p \in Procs |-> FALSE]
    /\ nextID = [p \in Procs |-> 0]
    /\ issued = [p \in Procs |-> <<>>]

BeginSetup(p) ==
    /\ wpc' = [wpc EXCEPT ![p] = "create"]
    /\ setup' = [setup EXCEPT ![p] = "none"]
    /\ found' = [found EXCEPT ![p] = table]

(* Setup goes on with another request or returns. *)
Goes(p, to) == wpc' = [wpc EXCEPT ![p] = to] /\ UNCHANGED <<setup, found>>
Returns(p, result) ==
    /\ wpc' = [wpc EXCEPT ![p] = "idle"]
    /\ setup' = [setup EXCEPT ![p] = result]
    /\ UNCHANGED found

(* Mutant: a table that exists is taken for a seeded one. *)
LookForTableOnly(p) ==
    /\ wpc[p] = "create"
    /\ IF table THEN Returns(p, "ok") ELSE Goes(p, "creating")
    /\ UNCHANGED database

(* CREATE TABLE IF NOT EXISTS looks for a committed table ... *)
LookForTable(p) ==
    /\ wpc[p] = "create"
    /\ Goes(p, IF table THEN "count" ELSE "creating")
    /\ UNCHANGED database

(* ... and creates one; if another process has committed its own since, the *)
(* catalog's unique index refuses the second.                               *)
CreateTable(p) ==
    /\ wpc[p] = "creating"
    /\ IF table THEN Returns(p, "duplicate") ELSE Goes(p, "count")
    /\ table' = TRUE
    /\ UNCHANGED rows

CountRows(p) ==
    /\ wpc[p] = "count"
    /\ IF Cardinality(rows) >= SingleSeedRows THEN Returns(p, "ok") ELSE Goes(p, "seed")
    /\ UNCHANGED database

(* Mutant: no ON CONFLICT. *)
SeedRowsOrConflict(p) ==
    /\ wpc[p] = "seed"
    /\ Returns(p, IF rows = {} THEN "ok" ELSE "duplicate")
    /\ rows' = rows \cup Seeded
    /\ UNCHANGED table

(* INSERT ... ON CONFLICT DO NOTHING, one statement and so all or nothing. *)
SeedRows(p) ==
    /\ wpc[p] = "seed"
    /\ Returns(p, "ok")
    /\ rows' = rows \cup Seeded
    /\ UNCHANGED table

(* What the request under way may have done when its answer does not come. *)
SetupEffects(p) ==
    {database}
      \cup (IF wpc[p] = "creating" THEN {<<TRUE, rows>>} ELSE {})
      \cup (IF wpc[p] = "seed" THEN {<<table, rows \cup Seeded>>} ELSE {})

SetupFails(p) ==
    /\ wpc[p] # "idle"
    /\ Returns(p, "failed")
    /\ \E d \in SetupEffects(p) : table' = d[1] /\ rows' = d[2]

SetupStep(p) == LookForTable(p) \/ CreateTable(p) \/ CountRows(p) \/ SeedRows(p) \/ SetupFails(p)

---------------------------------------------------------------------------
(* Mutant: the batch repeats its first id. *)
StatementIdsOfOneRow(p) ==
    IF BatchSize[p] = 0 THEN <<(nextID[p] + 1) % SingleSeedRows>>
    ELSE [i \in 1 .. BatchSize[p] |-> nextID[p] % SingleSeedRows]

(* Single: the counter's new value; Batch: the values it skips. *)
StatementIds(p) ==
    IF BatchSize[p] = 0 THEN <<(nextID[p] + 1) % SingleSeedRows>>
    ELSE [i \in 1 .. BatchSize[p] |-> (nextID[p] + i - 1) % SingleSeedRows]

NextStatements(p) ==
    /\ issued' = [issued EXCEPT ![p] = @ \o StatementIds(p)]
    /\ nextID' = [nextID EXCEPT ![p] = @ + Len(StatementIds(p))]

---------------------------------------------------------------------------
(* Properties *)

(* Every statement finds its row: a Setup that returned nil left the whole *)
(* table behind, whoever else was creating or seeding it at the time, and  *)
(* the ids stay within it (single.go:34-70, batch.go:38-53).  Nobody else  *)
(* would notice: Run drops the row count (runner.go:189).                  *)
StatementsReadRows == \A p \in Procs : \A i \in DOMAIN issued[p] : issued[p][i] \in rows

(* Setup is idempotent (workload.go:38): it fails on a duplicate only when *)
(* the table was not there at its beginning, so trying again succeeds.     *)
RetrySetsUp == \A p \in Procs : setup[p] = "duplicate" => ~found[p] /\ table

Uses(p, id) == Cardinality({i \in DOMAIN issued[p] : issued[p][i] = id})

(* The ids rotate: over all cells of a process no row is asked for twice   *)
(* as long as another is due (single.go:11-14, batch.go:45-51).            *)
EvenRotation == \A p \in Procs : \A a, b \in Seeded : Uses(p, a) <= Uses(p, b) + 1
=============================================================================
