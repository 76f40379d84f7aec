------------------------- MODULE TwoBenchesProofs --------------------------
(***************************************************************************)
(* Proofs about module TwoBenches, for every number of processes, cells    *)
(* and iterations, every set of presets and every size of the table.       *)
(* TwoBenchesInv is inductive: one lemma per action below; the theorems at *)
(* the end draw the properties from it.                                    *)
(***************************************************************************)
EXTENDS TwoBenchesInv, FiniteSetTheorems, SequenceTheorems, TLAPS

(* An empty table is short of rows. *)
LEMMA EmptyIsShort == ~(Cardinality({}) >= SingleSeedRows)
BY FS_EmptySet, SeedAssumption

(* A function on 1 .. n is a sequence. *)
LEMMA Tuples == ASSUME NEW S, NEW n \in Nat, NEW f \in [1 .. n -> S] PROVE f \in Seq(S)
BY SeqDef

(* NextStatements asks for ids of the seeded table only. *)
LEMMA StatementIdsSeeded ==
    ASSUME WorkloadTypeOK, NEW p \in Procs
    PROVE  StatementIds(p) \in Seq(Seeded) /\ StatementIds(p) \in Seq(Nat)
<1>1. nextID[p] \in Nat /\ BatchSize[p] \in Nat /\ SingleSeedRows \in Nat \ {0}
  BY BatchAssumption, SeedAssumption DEF WorkloadTypeOK
<1>2. \A n \in Nat : n % SingleSeedRows \in Seeded
  BY <1>1 DEF Seeded
<1>. Seeded \subseteq Nat
  BY <1>1 DEF Seeded
<1>3. CASE BatchSize[p] = 0
  BY <1>1, <1>2, <1>3 DEF StatementIds
<1>4. CASE BatchSize[p] # 0
  <2>1. \A i \in 1 .. BatchSize[p] : (nextID[p] + i - 1) % SingleSeedRows \in Seeded
    BY <1>1, <1>2
  <2> DEFINE f == [i \in 1 .. BatchSize[p] |-> (nextID[p] + i - 1) % SingleSeedRows]
  <2>2. f \in [1 .. BatchSize[p] -> Seeded]
    BY <2>1
  <2>3. f \in [1 .. BatchSize[p] -> Nat]
    BY <2>2
  <2> HIDE DEF f
  <2>4. f \in Seq(Seeded) /\ f \in Seq(Nat)
    BY Zenon, <1>1, <2>2, <2>3, Tuples
  <2> QED
    BY <1>4, <2>4 DEF StatementIds, f
<1> QED
  BY <1>3, <1>4

(* The statements of a process go behind those it issued before. *)
LEMMA Issued ==
    ASSUME WorkloadTypeOK, NEW p \in Procs, NextStatements(p)
    PROVE  /\ issued' \in [Procs -> Seq(Nat)] /\ nextID' \in [Procs -> Nat]
           /\ \A q \in Procs : \A i \in DOMAIN issued'[q] :
                 \/ i \in DOMAIN issued[q] /\ issued'[q][i] = issued[q][i]
                 \/ issued'[q][i] \in Seeded
<1> DEFINE s == StatementIds(p)
<1>1. s \in Seq(Seeded) /\ s \in Seq(Nat)
  BY StatementIdsSeeded
<1>2. /\ issued \in [Procs -> Seq(Nat)] /\ nextID \in [Procs -> Nat]
      /\ issued' = [issued EXCEPT ![p] = @ \o s]
      /\ nextID' = [nextID EXCEPT ![p] = @ + Len(s)]
  BY Zenon DEF WorkloadTypeOK, NextStatements
<1> HIDE DEF s
<1>3. Len(s) \in Nat
  BY <1>1
<1> DEFINE t == issued[p] \o s
<1>4. issued[p] \in Seq(Nat)
  BY <1>2
<1>5. /\ t \in Seq(Nat)
      /\ \A i \in DOMAIN t : (i \in DOMAIN issued[p] /\ t[i] = issued[p][i]) \/ t[i] \in Seeded
  BY <1>1, <1>3, <1>4
<1>6. issued' = [issued EXCEPT ![p] = t]
  BY <1>2
<1> HIDE DEF t
<1>7. /\ issued' \in [Procs -> Seq(Nat)] /\ issued'[p] = t
      /\ \A q \in Procs \ {p} : issued'[q] = issued[q]
  BY <1>2, <1>5, <1>6
<1>8. nextID' \in [Procs -> Nat]
  BY <1>2, <1>3
<1> QED
  BY <1>5, <1>7, <1>8

(* A move of one client leaves the other clients alone. *)
LEMMA Moved ==
    ASSUME ProxyTypeOK, NEW p \in Procs, ClientMoves(p)
    PROVE  /\ client' \in [Procs -> Client] /\ \A q \in Procs \ {p} : client'[q] = client[q]
BY DEF ProxyTypeOK, ClientMoves

(* A request, answered or not, leaves a delay on each leg. *)
LEMMA EffectsType ==
    ASSUME ProxyTypeOK, NEW p \in Procs, NEW t \in C(p)!Effects
    PROVE  t \in [Legs -> Delay]
BY DEF ProxyTypeOK, C!Effects, C!Legs, Legs, Delay, Client

(* A step that leaves the database and the workloads alone. *)
LEMMA StoredKept ==
    ASSUME WorkloadTypeOK, Stored, RetrySetsUp, StatementsReadRows,
           UNCHANGED <<database, setups, ids>>,
           \A q \in Procs : pc'[q] = "measure" => setup[q] = "ok"
    PROVE  WorkloadTypeOK' /\ Stored' /\ RetrySetsUp' /\ StatementsReadRows' /\ wpc' = wpc
<1>1. /\ table' = table /\ rows' = rows /\ wpc' = wpc /\ setup' = setup /\ found' = found
      /\ nextID' = nextID /\ issued' = issued
  BY DEF database, setups, ids
<1>2. WorkloadTypeOK'
  BY Zenon, <1>1 DEF WorkloadTypeOK
<1> QED
  BY <1>1, <1>2 DEF Stored, RetrySetsUp, StatementsReadRows

(* A Setup begins. *)
LEMMA SetupBegins ==
    ASSUME WorkloadTypeOK, Stored, RetrySetsUp, StatementsReadRows, NEW p \in Procs, BeginSetup(p),
           UNCHANGED <<database, ids>>, pc'[p] = "setup", \A q \in Procs \ {p} : pc'[q] = pc[q]
    PROVE  /\ WorkloadTypeOK' /\ Stored' /\ RetrySetsUp' /\ StatementsReadRows'
           /\ \A q \in Procs \ {p} : wpc'[q] = wpc[q]
<1>1. /\ table' = table /\ rows' = rows /\ nextID' = nextID /\ issued' = issued
      /\ wpc' = [wpc EXCEPT ![p] = "create"] /\ setup' = [setup EXCEPT ![p] = "none"]
      /\ found' = [found EXCEPT ![p] = table]
  BY DEF BeginSetup, database, ids
<1>2. found' \in [Procs -> BOOLEAN]
  BY Zenon, <1>1 DEF WorkloadTypeOK
<1>3. found'[p] <=> table
  BY Zenon, <1>1 DEF WorkloadTypeOK
<1>4. \A q \in Procs \ {p} : found'[q] = found[q] /\ wpc'[q] = wpc[q] /\ setup'[q] = setup[q]
  BY <1>1 DEF WorkloadTypeOK
<1>5. wpc'[p] = "create" /\ setup'[p] = "none"
  BY <1>1 DEF WorkloadTypeOK
<1>6. WorkloadTypeOK'
  <2>1. wpc' \in [Procs -> {"idle", "create", "creating", "count", "seed"}]
    BY <1>1 DEF WorkloadTypeOK
  <2>2. setup' \in [Procs -> {"none", "ok", "duplicate", "failed"}]
    BY <1>1 DEF WorkloadTypeOK
  <2> QED
    BY Zenon, <1>1, <1>2, <2>1, <2>2 DEF WorkloadTypeOK
<1>7. Stored'
  BY <1>1, <1>3, <1>4, <1>5 DEF Stored
<1>8. RetrySetsUp' /\ StatementsReadRows'
  BY <1>1, <1>4, <1>5 DEF RetrySetsUp, StatementsReadRows
<1> QED
  BY <1>4, <1>6, <1>7, <1>8

(* Where a request of Setup, answered or not, may lead. *)
LEMMA SetupMoves ==
    ASSUME WorkloadTypeOK, Stored, NEW p \in Procs, SetupStep(p)
    PROVE  /\ wpc' \in [Procs -> {"idle", "create", "creating", "count", "seed"}]
           /\ setup' \in [Procs -> {"none", "ok", "duplicate", "failed"}]
           /\ \A q \in Procs \ {p} : wpc'[q] = wpc[q] /\ setup'[q] = setup[q]
           /\ found' = found
           /\ table' \in {table, TRUE} /\ rows' \in {rows, Seeded}
           /\ wpc'[p] \in {"idle", "creating", "count", "seed"}
           /\ wpc'[p] # "idle" => setup'[p] = "none"
           /\ rows' # {} \/ wpc'[p] \in {"count", "seed"} => table'
           /\ wpc'[p] = "creating" => ~found[p]
           /\ setup'[p] = "ok" => rows' = Seeded
           /\ setup'[p] = "duplicate" => ~found[p] /\ table'
           /\ SetupFails(p) => wpc'[p] = "idle"
<1> DEFINE Outcome(w, r) ==
             /\ wpc' = [wpc EXCEPT ![p] = w] /\ setup' = [setup EXCEPT ![p] = r]
             /\ found' = found
             /\ table' = table \/ table' = TRUE
             /\ rows' \in {rows, Seeded}
             /\ w \in {"idle", "creating", "count", "seed"}
             /\ r \in {"none", "ok", "duplicate", "failed"}
             /\ w # "idle" => r = "none"
             /\ rows' # {} \/ w \in {"count", "seed"} => table'
             /\ w = "creating" => ~found[p]
             /\ r = "ok" => rows' = Seeded
             /\ r = "duplicate" => ~found[p] /\ table'
<1>1. \E w, r : Outcome(w, r)
  <2>0. /\ setup \in [Procs -> {"none", "ok", "duplicate", "failed"}] /\ rows \subseteq Seeded
        /\ rows \in {{}, Seeded}
        /\ rows # {} => table
        /\ found[p] => table
        /\ wpc[p] \in {"count", "seed"} => table
        /\ wpc[p] = "creating" => ~found[p]
        /\ wpc[p] # "idle" => setup[p] = "none"
    BY DEF WorkloadTypeOK, Stored
  <2>1. CASE LookForTable(p)
    <3>1. CASE table
      <4>1. Outcome("count", "none")
        BY <2>0, <2>1, <3>1 DEF LookForTable, Goes, database
      <4> QED
        BY <4>1
    <3>2. CASE ~table
      <4>1. table' = table /\ rows' = rows /\ rows = {} /\ ~found[p]
        BY <2>0, <2>1, <3>2 DEF LookForTable, database
      <4>2. /\ wpc' = [wpc EXCEPT ![p] = "creating"]
            /\ setup' = setup /\ found' = found /\ setup[p] = "none"
        BY <2>0, <2>1, <3>2 DEF LookForTable, Goes
      <4>3. Outcome("creating", "none")
        BY <2>0, <4>1, <4>2
      <4> QED
        BY <4>3
    <3> QED
      BY <3>1, <3>2
  <2>2. CASE CreateTable(p)
    <3>1. CASE table
      <4>1. Outcome("idle", "duplicate")
        BY <2>0, <2>2, <3>1 DEF CreateTable, Goes, Returns
      <4> QED
        BY <4>1
    <3>2. CASE ~table
      <4>1. Outcome("count", "none")
        BY <2>0, <2>2, <3>2 DEF CreateTable, Goes, Returns
      <4> QED
        BY <4>1
    <3> QED
      BY <3>1, <3>2
  <2>3. CASE CountRows(p)
    <3>1. CASE Cardinality(rows) >= SingleSeedRows
      <4>1. rows = Seeded
        BY <2>0, <3>1, EmptyIsShort
      <4>2. Outcome("idle", "ok")
        BY <2>0, <2>3, <3>1, <4>1 DEF CountRows, Returns, database
      <4> QED
        BY <4>2
    <3>2. CASE ~(Cardinality(rows) >= SingleSeedRows)
      <4>1. Outcome("seed", "none")
        BY <2>0, <2>3, <3>2 DEF CountRows, Goes, Returns, database
      <4> QED
        BY <4>1
    <3> QED
      BY <3>1, <3>2
  <2>4. CASE SeedRows(p)
    <3>1. Outcome("idle", "ok")
      BY <2>0, <2>4 DEF SeedRows, Returns
    <3> QED
      BY <3>1
  <2>5. CASE SetupFails(p)
    <3>1. PICK d \in SetupEffects(p) : table' = d[1] /\ rows' = d[2]
      BY <2>5 DEF SetupFails
    <3>2. \/ table' = table /\ rows' = rows
          \/ table' = TRUE /\ rows' = rows
          \/ table' = table /\ rows' = Seeded /\ wpc[p] = "seed"
      <4>1. rows \cup Seeded = Seeded
        BY <2>0
      <4>2. CASE d = <<table, rows>>
        BY <3>1, <4>2
      <4>3. CASE d = <<TRUE, rows>>
        BY <3>1, <4>3
      <4>4. CASE d = <<table, rows \cup Seeded>> /\ wpc[p] = "seed"
        BY <3>1, <4>1, <4>4
      <4> QED
        BY <4>2, <4>3, <4>4 DEF SetupEffects, database
    <3>3. table' = table \/ table' = TRUE
      BY <3>2
    <3>4. rows' \in {rows, Seeded} /\ (rows' # {} => table')
      BY <2>0, <3>2
    <3>5. Outcome("idle", "failed")
      BY <2>5, <3>3, <3>4 DEF SetupFails, Returns
    <3> QED
      BY <3>5
  <2> QED
    BY <2>1, <2>2, <2>3, <2>4, <2>5 DEF SetupStep
<1>2. SetupFails(p) => wpc'[p] = "idle"
  BY DEF SetupFails, Returns, WorkloadTypeOK
<1> QED
  BY <1>1, <1>2 DEF WorkloadTypeOK

(* A request of Setup keeps what is known about the database. *)
LEMMA SetupStored ==
    ASSUME WorkloadTypeOK, Stored, RetrySetsUp, StatementsReadRows, NEW p \in Procs, SetupStep(p),
           UNCHANGED ids, pc'[p] # "measure", \A q \in Procs \ {p} : pc'[q] = pc[q]
    PROVE  /\ WorkloadTypeOK' /\ Stored' /\ RetrySetsUp' /\ StatementsReadRows'
           /\ \A q \in Procs \ {p} : wpc'[q] = wpc[q]
           /\ SetupFails(p) => wpc'[p] = "idle"
<1> USE SetupMoves
<1>1. nextID' = nextID /\ issued' = issued
  BY DEF ids
<1>2. WorkloadTypeOK'
  <2>1. rows' \subseteq Seeded
    BY DEF WorkloadTypeOK
  <2>2. table' \in BOOLEAN /\ found' \in [Procs -> BOOLEAN]
    BY Zenon DEF WorkloadTypeOK
  <2> QED
    BY Zenon, <1>1, <2>1, <2>2 DEF WorkloadTypeOK
<1>3. table => table'
  BY Zenon DEF WorkloadTypeOK
<1>4. rows' \in {{}, Seeded} /\ rows \subseteq rows' /\ (rows = Seeded => rows' = Seeded)
  BY DEF Stored
<1>5. Stored'
  <2> SUFFICES ASSUME NEW q \in Procs
               PROVE  /\ found'[q] => table'
                      /\ wpc'[q] \in {"count", "seed"} => table'
                      /\ wpc'[q] = "creating" => ~found'[q]
                      /\ wpc'[q] # "idle" => setup'[q] = "none"
                      /\ setup'[q] = "ok" => rows' = Seeded
                      /\ pc'[q] = "measure" => setup'[q] = "ok"
    BY <1>4 DEF Stored
  <2>1. CASE q = p
    BY <1>3, <1>4, <2>1 DEF Stored
  <2>2. CASE q # p
    BY <1>3, <1>4, <2>2 DEF Stored
  <2> QED
    BY <2>1, <2>2
<1>6. RetrySetsUp'
  BY <1>3 DEF RetrySetsUp
<1>7. StatementsReadRows'
  BY <1>1, <1>4 DEF StatementsReadRows
<1> QED
  BY <1>2, <1>5, <1>6, <1>7

(* A step with the proxy, its clients and the measurements left alone, in    *)
(* which a process goes on to its next set-up or measures the next cell.   *)
LEMMA GoesOn ==
    ASSUME ProxySide, NEW p \in Procs, NEW to \in {"setup", "measure"}, Go(p, to),
           pc[p] \in {"apply", "setup", "measure"}, client[p].lpc = "idle",
           pc[p] = "apply" => client[p].answer = "ok",
           UNCHANGED <<toxics, client, disturbed, wrong>>
    PROVE  ProxySide'
<1>1. /\ pc'[p] = to /\ \A q \in Procs \ {p} : pc'[q] = pc[q]
      /\ pc' \in [Procs -> {"off", "apply", "setup", "measure", "clear", "done"}]
  BY DEF ProxySide, ProxyTypeOK, Go
<1>2. ProxyTypeOK'
  <2>1. wrong' \in [Procs -> BOOLEAN] /\ disturbed' \in [Procs -> BOOLEAN]
    BY Zenon DEF ProxySide, ProxyTypeOK
  <2> QED
    BY <1>1, <2>1 DEF ProxySide, ProxyTypeOK
<1>3. Targets' /\ UndisturbedCells'
  BY <1>1 DEF ProxySide, Targets, UndisturbedCells
<1>4. Alone'
  BY <1>1 DEF ProxySide, Alone, Undisturbed, Applying, Both
<1>5. Answered'
  BY <1>1 DEF ProxySide, Answered, AnswersFor
<1> QED
  BY <1>2, <1>3, <1>4, <1>5 DEF ProxySide

(* Apply or Clear is called. *)
LEMMA Calls ==
    ASSUME ProxySide, NEW p \in Procs, NEW preset, NEW to \in {"apply", "clear"},
           CallsProxy(p, preset), Go(p, to),
           pc[p] \notin {"clear", "done"}, UNCHANGED wrong,
           to = "apply" => preset = PresetOf[p] /\ pc[p] = "off", to = "clear" => preset = "none"
    PROVE  ProxySide'
<1>1. /\ pc'[p] = to /\ \A q \in Procs \ {p} : pc'[q] = pc[q]
      /\ pc' \in [Procs -> {"off", "apply", "setup", "measure", "clear", "done"}]
  BY DEF ProxySide, ProxyTypeOK, Go
<1>2. client' \in [Procs -> Client] /\ \A q \in Procs \ {p} : client'[q] = client[q]
  BY Moved DEF CallsProxy, ProxySide
<1>3. /\ client'[p].lpc = "list" /\ client'[p].target = preset
      /\ toxics' = toxics /\ disturbed' = disturbed
  BY DEF CallsProxy, C!Call
<1>4. ProxyTypeOK'
  <2>1. wrong' \in [Procs -> BOOLEAN] /\ disturbed' \in [Procs -> BOOLEAN]
    BY Zenon, <1>3 DEF ProxySide, ProxyTypeOK
  <2> QED
    BY <1>1, <1>2, <1>3, <2>1 DEF ProxySide, ProxyTypeOK
<1>5. Targets' /\ UndisturbedCells'
  BY <1>1, <1>2, <1>3 DEF ProxySide, Targets, UndisturbedCells, Legs
<1>6. Alone'
  BY <1>1, <1>2, <1>3 DEF ProxySide, Alone, Undisturbed, Applying, Both, Legs
<1>7. Answered'
  BY <1>1, <1>2, <1>3 DEF ProxySide, Answered, AnswersFor
<1> QED
  BY <1>4, <1>5, <1>6, <1>7 DEF ProxySide

(* The others are either disturbed or see the same toxics as before. *)
LEMMA OthersDisturbed ==
    ASSUME ProxySide, NEW p \in Procs, NEW before \in BOOLEAN, Disturbs(p, before),
           \A q \in Procs \ {p} : client'[q] = client[q] /\ pc'[q] = pc[q]
    PROVE  /\ disturbed' \in [Procs -> BOOLEAN] /\ (disturbed'[p] <=> before)
           /\ \A q \in Procs \ {p} : /\ disturbed[q] => disturbed'[q]
                                     /\ Undisturbed(q)'
<1>1. disturbed' \in [Procs -> BOOLEAN]
  BY Zenon DEF ProxySide, ProxyTypeOK, Disturbs
<1>2. disturbed'[p] <=> before
  BY Zenon DEF Disturbs
<1>3. ASSUME NEW q \in Procs \ {p} PROVE disturbed'[q] <=> disturbed[q] \/ toxics' # toxics
  BY Zenon DEF Disturbs
<1>4. ASSUME NEW q \in Procs \ {p}, ~disturbed'[q] PROVE toxics' = toxics /\ ~disturbed[q]
  BY <1>3, <1>4
<1>5. ASSUME NEW q \in Procs \ {p} PROVE Undisturbed(q)'
  BY <1>4 DEF ProxySide, Alone, Undisturbed, Applying
<1> QED
  BY <1>1, <1>2, <1>3, <1>5

(* A process that answers for a leg goes on to do so while another one acts. *)
LEMMA OthersAnswer ==
    ASSUME ProxySide, NEW p \in Procs,
           \A q \in Procs \ {p} : client'[q] = client[q] /\ pc'[q] = pc[q],
           \A l \in Legs : toxics'[l] # "none" =>
               AnswersFor(p, l)' \/ (toxics[l] # "none" /\ ~AnswersFor(p, l))
    PROVE  Answered'
<1> SUFFICES ASSUME NEW l \in Legs, toxics'[l] # "none" PROVE \E q \in Procs : AnswersFor(q, l)'
  BY DEF Answered
<1>1. CASE AnswersFor(p, l)'
  BY <1>1
<1>2. CASE toxics[l] # "none" /\ ~AnswersFor(p, l)
  <2>1. PICK q \in Procs : AnswersFor(q, l)
    BY <1>2 DEF ProxySide, Answered
  <2>2. q # p /\ client'[q] = client[q] /\ pc'[q] = pc[q]
    BY <1>2, <2>1
  <2>3. AnswersFor(q, l)'
    BY <2>1, <2>2 DEF AnswersFor
  <2> QED
    BY <2>3
<1> QED
  BY <1>1, <1>2

(* A process that goes on without completing a cell. *)
LEMMA CellsKept ==
    ASSUME TwoBenchesInv, NEW p \in Procs, NEW to, Go(p, to), cell' = cell, iter' = iter,
           pc[p] \in {"clear", "done"} => to \in {"clear", "done"}
    PROVE  /\ cell' \in [Procs -> 0 .. Cells] /\ iter' \in [Procs -> 0 .. Iterations]
           /\ \A q \in Procs : pc'[q] \in {"off", "apply", "setup", "measure"} => cell'[q] < Cells
BY DEF TwoBenchesInv, ProxySide, ProxyTypeOK, Go

---------------------------------------------------------------------------
(* A process calls Apply. *)
LEMMA StartStep == ASSUME TwoBenchesInv, NEW p \in Procs, Start(p) PROVE TwoBenchesInv'
<1> USE DEF TwoBenchesInv, Start, progress
<1>1. ProxySide'
  BY Calls
<1>2. DatabaseSide'
  BY StoredKept DEF DatabaseSide, Stored, ProxySide, ProxyTypeOK, Go
<1>3. pc[p] = "off" /\ cell' = cell /\ iter' = iter
  OBVIOUS
<1> QED
  BY <1>1, <1>2, <1>3, CellsKept

(* Apply has returned. *)
LEMMA AppliedStep == ASSUME TwoBenchesInv, NEW p \in Procs, Applied(p) PROVE TwoBenchesInv'
<1> USE DEF TwoBenchesInv, Applied, progress
<1>1. CASE NextCell(p) /\ client[p].answer = "ok"
  <2>1. ProxySide'
    BY <1>1, GoesOn DEF NextCell, proxy
  <2>2. DatabaseSide'
    BY <1>1, SetupBegins DEF NextCell, DatabaseSide, ProxySide, ProxyTypeOK, Go
  <2> QED
    BY <1>1, <2>1, <2>2, CellsKept DEF NextCell
<1>2. CASE Return(p) /\ UNCHANGED setups
  <2>1. ProxySide'
    BY <1>2, Calls DEF Return
  <2>2. DatabaseSide'
    BY <1>2, StoredKept DEF Return, DatabaseSide, Stored, ProxySide, ProxyTypeOK, Go
  <2> QED
    BY <1>2, <2>1, <2>2, CellsKept DEF Return
<1> QED
  BY <1>1, <1>2

(* A request of Setup. *)
LEMMA SetupRequestStep == ASSUME TwoBenchesInv, NEW p \in Procs, SetupRequest(p) PROVE TwoBenchesInv'
<1> USE DEF TwoBenchesInv, SetupRequest, progress, proxy
<1>1. ProxySide'
  BY DEF ProxySide, ProxyTypeOK, Targets, Alone, Undisturbed, Applying, Answered, AnswersFor, UndisturbedCells
<1>2. DatabaseSide'
  BY SetupStored DEF DatabaseSide
<1> QED
  BY <1>1, <1>2

(* Setup has returned. *)
LEMMA SetupDoneStep == ASSUME TwoBenchesInv, NEW p \in Procs, SetupDone(p) PROVE TwoBenchesInv'
<1> USE DEF TwoBenchesInv, SetupDone, progress
<1>1. ProxySide'
  <2>1. CASE Go(p, "measure") /\ UNCHANGED proxy
    BY <2>1, GoesOn DEF ProxySide, ProxyTypeOK, proxy
  <2>2. CASE Return(p)
    BY <2>2, Calls DEF Return
  <2> QED
    BY <2>1, <2>2
<1>2. DatabaseSide'
  <2>1. \A q \in Procs \ {p} : pc'[q] = pc[q]
    BY DEF ProxySide, ProxyTypeOK, Return, Go
  <2>2. pc'[p] = "measure" => setup[p] = "ok"
    BY DEF ProxySide, ProxyTypeOK, Return, Go
  <2> QED
    BY <2>1, <2>2, StoredKept DEF DatabaseSide, Stored
<1> QED
  BY <1>1, <1>2, CellsKept DEF Return

(* Statements are issued in the loop of a cell: the rows they ask for are there. *)
LEMMA IssuedKeeps ==
    ASSUME DatabaseSide, NEW p \in Procs, pc[p] = "measure", NextStatements(p),
           UNCHANGED <<database, setups, pc>>
    PROVE  DatabaseSide'
<1>1. table' = table /\ rows' = rows /\ wpc' = wpc /\ setup' = setup /\ found' = found
  BY DEF database, setups
<1>2. /\ issued' \in [Procs -> Seq(Nat)] /\ nextID' \in [Procs -> Nat]
      /\ \A q \in Procs : \A i \in DOMAIN issued'[q] :
            (i \in DOMAIN issued[q] /\ issued'[q][i] = issued[q][i]) \/ issued'[q][i] \in Seeded
  BY Issued DEF DatabaseSide
<1>3. WorkloadTypeOK'
  BY Zenon, <1>1, <1>2 DEF DatabaseSide, WorkloadTypeOK
<1>4. rows = Seeded
  BY DEF DatabaseSide, Stored
<1>5. StatementsReadRows'
  BY <1>1, <1>2, <1>4 DEF DatabaseSide, StatementsReadRows
<1>6. Stored' /\ RetrySetsUp'
  BY <1>1 DEF DatabaseSide, Stored, RetrySetsUp
<1> QED
  BY <1>1, <1>3, <1>5, <1>6 DEF DatabaseSide

(* An iteration. *)
LEMMA IterateStep == ASSUME TwoBenchesInv, NEW p \in Procs, Iterate(p) PROVE TwoBenchesInv'
<1> USE DEF TwoBenchesInv, Iterate
<1>1. ProxySide'
  <2>1. toxics' = toxics /\ client' = client /\ disturbed' = disturbed /\ pc' = pc
    BY DEF proxy
  <2>2. wrong' \in [Procs -> BOOLEAN] /\ disturbed' \in [Procs -> BOOLEAN]
    BY Zenon, <2>1 DEF ProxySide, ProxyTypeOK
  <2>3. ASSUME NEW q \in Procs, wrong'[q], ~wrong[q] PROVE q = p /\ toxics # Both(PresetOf[p])
    BY Zenon, <2>3 DEF ProxySide, ProxyTypeOK
  <2>4. ProxyTypeOK'
    BY <2>1, <2>2 DEF ProxySide, ProxyTypeOK
  <2>5. Targets'
    BY <2>1, <2>3 DEF ProxySide, Targets
  <2>6. UndisturbedCells'
    BY <2>1, <2>3 DEF ProxySide, UndisturbedCells, Alone, Undisturbed
  <2>7. Alone' /\ Answered'
    BY <2>1 DEF ProxySide, Alone, Undisturbed, Applying, Answered, AnswersFor
  <2> QED
    BY <2>4, <2>5, <2>6, <2>7 DEF ProxySide
<1>2. DatabaseSide'
  BY IssuedKeeps
<1>3. cell' \in [Procs -> 0 .. Cells] /\ iter' \in [Procs -> 0 .. Iterations]
  BY CellsAssumption
<1> QED
  BY <1>1, <1>2, <1>3

(* An iteration fails; it may have asked for its statements. *)
LEMMA IterationFailsStep == ASSUME TwoBenchesInv, NEW p \in Procs, IterationFails(p) PROVE TwoBenchesInv'
<1> USE DEF TwoBenchesInv, IterationFails
<1>1. ProxySide'
  <2>1. UNCHANGED <<toxics, client, disturbed, pc, wrong>>
    BY DEF proxy
  <2>2. ProxyTypeOK'
    BY <2>1 DEF ProxySide, ProxyTypeOK
  <2> QED
    BY <2>1, <2>2 DEF ProxySide, Targets, UndisturbedCells, Alone, Undisturbed, Applying, Answered, AnswersFor
<1>2. DatabaseSide'
  <2>1. CASE NextStatements(p)
    BY <2>1, IssuedKeeps
  <2>2. CASE UNCHANGED ids
    BY <2>2 DEF ids, database, setups, DatabaseSide, WorkloadTypeOK, Stored, StatementsReadRows, RetrySetsUp
  <2> QED
    BY <2>1, <2>2
<1>3. cell' \in [Procs -> 0 .. Cells] /\ iter' \in [Procs -> 0 .. Iterations]
  BY CellsAssumption
<1> QED
  BY <1>1, <1>2, <1>3

(* A cell is complete. *)
LEMMA CellDoneStep == ASSUME TwoBenchesInv, NEW p \in Procs, CellDone(p) PROVE TwoBenchesInv'
<1> USE DEF TwoBenchesInv, CellDone
<1>1. /\ cell' \in [Procs -> 0 .. Cells] /\ iter' \in [Procs -> 0 .. Iterations]
      /\ \A q \in Procs : pc'[q] \in {"off", "apply", "setup", "measure"} => cell'[q] < Cells
  <2>1. cell[p] \in 0 .. Cells /\ cell[p] < Cells /\ cell' = [cell EXCEPT ![p] = cell[p] + 1]
    OBVIOUS
  <2>2. /\ cell' \in [Procs -> 0 .. Cells] /\ cell'[p] = cell[p] + 1
        /\ \A q \in Procs \ {p} : cell'[q] = cell[q]
    BY <2>1, CellsAssumption
  <2>3. iter' \in [Procs -> 0 .. Iterations]
    BY CellsAssumption
  <2>4. pc' = [pc EXCEPT ![p] = IF cell'[p] < Cells THEN "setup" ELSE "clear"]
    BY <2>2 DEF NextCell, Return, Go
  <2>5. \A q \in Procs : pc'[q] \in {"off", "apply", "setup", "measure"} => cell'[q] < Cells
    BY <2>2, <2>4 DEF ProxySide, ProxyTypeOK
  <2> QED
    BY <2>2, <2>3, <2>5
<1>2. CASE NextCell(p)
  <2>1. ProxySide'
    BY <1>2, GoesOn DEF NextCell, proxy, ProxySide, ProxyTypeOK
  <2>2. DatabaseSide'
    BY <1>2, SetupBegins DEF NextCell, DatabaseSide, ProxySide, ProxyTypeOK, Go
  <2> QED
    BY <1>1, <2>1, <2>2
<1>3. CASE Return(p) /\ UNCHANGED setups
  <2>1. ProxySide'
    BY <1>3, Calls DEF Return
  <2>2. DatabaseSide'
    BY <1>3, StoredKept DEF Return, DatabaseSide, Stored, ProxySide, ProxyTypeOK, Go
  <2> QED
    BY <1>1, <2>1, <2>2
<1> QED
  BY <1>2, <1>3

(* A run ends early. *)
LEMMA RunFailsStep == ASSUME TwoBenchesInv, NEW p \in Procs, RunFails(p) PROVE TwoBenchesInv'
<1> USE DEF TwoBenchesInv, RunFails, progress
<1>1. ProxySide'
  BY Calls DEF Return
<1>2. DatabaseSide'
  BY StoredKept DEF Return, DatabaseSide, Stored, ProxySide, ProxyTypeOK, Go
<1> QED
  BY <1>1, <1>2, CellsKept DEF Return

(* The process ends. *)
LEMMA ExitStep == ASSUME TwoBenchesInv, NEW p \in Procs, Exit(p) PROVE TwoBenchesInv'
<1> USE DEF TwoBenchesInv, Exit, progress, proxy
<1>1. pc'[p] = "done" /\ \A q \in Procs \ {p} : pc'[q] = pc[q]
  BY DEF ProxySide, ProxyTypeOK, Go
<1>2. ProxyTypeOK'
  <2>1. wrong' \in [Procs -> BOOLEAN] /\ disturbed' \in [Procs -> BOOLEAN]
    BY Zenon DEF ProxySide, ProxyTypeOK
  <2> QED
    BY <1>1, <2>1 DEF ProxySide, ProxyTypeOK, Go
<1>3. Targets' /\ UndisturbedCells'
  BY <1>1 DEF ProxySide, Targets, UndisturbedCells
<1>4. Alone'
  BY <1>1 DEF ProxySide, Alone, Undisturbed, Applying
<1>5. Answered'
  <2>1. client' = client /\ toxics' = toxics /\ pc[p] = "clear" /\ client[p].lpc = "idle"
    OBVIOUS
  <2> QED
    BY <1>1, <2>1, OthersAnswer DEF AnswersFor, ProxySide
<1>6. DatabaseSide'
  BY <1>1, StoredKept DEF DatabaseSide, Stored
<1> QED
  BY <1>2, <1>3, <1>4, <1>5, <1>6, CellsKept DEF ProxySide

(* The process is killed. *)
LEMMA KillStep == ASSUME TwoBenchesInv, NEW p \in Procs, Kill(p) PROVE TwoBenchesInv'
<1> USE DEF TwoBenchesInv, progress
<1>1. /\ pc'[p] = "done" /\ \A q \in Procs \ {p} : pc'[q] = pc[q]
      /\ pc' \in [Procs -> {"off", "apply", "setup", "measure", "clear", "done"}]
  BY DEF ProxySide, ProxyTypeOK, Go, Kill
<1>2. /\ client'[p].lpc = "idle" /\ client'[p].answer = "failed"
      /\ \A q \in Procs \ {p} : client'[q] = client[q]
      /\ client' \in [Procs -> Client]
  BY DEF ProxySide, ProxyTypeOK, Idle, Kill, Client, Delay
<1>3. wrong' = wrong /\ cell' = cell /\ iter' = iter
  BY DEF Kill
<1>4. disturbed[p] \in BOOLEAN
  BY Zenon DEF ProxySide, ProxyTypeOK
<1>5. Disturbs(p, disturbed[p])
  BY DEF Kill
<1>6. /\ disturbed' \in [Procs -> BOOLEAN] /\ (disturbed'[p] <=> disturbed[p])
      /\ \A q \in Procs \ {p} : (disturbed[q] => disturbed'[q]) /\ Undisturbed(q)'
  BY <1>1, <1>2, <1>4, <1>5, OthersDisturbed
<1>7. ProxyTypeOK'
  <2>1. wrong' \in [Procs -> BOOLEAN]
    BY Zenon, <1>3 DEF ProxySide, ProxyTypeOK
  <2>2. toxics' \in [Legs -> Delay]
    BY EffectsType DEF Kill, ProxySide
  <2> QED
    BY <1>1, <1>2, <1>6, <2>1, <2>2 DEF ProxySide, ProxyTypeOK
<1>8. Targets' /\ UndisturbedCells'
  BY <1>1, <1>2, <1>3, <1>6 DEF ProxySide, Targets, UndisturbedCells
<1>9. Alone'
  BY <1>1, <1>6 DEF Alone, Undisturbed
<1>10. Answered'
  BY <1>1, <1>2 DEF Answered, AnswersFor
<1>11. DatabaseSide'
  <2>1. CASE SetupFails(p)
    BY <1>1, <2>1, SetupStored DEF Kill, SetupStep, DatabaseSide
  <2>2. CASE wpc[p] = "idle" /\ UNCHANGED <<database, setups>>
    BY <1>1, <2>2, StoredKept DEF Kill, DatabaseSide, Stored
  <2> QED
    BY <2>1, <2>2 DEF Kill
<1>12. Go(p, "done")
  BY DEF Kill
<1>13. ProxySide'
  BY <1>7, <1>8, <1>9, <1>10 DEF ProxySide
<1> QED
  BY <1>3, <1>11, <1>12, <1>13, CellsKept

(* A request reaches the proxy, or fails. *)
LEMMA ProxyRequestStep == ASSUME TwoBenchesInv, NEW p \in Procs, ProxyRequest(p) PROVE TwoBenchesInv'
<1> USE DEF TwoBenchesInv, progress
<1> DEFINE c == client[p]
           d == client'[p]
<1>1. /\ pc' = pc /\ wrong' = wrong /\ cell' = cell /\ iter' = iter
      /\ pc[p] \in {"apply", "clear"}
  BY DEF ProxyRequest
<1>2. client' \in [Procs -> Client] /\ \A q \in Procs \ {p} : client'[q] = client[q]
  BY Moved DEF ProxyRequest, ProxySide
<1>3. Disturbs(p, disturbed[p] /\ (pc[p] = "clear" \/ c.lpc # "list"))
  BY DEF ProxyRequest
<1>4. /\ disturbed' \in [Procs -> BOOLEAN]
      /\ disturbed'[p] <=> disturbed[p] /\ (pc[p] = "clear" \/ c.lpc # "list")
      /\ \A q \in Procs \ {p} : (disturbed[q] => disturbed'[q]) /\ Undisturbed(q)'
  BY <1>1, <1>2, <1>3, OthersDisturbed
<1>5. /\ c \in Client /\ toxics \in [Legs -> Delay]
      /\ pc[p] = "apply" => c.target = PresetOf[p] /\ PresetOf[p] \in Presets /\ ~wrong[p]
      /\ pc[p] = "clear" => c.target = "none" /\ c.lpc \notin Legs
      /\ ~disturbed[p] /\ pc[p] = "apply" => Applying(p)
  BY <1>1, PresetOfAssumption DEF ProxySide, ProxyTypeOK, Targets, Alone, Undisturbed
<1>6. UndisturbedCells'
  BY <1>1, <1>4, <1>5 DEF ProxySide, UndisturbedCells
<1>7. DatabaseSide'
  BY <1>1, StoredKept DEF ProxyRequest, DatabaseSide, Stored
<1> DEFINE Goal ==
             /\ toxics' \in [Legs -> Delay]
             /\ pc[p] = "apply" => d.target = PresetOf[p]
             /\ pc[p] = "clear" => d.target = "none" /\ d.lpc \notin Legs
             /\ ~disturbed'[p] /\ pc[p] = "apply" => Applying(p)'
             /\ \A l \in Legs : toxics'[l] # "none" =>
                   AnswersFor(p, l)' \/ (toxics[l] # "none" /\ ~AnswersFor(p, l))
<1> USE DEF C!Legs, C!Finish, C!ClearedThen, Legs, Delay, Client, Both
<1>8. ASSUME C(p)!List PROVE Goal
  <2>1. /\ c.lpc = "list" /\ toxics' = toxics /\ d.target = c.target
        /\ d.listed = {l \in Legs : toxics[l] # "none"}
        /\ d.listed = {} /\ c.target = "none" => d.lpc = "idle" /\ d.answer = "ok"
        /\ d.listed = {} /\ c.target # "none" => d.lpc = "upstream"
        /\ d.listed # {} => d.lpc = "remove"
    BY <1>8 DEF C!List
  <2>2. pc[p] = "clear" => d.lpc \notin Legs
    BY <1>5, <2>1
  <2>3. pc[p] = "apply" => Applying(p)'
    BY <1>1, <1>5, <2>1, PresetsAssumption DEF Applying
  <2>4. \A l \in Legs : toxics'[l] # "none" => AnswersFor(p, l)'
    BY <1>1, <1>5, <2>1 DEF AnswersFor
  <2> QED
    BY <1>5, <2>1, <2>2, <2>3, <2>4 DEF AnswersFor
<1>9. ASSUME C(p)!Remove PROVE Goal
  <2>1. /\ c.lpc = "remove" /\ d.target = c.target
        /\ d.listed # {} => d.lpc = "remove"
        /\ d.listed = {} /\ c.target = "none" => d.lpc = "idle" /\ d.answer = "ok"
        /\ d.listed = {} /\ c.target # "none" => d.lpc = "upstream"
    BY <1>9 DEF C!Remove
  <2>2. PICK l \in c.listed : toxics' = [toxics EXCEPT ![l] = "none"] /\ d.listed = c.listed \ {l}
    BY <1>9 DEF C!Remove
  <2>3. /\ toxics' \in [Legs -> Delay] /\ toxics'[l] = "none"
        /\ \A k \in Legs \ {l} : toxics'[k] = toxics[k]
    BY <1>5, <2>2
  <2>4. pc[p] = "clear" => d.lpc \notin Legs
    BY <1>5, <2>1
  <2>5. ~disturbed[p] /\ pc[p] = "apply" => Applying(p)'
    BY <1>1, <1>5, <2>1, <2>2, <2>3, PresetsAssumption DEF Applying
  <2>6. ASSUME NEW k \in Legs, toxics'[k] # "none"
        PROVE  AnswersFor(p, k)' \/ (toxics[k] # "none" /\ ~AnswersFor(p, k))
    BY <1>1, <1>5, <2>1, <2>2, <2>3, <2>6 DEF AnswersFor
  <2> QED
    BY <1>4, <1>5, <2>1, <2>3, <2>4, <2>5, <2>6 DEF AnswersFor
<1>10. ASSUME C(p)!Add PROVE Goal
  <2>1. /\ c.lpc \in Legs /\ d.target = c.target
        /\ toxics' = [toxics EXCEPT ![c.lpc] = c.target]
        /\ c.lpc = "upstream" => d.lpc = "downstream"
        /\ c.lpc = "downstream" => d.lpc = "idle" /\ d.answer = "ok"
    BY <1>10 DEF C!Add
  <2>2. pc[p] = "apply" /\ c.target = PresetOf[p]
    BY <1>1, <1>5, <2>1
  <2>3. /\ toxics' \in [Legs -> Delay] /\ toxics'[c.lpc] = c.target
        /\ \A k \in Legs \ {c.lpc} : toxics'[k] = toxics[k]
    BY <1>5, <2>1
  <2>4. ~disturbed'[p] => Applying(p)'
    <3> SUFFICES ASSUME ~disturbed'[p] PROVE Applying(p)'
      OBVIOUS
    <3>1. Applying(p)
      BY <1>1, <1>4, <1>5, <2>1, <2>2
    <3>2. CASE c.lpc = "upstream"
      BY <2>1, <2>2, <2>3, <3>1, <3>2 DEF Applying
    <3>3. CASE c.lpc = "downstream"
      <4>1. \A l \in Legs : toxics'[l] = PresetOf[p]
        BY <2>1, <2>2, <2>3, <3>1, <3>3 DEF Applying
      <4>2. toxics' = Both(PresetOf[p])
        BY <2>3, <4>1
      <4> QED
        BY <2>1, <3>3, <4>2 DEF Applying
    <3> QED
      BY <2>1, <3>2, <3>3
  <2>5. \A l \in Legs : AnswersFor(p, l)'
    BY <1>1, <2>2 DEF AnswersFor
  <2> QED
    BY <1>1, <2>1, <2>2, <2>3, <2>4 DEF AnswersFor
<1>11. ASSUME C(p)!RequestFails PROVE Goal
  <2>1. /\ c.lpc # "idle" /\ toxics' \in C(p)!Effects
        /\ d.target = c.target /\ d.lpc = "idle" /\ d.answer = "failed"
    BY <1>11 DEF C!RequestFails
  <2>2. toxics' \in [Legs -> Delay]
    BY <2>1, EffectsType DEF ProxySide
  <2>3. Applying(p)'
    BY <2>1 DEF Applying
  <2>4. \A l \in Legs : AnswersFor(p, l)'
    BY <1>1, <2>1 DEF AnswersFor
  <2> QED
    BY <1>5, <2>1, <2>2, <2>3, <2>4 DEF AnswersFor
<1>12. Goal
  BY <1>8, <1>9, <1>10, <1>11 DEF ProxyRequest, C!LatencyStep
<1>13. ProxyTypeOK'
  BY Zenon, <1>1, <1>2, <1>4, <1>12 DEF ProxySide, ProxyTypeOK
<1>14. Targets'
  BY <1>1, <1>2, <1>12 DEF ProxySide, Targets
<1>15. Alone'
  BY <1>1, <1>4, <1>12 DEF Alone, Undisturbed
<1>16. Answered'
  BY <1>1, <1>2, <1>12, OthersAnswer
<1> QED
  BY <1>1, <1>6, <1>7, <1>13, <1>14, <1>15, <1>16 DEF ProxySide

(* Nothing is under way in a new process. *)
LEMMA InitStep == Init => TwoBenchesInv
<1> SUFFICES ASSUME Init PROVE TwoBenchesInv
  OBVIOUS
<1> USE DEF Init, WorkloadInit
<1>1. toxics \in [Legs -> Delay]
  BY LeftBehindAssumption DEF Leftovers, Delay
<1>2. WorkloadTypeOK
  <2>1. table \in BOOLEAN /\ rows \subseteq Seeded /\ found \in [Procs -> BOOLEAN]
    BY Zenon
  <2>2. /\ wpc \in [Procs -> {"idle", "create", "creating", "count", "seed"}]
        /\ setup \in [Procs -> {"none", "ok", "duplicate", "failed"}]
        /\ nextID \in [Procs -> Nat] /\ issued \in [Procs -> Seq(Nat)]
    OBVIOUS
  <2> QED
    BY <2>1, <2>2 DEF WorkloadTypeOK
<1>3. DatabaseSide
  BY <1>2 DEF DatabaseSide, Stored, RetrySetsUp, StatementsReadRows
<1>4. ProxyTypeOK
  <2>1. wrong \in [Procs -> BOOLEAN] /\ disturbed \in [Procs -> BOOLEAN]
    BY Zenon
  <2>2. client \in [Procs -> Client] /\ \A p \in Procs : client[p].lpc = "idle"
    BY DEF Idle, Client, Delay
  <2> QED
    BY <1>1, <2>1, <2>2 DEF ProxyTypeOK
<1>5. Targets /\ UndisturbedCells /\ Alone
  BY DEF Targets, UndisturbedCells, Alone, Undisturbed
<1>6. Answered
  BY ProcsAssumption DEF Answered, AnswersFor
<1>7. /\ \A p \in Procs : cell[p] < Cells
      /\ cell \in [Procs -> 0 .. Cells] /\ iter \in [Procs -> 0 .. Iterations]
  BY CellsAssumption
<1> QED
  BY <1>3, <1>4, <1>5, <1>6, <1>7 DEF TwoBenchesInv, ProxySide

(* A step in which nothing changes. *)
LEMMA StutterStep == ASSUME TwoBenchesInv, UNCHANGED vars PROVE TwoBenchesInv'
<1> USE DEF TwoBenchesInv, vars, database, setups, ids, proxy, progress
<1>1. WorkloadTypeOK' /\ ProxyTypeOK'
  BY DEF DatabaseSide, ProxySide, WorkloadTypeOK, ProxyTypeOK
<1>2. DatabaseSide'
  BY <1>1 DEF DatabaseSide, Stored, RetrySetsUp, StatementsReadRows
<1>3. ProxySide'
  BY <1>1 DEF ProxySide, Targets, UndisturbedCells, Alone, Undisturbed, Applying, Answered, AnswersFor
<1> QED
  BY <1>2, <1>3

(* TwoBenchesInv holds in every reachable state. *)
THEOREM TwoBenchesInvariant == Spec => []TwoBenchesInv
<1>1. Init => TwoBenchesInv
  BY InitStep
<1>2. TwoBenchesInv /\ [Next]_vars => TwoBenchesInv'
  <2> SUFFICES ASSUME TwoBenchesInv, [Next]_vars PROVE TwoBenchesInv'
    OBVIOUS
  <2>1. ASSUME NEW p \in Procs, BenchStep(p) PROVE TwoBenchesInv'
    BY <2>1, StartStep, ProxyRequestStep, AppliedStep, SetupRequestStep, SetupDoneStep, IterateStep,
       IterationFailsStep, CellDoneStep, RunFailsStep, ExitStep DEF BenchStep
  <2>2. ASSUME NEW p \in Procs, Kill(p) PROVE TwoBenchesInv'
    BY <2>2, KillStep
  <2>3. CASE UNCHANGED vars
    BY <2>3, StutterStep
  <2> QED
    BY <2>1, <2>2, <2>3 DEF Next, Done
<1> QED
  BY <1>1, <1>2, PTL DEF Spec

(* The variables of module TwoBenches keep their types, with any number of *)
(* processes on one proxy and one database (bench.go, single.go, batch.go). *)
THEOREM TwoBenchesTypeCorrect == Spec => []TypeOK
<1>1. TwoBenchesInv => TypeOK
  BY DEF TwoBenchesInv, DatabaseSide, ProxySide, TypeOK
<1> QED
  BY <1>1, TwoBenchesInvariant, PTL

(* Every statement asks for a row that is there, whoever else set the      *)
(* workload up at the time (single.go:34-70, batch.go:38-53).              *)
THEOREM StatementsReadRowsCorrect == Spec => []StatementsReadRows
<1>1. TwoBenchesInv => StatementsReadRows
  BY DEF TwoBenchesInv, DatabaseSide, ProxySide
<1> QED
  BY <1>1, TwoBenchesInvariant, PTL

(* A Setup that met a duplicate began before the table was there, so the   *)
(* next one succeeds (single.go:36-43).                                    *)
THEOREM RetrySetsUpCorrect == Spec => []RetrySetsUp
<1>1. TwoBenchesInv => RetrySetsUp
  BY DEF TwoBenchesInv, DatabaseSide, ProxySide
<1> QED
  BY <1>1, TwoBenchesInvariant, PTL

(* While no other process changes the proxy, the cells run under the preset *)
(* (toxiproxy.go:87-113).                                                  *)
THEOREM UndisturbedCellsCorrect == Spec => []UndisturbedCells
<1>1. TwoBenchesInv => UndisturbedCells
  BY DEF TwoBenchesInv, DatabaseSide, ProxySide
<1> QED
  BY <1>1, TwoBenchesInvariant, PTL

(* Processes that all ended with a Clear that succeeded leave no toxic     *)
(* (bench.go:115).                                                         *)
THEOREM SharedCleanExitCorrect == Spec => []SharedCleanExit
<1>1. TwoBenchesInv => SharedCleanExit
  BY DEF TwoBenchesInv, DatabaseSide, ProxySide, Answered, AnswersFor, SharedCleanExit, ProxyTypeOK, Both, Legs
<1> QED
  BY <1>1, TwoBenchesInvariant, PTL

=============================================================================
