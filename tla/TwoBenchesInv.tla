--------------------------- MODULE TwoBenchesInv ---------------------------
(***************************************************************************)
(* The inductive invariant behind the safety properties of module          *)
(* TwoBenches: what the database holds at each request of a Setup, what a  *)
(* process may conclude about the proxy while nobody disturbs it, and who  *)
(* still has to remove a toxic.                                            *)
(***************************************************************************)
EXTENDS TwoBenches

(* The rows come all at once, and a Setup that returned nil left them there. *)
Stored ==
    /\ rows \in {{}, Seeded}
    /\ rows # {} => table
    /\ \A p \in Procs :
          /\ found[p] => table
          /\ wpc[p] \in {"count", "seed"} => table
          /\ wpc[p] = "creating" => ~found[p]
          /\ wpc[p] # "idle" => setup[p] = "none"
          /\ setup[p] = "ok" => rows = Seeded
          /\ pc[p] = "measure" => setup[p] = "ok"

(* Whom a client works for. *)
Targets ==
    \A p \in Procs :
        /\ pc[p] \in {"off", "apply"} => ~wrong[p]
        /\ pc[p] = "apply" => client[p].target = PresetOf[p]
        /\ pc[p] = "clear" => client[p].target = "none" /\ client[p].lpc \notin Legs

(* What Apply has done so far, in the view of a process left alone. *)
Applying(p) ==
    /\ client[p].lpc = "remove" => client[p].listed = {l \in Legs : toxics[l] # "none"}
    /\ client[p].lpc \in Legs => toxics["downstream"] = "none"
    /\ client[p].lpc = "upstream" => toxics["upstream"] = "none"
    /\ client[p].lpc = "downstream" => toxics["upstream"] = PresetOf[p]
    /\ client[p].lpc = "idle" /\ client[p].answer = "ok" => toxics = Both(PresetOf[p])

Undisturbed(p) ==
    ~disturbed[p] =>
        /\ pc[p] = "apply" => Applying(p)
        /\ pc[p] \in {"setup", "measure"} => toxics = Both(PresetOf[p])

Alone == \A p \in Procs : Undisturbed(p)

(* A process that will remove leg l, or will report that it could not. *)
AnswersFor(p, l) ==
    \/ pc[p] \in {"off", "apply", "setup", "measure"}
    \/ pc[p] = "clear" /\ client[p].lpc = "list"
    \/ pc[p] = "clear" /\ client[p].lpc = "remove" /\ l \in client[p].listed
    \/ pc[p] \in {"clear", "done"} /\ client[p].lpc = "idle" /\ client[p].answer = "failed"

Answered == \A l \in Legs : toxics[l] # "none" => \E p \in Procs : AnswersFor(p, l)

DatabaseSide ==
    /\ WorkloadTypeOK /\ Stored /\ StatementsReadRows /\ RetrySetsUp
    /\ \A p \in Procs : wpc[p] # "idle" => pc[p] = "setup"

ProxySide == ProxyTypeOK /\ Targets /\ Alone /\ Answered /\ UndisturbedCells

TwoBenchesInv ==
    /\ DatabaseSide /\ ProxySide
    /\ cell \in [Procs -> 0 .. Cells] /\ iter \in [Procs -> 0 .. Iterations]
    /\ \A p \in Procs : pc[p] \in {"off", "apply", "setup", "measure"} => cell[p] < Cells

(* The counter is the number of statements so far, and the ids go round    *)
(* the table: a single workload begins with its second row, a batch with   *)
(* its first.                                                              *)
Offset(p) == IF BatchSize[p] = 0 THEN 1 ELSE 0

Rotating ==
    \A p \in Procs :
        /\ nextID[p] = Len(issued[p])
        /\ \A j \in DOMAIN issued[p] : issued[p][j] = (j - 1 + Offset(p)) % SingleSeedRows
=============================================================================
