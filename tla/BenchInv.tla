------------------------------ MODULE BenchInv ------------------------------
(***************************************************************************)
(* The inductive invariant behind the safety properties of module Bench:   *)
(* how far the loops are, what a call of the latency client has done to    *)
(* the proxy, and what a process may have left behind.                     *)
(***************************************************************************)
EXTENDS Bench

Looping == {"preset", "apply", "mode", "report"}

(* Where the loop indices are. *)
Loops ==
    /\ pc \in {"new", "tracing"} => pi = 1 /\ mi = 1 /\ cells = <<>>
    /\ pc \in {"apply", "mode"} => pi <= Len(presets)
    /\ pc = "apply" => mi = 1
    /\ pc = "report" => pi = Len(presets) + 1

(* A collected cell is the next one of the grid, measured to the end. *)
Gathered(cs) ==
    \A n \in DOMAIN cs :
        /\ cs[n].full
        /\ cs[n].preset = presets[((n - 1) \div Len(modes)) + 1]
        /\ cs[n].mode = modes[((n - 1) % Len(modes)) + 1]

(* In the loops every cell so far is there. *)
Collected ==
    pc \in Looping =>
        /\ Gathered(cells)
        /\ Len(cells) = (pi - 1) * Len(modes) + (IF pc = "mode" THEN mi - 1 ELSE 0)

(* The report and the exit status come with each other. *)
Status ==
    /\ pc \in {"new", "tracing"} \cup Looping => status = "none" /\ report = <<>>
    /\ status = "none" => pc \notin {"shutdown", "clear", "clearing"}

(* What Apply and Clear have done at each of their requests. *)
Requests ==
    /\ lpc = "remove" => \A l \in Legs \ listed : toxics[l] = "none"
    /\ lpc \in Legs => target # "none" /\ toxics["downstream"] = "none"
    /\ lpc = "upstream" => toxics["upstream"] = "none"
    /\ lpc = "downstream" /\ kept => toxics["upstream"] = target
    /\ (pc = "apply" /\ kept) \/ pc = "clearing" =>
          (lpc = "idle" /\ answer = "ok" => Shaped(target))

(* For whom the proxy was asked. *)
Shaping ==
    /\ pc = "new" => ~client
    /\ pc \in {"apply", "clearing"} => client
    /\ pc = "apply" => target = presets[pi]
    /\ pc = "clearing" => target = "none"
    /\ pc = "mode" /\ client /\ kept => Shaped(presets[pi])

(* No span ends before the first run. *)
NoSpans == pc \in {"new", "tracing"} => queued = 0

BenchInv ==
    /\ TypeOK /\ Loops /\ Collected /\ Status /\ Requests /\ Shaping /\ NoSpans
    /\ MeasuredUnderPreset /\ ReportIsGrid /\ CleanExit /\ SpansAreExported
=============================================================================
