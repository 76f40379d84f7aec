------------------------------ MODULE Latency ------------------------------
(***************************************************************************)
(* latency.Client (internal/latency/toxiproxy.go): the two otelbench       *)
(* toxics of one toxiproxy proxy and the client calls that change them,    *)
(* one HTTP request per step.  Requests do not carry the run's context.    *)
(* The proxy outlives the process that talks to it, and refuses to add a   *)
(* toxic whose name exists or to remove one that does not: with a single   *)
(* client only a restart of the proxy brings that about, module TwoBenches *)
(* has two.                                                                *)
(***************************************************************************)
EXTENDS Integers

CONSTANT Presets        \* the presets other than "none"

ASSUME PresetsAssumption == "none" \notin Presets

Legs == {"upstream", "downstream"}
Delay == Presets \cup {"none"}

VARIABLES
    toxics,     \* the delay on each leg of the proxy, "none" if it has no toxic
    target,     \* the preset of the call in progress; "none" for Clear, too
    lpc,        \* the next request of the call: "idle" outside one
    listed,     \* what the call has listed and not removed yet
    answer      \* outcome of the last call: "ok" or "failed"

latency == <<toxics, target, lpc, listed, answer>>

LatencyTypeOK ==
    /\ toxics \in [Legs -> Delay]
    /\ target \in Delay
    /\ lpc \in {"idle", "list", "remove", "upstream", "downstream"}
    /\ listed \subseteq Legs
    /\ answer \in {"ok", "failed"}

LatencyInit ==
    /\ toxics = [l \in Legs |-> "none"]
    /\ target = "none"
    /\ lpc = "idle"
    /\ listed = {}
    /\ answer = "ok"

Shaped(p) == \A l \in Legs : toxics[l] = p

(* Apply(p) and Clear() both start with the list of toxics. *)
Call(p) ==
    /\ lpc = "idle"
    /\ target' = p
    /\ lpc' = "list"
    /\ UNCHANGED <<toxics, listed, answer>>

Finish(a) == lpc' = "idle" /\ answer' = a

(* A call that is through with Clear adds its toxics, unless it has none to add. *)
ClearedThen ==
    IF target = "none" THEN Finish("ok") ELSE lpc' = "upstream" /\ UNCHANGED answer

List ==
    /\ lpc = "list"
    /\ listed' = {l \in Legs : toxics[l] # "none"}
    /\ IF listed' = {} THEN ClearedThen ELSE lpc' = "remove" /\ UNCHANGED answer
    /\ UNCHANGED <<toxics, target>>

(* Mutant: Clear returns behind its first removal. *)
RemoveOnlyOne ==
    /\ lpc = "remove"
    /\ \E l \in listed :
          /\ toxics[l] # "none"
          /\ toxics' = [toxics EXCEPT ![l] = "none"]
          /\ listed' = listed \ {l}
    /\ ClearedThen
    /\ UNCHANGED target

Remove ==
    /\ lpc = "remove"
    /\ \E l \in listed :
          /\ toxics[l] # "none"
          /\ toxics' = [toxics EXCEPT ![l] = "none"]
          /\ listed' = listed \ {l}
    /\ IF listed' = {} THEN ClearedThen ELSE UNCHANGED <<lpc, answer>>
    /\ UNCHANGED target

(* Mutant: one leg is taken for both. *)
AddOneLeg ==
    /\ lpc \in Legs
    /\ toxics[lpc] = "none"
    /\ toxics' = [toxics EXCEPT ![lpc] = target]
    /\ Finish("ok")
    /\ UNCHANGED <<target, listed>>

(* AddToxic for the upstream leg, then for the downstream leg. *)
Add ==
    /\ lpc \in Legs
    /\ toxics[lpc] = "none"
    /\ toxics' = [toxics EXCEPT ![lpc] = target]
    /\ IF lpc = "upstream" THEN lpc' = "downstream" /\ UNCHANGED answer ELSE Finish("ok")
    /\ UNCHANGED <<target, listed>>

(* What the request under way may have done to the proxy when it is        *)
(* refused or its answer does not come.                                    *)
Effects ==
    {toxics}
      \cup {[toxics EXCEPT ![l] = "none"] : l \in IF lpc = "remove" THEN listed ELSE {}}
      \cup {[toxics EXCEPT ![l] = target] : l \in {l \in {lpc} \cap Legs : toxics[l] = "none"}}

RequestFails ==
    /\ lpc # "idle"
    /\ toxics' \in Effects
    /\ listed' = {}
    /\ Finish("failed")
    /\ UNCHANGED target

LatencyStep == List \/ Remove \/ Add \/ RequestFails
=============================================================================
