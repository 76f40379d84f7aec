---------------------------- MODULE MCTwoBenches ----------------------------
(* Two processes under different presets, one with the single workload and *)
(* one with a batch of three, more than there are rows.                   *)
EXTENDS TwoBenches

MCProcs == {"p1", "p2"}
MCBatchSize == [p \in MCProcs |-> IF p = "p1" THEN 0 ELSE 3]
MCPresets == {"intradc", "crossregion"}
MCPresetOf == [p \in MCProcs |-> IF p = "p1" THEN "intradc" ELSE "crossregion"]
=============================================================================
