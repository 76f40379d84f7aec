------------------------------ MODULE MCBench ------------------------------
(* A small instance of module Bench: a single preset, the passthrough and  *)
(* a sweep; all modes known, or an unknown one behind a known one.         *)
EXTENDS Bench

MCPresets == {"intradc", "crossregion"}
MCSweeps == {<<"none">>, <<"intradc">>, <<"none", "intradc", "crossregion">>}
MCModeLists == {<<"1a", "3">>, <<"1a", "4">>}
MCRegistered == {"1a", "3"}
=============================================================================
