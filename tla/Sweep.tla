------------------------------- MODULE Sweep -------------------------------
(***************************************************************************)
(* What an invocation of otelbench bench promises to the reader of its     *)
(* reports: the cells of the grid of latency presets and modes are         *)
(* measured one after the other, each once and in the grid's order; the    *)
(* first that is not measured to the end is the last; and a report, of     *)
(* which there is at most one, is the grid as it was measured.             *)
(***************************************************************************)
EXTENDS Integers, Sequences

CONSTANTS Sweeps, ModeLists, Cell

VARIABLES
    running,        \* an invocation is under way
    presets, modes, \* its rows and columns
    measured,       \* the cells of its grid, as far as it got
    published       \* its report, <<>> before it

svars == <<running, presets, modes, measured, published>>

(* c is cell n of the grid, which is numbered row by row. *)
Fits(c, n) ==
    LET row == (n - 1) \div Len(modes)
        column == (n - 1) % Len(modes)
    IN  /\ row + 1 \in DOMAIN presets
        /\ c.preset = presets[row + 1] /\ c.mode = modes[column + 1]

Whole == \A n \in DOMAIN measured : measured[n].full

Init ==
    /\ running = FALSE
    /\ presets = <<>> /\ modes = <<>>
    /\ measured = <<>> /\ published = <<>>

Begin ==
    /\ ~running
    /\ running' = TRUE
    /\ presets' \in Sweeps /\ modes' \in ModeLists
    /\ measured' = <<>> /\ published' = <<>>

Measure ==
    /\ running /\ published = <<>> /\ Whole
    /\ \E c \in Cell : Fits(c, Len(measured) + 1) /\ measured' = Append(measured, c)
    /\ UNCHANGED <<running, presets, modes, published>>

Publish ==
    /\ running /\ published = <<>> /\ Whole
    /\ Len(measured) = Len(presets) * Len(modes)
    /\ published' = measured
    /\ UNCHANGED <<running, presets, modes, measured>>

End ==
    /\ running
    /\ running' = FALSE
    /\ UNCHANGED <<presets, modes, measured, published>>

Next == Begin \/ Measure \/ Publish \/ End

Spec == Init /\ [][Next]_svars
=============================================================================
