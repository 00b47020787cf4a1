------------------------ MODULE MCFunctionBlockScan ------------------------
(* Lists of up to three blocks from position 0 or 1: sorted and not.        *)
EXTENDS FunctionBlockScan

\* A list from its first position, its kinds and its inputs.
List(f, k, s) ==
    [start |-> f, n |-> Len(k),
     kind |-> [o \in Objects |-> IF o - f \in 0 .. Len(k) - 1 THEN k[o - f + 1] ELSE "point"],
     src  |-> [o \in Objects |-> IF o - f \in 0 .. Len(k) - 1 THEN s[o - f + 1] ELSE << >>]]

Gate     == List(0, <<"point", "not", "and">>, << << >>, <<0>>, <<0, 1>> >>)
Either   == List(0, <<"point", "or">>, << << >>, <<0>> >>)
Backward == List(1, <<"or", "copy", "point">>, << <<3, 2>>, <<3>>, << >> >>)

MCAll  == {Gate, Either, Backward}
MCBack == {Backward, Gate}
=============================================================================
