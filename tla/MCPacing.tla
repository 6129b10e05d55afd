------------------------------ MODULE MCPacing ------------------------------
(* Cost lines, in ns for a target of 250: a machine on which the target is *)
(* between two numbers of layers, at a tie, below the first, above the     *)
(* last, a factor of two off on either side and out of reach on either     *)
(* side, and a load that costs nothing; what a run does besides takes      *)
(* nothing, a little, exactly half the target or more.                     *)
EXTENDS Pacing

Line(overhead, per_layer, check) ==
    [overhead |-> overhead, per_layer |-> per_layer, check |-> check]
MCLines == {Line(10, 43, 12), Line(5, 98, 126), Line(100, 400, 125), Line(0, 2, 9),
            Line(61, 1, 0), Line(0, 700, 20), Line(40, 0, 12)}

=============================================================================
