--------------------------- MODULE MCCpuSelection ---------------------------
(***************************************************************************)
(* Values for CpuSelection: machines whose numbers are dense, sparse,      *)
(* guessed from the online count, and spread over two groups.              *)
(***************************************************************************)
EXTENDS CpuSelection

MCMachines ==
    {[readable |-> TRUE,  mask |-> {0, 1, 2, 3}, counts |-> <<4>>],
     [readable |-> TRUE,  mask |-> {1, 3},       counts |-> <<4>>],
     [readable |-> FALSE, mask |-> {},           counts |-> <<3>>],
     [readable |-> TRUE,  mask |-> {0, 1},       counts |-> <<2, 1>>],
     [readable |-> FALSE, mask |-> {},           counts |-> <<0>>]}

MCTyped == {-1, 0, 1, 3, 4, 9}

=============================================================================
