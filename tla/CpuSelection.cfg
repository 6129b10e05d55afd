\* Machines with a full mask, a mask with holes, a mask that cannot be read, two
\* processor groups, and no processor.  Two lists of up to three tokens; 9 does
\* not fit a long.
SPECIFICATION Spec
CONSTANTS
    Machines <- MCMachines
    Typed <- MCTyped
    k_max_core_index = 4
    LongMax = 7
    MaxTokens = 3
    MaxAsks = 2
INVARIANTS
    SelectionIsTheAnswer
    SelectedCoresAreDifferent
    ReportedListRoundTrips
CHECK_DEADLOCK FALSE
