---------------------------- MODULE CpuSelection ----------------------------
(***************************************************************************)
(* Which cores the sweep visits: sdc_enumerate_cpus, the question about    *)
(* the cores, parse_cpu_selection and format_cpu_list.                     *)
(*                                                                         *)
(* A token is what stands between separators.  What strtol makes of a text *)
(* is all that the parser looks at, so a text is a number, junk (something *)
(* is left over) or empty.  A list is read one token a step and looked up  *)
(* one number a step, into the vector `out` that an earlier, rejected      *)
(* answer may have filled.                                                 *)
(***************************************************************************)
EXTENDS Integers, Sequences, FiniteSets, SequencesExt

CONSTANTS
    Machines,          \* what the operating system says about processors
    Typed,             \* numbers people type
    k_max_core_index,  \* largest core number accepted
    LongMax,           \* the largest long
    MaxTokens,         \* bound on the tokens of an answer
    MaxAsks            \* bound on the lists typed

ASSUME SelectionAssumption ==
    /\ k_max_core_index \in Nat
    /\ LongMax \in Nat /\ k_max_core_index < LongMax
    /\ Typed \subseteq Int
    /\ MaxTokens \in Nat /\ MaxAsks \in Nat
    /\ \A m \in Machines : /\ m.readable \in BOOLEAN
                           /\ m.mask \subseteq 0..k_max_core_index
                           /\ m.counts \in Seq(Nat)

(* All of a finite set, in the order that `before`, a set of pairs, says.  *)
InOrder(S, before) ==
    CHOOSE f \in [1..Cardinality(S) -> S] :
        \A i, j \in 1..Cardinality(S) : i < j => <<f[i], f[j]>> \in before
Ascending(S) == {p \in S \X S : p[1] < p[2]}
GroupByGroup(S) ==
    {p \in S \X S : \/ p[1].group < p[2].group
                    \/ p[1].group = p[2].group /\ p[1].in_group < p[2].in_group}

(* readable: the affinity mask could be read; mask: the processors in it;  *)
(* counts: online processors of each processor group (one group on Linux). *)
FromMask(mask) ==
    LET bits == InOrder(mask, Ascending(mask))
    IN  [k \in DOMAIN bits |-> [index |-> bits[k], group |-> 0, in_group |-> bits[k]]]

InGroup(counts, g) == {[group |-> g - 1, in_group |-> i - 1] : i \in 1..counts[g]}
Grouped(counts) ==
    LET all == UNION {InGroup(counts, g) : g \in DOMAIN counts}
    IN  InOrder(all, GroupByGroup(all))
FromGroups_InGroupIndex(counts) ==
    LET places == Grouped(counts)
    IN  [k \in DOMAIN places |->
           [index |-> places[k].in_group,
            group |-> places[k].group, in_group |-> places[k].in_group]]
FromGroups(counts) ==
    LET places == Grouped(counts)
    IN  [k \in DOMAIN places |->
           [index |-> k - 1,
            group |-> places[k].group, in_group |-> places[k].in_group]]

(* "No real machine gets remotely close to this" (sdcprobe.cpp:126).        *)
ASSUME MachineAssumption ==
    \A m \in Machines : Len(FromGroups(m.counts)) <= k_max_core_index + 1

(* The mask of the process applies to one group only.                      *)
sdc_enumerate_cpus(m) ==
    IF Len(m.counts) <= 1 /\ m.readable /\ m.mask # {}
      THEN FromMask(m.mask) ELSE FromGroups(m.counts)

Junk == [kind |-> "junk", n |-> 0]
Empty == [kind |-> "empty", n |-> 0]
Number(n) == [kind |-> "number", n |-> n]
Texts == {Junk} \cup {Number(n) : n \in Typed}

(* Split at the first dash that is not the first character: the left half  *)
(* is never empty and never a negative number.                             *)
Tokens ==
    [dash : {FALSE}, low : Texts, high : {Empty}]
    \cup [dash : {TRUE}, low : {t \in Texts : t.n >= 0}, high : Texts \cup {Empty}]

VARIABLES
    available,         \* sequence of CpuInfo
    given,             \* have_cores: the answer came with --cores
    interactive,       \* stdin is a terminal
    pc,                \* "ask", "token", "lookup", then "selected" or "refused"
    wanted,            \* the numbers asked for
    pos,               \* the loop over wanted
    out,               \* `selected`, the answer's cores so far
    asks,              \* lists typed
    said               \* history: the tokens of the current answer

machineVars == <<available, given, interactive>>
vars == <<available, given, interactive, pc, wanted, pos, out, asks, said>>

Init ==
    /\ \E m \in Machines : available = sdc_enumerate_cpus(m)
    /\ given \in BOOLEAN /\ interactive \in BOOLEAN
    /\ pc = IF available = <<>> THEN "refused" ELSE "ask"
    /\ wanted = <<>> /\ pos = 1 /\ out = <<>>
    /\ asks = 0 /\ said = <<>>

-----------------------------------------------------------------------------
(* An empty answer, `all`, no terminal to ask, or the end of the input.    *)
AnswerAll ==
    /\ pc = "ask"
    /\ out' = available
    /\ pc' = "selected"
    /\ wanted' = <<>> /\ pos' = 1 /\ said' = <<>>
    /\ UNCHANGED <<machineVars, asks>>

(* Anything else goes to the parser, which empties `out` first.            *)
AnswerList_KeepOut ==
    /\ pc = "ask"
    /\ given \/ interactive
    /\ asks < MaxAsks
    /\ asks' = asks + 1
    /\ wanted' = <<>> /\ pos' = 1 /\ said' = <<>>
    /\ pc' = "token"
    /\ UNCHANGED <<machineVars, out>>
AnswerList ==
    /\ pc = "ask"
    /\ given \/ interactive
    /\ asks < MaxAsks
    /\ asks' = asks + 1
    /\ out' = <<>> /\ wanted' = <<>> /\ pos' = 1 /\ said' = <<>>
    /\ pc' = "token"
    /\ UNCHANGED machineVars

(* A rejected answer ends the program unless someone can be asked again.   *)
Reject == pc' = IF given \/ ~interactive THEN "refused" ELSE "ask"

(* strtol stays at the ends of the long type.                              *)
strtol(text) ==
    IF text.n > LongMax THEN LongMax
    ELSE IF text.n < -LongMax - 1 THEN -LongMax - 1 ELSE text.n

(* Nothing left over; an empty text leaves nothing over either, and has to *)
(* be turned away by itself.                                               *)
Parsed(token) ==
    /\ token.low.kind = "number"
    /\ token.dash => token.high.kind = "number"

Low(token) == strtol(token.low)
High(token) == IF token.dash THEN strtol(token.high) ELSE Low(token)

Acceptable(token) ==
    /\ Parsed(token)
    /\ Low(token) <= High(token)
    /\ 0 <= Low(token) /\ High(token) <= k_max_core_index

ReadToken(token) ==
    /\ pc = "token"
    /\ Len(said) < MaxTokens
    /\ said' = Append(said, token)
    /\ IF Acceptable(token)
         THEN /\ wanted' = wanted \o [i \in 1..(High(token) - Low(token) + 1) |->
                                         Low(token) + i - 1]
              /\ UNCHANGED pc
         ELSE Reject /\ UNCHANGED wanted
    /\ UNCHANGED <<machineVars, pos, out, asks>>

(* Nothing but separators is an error too.                                 *)
EndOfList ==
    /\ pc = "token"
    /\ IF wanted = <<>> THEN Reject ELSE pc' = "lookup"
    /\ UNCHANGED <<machineVars, wanted, pos, out, asks, said>>

Found(n) == {k \in DOMAIN available : available[k].index = n}

(* One number: it must be available; a repeat is dropped.                  *)
LookUp ==
    /\ pc = "lookup"
    /\ pos <= Len(wanted)
    /\ IF Found(wanted[pos]) = {}
         THEN Reject /\ UNCHANGED <<out, pos>>
         ELSE LET found == available[CHOOSE k \in Found(wanted[pos]) :
                                       \A j \in Found(wanted[pos]) : k <= j]
              IN  /\ out' = IF \E i \in DOMAIN out : out[i].index = wanted[pos]
                              THEN out ELSE Append(out, found)
                  /\ pos' = pos + 1
                  /\ UNCHANGED pc
    /\ UNCHANGED <<machineVars, wanted, asks, said>>

AllLookedUp ==
    /\ pc = "lookup"
    /\ pos > Len(wanted)
    /\ pc' = "selected"
    /\ UNCHANGED <<machineVars, wanted, pos, out, asks, said>>

Next ==
    \/ AnswerAll \/ AnswerList
    \/ \E token \in Tokens : ReadToken(token)
    \/ EndOfList \/ LookUp \/ AllLookedUp

Spec == Init /\ [][Next]_vars

-----------------------------------------------------------------------------
(* The list as the report prints it: one token for each stretch of         *)
(* neighbouring numbers.                                                   *)
Heads_Ascending(cpus) == {i \in DOMAIN cpus : i = 1 \/ cpus[i].index > cpus[i - 1].index + 1}
Heads(cpus) == {i \in DOMAIN cpus : i = 1 \/ cpus[i].index # cpus[i - 1].index + 1}
format_cpu_list(cpus) ==
    LET first == InOrder(Heads(cpus), Ascending(Heads(cpus)))
        last(k) == IF k = Len(first) THEN Len(cpus) ELSE first[k + 1] - 1
    IN  [k \in DOMAIN first |->
           LET i == first[k]
               j == last(k)
           IN  [dash |-> j > i,
                low |-> Number(cpus[i].index),
                high |-> IF j > i THEN Number(cpus[j].index) ELSE Empty]]

-----------------------------------------------------------------------------
Mentions(token) == Low(token)..High(token)

FirstMention(tokens, n) ==
    CHOOSE k \in DOMAIN tokens :
        /\ n \in Mentions(tokens[k])
        /\ \A j \in 1..(k - 1) : n \notin Mentions(tokens[j])

(* What an answer asks for, said without the parser: exactly the numbers   *)
(* its tokens mention, each once, in the order they are first mentioned.   *)
Selects(tokens, cpus) ==
    /\ \A k \in DOMAIN tokens : Parsed(tokens[k]) /\ Mentions(tokens[k]) # {}
    /\ {cpus[i].index : i \in DOMAIN cpus} = UNION {Mentions(tokens[k]) : k \in DOMAIN tokens}
    /\ \A i, j \in DOMAIN cpus : i < j =>
         LET a == cpus[i].index
             b == cpus[j].index
         IN  \/ FirstMention(tokens, a) < FirstMention(tokens, b)
             \/ FirstMention(tokens, a) = FirstMention(tokens, b) /\ a < b

(* The sweep gets what the accepted answer asks for and nothing else: no   *)
(* core twice, none from an answer rejected before, in the order typed,    *)
(* and only cores of this machine (lines 829-910, README 137-140).         *)
SelectionIsTheAnswer ==
    pc = "selected" =>
        /\ ToSet(out) \subseteq ToSet(available)
        /\ IF said = <<>> THEN out = available ELSE Selects(said, out)

(* The sweep pins to one processor after the other: the selection is not   *)
(* empty and no two of its entries are the same processor or carry the     *)
(* same number in the report, on machines with processor groups too.       *)
SelectedCoresAreDifferent ==
    pc = "selected" =>
        /\ out # <<>>
        /\ \A i, j \in DOMAIN out : i # j =>
             /\ out[i].index # out[j].index
             /\ <<out[i].group, out[i].in_group>> # <<out[j].group, out[j].in_group>>

(* The list printed in the report is one that --cores accepts, and selects *)
(* the same cores in the same order, so that a run can be repeated from    *)
(* its report (lines 935-957 and 1324).                                    *)
ReportedListRoundTrips ==
    pc = "selected" =>
        LET list == format_cpu_list(out)
        IN  (\A k \in DOMAIN list : Acceptable(list[k])) /\ Selects(list, out)

=============================================================================
