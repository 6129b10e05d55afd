------------------------------- MODULE Pacing -------------------------------
(***************************************************************************)
(* The interval between two CH reads: the number of load layers, chosen by *)
(* timing the load on one core or given with --layers, what it then costs  *)
(* on every core of the sweep, and the pacing warning of the summary.      *)
(*                                                                         *)
(* Times are whole units, ratios of them exact.  A core has a cost line: a *)
(* load call takes a fixed time and another for each layer, and what a run *)
(* does with the sample besides, which the calibration does not time, a    *)
(* time of its own.  Anything else that happens on the machine makes a     *)
(* measured time longer.                                                   *)
(***************************************************************************)
EXTENDS Integers, Sequences

CONSTANTS
    NCores,                  \* selected.size()
    k_target_ns_per_sample,
    MaxInt,                  \* the largest int
    Lines,                   \* cost lines a core may have
    Disturbances,            \* by how much a measured time may be too long
    Truncations,             \* what counting whole milliseconds may cut off it
    LayerArgs                \* values of --layers, 0 for none

k_load_layers_min == 1
k_load_layers_max == 64
k_load_layers_default == 5
low_layers == 4
high_layers == 12
Layers == k_load_layers_min..k_load_layers_max

Cores == 1..NCores
Elsewhere == 0               \* where the scheduler left the process
Places == Cores \cup {Elsewhere}

ASSUME PacingAssumption ==
    /\ NCores \in Nat \ {0}
    /\ k_target_ns_per_sample \in Nat \ {0}
    /\ Lines \subseteq [overhead : Nat, per_layer : Nat, check : Nat]
    /\ Disturbances \subseteq Nat /\ Truncations \subseteq Nat
    /\ LayerArgs \subseteq Layers \cup {0}
(* The clock is too coarse for a ratio of times that does not fit an int:  *)
(* 8 * 250 ns * 50000 samples is well below 2^31.                          *)
ASSUME ResolutionAssumption ==
    /\ MaxInt \in Nat
    /\ 8 * k_target_ns_per_sample + 5 <= MaxInt

VARIABLES
    pc,                \* "pin", "given", "low", "high", "fit", "sweep", "sum", "done"
    line,              \* the cost line of each place
    layers,            \* --layers
    place, pinned,     \* where the calibration runs, and whether it stays there
    g_layers,
    low_ns, high_ns,
    n,                 \* the core the sweep is at
    results,           \* ns_per_check of each run
    worst_ns,
    summed,            \* how many results worst_ns has seen
    warned             \* the summary has the pacing warning

probeVars == <<layers, line, low_ns, high_ns>>
sumVars == <<worst_ns, summed, warned>>
vars == <<pc, place, pinned, g_layers, n, results, probeVars, sumVars>>

Init ==
    /\ pc = "pin"
    /\ line \in [Places -> Lines]
    /\ layers \in LayerArgs
    /\ place = Elsewhere /\ pinned = FALSE
    /\ g_layers = k_load_layers_default
    /\ low_ns = 0 /\ high_ns = 0
    /\ n = 1 /\ results = <<>>
    /\ worst_ns = 0 /\ summed = 0 /\ warned = FALSE

-----------------------------------------------------------------------------
(* sdc_load_sample: the same work for each layer.                          *)
Cost(p, l) == line[p].overhead + l * line[p].per_layer

Clamp(l) == IF l < k_load_layers_min THEN k_load_layers_min
            ELSE IF l > k_load_layers_max THEN k_load_layers_max ELSE l
sdc_set_load_layers(l) == g_layers' = Clamp(l)

(* The pin to the first core; its result is not looked at.                 *)
PinFirst ==
    /\ pc = "pin"
    /\ \/ place' = 1 /\ pinned' = TRUE
       \/ UNCHANGED <<place, pinned>>
    /\ pc' = IF layers # 0 THEN "given" ELSE "low"
    /\ UNCHANGED <<g_layers, n, results, probeVars, sumVars>>

GivenLayers ==
    /\ pc = "given"
    /\ sdc_set_load_layers(layers)
    /\ pc' = "sweep"
    /\ UNCHANGED <<place, pinned, n, results, probeVars, sumVars>>

(* probe_ns_per_sample: a thread that is not pinned may be moved.          *)
Timed(p, l) ==
    /\ p = place \/ ~pinned
    /\ place' = p
    /\ sdc_set_load_layers(l)
    /\ UNCHANGED <<pinned, layers, line, n, results, sumVars>>

ProbeLow(p, d) ==
    /\ pc = "low"
    /\ Timed(p, low_layers)
    /\ low_ns' = Cost(p, low_layers) + d
    /\ pc' = "high"
    /\ UNCHANGED high_ns

ProbeHigh(p, d) ==
    /\ pc = "high"
    /\ Timed(p, high_layers)
    /\ high_ns' = Cost(p, high_layers) + d
    /\ pc' = "fit"
    /\ UNCHANGED low_ns

(* static_cast<int> of a quotient: towards zero, and the lowest int if the *)
(* result is none (what cvttsd2si delivers).                               *)
ToInt(num, den) ==
    LET cut == IF num >= 0 THEN num \div den ELSE -((-num) \div den)
    IN  IF cut \in -MaxInt - 1..MaxInt THEN cut ELSE -MaxInt - 1

(* The line through the two probes, solved for the target:                 *)
(* ideal + 0.5 = (T - intercept) / slope + 1/2 with slope = rise / 8.      *)
Chosen_Cut(rise) ==
    IF rise > 0
      THEN Clamp(ToInt(16 * (k_target_ns_per_sample - low_ns) + 8 * rise, 2 * rise))
      ELSE k_load_layers_default
Chosen_Extrapolated(rise) ==
    IF rise > 0
      THEN Clamp(ToInt(16 * (k_target_ns_per_sample - high_ns) + 9 * rise, 2 * rise))
      ELSE k_load_layers_default
Chosen(rise) ==
    IF rise > 0
      THEN Clamp(ToInt(16 * (k_target_ns_per_sample - low_ns) + 9 * rise, 2 * rise))
      ELSE k_load_layers_default

(* The third probe is printed and sets what is set after it.               *)
Fit ==
    /\ pc = "fit"
    /\ sdc_set_load_layers(Chosen(high_ns - low_ns))
    /\ pc' = "sweep"
    /\ UNCHANGED <<place, pinned, n, results, probeVars, sumVars>>

-----------------------------------------------------------------------------
(* A run on core n has returned; an interrupted one ends the sweep.        *)
Row(ns, interrupted) ==
    /\ pc = "sweep" /\ n <= NCores
    /\ results' = Append(results, ns)
    /\ n' = n + 1
    /\ pc' = IF interrupted THEN "sum" ELSE "sweep"
    /\ UNCHANGED <<place, pinned, g_layers, probeVars, sumVars>>

(* ns_per_check of a run: a round also replays the hash and compares the   *)
(* values with the baseline, and the time is counted in whole              *)
(* milliseconds, up to 10 ns for each check of a run of a single round.    *)
Reported(ns, cut) == IF ns > cut THEN ns - cut ELSE 0
MeasureCore(d, cut, interrupted) ==
    Row(Reported(Cost(n, g_layers) + line[n].check + d, cut), interrupted)

(* Stopped before its first round: no checks, and 0.0 for the interval.    *)
StopAtOnce == Row(0, TRUE)

Skip ==
    /\ pc = "sweep" /\ n <= NCores
    /\ n' = n + 1
    /\ UNCHANGED <<pc, place, pinned, g_layers, results, probeVars, sumVars>>

(* All cores visited, or Ctrl+C between two.                               *)
EndSweep ==
    /\ pc = "sweep"
    /\ pc' = "sum"
    /\ UNCHANGED <<place, pinned, g_layers, n, results, probeVars, sumVars>>

Worse_Last(ns) == ns
Worse(ns) == IF ns > worst_ns THEN ns ELSE worst_ns
SumRow ==
    /\ pc = "sum" /\ summed < Len(results)
    /\ summed' = summed + 1
    /\ worst_ns' = Worse(results[summed + 1])
    /\ UNCHANGED <<pc, place, pinned, g_layers, n, results, probeVars, warned>>

(* k_ns_tolerance_factor is 5/2.                                           *)
TooSlow(ns) == 2 * ns > 5 * k_target_ns_per_sample
TooFast(ns) == ns > 0 /\ 5 * ns < 2 * k_target_ns_per_sample

Summary ==
    /\ pc = "sum" /\ summed = Len(results)
    /\ warned' = (TooSlow(worst_ns) \/ TooFast(worst_ns))
    /\ pc' = "done"
    /\ UNCHANGED <<place, pinned, g_layers, n, results, probeVars, worst_ns, summed>>

Printed == pc = "done" /\ UNCHANGED vars

Next ==
    \/ PinFirst \/ GivenLayers \/ Fit
    \/ \E p \in Places, d \in Disturbances : ProbeLow(p, d) \/ ProbeHigh(p, d)
    \/ \E d \in Disturbances, cut \in Truncations, interrupted \in BOOLEAN :
          MeasureCore(d, cut, interrupted)
    \/ StopAtOnce
    \/ Skip \/ EndSweep \/ SumRow \/ Summary \/ Printed

Spec == Init /\ [][Next]_vars

-----------------------------------------------------------------------------
Distance(ns) == IF ns > k_target_ns_per_sample THEN ns - k_target_ns_per_sample
                                               ELSE k_target_ns_per_sample - ns
InRange(ns) == ~TooSlow(ns) /\ ~TooFast(ns)

(* The calibration measured one core, and nothing came in between.         *)
Undisturbed ==
    /\ layers = 0
    /\ pc \in {"sweep", "sum", "done"}
    /\ low_ns = Cost(place, low_layers)
    /\ high_ns = Cost(place, high_layers)

(* "two probes are enough to fit a line and solve for the target": no      *)
(* other number of layers puts a call on the measured core closer to the   *)
(* target, be the target between two numbers, below the first or above the *)
(* last, and be the load so cheap that the probes do not differ (line 375).*)
CalibrationPicksTheBest ==
    Undisturbed => \A l \in Layers :
        Distance(Cost(place, g_layers)) <= Distance(Cost(place, l))

(* Within a factor of two of the target.                                   *)
Reachable(ns) == k_target_ns_per_sample <= 2 * ns /\ ns <= 2 * k_target_ns_per_sample

(* On a machine of equal cores, if some number of layers brings a call     *)
(* within a factor of two of the target, an undisturbed calibration sets   *)
(* one that leaves room for the work it does not time: no warning is       *)
(* printed while that, and whatever disturbed the runs, adds at most half  *)
(* the target to a check and truncation takes at most a tenth off.         *)
(* Rounding and clamping never use up that room (lines 360-397, 574-592,   *)
(* 639-647 and 1522).                                                      *)
CalibratedSweepIsInRange ==
    LET cost == Cost(place, g_layers) IN
    /\ Undisturbed
    /\ \A p \in Places : line[p] = line[place]
    /\ \E l \in Layers : Reachable(Cost(place, l))
    /\ \A i \in DOMAIN results :
          \/ results[i] = 0
          \/ /\ 2 * (results[i] - cost) <= k_target_ns_per_sample
             /\ 10 * (cost - results[i]) <= k_target_ns_per_sample
    => ~warned

(* Wherever the calibration ran, whatever disturbed it, and whichever      *)
(* cores were skipped or interrupted: a core paced too slowly is warned    *)
(* about, and a warning is about some core that is off (lines 1460, 1522). *)
SlowCoreIsSaid ==
    pc = "done" =>
        /\ (\E i \in DOMAIN results : TooSlow(results[i])) => warned
        /\ warned => \E i \in DOMAIN results : ~InRange(results[i])

(* "If the achieved interval drifts more than 2.5x from the target, the    *)
(* tool says so in the summary" (README.md:460): also when a core is too   *)
(* fast and another is not.                                                *)
FastCoreIsSaid ==
    pc = "done" /\ (\E i \in DOMAIN results : TooFast(results[i])) => warned

=============================================================================
