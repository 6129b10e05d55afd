---------------------------- MODULE PacingProofs ----------------------------
(***************************************************************************)
(* The pacing warning, for any number of cores and any cost of the load.   *)
(***************************************************************************)
EXTENDS Pacing, TLAPS

(* The type invariant.                                                     *)
Times ==
    /\ line \in [Places -> Lines]
    /\ g_layers \in Layers
    /\ layers \in LayerArgs
    /\ place \in Places
    /\ low_ns \in Nat /\ high_ns \in Nat
    /\ n \in Nat \ {0}
    /\ results \in Seq(Nat)
    /\ worst_ns \in Nat
    /\ summed \in 0..Len(results)

(* Results are looked at after the sweep, and all before its summary.      *)
Phases ==
    /\ pc \in {"pin", "given", "low", "high", "fit", "sweep"} => summed = 0
    /\ pc = "done" => summed = Len(results)

(* worst_ns is the largest of the results that were looked at.             *)
WorstSoFar ==
    /\ \A i \in 1..summed : results[i] <= worst_ns
    /\ worst_ns = 0 \/ \E i \in 1..summed : results[i] = worst_ns

(* The warning is decided by the largest result.                           *)
WarnedByWorst ==
    /\ pc = "done" => warned = (TooSlow(worst_ns) \/ TooFast(worst_ns))
    /\ pc # "done" => ~warned

(* Without --layers the sweep runs with what the two probes gave: nothing  *)
(* sets the layers or the probes' times afterwards.                        *)
Choice ==
    /\ pc = "given" => layers # 0
    /\ pc \in {"sweep", "sum", "done"} /\ layers = 0
            => g_layers = Chosen(high_ns - low_ns)

(* The inductive invariant.                                                *)
IInv == Times /\ Phases /\ WorstSoFar /\ WarnedByWorst /\ Choice

(* A load call of any number of layers takes some whole number of units.   *)
LEMMA CostIsATime ==
    ASSUME line \in [Places -> Lines], NEW p \in Places, NEW l \in Layers
    PROVE  Cost(p, l) \in Nat
<1>1. line[p] \in [overhead : Nat, per_layer : Nat, check : Nat]  BY PacingAssumption
<1>2. PICK r \in [overhead : Nat, per_layer : Nat, check : Nat] : line[p] = r  BY <1>1
<1>3. r.overhead \in Nat /\ r.per_layer \in Nat  OBVIOUS
<1>4. l \in Nat  BY DEF Layers, k_load_layers_min, k_load_layers_max
<1>5. l * r.per_layer \in Nat  BY <1>3, <1>4
<1> QED  BY <1>2, <1>3, <1>5 DEF Cost

(* sdc_set_load_layers accepts any number.                                 *)
LEMMA ClampInLayers ==
    ASSUME NEW l \in Int PROVE Clamp(l) \in Layers
BY DEF Clamp, Layers, k_load_layers_min, k_load_layers_max

(* It leaves a number in range alone.                                      *)
LEMMA ClampOfLayers ==
    ASSUME NEW l \in Layers PROVE Clamp(l) = l
BY DEF Clamp, Layers, k_load_layers_min, k_load_layers_max

(* The layers that are computed are in range, whatever the probes said.    *)
LEMMA ChosenInLayers ==
    ASSUME low_ns \in Int, NEW rise \in Int PROVE Chosen(rise) \in Layers
<1> DEFINE num == 16 * (k_target_ns_per_sample - low_ns) + 9 * rise
<1>1. num \in Int  BY PacingAssumption
<1>2. CASE rise > 0
  <2>1. ToInt(num, 2 * rise) \in Int
    <3> HIDE DEF num
    <3> QED  BY <1>1, <1>2, ResolutionAssumption DEF ToInt
  <2> QED  BY <1>2, <2>1, ClampInLayers DEF Chosen
<1>3. CASE ~(rise > 0)
  BY <1>3 DEF Chosen, k_load_layers_default, Layers, k_load_layers_min, k_load_layers_max
<1> QED  BY <1>2, <1>3

-----------------------------------------------------------------------------
(* What the calibration's arithmetic does, for any cost line               *)
(* a + l * c and any target.                                               *)

(* Products grow with their factors.                                       *)
LEMMA TimesGrow ==
    ASSUME NEW i \in Int, NEW j \in Int, i <= j, NEW c \in Nat
    PROVE  i * c \in Int /\ j * c \in Int /\ i * c <= j * c
OBVIOUS

(* A larger factor is larger by at least one summand.                      *)
LEMMA TimesStep ==
    ASSUME NEW i \in Int, NEW j \in Int, i < j, NEW c \in Nat
    PROVE  i * c \in Int /\ j * c \in Int /\ i * c + c <= j * c
<1>1. (i + 1) * c <= j * c  BY TimesGrow
<1>2. (i + 1) * c = i * c + c  OBVIOUS
<1> QED  BY <1>1, <1>2

(* What a quotient lies between.                                           *)
LEMMA DivBounds ==
    ASSUME NEW m \in Nat, NEW d \in Nat \ {0}
    PROVE  m \div d \in Nat /\ (m \div d) * d <= m /\ m < (m \div d) * d + d
OBVIOUS

(* A number of layers rounded to the nearest, then clamped, is the best of *)
(* all the numbers that can be set: also where the clamp moves it.         *)
LEMMA ClampedNearestIsBest ==
    ASSUME NEW a \in Nat, NEW c \in Nat \ {0}, NEW q \in Int, NEW l \in Layers,
           2 * (q * c) <= 2 * (k_target_ns_per_sample - a) + c,
           2 * (k_target_ns_per_sample - a) + c < 2 * (q * c) + 2 * c
    PROVE  Distance(a + Clamp(q) * c) <= Distance(a + l * c)
<1> DEFINE T == k_target_ns_per_sample
           L == l * c
           Q == q * c
<1>1. l \in Int /\ 1 <= l /\ l <= 64
  BY DEF Layers, k_load_layers_min, k_load_layers_max
<1>2. L \in Int /\ Q \in Int /\ T \in Nat  BY <1>1, PacingAssumption
<1>3. 2 * Q <= 2 * (T - a) + c /\ 2 * (T - a) + c < 2 * Q + 2 * c  OBVIOUS
<1>4. CASE q < 1
  <2>1. Q + c <= c  BY <1>4, TimesStep
  <2>2. c <= L  BY <1>1, TimesGrow
  <2>3. Clamp(q) = 1  BY <1>4 DEF Clamp, k_load_layers_min
  <2>4. a + Clamp(q) * c = a + c /\ a + l * c = a + L  BY <2>3
  <2> HIDE DEF L, Q
  <2>5. a + c > T  BY <1>2, <1>3, <2>1
  <2> QED  BY <1>2, <2>2, <2>4, <2>5 DEF Distance
<1>5. CASE q > 64
  <2>1. 64 * c + c <= Q  BY <1>5, TimesStep
  <2>2. L <= 64 * c  BY <1>1, TimesGrow
  <2>3. Clamp(q) = 64  BY <1>5 DEF Clamp, k_load_layers_min, k_load_layers_max
  <2>4. a + Clamp(q) * c = a + 64 * c /\ a + l * c = a + L  BY <2>3
  <2> HIDE DEF L, Q
  <2>5. a + 64 * c < T  BY <1>2, <1>3, <2>1
  <2> QED  BY <1>2, <2>2, <2>4, <2>5 DEF Distance
<1>6. CASE q \in 1..64
  <2>1. Clamp(q) = q  BY <1>6 DEF Clamp, k_load_layers_min, k_load_layers_max
  <2>2. L = Q \/ L + c <= Q \/ Q + c <= L
    <3>1. CASE l < q  BY <1>1, <3>1, TimesStep
    <3>2. CASE q < l  BY <1>1, <3>2, TimesStep
    <3> QED  BY <1>1, <3>1, <3>2
  <2>3. a + Clamp(q) * c = a + Q /\ a + l * c = a + L  BY <2>1
  <2> HIDE DEF L, Q
  <2> QED  BY <1>2, <1>3, <2>2, <2>3 DEF Distance
<1> QED  BY <1>4, <1>5, <1>6

(* The quotient of the line's equation fits an int when it is not          *)
(* negative; a negative one is clamped to the first number of layers       *)
(* whether it fits or not.                                                 *)
LEMMA QuotientFits ==
    ASSUME NEW a \in Nat, NEW c \in Nat \ {0},
           16 * (k_target_ns_per_sample - a) + 8 * c >= 0
    PROVE  LET num == 16 * (k_target_ns_per_sample - a) + 8 * c
               q == num \div (16 * c)
           IN  /\ ToInt(num, 16 * c) = q
               /\ q \in Nat
               /\ 2 * (q * c) <= 2 * (k_target_ns_per_sample - a) + c
               /\ 2 * (k_target_ns_per_sample - a) + c < 2 * (q * c) + 2 * c
<1> DEFINE T == k_target_ns_per_sample
           num == 16 * (T - a) + 8 * c
           q == num \div (16 * c)
           Q == q * c
<1>1. T \in Nat /\ num \in Nat /\ 16 * c \in Nat \ {0}  BY PacingAssumption
<1>2. q \in Nat /\ q * (16 * c) <= num /\ num < q * (16 * c) + 16 * c
  BY <1>1, DivBounds
<1>3. Q \in Int /\ q * (16 * c) = 16 * Q  BY <1>2
<1>4. 2 * Q <= 2 * (T - a) + c /\ 2 * (T - a) + c < 2 * Q + 2 * c
  <2>1. 16 * Q <= num /\ num < 16 * Q + 16 * c  BY <1>2, <1>3
  <2>2. num = 16 * (T - a) + 8 * c  OBVIOUS
  <2> HIDE DEF Q, num
  <2> QED  BY <1>1, <1>3, <2>1, <2>2
<1>5. q <= T + 1
  <2> SUFFICES ASSUME T + 1 < q PROVE FALSE  BY <1>1, <1>2
  <2> HIDE DEF q
  <2>1. (T + 1) * c + c <= q * c  BY <1>1, <1>2, TimesStep
  <2>2. (T + 1) * c >= T + 1
    <3>1. (T + 1) * 1 <= (T + 1) * c  BY <1>1
    <3> QED  BY <1>1, <3>1
  <2> HIDE DEF Q
  <2>3. (T + 1) * c \in Int  BY <1>1
  <2>4. (T + 1) * c + c <= Q  BY <2>1 DEF Q
  <2> QED  BY <1>1, <1>3, <1>4, <2>2, <2>3, <2>4
<1>6. ToInt(num, 16 * c) = q
  <2>1. q \in -MaxInt - 1..MaxInt  BY <1>1, <1>2, <1>5, ResolutionAssumption
  <2>2. num >= 0  BY <1>1
  <2> HIDE DEF num
  <2> QED  BY <2>1, <2>2 DEF ToInt
<1> QED  BY <1>2, <1>4, <1>6

(* A negative quotient becomes one layer.                                  *)
LEMMA NegativeQuotient ==
    ASSUME NEW num \in Int, num < 0, NEW den \in Nat \ {0}
    PROVE  Clamp(ToInt(num, den)) = 1
<1> DEFINE m == (-num) \div den
<1>1. m \in Nat  BY DivBounds
<1>2. ToInt(num, den) \in {-m, -MaxInt - 1}  BY <1>1 DEF ToInt
<1> HIDE DEF m
<1> QED  BY <1>1, <1>2, ResolutionAssumption DEF Clamp, k_load_layers_min

(* Two undisturbed probes of one place give the best number of layers      *)
(* there.                                                                  *)
LEMMA FitIsBest ==
    ASSUME line \in [Places -> Lines], place \in Places,
           low_ns = Cost(place, low_layers), high_ns = Cost(place, high_layers),
           NEW l \in Layers
    PROVE  Distance(Cost(place, Chosen(high_ns - low_ns))) <= Distance(Cost(place, l))
<1> DEFINE T == k_target_ns_per_sample
<1>1. line[place] \in [overhead : Nat, per_layer : Nat, check : Nat]  BY PacingAssumption
<1>2. PICK r \in [overhead : Nat, per_layer : Nat, check : Nat] : line[place] = r  BY <1>1
<1> DEFINE a == r.overhead
           c == r.per_layer
<1>3. a \in Nat /\ c \in Nat /\ T \in Nat /\ l \in Int
  BY PacingAssumption DEF Layers, k_load_layers_min, k_load_layers_max
<1>4. \A k : Cost(place, k) = a + k * c  BY <1>2 DEF Cost
<1> HIDE DEF a, c
<1>5. low_ns = a + 4 * c /\ high_ns = a + 12 * c
  BY <1>3, <1>4 DEF low_layers, high_layers
<1>6. high_ns - low_ns = 8 * c  BY <1>3, <1>5
<1>7. CASE c = 0
  <2>1. Chosen(high_ns - low_ns) = 5
    BY <1>6, <1>7 DEF Chosen, k_load_layers_default
  <2>2. Cost(place, 5) = a /\ Cost(place, l) = a  BY <1>3, <1>4, <1>7
  <2> QED  BY <1>3, <2>1, <2>2 DEF Distance
<1>8. CASE c # 0
  <2> DEFINE num == 16 * (T - a) + 8 * c
  <2>1. c \in Nat \ {0}  BY <1>3, <1>8
  <2>2. Chosen(high_ns - low_ns) = Clamp(ToInt(num, 16 * c))
    <3>1. 8 * c > 0 /\ 2 * (8 * c) = 16 * c
          /\ 16 * (T - low_ns) + 9 * (8 * c) = num
      BY <1>3, <1>5, <2>1
    <3> HIDE DEF num
    <3> QED  BY <1>6, <3>1 DEF Chosen
  <2>3. CASE num >= 0
    <3> DEFINE q == num \div (16 * c)
    <3>1. /\ ToInt(num, 16 * c) = q /\ q \in Nat
          /\ 2 * (q * c) <= 2 * (T - a) + c
          /\ 2 * (T - a) + c < 2 * (q * c) + 2 * c
      BY <1>3, <2>1, <2>3, QuotientFits
    <3> HIDE DEF q
    <3>2. Distance(a + Clamp(q) * c) <= Distance(a + l * c)
      BY <1>3, <2>1, <3>1, ClampedNearestIsBest
    <3>3. Chosen(high_ns - low_ns) = Clamp(q)  BY <2>2, <3>1
    <3> QED  BY <1>4, <3>2, <3>3
  <2>4. CASE num < 0
    <3>1. num \in Int /\ 16 * c \in Nat \ {0}  BY <1>3, <2>1
    <3>2. Chosen(high_ns - low_ns) = 1
      <4> HIDE DEF num
      <4> QED  BY <2>2, <2>4, <3>1, NegativeQuotient
    <3>3. T < a  BY <1>3, <2>1, <2>4
    <3>4. 1 * c <= l * c /\ l * c \in Int /\ 1 * c = c
      BY <1>3, TimesGrow DEF Layers, k_load_layers_min, k_load_layers_max
    <3>5. Cost(place, 1) = a + c /\ Cost(place, l) = a + l * c  BY <1>3, <1>4
    <3> QED  BY <1>3, <3>2, <3>3, <3>4, <3>5 DEF Distance
  <2> QED  BY <1>3, <2>3, <2>4
<1> QED  BY <1>7, <1>8

-----------------------------------------------------------------------------
(* Once the sweep has started the choice stands.                           *)
LEMMA SameChoice ==
    ASSUME Choice, UNCHANGED <<layers, low_ns, high_ns, g_layers>>,
           pc \in {"sweep", "sum", "done"}, pc' \in {"sweep", "sum", "done"}
    PROVE  Choice'
<1>1. (Chosen(high_ns - low_ns))' = Chosen(high_ns - low_ns)
  BY DEF Chosen, ToInt, Clamp
<1> QED  BY <1>1 DEF Choice

(* A result of the sweep is filed behind the others.                       *)
LEMMA RowKept ==
    ASSUME IInv, NEW ns \in Nat, NEW b \in BOOLEAN, Row(ns, b)
    PROVE  IInv'
<1>1. pc = "sweep" /\ summed = 0  BY DEF IInv, Phases, Row
<1>2. pc' \in {"sweep", "sum"} /\ summed' = 0 /\ worst_ns' = worst_ns
  BY <1>1 DEF Row, sumVars
<1>3. results' \in Seq(Nat) /\ Len(results') \in Nat  BY DEF IInv, Times, Row
<1>4. Times'
  <2>1. n' \in Nat \ {0}  BY DEF IInv, Times, Row
  <2> QED  BY <1>2, <1>3, <2>1 DEF IInv, Times, Row, probeVars
<1>5. Phases'  BY <1>2 DEF Phases
<1>6. WorstSoFar'  BY <1>1, <1>2 DEF IInv, WorstSoFar, Times
<1>7. WarnedByWorst'
  <2>1. warned' = warned  BY DEF Row, sumVars
  <2> QED  BY <1>1, <1>2, <2>1, Zenon DEF IInv, WarnedByWorst
<1>8. Choice'
  <2>1. UNCHANGED <<layers, low_ns, high_ns, g_layers>>  BY DEF Row, probeVars
  <2> QED  BY <1>1, <1>2, <2>1, SameChoice DEF IInv
<1> QED  BY <1>4, <1>5, <1>6, <1>7, <1>8 DEF IInv

(* Steps that neither file nor look at a result.                           *)
LEMMA OthersKept ==
    ASSUME IInv, Times', Choice', UNCHANGED <<results, sumVars>>,
           pc' # "done",
           pc \in {"pin", "given", "low", "high", "fit", "sweep"}
    PROVE  IInv'
<1>1. summed' = summed /\ worst_ns' = worst_ns /\ results' = results
  BY DEF sumVars
<1>2. Phases'  BY <1>1 DEF IInv, Phases
<1>3. WorstSoFar'  BY <1>1 DEF IInv, WorstSoFar
<1>4. WarnedByWorst'
  <2>1. warned' = warned /\ pc # "done"  BY DEF sumVars
  <2> QED  BY <2>1, Zenon DEF IInv, WarnedByWorst
<1> QED  BY <1>2, <1>3, <1>4 DEF IInv

(* The loop over the results keeps the largest.                            *)
LEMMA SumRowKept ==
    ASSUME IInv, SumRow PROVE IInv'
<1> DEFINE ns == results[summed + 1]
<1>1. summed' = summed + 1 /\ results' = results /\ pc' = "sum"  BY DEF SumRow
<1>2. summed \in Nat /\ summed + 1 \in 1..Len(results) /\ ns \in Nat
  BY DEF IInv, Times, SumRow
<1>3. worst_ns' = Worse(ns)  BY DEF SumRow
<1>4. worst_ns' \in Nat /\ ns <= worst_ns' /\ worst_ns <= worst_ns' /\ worst_ns' \in {ns, worst_ns}
  BY <1>2, <1>3 DEF Worse, IInv, Times
<1>5. Times'
  <2>1. summed' \in 0..Len(results)'  BY <1>1, <1>2 DEF IInv, Times
  <2> QED  BY <1>1, <1>4, <2>1 DEF IInv, Times, SumRow, probeVars
<1>6. Phases'  BY <1>1 DEF Phases
<1>7. WorstSoFar'
  <2>1. ASSUME NEW i \in 1..summed' PROVE results'[i] <= worst_ns'
    <3>1. CASE i = summed + 1  BY <3>1, <1>1, <1>4
    <3>2. CASE i # summed + 1
      <4>1. i \in 1..summed  BY <3>2, <1>1, <1>2
      <4>2. results[i] <= worst_ns /\ results[i] \in Nat
        BY <4>1, <1>2 DEF IInv, WorstSoFar, Times
      <4> HIDE DEF ns
      <4> QED  BY <4>2, <1>1, <1>4 DEF IInv, Times
    <3> QED  BY <3>1, <3>2
  <2>2. worst_ns' = 0 \/ \E i \in 1..summed' : results'[i] = worst_ns'
    <3>1. CASE worst_ns' = ns
      <4>1. summed + 1 \in 1..summed'  BY <1>1, <1>2
      <4> QED  BY <3>1, <4>1, <1>1
    <3>2. CASE worst_ns' = worst_ns /\ worst_ns # 0
      <4>1. PICK i \in 1..summed : results[i] = worst_ns
        BY <3>2 DEF IInv, WorstSoFar
      <4>2. i \in 1..summed'  BY <1>1, <1>2
      <4> QED  BY <3>2, <4>1, <4>2, <1>1
    <3> QED  BY <3>1, <3>2, <1>4
  <2> QED  BY <2>1, <2>2 DEF WorstSoFar
<1>8. WarnedByWorst'
  <2>1. warned' = warned /\ pc # "done" /\ pc' # "done"  BY DEF SumRow
  <2> QED  BY <2>1, Zenon DEF IInv, WarnedByWorst
<1>9. Choice'
  <2>1. UNCHANGED <<layers, low_ns, high_ns, g_layers>> /\ pc = "sum"
    BY DEF SumRow, probeVars
  <2> QED  BY <1>1, <2>1, SameChoice DEF IInv
<1> QED  BY <1>5, <1>6, <1>7, <1>8, <1>9 DEF IInv

(* The summary decides about the warning.                                  *)
LEMMA SummaryKept ==
    ASSUME IInv, Summary PROVE IInv'
<1>1. pc' = "done" /\ summed = Len(results) /\ UNCHANGED <<results, worst_ns, summed>>
  BY DEF Summary
<1>2. warned' = (TooSlow(worst_ns) \/ TooFast(worst_ns))  BY Zenon DEF Summary
<1>3. Times'  BY DEF IInv, Times, Summary, probeVars
<1>4. Phases'  BY <1>1 DEF Phases
<1>5. WorstSoFar'  BY <1>1 DEF IInv, WorstSoFar
<1>6. WarnedByWorst'
  <2>1. (TooSlow(worst_ns) \/ TooFast(worst_ns))' = (TooSlow(worst_ns) \/ TooFast(worst_ns))
    BY <1>1 DEF TooSlow, TooFast
  <2> QED  BY <1>1, <1>2, <2>1, Zenon DEF WarnedByWorst
<1>7. Choice'
  <2>1. UNCHANGED <<layers, low_ns, high_ns, g_layers>> /\ pc = "sum"
    BY DEF Summary, probeVars
  <2> QED  BY <1>1, <2>1, SameChoice DEF IInv
<1> QED  BY <1>3, <1>4, <1>5, <1>6, <1>7 DEF IInv

(* Every step keeps the account.                                           *)
LEMMA StepKept ==
    ASSUME IInv, [Next]_vars PROVE IInv'
<1>1. CASE PinFirst
  <2>1. Times'
    <3>1. place' \in Places
      BY <1>1, PacingAssumption DEF IInv, Times, PinFirst, Places, Cores
    <3> QED  BY <1>1, <3>1 DEF IInv, Times, PinFirst, probeVars, sumVars
  <2>2. Choice'  BY <1>1 DEF Choice, PinFirst, probeVars
  <2> QED  BY <1>1, <2>1, <2>2, OthersKept DEF PinFirst
<1>2. CASE GivenLayers
  <2>1. g_layers' \in Layers
    <3>1. layers \in Int
      BY PacingAssumption DEF IInv, Times, Layers, k_load_layers_min, k_load_layers_max
    <3> QED  BY <1>2, <3>1, ClampInLayers DEF GivenLayers, sdc_set_load_layers
  <2>2. Times'  BY <1>2, <2>1 DEF IInv, Times, GivenLayers, probeVars, sumVars
  <2>3. Choice'  BY <1>2 DEF IInv, Choice, GivenLayers, probeVars
  <2> QED  BY <1>2, <2>2, <2>3, OthersKept DEF GivenLayers
<1>3. CASE Fit
  <2>1. g_layers' = Chosen(high_ns - low_ns) /\ g_layers' \in Layers
    <3>1. low_ns \in Int /\ high_ns - low_ns \in Int  BY DEF IInv, Times
    <3>2. Chosen(high_ns - low_ns) \in Layers  BY <3>1, ChosenInLayers
    <3> QED  BY <1>3, <3>2, ClampOfLayers DEF Fit, sdc_set_load_layers
  <2>2. Times'  BY <1>3, <2>1 DEF IInv, Times, Fit, probeVars, sumVars
  <2>3. Choice'
    <3>1. (Chosen(high_ns - low_ns))' = Chosen(high_ns - low_ns) /\ pc' = "sweep"
      BY <1>3 DEF Fit, probeVars, Chosen, ToInt, Clamp
    <3> QED  BY <2>1, <3>1 DEF Choice
  <2> QED  BY <1>3, <2>2, <2>3, OthersKept DEF Fit
<1>4. ASSUME NEW p \in Places, NEW d \in Disturbances, ProbeLow(p, d) \/ ProbeHigh(p, d)
      PROVE  IInv'
  <2>1. low_layers \in Layers /\ high_layers \in Layers /\ low_layers \in Int /\ high_layers \in Int
    BY DEF low_layers, high_layers, Layers, k_load_layers_min, k_load_layers_max
  <2>2. Cost(p, low_layers) \in Nat /\ Cost(p, high_layers) \in Nat
    BY <2>1, CostIsATime DEF IInv, Times
  <2>3. d \in Nat  BY PacingAssumption
  <2>4. Clamp(low_layers) \in Layers /\ Clamp(high_layers) \in Layers
    BY <2>1, ClampInLayers
  <2>5. CASE ProbeLow(p, d)
    <3>1. low_ns' \in Nat /\ high_ns' \in Nat
      BY <2>2, <2>3, <2>5 DEF ProbeLow, IInv, Times
    <3>2. Times'
      BY <2>4, <2>5, <3>1 DEF IInv, Times, ProbeLow, Timed, sdc_set_load_layers, sumVars
    <3>3. Choice'  BY <2>5 DEF Choice, ProbeLow
    <3> QED  BY <2>5, <3>2, <3>3, OthersKept DEF ProbeLow, Timed
  <2>6. CASE ProbeHigh(p, d)
    <3>1. low_ns' \in Nat /\ high_ns' \in Nat
      BY <2>2, <2>3, <2>6 DEF ProbeHigh, IInv, Times
    <3>2. Times'
      BY <2>4, <2>6, <3>1 DEF IInv, Times, ProbeHigh, Timed, sdc_set_load_layers, sumVars
    <3>3. Choice'  BY <2>6 DEF Choice, ProbeHigh
    <3> QED  BY <2>6, <3>2, <3>3, OthersKept DEF ProbeHigh, Timed
  <2> QED  BY <1>4, <2>5, <2>6
<1>5. ASSUME NEW d \in Disturbances, NEW r \in Truncations, NEW b \in BOOLEAN,
             MeasureCore(d, r, b)
      PROVE  IInv'
  <2>1. n \in Places  BY <1>5 DEF MeasureCore, Row, IInv, Times, Places, Cores
  <2>2. Cost(n, g_layers) \in Nat  BY <2>1, CostIsATime DEF IInv, Times
  <2>3. line[n].check \in Nat
    <3>1. line[n] \in [overhead : Nat, per_layer : Nat, check : Nat]
      BY <2>1, PacingAssumption DEF IInv, Times
    <3> QED  BY <3>1
  <2>4. d \in Nat /\ r \in Nat  BY PacingAssumption
  <2>5. Reported(Cost(n, g_layers) + line[n].check + d, r) \in Nat
    BY <2>2, <2>3, <2>4 DEF Reported
  <2> QED  BY <1>5, <2>5, RowKept DEF MeasureCore
<1>6. CASE StopAtOnce  BY <1>6, RowKept DEF StopAtOnce
<1>7. CASE Skip
  <2>1. Times'  BY <1>7 DEF IInv, Times, Skip, probeVars, sumVars
  <2>2. Choice'
    <3>1. UNCHANGED <<layers, low_ns, high_ns, g_layers>> /\ pc = "sweep"
          /\ pc' \in {"sweep", "sum"}
      BY <1>7 DEF Skip, probeVars
    <3> QED  BY <3>1, SameChoice DEF IInv
  <2> QED  BY <1>7, <2>1, <2>2, OthersKept DEF Skip
<1>8. CASE EndSweep
  <2>1. Times'  BY <1>8 DEF IInv, Times, EndSweep, probeVars, sumVars
  <2>2. Choice'
    <3>1. UNCHANGED <<layers, low_ns, high_ns, g_layers>> /\ pc = "sweep"
          /\ pc' \in {"sweep", "sum"}
      BY <1>8 DEF EndSweep, probeVars
    <3> QED  BY <3>1, SameChoice DEF IInv
  <2> QED  BY <1>8, <2>1, <2>2, OthersKept DEF EndSweep
<1>9. CASE UNCHANGED vars
  <2>1. UNCHANGED <<pc, results, worst_ns, summed, warned>>  BY <1>9 DEF vars, sumVars
  <2>2. Times'  BY <1>9 DEF IInv, Times, vars, probeVars, sumVars
  <2>3. Phases' /\ WorstSoFar'  BY <2>1 DEF IInv, Phases, WorstSoFar
  <2>4. WarnedByWorst'  BY <2>1 DEF IInv, WarnedByWorst, TooSlow, TooFast
  <2>5. Choice'
    <3>1. (Chosen(high_ns - low_ns))' = Chosen(high_ns - low_ns)
          /\ UNCHANGED <<layers, g_layers, pc>>
      BY <1>9 DEF vars, probeVars, Chosen, ToInt, Clamp
    <3> QED  BY <3>1 DEF IInv, Choice
  <2> QED  BY <2>2, <2>3, <2>4, <2>5 DEF IInv
<1> QED
  BY <1>1, <1>2, <1>3, <1>4, <1>5, <1>6, <1>7, <1>8, <1>9, SumRowKept, SummaryKept
  DEF Next, Printed

(* Before the first pin.                                                   *)
LEMMA InitKept == Init => IInv
<1> SUFFICES ASSUME Init PROVE IInv  OBVIOUS
<1>1. Times
  BY DEF Init, Times, k_load_layers_default, Layers, k_load_layers_min, k_load_layers_max,
         Places
<1> QED  BY <1>1 DEF Init, IInv, Phases, WorstSoFar, WarnedByWorst, Choice

(* The account implies the promise: the largest interval decides, and a    *)
(* warning is about the core that has it.                                  *)
LEMMA WorstDecides == IInv => SlowCoreIsSaid
<1> SUFFICES ASSUME IInv, pc = "done"
             PROVE  /\ (\E i \in DOMAIN results : TooSlow(results[i])) => warned
                    /\ warned => \E i \in DOMAIN results : ~InRange(results[i])
  BY DEF SlowCoreIsSaid
<1>1. summed = Len(results) /\ DOMAIN results = 1..summed
      /\ worst_ns \in Nat /\ k_target_ns_per_sample \in Nat \ {0}
  BY PacingAssumption DEF IInv, Times, Phases
<1>2. warned = (TooSlow(worst_ns) \/ TooFast(worst_ns))
  BY Zenon DEF IInv, WarnedByWorst
<1>3. ASSUME NEW i \in DOMAIN results, TooSlow(results[i]) PROVE warned
  <2>1. results[i] \in Nat /\ results[i] <= worst_ns
    BY <1>1 DEF IInv, Times, WorstSoFar
  <2>2. TooSlow(worst_ns)  BY <1>1, <1>3, <2>1 DEF TooSlow
  <2> QED  BY <1>2, <2>2, Zenon
<1>4. ASSUME warned PROVE \E i \in DOMAIN results : ~InRange(results[i])
  <2>1. TooSlow(worst_ns) \/ TooFast(worst_ns)  BY <1>2, <1>4, Zenon
  <2>2. worst_ns # 0  BY <1>1, <2>1 DEF TooSlow, TooFast
  <2>3. PICK i \in 1..summed : results[i] = worst_ns
    BY <2>2 DEF IInv, WorstSoFar
  <2> QED  BY <1>1, <2>1, <2>3 DEF InRange
<1> QED  BY <1>3, <1>4, Zenon

(* Whatever the cores cost, however the calibration went and wherever the  *)
(* sweep was stopped: a core paced too slowly is warned about, and a       *)
(* warning is about a core that is off.                                    *)
THEOREM SlowCoreIsSaidAlways == Spec => []SlowCoreIsSaid
<1>1. IInv /\ [Next]_vars => IInv'  BY StepKept
<1> QED  BY InitKept, <1>1, WorstDecides, PTL DEF Spec

(* No other number of layers puts a call on the measured core closer to    *)
(* the target, for every cost line and every target: rounding, truncation  *)
(* towards zero and clamping together never pick a worse one (lines        *)
(* 360-397).                                                               *)
THEOREM CalibrationIsOptimal == Spec => []CalibrationPicksTheBest
<1>1. IInv => CalibrationPicksTheBest
  <2> SUFFICES ASSUME IInv, Undisturbed, NEW l \in Layers
               PROVE  Distance(Cost(place, g_layers)) <= Distance(Cost(place, l))
    BY DEF CalibrationPicksTheBest
  <2>1. g_layers = Chosen(high_ns - low_ns)  BY DEF IInv, Choice, Undisturbed
  <2> QED  BY <2>1, FitIsBest DEF IInv, Times, Undisturbed
<1>2. IInv /\ [Next]_vars => IInv'  BY StepKept
<1> QED  BY InitKept, <1>1, <1>2, PTL DEF Spec

(* The best number of layers is within a factor of two of the target when  *)
(* any is: on the slow side by being closest, on the fast side because one *)
(* layer more costs at most as much again and would be closer.             *)
LEMMA BestIsReachable ==
    ASSUME NEW a \in Nat, NEW c \in Nat, NEW g \in Layers, NEW u \in Layers,
           Reachable(a + u * c),
           \A l \in Layers : Distance(a + g * c) <= Distance(a + l * c)
    PROVE  Reachable(a + g * c)
<1> DEFINE T == k_target_ns_per_sample
           G == g * c
           U == u * c
<1>1. T \in Nat \ {0} /\ g \in 1..64 /\ u \in 1..64
  BY PacingAssumption DEF Layers, k_load_layers_min, k_load_layers_max
<1>2. G \in Nat /\ U \in Nat /\ c <= G
  <2>1. 1 * c <= G /\ G \in Int /\ 1 * c = c  BY <1>1, TimesGrow
  <2>2. 1 * c <= U /\ U \in Int  BY <1>1, TimesGrow
  <2> HIDE DEF G, U
  <2> QED  BY <2>1, <2>2
<1>3. Distance(a + G) <= Distance(a + U)  OBVIOUS
<1>4. T <= 2 * (a + U) /\ a + U <= 2 * T  BY DEF Reachable
<1>5. a + G <= 2 * T
  <2> HIDE DEF G, U
  <2> QED  BY <1>1, <1>2, <1>3, <1>4 DEF Distance
<1>6. T <= 2 * (a + G)
  <2> SUFFICES ASSUME ~(T <= 2 * (a + G)) PROVE FALSE  OBVIOUS
  <2>1. 2 * (a + G) < T
    <3> HIDE DEF G
    <3> QED  BY <1>1, <1>2
  <2>2. a + G < a + U
    <3> HIDE DEF G, U
    <3> QED  BY <1>1, <1>2, <1>4, <2>1
  <2>3. g < u
    <3> SUFFICES ASSUME u <= g PROVE FALSE  BY <1>1
    <3>1. U <= G  BY <1>1, TimesGrow
    <3> HIDE DEF G, U
    <3> QED  BY <1>2, <2>2, <3>1
  <2>4. g + 1 \in Layers
    BY <1>1, <2>3 DEF Layers, k_load_layers_min, k_load_layers_max
  <2>5. (g + 1) * c = G + c  BY <1>1
  <2>6. c # 0
    <3> SUFFICES ASSUME c = 0 PROVE FALSE  OBVIOUS
    <3>1. G = 0 /\ U = 0  BY <1>1
    <3> QED  BY <2>2, <3>1
  <2>7. Distance(a + G) <= Distance(a + (G + c))  BY <2>4, <2>5
  <2> HIDE DEF G, U
  <2> QED  BY <1>1, <1>2, <2>1, <2>6, <2>7 DEF Distance
<1> QED  BY <1>5, <1>6 DEF Reachable

(* Half the target more and a tenth less stay in the range that is         *)
(* tolerated.                                                              *)
LEMMA RoomIsEnough ==
    ASSUME NEW cost \in Nat, NEW ns \in Nat, Reachable(cost),
           2 * (ns - cost) <= k_target_ns_per_sample,
           10 * (cost - ns) <= k_target_ns_per_sample
    PROVE  InRange(ns)
BY PacingAssumption DEF Reachable, InRange, TooSlow, TooFast

(* On equal cores an undisturbed calibration that can come near the target *)
(* does, and leaves room for what it does not time: a sweep without great  *)
(* disturbances prints no warning (lines 360-397, 574-592, 639-647, 1522). *)
THEOREM CalibratedSweepIsNotWarned == Spec => []CalibratedSweepIsInRange
<1>1. IInv => CalibratedSweepIsInRange
  <2> SUFFICES ASSUME IInv, Undisturbed, NEW u \in Layers, Reachable(Cost(place, u)),
                      \A i \in DOMAIN results :
                          \/ results[i] = 0
                          \/ /\ 2 * (results[i] - Cost(place, g_layers)) <= k_target_ns_per_sample
                             /\ 10 * (Cost(place, g_layers) - results[i]) <= k_target_ns_per_sample
               PROVE  ~warned
    BY DEF CalibratedSweepIsInRange
  <2>1. PICK r \in [overhead : Nat, per_layer : Nat, check : Nat] : line[place] = r
    BY PacingAssumption DEF IInv, Times
  <2> DEFINE a == r.overhead
             c == r.per_layer
  <2>2. a \in Nat /\ c \in Nat  OBVIOUS
  <2>3. \A l : Cost(place, l) = a + l * c  BY <2>1 DEF Cost
  <2>4. g_layers = Chosen(high_ns - low_ns) /\ g_layers \in Layers
    BY DEF IInv, Times, Choice, Undisturbed
  <2>5. \A l \in Layers : Distance(Cost(place, g_layers)) <= Distance(Cost(place, l))
    BY <2>4, FitIsBest DEF IInv, Times, Undisturbed
  <2> HIDE DEF a, c
  <2>6. Reachable(Cost(place, g_layers))
    BY <2>2, <2>3, <2>4, <2>5, BestIsReachable
  <2>7. Cost(place, g_layers) \in Nat
    BY CostIsATime DEF IInv, Times
  <2>8. CASE pc = "done"
    <3>1. summed = Len(results) /\ DOMAIN results = 1..summed
      BY <2>8 DEF IInv, Times, Phases
    <3>2. ASSUME NEW i \in DOMAIN results PROVE InRange(results[i])
      <4>1. results[i] \in Nat  BY DEF IInv, Times
      <4>2. CASE results[i] = 0
        BY <4>2, PacingAssumption DEF InRange, TooSlow, TooFast
      <4>3. CASE results[i] # 0
        BY <2>6, <2>7, <4>1, <4>3, RoomIsEnough
      <4> QED  BY <4>2, <4>3
    <3>3. InRange(0)  BY PacingAssumption DEF InRange, TooSlow, TooFast
    <3>4. InRange(worst_ns)  BY <3>1, <3>2, <3>3 DEF IInv, WorstSoFar
    <3>5. ~(TooSlow(worst_ns) \/ TooFast(worst_ns))  BY <3>4 DEF InRange
    <3> QED  BY <2>8, <3>5, Zenon DEF IInv, WarnedByWorst
  <2>9. CASE pc # "done"  BY <2>9, Zenon DEF IInv, WarnedByWorst
  <2> QED  BY <2>8, <2>9
<1>2. IInv /\ [Next]_vars => IInv'  BY StepKept
<1> QED  BY InitKept, <1>1, <1>2, PTL DEF Spec

=============================================================================
