------------------------------ MODULE CoreRun ------------------------------
(***************************************************************************)
(* The measuring loop of one core, for either probe: run_on_current_cpu    *)
(* and run_rbx_on_current_cpu.  The two functions are the same loop around *)
(* a different measurement, so they share the clock, the interrupt check,  *)
(* the report cap and the progress line here, and differ in Round.         *)
(*                                                                         *)
(* Time is the steady clock minus `start`, in units a round takes at least *)
(* one of.  Runs follow each other, as the sweep makes them: the Workspace *)
(* (baseline) is shared by all of them, everything else is local to a run. *)
(***************************************************************************)
EXTENDS Naturals, FiniteSets

CONSTANTS
    Duration,                \* `minutes`: deadline - start
    MaxStep,                 \* the longest a round takes
    Lag,                     \* the longest the program stalls between a
                             \* clock reading and the next, outside a round
    k_progress_interval_s,   \* time between progress lines
    k_max_reported_per_cpu,  \* detections spelled out
    SampleCount,             \* samples a round computes
    Values                   \* what a sample can be

ASSUME TimeAssumption ==
    /\ Duration \in Nat \ {0}
    /\ MaxStep \in Nat \ {0}
    /\ Lag \in Nat
    /\ Lag < Duration        \* a stall is shorter than the minute a run lasts
    /\ k_progress_interval_s \in Nat \ {0}
ASSUME ReportAssumption == k_max_reported_per_cpu \in Nat \ {0}

ASSUME SamplesAssumption == SampleCount \in Nat

Buffers == [1..SampleCount -> Values]  \* work.samples, work.baseline

Lanes == {"L0", "L1", "L2", "L3"}    \* which byte of the sample, 0 to 3
(* How a detection is classified: by lane or as multi-byte for ch, by what *)
(* the pass ended with for rbx.                                            *)
Kinds == [ch  |-> Lanes \cup {"unexplained"},
          rbx |-> {"signature", "other_fault", "mismatch"}]
AllKinds == Kinds.ch \cup Kinds.rbx

VARIABLES
    g_interrupt,
    pc,                \* "idle", then "head", "poll", "round" of the loop, "ended"
    probe,             \* which of the two functions is running
    now,               \* the last clock reading, minus start
    rounds, detections, run_interrupted,
    counts,            \* lane_counts, unexplained / signature, other_fault, mismatch
    value_drift,       \* samples that differed from round 0, over all rounds
    reported,
    next_progress,
    baseline,          \* work.baseline
    \* history, read by the properties only
    seen,              \* buffers this run has computed
    listed,            \* DETECT lines this run wrote
    notices,           \* "further detections ... not listed" lines
    progress_lines,
    late               \* rounds completed with the flag already up

ioVars == <<reported, listed, notices>>
vars == <<g_interrupt, pc, probe, now, rounds, detections, run_interrupted,
          counts, value_drift, reported, next_progress, baseline,
          seen, listed, notices, progress_lines, late>>

(* No run completes more rounds than its duration has units.               *)
MaxTime == Duration + MaxStep + Lag

TypeOK ==
    /\ g_interrupt \in BOOLEAN
    /\ pc \in {"idle", "head", "poll", "round", "ended"}
    /\ probe \in {"ch", "rbx"}
    /\ now \in 0..MaxTime
    /\ rounds \in 0..Duration
    /\ detections \in 0..Duration
    /\ run_interrupted \in BOOLEAN
    /\ counts \in [AllKinds -> 0..Duration]
    /\ value_drift \in 0..(Duration * SampleCount)
    /\ reported \in 0..k_max_reported_per_cpu
    /\ next_progress \in Nat
    /\ baseline \in Buffers
    /\ seen \subseteq Buffers
    /\ listed \in 0..Duration
    /\ notices \in 0..Duration
    /\ progress_lines \in 0..Duration
    /\ late \in Nat

Init ==
    /\ g_interrupt = FALSE
    /\ pc = "idle"
    /\ probe = "ch"
    /\ now = 0
    /\ rounds = 0 /\ detections = 0 /\ run_interrupted = FALSE
    /\ counts = [k \in AllKinds |-> 0]
    /\ value_drift = 0
    /\ reported = 0
    /\ next_progress = k_progress_interval_s
    /\ baseline \in Buffers
    /\ seen = {} /\ listed = 0 /\ notices = 0 /\ progress_lines = 0
    /\ late = 0

-----------------------------------------------------------------------------
(* on_interrupt, between any two steps of the loop.                        *)
Interrupt ==
    /\ ~g_interrupt
    /\ g_interrupt' = TRUE
    /\ UNCHANGED <<pc, probe, now, rounds, detections, run_interrupted, counts,
                   value_drift, reported, next_progress, baseline,
                   seen, listed, notices, progress_lines, late>>

(* The call: a zeroed result, `start` and `deadline` taken.  work.baseline *)
(* keeps what the previous run left in it.                                 *)
Begin(p) ==
    /\ pc \in {"idle", "ended"}
    /\ pc' = "head"
    /\ probe' = p
    /\ now' = 0
    /\ rounds' = 0 /\ detections' = 0 /\ run_interrupted' = FALSE
    /\ counts' = [k \in AllKinds |-> 0]
    /\ value_drift' = 0
    /\ reported' = 0
    /\ next_progress' = k_progress_interval_s
    /\ seen' = {} /\ listed' = 0 /\ notices' = 0 /\ progress_lines' = 0
    /\ UNCHANGED <<g_interrupt, baseline, late>>

(* The loop condition reads the clock, which may have moved since the last *)
(* reading; past the deadline the run is over.                             *)
Head(lag) ==
    /\ pc = "head"
    /\ now' = now + lag
    /\ pc' = IF now' < Duration THEN "poll" ELSE "ended"
    /\ UNCHANGED <<g_interrupt, probe, rounds, detections, run_interrupted,
                   counts, value_drift, reported, next_progress, baseline,
                   seen, listed, notices, progress_lines, late>>

Poll_Unmarked ==
    /\ pc = "poll"
    /\ pc' = IF g_interrupt THEN "ended" ELSE "round"
    /\ UNCHANGED <<g_interrupt, probe, now, rounds, detections, run_interrupted,
                   counts, value_drift, reported, next_progress, baseline,
                   seen, listed, notices, progress_lines, late>>
Poll_Deaf ==
    /\ pc = "poll"
    /\ pc' = "round"
    /\ UNCHANGED <<g_interrupt, probe, now, rounds, detections, run_interrupted,
                   counts, value_drift, reported, next_progress, baseline,
                   seen, listed, notices, progress_lines, late>>
Poll_Continue ==
    /\ pc = "poll"
    /\ pc' = IF g_interrupt THEN "head" ELSE "round"
    /\ UNCHANGED <<g_interrupt, probe, now, rounds, detections, run_interrupted,
                   counts, value_drift, reported, next_progress, baseline,
                   seen, listed, notices, progress_lines, late>>
Poll ==
    /\ pc = "poll"
    /\ pc' = IF g_interrupt THEN "ended" ELSE "round"
    /\ run_interrupted' = g_interrupt
    /\ UNCHANGED <<g_interrupt, probe, now, rounds, detections, counts,
                   value_drift, reported, next_progress, baseline,
                   seen, listed, notices, progress_lines, late>>

(* The samples of a round that are not what they were in round 0.          *)
Drifted(buffer) == Cardinality({k \in 1..SampleCount : buffer[k] # baseline[k]})

(* Round 0 of a ch run sets the baseline, later rounds compare with it.    *)
CheckDrift_KeepBaseline(buffer) ==
    /\ UNCHANGED baseline
    /\ value_drift' = value_drift + Drifted(buffer)
CheckDrift(buffer) ==
    IF rounds = 0
      THEN baseline' = buffer /\ UNCHANGED value_drift
      ELSE value_drift' = value_drift + Drifted(buffer) /\ UNCHANGED baseline

(* A detection is counted under one kind and, below the cap, listed; the   *)
(* line that reaches the cap is followed by the notice.                    *)
CountDetection_ReportedOnly(kind) ==
    /\ detections' = detections + 1
    /\ IF reported < k_max_reported_per_cpu
         THEN /\ counts' = [counts EXCEPT ![kind] = @ + 1]
              /\ reported' = reported + 1
              /\ listed' = listed + 1
              /\ notices' = notices
                   + (IF reported' = k_max_reported_per_cpu THEN 1 ELSE 0)
         ELSE UNCHANGED <<counts, ioVars>>
CountDetection_Twice(kind) ==
    /\ detections' = detections + 2
    /\ counts' = [counts EXCEPT ![kind] = @ + 1]
    /\ UNCHANGED ioVars
CountDetection(kind) ==
    /\ detections' = detections + 1
    /\ counts' = [counts EXCEPT ![kind] = @ + 1]
    /\ IF reported < k_max_reported_per_cpu
         THEN /\ reported' = reported + 1
              /\ listed' = listed + 1
              /\ notices' = notices
                   + (IF reported' = k_max_reported_per_cpu THEN 1 ELSE 0)
         ELSE UNCHANGED ioVars

(* The inner while: next_progress moves on, one interval at a time, to the *)
(* first multiple of the interval after the clock reading t.               *)
NextProgress_Once(t) == next_progress + k_progress_interval_s
NextProgress(t) == k_progress_interval_s * (t \div k_progress_interval_s + 1)

Progress ==
    IF now' >= next_progress
      THEN /\ progress_lines' = progress_lines + 1
           /\ next_progress' = NextProgress(now')
      ELSE UNCHANGED <<progress_lines, next_progress>>

(* The rest of the loop body: one measurement of `step` time units.        *)
RoundBody(step, kind) ==
    /\ pc = "round"
    /\ pc' = "head"
    /\ IF kind = "none" THEN UNCHANGED <<detections, counts, reported, listed, notices>>
                        ELSE CountDetection(kind)
    /\ rounds' = rounds + 1
    /\ now' = now + step
    /\ Progress
    /\ late' = IF g_interrupt THEN late + 1 ELSE late
    /\ UNCHANGED <<g_interrupt, probe, run_interrupted>>

ChRound(step, kind, buffer) ==
    /\ probe = "ch"
    /\ CheckDrift(buffer)
    /\ seen' = seen \cup {buffer}
    /\ RoundBody(step, kind)

RbxRound(step, kind) ==
    /\ probe = "rbx"
    /\ RoundBody(step, kind)
    /\ UNCHANGED <<baseline, value_drift, seen>>

LoopStep ==
    \/ \E lag \in 0..Lag : Head(lag)
    \/ Poll
    \/ \E step \in 1..MaxStep :
         \/ \E kind \in Kinds.ch \cup {"none"}, buffer \in Buffers :
              ChRound(step, kind, buffer)
         \/ \E kind \in Kinds.rbx \cup {"none"} : RbxRound(step, kind)

Next == Interrupt \/ (\E p \in {"ch", "rbx"} : Begin(p)) \/ LoopStep

(* The loop's own steps are taken by a running program; nobody promises an *)
(* interrupt or another run.                                               *)
Spec == Init /\ [][Next]_vars /\ WF_vars(LoopStep)

-----------------------------------------------------------------------------
(* The detections of a run, added up over the kinds of its probe.          *)
Classified ==
    IF probe = "ch"
      THEN counts["L0"] + counts["L1"] + counts["L2"] + counts["L3"] + counts["unexplained"]
      ELSE counts["signature"] + counts["other_fault"] + counts["mismatch"]

(* Every detection of a run is accounted for in what it prints: under      *)
(* exactly one kind in the `done` line, as a DETECT line up to the cap,    *)
(* and the notice that the rest is only counted is there exactly when the  *)
(* cap was reached (lines 594-620 and 690-719).                            *)
ReportIsComplete ==
    /\ detections = Classified
    /\ listed = (IF detections < k_max_reported_per_cpu
                   THEN detections ELSE k_max_reported_per_cpu)
    /\ notices = (IF detections < k_max_reported_per_cpu THEN 0 ELSE 1)

(* value_drift is a statement about this run alone: it is non-zero exactly *)
(* when two rounds of this run computed different samples, although the    *)
(* baseline buffer is shared and still holds another core's samples when   *)
(* the run begins (lines 580-592).                                         *)
DriftIsAgainstOwnRounds ==
    value_drift # 0 <=> \E a, b \in seen : a # b

(* However long a round took, the next progress line is due strictly later *)
(* than now and at most one interval away: a stall is never followed by a  *)
(* burst of lines, and the lines never fall behind (lines 624-636).        *)
ProgressNeverBacklogs ==
    pc = "head" /\ rounds > 0 =>
        /\ now < next_progress
        /\ next_progress <= now + k_progress_interval_s
        /\ progress_lines <= now \div k_progress_interval_s

(* A run that is not marked interrupted lasted its whole duration and      *)
(* measured something; one that is marked was really asked to stop.        *)
FullDurationOrMarked ==
    /\ pc = "ended" => run_interrupted \/ (now >= Duration /\ rounds > 0)
    /\ run_interrupted => g_interrupt

(* "Ctrl+C stops after the current round": at most the round in progress   *)
(* completes once the flag is up, over all runs together.                  *)
InterruptIsPrompt == late <= 1

(* A run that starts ends.                                                 *)
RunEnds == pc = "head" ~> pc = "ended"

Contract == INSTANCE RunContract WITH
    MaxRounds <- Duration,
    at <- IF pc \in {"head", "poll"} THEN "running"
          ELSE IF pc = "round" THEN "measuring" ELSE pc

(* The loop keeps the contract the sweep relies on.                        *)
ImplementsContract == Contract!ContractSpec

=============================================================================
