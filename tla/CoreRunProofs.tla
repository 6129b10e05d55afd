--------------------------- MODULE CoreRunProofs ---------------------------
(***************************************************************************)
(* The measuring loop for runs, rounds and stalls of any length, any       *)
(* report cap and any progress interval: it keeps the contract the sweep   *)
(* is built on, and what it says about itself is true.                     *)
(***************************************************************************)
EXTENDS CoreRun, FiniteSetTheorems, TLAPS

(* Time and the rounds made in it.                                         *)
Timed ==
    /\ pc \in {"poll", "round"} => now < Duration
    /\ pc = "head" => now < Duration + MaxStep
    /\ rounds <= now
    /\ rounds = 0 /\ pc \in {"idle", "head"} => now = 0
    /\ pc = "ended" => run_interrupted \/ (now >= Duration /\ rounds > 0)

(* No counter runs ahead of the rounds.                                    *)
Bounded ==
    /\ detections <= rounds
    /\ \A kind \in AllKinds : counts[kind] <= rounds
    /\ value_drift <= rounds * SampleCount
    /\ listed <= rounds
    /\ notices <= rounds
    /\ progress_lines <= rounds

(* The interrupt flag and what was done about it.                          *)
Prompt ==
    /\ run_interrupted => g_interrupt
    /\ pc \in {"idle", "head", "poll", "round"} => ~run_interrupted
    /\ late > 0 => g_interrupt
    /\ pc = "round" => late = 0
    /\ late <= 1

(* The baseline of a ch run is its own first round.                        *)
OwnBaseline ==
    /\ rounds = 0 \/ probe = "rbx" => seen = {} /\ value_drift = 0
    /\ rounds > 0 /\ probe = "ch" => baseline \in seen
    /\ rounds > 0 /\ probe = "ch" /\ value_drift = 0 => seen = {baseline}
    /\ value_drift # 0 => \E a, b \in seen : a # b

(* The next progress mark is the multiple of the interval after some m of  *)
(* them, and a line was written for at most each of those m.               *)
OnTime ==
    /\ \E m \in Nat : /\ next_progress = k_progress_interval_s * (m + 1)
                      /\ k_progress_interval_s * m <= now
                      /\ progress_lines <= m
    /\ pc = "head" /\ rounds > 0 => now < next_progress

-----------------------------------------------------------------------------
USE TimeAssumption, ReportAssumption, SamplesAssumption

(* Whole intervals in a stretch of time.                                   *)
LEMMA DivNat == \A t \in Nat, i \in Nat \ {0} :
                  /\ (t \div i) \in Nat
                  /\ i * (t \div i) <= t
                  /\ t < i * (t \div i + 1)
OBVIOUS

(* Counting the samples that drifted.                                      *)
LEMMA DriftedIsDifference ==
    ASSUME NEW buffer \in Buffers, baseline \in Buffers
    PROVE  /\ Drifted(buffer) \in 0..SampleCount
           /\ Drifted(buffer) = 0 <=> buffer = baseline
<1> DEFINE D == {k \in 1..SampleCount : buffer[k] # baseline[k]}
<1>1. IsFiniteSet(1..SampleCount) /\ Cardinality(1..SampleCount) = SampleCount
  BY FS_Interval
<1>2. D \subseteq 1..SampleCount
  OBVIOUS
<1>3. IsFiniteSet(D) /\ Cardinality(D) <= SampleCount
  BY <1>1, <1>2, FS_Subset
<1>4. Cardinality(D) \in Nat /\ (Cardinality(D) = 0 <=> D = {})
  BY <1>3, FS_CardinalityType, FS_EmptySet
<1>5. D = {} <=> buffer = baseline
  BY DEF Buffers
<1>6. QED
  BY <1>3, <1>4, <1>5 DEF Drifted

(* What n rounds can drift, a whole run can.                               *)
LEMMA DriftBound ==
    ASSUME NEW r \in Nat, r < Duration, NEW v \in Nat, v <= (r + 1) * SampleCount
    PROVE  v \in 0..(Duration * SampleCount)
<1>1. PICK e \in Nat : Duration = (r + 1) + e
  <2>1. Duration - (r + 1) \in Nat /\ Duration = (r + 1) + (Duration - (r + 1))
    OBVIOUS
  <2>2. QED
    BY <2>1
<1>2. Duration * SampleCount = (r + 1) * SampleCount + e * SampleCount
  BY <1>1
<1>3. (r + 1) * SampleCount \in Nat /\ e * SampleCount \in Nat
  OBVIOUS
<1>4. QED
  BY <1>2, <1>3

(* What a round does to the counters of detections.                        *)
LEMMA Counting ==
    ASSUME TypeOK, Bounded, rounds < Duration,
           NEW kind \in AllKinds \cup {"none"},
           IF kind = "none" THEN UNCHANGED <<detections, counts, reported, listed, notices>>
                            ELSE CountDetection(kind)
    PROVE  /\ detections' \in 0..Duration /\ detections' <= rounds + 1
           /\ counts' \in [AllKinds -> 0..Duration]
           /\ \A x \in AllKinds : counts'[x] <= rounds + 1
           /\ reported' \in 0..k_max_reported_per_cpu
           /\ listed' \in 0..Duration /\ listed' <= rounds + 1
           /\ notices' \in 0..Duration /\ notices' <= rounds + 1
<1>1. CASE kind = "none"
  BY <1>1 DEF TypeOK, Bounded
<1>2. CASE kind # "none"
  <2>1. CountDetection(kind) /\ kind \in AllKinds
    BY <1>2
  <2>2. detections' \in 0..Duration /\ detections' <= rounds + 1
    BY <2>1 DEF CountDetection, TypeOK, Bounded
  <2>3. counts[kind] \in 0..Duration /\ counts[kind] <= rounds /\ rounds \in Nat
    BY <2>1 DEF TypeOK, Bounded
  <2>4. /\ counts' = [counts EXCEPT ![kind] = counts[kind] + 1]
        /\ counts[kind] + 1 \in 0..Duration /\ counts[kind] + 1 <= rounds + 1
    BY <2>1, <2>3 DEF CountDetection
  <2>5. counts' \in [AllKinds -> 0..Duration]
    BY <2>4 DEF TypeOK
  <2>6. \A x \in AllKinds : counts'[x] <= rounds + 1
    <3>1. \A x \in AllKinds : x # kind => counts'[x] = counts[x]
      BY <2>4 DEF TypeOK
    <3>2. counts'[kind] = counts[kind] + 1
      BY <2>1, <2>4 DEF TypeOK
    <3>3. \A x \in AllKinds : counts[x] \in 0..Duration /\ counts[x] <= rounds
      BY DEF TypeOK, Bounded
    <3>4. QED
      BY <2>3, <3>1, <3>2, <3>3
  <2>7. /\ reported' \in 0..k_max_reported_per_cpu
        /\ listed' \in 0..Duration /\ listed' <= rounds + 1
        /\ notices' \in 0..Duration /\ notices' <= rounds + 1
    BY <2>1 DEF CountDetection, ioVars, TypeOK, Bounded
  <2>8. QED
    BY <2>2, <2>5, <2>6, <2>7
<1>3. QED
  BY <1>1, <1>2

(* Everything that is carried from step to step.                           *)
RunInv == TypeOK /\ Timed /\ Bounded /\ Prompt /\ OwnBaseline

(* The program starts with no run, and so with nothing counted.            *)
LEMMA RunInvInit == Init => RunInv
<1> SUFFICES ASSUME Init PROVE RunInv
  OBVIOUS
<1>1. TypeOK
  <2>1. [k \in AllKinds |-> 0] \in [AllKinds -> 0..Duration]
    OBVIOUS
  <2>2. counts \in [AllKinds -> 0..Duration]
    BY <2>1 DEF Init
  <2>3. /\ now = 0 /\ rounds = 0 /\ detections = 0 /\ value_drift = 0
        /\ reported = 0 /\ next_progress = k_progress_interval_s
        /\ listed = 0 /\ notices = 0 /\ progress_lines = 0 /\ late = 0
    BY DEF Init
  <2>4. /\ 0 \in 0..MaxTime /\ 0 \in 0..Duration /\ 0 \in 0..k_max_reported_per_cpu
        /\ 0 \in 0..(Duration * SampleCount)
    BY DEF MaxTime
  <2>5. /\ g_interrupt = FALSE /\ run_interrupted = FALSE /\ pc = "idle"
        /\ probe = "ch" /\ baseline \in Buffers /\ seen = {}
    BY DEF Init
  <2>6. QED
    BY <2>2, <2>3, <2>4, <2>5 DEF TypeOK
<1>2. Timed /\ Bounded /\ OwnBaseline
  BY DEF Init, Timed, Bounded, OwnBaseline
<1>3. Prompt
  BY DEF Init, Prompt
<1>4. QED
  BY <1>1, <1>2, <1>3 DEF RunInv

(* The handler can run anywhere: a round it interrupts has not been counted *)
(* as late yet.                                                            *)
LEMMA InterruptKeeps == ASSUME RunInv, Interrupt PROVE RunInv'
<1>1. TypeOK'
  BY DEF RunInv, Interrupt, TypeOK
<1>2. Timed' /\ Bounded' /\ OwnBaseline'
  BY DEF RunInv, Interrupt, Timed, Bounded, OwnBaseline
<1>3. Prompt'
  BY DEF RunInv, Interrupt, Prompt
<1>4. QED
  BY <1>1, <1>2, <1>3 DEF RunInv

(* A new run forgets the last one, except for the baseline.                *)
LEMMA BeginKeeps == ASSUME RunInv, NEW p \in {"ch", "rbx"}, Begin(p) PROVE RunInv'
<1>1. TypeOK'
  <2>1. [k \in AllKinds |-> 0] \in [AllKinds -> 0..Duration]
    OBVIOUS
  <2>2. counts' \in [AllKinds -> 0..Duration]
    BY <2>1 DEF Begin
  <2>3. /\ now' = 0 /\ rounds' = 0 /\ detections' = 0 /\ value_drift' = 0
        /\ reported' = 0 /\ next_progress' = k_progress_interval_s
        /\ listed' = 0 /\ notices' = 0 /\ progress_lines' = 0
        /\ late' = late /\ late \in Nat
    BY DEF RunInv, Begin, TypeOK
  <2>4. /\ 0 \in 0..MaxTime /\ 0 \in 0..Duration /\ 0 \in 0..k_max_reported_per_cpu
        /\ 0 \in 0..(Duration * SampleCount)
    BY DEF MaxTime
  <2>5. /\ g_interrupt' \in BOOLEAN /\ run_interrupted' = FALSE /\ pc' = "head"
        /\ probe' \in {"ch", "rbx"} /\ baseline' \in Buffers /\ seen' = {}
    BY DEF RunInv, Begin, TypeOK
  <2>6. QED
    BY <2>2, <2>3, <2>4, <2>5 DEF TypeOK
<1>2. Timed' /\ Bounded' /\ OwnBaseline'
  BY DEF RunInv, Begin, Timed, Bounded, OwnBaseline
<1>3. Prompt'
  BY DEF RunInv, Begin, Prompt, TypeOK
<1>4. QED
  BY <1>1, <1>2, <1>3 DEF RunInv

(* The first look at the clock comes at most Lag after the start: no run    *)
(* expires before its first round.                                         *)
LEMMA HeadKeeps == ASSUME RunInv, NEW lag \in 0..Lag, Head(lag) PROVE RunInv'
<1>1. /\ now \in Nat /\ now < Duration + MaxStep /\ now' = now + lag
      /\ pc = "head" /\ rounds \in Nat /\ rounds <= now
      /\ pc' = IF now' < Duration THEN "poll" ELSE "ended"
      /\ rounds' = rounds
      /\ rounds = 0 => now = 0
  BY DEF RunInv, TypeOK, Timed, Head
<1>2. now' \in 0..MaxTime /\ rounds <= now'
  BY <1>1 DEF MaxTime
<1>3. TypeOK'
  BY <1>1, <1>2 DEF RunInv, Head, TypeOK
<1>4. now' >= Duration => rounds > 0
  BY <1>1
<1>5. Timed'
  BY <1>1, <1>2, <1>4 DEF Timed
<1>6. Bounded' /\ OwnBaseline'
  BY DEF RunInv, Head, Bounded, OwnBaseline
<1>7. Prompt'
  BY <1>1 DEF RunInv, Head, Prompt
<1>8. QED
  BY <1>3, <1>5, <1>6, <1>7 DEF RunInv

(* Only a run that found the flag down goes on to a round.                 *)
LEMMA PollKeeps == ASSUME RunInv, Poll PROVE RunInv'
<1>1. TypeOK'
  BY DEF RunInv, Poll, TypeOK
<1>2. Bounded' /\ OwnBaseline'
  BY DEF RunInv, Poll, Bounded, OwnBaseline
<1>3. Timed'
  BY DEF RunInv, Poll, Timed, TypeOK
<1>4. Prompt'
  BY DEF RunInv, Poll, Prompt, TypeOK
<1>5. QED
  BY <1>1, <1>2, <1>3, <1>4 DEF RunInv

(* The part of a round the two probes share.                               *)
LEMMA BodyKeeps ==
    ASSUME RunInv, NEW step \in 1..MaxStep, NEW kind \in AllKinds \cup {"none"},
           RoundBody(step, kind)
    PROVE  /\ rounds < Duration /\ rounds \in Nat /\ rounds' = rounds + 1
           /\ pc = "round" /\ pc' = "head" /\ probe' = probe
           /\ now' \in 0..MaxTime /\ rounds' \in 0..Duration
           /\ g_interrupt' \in BOOLEAN /\ run_interrupted' \in BOOLEAN
           /\ detections' \in 0..Duration
           /\ counts' \in [AllKinds -> 0..Duration]
           /\ reported' \in 0..k_max_reported_per_cpu
           /\ next_progress' \in Nat
           /\ listed' \in 0..Duration /\ notices' \in 0..Duration
           /\ progress_lines' \in 0..Duration
           /\ late' \in Nat
           /\ detections' <= rounds'
           /\ \A x \in AllKinds : counts'[x] <= rounds'
           /\ listed' <= rounds' /\ notices' <= rounds'
           /\ progress_lines' <= rounds'
           /\ Timed' /\ Prompt'
<1>1. /\ pc = "round" /\ pc' = "head" /\ rounds' = rounds + 1 /\ now' = now + step
      /\ probe' = probe
      /\ rounds \in Nat /\ now \in Nat /\ rounds <= now /\ now < Duration
  BY DEF RunInv, RoundBody, TypeOK, Timed
<1>2. rounds < Duration
  BY <1>1
<1>3. /\ detections' \in 0..Duration /\ detections' <= rounds + 1
      /\ counts' \in [AllKinds -> 0..Duration]
      /\ \A x \in AllKinds : counts'[x] <= rounds + 1
      /\ reported' \in 0..k_max_reported_per_cpu
      /\ listed' \in 0..Duration /\ listed' <= rounds + 1
      /\ notices' \in 0..Duration /\ notices' <= rounds + 1
  BY <1>2, Counting DEF RunInv, RoundBody
<1>4. now' \in 0..MaxTime /\ rounds' \in 0..Duration /\ now' \in Nat
  BY <1>1, <1>2 DEF MaxTime
<1>5. NextProgress(now') \in Nat
  <2>1. (now' \div k_progress_interval_s) \in Nat
    BY <1>4, DivNat
  <2>2. QED
    BY <2>1 DEF NextProgress
<1>6. progress_lines' \in 0..Duration /\ progress_lines' <= rounds + 1
  BY <1>2 DEF RunInv, RoundBody, Progress, TypeOK, Bounded
<1>7. next_progress' \in Nat
  BY <1>5 DEF RunInv, RoundBody, Progress, TypeOK
<1>8. Timed'
  BY <1>1 DEF Timed
<1>9. g_interrupt' \in BOOLEAN /\ run_interrupted' \in BOOLEAN
  BY DEF RunInv, RoundBody, TypeOK
<1>10. /\ g_interrupt' = g_interrupt /\ run_interrupted' = run_interrupted
       /\ late = 0 /\ late' = (IF g_interrupt THEN late + 1 ELSE late)
       /\ run_interrupted => g_interrupt
       /\ ~run_interrupted
  BY <1>1 DEF RunInv, RoundBody, Prompt
<1>11. /\ g_interrupt => late' = 1
       /\ ~g_interrupt => late' = 0
  BY <1>10
<1>12. late' \in Nat /\ late' <= 1 /\ (late' > 0 => g_interrupt)
  BY <1>11
<1>13. Prompt'
  BY <1>1, <1>10, <1>12 DEF Prompt
<1>14. QED
  BY <1>1, <1>2, <1>3, <1>4, <1>6, <1>7, <1>8, <1>9, <1>12, <1>13

(* A ch round: the first one replaces whatever the last run left in the    *)
(* baseline, later ones are held against it.                               *)
LEMMA ChRoundKeeps ==
    ASSUME RunInv, NEW step \in 1..MaxStep, NEW kind \in Kinds.ch \cup {"none"},
           NEW buffer \in Buffers, ChRound(step, kind, buffer)
    PROVE  RunInv'
<1>1. RoundBody(step, kind) /\ kind \in AllKinds \cup {"none"} /\ probe = "ch"
  BY DEF ChRound, AllKinds
<1>2. /\ rounds = 0 => baseline' = buffer /\ value_drift' = value_drift
      /\ rounds # 0 => /\ baseline' = baseline
                       /\ value_drift' = value_drift + Drifted(buffer)
      /\ seen' = seen \cup {buffer}
      /\ baseline \in Buffers /\ seen \subseteq Buffers
      /\ value_drift \in Nat /\ value_drift <= rounds * SampleCount
  BY DEF ChRound, CheckDrift, RunInv, TypeOK, Bounded
<1>d. /\ Drifted(buffer) \in 0..SampleCount
      /\ Drifted(buffer) = 0 <=> buffer = baseline
  BY <1>2, DriftedIsDifference
<1>3. rounds < Duration /\ rounds \in Nat /\ rounds' = rounds + 1 /\ probe' = "ch"
  BY <1>1, BodyKeeps
<1>4. value_drift' \in 0..(Duration * SampleCount) /\ value_drift' <= rounds' * SampleCount
  <2>1. value_drift' \in Nat /\ value_drift' <= value_drift + SampleCount
    BY <1>2, <1>d
  <2>2. value_drift' <= (rounds + 1) * SampleCount
    BY <1>2, <1>3, <2>1
  <2>3. QED
    BY <1>3, <2>1, <2>2, DriftBound
<1>5. baseline' \in Buffers /\ seen' \subseteq Buffers
  BY <1>2
<1>6. Timed' /\ Prompt'
  BY <1>1, BodyKeeps
<1>7. TypeOK'
  BY <1>1, <1>4, <1>5, BodyKeeps DEF TypeOK
<1>8. Bounded'
  BY <1>1, <1>4, BodyKeeps DEF Bounded
<1>9. OwnBaseline'
  <2>1. CASE rounds = 0
    <3>1. seen = {} /\ value_drift = 0
      BY <2>1 DEF RunInv, OwnBaseline
    <3>2. seen' = {buffer} /\ value_drift' = 0 /\ baseline' = buffer
      BY <1>2, <2>1, <3>1
    <3>3. QED
      BY <1>3, <2>1, <3>2 DEF OwnBaseline
  <2>2. CASE rounds # 0
    <3>1. /\ baseline \in seen
          /\ value_drift = 0 => seen = {baseline}
          /\ value_drift # 0 => \E a, b \in seen : a # b
      BY <1>1, <1>3, <2>2 DEF RunInv, OwnBaseline
    <3>2. baseline' = baseline /\ baseline \in seen' /\ rounds' > 0 /\ rounds' # 0
      BY <1>2, <1>3, <2>2, <3>1
    <3>3. CASE buffer = baseline
      <4>1. value_drift' = value_drift /\ seen' = seen
        BY <1>2, <1>d, <2>2, <3>1, <3>3
      <4>2. QED
        BY <1>3, <3>1, <3>2, <4>1 DEF OwnBaseline
    <3>4. CASE buffer # baseline
      <4>1. value_drift' # 0
        BY <1>2, <1>d, <2>2, <3>4
      <4>2. \E a, b \in seen' : a # b
        BY <1>2, <3>1, <3>4
      <4>3. QED
        BY <1>3, <3>2, <4>1, <4>2 DEF OwnBaseline
    <3>5. QED
      BY <3>3, <3>4
  <2>3. QED
    BY <2>1, <2>2
<1>10. QED
  BY <1>6, <1>7, <1>8, <1>9 DEF RunInv

(* An rbx round leaves the sample buffers alone.                           *)
LEMMA RbxRoundKeeps ==
    ASSUME RunInv, NEW step \in 1..MaxStep, NEW kind \in Kinds.rbx \cup {"none"},
           RbxRound(step, kind)
    PROVE  RunInv'
<1>1. RoundBody(step, kind) /\ kind \in AllKinds \cup {"none"} /\ probe = "rbx"
  BY DEF RbxRound, AllKinds
<1>2. /\ baseline' = baseline /\ value_drift' = value_drift /\ seen' = seen
      /\ baseline \in Buffers /\ seen \subseteq Buffers
      /\ value_drift \in Nat /\ value_drift <= rounds * SampleCount
  BY DEF RbxRound, RunInv, TypeOK, Bounded
<1>3. rounds < Duration /\ rounds \in Nat /\ rounds' = rounds + 1 /\ probe' = "rbx"
  BY <1>1, BodyKeeps
<1>4. value_drift' \in 0..(Duration * SampleCount) /\ value_drift' <= rounds' * SampleCount
  <2>1. value_drift' \in Nat /\ value_drift' <= (rounds + 1) * SampleCount
    BY <1>2, <1>3
  <2>2. QED
    BY <1>3, <2>1, DriftBound
<1>5. Timed' /\ Prompt'
  BY <1>1, BodyKeeps
<1>6. TypeOK'
  BY <1>1, <1>2, <1>4, BodyKeeps DEF TypeOK
<1>7. Bounded'
  BY <1>1, <1>4, BodyKeeps DEF Bounded
<1>8. OwnBaseline'
  BY <1>1, <1>2, <1>3 DEF RunInv, OwnBaseline
<1>9. QED
  BY <1>5, <1>6, <1>7, <1>8 DEF RunInv

(* The invariant is inductive.                                             *)
LEMMA RunInvStep == RunInv /\ [Next]_vars => RunInv'
<1> SUFFICES ASSUME RunInv, [Next]_vars PROVE RunInv'
  OBVIOUS
<1>1. CASE Interrupt
  BY <1>1, InterruptKeeps
<1>2. CASE \E p \in {"ch", "rbx"} : Begin(p)
  BY <1>2, BeginKeeps
<1>3. CASE \E lag \in 0..Lag : Head(lag)
  BY <1>3, HeadKeeps
<1>4. CASE Poll
  BY <1>4, PollKeeps
<1>5. ASSUME NEW step \in 1..MaxStep, NEW kind \in Kinds.ch \cup {"none"},
             NEW buffer \in Buffers, ChRound(step, kind, buffer)
      PROVE  RunInv'
  BY <1>5, ChRoundKeeps
<1>6. ASSUME NEW step \in 1..MaxStep, NEW kind \in Kinds.rbx \cup {"none"},
             RbxRound(step, kind)
      PROVE  RunInv'
  BY <1>6, RbxRoundKeeps
<1>7. CASE UNCHANGED vars
  <2>1. TypeOK' /\ Timed' /\ Bounded' /\ OwnBaseline'
    BY <1>7 DEF vars, RunInv, TypeOK, Timed, Bounded, OwnBaseline
  <2>2. Prompt'
    BY <1>7 DEF vars, RunInv, Prompt
  <2>3. QED
    BY <2>1, <2>2 DEF RunInv
<1>8. QED
  BY <1>1, <1>2, <1>3, <1>4, <1>5, <1>6, <1>7 DEF Next, LoopStep

(* The measuring loop never leaves RunInv.                                 *)
THEOREM CoreRunInvariant == Spec => []RunInv
BY RunInvInit, RunInvStep, PTL DEF Spec

(* Every counter keeps its range: no run makes more rounds than its        *)
(* duration has units, or counts more than it made.                        *)
THEOREM CoreRunTypeCorrect == Spec => []TypeOK
<1>1. RunInv => TypeOK
  BY DEF RunInv
<1>2. QED
  BY <1>1, CoreRunInvariant, PTL

(* A run of either probe that does not call itself interrupted lasted its  *)
(* duration and measured something, however long rounds and stalls are.    *)
THEOREM CoreRunFullDurationOrMarked == Spec => []FullDurationOrMarked
<1>1. RunInv => FullDurationOrMarked
  BY DEF RunInv, Timed, Prompt, FullDurationOrMarked
<1>2. QED
  BY <1>1, CoreRunInvariant, PTL

(* Ctrl+C costs at most the round in progress, over all the runs.          *)
THEOREM CoreRunInterruptIsPrompt == Spec => []InterruptIsPrompt
<1>1. RunInv => InterruptIsPrompt
  BY DEF RunInv, Prompt, InterruptIsPrompt
<1>2. QED
  BY <1>1, CoreRunInvariant, PTL

(* Drift is reported exactly when two rounds of the same run disagree,     *)
(* whatever samples the previous core left in the shared baseline.         *)
THEOREM CoreRunDriftIsAgainstOwnRounds == Spec => []DriftIsAgainstOwnRounds
<1>1. RunInv => DriftIsAgainstOwnRounds
  <2> SUFFICES ASSUME RunInv PROVE DriftIsAgainstOwnRounds
    OBVIOUS
  <2>1. value_drift # 0 => \E a, b \in seen : a # b
    BY DEF RunInv, OwnBaseline
  <2>2. ASSUME value_drift = 0 PROVE \A a, b \in seen : a = b
    <3>1. CASE rounds = 0 \/ probe = "rbx"
      BY <3>1 DEF RunInv, OwnBaseline
    <3>2. CASE rounds # 0 /\ probe # "rbx"
      <4>1. rounds > 0 /\ probe = "ch"
        BY <3>2 DEF RunInv, TypeOK
      <4>2. seen = {baseline}
        BY <2>2, <4>1 DEF RunInv, OwnBaseline
      <4>3. QED
        BY <4>2
    <3>3. QED
      BY <3>1, <3>2
  <2>3. QED
    BY <2>1, <2>2 DEF DriftIsAgainstOwnRounds
<1>2. QED
  BY <1>1, CoreRunInvariant, PTL

-----------------------------------------------------------------------------
(* Multiples of the interval are in the order of their numbers.            *)
LEMMA MultipleOrder ==
    \A i \in Nat \ {0}, m \in Nat, d \in Nat : i * m < i * (d + 1) => m <= d
<1> SUFFICES ASSUME NEW i \in Nat \ {0}, NEW m \in Nat, NEW d \in Nat, d < m
             PROVE  i * (d + 1) <= i * m
  OBVIOUS
<1>1. PICK e \in Nat : m = (d + 1) + e
  <2>1. m - (d + 1) \in Nat /\ m = (d + 1) + (m - (d + 1))
    OBVIOUS
  <2>2. QED
    BY <2>1
<1>2. i * m = i * (d + 1) + i * e
  BY <1>1
<1>3. i * e \in Nat /\ i * (d + 1) \in Nat
  OBVIOUS
<1>4. QED
  BY <1>2, <1>3

(* A round that passes the mark, or several, moves it past the clock.      *)
LEMMA BodyOnTime ==
    ASSUME RunInv, OnTime, NEW step \in 1..MaxStep,
           NEW kind \in AllKinds \cup {"none"}, RoundBody(step, kind)
    PROVE  OnTime'
<1> DEFINE I == k_progress_interval_s
<1>1. /\ now \in Nat /\ now' = now + step /\ now' \in Nat /\ now <= now'
      /\ progress_lines \in Nat /\ I \in Nat \ {0}
      /\ Progress
  BY DEF RunInv, TypeOK, RoundBody
<1>2. PICK m \in Nat : next_progress = I * (m + 1) /\ I * m <= now /\ progress_lines <= m
  BY DEF OnTime
<1>3. CASE now' >= next_progress
  <2> DEFINE d == now' \div I
  <2>1. d \in Nat /\ I * d <= now' /\ now' < I * (d + 1)
    BY <1>1, DivNat
  <2>2. progress_lines' = progress_lines + 1 /\ next_progress' = I * (d + 1)
    BY <1>1, <1>3 DEF Progress, NextProgress
  <2> HIDE DEF d, I
  <2>3. m + 1 \in Nat /\ I * (m + 1) \in Nat /\ I * (d + 1) \in Nat
    BY <1>1, <2>1
  <2>4. I * (m + 1) < I * (d + 1)
    BY <1>1, <1>2, <1>3, <2>1, <2>3
  <2>5. m + 1 <= d
    BY <1>1, <2>1, <2>3, <2>4, MultipleOrder
  <2>6. progress_lines' <= d
    BY <1>1, <1>2, <2>1, <2>2, <2>5
  <2>7. QED
    BY <2>1, <2>2, <2>6 DEF OnTime, I
<1>4. CASE ~(now' >= next_progress)
  <2>1. progress_lines' = progress_lines /\ next_progress' = next_progress
    BY <1>1, <1>4 DEF Progress
  <2> HIDE DEF I
  <2>2. I * (m + 1) \in Nat /\ I * m \in Nat
    BY <1>1
  <2>3. now' < next_progress' /\ I * m <= now'
    BY <1>1, <1>2, <1>4, <2>1, <2>2
  <2>4. QED
    BY <1>2, <2>1, <2>3 DEF OnTime, I
<1>5. QED
  BY <1>3, <1>4

(* The mark is kept by every step.                                         *)
LEMMA OnTimeStep == RunInv /\ OnTime /\ [Next]_vars => OnTime'
<1> SUFFICES ASSUME RunInv, OnTime, [Next]_vars PROVE OnTime'
  OBVIOUS
<1>1. CASE Interrupt \/ Poll \/ UNCHANGED vars
  BY <1>1 DEF OnTime, Interrupt, Poll, vars
<1>2. ASSUME NEW p \in {"ch", "rbx"}, Begin(p) PROVE OnTime'
  <2>1. /\ next_progress' = k_progress_interval_s * (0 + 1)
        /\ k_progress_interval_s * 0 <= now' /\ progress_lines' <= 0
        /\ rounds' = 0
    BY <1>2 DEF Begin
  <2>2. QED
    BY <2>1 DEF OnTime
<1>3. ASSUME NEW lag \in 0..Lag, Head(lag) PROVE OnTime'
  <2>1. /\ now \in Nat /\ now' = now + lag /\ pc' # "head"
        /\ next_progress' = next_progress /\ progress_lines' = progress_lines
    BY <1>3 DEF RunInv, TypeOK, Head
  <2>2. PICK m \in Nat : /\ next_progress = k_progress_interval_s * (m + 1)
                         /\ k_progress_interval_s * m <= now
                         /\ progress_lines <= m
    BY DEF OnTime
  <2>3. k_progress_interval_s * m \in Nat
    OBVIOUS
  <2>4. k_progress_interval_s * m <= now'
    BY <2>1, <2>2, <2>3
  <2>5. QED
    BY <2>1, <2>2, <2>4 DEF OnTime
<1>4. ASSUME NEW step \in 1..MaxStep, NEW kind \in Kinds.ch \cup {"none"},
             NEW buffer \in Buffers, ChRound(step, kind, buffer)
      PROVE  OnTime'
  BY <1>4, BodyOnTime DEF ChRound, AllKinds
<1>5. ASSUME NEW step \in 1..MaxStep, NEW kind \in Kinds.rbx \cup {"none"},
             RbxRound(step, kind)
      PROVE  OnTime'
  BY <1>5, BodyOnTime DEF RbxRound, AllKinds
<1>6. QED
  BY <1>1, <1>2, <1>3, <1>4, <1>5 DEF Next, LoopStep

(* However long rounds and stalls are, a progress line is never followed   *)
(* by another for the same interval, and the next is at most one interval  *)
(* away.                                                                   *)
THEOREM CoreRunProgressNeverBacklogs == Spec => []ProgressNeverBacklogs
<1>1. Init => OnTime
  <2>1. Init => /\ next_progress = k_progress_interval_s * (0 + 1)
                /\ k_progress_interval_s * 0 <= now /\ progress_lines <= 0
                /\ rounds = 0
    BY DEF Init
  <2>2. QED
    BY <2>1 DEF OnTime
<1>2. RunInv /\ OnTime => ProgressNeverBacklogs
  <2> DEFINE I == k_progress_interval_s
             d == now \div I
  <2> SUFFICES ASSUME RunInv, OnTime, pc = "head", rounds > 0
               PROVE  /\ now < next_progress
                      /\ next_progress <= now + I
                      /\ progress_lines <= d
    BY DEF ProgressNeverBacklogs
  <2>1. now \in Nat /\ progress_lines \in Nat /\ I \in Nat \ {0} /\ now < next_progress
    BY DEF RunInv, TypeOK, OnTime
  <2>2. PICK m \in Nat : next_progress = I * (m + 1) /\ I * m <= now /\ progress_lines <= m
    BY DEF OnTime
  <2>3. d \in Nat /\ now < I * (d + 1)
    BY <2>1, DivNat
  <2> HIDE DEF d, I
  <2>4. I * m \in Nat /\ I * (m + 1) = I * m + I /\ I * (d + 1) \in Nat
    BY <2>1, <2>3
  <2>5. I * m < I * (d + 1)
    BY <2>1, <2>2, <2>3, <2>4
  <2>6. m <= d
    BY <2>1, <2>3, <2>5, MultipleOrder
  <2>7. QED
    BY <2>1, <2>2, <2>3, <2>4, <2>6
<1>3. QED
  BY <1>1, <1>2, OnTimeStep, CoreRunInvariant, PTL DEF Spec

-----------------------------------------------------------------------------
(* What a run has printed, and the counter that stops it at the cap.       *)
Accounted == ReportIsComplete /\ reported = listed

(* One more detection is one more under its kind, and under no other.      *)
LEMMA ClassifiedStep ==
    ASSUME TypeOK, NEW kind \in Kinds[probe], probe' = probe,
           counts' = [counts EXCEPT ![kind] = counts[kind] + 1]
    PROVE  Classified' = Classified + 1
<1>1. \A k \in AllKinds : counts[k] \in Nat  BY DEF TypeOK
<1>2. CASE probe = "ch"
  <2>1. kind \in {"L0", "L1", "L2", "L3", "unexplained"}
    BY <1>2 DEF Kinds, Lanes
  <2>2. {"L0", "L1", "L2", "L3", "unexplained"} \subseteq AllKinds
    BY DEF AllKinds, Kinds, Lanes
  <2>3. \A k \in AllKinds : counts'[k] = IF k = kind THEN counts[k] + 1 ELSE counts[k]
    BY DEF TypeOK
  <2>4. QED
    BY <1>1, <1>2, <2>1, <2>2, <2>3 DEF Classified
<1>3. CASE probe = "rbx"
  <2>1. kind \in {"signature", "other_fault", "mismatch"}
    BY <1>3 DEF Kinds
  <2>2. {"signature", "other_fault", "mismatch"} \subseteq AllKinds
    BY DEF AllKinds, Kinds
  <2>3. \A k \in AllKinds : counts'[k] = IF k = kind THEN counts[k] + 1 ELSE counts[k]
    BY DEF TypeOK
  <2>4. QED
    BY <1>1, <1>3, <2>1, <2>2, <2>3 DEF Classified
<1>4. QED
  BY <1>2, <1>3 DEF TypeOK

(* A round of either probe files at most one detection.                    *)
LEMMA BodyAccounted ==
    ASSUME RunInv, Accounted, NEW step \in 1..MaxStep,
           NEW kind \in Kinds[probe] \cup {"none"}, RoundBody(step, kind)
    PROVE  Accounted'
<1>1. probe' = probe
  BY DEF RoundBody
<1>2. CASE kind = "none"
  <2>1. UNCHANGED <<detections, counts, reported, listed, notices, probe>>
    BY <1>2 DEF RoundBody
  <2>2. QED
    BY <2>1 DEF Accounted, ReportIsComplete, Classified
<1>3. CASE kind # "none"
  <2>1. CountDetection(kind) /\ kind \in Kinds[probe]
    BY <1>3 DEF RoundBody
  <2>2. Classified' = Classified + 1
    BY <1>1, <2>1, ClassifiedStep DEF CountDetection, RunInv
  <2>3. detections' = detections + 1 /\ detections \in Nat
    BY <2>1 DEF CountDetection, RunInv, TypeOK
  <2>4. /\ listed' = (IF detections' < k_max_reported_per_cpu
                        THEN detections' ELSE k_max_reported_per_cpu)
        /\ notices' = (IF detections' < k_max_reported_per_cpu THEN 0 ELSE 1)
        /\ reported' = listed'
    BY <2>1, <2>3 DEF CountDetection, Accounted, ReportIsComplete, ioVars, RunInv, TypeOK
  <2>5. QED
    BY <2>2, <2>3, <2>4 DEF Accounted, ReportIsComplete
<1>4. QED
  BY <1>2, <1>3

(* The account is kept by every step: a run begins with nothing on it.     *)
LEMMA AccountedStep == RunInv /\ Accounted /\ [Next]_vars => Accounted'
<1> SUFFICES ASSUME RunInv, Accounted, [Next]_vars PROVE Accounted'
  OBVIOUS
<1>1. CASE Interrupt \/ Poll \/ UNCHANGED vars
  BY <1>1 DEF Accounted, ReportIsComplete, Classified, Interrupt, Poll, vars
<1>2. ASSUME NEW lag \in 0..Lag, Head(lag) PROVE Accounted'
  BY <1>2 DEF Accounted, ReportIsComplete, Classified, Head
<1>3. ASSUME NEW p \in {"ch", "rbx"}, Begin(p) PROVE Accounted'
  <2>1. /\ detections' = 0 /\ listed' = 0 /\ notices' = 0 /\ reported' = 0
        /\ counts' = [k \in AllKinds |-> 0]
    BY <1>3 DEF Begin
  <2>2. Classified' = 0
    BY <2>1 DEF Classified, AllKinds, Kinds, Lanes
  <2>3. QED
    BY <2>1, <2>2 DEF Accounted, ReportIsComplete
<1>4. ASSUME NEW step \in 1..MaxStep, NEW kind \in Kinds.ch \cup {"none"},
             NEW buffer \in Buffers, ChRound(step, kind, buffer)
      PROVE  Accounted'
  BY <1>4, BodyAccounted DEF ChRound, Kinds
<1>5. ASSUME NEW step \in 1..MaxStep, NEW kind \in Kinds.rbx \cup {"none"},
             RbxRound(step, kind)
      PROVE  Accounted'
  BY <1>5, BodyAccounted DEF RbxRound, Kinds
<1>6. QED
  BY <1>1, <1>2, <1>3, <1>4, <1>5 DEF Next, LoopStep

(* Whatever the cap and however long the run: every detection is under     *)
(* exactly one kind of its probe, the first ones are listed, and the       *)
(* notice is there exactly when the rest is only counted.                  *)
THEOREM CoreRunReportIsComplete == Spec => []ReportIsComplete
<1>1. Init => Accounted
  <2> SUFFICES ASSUME Init PROVE Accounted
    OBVIOUS
  <2>1. Classified = 0
    BY DEF Init, Classified, AllKinds, Kinds, Lanes
  <2>2. QED
    BY <2>1 DEF Init, Accounted, ReportIsComplete
<1>2. Accounted => ReportIsComplete
  BY DEF Accounted
<1>3. QED
  BY <1>1, <1>2, AccountedStep, CoreRunInvariant, PTL DEF Spec

-----------------------------------------------------------------------------
(* Each step of the loop is a step of the contract, or none.               *)
LEMMA StepRefines == RunInv /\ [Next]_vars => [Contract!ContractNext]_(Contract!contractVars)
<1> SUFFICES ASSUME RunInv, [Next]_vars
             PROVE  Contract!ContractNext \/ UNCHANGED Contract!contractVars
  OBVIOUS
<1>1. CASE Interrupt
  <2>1. Contract!Interrupt
    BY <1>1 DEF Interrupt, Contract!Interrupt, Contract!runVars
  <2>2. QED
    BY <2>1 DEF Contract!ContractNext
<1>2. CASE \E p \in {"ch", "rbx"} : Begin(p)
  <2>1. PICK p \in {"ch", "rbx"} : Begin(p)
    BY <1>2
  <2>2. Contract!Begin
    BY <2>1 DEF Begin, Contract!Begin
  <2>3. QED
    BY <2>2 DEF Contract!ContractNext
<1>3. CASE \E lag \in 0..Lag : Head(lag)
  <2>1. PICK lag \in 0..Lag : Head(lag)
    BY <1>3
  <2>2. /\ pc = "head" /\ pc' = (IF now' < Duration THEN "poll" ELSE "ended")
        /\ now' = now + lag /\ now \in Nat /\ rounds \in Nat
        /\ rounds = 0 => now = 0
        /\ UNCHANGED <<g_interrupt, rounds, detections, run_interrupted>>
    BY <2>1 DEF Head, RunInv, TypeOK, Timed
  <2>3. CASE now' < Duration
    <3>1. UNCHANGED Contract!contractVars
      BY <2>2, <2>3 DEF Contract!contractVars
    <3>2. QED
      BY <3>1
  <2>4. CASE ~(now' < Duration)
    <3>1. rounds > 0
      BY <2>2, <2>4
    <3>2. Contract!Expire
      BY <2>2, <2>4, <3>1 DEF Contract!Expire
    <3>3. QED
      BY <3>2 DEF Contract!ContractNext, Contract!RunStep
  <2>5. QED
    BY <2>3, <2>4
<1>4. CASE Poll
  <2>1. /\ rounds < Duration /\ pc = "poll"
    BY <1>4 DEF Poll, RunInv, TypeOK, Timed
  <2>2. CASE g_interrupt
    <3>1. Contract!Stop
      BY <1>4, <2>1, <2>2 DEF Poll, RunInv, TypeOK, Contract!Stop
    <3>2. QED
      BY <3>1 DEF Contract!ContractNext, Contract!RunStep
  <2>3. CASE ~g_interrupt
    <3>1. run_interrupted' = run_interrupted
      BY <1>4, <2>1, <2>3 DEF Poll, RunInv, TypeOK, Prompt
    <3>2. Contract!Poll
      BY <1>4, <2>1, <2>3, <3>1 DEF Poll, Contract!Poll
    <3>3. QED
      BY <3>2 DEF Contract!ContractNext, Contract!RunStep
  <2>4. QED
    BY <2>2, <2>3
<1>5. ASSUME NEW step \in 1..MaxStep, NEW kind \in AllKinds \cup {"none"},
             RoundBody(step, kind)
      PROVE  Contract!ContractNext
  <2>1. \E faulty \in BOOLEAN : Contract!Round(faulty)
    <3>1. CASE kind = "none"
      <4>1. Contract!Round(FALSE)
        BY <1>5, <3>1 DEF RoundBody, Contract!Round
      <4>2. QED
        BY <4>1
    <3>2. CASE kind # "none"
      <4>1. Contract!Round(TRUE)
        BY <1>5, <3>2 DEF RoundBody, CountDetection, Contract!Round
      <4>2. QED
        BY <4>1
    <3>3. QED
      BY <3>1, <3>2
  <2>2. QED
    BY <2>1 DEF Contract!ContractNext, Contract!RunStep
<1>6. ASSUME NEW step \in 1..MaxStep, NEW kind \in Kinds.ch \cup {"none"},
             NEW buffer \in Buffers, ChRound(step, kind, buffer)
      PROVE  Contract!ContractNext
  BY <1>5, <1>6 DEF ChRound, AllKinds
<1>7. ASSUME NEW step \in 1..MaxStep, NEW kind \in Kinds.rbx \cup {"none"},
             RbxRound(step, kind)
      PROVE  Contract!ContractNext
  BY <1>5, <1>7 DEF RbxRound, AllKinds
<1>8. CASE UNCHANGED vars
  <2>1. UNCHANGED Contract!contractVars
    BY <1>8 DEF vars, Contract!contractVars
  <2>2. QED
    BY <2>1
<1>9. QED
  BY <1>1, <1>2, <1>3, <1>4, <1>6, <1>7, <1>8 DEF Next, LoopStep

(* The measuring loop of either probe implements the run the sweep is      *)
(* composed with, but for fairness: every behaviour of the loop, seen      *)
(* through the mapping, is one of the contract.                            *)
THEOREM CoreRunImplementsContract ==
    Spec => Contract!ContractInit /\ [][Contract!ContractNext]_(Contract!contractVars)
<1>1. Init => Contract!ContractInit
  BY DEF Init, Contract!ContractInit
<1>2. QED
  BY <1>1, StepRefines, CoreRunInvariant, PTL DEF Spec

=============================================================================
