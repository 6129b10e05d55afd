---------------------------- MODULE SweepProofs ----------------------------
(***************************************************************************)
(* The safety properties of Sweep, for any number of cores, any bound on   *)
(* the rounds, any choice of probes, either system's way of verifying a    *)
(* pin, and pins honoured loosely or not.                                  *)
(* None of them is inductive by itself; the parts of the invariant below   *)
(* say, at each point of main, how the rows collected so far, the counters *)
(* and the run in progress account for what has really happened.           *)
(***************************************************************************)
EXTENDS Sweep, TLAPS

(* A run in progress: the round it has committed to still fits, it has     *)
(* found no more faults than it made rounds, and only an interrupted run   *)
(* ends without a round.                                                   *)
RunInv ==
    /\ at = "measuring" => rounds < MaxRounds
    /\ detections <= rounds
    /\ run_interrupted => g_interrupt
    /\ at = "ended" /\ ~run_interrupted => rounds > 0

(* Where main is in the list of cores.                                     *)
Counted ==
    /\ pc \in {"calibrate", "check", "pin"} => measured_cores + skipped + 1 = n
    /\ pc \in {"pin", "ch", "rbx"} => n <= NCores
    /\ Running => measured_cores + skipped = n
    /\ measured_cores + skipped <= NCores
    /\ Running => pc \in probes
    /\ pc \notin {"sum", "verdict", "done"} => ~interrupted
    /\ interrupted => g_interrupt /\ n <= NCores
    /\ pc \in {"sum", "verdict", "done"} /\ ~interrupted =>
          n = NCores + 1 /\ measured_cores + skipped = NCores

(* How many rows there are.                                                *)
RowsCounted ==
    /\ \A p \in Probes \ probes : Len(rows[p]) = 0
    /\ pc \in {"calibrate", "check", "pin"} =>
          \A p \in probes : Len(rows[p]) = measured_cores
    /\ pc = "ch" => \A p \in probes : Len(rows[p]) + 1 = measured_cores
    /\ pc = "rbx" => /\ Len(rows["rbx"]) + 1 = measured_cores
                     /\ "ch" \in probes => Len(rows["ch"]) = measured_cores
    /\ pc \in {"sum", "verdict", "done"} /\ ~interrupted =>
          \A p \in probes : Len(rows[p]) = measured_cores
    /\ measured_cores = 0 => \A p \in Probes : Len(rows[p]) = 0

(* The detections of the rows and of the run in progress are the faults    *)
(* that happened, and each is filed where it happened unless a warning     *)
(* stands beside it or the pin was confirmed by chance.                    *)
Faulty(p, k) == \E i \in 1..k : rows[p][i].detections # 0
HasFault(p) == \E c \in Cores \cup {Nowhere} : <<c, p>> \in faults

Filed(c, p) == \/ <<c, p>> \in faults
               \/ platform = "windows" /\ c \in by_chance /\ <<Nowhere, p>> \in faults

FaultsFiled ==
    /\ pc # "dead" => \A p \in Probes :
          HasFault(p) <=> Faulty(p, Len(rows[p])) \/ (pc = p /\ detections # 0)
    /\ Running /\ n \notin warned =>
          affinity = n \/ (platform = "windows" /\ n \in by_chance /\ affinity = Nowhere)
    /\ Running /\ detections # 0 => <<affinity, pc>> \in faults
    /\ \A p \in Probes : \A i \in 1..Len(rows[p]) :
          rows[p][i].detections # 0 /\ rows[p][i].cpu \notin warned
              => Filed(rows[p][i].cpu, p)

(* The totals are the sums of the rows added so far, as far as being zero  *)
(* goes.                                                                   *)
Summed ==
    /\ \A p \in Probes : summed[p] <= Len(rows[p])
    /\ \A p \in Probes : totals[p] # 0 <=> Faulty(p, summed[p])
    /\ pc \in {"verdict", "done"} => \A p \in Probes : summed[p] = Len(rows[p])

(* What has been printed.                                                  *)
Printed ==
    /\ pc # "done" => /\ exit_code = NotExited
                      /\ \A p \in Probes : verdict[p] = "none" /\ affected[p] = {}
    /\ pc = "done" /\ measured_cores = 0 =>
          /\ exit_code = k_exit_usage
          /\ \A p \in Probes : verdict[p] = "none" /\ affected[p] = {}
    /\ pc = "done" /\ measured_cores # 0 =>
          /\ exit_code = ExitCode
          /\ \A p \in Probes : verdict[p] = Result(p) /\ affected[p] = AffectedCores(p)

(* The rows of a probe stop short of the core main is at, unless that      *)
(* core's run of the probe is over.                                        *)
RowsBehind ==
    /\ pc \in {"calibrate", "check", "pin"} =>
          \A p \in Probes : \A i \in 1..Len(rows[p]) : rows[p][i].cpu < n
    /\ pc = "ch" => \A p \in Probes : \A i \in 1..Len(rows[p]) : rows[p][i].cpu < n
    /\ pc = "rbx" => \A i \in 1..Len(rows["rbx"]) : rows["rbx"][i].cpu < n
    /\ \A p \in Probes : \A i \in 1..Len(rows[p]) : rows[p][i].cpu <= n

(* Which cores are behind main, and how each of them was dealt with; the   *)
(* core an interrupted sweep stopped at was not measured in full.          *)
CoresBehind ==
    /\ \A c \in skipped_cores : c < n
    /\ \A c \in Cores : c < n /\ c \notin skipped_cores => \A p \in probes : Measured(c, p)
    /\ pc = "rbx" /\ "ch" \in probes => Measured(n, "ch")
    /\ interrupted => \E p \in probes : ~Measured(n, p)
    /\ measured_cores # 0 /\ ~interrupted /\ pc # "dead" =>
          Running \/ \E c \in Cores : c < n /\ c \notin skipped_cores

BaseInv == TypeOK /\ RunInv /\ Counted

-----------------------------------------------------------------------------
USE MaxRoundsAssumption, NCoresAssumption, ProbesAssumption, PlatformsAssumption,
    LoosePinsAssumption DEF settings

(* Types, places and counters are right when main reaches the sweep.       *)
LEMMA BaseInit == Init => BaseInv
<1> SUFFICES ASSUME Init PROVE BaseInv
  OBVIOUS
<1>1. rows \in [Probes -> Seq(Row)]
  BY DEF Init
<1>2. TypeOK
  <2>0. g_interrupt \in BOOLEAN /\ run_interrupted \in BOOLEAN /\ interrupted \in BOOLEAN
    BY DEF Init, ContractInit
  <2>1. ContractTypeOK
    BY <2>0 DEF Init, ContractInit, ContractTypeOK, RunPlaces
  <2>2. /\ summed \in [Probes -> Nat]
        /\ totals \in [Probes -> Nat]
        /\ verdict \in [Probes -> {"none", "detected", "interrupted", "clean"}]
        /\ affected \in [Probes -> SUBSET Cores]
    BY DEF Init
  <2>3. QED
    BY <1>1, <2>0, <2>1, <2>2 DEF Init, TypeOK, Cores, Nowhere
<1>3. RunInv /\ Counted
  BY DEF Init, ContractInit, RunInv, Counted, Running, Probes
<1>4. QED
  BY <1>2, <1>3 DEF BaseInv

(* A finished run leaves a row of the right type, appended to the rows of  *)
(* its probe; the earlier ones stay as they were.                          *)
ThisRow == [cpu |-> n, rounds |-> rounds, detections |-> detections,
            interrupted |-> run_interrupted]

LEMMA PushedRow ==
    ASSUME BaseInv, Running, PushRow
    PROVE  /\ ThisRow \in Row
           /\ rows' \in [Probes -> Seq(Row)]
           /\ \A p \in Probes : Len(rows[p]) \in Nat
           /\ \A p \in Probes : p # pc => rows'[p] = rows[p]
           /\ Len(rows'[pc]) = Len(rows[pc]) + 1
           /\ \A i \in 1..Len(rows[pc]) : rows'[pc][i] = rows[pc][i]
           /\ rows'[pc][Len(rows[pc]) + 1] = ThisRow
<1>1. rows \in [Probes -> Seq(Row)] /\ pc \in Probes
  BY DEF BaseInv, TypeOK, Running
<1>2. ThisRow \in Row
  BY DEF BaseInv, TypeOK, ContractTypeOK, Counted, Running, Probes, Cores, Row, ThisRow
<1>3. rows' = [rows EXCEPT ![pc] = Append(rows[pc], ThisRow)]
  BY <1>1 DEF PushRow, ThisRow
<1>4. QED
  BY <1>1, <1>2, <1>3

(* Counters, places and types survive every step.                          *)
LEMMA BaseStep == BaseInv /\ [Next]_vars => BaseInv'
<1> SUFFICES ASSUME BaseInv, [Next]_vars PROVE BaseInv'
  OBVIOUS
<1> USE DEF BaseInv, TypeOK, ContractTypeOK, RunInv, Counted, Running, Probes,
        Cores, Nowhere, RunPlaces
<1>1. CASE CtrlC
  BY <1>1 DEF CtrlC, Interrupt, runVars, loopVars, sumVars, endVars, historyVars
<1>2. CASE Die
  BY <1>2 DEF Die, contractVars, loopVars, sumVars, endVars, historyVars
<1>3. CASE Calibrate
  BY <1>3 DEF Calibrate, PinnedPlaces, contractVars, sumVars, endVars, historyVars
<1>4. CASE AllCoresVisited
  BY <1>4 DEF AllCoresVisited, contractVars, loopVars, sumVars, endVars, historyVars
<1>5. CASE StopBeforeCore
  BY <1>5 DEF StopBeforeCore, contractVars, sumVars, endVars, historyVars
<1>6. CASE GoOn
  BY <1>6 DEF GoOn, contractVars, loopVars, sumVars, endVars, historyVars
<1>7. CASE SkipCore
  BY <1>7 DEF SkipCore, contractVars, sumVars, endVars
<1>8. ASSUME NEW confirmed \in BOOLEAN, EnterCore(confirmed) PROVE BaseInv'
  <2>0. run_interrupted' \in BOOLEAN /\ ~run_interrupted'
    BY <1>8 DEF EnterCore, Begin
  <2>1. ContractTypeOK' /\ RunInv'
    BY <1>8, <2>0 DEF EnterCore, Begin
  <2>2. /\ affinity' \in Cores \cup {Nowhere}
        /\ warned' \subseteq Cores /\ by_chance' \subseteq Cores
    BY <1>8 DEF EnterCore, PinnedPlaces
  <2>3. pc' \in probes /\ pc' \in {"ch", "rbx"}
    BY <1>8 DEF EnterCore
  <2>4. Counted'
    BY <1>8, <2>3 DEF EnterCore, Begin
  <2>5. TypeOK'
    <3>1. measured_cores' \in 0..NCores /\ n' \in 1..NCores + 1 /\ skipped' \in 0..NCores
      BY <1>8 DEF EnterCore
    <3>2. UNCHANGED <<platform, probes, interrupted, rows, summed, totals, verdict,
                      affected, exit_code, skipped_cores, faults>>
      BY <1>8 DEF EnterCore, sumVars, endVars
    <3>3. QED
      BY <2>1, <2>2, <2>3, <3>1, <3>2
  <2>6. QED
    BY <2>1, <2>4, <2>5
<1>9. CASE RunLoop
  <2>0. run_interrupted' \in BOOLEAN
    BY <1>9 DEF RunLoop, Poll, Stop, Expire
  <2>1. ContractTypeOK' /\ RunInv' /\ UNCHANGED g_interrupt
    BY <1>9, <2>0 DEF RunLoop, Poll, Stop, Expire
  <2>2. QED
    BY <1>9, <2>1 DEF RunLoop, loopVars, sumVars, endVars, historyVars
<1>10. ASSUME NEW faulty \in BOOLEAN, Measure(faulty) PROVE BaseInv'
  BY <1>10 DEF Measure, Round, loopVars, sumVars, endVars
<1>11. CASE FinishInterrupted
  BY <1>11, PushedRow DEF FinishInterrupted, contractVars, sumVars, endVars, historyVars
<1>12. CASE FinishChThenRbx
  <2>0. run_interrupted' \in BOOLEAN /\ ~run_interrupted'
    BY <1>12 DEF FinishChThenRbx, Begin
  <2>1. ContractTypeOK' /\ RunInv' /\ UNCHANGED g_interrupt
    BY <1>12, <2>0 DEF FinishChThenRbx, Begin
  <2>2. rows' \in [Probes -> Seq(Row)]
    BY <1>12, PushedRow DEF FinishChThenRbx
  <2>3. QED
    BY <1>12, <2>1, <2>2 DEF FinishChThenRbx, sumVars, endVars, historyVars
<1>13. CASE FinishCore
  <2>1. rows' \in [Probes -> Seq(Row)]
    BY <1>13, PushedRow DEF FinishCore
  <2>2. QED
    BY <1>13, <2>1 DEF FinishCore, contractVars, sumVars, endVars, historyVars
<1>14. ASSUME NEW p \in Probes, SumRow(p) PROVE BaseInv'
  <2>1. rows[p] \in Seq(Row) /\ summed[p] \in Nat /\ totals[p] \in Nat
    OBVIOUS
  <2>2. rows[p][summed[p] + 1] \in Row
    BY <1>14, <2>1 DEF SumRow
  <2>3. rows[p][summed[p] + 1].detections \in Nat
    BY <2>2 DEF Row
  <2>4. summed' \in [Probes -> Nat] /\ totals' \in [Probes -> Nat]
    BY <1>14, <2>1, <2>3 DEF SumRow
  <2>5. QED
    BY <1>14, <2>4 DEF SumRow, contractVars, loopVars, endVars, historyVars
<1>15. CASE AllSummed
  BY <1>15 DEF AllSummed, contractVars, loopVars, sumVars, endVars, historyVars
<1>16. CASE NothingTested
  BY <1>16 DEF NothingTested, contractVars, loopVars, sumVars, historyVars
<1>17. CASE Report
  <2>1. exit_code' \in {k_exit_clean, k_exit_detected, k_exit_usage,
                        k_exit_interrupted, NotExited}
    BY <1>17 DEF Report, ExitCode
  <2>2. verdict' \in [Probes -> {"none", "detected", "interrupted", "clean"}]
    BY <1>17 DEF Report, Result
  <2>3. ASSUME NEW p \in Probes PROVE AffectedCores(p) \subseteq Cores
    <3>1. rows[p] \in Seq(Row)
      OBVIOUS
    <3>2. \A i \in 1..Len(rows[p]) : rows[p][i] \in Row
      BY <3>1
    <3>3. \A r \in Row : r.cpu \in Cores
      BY DEF Row
    <3>4. QED
      BY <3>2, <3>3 DEF AffectedCores
  <2>4. affected' \in [Probes -> SUBSET Cores]
    BY <1>17, <2>3 DEF Report
  <2>5. QED
    BY <1>17, <2>1, <2>2, <2>4
       DEF Report, contractVars, loopVars, sumVars, historyVars
<1>18. CASE UNCHANGED vars
  BY <1>18 DEF vars, contractVars, loopVars, sumVars, endVars, historyVars
<1>19. QED
  BY <1>1, <1>2, <1>3, <1>4, <1>5, <1>6, <1>7, <1>8, <1>9, <1>10, <1>11, <1>12,
     <1>13, <1>14, <1>15, <1>16, <1>17, <1>18 DEF Next, Program, Exited

-----------------------------------------------------------------------------
(* Every probe has as many rows as cores have been measured, but for the   *)
(* run in progress and the one an interrupt cut off.                       *)
LEMMA RowsStep == BaseInv /\ RowsCounted /\ [Next]_vars => RowsCounted'
<1> SUFFICES ASSUME BaseInv, RowsCounted, [Next]_vars PROVE RowsCounted'
  OBVIOUS
<1>0. /\ pc \in {"calibrate", "check", "pin", "ch", "rbx", "sum", "verdict", "done", "dead"}
      /\ measured_cores \in Nat
      /\ interrupted \in BOOLEAN
      /\ \A p \in Probes : Len(rows[p]) \in Nat
      /\ probes \in ProbeChoices /\ probes \subseteq Probes /\ probes # {}
      /\ Running => pc \in probes
      /\ pc \notin {"sum", "verdict", "done"} => ~interrupted
  BY DEF BaseInv, TypeOK, Counted, Probes
<1> USE DEF RowsCounted, Running, Probes
<1>1. CASE CtrlC
  BY <1>0, <1>1 DEF CtrlC, loopVars
<1>2. CASE Die
  BY <1>0, <1>2 DEF Die, loopVars
<1>3. CASE Calibrate
  BY <1>0, <1>3 DEF Calibrate
<1>4. CASE AllCoresVisited
  BY <1>0, <1>4 DEF AllCoresVisited, loopVars
<1>5. CASE StopBeforeCore
  BY <1>0, <1>5 DEF StopBeforeCore
<1>6. CASE GoOn
  BY <1>0, <1>6 DEF GoOn, loopVars
<1>7. CASE SkipCore
  BY <1>0, <1>7 DEF SkipCore
<1>8. ASSUME NEW confirmed \in BOOLEAN, EnterCore(confirmed) PROVE RowsCounted'
  BY <1>0, <1>8 DEF EnterCore
<1>9. CASE RunLoop
  BY <1>0, <1>9 DEF RunLoop, loopVars
<1>10. ASSUME NEW faulty \in BOOLEAN, Measure(faulty) PROVE RowsCounted'
  BY <1>0, <1>10 DEF Measure, loopVars
<1>11. CASE FinishInterrupted
  BY <1>0, <1>11, PushedRow DEF FinishInterrupted
<1>12. CASE FinishChThenRbx
  BY <1>0, <1>12, PushedRow DEF FinishChThenRbx
<1>13. CASE FinishCore
  BY <1>0, <1>13, PushedRow DEF FinishCore
<1>14. ASSUME NEW p \in Probes, SumRow(p) PROVE RowsCounted'
  BY <1>0, <1>14 DEF SumRow, loopVars
<1>15. CASE AllSummed
  BY <1>0, <1>15 DEF AllSummed, loopVars
<1>16. CASE NothingTested
  BY <1>0, <1>16 DEF NothingTested, loopVars
<1>17. CASE Report
  BY <1>0, <1>17 DEF Report, loopVars
<1>18. CASE UNCHANGED vars
  BY <1>18 DEF vars, loopVars
<1>19. QED
  BY <1>1, <1>2, <1>3, <1>4, <1>5, <1>6, <1>7, <1>8, <1>9, <1>10, <1>11, <1>12,
     <1>13, <1>14, <1>15, <1>16, <1>17, <1>18 DEF Next, Program, Exited

(* A prefix of the rows is faulty when its last row is or a shorter one.   *)
LEMMA FaultyPrefix ==
    ASSUME NEW p \in Probes, NEW k \in Nat
    PROVE  Faulty(p, k + 1) <=> Faulty(p, k) \/ rows[p][k + 1].detections # 0
<1>1. 1..k + 1 = (1..k) \cup {k + 1}
  OBVIOUS
<1>2. QED
  BY <1>1, Zenon DEF Faulty

(* What the rows of a probe say about faults, before and after such a row. *)
LEMMA PushedFaults ==
    ASSUME BaseInv, Running, PushRow, NEW p \in Probes
    PROVE  /\ Faulty(p, Len(rows[p]))' <=>
                 Faulty(p, Len(rows[p])) \/ (p = pc /\ detections # 0)
           /\ \A k \in Nat : k <= Len(rows[p]) =>
                 ((\E i \in 1..k : rows'[p][i].detections # 0) <=> Faulty(p, k))
           /\ Len(rows[p]) \in Nat /\ Len(rows'[p]) \in Nat /\ Len(rows[p]) <= Len(rows'[p])
<1>1. Len(rows[p]) \in Nat /\ Len(rows'[p]) \in Nat /\ Len(rows[p]) <= Len(rows'[p])
  BY PushedRow
<1>2. ASSUME NEW k \in Nat, k <= Len(rows[p])
      PROVE  (\E i \in 1..k : rows'[p][i].detections # 0) <=> Faulty(p, k)
  <2>1. \A i \in 1..k : i \in 1..Len(rows[p])
    BY <1>1, <1>2
  <2>2. \A i \in 1..k : rows'[p][i] = rows[p][i]
    BY <2>1, PushedRow, Zenon
  <2>3. QED
    BY <2>2, Zenon DEF Faulty
<1>3. Faulty(p, Len(rows[p]))' <=> Faulty(p, Len(rows[p])) \/ (p = pc /\ detections # 0)
  <2>1. CASE p # pc
    <3>1. rows'[p] = rows[p]
      BY <2>1, PushedRow
    <3>2. QED
      BY <2>1, <3>1, Zenon DEF Faulty
  <2>2. CASE p = pc
    <3>1. Len(rows'[p]) = Len(rows[p]) + 1
      BY <2>2, PushedRow
    <3>2. rows'[p][Len(rows[p]) + 1].detections = detections
      BY <2>2, PushedRow DEF ThisRow
    <3>3. 1..Len(rows'[p]) = (1..Len(rows[p])) \cup {Len(rows[p]) + 1}
      BY <1>1, <3>1
    <3>4. Faulty(p, Len(rows[p]))' <=>
             \/ \E i \in 1..Len(rows[p]) : rows'[p][i].detections # 0
             \/ rows'[p][Len(rows[p]) + 1].detections # 0
      BY <3>3, Zenon DEF Faulty
    <3>5. QED
      BY <1>1, <1>2, <2>2, <3>2, <3>4
  <2>3. QED
    BY <2>1, <2>2
<1>4. QED
  BY <1>1, <1>2, <1>3

(* Every fault that happened is in a row or in the run in progress, filed  *)
(* under the core it happened on unless that core carries a warning.       *)
LEMMA FaultsStep == BaseInv /\ FaultsFiled /\ [Next]_vars => FaultsFiled'
<1> SUFFICES ASSUME BaseInv, FaultsFiled, [Next]_vars PROVE FaultsFiled'
  OBVIOUS
<1>0. /\ pc \in {"calibrate", "check", "pin", "ch", "rbx", "sum", "verdict", "done", "dead"}
      /\ \A p \in Probes : Len(rows[p]) \in Nat
      /\ detections \in Nat
      /\ affinity \in Cores \cup {Nowhere}
      /\ platform \in {"linux", "windows"}
  BY DEF BaseInv, TypeOK, ContractTypeOK, Probes
<1> USE DEF FaultsFiled, Running, Probes, Faulty, HasFault, Filed
<1> DEFINE FiledAt(rs) == \A p \in Probes : \A i \in 1..Len(rs[p]) :
                 rs[p][i].detections # 0 /\ rs[p][i].cpu \notin warned
                     => Filed(rs[p][i].cpu, p)
<1>20. ASSUME Running, PushRow PROVE FiledAt(rows')
  <2> SUFFICES ASSUME NEW p \in Probes, NEW i \in 1..Len(rows'[p]),
                      rows'[p][i].detections # 0, rows'[p][i].cpu \notin warned
               PROVE  Filed(rows'[p][i].cpu, p)
    OBVIOUS
  <2>1. CASE p = pc /\ i = Len(rows[p]) + 1
    <3>1. rows'[p][i].cpu = n /\ rows'[p][i].detections = detections
      BY <1>20, <2>1, PushedRow DEF ThisRow
    <3>2. QED
      BY <1>20, <2>1, <3>1
  <2>2. CASE ~(p = pc /\ i = Len(rows[p]) + 1)
    <3>1. rows'[p][i] = rows[p][i] /\ i \in 1..Len(rows[p])
      BY <1>20, <2>2, PushedRow
    <3>2. QED
      BY <3>1
  <2>3. QED
    BY <2>1, <2>2
<1>1. CASE CtrlC
  BY <1>1 DEF CtrlC, Interrupt, runVars, loopVars, historyVars
<1>2. CASE Die
  BY <1>2 DEF Die, contractVars, loopVars, historyVars
<1>3. CASE Calibrate
  BY <1>3 DEF Calibrate, contractVars, historyVars
<1>4. CASE AllCoresVisited
  BY <1>4 DEF AllCoresVisited, contractVars, loopVars, historyVars
<1>5. CASE StopBeforeCore
  BY <1>5 DEF StopBeforeCore, contractVars, historyVars
<1>6. CASE GoOn
  BY <1>6 DEF GoOn, contractVars, loopVars, historyVars
<1>7. CASE SkipCore
  BY <1>7 DEF SkipCore, contractVars
<1>8. ASSUME NEW confirmed \in BOOLEAN, EnterCore(confirmed) PROVE FaultsFiled'
  <2>1. /\ pc = "pin" /\ pc' \in Probes /\ detections' = 0
        /\ UNCHANGED <<rows, n, faults, platform>>
        /\ warned \subseteq warned' /\ by_chance \subseteq by_chance'
    BY <1>8 DEF EnterCore, Begin
  <2>2. n \notin warned' =>
           affinity' = n \/ (platform = "windows" /\ n \in by_chance' /\ affinity' = Nowhere)
    BY <1>0, <1>8 DEF EnterCore, Confirms, LinuxConfirms, WindowsConfirms
  <2>3. QED
    BY <1>0, <2>1, <2>2
<1>9. CASE RunLoop
  BY <1>9 DEF RunLoop, Poll, Stop, Expire, loopVars, historyVars
<1>10. ASSUME NEW faulty \in BOOLEAN, Measure(faulty) PROVE FaultsFiled'
  <2>1. /\ UNCHANGED <<pc, rows, n, affinity, warned, by_chance, platform>>
        /\ pc \in Probes
        /\ faults' = IF faulty THEN faults \cup {<<affinity, pc>>} ELSE faults
        /\ detections' = IF faulty THEN detections + 1 ELSE detections
    BY <1>10 DEF Measure, Round, loopVars
  <2>2. CASE ~faulty
    BY <2>1, <2>2
  <2>3. CASE faulty
    <3>1. detections' # 0 /\ <<affinity, pc>> \in faults' /\ faults \subseteq faults'
      BY <1>0, <2>1, <2>3
    <3>2. \A p \in Probes : HasFault(p)' <=> (HasFault(p) \/ p = pc)
      BY <1>0, <2>1, <2>3
    <3>3. \A p \in Probes : Faulty(p, Len(rows[p]))' <=> Faulty(p, Len(rows[p]))
      BY <2>1
    <3>4. \A p \in Probes : HasFault(p)' <=>
              Faulty(p, Len(rows[p]))' \/ (pc' = p /\ detections' # 0)
      BY <1>0, <2>1, <3>1, <3>2, <3>3
    <3>5. QED
      BY <2>1, <3>1, <3>4
  <2>4. QED
    BY <2>2, <2>3
<1>11. CASE FinishInterrupted
  <2>1. /\ Running /\ PushRow /\ pc' # pc /\ pc' # "dead"
        /\ UNCHANGED <<affinity, warned, by_chance, faults, platform>>
    BY <1>11 DEF FinishInterrupted, historyVars
  <2>2. FiledAt(rows')
    BY <2>1, <1>20
  <2>3. \A p \in Probes : HasFault(p)' <=> Faulty(p, Len(rows[p]))'
    BY <2>1, PushedFaults
  <2>4. QED
    BY <1>11, <2>1, <2>2, <2>3 DEF FinishInterrupted
<1>12. CASE FinishChThenRbx
  <2>1. /\ Running /\ PushRow /\ pc' # pc /\ pc' # "dead"
        /\ UNCHANGED <<affinity, warned, by_chance, faults, platform>>
    BY <1>12 DEF FinishChThenRbx, historyVars
  <2>2. FiledAt(rows')
    BY <2>1, <1>20
  <2>3. \A p \in Probes : HasFault(p)' <=> Faulty(p, Len(rows[p]))'
    BY <2>1, PushedFaults
  <2>4. QED
    BY <1>12, <2>1, <2>2, <2>3 DEF FinishChThenRbx, Begin
<1>13. CASE FinishCore
  <2>1. /\ Running /\ PushRow /\ pc' # pc /\ pc' # "dead"
        /\ UNCHANGED <<affinity, warned, by_chance, faults, platform>>
    BY <1>13 DEF FinishCore, historyVars
  <2>2. FiledAt(rows')
    BY <2>1, <1>20
  <2>3. \A p \in Probes : HasFault(p)' <=> Faulty(p, Len(rows[p]))'
    BY <2>1, PushedFaults
  <2>4. QED
    BY <1>13, <2>1, <2>2, <2>3 DEF FinishCore
<1>14. ASSUME NEW p \in Probes, SumRow(p) PROVE FaultsFiled'
  BY <1>14 DEF SumRow, contractVars, loopVars, historyVars
<1>15. CASE AllSummed
  BY <1>15 DEF AllSummed, contractVars, loopVars, historyVars
<1>16. CASE NothingTested
  BY <1>16 DEF NothingTested, contractVars, loopVars, historyVars
<1>17. CASE Report
  BY <1>17 DEF Report, contractVars, loopVars, historyVars
<1>18. CASE UNCHANGED vars
  BY <1>18 DEF vars, contractVars, loopVars, historyVars
<1>19. QED
  BY <1>1, <1>2, <1>3, <1>4, <1>5, <1>6, <1>7, <1>8, <1>9, <1>10, <1>11, <1>12,
     <1>13, <1>14, <1>15, <1>16, <1>17, <1>18 DEF Next, Program, Exited

(* The totals are zero exactly when the rows added up so far are.          *)
LEMMA SummedStep == BaseInv /\ Summed /\ [Next]_vars => Summed'
<1> SUFFICES ASSUME BaseInv, Summed, [Next]_vars PROVE Summed'
  OBVIOUS
<1>0. /\ pc \in {"calibrate", "check", "pin", "ch", "rbx", "sum", "verdict", "done", "dead"}
      /\ \A p \in Probes : Len(rows[p]) \in Nat
      /\ summed \in [Probes -> Nat] /\ totals \in [Probes -> Nat]
  BY DEF BaseInv, TypeOK
<1> USE DEF Summed, Running, Probes, Faulty
<1>20. ASSUME Running, PushRow, UNCHANGED <<summed, totals>>, pc' \notin {"verdict", "done"}
       PROVE  Summed'
  <2>1. ASSUME NEW p \in Probes
        PROVE  /\ summed'[p] <= Len(rows'[p])
               /\ totals'[p] # 0 <=> Faulty(p, summed[p])'
    <3>1. summed[p] \in Nat /\ summed[p] <= Len(rows[p])
      BY <1>0
    <3>2. summed[p] <= Len(rows'[p])
      BY <1>20, <3>1, PushedFaults
    <3>3. (\E i \in 1..summed[p] : rows'[p][i].detections # 0) <=> Faulty(p, summed[p])
      BY <1>20, <3>1, PushedFaults
    <3>4. QED
      BY <1>20, <3>2, <3>3
  <2>2. QED
    BY <1>20, <2>1
<1>1. CASE CtrlC
  BY <1>1 DEF CtrlC, loopVars, sumVars
<1>2. CASE Die
  BY <1>2 DEF Die, loopVars, sumVars
<1>3. CASE Calibrate
  BY <1>3 DEF Calibrate, sumVars
<1>4. CASE AllCoresVisited
  BY <1>4 DEF AllCoresVisited, loopVars, sumVars
<1>5. CASE StopBeforeCore
  BY <1>5 DEF StopBeforeCore, sumVars
<1>6. CASE GoOn
  BY <1>6 DEF GoOn, loopVars, sumVars
<1>7. CASE SkipCore
  BY <1>7 DEF SkipCore, sumVars
<1>8. ASSUME NEW confirmed \in BOOLEAN, EnterCore(confirmed) PROVE Summed'
  BY <1>8 DEF EnterCore, sumVars
<1>9. CASE RunLoop
  BY <1>9 DEF RunLoop, loopVars, sumVars
<1>10. ASSUME NEW faulty \in BOOLEAN, Measure(faulty) PROVE Summed'
  BY <1>10 DEF Measure, loopVars, sumVars
<1>11. CASE FinishInterrupted
  BY <1>11, <1>20 DEF FinishInterrupted, sumVars
<1>12. CASE FinishChThenRbx
  BY <1>12, <1>20 DEF FinishChThenRbx, sumVars
<1>13. CASE FinishCore
  BY <1>13, <1>20 DEF FinishCore, sumVars
<1>14. ASSUME NEW p \in Probes, SumRow(p) PROVE Summed'
  <2>1. rows[p][summed[p] + 1].detections \in Nat
    <3>1. rows[p] \in Seq(Row) /\ summed[p] \in Nat /\ summed[p] < Len(rows[p])
      BY <1>14 DEF BaseInv, TypeOK, SumRow
    <3>2. rows[p][summed[p] + 1] \in Row
      BY <3>1
    <3>3. QED
      BY <3>2 DEF Row
  <2>2. /\ UNCHANGED <<pc, rows>> /\ pc = "sum"
        /\ summed[p] < Len(rows[p])
        /\ summed' = [summed EXCEPT ![p] = summed[p] + 1]
        /\ totals' = [totals EXCEPT ![p] = totals[p] + rows[p][summed[p] + 1].detections]
    BY <1>14 DEF SumRow, loopVars
  <2>3. totals'[p] # 0 <=> Faulty(p, summed[p] + 1)
    <3>1. totals'[p] # 0 <=> totals[p] # 0 \/ rows[p][summed[p] + 1].detections # 0
      BY <1>0, <2>1, <2>2
    <3>2. QED
      BY <1>0, <3>1, FaultyPrefix
  <2>4. \A q \in Probes \ {p} : summed'[q] = summed[q] /\ totals'[q] = totals[q]
    BY <1>0, <2>2
  <2>5. summed'[p] = summed[p] + 1 /\ summed[p] \in Nat
    BY <1>0, <2>2
  <2>6. \A q \in Probes : totals'[q] # 0 <=> Faulty(q, summed[q])'
    BY <2>2, <2>3, <2>4, <2>5
  <2>7. QED
    BY <1>0, <2>2, <2>4, <2>5, <2>6
<1>15. CASE AllSummed
  BY <1>15 DEF AllSummed, loopVars, sumVars
<1>16. CASE NothingTested
  BY <1>16 DEF NothingTested, loopVars, sumVars
<1>17. CASE Report
  BY <1>17 DEF Report, loopVars, sumVars
<1>18. CASE UNCHANGED vars
  BY <1>18 DEF vars, loopVars, sumVars
<1>19. QED
  BY <1>1, <1>2, <1>3, <1>4, <1>5, <1>6, <1>7, <1>8, <1>9, <1>10, <1>11, <1>12,
     <1>13, <1>14, <1>15, <1>16, <1>17, <1>18 DEF Next, Program, Exited

(* Nothing is printed before the verdict, and the verdict is computed from *)
(* the totals that stand.                                                  *)
LEMMA PrintedStep == BaseInv /\ Printed /\ [Next]_vars => Printed'
<1> SUFFICES ASSUME BaseInv, Printed, [Next]_vars PROVE Printed'
  OBVIOUS
<1> USE DEF Printed
<1>1. CASE Report
  <2>1. UNCHANGED <<probes, rows, totals, interrupted, measured_cores>>
    BY <1>1 DEF Report, loopVars, sumVars
  <2>2. exit_code' = ExitCode'
    BY <1>1, <2>1 DEF Report, ExitCode
  <2>3. ASSUME NEW p \in Probes
        PROVE  verdict'[p] = Result(p)' /\ affected'[p] = AffectedCores(p)'
    BY <1>1, <2>1 DEF Report, Result, AffectedCores
  <2>4. QED
    BY <1>1, <2>1, <2>2, <2>3 DEF Report
<1>2. CASE NothingTested
  BY <1>2 DEF NothingTested, loopVars
<1>3. CASE pc # "done" /\ pc' # "done" /\ UNCHANGED endVars
  BY <1>3 DEF endVars
<1>4. CASE UNCHANGED vars
  <2>1. UNCHANGED <<pc, probes, rows, totals, interrupted, measured_cores,
                    verdict, affected, exit_code>>
    BY <1>4 DEF vars, loopVars, sumVars, endVars
  <2>2. UNCHANGED <<ExitCode, Result("ch"), Result("rbx"),
                    AffectedCores("ch"), AffectedCores("rbx")>>
    BY <2>1 DEF ExitCode, Result, AffectedCores
  <2>3. QED
    BY <2>1, <2>2 DEF Probes
<1>5. CASE CtrlC
  <2>1. UNCHANGED endVars /\ pc' = pc /\ pc # "done"
    BY <1>5 DEF CtrlC
  <2>2. QED
    BY <1>3, <2>1
<1>6. ASSUME NEW p \in Probes, SumRow(p) PROVE pc # "done" /\ pc' # "done" /\ UNCHANGED endVars
  BY <1>6 DEF SumRow
<1>7. CASE Calibrate \/ AllCoresVisited \/ StopBeforeCore \/ GoOn \/ SkipCore
  BY <1>3, <1>7 DEF Calibrate, AllCoresVisited, StopBeforeCore, GoOn, SkipCore
<1>8. ASSUME NEW confirmed \in BOOLEAN, EnterCore(confirmed) PROVE Printed'
  BY <1>3, <1>8 DEF EnterCore
<1>9. CASE RunLoop \/ (\E faulty \in BOOLEAN : Measure(faulty)) \/ Die
  BY <1>3, <1>9 DEF RunLoop, Measure, Die, Running, Probes
<1>10. CASE FinishInterrupted \/ FinishChThenRbx \/ FinishCore \/ AllSummed
  BY <1>3, <1>10 DEF FinishInterrupted, FinishChThenRbx, FinishCore, AllSummed, Running, Probes
<1>11. QED
  BY <1>1, <1>2, <1>3, <1>4, <1>5, <1>6, <1>7, <1>8, <1>9, <1>10 DEF Next, Program, Exited

(* The rows are those of cores main has passed, or of the one it is at.    *)
LEMMA RowsBehindStep == BaseInv /\ RowsBehind /\ [Next]_vars => RowsBehind'
<1> SUFFICES ASSUME BaseInv, RowsBehind, [Next]_vars PROVE RowsBehind'
  OBVIOUS
<1>0. /\ pc \in {"calibrate", "check", "pin", "ch", "rbx", "sum", "verdict", "done", "dead"}
      /\ n \in Nat
      /\ \A p \in Probes : Len(rows[p]) \in Nat
      /\ \A p \in Probes : \A i \in 1..Len(rows[p]) : rows[p][i].cpu \in Nat
  <2>1. \A p \in Probes : rows[p] \in Seq(Row)
    BY DEF BaseInv, TypeOK
  <2>2. \A p \in Probes : \A i \in 1..Len(rows[p]) : rows[p][i] \in Row
    BY <2>1
  <2>3. \A r \in Row : r.cpu \in Nat
    BY DEF Row, Cores
  <2>4. QED
    BY <2>1, <2>2, <2>3 DEF BaseInv, TypeOK
<1> USE DEF RowsBehind, Running, Probes
<1>20. ASSUME Running, PushRow, NEW p \in Probes, NEW i \in 1..Len(rows'[p])
       PROVE  /\ rows'[p][i].cpu <= n
              /\ p = "rbx" /\ pc = "ch" => rows'[p][i].cpu < n
  <2>1. CASE p = pc /\ i = Len(rows[p]) + 1
    BY <1>0, <1>20, <2>1, PushedRow DEF ThisRow
  <2>2. CASE ~(p = pc /\ i = Len(rows[p]) + 1)
    <3>1. rows'[p][i] = rows[p][i] /\ i \in 1..Len(rows[p])
      BY <1>20, <2>2, PushedRow
    <3>2. QED
      BY <1>0, <3>1
  <2>3. QED
    BY <2>1, <2>2
<1>1. CASE CtrlC
  BY <1>1 DEF CtrlC, loopVars
<1>2. CASE Die
  BY <1>2 DEF Die, loopVars
<1>3. CASE Calibrate
  BY <1>3 DEF Calibrate
<1>4. CASE AllCoresVisited
  BY <1>4 DEF AllCoresVisited, loopVars
<1>5. CASE StopBeforeCore
  BY <1>5 DEF StopBeforeCore
<1>6. CASE GoOn
  BY <1>6 DEF GoOn, loopVars
<1>7. CASE SkipCore
  BY <1>0, <1>7 DEF SkipCore
<1>8. ASSUME NEW confirmed \in BOOLEAN, EnterCore(confirmed) PROVE RowsBehind'
  BY <1>8 DEF EnterCore
<1>9. CASE RunLoop
  BY <1>9 DEF RunLoop, loopVars
<1>10. ASSUME NEW faulty \in BOOLEAN, Measure(faulty) PROVE RowsBehind'
  BY <1>10 DEF Measure, loopVars
<1>11. CASE FinishInterrupted
  BY <1>11, <1>20 DEF FinishInterrupted
<1>12. CASE FinishChThenRbx
  BY <1>12, <1>20 DEF FinishChThenRbx
<1>13. CASE FinishCore
  <2>1. n' = n + 1 /\ pc' = "check"
    BY <1>13 DEF FinishCore
  <2>2. ASSUME NEW p \in Probes, NEW i \in 1..Len(rows'[p])
        PROVE  rows'[p][i].cpu < n' /\ rows'[p][i].cpu <= n'
    <3>1. rows'[p][i].cpu <= n
      BY <1>13, <1>20 DEF FinishCore
    <3>2. rows'[p][i].cpu \in Nat
      <4>1. rows' \in [Probes -> Seq(Row)]
        BY <1>13, PushedRow DEF FinishCore
      <4>2. rows'[p][i] \in Row
        BY <4>1
      <4>3. QED
        BY <4>2 DEF Row, Cores
    <3>3. QED
      BY <1>0, <2>1, <3>1, <3>2
  <2>3. QED
    BY <2>1, <2>2
<1>14. ASSUME NEW p \in Probes, SumRow(p) PROVE RowsBehind'
  BY <1>14 DEF SumRow, loopVars
<1>15. CASE AllSummed
  BY <1>15 DEF AllSummed, loopVars
<1>16. CASE NothingTested
  BY <1>16 DEF NothingTested, loopVars
<1>17. CASE Report
  BY <1>17 DEF Report, loopVars
<1>18. CASE UNCHANGED vars
  BY <1>18 DEF vars, loopVars
<1>19. QED
  BY <1>1, <1>2, <1>3, <1>4, <1>5, <1>6, <1>7, <1>8, <1>9, <1>10, <1>11, <1>12,
     <1>13, <1>14, <1>15, <1>16, <1>17, <1>18 DEF Next, Program, Exited

(* Which cores are measured in full, before and after a row is added.      *)
LEMMA PushedMeasured ==
    ASSUME BaseInv, Running, PushRow, NEW c \in Cores, NEW p \in Probes
    PROVE  /\ Measured(c, p) => Measured(c, p)'
           /\ Measured(c, p)' => Measured(c, p) \/ (p = pc /\ ~run_interrupted)
           /\ p = pc /\ c = n /\ ~run_interrupted /\ rounds > 0 => Measured(c, p)'
<1>1. CASE p # pc
  <2>1. rows'[p] = rows[p]
    BY <1>1, PushedRow
  <2>2. QED
    BY <1>1, <2>1, Zenon DEF Measured
<1>2. CASE p = pc
  <2> DEFINE L == Len(rows[p])
  <2>1. L \in Nat /\ Len(rows'[p]) = L + 1
    BY <1>2, PushedRow
  <2>2. 1..Len(rows'[p]) = (1..L) \cup {L + 1}
    BY <2>1
  <2>3. \A i \in 1..L : rows'[p][i] = rows[p][i]
    BY <1>2, PushedRow
  <2>4. rows'[p][L + 1].cpu = n /\ rows'[p][L + 1].interrupted = run_interrupted
           /\ rows'[p][L + 1].rounds = rounds
    BY <1>2, PushedRow DEF ThisRow
  <2>5. Measured(c, p)' <=> Measured(c, p) \/ (n = c /\ ~run_interrupted /\ rounds > 0)
    BY <2>2, <2>3, <2>4, Zenon DEF Measured
  <2>6. QED
    BY <1>2, <2>5
<1>3. QED
  BY <1>1, <1>2

(* Every core main has passed was skipped or measured in full by every     *)
(* probe, and an interrupted sweep has one that was neither.               *)
LEMMA CoresBehindStep ==
    BaseInv /\ RowsBehind /\ CoresBehind /\ [Next]_vars => CoresBehind'
<1> SUFFICES ASSUME BaseInv, RowsBehind, CoresBehind, [Next]_vars PROVE CoresBehind'
  OBVIOUS
<1>0. /\ pc \in {"calibrate", "check", "pin", "ch", "rbx", "sum", "verdict", "done", "dead"}
      /\ n \in Nat /\ n >= 1 /\ measured_cores \in Nat
      /\ skipped_cores \subseteq Cores
      /\ probes \subseteq Probes /\ probes # {}
      /\ Running => pc \in probes /\ n \in Cores
      /\ pc = "pin" => n \in Cores
      /\ pc \notin {"sum", "verdict", "done"} => ~interrupted
  BY DEF BaseInv, TypeOK, Counted, Cores, Probes, Running
<1> USE DEF CoresBehind
(* Steps that leave the rows, the loop variable and the skipped cores be.  *)
<1>20. ASSUME UNCHANGED <<rows, n, skipped_cores, probes, interrupted, measured_cores>>,
              pc' = "rbx" => pc = "rbx" \/ "ch" \notin probes,
              measured_cores # 0 /\ Running /\ ~interrupted => Running' \/ pc' = "dead",
              pc # "dead"
       PROVE  CoresBehind'
  <2>1. \A c, p : Measured(c, p)' <=> Measured(c, p)
    BY <1>20 DEF Measured
  <2>2. QED
    BY <1>20, <2>1
<1>1. CASE CtrlC
  BY <1>1, <1>20 DEF CtrlC, loopVars, historyVars, Running
<1>2. CASE Die
  BY <1>2, <1>20 DEF Die, loopVars, historyVars, Running, Probes
<1>3. CASE Calibrate
  BY <1>3, <1>20 DEF Calibrate, historyVars, Running, Probes
<1>4. CASE AllCoresVisited
  BY <1>4, <1>20 DEF AllCoresVisited, loopVars, historyVars, Running, Probes
<1>5. CASE StopBeforeCore
  <2>1. UNCHANGED <<rows, n, skipped_cores, probes, measured_cores>> /\ pc = "check"
           /\ pc' = "sum" /\ interrupted'
    BY <1>5 DEF StopBeforeCore, historyVars
  <2>2. \A c, p : Measured(c, p)' <=> Measured(c, p)
    BY <2>1 DEF Measured
  <2>3. \A p \in Probes : ~Measured(n, p)
    BY <1>0, <2>1 DEF Measured, RowsBehind
  <2>4. QED
    BY <1>0, <2>1, <2>2, <2>3
<1>6. CASE GoOn
  BY <1>6, <1>20 DEF GoOn, loopVars, historyVars, Running, Probes
<1>7. CASE SkipCore
  <2>1. /\ UNCHANGED <<rows, probes, interrupted, measured_cores>>
        /\ n' = n + 1 /\ skipped_cores' = skipped_cores \cup {n}
        /\ pc = "pin" /\ pc' = "check"
    BY <1>7 DEF SkipCore
  <2>2. \A c, p : Measured(c, p)' <=> Measured(c, p)
    BY <2>1 DEF Measured
  <2>3. \A c \in skipped_cores' : c < n'
    BY <1>0, <2>1 DEF Cores
  <2>4. \A c \in Cores : c < n' /\ c \notin skipped_cores' => c < n /\ c \notin skipped_cores
    BY <1>0, <2>1 DEF Cores
  <2>5. \A c \in Cores : c < n /\ c \notin skipped_cores => c < n' /\ c \notin skipped_cores'
    BY <1>0, <2>1 DEF Cores
  <2>6. ~Running /\ ~interrupted /\ pc # "dead"
    BY <1>0, <2>1 DEF Running, Probes
  <2>7. QED
    BY <2>1, <2>2, <2>3, <2>4, <2>5, <2>6
<1>8. ASSUME NEW confirmed \in BOOLEAN, EnterCore(confirmed) PROVE CoresBehind'
  <2>1. /\ UNCHANGED <<rows, n, skipped_cores, probes, interrupted>>
        /\ pc' = (IF "ch" \in probes THEN "ch" ELSE "rbx") /\ pc = "pin"
    BY <1>8 DEF EnterCore
  <2>2. \A c, p : Measured(c, p)' <=> Measured(c, p)
    BY <2>1 DEF Measured
  <2>3. Running' /\ ~interrupted
    BY <1>0, <2>1 DEF Running, Probes
  <2>4. QED
    BY <2>1, <2>2, <2>3
<1>9. CASE RunLoop
  BY <1>9, <1>20 DEF RunLoop, loopVars, historyVars, Running, Probes
<1>10. ASSUME NEW faulty \in BOOLEAN, Measure(faulty) PROVE CoresBehind'
  BY <1>10, <1>20 DEF Measure, loopVars, Running, Probes
(* A row added keeps the cores behind measured.                            *)
<1>21. ASSUME Running, PushRow, NEW c \in Cores, c < n, c \notin skipped_cores, NEW p \in probes
       PROVE  Measured(c, p)'
  BY <1>0, <1>21, PushedMeasured
<1>11. CASE FinishInterrupted
  <2>1. /\ UNCHANGED <<n, skipped_cores, probes, measured_cores>>
        /\ Running /\ PushRow /\ run_interrupted /\ pc' = "sum" /\ interrupted'
    BY <1>11 DEF FinishInterrupted, historyVars
  <2>2. ~Measured(n, pc)
    BY <1>0, <2>1 DEF Measured, RowsBehind, Running, Probes
  <2>3. ASSUME NEW c \in Cores, NEW p \in probes, c = n, p = pc PROVE ~Measured(c, p)'
    BY <1>0, <2>1, <2>2, <2>3, PushedMeasured
  <2>4. \A c \in Cores : c < n /\ c \notin skipped_cores => \A p \in probes : Measured(c, p)'
    BY <2>1, <1>21
  <2>5. \E p \in probes : ~Measured(n, p)'
    BY <1>0, <2>1, <2>3
  <2>6. QED
    BY <2>1, <2>4, <2>5
<1>12. CASE FinishChThenRbx
  <2>1. /\ UNCHANGED <<n, skipped_cores, probes, interrupted, measured_cores>>
        /\ pc = "ch" /\ Running /\ PushRow /\ ~run_interrupted /\ at = "ended" /\ pc' = "rbx"
    BY <1>12 DEF FinishChThenRbx, historyVars, Running, Probes
  <2>2. rounds > 0
    BY <2>1 DEF BaseInv, RunInv
  <2>3. ASSUME NEW c \in Cores, c = n PROVE Measured(c, "ch")'
    BY <1>0, <2>1, <2>2, <2>3, PushedMeasured DEF Running
  <2>4. \A c \in Cores : c < n /\ c \notin skipped_cores => \A p \in probes : Measured(c, p)'
    BY <2>1, <1>21
  <2>5. Running' /\ ~interrupted
    BY <1>0, <2>1 DEF Running, Probes
  <2>6. QED
    BY <1>0, <2>1, <2>3, <2>4, <2>5
<1>13. CASE FinishCore
  <2>1. /\ UNCHANGED <<skipped_cores, probes, interrupted, measured_cores>>
        /\ n' = n + 1 /\ pc' = "check" /\ pc \in Probes
        /\ Running /\ PushRow /\ ~run_interrupted /\ at = "ended"
        /\ pc = "ch" => "rbx" \notin probes
    BY <1>13 DEF FinishCore, historyVars, Running
  <2>2. rounds > 0
    BY <2>1 DEF BaseInv, RunInv
  <2>3. n \in Cores /\ pc \in probes
    BY <1>0, <2>1
  <2>4. ASSUME NEW c \in Cores, c = n, NEW p \in probes PROVE Measured(c, p)'
    <3>1. CASE p = pc
      BY <1>0, <2>1, <2>2, <2>4, <3>1, PushedMeasured
    <3>2. CASE p # pc
      <4>1. p = "ch" /\ pc = "rbx"
        BY <1>0, <2>1, <3>2 DEF Probes
      <4>2. Measured(c, p)
        BY <2>4, <4>1
      <4>3. QED
        BY <1>0, <2>1, <4>2, PushedMeasured
    <3>3. QED
      BY <3>1, <3>2
  <2>5. \A c \in Cores : c < n /\ c \notin skipped_cores => \A p \in probes : Measured(c, p)'
    BY <2>1, <1>21
  <2>6. n \in Cores /\ n < n' /\ n \notin skipped_cores
    BY <1>0, <2>1
  <2>7. \A c \in Cores : c < n' => c < n \/ c = n
    BY <1>0, <2>1 DEF Cores
  <2>8. \A c \in skipped_cores : c < n'
    BY <1>0, <2>1 DEF Cores
  <2>9. \A c \in Cores : c < n' /\ c \notin skipped_cores => \A p \in probes : Measured(c, p)'
    BY <2>4, <2>5, <2>7
  <2>10. ~interrupted
    BY <1>0, <2>1 DEF Running, Probes
  <2>11. QED
    BY <2>1, <2>6, <2>8, <2>9, <2>10
<1>14. ASSUME NEW p \in Probes, SumRow(p) PROVE CoresBehind'
  BY <1>14, <1>20 DEF SumRow, loopVars, historyVars, Running, Probes
<1>15. CASE AllSummed
  BY <1>15, <1>20 DEF AllSummed, loopVars, historyVars, Running, Probes
<1>16. CASE NothingTested
  BY <1>16, <1>20 DEF NothingTested, loopVars, historyVars, Running, Probes
<1>17. CASE Report
  BY <1>17, <1>20 DEF Report, loopVars, historyVars, Running, Probes
<1>18. CASE UNCHANGED vars
  BY <1>18 DEF vars, loopVars, historyVars, Running, Measured
<1>19. QED
  BY <1>1, <1>2, <1>3, <1>4, <1>5, <1>6, <1>7, <1>8, <1>9, <1>10, <1>11, <1>12,
     <1>13, <1>14, <1>15, <1>16, <1>17, <1>18 DEF Next, Program, Exited

-----------------------------------------------------------------------------
(* The inductive invariant.                                                *)
IInv == /\ BaseInv /\ RowsCounted /\ FaultsFiled /\ Summed /\ Printed
        /\ RowsBehind /\ CoresBehind

(* The inductive invariant holds throughout main's loop over the cores,    *)
(* its totals and its verdict (lines 1330-1669); the theorems below read   *)
(* their properties off it.                                                *)
THEOREM SweepInvariant == Spec => []IInv
<1>1. Init => IInv
  <2> SUFFICES ASSUME Init PROVE IInv
    OBVIOUS
  <2>1. BaseInv
    BY BaseInit
  <2>2. /\ pc \in {"calibrate", "check"} /\ n = 1 /\ measured_cores = 0
        /\ \A p \in Probes : rows[p] = <<>> /\ Len(rows[p]) = 0
        /\ \A p \in Probes : summed[p] = 0 /\ totals[p] = 0
        /\ \A p \in Probes : verdict[p] = "none" /\ affected[p] = {}
        /\ faults = {} /\ skipped_cores = {} /\ exit_code = NotExited
        /\ detections = 0
    BY DEF Init, ContractInit
  <2>3. ~interrupted
    BY DEF Init
  <2>4. probes \subseteq Probes
    BY DEF Init, Probes
  <2>5. RowsCounted
    BY <2>2, <2>4 DEF RowsCounted
  <2>6. FaultsFiled
    BY <2>2 DEF FaultsFiled, Faulty, HasFault, Running, Probes
  <2>7. Summed
    BY <2>2 DEF Summed, Faulty
  <2>8. Printed
    BY <2>2 DEF Printed
  <2>9. RowsBehind
    BY <2>2 DEF RowsBehind, Probes
  <2>10. CoresBehind
    BY <2>2, <2>3 DEF CoresBehind, Cores
  <2>11. QED
    BY <2>1, <2>5, <2>6, <2>7, <2>8, <2>9, <2>10 DEF IInv
<1>2. IInv /\ [Next]_vars => IInv'
  BY BaseStep, RowsStep, FaultsStep, SummedStep, PrintedStep, RowsBehindStep,
     CoresBehindStep DEF IInv
<1>3. QED
  BY <1>1, <1>2, PTL DEF Spec

(* Every variable of the sweep keeps its type: in particular main never    *)
(* indexes a core beyond `selected`.                                       *)
THEOREM SweepTypeCorrect == Spec => []TypeOK
<1>1. IInv => TypeOK
  BY DEF IInv, BaseInv
<1>2. QED
  BY <1>1, SweepInvariant, PTL

(* No detection is lost between a round and the exit code (lines 594-603,  *)
(* 1441-1481 and 1662-1668): a fault on any core is what the program ends  *)
(* with, and what it ends with is a fault.                                 *)
THEOREM SweepDetectionIsNeverLost == Spec => []DetectionIsNeverLost
<1>1. IInv => DetectionIsNeverLost
  <2> SUFFICES ASSUME IInv, pc = "done"
               PROVE  /\ exit_code = k_exit_detected <=> faults # {}
                      /\ \A p \in Probes : verdict[p] = "detected" <=> HasFault(p)
    BY DEF DetectionIsNeverLost, HasFault
  <2>1. \A p \in Probes : HasFault(p) <=> totals[p] # 0
    BY DEF IInv, FaultsFiled, Summed, Probes
  <2>2. faults # {} <=> \E p \in Probes : HasFault(p)
    <3>1. faults \subseteq (Cores \cup {Nowhere}) \X Probes
      BY DEF IInv, BaseInv, TypeOK
    <3>2. ASSUME faults # {} PROVE \E p \in Probes : HasFault(p)
      <4>1. PICK f \in faults : TRUE
        BY <3>2
      <4>2. PICK c \in Cores \cup {Nowhere}, p \in Probes : f = <<c, p>>
        BY <3>1, <4>1
      <4>3. QED
        BY <4>1, <4>2 DEF HasFault
    <3>3. QED
      BY <3>2 DEF HasFault
  <2>3. \A p \in Probes : p \notin probes => totals[p] = 0
    BY DEF IInv, RowsCounted, Summed, Faulty
  <2>4. CASE measured_cores = 0
    <3>1. \A p \in Probes : totals[p] = 0
      BY <2>4 DEF IInv, RowsCounted, Summed, Faulty
    <3>2. QED
      BY <2>1, <2>2, <2>4, <3>1 DEF IInv, Printed, k_exit_detected, k_exit_usage
  <2>5. CASE measured_cores # 0
    <3>1. /\ exit_code = ExitCode
          /\ \A p \in Probes : verdict[p] = Result(p)
      BY <2>5 DEF IInv, Printed
    <3>2. exit_code = k_exit_detected <=> \E p \in Probes : totals[p] # 0
      BY <3>1 DEF ExitCode, k_exit_detected, k_exit_interrupted, k_exit_clean
    <3>3. \A p \in Probes : verdict[p] = "detected" <=> totals[p] # 0
      BY <2>3, <3>1 DEF Result
    <3>4. QED
      BY <2>1, <2>2, <3>2, <3>3
  <2>6. QED
    BY <2>4, <2>5
<1>2. QED
  BY <1>1, SweepInvariant, PTL

(* A core listed as affected (lines 1595-1602) that carries no pinning     *)
(* warning is a core on which a round went wrong under that probe, or, on  *)
(* Windows, one whose pin was confirmed by chance before such a round.     *)
THEOREM SweepNoWrongBlame == Spec => []NoWrongBlame
<1>1. IInv => NoWrongBlame
  <2> SUFFICES ASSUME IInv, NEW p \in Probes, NEW c \in affected[p] \ warned
               PROVE  Filed(c, p)
    BY DEF NoWrongBlame, Filed
  <2>1. affected[p] = AffectedCores(p)
    BY DEF IInv, Printed
  <2>2. PICK i \in 1..Len(rows[p]) : rows[p][i].detections # 0 /\ rows[p][i].cpu = c
    BY <2>1 DEF AffectedCores
  <2>3. QED
    BY <2>2 DEF IInv, FaultsFiled
<1>2. QED
  BY <1>1, SweepInvariant, PTL

(* Exit code 0 is only returned after a complete sweep of every core that  *)
(* could be pinned, at least one of them, without a single fault.          *)
THEOREM SweepCleanMeansComplete == Spec => []CleanMeansComplete
<1>1. IInv /\ DetectionIsNeverLost => CleanMeansComplete
  <2> SUFFICES ASSUME IInv, DetectionIsNeverLost, exit_code = k_exit_clean
               PROVE  /\ \A c \in Cores \ skipped_cores, p \in probes : Measured(c, p)
                      /\ skipped_cores # Cores
                      /\ faults = {}
    BY DEF CleanMeansComplete
  <2>1. pc = "done" /\ measured_cores # 0 /\ exit_code = ExitCode
    BY DEF IInv, Printed, NotExited, k_exit_clean, k_exit_usage
  <2>2. ~interrupted
    BY <2>1 DEF ExitCode, k_exit_clean, k_exit_detected, k_exit_interrupted
  <2>3. n = NCores + 1
    BY <2>1, <2>2 DEF IInv, BaseInv, Counted
  <2>4. \A c \in Cores : c < n
    BY <2>3 DEF Cores
  <2>5. \A c \in Cores \ skipped_cores, p \in probes : Measured(c, p)
    BY <2>4 DEF IInv, CoresBehind
  <2>6. \E c \in Cores : c \notin skipped_cores
    BY <2>1, <2>2 DEF IInv, CoresBehind, Running, Probes
  <2>7. faults = {}
    BY <2>1 DEF DetectionIsNeverLost, k_exit_clean, k_exit_detected
  <2>8. QED
    BY <2>5, <2>6, <2>7
<1>2. QED
  BY <1>1, SweepInvariant, SweepDetectionIsNeverLost, PTL

(* Exit code 4 is only returned when the user interrupted the sweep,       *)
(* nothing was found, and some core was indeed not measured in full.       *)
THEOREM SweepInterruptedMeansPartial == Spec => []InterruptedMeansPartial
<1>1. IInv /\ DetectionIsNeverLost => InterruptedMeansPartial
  <2> SUFFICES ASSUME IInv, DetectionIsNeverLost, exit_code = k_exit_interrupted
               PROVE  /\ g_interrupt
                      /\ faults = {}
                      /\ \E c \in Cores \ skipped_cores, p \in probes : ~Measured(c, p)
    BY DEF InterruptedMeansPartial
  <2>1. pc = "done" /\ exit_code = ExitCode
    BY DEF IInv, Printed, NotExited, k_exit_interrupted, k_exit_usage
  <2>2. interrupted
    BY <2>1 DEF ExitCode, k_exit_clean, k_exit_detected, k_exit_interrupted
  <2>3. g_interrupt /\ n \in Cores
    BY <2>2 DEF IInv, BaseInv, TypeOK, Counted, Cores
  <2>4. n \notin skipped_cores
    BY <2>3 DEF IInv, CoresBehind, Cores
  <2>5. \E p \in probes : ~Measured(n, p)
    BY <2>2 DEF IInv, CoresBehind
  <2>6. faults = {}
    BY <2>1 DEF DetectionIsNeverLost, k_exit_interrupted, k_exit_detected
  <2>7. QED
    BY <2>3, <2>4, <2>5, <2>6
<1>2. QED
  BY <1>1, SweepInvariant, SweepDetectionIsNeverLost, PTL

(* After a sweep nobody interrupted, measured and skipped cores add up to  *)
(* the cores selected, and every probe has a row for every measured core.  *)
THEOREM SweepEveryCoreAccountedFor == Spec => []EveryCoreAccountedFor
<1>1. IInv => EveryCoreAccountedFor
  BY DEF IInv, BaseInv, Counted, RowsCounted, EveryCoreAccountedFor
<1>2. QED
  BY <1>1, SweepInvariant, PTL

=============================================================================
