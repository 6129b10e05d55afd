------------------------------- MODULE Sweep -------------------------------
(***************************************************************************)
(* main from the calibration to the exit code: the loop over the selected  *)
(* cores, the totals, the verdicts and the exit status.  The runs          *)
(* themselves follow RunContract, whose steps are interleaved here with    *)
(* main's, with the Ctrl+C handler and with the hardware: any round may go *)
(* wrong, and a round on a broken core may take the process down.          *)
(*                                                                         *)
(* Cores are numbered by their position in `selected`.                     *)
(***************************************************************************)
EXTENDS RunContract, Sequences, FiniteSets

CONSTANTS
    NCores,            \* selected.size()
    ProbeChoices,      \* the values `probes` may have
    Platforms,         \* of "linux", "windows"
    LoosePins          \* whether the system may honour a pin loosely

ASSUME NCoresAssumption == NCores \in Nat \ {0}
ASSUME ProbesAssumption == ProbeChoices \subseteq (SUBSET {"ch", "rbx"}) \ {{}}
ASSUME PlatformsAssumption == Platforms \subseteq {"linux", "windows"}
ASSUME LoosePinsAssumption == LoosePins \in BOOLEAN

k_exit_clean == 0
k_exit_detected == 1
k_exit_usage == 2
k_exit_interrupted == 4
NotExited == 5         \* main has not returned

Cores == 1..NCores
Nowhere == 0           \* the thread is not bound to any one selected core
Probes == {"ch", "rbx"}
Row == [cpu : Cores, rounds : 0..MaxRounds, detections : 0..MaxRounds,
        interrupted : BOOLEAN]

VARIABLES
    pc,
    platform,
    probes,
    n,                 \* the loop variable, from 1
    affinity,          \* the selected core the thread is really bound to
    skipped, measured_cores, interrupted,
    rows,              \* results and rbx_results
    summed,            \* how many rows of each have been added up
    totals,            \* total_detections and rbx_total_detections
    verdict,           \* the RESULT line of each probe
    affected,          \* the cores listed under it
    exit_code,
    \* history, read by the properties only
    skipped_cores,
    warned,            \* cores whose pinning was not confirmed
    by_chance,         \* cores confirmed although the thread was not bound there
    faults             \* <<core the thread was bound to, probe>> of faulty rounds

loopVars == <<n, affinity, skipped, measured_cores, interrupted, rows>>
sumVars == <<summed, totals>>
endVars == <<verdict, affected, exit_code>>
historyVars == <<skipped_cores, warned, by_chance, faults>>
settings == <<platform, probes>>
vars == <<contractVars, pc, settings, loopVars, sumVars, endVars, historyVars>>

TypeOK ==
    /\ ContractTypeOK
    /\ pc \in {"calibrate", "check", "pin", "ch", "rbx",
               "sum", "verdict", "done", "dead"}
    /\ platform \in Platforms
    /\ probes \in ProbeChoices
    /\ n \in 1..NCores + 1
    /\ affinity \in Cores \cup {Nowhere}
    /\ skipped \in 0..NCores
    /\ measured_cores \in 0..NCores
    /\ interrupted \in BOOLEAN
    /\ rows \in [Probes -> Seq(Row)]
    /\ summed \in [Probes -> Nat]
    /\ totals \in [Probes -> Nat]
    /\ verdict \in [Probes -> {"none", "detected", "interrupted", "clean"}]
    /\ affected \in [Probes -> SUBSET Cores]
    /\ exit_code \in {k_exit_clean, k_exit_detected, k_exit_usage,
                     k_exit_interrupted, NotExited}
    /\ skipped_cores \subseteq Cores
    /\ warned \subseteq Cores
    /\ by_chance \subseteq Cores
    /\ faults \subseteq (Cores \cup {Nowhere}) \X Probes

Init ==
    /\ ContractInit
    /\ platform \in Platforms
    /\ probes \in ProbeChoices
    /\ pc = IF "ch" \in probes THEN "calibrate" ELSE "check"
    /\ n = 1
    /\ affinity = Nowhere
    /\ skipped = 0 /\ measured_cores = 0 /\ interrupted = FALSE
    /\ rows = [p \in Probes |-> <<>>]
    /\ summed = [p \in Probes |-> 0]
    /\ totals = [p \in Probes |-> 0]
    /\ verdict = [p \in Probes |-> "none"]
    /\ affected = [p \in Probes |-> {}]
    /\ exit_code = NotExited
    /\ skipped_cores = {} /\ warned = {} /\ by_chance = {} /\ faults = {}

-----------------------------------------------------------------------------
(* sdc_pin_to_cpu: where the thread can be bound after the call succeeded. *)
PinnedPlaces(c) == {c} \cup (IF LoosePins THEN Cores \cup {Nowhere} ELSE {})

(* The handler stays installed until the process ends.                     *)
CtrlC ==
    /\ pc \notin {"done", "dead"}
    /\ Interrupt
    /\ UNCHANGED <<pc, settings, loopVars, sumVars, endVars, historyVars>>

(* The calibration runs wherever the pin to the first core left the        *)
(* thread: its result is not looked at.                                    *)
Calibrate ==
    /\ pc = "calibrate"
    /\ pc' = "check"
    /\ affinity' \in PinnedPlaces(1) \cup {affinity}
    /\ UNCHANGED <<contractVars, settings, n, skipped, measured_cores, interrupted,
                   rows, sumVars, endVars, historyVars>>

(* The top of the loop.                                                    *)
AllCoresVisited ==
    /\ pc = "check"
    /\ n > NCores
    /\ pc' = "sum"
    /\ UNCHANGED <<contractVars, settings, loopVars, sumVars, endVars, historyVars>>

StopBeforeCore_Unmarked ==
    /\ pc = "check"
    /\ n <= NCores
    /\ g_interrupt
    /\ pc' = "sum"
    /\ UNCHANGED <<contractVars, settings, loopVars, sumVars, endVars, historyVars>>
StopBeforeCore ==
    /\ pc = "check"
    /\ n <= NCores
    /\ g_interrupt
    /\ interrupted' = TRUE
    /\ pc' = "sum"
    /\ UNCHANGED <<contractVars, settings, n, affinity, skipped, measured_cores,
                   rows, sumVars, endVars, historyVars>>

GoOn_Unbounded ==
    /\ pc = "check"
    /\ ~g_interrupt
    /\ pc' = "pin"
    /\ UNCHANGED <<contractVars, settings, loopVars, sumVars, endVars, historyVars>>
GoOn ==
    /\ pc = "check"
    /\ n <= NCores
    /\ ~g_interrupt
    /\ pc' = "pin"
    /\ UNCHANGED <<contractVars, settings, loopVars, sumVars, endVars, historyVars>>

(* The thread stays bound to the core before, and the core is passed over. *)
SkipCore_Uncounted ==
    /\ pc = "pin"
    /\ skipped_cores' = skipped_cores \cup {n}
    /\ n' = n + 1
    /\ pc' = "check"
    /\ UNCHANGED <<contractVars, settings, affinity, skipped, measured_cores, interrupted,
                   rows, sumVars, endVars, warned, by_chance, faults>>
SkipCore_Retry ==
    /\ pc = "pin"
    /\ pc' = "check"
    /\ UNCHANGED <<contractVars, settings, loopVars, sumVars, endVars, historyVars>>
SkipCore ==
    /\ pc = "pin"
    /\ skipped' = skipped + 1
    /\ skipped_cores' = skipped_cores \cup {n}
    /\ n' = n + 1
    /\ pc' = "check"
    /\ UNCHANGED <<contractVars, settings, affinity, measured_cores, interrupted,
                   rows, sumVars, endVars, warned, by_chance, faults>>

(* sdc_verify_pin: the bindings under which it can confirm core c.  Linux  *)
(* reads the mask back.  Windows only asks which processor the thread is   *)
(* on at the moment, and a thread that is not bound may happen to be there.*)
LinuxConfirms(c) == {c}
WindowsConfirms(c) == {c, Nowhere}
Confirms(c) == IF platform = "linux" THEN LinuxConfirms(c) ELSE WindowsConfirms(c)

(* Pinned, and verified: the verification may fail to confirm a good pin,  *)
(* too (sched_getaffinity fails).  The first probe's run begins.           *)
EnterCore_NoWarning(confirmed) ==
    /\ pc = "pin"
    /\ affinity' \in PinnedPlaces(n)
    /\ measured_cores' = measured_cores + 1
    /\ pc' = IF "ch" \in probes THEN "ch" ELSE "rbx"
    /\ Begin
    /\ UNCHANGED <<settings, n, skipped, interrupted, rows, sumVars, endVars, historyVars>>
EnterCore(confirmed) ==
    /\ pc = "pin"
    /\ affinity' \in PinnedPlaces(n)
    /\ confirmed => affinity' \in Confirms(n)
    /\ warned' = IF confirmed THEN warned ELSE warned \cup {n}
    /\ by_chance' = IF confirmed /\ affinity' # n THEN by_chance \cup {n} ELSE by_chance
    /\ measured_cores' = measured_cores + 1
    /\ pc' = IF "ch" \in probes THEN "ch" ELSE "rbx"
    /\ Begin
    /\ UNCHANGED <<settings, n, skipped, interrupted, rows, sumVars, endVars,
                   skipped_cores, faults>>

-----------------------------------------------------------------------------
(* Steps inside a run.                                                     *)
Running == pc \in Probes

RunLoop ==
    /\ Running
    /\ Poll \/ Stop \/ Expire
    /\ UNCHANGED <<pc, settings, loopVars, sumVars, endVars, historyVars>>

Measure(faulty) ==
    /\ Running
    /\ Round(faulty)
    /\ faults' = IF faulty THEN faults \cup {<<affinity, pc>>} ELSE faults
    /\ UNCHANGED <<pc, settings, loopVars, sumVars, endVars,
                   skipped_cores, warned, by_chance>>

(* A fault nothing can recover from, in the middle of a round.             *)
Die ==
    /\ Running
    /\ at = "measuring"
    /\ pc' = "dead"
    /\ UNCHANGED <<contractVars, settings, loopVars, sumVars, endVars, historyVars>>

PushRow == rows' = [rows EXCEPT ![pc] =
    Append(@, [cpu |-> n, rounds |-> rounds, detections |-> detections,
               interrupted |-> run_interrupted])]

(* The run of one probe has returned: an interrupted one ends the sweep,   *)
(* ch is followed by rbx on the same core, and then comes the next core.   *)
FinishInterrupted ==
    /\ Running
    /\ at = "ended"
    /\ run_interrupted
    /\ PushRow
    /\ interrupted' = TRUE
    /\ pc' = "sum"
    /\ UNCHANGED <<contractVars, settings, n, affinity, skipped, measured_cores,
                   sumVars, endVars, historyVars>>

FinishChThenRbx ==
    /\ pc = "ch"
    /\ at = "ended"
    /\ ~run_interrupted
    /\ "rbx" \in probes
    /\ PushRow
    /\ pc' = "rbx"
    /\ Begin
    /\ UNCHANGED <<settings, n, affinity, skipped, measured_cores, interrupted,
                   sumVars, endVars, historyVars>>

FinishCore_StopIfAsked ==
    /\ Running
    /\ at = "ended"
    /\ ~run_interrupted
    /\ pc = "ch" => "rbx" \notin probes
    /\ PushRow
    /\ interrupted' = g_interrupt
    /\ n' = n + 1
    /\ pc' = IF g_interrupt THEN "sum" ELSE "check"
    /\ UNCHANGED <<contractVars, settings, affinity, skipped, measured_cores,
                   sumVars, endVars, historyVars>>
FinishCore ==
    /\ Running
    /\ at = "ended"
    /\ ~run_interrupted
    /\ pc = "ch" => "rbx" \notin probes
    /\ PushRow
    /\ n' = n + 1
    /\ pc' = "check"
    /\ UNCHANGED <<contractVars, settings, affinity, skipped, measured_cores,
                   interrupted, sumVars, endVars, historyVars>>

-----------------------------------------------------------------------------
(* The totals, one row at a time, the ch rows first.                       *)
SumRow(p) ==
    /\ pc = "sum"
    /\ p = "rbx" => summed.ch = Len(rows.ch)
    /\ summed[p] < Len(rows[p])
    /\ summed' = [summed EXCEPT ![p] = @ + 1]
    /\ totals' = [totals EXCEPT ![p] = @ + rows[p][summed[p] + 1].detections]
    /\ UNCHANGED <<contractVars, pc, settings, loopVars, endVars, historyVars>>

AllSummed ==
    /\ pc = "sum"
    /\ \A p \in Probes : summed[p] = Len(rows[p])
    /\ pc' = "verdict"
    /\ UNCHANGED <<contractVars, settings, loopVars, sumVars, endVars, historyVars>>

NothingTested ==
    /\ pc = "verdict"
    /\ measured_cores = 0
    /\ exit_code' = k_exit_usage
    /\ pc' = "done"
    /\ UNCHANGED <<contractVars, settings, loopVars, sumVars, verdict, affected, historyVars>>

Result(p) ==
    IF p \notin probes THEN "none"
    ELSE IF totals[p] # 0 THEN "detected"
    ELSE IF interrupted THEN "interrupted"
    ELSE "clean"

ExitCode_InterruptFirst ==
    IF interrupted THEN k_exit_interrupted
    ELSE IF \E p \in Probes : totals[p] # 0 THEN k_exit_detected
    ELSE k_exit_clean
ExitCode ==
    IF \E p \in Probes : totals[p] # 0 THEN k_exit_detected
    ELSE IF interrupted THEN k_exit_interrupted
    ELSE k_exit_clean

AffectedCores(p) ==
    {rows[p][i].cpu : i \in {j \in 1..Len(rows[p]) : rows[p][j].detections # 0}}

Report ==
    /\ pc = "verdict"
    /\ measured_cores # 0
    /\ verdict' = [p \in Probes |-> Result(p)]
    /\ affected' = [p \in Probes |-> AffectedCores(p)]
    /\ exit_code' = ExitCode
    /\ pc' = "done"
    /\ UNCHANGED <<contractVars, settings, loopVars, sumVars, historyVars>>

(* The process is gone.                                                    *)
Exited == pc \in {"done", "dead"} /\ UNCHANGED vars

Program ==
    \/ Calibrate
    \/ AllCoresVisited \/ StopBeforeCore \/ GoOn
    \/ SkipCore \/ \E confirmed \in BOOLEAN : EnterCore(confirmed)
    \/ RunLoop \/ \E faulty \in BOOLEAN : Measure(faulty)
    \/ FinishInterrupted \/ FinishChThenRbx \/ FinishCore
    \/ \E p \in Probes : SumRow(p)
    \/ AllSummed \/ NothingTested \/ Report

Next == CtrlC \/ Die \/ Program \/ Exited

(* The program keeps running.  Nothing obliges the user to press Ctrl+C or *)
(* the hardware to fail.                                                   *)
Spec == Init /\ [][Next]_vars /\ WF_vars(Program)

-----------------------------------------------------------------------------
(* Core c was measured by probe p for the whole of its time.               *)
Measured(c, p) ==
    \E i \in 1..Len(rows[p]) :
        /\ rows[p][i].cpu = c
        /\ ~rows[p][i].interrupted
        /\ rows[p][i].rounds > 0

(* "0: clean, sweep completed".  Exit code 0 means that every selected     *)
(* core that could be pinned was measured in full by every probe asked     *)
(* for, that there was at least one, and that no round went wrong.         *)
CleanMeansComplete ==
    exit_code = k_exit_clean =>
        /\ \A c \in Cores \ skipped_cores, p \in probes : Measured(c, p)
        /\ skipped_cores # Cores
        /\ faults = {}

(* "1: fault detected".  A report that is printed says so exactly when     *)
(* some round of some core went wrong: no later clean core, skipped core   *)
(* or interrupt hides an earlier detection.                                *)
DetectionIsNeverLost ==
    pc = "done" =>
        /\ exit_code = k_exit_detected <=> faults # {}
        /\ \A p \in Probes :
              verdict[p] = "detected" <=> \E c \in Cores \cup {Nowhere} : <<c, p>> \in faults

(* "silently writing a core number into the report when the work ran       *)
(* elsewhere is exactly the case where a report misleads".  A core listed  *)
(* as affected without a pinning warning beside it is a core on which a    *)
(* round really went wrong under that probe: the fault is not that of a    *)
(* core visited before or after, or of a pin that went elsewhere.  The one *)
(* exception is Windows' way of verifying: a thread that was not bound was *)
(* seen on that core once, and a round of it went wrong wherever it ran.   *)
NoWrongBlame ==
    \A p \in Probes : \A c \in affected[p] \ warned :
        \/ <<c, p>> \in faults
        \/ /\ platform = "windows" /\ c \in by_chance
           /\ <<Nowhere, p>> \in faults

(* "4: interrupted before finishing, nothing found".                       *)
InterruptedMeansPartial ==
    exit_code = k_exit_interrupted =>
        /\ g_interrupt
        /\ faults = {}
        /\ \E c \in Cores \ skipped_cores, p \in probes : ~Measured(c, p)

(* "cores tested: A of B (skipped C)".  After a sweep that was not         *)
(* interrupted every selected core is accounted for, for every probe.      *)
EveryCoreAccountedFor ==
    pc \in {"sum", "verdict", "done"} /\ ~interrupted =>
        /\ measured_cores + skipped = NCores
        /\ \A p \in probes : Len(rows[p]) = measured_cores

(* The program reaches its exit code, or dies on the way.                  *)
Terminates == <>(pc \in {"done", "dead"})

(* What the code says about its own exit code 2: "Every core was skipped". *)
NothingTestedMeansAllSkipped == exit_code = k_exit_usage => skipped = NCores

=============================================================================
