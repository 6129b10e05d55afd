# sdcprobe in TLA+

`sdcprobe` looks for two silent hardware faults, one core after the other: a byte
misread through the legacy `CH` register (probe *ch*), and a frame base in `rbx` that
moves by itself (probe *rbx*).  Its output is an accusation against a piece of
hardware, or an acquittal.  This directory models the parts of the program that decide
which of the two is printed, checks them with TLC on small instances, and proves with
TLAPS, for every value of the parameters, what the runs check of safety.

## 1. Inventory

| component | state | operations | what makes it correct |
|---|---|---|---|
| sweep and verdict (`main`, `sdcprobe.cpp:1330-1669`) | `results`, `rbx_results`, `skipped`, `measured_cores`, `interrupted`, totals | pin, skip, run each probe, stop, sum, verdict, exit code | the exit code and the RESULT lines say what happened, whatever the order of skips, interrupts and detections |
| measuring run (`run_on_current_cpu`, `run_rbx_on_current_cpu`, `:539-760`) | the `RunResult`, the clock, `reported`, `next_progress`, the shared `work.baseline` | poll, round, classify, report, progress | a run lasts its time or is marked, stops at once when asked, and its report adds up |
| ch detector (`compute_rows`, `replay_hash`, `reverse_fnv`, `:204-346`) | the sample buffer, two hashes, the buffers `forward` and `backward` | hash by register, hash by memory, compare, explain | no false alarm, no absorbed fault, a right explanation |
| rbx machinery (`rbx.cpp`, `rbx_payload.S:68-131`) | arena, shadow, thread area, the payload's data, the saved stack pointer, `g_expected_hash` | prepare, run a pass, rebuild, self-test | a detection has a cause in the hardware; the state recovers |
| fault capture (`platform.cpp:33-45`, `:206-255`, `:373-443`) | `g_fault_record`, `g_fault_resume`, the thread pointer | arm, disarm, handle, enter, leave | the payload's exceptions are caught, the tool's are not |
| interrupt flag and pinning (`platform.cpp`) | `g_interrupt`, the thread's affinity | Ctrl+C, pin, verify | a core number in the report is where the work ran, or is warned about (on Windows: was seen there once) |
| calibration and load (`sdcprobe.cpp:350-415`, `:1336-1345`, `load.cpp`) | number of layers, the interval of each run | measure, choose, clamp, warn | the number chosen is the best one for the core that was measured; a core paced too slowly is said |
| ch self-test (`:420-535`) | counters | inject, skip, check | a case fails only when its stream is ambiguous; the lane under test is always tried |
| arguments, core selection, questions (`:750-973`, `:1079-1301`) | options, `available`, `selected` | parse, ask, default, refuse | the sweep gets what was asked for, each core once; refusals come early |
| logger (`logger.cpp`) | file, open progress row | line, blank, file line, progress, close | the report holds what was said, also after a death; no line is lost on the screen |
| payload, generator, reproducer | none at run time | | |

The program is one thread.  What interleaves with it is the Ctrl+C handler (a signal,
or a thread of its own on Windows), which raises a flag that is polled at two places;
the exception handler, which redirects the payload to its landing; the scheduler, which
decides where a thread that is not pinned runs and how long a round takes; and the
hardware under test, which may fail in any round.  Components interact by calls and
through four pieces of shared state: `g_interrupt`, `g_fault_record`, the `Workspace`
that all cores' runs share, and the mapped arena that all passes share.

The hazards that follow from this are listed in `PROJECT.json`, each at its line.

## 2. Plan

1. **Done, modelling.** `RunContract` (what a run promises), `CoreRun` (the loop that
   keeps the promise), `Sweep` (main, on top of the contract); `ChRound` (the detector)
   and, on top of it, `ChSelfTest`; `RbxProbe` (the rbx machinery, the fault capture and
   the self-test); `CpuSelection`, `Startup` and `Logger` (what comes before and around
   the sweep); `Pacing` (calibration, load layers and the pacing warning).
2. **Done, proofs.** One proof module beside each of `Sweep`, `CoreRun`, `ChRound` (with
   the self-test), `RbxProbe`, `Pacing`, `Startup`, `CpuSelection` and `Logger`.  Every
   invariant and every action property that a passing run checks is a theorem, of the
   specification its run checks: `TestSpec` for `ch_round` (rounds of a run and
   self-tests), `Spec` for the others.
3. **Left.** The liveness properties, which stay with TLC (section 5).

`Sweep` and `RbxProbe` are not composed into one module: what main sees of a pass is
whether it broke, and that the process may be gone, and `Sweep` lets both happen in any
round.  That dirt left by one core's pass never becomes another core's detection is
`DetectionHasACause`, which `rbx_probe` checks over two cores.

## 3. Modules

`RunContract` is the abstract specification of one measuring run.  Before a round the
loop looks at the flag; past the flag it completes the round; it may end once it has
completed one.  There is no clock.

`CoreRun` is the code of both run functions, which are the same loop around different
measurements: `Head` is the `while` condition reading the clock, `Poll` the interrupt
check, `ChRound` and `RbxRound` the rest of the body, with the drift check
(`CheckDrift`), the counting and listing of a detection (`CountDetection`) and the
progress line (`Progress`) in it.  Time is in units of which a round takes at least
one.  A buffer is a function from positions to values, and drift counts positions, as
the code does.  Runs follow one another, so that what a run leaves in the shared baseline is
there for the next.  `Contract` maps it to `RunContract`.

`Sweep` extends `RunContract` with main's variables and interleaves the contract's
steps with main's.  `n` counts from 1.  `PinnedPlaces` is what the thread may be
bound to after a pin that succeeded: with `LoosePins` anything.  `Confirms` says which
bindings `sdc_verify_pin` can confirm.  Linux reads the mask back, so a confirmation
means that the thread is bound to the core.  Windows compares with the processor the
thread is on at that moment, so a thread that is bound nowhere may be confirmed by
chance (`by_chance`) and go on elsewhere.  `SumRow` adds one row, so that the loop over the
rows is a loop here too.  `Die` is the end of the process in a pass nothing can
recover from.

`ChRound` is one round of ch.  `ReadByte` mixes the byte the register delivered, which
may be another than the one in memory; `FlipAccumulator` is the other fault the code
has a name for.  `ReplayByte`, `Detect`, `ForwardByte`, `BackwardByte` and `ScanStep`
follow `replay_hash`, the comparison and the three loops of `reverse_fnv`, one
iteration a step.  Word and byte sizes, the prime, its inverse and exclusive or are
parameters; `MCChRound` gives them 10-bit words and 2-bit bytes.  The read of
`bytes[n]`, one past the end, delivers any byte.

`RbxProbe` is the rbx machinery.  `dirty` is the set of memory regions that do not hold
what their reader expects.  A payload that has gone astray may add any region to it
(`StrayWrite`), and ends by raising (`Raise`) or returning (`Return`).  One region is
`g_expected_hash`, which `sdc_rbx_prepare` sets once and nothing sets again; what a pass
compares with is read before the call (`expected_ok`), so that damage to it is a mismatch
in every later pass.  `tool` is the rest of the program.  `HandleFault` is the signal or
exception handler, `Land` the landing, `EndPass` the rest of `sdc_rbx_run_pass` with its
rebuild; its verdict is one of `Findings`, which are all of them once `tool` is
overwritten.  `ToolFault` is a crash of the program itself in what was overwritten:
between two passes, or between arm and disarm (`raised_in` is "call"), on the way to the
payload or back, where the landing takes it for the payload's.

`CpuSelection` is the question about the cores.  `sdc_enumerate_cpus` gives the
machine's processors on either system; `AnswerAll` and `AnswerList` are the two ways an
answer goes; `ReadToken`, `EndOfList`, `LookUp` and `AllLookedUp` are the loops of
`parse_cpu_selection`, into an `out` that a rejected answer may have left half full.
A token's halves are numbers, junk or empty, which is all that `strtol` and the checks
behind it tell apart.  `format_cpu_list` gives the tokens the report prints.
`MCCpuSelection` has the machines.

`Startup` is main before the sweep, with an action for each kind of argument, each
question, the preparation of the rbx probe and the report file.  Answers are values,
`blank` or `bad`.

`Logger` has a terminal of rows, a stdio buffer and the kernel's copy of the files.  A
call of `line`, `blank`, `progress` or `file_line` does the screen's part, then `Write`,
then `Flush`, and then it has returned (`Returned`); `Die` can come between any two.

`ChSelfTest` extends `ChRound` with the self-test of the detector.  Case 0 is a round
like any other, hardware faults included (`CleanRound` compares and notes); `Inject`
replaces the register's hash by that of a stream with a byte substituted and hands over
to `ChRound`'s actions, which are the code's one `reverse_fnv`; `Judge` counts; `Skip` is
the case whose byte already has the injected value.  The buffers are those of the case
before.  Rounds of a run and self-tests are behaviours of one specification (`testing`).

`Pacing` is the interval between two reads of `CH`.  `PinFirst`, `ProbeLow`, `ProbeHigh`
and `Fit` are the calibration: the pin whose result nobody looks at, two timings, the
line through them solved for the target, and the conversion to an `int` with its clamp.
`MeasureCore`, `StopAtOnce` and `Skip` are what the sweep makes of a core as far as the
interval goes, `SumRow` and `Summary` the largest interval and the warning.  A place has
a cost line: a fixed time, a time per layer, and `check`, the time a run spends on each
sample besides (`replay_hash` and the comparison with the baseline), which the
calibration does not time.  `Reported` is the interval of a run as the summary sees it,
less what counting whole milliseconds cuts off (`Truncations`).  Doubles are exact ratios of whole
numbers, so `ToInt` is a division, with the value the processor delivers when the
quotient fits no `int`.

Definitions with an underscore and a suffix (`Poll_Deaf`) are deliberately wrong
variants of the definition before the underscore.  No specification uses them; they
show that the properties notice the mistake.

## 4. Runs

| run | instance | shows |
|---|---|---|
| `core_run` | 3 time units, rounds of 1 to 3, a stall of up to 1, progress every 2, cap of 2, two samples of two values | a run's report adds up; drift is against its own rounds; progress never backlogs; a run is full or marked; at most one round after Ctrl+C; runs end; the contract is kept |
| `sweep` | 3 cores, 1 round, all probe choices, both systems, loose pins | no detection is lost; no core is blamed for another's fault without a warning, except by a confirmation Windows gave by chance; exit codes 0 and 4 mean what `README.md:164-170` says; every core is accounted for; the program ends |
| `ch_round` | 2 samples of 2 lanes, 2 misreads, 1 flip, four streams, two leftovers; rounds and self-tests | no false alarm; one fault is always detected; one misread is explained; the scan reads this round's buffers throughout, and they differ at every byte; a flipped bit leaves popcount 1; a self-test case fails exactly when its stream has a second explanation; some misread of `ch` is always tried |
| `rbx_probe` | both systems, run and self-test, 2 cores, 3 passes | detections have a cause; the tool's crashes are not detections; the process dies only of damage; the self-test recovers; no half preparation |
| `cpu_selection` | 5 machines, 2 lists of up to 3 tokens, numbers up to 4 and one that does not fit a `long` | the selection is the answer, each processor once; the printed list selects the same cores |
| `startup` | up to 3 arguments and 4 answers, terminal or not | the sweep's preconditions; early refusal; the command line stands; every path ends |
| `pacing` | 2 cores and one elsewhere, 7 cost lines, disturbances of 0 and 3000, truncations of 0 and 9, `--layers` absent, 1 or 64 | the calibration picks the best number of layers; on equal cores that can be brought within a factor of two of the target it leaves room for what it does not time; a slow core is warned about, and only a core that is off causes a warning |
| `logger` | 2 runs of up to 4 calls, 2 names | the report survives the process; no line on the screen is lost |
| `nothing_tested`, `named_byte`, `rbx_survives`, `fast_core_unsaid` | the same, or the smallest that shows it | four places where the code does not do what its comments or the README say; see `findings` in `PROJECT.json` |

Why the bounds are enough.  In `core_run` a round of 3 in a run of 3 overruns both the
deadline and a progress mark, a cap of 2 is exceeded by a third detection, and two
samples let none, one or both drift and drift back.  In `sweep` three cores give a core
before, at and after every event, and one to run on by mistake; one round suffices
because the number of rounds only matters through being zero or not (the same
properties hold of two cores and two rounds, and the proofs cover any number).  In
`ch_round` a word has more bits than two bytes, so that byte-sized differences are the
exception as in the real machine, and two samples of two lanes make position, lane and
sample different numbers; of the four streams one is all zeroes, so that self-test
cases are skipped, and with the prime of the instance some cases of the others have a
second explanation and fail.  In `rbx_probe` three passes are a broken one, the one after
it and one more, which is also the length of the self-test.  In `cpu_selection` three
tokens are a number, another and the first again, in any order and as ranges that
overlap; the second list is the answer after a rejected one.  In `startup` three
arguments let a flag be given, repeated and overruled by another.  In `logger` four
calls put any call before, on and after an open progress line, and one after that.  In
`pacing` the target lies between two numbers of layers, at a tie, below the first, above
the last, a factor of two off on either side or out of reach, or the load costs
nothing; what a run does besides takes nothing, a little, half the target to the
nanosecond, or one more.  An `int` is scaled to 12 bits, so that its limit is near.

Fairness.  `CoreRun`, `Sweep` and `Startup` assume weak fairness of the program's own steps: a
single thread with nothing to wait for keeps running.  Nothing is assumed of Ctrl+C, of
the hardware, or of the next run; in `Startup` whoever is asked answers or closes the
input, and gives no more than the bounded number of wrong answers.  `RunEnds` needs in addition that every round takes
time, which is built into the unit.  `RbxProbe` claims no liveness: nothing in the
program makes a payload that loops forever end.

Assumptions about the environment.  `Lag < Duration`: between two clock readings, the
process is not suspended for as long as a whole run.  Without it the code does print
CLEAN after a run of no checks (the deadline is taken before the loop).
`ResolutionAssumption` of `Pacing`: two timings that differ at all differ by at least a
clock tick over 50000 samples, so the ratio that is converted stays below
8 * 250 * 50000, which fits an `int`.  The cost of a load call is linear in the layers,
as the comment at `sdcprobe.cpp:375` says of the loop in `load.cpp`.  That a run's
interval is close to the calibration's cost is not assumed: `CalibratedSweepIsInRange`
is about intervals that exceed it by at most half the target (125 ns for `replay_hash`,
the comparison and whatever disturbed the run) and fall short of it by at most a tenth
(25 ns; whole milliseconds cut off 10 ns per check from a run of a single round, and less
from a longer one).  Outside of that the program may warn, rightly.

`TypeOK` is a run's invariant where the component's module states it (`Sweep`, `CoreRun`,
`ChRound`).  The others have their type invariant in the proof module, as the first part
of the inductive invariant.

Seen while modelling and not made a run: a flipped bit of the accumulator that the
analysis cannot explain is printed as "two or more bytes" (`sdcprobe.cpp:608-616`); the
`fflush` after each line (`logger.cpp:61-65`) saves the report from the death of the
process, which `logger` checks, and not from a machine that hangs before the kernel has
written it.

## 5. Proofs

`SweepProofs` proves, for every number of cores, every bound on the rounds, every
choice of probes, and pins loose or not, that `TypeOK`, `DetectionIsNeverLost`,
`NoWrongBlame`, `CleanMeansComplete`, `InterruptedMeansPartial` and
`EveryCoreAccountedFor` are invariants of `Sweep`.  The assumptions are the named ones
of the modules: at least one core, at least one round, at least one probe.

`NoWrongBlame` is as strong as the system allows: a core that is blamed without a warning
had that fault itself, or, on Windows only, was confirmed by chance, and a round of that
probe went wrong while the thread was bound nowhere.

None of these properties is inductive: they speak of the end, and are true there
because of what was true on the way.  The inductive invariant `IInv` has one part for
each account that main keeps:

* `RunInv`: a run in progress has found no more faults than it made rounds, and only an
  interrupted one ends without a round;
* `Counted`: measured and skipped cores add up to the position in the list;
* `RowsCounted`: how many rows each probe has, at each point of main;
* `FaultsFiled`: the rows and the run in progress together hold exactly the faults that
  happened, each under its core unless that core was warned about;
* `Summed`: a total is zero exactly when the rows added so far are;
* `Printed`: the verdict is computed from totals that no longer change;
* `RowsBehind`, `CoresBehind`: every core main has passed was skipped or measured in
  full, and the core an interrupted sweep stopped at was not.

Each part has a lemma that one step of `Next` preserves it, with one case per action;
`PushedRow`, `PushedFaults` and `PushedMeasured` say once what appending a row does.

`CoreRunProofs` proves, for every duration, length of rounds, stall, report cap,
progress interval and number of samples, that `TypeOK`, `FullDurationOrMarked`,
`InterruptIsPrompt`, `DriftIsAgainstOwnRounds` and `ProgressNeverBacklogs` are invariants
of `CoreRun`, and that every step of it is a step of `RunContract` or a stutter
(`CoreRunImplementsContract`), which is what lets `Sweep` speak about the contract only.
The assumptions are `TimeAssumption` (in particular `Lag < Duration`),
`ReportAssumption` and `SamplesAssumption`.  The inductive invariant: `Timed` (there is
no more than one round per unit, and a run without a round has not used up its time),
`Bounded` (no counter is ahead of the rounds), `Prompt` (a round is started only with
the flag down, so the late one is the one in progress), `OwnBaseline` (from round 0 on
the baseline is one of the run's own rounds) and `OnTime` (the next mark is a multiple
of the interval, with a line for at most each multiple before it).

`ReportIsComplete` (`CoreRunReportIsComplete`) has an invariant of its own, `Accounted`:
the counter that is compared with the cap is the number of lines listed.  A detection
adds one to its class and to no other (`ClassifiedStep`), so the sum over the classes
follows the count of detections.

`ChRoundProofs` proves `TypeOK`, `NoFalseAlarm`, `SingleFaultIsDetected`,
`BuffersAreThisRounds`, `SingleMisreadIsExplained` and `FlipLeavesItsBit` for every
width of words and bytes, every prime that has an inverse, every stream and every number
of samples, from the assumptions `ChRound` states about exclusive or and about the
inverse (which `static_assert` checks in the code, `sdcprobe.cpp:101`).  The heart is
that mixing a byte into a hash is injective in both (`MulInverse`, `MixInjective`) and
that `Unmix` undoes `Mix` (`UnmixMix`, `MixUnmix`).  The inductive invariant `RoundInv`
then says of every phase what has been computed so far: `RegisterChain` and
`MemoryChain` relate the two hashes byte by byte, `Agreement` says they agree as long as
nothing went wrong, `Verdict` carries that to the comparison, `ForwardChain` and
`BackwardChain` describe the two buffers, `RewindChain` says that the backward one leads to
the register's hash from wherever it has got to, and `ScanInv` what the scan has seen.  For a
flipped bit `FlipChain` says that the backward buffer is the accumulator as it really
was, down to the place of the flip, and `LowestOfAll` that the scan keeps the smallest
popcount; the two meet at that place, where the difference is a power of two, whose
popcount is 1 (`PopcountOfOneBit`), and no difference has popcount 0
(`PopcountOfNonzero`).

The theorems are about `TestSpec`, of which a run's rounds (`Spec`) are one half.  A round
keeps `RoundInv`, a self-test `TestInv` and `TestHistory`; `RunOrTest` says that a
behaviour is in one or the other, and each property follows from either.

For the self-test (`SelfTestIsFair`, `ChLaneIsTested`) the invariant is `TestInv`:
`CleanCase` and `InjectedCase` say which hash the analysis starts from, `Filled` that the
part of the buffers the analysis has written is the case's own whatever an earlier case
left there, `SkippedEqual` why a case was skipped, and `Counted` that the counters are
the cases so far.  `SelfTestIsFair` is an equivalence between what the scan finds and
the existence of another stream with the same hash.  `ByteExplains` is its core:
a difference at a place fits in a byte exactly if changing that one byte of the stream
gives the hash in question, because two chains that take in the same bytes from a place
on meet at the end exactly if they met at that place (`ChainsMeet`).  `PlaceOfByte` makes
lane and sample a name for the byte.

`RbxProbeProofs` proves `DetectionHasACause`, `CrashIsNeverADetection`,
`DeathOnlyFromDamage`, `SelfTestRecovers` and `NoHalfPreparation` for any number of cores
and passes.  The invariant has a part for each mechanism: `Mappings` (what
`sdc_rbx_prepare` holds at each step), `Arming` (the record is set only while the payload
runs or has just ended), `Damage` and `ThreadPointer`, `Rebuild` (a pass that is not
astray finds what `build_arena` writes as it was written, unless a stray call went
unnoticed), `Outcome` (what the call returned, and what it was compared with, against what happened
in it), `Cause`
(nothing is wrong before the hardware fails, and going astray has a reason) and
`Recovery` (the last pass of the self-test).  `DetectionHasACause` alone is not inductive
because its reason lies passes back: `Cause` and `Rebuild` carry it across the end of a
pass and the change of the core.  What a later pass may wrongly report is named in the
properties: damage to what nothing rebuilds (the payload's data, `g_expected_hash`, the
program), or a call that went astray unnoticed.  Neither is excluded by the code.

`StartupProofs` proves `SweepIsReady`, `RefusalIsEarly` and the action property
`CommandLineStands` for any number of arguments and answers, from what is settled at each
question: `ReportIsLast`, `PreparedInTime`, `CoresSettled`, `AskedInOrder` and `Refused`.

`PacingProofs` proves `SlowCoreIsSaid`, `CalibrationPicksTheBest` and
`CalibratedSweepIsInRange` for any number of cores, any cost lines and disturbances and
any `--layers`, from `PacingAssumption` and `ResolutionAssumption`.  The inductive
invariant says that `worst_ns` is the largest of the results the loop has looked at
(`WorstSoFar`), that none is looked at before the sweep is over and all before the
summary is printed (`Phases`), that the warning was decided by it (`WarnedByWorst`), and
that the sweep runs with what the two timings gave (`Choice`); `Times` holds the types,
with `ChosenInLayers` showing that a calibration leaves a usable number of layers
whatever it measured.  The rest is arithmetic about that number: rounding to the nearest
and then clamping leaves none that is better (`ClampedNearestIsBest`), a quotient that
fits no `int` cannot happen within the resolution, the best number is within a factor of
two of the target if any is (`BestIsReachable`), and from there half the target more or a
tenth less does not reach the 2.5 at which the program warns (`RoomIsEnough`).

`CpuSelectionProofs` proves `SelectionIsTheAnswer`, `SelectedCoresAreDifferent` and
`ReportedListRoundTrips` for every machine and every answer.  `SelectionAssumption` and
`MachineAssumption` say that a processor's number is at most `k_max_core_index`.  The
invariant keeps witnesses: `Reading` a function from the numbers read so far to the
tokens that mentioned them (`Traced`), `Looking` one from the cores found to the places
where their numbers came first (`LookedUp`); what an answer means is then a matter of
composing the two.  That the enumeration has no repetition rests on `InOrderLists`: a
finite totally ordered set is listed by `InOrder`, each member once.  The round trip adds
that a stretch of the printed list is an acceptable token which mentions its cores in
their order (`StretchMentions`, `PrintedListSelects`).

`LoggerProofs` proves `DeathKeepsTheReport` and `ScreenShowsEveryLine` for any number of
runs, names and calls.  `OnDisk` says what the kernel and the stdio buffer hold at each
point of a call, `OnScreen` that every line heard so far has a row of its own and that
the cursor's row is empty or the open progress line.

Induction.  The library's induction theorems take an operator as a parameter, which the
provers cannot instantiate.  Where a proof needs induction over data (`HashesChain`,
`InOrderLists`, `PrintedListSelects`, the powers of two), it is written for a set instead
of a predicate: a set of numbers that is not empty has a least one (`LeastNumber`), so a
set that has 0 and each next number has them all (`NumberByNumber`).  Recursive functions
are handled by showing that a function with the recursive property exists.

Assumptions that the provers cannot compute, each evaluated by TLC on the instance of
`ch_round`: `PowerAssumption` (powers of two double) and the laws of exclusive or
(`XorBytes`, `XorInWord`, `XorWords`, `XorDifference`, `XorBits`).

Out of the prover's reach, and checked by TLC only: `Terminates`, `RunEnds` and
`StartupEnds`, and the fairness half of `ImplementsContract`, which all need `ENABLED`.
The four expected violations are counterexamples and have nothing to prove.

## 6. Not modelled

The values the floating-point load computes (any stream of bytes in `ChRound`, a cost in
`Pacing`); the wording and layout of the report; the register dump and the signature
test; the 3500 lines of transplanted machine code, of which only returning or going
astray is kept; the value of the hash `build_arena` computes; the disk behind the kernel,
writes that fail on a full disk, and input lines longer than the buffer of `read_line`
(the code does not look at any of these); a payload that never ends, for which the code
has no answer; the generator, which runs before the build and writes the payload; the
reproducer, a program of its own whose one check is that every pass hashes like the first;
the build and the continuous integration.
