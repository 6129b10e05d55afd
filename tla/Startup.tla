------------------------------ MODULE Startup ------------------------------
(***************************************************************************)
(* main from the first argument to the first core: the arguments, the      *)
(* self-test, the three questions, the preparation of the rbx probe and    *)
(* the report file, with every early return.                               *)
(*                                                                         *)
(* An argument or an answer is modelled by what its parser makes of it:    *)
(* `bad` is turned away, `blank` leaves the setting alone, anything else   *)
(* is a value.  What a list of cores selects is CpuSelection's subject.    *)
(***************************************************************************)
EXTENDS Naturals

CONSTANTS
    Minutes,           \* durations people give, in 1..k_max_minutes
    MaxArgs,           \* bound on the arguments
    MaxLines           \* bound on the lines typed

ASSUME StartupAssumption ==
    /\ "default" \notin Minutes
    /\ MaxArgs \in Nat /\ MaxLines \in Nat

k_exit_clean == 0
k_exit_usage == 2
k_exit_self_test_failed == 3

ProbeNames == {"ch", "rbx", "all"}
Questions == {"probe", "cores", "minutes"}

VARIABLES
    pc,                \* "args", "self_test", "probe", "prepare",
                       \* "cores", "minutes", "open", then "sweep" or "exit"
    exit_code,
    args,              \* arguments read
    have,              \* settings fixed by the command line: have_probe, ...
    want_self_test,
    probes,            \* which of the two probes
    minutes,
    cores,             \* cores_spec, then what was selected
    interactive,       \* stdin is a terminal
    lines,             \* lines typed
    prepared,          \* sdc_rbx_prepare has succeeded
    report,            \* the report file: "none", "open" or "failed"
    asked              \* history: questions put to the user

settingVars == <<probes, minutes, cores>>
laterVars == <<interactive, lines, prepared, report, asked>>
vars == <<pc, exit_code, args, have, want_self_test, probes, minutes, cores,
          interactive, lines, prepared, report, asked>>

Init ==
    /\ pc = "args" /\ exit_code = 0 /\ args = 0
    /\ have = {} /\ want_self_test = FALSE
    /\ probes = {"ch"} /\ minutes = "default" /\ cores = "all"
    /\ interactive \in BOOLEAN /\ lines = 0
    /\ prepared = FALSE /\ report = "none"
    /\ asked = {}

Exit(code) == pc' = "exit" /\ exit_code' = code

(* parse_probe_selection for a text that is not bad: blank keeps what is   *)
(* there.                                                                  *)
ProbeOf(answer) ==
    IF answer = "all" THEN {"ch", "rbx"} ELSE IF answer = "blank" THEN probes ELSE {answer}

-----------------------------------------------------------------------------
(* Every argument is dealt with when it is read, a flag with its value.    *)
ReadArg ==
    /\ pc = "args"
    /\ args < MaxArgs
    /\ args' = args + 1
    /\ UNCHANGED laterVars

(* --help and --version end the program there.                             *)
ArgInfo ==
    /\ ReadArg
    /\ Exit(k_exit_clean)
    /\ UNCHANGED <<have, want_self_test, settingVars>>

(* So do an unknown flag, a missing value and a value out of its range.    *)
ArgBad ==
    /\ ReadArg
    /\ Exit(k_exit_usage)
    /\ UNCHANGED <<have, want_self_test, settingVars>>

ArgSelfTest ==
    /\ ReadArg
    /\ want_self_test' = TRUE
    /\ UNCHANGED <<pc, exit_code, have, settingVars>>

(* --seed, --layers and --log: nothing before the sweep depends on them.   *)
ArgOther ==
    /\ ReadArg
    /\ UNCHANGED <<pc, exit_code, have, want_self_test, settingVars>>

(* --probe NAME; a name of blanks counts as given.                         *)
ArgProbe(answer) ==
    /\ ReadArg
    /\ probes' = ProbeOf(answer)
    /\ have' = have \cup {"probe"}
    /\ UNCHANGED <<pc, exit_code, want_self_test, minutes, cores>>

(* --cores SPEC is kept as it is; whether it is bad comes out later.       *)
ArgCores(spec) ==
    /\ ReadArg
    /\ cores' = spec
    /\ have' = have \cup {"cores"}
    /\ UNCHANGED <<pc, exit_code, want_self_test, probes, minutes>>

ArgMinutes(m) ==
    /\ ReadArg
    /\ minutes' = m
    /\ have' = have \cup {"minutes"}
    /\ UNCHANGED <<pc, exit_code, want_self_test, probes, cores>>

(* The arguments are done: the interrupt handler is installed and the      *)
(* cores are counted.  Without one there is nothing to do.                 *)
Enumerate_OpenFirst(found) ==
    /\ pc = "args"
    /\ report' = "open"
    /\ IF ~found THEN Exit(k_exit_usage)
       ELSE /\ pc' = IF want_self_test THEN "self_test" ELSE "probe"
            /\ UNCHANGED exit_code
    /\ UNCHANGED <<args, have, want_self_test, settingVars, interactive, lines,
                   prepared, asked>>
Enumerate(found) ==
    /\ pc = "args"
    /\ IF ~found THEN Exit(k_exit_usage)
       ELSE /\ pc' = IF want_self_test THEN "self_test" ELSE "probe"
            /\ UNCHANGED exit_code
    /\ UNCHANGED <<args, have, want_self_test, settingVars, interactive, lines,
                   prepared, report, asked>>

(* Where the rbx probe cannot run its test is skipped, which counts as     *)
(* passed.                                                                 *)
rbx_self_test(outcome) == outcome \in {"skipped", "passed"}

(* Both self-tests, whatever the first one says.                           *)
SelfTest(ch_ok, rbx) ==
    /\ pc = "self_test"
    /\ prepared' = (rbx \in {"passed", "failed"})
    /\ Exit(IF ch_ok /\ rbx_self_test(rbx) THEN k_exit_clean
                                           ELSE k_exit_self_test_failed)
    /\ UNCHANGED <<args, have, want_self_test, settingVars, interactive, lines,
                   report, asked>>

-----------------------------------------------------------------------------
(* A question is put when it is still open and there is someone to ask;    *)
(* the answer is a line, or the end of the input (on Windows, Ctrl+C too   *)
(* makes fgets return nothing).                                            *)
Asks_Always(q) == interactive
Asks(q) == q \notin have /\ interactive

NotAsked(q) ==
    /\ ~Asks(q)
    /\ UNCHANGED <<asked, lines>>
EndOfInput(q) ==
    /\ Asks(q)
    /\ asked' = asked \cup {q}
    /\ UNCHANGED lines
Typed(q) ==
    /\ Asks(q)
    /\ lines < MaxLines
    /\ lines' = lines + 1
    /\ asked' = asked \cup {q}

startupVars == <<exit_code, args, have, want_self_test, interactive, prepared,
                 report>>

(* Which probe.  A bad name is asked for again, the rest goes on.          *)
ProbeAnswer(answer) ==
    /\ pc = "probe"
    /\ \/ /\ NotAsked("probe") \/ EndOfInput("probe")
          /\ answer = "blank"
          /\ pc' = "prepare" /\ UNCHANGED probes
       \/ /\ Typed("probe")
          /\ IF answer = "bad" THEN UNCHANGED <<pc, probes>>
             ELSE pc' = "prepare" /\ probes' = ProbeOf(answer)
    /\ UNCHANGED <<startupVars, minutes, cores>>

(* Only a run that uses the rbx probe prepares it, or is refused.          *)
Prepare_GoOn(possible) ==
    /\ pc = "prepare"
    /\ pc' = "cores"
    /\ prepared' = ("rbx" \in probes /\ possible)
    /\ UNCHANGED <<exit_code, args, have, want_self_test, settingVars,
                   interactive, lines, report, asked>>
Prepare(possible) ==
    /\ pc = "prepare"
    /\ IF "rbx" \in probes /\ ~possible
         THEN Exit(k_exit_usage) /\ UNCHANGED prepared
         ELSE /\ pc' = "cores" /\ prepared' = ("rbx" \in probes)
              /\ UNCHANGED exit_code
    /\ UNCHANGED <<args, have, want_self_test, settingVars, interactive, lines,
                   report, asked>>

(* Which cores.  A bad list is asked for again only at a terminal and only *)
(* if it was typed there.                                                  *)
CoresAnswer_Again(answer) ==
    /\ pc = "cores"
    /\ \/ NotAsked("cores") /\ answer = cores
       \/ EndOfInput("cores") /\ answer = "all"
       \/ Typed("cores")
    /\ IF answer # "bad"
         THEN pc' = "minutes" /\ cores' = answer /\ UNCHANGED exit_code
         ELSE UNCHANGED <<pc, cores, exit_code>>
    /\ UNCHANGED <<args, have, want_self_test, probes, minutes, interactive,
                   prepared, report>>
CoresAnswer(answer) ==
    /\ pc = "cores"
    /\ \/ NotAsked("cores") /\ answer = cores
       \/ EndOfInput("cores") /\ answer = "all"
       \/ Typed("cores")
    /\ IF answer # "bad"
         THEN pc' = "minutes" /\ cores' = answer /\ UNCHANGED exit_code
         ELSE IF "cores" \in have \/ ~interactive
                THEN Exit(k_exit_usage) /\ UNCHANGED cores
                ELSE UNCHANGED <<pc, cores, exit_code>>
    /\ UNCHANGED <<args, have, want_self_test, probes, minutes, interactive,
                   prepared, report>>

(* How long.  No number or one out of range is asked for again.            *)
MinutesAnswer(answer) ==
    /\ pc = "minutes"
    /\ \/ /\ NotAsked("minutes") \/ EndOfInput("minutes")
          /\ answer = "blank"
          /\ pc' = "open" /\ UNCHANGED minutes
       \/ /\ Typed("minutes")
          /\ IF answer = "bad" THEN UNCHANGED <<pc, minutes>>
             ELSE /\ pc' = "open"
                  /\ minutes' = IF answer = "blank" THEN minutes ELSE answer
    /\ UNCHANGED <<startupVars, probes, cores>>

(* The report file, created or emptied here; without it the run goes on.   *)
OpenReport(opened) ==
    /\ pc = "open"
    /\ report' = IF opened THEN "open" ELSE "failed"
    /\ pc' = "sweep"
    /\ UNCHANGED <<exit_code, args, have, want_self_test, settingVars,
                   interactive, lines, prepared, asked>>

ReadArgs ==
    \/ ArgInfo \/ ArgSelfTest \/ ArgOther \/ ArgBad
    \/ \E answer \in ProbeNames \cup {"blank"} : ArgProbe(answer)
    \/ \E spec \in {"all", "some", "bad"} : ArgCores(spec)
    \/ \E m \in Minutes : ArgMinutes(m)
    \/ \E found \in BOOLEAN : Enumerate(found)

Ask ==
    \/ \E answer \in ProbeNames \cup {"blank", "bad"} : ProbeAnswer(answer)
    \/ \E possible \in BOOLEAN : Prepare(possible)
    \/ \E answer \in {"all", "some", "bad"} : CoresAnswer(answer)
    \/ \E answer \in Minutes \cup {"blank", "bad"} : MinutesAnswer(answer)
    \/ \E opened \in BOOLEAN : OpenReport(opened)

Next ==
    \/ ReadArgs
    \/ \E ch_ok \in BOOLEAN, rbx \in {"skipped", "unprepared", "failed", "passed"} :
         SelfTest(ch_ok, rbx)
    \/ Ask

(* The program goes on by itself; whoever is asked answers or closes the   *)
(* input.                                                                  *)
Spec == Init /\ [][Next]_vars /\ WF_vars(Next)

-----------------------------------------------------------------------------
(* What the sweep takes for granted when it starts: at least one probe, a  *)
(* valid selection, and a prepared rbx probe exactly when the sweep will   *)
(* run it, whatever was given, asked, mistyped or left out on the way.     *)
SweepIsReady ==
    pc = "sweep" =>
        /\ probes # {}
        /\ cores # "bad"
        /\ prepared = ("rbx" \in probes)
        /\ report # "none"

(* A run that is refused costs nothing: no report file was created or      *)
(* emptied, and one refused because the rbx probe cannot run here was not  *)
(* asked for cores and minutes first ("Refused before the remaining        *)
(* questions rather than after them", sdcprobe.cpp:1224).                  *)
RefusalIsEarly ==
    pc = "exit" /\ exit_code = k_exit_usage =>
        /\ report = "none"
        /\ "rbx" \in probes /\ ~prepared => asked \subseteq {"probe"}

(* What the command line says stands: it is not asked about and no answer  *)
(* changes it, and with a redirected stdin nothing is asked at all.        *)
CommandLineStands ==
    [][/\ pc # "args" /\ "probe" \in have => UNCHANGED probes
       /\ pc # "args" /\ "minutes" \in have => UNCHANGED minutes
       /\ pc # "args" /\ "cores" \in have => UNCHANGED cores
       /\ asked' # {} => interactive /\ asked' \cap have = {}]_vars

(* Every run gets to the sweep or ends: with a bad list on the command     *)
(* line, with input that runs out at any question, after wrong answers.    *)
StartupEnds == <>(pc \in {"sweep", "exit"})

=============================================================================
