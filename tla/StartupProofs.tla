---------------------------- MODULE StartupProofs ----------------------------
(***************************************************************************)
(* Main before the sweep, for any number of arguments and of lines typed.  *)
(***************************************************************************)
EXTENDS Startup, TLAPS

(* The type invariant.                                                     *)
TypeOK ==
    /\ pc \in {"args", "self_test", "probe", "prepare", "cores", "minutes",
               "open", "sweep", "exit"}
    /\ have \subseteq Questions /\ asked \subseteq Questions
    /\ probes \subseteq {"ch", "rbx"} /\ probes # {}
    /\ cores \in {"all", "some", "bad"}

(* Nothing touches the report file before the last question is answered.   *)
ReportIsLast == report = "none" <=> pc # "sweep"

(* The rbx probe is prepared between two questions, exactly if it is used. *)
PreparedInTime ==
    pc \in {"cores", "minutes", "open", "sweep"} => prepared = ("rbx" \in probes)

(* The list of cores is settled before the question about the minutes.     *)
CoresSettled == pc \in {"minutes", "open", "sweep"} => cores # "bad"

(* Questions are put in order, to someone, and only if they are open.      *)
AskedInOrder ==
    /\ pc \in {"args", "self_test"} => asked = {}
    /\ pc \in {"probe", "prepare"} => asked \subseteq {"probe"}
    /\ asked # {} => interactive /\ asked \cap have = {}

(* A refusal comes before the preparation, at it, or about the cores.      *)
Refused ==
    pc = "exit" /\ exit_code = k_exit_usage =>
        ("rbx" \in probes /\ ~prepared => asked \subseteq {"probe"})

(* The inductive invariant.                                                *)
IInv ==
    /\ TypeOK /\ ReportIsLast /\ PreparedInTime /\ CoresSettled
    /\ AskedInOrder /\ Refused

(* What the parser of probe names makes of an answer it accepts.           *)
LEMMA ProbeOfIsASelection ==
    ASSUME TypeOK, NEW answer \in ProbeNames \cup {"blank"}
    PROVE  ProbeOf(answer) \subseteq {"ch", "rbx"} /\ ProbeOf(answer) # {}
BY DEF TypeOK, ProbeOf, ProbeNames

(* Before the first argument.                                              *)
LEMMA InitHolds == Init => IInv
BY DEF Init, IInv, TypeOK, ReportIsLast, PreparedInTime, CoresSettled, AskedInOrder,
       Refused, Questions

(* The arguments.                                                          *)
LEMMA ReadArgsKept ==
    ASSUME IInv, ReadArgs PROVE IInv'
<1> USE DEF IInv, TypeOK, ReportIsLast, PreparedInTime, CoresSettled, AskedInOrder,
            Refused, Questions, ReadArg, Exit, settingVars, laterVars
<1>1. CASE ArgInfo  BY <1>1 DEF ArgInfo, k_exit_clean, k_exit_usage
<1>2. CASE ArgBad  BY <1>2 DEF ArgBad
<1>3. CASE ArgSelfTest  BY <1>3 DEF ArgSelfTest
<1>4. CASE ArgOther  BY <1>4 DEF ArgOther
<1>5. ASSUME NEW answer \in ProbeNames \cup {"blank"}, ArgProbe(answer) PROVE IInv'
  <2>1. probes' \subseteq {"ch", "rbx"} /\ probes' # {}
    BY <1>5, ProbeOfIsASelection DEF ArgProbe
  <2> QED  BY <1>5, <2>1 DEF ArgProbe
<1>6. ASSUME NEW spec \in {"all", "some", "bad"}, ArgCores(spec) PROVE IInv'
  BY <1>6 DEF ArgCores
<1>7. ASSUME NEW m \in Minutes, ArgMinutes(m) PROVE IInv'  BY <1>7 DEF ArgMinutes
<1>8. ASSUME NEW found \in BOOLEAN, Enumerate(found) PROVE IInv'
  BY <1>8 DEF Enumerate
<1> QED  BY <1>1, <1>2, <1>3, <1>4, <1>5, <1>6, <1>7, <1>8 DEF ReadArgs

(* The questions, the preparation and the report file.                     *)
LEMMA AskKept ==
    ASSUME IInv, Ask PROVE IInv'
<1> USE DEF IInv, TypeOK, ReportIsLast, PreparedInTime, CoresSettled, AskedInOrder,
            Refused, Questions, Exit, settingVars, startupVars, NotAsked, EndOfInput,
            Typed, Asks
<1>1. ASSUME NEW answer \in ProbeNames \cup {"blank", "bad"}, ProbeAnswer(answer) PROVE IInv'
  <2>1. probes' \subseteq {"ch", "rbx"} /\ probes' # {}
    BY <1>1, ProbeOfIsASelection DEF ProbeAnswer
  <2> QED  BY <1>1, <2>1 DEF ProbeAnswer
<1>2. ASSUME NEW possible \in BOOLEAN, Prepare(possible) PROVE IInv'
  BY <1>2 DEF Prepare
<1>3. ASSUME NEW answer \in {"all", "some", "bad"}, CoresAnswer(answer) PROVE IInv'
  BY <1>3 DEF CoresAnswer
<1>4. ASSUME NEW answer \in Minutes \cup {"blank", "bad"}, MinutesAnswer(answer) PROVE IInv'
  BY <1>4 DEF MinutesAnswer
<1>5. ASSUME NEW opened \in BOOLEAN, OpenReport(opened) PROVE IInv'
  BY <1>5 DEF OpenReport
<1> QED  BY <1>1, <1>2, <1>3, <1>4, <1>5 DEF Ask

(* A self-test ends the program.                                           *)
LEMMA SelfTestKept ==
    ASSUME IInv, NEW ch_ok, NEW rbx, SelfTest(ch_ok, rbx) PROVE IInv'
BY DEF IInv, TypeOK, ReportIsLast, PreparedInTime, CoresSettled, AskedInOrder, Refused,
       SelfTest, Exit, settingVars, k_exit_clean, k_exit_usage, k_exit_self_test_failed

(* Every step keeps the invariant.                                         *)
LEMMA StepKept ==
    ASSUME IInv, [Next]_vars PROVE IInv'
<1>1. CASE UNCHANGED vars
  BY <1>1 DEF vars, IInv, TypeOK, ReportIsLast, PreparedInTime, CoresSettled,
     AskedInOrder, Refused
<1> QED  BY <1>1, ReadArgsKept, AskKept, SelfTestKept DEF Next

(* The account of the start-up is an invariant, whatever was given on the  *)
(* command line and however many lines were typed.                         *)
THEOREM StartupInvariant == Spec => []IInv
<1>1. IInv /\ [Next]_vars => IInv'  BY StepKept
<1> QED  BY InitHolds, <1>1, PTL DEF Spec

(* The sweep starts with a probe, a valid selection, a report and the      *)
(* preparation its probes need.                                            *)
THEOREM SweepStartsReady == Spec => []SweepIsReady
<1>1. IInv => SweepIsReady
  BY DEF IInv, TypeOK, ReportIsLast, PreparedInTime, CoresSettled, SweepIsReady
<1> QED  BY StartupInvariant, <1>1, PTL

(* A refused run has touched no report, and was not asked in vain.         *)
THEOREM RefusedEarly == Spec => []RefusalIsEarly
<1>1. IInv => RefusalIsEarly  BY DEF IInv, ReportIsLast, Refused, RefusalIsEarly
<1> QED  BY StartupInvariant, <1>1, PTL

(* No step after the arguments changes a setting they fixed, or asks       *)
(* about it.                                                               *)
LEMMA StepObeys ==
    ASSUME IInv, [Next]_vars, vars' # vars
    PROVE  /\ pc # "args" /\ "probe" \in have => UNCHANGED probes
           /\ pc # "args" /\ "minutes" \in have => UNCHANGED minutes
           /\ pc # "args" /\ "cores" \in have => UNCHANGED cores
           /\ asked' # {} => interactive /\ asked' \cap have = {}
<1> USE DEF IInv, AskedInOrder, Questions
<1>1. CASE ReadArgs
  <2>1. pc = "args" /\ asked' = asked
    BY <1>1 DEF ReadArgs, ArgInfo, ArgBad, ArgSelfTest, ArgOther, ArgProbe, ArgCores,
       ArgMinutes, Enumerate, ReadArg, laterVars
  <2> QED  BY <2>1
<1>2. ASSUME NEW ch_ok, NEW rbx, SelfTest(ch_ok, rbx)
      PROVE  UNCHANGED <<settingVars, asked>>
  BY <1>2 DEF SelfTest
<1>3. ASSUME NEW answer, ProbeAnswer(answer) \/ CoresAnswer(answer) \/ MinutesAnswer(answer)
      PROVE  /\ "probe" \in have => UNCHANGED probes
             /\ "minutes" \in have => UNCHANGED minutes
             /\ "cores" \in have => UNCHANGED cores
             /\ asked' # {} => interactive /\ asked' \cap have = {}
  BY <1>3 DEF ProbeAnswer, CoresAnswer, MinutesAnswer, NotAsked, EndOfInput, Typed, Asks,
     Exit, startupVars
<1>4. ASSUME NEW b, Prepare(b) \/ OpenReport(b)
      PROVE  UNCHANGED <<settingVars, asked>>
  BY <1>4 DEF Prepare, OpenReport
<1> QED  BY <1>1, <1>2, <1>3, <1>4 DEF Next, Ask, settingVars

(* What the command line says stands.                                      *)
THEOREM CommandLineAlwaysStands == Spec => CommandLineStands
<1>1. IInv /\ [Next]_vars =>
        [/\ pc # "args" /\ "probe" \in have => UNCHANGED probes
         /\ pc # "args" /\ "minutes" \in have => UNCHANGED minutes
         /\ pc # "args" /\ "cores" \in have => UNCHANGED cores
         /\ asked' # {} => interactive /\ asked' \cap have = {}]_vars
  BY StepObeys
<1> QED  BY StartupInvariant, <1>1, PTL DEF Spec, CommandLineStands

=============================================================================
