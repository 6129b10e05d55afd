------------------------------ MODULE RbxProbe ------------------------------
(***************************************************************************)
(* The rbx probe's machinery: sdc_rbx_prepare, sdc_rbx_run_pass, the fault *)
(* capture around the payload (arm, the handler, the landing, disarm), the *)
(* thread pointer the payload reads, and sdc_rbx_self_test.                *)
(*                                                                         *)
(* The payload is code that on sound hardware and intact data returns the  *)
(* right hash.  Once it has gone astray (the hardware fault, the injected  *)
(* one, or data an earlier stray call has overwritten) it may write        *)
(* anywhere, and ends by raising an exception or by returning some hash.   *)
(* That it ends is assumed: nothing in the program watches over it.        *)
(***************************************************************************)
EXTENDS Naturals, FiniteSets

CONSTANTS
    Platforms,         \* of "linux", "windows"
    Modes,             \* of "run", "selftest"
    NCores,            \* cores the passes are spread over, in order
    MaxPasses          \* the passes of a run

ASSUME PlatformAssumption == Platforms \subseteq {"linux", "windows"}
ASSUME ModeAssumption == Modes \subseteq {"run", "selftest"}
ASSUME RunAssumption ==
    /\ NCores \in Nat \ {0}
    /\ MaxPasses \in Nat /\ MaxPasses >= 3      \* the self-test makes three

(* What a stray call can overwrite: what build_arena sets up, the payload's *)
(* own data, the hash every pass is compared with, which is set once and   *)
(* never again, the stack pointer the trampoline keeps, and the rest of    *)
(* the program: its code, its stack and its other data.                    *)
Rebuilt == {"arena", "shadow", "thread_area"}
PayloadData == {"d_real_memset", "d_runtime"}
Regions == Rebuilt \cup PayloadData \cup {"g_expected_hash", "saved_rsp", "tool"}

(* What an RbxPass can say: neither of its two flags is set, or one is.    *)
Verdicts == {"clean", "faulted", "mismatch"}

VARIABLES
    platform, mode,
    pc,
    core,              \* the core the sweep is at
    passes,            \* passes completed
    mapped,            \* the fixed mappings held
    tp,                \* what the thread pointer slot holds: "own" or "payload"
    armed,             \* g_fault_record is not null
    dirty,             \* regions that do not hold what their reader expects
    memset,            \* sdc_rbx_d_real_memset: "memset" or "memset_inject"
    astray,            \* the payload of this pass has gone wrong
    expected_ok,       \* pass.expected is the hash of a correct pass
    hash_ok, faulted,  \* what sdc_rbx_call returned
    pass,              \* the RbxPass
    stage,             \* of the self-test: "clean", "inject", "after"
    selftest,          \* RbxSelfTest
    \* history, read by the properties only
    hit,               \* the hardware failed during this pass
    broken,            \* it failed during some pass
    silent,            \* a call went astray and its pass was found clean
    raised_in          \* where the last exception was raised: "payload", in the
                       \* "call" around it, between arm and disarm, or "tool"

vars == <<platform, mode, pc, core, passes, mapped, tp, armed, dirty,
          memset, astray, expected_ok, hash_ok, faulted, pass, stage, selftest, hit,
          broken, silent, raised_in>>
callVars == <<astray, expected_ok, hash_ok, faulted>>
fixedVars == <<platform, mode>>
historyVars == <<hit, broken, silent, raised_in>>

Init ==
    /\ platform \in Platforms /\ mode \in Modes
    /\ pc = "prepare"
    /\ core = 1 /\ passes = 0
    /\ mapped = {} /\ tp = "own"
    /\ armed = FALSE
    /\ dirty = Rebuilt
    /\ memset = "memset"
    /\ astray = FALSE /\ expected_ok = TRUE /\ hash_ok = TRUE /\ faulted = FALSE
    /\ pass = "clean"
    /\ stage = "clean"
    /\ selftest = [clean_pass_ok |-> FALSE, injected_caught |-> FALSE, recovered |-> FALSE]
    /\ hit = FALSE /\ broken = FALSE /\ silent = FALSE /\ raised_in = "nowhere"

-----------------------------------------------------------------------------
(* sdc_rbx_prepare.  Each step may be refused by the system; the caller    *)
(* then gives the probe up and the program exits with code 2.              *)
NotSupported ==
    /\ pc = "prepare"
    /\ pc' = "refused"
    /\ UNCHANGED <<fixedVars, core, passes, mapped, tp, armed, dirty, memset,
                   callVars, pass, stage, selftest, historyVars>>

MapArena(ok) ==
    /\ pc = "prepare"
    /\ mapped' = IF ok THEN {"arena"} ELSE {}
    /\ pc' = IF ok THEN "map_shadow" ELSE "refused"
    /\ UNCHANGED <<fixedVars, core, passes, tp, armed, dirty, memset,
                   callVars, pass, stage, selftest, historyVars>>

MapShadow_KeepArena(ok) ==
    /\ pc = "map_shadow"
    /\ mapped' = IF ok THEN mapped \cup {"shadow"} ELSE mapped
    /\ pc' = IF ok THEN "install" ELSE "refused"
    /\ UNCHANGED <<fixedVars, core, passes, tp, armed, dirty, memset,
                   callVars, pass, stage, selftest, historyVars>>
MapShadow(ok) ==
    /\ pc = "map_shadow"
    /\ mapped' = IF ok THEN mapped \cup {"shadow"} ELSE mapped \ {"arena"}
    /\ pc' = IF ok THEN "install" ELSE "refused"
    /\ UNCHANGED <<fixedVars, core, passes, tp, armed, dirty, memset,
                   callVars, pass, stage, selftest, historyVars>>

InstallCapture(ok) ==
    /\ pc = "install"
    /\ pc' = IF ok THEN "try_tp" ELSE "refused"
    /\ UNCHANGED <<fixedVars, core, passes, mapped, tp, armed, dirty, memset,
                   callVars, pass, stage, selftest, historyVars>>

(* sdc_payload_tp_enter.  On Linux the gs base is set by a system call the *)
(* first time and never again; on Windows the slot is written every time.  *)
TpEnter(ok) ==
    /\ ~ok => platform = "linux" /\ tp = "own"
    /\ tp' = IF ok THEN "payload" ELSE tp
(* sdc_payload_tp_leave.                                                   *)
AfterTpLeave(t) == IF platform = "windows" THEN "own" ELSE t

TryTp(ok) ==
    /\ pc = "try_tp"
    /\ ~ok => platform = "linux" /\ tp = "own"
    /\ tp' = IF ok THEN AfterTpLeave("payload") ELSE tp
    /\ pc' = IF ok THEN "build" ELSE "refused"
    /\ UNCHANGED <<fixedVars, core, passes, mapped, armed, dirty, memset,
                   callVars, pass, stage, selftest, historyVars>>

(* build_arena: zeroes the arena and the shadow, and writes the data and   *)
(* the thread area the payload starts from.                                *)
AfterBuildArena_KeepShadow(d) == d \ {"arena", "thread_area"}
AfterBuildArena(d) == d \ Rebuilt

FirstBuild ==
    /\ pc = "build"
    /\ dirty' = AfterBuildArena(dirty)
    /\ pc' = "ready"
    /\ UNCHANGED <<fixedVars, core, passes, mapped, tp, armed, memset,
                   callVars, pass, stage, selftest, historyVars>>

-----------------------------------------------------------------------------
(* A pass begins: the next one of the sweep, or of the self-test, which    *)
(* swaps the memset in for its second pass.  It takes its copy of the hash *)
(* it is to be compared with.                                              *)
StartPass(c) ==
    /\ pc = "ready"
    /\ c >= core
    /\ mode = "selftest" => c = core
    /\ core' = c
    /\ memset' = IF mode = "selftest" /\ stage = "inject" THEN "memset_inject" ELSE memset
    /\ dirty' = IF mode = "selftest" /\ stage = "inject" THEN dirty \ {"d_real_memset"} ELSE dirty
    /\ pass' = "clean"
    /\ expected_ok' = ("g_expected_hash" \notin dirty)
    /\ faulted' = FALSE
    /\ hit' = FALSE
    /\ pc' = "enter"
    /\ UNCHANGED <<fixedVars, passes, mapped, tp, armed, astray, hash_ok,
                   stage, selftest, broken, silent, raised_in>>

Enter(ok) ==
    /\ pc = "enter"
    /\ TpEnter(ok)
    /\ IF ok THEN /\ pc' = "call"
                  /\ UNCHANGED <<pass, passes>>
             ELSE /\ pass' = "mismatch"
                  /\ passes' = passes + 1
                  /\ pc' = "report"
    /\ UNCHANGED <<fixedVars, core, mapped, armed, dirty, memset,
                   callVars, stage, selftest, historyVars>>

(* sdc_fault_capture_arm, then sdc_rbx_call up to the payload: it saves    *)
(* the stack pointer the landing will rewind to.                           *)
Call_ArmFirstOnly ==
    /\ pc = "call"
    /\ armed' = IF passes = 0 THEN TRUE ELSE armed
    /\ dirty' = dirty \ {"saved_rsp"}
    /\ astray' = FALSE
    /\ pc' = "payload"
    /\ UNCHANGED <<fixedVars, core, passes, mapped, tp, memset, expected_ok, hash_ok,
                   faulted, pass, stage, selftest, historyVars>>
Call ==
    /\ pc = "call"
    /\ armed' = TRUE
    /\ dirty' = dirty \ {"saved_rsp"}
    /\ astray' = FALSE
    /\ pc' = "payload"
    /\ UNCHANGED <<fixedVars, core, passes, mapped, tp, memset, expected_ok, hash_ok,
                   faulted, pass, stage, selftest, historyVars>>

(* The fault under test.                                                   *)
HardwareFault ==
    /\ pc = "payload"
    /\ ~astray
    /\ astray' = TRUE
    /\ hit' = TRUE /\ broken' = TRUE
    /\ UNCHANGED <<fixedVars, pc, core, passes, mapped, tp, armed, dirty, memset,
                   expected_ok, hash_ok, faulted, pass, stage, selftest, silent, raised_in>>

(* sdc_rbx_memset_inject reaches its count.                                *)
Inject ==
    /\ pc = "payload"
    /\ ~astray
    /\ memset = "memset_inject"
    /\ "d_real_memset" \notin dirty
    /\ astray' = TRUE
    /\ UNCHANGED <<fixedVars, pc, core, passes, mapped, tp, armed, dirty, memset,
                   expected_ok, hash_ok, faulted, pass, stage, selftest, historyVars>>

(* The payload follows something an earlier call has overwritten.          *)
Mislead ==
    /\ pc = "payload"
    /\ ~astray
    /\ dirty \cap (Rebuilt \cup PayloadData) # {}
    /\ astray' = TRUE
    /\ UNCHANGED <<fixedVars, pc, core, passes, mapped, tp, armed, dirty, memset,
                   expected_ok, hash_ok, faulted, pass, stage, selftest, historyVars>>

StrayWrite(r) ==
    /\ pc = "payload"
    /\ astray
    /\ r \notin dirty
    /\ dirty' = dirty \cup {r}
    /\ UNCHANGED <<fixedVars, pc, core, passes, mapped, tp, armed, memset,
                   callVars, pass, stage, selftest, historyVars>>

Raise ==
    /\ pc = "payload"
    /\ astray
    /\ pc' = "exception"
    /\ raised_in' = "payload"
    /\ UNCHANGED <<fixedVars, core, passes, mapped, tp, armed, dirty, memset,
                   callVars, pass, stage, selftest, hit, broken, silent>>

Return(right) ==
    /\ pc = "payload"
    /\ ~astray => right /\ memset = "memset"
    /\ hash_ok' = right
    /\ faulted' = FALSE
    /\ pc' = "returned"
    /\ UNCHANGED <<fixedVars, core, passes, mapped, tp, armed, dirty, memset,
                   astray, expected_ok, pass, stage, selftest, historyVars>>

(* A crash of the program itself, in what a stray write has overwritten:   *)
(* between two passes, or in the trampoline and its caller, on the way to  *)
(* the payload or back, where the record may be armed still.               *)
ToolFault ==
    /\ pc \in {"ready", "report", "payload", "returned"}
    /\ "tool" \in dirty
    /\ pc' = "exception"
    /\ raised_in' = IF pc \in {"payload", "returned"} THEN "call" ELSE "tool"
    /\ UNCHANGED <<fixedVars, core, passes, mapped, tp, armed, dirty, memset,
                   callVars, pass, stage, selftest, hit, broken, silent>>

(* on_fault / on_exception: with a record it is taken, once, and execution *)
(* resumes at the landing; without one the process dies the ordinary way.  *)
(* Linux delivers on a stack of its own; Windows needs the one at rsp, and *)
(* a payload that has lost it dies before the handler is reached, as does  *)
(* one whose exception the handler passes on for its severity (a single    *)
(* step).                                                                  *)
HandleFault(delivered) ==
    /\ pc = "exception"
    /\ ~delivered => platform = "windows"
    /\ armed' = (armed /\ ~delivered)
    /\ pc' = IF delivered /\ armed THEN "landing" ELSE "dead"
    /\ UNCHANGED <<fixedVars, core, passes, mapped, tp, dirty, memset,
                   callVars, pass, stage, selftest, historyVars>>

(* sdc_rbx_fault_landing rewinds the stack and returns with *faulted set;  *)
(* a stack pointer or a stack that was overwritten faults again.           *)
Land(ok) ==
    /\ pc = "landing"
    /\ ok => "saved_rsp" \notin dirty
    /\ ~ok => dirty \cap {"saved_rsp", "tool"} # {}
    /\ faulted' = ok
    /\ pc' = IF ok THEN "returned" ELSE "exception"
    /\ UNCHANGED <<fixedVars, core, passes, mapped, tp, armed, dirty, memset,
                   astray, expected_ok, hash_ok, pass, stage, selftest, historyVars>>

(* What the rest of sdc_rbx_run_pass can find: an exception, or a hash     *)
(* that differs from the expected one.  A wrong hash may meet an expected  *)
(* one that was overwritten, and once other memory of the program is       *)
(* overwritten (the flag, the copies on the stack) any verdict may be read.*)
Findings ==
    IF "tool" \in dirty THEN Verdicts
    ELSE IF faulted THEN {"faulted"}
    ELSE IF hash_ok /\ expected_ok THEN {"clean"}
    ELSE IF hash_ok \/ expected_ok THEN {"mismatch"}
    ELSE {"clean", "mismatch"}

EndPass_DisarmOnFaultOnly(verdict) ==
    /\ pc = "returned"
    /\ verdict \in Findings
    /\ armed' = IF faulted THEN FALSE ELSE armed
    /\ tp' = AfterTpLeave(tp)
    /\ pass' = verdict
    /\ dirty' = IF verdict # "clean" THEN AfterBuildArena(dirty) ELSE dirty
    /\ passes' = passes + 1
    /\ silent' = (silent \/ (astray /\ verdict = "clean"))
    /\ pc' = "report"
    /\ UNCHANGED <<fixedVars, core, mapped, memset, callVars, stage, selftest,
                   hit, broken, raised_in>>
EndPass_RebuildOnFaultOnly(verdict) ==
    /\ pc = "returned"
    /\ verdict \in Findings
    /\ armed' = FALSE
    /\ tp' = AfterTpLeave(tp)
    /\ pass' = verdict
    /\ dirty' = IF verdict = "faulted" THEN AfterBuildArena(dirty) ELSE dirty
    /\ passes' = passes + 1
    /\ silent' = (silent \/ (astray /\ verdict = "clean"))
    /\ pc' = "report"
    /\ UNCHANGED <<fixedVars, core, mapped, memset, callVars, stage, selftest,
                   hit, broken, raised_in>>
EndPass(verdict) ==
    /\ pc = "returned"
    /\ verdict \in Findings
    /\ armed' = FALSE
    /\ tp' = AfterTpLeave(tp)
    /\ pass' = verdict
    /\ dirty' = IF verdict # "clean" THEN AfterBuildArena(dirty) ELSE dirty
    /\ passes' = passes + 1
    /\ silent' = (silent \/ (astray /\ verdict = "clean"))
    /\ pc' = "report"
    /\ UNCHANGED <<fixedVars, core, mapped, memset, callVars, stage, selftest,
                   hit, broken, raised_in>>

-----------------------------------------------------------------------------
(* What the measuring loop does with a pass: the detection is in `pass`,   *)
(* and the loop goes on, on this core or the next, until the run is over.  *)
Detected == pass # "clean"

ReportPass ==
    /\ pc = "report"
    /\ mode = "run"
    /\ pc' = IF passes < MaxPasses THEN "ready" ELSE "finished"
    /\ UNCHANGED <<fixedVars, core, passes, mapped, tp, armed, dirty, memset,
                   callVars, pass, stage, selftest, historyVars>>

(* sdc_rbx_self_test between its passes.                                   *)
SelfTestClean ==
    /\ pc = "report"
    /\ mode = "selftest" /\ stage = "clean"
    /\ selftest' = [selftest EXCEPT !.clean_pass_ok = ~Detected]
    /\ stage' = IF Detected THEN stage ELSE "inject"
    /\ pc' = IF Detected THEN "finished" ELSE "ready"
    /\ UNCHANGED <<fixedVars, core, passes, mapped, tp, armed, dirty, memset,
                   callVars, pass, historyVars>>

SelfTestInjected ==
    /\ pc = "report"
    /\ mode = "selftest" /\ stage = "inject"
    /\ memset' = "memset"
    /\ dirty' = dirty \ {"d_real_memset"}
    /\ selftest' = [selftest EXCEPT !.injected_caught = (pass = "faulted")]
    /\ stage' = "after"
    /\ pc' = "ready"
    /\ UNCHANGED <<fixedVars, core, passes, mapped, tp, armed, callVars, pass, historyVars>>

SelfTestAfter ==
    /\ pc = "report"
    /\ mode = "selftest" /\ stage = "after"
    /\ selftest' = [selftest EXCEPT !.recovered = ~Detected]
    /\ pc' = "finished"
    /\ UNCHANGED <<fixedVars, core, passes, mapped, tp, armed, dirty, memset,
                   callVars, pass, stage, historyVars>>

Over ==
    /\ pc \in {"refused", "finished", "dead"}
    /\ UNCHANGED vars

Prepare ==
    \/ NotSupported
    \/ FirstBuild
    \/ \E ok \in BOOLEAN :
        MapArena(ok) \/ MapShadow(ok) \/ InstallCapture(ok) \/ TryTp(ok)

Payload ==
    \/ HardwareFault
    \/ Inject
    \/ Mislead
    \/ Raise
    \/ \E r \in Regions : StrayWrite(r)
    \/ \E right \in BOOLEAN : Return(right)

RunPass ==
    \/ \E c \in 1..NCores : StartPass(c)
    \/ \E ok \in BOOLEAN : Enter(ok) \/ Land(ok) \/ HandleFault(ok)
    \/ Call
    \/ \E verdict \in Verdicts : EndPass(verdict)

Next ==
    \/ Prepare
    \/ RunPass
    \/ Payload
    \/ ToolFault
    \/ ReportPass
    \/ SelfTestClean
    \/ SelfTestInjected
    \/ SelfTestAfter
    \/ Over

Spec == Init /\ [][Next]_vars

-----------------------------------------------------------------------------
(* A pass the hardware did not disturb is counted as a detection only when *)
(* an earlier call went astray unnoticed, or has damaged what build_arena  *)
(* does not write: the payload's data, the expected hash or the program    *)
(* itself.  What a call did to the arena, the shadow or the thread area is *)
(* never counted a second time, on the next core least of all, and nothing *)
(* is counted before a first failure (a refused thread pointer,            *)
(* sdc_rbx_prepare).                                                       *)
DetectionHasACause ==
    (mode = "run" /\ pc = "report" /\ Detected /\ ~hit) =>
        /\ broken
        /\ silent \/ dirty \cap (PayloadData \cup {"g_expected_hash", "tool"}) # {}

(* A crash of the tool's own code between two passes is never taken for    *)
(* one of the payload: whatever reaches the landing was raised between     *)
(* sdc_fault_capture_arm and sdc_fault_capture_disarm, in the payload or   *)
(* in the few instructions that lead to it and back.                       *)
CrashIsNeverADetection ==
    pc = "landing" => raised_in \in {"payload", "call"}

(* On Linux an exception of the payload ends the process only when the     *)
(* call has destroyed the saved stack pointer or memory of the tool:       *)
(* otherwise sdc_rbx_call returns, pass after pass, and the run goes on.   *)
(* (On Windows a lost stack pointer is enough, as the README says.)        *)
DeathOnlyFromDamage ==
    (pc = "dead" /\ platform = "linux") => dirty \cap {"saved_rsp", "tool"} # {}

(* On sound hardware the self-test's last pass is clean again whatever the *)
(* injected call did to the arena, the shadow or the thread area, caught   *)
(* or not (sdc_rbx_self_test's recovered).  Only an injected call that     *)
(* nobody noticed, or that has overwritten runtime data, the expected hash *)
(* or the program itself, leaves anything to find.                         *)
SelfTestRecovers ==
    (mode = "selftest" /\ pc = "finished" /\ stage = "after" /\ ~broken) =>
        \/ selftest.recovered \/ silent
        \/ dirty \cap {"d_runtime", "g_expected_hash", "tool"} # {}

(* A probe that is refused keeps both fixed mappings or none: the arena    *)
(* does not stay mapped when its shadow cannot be (sdc_rbx_prepare).       *)
NoHalfPreparation ==
    pc = "refused" => mapped \in {{}, {"arena", "shadow"}}

(* What the header says of sdc_rbx_run_pass: after a faulted pass nothing  *)
(* the broken call wrote survives into the next.                           *)
NothingSurvives ==
    (pc = "ready" /\ pass = "faulted") => dirty \cap (Rebuilt \cup PayloadData) = {}

=============================================================================
