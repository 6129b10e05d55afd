--------------------------- MODULE RbxProbeProofs ---------------------------
(***************************************************************************)
(* The invariants of the rbx machinery, for any number of passes and cores *)
(* and on either system.                                                   *)
(***************************************************************************)
EXTENDS RbxProbe, TLAPS

(* The steps of sdc_rbx_prepare.                                           *)
Preparing == {"prepare", "map_shadow", "install", "try_tp", "build"}

(* The type invariant, in two parts.                                       *)
Values ==
    /\ platform \in {"linux", "windows"} /\ mode \in {"run", "selftest"}
    /\ tp \in {"own", "payload"}
    /\ dirty \subseteq Regions
    /\ pass \in Verdicts
    /\ selftest \in [clean_pass_ok : BOOLEAN, injected_caught : BOOLEAN, recovered : BOOLEAN]
Flags ==
    /\ armed \in BOOLEAN
    /\ astray \in BOOLEAN /\ expected_ok \in BOOLEAN /\ hash_ok \in BOOLEAN /\ faulted \in BOOLEAN
    /\ hit \in BOOLEAN /\ broken \in BOOLEAN /\ silent \in BOOLEAN
(* The type invariant.                                                     *)
TypeOK == Values /\ Flags

(* The mappings held, at each step of sdc_rbx_prepare.                     *)
Mappings ==
    /\ pc = "prepare" => mapped = {}
    /\ pc = "map_shadow" => mapped = {"arena"}
    /\ pc = "refused" => mapped \in {{}, {"arena", "shadow"}}
    /\ pc \in {"install", "try_tp", "build"} => mapped = {"arena", "shadow"}

(* The record is set only while the payload runs, or has just ended.       *)
Arming ==
    /\ armed => pc \in {"payload", "exception", "returned", "dead"}
    /\ pc = "payload" => armed
    /\ (pc = "exception" /\ armed) \/ pc = "landing" => raised_in \in {"payload", "call"}

(* An exception that no record waits for comes from what was overwritten.  *)
Damage ==
    (pc = "exception" /\ ~armed) \/ (pc = "dead" /\ platform = "linux")
        => dirty \cap {"saved_rsp", "tool"} # {}

(* Once it has been set, Linux keeps the payload's thread pointer.         *)
ThreadPointer ==
    pc \notin {"prepare", "map_shadow", "install", "try_tp", "refused"} /\ platform = "linux"
        => tp = "payload"

(* Up to its report, a pass that went astray.                              *)
InPass ==
    \/ pc \in {"payload", "landing", "returned", "report"}
    \/ pc = "exception" /\ raised_in # "tool"
Astray == InPass /\ astray

(* A pass that has not gone astray finds the memory build_arena writes as  *)
(* build_arena left it, unless a stray call went unnoticed.                *)
Rebuild ==
    /\ pc \in Preparing => dirty = Rebuilt /\ ~silent
    /\ \/ pc \in {"ready", "enter", "call", "report"}
       \/ pc \in {"payload", "returned", "exception", "landing"} /\ ~astray
       => (dirty \cap Rebuilt # {} => silent)

(* What sdc_rbx_call returned and what its pass was found to be, against   *)
(* what happened in it.                                                    *)
Outcome ==
    /\ ~expected_ok => "g_expected_hash" \in dirty
    /\ pc \in {"exception", "landing"} =>
          /\ raised_in = "payload" => astray
          /\ raised_in = "call" => "tool" \in dirty
    /\ pc = "returned" /\ (faulted \/ ~hash_ok) => astray \/ "tool" \in dirty
    /\ pc = "report" /\ Detected =>
          astray \/ "g_expected_hash" \in dirty \/ "tool" \in dirty

(* Nothing is wrong before the hardware fails for the first time, and a    *)
(* pass goes astray for its own fault or for what is left of another.      *)
Cause ==
    mode = "run" =>
        /\ memset = "memset"
        /\ hit => broken
        /\ silent \/ Astray => broken
        /\ pc \notin Preparing /\ pc # "refused" /\ dirty # {} => broken
        /\ Astray /\ ~hit => silent \/ dirty \cap PayloadData # {}

(* The self-test's last pass, on sound hardware.                           *)
Recovery ==
    mode = "selftest" /\ stage = "after" /\ ~broken =>
        /\ memset = "memset"
        /\ pc \in {"ready", "enter", "call"} \/ (pc = "payload" /\ ~astray)
             => "d_real_memset" \notin dirty
        /\ Astray => silent \/ "d_runtime" \in dirty
        /\ pc = "finished" =>
              \/ selftest.recovered \/ silent
              \/ dirty \cap {"d_runtime", "g_expected_hash", "tool"} # {}
        /\ pc \notin Preparing

(* The inductive invariant.                                                *)
IInv ==
    /\ TypeOK /\ Mappings /\ Arming /\ Damage /\ ThreadPointer
    /\ Rebuild /\ Outcome /\ Cause /\ Recovery


(* One step of the machinery, action by action.                            *)
LEMMA StepKept ==
    ASSUME IInv, [Next]_vars PROVE IInv'
<1> USE DEF Regions, Verdicts, Rebuilt, PayloadData, Preparing, InPass, Astray, Detected,
            fixedVars, callVars, historyVars
<1>1. CASE NotSupported
  <2>1. TypeOK'
    BY <1>1 DEF IInv, TypeOK, Values, Flags, NotSupported
  <2>2. Mappings' /\ Arming' /\ Damage' /\ ThreadPointer'
    BY <1>1 DEF IInv, TypeOK, Values, Flags, Mappings, Arming, Damage,
       ThreadPointer, NotSupported
  <2>3. Rebuild' /\ Outcome'
    BY <1>1 DEF IInv, TypeOK, Values, Flags, Arming, ThreadPointer, Rebuild, Outcome,
       NotSupported
  <2>4. Cause' /\ Recovery'
    BY <1>1 DEF IInv, TypeOK, Values, Flags, Arming, ThreadPointer, Rebuild, Outcome,
       Cause, Recovery, NotSupported
  <2> QED  BY <2>1, <2>2, <2>3, <2>4 DEF IInv
<1>2. ASSUME NEW ok \in BOOLEAN, MapArena(ok) PROVE IInv'
  <2>1. TypeOK'
    BY <1>2 DEF IInv, TypeOK, Values, Flags, MapArena
  <2>2. Mappings' /\ Arming' /\ Damage' /\ ThreadPointer'
    BY <1>2 DEF IInv, TypeOK, Values, Flags, Mappings, Arming, Damage,
       ThreadPointer, MapArena
  <2>3. Rebuild' /\ Outcome'
    BY <1>2 DEF IInv, TypeOK, Values, Flags, Arming, ThreadPointer, Rebuild, Outcome,
       MapArena
  <2>4. Cause' /\ Recovery'
    BY <1>2 DEF IInv, TypeOK, Values, Flags, Arming, ThreadPointer, Rebuild, Outcome,
       Cause, Recovery, MapArena
  <2> QED  BY <2>1, <2>2, <2>3, <2>4 DEF IInv
<1>3. ASSUME NEW ok \in BOOLEAN, MapShadow(ok) PROVE IInv'
  <2>1. TypeOK'
    BY <1>3 DEF IInv, TypeOK, Values, Flags, MapShadow
  <2>2. Mappings' /\ Arming' /\ Damage' /\ ThreadPointer'
    BY <1>3 DEF IInv, TypeOK, Values, Flags, Mappings, Arming, Damage,
       ThreadPointer, MapShadow
  <2>3. Rebuild' /\ Outcome'
    BY <1>3 DEF IInv, TypeOK, Values, Flags, Arming, ThreadPointer, Rebuild, Outcome,
       MapShadow
  <2>4. Cause' /\ Recovery'
    BY <1>3 DEF IInv, TypeOK, Values, Flags, Arming, ThreadPointer, Rebuild, Outcome,
       Cause, Recovery, MapShadow
  <2> QED  BY <2>1, <2>2, <2>3, <2>4 DEF IInv
<1>4. ASSUME NEW ok \in BOOLEAN, InstallCapture(ok) PROVE IInv'
  <2>1. TypeOK'
    BY <1>4 DEF IInv, TypeOK, Values, Flags, InstallCapture
  <2>2. Mappings' /\ Arming' /\ Damage' /\ ThreadPointer'
    BY <1>4 DEF IInv, TypeOK, Values, Flags, Mappings, Arming, Damage,
       ThreadPointer, InstallCapture
  <2>3. Rebuild' /\ Outcome'
    BY <1>4 DEF IInv, TypeOK, Values, Flags, Arming, ThreadPointer, Rebuild, Outcome,
       InstallCapture
  <2>4. Cause' /\ Recovery'
    BY <1>4 DEF IInv, TypeOK, Values, Flags, Arming, ThreadPointer, Rebuild, Outcome,
       Cause, Recovery, InstallCapture
  <2> QED  BY <2>1, <2>2, <2>3, <2>4 DEF IInv
<1>5. ASSUME NEW ok \in BOOLEAN, TryTp(ok) PROVE IInv'
  <2>1. TypeOK'
    BY <1>5 DEF IInv, TypeOK, Values, Flags, TryTp, AfterTpLeave
  <2>2. Mappings' /\ Arming' /\ Damage' /\ ThreadPointer'
    BY <1>5 DEF IInv, TypeOK, Values, Flags, Mappings, Arming, Damage,
       ThreadPointer, TryTp, AfterTpLeave
  <2>3. Rebuild' /\ Outcome'
    BY <1>5 DEF IInv, TypeOK, Values, Flags, Arming, ThreadPointer, Rebuild, Outcome,
       TryTp, AfterTpLeave
  <2>4. Cause' /\ Recovery'
    BY <1>5 DEF IInv, TypeOK, Values, Flags, Arming, ThreadPointer, Rebuild, Outcome,
       Cause, Recovery, TryTp, AfterTpLeave
  <2> QED  BY <2>1, <2>2, <2>3, <2>4 DEF IInv
<1>6. CASE FirstBuild
  <2>1. TypeOK'
    BY <1>6 DEF IInv, TypeOK, Values, Flags, FirstBuild, AfterBuildArena
  <2>2. Mappings' /\ Arming' /\ Damage' /\ ThreadPointer'
    BY <1>6 DEF IInv, TypeOK, Values, Flags, Mappings, Arming, Damage,
       ThreadPointer, FirstBuild, AfterBuildArena
  <2>3. Rebuild' /\ Outcome'
    BY <1>6 DEF IInv, TypeOK, Values, Flags, Arming, ThreadPointer, Rebuild, Outcome,
       FirstBuild, AfterBuildArena
  <2>4. Cause' /\ Recovery'
    BY <1>6 DEF IInv, TypeOK, Values, Flags, Arming, ThreadPointer, Rebuild, Outcome,
       Cause, Recovery, FirstBuild, AfterBuildArena
  <2> QED  BY <2>1, <2>2, <2>3, <2>4 DEF IInv
<1>7. ASSUME NEW c \in 1..NCores, StartPass(c) PROVE IInv'
  <2>1. TypeOK'
    BY <1>7 DEF IInv, TypeOK, Values, Flags, StartPass
  <2>2. Mappings' /\ Arming' /\ Damage' /\ ThreadPointer'
    BY <1>7 DEF IInv, TypeOK, Values, Flags, Mappings, Arming, Damage,
       ThreadPointer, StartPass
  <2>3. Rebuild' /\ Outcome'
    BY <1>7 DEF IInv, TypeOK, Values, Flags, Arming, ThreadPointer, Rebuild, Outcome,
       StartPass
  <2>4. Cause' /\ Recovery'
    BY <1>7 DEF IInv, TypeOK, Values, Flags, Arming, ThreadPointer, Rebuild, Outcome,
       Cause, Recovery, StartPass
  <2> QED  BY <2>1, <2>2, <2>3, <2>4 DEF IInv
<1>8. ASSUME NEW ok \in BOOLEAN, Enter(ok) PROVE IInv'
  <2>1. TypeOK'
    <3>1. Values'  BY <1>8 DEF IInv, TypeOK, Values, Enter, TpEnter
    <3>2. Flags'  BY <1>8 DEF IInv, TypeOK, Flags, Enter, TpEnter
    <3> QED  BY <3>1, <3>2 DEF TypeOK
  <2>2. Mappings' /\ Arming' /\ Damage' /\ ThreadPointer'
    BY <1>8 DEF IInv, TypeOK, Values, Flags, Mappings, Arming, Damage,
       ThreadPointer, Enter, TpEnter
  <2>3. Rebuild' /\ Outcome'
    BY <1>8 DEF IInv, TypeOK, Values, Flags, Arming, ThreadPointer, Rebuild, Outcome,
       Enter, TpEnter
  <2>4. Cause' /\ Recovery'
    BY <1>8 DEF IInv, TypeOK, Values, Flags, Arming, ThreadPointer, Rebuild, Outcome,
       Cause, Recovery, Enter, TpEnter
  <2> QED  BY <2>1, <2>2, <2>3, <2>4 DEF IInv
<1>9. CASE Call
  <2>1. TypeOK'
    <3>1. Values'  BY <1>9 DEF IInv, TypeOK, Values, Call
    <3>2. Flags'  BY <1>9 DEF IInv, TypeOK, Flags, Call
    <3> QED  BY <3>1, <3>2 DEF TypeOK
  <2>2. Mappings' /\ Arming' /\ Damage' /\ ThreadPointer'
    BY <1>9 DEF IInv, TypeOK, Values, Flags, Mappings, Arming, Damage,
       ThreadPointer, Call
  <2>3. Rebuild' /\ Outcome'
    BY <1>9 DEF IInv, TypeOK, Values, Flags, Arming, ThreadPointer, Rebuild, Outcome,
       Call
  <2>4. Cause' /\ Recovery'
    BY <1>9 DEF IInv, TypeOK, Values, Flags, Arming, ThreadPointer, Rebuild, Outcome,
       Cause, Recovery, Call
  <2> QED  BY <2>1, <2>2, <2>3, <2>4 DEF IInv
<1>10. CASE HardwareFault
  <2>1. TypeOK'
    BY <1>10 DEF IInv, TypeOK, Values, Flags, HardwareFault
  <2>2. Mappings' /\ Arming' /\ Damage' /\ ThreadPointer'
    BY <1>10 DEF IInv, TypeOK, Values, Flags, Mappings, Arming, Damage,
       ThreadPointer, HardwareFault
  <2>3. Rebuild' /\ Outcome'
    BY <1>10 DEF IInv, TypeOK, Values, Flags, Arming, ThreadPointer, Rebuild, Outcome,
       HardwareFault
  <2>4. Cause' /\ Recovery'
    BY <1>10 DEF IInv, TypeOK, Values, Flags, Arming, ThreadPointer, Rebuild, Outcome,
       Cause, Recovery, HardwareFault
  <2> QED  BY <2>1, <2>2, <2>3, <2>4 DEF IInv
<1>11. CASE Inject
  <2>1. TypeOK'
    BY <1>11 DEF IInv, TypeOK, Values, Flags, Inject
  <2>2. Mappings' /\ Arming' /\ Damage' /\ ThreadPointer'
    BY <1>11 DEF IInv, TypeOK, Values, Flags, Mappings, Arming, Damage,
       ThreadPointer, Inject
  <2>3. Rebuild' /\ Outcome'
    BY <1>11 DEF IInv, TypeOK, Values, Flags, Arming, ThreadPointer, Rebuild, Outcome,
       Inject
  <2>4. Cause' /\ Recovery'
    BY <1>11 DEF IInv, TypeOK, Values, Flags, Arming, ThreadPointer, Rebuild, Outcome,
       Cause, Recovery, Inject
  <2> QED  BY <2>1, <2>2, <2>3, <2>4 DEF IInv
<1>12. CASE Mislead
  <2>1. TypeOK'
    BY <1>12 DEF IInv, TypeOK, Values, Flags, Mislead
  <2>2. Mappings' /\ Arming' /\ Damage' /\ ThreadPointer'
    BY <1>12 DEF IInv, TypeOK, Values, Flags, Mappings, Arming, Damage,
       ThreadPointer, Mislead
  <2>3. Rebuild' /\ Outcome'
    BY <1>12 DEF IInv, TypeOK, Values, Flags, Arming, ThreadPointer, Rebuild, Outcome,
       Mislead
  <2>4. Cause' /\ Recovery'
    BY <1>12 DEF IInv, TypeOK, Values, Flags, Arming, ThreadPointer, Rebuild, Outcome,
       Cause, Recovery, Mislead
  <2> QED  BY <2>1, <2>2, <2>3, <2>4 DEF IInv
<1>13. ASSUME NEW r \in Regions, StrayWrite(r) PROVE IInv'
  <2>1. TypeOK'
    BY <1>13 DEF IInv, TypeOK, Values, Flags, StrayWrite
  <2>2. Mappings' /\ Arming' /\ Damage' /\ ThreadPointer'
    BY <1>13 DEF IInv, TypeOK, Values, Flags, Mappings, Arming, Damage,
       ThreadPointer, StrayWrite
  <2>3. Rebuild' /\ Outcome'
    BY <1>13 DEF IInv, TypeOK, Values, Flags, Arming, ThreadPointer, Rebuild, Outcome,
       StrayWrite
  <2>4. Cause' /\ Recovery'
    BY <1>13 DEF IInv, TypeOK, Values, Flags, Arming, ThreadPointer, Rebuild, Outcome,
       Cause, Recovery, StrayWrite
  <2> QED  BY <2>1, <2>2, <2>3, <2>4 DEF IInv
<1>14. CASE Raise
  <2>1. TypeOK'
    BY <1>14 DEF IInv, TypeOK, Values, Flags, Raise
  <2>2. Mappings' /\ Arming' /\ Damage' /\ ThreadPointer'
    BY <1>14 DEF IInv, TypeOK, Values, Flags, Mappings, Arming, Damage,
       ThreadPointer, Raise
  <2>3. Rebuild' /\ Outcome'
    BY <1>14 DEF IInv, TypeOK, Values, Flags, Arming, ThreadPointer, Rebuild, Outcome,
       Raise
  <2>4. Cause' /\ Recovery'
    BY <1>14 DEF IInv, TypeOK, Values, Flags, Arming, ThreadPointer, Rebuild, Outcome,
       Cause, Recovery, Raise
  <2> QED  BY <2>1, <2>2, <2>3, <2>4 DEF IInv
<1>15. ASSUME NEW right \in BOOLEAN, Return(right) PROVE IInv'
  <2>1. TypeOK'
    <3>1. Values'  BY <1>15 DEF IInv, TypeOK, Values, Return
    <3>2. Flags'  BY <1>15 DEF IInv, TypeOK, Flags, Return
    <3> QED  BY <3>1, <3>2 DEF TypeOK
  <2>2. Mappings' /\ Arming' /\ Damage' /\ ThreadPointer'
    BY <1>15 DEF IInv, TypeOK, Values, Flags, Mappings, Arming, Damage,
       ThreadPointer, Return
  <2>3. Rebuild' /\ Outcome'
    BY <1>15 DEF IInv, TypeOK, Values, Flags, Arming, ThreadPointer, Rebuild, Outcome,
       Return
  <2>4. Cause' /\ Recovery'
    BY <1>15 DEF IInv, TypeOK, Values, Flags, Arming, ThreadPointer, Rebuild, Outcome,
       Cause, Recovery, Return
  <2> QED  BY <2>1, <2>2, <2>3, <2>4 DEF IInv
<1>16. CASE ToolFault
  <2>1. TypeOK'
    BY <1>16 DEF IInv, TypeOK, Values, Flags, ToolFault
  <2>2. Mappings' /\ Arming' /\ Damage' /\ ThreadPointer'
    BY <1>16 DEF IInv, TypeOK, Values, Flags, Mappings, Arming, Damage,
       ThreadPointer, ToolFault
  <2>3. Rebuild' /\ Outcome'
    BY <1>16 DEF IInv, TypeOK, Values, Flags, Arming, ThreadPointer, Rebuild, Outcome,
       ToolFault
  <2>4. Cause' /\ Recovery'
    BY <1>16 DEF IInv, TypeOK, Values, Flags, Arming, ThreadPointer, Rebuild, Outcome,
       Cause, Recovery, ToolFault
  <2> QED  BY <2>1, <2>2, <2>3, <2>4 DEF IInv
<1>17. ASSUME NEW ok \in BOOLEAN, HandleFault(ok) PROVE IInv'
  <2>1. TypeOK'
    BY <1>17 DEF IInv, TypeOK, Values, Flags, HandleFault
  <2>2. Mappings' /\ Arming' /\ Damage' /\ ThreadPointer'
    BY <1>17 DEF IInv, TypeOK, Values, Flags, Mappings, Arming, Damage,
       ThreadPointer, HandleFault
  <2>3. Rebuild' /\ Outcome'
    BY <1>17 DEF IInv, TypeOK, Values, Flags, Arming, ThreadPointer, Rebuild, Outcome,
       HandleFault
  <2>4. Cause' /\ Recovery'
    BY <1>17 DEF IInv, TypeOK, Values, Flags, Arming, ThreadPointer, Rebuild, Outcome,
       Cause, Recovery, HandleFault
  <2> QED  BY <2>1, <2>2, <2>3, <2>4 DEF IInv
<1>18. ASSUME NEW ok \in BOOLEAN, Land(ok) PROVE IInv'
  <2>1. TypeOK'
    BY <1>18 DEF IInv, TypeOK, Values, Flags, Land
  <2>2. Mappings' /\ Arming' /\ Damage' /\ ThreadPointer'
    BY <1>18 DEF IInv, TypeOK, Values, Flags, Mappings, Arming, Damage,
       ThreadPointer, Land
  <2>3. Rebuild' /\ Outcome'
    BY <1>18 DEF IInv, TypeOK, Values, Flags, Arming, ThreadPointer, Rebuild, Outcome,
       Land
  <2>4. Cause' /\ Recovery'
    BY <1>18 DEF IInv, TypeOK, Values, Flags, Arming, ThreadPointer, Rebuild, Outcome,
       Cause, Recovery, Land
  <2> QED  BY <2>1, <2>2, <2>3, <2>4 DEF IInv
<1>19. ASSUME NEW verdict \in Verdicts, EndPass(verdict) PROVE IInv'
  <2>1. TypeOK'
    <3>1. Values'
      BY <1>19 DEF IInv, TypeOK, Values, EndPass, AfterBuildArena, AfterTpLeave
    <3>2. silent' \in BOOLEAN
      BY <1>19, Zenon DEF IInv, TypeOK, Flags, EndPass
    <3>3. Flags'
      BY <1>19, <3>2 DEF IInv, TypeOK, Flags, EndPass
    <3> QED  BY <3>1, <3>3 DEF TypeOK
  <2>2. Mappings' /\ Arming' /\ Damage' /\ ThreadPointer'
    BY <1>19 DEF IInv, TypeOK, Values, Flags, Mappings, Arming, Damage,
       ThreadPointer, EndPass, AfterBuildArena, AfterTpLeave
  <2>3. Rebuild' /\ Outcome'
    BY <1>19 DEF IInv, TypeOK, Values, Flags, Arming, ThreadPointer, Rebuild, Outcome,
       EndPass, Findings, AfterBuildArena, AfterTpLeave
  <2>4. Cause' /\ Recovery'
    BY <1>19 DEF IInv, TypeOK, Values, Flags, Arming, ThreadPointer, Rebuild, Outcome,
       Cause, Recovery, EndPass, AfterBuildArena, AfterTpLeave
  <2> QED  BY <2>1, <2>2, <2>3, <2>4 DEF IInv
<1>20. CASE ReportPass
  <2>1. TypeOK'
    BY <1>20 DEF IInv, TypeOK, Values, Flags, ReportPass
  <2>2. Mappings' /\ Arming' /\ Damage' /\ ThreadPointer'
    BY <1>20 DEF IInv, TypeOK, Values, Flags, Mappings, Arming, Damage,
       ThreadPointer, ReportPass
  <2>3. Rebuild' /\ Outcome'
    BY <1>20 DEF IInv, TypeOK, Values, Flags, Arming, ThreadPointer, Rebuild, Outcome,
       ReportPass
  <2>4. Cause' /\ Recovery'
    BY <1>20 DEF IInv, TypeOK, Values, Flags, Arming, ThreadPointer, Rebuild, Outcome,
       Cause, Recovery, ReportPass
  <2> QED  BY <2>1, <2>2, <2>3, <2>4 DEF IInv
<1>21. CASE SelfTestClean
  <2>b. (~Detected) \in BOOLEAN  BY Zenon
  <2>a. selftest' \in [clean_pass_ok : BOOLEAN, injected_caught : BOOLEAN, recovered : BOOLEAN]
    BY <1>21, <2>b DEF IInv, TypeOK, Values, SelfTestClean
  <2>1. TypeOK'
    BY <1>21, <2>a DEF IInv, TypeOK, Values, Flags, SelfTestClean
  <2>2. Mappings' /\ Arming' /\ Damage' /\ ThreadPointer'
    BY <1>21 DEF IInv, TypeOK, Values, Flags, Mappings, Arming, Damage,
       ThreadPointer, SelfTestClean
  <2>3. Rebuild' /\ Outcome'
    BY <1>21 DEF IInv, TypeOK, Values, Flags, Arming, ThreadPointer, Rebuild, Outcome,
       SelfTestClean
  <2>4. Cause' /\ Recovery'
    BY <1>21 DEF IInv, TypeOK, Values, Flags, Arming, ThreadPointer, Rebuild, Outcome,
       Cause, Recovery, SelfTestClean
  <2> QED  BY <2>1, <2>2, <2>3, <2>4 DEF IInv
<1>22. CASE SelfTestInjected
  <2>b. (pass = "faulted") \in BOOLEAN  BY Zenon
  <2>a. selftest' \in [clean_pass_ok : BOOLEAN, injected_caught : BOOLEAN, recovered : BOOLEAN]
    BY <1>22, <2>b DEF IInv, TypeOK, Values, SelfTestInjected
  <2>1. TypeOK'
    BY <1>22, <2>a DEF IInv, TypeOK, Values, Flags, SelfTestInjected
  <2>2. Mappings' /\ Arming' /\ Damage' /\ ThreadPointer'
    BY <1>22 DEF IInv, TypeOK, Values, Flags, Mappings, Arming, Damage,
       ThreadPointer, SelfTestInjected
  <2>3. Rebuild' /\ Outcome'
    BY <1>22 DEF IInv, TypeOK, Values, Flags, Arming, ThreadPointer, Rebuild, Outcome,
       SelfTestInjected
  <2>4. Cause' /\ Recovery'
    BY <1>22 DEF IInv, TypeOK, Values, Flags, Arming, ThreadPointer, Rebuild, Outcome,
       Cause, Recovery, SelfTestInjected
  <2> QED  BY <2>1, <2>2, <2>3, <2>4 DEF IInv
<1>23. CASE SelfTestAfter
  <2>b. (~Detected) \in BOOLEAN  BY Zenon
  <2>a. selftest' \in [clean_pass_ok : BOOLEAN, injected_caught : BOOLEAN, recovered : BOOLEAN]
    BY <1>23, <2>b DEF IInv, TypeOK, Values, SelfTestAfter
  <2>1. TypeOK'
    BY <1>23, <2>a DEF IInv, TypeOK, Values, Flags, SelfTestAfter
  <2>2. Mappings' /\ Arming' /\ Damage' /\ ThreadPointer'
    BY <1>23 DEF IInv, TypeOK, Values, Flags, Mappings, Arming, Damage,
       ThreadPointer, SelfTestAfter
  <2>3. Rebuild' /\ Outcome'
    BY <1>23 DEF IInv, TypeOK, Values, Flags, Arming, ThreadPointer, Rebuild, Outcome,
       SelfTestAfter
  <2>4. Cause' /\ Recovery'
    BY <1>23 DEF IInv, TypeOK, Values, Flags, Arming, ThreadPointer, Rebuild, Outcome,
       Cause, Recovery, SelfTestAfter
  <2> QED  BY <2>1, <2>2, <2>3, <2>4 DEF IInv
<1>24. CASE UNCHANGED vars
  BY <1>24 DEF vars, IInv, TypeOK, Values, Flags, Mappings, Arming, Damage,
     ThreadPointer, Rebuild, Outcome, Cause, Recovery
<1> QED
  BY <1>1, <1>2, <1>3, <1>4, <1>5, <1>6, <1>7, <1>8, <1>9, <1>10, <1>11,
     <1>12, <1>13, <1>14, <1>15, <1>16, <1>17, <1>18, <1>19, <1>20, <1>21,
     <1>22, <1>23, <1>24
  DEF Next, Prepare, RunPass, Payload, Over

(* Before the preparation.                                                 *)
LEMMA InitHolds == Init => IInv
<1> SUFFICES ASSUME Init PROVE IInv  OBVIOUS
<1> USE DEF Init
<1>1. TypeOK
  BY PlatformAssumption, ModeAssumption
  DEF TypeOK, Values, Flags, Verdicts, Regions, Rebuilt
<1>2. Mappings /\ Arming /\ Damage /\ ThreadPointer
  BY DEF Mappings, Arming, Damage, ThreadPointer
<1>3. Rebuild /\ Outcome  BY DEF Rebuild, Outcome
<1>4. Cause /\ Recovery
  BY DEF Cause, Recovery, Preparing, Astray, InPass
<1> QED  BY <1>1, <1>2, <1>3, <1>4 DEF IInv

(* The account of the machinery is an invariant, for any number of passes  *)
(* spread over any number of cores, on Linux and on Windows.               *)
THEOREM MachineryInvariant == Spec => []IInv
<1>1. IInv /\ [Next]_vars => IInv'  BY StepKept
<1> QED  BY InitHolds, <1>1, PTL DEF Spec

(* A pass counted as a detection that the hardware did not disturb has its *)
(* cause in an earlier failure of it that nobody noticed, or in memory     *)
(* that build_arena does not write: the payload's data, the expected hash, *)
(* the program itself.                                                     *)
THEOREM EveryDetectionHasACause == Spec => []DetectionHasACause
<1>1. IInv => DetectionHasACause
  BY DEF IInv, Outcome, Cause, DetectionHasACause, Astray, InPass, Detected,
     Preparing
<1> QED  BY MachineryInvariant, <1>1, PTL

(* What reaches the landing was raised between arm and disarm, by the      *)
(* payload or by the code that calls it.                                   *)
THEOREM LandingIsThePayloads == Spec => []CrashIsNeverADetection
<1>1. IInv => CrashIsNeverADetection  BY DEF IInv, Arming, CrashIsNeverADetection
<1> QED  BY MachineryInvariant, <1>1, PTL

(* On Linux the process outlives every call that leaves the saved stack    *)
(* pointer and the tool's own memory alone.                                *)
THEOREM OnlyDamageKills == Spec => []DeathOnlyFromDamage
<1>1. IInv => DeathOnlyFromDamage  BY DEF IInv, Damage, DeathOnlyFromDamage
<1> QED  BY MachineryInvariant, <1>1, PTL

(* The self-test ends recovered on sound hardware, unless the injected     *)
(* call went unnoticed or has overwritten the runtime's data, the expected *)
(* hash or the program itself.                                             *)
THEOREM SelfTestEndsRecovered == Spec => []SelfTestRecovers
<1>1. IInv => SelfTestRecovers  BY DEF IInv, Recovery, SelfTestRecovers
<1> QED  BY MachineryInvariant, <1>1, PTL

(* A refused probe holds both fixed mappings or none.                      *)
THEOREM RefusalHoldsBothOrNone == Spec => []NoHalfPreparation
<1>1. IInv => NoHalfPreparation  BY DEF IInv, Mappings, NoHalfPreparation
<1> QED  BY MachineryInvariant, <1>1, PTL

=============================================================================
