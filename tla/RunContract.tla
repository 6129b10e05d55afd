---------------------------- MODULE RunContract ----------------------------
(***************************************************************************)
(* What one measuring run on one core promises the sweep, whichever probe  *)
(* it is (run_on_current_cpu for ch, run_rbx_on_current_cpu for rbx).      *)
(*                                                                         *)
(* A run is a loop of rounds.  Before every round the loop first looks at  *)
(* the clock and then at the interrupt flag; once past the flag it always  *)
(* completes the round.  The clock is not visible here: a run simply may   *)
(* expire once it has completed a round.  CoreRun models the loop with its *)
(* clock and is shown to implement this specification; Sweep composes this *)
(* specification with main's loop over the cores.                          *)
(***************************************************************************)
EXTENDS Naturals

CONSTANT MaxRounds     \* no run completes more rounds than this

ASSUME MaxRoundsAssumption == MaxRounds \in Nat \ {0}

VARIABLES
    g_interrupt,       \* the flag the Ctrl+C handler raises; never lowered
    at,                \* where the current run is
    rounds,            \* result.rounds / result.passes
    detections,        \* result.detections
    run_interrupted    \* result.interrupted

runVars == <<at, rounds, detections, run_interrupted>>
contractVars == <<g_interrupt, at, rounds, detections, run_interrupted>>

RunPlaces == {"idle", "running", "measuring", "ended"}

ContractTypeOK ==
    /\ g_interrupt \in BOOLEAN
    /\ at \in RunPlaces
    /\ rounds \in 0..MaxRounds
    /\ detections \in 0..MaxRounds
    /\ run_interrupted \in BOOLEAN

ContractInit ==
    /\ g_interrupt = FALSE
    /\ at = "idle"
    /\ rounds = 0
    /\ detections = 0
    /\ run_interrupted = FALSE

-----------------------------------------------------------------------------
(* The handler: it may run between any two steps of the program.           *)
Interrupt ==
    /\ ~g_interrupt
    /\ g_interrupt' = TRUE
    /\ UNCHANGED runVars

(* A fresh result, whatever the previous run left.                         *)
Begin ==
    /\ at \in {"idle", "ended"}
    /\ at' = "running"
    /\ rounds' = 0
    /\ detections' = 0
    /\ run_interrupted' = FALSE
    /\ UNCHANGED g_interrupt

(* The flag is down: commit to one more round.                             *)
Poll ==
    /\ at = "running"
    /\ rounds < MaxRounds
    /\ ~g_interrupt
    /\ at' = "measuring"
    /\ UNCHANGED <<g_interrupt, rounds, detections, run_interrupted>>

(* The flag is up: leave the loop and say so.                              *)
Stop ==
    /\ at = "running"
    /\ g_interrupt
    /\ at' = "ended"
    /\ run_interrupted' = TRUE
    /\ UNCHANGED <<g_interrupt, rounds, detections>>

(* The deadline has passed.  A run that expires has measured something.    *)
Expire ==
    /\ at = "running"
    /\ rounds > 0
    /\ at' = "ended"
    /\ UNCHANGED <<g_interrupt, rounds, detections, run_interrupted>>

(* One whole round; a faulty one is counted, and counted once.             *)
Round(faulty) ==
    /\ at = "measuring"
    /\ at' = "running"
    /\ rounds' = rounds + 1
    /\ detections' = IF faulty THEN detections + 1 ELSE detections
    /\ UNCHANGED <<g_interrupt, run_interrupted>>

RunStep == Poll \/ Stop \/ Expire \/ \E faulty \in BOOLEAN : Round(faulty)

ContractNext == Interrupt \/ Begin \/ RunStep

ContractSpec ==
    /\ ContractInit
    /\ [][ContractNext]_contractVars
    /\ WF_contractVars(RunStep)

=============================================================================
