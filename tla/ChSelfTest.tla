---------------------------- MODULE ChSelfTest ----------------------------
(***************************************************************************)
(* self_test: the analysis of ChRound run on misreads that are injected.   *)
(* Case 0 is a real round, on hardware that may fail during it; in each    *)
(* case after it the register hash is replaced by the hash of a stream     *)
(* with a byte substituted (two in the last case), and reverse_fnv is      *)
(* called with that.  To the analysis such a case is a round in which      *)
(* those bytes were misread, and the history variables say so.             *)
(***************************************************************************)
EXTENDS ChRound, Sequences

CONSTANTS
    InnerSample,             \* 16610
    OtherByte,               \* 0x5d
    FirstByte, SecondByte,   \* lane 1 of sample 1000, lane 2 of sample 50000
    Pattern                  \* 0x5a

ASSUME InjectionAssumption ==
    /\ SampleCount >= 2 /\ LaneCount >= 2
    /\ InnerSample \in 0..SampleCount - 1
    /\ OtherByte \in Byte \ {0}
    /\ Pattern \in Byte \ {0}
    /\ FirstByte \in 0..N - 1 /\ SecondByte \in 0..N - 1
    /\ FirstByte < SecondByte

OneInjection(sample, lane, replacement) ==
    [sample_index |-> sample, lane |-> lane % LaneCount, replacement |-> replacement]

Injections_SameByte == <<
    OneInjection(0, 0, 0), OneInjection(0, 1, 0),
    OneInjection(1, 2, 0), OneInjection(1, 3, 0),
    OneInjection(InnerSample, 1, 0), OneInjection(InnerSample, 1, 0),
    OneInjection(SampleCount \div 2, 2, ByteSize - 1),
    OneInjection(SampleCount - 1, 3, 0) >>
Injections == <<
    OneInjection(0, 0, 0), OneInjection(0, 1, 0),
    OneInjection(1, 2, 0), OneInjection(1, 3, 0),
    OneInjection(InnerSample, 1, 0), OneInjection(InnerSample, 1, OtherByte),
    OneInjection(SampleCount \div 2, 2, ByteSize - 1),
    OneInjection(SampleCount - 1, 3, 0) >>

LastCase == Len(Injections) + 1      \* the case of two bytes

VARIABLES
    testing,           \* a self-test, not a round of a run
    case,              \* the case the self-test is at
    passed, failed,
    skipped            \* history: the cases that were skipped

testVars == <<testing, case, passed, failed, skipped>>
allVars == <<vars, testVars>>

(* The self-test has the Workspace to itself, just allocated.              *)
TestInit ==
    /\ Init
    /\ testing \in BOOLEAN
    /\ testing => \A j \in 0..N : forward[j] = 0 /\ backward[j] = 0
    /\ case = 0 /\ passed = 0 /\ failed = 0 /\ skipped = {}

-----------------------------------------------------------------------------
(* The hash of a stream after each of its bytes.                           *)
HashesOf(stream) ==
    LET h[j \in 0..N] == IF j = 0 THEN k_fnv_basis ELSE Mix(h[j - 1], stream[j - 1])
    IN  h

byte_index(c) == Injections[c].sample_index * LaneCount + Injections[c].lane

(* What case c hashes in place of the stored bytes.                        *)
Corrupted(c) ==
    IF c < LastCase
      THEN [bytes EXCEPT ![byte_index(c)] = Injections[c].replacement]
      ELSE [bytes EXCEPT ![FirstByte] = BitXor(@, Pattern), ![SecondByte] = BitXor(@, Pattern)]

(* Between two cases.                                                      *)
AtCase == testing /\ pc = "replay" /\ case \in 1..LastCase

(* The two hashes of the clean round are compared; a difference is noted   *)
(* and not counted.                                                        *)
CleanRound ==
    /\ testing
    /\ case = 0 /\ pc = "replay" /\ k = N
    /\ passed' = IF acc = hash THEN 1 ELSE 0
    /\ case' = 1
    /\ UNCHANGED <<vars, testing, failed, skipped>>

Skip ==
    /\ AtCase
    /\ case < LastCase
    /\ bytes[byte_index(case)] = Injections[case].replacement
    /\ skipped' = skipped \cup {case}
    /\ case' = case + 1
    /\ UNCHANGED <<vars, testing, passed, failed>>

(* replay_hash_with_substitution, and the call of reverse_fnv with it.     *)
Inject ==
    /\ AtCase
    /\ case < LastCase => bytes[byte_index(case)] # Injections[case].replacement
    /\ read' = Corrupted(case)
    /\ actual' = HashesOf(read')
    /\ acc' = actual'[N]
    /\ detected' = (acc' # hash)
    /\ flips' = {}
    /\ forward' = [forward EXCEPT ![0] = k_fnv_basis]
    /\ k' = 0
    /\ pc' = "forward"
    /\ UNCHANGED <<bytes, hash, backward, result, replayed, testVars>>

(* What the analysis must say of a case.                                   *)
Agreed_AnyPlace(c) ==
    IF c < LastCase THEN result.single_byte ELSE ~result.single_byte
Agreed(c) ==
    IF c < LastCase
      THEN /\ result.single_byte
           /\ result.lane = Injections[c].lane
           /\ result.sample_index = Injections[c].sample_index
           /\ result.stored = bytes[byte_index(c)]
           /\ result.observed = Injections[c].replacement
      ELSE ~result.single_byte

Judge ==
    /\ testing
    /\ pc = "done"
    /\ IF Agreed(case) THEN passed' = passed + 1 /\ UNCHANGED failed
                       ELSE failed' = failed + 1 /\ UNCHANGED passed
    /\ case' = case + 1
    /\ pc' = "replay"
    /\ UNCHANGED <<bytes, k, acc, hash, detected, forward, backward, result,
                   historyVars, testing, skipped>>

Ended == testing /\ case = LastCase + 1

TestNext ==
    \/ ~testing /\ Next /\ UNCHANGED testVars
    \/ /\ testing /\ UNCHANGED testVars
       /\ \/ (\E b \in Byte : ReadByte(b)) \/ (\E i \in Bit : FlipAccumulator(i))
          \/ StartReplay \/ ReplayByte
          \/ ForwardByte \/ StartBackward \/ BackwardByte \/ StartScan
          \/ (\E stored \in Byte : ScanStep(stored)) \/ ScanDone
    \/ CleanRound \/ Skip \/ Inject \/ Judge
    \/ Ended /\ UNCHANGED allVars

TestSpec == TestInit /\ [][TestNext]_allVars

-----------------------------------------------------------------------------
(* The hash of the stored bytes with one of them changed to b.             *)
HashWith(j, b) == HashesOf([bytes EXCEPT ![j] = b])[N]

(* A change of one byte, before position `end`, that would explain hash h. *)
Explained(h, end) ==
    \E j \in 0..end - 1, b \in Byte : b # bytes[j] /\ HashWith(j, b) = h

(* Case c cannot be told from another one: by chance an earlier byte       *)
(* explains its hash as well, or a single byte explains the hash of two    *)
(* (or the last step of the scan, one past the bytes, takes the difference *)
(* of the two hashes for one).                                             *)
Ambiguous(c) ==
    LET h == HashesOf(Corrupted(c))[N]
    IN  IF c < LastCase
          THEN Explained(h, byte_index(c))
          ELSE Explained(h, N) \/ OneByte(BitXor(hash, h))

(* The verdict is about the machinery alone: a case fails exactly when its *)
(* stream admits another explanation, whatever the hardware did in the     *)
(* clean round and whatever the cases before left in the buffers, and every*)
(* case is counted once ("keeps the pass count honest", line 470).         *)
SelfTestIsFair ==
    Ended =>
        /\ failed = Cardinality({c \in 1..LastCase \ skipped : Ambiguous(c)})
        /\ passed + failed + Cardinality(skipped) \in {LastCase, LastCase + 1}

(* The lane under test is never skipped altogether: whatever bytes the     *)
(* load produced, some misread of ch was injected and judged.              *)
ChLaneIsTested ==
    Ended => \E c \in 1..LastCase - 1 \ skipped : Injections[c].lane = 1

=============================================================================
