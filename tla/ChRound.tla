------------------------------ MODULE ChRound ------------------------------
(***************************************************************************)
(* One round of the ch probe and the analysis of what it finds: the hash   *)
(* accumulated through the registers (compute_rows), the same hash through *)
(* memory (replay_hash), their comparison, and reverse_fnv, which explains *)
(* a difference.                                                           *)
(*                                                                         *)
(* The hardware may misbehave while the register hash is computed: a byte  *)
(* may be read wrong, or a bit of the accumulator may flip.  Everything    *)
(* after that is trusted, as the program trusts it.  The word is WordSize  *)
(* values wide and the byte ByteSize, so that TLC can check a narrow       *)
(* machine and the theorems cover the real one (2^64 and 256).             *)
(***************************************************************************)
EXTENDS Integers, FiniteSets

CONSTANTS
    SampleCount,           \* samples of a round (k_rows * k_cols)
    LaneCount,             \* sizeof(float)
    ByteSize,              \* 256
    WordSize,              \* 2^64
    WordBits,              \* 64
    BitXor(_, _),          \* bitwise exclusive or
    k_fnv_basis, k_fnv_prime, k_fnv_prime_inverse,
    Streams,               \* the byte streams the load may produce
    Leftovers,             \* what earlier rounds may have left in the buffers
    MaxMisreads, MaxFlips  \* bounds on the faults of one round

N == SampleCount * LaneCount    \* total_bytes
Byte == 0..ByteSize - 1
Word == 0..WordSize - 1
Bit == 0..WordBits - 1

ASSUME SizeAssumption ==
    /\ SampleCount \in Nat \ {0}
    /\ LaneCount \in Nat \ {0}
    /\ ByteSize \in Nat \ {0, 1}
    /\ WordSize \in Nat \ {0}
    /\ WordBits \in Nat \ {0}
    /\ ByteSize <= WordSize /\ WordSize = 2^WordBits
    /\ MaxMisreads \in Nat
    /\ MaxFlips \in Nat
ASSUME StreamAssumption == Streams \subseteq [0..N - 1 -> Byte]
ASSUME LeftoverAssumption == Leftovers \subseteq [0..N -> Word]
ASSUME ConstantsAssumption ==
    /\ k_fnv_basis \in Word
    /\ k_fnv_prime \in Nat
    /\ k_fnv_prime_inverse \in Nat
(* The static_assert beside the constant.                                  *)
ASSUME InverseAssumption == (k_fnv_prime * k_fnv_prime_inverse) % WordSize = 1

(* What is needed of powers of two.                                        *)
ASSUME PowerAssumption == \A i \in Bit : 2^(i + 1) = 2 * 2^i

(* What is needed of exclusive or, on words and bytes.                     *)
ASSUME XorBytes ==
    \A b, c \in Byte : /\ BitXor(b, c) \in Byte
                       /\ BitXor(b, c) = 0 <=> b = c
                       /\ BitXor(b, BitXor(c, b)) = c
ASSUME XorInWord ==
    \A v, w \in Word : BitXor(v, w) \in Word /\ (BitXor(v, w) = 0 => v = w)
ASSUME XorWords ==
    \A w \in Word, b \in Byte :
        /\ BitXor(BitXor(w, b), b) = w
        /\ BitXor(w, w) = 0
        /\ \A c \in Byte : BitXor(w, BitXor(BitXor(w, b), c)) = BitXor(b, c)
ASSUME XorDifference ==
    \A v, w \in Word, b \in Byte :
        BitXor(v, w) \in Byte => BitXor(BitXor(v, BitXor(BitXor(v, w), b)), b) = w
ASSUME XorBits ==
    \A w \in Word, i \in Bit : /\ BitXor(w, 2^i) \in Word /\ BitXor(w, 2^i) # w
                               /\ BitXor(w, BitXor(w, 2^i)) = 2^i

-----------------------------------------------------------------------------
(* One byte into the hash, and back out of it.                             *)
Mix_EvenFactor(h, b) == (BitXor(h, b) * (k_fnv_prime - 3)) % WordSize
Mix_Wide(h, b) == BitXor(h, b) * k_fnv_prime
Mix(h, b) == (BitXor(h, b) * k_fnv_prime) % WordSize
Unmix_XorFirst(h, b) == (BitXor(h, b) * k_fnv_prime_inverse) % WordSize
Unmix(h, b) == BitXor((h * k_fnv_prime_inverse) % WordSize, b)

popcount64(w) == Cardinality({i \in Bit : (w \div 2^i) % 2 = 1})

NoResult == [single_byte |-> FALSE, lane |-> 0, sample_index |-> 0,
             stored |-> 0, observed |-> 0, min_popcount |-> WordBits + 1]

VARIABLES
    pc,                \* "compute", "replay", "forward", "backward", "scan", "done"
    bytes,             \* work.samples, as the bytes they are
    k,                 \* the byte the current loop is at
    acc,               \* compute_rows' accumulator, then register_hash
    hash,              \* replay_hash's accumulator, then memory_hash
    detected,          \* register_hash != memory_hash
    forward, backward, \* the two buffers of the analysis
    result,            \* reverse_fnv's result
    \* history, read by the properties only
    read,              \* the bytes the registers delivered
    actual,            \* the accumulator as it was before each byte
    replayed,          \* replay_hash's accumulator before each byte
    flips              \* <<byte about to be mixed, bit>> of the flips so far

historyVars == <<read, actual, replayed, flips>>
vars == <<pc, bytes, k, acc, hash, detected, forward, backward, result, historyVars>>

Misreads == {j \in 0..N - 1 : read[j] # bytes[j]}

Init ==
    /\ pc = "compute"
    /\ bytes \in Streams
    /\ k = 0
    /\ acc = k_fnv_basis
    /\ hash = k_fnv_basis
    /\ detected = FALSE
    /\ forward \in Leftovers
    /\ backward \in Leftovers
    /\ result = NoResult
    /\ read = bytes
    /\ actual = [j \in 0..N |-> k_fnv_basis]
    /\ replayed = [j \in 0..N |-> k_fnv_basis]
    /\ flips = {}

-----------------------------------------------------------------------------
(* compute_rows: byte k is read through cl, ch or a shift, and mixed in.   *)
ReadByte(b) ==
    /\ pc = "compute"
    /\ k < N
    /\ b # bytes[k] => Cardinality(Misreads) < MaxMisreads
    /\ acc' = Mix(acc, b)
    /\ k' = k + 1
    /\ read' = [read EXCEPT ![k] = b]
    /\ actual' = [actual EXCEPT ![k + 1] = acc']
    /\ UNCHANGED <<pc, bytes, hash, detected, forward, backward, result, replayed, flips>>

(* A bit of the accumulator flips, at any time until it is compared.       *)
FlipAccumulator(i) ==
    /\ pc = "compute"
    /\ Cardinality(flips) < MaxFlips
    /\ <<k, i>> \notin flips
    /\ acc' = BitXor(acc, 2^i)
    /\ actual' = [actual EXCEPT ![k] = acc']
    /\ flips' = flips \cup {<<k, i>>}
    /\ UNCHANGED <<pc, bytes, k, hash, detected, forward, backward, result, read, replayed>>

StartReplay ==
    /\ pc = "compute"
    /\ k = N
    /\ pc' = "replay"
    /\ k' = 0
    /\ hash' = k_fnv_basis
    /\ UNCHANGED <<bytes, acc, detected, forward, backward, result, historyVars>>

(* replay_hash: the same bytes, from memory.                               *)
ReplayByte_SkipSecond ==
    /\ pc = "replay"
    /\ k < N
    /\ hash' = IF k = 1 THEN hash ELSE Mix(hash, bytes[k])
    /\ replayed' = [replayed EXCEPT ![k + 1] = hash']
    /\ k' = k + 1
    /\ UNCHANGED <<pc, bytes, acc, detected, forward, backward, result, read, actual, flips>>
ReplayByte ==
    /\ pc = "replay"
    /\ k < N
    /\ hash' = Mix(hash, bytes[k])
    /\ replayed' = [replayed EXCEPT ![k + 1] = hash']
    /\ k' = k + 1
    /\ UNCHANGED <<pc, bytes, acc, detected, forward, backward, result, read, actual, flips>>

HashesAgree ==
    /\ pc = "replay"
    /\ k = N
    /\ acc = hash
    /\ pc' = "done"
    /\ UNCHANGED <<bytes, k, acc, hash, detected, forward, backward, result, historyVars>>

(* A detection: reverse_fnv is called, and sets F[0].                      *)
Detect_Unset ==
    /\ pc = "replay"
    /\ k = N
    /\ acc # hash
    /\ detected' = TRUE
    /\ pc' = "forward"
    /\ k' = 0
    /\ UNCHANGED <<bytes, acc, hash, forward, backward, result, historyVars>>
Detect ==
    /\ pc = "replay"
    /\ k = N
    /\ acc # hash
    /\ detected' = TRUE
    /\ pc' = "forward"
    /\ k' = 0
    /\ forward' = [forward EXCEPT ![0] = k_fnv_basis]
    /\ UNCHANGED <<bytes, acc, hash, backward, result, historyVars>>

ForwardByte ==
    /\ pc = "forward"
    /\ k < N
    /\ forward' = [forward EXCEPT ![k + 1] = Mix(forward[k], bytes[k])]
    /\ k' = k + 1
    /\ UNCHANGED <<pc, bytes, acc, hash, detected, backward, result, historyVars>>

StartBackward ==
    /\ pc = "forward"
    /\ k = N
    /\ pc' = "backward"
    /\ backward' = [backward EXCEPT ![N] = acc]
    /\ UNCHANGED <<bytes, k, acc, hash, detected, forward, result, historyVars>>

BackwardByte ==
    /\ pc = "backward"
    /\ k > 0
    /\ backward' = [backward EXCEPT ![k - 1] = Unmix(backward[k], bytes[k - 1])]
    /\ k' = k - 1
    /\ UNCHANGED <<pc, bytes, acc, hash, detected, forward, result, historyVars>>

StartScan ==
    /\ pc = "backward"
    /\ k = 0
    /\ pc' = "scan"
    /\ result' = NoResult
    /\ UNCHANGED <<bytes, k, acc, hash, detected, forward, backward, historyVars>>

Diff(j) == BitXor(forward[j], backward[j])
OneByte_Strict(d) == d # 0 /\ d < ByteSize - 1
OneByte(d) == d # 0 /\ d < ByteSize

(* bytes[k]; one past the end there is no byte, and what is read there is  *)
(* whatever memory holds.                                                  *)
Stored(j) == IF j < N THEN {bytes[j]} ELSE Byte

(* Step k of the scan, k <= n: the smallest popcount, and the first        *)
(* difference that fits in a byte.                                         *)
ScanStep(stored) ==
    /\ pc = "scan"
    /\ k <= N
    /\ stored \in Stored(k)
    /\ LET diff == Diff(k)
           bits == popcount64(diff)
           seen == [result EXCEPT !.min_popcount = IF bits < @ THEN bits ELSE @]
       IN result' = IF OneByte(diff) /\ ~result.single_byte
                      THEN [seen EXCEPT !.single_byte = TRUE,
                                        !.lane = k % LaneCount,
                                        !.sample_index = k \div LaneCount,
                                        !.stored = stored,
                                        !.observed = BitXor(stored, diff)]
                      ELSE seen
    /\ k' = k + 1
    /\ UNCHANGED <<pc, bytes, acc, hash, detected, forward, backward, historyVars>>

ScanDone ==
    /\ pc = "scan"
    /\ k = N + 1
    /\ pc' = "done"
    /\ UNCHANGED <<bytes, k, acc, hash, detected, forward, backward, result, historyVars>>

(* The round is over.                                                      *)
Returned == pc = "done" /\ UNCHANGED vars

RoundStep ==
    \/ \E b \in Byte : ReadByte(b)
    \/ StartReplay \/ ReplayByte \/ HashesAgree \/ Detect
    \/ ForwardByte \/ StartBackward \/ BackwardByte \/ StartScan
    \/ \E stored \in Byte : ScanStep(stored)
    \/ ScanDone

Next == RoundStep \/ (\E i \in Bit : FlipAccumulator(i)) \/ Returned

Spec == Init /\ [][Next]_vars

-----------------------------------------------------------------------------
OnlyMisread(j) == Misreads = {j} /\ flips = {}
OnlyFlip(f) == Misreads = {} /\ flips = {f}

(* Where reverse_fnv says the misread byte is.                             *)
Position == result.sample_index * LaneCount + result.lane

TypeOK ==
    /\ pc \in {"compute", "replay", "forward", "backward", "scan", "done"}
    /\ bytes \in [0..N - 1 -> Byte] /\ read \in [0..N - 1 -> Byte]
    /\ k \in 0..N + 1
    /\ acc \in Word /\ hash \in Word
    /\ detected \in BOOLEAN
    /\ forward \in [0..N -> Word] /\ backward \in [0..N -> Word]
    /\ actual \in [0..N -> Word] /\ replayed \in [0..N -> Word]
    /\ flips \subseteq (0..N) \X Bit
    /\ result.single_byte \in BOOLEAN
    /\ result.lane \in 0..LaneCount - 1
    /\ result.sample_index \in 0..SampleCount
    /\ result.stored \in Byte /\ result.observed \in Byte

(* The two paths hash the same bytes: on sound hardware a round never      *)
(* reports a detection ("that cannot be a software bug").                  *)
NoFalseAlarm ==
    pc = "done" /\ Misreads = {} /\ flips = {} => ~detected

(* One misread byte, or one flipped bit, is never absorbed by the rest of  *)
(* the stream: the hashes differ at the end, wherever the fault was.       *)
SingleFaultIsDetected ==
    pc = "done" /\ ((\E j \in 0..N - 1 : OnlyMisread(j)) \/ (\E f \in flips : OnlyFlip(f)))
        => detected

(* reverse_fnv explains one misread byte: it finds a byte-sized            *)
(* difference no later than the misread one, and when it names that byte   *)
(* it names the value in memory and the value read.  It names another only *)
(* if an earlier difference happens to fit in a byte (the false positive   *)
(* the comment at line 310 gives the odds of).                             *)
SingleMisreadIsExplained ==
    \A j \in 0..N - 1 : pc = "done" /\ OnlyMisread(j) =>
        /\ result.single_byte
        /\ Position <= j
        /\ Position = j => result.stored = bytes[j] /\ result.observed = read[j]
        /\ (\A i \in 0..j - 1 : ~OneByte(Diff(i))) => Position = j

(* The scan of a detection looks at nothing an earlier one left in the     *)
(* buffers: all of `forward` is this round's stream hashed from the basis, *)
(* all of `backward` leads by the same bytes to this round's register      *)
(* hash, and whatever went wrong the two differ at every byte, so that the *)
(* smallest popcount printed is that of a real difference.                 *)
BuffersAreThisRounds ==
    detected /\ pc \in {"scan", "done"} =>
        /\ forward[0] = k_fnv_basis /\ backward[N] = acc
        /\ \A j \in 0..N - 1 : /\ forward[j + 1] = Mix(forward[j], bytes[j])
                               /\ backward[j + 1] = Mix(backward[j], bytes[j])
        /\ \A j \in 0..N : forward[j] # backward[j]

(* "popcount 1 -> a bit of the accumulator flipped": one flipped bit is    *)
(* what the analysis finds at the byte before which it flipped.            *)
FlipLeavesItsBit ==
    \A f \in flips : pc = "done" /\ OnlyFlip(f) =>
        Diff(f[1]) = 2^f[2] /\ result.min_popcount = 1

(* "below 256 -> the wrong BYTE was read": the DETECT line names a byte of *)
(* a sample of the round.                                                  *)
NamedByteExists ==
    result.single_byte => result.sample_index < SampleCount

=============================================================================
