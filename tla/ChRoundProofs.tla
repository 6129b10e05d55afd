--------------------------- MODULE ChRoundProofs ---------------------------
(***************************************************************************)
(* The detector's properties for words and bytes of any size, streams of   *)
(* any length and any number of faults: in particular for 64-bit words,    *)
(* 8-bit bytes and the 400000 bytes of a real round.                       *)
(***************************************************************************)
EXTENDS ChSelfTest, FiniteSetTheorems, TLAPS

-----------------------------------------------------------------------------
(* Arithmetic modulo the word size.                                        *)
LEMMA ModUnique ==
    ASSUME NEW W \in Nat \ {0}, NEW m \in Int, NEW x \in 0..W - 1
    PROVE  (W * m + x) % W = x
OBVIOUS

(* Division with remainder.                                                *)
LEMMA DivMod ==
    ASSUME NEW W \in Nat \ {0}, NEW y \in Nat
    PROVE  /\ y % W \in 0..W - 1
           /\ y \div W \in Nat
           /\ y = W * (y \div W) + (y % W)
OBVIOUS

(* The quotient and the remainder are the only ones.                       *)
LEMMA QuotientUnique ==
    ASSUME NEW W \in Nat \ {0}, NEW m \in Nat, NEW x \in 0..W - 1
    PROVE  (m * W + x) % W = x /\ (m * W + x) \div W = m
OBVIOUS

(* Division without remainder.                                             *)
LEMMA ExactDiv ==
    ASSUME NEW y \in Nat, NEW b \in Nat \ {0}, NEW c \in Nat, y = c * b
    PROVE  y \div b = c
OBVIOUS

(* Multiplying by p and then by its inverse q is the identity.             *)
LEMMA MulInverse ==
    ASSUME NEW W \in Nat \ {0}, NEW p \in Nat, NEW q \in Nat, (p * q) % W = 1,
           NEW x \in 0..W - 1
    PROVE  (((x * p) % W) * q) % W = x
<1> DEFINE d == (x * p) \div W
           r == (x * p) % W
           e == (p * q) \div W
           m == e * x - d * q
<1>1. x * p \in Nat /\ p * q \in Nat
  OBVIOUS
<1>2. d \in Nat /\ r \in 0..W - 1 /\ x * p = W * d + r
  BY <1>1, DivMod
<1>3. e \in Nat /\ p * q = W * e + 1
  BY <1>1, DivMod
<1> HIDE DEF d, r, e
<1>4. r * q = (x * p) * q - (W * d) * q
  BY <1>2
<1>5. (x * p) * q = x * (p * q)
  OBVIOUS
<1>6. x * (p * q) = W * (e * x) + x
  BY <1>3
<1>7. (W * d) * q = W * (d * q)
  BY <1>2
<1>8. e * x \in Int /\ d * q \in Int
  BY <1>2, <1>3
<1>9. W * (e * x - d * q) = W * (e * x) - W * (d * q)
  BY <1>8
<1>10. m \in Int /\ r * q = W * m + x
  BY <1>4, <1>5, <1>6, <1>7, <1>8, <1>9
<1> HIDE DEF m
<1>11. (r * q) % W = x
  BY <1>10, ModUnique
<1>12. QED
  BY <1>11 DEF r

-----------------------------------------------------------------------------
(* A step of the hash can be undone, one byte at a time (lines 315-328).   *)
LEMMA Sizes == N \in Nat \ {0} /\ WordSize \in Nat \ {0} /\ Byte \subseteq Word
<1>1. N \in Nat \ {0}
  BY SizeAssumption DEF N
<1>2. Byte \subseteq Word
  BY SizeAssumption DEF Byte, Word
<1>3. QED
  BY <1>1, <1>2, SizeAssumption

(* The hash stays in a word, forwards and backwards.                       *)
LEMMA MixInWord ==
    ASSUME NEW h \in Word, NEW b \in Byte
    PROVE  Mix(h, b) \in Word /\ Unmix(h, b) \in Word
<1>0. b \in Word /\ Word \subseteq Nat
  BY Sizes DEF Word
<1>1. BitXor(h, b) \in Nat /\ h \in Nat
  BY <1>0, XorInWord
<1>2. BitXor(h, b) * k_fnv_prime \in Nat /\ h * k_fnv_prime_inverse \in Nat
  BY <1>1, ConstantsAssumption
<1>3. Mix(h, b) \in Word /\ (h * k_fnv_prime_inverse) % WordSize \in Word
  BY <1>2, Sizes, DivMod DEF Mix, Word
<1>4. QED
  BY <1>3, XorInWord, Sizes DEF Unmix

(* Taking out a byte c where b went in leaves both in the hash.            *)
LEMMA UnmixMix ==
    ASSUME NEW h \in Word, NEW b \in Byte, NEW c \in Byte
    PROVE  Unmix(Mix(h, b), c) = BitXor(BitXor(h, b), c)
<1>1. BitXor(h, b) \in 0..WordSize - 1
  BY XorInWord, Sizes DEF Word
<1>2. (((BitXor(h, b) * k_fnv_prime) % WordSize) * k_fnv_prime_inverse) % WordSize
        = BitXor(h, b)
  BY <1>1, MulInverse, Sizes, ConstantsAssumption, InverseAssumption
<1>3. QED
  BY <1>2 DEF Mix, Unmix

(* Putting back a byte that was taken out restores the hash.               *)
LEMMA MixUnmix ==
    ASSUME NEW h \in Word, NEW b \in Byte
    PROVE  Mix(Unmix(h, b), b) = h
<1> DEFINE x == (h * k_fnv_prime_inverse) % WordSize
<1>1. h \in Nat /\ h * k_fnv_prime_inverse \in Nat
  BY ConstantsAssumption, Sizes DEF Word
<1>2. x \in Word
  BY <1>1, DivMod, Sizes DEF Word
<1>3. BitXor(BitXor(x, b), b) = x
  BY <1>2, XorWords
<1>4. (k_fnv_prime_inverse * k_fnv_prime) % WordSize = 1
  <2>1. k_fnv_prime_inverse * k_fnv_prime = k_fnv_prime * k_fnv_prime_inverse
    BY ConstantsAssumption
  <2>2. QED
    BY <2>1, InverseAssumption
<1>5. (x * k_fnv_prime) % WordSize = h
  BY <1>4, MulInverse, Sizes, ConstantsAssumption DEF Word
<1>6. QED
  BY <1>3, <1>5 DEF Mix, Unmix

(* Different hashes stay different under the same byte, in both directions, *)
(* and different bytes make the same hash different.                       *)
LEMMA MixInjective ==
    /\ \A g, h \in Word, b \in Byte : Mix(g, b) = Mix(h, b) => g = h
    /\ \A h \in Word, b, c \in Byte : Mix(h, b) = Mix(h, c) => b = c
    /\ \A g, h \in Word, b \in Byte : Unmix(g, b) = Unmix(h, b) => g = h
<1>1. ASSUME NEW g \in Word, NEW h \in Word, NEW b \in Byte, Mix(g, b) = Mix(h, b)
      PROVE  g = h
  BY <1>1, UnmixMix, XorWords
<1>2. ASSUME NEW h \in Word, NEW b \in Byte, NEW c \in Byte, Mix(h, b) = Mix(h, c)
      PROVE  b = c
  <2>1. BitXor(BitXor(h, b), c) = h
    BY <1>2, UnmixMix, XorWords
  <2>2. BitXor(b, c) = 0
    BY <2>1, XorWords
  <2>3. QED
    BY <2>2, XorBytes
<1>3. ASSUME NEW g \in Word, NEW h \in Word, NEW b \in Byte, Unmix(g, b) = Unmix(h, b)
      PROVE  g = h
  BY <1>3, MixUnmix
<1>4. QED
  BY <1>1, <1>2, <1>3

-----------------------------------------------------------------------------
(* How far compute_rows and replay_hash have come.                         *)
Computed == IF pc = "compute" THEN k ELSE N
Replayed == IF pc = "compute" THEN 0 ELSE IF pc = "replay" THEN k ELSE N

(* The type invariant without the flags.                                   *)
Typed ==
    /\ pc \in {"compute", "replay", "forward", "backward", "scan", "done"}
    /\ bytes \in [0..N - 1 -> Byte]
    /\ read \in [0..N - 1 -> Byte]
    /\ k \in 0..N + 1
    /\ pc \in {"compute", "replay", "forward", "backward"} => k <= N
    /\ acc \in Word
    /\ hash \in Word
    /\ forward \in [0..N -> Word]
    /\ backward \in [0..N -> Word]
    /\ actual \in [0..N -> Word]
    /\ replayed \in [0..N -> Word]
    /\ flips \subseteq (0..N) \X Bit

(* Types are right when a round begins.                                    *)
LEMMA TypedInit == Init => Typed
<1> SUFFICES ASSUME Init PROVE Typed
  OBVIOUS
<1>1. bytes \in [0..N - 1 -> Byte] /\ forward \in [0..N -> Word] /\ backward \in [0..N -> Word]
  BY StreamAssumption, LeftoverAssumption DEF Init
<1>2. actual \in [0..N -> Word] /\ replayed \in [0..N -> Word]
  BY ConstantsAssumption DEF Init
<1>3. QED
  BY <1>1, <1>2, Sizes, ConstantsAssumption DEF Init, Typed

(* Every step of the round keeps the types.                                *)
LEMMA TypedStep == Typed /\ [Next]_vars => Typed'
<1> SUFFICES ASSUME Typed, [Next]_vars PROVE Typed'
  OBVIOUS
<1> USE Sizes DEF Typed
<1>1. CASE \E b \in Byte : ReadByte(b)
  <2> PICK b \in Byte : ReadByte(b)
    BY <1>1
  <2>1. acc' \in Word
    BY MixInWord DEF ReadByte
  <2>2. QED
    BY <2>1 DEF ReadByte
<1>2. CASE \E i \in Bit : FlipAccumulator(i)
  <2> PICK i \in Bit : FlipAccumulator(i)
    BY <1>2
  <2>1. acc' \in Word
    BY XorBits DEF FlipAccumulator
  <2>2. <<k, i>> \in (0..N) \X Bit
    BY DEF FlipAccumulator
  <2>3. QED
    BY <2>1, <2>2 DEF FlipAccumulator
<1>3. CASE StartReplay
  BY <1>3, ConstantsAssumption DEF StartReplay, historyVars
<1>4. CASE ReplayByte
  <2>1. hash' \in Word
    BY <1>4, MixInWord DEF ReplayByte
  <2>2. QED
    BY <1>4, <2>1 DEF ReplayByte
<1>5. CASE HashesAgree
  BY <1>5 DEF HashesAgree, historyVars
<1>6. CASE Detect
  BY <1>6, ConstantsAssumption DEF Detect, historyVars
<1>7. CASE ForwardByte
  <2>1. Mix(forward[k], bytes[k]) \in Word
    BY <1>7, MixInWord DEF ForwardByte
  <2>2. QED
    BY <1>7, <2>1 DEF ForwardByte, historyVars
<1>8. CASE StartBackward
  BY <1>8 DEF StartBackward, historyVars
<1>9. CASE BackwardByte
  <2>1. Unmix(backward[k], bytes[k - 1]) \in Word
    BY <1>9, MixInWord DEF BackwardByte
  <2>2. QED
    BY <1>9, <2>1 DEF BackwardByte, historyVars
<1>10. CASE StartScan
  BY <1>10 DEF StartScan, historyVars
<1>11. CASE \E stored \in Byte : ScanStep(stored)
  BY <1>11 DEF ScanStep, historyVars
<1>12. CASE ScanDone
  BY <1>12 DEF ScanDone, historyVars
<1>13. CASE UNCHANGED vars
  BY <1>13 DEF vars, historyVars
<1>14. QED
  BY <1>1, <1>2, <1>3, <1>4, <1>5, <1>6, <1>7, <1>8, <1>9, <1>10, <1>11, <1>12, <1>13
     DEF Next, RoundStep, Returned

-----------------------------------------------------------------------------
(* The accumulator before byte j as it should be, given what was before.   *)
Flipped(j) == \E i \in Bit : <<j, i>> \in flips
Due(j) == IF j = 0 THEN k_fnv_basis ELSE Mix(actual[j - 1], read[j - 1])

(* The register hash is the chain of the bytes read, but for the flips.    *)
RegisterChain ==
    /\ acc = actual[Computed]
    /\ pc = "compute" => \A j \in 0..N - 1 : j >= k => read[j] = bytes[j]
    /\ \A f \in flips : f[1] <= Computed
    /\ \A j \in 0..N : j <= Computed /\ ~Flipped(j) => actual[j] = Due(j)
    /\ \A j \in 0..N, i \in Bit :
          flips = {<<j, i>>} => actual[j] = BitXor(Due(j), 2^i)

(* The chain holds when it has no byte yet.                                *)
LEMMA RegisterChainInit == Init => RegisterChain
<1> SUFFICES ASSUME Init PROVE RegisterChain
  OBVIOUS
<1>1. flips = {} /\ k = 0 /\ pc = "compute" /\ read = bytes /\ Computed = 0
  BY DEF Init, Computed
<1>2. actual[0] = k_fnv_basis /\ acc = k_fnv_basis /\ 0 \in 0..N
  BY Sizes DEF Init
<1>3. \A j \in 0..N : j <= Computed /\ ~Flipped(j) => actual[j] = Due(j)
  BY <1>1, <1>2 DEF Due
<1>4. \A j \in 0..N, i \in Bit : flips # {<<j, i>>}
  BY <1>1, Zenon
<1>5. QED
  BY <1>1, <1>2, <1>3, <1>4 DEF RegisterChain

(* A byte read extends the chain; a flip changes its last entry.           *)
LEMMA RegisterChainStep == Typed /\ RegisterChain /\ [Next]_vars => RegisterChain'
<1> SUFFICES ASSUME Typed, RegisterChain, [Next]_vars PROVE RegisterChain'
  OBVIOUS
<1> USE Sizes
<1>1. CASE \E b \in Byte : ReadByte(b)
  <2> PICK b \in Byte : ReadByte(b)
    BY <1>1
  <2>1. /\ k \in 0..N - 1 /\ Computed = k /\ Computed' = k + 1 /\ pc' = "compute"
        /\ flips' = flips /\ bytes' = bytes
        /\ actual' = [actual EXCEPT ![k + 1] = Mix(acc, b)]
        /\ read' = [read EXCEPT ![k] = b]
        /\ acc' = Mix(acc, b)
    BY DEF ReadByte, Typed, Computed
  <2>2. /\ actual'[k + 1] = Mix(actual[k], b) /\ read'[k] = b /\ actual'[k] = actual[k]
        /\ \A j \in 0..N : j <= k => actual'[j] = actual[j]
        /\ \A j \in 0..N - 1 : j < k => read'[j] = read[j]
    BY <2>1 DEF Typed, RegisterChain
  <2>3. \A j \in 0..N : j <= k => Due(j)' = Due(j)
    BY <2>1, <2>2 DEF Due
  <2>4. \A j \in 0..N : j = k + 1 => Due(j)' = actual'[j]
    BY <2>1, <2>2 DEF Due
  <2>5. \A j \in 0..N : Flipped(j)' <=> Flipped(j)
    BY <2>1 DEF Flipped
  <2>6. \A j \in 0..N : j <= k + 1 /\ ~Flipped(j)' => actual'[j] = Due(j)'
    <3>1. \A j \in 0..N : j <= k + 1 => j <= k \/ j = k + 1
      BY <2>1
    <3>2. QED
      BY <3>1, <2>1, <2>2, <2>3, <2>4, <2>5 DEF RegisterChain
  <2>7. ASSUME NEW j \in 0..N, NEW i \in Bit, flips = {<<j, i>>}
        PROVE  actual'[j] = BitXor(Due(j)', 2^i)
    <3>1. j <= k
      BY <2>1, <2>7 DEF RegisterChain
    <3>2. QED
      BY <3>1, <2>7, <2>2, <2>3 DEF RegisterChain
  <2>8. \A j \in 0..N - 1 : j >= k + 1 => read'[j] = bytes'[j]
    BY <2>1 DEF Typed, RegisterChain, ReadByte
  <2>9. \A f \in flips : f[1] <= k + 1
    BY <2>1 DEF RegisterChain, Typed
  <2>10. k' = k + 1
    BY DEF ReadByte
  <2>11. QED
    BY <2>1, <2>2, <2>6, <2>7, <2>8, <2>9, <2>10 DEF RegisterChain
<1>2. CASE \E i \in Bit : FlipAccumulator(i)
  <2> PICK i \in Bit : FlipAccumulator(i)
    BY <1>2
  <2>1. /\ k \in 0..N /\ Computed = k /\ Computed' = k /\ pc = "compute" /\ pc' = "compute"
        /\ k' = k /\ bytes' = bytes /\ read' = read
        /\ actual' = [actual EXCEPT ![k] = BitXor(acc, 2^i)]
        /\ acc' = BitXor(acc, 2^i) /\ acc = actual[k]
        /\ flips' = flips \cup {<<k, i>>} /\ <<k, i>> \notin flips
    BY DEF FlipAccumulator, Typed, Computed, RegisterChain
  <2>2. /\ actual'[k] = BitXor(actual[k], 2^i)
        /\ \A j \in 0..N : j < k => actual'[j] = actual[j]
    BY <2>1 DEF Typed
  <2>3. \A j \in 0..N : j <= k => Due(j)' = Due(j)
    BY <2>1, <2>2 DEF Due
  <2>4. Flipped(k)' /\ \A j \in 0..N : Flipped(j) => Flipped(j)'
    BY <2>1 DEF Flipped
  <2>5. \A j \in 0..N : j <= k /\ ~Flipped(j)' => actual'[j] = Due(j)'
    <3>1. \A j \in 0..N : j <= k => j < k \/ j = k
      BY <2>1
    <3>2. QED
      BY <3>1, <2>1, <2>2, <2>3, <2>4 DEF RegisterChain
  <2>6. ASSUME NEW j \in 0..N, NEW m \in Bit, flips' = {<<j, m>>}
        PROVE  actual'[j] = BitXor(Due(j)', 2^m)
    <3>1. <<k, i>> = <<j, m>> /\ flips = {}
      BY <2>1, <2>6, Zenon
    <3>2. j = k /\ m = i /\ ~Flipped(k)
      BY <3>1 DEF Flipped
    <3>3. actual[k] = Due(k)
      BY <2>1, <3>2 DEF RegisterChain
    <3>4. QED
      BY <3>2, <3>3, <2>1, <2>2, <2>3
  <2>7. \A f \in flips' : f[1] <= k
    <3>1. \A f \in flips : f[1] <= k
      BY <2>1 DEF RegisterChain
    <3>2. <<k, i>>[1] <= k
      BY <2>1
    <3>3. QED
      BY <2>1, <3>1, <3>2
  <2>8. QED
    BY <2>1, <2>2, <2>5, <2>6, <2>7 DEF RegisterChain
<1>3. CASE StartReplay
  <2>1. Computed' = Computed /\ acc' = acc /\ pc' = "replay" /\ UNCHANGED historyVars
    BY <1>3 DEF StartReplay, Computed
  <2>2. \A j \in 0..N : Due(j)' = Due(j) /\ (Flipped(j)' <=> Flipped(j))
    BY <2>1 DEF Due, Flipped, historyVars
  <2>3. QED
    BY <2>1, <2>2 DEF RegisterChain, historyVars
<1>4. CASE ReplayByte \/ HashesAgree \/ Detect \/ ForwardByte \/ StartBackward
           \/ BackwardByte \/ StartScan \/ (\E stored \in Byte : ScanStep(stored)) \/ ScanDone
  <2>1. /\ pc # "compute" /\ pc' # "compute" /\ acc' = acc
        /\ read' = read /\ actual' = actual /\ flips' = flips
    BY <1>4 DEF ReplayByte, HashesAgree, Detect, ForwardByte, StartBackward,
                BackwardByte, StartScan, ScanStep, ScanDone, historyVars
  <2>2. \A j \in 0..N : Due(j)' = Due(j) /\ (Flipped(j)' <=> Flipped(j))
    BY <2>1 DEF Due, Flipped
  <2>3. Computed' = Computed
    BY <2>1 DEF Computed
  <2>4. QED
    BY <2>1, <2>2, <2>3 DEF RegisterChain
<1>5. CASE UNCHANGED vars
  <2>1. \A j \in 0..N : Due(j)' = Due(j) /\ (Flipped(j)' <=> Flipped(j))
    BY <1>5 DEF Due, Flipped, vars, historyVars
  <2>2. Computed' = Computed
    BY <1>5 DEF Computed, vars
  <2>3. QED
    BY <1>5, <2>1, <2>2 DEF RegisterChain, vars, historyVars
<1>6. QED
  BY <1>1, <1>2, <1>3, <1>4, <1>5 DEF Next, RoundStep, Returned

-----------------------------------------------------------------------------
(* The memory hash is the chain of the bytes in memory.                    *)
MemoryChain ==
    /\ hash = replayed[Replayed]
    /\ replayed[0] = k_fnv_basis
    /\ \A j \in 0..N - 1 : j < Replayed => replayed[j + 1] = Mix(replayed[j], bytes[j])

(* The memory chain starts at the basis.                                   *)
LEMMA MemoryChainInit == Init => MemoryChain
BY Sizes DEF Init, MemoryChain, Replayed

(* A byte replayed extends the memory chain.                               *)
LEMMA MemoryChainStep == Typed /\ MemoryChain /\ [Next]_vars => MemoryChain'
<1> SUFFICES ASSUME Typed, MemoryChain, [Next]_vars PROVE MemoryChain'
  OBVIOUS
<1> USE Sizes
<1>1. CASE (\E b \in Byte : ReadByte(b)) \/ \E i \in Bit : FlipAccumulator(i)
  <2>1. Replayed' = Replayed /\ hash' = hash /\ replayed' = replayed /\ bytes' = bytes
    BY <1>1 DEF ReadByte, FlipAccumulator, Replayed
  <2>2. QED
    BY <2>1 DEF MemoryChain
<1>2. CASE StartReplay
  BY <1>2 DEF StartReplay, MemoryChain, Replayed, historyVars
<1>3. CASE ReplayByte
  <2>1. /\ k \in 0..N - 1 /\ Replayed = k /\ Replayed' = k + 1 /\ bytes' = bytes
        /\ hash' = Mix(hash, bytes[k])
        /\ replayed' = [replayed EXCEPT ![k + 1] = Mix(hash, bytes[k])]
    BY <1>3 DEF ReplayByte, Typed, Replayed
  <2>2. /\ replayed'[k + 1] = Mix(replayed[k], bytes[k]) /\ hash = replayed[k]
        /\ \A j \in 0..N : j <= k => replayed'[j] = replayed[j]
    BY <2>1 DEF Typed, MemoryChain
  <2>3. ASSUME NEW j \in 0..N - 1, j < k + 1
        PROVE  replayed'[j + 1] = Mix(replayed'[j], bytes[j])
    <3>1. CASE j < k
      BY <3>1, <2>1, <2>2 DEF MemoryChain
    <3>2. CASE j = k
      BY <3>2, <2>1, <2>2
    <3>3. QED
      BY <2>3, <3>1, <3>2, <2>1
  <2>4. QED
    BY <2>1, <2>2, <2>3 DEF MemoryChain
<1>4. CASE HashesAgree \/ Detect \/ ForwardByte \/ StartBackward
           \/ BackwardByte \/ StartScan \/ (\E stored \in Byte : ScanStep(stored)) \/ ScanDone
  <2>1. Replayed' = Replayed /\ hash' = hash /\ replayed' = replayed /\ bytes' = bytes
    BY <1>4 DEF HashesAgree, Detect, ForwardByte, StartBackward,
                BackwardByte, StartScan, ScanStep, ScanDone, historyVars, Replayed
  <2>2. QED
    BY <2>1 DEF MemoryChain
<1>5. CASE UNCHANGED vars
  BY <1>5 DEF vars, historyVars, MemoryChain, Replayed
<1>6. QED
  BY <1>1, <1>2, <1>3, <1>4, <1>5 DEF Next, RoundStep, Returned

-----------------------------------------------------------------------------
(* Where the two chains agree: everywhere without a fault; up to the byte  *)
(* that was misread, if that is the only fault; before the bit that        *)
(* flipped, if that is.  In particular they never meet again.              *)
NoFault == Misreads = {} /\ flips = {}

Agreement ==
    pc # "compute" => \A j \in 0..N : j <= Replayed =>
        /\ NoFault => replayed[j] = actual[j]
        /\ \A m \in 0..N - 1 : OnlyMisread(m) => (replayed[j] = actual[j] <=> j <= m)
        /\ \A a \in 0..N, i \in Bit :
              OnlyFlip(<<a, i>>) => (replayed[j] = actual[j] <=> j < a)

(* One more byte keeps the chains together or apart.                       *)
LEMMA NextByte ==
    ASSUME Typed, RegisterChain, pc # "compute", NEW j \in 0..N - 1
    PROVE  /\ ~Flipped(j + 1) /\ read[j] = bytes[j] =>
                  (Mix(replayed[j], bytes[j]) = actual[j + 1] <=> replayed[j] = actual[j])
           /\ ~Flipped(j + 1) /\ read[j] # bytes[j] /\ replayed[j] = actual[j] =>
                  Mix(replayed[j], bytes[j]) # actual[j + 1]
           /\ \A i \in Bit : flips = {<<j + 1, i>>} /\ read[j] = bytes[j] /\ replayed[j] = actual[j]
                  => Mix(replayed[j], bytes[j]) # actual[j + 1]
<1>1. /\ j \in 0..N /\ j + 1 \in 0..N /\ j + 1 <= Computed
      /\ replayed[j] \in Word /\ actual[j] \in Word /\ read[j] \in Byte /\ bytes[j] \in Byte
  BY Sizes DEF Typed, Computed
<1>2. Due(j + 1) = Mix(actual[j], read[j])
  BY <1>1 DEF Due
<1>3. ~Flipped(j + 1) => actual[j + 1] = Mix(actual[j], read[j])
  BY <1>1, <1>2 DEF RegisterChain
<1>4. \A i \in Bit : flips = {<<j + 1, i>>} => actual[j + 1] = BitXor(Mix(actual[j], read[j]), 2^i)
  BY <1>1, <1>2 DEF RegisterChain
<1>5. Mix(actual[j], read[j]) \in Word
  BY <1>1, MixInWord
<1>6. \A i \in Bit : BitXor(Mix(actual[j], read[j]), 2^i) # Mix(actual[j], read[j])
  BY <1>5, XorBits
<1>7. QED
  BY <1>1, <1>3, <1>4, <1>6, MixInjective

(* The chains start together unless the basis itself was flipped.          *)
LEMMA ChainsStart ==
    ASSUME Typed, RegisterChain
    PROVE  /\ ~Flipped(0) => actual[0] = k_fnv_basis
           /\ \A i \in Bit : flips = {<<0, i>>} => actual[0] # k_fnv_basis
<1>1. 0 \in 0..N /\ 0 <= Computed /\ Due(0) = k_fnv_basis
  BY Sizes DEF Typed, Computed, Due
<1>2. \A i \in Bit : BitXor(k_fnv_basis, 2^i) # k_fnv_basis
  BY XorBits, ConstantsAssumption
<1>3. QED
  BY <1>1, <1>2 DEF RegisterChain

(* What the three cases of Agreement say about the bytes and the flips.    *)
LEMMA FaultCases ==
    ASSUME Typed
    PROVE  /\ NoFault => \A j \in 0..N : ~Flipped(j) /\ (j < N => read[j] = bytes[j])
           /\ \A m \in 0..N - 1 : OnlyMisread(m) =>
                 \A j \in 0..N : ~Flipped(j) /\ (j < N => (read[j] = bytes[j] <=> j # m))
           /\ \A a \in 0..N, i \in Bit : OnlyFlip(<<a, i>>) =>
                 \A j \in 0..N : /\ j # a => ~Flipped(j)
                                 /\ j < N => read[j] = bytes[j]
<1>1. \A j \in 0..N : j < N => j \in 0..N - 1
  BY Sizes
<1>2. \A j \in 0..N - 1 : j \in Misreads <=> read[j] # bytes[j]
  BY DEF Misreads
<1>3. NoFault => \A j \in 0..N : ~Flipped(j) /\ (j < N => read[j] = bytes[j])
  BY <1>1, <1>2 DEF NoFault, Flipped
<1>4. ASSUME NEW m \in 0..N - 1, OnlyMisread(m), NEW j \in 0..N
      PROVE  ~Flipped(j) /\ (j < N => (read[j] = bytes[j] <=> j # m))
  BY <1>1, <1>2, <1>4 DEF OnlyMisread, Flipped
<1>5. ASSUME NEW a \in 0..N, NEW i \in Bit, OnlyFlip(<<a, i>>), NEW j \in 0..N
      PROVE  /\ j # a => ~Flipped(j)
             /\ j < N => read[j] = bytes[j]
  <2>1. ASSUME j # a, Flipped(j) PROVE FALSE
    <3>1. PICK x \in Bit : <<j, x>> \in {<<a, i>>}
      BY <2>1, <1>5 DEF Flipped, OnlyFlip
    <3>2. QED
      BY <3>1, <2>1
  <2>2. QED
    BY <2>1, <1>1, <1>2, <1>5 DEF OnlyFlip
<1>6. QED
  BY <1>3, <1>4, <1>5

(* The chains agree as long as nothing went wrong, and not afterwards.     *)
LEMMA AgreementStep ==
    Typed /\ RegisterChain /\ MemoryChain /\ Agreement /\ [Next]_vars => Agreement'
<1> SUFFICES ASSUME Typed, RegisterChain, MemoryChain, Agreement, [Next]_vars
             PROVE  Agreement'
  OBVIOUS
<1> USE Sizes
<1>1. CASE (\E b \in Byte : ReadByte(b)) \/ \E i \in Bit : FlipAccumulator(i)
  BY <1>1 DEF ReadByte, FlipAccumulator, Agreement
<1>2. CASE StartReplay
  <2>1. /\ UNCHANGED <<bytes, historyVars>> /\ Replayed' = 0 /\ replayed[0] = k_fnv_basis
        /\ 0 \in 0..N
    BY <1>2 DEF StartReplay, Replayed, MemoryChain
  <2>2. /\ NoFault' <=> NoFault
        /\ \A m \in 0..N - 1 : OnlyMisread(m)' <=> OnlyMisread(m)
        /\ \A a \in 0..N, i \in Bit : OnlyFlip(<<a, i>>)' <=> OnlyFlip(<<a, i>>)
    BY <2>1 DEF NoFault, OnlyMisread, OnlyFlip, Misreads, historyVars
  <2>3. NoFault => replayed[0] = actual[0]
    BY <2>1, FaultCases, ChainsStart
  <2>4. \A m \in 0..N - 1 : OnlyMisread(m) => replayed[0] = actual[0] /\ 0 <= m
    BY <2>1, FaultCases, ChainsStart
  <2>5. ASSUME NEW a \in 0..N, NEW i \in Bit, OnlyFlip(<<a, i>>)
        PROVE  replayed[0] = actual[0] <=> 0 < a
    <3>1. CASE a = 0
      BY <3>1, <2>1, <2>5, ChainsStart DEF OnlyFlip
    <3>2. CASE a # 0
      BY <3>2, <2>1, <2>5, FaultCases, ChainsStart
    <3>3. QED
      BY <3>1, <3>2
  <2>6. \A j \in 0..N : j <= 0 => j = 0
    OBVIOUS
  <2>7. QED
    BY <2>1, <2>2, <2>3, <2>4, <2>5, <2>6 DEF Agreement, historyVars
<1>3. CASE ReplayByte
  <2>1. /\ k \in 0..N - 1 /\ Replayed = k /\ Replayed' = k + 1 /\ pc = "replay"
        /\ bytes' = bytes /\ read' = read /\ actual' = actual /\ flips' = flips
        /\ replayed' = [replayed EXCEPT ![k + 1] = Mix(hash, bytes[k])]
        /\ hash = replayed[k] /\ k + 1 \in 0..N
    BY <1>3 DEF ReplayByte, Typed, Replayed, MemoryChain
  <2>2. /\ replayed'[k + 1] = Mix(replayed[k], bytes[k])
        /\ \A j \in 0..N : j <= k => replayed'[j] = replayed[j]
    BY <2>1 DEF Typed
  <2>3. /\ NoFault' <=> NoFault
        /\ \A m \in 0..N - 1 : OnlyMisread(m)' <=> OnlyMisread(m)
        /\ \A a \in 0..N, i \in Bit : OnlyFlip(<<a, i>>)' <=> OnlyFlip(<<a, i>>)
    BY <2>1 DEF NoFault, OnlyMisread, OnlyFlip, Misreads
  <2>4. NoFault => replayed'[k + 1] = actual[k + 1]
    <3>1. HAVE NoFault
    <3>2. replayed[k] = actual[k]
      BY <3>1, <2>1 DEF Agreement
    <3>3. ~Flipped(k + 1) /\ read[k] = bytes[k]
      BY <3>1, <2>1, FaultCases
    <3>4. QED
      BY <3>2, <3>3, <2>1, <2>2, NextByte
  <2>5. ASSUME NEW m \in 0..N - 1, OnlyMisread(m)
        PROVE  replayed'[k + 1] = actual[k + 1] <=> k + 1 <= m
    <3>1. replayed[k] = actual[k] <=> k <= m
      BY <2>5, <2>1 DEF Agreement
    <3>2. ~Flipped(k + 1) /\ (read[k] = bytes[k] <=> k # m)
      BY <2>5, <2>1, FaultCases
    <3>3. CASE k = m
      <4>1. Mix(replayed[k], bytes[k]) # actual[k + 1]
        BY <3>1, <3>2, <3>3, <2>1, NextByte
      <4>2. ~(k + 1 <= m)
        BY <3>3, <2>1
      <4>3. QED
        BY <4>1, <4>2, <2>2
    <3>4. CASE k # m
      <4>1. Mix(replayed[k], bytes[k]) = actual[k + 1] <=> replayed[k] = actual[k]
        BY <3>2, <3>4, <2>1, NextByte
      <4>2. k <= m <=> k + 1 <= m
        BY <3>4, <2>1
      <4>3. QED
        BY <4>1, <4>2, <3>1, <2>2
    <3>5. QED
      BY <3>3, <3>4
  <2>6. ASSUME NEW a \in 0..N, NEW i \in Bit, OnlyFlip(<<a, i>>)
        PROVE  replayed'[k + 1] = actual[k + 1] <=> k + 1 < a
    <3>1. replayed[k] = actual[k] <=> k < a
      BY <2>6, <2>1 DEF Agreement
    <3>2. read[k] = bytes[k] /\ (k + 1 # a => ~Flipped(k + 1))
      BY <2>6, <2>1, FaultCases
    <3>3. CASE k + 1 = a
      <4>1. flips = {<<k + 1, i>>} /\ k < a
        BY <2>6, <3>3, <2>1 DEF OnlyFlip
      <4>2. Mix(replayed[k], bytes[k]) # actual[k + 1]
        BY <4>1, <3>1, <3>2, <2>1, NextByte
      <4>3. QED
        BY <4>2, <3>3, <2>1, <2>2
    <3>4. CASE k + 1 # a
      <4>1. Mix(replayed[k], bytes[k]) = actual[k + 1] <=> replayed[k] = actual[k]
        BY <3>2, <3>4, <2>1, NextByte
      <4>2. k < a <=> k + 1 < a
        BY <3>4, <2>1
      <4>3. QED
        BY <4>1, <4>2, <3>1, <2>2
    <3>5. QED
      BY <3>3, <3>4
  <2>7. ASSUME NEW j \in 0..N, j <= k + 1
        PROVE  /\ NoFault => replayed'[j] = actual[j]
               /\ \A m \in 0..N - 1 : OnlyMisread(m) => (replayed'[j] = actual[j] <=> j <= m)
               /\ \A a \in 0..N, i \in Bit :
                     OnlyFlip(<<a, i>>) => (replayed'[j] = actual[j] <=> j < a)
    <3>1. CASE j <= k
      BY <3>1, <2>1, <2>2 DEF Agreement
    <3>2. CASE j = k + 1
      BY <3>2, <2>4, <2>5, <2>6
    <3>3. QED
      BY <3>1, <3>2, <2>7, <2>1
  <2>8. QED
    BY <2>1, <2>3, <2>7 DEF Agreement
<1>4. CASE HashesAgree \/ Detect \/ ForwardByte \/ StartBackward
           \/ BackwardByte \/ StartScan \/ (\E stored \in Byte : ScanStep(stored)) \/ ScanDone
  <2>1. Replayed' = Replayed /\ UNCHANGED <<bytes, historyVars>> /\ pc # "compute"
    BY <1>4 DEF HashesAgree, Detect, ForwardByte, StartBackward,
                BackwardByte, StartScan, ScanStep, ScanDone, Replayed
  <2>2. /\ NoFault' <=> NoFault
        /\ \A m \in 0..N - 1 : OnlyMisread(m)' <=> OnlyMisread(m)
        /\ \A a \in 0..N, i \in Bit : OnlyFlip(<<a, i>>)' <=> OnlyFlip(<<a, i>>)
    BY <2>1 DEF NoFault, OnlyMisread, OnlyFlip, Misreads, historyVars
  <2>3. QED
    BY <2>1, <2>2 DEF Agreement, historyVars
<1>5. CASE UNCHANGED vars
  <2>1. Replayed' = Replayed /\ UNCHANGED <<pc, bytes, historyVars>>
    BY <1>5 DEF vars, Replayed
  <2>2. /\ NoFault' <=> NoFault
        /\ \A m \in 0..N - 1 : OnlyMisread(m)' <=> OnlyMisread(m)
        /\ \A a \in 0..N, i \in Bit : OnlyFlip(<<a, i>>)' <=> OnlyFlip(<<a, i>>)
    BY <2>1 DEF NoFault, OnlyMisread, OnlyFlip, Misreads, historyVars
  <2>3. QED
    BY <2>1, <2>2 DEF Agreement, historyVars
<1>6. QED
  BY <1>1, <1>2, <1>3, <1>4, <1>5 DEF Next, RoundStep, Returned

-----------------------------------------------------------------------------
(* The comparison of the two hashes decides what follows.                  *)
Verdict ==
    /\ pc \in {"compute", "replay"} => ~detected
    /\ pc \in {"forward", "backward", "scan"} => detected /\ acc # hash
    /\ pc = "done" => (detected <=> acc # hash)

(* detected is what the comparison said.                                   *)
LEMMA VerdictStep == Typed /\ Verdict /\ [Next]_vars => Verdict'
<1> SUFFICES ASSUME Typed, Verdict, [Next]_vars PROVE Verdict'
  OBVIOUS
<1>1. CASE (\E b \in Byte : ReadByte(b)) \/ \E i \in Bit : FlipAccumulator(i)
  <2>1. pc = "compute" /\ pc' = "compute" /\ detected' = detected
    BY <1>1 DEF ReadByte, FlipAccumulator
  <2>2. QED
    BY <2>1, Zenon DEF Verdict
<1>2. CASE StartReplay \/ ReplayByte
  BY <1>2 DEF StartReplay, ReplayByte, Verdict
<1>3. CASE HashesAgree \/ Detect
  BY <1>3 DEF HashesAgree, Detect, Verdict
<1>4. CASE ForwardByte \/ StartBackward \/ BackwardByte \/ StartScan
           \/ (\E stored \in Byte : ScanStep(stored)) \/ ScanDone
  BY <1>4 DEF ForwardByte, StartBackward, BackwardByte, StartScan, ScanStep, ScanDone, Verdict
<1>5. CASE UNCHANGED vars
  BY <1>5 DEF vars, Verdict
<1>6. QED
  BY <1>1, <1>2, <1>3, <1>4, <1>5 DEF Next, RoundStep, Returned

(* The forward buffer is the memory chain again.                           *)
ForwardChain ==
    /\ pc = "forward" => \A j \in 0..N : j <= k => forward[j] = replayed[j]
    /\ pc \in {"backward", "scan"} \/ (pc = "done" /\ detected) =>
          \A j \in 0..N : forward[j] = replayed[j]

(* A forward byte extends the forward buffer as the replay extended its hash. *)
LEMMA ForwardChainStep ==
    Typed /\ MemoryChain /\ Verdict /\ ForwardChain /\ [Next]_vars => ForwardChain'
<1> SUFFICES ASSUME Typed, MemoryChain, Verdict, ForwardChain, [Next]_vars
             PROVE  ForwardChain'
  OBVIOUS
<1> USE Sizes
<1>1. CASE (\E b \in Byte : ReadByte(b)) \/ (\E i \in Bit : FlipAccumulator(i))
           \/ StartReplay \/ ReplayByte \/ HashesAgree
  <2>1. /\ pc' \in {"compute", "replay"} \/ (pc' = "done" /\ pc = "replay")
        /\ detected' = detected
    BY <1>1 DEF ReadByte, FlipAccumulator, StartReplay, ReplayByte, HashesAgree
  <2>2. pc' \notin {"forward", "backward", "scan"} /\ ~(pc' = "done" /\ detected')
    <3>1. pc = "replay" => ~detected
      BY DEF Verdict
    <3>2. QED
      BY <2>1, <3>1, Zenon
  <2>3. QED
    BY <2>2, Zenon DEF ForwardChain
<1>2. CASE Detect
  <2>1. pc' = "forward" /\ k' = 0 /\ forward'[0] = k_fnv_basis /\ replayed' = replayed
    BY <1>2 DEF Detect, Typed, historyVars
  <2>2. \A j \in 0..N : j <= 0 => j = 0
    OBVIOUS
  <2>3. QED
    BY <2>1, <2>2 DEF ForwardChain, MemoryChain
<1>3. CASE ForwardByte
  <2>1. /\ k \in 0..N - 1 /\ pc' = "forward" /\ k' = k + 1 /\ replayed' = replayed
        /\ forward'[k + 1] = Mix(forward[k], bytes[k])
        /\ \A j \in 0..N : j <= k => forward'[j] = forward[j]
    BY <1>3 DEF ForwardByte, Typed, historyVars
  <2>2. replayed[k + 1] = Mix(replayed[k], bytes[k])
    BY <1>3, <2>1 DEF ForwardByte, MemoryChain, Replayed
  <2>3. forward[k] = replayed[k]
    BY <1>3, <2>1 DEF ForwardByte, ForwardChain
  <2>4. ASSUME NEW j \in 0..N, j <= k + 1 PROVE forward'[j] = replayed[j]
    <3>1. CASE j <= k
      BY <1>3, <2>1, <3>1 DEF ForwardByte, ForwardChain
    <3>2. CASE j = k + 1
      BY <2>1, <2>2, <2>3, <3>2
    <3>3. QED
      BY <2>1, <2>4, <3>1, <3>2
  <2>5. QED
    BY <2>1, <2>4 DEF ForwardChain
<1>4. CASE StartBackward
  <2>1. \A j \in 0..N : j <= k
    BY <1>4 DEF StartBackward
  <2>2. QED
    BY <1>4, <2>1 DEF StartBackward, ForwardChain, historyVars
<1>5. CASE BackwardByte \/ StartScan \/ (\E stored \in Byte : ScanStep(stored)) \/ ScanDone
  BY <1>5 DEF BackwardByte, StartScan, ScanStep, ScanDone, ForwardChain, historyVars
<1>6. CASE UNCHANGED vars
  BY <1>6 DEF vars, historyVars, ForwardChain
<1>7. QED
  BY <1>1, <1>2, <1>3, <1>4, <1>5, <1>6 DEF Next, RoundStep, Returned

-----------------------------------------------------------------------------
(* The backward buffer never meets the forward one; after one misread byte *)
(* it holds what the accumulator really was, and at that byte the          *)
(* difference the misread made.                                            *)
Rewound(j) == \/ pc = "backward" /\ j >= k
              \/ pc = "scan"
              \/ pc = "done" /\ detected

(* Going back, each place is undone by the byte in memory.                 *)
BackwardChain ==
    \A j \in 0..N : Rewound(j) =>
        /\ forward[j] # backward[j]
        /\ \A m \in 0..N - 1 : OnlyMisread(m) =>
              /\ j > m => backward[j] = actual[j]
              /\ j = m => backward[j] = BitXor(BitXor(actual[j], read[j]), bytes[j])

(* A byte taken out keeps the buffers apart.                               *)
LEMMA BackwardChainStep ==
    /\ Typed /\ RegisterChain /\ MemoryChain /\ Verdict /\ ForwardChain /\ BackwardChain
    /\ [Next]_vars
    => BackwardChain'
<1> SUFFICES ASSUME Typed, RegisterChain, MemoryChain, Verdict, ForwardChain, BackwardChain,
                    [Next]_vars
             PROVE  BackwardChain'
  OBVIOUS
<1> USE Sizes
<1>1. CASE (\E b \in Byte : ReadByte(b)) \/ (\E i \in Bit : FlipAccumulator(i))
           \/ StartReplay \/ ReplayByte \/ HashesAgree \/ Detect \/ ForwardByte
  <2>1. \A j \in 0..N : ~Rewound(j)'
    BY <1>1 DEF ReadByte, FlipAccumulator, StartReplay, ReplayByte, HashesAgree, Detect,
                ForwardByte, Verdict, Rewound
  <2>2. QED
    BY <2>1 DEF BackwardChain
<1>2. CASE StartBackward
  <2>1. /\ pc' = "backward" /\ k' = N /\ forward' = forward /\ bytes' = bytes
        /\ UNCHANGED historyVars /\ backward'[N] = acc /\ N \in 0..N
        /\ acc # hash /\ acc = actual[N] /\ hash = replayed[N] /\ forward[N] = replayed[N]
    BY <1>2 DEF StartBackward, Typed, Verdict, RegisterChain, Computed, MemoryChain, Replayed,
                ForwardChain
  <2>2. \A j \in 0..N : Rewound(j)' => j = N
    BY <2>1 DEF Rewound
  <2>3. \A m \in 0..N - 1 : N > m /\ N # m
    OBVIOUS
  <2>4. QED
    BY <2>1, <2>2, <2>3 DEF BackwardChain, historyVars
<1>3. CASE BackwardByte
  <2>1. /\ k \in 1..N /\ k - 1 \in 0..N - 1 /\ k \in 0..N /\ k - 1 \in 0..N
        /\ pc = "backward" /\ pc' = "backward" /\ k' = k - 1
        /\ forward' = forward /\ bytes' = bytes /\ read' = read /\ actual' = actual
        /\ flips' = flips
        /\ backward'[k - 1] = Unmix(backward[k], bytes[k - 1])
        /\ \A j \in 0..N : j >= k => backward'[j] = backward[j]
    BY <1>3 DEF BackwardByte, Typed, historyVars
  <2>2. /\ bytes[k - 1] \in Byte /\ read[k - 1] \in Byte /\ forward[k - 1] \in Word
        /\ forward[k] \in Word /\ backward[k] \in Word /\ actual[k - 1] \in Word
    BY <2>1 DEF Typed
  <2>3. Rewound(k)
    BY <2>1 DEF Rewound
  <2>4. forward[k - 1] # backward'[k - 1]
    <3>1. (k - 1) + 1 = k /\ k - 1 < Replayed
      BY <2>1 DEF Replayed
    <3>2. replayed[k] = Mix(replayed[k - 1], bytes[k - 1])
      BY <2>1, <3>1 DEF MemoryChain
    <3>3. forward[k] = Mix(forward[k - 1], bytes[k - 1])
      BY <2>1, <3>2 DEF ForwardChain
    <3>4. Unmix(forward[k], bytes[k - 1]) = forward[k - 1]
      BY <2>2, <3>3, UnmixMix, XorWords
    <3>5. forward[k] # backward[k]
      BY <2>1, <2>3 DEF BackwardChain
    <3>6. QED
      BY <2>1, <2>2, <3>4, <3>5, MixInjective
  <2>5. ASSUME NEW m \in 0..N - 1, OnlyMisread(m)
        PROVE  /\ k - 1 > m => backward'[k - 1] = actual[k - 1]
               /\ k - 1 = m => backward'[k - 1]
                                 = BitXor(BitXor(actual[k - 1], read[k - 1]), bytes[k - 1])
    <3>1. ~Flipped(k) /\ (read[k - 1] = bytes[k - 1] <=> k - 1 # m)
      BY <2>1, <2>5, FaultCases
    <3>2. actual[k] = Mix(actual[k - 1], read[k - 1])
      BY <2>1, <3>1 DEF RegisterChain, Computed, Due
    <3>3. k - 1 >= m => backward[k] = actual[k]
      BY <2>1, <2>3, <2>5 DEF BackwardChain
    <3>4. k - 1 >= m => backward'[k - 1]
                          = BitXor(BitXor(actual[k - 1], read[k - 1]), bytes[k - 1])
      BY <2>1, <2>2, <3>2, <3>3, UnmixMix
    <3>5. CASE k - 1 > m
      <4>1. read[k - 1] = bytes[k - 1] /\ k - 1 >= m /\ k - 1 # m
        BY <3>1, <3>5, <2>1
      <4>2. QED
        BY <4>1, <3>4, <2>2, XorWords
    <3>6. CASE k - 1 = m
      BY <3>4, <3>6, <2>1
    <3>7. CASE k - 1 < m
      BY <3>7, <2>1
    <3>8. QED
      BY <3>5, <3>6, <3>7, <2>1
  <2>6. \A m \in 0..N - 1 : OnlyMisread(m)' <=> OnlyMisread(m)
    BY <2>1 DEF OnlyMisread, Misreads
  <2>7. ASSUME NEW j \in 0..N, Rewound(j)'
        PROVE  /\ forward[j] # backward'[j]
               /\ \A m \in 0..N - 1 : OnlyMisread(m) =>
                     /\ j > m => backward'[j] = actual[j]
                     /\ j = m => backward'[j] = BitXor(BitXor(actual[j], read[j]), bytes[j])
    <3>1. j >= k - 1
      BY <2>1, <2>7 DEF Rewound
    <3>2. CASE j = k - 1
      BY <3>2, <2>4, <2>5
    <3>3. CASE j >= k
      <4>1. Rewound(j)
        BY <3>3, <2>1 DEF Rewound
      <4>2. QED
        BY <4>1, <3>3, <2>1 DEF BackwardChain
    <3>4. QED
      BY <3>1, <3>2, <3>3, <2>1
  <2>8. QED
    BY <2>1, <2>6, <2>7 DEF BackwardChain
<1>4. CASE StartScan \/ (\E stored \in Byte : ScanStep(stored)) \/ ScanDone \/ UNCHANGED vars
  <2>1. UNCHANGED <<bytes, forward, backward, historyVars>>
    BY <1>4 DEF StartScan, ScanStep, ScanDone, vars
  <2>2. \A j \in 0..N : Rewound(j)' => Rewound(j)
    <3>1. CASE StartScan
      BY <3>1 DEF StartScan, Rewound
    <3>2. CASE (\E stored \in Byte : ScanStep(stored)) \/ ScanDone
      BY <3>2 DEF ScanStep, ScanDone, Rewound
    <3>3. CASE UNCHANGED vars
      <4>1. pc' = pc /\ k' = k /\ detected' = detected
        BY <3>3 DEF vars
      <4>2. QED
        BY <4>1, Zenon DEF Rewound
    <3>4. QED
      BY <1>4, <3>1, <3>2, <3>3
  <2>3. \A m \in 0..N - 1 : OnlyMisread(m)' <=> OnlyMisread(m)
    BY <2>1 DEF OnlyMisread, Misreads, historyVars
  <2>4. QED
    BY <2>1, <2>2, <2>3 DEF BackwardChain, historyVars
<1>5. QED
  BY <1>1, <1>2, <1>3, <1>4 DEF Next, RoundStep, Returned

(* The backward buffer is undone, byte by byte, from the register hash.    *)
RewindChain ==
    pc \in {"backward", "scan"} \/ (pc = "done" /\ detected) =>
        /\ backward[N] = acc
        /\ \A j \in 0..N - 1 : (pc = "backward" => j >= k) =>
              backward[j + 1] = Mix(backward[j], bytes[j])

(* A byte taken out is put back by the next one.                           *)
LEMMA RewindChainStep == Typed /\ Verdict /\ RewindChain /\ [Next]_vars => RewindChain'
<1> SUFFICES ASSUME Typed, Verdict, RewindChain, [Next]_vars PROVE RewindChain'
  OBVIOUS
<1> USE Sizes
<1>1. CASE (\E b \in Byte : ReadByte(b)) \/ (\E i \in Bit : FlipAccumulator(i))
           \/ StartReplay \/ ReplayByte \/ HashesAgree \/ Detect \/ ForwardByte
  <2>1. pc' \in {"compute", "replay", "forward"} \/ (pc' = "done" /\ pc = "replay" /\ detected' = detected)
    BY <1>1 DEF ReadByte, FlipAccumulator, StartReplay, ReplayByte, HashesAgree, Detect,
                ForwardByte
  <2>2. pc' \notin {"backward", "scan"} /\ ~(pc' = "done" /\ detected')
    <3>1. CASE pc' \in {"compute", "replay", "forward"}
      BY <3>1
    <3>2. CASE pc' = "done" /\ pc = "replay" /\ detected' = detected
      <4>1. ~detected
        BY <3>2 DEF Verdict
      <4>2. ~detected'
        BY <3>2, <4>1, Zenon
      <4>3. QED
        BY <3>2, <4>2
    <3>3. QED
      BY <2>1, <3>1, <3>2
  <2>3. QED
    BY <2>2, Zenon DEF RewindChain
<1>2. CASE StartBackward
  <2>1. /\ pc' = "backward" /\ k' = N /\ acc' = acc /\ bytes' = bytes
        /\ backward'[N] = acc /\ \A j \in 0..N - 1 : ~(j >= N)
    BY <1>2 DEF StartBackward, Typed
  <2>2. QED
    BY <2>1 DEF RewindChain
<1>3. CASE BackwardByte
  <2>1. /\ k \in 1..N /\ k - 1 \in 0..N - 1 /\ k \in 0..N /\ k - 1 \in 0..N
        /\ pc = "backward" /\ pc' = "backward" /\ k' = k - 1
        /\ acc' = acc /\ bytes' = bytes
        /\ backward'[k - 1] = Unmix(backward[k], bytes[k - 1])
        /\ \A j \in 0..N : j >= k => backward'[j] = backward[j]
    BY <1>3 DEF BackwardByte, Typed
  <2>2. bytes[k - 1] \in Byte /\ backward[k] \in Word
    BY <2>1 DEF Typed
  <2>3. /\ backward[N] = acc
        /\ \A j \in 0..N - 1 : j >= k => backward[j + 1] = Mix(backward[j], bytes[j])
    BY <2>1 DEF RewindChain
  <2>4. ASSUME NEW j \in 0..N - 1, j >= k - 1
        PROVE  backward'[j + 1] = Mix(backward'[j], bytes[j])
    <3>1. j + 1 \in 0..N /\ j \in 0..N /\ j + 1 >= k
      BY <2>1, <2>4
    <3>2. CASE j = k - 1
      <4>1. j + 1 = k /\ backward'[k] = backward[k]
        BY <2>1, <3>2
      <4>2. Mix(Unmix(backward[k], bytes[k - 1]), bytes[k - 1]) = backward[k]
        BY <2>2, MixUnmix
      <4>3. QED
        BY <2>1, <3>2, <4>1, <4>2
    <3>3. CASE j >= k
      BY <2>1, <2>3, <3>1, <3>3
    <3>4. QED
      BY <2>1, <2>4, <3>2, <3>3
  <2>5. backward'[N] = acc
    BY <2>1, <2>3
  <2>6. QED
    BY <2>1, <2>4, <2>5 DEF RewindChain
<1>4. CASE StartScan \/ (\E stored \in Byte : ScanStep(stored)) \/ ScanDone
  <2>1. /\ UNCHANGED <<bytes, acc, backward>> /\ pc \in {"backward", "scan"}
        /\ pc' # "backward" /\ (pc = "backward" => k = 0)
    BY <1>4 DEF StartScan, ScanStep, ScanDone
  <2>2. \A j \in 0..N - 1 : pc = "backward" => j >= k
    BY <2>1
  <2>3. QED
    BY <2>1, <2>2 DEF RewindChain
<1>5. CASE UNCHANGED vars
  <2>1. UNCHANGED <<pc, k, bytes, acc, backward, detected>>
    BY <1>5 DEF vars
  <2>2. QED
    BY <2>1, Zenon DEF RewindChain
<1>6. QED
  BY <1>1, <1>2, <1>3, <1>4, <1>5 DEF Next, RoundStep, Returned

(* After one flipped bit the backward buffer holds what the accumulator    *)
(* really was, down to the byte before which it flipped.                   *)
FlipChain ==
    \A j \in 0..N : Rewound(j) =>
        \A a \in 0..N, i \in Bit : OnlyFlip(<<a, i>>) /\ j >= a => backward[j] = actual[j]

(* Taking out the bytes in memory undoes the bytes that were read.         *)
LEMMA FlipChainStep ==
    Typed /\ RegisterChain /\ Verdict /\ FlipChain /\ [Next]_vars => FlipChain'
<1> SUFFICES ASSUME Typed, RegisterChain, Verdict, FlipChain, [Next]_vars
             PROVE  FlipChain'
  OBVIOUS
<1> USE Sizes
<1>1. CASE (\E b \in Byte : ReadByte(b)) \/ (\E i \in Bit : FlipAccumulator(i))
           \/ StartReplay \/ ReplayByte \/ HashesAgree \/ Detect \/ ForwardByte
  <2>1. \A j \in 0..N : ~Rewound(j)'
    BY <1>1 DEF ReadByte, FlipAccumulator, StartReplay, ReplayByte, HashesAgree, Detect,
                ForwardByte, Verdict, Rewound
  <2>2. QED
    BY <2>1 DEF FlipChain
<1>2. CASE StartBackward
  <2>1. /\ pc' = "backward" /\ k' = N /\ UNCHANGED historyVars /\ backward'[N] = acc
        /\ N \in 0..N /\ acc = actual[N]
    BY <1>2 DEF StartBackward, Typed, RegisterChain, Computed
  <2>2. \A j \in 0..N : Rewound(j)' => j = N
    BY <2>1 DEF Rewound
  <2>3. QED
    BY <2>1, <2>2 DEF FlipChain, historyVars
<1>3. CASE BackwardByte
  <2>1. /\ k \in 1..N /\ k - 1 \in 0..N - 1 /\ k \in 0..N /\ k - 1 \in 0..N
        /\ pc = "backward" /\ pc' = "backward" /\ k' = k - 1
        /\ bytes' = bytes /\ read' = read /\ actual' = actual /\ flips' = flips
        /\ backward'[k - 1] = Unmix(backward[k], bytes[k - 1])
        /\ \A j \in 0..N : j >= k => backward'[j] = backward[j]
    BY <1>3 DEF BackwardByte, Typed, historyVars
  <2>2. bytes[k - 1] \in Byte /\ actual[k - 1] \in Word
    BY <2>1 DEF Typed
  <2>3. ASSUME NEW a \in 0..N, NEW i \in Bit, OnlyFlip(<<a, i>>), k - 1 >= a
        PROVE  backward'[k - 1] = actual[k - 1]
    <3>1. ~Flipped(k) /\ read[k - 1] = bytes[k - 1]
      <4>1. k # a /\ k - 1 < N
        BY <2>1, <2>3
      <4>2. QED
        BY <2>1, <2>3, <4>1, FaultCases
    <3>2. actual[k] = Mix(actual[k - 1], bytes[k - 1])
      BY <2>1, <3>1 DEF RegisterChain, Computed, Due
    <3>3. backward[k] = actual[k]
      <4>1. Rewound(k) /\ k >= a
        BY <2>1, <2>3 DEF Rewound
      <4>2. QED
        BY <2>1, <2>3, <4>1 DEF FlipChain
    <3>4. QED
      BY <2>1, <2>2, <3>2, <3>3, UnmixMix, XorWords
  <2>4. \A a \in 0..N, i \in Bit : OnlyFlip(<<a, i>>)' <=> OnlyFlip(<<a, i>>)
    BY <2>1 DEF OnlyFlip, Misreads
  <2>5. ASSUME NEW j \in 0..N, Rewound(j)', NEW a \in 0..N, NEW i \in Bit,
               OnlyFlip(<<a, i>>), j >= a
        PROVE  backward'[j] = actual[j]
    <3>1. j >= k - 1
      BY <2>1, <2>5 DEF Rewound
    <3>2. CASE j = k - 1
      BY <3>2, <2>3, <2>5
    <3>3. CASE j >= k
      <4>1. Rewound(j)
        BY <3>3, <2>1 DEF Rewound
      <4>2. QED
        BY <4>1, <3>3, <2>1, <2>5 DEF FlipChain
    <3>4. QED
      BY <3>1, <3>2, <3>3, <2>1
  <2>6. QED
    BY <2>1, <2>4, <2>5 DEF FlipChain
<1>4. CASE StartScan \/ (\E stored \in Byte : ScanStep(stored)) \/ ScanDone \/ UNCHANGED vars
  <2>1. UNCHANGED <<bytes, backward, historyVars>>
    BY <1>4 DEF StartScan, ScanStep, ScanDone, vars
  <2>2. \A j \in 0..N : Rewound(j)' => Rewound(j)
    <3>1. CASE StartScan
      BY <3>1 DEF StartScan, Rewound
    <3>2. CASE (\E stored \in Byte : ScanStep(stored)) \/ ScanDone
      BY <3>2 DEF ScanStep, ScanDone, Rewound
    <3>3. CASE UNCHANGED vars
      <4>1. pc' = pc /\ k' = k /\ detected' = detected
        BY <3>3 DEF vars
      <4>2. QED
        BY <4>1, Zenon DEF Rewound
    <3>4. QED
      BY <1>4, <3>1, <3>2, <3>3
  <2>3. \A a \in 0..N, i \in Bit : OnlyFlip(<<a, i>>)' <=> OnlyFlip(<<a, i>>)
    BY <2>1 DEF OnlyFlip, Misreads, historyVars
  <2>4. QED
    BY <2>1, <2>2, <2>3 DEF FlipChain, historyVars
<1>5. QED
  BY <1>1, <1>2, <1>3, <1>4 DEF Next, RoundStep, Returned

-----------------------------------------------------------------------------
(* The scan reports the first difference that fits in a byte.              *)
Shape == [single_byte : BOOLEAN, lane : 0..LaneCount - 1, sample_index : 0..SampleCount,
          stored : Byte, observed : Byte, min_popcount : Nat]

Scanned == IF pc = "scan" THEN k ELSE N + 1
Named(j) ==
    /\ j < Scanned
    /\ Position = j
    /\ OneByte(Diff(j))
    /\ j < N => result.stored = bytes[j]
    /\ result.observed = BitXor(result.stored, Diff(j))
    /\ \A i \in 0..N : i < j => ~OneByte(Diff(i))

(* The result names the first place that would do, if there is one.        *)
FirstFits ==
    /\ ~result.single_byte => \A i \in 0..N : i < Scanned => ~OneByte(Diff(i))
    /\ result.single_byte => \E j \in 0..N : Named(j)

FirstOfAll == pc = "scan" \/ (pc = "done" /\ detected) => FirstFits

(* What the scan has found.                                                *)
ScanInv == result \in Shape /\ FirstOfAll

(* A popcount is a number.                                                 *)
LEMMA PopcountIsNat == ASSUME NEW w PROVE popcount64(w) \in Nat
<1>1. IsFiniteSet(Bit)
  BY SizeAssumption, FS_Interval DEF Bit
<1>2. IsFiniteSet({i \in Bit : (w \div 2^i) % 2 = 1})
  BY <1>1, FS_Subset
<1>3. QED
  BY <1>2, FS_CardinalityType DEF popcount64

(* Natural numbers are reached one after the other.                        *)
LEMMA NumberByNumber ==
    ASSUME NEW T, 0 \in T, \A n \in Nat : n \in T => n + 1 \in T
    PROVE  Nat \subseteq T
<1> DEFINE less == {p \in Nat \X Nat : p[1] < p[2]}
<1> SUFFICES ASSUME Nat \ T # {} PROVE FALSE
  OBVIOUS
<1>1. IsWellFoundedOn(less, Nat)
  BY NatLessThanWellFounded DEF OpToRel
<1> HIDE DEF less
<1>2. PICK x \in Nat \ T : \A y \in Nat \ T : ~(<<y, x>> \in less)
  BY <1>1, WFMin
<1>3. x - 1 \in Nat /\ (x - 1) + 1 = x
  BY <1>2
<1>4. <<x - 1, x>> \in less
  BY <1>3 DEF less
<1>5. x - 1 \in T
  BY <1>2, <1>3, <1>4
<1>6. QED
  BY <1>3, <1>5

(* A power of two is a number that the smaller ones divide, an even number *)
(* of times.                                                               *)
LEMMA Powers == \A i \in 0..WordBits : 2^i \in Nat \ {0}
<1> DEFINE T == {n \in Nat : n <= WordBits => 2^n \in Nat \ {0}}
<1>1. 0 \in T
  BY SizeAssumption
<1>2. ASSUME NEW n \in Nat, n \in T PROVE n + 1 \in T
  <2> SUFFICES ASSUME n + 1 <= WordBits PROVE 2^(n + 1) \in Nat \ {0}
    OBVIOUS
  <2>1. n \in Bit /\ 2^n \in Nat \ {0}
    BY <1>2, SizeAssumption DEF Bit
  <2>2. 2^(n + 1) = 2 * 2^n
    BY <2>1, PowerAssumption
  <2>3. QED
    BY <2>1, <2>2
<1>3. Nat \subseteq T
  <2> HIDE DEF T
  <2>1. QED
    BY <1>1, <1>2, NumberByNumber
<1>4. QED
  BY <1>3, SizeAssumption

(* A power of two divides the higher ones.                                 *)
LEMMA PowersDivide ==
    ASSUME NEW m \in 0..WordBits, NEW i \in 0..WordBits, m < i
    PROVE  \E c \in Nat \ {0} : 2^i = 2 * (c * 2^m)
<1> DEFINE T == {d \in Nat : m + 1 + d <= WordBits =>
                               \E c \in Nat \ {0} : 2^(m + 1 + d) = 2 * (c * 2^m)}
<1>1. m \in Nat /\ i \in Nat /\ WordBits \in Nat /\ 2^m \in Nat \ {0}
  BY SizeAssumption, Powers
<1>2. 0 \in T
  <2> SUFFICES ASSUME m + 1 <= WordBits PROVE \E c \in Nat \ {0} : 2^(m + 1) = 2 * (c * 2^m)
    BY <1>1
  <2>1. m \in Bit
    BY <1>1 DEF Bit
  <2>2. 2^(m + 1) = 2 * (1 * 2^m)
    BY <1>1, <2>1, PowerAssumption
  <2>3. QED
    BY <2>2
<1>3. ASSUME NEW d \in Nat, d \in T PROVE d + 1 \in T
  <2> SUFFICES ASSUME m + 1 + (d + 1) <= WordBits
               PROVE  \E c \in Nat \ {0} : 2^(m + 1 + (d + 1)) = 2 * (c * 2^m)
    OBVIOUS
  <2> DEFINE x == m + 1 + d
  <2>1. m + 1 + (d + 1) = x + 1 /\ x \in Bit /\ x <= WordBits
    BY <1>1 DEF Bit
  <2>2. PICK c \in Nat \ {0} : 2^x = 2 * (c * 2^m)
    BY <1>3, <2>1
  <2> HIDE DEF x
  <2>3. 2^(x + 1) = 2 * 2^x
    BY <2>1, PowerAssumption
  <2>4. 2 * (2 * (c * 2^m)) = 2 * ((2 * c) * 2^m) /\ 2 * c \in Nat \ {0}
    BY <1>1
  <2>5. QED
    BY <2>1, <2>2, <2>3, <2>4
<1>4. Nat \subseteq T
  <2> HIDE DEF T
  <2>1. QED
    BY <1>2, <1>3, NumberByNumber
<1>5. i - m - 1 \in Nat /\ m + 1 + (i - m - 1) = i
  BY <1>1
<1>6. i - m - 1 \in T
  BY <1>4, <1>5
<1>7. QED
  BY <1>5, <1>6

(* One bit has the popcount 1.                                             *)
LEMMA PopcountOfOneBit == ASSUME NEW i \in Bit PROVE popcount64(2^i) = 1
<1> DEFINE p == 2^i
<1>1. i \in 0..WordBits /\ WordBits \in Nat /\ Bit \subseteq 0..WordBits /\ p \in Nat \ {0}
  BY SizeAssumption, Powers DEF Bit
<1> HIDE DEF p
<1>2. ASSUME NEW m \in Bit PROVE (p \div 2^m) % 2 = 1 <=> m = i
  <2> DEFINE b == 2^m
  <2>1. b \in Nat \ {0} /\ m \in 0..WordBits /\ m \in Int /\ i \in Int
    BY <1>1, Powers DEF Bit
  <2>2. CASE m = i
    <3>1. p = b
      BY <2>2 DEF p
    <3> HIDE DEF b
    <3>2. p \div b = 1
      BY <2>1, <3>1
    <3>3. QED
      BY <2>2, <3>2 DEF b
  <2>3. CASE m < i
    <3>1. PICK c \in Nat \ {0} : p = 2 * (c * b)
      BY <1>1, <2>1, <2>3, PowersDivide DEF p
    <3> HIDE DEF b
    <3>2. p = (2 * c) * b /\ 2 * c \in Nat
      BY <2>1, <3>1
    <3>3. p \div b = 2 * c
      BY <1>1, <2>1, <3>2, ExactDiv
    <3>4. (2 * c) % 2 = 0
      OBVIOUS
    <3>5. QED
      BY <2>1, <2>3, <3>3, <3>4 DEF b
  <2>4. CASE m > i
    <3>1. PICK c \in Nat \ {0} : b = 2 * (c * p)
      BY <1>1, <2>1, <2>4, PowersDivide DEF p
    <3> HIDE DEF b
    <3>2. c * p \in Nat /\ c * p >= p
      BY <1>1, <3>1
    <3>3. p < b
      BY <1>1, <3>1, <3>2
    <3>4. p \div b = 0
      BY <1>1, <2>1, <3>3
    <3>5. QED
      BY <2>1, <2>4, <3>4 DEF b
  <2>5. QED
    BY <2>1, <2>2, <2>3, <2>4
<1>3. {m \in Bit : (p \div 2^m) % 2 = 1} = {i}
  BY <1>2
<1>4. QED
  BY <1>3, FS_Singleton DEF popcount64, p

(* Zero is the only word without a bit.                                    *)
LEMMA PopcountOfNonzero == ASSUME NEW w \in Word, w # 0 PROVE popcount64(w) >= 1
<1> DEFINE set(v, n) == \E i \in 0..n - 1 : (v \div 2^i) % 2 = 1
           T == {n \in Nat : n <= WordBits => \A v \in Nat : v # 0 /\ v < 2^n => set(v, n)}
<1>1. 0 \in T
  OBVIOUS
<1>2. ASSUME NEW n \in Nat, n \in T PROVE n + 1 \in T
  <2> SUFFICES ASSUME n + 1 <= WordBits, NEW v \in Nat, v # 0, v < 2^(n + 1)
               PROVE  set(v, n + 1)
    OBVIOUS
  <2> DEFINE b == 2^n
  <2>1. n \in Bit /\ n \in 0..WordBits /\ n <= WordBits
    BY SizeAssumption DEF Bit
  <2>2. b \in Nat \ {0} /\ v < 2 * b
    BY <2>1, Powers, PowerAssumption
  <2>3. CASE v < b
    <3>1. set(v, n)
      BY <1>2, <2>1, <2>3
    <3>2. PICK i \in 0..n - 1 : (v \div 2^i) % 2 = 1
      BY <3>1
    <3>3. i \in 0..(n + 1) - 1
      OBVIOUS
    <3>4. QED
      BY <3>2, <3>3
  <2>4. CASE ~(v < b)
    <3> HIDE DEF b
    <3>1. v \div b = 1
      BY <2>2, <2>4
    <3>2. (v \div b) % 2 = 1 /\ n \in 0..(n + 1) - 1
      BY <3>1
    <3>3. QED
      BY <3>2 DEF b
  <2>5. QED
    BY <2>3, <2>4
<1>3. Nat \subseteq T
  <2> HIDE DEF T
  <2>1. QED
    BY <1>1, <1>2, NumberByNumber
<1>4. w \in Nat /\ w < 2^WordBits
  <2>1. w \in Nat /\ w < WordSize
    BY SizeAssumption DEF Word
  <2>2. WordSize = 2^WordBits
    BY SizeAssumption
  <2>3. QED
    BY <2>1, <2>2
<1>5. PICK i \in 0..WordBits - 1 : (w \div 2^i) % 2 = 1
  <2>1. WordBits \in Nat
    BY SizeAssumption
  <2>2. WordBits \in T
    BY <1>3, <2>1
  <2>3. WordBits <= WordBits => \A v \in Nat : v # 0 /\ v < 2^WordBits => set(v, WordBits)
    BY <2>2, Zenon
  <2>4. WordBits <= WordBits
    BY <2>1
  <2>5. set(w, WordBits)
    BY <1>4, <2>3, <2>4, Zenon
  <2>6. QED
    BY <2>5
<1> DEFINE S == {m \in Bit : (w \div 2^m) % 2 = 1}
<1>6. i \in S
  BY <1>5 DEF Bit
<1>7. IsFiniteSet(S)
  <2>1. IsFiniteSet(Bit)
    BY SizeAssumption, FS_Interval DEF Bit
  <2>2. QED
    BY <2>1, FS_Subset
<1> HIDE DEF S
<1>8. Cardinality(S) \in Nat /\ Cardinality(S) # 0
  BY <1>6, <1>7, FS_CardinalityType, FS_EmptySet
<1>9. QED
  BY <1>8 DEF popcount64, S

(* A position is its sample and its lane.                                  *)
LEMMA SampleAndLane ==
    ASSUME NEW j \in 0..N
    PROVE  /\ j % LaneCount \in 0..LaneCount - 1
           /\ j \div LaneCount \in 0..SampleCount
           /\ (j \div LaneCount) * LaneCount + (j % LaneCount) = j
<1> DEFINE q == j \div LaneCount
           r == j % LaneCount
<1>1. j \in Nat /\ j <= SampleCount * LaneCount
  BY Sizes, SizeAssumption DEF N
<1>2. r \in 0..LaneCount - 1 /\ q \in Nat /\ j = LaneCount * q + r
  BY <1>1, DivMod, SizeAssumption
<1> HIDE DEF q, r
<1>3. q * LaneCount = LaneCount * q
  BY <1>2, SizeAssumption
<1>4. q <= SampleCount
  <2>1. SUFFICES ASSUME q >= SampleCount + 1 PROVE FALSE
    BY <1>2, SizeAssumption
  <2>2. PICK d \in Nat : q = SampleCount + 1 + d
    <3>1. q - (SampleCount + 1) \in Nat /\ q = SampleCount + 1 + (q - (SampleCount + 1))
      BY <2>1, <1>2, SizeAssumption
    <3>2. QED
      BY <3>1
  <2>3. LaneCount * q = SampleCount * LaneCount + LaneCount + LaneCount * d
    BY <2>2, SizeAssumption
  <2>4. LaneCount * d \in Nat /\ LaneCount * q \in Nat
    BY <1>2, <2>2, SizeAssumption
  <2>5. QED
    BY <1>1, <1>2, <2>3, <2>4, SizeAssumption
<1>5. QED
  BY <1>2, <1>3, <1>4 DEF q, r

(* A fresh ReverseResult has the shape of one.                             *)
LEMMA EmptyShape == NoResult \in Shape
<1>1. WordBits + 1 \in Nat /\ 0 \in 0..LaneCount - 1 /\ 0 \in 0..SampleCount /\ 0 \in Byte
  BY SizeAssumption DEF Byte
<1>2. QED
  BY <1>1 DEF NoResult, Shape

(* There is no result before the scan.                                     *)
LEMMA ScanInvInit == Init => ScanInv
BY EmptyShape DEF Init, ScanInv, FirstOfAll, FirstFits

(* A scan step takes the first byte-sized difference and keeps it.         *)
LEMMA ScanFinds ==
    ASSUME k \in 0..N + 1, forward \in [0..N -> Word], backward \in [0..N -> Word],
           result \in Shape, FirstFits, NEW stored \in Byte, ScanStep(stored)
    PROVE  result' \in Shape /\ FirstFits'
<1> USE Sizes
<1> DEFINE bits == popcount64(Diff(k))
           low == IF bits < result.min_popcount THEN bits ELSE result.min_popcount
<1>1. /\ pc = "scan" /\ pc' = "scan" /\ k \in 0..N /\ k' = k + 1
      /\ bytes' = bytes /\ forward' = forward /\ backward' = backward
      /\ stored \in Stored(k)
  BY DEF ScanStep
<1>2. Scanned = k /\ Scanned' = k + 1
  BY <1>1 DEF Scanned
<1>3. \A j \in 0..N : Diff(j)' = Diff(j)
  BY <1>1 DEF Diff
<1>4. low \in Nat
  BY PopcountIsNat DEF Shape
<1>5. CASE OneByte(Diff(k)) /\ ~result.single_byte
  <2>1. result' = [[result EXCEPT !.min_popcount = low]
                      EXCEPT !.single_byte = TRUE, !.lane = k % LaneCount,
                             !.sample_index = k \div LaneCount,
                             !.stored = stored, !.observed = BitXor(stored, Diff(k))]
    BY <1>5 DEF ScanStep
  <2>2. Diff(k) \in Byte
    <3>1. Diff(k) \in Word
      BY <1>1, XorInWord DEF Diff
    <3>2. QED
      BY <3>1, <1>5, SizeAssumption DEF OneByte, Word, Byte
  <2>3. BitXor(stored, Diff(k)) \in Byte
    BY <2>2, XorBytes
  <2>4. /\ k % LaneCount \in 0..LaneCount - 1 /\ k \div LaneCount \in 0..SampleCount
        /\ (k \div LaneCount) * LaneCount + (k % LaneCount) = k
    BY <1>1, SampleAndLane
  <2> HIDE DEF low
  <2>5. /\ result' \in Shape /\ result'.single_byte /\ result'.lane = k % LaneCount
        /\ result'.sample_index = k \div LaneCount /\ result'.stored = stored
        /\ result'.observed = BitXor(stored, Diff(k))
    BY <1>4, <2>1, <2>3, <2>4 DEF Shape
  <2>6. Position' = k
    BY <2>4, <2>5 DEF Position
  <2>7. k < N => stored = bytes[k]
    BY <1>1 DEF Stored
  <2>8. \A i \in 0..N : i < k => ~OneByte(Diff(i))
    BY <1>1, <1>2, <1>5 DEF FirstFits
  <2>9. \A j \in 0..N : j = k => Named(j)'
    <3>1. SUFFICES ASSUME NEW j \in 0..N, j = k PROVE Named(j)'
      OBVIOUS
    <3>2. j < Scanned' /\ Position' = j /\ OneByte(Diff(j))
      BY <1>1, <1>2, <1>5, <2>6, <3>1
    <3>3. /\ j < N => result'.stored = bytes'[j]
          /\ result'.observed = BitXor(result'.stored, Diff(j))
      BY <1>1, <2>5, <2>7, <3>1
    <3>4. \A i \in 0..N : i < j => ~OneByte(Diff(i))
      BY <2>8, <3>1
    <3>5. QED
      BY <1>3, <3>2, <3>3, <3>4 DEF Named, OneByte
  <2>10. QED
    BY <1>1, <2>5, <2>9 DEF FirstFits
<1>6. CASE ~(OneByte(Diff(k)) /\ ~result.single_byte)
  <2>1. result' = [result EXCEPT !.min_popcount = low]
    BY <1>6 DEF ScanStep
  <2> HIDE DEF low
  <2>2. /\ result' \in Shape /\ result'.single_byte = result.single_byte
        /\ result'.lane = result.lane /\ result'.sample_index = result.sample_index
        /\ result'.stored = result.stored /\ result'.observed = result.observed
    BY <1>4, <2>1 DEF Shape
  <2>3. CASE result.single_byte
    <3>1. PICK j \in 0..N : Named(j)
      BY <1>1, <2>3 DEF FirstFits
    <3>2. j < Scanned' /\ Position' = j
      BY <1>1, <1>2, <2>2, <3>1 DEF Named, Position
    <3>3. Named(j)'
      BY <1>1, <1>3, <2>2, <3>1, <3>2 DEF Named, OneByte
    <3>4. QED
      BY <1>1, <2>2, <2>3, <3>3 DEF FirstFits
  <2>4. CASE ~result.single_byte
    <3>1. ~OneByte(Diff(k))
      BY <1>6, <2>4
    <3>2. \A i \in 0..N : i < k => ~OneByte(Diff(i))
      BY <1>1, <1>2, <2>4 DEF FirstFits
    <3>3. \A i \in 0..N : i < k + 1 => ~OneByte(Diff(i))
      <4>1. \A i \in 0..N : i < k + 1 => i < k \/ i = k
        BY <1>1
      <4>2. QED
        BY <3>1, <3>2, <4>1
    <3>4. \A i \in 0..N : i < Scanned' => ~OneByte(Diff(i))'
      BY <1>2, <1>3, <3>3 DEF OneByte
    <3>5. QED
      BY <1>1, <2>2, <2>4, <3>4 DEF FirstFits
  <2>5. QED
    BY <2>3, <2>4
<1>7. QED
  BY <1>5, <1>6

(* Only the scan touches the result.                                       *)
LEMMA ScanInvStep == Typed /\ Verdict /\ ScanInv /\ [Next]_vars => ScanInv'
<1> SUFFICES ASSUME Typed, Verdict, ScanInv, [Next]_vars PROVE ScanInv'
  OBVIOUS
<1> USE Sizes
<1>1. CASE (\E b \in Byte : ReadByte(b)) \/ (\E i \in Bit : FlipAccumulator(i))
           \/ StartReplay \/ ReplayByte \/ HashesAgree \/ Detect \/ ForwardByte
           \/ StartBackward \/ BackwardByte
  <2>1. result' = result /\ pc' # "scan"
    BY <1>1 DEF ReadByte, FlipAccumulator, StartReplay, ReplayByte, HashesAgree, Detect,
                ForwardByte, StartBackward, BackwardByte
  <2>2. pc' = "done" => pc = "replay" /\ detected' = detected
    BY <1>1 DEF ReadByte, FlipAccumulator, StartReplay, ReplayByte, HashesAgree, Detect,
                ForwardByte, StartBackward, BackwardByte
  <2>3. ~(pc' = "done" /\ detected')
    <3>1. pc = "replay" => ~detected
      BY DEF Verdict
    <3>2. QED
      BY <2>2, <3>1, Zenon
  <2>4. QED
    BY <2>1, <2>3, Zenon DEF ScanInv, FirstOfAll
<1>2. CASE StartScan
  <2>1. pc' = "scan" /\ k' = 0 /\ result' = NoResult
    BY <1>2 DEF StartScan
  <2>2. Scanned' = 0 /\ \A i \in 0..N : ~(i < 0)
    BY <2>1 DEF Scanned
  <2>3. ~NoResult.single_byte
    BY DEF NoResult
  <2>4. QED
    BY <2>1, <2>2, <2>3, EmptyShape DEF ScanInv, FirstOfAll, FirstFits
<1>3. CASE \E stored \in Byte : ScanStep(stored)
  <2> PICK stored \in Byte : ScanStep(stored)
    BY <1>3
  <2>1. pc = "scan" /\ pc' = "scan"
    BY DEF ScanStep
  <2>2. result \in Shape /\ FirstFits
    BY <2>1 DEF ScanInv, FirstOfAll
  <2>3. result' \in Shape /\ FirstFits'
    BY <2>2, ScanFinds DEF Typed
  <2>4. QED
    BY <2>3 DEF ScanInv, FirstOfAll
<1>4. CASE ScanDone \/ UNCHANGED vars
  <2>1. /\ result' = result /\ bytes' = bytes /\ forward' = forward /\ backward' = backward
        /\ detected' = detected
    BY <1>4 DEF ScanDone, vars
  <2>2. Scanned' = Scanned
    BY <1>4 DEF ScanDone, vars, Scanned
  <2>3. /\ pc' = "scan" => pc = "scan"
        /\ pc' = "done" => pc = "scan" \/ pc = "done"
    BY <1>4 DEF ScanDone, vars
  <2>4. \A j \in 0..N : Diff(j)' = Diff(j) /\ (Named(j)' <=> Named(j))
    BY <2>1, <2>2 DEF Diff, Named, OneByte, Position
  <2>5. \A j \in 0..N : OneByte(Diff(j))' <=> OneByte(Diff(j))
    BY <2>1 DEF Diff, OneByte
  <2>6. FirstOfAll'
    BY <2>1, <2>2, <2>3, <2>4, <2>5, Zenon DEF ScanInv, FirstOfAll, FirstFits
  <2>7. QED
    BY <2>1, <2>6 DEF ScanInv
<1>5. QED
  BY <1>1, <1>2, <1>3, <1>4 DEF Next, RoundStep, Returned

(* The scan keeps the smallest popcount of the differences it has seen.    *)
Seen(j) == j < Scanned /\ result.min_popcount = popcount64(Diff(j))

(* It is the popcount of one of them, and none is smaller.                 *)
LowestOfAll ==
    pc = "scan" \/ (pc = "done" /\ detected) =>
        /\ \A i \in 0..N : i < Scanned => result.min_popcount <= popcount64(Diff(i))
        /\ result.min_popcount = WordBits + 1 \/ \E j \in 0..N : Seen(j)

(* A scan step takes a popcount that is smaller than all before.           *)
LEMMA LowestStep == Typed /\ Verdict /\ ScanInv /\ LowestOfAll /\ [Next]_vars => LowestOfAll'
<1> SUFFICES ASSUME Typed, Verdict, ScanInv, LowestOfAll, [Next]_vars PROVE LowestOfAll'
  OBVIOUS
<1> USE Sizes
<1>1. CASE (\E b \in Byte : ReadByte(b)) \/ (\E i \in Bit : FlipAccumulator(i))
           \/ StartReplay \/ ReplayByte \/ HashesAgree \/ Detect \/ ForwardByte
           \/ StartBackward \/ BackwardByte
  <2>1. pc' # "scan" /\ (pc' = "done" => pc = "replay" /\ detected' = detected)
    BY <1>1 DEF ReadByte, FlipAccumulator, StartReplay, ReplayByte, HashesAgree, Detect,
                ForwardByte, StartBackward, BackwardByte
  <2>2. pc = "replay" => ~detected
    BY DEF Verdict
  <2>3. ~(pc' = "scan" \/ (pc' = "done" /\ detected'))
    BY <2>1, <2>2, Zenon
  <2>4. QED
    BY <2>3 DEF LowestOfAll
<1>2. CASE StartScan
  <2>1. pc' = "scan" /\ k' = 0 /\ result' = NoResult
    BY <1>2 DEF StartScan
  <2>2. Scanned' = 0 /\ \A i \in 0..N : ~(i < 0)
    BY <2>1 DEF Scanned
  <2>3. result'.min_popcount = WordBits + 1
    BY <2>1 DEF NoResult
  <2>4. QED
    BY <2>2, <2>3 DEF LowestOfAll
<1>3. CASE \E stored \in Byte : ScanStep(stored)
  <2> PICK stored \in Byte : ScanStep(stored)
    BY <1>3
  <2> DEFINE bits == popcount64(Diff(k))
             old == result.min_popcount
             low == IF bits < old THEN bits ELSE old
  <2>1. /\ pc = "scan" /\ pc' = "scan" /\ k \in 0..N /\ k' = k + 1
        /\ forward' = forward /\ backward' = backward
    BY DEF ScanStep, Typed
  <2>2. Scanned = k /\ Scanned' = k + 1
    BY <2>1 DEF Scanned
  <2>3. \A j \in 0..N : popcount64(Diff(j))' = popcount64(Diff(j)) /\ popcount64(Diff(j)) \in Nat
    BY <2>1, PopcountIsNat DEF Diff, popcount64
  <2>4. old \in Nat /\ bits \in Nat /\ result \in Shape
    BY PopcountIsNat DEF ScanInv, Shape
  <2>5. result'.min_popcount = low
    <3>1. CASE OneByte(Diff(k)) /\ ~result.single_byte
      <4>1. result' = [[result EXCEPT !.min_popcount = low]
                          EXCEPT !.single_byte = TRUE, !.lane = k % LaneCount,
                                 !.sample_index = k \div LaneCount,
                                 !.stored = stored, !.observed = BitXor(stored, Diff(k))]
        BY <3>1 DEF ScanStep
      <4> HIDE DEF low
      <4>2. QED
        BY <2>4, <4>1 DEF Shape
    <3>2. CASE ~(OneByte(Diff(k)) /\ ~result.single_byte)
      <4>1. result' = [result EXCEPT !.min_popcount = low]
        BY <3>2 DEF ScanStep
      <4> HIDE DEF low
      <4>2. QED
        BY <2>4, <4>1 DEF Shape
    <3>3. QED
      BY <3>1, <3>2
  <2>6. low <= old /\ low <= bits /\ (low = old \/ low = bits) /\ low \in Nat
    BY <2>4
  <2> HIDE DEF low, bits, old
  <2>7. ASSUME NEW i \in 0..N, i < k + 1 PROVE low <= popcount64(Diff(i))
    <3>1. CASE i = k
      BY <2>6, <3>1 DEF bits
    <3>2. CASE i # k
      <4>1. i < k
        BY <2>1, <2>7, <3>2
      <4>2. old <= popcount64(Diff(i))
        BY <2>1, <2>2, <4>1 DEF LowestOfAll, old
      <4>3. QED
        BY <2>3, <2>4, <2>6, <4>2
    <3>3. QED
      BY <3>1, <3>2
  <2>8. low = WordBits + 1 \/ \E j \in 0..N : j < k + 1 /\ low = popcount64(Diff(j))
    <3>1. CASE low = bits
      BY <2>1, <3>1 DEF bits
    <3>2. CASE low = old
      <4>1. old = WordBits + 1 \/ \E j \in 0..N : j < k /\ old = popcount64(Diff(j))
        BY <2>1, <2>2 DEF LowestOfAll, Seen, old
      <4>2. \A j \in 0..N : j < k => j < k + 1
        BY <2>1
      <4>3. QED
        BY <3>2, <4>1, <4>2
    <3>3. QED
      BY <2>6, <3>1, <3>2
  <2>9. QED
    BY <2>2, <2>3, <2>5, <2>7, <2>8 DEF LowestOfAll, Seen
<1>4. CASE ScanDone \/ UNCHANGED vars
  <2>1. result' = result /\ forward' = forward /\ backward' = backward /\ detected' = detected
    BY <1>4 DEF ScanDone, vars
  <2>2. Scanned' = Scanned
    BY <1>4 DEF ScanDone, vars, Scanned
  <2>3. /\ pc' = "scan" => pc = "scan"
        /\ pc' = "done" => pc = "scan" \/ pc = "done"
    BY <1>4 DEF ScanDone, vars
  <2>4. \A j \in 0..N : popcount64(Diff(j))' = popcount64(Diff(j)) /\ (Seen(j)' <=> Seen(j))
    BY <2>1, <2>2 DEF Diff, Seen, popcount64
  <2>5. QED
    BY <2>1, <2>2, <2>3, <2>4, Zenon DEF LowestOfAll
<1>5. QED
  BY <1>1, <1>2, <1>3, <1>4 DEF Next, RoundStep, Returned

-----------------------------------------------------------------------------
(* The inductive invariant.                                                *)
RoundInv ==
    /\ Typed /\ detected \in BOOLEAN
    /\ RegisterChain /\ MemoryChain /\ Agreement /\ Verdict
    /\ ForwardChain /\ BackwardChain /\ RewindChain /\ FlipChain
    /\ ScanInv /\ LowestOfAll

(* It holds before the first byte.                                         *)
LEMMA RoundInvInit == Init => RoundInv
<1> SUFFICES ASSUME Init PROVE RoundInv
  OBVIOUS
<1>1. pc = "compute" /\ detected = FALSE
  BY DEF Init
<1>2. Agreement /\ ForwardChain
  BY <1>1 DEF Agreement, ForwardChain
<1>3. BackwardChain /\ RewindChain /\ FlipChain /\ LowestOfAll
  BY <1>1 DEF BackwardChain, RewindChain, FlipChain, LowestOfAll, Rewound
<1>4. Verdict
  BY <1>1 DEF Verdict
<1>5. detected \in BOOLEAN
  BY <1>1, Zenon
<1>6. QED
  BY <1>2, <1>3, <1>4, <1>5, TypedInit, RegisterChainInit, MemoryChainInit, ScanInvInit
     DEF RoundInv

(* Every step keeps it.                                                    *)
LEMMA RoundInvStep == RoundInv /\ [Next]_vars => RoundInv'
<1> SUFFICES ASSUME RoundInv, [Next]_vars PROVE RoundInv'
  OBVIOUS
<1>1. detected' = detected \/ detected' = TRUE
  BY DEF Next, RoundStep, Returned, vars, ReadByte, FlipAccumulator, StartReplay, ReplayByte,
         HashesAgree, Detect, ForwardByte, StartBackward, BackwardByte, StartScan, ScanStep,
         ScanDone
<1>2. detected' \in BOOLEAN
  BY <1>1, Zenon DEF RoundInv
<1>3. QED
  BY <1>2, TypedStep, RegisterChainStep, MemoryChainStep, AgreementStep, VerdictStep,
     ForwardChainStep, BackwardChainStep, RewindChainStep, FlipChainStep, ScanInvStep, LowestStep
     DEF RoundInv

(* A round of ch, from its first byte to reverse_fnv's result (lines       *)
(* 204-346): the invariant the properties are read off.                    *)
THEOREM ChRoundInvariant == Spec => []RoundInv
<1>1. QED
  BY RoundInvInit, RoundInvStep, PTL DEF Spec

(* Every variable of a round keeps its type: hashes stay in a word, and    *)
(* the buffers are only written within their bounds.                       *)
LEMMA RoundTypeCorrect == RoundInv => TypeOK
<1> SUFFICES ASSUME RoundInv PROVE TypeOK
  OBVIOUS
<1>1. detected \in BOOLEAN
  BY DEF RoundInv
<1>2. result \in Shape
  BY DEF RoundInv, ScanInv
<1>3. /\ result.single_byte \in BOOLEAN /\ result.lane \in 0..LaneCount - 1
      /\ result.sample_index \in 0..SampleCount
      /\ result.stored \in Byte /\ result.observed \in Byte
  BY <1>2 DEF Shape
<1>4. Typed
  BY DEF RoundInv
<1>5. QED
  BY <1>1, <1>3, <1>4 DEF Typed, TypeOK

(* On sound hardware a round never reports a detection: replay_hash and    *)
(* compute_rows compute the same function of the same bytes.               *)
LEMMA RoundNoFalseAlarm == RoundInv => NoFalseAlarm
<1> SUFFICES ASSUME RoundInv, pc = "done", NoFault PROVE ~detected
  BY DEF NoFalseAlarm, NoFault
<1>1. Replayed = N /\ Computed = N /\ N \in 0..N /\ N <= N
  BY Sizes DEF Replayed, Computed
<1>2. replayed[N] = actual[N]
  BY <1>1 DEF RoundInv, Agreement
<1>3. acc = hash
  BY <1>1, <1>2 DEF RoundInv, RegisterChain, MemoryChain
<1>4. QED
  BY <1>3 DEF RoundInv, Verdict

(* One misread byte or one flipped bit, anywhere in a stream of any        *)
(* length, is always detected: no later byte can make the hashes meet.     *)
LEMMA RoundSingleFaultIsDetected == RoundInv => SingleFaultIsDetected
<1> SUFFICES ASSUME RoundInv, pc = "done",
                    (\E j \in 0..N - 1 : OnlyMisread(j)) \/ (\E f \in flips : OnlyFlip(f))
             PROVE  detected
  BY DEF SingleFaultIsDetected
<1>1. Replayed = N /\ Computed = N /\ N \in 0..N /\ N <= N
  BY Sizes DEF Replayed, Computed
<1>2. replayed[N] # actual[N]
  <2>1. ASSUME NEW j \in 0..N - 1, OnlyMisread(j) PROVE replayed[N] # actual[N]
    <3>1. ~(N <= j)
      BY Sizes
    <3>2. QED
      BY <1>1, <2>1, <3>1 DEF RoundInv, Agreement
  <2>2. ASSUME NEW f \in flips, OnlyFlip(f) PROVE replayed[N] # actual[N]
    <3>1. PICK a \in 0..N, i \in Bit : f = <<a, i>>
      BY DEF RoundInv, Typed
    <3>2. ~(N < a)
      BY Sizes
    <3>3. QED
      BY <1>1, <2>2, <3>1, <3>2 DEF RoundInv, Agreement
  <2>3. QED
    BY <2>1, <2>2
<1>3. acc # hash
  BY <1>1, <1>2 DEF RoundInv, RegisterChain, MemoryChain
<1>4. QED
  BY <1>3 DEF RoundInv, Verdict

(* Whatever faults a round had and whatever the buffers held before it,    *)
(* the scan compares this round's two chains, and they meet nowhere.       *)
LEMMA RoundBuffersAreThisRounds == RoundInv => BuffersAreThisRounds
<1> SUFFICES ASSUME RoundInv, detected, pc \in {"scan", "done"}
             PROVE  /\ forward[0] = k_fnv_basis /\ backward[N] = acc
                    /\ \A j \in 0..N - 1 : /\ forward[j + 1] = Mix(forward[j], bytes[j])
                                           /\ backward[j + 1] = Mix(backward[j], bytes[j])
                    /\ \A j \in 0..N : forward[j] # backward[j]
  BY DEF BuffersAreThisRounds
<1> USE Sizes
<1>1. \A j \in 0..N : forward[j] = replayed[j]
  BY DEF RoundInv, ForwardChain
<1>2. Replayed = N /\ pc # "backward"
  BY DEF Replayed
<1>3. replayed[0] = k_fnv_basis /\ \A j \in 0..N - 1 : replayed[j + 1] = Mix(replayed[j], bytes[j])
  BY <1>2 DEF RoundInv, MemoryChain
<1>4. forward[0] = k_fnv_basis /\ \A j \in 0..N - 1 : forward[j + 1] = Mix(forward[j], bytes[j])
  BY <1>1, <1>3
<1>5. backward[N] = acc /\ \A j \in 0..N - 1 : backward[j + 1] = Mix(backward[j], bytes[j])
  BY <1>2 DEF RoundInv, RewindChain
<1>6. \A j \in 0..N : forward[j] # backward[j]
  BY DEF RoundInv, BackwardChain, Rewound
<1>7. QED
  BY <1>4, <1>5, <1>6

(* reverse_fnv explains a round with one misread byte, for any word, byte  *)
(* and stream: the difference at that byte is exactly the two values'.     *)
LEMMA RoundSingleMisreadIsExplained == RoundInv => SingleMisreadIsExplained
<1> SUFFICES ASSUME RoundInv, NEW j \in 0..N - 1, pc = "done", OnlyMisread(j)
             PROVE  /\ result.single_byte
                    /\ Position <= j
                    /\ Position = j => result.stored = bytes[j] /\ result.observed = read[j]
                    /\ (\A i \in 0..j - 1 : ~OneByte(Diff(i))) => Position = j
  BY DEF SingleMisreadIsExplained
<1>1. j \in 0..N /\ j < N /\ N \in Nat
  BY Sizes
<1>2. detected
  <2>1. Replayed = N /\ Computed = N /\ N \in 0..N /\ N <= N /\ ~(N <= j)
    BY Sizes DEF Replayed, Computed
  <2>2. replayed[N] # actual[N]
    BY <2>1 DEF RoundInv, Agreement
  <2>3. acc # hash
    BY <2>1, <2>2 DEF RoundInv, RegisterChain, MemoryChain
  <2>4. QED
    BY <2>3 DEF RoundInv, Verdict
<1>3. Rewound(j)
  BY <1>2 DEF Rewound
<1>4. backward[j] = BitXor(BitXor(actual[j], read[j]), bytes[j])
  BY <1>1, <1>3 DEF RoundInv, BackwardChain
<1>5. forward[j] = actual[j]
  <2>1. forward[j] = replayed[j]
    BY <1>1, <1>2 DEF RoundInv, ForwardChain
  <2>2. j <= Replayed /\ j <= j
    BY <1>1 DEF Replayed
  <2>3. replayed[j] = actual[j]
    BY <1>1, <2>2 DEF RoundInv, Agreement
  <2>4. QED
    BY <2>1, <2>3
<1>6. read[j] \in Byte /\ bytes[j] \in Byte /\ actual[j] \in Word
  BY <1>1 DEF RoundInv, Typed
<1>7. Diff(j) = BitXor(read[j], bytes[j])
  BY <1>4, <1>5, <1>6, XorWords DEF Diff
<1>8. read[j] # bytes[j]
  BY <1>1, FaultCases DEF RoundInv
<1>9. OneByte(Diff(j))
  <2>1. Diff(j) \in Byte /\ Diff(j) # 0
    BY <1>6, <1>7, <1>8, XorBytes
  <2>2. QED
    BY <2>1, SizeAssumption DEF OneByte, Byte
<1>10. Scanned = N + 1 /\ j < Scanned
  BY <1>1 DEF Scanned
<1>11. result.single_byte
  BY <1>1, <1>2, <1>9, <1>10 DEF RoundInv, ScanInv, FirstOfAll, FirstFits
<1>12. PICK m \in 0..N : Named(m)
  BY <1>2, <1>11 DEF RoundInv, ScanInv, FirstOfAll, FirstFits
<1>13. Position = m /\ ~(j < m)
  BY <1>1, <1>9, <1>12 DEF Named
<1>14. m <= j /\ m \in Int /\ (m < j => m \in 0..j - 1)
  BY <1>1, <1>13
<1>15. m = j => result.stored = bytes[j] /\ result.observed = read[j]
  <2>1. m = j => /\ result.stored = bytes[j]
                 /\ result.observed = BitXor(bytes[j], BitXor(read[j], bytes[j]))
    BY <1>1, <1>7, <1>12 DEF Named
  <2>2. QED
    BY <2>1, <1>6, XorBytes
<1>16. m < j => ~(\A i \in 0..j - 1 : ~OneByte(Diff(i)))
  BY <1>12, <1>14 DEF Named
<1>17. m < j \/ m = j
  BY <1>1, <1>14
<1>18. QED
  BY <1>11, <1>13, <1>14, <1>15, <1>16, <1>17

(* One flipped bit of the accumulator, before any byte or behind the last: *)
(* the analysis finds exactly that bit there, and the popcount it reports  *)
(* is 1 (lines 300-346).                                                   *)
LEMMA RoundFlipLeavesItsBit == RoundInv => FlipLeavesItsBit
<1> SUFFICES ASSUME RoundInv, NEW f \in flips, pc = "done", OnlyFlip(f)
             PROVE  Diff(f[1]) = 2^f[2] /\ result.min_popcount = 1
  BY DEF FlipLeavesItsBit
<1>1. PICK a \in 0..N, i \in Bit : f = <<a, i>>
  BY DEF RoundInv, Typed
<1>2. Replayed = N /\ Computed = N /\ N \in 0..N /\ N \in Nat /\ Scanned = N + 1
  BY Sizes DEF Replayed, Computed, Scanned
<1>3. OnlyFlip(<<a, i>>) /\ flips = {<<a, i>>}
  BY <1>1 DEF OnlyFlip
<1>4. detected
  <2>1. ~(N < a)
    BY <1>2
  <2>2. replayed[N] # actual[N]
    BY <1>2, <1>3, <2>1 DEF RoundInv, Agreement
  <2>3. acc # hash
    BY <1>2, <2>2 DEF RoundInv, RegisterChain, MemoryChain
  <2>4. QED
    BY <2>3 DEF RoundInv, Verdict
<1>5. replayed[a] = Due(a)
  <2>1. CASE a = 0
    BY <2>1 DEF Due, RoundInv, MemoryChain
  <2>2. CASE a # 0
    <3>1. /\ a - 1 \in 0..N - 1 /\ a - 1 \in 0..N /\ a - 1 < a /\ a - 1 <= N
          /\ (a - 1) + 1 = a /\ a - 1 < N
      BY <1>2, <2>2
    <3>2. replayed[a - 1] = actual[a - 1]
      BY <1>2, <1>3, <3>1 DEF RoundInv, Agreement
    <3>3. read[a - 1] = bytes[a - 1]
      BY <1>3, <3>1, FaultCases DEF RoundInv
    <3>4. replayed[a] = Mix(replayed[a - 1], bytes[a - 1])
      BY <1>2, <3>1 DEF RoundInv, MemoryChain
    <3>5. QED
      BY <2>2, <3>2, <3>3, <3>4 DEF Due
  <2>3. QED
    BY <2>1, <2>2
<1>6. actual[a] = BitXor(replayed[a], 2^i)
  BY <1>3, <1>5 DEF RoundInv, RegisterChain
<1>7. forward[a] = replayed[a] /\ replayed[a] \in Word
  BY <1>4 DEF RoundInv, ForwardChain, Typed
<1>8. backward[a] = actual[a]
  <2>1. Rewound(a) /\ a >= a
    BY <1>2, <1>4 DEF Rewound
  <2>2. QED
    BY <1>3, <2>1 DEF RoundInv, FlipChain
<1>9. Diff(a) = 2^i
  BY <1>6, <1>7, <1>8, XorBits DEF Diff
<1>10. result.min_popcount <= 1
  BY <1>2, <1>4, <1>9, PopcountOfOneBit DEF RoundInv, LowestOfAll
<1>11. result.min_popcount >= 1
  <2>1. CASE result.min_popcount = WordBits + 1
    BY <2>1, SizeAssumption
  <2>2. ASSUME NEW j \in 0..N, result.min_popcount = popcount64(Diff(j))
        PROVE  result.min_popcount >= 1
    <3>1. forward[j] # backward[j]
      BY <1>4 DEF RoundInv, BackwardChain, Rewound
    <3>2. forward[j] \in Word /\ backward[j] \in Word
      BY DEF RoundInv, Typed
    <3>3. Diff(j) \in Word /\ Diff(j) # 0
      BY <3>1, <3>2, XorInWord DEF Diff
    <3>4. QED
      BY <2>2, <3>3, PopcountOfNonzero
  <2>3. QED
    BY <1>4, <2>1, <2>2 DEF RoundInv, LowestOfAll, Seen
<1>12. result.min_popcount \in Nat
  BY DEF RoundInv, ScanInv, Shape
<1>13. QED
  BY <1>1, <1>9, <1>10, <1>11, <1>12

-----------------------------------------------------------------------------
(* The self-test of the detector (ChSelfTest).                             *)

(* The hash of a stream is the chain of its bytes.                         *)
Chained(h, s, n) ==
    /\ h \in [0..n -> Word]
    /\ h[0] = k_fnv_basis
    /\ \A j \in 0..n - 1 : h[j + 1] = Mix(h[j], s[j])

(* Such a chain exists, so that HashesOf is one.                           *)
LEMMA HashesChain ==
    ASSUME NEW s \in [0..N - 1 -> Byte] PROVE Chained(HashesOf(s), s, N)
<1> DEFINE T == {n \in Nat : n <= N => \E h : Chained(h, s, n)}
<1> USE Sizes
<1>1. 0 \in T
  <2>1. [j \in 0..0 |-> k_fnv_basis] \in [0..0 -> Word]
    BY ConstantsAssumption
  <2>2. Chained([j \in 0..0 |-> k_fnv_basis], s, 0)
    BY <2>1 DEF Chained
  <2>3. QED
    BY <2>2
<1>2. ASSUME NEW n \in Nat, n \in T PROVE n + 1 \in T
  <2> SUFFICES ASSUME n + 1 <= N PROVE \E h : Chained(h, s, n + 1)
    OBVIOUS
  <2>1. PICK h : Chained(h, s, n)
    BY <1>2
  <2> DEFINE g == [j \in 0..n + 1 |-> IF j = n + 1 THEN Mix(h[n], s[n]) ELSE h[j]]
  <2>2. s[n] \in Byte /\ h[n] \in Word
    BY <2>1 DEF Chained
  <2>3. Mix(h[n], s[n]) \in Word
    BY <2>2, MixInWord
  <2>4. \A j \in 0..n + 1 : j # n + 1 => j \in 0..n
    OBVIOUS
  <2>5. g \in [0..n + 1 -> Word]
    BY <2>1, <2>3, <2>4 DEF Chained
  <2>6. g[n + 1] = Mix(h[n], s[n]) /\ \A j \in 0..n : g[j] = h[j]
    OBVIOUS
  <2> HIDE DEF g
  <2>7. ASSUME NEW j \in 0..n PROVE g[j + 1] = Mix(g[j], s[j])
    <3>1. CASE j = n
      BY <2>6, <3>1
    <3>2. CASE j # n
      <4>1. j + 1 \in 0..n /\ j \in 0..n - 1
        BY <3>2
      <4>2. QED
        BY <2>1, <2>6, <4>1 DEF Chained
    <3>3. QED
      BY <3>1, <3>2
  <2>8. g[0] = k_fnv_basis
    BY <2>1, <2>6 DEF Chained
  <2>9. Chained(g, s, n + 1)
    BY <2>5, <2>7, <2>8 DEF Chained
  <2>10. QED
    BY <2>9
<1>3. Nat \subseteq T
  <2> HIDE DEF T
  <2>1. QED
    BY <1>1, <1>2, NumberByNumber
<1>4. PICK f : Chained(f, s, N)
  <2>1. N \in T /\ N <= N
    BY <1>3
  <2>2. QED
    BY <2>1
<1> DEFINE step(h) == [j \in 0..N |-> IF j = 0 THEN k_fnv_basis ELSE Mix(h[j - 1], s[j - 1])]
<1>5. f = step(f)
  <2>1. \A j \in 0..N : f[j] = IF j = 0 THEN k_fnv_basis ELSE Mix(f[j - 1], s[j - 1])
    <3> SUFFICES ASSUME NEW j \in 0..N, j # 0 PROVE f[j] = Mix(f[j - 1], s[j - 1])
      BY <1>4 DEF Chained
    <3>1. j - 1 \in 0..N - 1 /\ (j - 1) + 1 = j
      OBVIOUS
    <3>2. QED
      BY <1>4, <3>1 DEF Chained
  <2>2. QED
    BY <1>4, <2>1 DEF Chained
<1>6. HashesOf(s) = CHOOSE h : h = step(h)
  BY DEF HashesOf
<1> DEFINE g == HashesOf(s)
<1>7. g = step(g)
  BY <1>5, <1>6
<1> HIDE DEF g
<1>8. /\ DOMAIN g = 0..N /\ g[0] = k_fnv_basis
      /\ \A j \in 0..N : j # 0 => g[j] = Mix(g[j - 1], s[j - 1])
  BY <1>7
<1>9. ASSUME NEW j \in 0..N - 1 PROVE g[j + 1] = Mix(g[j], s[j])
  <2>1. j + 1 \in 0..N /\ j + 1 # 0 /\ (j + 1) - 1 = j
    OBVIOUS
  <2>2. QED
    BY <1>8, <2>1
<1> DEFINE U == {n \in Nat : n <= N => g[n] \in Word}
<1>10. 0 \in U
  BY <1>8, ConstantsAssumption
<1>11. ASSUME NEW n \in Nat, n \in U PROVE n + 1 \in U
  <2> SUFFICES ASSUME n + 1 <= N PROVE g[n + 1] \in Word
    OBVIOUS
  <2>1. g[n] \in Word /\ s[n] \in Byte /\ n \in 0..N - 1
    BY <1>11
  <2>2. QED
    BY <1>9, <2>1, MixInWord
<1>12. Nat \subseteq U
  <2> HIDE DEF U
  <2>1. QED
    BY <1>10, <1>11, NumberByNumber
<1>13. g \in [0..N -> Word]
  <2>1. \A j \in 0..N : g[j] \in Word
    BY <1>12
  <2>2. g = [j \in 0..N |-> g[j]]
    BY <1>7
  <2>3. QED
    BY <2>1, <2>2
<1>14. Chained(g, s, N)
  BY <1>8, <1>9, <1>13 DEF Chained
<1>15. QED
  BY <1>14 DEF g

(* Two chains that take in the same bytes from a place on meet at the end  *)
(* exactly if they met at that place.                                      *)
LEMMA ChainsMeet ==
    ASSUME NEW s \in [0..N - 1 -> Byte], NEW f \in [0..N -> Word], NEW g \in [0..N -> Word],
           NEW m \in 0..N,
           \A j \in 0..N - 1 : j >= m => /\ f[j + 1] = Mix(f[j], s[j])
                                         /\ g[j + 1] = Mix(g[j], s[j])
    PROVE  f[N] = g[N] <=> f[m] = g[m]
<1> DEFINE T == {d \in Nat : m + d <= N => (f[m + d] = g[m + d] <=> f[m] = g[m])}
<1> USE Sizes
<1>1. 0 \in T
  OBVIOUS
<1>2. ASSUME NEW d \in Nat, d \in T PROVE d + 1 \in T
  <2> SUFFICES ASSUME m + (d + 1) <= N
               PROVE  f[m + (d + 1)] = g[m + (d + 1)] <=> f[m] = g[m]
    OBVIOUS
  <2> DEFINE x == m + d
  <2>1. m + (d + 1) = x + 1 /\ x \in 0..N - 1 /\ x \in 0..N /\ x >= m /\ x <= N
    OBVIOUS
  <2>2. f[x] = g[x] <=> f[m] = g[m]
    BY <1>2, <2>1
  <2> HIDE DEF x
  <2>3. f[x + 1] = Mix(f[x], s[x]) /\ g[x + 1] = Mix(g[x], s[x])
    BY <2>1
  <2>4. f[x] \in Word /\ g[x] \in Word /\ s[x] \in Byte
    BY <2>1
  <2>5. f[x + 1] = g[x + 1] <=> f[x] = g[x]
    BY <2>3, <2>4, MixInjective
  <2>6. QED
    BY <2>1, <2>2, <2>5
<1>3. Nat \subseteq T
  <2> HIDE DEF T
  <2>1. QED
    BY <1>1, <1>2, NumberByNumber
<1>4. N - m \in Nat /\ m + (N - m) = N /\ N <= N
  OBVIOUS
<1>5. N - m \in T
  BY <1>3, <1>4
<1>6. QED
  BY <1>4, <1>5

(* The hashes of two streams are the same as far as the streams are.       *)
LEMMA SameSoFar ==
    ASSUME NEW s \in [0..N - 1 -> Byte], NEW t \in [0..N - 1 -> Byte], NEW m \in 0..N,
           \A j \in 0..N - 1 : j < m => s[j] = t[j]
    PROVE  HashesOf(s)[m] = HashesOf(t)[m]
<1> DEFINE f == HashesOf(s)
           g == HashesOf(t)
           T == {n \in Nat : n <= m => f[n] = g[n]}
<1> USE Sizes
<1>1. Chained(f, s, N) /\ Chained(g, t, N)
  BY HashesChain
<1> HIDE DEF f, g
<1>2. 0 \in T
  BY <1>1 DEF Chained
<1>3. ASSUME NEW n \in Nat, n \in T PROVE n + 1 \in T
  <2> SUFFICES ASSUME n + 1 <= m PROVE f[n + 1] = g[n + 1]
    OBVIOUS
  <2>1. n \in 0..N - 1 /\ n < m /\ f[n] = g[n]
    BY <1>3
  <2>2. QED
    BY <1>1, <2>1 DEF Chained
<1>4. Nat \subseteq T
  <2> HIDE DEF T
  <2>1. QED
    BY <1>2, <1>3, NumberByNumber
<1>5. m \in Nat /\ m <= m
  OBVIOUS
<1>6. QED
  BY <1>4, <1>5 DEF f, g

(* The buffers of the analysis, when both are full.                        *)
Full ==
    /\ bytes \in [0..N - 1 -> Byte]
    /\ forward \in [0..N -> Word] /\ backward \in [0..N -> Word]
    /\ \A j \in 0..N : forward[j] = HashesOf(bytes)[j]
    /\ \A j \in 0..N - 1 : backward[j + 1] = Mix(backward[j], bytes[j])

(* Changing byte j to b explains the hash the analysis started from exactly *)
(* if b is the byte at which the two buffers part.                         *)
LEMMA ChangeExplains ==
    ASSUME Full, NEW j \in 0..N - 1, NEW b \in Byte
    PROVE  HashWith(j, b) = backward[N] <=> Mix(forward[j], b) = Mix(backward[j], bytes[j])
<1> DEFINE t == [bytes EXCEPT ![j] = b]
           g == HashesOf(t)
<1> USE Sizes
<1>1. t \in [0..N - 1 -> Byte]
  BY DEF Full
<1>2. Chained(g, t, N)
  BY <1>1, HashesChain
<1>3. j \in 0..N /\ j + 1 \in 0..N
  OBVIOUS
<1>4. t[j] = b /\ \A i \in 0..N - 1 : i # j => t[i] = bytes[i]
  BY DEF Full
<1>5. g[j] = forward[j]
  <2>1. \A i \in 0..N - 1 : i < j => bytes[i] = t[i]
    BY <1>4
  <2>2. HashesOf(bytes)[j] = HashesOf(t)[j]
    <3>1. bytes \in [0..N - 1 -> Byte]
      BY DEF Full
    <3> HIDE DEF t
    <3>2. QED
      BY <1>1, <1>3, <2>1, <3>1, SameSoFar
  <2>3. QED
    BY <1>3, <2>2 DEF Full
<1>6. HashWith(j, b) = g[N]
  BY DEF HashWith
<1> HIDE DEF g, t
<1>7. g[j + 1] = Mix(forward[j], b)
  BY <1>2, <1>4, <1>5 DEF Chained
<1>8. \A i \in 0..N - 1 : i >= j + 1 => /\ g[i + 1] = Mix(g[i], bytes[i])
                                        /\ backward[i + 1] = Mix(backward[i], bytes[i])
  <2> SUFFICES ASSUME NEW i \in 0..N - 1, i >= j + 1
               PROVE  /\ g[i + 1] = Mix(g[i], bytes[i])
                      /\ backward[i + 1] = Mix(backward[i], bytes[i])
    OBVIOUS
  <2>1. i # j
    OBVIOUS
  <2>2. QED
    BY <1>2, <1>4, <2>1 DEF Chained, Full
<1>9. g[N] = backward[N] <=> g[j + 1] = backward[j + 1]
  <2>1. g \in [0..N -> Word] /\ backward \in [0..N -> Word] /\ bytes \in [0..N - 1 -> Byte]
    BY <1>2 DEF Chained, Full
  <2>2. QED
    BY <1>3, <1>8, <2>1, ChainsMeet
<1>10. backward[j + 1] = Mix(backward[j], bytes[j])
  BY DEF Full
<1>11. QED
  BY <1>6, <1>7, <1>9, <1>10

(* A difference that fits in a byte is one changed byte that would explain *)
(* the hash, and the other way round.                                      *)
LEMMA ByteExplains ==
    ASSUME Full, NEW j \in 0..N - 1
    PROVE  /\ \A b \in Byte : b # bytes[j] /\ HashWith(j, b) = backward[N] =>
                 OneByte(Diff(j)) /\ Diff(j) = BitXor(b, bytes[j])
           /\ OneByte(Diff(j)) => \E b \in Byte : b # bytes[j] /\ HashWith(j, b) = backward[N]
<1> DEFINE F == forward[j]
           B == backward[j]
           s == bytes[j]
<1> USE Sizes
<1>1. F \in Word /\ B \in Word /\ s \in Byte /\ Diff(j) = BitXor(F, B)
  BY DEF Full, Diff
<1>2. \A b \in Byte : HashWith(j, b) = backward[N] <=> Mix(F, b) = Mix(B, s)
  BY ChangeExplains
<1> HIDE DEF F, B, s
<1>3. BitXor(BitXor(B, s), s) = B
  BY <1>1, XorWords
<1>4. ASSUME NEW b \in Byte, b # s, Mix(F, b) = Mix(B, s)
      PROVE  OneByte(Diff(j)) /\ Diff(j) = BitXor(b, s)
  <2>1. BitXor(BitXor(F, b), s) = B
    BY <1>1, <1>3, <1>4, UnmixMix
  <2>2. BitXor(F, B) = BitXor(b, s)
    BY <1>1, <2>1, XorWords
  <2>3. BitXor(b, s) \in Byte /\ BitXor(b, s) # 0
    BY <1>1, <1>4, XorBytes
  <2>4. QED
    BY <1>1, <2>2, <2>3, SizeAssumption DEF OneByte, Byte
<1>5. ASSUME OneByte(Diff(j)) PROVE \E b \in Byte : b # s /\ Mix(F, b) = Mix(B, s)
  <2> DEFINE d == BitXor(F, B)
             b == BitXor(d, s)
  <2>1. d \in Word /\ d # 0 /\ d < ByteSize
    BY <1>1, <1>5, XorInWord DEF OneByte
  <2>2. d \in Byte
    BY <2>1, SizeAssumption DEF Byte, Word
  <2>3. b \in Byte /\ b # s
    <3> HIDE DEF d
    <3>1. b \in Byte /\ BitXor(b, s) = d
      BY <1>1, <2>2, XorBytes, XorWords
    <3>2. b = s => d = 0
      BY <1>1, <3>1, XorBytes
    <3>3. QED
      BY <2>1, <3>1, <3>2
  <2>4. BitXor(BitXor(F, b), s) = B
    BY <1>1, <2>2, XorDifference
  <2> HIDE DEF b, d
  <2>5. BitXor(F, b) = BitXor(B, s)
    <3>1. BitXor(F, b) \in Word
      BY <1>1, <2>3, XorInWord
    <3>2. BitXor(BitXor(BitXor(F, b), s), s) = BitXor(F, b)
      BY <1>1, <3>1, XorWords
    <3>3. QED
      BY <2>4, <3>2
  <2>6. Mix(F, b) = Mix(B, s)
    BY <2>5 DEF Mix
  <2>7. QED
    BY <2>3, <2>6
<1>6. QED
  BY <1>2, <1>4, <1>5 DEF s

(* The bytes that are injected.                                            *)
LEMMA Places ==
    /\ LastCase = 9
    /\ \A c \in 1..LastCase - 1 :
          /\ Injections[c].sample_index \in 0..SampleCount - 1
          /\ Injections[c].lane \in 0..LaneCount - 1
          /\ Injections[c].replacement \in Byte
<1>1. LastCase = 9
  BY DEF LastCase, Injections
<1>2. SampleCount \in Nat /\ SampleCount >= 2 /\ LaneCount \in Nat /\ LaneCount >= 2
  BY SizeAssumption, InjectionAssumption
<1>3. SampleCount \div 2 \in 0..SampleCount - 1
  BY <1>2
<1>4. \A l \in Nat : l % LaneCount \in 0..LaneCount - 1
  BY <1>2, DivMod
<1>5. ASSUME NEW n \in 0..SampleCount - 1, NEW l \in Nat, NEW r \in Byte
      PROVE  LET inj == OneInjection(n, l, r)
             IN  /\ inj.sample_index \in 0..SampleCount - 1 /\ inj.lane \in 0..LaneCount - 1
                 /\ inj.replacement \in Byte
  BY <1>4 DEF OneInjection
<1>6. 0 \in Byte /\ ByteSize - 1 \in Byte /\ OtherByte \in Byte
  BY SizeAssumption, InjectionAssumption DEF Byte
<1>7. /\ 0 \in 0..SampleCount - 1 /\ 1 \in 0..SampleCount - 1 /\ InnerSample \in 0..SampleCount - 1
      /\ SampleCount - 1 \in 0..SampleCount - 1
  BY <1>2, InjectionAssumption
<1>8. /\ Injections[1] = OneInjection(0, 0, 0) /\ Injections[2] = OneInjection(0, 1, 0)
      /\ Injections[3] = OneInjection(1, 2, 0) /\ Injections[4] = OneInjection(1, 3, 0)
      /\ Injections[5] = OneInjection(InnerSample, 1, 0)
      /\ Injections[6] = OneInjection(InnerSample, 1, OtherByte)
      /\ Injections[7] = OneInjection(SampleCount \div 2, 2, ByteSize - 1)
      /\ Injections[8] = OneInjection(SampleCount - 1, 3, 0)
  BY DEF Injections
<1>9. \A c \in 1..8 : c \in {1, 2, 3, 4, 5, 6, 7, 8}
  OBVIOUS
<1>10. QED
  BY <1>1, <1>3, <1>5, <1>6, <1>7, <1>8, <1>9

(* A place is one byte of the stream, and a byte has one place.            *)
LEMMA PlaceOfByte ==
    ASSUME NEW n \in 0..SampleCount, NEW l \in 0..LaneCount - 1
    PROVE  /\ n < SampleCount => n * LaneCount + l \in 0..N - 1
           /\ \A m \in 0..SampleCount, q \in 0..LaneCount - 1 :
                 n * LaneCount + l = m * LaneCount + q => n = m /\ l = q
<1> DEFINE W == LaneCount
<1>1. W \in Nat \ {0} /\ SampleCount \in Nat /\ N = SampleCount * W
  BY SizeAssumption DEF N
<1> HIDE DEF W
<1>2. \A m \in Nat, q \in 0..W - 1 : (m * W + q) % W = q /\ (m * W + q) \div W = m
  BY <1>1, QuotientUnique
<1>3. n \in Nat /\ l \in 0..W - 1
  BY <1>1 DEF W
<1>4. \A m \in 0..SampleCount, q \in 0..W - 1 : n * W + l = m * W + q => n = m /\ l = q
  BY <1>1, <1>2, <1>3
<1>5. ASSUME n < SampleCount PROVE n * W + l \in 0..N - 1
  <2>1. PICK d \in Nat : SampleCount = n + 1 + d
    <3>1. SampleCount - n - 1 \in Nat /\ SampleCount = n + 1 + (SampleCount - n - 1)
      BY <1>1, <1>3, <1>5
    <3>2. QED
      BY <3>1
  <2>2. SampleCount * W = n * W + W + d * W
    BY <1>1, <1>3, <2>1
  <2>3. n * W \in Nat /\ d * W \in Nat
    BY <1>1, <1>3
  <2> DEFINE x == n * W
             y == d * W
  <2>4. x \in Nat /\ y \in Nat /\ N = x + W + y
    BY <1>1, <2>2, <2>3
  <2> HIDE DEF x, y
  <2>5. x + l \in 0..N - 1
    BY <1>1, <1>3, <2>4
  <2>6. QED
    BY <2>5 DEF x
<1>6. QED
  BY <1>4, <1>5 DEF W

(* The stream of a case, and the byte it replaces.                         *)
LEMMA CorruptedStream ==
    ASSUME bytes \in [0..N - 1 -> Byte], NEW c \in 1..LastCase
    PROVE  /\ Corrupted(c) \in [0..N - 1 -> Byte]
           /\ c < LastCase => /\ byte_index(c) \in 0..N - 1
                              /\ Injections[c].replacement \in Byte
                              /\ Corrupted(c) = [bytes EXCEPT ![byte_index(c)] = Injections[c].replacement]
<1>1. CASE c < LastCase
  <2>1. c \in 1..LastCase - 1
    BY <1>1, Places
  <2> DEFINE n == Injections[c].sample_index
             l == Injections[c].lane
  <2>2. n \in 0..SampleCount - 1 /\ l \in 0..LaneCount - 1 /\ Injections[c].replacement \in Byte
    BY <2>1, Places
  <2> HIDE DEF n, l
  <2>3. n \in 0..SampleCount /\ n < SampleCount
    BY <2>2, SizeAssumption
  <2>4. n * LaneCount + l \in 0..N - 1
    BY <2>2, <2>3, PlaceOfByte
  <2>5. byte_index(c) \in 0..N - 1
    BY <2>4 DEF byte_index, n, l
  <2>6. Corrupted(c) = [bytes EXCEPT ![byte_index(c)] = Injections[c].replacement]
    BY <1>1 DEF Corrupted
  <2>7. [bytes EXCEPT ![byte_index(c)] = Injections[c].replacement] \in [0..N - 1 -> Byte]
    BY <2>2, <2>5
  <2>8. QED
    BY <2>2, <2>5, <2>6, <2>7
<1>2. CASE ~(c < LastCase)
  <2>1. /\ FirstByte \in 0..N - 1 /\ SecondByte \in 0..N - 1 /\ FirstByte # SecondByte
        /\ Pattern \in Byte
    <3>1. FirstByte \in 0..N - 1 /\ SecondByte \in 0..N - 1 /\ FirstByte < SecondByte /\ Pattern \in Byte
      BY InjectionAssumption
    <3>2. QED
      BY <3>1, Sizes
  <2>2. BitXor(bytes[FirstByte], Pattern) \in Byte /\ BitXor(bytes[SecondByte], Pattern) \in Byte
    BY <2>1, XorBytes
  <2>3. Corrupted(c) = [[bytes EXCEPT ![FirstByte] = BitXor(bytes[FirstByte], Pattern)]
                           EXCEPT ![SecondByte] = BitXor(bytes[SecondByte], Pattern)]
    BY <1>2, <2>1 DEF Corrupted
  <2>4. QED
    BY <1>2, <2>1, <2>2, <2>3
<1>3. QED
  BY <1>1, <1>2

(* The analysis of a case is over.                                         *)
Analysed ==
    /\ Full /\ result \in Shape /\ FirstFits /\ pc = "done"
    /\ case \in 1..LastCase
    /\ hash = HashesOf(bytes)[N]
    /\ backward[N] = HashesOf(Corrupted(case))[N]
    /\ case < LastCase => bytes[byte_index(case)] # Injections[case].replacement

(* A byte before `end` explains the hash exactly if a difference fits in a *)
(* byte there.                                                             *)
LEMMA ExplainedByScan ==
    ASSUME Full, NEW end \in 0..N
    PROVE  Explained(backward[N], end) <=> \E j \in 0..end - 1 : OneByte(Diff(j))
<1>1. \A j \in 0..end - 1 : j \in 0..N - 1
  BY Sizes
<1>2. ASSUME Explained(backward[N], end) PROVE \E j \in 0..end - 1 : OneByte(Diff(j))
  <2>1. PICK j \in 0..end - 1, b \in Byte : b # bytes[j] /\ HashWith(j, b) = backward[N]
    BY <1>2 DEF Explained
  <2>2. QED
    BY <1>1, <2>1, ByteExplains
<1>3. ASSUME NEW j \in 0..end - 1, OneByte(Diff(j)) PROVE Explained(backward[N], end)
  <2>1. PICK b \in Byte : b # bytes[j] /\ HashWith(j, b) = backward[N]
    BY <1>1, <1>3, ByteExplains
  <2>2. QED
    BY <2>1 DEF Explained
<1>4. QED
  BY <1>2, <1>3

(* A case with one byte: the analysis names it unless an earlier one would *)
(* do as well.                                                             *)
LEMMA OneByteIsFair ==
    ASSUME Analysed, case < LastCase PROVE Agreed(case) <=> ~Ambiguous(case)
<1> DEFINE x == byte_index(case)
           r == Injections[case].replacement
<1> USE Sizes
<1>1. /\ Full /\ result \in Shape /\ FirstFits /\ pc = "done"
      /\ case \in 1..LastCase /\ case \in 1..LastCase - 1
      /\ bytes \in [0..N - 1 -> Byte]
  <2>1. /\ Full /\ result \in Shape /\ FirstFits /\ pc = "done" /\ case \in 1..LastCase
    BY DEF Analysed
  <2>2. case \in 1..LastCase - 1
    BY <2>1, Places
  <2>3. QED
    BY <2>1, <2>2 DEF Full
<1>2. x \in 0..N - 1 /\ r \in Byte /\ Corrupted(case) = [bytes EXCEPT ![x] = r]
  BY <1>1, CorruptedStream
<1>3. r # bytes[x] /\ HashWith(x, r) = backward[N]
  <2>1. backward[N] = HashesOf([bytes EXCEPT ![x] = r])[N]
    BY <1>2 DEF Analysed
  <2>2. QED
    BY <2>1 DEF HashWith, Analysed
<1>4. OneByte(Diff(x)) /\ Diff(x) = BitXor(r, bytes[x])
  BY <1>1, <1>2, <1>3, ByteExplains
<1>5. Ambiguous(case) <=> \E j \in 0..x - 1 : OneByte(Diff(j))
  <2>1. Ambiguous(case) <=> Explained(backward[N], x)
    BY DEF Ambiguous, Analysed
  <2>2. x \in 0..N
    BY <1>2
  <2> HIDE DEF x
  <2>3. QED
    BY <1>1, <2>1, <2>2, ExplainedByScan
<1>6. Scanned = N + 1
  BY <1>1 DEF Scanned
<1>7. result.single_byte
  BY <1>1, <1>2, <1>4, <1>6 DEF FirstFits
<1>8. PICK m \in 0..N : Named(m)
  BY <1>1, <1>7 DEF FirstFits
<1> DEFINE n == Injections[case].sample_index
           l == Injections[case].lane
<1>9. x = n * LaneCount + l
  BY DEF byte_index
<1>10. n \in 0..SampleCount /\ l \in 0..LaneCount - 1
  <2>1. n \in 0..SampleCount - 1 /\ l \in 0..LaneCount - 1
    BY <1>1, Places
  <2>2. QED
    BY <2>1, SizeAssumption
<1>11. Agreed(case) <=> /\ result.single_byte /\ result.lane = l /\ result.sample_index = n
                        /\ result.stored = bytes[x] /\ result.observed = r
  BY DEF Agreed
<1> HIDE DEF x, r, n, l
<1>12. m = result.sample_index * LaneCount + result.lane
  BY <1>8 DEF Named, Position
<1>13. result.sample_index \in 0..SampleCount /\ result.lane \in 0..LaneCount - 1
  BY <1>1 DEF Shape
<1>14. m = x <=> result.sample_index = n /\ result.lane = l
  BY <1>9, <1>10, <1>12, <1>13, PlaceOfByte
<1>15. m <= x
  BY <1>2, <1>4, <1>8 DEF Named
<1>16. m = x => result.stored = bytes[x] /\ result.observed = r
  <2> SUFFICES ASSUME m = x PROVE result.stored = bytes[x] /\ result.observed = r
    OBVIOUS
  <2>1. m < N
    BY <1>2
  <2>2. result.stored = bytes[x] /\ result.observed = BitXor(bytes[x], BitXor(r, bytes[x]))
    BY <1>4, <1>8, <2>1 DEF Named
  <2>3. bytes[x] \in Byte
    BY <1>1, <1>2
  <2>4. QED
    BY <1>2, <2>2, <2>3, XorBytes
<1>17. Agreed(case) <=> m = x
  BY <1>7, <1>11, <1>14, <1>16
<1>18. m = x <=> ~\E j \in 0..x - 1 : OneByte(Diff(j))
  <2>1. ASSUME m = x, NEW j \in 0..x - 1, OneByte(Diff(j)) PROVE FALSE
    <3>1. j \in 0..N /\ j < m
      BY <1>2, <2>1
    <3>2. QED
      BY <1>8, <2>1, <3>1 DEF Named
  <2>2. ASSUME m # x PROVE \E j \in 0..x - 1 : OneByte(Diff(j))
    <3>1. m \in 0..x - 1
      BY <1>2, <1>15, <2>2
    <3>2. QED
      BY <1>8, <3>1 DEF Named
  <2>3. QED
    BY <2>1, <2>2
<1>19. QED
  BY <1>5, <1>17, <1>18

(* The case with two bytes: no single byte is named unless one would do.   *)
LEMMA TwoBytesAreFair ==
    ASSUME Analysed, ~(case < LastCase) PROVE Agreed(case) <=> ~Ambiguous(case)
<1> USE Sizes
<1>1. Full /\ result \in Shape /\ FirstFits /\ pc = "done"
  BY DEF Analysed
<1>2. Ambiguous(case) <=> Explained(backward[N], N) \/ OneByte(BitXor(hash, backward[N]))
  BY DEF Ambiguous, Analysed
<1>3. BitXor(hash, backward[N]) = Diff(N)
  <2>1. N \in 0..N
    OBVIOUS
  <2>2. QED
    BY <2>1 DEF Diff, Analysed, Full
<1>4. Explained(backward[N], N) <=> \E j \in 0..N - 1 : OneByte(Diff(j))
  <2>1. N \in 0..N
    OBVIOUS
  <2>2. QED
    BY <1>1, <2>1, ExplainedByScan
<1>5. Ambiguous(case) <=> \E j \in 0..N : OneByte(Diff(j))
  <2>1. \A j \in 0..N : j = N \/ j \in 0..N - 1
    OBVIOUS
  <2>2. N \in 0..N /\ \A j \in 0..N - 1 : j \in 0..N
    OBVIOUS
  <2>3. QED
    BY <1>2, <1>3, <1>4, <2>1, <2>2
<1>6. Scanned = N + 1 /\ \A j \in 0..N : j < N + 1
  BY <1>1 DEF Scanned
<1>7. result.single_byte <=> \E j \in 0..N : OneByte(Diff(j))
  <2>1. ASSUME result.single_byte PROVE \E j \in 0..N : OneByte(Diff(j))
    BY <1>1, <2>1 DEF FirstFits, Named
  <2>2. ASSUME ~result.single_byte PROVE ~\E j \in 0..N : OneByte(Diff(j))
    BY <1>1, <1>6, <2>2 DEF FirstFits
  <2>3. QED
    BY <2>1, <2>2
<1>8. Agreed(case) <=> ~result.single_byte
  BY DEF Agreed
<1>9. QED
  BY <1>5, <1>7, <1>8

-----------------------------------------------------------------------------
(* The invariant of the self-test.                                         *)
TestValues ==
    /\ pc \in {"compute", "replay", "forward", "backward", "scan", "done"}
    /\ bytes \in [0..N - 1 -> Byte]
    /\ k \in 0..N + 1
    /\ acc \in Word /\ hash \in Word
    /\ forward \in [0..N -> Word] /\ backward \in [0..N -> Word]
    /\ result \in Shape
    /\ case \in 0..LastCase + 1
    /\ passed \in Nat /\ failed \in Nat

(* The clean round ends with its replay.                                   *)
CleanCase ==
    case = 0 =>
        /\ pc \in {"compute", "replay"}
        /\ pc = "replay" => k <= N /\ hash = HashesOf(bytes)[k]
        /\ passed = 0 /\ failed = 0 /\ skipped = {}

(* From then on the memory hash stays, and a case is analysed from the     *)
(* hash of its own stream.                                                 *)
InjectedCase ==
    case # 0 =>
        /\ pc # "compute"
        /\ hash = HashesOf(bytes)[N]
        /\ pc # "replay" =>
             /\ case <= LastCase
             /\ acc = HashesOf(Corrupted(case))[N]
             /\ case < LastCase => bytes[byte_index(case)] # Injections[case].replacement

(* Nothing of an earlier case is left in the part of a buffer that the     *)
(* analysis has filled.                                                    *)
Filled ==
    case # 0 =>
        /\ pc \in {"forward", "backward"} => k <= N
        /\ pc \in {"done", "replay"} => k >= N
        /\ pc = "forward" => \A j \in 0..N : j <= k => forward[j] = HashesOf(bytes)[j]
        /\ pc \in {"backward", "scan", "done"} =>
             /\ \A j \in 0..N : forward[j] = HashesOf(bytes)[j]
             /\ backward[N] = acc
             /\ \A j \in 0..N - 1 : (pc = "backward" => j >= k) =>
                   backward[j + 1] = Mix(backward[j], bytes[j])
        /\ pc \in {"scan", "done"} => FirstFits

(* A case is skipped because its byte is the replacement already.          *)
SkippedEqual ==
    \A c \in skipped : /\ c \in 1..LastCase - 1 /\ c < case
                       /\ bytes[byte_index(c)] = Injections[c].replacement

(* The cases so far that were run and admit another explanation.           *)
FailedBefore == {c \in 1..case - 1 \ skipped : Ambiguous(c)}

(* Every case so far is counted once.                                      *)
Counted ==
    case # 0 =>
        /\ failed = Cardinality(FailedBefore)
        /\ passed + failed + Cardinality(skipped) \in {case - 1, case}

(* The inductive invariant of the self-test.                               *)
TestInv ==
    /\ TestValues /\ CleanCase /\ InjectedCase /\ Filled /\ SkippedEqual /\ Counted

(* A test that has just begun.                                             *)
LEMMA TestInvInit == TestInit => (testing => TestInv)
<1> SUFFICES ASSUME TestInit PROVE TestInv
  OBVIOUS
<1>1. Init /\ case = 0 /\ passed = 0 /\ failed = 0 /\ skipped = {}
  BY DEF TestInit
<1>2. pc = "compute" /\ k = 0 /\ acc = k_fnv_basis /\ hash = k_fnv_basis /\ result = NoResult
  BY <1>1 DEF Init
<1>3. Typed
  BY <1>1, TypedInit
<1>4. result \in Shape
  BY <1>2, EmptyShape
<1>5. TestValues
  <2>1. case \in 0..LastCase + 1 /\ passed \in Nat /\ failed \in Nat
    BY <1>1, Places
  <2>2. /\ bytes \in [0..N - 1 -> Byte] /\ acc \in Word /\ hash \in Word
        /\ forward \in [0..N -> Word] /\ backward \in [0..N -> Word] /\ k \in 0..N + 1
    BY <1>3 DEF Typed
  <2>3. QED
    BY <1>2, <1>4, <2>1, <2>2 DEF TestValues
<1>6. CleanCase
  BY <1>1, <1>2 DEF CleanCase
<1>7. InjectedCase /\ Filled /\ Counted /\ SkippedEqual
  BY <1>1 DEF InjectedCase, Filled, Counted, SkippedEqual
<1>8. QED
  BY <1>5, <1>6, <1>7 DEF TestInv

(* A step of the analysis leaves the counts alone.                         *)
LEMMA CountsKept ==
    ASSUME TestInv, UNCHANGED <<case, passed, failed, skipped, bytes>>,
           case # 0 => hash' = hash
    PROVE  SkippedEqual' /\ Counted'
<1>1. SkippedEqual'
  BY DEF TestInv, SkippedEqual, byte_index
<1>2. ASSUME case # 0 PROVE FailedBefore' = FailedBefore
  <2>1. hash' = hash /\ bytes' = bytes /\ case' = case /\ skipped' = skipped
    BY <1>2
  <2>2. QED
    BY <2>1 DEF FailedBefore, Ambiguous, Explained, HashWith, Corrupted, byte_index
<1>3. Counted'
  BY <1>2 DEF TestInv, Counted
<1>4. QED
  BY <1>1, <1>3

(* The clean round.                                                        *)
LEMMA CleanKept ==
    ASSUME TestInv, UNCHANGED testVars,
           \/ \E b \in Byte : ReadByte(b)
           \/ \E i \in Bit : FlipAccumulator(i)
           \/ StartReplay
           \/ ReplayByte
    PROVE  TestInv'
<1> USE Sizes
<1>1. UNCHANGED <<case, passed, failed, skipped>>
  BY DEF testVars
<1>2. /\ UNCHANGED <<bytes, forward, backward, result>>
      /\ pc \in {"compute", "replay"} /\ pc' \in {"compute", "replay"}
      /\ pc = "replay" => k < N
  BY DEF ReadByte, FlipAccumulator, StartReplay, ReplayByte, historyVars
<1>3. case = 0
  BY <1>2 DEF TestInv, TestValues, InjectedCase, Filled
<1>4. TestValues
  BY DEF TestInv
<1>5. acc' \in Word /\ hash' \in Word /\ k' \in 0..N + 1
  <2>1. ASSUME NEW b \in Byte, ReadByte(b) PROVE acc' \in Word /\ hash' \in Word /\ k' \in 0..N + 1
    BY <1>4, <2>1, MixInWord DEF ReadByte, TestValues
  <2>2. ASSUME NEW i \in Bit, FlipAccumulator(i) PROVE acc' \in Word /\ hash' \in Word /\ k' \in 0..N + 1
    BY <1>4, <2>2, XorBits DEF FlipAccumulator, TestValues
  <2>3. CASE StartReplay
    BY <1>4, <2>3, ConstantsAssumption DEF StartReplay, TestValues
  <2>4. CASE ReplayByte
    <3>1. hash \in Word /\ bytes[k] \in Byte
      BY <1>4, <2>4 DEF ReplayByte, TestValues
    <3>2. QED
      BY <1>4, <2>4, <3>1, MixInWord DEF ReplayByte, TestValues
  <2>5. QED
    BY <2>1, <2>2, <2>3, <2>4
<1>6. TestValues'
  BY <1>1, <1>2, <1>4, <1>5 DEF TestValues
<1>7. pc' = "replay" => k' <= N /\ hash' = HashesOf(bytes)[k']
  <2>1. Chained(HashesOf(bytes), bytes, N)
    BY <1>4, HashesChain DEF TestValues
  <2>2. ASSUME NEW b \in Byte, ReadByte(b) PROVE pc' # "replay"
    BY <2>2 DEF ReadByte
  <2>3. ASSUME NEW i \in Bit, FlipAccumulator(i) PROVE pc' # "replay"
    BY <2>3 DEF FlipAccumulator
  <2>4. CASE StartReplay
    BY <2>1, <2>4 DEF StartReplay, Chained
  <2>5. CASE ReplayByte
    <3>1. /\ pc = "replay" /\ k < N /\ hash' = Mix(hash, bytes[k]) /\ k' = k + 1
          /\ k \in 0..N + 1
      BY <1>4, <2>5 DEF ReplayByte, TestValues
    <3>2. hash = HashesOf(bytes)[k] /\ k \in 0..N - 1
      BY <1>3, <3>1 DEF TestInv, CleanCase
    <3>3. QED
      BY <2>1, <3>1, <3>2 DEF Chained
  <2>6. QED
    BY <2>2, <2>3, <2>4, <2>5
<1>8. CleanCase'
  BY <1>1, <1>2, <1>3, <1>7 DEF TestInv, CleanCase
<1>9. InjectedCase' /\ Filled'
  BY <1>1, <1>3 DEF InjectedCase, Filled
<1>10. SkippedEqual' /\ Counted'
  BY <1>1, <1>2, <1>3, CountsKept
<1>11. QED
  BY <1>6, <1>8, <1>9, <1>10 DEF TestInv

(* What the steps of the analysis have in common.                          *)
LEMMA AnalysisKeeps ==
    ASSUME TestInv, UNCHANGED testVars, UNCHANGED <<bytes, acc, hash>>,
           pc \in {"forward", "backward", "scan"},
           pc' \in {"forward", "backward", "scan", "done"}
    PROVE  case # 0 /\ case' = case /\ CleanCase' /\ InjectedCase' /\ SkippedEqual' /\ Counted'
<1>1. UNCHANGED <<case, passed, failed, skipped>>
  BY DEF testVars
<1>2. case # 0
  BY DEF TestInv, CleanCase
<1>3. CleanCase'
  BY <1>1, <1>2 DEF CleanCase
<1>4. InjectedCase'
  <2>1. Corrupted(case)' = Corrupted(case) /\ byte_index(case)' = byte_index(case)
    BY <1>1 DEF Corrupted, byte_index
  <2>2. QED
    BY <1>1, <1>2, <2>1 DEF TestInv, InjectedCase
<1>5. SkippedEqual' /\ Counted'
  BY <1>1, CountsKept
<1>6. QED
  BY <1>1, <1>2, <1>3, <1>4, <1>5

(* The forward buffer takes in one more byte.                              *)
LEMMA ForwardKept ==
    ASSUME TestInv, UNCHANGED testVars, ForwardByte PROVE TestInv'
<1> USE Sizes
<1>1. /\ pc = "forward" /\ pc' = "forward" /\ k < N /\ k' = k + 1
      /\ UNCHANGED <<bytes, acc, hash, backward, result>>
      /\ forward' = [forward EXCEPT ![k + 1] = Mix(forward[k], bytes[k])]
  BY DEF ForwardByte
<1>2. case # 0 /\ case' = case /\ CleanCase' /\ InjectedCase' /\ SkippedEqual' /\ Counted'
  BY <1>1, AnalysisKeeps
<1>3. TestValues /\ UNCHANGED <<passed, failed>>
  BY DEF TestInv, testVars
<1>4. /\ k \in 0..N - 1 /\ k \in 0..N /\ k + 1 \in 0..N
      /\ forward[k] \in Word /\ bytes[k] \in Byte /\ bytes \in [0..N - 1 -> Byte]
      /\ forward \in [0..N -> Word]
  BY <1>1, <1>3 DEF TestValues
<1>5. forward' \in [0..N -> Word]
  BY <1>1, <1>4, MixInWord
<1>6. TestValues'
  BY <1>1, <1>2, <1>3, <1>4, <1>5 DEF TestValues
<1>7. Chained(HashesOf(bytes), bytes, N)
  BY <1>4, HashesChain
<1>8. \A j \in 0..N : j <= k => forward[j] = HashesOf(bytes)[j]
  BY <1>1, <1>2 DEF TestInv, Filled
<1>9. ASSUME NEW j \in 0..N, j <= k + 1 PROVE forward'[j] = HashesOf(bytes)[j]
  <2>1. CASE j = k + 1
    <3>1. forward'[j] = Mix(forward[k], bytes[k])
      BY <1>1, <1>4, <2>1
    <3>2. forward[k] = HashesOf(bytes)[k]
      BY <1>4, <1>8
    <3>3. QED
      BY <1>4, <1>7, <2>1, <3>1, <3>2 DEF Chained
  <2>2. CASE j # k + 1
    <3>1. j <= k /\ forward'[j] = forward[j]
      BY <1>1, <1>4, <1>9, <2>2
    <3>2. QED
      BY <1>8, <3>1
  <2>3. QED
    BY <2>1, <2>2
<1>10. Filled'
  BY <1>1, <1>4, <1>9 DEF Filled
<1>11. QED
  BY <1>2, <1>6, <1>10 DEF TestInv

(* The backward pass starts from the hash of the case.                     *)
LEMMA StartBackwardKept ==
    ASSUME TestInv, UNCHANGED testVars, StartBackward PROVE TestInv'
<1> USE Sizes
<1>1. /\ pc = "forward" /\ pc' = "backward" /\ k = N /\ k' = k
      /\ UNCHANGED <<bytes, acc, hash, forward, result>>
      /\ backward' = [backward EXCEPT ![N] = acc]
  BY DEF StartBackward
<1>2. case # 0 /\ case' = case /\ CleanCase' /\ InjectedCase' /\ SkippedEqual' /\ Counted'
  BY <1>1, AnalysisKeeps
<1>3. TestValues /\ UNCHANGED <<passed, failed>>
  BY DEF TestInv, testVars
<1>4. backward' \in [0..N -> Word] /\ backward'[N] = acc
  BY <1>1, <1>3 DEF TestValues
<1>5. TestValues'
  BY <1>1, <1>2, <1>3, <1>4 DEF TestValues
<1>6. \A j \in 0..N : j <= k => forward[j] = HashesOf(bytes)[j]
  BY <1>1, <1>2 DEF TestInv, Filled
<1>7. \A j \in 0..N : forward[j] = HashesOf(bytes)[j]
  BY <1>1, <1>6
<1>8. \A j \in 0..N - 1 : ~(j >= N)
  OBVIOUS
<1>9. Filled'
  BY <1>1, <1>4, <1>7, <1>8 DEF Filled
<1>10. QED
  BY <1>2, <1>5, <1>9 DEF TestInv

(* The backward buffer gives one more byte back.                           *)
LEMMA BackwardKept ==
    ASSUME TestInv, UNCHANGED testVars, BackwardByte PROVE TestInv'
<1> USE Sizes
<1>1. /\ pc = "backward" /\ pc' = "backward" /\ k > 0 /\ k' = k - 1
      /\ UNCHANGED <<bytes, acc, hash, forward, result>>
      /\ backward' = [backward EXCEPT ![k - 1] = Unmix(backward[k], bytes[k - 1])]
  BY DEF BackwardByte
<1>2. case # 0 /\ case' = case /\ CleanCase' /\ InjectedCase' /\ SkippedEqual' /\ Counted'
  BY <1>1, AnalysisKeeps
<1>3. TestValues /\ UNCHANGED <<passed, failed>>
  BY DEF TestInv, testVars
<1>4. /\ k <= N /\ backward[N] = acc
      /\ \A j \in 0..N : forward[j] = HashesOf(bytes)[j]
      /\ \A j \in 0..N - 1 : j >= k => backward[j + 1] = Mix(backward[j], bytes[j])
  BY <1>1, <1>2 DEF TestInv, Filled
<1>5. /\ k \in 1..N /\ k \in 0..N /\ k - 1 \in 0..N /\ k - 1 \in 0..N - 1 /\ N \in 0..N
      /\ backward \in [0..N -> Word] /\ backward[k] \in Word /\ bytes[k - 1] \in Byte
  BY <1>1, <1>3, <1>4 DEF TestValues
<1>6. Unmix(backward[k], bytes[k - 1]) \in Word
  BY <1>5, MixInWord
<1>7. /\ backward' \in [0..N -> Word]
      /\ backward'[k - 1] = Unmix(backward[k], bytes[k - 1])
      /\ \A j \in 0..N : j # k - 1 => backward'[j] = backward[j]
  BY <1>1, <1>5, <1>6
<1>8. TestValues'
  BY <1>1, <1>2, <1>3, <1>5, <1>7 DEF TestValues
<1>9. ASSUME NEW j \in 0..N - 1, j >= k - 1
      PROVE  backward'[j + 1] = Mix(backward'[j], bytes[j])
  <2>1. j + 1 \in 0..N /\ j \in 0..N /\ j + 1 # k - 1
    BY <1>5, <1>9
  <2>2. CASE j = k - 1
    <3>1. j + 1 = k
      BY <1>5, <2>2
    <3>2. backward'[k] = backward[k]
      BY <1>5, <1>7
    <3>3. Mix(Unmix(backward[k], bytes[k - 1]), bytes[k - 1]) = backward[k]
      BY <1>5, MixUnmix
    <3>4. QED
      BY <1>7, <2>2, <3>1, <3>2, <3>3
  <2>3. CASE j # k - 1
    <3>1. j >= k
      BY <1>5, <1>9, <2>3
    <3>2. QED
      BY <1>4, <1>7, <2>1, <2>3, <3>1
  <2>4. QED
    BY <2>2, <2>3
<1>10. backward'[N] = acc
  BY <1>4, <1>5, <1>7
<1>11. Filled'
  BY <1>1, <1>4, <1>5, <1>9, <1>10 DEF Filled
<1>12. QED
  BY <1>2, <1>8, <1>11 DEF TestInv

(* The scan starts with nothing found.                                     *)
LEMMA StartScanKept ==
    ASSUME TestInv, UNCHANGED testVars, StartScan PROVE TestInv'
<1> USE Sizes
<1>1. /\ pc = "backward" /\ pc' = "scan" /\ k = 0 /\ k' = k /\ result' = NoResult
      /\ UNCHANGED <<bytes, acc, hash, forward, backward>>
  BY DEF StartScan
<1>2. case # 0 /\ case' = case /\ CleanCase' /\ InjectedCase' /\ SkippedEqual' /\ Counted'
  BY <1>1, AnalysisKeeps
<1>3. TestValues /\ UNCHANGED <<passed, failed>>
  BY DEF TestInv, testVars
<1>4. result' \in Shape
  BY <1>1, EmptyShape
<1>5. TestValues'
  BY <1>1, <1>2, <1>3, <1>4 DEF TestValues
<1>6. FirstFits'
  <2>1. Scanned' = 0 /\ \A i \in 0..N : ~(i < 0)
    BY <1>1 DEF Scanned
  <2>2. ~result'.single_byte
    BY <1>1 DEF NoResult
  <2>3. QED
    BY <2>1, <2>2 DEF FirstFits
<1>7. /\ backward[N] = acc /\ \A j \in 0..N : forward[j] = HashesOf(bytes)[j]
      /\ \A j \in 0..N - 1 : j >= k => backward[j + 1] = Mix(backward[j], bytes[j])
  BY <1>1, <1>2 DEF TestInv, Filled
<1>8. \A j \in 0..N - 1 : backward[j + 1] = Mix(backward[j], bytes[j])
  BY <1>1, <1>7
<1>9. Filled'
  BY <1>1, <1>6, <1>7, <1>8 DEF Filled
<1>10. QED
  BY <1>2, <1>5, <1>9 DEF TestInv

(* The scan looks at one more place, or is through.                        *)
LEMMA ScanKept ==
    ASSUME TestInv, UNCHANGED testVars,
           (\E stored \in Byte : ScanStep(stored)) \/ ScanDone
    PROVE  TestInv'
<1> USE Sizes
<1>1. /\ pc = "scan" /\ pc' \in {"scan", "done"}
      /\ UNCHANGED <<bytes, acc, hash, forward, backward>>
  BY DEF ScanStep, ScanDone
<1>2. case # 0 /\ case' = case /\ CleanCase' /\ InjectedCase' /\ SkippedEqual' /\ Counted'
  BY <1>1, AnalysisKeeps
<1>3. TestValues /\ UNCHANGED <<passed, failed>>
  BY DEF TestInv, testVars
<1>4. FirstFits /\ result \in Shape /\ k \in 0..N + 1
  BY <1>1, <1>2, <1>3 DEF TestInv, Filled, TestValues
<1>5. result' \in Shape /\ FirstFits' /\ k' \in 0..N + 1 /\ (pc' = "done" => k' >= N)
  <2>1. ASSUME NEW stored \in Byte, ScanStep(stored)
        PROVE  /\ result' \in Shape /\ FirstFits' /\ k' \in 0..N + 1
               /\ pc' = "done" => k' >= N
    <3>1. k' \in 0..N + 1 /\ pc' = "scan"
      <4>1. k <= N /\ k' = k + 1 /\ pc' = pc
        BY <2>1 DEF ScanStep
      <4>2. QED
        BY <1>1, <1>4, <4>1
    <3>2. forward \in [0..N -> Word] /\ backward \in [0..N -> Word]
      BY <1>3 DEF TestValues
    <3>3. QED
      BY <1>4, <2>1, <3>1, <3>2, ScanFinds
  <2>2. CASE ScanDone
    <3>1. pc' = "done" /\ k = N + 1 /\ k' = k /\ UNCHANGED <<bytes, forward, backward, result>>
      BY <2>2 DEF ScanDone
    <3>2. Scanned' = Scanned
      BY <1>1, <3>1 DEF Scanned
    <3>3. FirstFits' <=> FirstFits
      BY <3>1, <3>2 DEF FirstFits, Named, OneByte, Diff, Position
    <3>4. QED
      BY <1>4, <3>1, <3>3
  <2>3. QED
    BY <2>1, <2>2
<1>6. TestValues'
  BY <1>1, <1>2, <1>3, <1>5 DEF TestValues
<1>7. Filled'
  BY <1>1, <1>2, <1>5 DEF TestInv, Filled
<1>8. QED
  BY <1>2, <1>6, <1>7 DEF TestInv

(* The skipped cases can be counted.                                       *)
LEMMA SkippedFinite ==
    ASSUME TestInv PROVE IsFiniteSet(skipped) /\ Cardinality(skipped) \in Nat
<1>1. skipped \subseteq 1..LastCase - 1
  BY DEF TestInv, SkippedEqual
<1>2. 1 \in Int /\ LastCase - 1 \in Int
  BY Places
<1>3. IsFiniteSet(1..LastCase - 1)
  BY <1>2, FS_Interval
<1>4. QED
  BY <1>1, <1>3, FS_Subset, FS_CardinalityType

(* So do the failed cases.                                                 *)
LEMMA FailedFinite ==
    ASSUME TestInv PROVE IsFiniteSet(FailedBefore) /\ Cardinality(FailedBefore) \in Nat
<1>1. FailedBefore \subseteq 1..case - 1
  BY DEF FailedBefore
<1>2. case - 1 \in Int
  BY Places DEF TestInv, TestValues
<1>3. IsFiniteSet(1..case - 1)
  BY <1>2, FS_Interval
<1>4. QED
  BY <1>1, <1>3, FS_Subset, FS_CardinalityType

(* The clean round is judged, and the first case comes up.                 *)
LEMMA CleanRoundKept == ASSUME TestInv, CleanRound PROVE TestInv'
<1> USE Sizes
<1>1. /\ case = 0 /\ pc = "replay" /\ k = N /\ case' = 1 /\ passed' \in {0, 1}
      /\ UNCHANGED <<vars, failed, skipped>>
  BY DEF CleanRound
<1>2. UNCHANGED <<pc, bytes, k, acc, hash, forward, backward, result>>
  BY <1>1 DEF vars
<1>3. hash = HashesOf(bytes)[N] /\ failed = 0 /\ skipped = {}
  BY <1>1 DEF TestInv, CleanCase
<1>4. TestValues'
  <2>1. case' \in 0..LastCase + 1 /\ passed' \in Nat
    BY <1>1, Places
  <2>2. QED
    BY <1>1, <1>2, <2>1 DEF TestInv, TestValues
<1>5. CleanCase'
  BY <1>1 DEF CleanCase
<1>6. InjectedCase' /\ Filled'
  BY <1>1, <1>2, <1>3 DEF InjectedCase, Filled
<1>7. SkippedEqual'
  BY <1>1, <1>3 DEF SkippedEqual
<1>8. Counted'
  <2>1. FailedBefore' = {}
    BY <1>1 DEF FailedBefore
  <2>2. Cardinality(skipped') = 0 /\ Cardinality(FailedBefore') = 0
    BY <1>1, <1>3, <2>1, FS_EmptySet
  <2>3. failed' = 0
    BY <1>1, <1>3
  <2>4. passed' + failed' + Cardinality(skipped') \in {case' - 1, case'}
    <3> DEFINE cs == Cardinality(skipped')
    <3>1. cs = 0
      BY <2>2
    <3> HIDE DEF cs
    <3>2. passed' + failed' + cs \in {case' - 1, case'}
      <4>1. case' = 1 /\ failed' = 0
        BY <1>1, <2>3
      <4>2. CASE passed' = 0
        BY <3>1, <4>1, <4>2
      <4>3. CASE passed' = 1
        BY <3>1, <4>1, <4>3
      <4>4. QED
        BY <1>1, <4>2, <4>3
    <3>3. QED
      BY <3>2 DEF cs
  <2>5. failed' = Cardinality(FailedBefore')
    BY <2>2, <2>3
  <2>6. QED
    BY <2>4, <2>5 DEF Counted
<1>9. QED
  BY <1>4, <1>5, <1>6, <1>7, <1>8 DEF TestInv

(* A case whose byte is the replacement already is skipped.                *)
LEMMA SkipKept == ASSUME TestInv, Skip PROVE TestInv'
<1> USE Sizes
<1>1. /\ case \in 1..LastCase /\ case < LastCase /\ pc = "replay" /\ case' = case + 1
      /\ bytes[byte_index(case)] = Injections[case].replacement
      /\ skipped' = skipped \cup {case}
      /\ UNCHANGED <<vars, passed, failed>>
  BY DEF Skip, AtCase
<1>2. UNCHANGED <<pc, bytes, k, acc, hash, forward, backward, result>>
  BY <1>1 DEF vars
<1>3. case \in Nat /\ case # 0 /\ case' # 0 /\ case \in 1..LastCase - 1 /\ case + 1 \in 0..LastCase + 1
  BY <1>1, Places
<1>4. TestValues'
  BY <1>1, <1>2, <1>3 DEF TestInv, TestValues
<1>5. CleanCase'
  BY <1>3 DEF CleanCase
<1>6. InjectedCase' /\ Filled'
  BY <1>1, <1>2, <1>3 DEF TestInv, InjectedCase, Filled
<1>7. \A c \in skipped : c \in 1..LastCase - 1 /\ c < case
  BY DEF TestInv, SkippedEqual
<1>8. SkippedEqual'
  <2>1. ASSUME NEW c \in skipped'
        PROVE  /\ c \in 1..LastCase - 1 /\ c < case + 1
               /\ bytes[byte_index(c)] = Injections[c].replacement
    <3>1. CASE c = case
      BY <1>1, <1>3, <3>1
    <3>2. CASE c \in skipped
      <4>1. c < case + 1
        BY <1>3, <1>7, <3>2, Places
      <4>2. QED
        BY <3>2, <4>1 DEF TestInv, SkippedEqual
    <3>3. QED
      BY <1>1, <3>1, <3>2
  <2>2. QED
    BY <1>1, <1>2, <2>1 DEF SkippedEqual, byte_index
<1>9. Counted'
  <2>1. \A c \in 1..LastCase : Ambiguous(c)' <=> Ambiguous(c)
    BY <1>2 DEF Ambiguous, Explained, HashWith, Corrupted, byte_index
  <2>2. 1..case' - 1 \ skipped' = 1..case - 1 \ skipped
    BY <1>1, <1>3
  <2>3. 1..case - 1 \ skipped \subseteq 1..LastCase
    BY <1>1, Places
  <2>4. FailedBefore' = FailedBefore
    BY <2>1, <2>2, <2>3 DEF FailedBefore
  <2>5. case \notin skipped
    BY <1>3, <1>7
  <2>6. Cardinality(skipped') = Cardinality(skipped) + 1 /\ Cardinality(skipped) \in Nat
    BY <1>1, <2>5, SkippedFinite, FS_AddElement
  <2>7. passed \in Nat /\ failed \in Nat
    BY DEF TestInv, TestValues
  <2>8. /\ failed = Cardinality(FailedBefore)
        /\ passed + failed + Cardinality(skipped) \in {case - 1, case}
    BY <1>3 DEF TestInv, Counted
  <2>9. passed' + failed' + Cardinality(skipped') \in {case' - 1, case'}
    BY <1>1, <1>3, <2>6, <2>7, <2>8
  <2>10. QED
    BY <1>1, <2>4, <2>8, <2>9 DEF Counted
<1>10. QED
  BY <1>4, <1>5, <1>6, <1>8, <1>9 DEF TestInv

(* A case is analysed from the hash of its own stream.                     *)
LEMMA InjectKept == ASSUME TestInv, Inject PROVE TestInv'
<1> USE Sizes
<1>1. /\ case \in 1..LastCase /\ pc = "replay" /\ pc' = "forward" /\ k' = 0
      /\ case < LastCase => bytes[byte_index(case)] # Injections[case].replacement
      /\ acc' = HashesOf(Corrupted(case))[N]
      /\ forward' = [forward EXCEPT ![0] = k_fnv_basis]
      /\ UNCHANGED <<bytes, hash, backward, result, testVars>>
  BY DEF Inject, AtCase
<1>2. UNCHANGED <<case, passed, failed, skipped>> /\ case # 0
  BY <1>1, Places DEF testVars
<1>3. TestValues /\ bytes \in [0..N - 1 -> Byte]
  BY DEF TestInv, TestValues
<1>4. acc' \in Word
  <2>1. Corrupted(case) \in [0..N - 1 -> Byte]
    BY <1>1, <1>3, CorruptedStream
  <2>2. Chained(HashesOf(Corrupted(case)), Corrupted(case), N)
    BY <2>1, HashesChain
  <2>3. QED
    BY <1>1, <2>2 DEF Chained
<1>5. forward' \in [0..N -> Word] /\ forward'[0] = k_fnv_basis
  BY <1>1, <1>3, ConstantsAssumption DEF TestValues
<1>6. TestValues'
  BY <1>1, <1>2, <1>3, <1>4, <1>5 DEF TestValues
<1>7. CleanCase'
  BY <1>2 DEF CleanCase
<1>8. InjectedCase'
  <2>1. Corrupted(case)' = Corrupted(case) /\ byte_index(case)' = byte_index(case)
    BY <1>1, <1>2 DEF Corrupted, byte_index
  <2>2. case <= LastCase
    BY <1>1, Places
  <2>3. QED
    BY <1>1, <1>2, <2>1, <2>2 DEF TestInv, InjectedCase
<1>9. Filled'
  <2>1. HashesOf(bytes)[0] = k_fnv_basis
    BY <1>3, HashesChain DEF Chained
  <2>2. \A j \in 0..N : j <= 0 => j = 0
    OBVIOUS
  <2>3. QED
    BY <1>1, <1>5, <2>1, <2>2 DEF Filled
<1>10. SkippedEqual' /\ Counted'
  BY <1>1, <1>2, CountsKept
<1>11. QED
  BY <1>6, <1>7, <1>8, <1>9, <1>10 DEF TestInv

(* A case is counted as passed or as failed.                               *)
LEMMA JudgeKept == ASSUME TestInv, Judge PROVE TestInv'
<1> USE Sizes
<1>1. /\ pc = "done" /\ pc' = "replay" /\ case' = case + 1
      /\ UNCHANGED <<bytes, k, acc, hash, forward, backward, result, skipped>>
  BY DEF Judge
<1>2. /\ case # 0 /\ case <= LastCase /\ hash = HashesOf(bytes)[N]
      /\ acc = HashesOf(Corrupted(case))[N] /\ k >= N
      /\ case < LastCase => bytes[byte_index(case)] # Injections[case].replacement
  <2>1. case # 0
    BY <1>1 DEF TestInv, CleanCase
  <2>2. QED
    BY <1>1, <2>1 DEF TestInv, InjectedCase, Filled
<1>3. TestValues
  BY DEF TestInv
<1>4. case \in 1..LastCase /\ case + 1 \in 0..LastCase + 1 /\ case \in Nat
  <2>1. case \in 0..LastCase + 1 /\ case # 0 /\ case <= LastCase
    BY <1>2, <1>3 DEF TestValues
  <2>2. LastCase = 9
    BY Places
  <2>3. QED
    BY <2>1, <2>2
<1>5. Analysed
  <2>1. Full
    BY <1>1, <1>2, <1>3 DEF TestInv, Filled, Full, TestValues
  <2>2. FirstFits /\ backward[N] = acc
    BY <1>1, <1>2 DEF TestInv, Filled
  <2>3. QED
    BY <1>1, <1>2, <1>3, <1>4, <2>1, <2>2 DEF Analysed, TestValues
<1>6. Agreed(case) <=> ~Ambiguous(case)
  BY <1>5, OneByteIsFair, TwoBytesAreFair
<1>7. /\ ~Ambiguous(case) => passed' = passed + 1 /\ failed' = failed
      /\ Ambiguous(case) => failed' = failed + 1 /\ passed' = passed
  BY <1>6 DEF Judge
<1>8. passed \in Nat /\ failed \in Nat /\ passed' \in Nat /\ failed' \in Nat
  BY <1>3, <1>7 DEF TestValues
<1>9. TestValues'
  BY <1>1, <1>3, <1>4, <1>8 DEF TestValues
<1>10. CleanCase'
  BY <1>1, <1>4 DEF CleanCase
<1>11. InjectedCase' /\ Filled'
  BY <1>1, <1>2 DEF InjectedCase, Filled
<1>12. \A c \in skipped : c \in 1..LastCase - 1 /\ c < case
  BY DEF TestInv, SkippedEqual
<1>13. SkippedEqual'
  <2>1. \A c \in skipped : c < case + 1
    BY <1>4, <1>12, Places
  <2>2. QED
    BY <1>1, <2>1 DEF TestInv, SkippedEqual, byte_index
<1>14. Counted'
  <2>1. \A c \in 1..LastCase : Ambiguous(c)' <=> Ambiguous(c)
    BY <1>1 DEF Ambiguous, Explained, HashWith, Corrupted, byte_index
  <2>2. case \notin skipped /\ case \notin 1..case - 1
    BY <1>4, <1>12
  <2>3. 1..case' - 1 \ skipped' = (1..case - 1 \ skipped) \cup {case}
    BY <1>1, <1>4, <2>2
  <2>4. (1..case - 1 \ skipped) \cup {case} \subseteq 1..LastCase
    BY <1>4, Places
  <2>5. FailedBefore' = {c \in (1..case - 1 \ skipped) \cup {case} : Ambiguous(c)}
    BY <2>1, <2>3, <2>4 DEF FailedBefore
  <2>6. FailedBefore' = IF Ambiguous(case) THEN FailedBefore \cup {case} ELSE FailedBefore
    BY <2>5 DEF FailedBefore
  <2>7. case \notin FailedBefore
    BY <2>2 DEF FailedBefore
  <2>8. Cardinality(FailedBefore \cup {case}) = Cardinality(FailedBefore) + 1
    BY <2>7, FailedFinite, FS_AddElement
  <2>9. /\ failed = Cardinality(FailedBefore)
        /\ passed + failed + Cardinality(skipped) \in {case - 1, case}
    BY <1>2 DEF TestInv, Counted
  <2>10. failed' = Cardinality(FailedBefore')
    BY <1>7, <2>6, <2>8, <2>9
  <2>11. passed' + failed' = passed + failed + 1
    <3>1. CASE Ambiguous(case)
      <4>1. failed' = failed + 1 /\ passed' = passed
        BY <1>7, <3>1
      <4>2. QED
        BY <1>8, <4>1
    <3>2. CASE ~Ambiguous(case)
      <4>1. passed' = passed + 1 /\ failed' = failed
        BY <1>7, <3>2
      <4>2. QED
        BY <1>8, <4>1
    <3>3. QED
      BY <3>1, <3>2
  <2>12. Cardinality(skipped) \in Nat
    BY SkippedFinite
  <2>13. passed' + failed' + Cardinality(skipped') \in {case' - 1, case'}
    BY <1>1, <1>4, <1>8, <2>9, <2>11, <2>12
  <2>14. QED
    BY <2>10, <2>13 DEF Counted
<1>15. QED
  BY <1>9, <1>10, <1>11, <1>13, <1>14 DEF TestInv

(* Every step of a self-test keeps the invariant.                          *)
LEMMA TestInvStep == (testing => TestInv) /\ [TestNext]_allVars => (testing => TestInv)'
<1> SUFFICES ASSUME testing => TestInv, [TestNext]_allVars, testing' PROVE TestInv'
  OBVIOUS
<1>1. testing' = testing
  BY DEF TestNext, allVars, testVars, CleanRound, Skip, Inject, Judge
<1>2. testing /\ TestInv
  BY <1>1, Zenon
<1>3. CASE UNCHANGED allVars
  <2>1. UNCHANGED <<pc, bytes, k, acc, hash, forward, backward, result, case, passed, failed, skipped>>
    BY <1>3 DEF allVars, vars, testVars
  <2>2. TestValues' /\ CleanCase'
    BY <1>2, <2>1 DEF TestInv, TestValues, CleanCase
  <2>3. InjectedCase'
    BY <1>2, <2>1 DEF TestInv, InjectedCase, Corrupted, byte_index
  <2>4. FirstFits' <=> FirstFits
    BY <2>1 DEF FirstFits, Named, OneByte, Diff, Position, Scanned
  <2>5. Filled'
    BY <1>2, <2>1, <2>4 DEF TestInv, Filled
  <2>6. SkippedEqual' /\ Counted'
    BY <1>2, <2>1, CountsKept
  <2>7. QED
    BY <2>2, <2>3, <2>5, <2>6 DEF TestInv
<1>4. CASE /\ UNCHANGED testVars
           /\ \/ (\E b \in Byte : ReadByte(b)) \/ (\E i \in Bit : FlipAccumulator(i))
              \/ StartReplay \/ ReplayByte
              \/ ForwardByte \/ StartBackward \/ BackwardByte \/ StartScan
              \/ (\E stored \in Byte : ScanStep(stored)) \/ ScanDone
  BY <1>2, <1>4, CleanKept, ForwardKept, StartBackwardKept, BackwardKept, StartScanKept, ScanKept
<1>5. CASE CleanRound \/ Skip \/ Inject \/ Judge
  BY <1>2, <1>5, CleanRoundKept, SkipKept, InjectKept, JudgeKept
<1>6. QED
  BY <1>2, <1>3, <1>4, <1>5 DEF TestNext

(* The self-test, from its clean round to its last case (lines 348-540).   *)
THEOREM SelfTestInvariant == TestSpec => [](testing => TestInv)
<1>1. QED
  BY TestInvInit, TestInvStep, PTL DEF TestSpec

(* A case of the self-test fails exactly when its stream admits another    *)
(* explanation, whatever the hardware did in the clean round and whatever  *)
(* the cases before left in the buffers, and every case is counted once.   *)
THEOREM SelfTestIsAlwaysFair == TestSpec => []SelfTestIsFair
<1>1. (testing => TestInv) => SelfTestIsFair
  <2> SUFFICES ASSUME TestInv, case = LastCase + 1
               PROVE  /\ failed = Cardinality({c \in 1..LastCase \ skipped : Ambiguous(c)})
                      /\ passed + failed + Cardinality(skipped) \in {LastCase, LastCase + 1}
    BY DEF SelfTestIsFair, Ended
  <2>1. case # 0 /\ case - 1 = LastCase
    BY Places
  <2>2. FailedBefore = {c \in 1..LastCase \ skipped : Ambiguous(c)}
    BY <2>1 DEF FailedBefore
  <2>3. QED
    BY <2>1, <2>2 DEF TestInv, Counted
<1>2. QED
  BY <1>1, SelfTestInvariant, PTL

(* Whatever bytes the load produced: two cases replace the same byte of    *)
(* lane 1 by different values, so that one of them is not skipped.         *)
THEOREM ChLaneIsAlwaysTested == TestSpec => []ChLaneIsTested
<1>1. (testing => TestInv) => ChLaneIsTested
  <2> SUFFICES ASSUME TestInv
               PROVE  \E c \in 1..LastCase - 1 \ skipped : Injections[c].lane = 1
    BY DEF ChLaneIsTested, Ended
  <2>1. 5 \in 1..LastCase - 1 /\ 6 \in 1..LastCase - 1
    BY Places
  <2>2. /\ Injections[5] = OneInjection(InnerSample, 1, 0)
        /\ Injections[6] = OneInjection(InnerSample, 1, OtherByte)
    BY DEF Injections
  <2>3. 1 % LaneCount = 1
    BY SizeAssumption, InjectionAssumption
  <2>4. /\ Injections[5].lane = 1 /\ Injections[6].lane = 1
        /\ Injections[5].sample_index = Injections[6].sample_index
        /\ Injections[5].replacement # Injections[6].replacement
    BY <2>2, <2>3, InjectionAssumption DEF OneInjection
  <2>5. byte_index(5) = byte_index(6)
    BY <2>4 DEF byte_index
  <2>6. ~(5 \in skipped /\ 6 \in skipped)
    BY <2>4, <2>5 DEF TestInv, SkippedEqual
  <2>7. QED
    BY <2>1, <2>4, <2>6
<1>2. QED
  BY <1>1, SelfTestInvariant, PTL

-----------------------------------------------------------------------------
(* The detector's properties, for the rounds of a run and for the cases of *)
(* the self-test alike.                                                    *)

(* What the history variables of a self-test say of its cases.             *)
HistoryTyped ==
    /\ read \in [0..N - 1 -> Byte]
    /\ actual \in [0..N -> Word] /\ replayed \in [0..N -> Word]
    /\ flips \subseteq (0..N) \X Bit
    /\ pc = "compute" => k <= N

(* In a case exactly the injected bytes count as misread.                  *)
CaseHistory ==
    case # 0 /\ pc \in {"forward", "backward", "scan", "done"} =>
        read = Corrupted(case) /\ flips = {} /\ (detected <=> acc # hash)

(* The invariant of the history.                                           *)
TestHistory == HistoryTyped /\ detected \in BOOLEAN /\ CaseHistory

(* The history of a test that has just begun.                              *)
LEMMA TestHistoryInit == TestInit => TestHistory
<1> SUFFICES ASSUME TestInit PROVE TestHistory
  OBVIOUS
<1>1. Init /\ case = 0
  BY DEF TestInit
<1>2. detected = FALSE
  BY <1>1 DEF Init
<1>3. detected \in BOOLEAN
  BY <1>2, Zenon
<1>4. HistoryTyped
  BY <1>1, TypedInit DEF Typed, HistoryTyped
<1>5. CaseHistory
  BY <1>1 DEF CaseHistory
<1>6. QED
  BY <1>3, <1>4, <1>5 DEF TestHistory

(* The clean round keeps the history's types.                              *)
LEMMA CleanHistory ==
    ASSUME TestInv, TestHistory, UNCHANGED testVars,
           \/ \E b \in Byte : ReadByte(b)
           \/ \E i \in Bit : FlipAccumulator(i)
           \/ StartReplay
           \/ ReplayByte
    PROVE  TestHistory'
<1> USE Sizes
<1>1. /\ case' = case /\ detected' = detected
      /\ pc' \in {"compute", "replay"}
  BY DEF testVars, ReadByte, FlipAccumulator, StartReplay, ReplayByte
<1>2. CaseHistory'
  BY <1>1 DEF CaseHistory
<1>3. detected' \in BOOLEAN
  BY <1>1, Zenon DEF TestHistory
<1>4. HistoryTyped /\ TestValues
  BY DEF TestHistory, TestInv
<1>5. HistoryTyped'
  <2>1. ASSUME NEW b \in Byte, ReadByte(b) PROVE HistoryTyped'
    <3>1. k \in 0..N - 1 /\ acc' \in Word
      BY <1>4, <2>1, MixInWord DEF ReadByte, TestValues
    <3>2. QED
      BY <1>4, <2>1, <3>1 DEF ReadByte, HistoryTyped
  <2>2. ASSUME NEW i \in Bit, FlipAccumulator(i) PROVE HistoryTyped'
    <3>1. k \in 0..N
      BY <1>4, <2>2 DEF FlipAccumulator, TestValues, HistoryTyped
    <3>2. acc' \in Word /\ <<k, i>> \in (0..N) \X Bit
      BY <1>4, <2>2, <3>1, XorBits DEF FlipAccumulator, TestValues
    <3>3. QED
      BY <1>4, <2>2, <3>1, <3>2 DEF FlipAccumulator, HistoryTyped
  <2>3. CASE StartReplay
    BY <1>4, <2>3 DEF StartReplay, HistoryTyped, historyVars
  <2>4. CASE ReplayByte
    <3>1. k \in 0..N - 1 /\ hash' \in Word
      BY <1>4, <2>4, MixInWord DEF ReplayByte, TestValues
    <3>2. QED
      BY <1>4, <2>4, <3>1 DEF ReplayByte, HistoryTyped
  <2>5. QED
    BY <2>1, <2>2, <2>3, <2>4
<1>6. QED
  BY <1>2, <1>3, <1>5 DEF TestHistory

(* The analysis of a case leaves its history alone.                        *)
LEMMA AnalysisHistory ==
    ASSUME TestInv, TestHistory, UNCHANGED testVars,
           \/ ForwardByte \/ StartBackward \/ BackwardByte \/ StartScan
           \/ (\E stored \in Byte : ScanStep(stored)) \/ ScanDone
    PROVE  TestHistory'
<1>1. /\ UNCHANGED <<case, bytes, acc, hash, detected, read, actual, replayed, flips>>
      /\ pc \in {"forward", "backward", "scan"} /\ pc' # "compute"
  BY DEF testVars, historyVars, ForwardByte, StartBackward, BackwardByte, StartScan, ScanStep,
         ScanDone
<1>2. HistoryTyped'
  BY <1>1 DEF TestHistory, HistoryTyped
<1>3. detected' \in BOOLEAN
  BY <1>1, Zenon DEF TestHistory
<1>4. Corrupted(case)' = Corrupted(case)
  BY <1>1 DEF Corrupted, byte_index
<1>5. CaseHistory'
  <2>1. case # 0 => read = Corrupted(case) /\ flips = {} /\ (detected <=> acc # hash)
    BY <1>1 DEF TestHistory, CaseHistory
  <2>2. QED
    BY <1>1, <1>4, <2>1, Zenon DEF CaseHistory
<1>6. QED
  BY <1>2, <1>3, <1>5 DEF TestHistory

(* A case that is injected begins its own history.                         *)
LEMMA InjectHistory == ASSUME TestInv, TestHistory, Inject PROVE TestHistory'
<1>1. /\ case \in 1..LastCase /\ pc' = "forward" /\ case' = case /\ bytes' = bytes /\ hash' = hash
      /\ read' = Corrupted(case) /\ actual' = HashesOf(Corrupted(case)) /\ flips' = {}
      /\ replayed' = replayed
  BY DEF Inject, AtCase, testVars
<1>2. detected' = (acc' # hash)
  BY DEF Inject
<1>3. Corrupted(case) \in [0..N - 1 -> Byte]
  BY <1>1, CorruptedStream DEF TestInv, TestValues
<1>4. HashesOf(Corrupted(case)) \in [0..N -> Word]
  BY <1>3, HashesChain DEF Chained
<1>5. HistoryTyped'
  BY <1>1, <1>3, <1>4 DEF TestHistory, HistoryTyped
<1>6. detected' \in BOOLEAN
  BY <1>2, Zenon
<1>7. Corrupted(case)' = Corrupted(case)
  BY <1>1 DEF Corrupted, byte_index
<1>8. CaseHistory'
  BY <1>1, <1>2, <1>7, Zenon DEF CaseHistory
<1>9. QED
  BY <1>5, <1>6, <1>8 DEF TestHistory

(* Between two cases there is nothing to say but the types.                *)
LEMMA BetweenHistory ==
    ASSUME TestInv, TestHistory, CleanRound \/ Skip \/ Judge PROVE TestHistory'
<1>1. pc' = "replay" /\ UNCHANGED <<detected, read, actual, replayed, flips>>
  BY DEF CleanRound, Skip, Judge, AtCase, vars, historyVars
<1>2. detected' \in BOOLEAN
  BY <1>1, Zenon DEF TestHistory
<1>3. HistoryTyped' /\ CaseHistory'
  BY <1>1 DEF TestHistory, HistoryTyped, CaseHistory
<1>4. QED
  BY <1>2, <1>3 DEF TestHistory

(* Every step of a self-test keeps the history.                            *)
LEMMA TestHistoryStep ==
    TestInv /\ TestHistory /\ testing /\ [TestNext]_allVars => TestHistory'
<1> SUFFICES ASSUME TestInv, TestHistory, testing, [TestNext]_allVars PROVE TestHistory'
  OBVIOUS
<1>1. CASE UNCHANGED allVars
  <2>1. UNCHANGED <<pc, bytes, k, acc, hash, detected, read, actual, replayed, flips, case>>
    BY <1>1 DEF allVars, vars, historyVars, testVars
  <2>2. detected' \in BOOLEAN
    BY <2>1, Zenon DEF TestHistory
  <2>3. HistoryTyped'
    BY <2>1 DEF TestHistory, HistoryTyped
  <2>4. Corrupted(case)' = Corrupted(case)
    BY <2>1 DEF Corrupted, byte_index
  <2>5. CaseHistory'
    BY <2>1, <2>4, Zenon DEF TestHistory, CaseHistory
  <2>6. QED
    BY <2>2, <2>3, <2>5 DEF TestHistory
<1>2. CASE /\ UNCHANGED testVars
           /\ \/ (\E b \in Byte : ReadByte(b)) \/ (\E i \in Bit : FlipAccumulator(i))
              \/ StartReplay \/ ReplayByte
              \/ ForwardByte \/ StartBackward \/ BackwardByte \/ StartScan
              \/ (\E stored \in Byte : ScanStep(stored)) \/ ScanDone
  BY <1>2, CleanHistory, AnalysisHistory
<1>3. CASE CleanRound \/ Skip \/ Inject \/ Judge
  BY <1>3, InjectHistory, BetweenHistory
<1>4. QED
  BY <1>1, <1>2, <1>3 DEF TestNext

(* A round of a run obeys the invariant of a round, a self-test its own.   *)
RunOrTest ==
    /\ testing => TestInv /\ TestHistory
    /\ ~testing => RoundInv

(* Whichever of the two the program is at, it stays there.                 *)
THEOREM RunOrTestInvariant == TestSpec => []RunOrTest
<1>1. TestInit => RunOrTest
  <2>1. TestInit => RoundInv
    BY RoundInvInit DEF TestInit
  <2>2. QED
    BY <2>1, TestInvInit, TestHistoryInit DEF RunOrTest
<1>2. RunOrTest /\ [TestNext]_allVars => RunOrTest'
  <2> SUFFICES ASSUME RunOrTest, [TestNext]_allVars PROVE RunOrTest'
    OBVIOUS
  <2>1. testing' = testing
    BY DEF TestNext, allVars, testVars, CleanRound, Skip, Inject, Judge
  <2>2. ASSUME testing PROVE TestInv' /\ TestHistory'
    <3>1. TestInv /\ TestHistory
      BY <2>2 DEF RunOrTest
    <3>2. testing'
      BY <2>1, <2>2, Zenon
    <3>3. QED
      BY <2>2, <3>1, <3>2, TestInvStep, TestHistoryStep
  <2>3. ASSUME ~testing PROVE RoundInv'
    <3>1. [Next]_vars
      BY <2>3 DEF TestNext, allVars, AtCase, CleanRound, Skip, Inject, Judge, Ended
    <3>2. QED
      BY <2>3, <3>1, RoundInvStep DEF RunOrTest
  <2>4. QED
    BY <2>1, <2>2, <2>3, Zenon DEF RunOrTest
<1>3. QED
  BY <1>1, <1>2, PTL DEF TestSpec

(* What a case of the self-test looks like to the properties, once its     *)
(* buffers are full.                                                       *)
CaseScanned ==
    /\ Full /\ result \in Shape /\ FirstFits
    /\ read \in [0..N - 1 -> Byte] /\ acc \in Word /\ hash \in Word
    /\ hash = HashesOf(bytes)[N]
    /\ acc = HashesOf(read)[N] /\ acc = backward[N]
    /\ flips = {}
    /\ detected <=> acc # hash

(* A case in its scan, or behind it.                                       *)
LEMMA ScannedCase ==
    ASSUME TestInv, TestHistory, pc \in {"scan", "done"} PROVE CaseScanned
<1>1. case # 0
  BY DEF TestInv, CleanCase
<1>2. read = Corrupted(case) /\ flips = {} /\ (detected <=> acc # hash)
  BY <1>1 DEF TestHistory, CaseHistory
<1>3. hash = HashesOf(bytes)[N] /\ acc = HashesOf(Corrupted(case))[N]
  BY <1>1 DEF TestInv, InjectedCase
<1>4. FirstFits /\ backward[N] = acc
  BY <1>1 DEF TestInv, Filled
<1>5. Full
  BY <1>1 DEF TestInv, TestValues, Filled, Full
<1>6. read \in [0..N - 1 -> Byte] /\ result \in Shape /\ acc \in Word /\ hash \in Word
  BY DEF TestInv, TestHistory, TestValues, HistoryTyped
<1>7. QED
  BY <1>2, <1>3, <1>4, <1>5, <1>6 DEF CaseScanned

(* The buffers differ everywhere if they differ anywhere.                  *)
LEMMA ScannedApart ==
    ASSUME CaseScanned, NEW m \in 0..N PROVE forward[m] = backward[m] <=> acc = hash
<1>1. /\ bytes \in [0..N - 1 -> Byte] /\ forward \in [0..N -> Word] /\ backward \in [0..N -> Word]
      /\ \A j \in 0..N : forward[j] = HashesOf(bytes)[j]
      /\ \A j \in 0..N - 1 : backward[j + 1] = Mix(backward[j], bytes[j])
  BY DEF CaseScanned, Full
<1>2. Chained(HashesOf(bytes), bytes, N)
  BY <1>1, HashesChain
<1>3. \A j \in 0..N - 1 : j \in 0..N /\ j + 1 \in 0..N
  BY Sizes
<1>4. \A j \in 0..N - 1 : forward[j + 1] = Mix(forward[j], bytes[j])
  BY <1>1, <1>2, <1>3 DEF Chained
<1>5. forward[N] = backward[N] <=> forward[m] = backward[m]
  BY <1>1, <1>4, ChainsMeet
<1>6. forward[N] = hash /\ backward[N] = acc
  <2>1. N \in 0..N
    BY Sizes
  <2>2. QED
    BY <1>1, <2>1 DEF CaseScanned
<1>7. QED
  BY <1>5, <1>6

(* One byte read wrong is one changed byte that explains the hash.         *)
LEMMA ScannedMisread ==
    ASSUME CaseScanned, NEW j \in 0..N - 1, Misreads = {j}
    PROVE  /\ read[j] # bytes[j] /\ read[j] \in Byte /\ bytes[j] \in Byte
           /\ OneByte(Diff(j)) /\ Diff(j) = BitXor(read[j], bytes[j])
<1>1. read \in [0..N - 1 -> Byte] /\ bytes \in [0..N - 1 -> Byte]
  BY DEF CaseScanned, Full
<1>2. read[j] # bytes[j] /\ \A i \in 0..N - 1 : i # j => read[i] = bytes[i]
  BY DEF Misreads
<1>3. read = [bytes EXCEPT ![j] = read[j]]
  BY <1>1, <1>2
<1>4. HashWith(j, read[j]) = HashesOf(read)[N]
  BY <1>3 DEF HashWith
<1>5. HashWith(j, read[j]) = backward[N] /\ Full
  BY <1>4 DEF CaseScanned
<1>6. read[j] \in Byte /\ bytes[j] \in Byte
  BY <1>1
<1>7. QED
  BY <1>2, <1>5, <1>6, ByteExplains

(* The types of a self-test.                                               *)
LEMMA TestTypeCorrect == TestInv /\ TestHistory => TypeOK
<1> SUFFICES ASSUME TestInv, TestHistory PROVE TypeOK
  OBVIOUS
<1>1. detected \in BOOLEAN
  BY DEF TestHistory
<1>2. TestValues /\ HistoryTyped
  BY DEF TestInv, TestHistory
<1>3. /\ result.single_byte \in BOOLEAN /\ result.lane \in 0..LaneCount - 1
      /\ result.sample_index \in 0..SampleCount
      /\ result.stored \in Byte /\ result.observed \in Byte
  BY <1>2 DEF TestValues, Shape
<1>4. QED
  BY <1>1, <1>2, <1>3 DEF TestValues, HistoryTyped, TypeOK

(* A case that changes nothing is no detection.                            *)
LEMMA TestNoFalseAlarm == TestInv /\ TestHistory => NoFalseAlarm
<1> SUFFICES ASSUME TestInv, TestHistory, pc = "done", Misreads = {} PROVE ~detected
  BY DEF NoFalseAlarm
<1>1. CaseScanned
  BY ScannedCase
<1>2. read \in [0..N - 1 -> Byte] /\ bytes \in [0..N - 1 -> Byte]
  BY <1>1 DEF CaseScanned, Full
<1>3. \A j \in 0..N - 1 : read[j] = bytes[j]
  BY DEF Misreads
<1>4. read = bytes
  <2>1. read = [j \in 0..N - 1 |-> read[j]] /\ bytes = [j \in 0..N - 1 |-> bytes[j]]
    BY <1>2, Zenon
  <2>2. [j \in 0..N - 1 |-> read[j]] = [j \in 0..N - 1 |-> bytes[j]]
    BY <1>3, Zenon
  <2>3. QED
    BY <2>1, <2>2, Zenon
<1>5. acc = hash
  BY <1>1, <1>4 DEF CaseScanned
<1>6. QED
  BY <1>1, <1>5 DEF CaseScanned

(* A case with one byte always has a hash of its own.                      *)
LEMMA TestSingleFaultIsDetected == TestInv /\ TestHistory => SingleFaultIsDetected
<1> SUFFICES ASSUME TestInv, TestHistory, pc = "done",
                    (\E j \in 0..N - 1 : OnlyMisread(j)) \/ (\E f \in flips : OnlyFlip(f))
             PROVE  detected
  BY DEF SingleFaultIsDetected
<1>1. CaseScanned
  BY ScannedCase
<1>2. flips = {}
  BY <1>1 DEF CaseScanned
<1>3. PICK j \in 0..N - 1 : OnlyMisread(j)
  BY <1>2
<1>4. OneByte(Diff(j)) /\ Diff(j) = BitXor(read[j], bytes[j]) /\ j \in 0..N
  BY <1>1, <1>3, ScannedMisread, Sizes DEF OnlyMisread
<1>5. forward[j] # backward[j]
  <2>1. forward[j] \in Word
    BY <1>1, <1>4 DEF CaseScanned, Full
  <2>2. 0 \in Byte
    BY SizeAssumption DEF Byte
  <2>3. BitXor(forward[j], forward[j]) = 0
    BY <2>1, <2>2, XorWords
  <2>4. QED
    BY <1>4, <2>3 DEF OneByte, Diff
<1>6. acc # hash
  BY <1>1, <1>4, <1>5, ScannedApart
<1>7. QED
  BY <1>1, <1>6 DEF CaseScanned

(* A case leaves nothing of an earlier one in the buffers it scans.        *)
LEMMA TestBuffersAreThisRounds == TestInv /\ TestHistory => BuffersAreThisRounds
<1> SUFFICES ASSUME TestInv, TestHistory, detected, pc \in {"scan", "done"}
             PROVE  /\ forward[0] = k_fnv_basis /\ backward[N] = acc
                    /\ \A j \in 0..N - 1 : /\ forward[j + 1] = Mix(forward[j], bytes[j])
                                           /\ backward[j + 1] = Mix(backward[j], bytes[j])
                    /\ \A j \in 0..N : forward[j] # backward[j]
  BY DEF BuffersAreThisRounds
<1>1. CaseScanned
  BY ScannedCase
<1>2. /\ bytes \in [0..N - 1 -> Byte]
      /\ \A j \in 0..N : forward[j] = HashesOf(bytes)[j]
      /\ \A j \in 0..N - 1 : backward[j + 1] = Mix(backward[j], bytes[j])
  BY <1>1 DEF CaseScanned, Full
<1>3. Chained(HashesOf(bytes), bytes, N)
  BY <1>2, HashesChain
<1>4. 0 \in 0..N /\ \A j \in 0..N - 1 : j \in 0..N /\ j + 1 \in 0..N
  BY Sizes
<1>5. forward[0] = k_fnv_basis /\ \A j \in 0..N - 1 : forward[j + 1] = Mix(forward[j], bytes[j])
  BY <1>2, <1>3, <1>4 DEF Chained
<1>6. acc # hash /\ backward[N] = acc
  BY <1>1 DEF CaseScanned
<1>7. \A j \in 0..N : forward[j] # backward[j]
  BY <1>1, <1>6, ScannedApart
<1>8. QED
  BY <1>2, <1>5, <1>6, <1>7

(* A case with one byte is explained as a misread byte of a run is.        *)
LEMMA TestSingleMisreadIsExplained == TestInv /\ TestHistory => SingleMisreadIsExplained
<1> SUFFICES ASSUME TestInv, TestHistory, NEW j \in 0..N - 1, pc = "done", OnlyMisread(j)
             PROVE  /\ result.single_byte
                    /\ Position <= j
                    /\ Position = j => result.stored = bytes[j] /\ result.observed = read[j]
                    /\ (\A i \in 0..j - 1 : ~OneByte(Diff(i))) => Position = j
  BY DEF SingleMisreadIsExplained
<1>1. CaseScanned
  BY ScannedCase
<1>2. /\ read[j] # bytes[j] /\ read[j] \in Byte /\ bytes[j] \in Byte
      /\ OneByte(Diff(j)) /\ Diff(j) = BitXor(read[j], bytes[j])
  BY <1>1, ScannedMisread DEF OnlyMisread
<1>3. j \in 0..N /\ j < N /\ N \in Nat
  BY Sizes
<1>4. Scanned = N + 1 /\ j < Scanned
  BY <1>3 DEF Scanned
<1>5. result.single_byte
  BY <1>1, <1>2, <1>3, <1>4 DEF CaseScanned, FirstFits
<1>6. PICK m \in 0..N : Named(m)
  BY <1>1, <1>5 DEF CaseScanned, FirstFits
<1>7. Position = m /\ ~(j < m)
  BY <1>2, <1>3, <1>6 DEF Named
<1>8. m <= j /\ m \in Int /\ (m < j => m \in 0..j - 1) /\ (m < j \/ m = j)
  BY <1>3, <1>7
<1>9. m = j => result.stored = bytes[j] /\ result.observed = read[j]
  <2>1. m = j => /\ result.stored = bytes[j]
                 /\ result.observed = BitXor(bytes[j], BitXor(read[j], bytes[j]))
    BY <1>2, <1>3, <1>6 DEF Named
  <2>2. QED
    BY <1>2, <2>1, XorBytes
<1>10. m < j => ~(\A i \in 0..j - 1 : ~OneByte(Diff(i)))
  BY <1>6, <1>8 DEF Named
<1>11. QED
  BY <1>5, <1>7, <1>8, <1>9, <1>10

(* No case flips a bit.                                                    *)
LEMMA TestFlipLeavesItsBit == TestInv /\ TestHistory => FlipLeavesItsBit
<1>1. ASSUME TestInv, TestHistory, pc = "done" PROVE flips = {}
  BY <1>1, ScannedCase DEF CaseScanned
<1>2. QED
  BY <1>1 DEF FlipLeavesItsBit

(* Every variable keeps its type, in a round and in a self-test: hashes    *)
(* stay in a word, and the buffers are only written within their bounds.   *)
THEOREM ChRoundTypeCorrect == TestSpec => []TypeOK
<1>1. RunOrTest => TypeOK
  BY RoundTypeCorrect, TestTypeCorrect DEF RunOrTest
<1>2. QED
  BY <1>1, RunOrTestInvariant, PTL

(* On sound hardware a round never reports a detection: replay_hash and    *)
(* compute_rows compute the same function of the same bytes.               *)
THEOREM ChRoundNoFalseAlarm == TestSpec => []NoFalseAlarm
<1>1. RunOrTest => NoFalseAlarm
  BY RoundNoFalseAlarm, TestNoFalseAlarm DEF RunOrTest
<1>2. QED
  BY <1>1, RunOrTestInvariant, PTL

(* One misread byte or one flipped bit, anywhere in a stream of any        *)
(* length, is always detected: no later byte can make the hashes meet.     *)
THEOREM ChRoundSingleFaultIsDetected == TestSpec => []SingleFaultIsDetected
<1>1. RunOrTest => SingleFaultIsDetected
  BY RoundSingleFaultIsDetected, TestSingleFaultIsDetected DEF RunOrTest
<1>2. QED
  BY <1>1, RunOrTestInvariant, PTL

(* Whatever faults a round had and whatever the buffers held before it,    *)
(* the scan of a detection compares that round's two chains, which meet    *)
(* nowhere.                                                                *)
THEOREM ChRoundBuffersAreThisRounds == TestSpec => []BuffersAreThisRounds
<1>1. RunOrTest => BuffersAreThisRounds
  BY RoundBuffersAreThisRounds, TestBuffersAreThisRounds DEF RunOrTest
<1>2. QED
  BY <1>1, RunOrTestInvariant, PTL

(* reverse_fnv explains one misread byte, in a round or injected, for any  *)
(* word, byte and stream.                                                  *)
THEOREM ChRoundSingleMisreadIsExplained == TestSpec => []SingleMisreadIsExplained
<1>1. RunOrTest => SingleMisreadIsExplained
  BY RoundSingleMisreadIsExplained, TestSingleMisreadIsExplained DEF RunOrTest
<1>2. QED
  BY <1>1, RunOrTestInvariant, PTL

(* One flipped bit of the accumulator, before any byte or behind the last: *)
(* the analysis finds exactly that bit there, and the popcount it reports  *)
(* is 1 (lines 300-346).                                                   *)
THEOREM ChRoundFlipLeavesItsBit == TestSpec => []FlipLeavesItsBit
<1>1. RunOrTest => FlipLeavesItsBit
  BY RoundFlipLeavesItsBit, TestFlipLeavesItsBit DEF RunOrTest
<1>2. QED
  BY <1>1, RunOrTestInvariant, PTL

=============================================================================
