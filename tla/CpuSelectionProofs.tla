------------------------- MODULE CpuSelectionProofs -------------------------
(***************************************************************************)
(* The selection of cores for every machine and every answer: no core      *)
(* twice, and exactly what was asked for, in the order it was typed.       *)
(***************************************************************************)
EXTENDS CpuSelection, FiniteSetTheorems, TLAPS

(* Enumerating a finite set in the order of a strict total order.          *)

(* Two members of S are always in order, one way only.                     *)
TotalOrder(S, before) ==
    /\ \A x \in S : <<x, x>> \notin before
    /\ \A x, y \in S : x # y => <<x, y>> \in before \/ <<y, x>> \in before
    /\ \A x, y, z \in S : <<x, y>> \in before /\ <<y, z>> \in before => <<x, z>> \in before

(* Of the subsets of a finite set that lack a property, one is smallest.   *)
LEMMA SmallestSubset ==
    ASSUME NEW S, IsFiniteSet(S), NEW bad, bad \subseteq SUBSET S, bad # {}
    PROVE  \E T \in bad : \A x \in T : T \ {x} \notin bad
<1>1. IsWellFoundedOn(StrictSubsetOrdering(S), SUBSET S)
  BY FS_StrictSubsetOrderingWellFounded, FS_FiniteSubsetsOfFinite
<1>2. PICK T \in bad : \A U \in bad : ~(<<U, T>> \in StrictSubsetOrdering(S))
  BY <1>1, WFMin
<1>3. ASSUME NEW x \in T, T \ {x} \in bad PROVE FALSE
  <2>1. <<T \ {x}, T>> \in (SUBSET S) \X (SUBSET S)  BY <1>3
  <2>2. T \ {x} \subseteq T /\ T \ {x} # T  OBVIOUS
  <2>3. <<T \ {x}, T>> \in StrictSubsetOrdering(S)  BY <2>1, <2>2 DEF StrictSubsetOrdering
  <2> QED  BY <1>2, <1>3, <2>3
<1> QED  BY <1>3

(* A finite set that is not empty has a last member.                       *)
LEMMA HasLast ==
    ASSUME NEW S, IsFiniteSet(S), NEW before, TotalOrder(S, before),
           NEW U \in SUBSET S, U # {}
    PROVE  \E m \in U : \A y \in U \ {m} : <<y, m>> \in before
<1> DEFINE lasts(T) == {m \in T : \A y \in T \ {m} : <<y, m>> \in before}
           bad == {T \in SUBSET S : T # {} /\ lasts(T) = {}}
<1> SUFFICES ASSUME bad # {} PROVE FALSE
  <2>1. ASSUME bad = {} PROVE lasts(U) # {}  BY <2>1
  <2> QED  BY <2>1
<1>1. PICK T \in bad : \A x \in T : T \ {x} \notin bad
  <2>1. bad \subseteq SUBSET S  OBVIOUS
  <2> HIDE DEF bad
  <2> QED  BY <2>1, SmallestSubset
<1>2. T \in SUBSET S /\ T # {} /\ lasts(T) = {}  OBVIOUS
<1>3. PICK x \in T : TRUE  BY <1>2
<1>4. T \ {x} # {}
  <2> SUFFICES ASSUME T \ {x} = {} PROVE FALSE  OBVIOUS
  <2>1. x \in lasts(T)  OBVIOUS
  <2> QED  BY <1>2, <2>1
<1>5. T \ {x} \in SUBSET S /\ T \ {x} \notin bad  BY <1>1, <1>2
<1>6. lasts(T \ {x}) # {}  BY <1>4, <1>5
<1>7. PICK m \in T \ {x} : \A y \in (T \ {x}) \ {m} : <<y, m>> \in before  BY <1>6
<1>8. m \in S /\ x \in S /\ m # x  BY <1>2, <1>7
<1>9. CASE <<x, m>> \in before
  <2>1. m \in lasts(T)  BY <1>7, <1>9
  <2> QED  BY <1>2, <2>1
<1>10. CASE <<m, x>> \in before
  <2>1. ASSUME NEW y \in T \ {x} PROVE <<y, x>> \in before
    BY <1>2, <1>7, <1>8, <1>10 DEF TotalOrder
  <2>2. x \in lasts(T)  BY <2>1
  <2> QED  BY <1>2, <2>2
<1> QED  BY <1>8, <1>9, <1>10 DEF TotalOrder

(* A finite set can be written down in order.                              *)
LEMMA CanBeEnumerated ==
    ASSUME NEW S, IsFiniteSet(S), NEW before, TotalOrder(S, before)
    PROVE  \E f \in [1..Cardinality(S) -> S] :
              \A i, j \in 1..Cardinality(S) : i < j => <<f[i], f[j]>> \in before
<1> DEFINE lists(T) == {f \in [1..Cardinality(T) -> T] :
                          \A i, j \in 1..Cardinality(T) : i < j => <<f[i], f[j]>> \in before}
           bad == {T \in SUBSET S : lists(T) = {}}
<1> SUFFICES ASSUME bad # {} PROVE FALSE
  <2>1. S \in SUBSET S  OBVIOUS
  <2>2. ASSUME bad = {} PROVE lists(S) # {}  BY <2>1, <2>2
  <2> QED  BY <2>2
<1>1. PICK T \in bad : \A x \in T : T \ {x} \notin bad
  <2>1. bad \subseteq SUBSET S  OBVIOUS
  <2> HIDE DEF bad
  <2> QED  BY <2>1, SmallestSubset
<1>2. T \in SUBSET S /\ lists(T) = {}  OBVIOUS
<1>3. IsFiniteSet(T) /\ Cardinality(T) \in Nat  BY <1>2, FS_Subset, FS_CardinalityType
<1>4. T # {}
  <2> SUFFICES ASSUME T = {} PROVE FALSE  OBVIOUS
  <2>1. Cardinality(T) = 0  BY FS_EmptySet
  <2>2. 1..Cardinality(T) = {}  BY <2>1
  <2>3. [i \in {} |-> i] \in [{} -> {}]  OBVIOUS
  <2>4. [i \in {} |-> i] \in lists(T)  BY <2>2, <2>3
  <2> QED  BY <1>2, <2>4
<1>5. PICK m \in T : \A y \in T \ {m} : <<y, m>> \in before
  BY <1>2, <1>4, HasLast
<1> DEFINE U == T \ {m}
           n == Cardinality(U)
<1>6. n \in Nat /\ Cardinality(T) = n + 1
  <2>1. IsFiniteSet(U) /\ n = Cardinality(T) - 1  BY <1>3, FS_RemoveElement
  <2>2. n \in Nat  BY <2>1, FS_CardinalityType
  <2> QED  BY <1>3, <2>1, <2>2
<1>7. U \in SUBSET S /\ U \notin bad  BY <1>1, <1>2
<1>8. PICK f \in [1..n -> U] : \A i, j \in 1..n : i < j => <<f[i], f[j]>> \in before
  BY <1>7
<1> HIDE DEF n
<1> DEFINE g == [i \in 1..(n + 1) |-> IF i = n + 1 THEN m ELSE f[i]]
<1>9. g \in [1..(n + 1) -> T]
  <2>1. \A i \in 1..(n + 1) : i # n + 1 => i \in 1..n  BY <1>6
  <2> QED  BY <1>8, <2>1
<1>10. ASSUME NEW i \in 1..(n + 1), NEW j \in 1..(n + 1), i < j
       PROVE  <<g[i], g[j]>> \in before
  <2>1. i \in 1..n /\ g[i] = f[i] /\ f[i] \in U  BY <1>6, <1>8, <1>10
  <2>2. CASE j = n + 1  BY <1>5, <1>6, <2>1, <2>2
  <2>3. CASE j # n + 1
    <3>1. j \in 1..n /\ g[j] = f[j]  BY <1>6, <2>3
    <3> QED  BY <1>8, <1>10, <2>1, <3>1
  <2> QED  BY <2>2, <2>3
<1> HIDE DEF g
<1>11. g \in lists(T)  BY <1>6, <1>9, <1>10
<1> QED  BY <1>2, <1>11

(* InOrder does so: every member once, in order.                           *)
LEMMA InOrderLists ==
    ASSUME NEW S, IsFiniteSet(S), NEW before, TotalOrder(S, before)
    PROVE  LET f == InOrder(S, before)
               n == Cardinality(S)
           IN  /\ n \in Nat /\ f \in [1..n -> S]
               /\ \A i, j \in 1..n : i < j => <<f[i], f[j]>> \in before
               /\ \A i, j \in 1..n : f[i] = f[j] => i = j
               /\ \A x \in S : \E i \in 1..n : f[i] = x
<1> DEFINE f == InOrder(S, before)
           n == Cardinality(S)
<1>1. n \in Nat  BY FS_CardinalityType
<1>2. f \in [1..n -> S] /\ \A i, j \in 1..n : i < j => <<f[i], f[j]>> \in before
  BY CanBeEnumerated DEF InOrder
<1> HIDE DEF f, n
<1>3. ASSUME NEW i \in 1..n, NEW j \in 1..n, f[i] = f[j] PROVE i = j
  <2>1. i \in Nat /\ j \in Nat /\ f[i] \in S /\ <<f[i], f[i]>> \notin before
    BY <1>1, <1>2 DEF TotalOrder
  <2>2. ~(i < j) /\ ~(j < i)  BY <1>2, <1>3, <2>1
  <2> QED  BY <2>1, <2>2
<1>4. \A x \in S : \E i \in 1..n : f[i] = x
  <2>1. f \in Injection(1..n, S)  BY <1>2, <1>3 DEF Injection, IsInjective
  <2>2. Cardinality(1..n) = n  BY <1>1, FS_Interval
  <2>3. f \in Surjection(1..n, S)  BY <2>1, <2>2, FS_Injection DEF n
  <2> QED  BY <2>3 DEF Surjection
<1> QED  BY <1>1, <1>2, <1>3, <1>4 DEF f, n

-----------------------------------------------------------------------------
(* The cores of the machine.                                               *)

(* What the platform layer says of a processor.                            *)
CpuInfos == [index : Nat, group : Nat, in_group : Nat]

(* Numbers that --cores accepts.                                           *)
Numbered(cpus) == \A i \in DOMAIN cpus : cpus[i].index <= k_max_core_index

(* No processor twice.                                                     *)
Different(cpus) ==
    \A i, j \in DOMAIN cpus : i # j =>
        /\ cpus[i].index # cpus[j].index
        /\ <<cpus[i].group, cpus[i].in_group>> # <<cpus[j].group, cpus[j].in_group>>

(* Numbers are totally ordered.                                            *)
LEMMA AscendingOrders ==
    ASSUME NEW S, S \subseteq Nat PROVE TotalOrder(S, Ascending(S))
<1>1. \A x, y \in S : <<x, y>> \in Ascending(S) <=> x < y  BY DEF Ascending
<1>2. \A x \in S : <<x, x>> \notin Ascending(S)  BY <1>1
<1>3. \A x, y \in S : x # y => <<x, y>> \in Ascending(S) \/ <<y, x>> \in Ascending(S)
  BY <1>1
<1>4. \A x, y, z \in S : <<x, y>> \in Ascending(S) /\ <<y, z>> \in Ascending(S)
                         => <<x, z>> \in Ascending(S)
  BY <1>1
<1> QED  BY <1>2, <1>3, <1>4 DEF TotalOrder

(* So are the places of a machine with processor groups.                   *)
LEMMA GroupsOrder ==
    ASSUME NEW S, S \subseteq [group : Nat, in_group : Nat]
    PROVE  TotalOrder(S, GroupByGroup(S))
<1>1. \A x, y \in S : <<x, y>> \in GroupByGroup(S) <=>
                        \/ x.group < y.group
                        \/ x.group = y.group /\ x.in_group < y.in_group
  BY DEF GroupByGroup
<1>2. \A x \in S : x.group \in Nat /\ x.in_group \in Nat  OBVIOUS
<1>3. \A x, y \in S : x.group = y.group /\ x.in_group = y.in_group => x = y  OBVIOUS
<1>4. \A x \in S : <<x, x>> \notin GroupByGroup(S)  BY <1>1, <1>2
<1>5. \A x, y \in S : x # y => <<x, y>> \in GroupByGroup(S) \/ <<y, x>> \in GroupByGroup(S)
  BY <1>1, <1>2, <1>3
<1>6. \A x, y, z \in S : <<x, y>> \in GroupByGroup(S) /\ <<y, z>> \in GroupByGroup(S)
                         => <<x, z>> \in GroupByGroup(S)
  BY <1>1, <1>2
<1> QED  BY <1>4, <1>5, <1>6 DEF TotalOrder

(* The numbers of the mask's bits.                                         *)
LEMMA MaskDifferent ==
    ASSUME NEW mask, mask \subseteq 0..k_max_core_index
    PROVE  /\ FromMask(mask) \in Seq(CpuInfos)
           /\ Different(FromMask(mask)) /\ Numbered(FromMask(mask))
<1> DEFINE bits == InOrder(mask, Ascending(mask))
           n == Cardinality(mask)
           cpus == [k \in DOMAIN bits |-> [index |-> bits[k], group |-> 0, in_group |-> bits[k]]]
<1>0. mask \subseteq Nat /\ IsFiniteSet(mask)
  <2>1. k_max_core_index \in Nat  BY SelectionAssumption
  <2>2. IsFiniteSet(0..k_max_core_index)  BY <2>1, FS_Interval
  <2>3. IsFiniteSet(mask)  BY <2>2, FS_Subset
  <2> QED  BY <2>1, <2>3
<1>1. TotalOrder(mask, Ascending(mask))  BY <1>0, AscendingOrders
<1>2. /\ n \in Nat /\ bits \in [1..n -> mask]
      /\ \A i, j \in 1..n : bits[i] = bits[j] => i = j
  BY <1>0, <1>1, InOrderLists
<1> HIDE DEF bits, n
<1>3. DOMAIN bits = 1..n /\ \A k \in 1..n : bits[k] \in Nat  BY <1>0, <1>2
<1>4. cpus \in [1..n -> CpuInfos]  BY <1>3 DEF CpuInfos
<1>5. cpus \in Seq(CpuInfos)  BY <1>2, <1>4
<1>6. \A k \in 1..n : cpus[k].index = bits[k]
                      /\ cpus[k].group = 0 /\ cpus[k].in_group = bits[k]
  BY <1>3
<1>7. DOMAIN cpus = 1..n  BY <1>3
<1> HIDE DEF cpus
<1>8. Different(cpus)  BY <1>2, <1>6, <1>7 DEF Different
<1>9. Numbered(cpus)
  <2>1. \A k \in 1..n : bits[k] \in 0..k_max_core_index  BY <1>2
  <2> QED  BY <1>6, <1>7, <2>1, SelectionAssumption DEF Numbered
<1>10. FromMask(mask) = cpus  BY DEF FromMask, cpus, bits
<1> QED  BY <1>5, <1>8, <1>9, <1>10

(* The places of all groups are finitely many.                             *)
LEMMA GroupedFinite ==
    ASSUME NEW counts \in Seq(Nat)
    PROVE  LET all == UNION {InGroup(counts, g) : g \in DOMAIN counts}
           IN  all \subseteq [group : Nat, in_group : Nat] /\ IsFiniteSet(all)
<1> DEFINE groups == DOMAIN counts
           parts == {InGroup(counts, g) : g \in groups}
<1>1. groups = 1..Len(counts) /\ Len(counts) \in Nat  OBVIOUS
<1>2. IsFiniteSet(groups)  BY <1>1, FS_Interval
<1>3. IsFiniteSet(parts)
  <2> DEFINE f == [g \in groups |-> InGroup(counts, g)]
  <2>1. f \in Surjection(groups, parts)  BY DEF Surjection
  <2> QED  BY <1>2, <2>1, FS_Surjection
<1>4. ASSUME NEW g \in groups PROVE IsFiniteSet(InGroup(counts, g))
  <2> DEFINE f == [i \in 1..counts[g] |-> [group |-> g - 1, in_group |-> i - 1]]
  <2>1. counts[g] \in Nat  OBVIOUS
  <2>2. IsFiniteSet(1..counts[g])  BY <2>1, FS_Interval
  <2>3. f \in Surjection(1..counts[g], InGroup(counts, g))  BY DEF Surjection, InGroup
  <2> QED  BY <2>2, <2>3, FS_Surjection
<1>5. IsFiniteSet(UNION parts)  BY <1>3, <1>4, FS_UNION
<1>6. ASSUME NEW g \in groups PROVE InGroup(counts, g) \subseteq [group : Nat, in_group : Nat]
  <2>1. g \in Nat /\ g - 1 \in Nat  BY <1>1
  <2>2. \A i \in 1..counts[g] : i - 1 \in Nat  OBVIOUS
  <2> QED  BY <2>1, <2>2 DEF InGroup
<1> QED  BY <1>5, <1>6

(* One number after the other, over the groups.                            *)
LEMMA GroupsDifferent ==
    ASSUME NEW counts \in Seq(Nat)
    PROVE  LET cpus == FromGroups(counts)
           IN  /\ cpus \in Seq(CpuInfos) /\ Different(cpus)
               /\ \A i \in DOMAIN cpus : cpus[i].index = i - 1
<1> DEFINE all == UNION {InGroup(counts, g) : g \in DOMAIN counts}
           places == InOrder(all, GroupByGroup(all))
           n == Cardinality(all)
           cpus == [k \in DOMAIN places |->
                      [index |-> k - 1,
                       group |-> places[k].group, in_group |-> places[k].in_group]]
<1>1. all \subseteq [group : Nat, in_group : Nat] /\ IsFiniteSet(all)  BY GroupedFinite
<1>2. FromGroups(counts) = cpus  BY DEF FromGroups, Grouped
<1> HIDE DEF all
<1>3. TotalOrder(all, GroupByGroup(all))  BY <1>1, GroupsOrder
<1>4. /\ n \in Nat /\ places \in [1..n -> all]
      /\ \A i, j \in 1..n : places[i] = places[j] => i = j
  BY <1>1, <1>3, InOrderLists
<1> HIDE DEF places, n
<1>5. /\ DOMAIN places = 1..n
      /\ \A k \in 1..n : /\ places[k] \in [group : Nat, in_group : Nat]
                         /\ k \in Nat /\ k - 1 \in Nat
  BY <1>1, <1>4
<1>6. cpus \in [1..n -> CpuInfos]  BY <1>5 DEF CpuInfos
<1>7. cpus \in Seq(CpuInfos)  BY <1>4, <1>6
<1>8. /\ DOMAIN cpus = 1..n
      /\ \A k \in 1..n : /\ cpus[k].index = k - 1 /\ cpus[k].group = places[k].group
                         /\ cpus[k].in_group = places[k].in_group
  BY <1>5
<1> HIDE DEF cpus
<1>9. ASSUME NEW i \in 1..n, NEW j \in 1..n, i # j
      PROVE  /\ cpus[i].index # cpus[j].index
             /\ <<cpus[i].group, cpus[i].in_group>> # <<cpus[j].group, cpus[j].in_group>>
  <2>1. cpus[i].index # cpus[j].index  BY <1>5, <1>8, <1>9
  <2>2. places[i] # places[j]  BY <1>4, <1>9
  <2>3. ~(places[i].group = places[j].group /\ places[i].in_group = places[j].in_group)
    BY <1>5, <2>2
  <2> QED  BY <1>8, <2>1, <2>3
<1>10. Different(cpus)  BY <1>8, <1>9 DEF Different
<1> QED  BY <1>2, <1>7, <1>8, <1>10

(* Either way of enumerating lists each processor once.                    *)
LEMMA MachineDifferent ==
    ASSUME NEW m \in Machines
    PROVE  LET cpus == sdc_enumerate_cpus(m)
           IN  cpus \in Seq(CpuInfos) /\ Different(cpus) /\ Numbered(cpus)
<1>1. m.mask \subseteq 0..k_max_core_index /\ m.counts \in Seq(Nat)
  BY SelectionAssumption
<1>2. LET cpus == FromMask(m.mask)
      IN  cpus \in Seq(CpuInfos) /\ Different(cpus) /\ Numbered(cpus)
  BY <1>1, MaskDifferent
<1> DEFINE cpus == FromGroups(m.counts)
<1>3. /\ cpus \in Seq(CpuInfos) /\ Different(cpus)
      /\ \A i \in DOMAIN cpus : cpus[i].index = i - 1
  BY <1>1, GroupsDifferent
<1>4. Len(cpus) <= k_max_core_index + 1 /\ k_max_core_index \in Nat
  BY MachineAssumption, SelectionAssumption
<1> HIDE DEF cpus
<1>5. Numbered(cpus)  BY <1>3, <1>4 DEF Numbered
<1> QED  BY <1>2, <1>3, <1>5 DEF sdc_enumerate_cpus, cpus

-----------------------------------------------------------------------------
(* The answer.                                                             *)

(* Each number was mentioned by a token (tok), the numbers stand in the    *)
(* order of the tokens and, within one, from the lowest up, and no mention *)
(* is missing.                                                             *)
Traced(tokens, numbers, tok) ==
    /\ tok \in [DOMAIN numbers -> DOMAIN tokens]
    /\ \A p \in DOMAIN numbers : numbers[p] \in Mentions(tokens[tok[p]])
    /\ \A p, q \in DOMAIN numbers : p < q =>
         tok[p] < tok[q] \/ (tok[p] = tok[q] /\ numbers[p] < numbers[q])
    /\ \A k \in DOMAIN tokens : \A n \in Mentions(tokens[k]) :
         \E p \in DOMAIN numbers : numbers[p] = n /\ tok[p] = k

(* Each core stands for the place (at) where its number came first.        *)
LookedUp(numbers, upto, cpus, at) ==
    /\ at \in [DOMAIN cpus -> 1..upto]
    /\ \A i \in DOMAIN cpus : cpus[i].index = numbers[at[i]]
    /\ \A i, j \in DOMAIN cpus : i < j => at[i] < at[j]
    /\ \A p \in 1..upto : \E i \in DOMAIN cpus : cpus[i].index = numbers[p] /\ at[i] <= p

(* The type invariant.                                                     *)
Values ==
    /\ pc \in {"ask", "token", "lookup", "selected", "refused"}
    /\ available \in Seq(CpuInfos)
    /\ wanted \in Seq(Nat)
    /\ pos \in Nat \ {0}
    /\ out \in Seq(CpuInfos)
    /\ said \in Seq(Tokens)

(* The machine has different processors, or the program has refused it.    *)
Machine ==
    /\ Different(available) /\ Numbered(available)
    /\ pc # "refused" => available # <<>>

(* The vector holds cores of the machine, none twice.                      *)
Chosen ==
    /\ \A i \in DOMAIN out : \E k \in DOMAIN available : out[i] = available[k]
    /\ \A i, j \in DOMAIN out : i # j => out[i].index # out[j].index

(* An answer that has not been rejected is the account of its tokens.      *)
Reading ==
    /\ pc \in {"token", "lookup", "selected"} =>
         /\ \A k \in DOMAIN said : Acceptable(said[k])
         /\ \E tok : Traced(said, wanted, tok)
    /\ pc = "token" => out = <<>> /\ pos = 1
    /\ pc = "lookup" => wanted # <<>> /\ pos <= Len(wanted) + 1

(* The cores found are those of the numbers looked up so far.              *)
Looking ==
    /\ pc = "lookup" => \E at : LookedUp(wanted, pos - 1, out, at)
    /\ pc = "selected" =>
         \/ said = <<>> /\ out = available
         \/ wanted # <<>> /\ \E at : LookedUp(wanted, Len(wanted), out, at)

(* The inductive invariant.                                                *)
IInv == Values /\ Machine /\ Chosen /\ Reading /\ Looking

(* The two ends of a token are numbers.                                    *)
LEMMA TokenNumbers ==
    ASSUME NEW token \in Tokens PROVE Low(token) \in Int /\ High(token) \in Int
<1>1. \A t \in Texts \cup {Empty} : t.n \in Int
  BY SelectionAssumption DEF Texts, Junk, Empty, Number
<1>2. token.low \in Texts \cup {Empty} /\ token.high \in Texts \cup {Empty}
  BY DEF Tokens
<1>3. LongMax \in Int  BY SelectionAssumption
<1>4. \A t \in Texts \cup {Empty} : strtol(t) \in Int  BY <1>1, <1>3 DEF strtol
<1> QED  BY <1>2, <1>4 DEF Low, High

(* The numbers of one more token, behind the others.                       *)
LEMMA TraceToken ==
    ASSUME NEW tokens \in Seq(Tokens), NEW numbers \in Seq(Nat), NEW tok,
           Traced(tokens, numbers, tok), NEW token \in Tokens, Acceptable(token)
    PROVE  LET more == numbers \o [i \in 1..(High(token) - Low(token) + 1) |-> Low(token) + i - 1]
           IN  more \in Seq(Nat) /\ \E t : Traced(Append(tokens, token), more, t)
<1> DEFINE L == Low(token)
           H == High(token)
           n == Len(numbers)
           k == Len(tokens) + 1
           m == H - L + 1
           run == [i \in 1..(H - L + 1) |-> L + i - 1]
           more == numbers \o run
           longer == Append(tokens, token)
           t == [p \in DOMAIN more |-> IF p <= n THEN tok[p] ELSE k]
<1>1. L \in Nat /\ H \in Nat /\ L <= H /\ n \in Nat /\ k \in Nat /\ k # 0
  BY TokenNumbers DEF Acceptable
<1>2. DOMAIN numbers = 1..n /\ DOMAIN tokens = 1..(k - 1)  OBVIOUS
<1>3. Mentions(token) = L..H  BY DEF Mentions
<1> HIDE DEF L, H
<1>4. run \in Seq(Nat) /\ Len(run) = m /\ m \in Nat
  <2>1. m \in Nat  BY <1>1
  <2>2. run \in [1..m -> Nat]  BY <1>1
  <2> HIDE DEF run, m
  <2> QED  BY <2>1, <2>2
<1>5. \A i \in 1..m : run[i] = L + i - 1  OBVIOUS
<1> HIDE DEF run, n
<1>6. /\ more \in Seq(Nat) /\ Len(more) = n + (H - L + 1)
      /\ \A p \in 1..n : more[p] = numbers[p]
      /\ \A p \in 1..(H - L + 1) : more[n + p] = L + p - 1
  <2>1. m = H - L + 1  OBVIOUS
  <2> HIDE DEF m
  <2>2. Len(numbers) = n  BY DEF n
  <2>3. more \in Seq(Nat) /\ Len(more) = n + m  BY <1>4, <2>2
  <2>4. \A p \in 1..n : more[p] = numbers[p]  BY <1>4, <2>2
  <2>5. \A p \in 1..m : more[n + p] = run[p]  BY <1>1, <1>4, <2>2
  <2> QED  BY <1>5, <2>1, <2>3, <2>4, <2>5
<1>7. DOMAIN more = 1..(n + (H - L + 1))  BY <1>6
<1>8. /\ DOMAIN longer = 1..k /\ longer[k] = token
      /\ \A j \in 1..(k - 1) : longer[j] = tokens[j]
  BY <1>1
<1> HIDE DEF more, longer
<1>9. \A p \in DOMAIN more : p > n => more[p] = L + (p - n) - 1
  <2> SUFFICES ASSUME NEW p \in DOMAIN more, p > n PROVE more[p] = L + (p - n) - 1
    OBVIOUS
  <2>1. p - n \in 1..(H - L + 1) /\ n + (p - n) = p  BY <1>1, <1>7
  <2> QED  BY <1>6, <2>1
<1>10. \A p \in DOMAIN more : p <= n => p \in DOMAIN numbers /\ tok[p] \in 1..(k - 1)
  BY <1>1, <1>2, <1>7 DEF Traced
<1>11. t \in [DOMAIN more -> DOMAIN longer]  BY <1>1, <1>8, <1>10
<1>12. \A p \in DOMAIN more : t[p] = IF p <= n THEN tok[p] ELSE k  OBVIOUS
<1> HIDE DEF t, k
<1>13. ASSUME NEW p \in DOMAIN more PROVE more[p] \in Mentions(longer[t[p]])
  <2>1. CASE p <= n
    <3>1. p \in DOMAIN numbers /\ tok[p] \in 1..(k - 1) /\ more[p] = numbers[p] /\ t[p] = tok[p]
      BY <1>2, <1>6, <1>10, <1>12, <2>1
    <3>2. longer[tok[p]] = tokens[tok[p]]  BY <1>8, <3>1
    <3> QED  BY <3>1, <3>2 DEF Traced
  <2>2. CASE p > n
    <3>1. more[p] = L + (p - n) - 1 /\ t[p] = k /\ p \in 1..(n + (H - L + 1))
      BY <1>1, <1>7, <1>9, <1>12, <2>2
    <3>2. more[p] \in L..H  BY <1>1, <2>2, <3>1
    <3> QED  BY <1>3, <1>8, <3>1, <3>2
  <2> QED  BY <1>1, <1>7, <2>1, <2>2
<1>14. ASSUME NEW p \in DOMAIN more, NEW q \in DOMAIN more, p < q
       PROVE  t[p] < t[q] \/ (t[p] = t[q] /\ more[p] < more[q])
  <2>0. p \in Nat /\ q \in Nat  BY <1>7
  <2>1. CASE q <= n
    <3>1. p <= n  BY <1>1, <1>14, <2>0, <2>1
    <3>2. p \in DOMAIN numbers /\ q \in DOMAIN numbers  BY <1>10, <2>1, <3>1
    <3>3. more[p] = numbers[p] /\ more[q] = numbers[q]  BY <1>2, <1>6, <3>2
    <3> QED  BY <1>12, <1>14, <2>1, <3>1, <3>2, <3>3 DEF Traced
  <2>2. CASE p <= n /\ q > n
    <3>1. t[p] \in 1..(k - 1) /\ t[q] = k  BY <1>1, <1>10, <1>12, <2>0, <2>2
    <3> QED  BY <1>1, <3>1
  <2>3. CASE p > n /\ q > n
    <3>1. t[p] = k /\ t[q] = k  BY <1>1, <1>12, <2>0, <2>3
    <3>2. more[p] = L + (p - n) - 1 /\ more[q] = L + (q - n) - 1  BY <1>9, <2>3
    <3> QED  BY <1>1, <1>14, <2>0, <3>1, <3>2
  <2> QED  BY <1>1, <1>14, <2>0, <2>1, <2>2, <2>3
<1>15. ASSUME NEW j \in DOMAIN longer, NEW x \in Mentions(longer[j])
       PROVE  \E p \in DOMAIN more : more[p] = x /\ t[p] = j
  <2>1. CASE j = k
    <3>1. x \in L..H  BY <1>3, <1>8, <1>15, <2>1
    <3> DEFINE p == n + (x - L + 1)
    <3>2. p \in DOMAIN more /\ p > n /\ L + (p - n) - 1 = x  BY <1>1, <1>7, <3>1
    <3> HIDE DEF p
    <3>3. more[p] = x /\ t[p] = k  BY <1>1, <1>7, <1>9, <1>12, <3>2
    <3> QED  BY <2>1, <3>2, <3>3
  <2>2. CASE j # k
    <3>1. j \in DOMAIN tokens /\ longer[j] = tokens[j]  BY <1>1, <1>2, <1>8, <2>2
    <3>2. PICK p \in DOMAIN numbers : numbers[p] = x /\ tok[p] = j
      BY <1>15, <3>1 DEF Traced
    <3>3. p \in DOMAIN more /\ p <= n /\ p \in 1..n  BY <1>1, <1>2, <1>7, <3>2
    <3> QED  BY <1>6, <1>12, <3>2, <3>3
  <2> QED  BY <2>1, <2>2
<1>16. Traced(longer, more, t)  BY <1>11, <1>13, <1>14, <1>15 DEF Traced
<1> QED  BY <1>6, <1>16 DEF more, longer, run, L, H

(* One more number is looked up: a repeat is dropped, a new one filed last. *)
LEMMA LookUpOne ==
    ASSUME NEW numbers \in Seq(Nat), NEW upto \in Nat, NEW cpus \in Seq(CpuInfos), NEW at,
           LookedUp(numbers, upto, cpus, at), NEW found \in CpuInfos,
           found.index = numbers[upto + 1]
    PROVE  LET next == IF \E i \in DOMAIN cpus : cpus[i].index = numbers[upto + 1]
                         THEN cpus ELSE Append(cpus, found)
           IN  \E a : LookedUp(numbers, upto + 1, next, a)
<1>1. CASE \E i \in DOMAIN cpus : cpus[i].index = numbers[upto + 1]
  <2>1. at \in [DOMAIN cpus -> 1..(upto + 1)]  BY DEF LookedUp
  <2>2. ASSUME NEW p \in 1..(upto + 1)
        PROVE  \E i \in DOMAIN cpus : cpus[i].index = numbers[p] /\ at[i] <= p
    <3>1. CASE p = upto + 1
      <4>1. PICK i \in DOMAIN cpus : cpus[i].index = numbers[upto + 1]  BY <1>1
      <4>2. at[i] \in 1..(upto + 1)  BY <2>1
      <4> QED  BY <3>1, <4>1, <4>2
    <3>2. CASE p # upto + 1
      <4>1. p \in 1..upto  BY <3>2
      <4> QED  BY <4>1 DEF LookedUp
    <3> QED  BY <3>1, <3>2
  <2>3. LookedUp(numbers, upto + 1, cpus, at)  BY <2>1, <2>2 DEF LookedUp
  <2> QED  BY <1>1, <2>3
<1>2. CASE ~\E i \in DOMAIN cpus : cpus[i].index = numbers[upto + 1]
  <2> DEFINE n == Len(cpus)
             next == Append(cpus, found)
             a == [i \in 1..(n + 1) |-> IF i = n + 1 THEN upto + 1 ELSE at[i]]
  <2>1. n \in Nat /\ DOMAIN cpus = 1..n  OBVIOUS
  <2>2. /\ DOMAIN next = 1..(n + 1) /\ next[n + 1] = found
        /\ \A i \in 1..n : next[i] = cpus[i]
    OBVIOUS
  <2>3. \A i \in 1..n : at[i] \in 1..upto  BY <2>1 DEF LookedUp
  <2> HIDE DEF n, next
  <2>4. \A i \in 1..(n + 1) : i # n + 1 => i \in 1..n  BY <2>1
  <2>5. a \in [1..(n + 1) -> 1..(upto + 1)]  BY <2>1, <2>3, <2>4
  <2>6. a[n + 1] = upto + 1 /\ \A i \in 1..n : a[i] = at[i]  BY <2>1
  <2> HIDE DEF a
  <2>7. ASSUME NEW i \in 1..(n + 1) PROVE next[i].index = numbers[a[i]]
    <3>1. CASE i = n + 1  BY <2>2, <2>6, <3>1
    <3>2. CASE i # n + 1
      <4>1. i \in 1..n  BY <2>4, <3>2
      <4>2. cpus[i].index = numbers[at[i]]  BY <2>1, <4>1 DEF LookedUp
      <4> QED  BY <2>2, <2>6, <4>1, <4>2
    <3> QED  BY <3>1, <3>2
  <2>8. ASSUME NEW i \in 1..(n + 1), NEW j \in 1..(n + 1), i < j PROVE a[i] < a[j]
    <3>1. i \in 1..n  BY <2>1, <2>8
    <3>2. CASE j = n + 1  BY <2>3, <2>6, <3>1, <3>2
    <3>3. CASE j # n + 1
      <4>1. j \in 1..n  BY <2>4, <3>3
      <4> QED  BY <2>1, <2>6, <2>8, <3>1, <4>1 DEF LookedUp
    <3> QED  BY <3>2, <3>3
  <2>9. ASSUME NEW p \in 1..(upto + 1)
        PROVE  \E i \in 1..(n + 1) : next[i].index = numbers[p] /\ a[i] <= p
    <3>1. CASE p = upto + 1
      <4>1. n + 1 \in 1..(n + 1)  BY <2>1
      <4>2. a[n + 1] <= p  BY <2>6, <3>1
      <4> QED  BY <2>2, <3>1, <4>1, <4>2
    <3>2. CASE p # upto + 1
      <4>1. p \in 1..upto  BY <3>2
      <4>2. PICK i \in 1..n : cpus[i].index = numbers[p] /\ at[i] <= p
        BY <2>1, <4>1 DEF LookedUp
      <4>3. i \in 1..(n + 1)  BY <2>1
      <4> QED  BY <2>2, <2>6, <4>2, <4>3
    <3> QED  BY <3>1, <3>2
  <2>10. LookedUp(numbers, upto + 1, next, a)
    BY <2>2, <2>5, <2>7, <2>8, <2>9 DEF LookedUp
  <2> QED  BY <1>2, <2>10 DEF next
<1> QED  BY <1>1, <1>2

(* The token that first mentions the number of a core is the one its place *)
(* in the list came from.                                                  *)
LEMMA PlaceIsFirstMention ==
    ASSUME NEW V, NEW tokens \in Seq(V), NEW numbers \in Seq(Nat), NEW cpus \in Seq(CpuInfos),
           NEW tok, Traced(tokens, numbers, tok),
           NEW at, LookedUp(numbers, Len(numbers), cpus, at),
           \A i, j \in DOMAIN cpus : i # j => cpus[i].index # cpus[j].index,
           NEW i \in DOMAIN cpus
    PROVE  FirstMention(tokens, cpus[i].index) = tok[at[i]]
<1> DEFINE n == cpus[i].index
           k == tok[at[i]]
           minimal(x) == /\ n \in Mentions(tokens[x])
                         /\ \A j \in 1..(x - 1) : n \notin Mentions(tokens[j])
<1>1. /\ DOMAIN numbers = 1..Len(numbers) /\ Len(numbers) \in Nat
      /\ DOMAIN tokens = 1..Len(tokens) /\ Len(tokens) \in Nat
  OBVIOUS
<1>2. at[i] \in DOMAIN numbers /\ n = numbers[at[i]]  BY <1>1 DEF LookedUp
<1>3. k \in DOMAIN tokens /\ n \in Mentions(tokens[k])  BY <1>2 DEF Traced
<1>4. ASSUME NEW j \in 1..(k - 1), n \in Mentions(tokens[j]) PROVE FALSE
  <2>1. j \in DOMAIN tokens /\ j < k  BY <1>1, <1>3
  <2>2. PICK p \in DOMAIN numbers : numbers[p] = n /\ tok[p] = j
    BY <1>4, <2>1 DEF Traced
  <2>3. p < at[i]
    <3> SUFFICES ASSUME at[i] <= p PROVE FALSE  BY <1>1, <1>2
    <3>1. CASE at[i] = p  BY <1>1, <1>3, <2>1, <2>2, <3>1
    <3>2. CASE at[i] < p
      <4>1. k < j \/ k = j  BY <1>2, <2>2, <3>2 DEF Traced
      <4> QED  BY <1>1, <1>3, <2>1, <4>1
    <3> QED  BY <1>1, <1>2, <3>1, <3>2
  <2>4. PICK h \in DOMAIN cpus : cpus[h].index = numbers[p] /\ at[h] <= p
    BY <1>1 DEF LookedUp
  <2>5. at[h] \in DOMAIN numbers  BY <1>1 DEF LookedUp
  <2>6. h # i  BY <1>1, <1>2, <2>3, <2>4, <2>5
  <2> QED  BY <2>2, <2>4, <2>6
<1>5. minimal(k)  BY <1>3, <1>4
<1>6. ASSUME NEW x \in DOMAIN tokens, minimal(x) PROVE x = k
  <2>1. ~(x < k)
    <3> SUFFICES ASSUME x < k PROVE FALSE  OBVIOUS
    <3>1. x \in 1..(k - 1)  BY <1>1, <1>3
    <3> QED  BY <1>5, <1>6, <3>1
  <2>2. ~(k < x)
    <3> SUFFICES ASSUME k < x PROVE FALSE  OBVIOUS
    <3>1. k \in 1..(x - 1)  BY <1>1, <1>3
    <3> QED  BY <1>5, <1>6, <3>1
  <2> QED  BY <1>1, <1>3, <2>1, <2>2
<1>7. FirstMention(tokens, n) = CHOOSE x \in DOMAIN tokens : minimal(x)
  BY DEF FirstMention
<1> HIDE DEF minimal
<1> QED  BY <1>3, <1>5, <1>6, <1>7

(* An answer whose numbers were all looked up is what was asked for.       *)
LEMMA AccountSelects ==
    ASSUME NEW V, NEW tokens \in Seq(V), NEW numbers \in Seq(Nat), NEW cpus \in Seq(CpuInfos),
           \A k \in DOMAIN tokens : /\ Acceptable(tokens[k])
                                    /\ Low(tokens[k]) \in Int /\ High(tokens[k]) \in Int,
           NEW tok, Traced(tokens, numbers, tok),
           NEW at, LookedUp(numbers, Len(numbers), cpus, at),
           \A i, j \in DOMAIN cpus : i # j => cpus[i].index # cpus[j].index
    PROVE  Selects(tokens, cpus)
<1>1. DOMAIN numbers = 1..Len(numbers)  OBVIOUS
<1>2. ASSUME NEW k \in DOMAIN tokens PROVE Parsed(tokens[k]) /\ Mentions(tokens[k]) # {}
  <2>1. Low(tokens[k]) \in Mentions(tokens[k])  BY DEF Acceptable, Mentions
  <2> QED  BY <2>1 DEF Acceptable
<1>3. {cpus[i].index : i \in DOMAIN cpus} = UNION {Mentions(tokens[k]) : k \in DOMAIN tokens}
  <2>1. ASSUME NEW i \in DOMAIN cpus PROVE \E k \in DOMAIN tokens : cpus[i].index \in Mentions(tokens[k])
    <3>1. at[i] \in DOMAIN numbers /\ cpus[i].index = numbers[at[i]]  BY <1>1 DEF LookedUp
    <3> QED  BY <3>1 DEF Traced
  <2>2. ASSUME NEW k \in DOMAIN tokens, NEW n \in Mentions(tokens[k])
        PROVE  \E i \in DOMAIN cpus : cpus[i].index = n
    <3>1. PICK p \in DOMAIN numbers : numbers[p] = n  BY DEF Traced
    <3> QED  BY <1>1, <3>1 DEF LookedUp
  <2> QED  BY <2>1, <2>2
<1>4. ASSUME NEW i \in DOMAIN cpus PROVE FirstMention(tokens, cpus[i].index) = tok[at[i]]
  BY PlaceIsFirstMention, SMTT(60)
<1>5. ASSUME NEW i \in DOMAIN cpus, NEW j \in DOMAIN cpus, i < j
      PROVE  \/ FirstMention(tokens, cpus[i].index) < FirstMention(tokens, cpus[j].index)
             \/ /\ FirstMention(tokens, cpus[i].index) = FirstMention(tokens, cpus[j].index)
                /\ cpus[i].index < cpus[j].index
  <2>1. FirstMention(tokens, cpus[i].index) = tok[at[i]]
        /\ FirstMention(tokens, cpus[j].index) = tok[at[j]]
    BY <1>4
  <2>2. /\ at[i] \in DOMAIN numbers /\ at[j] \in DOMAIN numbers /\ at[i] < at[j]
        /\ cpus[i].index = numbers[at[i]] /\ cpus[j].index = numbers[at[j]]
    BY <1>1, <1>5 DEF LookedUp
  <2> QED  BY <2>1, <2>2 DEF Traced
<1> QED  BY <1>2, <1>3, <1>5 DEF Selects

-----------------------------------------------------------------------------
(* A machine before the first question.                                    *)
LEMMA InitKept == Init => IInv
<1> SUFFICES ASSUME Init PROVE IInv  OBVIOUS
<1>1. PICK m \in Machines : available = sdc_enumerate_cpus(m)  BY DEF Init
<1>2. available \in Seq(CpuInfos) /\ Different(available) /\ Numbered(available)
  BY <1>1, MachineDifferent
<1>3. /\ pc = IF available = <<>> THEN "refused" ELSE "ask"
      /\ wanted = <<>> /\ pos = 1 /\ out = <<>> /\ said = <<>>
  BY DEF Init
<1>4. Values /\ Machine  BY <1>2, <1>3 DEF Values, Machine
<1>5. Chosen /\ Reading /\ Looking  BY <1>3 DEF Chosen, Reading, Looking
<1> QED  BY <1>4, <1>5 DEF IInv

(* The answer that takes every core.                                       *)
LEMMA AnswerAllKept == ASSUME IInv, AnswerAll PROVE IInv'
<1>1. /\ pc = "ask" /\ pc' = "selected" /\ out' = available /\ available' = available
      /\ wanted' = <<>> /\ pos' = 1 /\ said' = <<>>
  BY DEF AnswerAll, machineVars
<1>2. Values' /\ Machine'
  BY <1>1 DEF IInv, Values, Machine, Different, Numbered
<1>3. Chosen'  BY <1>1 DEF IInv, Machine, Chosen, Different
<1>4. Traced(<<>>, <<>>, <<>>)  BY DEF Traced
<1>5. Reading' /\ Looking'  BY <1>1, <1>4 DEF Reading, Looking
<1> QED  BY <1>2, <1>3, <1>5 DEF IInv

(* The answer that is a list.                                              *)
LEMMA AnswerListKept == ASSUME IInv, AnswerList PROVE IInv'
<1>1. /\ pc = "ask" /\ pc' = "token" /\ out' = <<>> /\ available' = available
      /\ wanted' = <<>> /\ pos' = 1 /\ said' = <<>>
  BY DEF AnswerList, machineVars
<1>2. Values' /\ Machine'
  BY <1>1 DEF IInv, Values, Machine, Different, Numbered
<1>3. Chosen'  BY <1>1 DEF Chosen
<1>4. Traced(<<>>, <<>>, <<>>)  BY DEF Traced
<1>5. Reading' /\ Looking'  BY <1>1, <1>4 DEF Reading, Looking
<1> QED  BY <1>2, <1>3, <1>5 DEF IInv

(* A rejected answer leaves the vector as far as it was filled.            *)
LEMMA RejectKept ==
    ASSUME IInv, Reject, pc # "refused", wanted' = wanted, pos' = pos, out' = out,
           available' = available, said' \in Seq(Tokens)
    PROVE  IInv'
<1>1. pc' \in {"refused", "ask"}  BY DEF Reject
<1>2. Values' /\ Machine'
  BY <1>1 DEF IInv, Values, Machine, Different, Numbered
<1>3. Chosen'  BY DEF IInv, Chosen
<1>4. Reading' /\ Looking'  BY <1>1 DEF Reading, Looking
<1> QED  BY <1>2, <1>3, <1>4 DEF IInv

(* One token is read, or the answer rejected.                              *)
LEMMA ReadTokenKept ==
    ASSUME IInv, NEW token \in Tokens, ReadToken(token) PROVE IInv'
<1>1. /\ pc = "token" /\ said' = Append(said, token) /\ said \in Seq(Tokens)
      /\ wanted \in Seq(Nat)
      /\ UNCHANGED <<available, pos, out>>
  BY DEF ReadToken, machineVars, IInv, Values
<1>2. CASE ~Acceptable(token)
  <2>1. Reject /\ wanted' = wanted  BY <1>2 DEF ReadToken
  <2>2. said' \in Seq(Tokens)  BY <1>1
  <2> QED  BY <1>1, <2>1, <2>2, RejectKept
<1>3. CASE Acceptable(token)
  <2> DEFINE more == wanted \o [i \in 1..(High(token) - Low(token) + 1) |-> Low(token) + i - 1]
  <2>1. wanted' = more /\ pc' = "token"  BY <1>1, <1>3 DEF ReadToken
  <2>2. PICK tok : Traced(said, wanted, tok)  BY <1>1 DEF IInv, Reading
  <2>3. more \in Seq(Nat) /\ \E t : Traced(Append(said, token), more, t)
    BY <1>1, <1>3, <2>2, TraceToken
  <2> HIDE DEF more
  <2>4. Values' /\ Machine'
    BY <1>1, <2>1, <2>3 DEF IInv, Values, Machine, Different, Numbered
  <2>5. Chosen'  BY <1>1 DEF IInv, Chosen
  <2>6. ASSUME NEW k \in DOMAIN said' PROVE Acceptable(said'[k])
    BY <1>1, <1>3 DEF IInv, Reading
  <2>7. Reading'
    BY <1>1, <2>1, <2>3, <2>6 DEF IInv, Reading, Acceptable, Parsed, Low, High, strtol
  <2>8. Looking'  BY <2>1 DEF Looking
  <2> QED  BY <2>4, <2>5, <2>7, <2>8 DEF IInv
<1> QED  BY <1>2, <1>3

(* The list is read to its end.                                            *)
LEMMA EndOfListKept == ASSUME IInv, EndOfList PROVE IInv'
<1>1. pc = "token" /\ UNCHANGED <<available, wanted, pos, out, said>> /\ said \in Seq(Tokens)
  BY DEF EndOfList, machineVars, IInv, Values
<1>2. CASE wanted = <<>>  BY <1>1, <1>2, RejectKept DEF EndOfList
<1>3. CASE wanted # <<>>
  <2>1. pc' = "lookup"  BY <1>3 DEF EndOfList
  <2>2. Values' /\ Machine'
    BY <1>1, <2>1 DEF IInv, Values, Machine, Different, Numbered
  <2>3. Chosen'  BY <1>1 DEF IInv, Chosen
  <2>4. out = <<>> /\ pos = 1 /\ Len(wanted) \in Nat  BY <1>1 DEF IInv, Reading, Values
  <2>5. Reading'  BY <1>1, <1>3, <2>1, <2>4 DEF IInv, Reading
  <2>6. LookedUp(wanted, 0, <<>>, <<>>)  BY DEF LookedUp
  <2>7. Looking'  BY <1>1, <2>1, <2>4, <2>6 DEF Looking
  <2> QED  BY <2>2, <2>3, <2>5, <2>7 DEF IInv
<1> QED  BY <1>2, <1>3

(* The search finds the one core that has the number.                      *)
LEMMA FoundOne ==
    ASSUME IInv, NEW n, Found(n) # {}
    PROVE  LET found == CHOOSE k \in Found(n) : \A j \in Found(n) : k <= j
           IN  found \in DOMAIN available /\ available[found].index = n
<1>1. PICK k \in Found(n) : TRUE  OBVIOUS
<1>2. \A j \in Found(n) : j = k  BY DEF IInv, Machine, Different, Found
<1>3. k \in Nat  BY DEF Found, IInv, Values
<1>4. \A j \in Found(n) : k <= j  BY <1>2, <1>3
<1> QED  BY <1>4 DEF Found

(* One number is looked up, or the answer rejected.                        *)
LEMMA LookUpKept == ASSUME IInv, LookUp PROVE IInv'
<1>1. /\ pc = "lookup" /\ pos <= Len(wanted) /\ UNCHANGED <<available, wanted, said>>
      /\ said \in Seq(Tokens) /\ wanted \in Seq(Nat) /\ pos \in Nat \ {0}
      /\ out \in Seq(CpuInfos) /\ available \in Seq(CpuInfos)
  BY DEF LookUp, machineVars, IInv, Values
<1>2. CASE Found(wanted[pos]) = {}  BY <1>1, <1>2, RejectKept DEF LookUp
<1>3. CASE Found(wanted[pos]) # {}
  <2> DEFINE at0 == CHOOSE k \in Found(wanted[pos]) : \A j \in Found(wanted[pos]) : k <= j
             found == available[at0]
  <2>1. at0 \in DOMAIN available /\ found.index = wanted[pos]
    BY <1>3, FoundOne
  <2>2. /\ out' = IF \E i \in DOMAIN out : out[i].index = wanted[pos]
                    THEN out ELSE Append(out, found)
        /\ pos' = pos + 1 /\ pc' = pc
    BY <1>3 DEF LookUp
  <2> HIDE DEF at0
  <2>3. found \in CpuInfos  BY <1>1, <2>1
  <2>4. PICK at : LookedUp(wanted, pos - 1, out, at)  BY <1>1 DEF IInv, Looking
  <2>5. \E a : LookedUp(wanted, pos, out', a)
    <3>1. pos - 1 \in Nat /\ (pos - 1) + 1 = pos  BY <1>1
    <3> HIDE DEF found
    <3> QED  BY <1>1, <2>1, <2>2, <2>3, <2>4, <3>1, LookUpOne
  <2>6. out' \in Seq(CpuInfos)  BY <1>1, <2>2, <2>3
  <2>7. Values' /\ Machine'
    BY <1>1, <2>2, <2>6 DEF IInv, Values, Machine, Different, Numbered
  <2>8. Chosen'
    <3>1. CASE \E i \in DOMAIN out : out[i].index = wanted[pos]
      BY <1>1, <2>2, <3>1 DEF IInv, Chosen
    <3>2. CASE ~\E i \in DOMAIN out : out[i].index = wanted[pos]
      <4> DEFINE n == Len(out)
      <4>1. out' = Append(out, found) /\ n \in Nat /\ DOMAIN out = 1..n
        BY <1>1, <2>2, <3>2
      <4> HIDE DEF found
      <4>2. /\ DOMAIN out' = DOMAIN out \cup {n + 1} /\ out'[n + 1] = found
            /\ \A i \in DOMAIN out : out'[i] = out[i]
        BY <1>1, <4>1
      <4>3. \A i \in DOMAIN out : out[i].index # found.index  BY <2>1, <3>2
      <4>4. \A i \in DOMAIN out' : \E k \in DOMAIN available' : out'[i] = available'[k]
        <5>1. found = available[at0]  BY DEF found
        <5> QED  BY <1>1, <2>1, <4>2, <5>1 DEF IInv, Chosen
      <4>5. \A i, j \in DOMAIN out' : i # j => out'[i].index # out'[j].index
        BY <4>2, <4>3 DEF IInv, Chosen
      <4> QED  BY <4>4, <4>5 DEF Chosen
    <3> QED  BY <3>1, <3>2
  <2>9. Reading'
    <3>1. pos' <= Len(wanted) + 1  BY <1>1, <2>2
    <3> QED  BY <1>1, <2>2, <3>1 DEF IInv, Reading
  <2>10. Looking'
    <3>1. pos' - 1 = pos  BY <1>1, <2>2
    <3> QED  BY <1>1, <2>2, <2>5, <3>1 DEF Looking
  <2> QED  BY <2>7, <2>8, <2>9, <2>10 DEF IInv
<1> QED  BY <1>2, <1>3

(* Every number has been looked up.                                        *)
LEMMA AllLookedUpKept == ASSUME IInv, AllLookedUp PROVE IInv'
<1>1. /\ pc = "lookup" /\ pc' = "selected" /\ pos > Len(wanted)
      /\ UNCHANGED <<available, wanted, pos, out, said>>
  BY DEF AllLookedUp, machineVars
<1>2. Values' /\ Machine'
  BY <1>1 DEF IInv, Values, Machine, Different, Numbered
<1>3. Chosen'  BY <1>1 DEF IInv, Chosen
<1>4. Reading'  BY <1>1 DEF IInv, Reading
<1>5. pos - 1 = Len(wanted) /\ wanted # <<>>
  <2>1. pos \in Nat /\ Len(wanted) \in Nat  BY DEF IInv, Values
  <2> QED  BY <1>1, <2>1 DEF IInv, Reading
<1>6. Looking'  BY <1>1, <1>5 DEF IInv, Looking
<1> QED  BY <1>2, <1>3, <1>4, <1>6 DEF IInv

(* Every step keeps the invariant.                                         *)
LEMMA StepKept == IInv /\ [Next]_vars => IInv'
<1> SUFFICES ASSUME IInv, [Next]_vars PROVE IInv'  OBVIOUS
<1>1. CASE UNCHANGED vars
  <2>1. UNCHANGED <<available, pc, wanted, pos, out, said>>  BY <1>1 DEF vars
  <2>2. Values' /\ Machine'  BY <2>1 DEF IInv, Values, Machine, Different, Numbered
  <2>3. Chosen' /\ Reading' /\ Looking'  BY <2>1 DEF IInv, Chosen, Reading, Looking
  <2> QED  BY <2>2, <2>3 DEF IInv
<1> QED
  BY <1>1, AnswerAllKept, AnswerListKept, ReadTokenKept, EndOfListKept, LookUpKept,
     AllLookedUpKept DEF Next

(* Whatever was typed, and however often it was rejected before: the sweep *)
(* gets the cores the accepted answer mentions, each once, in the order    *)
(* they are first mentioned, and only cores of this machine (lines         *)
(* 829-933).                                                               *)
THEOREM SelectionIsAlwaysTheAnswer == Spec => []SelectionIsTheAnswer
<1>1. IInv => SelectionIsTheAnswer
  <2> SUFFICES ASSUME IInv, pc = "selected"
               PROVE  /\ ToSet(out) \subseteq ToSet(available)
                      /\ IF said = <<>> THEN out = available ELSE Selects(said, out)
    BY DEF SelectionIsTheAnswer
  <2>1. ToSet(out) \subseteq ToSet(available)  BY DEF IInv, Chosen, ToSet
  <2>2. said \in Seq(Tokens) /\ wanted \in Seq(Nat) /\ out \in Seq(CpuInfos)
    BY DEF IInv, Values
  <2>3. PICK tok : Traced(said, wanted, tok)  BY DEF IInv, Reading
  <2>4. CASE said = <<>>
    <3>1. wanted = <<>>  BY <2>2, <2>3, <2>4 DEF Traced
    <3>2. out = available  BY <3>1 DEF IInv, Looking
    <3> QED  BY <2>1, <2>4, <3>2
  <2>5. CASE said # <<>>
    <3>1. PICK at : LookedUp(wanted, Len(wanted), out, at)  BY <2>5 DEF IInv, Looking
    <3>2. ASSUME NEW k \in DOMAIN said
          PROVE  Acceptable(said[k]) /\ Low(said[k]) \in Int /\ High(said[k]) \in Int
      <4>1. said[k] \in Tokens  BY <2>2
      <4> QED  BY <4>1, TokenNumbers DEF IInv, Reading
    <3>3. Selects(said, out)
      BY <2>2, <2>3, <3>1, <3>2, AccountSelects DEF IInv, Chosen
    <3> QED  BY <2>1, <2>5, <3>3
  <2> QED  BY <2>4, <2>5
<1> QED  BY <1>1, InitKept, StepKept, PTL DEF Spec

(* A selection has a core in it.                                           *)
LEMMA SelectedNotEmpty == ASSUME IInv, pc = "selected" PROVE out # <<>>
<1>1. CASE out = available  BY <1>1 DEF IInv, Machine
<1>2. ASSUME wanted # <<>>, NEW at, LookedUp(wanted, Len(wanted), out, at)
      PROVE  out # <<>>
  <2>1. 1 \in 1..Len(wanted)  BY <1>2 DEF IInv, Values
  <2> QED  BY <1>2, <2>1 DEF LookedUp
<1> QED  BY <1>1, <1>2 DEF IInv, Looking

(* On every machine, with a mask or with processor groups: the selection   *)
(* is not empty and names no processor twice, neither by its number nor by *)
(* its place (platform.cpp:80-114 and 270-294).                            *)
THEOREM SelectedCoresAreAlwaysDifferent == Spec => []SelectedCoresAreDifferent
<1>1. IInv => SelectedCoresAreDifferent
  <2> SUFFICES ASSUME IInv, pc = "selected"
               PROVE  out # <<>> /\ Different(out)
    BY DEF SelectedCoresAreDifferent, Different
  <2>1. out # <<>>  BY SelectedNotEmpty
  <2>2. ASSUME NEW i \in DOMAIN out, NEW j \in DOMAIN out, i # j
        PROVE  /\ out[i].index # out[j].index
               /\ <<out[i].group, out[i].in_group>> # <<out[j].group, out[j].in_group>>
    <3>1. PICK a \in DOMAIN available : out[i] = available[a]  BY DEF IInv, Chosen
    <3>2. PICK b \in DOMAIN available : out[j] = available[b]  BY DEF IInv, Chosen
    <3>3. out[i].index # out[j].index  BY <2>2 DEF IInv, Chosen
    <3>4. a # b  BY <3>1, <3>2, <3>3
    <3> QED  BY <3>1, <3>2, <3>3, <3>4 DEF IInv, Machine, Different, Numbered
  <2> QED  BY <2>1, <2>2 DEF Different
<1> QED  BY <1>1, InitKept, StepKept, PTL DEF Spec

-----------------------------------------------------------------------------
(* The list of the report.                                                 *)

(* Natural numbers are reached one after the other, and a set of them that *)
(* is not empty has a least.                                               *)
NatLess == {p \in Nat \X Nat : p[1] < p[2]}

(* A set of numbers that is not empty has a least one.                     *)
LEMMA LeastNumber ==
    ASSUME NEW T, T \subseteq Nat, T # {} PROVE \E x \in T : \A y \in T : x <= y
<1>1. IsWellFoundedOn(NatLess, Nat)
  BY NatLessThanWellFounded DEF OpToRel, NatLess
<1>2. PICK x \in T : \A y \in T : ~(<<y, x>> \in NatLess)  BY <1>1, WFMin
<1>3. ASSUME NEW y \in T PROVE x <= y
  <2>1. <<y, x>> \in Nat \X Nat /\ <<y, x>> \notin NatLess  BY <1>2
  <2>2. ~(y < x)  BY <2>1 DEF NatLess
  <2> QED  BY <2>2
<1> QED  BY <1>3

(* What holds of 0 and of each next number holds of all.                   *)
LEMMA NumberByNumber ==
    ASSUME NEW T, 0 \in T, \A n \in Nat : n \in T => n + 1 \in T PROVE Nat \subseteq T
<1> SUFFICES ASSUME Nat \ T # {} PROVE FALSE  OBVIOUS
<1>1. PICK x \in Nat \ T : \A y \in Nat \ T : x <= y  BY LeastNumber
<1>2. x # 0  OBVIOUS
<1>3. x - 1 \in Nat /\ (x - 1) + 1 = x  BY <1>2
<1>4. x - 1 \in T  BY <1>1, <1>3
<1> QED  BY <1>3, <1>4

(* A stretch: from its head on, no position is a head, so each number is   *)
(* the one before and one more.                                            *)
LEMMA StretchCounts ==
    ASSUME NEW cpus \in Seq(CpuInfos), NEW i \in DOMAIN cpus, NEW j \in DOMAIN cpus, i <= j,
           \A p \in DOMAIN cpus : i < p /\ p <= j => p \notin Heads(cpus),
           NEW q \in i..j
    PROVE  cpus[q].index = cpus[i].index + (q - i)
<1> DEFINE T == {d \in Nat : i + d <= j => cpus[i + d].index = cpus[i].index + d}
<1>1. DOMAIN cpus = 1..Len(cpus) /\ Len(cpus) \in Nat /\ i \in Nat /\ j \in Nat
  OBVIOUS
<1>2. \A p \in DOMAIN cpus : cpus[p].index \in Nat
  <2>1. \A p \in DOMAIN cpus : cpus[p] \in CpuInfos  BY <1>1
  <2> QED  BY <2>1 DEF CpuInfos
<1>3. 0 \in T  BY <1>1, <1>2
<1>4. ASSUME NEW d \in Nat, d \in T PROVE d + 1 \in T
  <2> SUFFICES ASSUME i + (d + 1) <= j
               PROVE  cpus[i + (d + 1)].index = cpus[i].index + (d + 1)
    OBVIOUS
  <2>1. cpus[i + d].index = cpus[i].index + d  BY <1>1, <1>4
  <2> DEFINE p == i + (d + 1)
  <2>2. p \in DOMAIN cpus /\ i < p /\ p <= j /\ p # 1 /\ p - 1 = i + d  BY <1>1
  <2> HIDE DEF p
  <2>3. p \notin Heads(cpus)  BY <2>2
  <2>4. cpus[p].index = cpus[p - 1].index + 1  BY <2>2, <2>3 DEF Heads
  <2>5. cpus[p].index = (cpus[i].index + d) + 1  BY <2>1, <2>2, <2>4
  <2>6. cpus[i].index \in Nat  BY <1>2
  <2>7. (cpus[i].index + d) + 1 = cpus[i].index + (d + 1)  BY <2>6
  <2> QED  BY <2>5, <2>7 DEF p
<1>5. Nat \subseteq T
  <2> HIDE DEF T
  <2> QED  BY <1>3, <1>4, NumberByNumber
<1>6. q - i \in Nat /\ i + (q - i) = q /\ q <= j  BY <1>1
<1>7. q - i \in T  BY <1>5, <1>6
<1> QED  BY <1>6, <1>7

(* The tokens of the list cut the cores into stretches.                    *)
LEMMA HeadsListed ==
    ASSUME NEW cpus \in Seq(CpuInfos), cpus # <<>>
    PROVE  LET first == InOrder(Heads(cpus), Ascending(Heads(cpus)))
               h == Cardinality(Heads(cpus))
           IN  /\ h \in Nat \ {0} /\ first \in [1..h -> Heads(cpus)]
               /\ Heads(cpus) \subseteq DOMAIN cpus
               /\ first[1] = 1
               /\ \A k, l \in 1..h : k < l => first[k] < first[l]
               /\ \A x \in Heads(cpus) : \E k \in 1..h : first[k] = x
<1> DEFINE H == Heads(cpus)
           first == InOrder(H, Ascending(H))
           h == Cardinality(H)
<1>1. DOMAIN cpus = 1..Len(cpus) /\ Len(cpus) \in Nat \ {0}  OBVIOUS
<1>2. H \subseteq DOMAIN cpus /\ 1 \in H  BY <1>1 DEF Heads
<1> HIDE DEF H
<1>3. IsFiniteSet(DOMAIN cpus)  BY <1>1, FS_Interval
<1>4. IsFiniteSet(H)  BY <1>2, <1>3, FS_Subset
<1>5. H \subseteq Nat  BY <1>1, <1>2
<1>6. TotalOrder(H, Ascending(H))  BY <1>5, AscendingOrders
<1>7. /\ h \in Nat /\ first \in [1..h -> H]
      /\ \A k, l \in 1..h : k < l => <<first[k], first[l]>> \in Ascending(H)
      /\ \A x \in H : \E k \in 1..h : first[k] = x
  BY <1>4, <1>6, InOrderLists
<1> HIDE DEF first, h
<1>8. \A k, l \in 1..h : k < l => first[k] < first[l]  BY <1>7 DEF Ascending
<1>9. PICK k \in 1..h : first[k] = 1  BY <1>2, <1>7
<1>10. h # 0  BY <1>7, <1>9
<1>11. first[1] = 1
  <2>1. 1 \in 1..h /\ first[1] \in 1..Len(cpus)  BY <1>1, <1>2, <1>7, <1>10
  <2>2. CASE k = 1  BY <1>9, <2>2
  <2>3. CASE k # 1
    <3>1. 1 < k  BY <1>7, <2>3
    <3>2. first[1] < first[k]  BY <1>8, <2>1, <3>1
    <3> QED  BY <1>1, <1>9, <2>1, <3>2
  <2> QED  BY <2>2, <2>3
<1> QED  BY <1>2, <1>7, <1>8, <1>10, <1>11 DEF first, h, H

(* The token the report prints for a stretch of cores.                     *)
Stretch(cpus, i, j) ==
    [dash |-> j > i,
     low |-> Number(cpus[i].index),
     high |-> IF j > i THEN Number(cpus[j].index) ELSE Empty]

(* A stretch is a token from its first core to its last.                   *)
LEMMA StretchMentions ==
    ASSUME NEW cpus \in Seq(CpuInfos), Numbered(cpus),
           NEW i \in DOMAIN cpus, NEW j \in DOMAIN cpus, i <= j,
           cpus[j].index = cpus[i].index + (j - i)
    PROVE  LET token == Stretch(cpus, i, j)
           IN  /\ Low(token) = cpus[i].index /\ High(token) = cpus[j].index
               /\ Acceptable(token)
<1> DEFINE token == Stretch(cpus, i, j)
           a == cpus[i].index
           b == cpus[j].index
<1>1. i \in Nat /\ j \in Nat /\ cpus[i] \in CpuInfos /\ cpus[j] \in CpuInfos  OBVIOUS
<1>2. a \in Nat /\ b \in Nat  BY <1>1 DEF CpuInfos
<1>3. a <= k_max_core_index /\ b <= k_max_core_index  BY DEF Numbered
<1>4. b = a + (j - i)  OBVIOUS
<1> HIDE DEF a, b
<1>5. ASSUME NEW n \in Nat, n <= k_max_core_index
      PROVE  strtol(Number(n)) = n /\ Number(n).kind = "number"
  <2>1. Number(n).n = n /\ Number(n).kind = "number"  BY DEF Number
  <2>2. n <= LongMax /\ LongMax \in Nat  BY <1>5, SelectionAssumption
  <2>3. ~(n > LongMax) /\ ~(n < -LongMax - 1)  BY <2>2
  <2> QED  BY <2>1, <2>3 DEF strtol
<1>6. strtol(Number(a)) = a /\ strtol(Number(b)) = b  BY <1>2, <1>3, <1>5
<1>7. Number(a).kind = "number" /\ Number(b).kind = "number"  BY <1>2, <1>3, <1>5
<1>8. token.low = Number(a)  BY DEF Stretch, a
<1>9. CASE j > i
  <2>1. token = [dash |-> TRUE, low |-> Number(a), high |-> Number(b)]
    BY <1>9, Zenon DEF Stretch, a, b
  <2>2. token.dash = TRUE /\ token.high = Number(b)  BY <2>1
  <2> HIDE DEF token
  <2>3. Low(token) = a /\ High(token) = b  BY <1>6, <1>8, <2>2 DEF Low, High
  <2>4. Parsed(token)  BY <1>7, <1>8, <2>2 DEF Parsed
  <2>5. a <= b  BY <1>1, <1>2, <1>4, <1>9
  <2>6. Acceptable(token)  BY <1>2, <1>3, <2>3, <2>4, <2>5 DEF Acceptable
  <2> QED  BY <2>3, <2>6 DEF token, a, b
<1>10. CASE ~(j > i)
  <2>0. (j > i) = FALSE  BY <1>10
  <2>1. token = [dash |-> FALSE, low |-> Number(a), high |-> Empty]
    BY <2>0, Zenon DEF Stretch, a
  <2>2. token.dash = FALSE  BY <2>1
  <2> HIDE DEF token
  <2>3. i = j /\ a = b  BY <1>1, <1>2, <1>4, <1>10
  <2>4. Low(token) = a /\ High(token) = b  BY <1>6, <1>8, <2>2, <2>3 DEF Low, High
  <2>5. Parsed(token)  BY <1>7, <1>8, <2>2 DEF Parsed
  <2>6. a <= b  BY <1>2, <2>3
  <2>7. Acceptable(token)  BY <1>2, <1>3, <2>4, <2>5, <2>6 DEF Acceptable
  <2> QED  BY <2>4, <2>7 DEF token, a, b
<1> QED  BY <1>9, <1>10

(* What the report prints selects the cores it was printed from: every     *)
(* core stands in exactly one stretch, and a stretch mentions its cores.   *)
LEMMA PrintedListSelects ==
    ASSUME NEW cpus \in Seq(CpuInfos), cpus # <<>>, Numbered(cpus),
           \A i, j \in DOMAIN cpus : i # j => cpus[i].index # cpus[j].index
    PROVE  LET list == format_cpu_list(cpus)
           IN  (\A k \in DOMAIN list : Acceptable(list[k])) /\ Selects(list, cpus)
<1> DEFINE H == Heads(cpus)
           first == InOrder(H, Ascending(H))
           h == Cardinality(H)
           size == Len(cpus)
           last == [k \in 1..h |-> IF k = h THEN size ELSE first[k + 1] - 1]
           list == [k \in 1..h |-> Stretch(cpus, first[k], last[k])]
           numbers == [p \in 1..size |-> cpus[p].index]
<1>1. /\ h \in Nat \ {0} /\ first \in [1..h -> H] /\ H \subseteq DOMAIN cpus
      /\ first[1] = 1
      /\ \A k, l \in 1..h : k < l => first[k] < first[l]
      /\ \A x \in H : \E k \in 1..h : first[k] = x
  BY HeadsListed
<1>2. DOMAIN cpus = 1..size /\ size \in Nat \ {0}  OBVIOUS
<1>3. list = format_cpu_list(cpus)
  <2>1. DOMAIN first = 1..h /\ Len(first) = h
    <3> HIDE DEF first, h
    <3>1. DOMAIN first = 1..h  BY <1>1
    <3> QED  BY <1>1, <3>1
  <2> DEFINE lastOf(k) == IF k = Len(first) THEN size ELSE first[k + 1] - 1
  <2>2. \A k \in 1..h : last[k] = lastOf(k)  BY <2>1
  <2>3. format_cpu_list(cpus) = [k \in DOMAIN first |-> Stretch(cpus, first[k], lastOf(k))]
    BY DEF format_cpu_list, Stretch
  <2> HIDE DEF first, h, last, lastOf
  <2> QED  BY <2>1, <2>2, <2>3
<1>4. \A k \in 1..h : last[k] = IF k = h THEN size ELSE first[k + 1] - 1  OBVIOUS
<1>5. \A k \in 1..h : list[k] = Stretch(cpus, first[k], last[k])  OBVIOUS
<1>6. DOMAIN list = 1..h  OBVIOUS
<1>7. list \in Seq({list[k] : k \in 1..h})
  <2>1. list \in [1..h -> {list[k] : k \in 1..h}]  BY <1>6
  <2> HIDE DEF list, h
  <2> QED  BY <1>1, <2>1
<1>8. numbers \in Seq(Nat) /\ DOMAIN numbers = 1..size /\ Len(numbers) = size
  <2>1. \A p \in 1..size : cpus[p] \in CpuInfos  BY <1>2
  <2>2. \A p \in 1..size : cpus[p].index \in Nat  BY <2>1 DEF CpuInfos
  <2>3. numbers \in [1..size -> Nat]  BY <2>2
  <2> HIDE DEF numbers, size
  <2> QED  BY <1>2, <2>3
<1>9. \A p \in 1..size : numbers[p] = cpus[p].index  OBVIOUS
<1> HIDE DEF H, first, h, size, last, list, numbers
(* The bounds of a stretch.                                                *)
<1>10. ASSUME NEW k \in 1..h
       PROVE  first[k] \in 1..size /\ last[k] \in 1..size /\ first[k] <= last[k]
  <2>1. first[k] \in 1..size  BY <1>1, <1>2
  <2>2. CASE k = h  BY <1>2, <1>4, <2>1, <2>2
  <2>3. CASE k # h
    <3>1. k + 1 \in 1..h /\ k < k + 1  BY <1>1, <2>3
    <3>2. first[k + 1] \in 1..size /\ first[k] < first[k + 1]  BY <1>1, <1>2, <3>1
    <3>3. last[k] = first[k + 1] - 1  BY <1>4, <2>3
    <3> QED  BY <1>2, <2>1, <3>2, <3>3
  <2> QED  BY <2>2, <2>3
(* Behind its head and up to its last there is no head.                    *)
<1>11. ASSUME NEW k \in 1..h, NEW p \in 1..size, first[k] < p, p <= last[k], p \in H
       PROVE  FALSE
  <2>1. PICK l \in 1..h : first[l] = p  BY <1>1, <1>11
  <2>2. first[k] \in 1..size /\ first[l] \in 1..size /\ h \in Nat  BY <1>1, <1>10
  <2>3. k < l
    <3>1. ~(l < k)
      <4> SUFFICES ASSUME l < k PROVE FALSE  OBVIOUS
      <4>1. first[l] < first[k]  BY <1>1
      <4> QED  BY <1>2, <1>11, <2>1, <2>2, <4>1
    <3>2. l # k  BY <1>2, <1>11, <2>1, <2>2
    <3> QED  BY <2>2, <3>1, <3>2
  <2>4. k # h /\ k + 1 \in 1..h  BY <2>2, <2>3
  <2>5. last[k] = first[k + 1] - 1 /\ first[k + 1] \in 1..size  BY <1>4, <1>10, <2>4
  <2>6. first[k + 1] <= first[l]
    <3>1. CASE k + 1 = l  BY <2>2, <3>1
    <3>2. CASE k + 1 # l
      <4>1. k + 1 < l  BY <2>2, <2>3, <3>2
      <4>2. first[k + 1] < first[l]  BY <1>1, <2>4, <4>1
      <4> QED  BY <1>2, <2>2, <2>5, <4>2
    <3> QED  BY <3>1, <3>2
  <2> QED  BY <1>2, <1>11, <2>1, <2>2, <2>5, <2>6
<1>12. ASSUME NEW k \in 1..h, NEW q \in first[k]..last[k]
       PROVE  cpus[q].index = cpus[first[k]].index + (q - first[k])
  <2>1. first[k] \in DOMAIN cpus /\ last[k] \in DOMAIN cpus /\ first[k] <= last[k]
    BY <1>2, <1>10
  <2>2. \A p \in DOMAIN cpus : first[k] < p /\ p <= last[k] => p \notin Heads(cpus)
    BY <1>2, <1>11 DEF H
  <2> QED  BY <2>1, <2>2, StretchCounts
<1>13. ASSUME NEW k \in 1..h
       PROVE  /\ Low(list[k]) = cpus[first[k]].index /\ High(list[k]) = cpus[last[k]].index
              /\ Acceptable(list[k])
              /\ Low(list[k]) \in Nat /\ High(list[k]) = Low(list[k]) + (last[k] - first[k])
  <2>1. first[k] \in DOMAIN cpus /\ last[k] \in DOMAIN cpus /\ first[k] <= last[k]
    BY <1>2, <1>10
  <2>2. last[k] \in first[k]..last[k]  BY <1>2, <1>10
  <2>3. cpus[last[k]].index = cpus[first[k]].index + (last[k] - first[k])  BY <1>12, <2>2
  <2>4. /\ Low(list[k]) = cpus[first[k]].index /\ High(list[k]) = cpus[last[k]].index
        /\ Acceptable(list[k])
    BY <1>5, <2>1, <2>3, StretchMentions
  <2>5. numbers[first[k]] \in Nat  BY <1>8, <1>10
  <2>6. cpus[first[k]].index \in Nat  BY <1>9, <1>10, <2>5
  <2> QED  BY <2>3, <2>4, <2>6
(* The stretch of every core.                                              *)
<1>14. ASSUME NEW p \in 1..size PROVE \E k \in 1..h : p \in first[k]..last[k]
  <2> DEFINE T == {k \in 1..h : p <= last[k]}
  <2>1. h \in T /\ T \subseteq Nat
    <3>1. h \in 1..h /\ last[h] = size  BY <1>1, <1>4
    <3> QED  BY <1>1, <1>2, <3>1
  <2>2. PICK k \in T : \A l \in T : k <= l  BY <2>1, LeastNumber
  <2>3. k \in 1..h /\ p <= last[k]  BY <2>2
  <2>4. first[k] <= p
    <3>1. CASE k = 1  BY <1>1, <1>2, <3>1
    <3>2. CASE k # 1
      <4>1. k - 1 \in 1..h /\ k - 1 # h /\ (k - 1) + 1 = k  BY <1>1, <2>3, <3>2
      <4>2. ~(p <= last[k - 1])
        <5> SUFFICES ASSUME p <= last[k - 1] PROVE FALSE  OBVIOUS
        <5>1. k - 1 \in T  BY <4>1
        <5> QED  BY <1>1, <2>2, <2>3, <5>1
      <4>3. last[k - 1] = first[k] - 1  BY <1>4, <4>1
      <4>4. first[k] \in 1..size  BY <1>10, <2>3
      <4> QED  BY <1>2, <4>2, <4>3, <4>4
    <3> QED  BY <3>1, <3>2
  <2>5. first[k] \in 1..size /\ last[k] \in 1..size  BY <1>10, <2>3
  <2> QED  BY <1>2, <2>3, <2>4, <2>5
<1> DEFINE tok == [p \in 1..size |-> CHOOSE k \in 1..h : p \in first[k]..last[k]]
           at == [p \in 1..size |-> p]
<1>15. \A p \in 1..size : tok[p] \in 1..h /\ p \in first[tok[p]]..last[tok[p]]  BY <1>14
<1>16. tok \in [1..size -> 1..h]  BY <1>15
<1>17. at \in [1..size -> 1..size] /\ \A p \in 1..size : at[p] = p  OBVIOUS
<1> HIDE DEF tok, at
<1>18. ASSUME NEW k \in 1..h, NEW l \in 1..h, k < l PROVE last[k] < first[l]
  <2>1. k # h /\ k + 1 \in 1..h  BY <1>1, <1>18
  <2>2. last[k] = first[k + 1] - 1 /\ first[k + 1] \in 1..size /\ first[l] \in 1..size
    BY <1>4, <1>10, <2>1
  <2>3. CASE k + 1 = l  BY <1>2, <2>2, <2>3
  <2>4. CASE k + 1 # l
    <3>1. k + 1 < l  BY <1>1, <1>18, <2>4
    <3>2. first[k + 1] < first[l]  BY <1>1, <2>1, <3>1
    <3> QED  BY <1>2, <2>2, <3>2
  <2> QED  BY <2>3, <2>4
<1>19. ASSUME NEW p \in 1..size, NEW k \in 1..h, p \in first[k]..last[k] PROVE tok[p] = k
  <2>1. /\ tok[p] \in 1..h /\ p \in first[tok[p]]..last[tok[p]] /\ p \in Nat
        /\ first[k] \in 1..size /\ last[k] \in 1..size
        /\ first[tok[p]] \in 1..size /\ last[tok[p]] \in 1..size
    BY <1>2, <1>10, <1>15
  <2>2. ~(tok[p] < k)
    <3> SUFFICES ASSUME tok[p] < k PROVE FALSE  OBVIOUS
    <3>1. last[tok[p]] < first[k]  BY <1>18, <2>1
    <3> QED  BY <1>2, <1>19, <2>1, <3>1
  <2>3. ~(k < tok[p])
    <3> SUFFICES ASSUME k < tok[p] PROVE FALSE  OBVIOUS
    <3>1. last[k] < first[tok[p]]  BY <1>18, <2>1
    <3> QED  BY <1>2, <1>19, <2>1, <3>1
  <2> QED  BY <1>1, <2>1, <2>2, <2>3
<1>20. ASSUME NEW k \in 1..h, NEW q \in first[k]..last[k]
       PROVE  /\ q \in 1..size /\ tok[q] = k
              /\ numbers[q] = Low(list[k]) + (q - first[k])
  <2>1. q \in 1..size  BY <1>2, <1>10
  <2>2. cpus[q].index = cpus[first[k]].index + (q - first[k])  BY <1>12
  <2> QED  BY <1>9, <1>13, <1>19, <2>1, <2>2
<1>21. Traced(list, numbers, tok)
  <2>1. ASSUME NEW p \in 1..size PROVE numbers[p] \in Mentions(list[tok[p]])
    <3>1. tok[p] \in 1..h /\ p \in first[tok[p]]..last[tok[p]]  BY <1>15
    <3>2. numbers[p] = Low(list[tok[p]]) + (p - first[tok[p]])  BY <1>20, <3>1
    <3>3. /\ Low(list[tok[p]]) \in Nat
          /\ High(list[tok[p]]) = Low(list[tok[p]]) + (last[tok[p]] - first[tok[p]])
      BY <1>13, <3>1
    <3>4. first[tok[p]] \in 1..size /\ last[tok[p]] \in 1..size  BY <1>10, <3>1
    <3> DEFINE L == Low(list[tok[p]])
               U == High(list[tok[p]])
               f == first[tok[p]]
               t == last[tok[p]]
    <3>5. L \in Nat /\ f \in Nat /\ t \in Nat /\ U = L + (t - f) /\ p \in f..t
          /\ numbers[p] = L + (p - f)
      BY <1>2, <3>1, <3>2, <3>3, <3>4
    <3> HIDE DEF L, U, f, t
    <3>6. numbers[p] \in L..U  BY <3>5
    <3> QED  BY <3>6 DEF Mentions, L, U
  <2>2. ASSUME NEW p \in 1..size, NEW q \in 1..size, p < q
        PROVE  tok[p] < tok[q] \/ (tok[p] = tok[q] /\ numbers[p] < numbers[q])
    <3>1. /\ tok[p] \in 1..h /\ p \in first[tok[p]]..last[tok[p]]
          /\ tok[q] \in 1..h /\ q \in first[tok[q]]..last[tok[q]]
      BY <1>15
    <3>2. CASE tok[q] < tok[p]
      <4>1. last[tok[q]] < first[tok[p]]  BY <1>18, <3>1, <3>2
      <4>2. last[tok[q]] \in 1..size /\ first[tok[p]] \in 1..size  BY <1>10, <3>1
      <4> QED  BY <1>2, <2>2, <3>1, <4>1, <4>2
    <3>3. CASE tok[p] = tok[q]
      <4> DEFINE k == tok[p]
      <4>1. numbers[p] = Low(list[k]) + (p - first[k]) /\ numbers[q] = Low(list[k]) + (q - first[k])
        BY <1>20, <3>1, <3>3
      <4>2. Low(list[k]) \in Nat /\ first[k] \in 1..size  BY <1>10, <1>13, <3>1
      <4>3. numbers[p] < numbers[q]  BY <1>2, <2>2, <4>1, <4>2
      <4> QED  BY <3>3, <4>3
    <3> QED  BY <1>1, <3>1, <3>2, <3>3
  <2>3. ASSUME NEW k \in 1..h, NEW n \in Mentions(list[k])
        PROVE  \E p \in 1..size : numbers[p] = n /\ tok[p] = k
    <3> DEFINE L == Low(list[k])
               U == High(list[k])
               f == first[k]
               t == last[k]
               p == f + (n - L)
    <3>1. n \in L..U  BY DEF Mentions
    <3>2. L \in Nat /\ f \in Nat /\ t \in Nat /\ U = L + (t - f)
      BY <1>2, <1>10, <1>13
    <3> HIDE DEF L, U, f, t
    <3>3. p \in f..t /\ L + (p - f) = n  BY <3>1, <3>2
    <3> HIDE DEF p
    <3>4. p \in 1..size /\ tok[p] = k /\ numbers[p] = L + (p - f)  BY <1>20, <3>3 DEF f, t, L
    <3> QED  BY <3>3, <3>4
  <2>4. tok \in [DOMAIN numbers -> DOMAIN list]  BY <1>6, <1>8, <1>16
  <2>5. \A p \in DOMAIN numbers : numbers[p] \in Mentions(list[tok[p]])  BY <1>8, <2>1
  <2>6. \A p, q \in DOMAIN numbers : p < q =>
          tok[p] < tok[q] \/ (tok[p] = tok[q] /\ numbers[p] < numbers[q])
    BY <1>8, <2>2
  <2>7. \A k \in DOMAIN list : \A n \in Mentions(list[k]) :
          \E p \in DOMAIN numbers : numbers[p] = n /\ tok[p] = k
    BY <1>6, <1>8, <2>3
  <2> QED  BY <2>4, <2>5, <2>6, <2>7 DEF Traced
<1>22. LookedUp(numbers, size, cpus, at)
  <2>1. ASSUME NEW p \in 1..size
        PROVE  \E i \in DOMAIN cpus : cpus[i].index = numbers[p] /\ at[i] <= p
    <3>1. at[p] <= p  BY <1>2, <1>17
    <3> QED  BY <1>2, <1>9, <3>1
  <2> QED  BY <1>2, <1>9, <1>17, <2>1 DEF LookedUp
<1>23. \A k \in DOMAIN list : /\ Acceptable(list[k])
                              /\ Low(list[k]) \in Int /\ High(list[k]) \in Int
  <2> SUFFICES ASSUME NEW k \in 1..h
               PROVE  Acceptable(list[k]) /\ Low(list[k]) \in Int /\ High(list[k]) \in Int
    BY <1>6
  <2>1. first[k] \in Nat /\ last[k] \in Nat  BY <1>2, <1>10
  <2> QED  BY <1>13, <2>1
<1>24. Selects(list, cpus)  BY <1>7, <1>8, <1>21, <1>22, <1>23, AccountSelects
<1> QED  BY <1>3, <1>23, <1>24

(* On every machine and after every answer: the list the report prints is  *)
(* accepted as an answer and selects the same cores in the same order      *)
(* (format_cpu_list, lines 935-957).                                       *)
THEOREM ReportedListAlwaysRoundTrips == Spec => []ReportedListRoundTrips
<1>1. IInv => ReportedListRoundTrips
  <2> SUFFICES ASSUME IInv, pc = "selected"
               PROVE  LET list == format_cpu_list(out)
                      IN  (\A k \in DOMAIN list : Acceptable(list[k])) /\ Selects(list, out)
    BY DEF ReportedListRoundTrips
  <2>1. out # <<>>  BY SelectedNotEmpty
  <2>2. out \in Seq(CpuInfos)  BY DEF IInv, Values
  <2>3. Numbered(out)  BY DEF IInv, Machine, Chosen, Numbered
  <2>4. \A i, j \in DOMAIN out : i # j => out[i].index # out[j].index  BY DEF IInv, Chosen
  <2> QED  BY <2>1, <2>2, <2>3, <2>4, PrintedListSelects
<1> QED  BY <1>1, InitKept, StepKept, PTL DEF Spec

=============================================================================
