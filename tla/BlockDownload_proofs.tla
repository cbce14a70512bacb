------------------------ MODULE BlockDownload_proofs ------------------------
(***************************************************************************)
(* Proofs about OrphanPool and about BlockDownload, which adds the queues  *)
(* of the peers to it, for every set of blocks and peers, every tree,      *)
(* claimed heights and limits.                                             *)
(***************************************************************************)
EXTENDS BlockDownload, FiniteSetTheorems, SequenceTheorems, WellFoundedInduction, TLAPS

-----------------------------------------------------------------------------
(* The orphans.  The invariants checked by TLC are inductive together:     *)
(* that PruneOrphanBlocks always finds a victim rests on the bound (a      *)
(* block that leaves makes room, so that the container by height may be    *)
(* empty below the limit only) and on the agreement of the containers.     *)

IInv ==
    /\ TypeOK
    /\ NoDanglingOrphan
    /\ OrphansBounded
    /\ PruneHasChoice
    /\ StrandedOnlyByFailure

(* A set of the comparator does not become empty by an insertion.          *)
LEMMA InsertedFact ==
    ASSUME NEW set \in SUBSET Block, NEW b \in Block
    PROVE  /\ Inserted(set, b) # {}
           /\ Inserted(set, b) \subseteq set \cup {b}
  BY DEF Inserted

(* Cardinalities of the set of orphans are natural numbers.                *)
LEMMA OrphansFinite ==
    ASSUME NEW S \in SUBSET Block
    PROVE  IsFiniteSet(S) /\ Cardinality(S) \in Nat
  BY BlockAssumption, FS_Subset, FS_CardinalityType

(* The node starts without orphans.                                        *)
LEMMA InitIInv == Init => IInv
<1> SUFFICES ASSUME Init PROVE IInv
  OBVIOUS
<1>1. Cardinality({}) = 0
  BY FS_EmptySet
<1>2. TypeOK /\ NoDanglingOrphan /\ StrandedOnlyByFailure
  BY DEF Init, TypeOK, NoDanglingOrphan, StrandedOnlyByFailure, Known
<1>3. OrphansBounded /\ PruneHasChoice
  BY <1>1, MaxOrphansAssumption DEF Init, OrphansBounded, PruneHasChoice
<1> QED
  BY <1>2, <1>3 DEF IInv

(* An orphan is held, in place of another one at the limit.                *)
LEMMA HoldOrphanStep ==
    ASSUME IInv, NEW b \in Block, HoldOrphan(b)
    PROVE  IInv'
<1> USE DEF IInv
<1>1. b \notin orphans /\ Prev[b] \notin index
  BY DEF HoldOrphan, CanArrive
<1>2. IsFiniteSet(orphans) /\ Cardinality(orphans) \in Nat /\ byPrev = orphans
  BY OrphansFinite DEF TypeOK, NoDanglingOrphan
<1>3. CASE ~IsFull
  <2>1. /\ orphans' = orphans \cup {b}
        /\ byPrev' = byPrev \cup {b}
        /\ ordered' = Inserted(ordered, b)
        /\ UNCHANGED <<index, pending, failed>>
    BY <1>3 DEF HoldOrphan
  <2>2. Cardinality(orphans') = Cardinality(orphans) + 1
    BY <1>1, <1>2, <2>1, FS_AddElement
  <2>3. TypeOK' /\ NoDanglingOrphan' /\ ordered' # {}
    BY <2>1, InsertedFact DEF TypeOK, NoDanglingOrphan
  <2>4. OrphansBounded' /\ PruneHasChoice'
    BY <1>2, <1>3, <2>2, <2>3, MaxOrphansAssumption
       DEF IsFull, OrphansBounded, PruneHasChoice
  <2>5. StrandedOnlyByFailure'
    BY <1>1, <2>1 DEF StrandedOnlyByFailure
  <2> QED
    BY <2>3, <2>4, <2>5
<1>4. CASE IsFull
  <2>1. PICK top \in ordered : Prune(top, b)
    BY <1>4 DEF HoldOrphan
  <2>2. /\ orphans' = (orphans \ {top}) \cup {b}
        /\ byPrev' = (byPrev \ {top}) \cup {b}
        /\ ordered' = Inserted(Erased(ordered, {top}), b)
        /\ UNCHANGED <<index, pending, failed>>
    BY <2>1 DEF HoldOrphan, Prune
  <2>3. top \in orphans
    BY DEF NoDanglingOrphan
  <2>4. Erased(ordered, {top}) \subseteq ordered \ {top}
    BY DEF Erased, Equivalent
  <2>5. TypeOK' /\ NoDanglingOrphan' /\ ordered' # {}
    <3>1. Erased(ordered, {top}) \in SUBSET Block
      BY <2>4 DEF TypeOK
    <3>2. ordered' # {} /\ ordered' \subseteq (ordered \ {top}) \cup {b}
      BY <2>2, <2>4, <3>1, InsertedFact
    <3> QED
      BY <2>2, <3>2 DEF TypeOK, NoDanglingOrphan
  <2>6. Cardinality(orphans') = Cardinality(orphans)
    <3>1. /\ IsFiniteSet(orphans \ {top})
          /\ Cardinality(orphans \ {top}) = Cardinality(orphans) - 1
      BY <1>2, <2>3, FS_RemoveElement
    <3>2. Cardinality(orphans') = Cardinality(orphans \ {top}) + 1
      BY <1>1, <2>2, <3>1, FS_AddElement
    <3> QED
      BY <1>2, <3>1, <3>2
  <2>7. OrphansBounded' /\ PruneHasChoice'
    BY <2>5, <2>6 DEF OrphansBounded, PruneHasChoice
  <2>8. StrandedOnlyByFailure'
    BY <1>1, <2>2 DEF StrandedOnlyByFailure
  <2> QED
    BY <2>5, <2>7, <2>8
<1> QED
  BY <1>3, <1>4

(* A block enters the index; nothing was waiting in the queue.             *)
LEMMA AcceptBlockStep ==
    ASSUME IInv, NEW b \in Block, AcceptBlock(b)
    PROVE  IInv'
<1> USE DEF IInv
<1>1. /\ index' = index \cup {b}
      /\ pending = {}
      /\ pending' \subseteq {b}
      /\ failed' \subseteq failed \cup {b}
      /\ b \in pending' \cup failed'
      /\ failed \subseteq failed'
      /\ UNCHANGED <<orphans, byPrev, ordered>>
  BY DEF AcceptBlock, CanArrive
<1>2. TypeOK'
  BY <1>1 DEF TypeOK, Known
<1>3. NoDanglingOrphan' /\ OrphansBounded' /\ PruneHasChoice'
  BY <1>1 DEF NoDanglingOrphan, OrphansBounded, PruneHasChoice
<1>4. StrandedOnlyByFailure'
  BY <1>1 DEF StrandedOnlyByFailure
<1> QED
  BY <1>2, <1>3, <1>4

(* The orphans that waited for p leave the three containers.               *)
LEMMA ResolveStep ==
    ASSUME IInv, NEW p \in pending, Resolve(p)
    PROVE  IInv'
<1> USE DEF IInv
<1> DEFINE children == {c \in byPrev : Prev[c] = p}
<1>1. PICK recorded \in SUBSET {c \in children : HeightMatches(c)} :
        \E accepted \in SUBSET recorded :
           /\ index' = index \cup recorded
           /\ failed' = failed \cup (recorded \ accepted)
           /\ pending' = (pending \ {p}) \cup accepted
           /\ orphans' = orphans \ children
           /\ byPrev' = byPrev \ children
           /\ ordered' = Erased(ordered, children)
  BY DEF Resolve
<1>2. PICK accepted \in SUBSET recorded :
        /\ index' = index \cup recorded
        /\ failed' = failed \cup (recorded \ accepted)
        /\ pending' = (pending \ {p}) \cup accepted
        /\ orphans' = orphans \ children
        /\ byPrev' = byPrev \ children
        /\ ordered' = Erased(ordered, children)
  BY <1>1
<1>3. children \subseteq orphans /\ byPrev = orphans
  BY DEF NoDanglingOrphan
<1>4. TypeOK'
  BY <1>2, <1>3 DEF TypeOK, Erased, Known
<1>5. ordered' \subseteq ordered \ children
  BY <1>2 DEF Erased, Equivalent
<1>6. NoDanglingOrphan'
  BY <1>2, <1>3, <1>5 DEF NoDanglingOrphan
<1>7. OrphansBounded' /\ PruneHasChoice'
  <2>1. /\ IsFiniteSet(orphans)
        /\ Cardinality(orphans) \in Nat
        /\ Cardinality(orphans') \in Nat
    BY <1>4, OrphansFinite DEF TypeOK
  <2>2. CASE children = {}
    <3>1. orphans' = orphans /\ byPrev' = byPrev /\ ordered' = ordered
      BY <1>2, <2>2 DEF Erased
    <3> QED
      BY <3>1 DEF OrphansBounded, PruneHasChoice
  <2>3. CASE children # {}
    <3>1. orphans' \in SUBSET orphans /\ orphans' # orphans
      BY <1>2, <1>3, <2>3
    <3>2. Cardinality(orphans') < Cardinality(orphans)
      <4>1. /\ Cardinality(orphans') <= Cardinality(orphans)
            /\ Cardinality(orphans') # Cardinality(orphans)
        BY <2>1, <3>1, FS_Subset
      <4> QED
        BY <2>1, <4>1
    <3>3. byPrev' = orphans'
      BY <1>6 DEF NoDanglingOrphan
    <3> QED
      BY <2>1, <3>2, <3>3, MaxOrphansAssumption DEF OrphansBounded, PruneHasChoice
  <2> QED
    BY <2>2, <2>3
<1>8. StrandedOnlyByFailure'
  <2> SUFFICES ASSUME NEW b \in orphans', Prev[b] \in index'
               PROVE  Prev[b] \in pending' \cup failed'
    BY DEF StrandedOnlyByFailure
  <2>1. b \in orphans /\ Prev[b] # p
    BY <1>2, <1>3
  <2>2. CASE Prev[b] \in index
    BY <1>2, <2>1, <2>2 DEF StrandedOnlyByFailure
  <2>3. CASE Prev[b] \in recorded
    BY <1>2, <2>3
  <2> QED
    BY <1>2, <2>2, <2>3
<1> QED
  BY <1>4, <1>6, <1>7, <1>8

(* A new process holds no orphans.                                         *)
LEMMA RestartStep ==
    ASSUME IInv, Restart
    PROVE  IInv'
<1> USE DEF IInv
<1>1. Cardinality({}) = 0
  BY FS_EmptySet
<1>2. TypeOK' /\ NoDanglingOrphan' /\ StrandedOnlyByFailure'
  BY DEF Restart, TypeOK, NoDanglingOrphan, StrandedOnlyByFailure
<1>3. OrphansBounded' /\ PruneHasChoice'
  BY <1>1, MaxOrphansAssumption DEF Restart, OrphansBounded, PruneHasChoice
<1> QED
  BY <1>2, <1>3

(* Every step of ProcessBlock preserves it. *)
LEMMA PoolStep ==
    ASSUME IInv, [Next]_vars
    PROVE  IInv'
<1>1. CASE UNCHANGED vars
  BY <1>1 DEF vars, IInv, TypeOK, NoDanglingOrphan, OrphansBounded,
              PruneHasChoice, StrandedOnlyByFailure
<1>2. ASSUME NEW b \in Block, HoldOrphan(b) PROVE IInv'
  BY <1>2, HoldOrphanStep
<1>3. ASSUME NEW b \in Block, AcceptBlock(b) PROVE IInv'
  BY <1>3, AcceptBlockStep
<1>4. ASSUME NEW p \in pending, Resolve(p) PROVE IInv'
  BY <1>4, ResolveStep
<1>5. CASE Restart
  BY <1>5, RestartStep
<1> QED
  BY <1>1, <1>2, <1>3, <1>4, <1>5 DEF Next

(* IInv holds in every reachable state.                                    *)
THEOREM Invariance == Spec => []IInv
<1>1. IInv /\ [Next]_vars => IInv'
  BY PoolStep
<1> QED
  BY <1>1, InitIInv, PTL DEF Spec

(* The state of the pool keeps its type.                                   *)
THEOREM TypeCorrect == Spec => []TypeOK
<1>1. IInv => TypeOK
  BY DEF IInv
<1> QED
  BY <1>1, Invariance, PTL

(* No pointer of g_setOrphanBlock outlives its orphan, for all heights the *)
(* headers may claim.                                                      *)
THEOREM ContainersAgree == Spec => []NoDanglingOrphan
<1>1. IInv => NoDanglingOrphan
  BY DEF IInv
<1> QED
  BY <1>1, Invariance, PTL

(* At most MAX_ORPHAN_BLOCKS + 1 orphans are held.                         *)
THEOREM BoundedMemory == Spec => []OrphansBounded
<1>1. IInv => OrphansBounded
  BY DEF IInv
<1> QED
  BY <1>1, Invariance, PTL

(* PruneOrphanBlocks never dereferences the end of an empty set.           *)
THEOREM VictimExists == Spec => []PruneHasChoice
<1>1. IInv => PruneHasChoice
  BY DEF IInv
<1> QED
  BY <1>1, Invariance, PTL

(* An orphan waits for a block of the index only if ActivateBestChain      *)
(* failed when that block came.                                            *)
THEOREM OnlyFailureStrands == Spec => []StrandedOnlyByFailure
<1>1. IInv => StrandedOnlyByFailure
  BY DEF IInv
<1> QED
  BY <1>1, Invariance, PTL

-----------------------------------------------------------------------------
(* Every nonempty set of natural numbers has a least element. *)
LEMMA LeastNat ==
    ASSUME NEW T, T \subseteq Nat, T # {}
    PROVE  \E n \in T : \A m \in T : n <= m
<1> DEFINE R == {ss \in Nat \X Nat : ss[1] < ss[2]}
<1>1. IsWellFoundedOn(R, Nat)
  BY NatLessThanWellFounded DEF OpToRel
<1>2. R = {ss \in Nat \X Nat : ss[1] < ss[2]}
  OBVIOUS
<1> HIDE DEF R
<1>3. PICK n \in T : \A m \in T : <<m, n>> \notin R
  BY <1>1, WFMin
<1>4. ASSUME NEW m \in T PROVE n <= m
  <2>1. m \in Nat /\ n \in Nat /\ <<m, n>> \notin R
    BY <1>3
  <2>2. ~(m < n)
    BY <1>2, <2>1
  <2> QED
    BY <2>1, <2>2
<1> QED
  BY <1>4

(* Induction, as a fact about the set of the numbers that have a property. *)
LEMMA SetInduction ==
    ASSUME NEW S, 0 \in S, \A n \in Nat : n \in S => n + 1 \in S
    PROVE  Nat \subseteq S
<1> SUFFICES ASSUME Nat \ S # {} PROVE FALSE
  OBVIOUS
<1>1. PICK n \in Nat \ S : \A m \in Nat \ S : n <= m
  BY LeastNat
<1>2. n # 0 /\ n - 1 \in Nat
  BY <1>1
<1>3. n - 1 \in S
  BY <1>1, <1>2
<1> QED
  BY <1>1, <1>2, <1>3

-----------------------------------------------------------------------------
(* Lists and the maps that point into them.                                *)

(* std::list::erase of one element. *)
LEMMA RemovedAt ==
    ASSUME NEW S, NEW s \in Seq(S), NEW i \in 1..Len(s)
    PROVE  /\ RemoveAt(s, i) \in Seq(S)
           /\ Len(RemoveAt(s, i)) = Len(s) - 1
           /\ \A j \in 1..(Len(s) - 1) :
                 RemoveAt(s, i)[j] = IF j < i THEN s[j] ELSE s[j + 1]
<1> DEFINE n == Len(s)
           u == SubSeq(s, 1, i - 1)
           v == SubSeq(s, i + 1, n)
<1>1. n \in Nat /\ i \in 1..n /\ \A j \in 1..n : s[j] \in S
  BY LenProperties, ElementOfSeq
<1>2. u \in Seq(S) /\ Len(u) = i - 1 /\ \A j \in 1..(i - 1) : u[j] = s[j]
  <2>1. 1 \in Int /\ i - 1 \in Int /\ \A j \in 1..(i - 1) : s[j] \in S
    BY <1>1
  <2>2. /\ u \in Seq(S)
        /\ Len(u) = IF 1 <= i - 1 THEN (i - 1) - 1 + 1 ELSE 0
        /\ \A j \in 1..((i - 1) - 1 + 1) : u[j] = s[1 + j - 1]
    BY <2>1, SubSeqProperties
  <2> HIDE DEF n, u
  <2> QED
    BY <1>1, <2>2
<1>3. v \in Seq(S) /\ Len(v) = n - i /\ \A j \in 1..(n - i) : v[j] = s[i + j]
  <2>1. i + 1 \in Int /\ n \in Int /\ \A j \in (i + 1)..n : s[j] \in S
    BY <1>1
  <2>2. /\ v \in Seq(S)
        /\ Len(v) = IF i + 1 <= n THEN n - (i + 1) + 1 ELSE 0
        /\ \A j \in 1..(n - (i + 1) + 1) : v[j] = s[(i + 1) + j - 1]
    BY <2>1, SubSeqProperties
  <2> HIDE DEF n, v
  <2>3. \A j \in 1..(n - i) : j \in 1..(n - (i + 1) + 1) /\ (i + 1) + j - 1 = i + j
    BY <1>1
  <2> QED
    BY <1>1, <2>2, <2>3
<1>4. /\ u \o v \in Seq(S) /\ Len(u \o v) = Len(u) + Len(v)
      /\ \A j \in 1..(Len(u) + Len(v)) :
            (u \o v)[j] = IF j <= Len(u) THEN u[j] ELSE v[j - Len(u)]
  BY <1>2, <1>3, ConcatProperties
<1>5. RemoveAt(s, i) = u \o v
  BY DEF RemoveAt
<1> HIDE DEF n, u, v
<1>6. Len(RemoveAt(s, i)) = n - 1
  BY <1>1, <1>2, <1>3, <1>4, <1>5
<1>7. ASSUME NEW j \in 1..(n - 1)
      PROVE  RemoveAt(s, i)[j] = IF j < i THEN s[j] ELSE s[j + 1]
  <2>1. CASE j < i
    <3>1. j \in 1..(i - 1) /\ j \in 1..(Len(u) + Len(v)) /\ j <= Len(u)
      BY <1>1, <1>2, <1>3, <2>1
    <3> QED
      BY <1>2, <1>4, <1>5, <2>1, <3>1
  <2>2. CASE ~(j < i)
    <3>1. /\ j - Len(u) \in 1..(n - i) /\ j \in 1..(Len(u) + Len(v)) /\ ~(j <= Len(u))
          /\ i + (j - Len(u)) = j + 1
      BY <1>1, <1>2, <1>3, <2>2
    <3>2. v[j - Len(u)] = s[i + (j - Len(u))]
      BY <1>3, <3>1
    <3> QED
      BY <1>4, <1>5, <2>2, <3>1, <3>2
  <2> QED
    BY <2>1, <2>2
<1> QED
  BY <1>4, <1>5, <1>6, <1>7 DEF n

(* The positions of a list, for the two operators that speak of them.      *)
LEMMA ListFacts ==
    ASSUME NEW S, NEW s \in Seq(S)
    PROVE  /\ DOMAIN s = 1..Len(s) /\ Len(s) \in Nat
           /\ \A x : x \in ToSet(s) <=> \E j \in 1..Len(s) : s[j] = x
           /\ ToSet(s) \subseteq S
           /\ IsInjective(s) <=> \A j, k \in 1..Len(s) : s[j] = s[k] => j = k
<1>1. DOMAIN s = 1..Len(s) /\ Len(s) \in Nat /\ \A j \in 1..Len(s) : s[j] \in S
  BY LenProperties, ElementOfSeq
<1> QED
  BY <1>1 DEF ToSet, IsInjective

(* A list without duplicates loses the element and no other. *)
LEMMA RemovedElement ==
    ASSUME NEW S, NEW s \in Seq(S), NEW i \in 1..Len(s), IsInjective(s)
    PROVE  /\ ToSet(RemoveAt(s, i)) = ToSet(s) \ {s[i]}
           /\ IsInjective(RemoveAt(s, i))
<1> DEFINE u == RemoveAt(s, i)
           n == Len(s)
<1>1. /\ u \in Seq(S) /\ Len(u) = n - 1
      /\ \A j \in 1..(n - 1) : u[j] = IF j < i THEN s[j] ELSE s[j + 1]
  BY RemovedAt
<1>2. /\ n \in Nat /\ i \in 1..n
      /\ \A x : x \in ToSet(s) <=> \E j \in 1..n : s[j] = x
      /\ \A j, k \in 1..n : s[j] = s[k] => j = k
  BY ListFacts
<1>3. /\ \A x : x \in ToSet(u) <=> \E j \in 1..Len(u) : u[j] = x
      /\ IsInjective(u) <=> \A j, k \in 1..Len(u) : u[j] = u[k] => j = k
  BY <1>1, ListFacts
<1> HIDE DEF u, n
<1>4. ASSUME NEW j \in 1..(n - 1), NEW k \in 1..(n - 1), u[j] = u[k]
      PROVE  j = k
  <2> DEFINE at(m) == IF m < i THEN m ELSE m + 1
  <2>1. at(j) \in 1..n /\ at(k) \in 1..n /\ u[j] = s[at(j)] /\ u[k] = s[at(k)]
    BY <1>1, <1>2
  <2>2. at(j) = at(k)
    BY <1>2, <1>4, <2>1
  <2> QED
    BY <1>2, <2>2
<1>5. ASSUME NEW j \in 1..(n - 1)
      PROVE  u[j] \in ToSet(s) /\ u[j] # s[i]
  <2> DEFINE k == IF j < i THEN j ELSE j + 1
  <2>1. k \in 1..n /\ k # i /\ u[j] = s[k]
    BY <1>1, <1>2
  <2> HIDE DEF k
  <2> QED
    BY <1>2, <2>1
<1>6. ASSUME NEW x \in ToSet(s), x # s[i]
      PROVE  \E j \in 1..(n - 1) : u[j] = x
  <2>1. PICK k \in 1..n : s[k] = x
    BY <1>2
  <2>2. CASE k < i
    BY <1>1, <1>2, <2>1, <2>2
  <2>3. CASE k > i
    <3>1. k - 1 \in 1..(n - 1) /\ ~(k - 1 < i) /\ (k - 1) + 1 = k
      BY <1>2, <2>1, <2>3
    <3>2. u[k - 1] = s[k]
      BY <1>1, <3>1
    <3> QED
      BY <2>1, <3>1, <3>2
  <2> QED
    BY <1>2, <1>6, <2>1, <2>2, <2>3
<1>7. ToSet(u) = ToSet(s) \ {s[i]}
  BY <1>1, <1>3, <1>5, <1>6
<1> QED
  BY <1>1, <1>3, <1>4, <1>7 DEF u

LEMMA AppendedElement ==
    ASSUME NEW S, NEW s \in Seq(S), NEW x \in S, x \notin ToSet(s), IsInjective(s)
    PROVE  /\ Append(s, x) \in Seq(S) /\ Len(Append(s, x)) = Len(s) + 1
           /\ ToSet(Append(s, x)) = ToSet(s) \cup {x}
           /\ IsInjective(Append(s, x))
<1> DEFINE u == Append(s, x)
           n == Len(s)
<1>1. /\ u \in Seq(S) /\ Len(u) = n + 1 /\ u[n + 1] = x
      /\ \A j \in 1..n : u[j] = s[j]
  BY AppendProperties
<1>2. /\ n \in Nat
      /\ \A y : y \in ToSet(s) <=> \E j \in 1..n : s[j] = y
      /\ \A j, k \in 1..n : s[j] = s[k] => j = k
  BY ListFacts
<1>3. /\ \A y : y \in ToSet(u) <=> \E j \in 1..Len(u) : u[j] = y
      /\ IsInjective(u) <=> \A j, k \in 1..Len(u) : u[j] = u[k] => j = k
  BY <1>1, ListFacts
<1> HIDE DEF u, n
<1>4. \A j \in 1..(n + 1) : j \in 1..n \/ j = n + 1
  BY <1>2
<1>5. n + 1 \in 1..(n + 1) /\ \A j \in 1..n : j \in 1..(n + 1)
  BY <1>2
<1>6. ToSet(u) = ToSet(s) \cup {x}
  BY <1>1, <1>2, <1>3, <1>4, <1>5
<1>7. IsInjective(u)
  BY <1>1, <1>2, <1>3, <1>4
<1> QED
  BY <1>1, <1>6, <1>7 DEF u, n

(* A map without or with one more key. *)
Maps == UNION {[B -> Peer] : B \in SUBSET Block}

LEMMA MapFacts ==
    ASSUME NEW at \in Maps
    PROVE  /\ DOMAIN at \in SUBSET Block /\ at \in [DOMAIN at -> Peer]
           /\ \A b \in DOMAIN at : at[b] \in Peer
  BY DEF Maps

LEMMA WithoutFacts ==
    ASSUME NEW at \in Maps, NEW B
    PROVE  /\ Without(at, B) \in Maps
           /\ DOMAIN Without(at, B) = DOMAIN at \ B
           /\ \A b \in DOMAIN at \ B : Without(at, B)[b] = at[b]
<1> DEFINE D == DOMAIN at \ B
           at2 == Without(at, B)
<1>1. at2 = [b \in D |-> at[b]]
  BY DEF Without, Restrict
<1>2. D \in SUBSET Block /\ \A b \in D : at[b] \in Peer
  BY MapFacts
<1> HIDE DEF D, at2
<1>3. at2 \in [D -> Peer] /\ DOMAIN at2 = D /\ \A b \in D : at2[b] = at[b]
  BY <1>1, <1>2
<1>4. at2 \in Maps
  BY <1>2, <1>3 DEF Maps
<1> QED
  BY <1>3, <1>4 DEF D, at2

LEMMA WithFacts ==
    ASSUME NEW at \in Maps, NEW b \in Block, NEW p \in Peer
    PROVE  /\ With(at, b, p) \in Maps
           /\ DOMAIN With(at, b, p) = DOMAIN at \cup {b}
           /\ With(at, b, p)[b] = p
           /\ \A c \in DOMAIN at \ {b} : With(at, b, p)[c] = at[c]
<1> DEFINE D == DOMAIN at \cup {b}
           at2 == With(at, b, p)
<1>1. at2 = [c \in D |-> IF c = b THEN p ELSE at[c]]
  BY DEF With
<1>2. D \in SUBSET Block /\ \A c \in D \ {b} : at[c] \in Peer
  BY MapFacts
<1>3. \A c \in DOMAIN at \ {b} : c \in D /\ c # b
  OBVIOUS
<1>4. b \in D
  OBVIOUS
<1> HIDE DEF D, at2
<1>5. at2 \in [D -> Peer] /\ DOMAIN at2 = D /\ at2[b] = p
      /\ \A c \in D \ {b} : at2[c] = at[c]
  BY <1>1, <1>2, <1>4
<1>6. at2 \in Maps
  BY <1>2, <1>5 DEF Maps
<1> QED
  BY <1>3, <1>5, <1>6 DEF D, at2

(* list.erase(it) with the iterator that the map keeps. *)
LEMMA IteratorPoints ==
    ASSUME NEW S, NEW s \in Seq(S), NEW b \in ToSet(s)
    PROVE  Iterator(s, b) \in 1..Len(s) /\ s[Iterator(s, b)] = b
<1>1. \E i \in DOMAIN s : s[i] = b
  BY ListFacts
<1>2. Iterator(s, b) \in DOMAIN s /\ s[Iterator(s, b)] = b
  BY <1>1 DEF Iterator
<1> QED
  BY <1>2, ListFacts

(* The blocks in flight, as a list of their hashes. *)
Entry == [hash : Block, time : Stamp]

LEMMA HashesFacts ==
    ASSUME NEW e \in Seq(Entry)
    PROVE  /\ Hashes(e) \in Seq(Block) /\ Len(Hashes(e)) = Len(e)
           /\ \A i \in 1..Len(e) : Hashes(e)[i] = e[i].hash
           /\ \A i \in 1..Len(e) : Hashes(RemoveAt(e, i)) = RemoveAt(Hashes(e), i)
           /\ \A x \in Entry : Hashes(Append(e, x)) = Append(Hashes(e), x.hash)
<1>1. \A d \in Seq(Entry) : /\ Hashes(d) \in Seq(Block) /\ Len(Hashes(d)) = Len(d)
                            /\ \A i \in 1..Len(d) : Hashes(d)[i] = d[i].hash
  <2> SUFFICES ASSUME NEW d \in Seq(Entry)
               PROVE  /\ Hashes(d) \in Seq(Block) /\ Len(Hashes(d)) = Len(d)
                      /\ \A i \in 1..Len(d) : Hashes(d)[i] = d[i].hash
    OBVIOUS
  <2>1. /\ DOMAIN d = 1..Len(d) /\ Len(d) \in Nat
        /\ \A i \in 1..Len(d) : d[i] \in Entry
    BY LenProperties, ElementOfSeq
  <2>2. Hashes(d) = [i \in 1..Len(d) |-> d[i].hash]
    BY <2>1 DEF Hashes
  <2>3. \A i \in 1..Len(d) : d[i].hash \in Block
    BY <2>1 DEF Entry
  <2> QED
    BY <2>1, <2>2, <2>3
<1>2. ASSUME NEW i \in 1..Len(e)
      PROVE  Hashes(RemoveAt(e, i)) = RemoveAt(Hashes(e), i)
  <2> DEFINE d == RemoveAt(e, i)
             u == RemoveAt(Hashes(e), i)
             n == Len(e)
  <2>1. n \in Nat /\ \A j \in 1..(n - 1) : j \in 1..n /\ j + 1 \in 1..n
    BY LenProperties
  <2>2. /\ d \in Seq(Entry) /\ Len(d) = n - 1
        /\ \A j \in 1..(n - 1) : d[j] = IF j < i THEN e[j] ELSE e[j + 1]
    BY RemovedAt
  <2>3. i \in 1..Len(Hashes(e)) /\ Hashes(e) \in Seq(Block)
    BY <1>1
  <2>4. /\ u \in Seq(Block) /\ Len(u) = n - 1
        /\ \A j \in 1..(n - 1) : u[j] = IF j < i THEN Hashes(e)[j] ELSE Hashes(e)[j + 1]
    <3>1. Len(Hashes(e)) = n
      BY <1>1
    <3>2. /\ u \in Seq(Block) /\ Len(u) = Len(Hashes(e)) - 1
          /\ \A j \in 1..(Len(Hashes(e)) - 1) :
                u[j] = IF j < i THEN Hashes(e)[j] ELSE Hashes(e)[j + 1]
      BY <2>3, RemovedAt
    <3> QED
      BY <3>1, <3>2
  <2>5. Hashes(d) \in Seq(Block) /\ Len(Hashes(d)) = n - 1
    BY <1>1, <2>2
  <2>6. ASSUME NEW j \in 1..(n - 1) PROVE Hashes(d)[j] = u[j]
    <3>1. Hashes(d)[j] = d[j].hash
      BY <1>1, <2>2
    <3>2. Hashes(e)[j] = e[j].hash /\ Hashes(e)[j + 1] = e[j + 1].hash
      BY <1>1, <2>1
    <3> HIDE DEF d, u, n
    <3> QED
      BY <2>2, <2>4, <3>1, <3>2
  <2> HIDE DEF d, u, n
  <2>7. Hashes(d) = u
    BY <2>4, <2>5, <2>6, SeqEqual
  <2> QED
    BY <2>7 DEF d, u
<1>3. ASSUME NEW x \in Entry
      PROVE  Hashes(Append(e, x)) = Append(Hashes(e), x.hash)
  <2> DEFINE d == Append(e, x)
             u == Append(Hashes(e), x.hash)
             n == Len(e)
  <2>1. n \in Nat /\ x.hash \in Block
    BY LenProperties DEF Entry
  <2>2. /\ d \in Seq(Entry) /\ Len(d) = n + 1 /\ d[n + 1] = x
        /\ \A j \in 1..n : d[j] = e[j]
    BY AppendProperties
  <2>3. /\ u \in Seq(Block) /\ Len(u) = n + 1 /\ u[n + 1] = x.hash
        /\ \A j \in 1..n : u[j] = Hashes(e)[j]
    BY <1>1, <2>1, AppendProperties
  <2>4. Hashes(d) \in Seq(Block) /\ Len(Hashes(d)) = n + 1
    BY <1>1, <2>2
  <2>5. ASSUME NEW j \in 1..(n + 1) PROVE Hashes(d)[j] = u[j]
    <3>1. Hashes(d)[j] = d[j].hash
      BY <1>1, <2>2
    <3>2. j \in 1..n => Hashes(e)[j] = e[j].hash
      BY <1>1
    <3>3. j \in 1..n \/ j = n + 1
      BY <2>1
    <3> HIDE DEF d, u, n
    <3> QED
      BY <2>2, <2>3, <3>1, <3>2, <3>3
  <2> HIDE DEF d, u, n
  <2>6. Hashes(d) = u
    BY <2>3, <2>4, <2>5, SeqEqual
  <2> QED
    BY <2>6 DEF d, u
<1> QED
  BY <1>1, <1>2, <1>3

-----------------------------------------------------------------------------
(* The lists of all peers against a global map.                            *)

Lists == [Peer -> Seq(Block)]

(* A block leaves its list and the map. *)
LEMMA TracksRemoved ==
    ASSUME NEW list \in Lists, NEW count \in [Peer -> Nat], NEW at \in Maps,
           Tracks(list, count, at), NEW b \in DOMAIN at,
           NEW list2, NEW count2, LET p == at[b] IN
             /\ list2 = [list EXCEPT ![p] = RemoveAt(@, Iterator(@, b))]
             /\ count2 = [count EXCEPT ![p] = @ - 1]
    PROVE  /\ list2 \in Lists /\ count2 \in [Peer -> Nat]
           /\ \A q \in Peer : count2[q] <= count[q]
           /\ Tracks(list2, count2, Without(at, {b}))
           /\ Iterator(list[at[b]], b) \in 1..Len(list[at[b]])
<1> DEFINE p == at[b]
           i == Iterator(list[p], b)
           at2 == Without(at, {b})
<1>1. /\ p \in Peer /\ DOMAIN at2 = DOMAIN at \ {b}
      /\ \A c \in DOMAIN at \ {b} : at2[c] = at[c]
  BY MapFacts, WithoutFacts
<1>2. /\ list[p] \in Seq(Block) /\ IsInjective(list[p])
      /\ ToSet(list[p]) = {c \in DOMAIN at : at[c] = p} /\ count[p] = Len(list[p])
  BY <1>1 DEF Tracks, Lists
<1>3. b \in ToSet(list[p])
  BY <1>2
<1>4. i \in 1..Len(list[p]) /\ list[p][i] = b
  BY <1>2, <1>3, IteratorPoints
<1>5. /\ list2[p] = RemoveAt(list[p], i) /\ count2[p] = count[p] - 1
      /\ \A q \in Peer \ {p} : list2[q] = list[q] /\ count2[q] = count[q]
      /\ DOMAIN list2 = Peer /\ DOMAIN count2 = Peer
      /\ list2 = [q \in Peer |-> list2[q]] /\ count2 = [q \in Peer |-> count2[q]]
  BY <1>1 DEF Lists
<1>6. /\ list2[p] \in Seq(Block) /\ Len(list2[p]) = Len(list[p]) - 1
      /\ ToSet(list2[p]) = ToSet(list[p]) \ {b} /\ IsInjective(list2[p])
  BY <1>2, <1>4, <1>5, RemovedAt, RemovedElement
<1>7. Len(list[p]) \in Nat /\ Len(list[p]) > 0
  BY <1>2, <1>4, LenProperties
<1>8. Tracks(list2, count2, at2)
  <2> SUFFICES ASSUME NEW q \in Peer
               PROVE  /\ ToSet(list2[q]) = {c \in DOMAIN at2 : at2[c] = q}
                      /\ IsInjective(list2[q]) /\ count2[q] = Len(list2[q])
    BY DEF Tracks
  <2> HIDE DEF p, i, at2
  <2>1. CASE q = p
    <3>1. {c \in DOMAIN at2 : at2[c] = p} = {c \in DOMAIN at : at[c] = p} \ {b}
      BY <1>1
    <3> QED
      BY <1>2, <1>5, <1>6, <2>1, <3>1
  <2>2. CASE q # p
    <3>1. {c \in DOMAIN at2 : at2[c] = q} = {c \in DOMAIN at : at[c] = q}
      BY <1>1, <2>2 DEF p
    <3>2. list2[q] = list[q] /\ count2[q] = count[q]
      BY <1>5, <2>2
    <3> QED
      BY <3>1, <3>2 DEF Tracks
  <2> QED
    BY <2>1, <2>2
<1> HIDE DEF p, i, at2
<1>9. \A q \in Peer : list2[q] \in Seq(Block) /\ count2[q] \in Nat /\ count2[q] <= count[q]
  <2> SUFFICES ASSUME NEW q \in Peer
               PROVE  list2[q] \in Seq(Block) /\ count2[q] \in Nat /\ count2[q] <= count[q]
    OBVIOUS
  <2>1. CASE q = p
    BY <1>2, <1>5, <1>6, <1>7, <2>1
  <2>2. CASE q # p
    BY <1>5, <2>2 DEF Lists
  <2> QED
    BY <2>1, <2>2
<1> QED
  BY <1>4, <1>5, <1>8, <1>9 DEF Lists, p, i, at2

(* A block that is in none enters one of the lists and the map. *)
LEMMA TracksAppended ==
    ASSUME NEW list \in Lists, NEW count \in [Peer -> Nat], NEW at \in Maps,
           Tracks(list, count, at), NEW b \in Block \ DOMAIN at, NEW p \in Peer,
           NEW list2, NEW count2,
           list2 = [list EXCEPT ![p] = Append(@, b)],
           count2 = [count EXCEPT ![p] = @ + 1]
    PROVE  /\ list2 \in Lists /\ count2 \in [Peer -> Nat]
           /\ Tracks(list2, count2, With(at, b, p))
<1> DEFINE at2 == With(at, b, p)
<1>1. /\ DOMAIN at2 = DOMAIN at \cup {b} /\ at2[b] = p
      /\ \A c \in DOMAIN at : at2[c] = at[c]
  <2>1. /\ DOMAIN at2 = DOMAIN at \cup {b} /\ at2[b] = p
        /\ \A c \in DOMAIN at \ {b} : at2[c] = at[c]
    BY WithFacts
  <2> QED
    BY <2>1
<1>2. /\ list[p] \in Seq(Block) /\ IsInjective(list[p])
      /\ ToSet(list[p]) = {c \in DOMAIN at : at[c] = p} /\ count[p] = Len(list[p])
  BY DEF Tracks, Lists
<1>3. b \notin ToSet(list[p])
  BY <1>2
<1>4. /\ list2[p] = Append(list[p], b) /\ count2[p] = count[p] + 1
      /\ \A q \in Peer \ {p} : list2[q] = list[q] /\ count2[q] = count[q]
      /\ list2 = [q \in Peer |-> list2[q]] /\ count2 = [q \in Peer |-> count2[q]]
  BY DEF Lists
<1>5. /\ list2[p] \in Seq(Block) /\ Len(list2[p]) = Len(list[p]) + 1
      /\ ToSet(list2[p]) = ToSet(list[p]) \cup {b} /\ IsInjective(list2[p])
  BY <1>2, <1>3, <1>4, AppendedElement
<1> HIDE DEF at2
<1>6. Tracks(list2, count2, at2)
  <2> SUFFICES ASSUME NEW q \in Peer
               PROVE  /\ ToSet(list2[q]) = {c \in DOMAIN at2 : at2[c] = q}
                      /\ IsInjective(list2[q]) /\ count2[q] = Len(list2[q])
    BY DEF Tracks
  <2>1. CASE q = p
    <3>1. {c \in DOMAIN at2 : at2[c] = p} = {c \in DOMAIN at : at[c] = p} \cup {b}
      BY <1>1
    <3> QED
      BY <1>2, <1>4, <1>5, <2>1, <3>1
  <2>2. CASE q # p
    <3>1. {c \in DOMAIN at2 : at2[c] = q} = {c \in DOMAIN at : at[c] = q}
      BY <1>1, <2>2
    <3>2. list2[q] = list[q] /\ count2[q] = count[q]
      BY <1>4, <2>2
    <3> QED
      BY <3>1, <3>2 DEF Tracks
  <2> QED
    BY <2>1, <2>2
<1>7. \A q \in Peer : list2[q] \in Seq(Block) /\ count2[q] \in Nat
  <2> SUFFICES ASSUME NEW q \in Peer PROVE list2[q] \in Seq(Block) /\ count2[q] \in Nat
    OBVIOUS
  <2>1. CASE q = p
    BY <1>4, <1>5, <2>1
  <2>2. CASE q # p
    BY <1>4, <2>2 DEF Lists
  <2> QED
    BY <2>1, <2>2
<1> QED
  BY <1>4, <1>6, <1>7 DEF Lists, at2

(* FinalizeNode: the list of one peer is emptied, and the map of it. *)
LEMMA TracksForgotten ==
    ASSUME NEW list \in Lists, NEW count \in [Peer -> Nat], NEW at \in Maps,
           Tracks(list, count, at), NEW p \in Peer, NEW list2, NEW count2,
           list2 = [list EXCEPT ![p] = <<>>], count2 = [count EXCEPT ![p] = 0]
    PROVE  /\ list2 \in Lists /\ count2 \in [Peer -> Nat]
           /\ Tracks(list2, count2, Without(at, ToSet(list[p])))
<1> DEFINE at2 == Without(at, ToSet(list[p]))
<1>1. /\ DOMAIN at2 = DOMAIN at \ ToSet(list[p])
      /\ \A c \in DOMAIN at2 : at2[c] = at[c]
      /\ ToSet(list[p]) = {c \in DOMAIN at : at[c] = p}
  <2>1. /\ DOMAIN at2 = DOMAIN at \ ToSet(list[p])
        /\ \A c \in DOMAIN at \ ToSet(list[p]) : at2[c] = at[c]
    BY WithoutFacts
  <2> QED
    BY <2>1 DEF Tracks
<1>2. /\ list2[p] = <<>> /\ count2[p] = 0
      /\ \A q \in Peer \ {p} : list2[q] = list[q] /\ count2[q] = count[q]
      /\ list2 = [q \in Peer |-> list2[q]] /\ count2 = [q \in Peer |-> count2[q]]
  BY DEF Lists
<1>3. /\ <<>> \in Seq(Block) /\ Len(<<>>) = 0 /\ ToSet(<<>>) = {} /\ IsInjective(<<>>)
  BY DEF ToSet, IsInjective
<1> HIDE DEF at2
<1>4. Tracks(list2, count2, at2)
  <2> SUFFICES ASSUME NEW q \in Peer
               PROVE  /\ ToSet(list2[q]) = {c \in DOMAIN at2 : at2[c] = q}
                      /\ IsInjective(list2[q]) /\ count2[q] = Len(list2[q])
    BY DEF Tracks
  <2>1. CASE q = p
    <3>1. {c \in DOMAIN at2 : at2[c] = p} = {}
      BY <1>1
    <3> QED
      BY <1>2, <1>3, <2>1, <3>1
  <2>2. CASE q # p
    <3>1. {c \in DOMAIN at2 : at2[c] = q} = {c \in DOMAIN at : at[c] = q}
      BY <1>1, <2>2
    <3>2. list2[q] = list[q] /\ count2[q] = count[q]
      BY <1>2, <2>2
    <3> QED
      BY <3>1, <3>2 DEF Tracks
  <2> QED
    BY <2>1, <2>2
<1>5. \A q \in Peer : list2[q] \in Seq(Block) /\ count2[q] \in Nat
  <2> SUFFICES ASSUME NEW q \in Peer PROVE list2[q] \in Seq(Block) /\ count2[q] \in Nat
    OBVIOUS
  <2>1. CASE q = p
    BY <1>2, <1>3, <2>1
  <2>2. CASE q # p
    BY <1>2, <2>2 DEF Lists
  <2> QED
    BY <2>1, <2>2
<1> QED
  BY <1>2, <1>4, <1>5 DEF Lists, at2

-----------------------------------------------------------------------------
(* The operations on the queues.                                           *)

Flying(q) == [p \in Peer |-> Hashes(q.inFlight[p])]
WantedOf(q) == DOMAIN q.queuedAt \cup DOMAIN q.flyingAt
Sound(q) == q \in Queues /\ Agree(q)

(* No counter but those of the peers of P grows. *)
GrowsOnlyAt(P, q, r) ==
    \A p \in Peer \ P : r.nQueued[p] <= q.nQueued[p] /\ r.nFlying[p] <= q.nFlying[p]

LEMMA NumberFacts ==
    /\ MaxInFlight \in Nat \ {0} /\ Timeout \in Nat \ {0} /\ Inactivity \in Nat \ {0}
    /\ Oldest \in Nat /\ Longest \in Nat /\ 0 \in 0..Longest /\ Fresh \in Stamp
  BY DownloadAssumption DEF Oldest, Longest, Stamp, Fresh

(* A stamp that llLastBlockProcess passes, or that ages, is a stamp. *)
LEMMA StampFacts ==
    \A t \in Stamp : Passed(t) \in Stamp /\ Older(t) \in Stamp
<1>1. Oldest \in Nat
  BY NumberFacts
<1>2. \A a \in 0..Oldest : (IF a < Oldest THEN a + 1 ELSE a) \in 0..Oldest
  BY <1>1
<1> QED
  BY <1>2 DEF Stamp, Passed, Older

LEMMA SoundFields ==
    ASSUME NEW q
    PROVE  Sound(q) <=>
              /\ q = [toDownload |-> q.toDownload, inFlight |-> q.inFlight,
                      nQueued |-> q.nQueued, nFlying |-> q.nFlying,
                      queuedAt |-> q.queuedAt, flyingAt |-> q.flyingAt,
                      received |-> q.received]
              /\ q.toDownload \in Lists /\ q.inFlight \in [Peer -> Seq(Entry)]
              /\ q.nQueued \in [Peer -> Nat] /\ q.nFlying \in [Peer -> Nat]
              /\ q.queuedAt \in Maps /\ q.flyingAt \in Maps
              /\ q.received \in [Peer -> Stamp]
              /\ DOMAIN q.queuedAt \cap DOMAIN q.flyingAt = {}
              /\ Tracks(q.toDownload, q.nQueued, q.queuedAt)
              /\ Tracks(Flying(q), q.nFlying, q.flyingAt)
              /\ \A p \in Peer : q.nFlying[p] <= MaxInFlight
<1>1. q \in Queues <=>
              /\ q = [toDownload |-> q.toDownload, inFlight |-> q.inFlight,
                      nQueued |-> q.nQueued, nFlying |-> q.nFlying,
                      queuedAt |-> q.queuedAt, flyingAt |-> q.flyingAt,
                      received |-> q.received]
              /\ q.toDownload \in Lists /\ q.inFlight \in [Peer -> Seq(Entry)]
              /\ q.nQueued \in [Peer -> Nat] /\ q.nFlying \in [Peer -> Nat]
              /\ q.queuedAt \in Maps /\ q.flyingAt \in Maps
              /\ q.received \in [Peer -> Stamp]
  BY DEF Queues, Lists, Entry, Maps
<1> QED
  BY <1>1, Zenon DEF Sound, Agree, Flying

LEMMA FlyingFacts ==
    ASSUME NEW q, q.inFlight \in [Peer -> Seq(Entry)]
    PROVE  /\ Flying(q) \in Lists
           /\ \A p \in Peer : /\ Flying(q)[p] = Hashes(q.inFlight[p])
                              /\ Len(Flying(q)[p]) = Len(q.inFlight[p])
<1>1. \A p \in Peer : /\ Hashes(q.inFlight[p]) \in Seq(Block)
                      /\ Len(Hashes(q.inFlight[p])) = Len(q.inFlight[p])
  BY HashesFacts
<1> QED
  BY <1>1 DEF Flying, Lists

LEMMA LeaveQueueSound ==
    ASSUME NEW q, Sound(q), NEW b
    PROVE  LET r == LeaveQueue(q, b) IN
           /\ Sound(r)
           /\ DOMAIN r.queuedAt = DOMAIN q.queuedAt \ {b}
           /\ r.flyingAt = q.flyingAt
           /\ GrowsOnlyAt({}, q, r)
<1> DEFINE r == LeaveQueue(q, b)
<1>1. CASE b \notin DOMAIN q.queuedAt
  <2>1. r = q
    BY <1>1 DEF LeaveQueue
  <2>2. q.nQueued \in [Peer -> Nat] /\ q.nFlying \in [Peer -> Nat]
    BY SoundFields
  <2> QED
    BY <1>1, <2>1, <2>2 DEF GrowsOnlyAt
<1>2. CASE b \in DOMAIN q.queuedAt
  <2> DEFINE p == q.queuedAt[b]
             list2 == [q.toDownload EXCEPT ![p] = RemoveAt(@, Iterator(@, b))]
             count2 == [q.nQueued EXCEPT ![p] = @ - 1]
             at2 == Without(q.queuedAt, {b})
  <2>1. r = [toDownload |-> list2, inFlight |-> q.inFlight,
             nQueued |-> count2, nFlying |-> q.nFlying,
             queuedAt |-> at2, flyingAt |-> q.flyingAt, received |-> q.received]
    BY <1>2, SoundFields DEF LeaveQueue
  <2>2. /\ q.toDownload \in Lists /\ q.nQueued \in [Peer -> Nat] /\ q.queuedAt \in Maps
        /\ Tracks(q.toDownload, q.nQueued, q.queuedAt)
    BY SoundFields
  <2>3. /\ list2 \in Lists /\ count2 \in [Peer -> Nat]
        /\ \A o \in Peer : count2[o] <= q.nQueued[o]
        /\ Tracks(list2, count2, at2)
    BY <1>2, <2>2, TracksRemoved
  <2>4. at2 \in Maps /\ DOMAIN at2 = DOMAIN q.queuedAt \ {b}
    BY <2>2, WithoutFacts
  <2> HIDE DEF p, list2, count2, at2
  <2>5. Flying(r) = Flying(q)
    BY <2>1 DEF Flying
  <2>6. Sound(r)
    <3> HIDE DEF r
    <3> QED
      BY <2>1, <2>3, <2>4, <2>5, SoundFields
  <2>7. q.nFlying \in [Peer -> Nat]
    BY SoundFields
  <2> HIDE DEF r
  <2>8. GrowsOnlyAt({}, q, r)
    BY <2>1, <2>3, <2>7 DEF GrowsOnlyAt
  <2> QED
    BY <2>1, <2>4, <2>6, <2>8 DEF r
<1> QED
  BY <1>1, <1>2

LEMMA LeaveFlightSound ==
    ASSUME NEW q, Sound(q), NEW b, NEW from
    PROVE  LET r == LeaveFlight(q, b, from) IN
           /\ Sound(r)
           /\ DOMAIN r.flyingAt = DOMAIN q.flyingAt \ {b}
           /\ r.queuedAt = q.queuedAt
           /\ GrowsOnlyAt({}, q, r)
<1> DEFINE r == LeaveFlight(q, b, from)
<1>1. CASE b \notin DOMAIN q.flyingAt
  <2>1. r = q
    BY <1>1 DEF LeaveFlight
  <2>2. q.nQueued \in [Peer -> Nat] /\ q.nFlying \in [Peer -> Nat]
    BY SoundFields
  <2> QED
    BY <1>1, <2>1, <2>2 DEF GrowsOnlyAt
<1>2. CASE b \in DOMAIN q.flyingAt
  <2> DEFINE p == q.flyingAt[b]
             i == Iterator(Hashes(q.inFlight[p]), b)
             entries2 == [q.inFlight EXCEPT ![p] = RemoveAt(@, i)]
             list2 == [Flying(q) EXCEPT ![p] = RemoveAt(@, Iterator(@, b))]
             count2 == [q.nFlying EXCEPT ![p] = @ - 1]
             at2 == Without(q.flyingAt, {b})
             received2 == [q.received EXCEPT ![p] = IF {p} = from THEN Fresh ELSE @]
  <2>1. r = [toDownload |-> q.toDownload, inFlight |-> entries2,
             nQueued |-> q.nQueued, nFlying |-> count2,
             queuedAt |-> q.queuedAt, flyingAt |-> at2, received |-> received2]
    BY <1>2, SoundFields DEF LeaveFlight
  <2>2. /\ q.inFlight \in [Peer -> Seq(Entry)] /\ q.nFlying \in [Peer -> Nat]
        /\ q.flyingAt \in Maps /\ q.received \in [Peer -> Stamp]
        /\ Tracks(Flying(q), q.nFlying, q.flyingAt)
    BY SoundFields
  <2>3. p \in Peer /\ Flying(q) \in Lists /\ Flying(q)[p] = Hashes(q.inFlight[p])
        /\ Len(Flying(q)[p]) = Len(q.inFlight[p])
    BY <1>2, <2>2, MapFacts, FlyingFacts
  <2>4. /\ list2 \in Lists /\ count2 \in [Peer -> Nat]
        /\ \A o \in Peer : count2[o] <= q.nFlying[o]
        /\ Tracks(list2, count2, at2)
        /\ Iterator(Flying(q)[p], b) \in 1..Len(Flying(q)[p])
    BY <1>2, <2>2, <2>3, TracksRemoved
  <2>5. at2 \in Maps /\ DOMAIN at2 = DOMAIN q.flyingAt \ {b}
    BY <2>2, WithoutFacts
  <2>6. i \in 1..Len(q.inFlight[p]) /\ q.inFlight[p] \in Seq(Entry)
    BY <2>2, <2>3, <2>4
  <2>7. RemoveAt(q.inFlight[p], i) \in Seq(Entry)
    BY <2>6, RemovedAt
  <2>8. Hashes(RemoveAt(q.inFlight[p], i)) = RemoveAt(Hashes(q.inFlight[p]), i)
    BY <2>6, HashesFacts
  <2> HIDE DEF i
  <2>9. entries2 \in [Peer -> Seq(Entry)]
        /\ entries2[p] = RemoveAt(q.inFlight[p], i)
        /\ \A o \in Peer \ {p} : entries2[o] = q.inFlight[o]
    BY <2>2, <2>3, <2>7
  <2>10. received2 \in [Peer -> Stamp]
    BY <2>2, <2>3, NumberFacts
  <2>11. /\ list2[p] = RemoveAt(Hashes(q.inFlight[p]), i)
         /\ \A o \in Peer \ {p} : list2[o] = Hashes(q.inFlight[o])
         /\ list2 = [o \in Peer |-> list2[o]]
    BY <2>3, <2>2, FlyingFacts DEF i, Lists
  <2> HIDE DEF p, entries2, list2, count2, at2, received2
  <2>12. Flying(r) = list2
    <3>1. \A o \in Peer : Hashes(entries2[o]) = list2[o]
      BY <2>8, <2>9, <2>11
    <3> QED
      BY <2>1, <2>11, <3>1 DEF Flying
  <2> HIDE DEF r
  <2>13. \A o \in Peer : count2[o] <= MaxInFlight
    BY <2>2, <2>4, NumberFacts, SoundFields
  <2>14. Sound(r)
    <3>1. DOMAIN q.queuedAt \cap DOMAIN at2 = {}
      BY <2>5, SoundFields
    <3> QED
      BY <2>1, <2>4, <2>5, <2>9, <2>10, <2>12, <2>13, <3>1, SoundFields
  <2>15. q.nQueued \in [Peer -> Nat]
    BY SoundFields
  <2>16. GrowsOnlyAt({}, q, r)
    BY <2>1, <2>4, <2>15 DEF GrowsOnlyAt
  <2> QED
    BY <2>1, <2>5, <2>14, <2>16 DEF r
<1> QED
  BY <1>1, <1>2

(* MarkBlockAsReceived: the block is wanted no more, in either queue. *)
LEMMA MarkReceivedSound ==
    ASSUME NEW q, Sound(q), NEW b, NEW from
    PROVE  LET r == MarkReceived(q, b, from) IN
           /\ Sound(r)
           /\ WantedOf(r) = WantedOf(q) \ {b}
           /\ GrowsOnlyAt({}, q, r)
<1> DEFINE l == LeaveQueue(q, b)
           r == LeaveFlight(l, b, from)
<1>1. /\ Sound(l) /\ DOMAIN l.queuedAt = DOMAIN q.queuedAt \ {b}
      /\ l.flyingAt = q.flyingAt /\ GrowsOnlyAt({}, q, l)
  BY LeaveQueueSound
<1> HIDE DEF l
<1>2. /\ Sound(r) /\ DOMAIN r.flyingAt = DOMAIN l.flyingAt \ {b}
      /\ r.queuedAt = l.queuedAt /\ GrowsOnlyAt({}, l, r)
  BY <1>1, LeaveFlightSound
<1>3. r = MarkReceived(q, b, from)
  BY DEF MarkReceived, l
<1> HIDE DEF r
<1>4. WantedOf(r) = WantedOf(q) \ {b}
  BY <1>1, <1>2 DEF WantedOf
<1>5. GrowsOnlyAt({}, q, r)
  <2>1. /\ q.nQueued \in [Peer -> Nat] /\ q.nFlying \in [Peer -> Nat]
        /\ l.nQueued \in [Peer -> Nat] /\ l.nFlying \in [Peer -> Nat]
        /\ r.nQueued \in [Peer -> Nat] /\ r.nFlying \in [Peer -> Nat]
    BY <1>1, <1>2, SoundFields
  <2>2. \A x, y, z \in Nat : x <= y /\ y <= z => x <= z
    OBVIOUS
  <2> QED
    BY <1>1, <1>2, <2>1, <2>2 DEF GrowsOnlyAt
<1> QED
  BY <1>2, <1>3, <1>4, <1>5

LEMMA AddToQueueSound ==
    ASSUME NEW q, Sound(q), NEW p \in Peer, NEW b \in Block
    PROVE  LET r == AddToQueue(q, p, b) IN
           /\ Sound(r)
           /\ WantedOf(r) = WantedOf(q) \cup {b}
           /\ GrowsOnlyAt({p}, q, r)
<1> DEFINE r == AddToQueue(q, p, b)
<1>1. CASE b \in WantedOf(q)
  <2>1. r = q
    BY <1>1 DEF AddToQueue, WantedOf
  <2>2. q.nQueued \in [Peer -> Nat] /\ q.nFlying \in [Peer -> Nat]
    BY SoundFields
  <2> QED
    BY <1>1, <2>1, <2>2 DEF GrowsOnlyAt
<1>2. CASE b \notin WantedOf(q)
  <2> DEFINE list2 == [q.toDownload EXCEPT ![p] = Append(@, b)]
             count2 == [q.nQueued EXCEPT ![p] = @ + 1]
             at2 == With(q.queuedAt, b, p)
  <2>1. r = [toDownload |-> list2, inFlight |-> q.inFlight,
             nQueued |-> count2, nFlying |-> q.nFlying,
             queuedAt |-> at2, flyingAt |-> q.flyingAt, received |-> q.received]
    BY <1>2, SoundFields DEF AddToQueue, WantedOf
  <2>2. /\ q.toDownload \in Lists /\ q.nQueued \in [Peer -> Nat] /\ q.queuedAt \in Maps
        /\ Tracks(q.toDownload, q.nQueued, q.queuedAt) /\ q.nFlying \in [Peer -> Nat]
    BY SoundFields
  <2>3. b \in Block \ DOMAIN q.queuedAt /\ b \notin DOMAIN q.flyingAt
    BY <1>2 DEF WantedOf
  <2>4. list2 \in Lists /\ count2 \in [Peer -> Nat] /\ Tracks(list2, count2, at2)
    BY <2>2, <2>3, TracksAppended
  <2>5. at2 \in Maps /\ DOMAIN at2 = DOMAIN q.queuedAt \cup {b}
    BY <2>2, WithFacts
  <2>6. \A o \in Peer \ {p} : count2[o] = q.nQueued[o]
    BY <2>2
  <2> HIDE DEF list2, count2, at2, r
  <2>7. Flying(r) = Flying(q)
    BY <2>1 DEF Flying
  <2>8. Sound(r)
    <3>1. DOMAIN at2 \cap DOMAIN q.flyingAt = {}
      BY <2>3, <2>5, SoundFields
    <3> QED
      BY <2>1, <2>4, <2>5, <2>7, <3>1, SoundFields
  <2>9. WantedOf(r) = WantedOf(q) \cup {b}
    BY <2>1, <2>5 DEF WantedOf
  <2>10. GrowsOnlyAt({p}, q, r)
    BY <2>1, <2>2, <2>6 DEF GrowsOnlyAt
  <2> QED
    BY <2>8, <2>9, <2>10 DEF r
<1> QED
  BY <1>1, <1>2

(* MarkBlockAsInFlight, of a peer that has room. *)
LEMMA MarkInFlightSound ==
    ASSUME NEW q, Sound(q), NEW p \in Peer, NEW b \in Block,
           q.nFlying[p] < MaxInFlight
    PROVE  LET r == MarkInFlight(q, p, b) IN
           /\ Sound(r)
           /\ WantedOf(r) = WantedOf(q) \cup {b}
           /\ GrowsOnlyAt({p}, q, r)
<1> DEFINE l == MarkReceived(q, b, {})
           r == MarkInFlight(q, p, b)
<1>1. /\ Sound(l) /\ WantedOf(l) = WantedOf(q) \ {b} /\ GrowsOnlyAt({}, q, l)
  BY MarkReceivedSound
<1> DEFINE x == [hash |-> b, time |-> Fresh]
           entries2 == [l.inFlight EXCEPT ![p] = Append(@, x)]
           list2 == [Flying(l) EXCEPT ![p] = Append(@, b)]
           count2 == [l.nFlying EXCEPT ![p] = @ + 1]
           at2 == With(l.flyingAt, b, p)
           received2 == [l.received EXCEPT ![p] = IF l.nFlying[p] = 0 THEN Fresh ELSE @]
<1> HIDE DEF l
<1>2. r = [toDownload |-> l.toDownload, inFlight |-> entries2,
           nQueued |-> l.nQueued, nFlying |-> count2,
           queuedAt |-> l.queuedAt, flyingAt |-> at2, received |-> received2]
  <2>1. r = [l EXCEPT !.inFlight[p] = Append(@, x), !.nFlying[p] = @ + 1,
                      !.flyingAt = With(@, b, p),
                      !.received[p] = IF l.nFlying[p] = 0 THEN Fresh ELSE @]
    BY DEF MarkInFlight, l
  <2>2. l = [toDownload |-> l.toDownload, inFlight |-> l.inFlight,
             nQueued |-> l.nQueued, nFlying |-> l.nFlying,
             queuedAt |-> l.queuedAt, flyingAt |-> l.flyingAt, received |-> l.received]
    BY <1>1, SoundFields
  <2> HIDE DEF r, x
  <2> QED
    BY <2>1, <2>2
<1>3. /\ l.inFlight \in [Peer -> Seq(Entry)] /\ l.nFlying \in [Peer -> Nat]
      /\ l.flyingAt \in Maps /\ l.received \in [Peer -> Stamp]
      /\ Tracks(Flying(l), l.nFlying, l.flyingAt) /\ l.nQueued \in [Peer -> Nat]
      /\ q.nFlying \in [Peer -> Nat] /\ q.nQueued \in [Peer -> Nat]
  BY <1>1, SoundFields
<1>4. Flying(l) \in Lists /\ \A o \in Peer : Flying(l)[o] = Hashes(l.inFlight[o])
  BY <1>3, FlyingFacts
<1>5. b \in Block \ DOMAIN l.flyingAt /\ b \notin DOMAIN l.queuedAt
  BY <1>1 DEF WantedOf
<1>6. list2 \in Lists /\ count2 \in [Peer -> Nat] /\ Tracks(list2, count2, at2)
  BY <1>3, <1>4, <1>5, TracksAppended
<1>7. at2 \in Maps /\ DOMAIN at2 = DOMAIN l.flyingAt \cup {b}
  BY <1>3, WithFacts
<1>8. x \in Entry /\ x.hash = b /\ l.inFlight[p] \in Seq(Entry)
  BY <1>3, NumberFacts DEF Entry
<1>9. Append(l.inFlight[p], x) \in Seq(Entry)
      /\ Hashes(Append(l.inFlight[p], x)) = Append(Hashes(l.inFlight[p]), b)
  BY <1>8, HashesFacts, AppendProperties
<1> HIDE DEF x
<1>10. /\ entries2 \in [Peer -> Seq(Entry)] /\ entries2[p] = Append(l.inFlight[p], x)
       /\ \A o \in Peer \ {p} : entries2[o] = l.inFlight[o]
  BY <1>3, <1>9
<1>11. /\ list2[p] = Append(Hashes(l.inFlight[p]), b)
       /\ \A o \in Peer \ {p} : list2[o] = Hashes(l.inFlight[o])
       /\ list2 = [o \in Peer |-> list2[o]]
  BY <1>4 DEF Lists
<1>12. received2 \in [Peer -> Stamp]
  BY <1>3, NumberFacts
<1>13. \A o \in Peer : count2[o] <= MaxInFlight
       /\ (o # p => count2[o] <= l.nFlying[o])
  <2>1. l.nFlying[p] < MaxInFlight
    BY <1>1, <1>3, NumberFacts DEF GrowsOnlyAt
  <2>2. \A o \in Peer : l.nFlying[o] <= MaxInFlight
    BY <1>1, SoundFields
  <2> QED
    BY <1>3, <2>1, <2>2, NumberFacts
<1> HIDE DEF entries2, list2, count2, at2, received2, r
<1>14. Flying(r) = list2
  <2>1. \A o \in Peer : Hashes(entries2[o]) = list2[o]
    BY <1>9, <1>10, <1>11
  <2> QED
    BY <1>2, <1>11, <2>1 DEF Flying
<1>15. Sound(r)
  <2>1. DOMAIN l.queuedAt \cap DOMAIN at2 = {}
    BY <1>1, <1>5, <1>7, SoundFields
  <2>2. \A o \in Peer : count2[o] <= MaxInFlight
    BY <1>13
  <2> QED
    BY <1>1, <1>2, <1>6, <1>7, <1>10, <1>12, <1>14, <2>1, <2>2, SoundFields
<1>16. WantedOf(r) = WantedOf(q) \cup {b}
  BY <1>1, <1>2, <1>7 DEF WantedOf
<1>17. GrowsOnlyAt({p}, q, r)
  <2> SUFFICES ASSUME NEW o \in Peer \ {p}
               PROVE  r.nQueued[o] <= q.nQueued[o] /\ r.nFlying[o] <= q.nFlying[o]
    BY DEF GrowsOnlyAt
  <2>1. l.nQueued[o] <= q.nQueued[o] /\ l.nFlying[o] <= q.nFlying[o]
    BY <1>1 DEF GrowsOnlyAt
  <2>2. r.nQueued[o] = l.nQueued[o] /\ r.nFlying[o] = count2[o]
    BY <1>2
  <2>3. count2[o] <= l.nFlying[o]
    BY <1>13
  <2> QED
    BY <1>3, <1>6, <2>1, <2>2, <2>3
<1> QED
  BY <1>15, <1>16, <1>17 DEF r

(* The loop of SendMessages. *)
LEMMA AskedSteps ==
    ASSUME NEW q, NEW p
    PROVE  \E asked :
              /\ asked[0] = q
              /\ \A i \in 1..MaxInFlight :
                    asked[i] =
                       LET r == asked[i - 1] IN
                       IF r.nQueued[p] # 0 /\ r.nFlying[p] < MaxInFlight
                       THEN MarkInFlight(r, p, Head(r.toDownload[p])) ELSE r
              /\ RequestAll(q, p) = asked[MaxInFlight]
<1> DEFINE Turn(r) == IF r.nQueued[p] # 0 /\ r.nFlying[p] < MaxInFlight
                      THEN MarkInFlight(r, p, Head(r.toDownload[p])) ELSE r
           Loop(f, n) == [i \in 0..n |-> IF i = 0 THEN q ELSE Turn(f[i - 1])]
           S == {n \in Nat : \E f : f = Loop(f, n)}
<1>1. 0 \in S
  <2> DEFINE f == [i \in 0..0 |-> q]
  <2>1. f = Loop(f, 0)
    OBVIOUS
  <2> QED
    BY <2>1
<1>2. ASSUME NEW n \in Nat, n \in S
      PROVE  n + 1 \in S
  <2>1. PICK f : f = Loop(f, n)
    BY <1>2
  <2> HIDE DEF Turn
  <2> DEFINE g == [i \in 0..(n + 1) |-> IF i \in 0..n THEN f[i] ELSE Loop(f, n + 1)[i]]
  <2>2. ASSUME NEW i \in 0..(n + 1) PROVE g[i] = Loop(g, n + 1)[i]
    <3>1. CASE i = 0
      BY <2>1, <3>1
    <3>2. CASE i # 0
      <4>1. i - 1 \in 0..n /\ g[i - 1] = f[i - 1]
        BY <3>2
      <4>2. CASE i \in 0..n
        BY <2>1, <3>2, <4>1, <4>2
      <4>3. CASE i = n + 1
        BY <3>2, <4>1, <4>3
      <4> QED
        BY <4>2, <4>3
    <3> QED
      BY <3>1, <3>2
  <2>3. g = Loop(g, n + 1)
    BY <2>2
  <2>4. \E h : h = Loop(h, n + 1)
    BY <2>3
  <2> QED
    BY <2>4
<1> HIDE DEF S
<1>3. MaxInFlight \in Nat
  BY NumberFacts
<1>4. MaxInFlight \in S
  BY <1>1, <1>2, <1>3, SetInduction
<1>5. \E f : f = Loop(f, MaxInFlight)
  BY <1>4 DEF S
<1> DEFINE asked == CHOOSE f : f = Loop(f, MaxInFlight)
<1>6. asked = Loop(asked, MaxInFlight)
  BY <1>5
<1>7. RequestAll(q, p) = asked[MaxInFlight]
  BY DEF RequestAll
<1> HIDE DEF asked, Turn
<1>8. asked[0] = q /\ \A i \in 1..MaxInFlight : asked[i] = Turn(asked[i - 1])
  BY <1>3, <1>6
<1> QED
  BY <1>7, <1>8 DEF Turn

LEMMA RequestAllSound ==
    ASSUME NEW q, Sound(q), NEW p \in Peer
    PROVE  LET r == RequestAll(q, p) IN
           /\ Sound(r)
           /\ WantedOf(r) \subseteq WantedOf(q)
           /\ GrowsOnlyAt({p}, q, r)
<1>1. PICK asked :
          /\ asked[0] = q
          /\ \A i \in 1..MaxInFlight :
                asked[i] =
                   LET r == asked[i - 1] IN
                   IF r.nQueued[p] # 0 /\ r.nFlying[p] < MaxInFlight
                   THEN MarkInFlight(r, p, Head(r.toDownload[p])) ELSE r
          /\ RequestAll(q, p) = asked[MaxInFlight]
  BY AskedSteps
<1> DEFINE Good(r) == /\ Sound(r) /\ WantedOf(r) \subseteq WantedOf(q)
                      /\ GrowsOnlyAt({p}, q, r)
           S == {i \in Nat : i <= MaxInFlight => Good(asked[i])}
<1>2. q.nQueued \in [Peer -> Nat] /\ q.nFlying \in [Peer -> Nat]
  BY SoundFields
<1>3. 0 \in S
  BY <1>1, <1>2 DEF GrowsOnlyAt
<1>4. ASSUME NEW i \in Nat, i \in S
      PROVE  i + 1 \in S
  <2> SUFFICES ASSUME i + 1 <= MaxInFlight PROVE Good(asked[i + 1])
    OBVIOUS
  <2> DEFINE r == asked[i]
             b == Head(r.toDownload[p])
             u == MarkInFlight(r, p, b)
  <2>1. Good(r)
    BY <1>4, NumberFacts
  <2>2. asked[i + 1] = IF r.nQueued[p] # 0 /\ r.nFlying[p] < MaxInFlight THEN u ELSE r
    <3>1. i + 1 \in 1..MaxInFlight /\ (i + 1) - 1 = i
      BY NumberFacts
    <3> QED
      BY <1>1, <3>1
  <2> HIDE DEF r, u
  <2>3. CASE ~(r.nQueued[p] # 0 /\ r.nFlying[p] < MaxInFlight)
    BY <2>1, <2>2, <2>3
  <2>4. CASE r.nQueued[p] # 0 /\ r.nFlying[p] < MaxInFlight
    <3>1. /\ r.toDownload[p] \in Seq(Block) /\ r.nQueued[p] = Len(r.toDownload[p])
          /\ ToSet(r.toDownload[p]) = {c \in DOMAIN r.queuedAt : r.queuedAt[c] = p}
          /\ r.nQueued \in [Peer -> Nat] /\ r.nFlying \in [Peer -> Nat]
      BY <2>1, SoundFields DEF Tracks, Lists
    <3>2. r.toDownload[p] # <<>> /\ 1 \in 1..Len(r.toDownload[p])
      BY <2>4, <3>1, LenProperties, EmptySeq
    <3>3. b = r.toDownload[p][1]
      BY <3>1, <3>2
    <3> HIDE DEF b
    <3>4. b \in ToSet(r.toDownload[p]) /\ b \in Block
      BY <3>1, <3>2, <3>3, ListFacts
    <3>5. b \in WantedOf(r)
      BY <3>1, <3>4 DEF WantedOf
    <3>6. Sound(u) /\ WantedOf(u) = WantedOf(r) \cup {b} /\ GrowsOnlyAt({p}, r, u)
      BY <2>1, <2>4, <3>4, MarkInFlightSound DEF u
    <3>7. GrowsOnlyAt({p}, q, u)
      <4>1. u.nQueued \in [Peer -> Nat] /\ u.nFlying \in [Peer -> Nat]
        BY <3>6, SoundFields
      <4>2. \A x, y, z \in Nat : x <= y /\ y <= z => x <= z
        OBVIOUS
      <4> QED
        BY <1>2, <2>1, <3>1, <3>6, <4>1, <4>2 DEF GrowsOnlyAt
    <3> QED
      BY <2>1, <2>2, <2>4, <3>5, <3>6, <3>7
  <2> QED
    BY <2>3, <2>4
<1> HIDE DEF S, Good
<1>5. MaxInFlight \in Nat
  BY NumberFacts
<1>6. MaxInFlight \in S
  BY <1>3, <1>4, <1>5, SetInduction
<1>7. Good(asked[MaxInFlight])
  BY <1>5, <1>6 DEF S
<1> QED
  BY <1>1, <1>7 DEF Good

(* FinalizeNode. *)
LEMMA ForgetSound ==
    ASSUME NEW q, Sound(q), NEW p \in Peer
    PROVE  LET r == Forget(q, p) IN
           /\ Sound(r)
           /\ WantedOf(r) \subseteq WantedOf(q)
           /\ GrowsOnlyAt({}, q, r)
           /\ r.nQueued[p] = 0 /\ r.nFlying[p] = 0
<1> DEFINE r == Forget(q, p)
           list2 == [q.toDownload EXCEPT ![p] = <<>>]
           count2 == [q.nQueued EXCEPT ![p] = 0]
           at2 == Without(q.queuedAt, ToSet(q.toDownload[p]))
           entries3 == [q.inFlight EXCEPT ![p] = <<>>]
           list3 == [Flying(q) EXCEPT ![p] = <<>>]
           count3 == [q.nFlying EXCEPT ![p] = 0]
           at3 == Without(q.flyingAt, ToSet(Hashes(q.inFlight[p])))
           received2 == [q.received EXCEPT ![p] = Fresh]
<1>1. q = [toDownload |-> q.toDownload, inFlight |-> q.inFlight,
           nQueued |-> q.nQueued, nFlying |-> q.nFlying,
           queuedAt |-> q.queuedAt, flyingAt |-> q.flyingAt, received |-> q.received]
  BY SoundFields
<1>2. r = [toDownload |-> list2, inFlight |-> entries3, nQueued |-> count2,
           nFlying |-> count3, queuedAt |-> at2, flyingAt |-> at3, received |-> received2]
  <2> DEFINE gone == ToSet(q.toDownload[p])
             lost == ToSet(Hashes(q.inFlight[p]))
  <2>1. r = [q EXCEPT !.toDownload[p] = <<>>, !.nQueued[p] = 0,
                      !.inFlight[p] = <<>>, !.nFlying[p] = 0, !.received[p] = Fresh,
                      !.queuedAt = Without(@, gone), !.flyingAt = Without(@, lost)]
    BY DEF Forget
  <2>2. at2 = Without(q.queuedAt, gone) /\ at3 = Without(q.flyingAt, lost)
    OBVIOUS
  <2> HIDE DEF r, gone, lost, at2, at3, list3
  <2> QED
    BY <1>1, <2>1, <2>2
<1>3. /\ q.toDownload \in Lists /\ q.nQueued \in [Peer -> Nat] /\ q.queuedAt \in Maps
      /\ Tracks(q.toDownload, q.nQueued, q.queuedAt)
      /\ q.inFlight \in [Peer -> Seq(Entry)] /\ q.nFlying \in [Peer -> Nat]
      /\ q.flyingAt \in Maps /\ Tracks(Flying(q), q.nFlying, q.flyingAt)
      /\ q.received \in [Peer -> Stamp] /\ \A o \in Peer : q.nFlying[o] <= MaxInFlight
      /\ DOMAIN q.queuedAt \cap DOMAIN q.flyingAt = {}
  BY SoundFields
<1>4. Flying(q) \in Lists /\ \A o \in Peer : Flying(q)[o] = Hashes(q.inFlight[o])
  BY <1>3, FlyingFacts
<1>5. list2 \in Lists /\ count2 \in [Peer -> Nat] /\ Tracks(list2, count2, at2)
  BY <1>3, TracksForgotten
<1>6. list3 \in Lists /\ count3 \in [Peer -> Nat] /\ Tracks(list3, count3, at3)
  BY <1>3, <1>4, TracksForgotten
<1>7. /\ at2 \in Maps /\ DOMAIN at2 \subseteq DOMAIN q.queuedAt
      /\ at3 \in Maps /\ DOMAIN at3 \subseteq DOMAIN q.flyingAt
  <2>1. \A B : \A at \in Maps : Without(at, B) \in Maps /\ DOMAIN Without(at, B) \subseteq DOMAIN at
    BY WithoutFacts
  <2>2. q.queuedAt \in Maps /\ q.flyingAt \in Maps
    BY <1>3
  <2> QED
    BY <2>1, <2>2, Zenon
<1>8. <<>> \in Seq(Entry) /\ Hashes(<<>>) = <<>> /\ Fresh \in Stamp
  BY NumberFacts DEF Hashes
<1>9. /\ entries3 \in [Peer -> Seq(Entry)] /\ received2 \in [Peer -> Stamp]
      /\ \A o \in Peer : Hashes(entries3[o]) = list3[o]
      /\ list3 = [o \in Peer |-> list3[o]]
  BY <1>3, <1>4, <1>8 DEF Lists
<1>10. /\ \A o \in Peer : /\ count2[o] <= q.nQueued[o] /\ count3[o] <= q.nFlying[o]
                          /\ count3[o] <= MaxInFlight
       /\ count2[p] = 0 /\ count3[p] = 0
  BY <1>3, NumberFacts
<1> HIDE DEF list2, count2, at2, entries3, list3, count3, at3, received2, r
<1>11. Flying(r) = list3
  BY <1>2, <1>9 DEF Flying
<1>12. Sound(r)
  <2>1. DOMAIN at2 \cap DOMAIN at3 = {}
    BY <1>3, <1>7
  <2>2. \A o \in Peer : count3[o] <= MaxInFlight
    BY <1>10
  <2> QED
    BY <1>2, <1>5, <1>6, <1>7, <1>9, <1>11, <2>1, <2>2, SoundFields
<1>13. WantedOf(r) \subseteq WantedOf(q)
  BY <1>2, <1>7 DEF WantedOf
<1>14. GrowsOnlyAt({}, q, r) /\ r.nQueued[p] = 0 /\ r.nFlying[p] = 0
  BY <1>2, <1>10 DEF GrowsOnlyAt
<1> QED
  BY <1>12, <1>13, <1>14 DEF r

(* Entries with other times are entries of the same blocks. *)
LEMMA RetimedEntries ==
    ASSUME NEW old \in Seq(Entry), NEW new, DOMAIN new = DOMAIN old,
           new = [i \in DOMAIN old |-> new[i]],
           \A i \in DOMAIN old : new[i] \in Entry /\ new[i].hash = old[i].hash
    PROVE  new \in Seq(Entry) /\ Hashes(new) = Hashes(old)
<1>1. DOMAIN old = 1..Len(old) /\ Len(old) \in Nat
  BY LenProperties
<1>2. new \in [1..Len(old) -> Entry]
  BY <1>1
<1>3. new \in Seq(Entry)
  BY <1>1, <1>2
<1>4. Hashes(new) = Hashes(old)
  BY DEF Hashes
<1> QED
  BY <1>3, <1>4

LEMMA EntriesPassAndAge ==
    ASSUME NEW e \in Seq(Entry)
    PROVE  /\ PassedEntries(e) \in Seq(Entry) /\ Hashes(PassedEntries(e)) = Hashes(e)
           /\ OlderEntries(e) \in Seq(Entry) /\ Hashes(OlderEntries(e)) = Hashes(e)
<1>1. \A i \in DOMAIN e : e[i] \in Entry
  BY LenProperties, ElementOfSeq
<1>2. \A x \in Entry : /\ [x EXCEPT !.time = Passed(@)] \in Entry
                       /\ [x EXCEPT !.time = Passed(@)].hash = x.hash
                       /\ [x EXCEPT !.time = Older(@)] \in Entry
                       /\ [x EXCEPT !.time = Older(@)].hash = x.hash
  BY StampFacts DEF Entry
<1>3. PassedEntries(e) \in Seq(Entry) /\ Hashes(PassedEntries(e)) = Hashes(e)
  <2> DEFINE new == PassedEntries(e)
  <2>1. /\ DOMAIN new = DOMAIN e /\ new = [i \in DOMAIN e |-> new[i]]
        /\ \A i \in DOMAIN e : new[i] = [e[i] EXCEPT !.time = Passed(@)]
    BY DEF PassedEntries
  <2> HIDE DEF new
  <2>2. \A i \in DOMAIN e : new[i] \in Entry /\ new[i].hash = e[i].hash
    BY <1>1, <1>2, <2>1
  <2>3. new \in Seq(Entry) /\ Hashes(new) = Hashes(e)
    BY <2>1, <2>2, RetimedEntries
  <2> QED
    BY <2>3 DEF new
<1>4. OlderEntries(e) \in Seq(Entry) /\ Hashes(OlderEntries(e)) = Hashes(e)
  <2> DEFINE new == OlderEntries(e)
  <2>1. /\ DOMAIN new = DOMAIN e /\ new = [i \in DOMAIN e |-> new[i]]
        /\ \A i \in DOMAIN e : new[i] = [e[i] EXCEPT !.time = Older(@)]
    BY DEF OlderEntries
  <2> HIDE DEF new
  <2>2. \A i \in DOMAIN e : new[i] \in Entry /\ new[i].hash = e[i].hash
    BY <1>1, <1>2, <2>1
  <2>3. new \in Seq(Entry) /\ Hashes(new) = Hashes(e)
    BY <2>1, <2>2, RetimedEntries
  <2> QED
    BY <2>3 DEF new
<1> QED
  BY <1>3, <1>4

(* llLastBlockProcess of a peer is set anew. *)
LEMMA ProcessedSound ==
    ASSUME NEW q, Sound(q), NEW p \in Peer
    PROVE  LET r == Processed(q, p) IN
           /\ Sound(r)
           /\ WantedOf(r) = WantedOf(q)
           /\ r.nQueued = q.nQueued /\ r.nFlying = q.nFlying
<1> DEFINE entries2 == [q.inFlight EXCEPT ![p] = PassedEntries(@)]
           received2 == [q.received EXCEPT ![p] = Passed(@)]
<1>1. /\ q.inFlight \in [Peer -> Seq(Entry)] /\ q.received \in [Peer -> Stamp]
      /\ q = [toDownload |-> q.toDownload, inFlight |-> q.inFlight,
              nQueued |-> q.nQueued, nFlying |-> q.nFlying,
              queuedAt |-> q.queuedAt, flyingAt |-> q.flyingAt, received |-> q.received]
  BY SoundFields
<1> DEFINE r == Processed(q, p)
<1>2. r = [toDownload |-> q.toDownload, inFlight |-> entries2, nQueued |-> q.nQueued,
           nFlying |-> q.nFlying, queuedAt |-> q.queuedAt, flyingAt |-> q.flyingAt,
           received |-> received2]
  <2>1. r = [q EXCEPT !.inFlight[p] = PassedEntries(@), !.received[p] = Passed(@)]
    BY DEF Processed, ProcessedAll
  <2> HIDE DEF r
  <2> QED
    BY <1>1, <2>1
<1>3. /\ entries2 \in [Peer -> Seq(Entry)]
      /\ \A o \in Peer : Hashes(entries2[o]) = Hashes(q.inFlight[o])
  <2>1. /\ PassedEntries(q.inFlight[p]) \in Seq(Entry)
        /\ Hashes(PassedEntries(q.inFlight[p])) = Hashes(q.inFlight[p])
    BY <1>1, EntriesPassAndAge
  <2> QED
    BY <1>1, <2>1
<1>4. received2 \in [Peer -> Stamp]
  BY <1>1, StampFacts
<1> HIDE DEF entries2, received2, r
<1>5. Flying(r) = Flying(q)
  BY <1>2, <1>3 DEF Flying
<1>6. Sound(r)
  BY <1>2, <1>3, <1>4, <1>5, SoundFields
<1> QED
  BY <1>2, <1>6 DEF WantedOf, r

(* A tick makes the times older. *)
LEMMA TickLaterSound ==
    ASSUME NEW q, Sound(q)
    PROVE  LET r == TickLater(q) IN
           /\ Sound(r)
           /\ WantedOf(r) = WantedOf(q)
           /\ r.nQueued = q.nQueued /\ r.nFlying = q.nFlying
<1> DEFINE entries2 == [p \in Peer |-> OlderEntries(q.inFlight[p])]
           received2 == [p \in Peer |-> IF q.nFlying[p] = 0 THEN Fresh
                                        ELSE Older(q.received[p])]
<1>1. /\ q.inFlight \in [Peer -> Seq(Entry)] /\ q.received \in [Peer -> Stamp]
      /\ q = [toDownload |-> q.toDownload, inFlight |-> q.inFlight,
              nQueued |-> q.nQueued, nFlying |-> q.nFlying,
              queuedAt |-> q.queuedAt, flyingAt |-> q.flyingAt, received |-> q.received]
  BY SoundFields
<1> DEFINE r == TickLater(q)
<1>2. r = [toDownload |-> q.toDownload, inFlight |-> entries2, nQueued |-> q.nQueued,
           nFlying |-> q.nFlying, queuedAt |-> q.queuedAt, flyingAt |-> q.flyingAt,
           received |-> received2]
  <2>1. r = [q EXCEPT !.inFlight = entries2, !.received = received2]
    BY DEF TickLater
  <2> HIDE DEF r, entries2, received2
  <2> QED
    BY <1>1, <2>1
<1>3. /\ entries2 \in [Peer -> Seq(Entry)]
      /\ \A o \in Peer : Hashes(entries2[o]) = Hashes(q.inFlight[o])
  BY <1>1, EntriesPassAndAge
<1>4. received2 \in [Peer -> Stamp]
  BY <1>1, StampFacts, NumberFacts
<1> HIDE DEF entries2, received2, r
<1>5. Flying(r) = Flying(q)
  BY <1>2, <1>3 DEF Flying
<1>6. Sound(r)
  BY <1>2, <1>3, <1>4, <1>5, SoundFields
<1> QED
  BY <1>2, <1>6 DEF WantedOf, r

-----------------------------------------------------------------------------
(* The node: the queues with the orphans.                                  *)

DownloadInv ==
    /\ IInv
    /\ TypeOKDownload
    /\ QueuesAgree

LEMMA DownloadFacts ==
    DownloadInv <=>
        /\ IInv
        /\ nodes \in SUBSET Peer /\ closing \in SUBSET nodes
        /\ quiet \in [Peer -> 0..Longest]
        /\ Sound(queues)
        /\ \A p \in Peer \ nodes : queues.nQueued[p] = 0 /\ queues.nFlying[p] = 0
  BY DEF DownloadInv, IInv, TypeOKDownload, QueuesAgree, Sound

(* For the orphans every step of the node is one of ProcessBlock or none. *)
LEMMA NodeStepIsPoolStep ==
    ASSUME [NextDownload]_downloadVars
    PROVE  [Next]_vars
<1>1. ASSUME NEW p \in Peer, NEW b \in Block, Deliver(p, b) PROVE [Next]_vars
  BY <1>1 DEF Deliver, Refuse, Next
<1>2. ASSUME NEW b \in Own, Submit(b) PROVE [Next]_vars
  BY <1>2, DownloadAssumption DEF Submit, Next
<1>3. ASSUME NEW b \in pending, ResolveOrphans(b) PROVE [Next]_vars
  BY <1>3 DEF ResolveOrphans, Next
<1>4. ASSUME RestartNode PROVE [Next]_vars
  BY <1>4 DEF RestartNode, Next
<1>5. ASSUME NEW p \in Peer,
             \/ Connect(p) \/ CloseSocket(p) \/ Inactive(p) \/ Finalize(p)
             \/ ReceiveBytes(p) \/ OtherMessage(p) \/ SendMessages(p) \/ \E b \in Block : Announce(p, b)
      PROVE  [Next]_vars
  BY <1>5 DEF Connect, CloseSocket, Inactive, Finalize, ReceiveBytes, OtherMessage,
              SendMessages, Announce
<1>6. ASSUME Tick PROVE [Next]_vars
  BY <1>6 DEF Tick
<1>7. CASE UNCHANGED downloadVars
  BY <1>7 DEF downloadVars
<1> QED
  BY <1>1, <1>2, <1>3, <1>4, <1>5, <1>6, <1>7 DEF NextDownload

(* A peer that is gone has nothing queued after an operation either. *)
LEMMA GoneStaysEmpty ==
    ASSUME NEW q, Sound(q), NEW r, Sound(r), NEW P, GrowsOnlyAt(P, q, r), NEW N, P \subseteq N,
           \A p \in Peer \ N : q.nQueued[p] = 0 /\ q.nFlying[p] = 0
    PROVE  \A p \in Peer \ N : r.nQueued[p] = 0 /\ r.nFlying[p] = 0
<1> SUFFICES ASSUME NEW p \in Peer \ N PROVE r.nQueued[p] = 0 /\ r.nFlying[p] = 0
  OBVIOUS
<1>1. /\ q.nQueued[p] = 0 /\ q.nFlying[p] = 0
      /\ r.nQueued[p] <= q.nQueued[p] /\ r.nFlying[p] <= q.nFlying[p]
  BY DEF GrowsOnlyAt
<1>2. r.nQueued[p] \in Nat /\ r.nFlying[p] \in Nat
  BY SoundFields
<1> QED
  BY <1>1, <1>2

LEMMA NothingIsSound ==
    /\ Sound(NoQueues) /\ WantedOf(NoQueues) = {}
    /\ \A p \in Peer : NoQueues.nQueued[p] = 0 /\ NoQueues.nFlying[p] = 0
<1> DEFINE q == NoQueues
<1>1. /\ q = [toDownload |-> [p \in Peer |-> <<>>], inFlight |-> [p \in Peer |-> <<>>],
              nQueued |-> [p \in Peer |-> 0], nFlying |-> [p \in Peer |-> 0],
              queuedAt |-> <<>>, flyingAt |-> <<>>, received |-> [p \in Peer |-> Fresh]]
  BY DEF NoQueues
<1>2. /\ <<>> \in Seq(Block) /\ <<>> \in Seq(Entry) /\ Len(<<>>) = 0 /\ DOMAIN <<>> = {}
      /\ ToSet(<<>>) = {} /\ IsInjective(<<>>) /\ Hashes(<<>>) = <<>>
  BY DEF ToSet, IsInjective, Hashes
<1>3. <<>> \in Maps
  <2>1. {} \in SUBSET Block /\ <<>> \in [{} -> Peer]
    BY <1>2
  <2> QED
    BY <2>1 DEF Maps
<1> HIDE DEF q
<1>4. \A p \in Peer : Flying(q)[p] = <<>> /\ q.toDownload[p] = <<>>
  BY <1>1, <1>2 DEF Flying
<1>5. \A p \in Peer : {b \in DOMAIN q.queuedAt : q.queuedAt[b] = p} = {}
                      /\ {b \in DOMAIN q.flyingAt : q.flyingAt[b] = p} = {}
  BY <1>1, <1>2
<1>6. /\ Tracks(q.toDownload, q.nQueued, q.queuedAt)
      /\ Tracks(Flying(q), q.nFlying, q.flyingAt)
  BY <1>1, <1>2, <1>4, <1>5 DEF Tracks
<1>7. /\ q.toDownload \in Lists /\ q.inFlight \in [Peer -> Seq(Entry)]
      /\ q.nQueued \in [Peer -> Nat] /\ q.nFlying \in [Peer -> Nat]
      /\ q.received \in [Peer -> Stamp]
      /\ \A p \in Peer : q.nFlying[p] <= MaxInFlight
  BY <1>1, <1>2, NumberFacts DEF Lists
<1>8. /\ q = [toDownload |-> q.toDownload, inFlight |-> q.inFlight,
              nQueued |-> q.nQueued, nFlying |-> q.nFlying,
              queuedAt |-> q.queuedAt, flyingAt |-> q.flyingAt, received |-> q.received]
      /\ DOMAIN q.queuedAt = {} /\ DOMAIN q.flyingAt = {}
      /\ q.queuedAt \in Maps /\ q.flyingAt \in Maps
  BY <1>1, <1>2, <1>3
<1>9. Sound(q)
  BY <1>6, <1>7, <1>8, SoundFields
<1> QED
  BY <1>1, <1>8, <1>9 DEF WantedOf, q

(* The queues after each step: sound, empty at peers that are gone, and    *)
(* with nothing wanted but what was, or the block that was announced.      *)
LEMMA QueueStep ==
    ASSUME DownloadInv, [NextDownload]_downloadVars
    PROVE  /\ nodes' \in SUBSET Peer /\ closing' \in SUBSET nodes'
           /\ quiet' \in [Peer -> 0..Longest]
           /\ Sound(queues')
           /\ \A p \in Peer \ nodes' : queues'.nQueued[p] = 0 /\ queues'.nFlying[p] = 0
           /\ \/ WantedOf(queues') \subseteq WantedOf(queues)
              \/ \E p \in Peer, b \in Block :
                    Announce(p, b) /\ WantedOf(queues') \subseteq WantedOf(queues) \cup {b}
           /\ \A p \in Peer, b \in Block :
                 Deliver(p, b) => WantedOf(queues') \subseteq WantedOf(queues) \ {b}
<1> DEFINE Goal ==
      /\ nodes' \in SUBSET Peer /\ closing' \in SUBSET nodes'
      /\ quiet' \in [Peer -> 0..Longest]
      /\ Sound(queues')
      /\ \A p \in Peer \ nodes' : queues'.nQueued[p] = 0 /\ queues'.nFlying[p] = 0
      /\ \/ WantedOf(queues') \subseteq WantedOf(queues)
         \/ \E p \in Peer, b \in Block :
               Announce(p, b) /\ WantedOf(queues') \subseteq WantedOf(queues) \cup {b}
<1>1. /\ nodes \in SUBSET Peer /\ closing \in SUBSET nodes
      /\ quiet \in [Peer -> 0..Longest] /\ Sound(queues)
      /\ \A p \in Peer \ nodes : queues.nQueued[p] = 0 /\ queues.nFlying[p] = 0
      /\ 0 \in 0..Longest
  BY DownloadFacts, NumberFacts
(* A message of p sets llLastBlockProcess. *)
<1>2. ASSUME NEW p \in Peer, Heard(p)
      PROVE  /\ p \in nodes /\ UNCHANGED <<nodes, closing>>
             /\ quiet' \in [Peer -> 0..Longest]
             /\ Sound(Processed(queues, p)) /\ WantedOf(Processed(queues, p)) = WantedOf(queues)
             /\ \A o \in Peer \ nodes : /\ Processed(queues, p).nQueued[o] = 0
                                        /\ Processed(queues, p).nFlying[o] = 0
  BY <1>1, <1>2, ProcessedSound DEF Heard, Active
<1>3. ASSUME NEW p \in Peer, Connect(p) PROVE Goal
  BY <1>1, <1>3 DEF Connect
<1>4. ASSUME NEW p \in Peer, CloseSocket(p) \/ Inactive(p) PROVE Goal
  BY <1>1, <1>4 DEF CloseSocket, Inactive, Disconnect, Active
<1>5. ASSUME NEW p \in Peer, Finalize(p) PROVE Goal
  <2>1. /\ nodes' = nodes \ {p} /\ closing' = closing \ {p}
        /\ queues' = Forget(queues, p) /\ quiet' = quiet
    BY <1>5 DEF Finalize
  <2>2. /\ Sound(queues') /\ WantedOf(queues') \subseteq WantedOf(queues)
        /\ GrowsOnlyAt({}, queues, queues')
        /\ queues'.nQueued[p] = 0 /\ queues'.nFlying[p] = 0
    BY <1>1, <2>1, ForgetSound
  <2>3. \A o \in Peer \ nodes : queues'.nQueued[o] = 0 /\ queues'.nFlying[o] = 0
    BY <1>1, <2>2, GoneStaysEmpty
  <2> QED
    BY <1>1, <2>1, <2>2, <2>3
<1>6. ASSUME NEW p \in Peer, OtherMessage(p) PROVE Goal
  <2>1. Heard(p) /\ queues' = Processed(queues, p)
    BY <1>6 DEF OtherMessage
  <2> QED
    BY <1>1, <1>2, <2>1
<1>7. ASSUME NEW p \in Peer, NEW b \in Block, Announce(p, b) PROVE Goal
  <2> DEFINE q == Processed(queues, p)
  <2>1. Heard(p) /\ queues' = AddToQueue(q, p, b)
    BY <1>7 DEF Announce
  <2>2. /\ p \in nodes /\ UNCHANGED <<nodes, closing>>
        /\ quiet' \in [Peer -> 0..Longest]
        /\ Sound(q) /\ WantedOf(q) = WantedOf(queues)
        /\ \A o \in Peer \ nodes : q.nQueued[o] = 0 /\ q.nFlying[o] = 0
    BY <1>2, <2>1
  <2> HIDE DEF q
  <2>3. Sound(queues') /\ WantedOf(queues') = WantedOf(q) \cup {b} /\ GrowsOnlyAt({p}, q, queues')
    BY <2>1, <2>2, AddToQueueSound
  <2>4. \A o \in Peer \ nodes : queues'.nQueued[o] = 0 /\ queues'.nFlying[o] = 0
    <3>1. {p} \subseteq nodes
      BY <2>2
    <3> QED
      BY <2>2, <2>3, <3>1, GoneStaysEmpty
  <2> QED
    BY <1>1, <1>7, <2>2, <2>3, <2>4
<1>8. ASSUME NEW p \in Peer, NEW b \in Block, Deliver(p, b)
      PROVE  Goal /\ WantedOf(queues') = WantedOf(queues) \ {b}
  <2> DEFINE q == Processed(queues, p)
  <2>1. Heard(p) /\ queues' = MarkReceived(q, b, {p})
    BY <1>8 DEF Deliver
  <2>2. /\ p \in nodes /\ UNCHANGED <<nodes, closing>>
        /\ quiet' \in [Peer -> 0..Longest]
        /\ Sound(q) /\ WantedOf(q) = WantedOf(queues)
        /\ \A o \in Peer \ nodes : q.nQueued[o] = 0 /\ q.nFlying[o] = 0
    BY <1>2, <2>1
  <2> HIDE DEF q
  <2>3. Sound(queues') /\ WantedOf(queues') = WantedOf(q) \ {b} /\ GrowsOnlyAt({}, q, queues')
    BY <1>1, <2>1, <2>2, MarkReceivedSound
  <2>4. \A o \in Peer \ nodes : queues'.nQueued[o] = 0 /\ queues'.nFlying[o] = 0
    BY <2>2, <2>3, GoneStaysEmpty
  <2> QED
    BY <1>1, <2>2, <2>3, <2>4
<1>9. ASSUME NEW p \in Peer, SendMessages(p) PROVE Goal
  <2>1. /\ p \in nodes /\ nodes' = nodes
        /\ \/ /\ closing' = closing \cup {p} /\ quiet' = [quiet EXCEPT ![p] = 0]
              /\ queues' = queues
           \/ closing' = closing /\ quiet' = quiet /\ queues' = RequestAll(queues, p)
    BY <1>9 DEF SendMessages, Disconnect, Active
  <2>2. closing' \in SUBSET nodes' /\ quiet' \in [Peer -> 0..Longest]
    BY <1>1, <2>1
  <2>3. CASE queues' = queues
    BY <1>1, <2>1, <2>2, <2>3
  <2>4. CASE queues' = RequestAll(queues, p)
    <3>1. /\ Sound(queues') /\ WantedOf(queues') \subseteq WantedOf(queues)
          /\ GrowsOnlyAt({p}, queues, queues')
      BY <1>1, <2>4, RequestAllSound
    <3>2. \A o \in Peer \ nodes : queues'.nQueued[o] = 0 /\ queues'.nFlying[o] = 0
      <4>1. {p} \subseteq nodes
        BY <2>1
      <4> QED
        BY <1>1, <3>1, <4>1, GoneStaysEmpty
    <3> QED
      BY <1>1, <2>1, <2>2, <3>1, <3>2
  <2> QED
    BY <2>1, <2>3, <2>4
<1>10. ASSUME Tick PROVE Goal
  <2>1. /\ \A p \in nodes \ closing : quiet[p] <= Inactivity
        /\ quiet' = [p \in Peer |-> IF p \in nodes \ closing THEN quiet[p] + 1 ELSE quiet[p]]
        /\ queues' = TickLater(queues)
        /\ UNCHANGED <<nodes, closing>>
    BY <1>10 DEF Tick, Active
  <2>2. quiet' \in [Peer -> 0..Longest]
    BY <1>1, <2>1, NumberFacts DEF Longest
  <2>3. /\ Sound(queues') /\ WantedOf(queues') = WantedOf(queues)
        /\ queues'.nQueued = queues.nQueued /\ queues'.nFlying = queues.nFlying
    BY <1>1, <2>1, TickLaterSound
  <2> QED
    BY <1>1, <2>1, <2>2, <2>3
<1>11. ASSUME UNCHANGED peerVars PROVE Goal
  BY <1>1, <1>11 DEF peerVars
<1>12. ASSUME RestartNode PROVE Goal
  <2>1. /\ nodes' = {} /\ closing' = {} /\ queues' = NoQueues
        /\ quiet' = [p \in Peer |-> 0]
    BY <1>12 DEF RestartNode
  <2> QED
    BY <1>1, <2>1, NothingIsSound
<1>13. ASSUME NEW p \in Peer, ReceiveBytes(p) PROVE Goal
  BY <1>1, <1>13 DEF ReceiveBytes
<1> HIDE DEF Goal
<1>14. Goal
  BY <1>3, <1>4, <1>5, <1>6, <1>7, <1>8, <1>9, <1>10, <1>11, <1>12, <1>13
  DEF NextDownload, Submit, ResolveOrphans, downloadVars
<1> QED
  BY <1>8, <1>14 DEF Goal

LEMMA DownloadInit == InitDownload => DownloadInv
<1> SUFFICES ASSUME InitDownload PROVE DownloadInv
  OBVIOUS
<1>1. /\ nodes = {} /\ closing = {} /\ queues = NoQueues
      /\ quiet = [p \in Peer |-> 0] /\ IInv
  BY InitIInv DEF InitDownload
<1>2. quiet \in [Peer -> 0..Longest]
  BY <1>1, NumberFacts
<1> QED
  BY <1>1, <1>2, NothingIsSound, DownloadFacts

LEMMA DownloadStep == DownloadInv /\ [NextDownload]_downloadVars => DownloadInv'
<1> SUFFICES ASSUME DownloadInv, [NextDownload]_downloadVars PROVE DownloadInv'
  OBVIOUS
<1>1. IInv'
  BY NodeStepIsPoolStep, PoolStep DEF DownloadInv
<1>2. /\ nodes' \in SUBSET Peer /\ closing' \in SUBSET nodes'
      /\ quiet' \in [Peer -> 0..Longest]
      /\ queues' \in Queues /\ Agree(queues)'
      /\ \A p \in Peer \ nodes' : queues'.nQueued[p] = 0 /\ queues'.nFlying[p] = 0
  BY QueueStep DEF Sound, Agree, Tracks
<1>3. TypeOKDownload'
  BY <1>1, <1>2 DEF IInv, TypeOKDownload
<1>4. QueuesAgree'
  BY <1>2 DEF QueuesAgree
<1> QED
  BY <1>1, <1>3, <1>4 DEF DownloadInv

(* The lists and counters of every peer agree with the two global maps,    *)
(* and the orphans with each other, after every step of any thread.        *)
THEOREM DownloadInvariance == SpecDownload => []DownloadInv
  BY DownloadInit, DownloadStep, PTL DEF SpecDownload

(* Node states, queues and clocks keep their types: no counter of          *)
(* ST_NodeState ever falls below zero.                                     *)
THEOREM DownloadTypeCorrect == SpecDownload => []TypeOKDownload
<1>1. DownloadInv => TypeOKDownload
  BY DEF DownloadInv
<1> QED
  BY <1>1, DownloadInvariance, PTL

(* MarkBlockAsReceived finds the state of the peer and the list entry that *)
(* the maps point to, whichever peer delivers and whichever hangs up.      *)
THEOREM QueuesStayInStep == SpecDownload => []QueuesAgree
<1>1. DownloadInv => QueuesAgree
  BY DEF DownloadInv
<1> QED
  BY <1>1, DownloadInvariance, PTL

(* What a step adds to the blocks that are both held and wanted: nothing   *)
(* but a block of submitblock or of the miner.                             *)
LEMMA HeldStep ==
    ASSUME DownloadInv, [NextDownload]_downloadVars, NEW b \in HeldAndWanted' \ HeldAndWanted
    PROVE  Submit(b)
<1> DEFINE held == index \cup orphans
<1>1. /\ b \in WantedOf(queues') /\ b \in held'
      /\ b \notin WantedOf(queues) \/ b \notin held
  BY DEF HeldAndWanted, Wanted, WantedOf
<1>2. held' \subseteq held => \E p \in Peer : Announce(p, b)
  <2>1. CASE WantedOf(queues') \subseteq WantedOf(queues)
    BY <1>1, <2>1
  <2>2. CASE \E p \in Peer, c \in Block :
                Announce(p, c) /\ WantedOf(queues') \subseteq WantedOf(queues) \cup {c}
    BY <1>1, <2>2
  <2> QED
    BY <2>1, <2>2, QueueStep
<1>3. ASSUME NEW p \in Peer, Announce(p, b) PROVE FALSE
  BY <1>1, <1>3 DEF Announce, vars
<1>4. ASSUME held' \subseteq held PROVE FALSE
  BY <1>2, <1>3, <1>4
<1>5. ASSUME NEW p \in Peer, NEW c \in Block, Deliver(p, c) PROVE FALSE
  <2>1. WantedOf(queues') \subseteq WantedOf(queues) \ {c}
    BY <1>5, QueueStep
  <2>2. held' \subseteq held \cup {c}
    BY <1>5 DEF Deliver, HoldOrphan, AcceptBlock, Refuse, Prune, vars
  <2> QED
    BY <1>1, <2>1, <2>2
<1>6. ASSUME NEW p \in pending, ResolveOrphans(p) PROVE FALSE
  <2>1. byPrev = orphans
    BY DEF DownloadInv, IInv, NoDanglingOrphan
  <2>2. held' \subseteq held
    BY <1>6, <2>1 DEF ResolveOrphans, Resolve
  <2> QED
    BY <1>4, <2>2
<1>7. ASSUME RestartNode PROVE FALSE
  <2>1. held' \subseteq held
    BY <1>7 DEF RestartNode, Restart
  <2> QED
    BY <1>4, <2>1
<1>8. ASSUME UNCHANGED vars PROVE FALSE
  <2>1. held' \subseteq held
    BY <1>8 DEF vars
  <2> QED
    BY <1>4, <2>1
<1>9. ASSUME NEW c \in Own, Submit(c) PROVE c = b
  <2>1. held' \subseteq held \cup {c} /\ UNCHANGED queues
    BY <1>9 DEF Submit, AcceptBlock, peerVars
  <2> QED
    BY <1>1, <2>1
<1>10. ASSUME NEW p \in Peer,
              \/ Connect(p) \/ CloseSocket(p) \/ Inactive(p) \/ Finalize(p)
              \/ ReceiveBytes(p) \/ OtherMessage(p) \/ SendMessages(p) \/ \E c \in Block : Announce(p, c)
       PROVE  FALSE
  BY <1>8, <1>10 DEF Connect, CloseSocket, Inactive, Finalize, ReceiveBytes, OtherMessage,
                     SendMessages, Announce
<1>11. ASSUME Tick \/ UNCHANGED downloadVars PROVE FALSE
  BY <1>8, <1>11 DEF Tick, downloadVars
<1> QED
  BY <1>5, <1>6, <1>7, <1>9, <1>10, <1>11 DEF NextDownload

(* SendMessages asks for no block that is already there, except one that   *)
(* came from submitblock or from the miner while it was queued.            *)
THEOREM HeldIsNeverWanted == SpecDownload => HeldIsNotWanted
<1>1. DownloadInv /\ [NextDownload]_downloadVars
        => [\A b \in HeldAndWanted' \ HeldAndWanted : Submit(b)]_downloadVars
  BY HeldStep
<1> QED
  BY <1>1, DownloadInvariance, PTL DEF SpecDownload, HeldIsNotWanted
=============================================================================
