------------------------- MODULE Checkpoints_proofs -------------------------
(***************************************************************************)
(* Checkpoints for every tree of blocks, every branch of checkpoints, every *)
(* order of arrival and any number of restarts.                            *)
(***************************************************************************)
EXTENDS Checkpoints, FiniteSetTheorems, WellFoundedInduction, TLAPS

(* A block is recorded after its parent. *)
ParentsKnown == \A b \in index : Anc[b] \subseteq index

(* Later blocks have higher sequence numbers. *)
Counted == \A b \in index : seq[b] < Cardinality(index)

(* No block of the set is better than b. *)
NoneBetter(b, blocks) == \A c \in blocks : ~Less(b, c)

(* A block that no checkpoint forbids, see BestLocked. *)
Allowed(b) ==
    \A p \in points : Contains(b, p) \/ (Height(b) < Height(p) /\ p \notin index)
AllowedIsCandidate == \A b \in index : Allowed(b) => b \in valid

(* The loop of CheckActiveChain: it goes for the last checkpoint block and  *)
(* what is above it, and has seen all candidates better than the one it is  *)
(* at.                                                                      *)
SweepInOrder ==
    /\ last \in points \cap index /\ last \in Anc[mostWork]
    /\ Height(target) <= Height(last)
    /\ at \in valid \cup {Nil}
    /\ mostWork # last => NoneBetter(mostWork, valid)
    /\ mostWork = last => \A c \in valid : at # Nil /\ ~Less(at, c)

(* Checkpoints that have been passed to CheckActiveChain. *)
Passed == points \ pending

(* No block of the set is as high as a passed checkpoint without its block. *)
BelowUnknown(blocks) == \A p \in Passed \ index : \A c \in blocks : Height(c) < Height(p)

OnPassed(b) == \A p \in Passed : Height(p) <= Height(b) => p \in Anc[b]

(* The inductive invariant.  What the properties say of a node at rest is   *)
(* carried through the loop by SweepInOrder, and through the time between a *)
(* checkpoint in the map and the lock by Passed.                            *)
CInv ==
    /\ TypeOK
    /\ IsFiniteSet(index) /\ ParentsKnown /\ Counted
    /\ Genesis \in points /\ Genesis \in index
    /\ pc # "sweep" => mostWork = active
    /\ "rewound" \notin astray =>
          /\ AllowedIsCandidate
          /\ pc # "sweep" => NoneBetter(active, valid)
          /\ pc = "sweep" => SweepInOrder
    /\ astray = {} =>
          /\ pc = "idle" => OnPassed(active)
          /\ pc = "starting" => BelowUnknown(index)
          /\ pc = "sweep" =>
                /\ \A p \in Passed \cap index : p \in Anc[last]
                /\ BelowUnknown(valid \cup {mostWork})

-----------------------------------------------------------------------------
(* The tree.                                                               *)

(* Every nonempty set of natural numbers has a least element. *)
LEMMA LeastNat ==
    ASSUME NEW T, T \subseteq Nat, T # {}
    PROVE  \E n \in T : \A m \in T : n <= m
<1> DEFINE R == {ss \in Nat \X Nat : ss[1] < ss[2]}
<1>1. IsWellFoundedOn(R, Nat)
  BY NatLessThanWellFounded DEF OpToRel
<1>2. R = {ss \in Nat \X Nat : ss[1] < ss[2]}
  OBVIOUS
<1> HIDE DEF R
<1>3. PICK n \in T : \A m \in T : <<m, n>> \notin R
  BY <1>1, WFMin
<1>4. ASSUME NEW m \in T PROVE n <= m
  <2>1. m \in Nat /\ n \in Nat /\ <<m, n>> \notin R
    BY <1>3
  <2>2. ~(m < n)
    BY <1>2, <2>1
  <2> QED
    BY <2>1, <2>2
<1> QED
  BY <1>4

(* Induction, as a fact about the set of the numbers that have a property. *)
LEMMA SetInduction ==
    ASSUME NEW S, 0 \in S, \A n \in Nat : n \in S => n + 1 \in S
    PROVE  Nat \subseteq S
<1> SUFFICES ASSUME Nat \ S # {} PROVE FALSE
  OBVIOUS
<1>1. PICK n \in Nat \ S : \A m \in Nat \ S : n <= m
  BY LeastNat
<1>2. n # 0 /\ n - 1 \in Nat
  BY <1>1
<1>3. n - 1 \in S
  BY <1>1, <1>2
<1> QED
  BY <1>1, <1>2, <1>3

(* A chain goes from a block down to the genesis block, and contains the   *)
(* chains of its blocks.                                                   *)
LEMMA OwnChain ==
    ASSUME NEW b \in Block
    PROVE  /\ b \in Anc[b] /\ Genesis \in Anc[b] /\ Anc[b] \subseteq Block
           /\ \A a \in Anc[b] : Anc[a] \subseteq Anc[b]
  BY TreeAssumption

(* A block's chain is its parent's and itself. *)
LEMMA ParentChain ==
    ASSUME NEW b \in Block, b # Genesis
    PROVE  /\ Prev[b] \in Block /\ b \notin Anc[Prev[b]]
           /\ Anc[b] = Anc[Prev[b]] \cup {b}
  BY TreeAssumption

(* Work grows along a chain. *)
LEMMA WorkGrows ==
    ASSUME NEW b \in Block, NEW a \in Anc[b]
    PROVE  /\ Work[a] \in Nat /\ Work[b] \in Nat
           /\ a # b => Work[a] < Work[b]
           /\ a # b => b \notin Anc[a]
<1>1. /\ a \in Block /\ Work \in [Block -> Nat]
      /\ a # b => Work[a] < Work[b]
      /\ b \in Anc[a] /\ a # b => Work[b] < Work[a]
  BY TreeAssumption
<1>2. Work[a] \in Nat /\ Work[b] \in Nat
  BY <1>1
<1> QED
  BY <1>1, <1>2

(* A chain is finite: its blocks differ in their work. *)
LEMMA ChainFinite ==
    ASSUME NEW b \in Block
    PROVE  IsFiniteSet(Anc[b])
<1> DEFINE f == [a \in Anc[b] |-> Work[a]]
<1>1. \A a \in Anc[b] : Work[a] \in 0..Work[b]
  BY WorkGrows
<1>2. ASSUME NEW a \in Anc[b], NEW c \in Anc[b], Work[a] = Work[c] PROVE a = c
  <2>1. a \in Anc[c] \/ c \in Anc[a]
    BY TreeAssumption
  <2>2. a \in Block /\ c \in Block
    BY OwnChain
  <2> QED
    BY <1>2, <2>1, <2>2, WorkGrows
<1>3. f \in Injection(Anc[b], 0..Work[b])
  BY <1>1, <1>2 DEF Injection, IsInjective
<1>4. IsFiniteSet(0..Work[b])
  BY FS_Interval, TreeAssumption
<1> QED
  BY <1>3, <1>4, FS_Injection

(* Heights count the blocks between a block and the genesis block. *)
LEMMA HeightType ==
    ASSUME NEW b \in Block
    PROVE  Height(b) \in Nat
<1>1. Cardinality(Anc[b]) \in Nat /\ Cardinality(Anc[b]) # 0
  BY ChainFinite, OwnChain, FS_CardinalityType, FS_EmptySet
<1> QED
  BY <1>1 DEF Height

LEMMA HeightStep ==
    /\ Height(Genesis) = 0
    /\ \A b \in Block \ {Genesis} : Height(b) = Height(Prev[b]) + 1
<1>1. Height(Genesis) = 0
  <2>1. Cardinality(Anc[Genesis]) = 1
    BY TreeAssumption, FS_Singleton
  <2> QED
    BY <2>1 DEF Height
<1>2. ASSUME NEW b \in Block \ {Genesis} PROVE Height(b) = Height(Prev[b]) + 1
  <2>1. Prev[b] \in Block /\ b \notin Anc[Prev[b]] /\ Anc[b] = Anc[Prev[b]] \cup {b}
    BY ParentChain
  <2>2. IsFiniteSet(Anc[Prev[b]]) /\ Cardinality(Anc[Prev[b]]) \in Nat
    BY <2>1, ChainFinite, FS_CardinalityType
  <2>3. Cardinality(Anc[b]) = Cardinality(Anc[Prev[b]]) + 1
    BY <2>1, <2>2, FS_AddElement
  <2> QED
    BY <2>2, <2>3 DEF Height
<1> QED
  BY <1>1, <1>2

LEMMA HeightGrows ==
    ASSUME NEW b \in Block, NEW a \in Anc[b]
    PROVE  Height(a) <= Height(b) /\ (a # b => Height(a) < Height(b))
<1>1. a \in Block /\ Anc[a] \subseteq Anc[b]
  BY OwnChain
<1>2. /\ Cardinality(Anc[a]) \in Nat /\ Cardinality(Anc[b]) \in Nat
      /\ Cardinality(Anc[a]) <= Cardinality(Anc[b])
      /\ Cardinality(Anc[a]) = Cardinality(Anc[b]) => Anc[a] = Anc[b]
  BY <1>1, ChainFinite, FS_Subset, FS_CardinalityType
<1>3. a # b => Anc[a] # Anc[b]
  BY OwnChain, WorkGrows
<1> QED
  BY <1>2, <1>3 DEF Height

(* Of two blocks of one chain the lower one is below the other. *)
LEMMA LowerIsAncestor ==
    ASSUME NEW b \in Block, NEW a \in Anc[b], NEW c \in Anc[b], Height(a) <= Height(c)
    PROVE  a \in Anc[c]
<1>1. a \in Block /\ c \in Block /\ (a \in Anc[c] \/ c \in Anc[a])
  BY TreeAssumption
<1>2. Height(a) \in Nat /\ Height(c) \in Nat
  BY <1>1, HeightType
<1>3. c \in Anc[a] => a = c
  BY <1>1, <1>2, HeightGrows
<1> QED
  BY <1>1, <1>3, OwnChain

LEMMA SameHeight ==
    ASSUME NEW b \in Block, NEW a \in Anc[b], NEW c \in Anc[b], Height(a) = Height(c)
    PROVE  a = c
<1>1. a \in Block /\ c \in Block
  BY OwnChain
<1>2. Height(a) \in Nat /\ Height(c) \in Nat
  BY <1>1, HeightType
<1>3. a \in Anc[c] /\ c \in Anc[a]
  BY <1>2, LowerIsAncestor
<1> QED
  BY <1>1, <1>3, WorkGrows

(* A chain has a block at every height up to its tip's. *)
LEMMA AtHeightIs ==
    ASSUME NEW b \in Block, NEW h \in Nat, h <= Height(b)
    PROVE  AtHeight(b, h) \in Anc[b] /\ Height(AtHeight(b, h)) = h
<1> DEFINE Has(c) == \E a \in Anc[c] : Height(a) = h
           P == {n \in Nat : \A c \in Block : Height(c) = h + n => Has(c)}
<1>1. 0 \in P
  BY OwnChain
<1>2. ASSUME NEW n \in Nat, n \in P PROVE n + 1 \in P
  <2>1. ASSUME NEW c \in Block, Height(c) = h + (n + 1) PROVE Has(c)
    <3>1. c # Genesis
      BY <2>1, HeightStep
    <3>2. Prev[c] \in Block /\ Anc[Prev[c]] \subseteq Anc[c]
      BY <3>1, ParentChain
    <3>3. Height(Prev[c]) \in Nat /\ Height(c) = Height(Prev[c]) + 1
      BY <3>1, <3>2, HeightType, HeightStep
    <3>4. Height(Prev[c]) = h + n
      BY <2>1, <3>3
    <3>5. Has(Prev[c])
      BY <1>2, <3>2, <3>4
    <3> QED
      BY <3>2, <3>5
  <2> QED
    BY <2>1
<1> HIDE DEF P
<1>3. Nat \subseteq P
  BY <1>1, <1>2, SetInduction
<1>4. Height(b) \in Nat
  BY HeightType
<1>5. Height(b) - h \in Nat /\ Height(b) = h + (Height(b) - h)
  BY <1>4
<1>6. Height(b) - h \in P
  BY <1>3, <1>5
<1>7. Has(b)
  BY <1>5, <1>6 DEF P
<1> QED
  BY <1>7 DEF AtHeight

(* Some blocks of a chain have a highest among them. *)
LEMMA Highest ==
    ASSUME NEW b \in Block, NEW S, S \subseteq Anc[b], S # {}
    PROVE  \E h \in S : \A a \in S : Height(a) <= Height(h)
<1> DEFINE T == {Height(b) - Height(a) : a \in S}
<1>1. \A a \in S : Height(a) \in Nat /\ Height(b) \in Nat /\ Height(a) <= Height(b)
  BY OwnChain, HeightType, HeightGrows
<1>2. T \subseteq Nat /\ T # {}
  BY <1>1
<1> HIDE DEF T
<1>3. PICK n \in T : \A m \in T : n <= m
  BY <1>2, LeastNat
<1>4. PICK h \in S : n = Height(b) - Height(h)
  BY <1>3 DEF T
<1>5. ASSUME NEW a \in S PROVE Height(a) <= Height(h)
  <2>1. Height(b) - Height(a) \in T
    BY DEF T
  <2>2. Height(b) - Height(h) <= Height(b) - Height(a)
    BY <1>3, <1>4, <2>1
  <2> QED
    BY <1>1, <2>2
<1> QED
  BY <1>5

-----------------------------------------------------------------------------
(* The order of the candidates, for any sequence numbers.                  *)

Worse(s, a, b) ==
    \/ Work[a] < Work[b]
    \/ Work[a] = Work[b] /\ s[a] > s[b]
    \/ Work[a] = Work[b] /\ s[a] = s[b] /\ Address[a] > Address[b]

LEMMA LessIsWorse == \A a, b : Less(a, b) <=> Worse(seq, a, b)
BY DEF Less, Worse

LEMMA OrderTypes ==
    ASSUME NEW s \in [Block -> Nat], NEW a \in Block
    PROVE  Work[a] \in Nat /\ s[a] \in Nat /\ Address[a] \in Nat
BY TreeAssumption, AddressAssumption

(* CBlockIndexWorkComparator is a strict order without ties.               *)
LEMMA NotWorseThanItself ==
    ASSUME NEW s \in [Block -> Nat], NEW a \in Block
    PROVE  ~Worse(s, a, a)
BY OrderTypes DEF Worse

LEMMA NotWorse ==
    ASSUME NEW s \in [Block -> Nat], NEW a \in Block, NEW b \in Block, NEW c \in Block,
           ~Worse(s, a, b), ~Worse(s, b, c)
    PROVE  ~Worse(s, a, c)
<1>1. /\ Work[a] \in Nat /\ Work[b] \in Nat /\ Work[c] \in Nat
      /\ s[a] \in Nat /\ s[b] \in Nat /\ s[c] \in Nat
      /\ Address[a] \in Nat /\ Address[b] \in Nat /\ Address[c] \in Nat
  BY OrderTypes
<1> QED
  BY <1>1 DEF Worse

LEMMA NoTies ==
    ASSUME NEW s \in [Block -> Nat], NEW a \in Block, NEW b \in Block,
           ~Worse(s, a, b), ~Worse(s, b, a)
    PROVE  a = b
<1>1. /\ Work[a] \in Nat /\ Work[b] \in Nat
      /\ s[a] \in Nat /\ s[b] \in Nat
      /\ Address[a] \in Nat /\ Address[b] \in Nat
  BY OrderTypes
<1>2. Address[a] = Address[b]
  BY <1>1 DEF Worse
<1> QED
  BY <1>2, AddressAssumption

LEMMA OneIsNotWorse ==
    ASSUME NEW s \in [Block -> Nat], NEW a \in Block, NEW b \in Block
    PROVE  ~Worse(s, a, b) \/ ~Worse(s, b, a)
<1>1. /\ Work[a] \in Nat /\ Work[b] \in Nat
      /\ s[a] \in Nat /\ s[b] \in Nat
      /\ Address[a] \in Nat /\ Address[b] \in Nat
  BY OrderTypes
<1> QED
  BY <1>1 DEF Worse

(* Finitely many blocks have a best one. *)
HasBest(s, T) == \E b \in T : \A c \in T : ~Worse(s, b, c)

LEMMA BestExists ==
    ASSUME NEW s \in [Block -> Nat], NEW S, S \subseteq Block, S # {}, IsFiniteSet(S)
    PROVE  HasBest(s, S)
<1> DEFINE P == {n \in Nat : \A T \in SUBSET S :
                     T # {} /\ Cardinality(T) = n => HasBest(s, T)}
<1>1. \A T \in SUBSET S : IsFiniteSet(T) /\ Cardinality(T) \in Nat
  BY FS_Subset, FS_CardinalityType
<1>2. 0 \in P
  BY <1>1, FS_EmptySet
<1>3. ASSUME NEW n \in Nat, n \in P PROVE n + 1 \in P
  <2>1. ASSUME NEW T \in SUBSET S, T # {}, Cardinality(T) = n + 1 PROVE HasBest(s, T)
    <3>1. PICK a \in T : TRUE
      BY <2>1
    <3> DEFINE U == T \ {a}
    <3>2. U \in SUBSET S /\ Cardinality(U) = n
      <4>1. Cardinality(U) = Cardinality(T) - 1
        BY <1>1, <3>1, FS_RemoveElement
      <4> QED
        BY <2>1, <4>1
    <3>3. CASE U = {}
      BY <3>1, <3>3, NotWorseThanItself DEF HasBest
    <3>4. CASE U # {}
      <4>1. HasBest(s, U)
        BY <1>3, <3>2, <3>4
      <4>2. PICK b \in U : \A c \in U : ~Worse(s, b, c)
        BY <4>1 DEF HasBest
      <4>3. a \in Block /\ b \in Block /\ a \in T /\ b \in T /\ T = U \cup {a}
        BY <3>1
      <4>4. CASE ~Worse(s, b, a)
        <5>1. \A c \in T : ~Worse(s, b, c)
          BY <4>2, <4>3, <4>4
        <5> QED
          BY <4>3, <5>1 DEF HasBest
      <4>5. CASE ~Worse(s, a, b)
        <5>1. ASSUME NEW c \in T PROVE ~Worse(s, a, c)
          <6>1. c \in Block
            OBVIOUS
          <6>2. CASE c = a
            BY <4>3, <6>2, NotWorseThanItself
          <6>3. CASE c \in U
            <7>1. ~Worse(s, b, c)
              BY <4>2, <6>3
            <7> QED
              BY <4>3, <4>5, <6>1, <7>1, NotWorse
          <6> QED
            BY <6>2, <6>3
        <5> QED
          BY <4>3, <5>1 DEF HasBest
      <4> QED
        BY <4>3, <4>4, <4>5, OneIsNotWorse
    <3> QED
      BY <3>3, <3>4
  <2> QED
    BY <2>1
<1> HIDE DEF P
<1>4. Nat \subseteq P
  BY <1>2, <1>3, SetInduction
<1>5. S \in SUBSET S /\ Cardinality(S) \in P
  BY <1>1, <1>4
<1> QED
  BY <1>5 DEF P

(* Best is what *rbegin() of the ordered set is. *)
LEMMA BestIs ==
    ASSUME seq \in [Block -> Nat], NEW S, S \subseteq Block, IsFiniteSet(S)
    PROVE  /\ S = {} => Best(S) = Nil
           /\ S # {} => Best(S) \in S /\ NoneBetter(Best(S), S)
           /\ Nil \notin S
<1>1. S # {} => \E b \in S : IsBest(b, S)
  BY BestExists, LessIsWorse DEF HasBest, IsBest
<1>2. S # {} => IsBest(Best(S), S)
  BY <1>1 DEF Best
<1>3. Nil \notin S
  BY TreeAssumption
<1> QED
  BY <1>2, <1>3 DEF Best, IsBest, NoneBetter

-----------------------------------------------------------------------------
(* What the node knows of the checkpoints.                                 *)

(* A state's chains and candidates. *)
LEMMA Known ==
    ASSUME CInv
    PROVE  /\ points \subseteq Block /\ points \subseteq Anc[Official]
           /\ index \subseteq Block /\ valid \subseteq Block /\ IsFiniteSet(valid)
           /\ seq \in [Block -> Nat]
           /\ mostWork \in Block /\ active \in Block
<1>1. Official \in Block /\ Anc[Official] \subseteq Block
  BY OfficialAssumption, OwnChain
<1>2. IsFiniteSet(valid)
  BY FS_Subset DEF CInv, TypeOK
<1> QED
  BY <1>1, <1>2 DEF CInv, TypeOK

(* GetLastCheckpoint finds a block, above all other checkpoint blocks the  *)
(* node has and below every checkpoint without its block.                  *)
LEMMA LastCheckpointIs ==
    ASSUME CInv
    PROVE  /\ LastCheckpoint \in points \cap index
           /\ LastCheckpoint \in Block
           /\ \A q \in points \cap index : q \in Anc[LastCheckpoint]
           /\ \A p \in points \ index : Height(LastCheckpoint) < Height(p)
<1> DEFINE S == points \cap index
<1>1. S \subseteq Anc[Official] /\ S # {}
  BY Known DEF CInv
<1>2. Official \in Block
  BY OfficialAssumption
<1>3. \E p \in S : \A q \in S : Height(q) <= Height(p)
  BY <1>1, <1>2, Highest
<1>4. LastCheckpoint \in S /\ \A q \in S : Height(q) <= Height(LastCheckpoint)
  BY <1>3 DEF LastCheckpoint
<1>5. LastCheckpoint \in Block /\ LastCheckpoint \in Anc[Official]
  BY <1>1, <1>2, <1>4, OwnChain
<1>6. ASSUME NEW q \in S PROVE q \in Anc[LastCheckpoint]
  BY <1>1, <1>2, <1>4, <1>5, LowerIsAncestor
<1>7. ASSUME NEW p \in points \ index PROVE Height(LastCheckpoint) < Height(p)
  <2>1. p \in Anc[Official] /\ p \in Block
    BY Known
  <2>2. Height(p) \in Nat /\ Height(LastCheckpoint) \in Nat
    BY <1>5, <2>1, HeightType
  <2>3. Height(p) <= Height(LastCheckpoint) => p \in Anc[LastCheckpoint]
    BY <1>2, <1>5, <2>1, LowerIsAncestor
  <2>4. Anc[LastCheckpoint] \subseteq index
    BY <1>4 DEF CInv, ParentsKnown
  <2> QED
    BY <2>2, <2>3, <2>4
<1> QED
  BY <1>4, <1>5, <1>6, <1>7

(* The last block a candidate shares with the chain to activate. *)
LEMMA ForkIs ==
    ASSUME mostWork \in Block, NEW c \in Block
    PROVE  /\ Fork(c) \in Anc[c] /\ Fork(c) \in Anc[mostWork]
           /\ \A a \in Anc[c] \cap Anc[mostWork] : Height(a) <= Height(Fork(c))
<1> DEFINE S == Anc[c] \cap Anc[mostWork]
<1>1. S \subseteq Anc[c] /\ S # {}
  BY OwnChain
<1>2. \E h \in S : \A a \in S : Height(a) <= Height(h)
  BY <1>1, Highest
<1> QED
  BY <1>2 DEF Fork

-----------------------------------------------------------------------------
(* The steps.                                                              *)

LEMMA InitCInv == Init => CInv
<1> SUFFICES ASSUME Init PROVE CInv
  OBVIOUS
<1> USE DEF Init
<1>1. Genesis \in Block /\ Nil \notin Block /\ Anc[Genesis] = {Genesis}
  BY TreeAssumption
<1>2. Genesis \in Anc[Official] /\ Height(Genesis) = 0
  BY OfficialAssumption, OwnChain, HeightStep
<1>3. TypeOK
  BY <1>1, <1>2, MaxRestartsAssumption DEF TypeOK, Pc
<1>4. IsFiniteSet(index) /\ ParentsKnown /\ Counted
  <2>1. IsFiniteSet({Genesis}) /\ Cardinality({Genesis}) = 1
    BY FS_Singleton
  <2> QED
    BY <1>1, <2>1 DEF ParentsKnown, Counted
<1>5. AllowedIsCandidate
  BY DEF AllowedIsCandidate
<1>6. NoneBetter(active, valid)
  <2>1. seq \in [Block -> Nat]
    OBVIOUS
  <2>2. ~Less(Genesis, Genesis)
    BY <1>1, <2>1, NotWorseThanItself, LessIsWorse
  <2> QED
    BY <2>2 DEF NoneBetter
<1>7. OnPassed(active)
  BY <1>1 DEF OnPassed, Passed
<1> QED
  BY <1>3, <1>4, <1>5, <1>6, <1>7 DEF CInv

(* The chain FindMostWorkChain comes to: the one there is, or the new block *)
(* if no candidate has as much work.                                       *)
LEMMA ArriveKeepsBest ==
    ASSUME CInv, NEW b \in Block, Arrive(b), "rewound" \notin astray
    PROVE  /\ NoneBetter(active, valid)'
           /\ active' \in {active, b}
<1>1. /\ valid \subseteq index /\ mostWork \in index /\ mostWork = active
      /\ index \subseteq Block /\ IsFiniteSet(index)
      /\ NoneBetter(active, valid) /\ Counted
  BY DEF CInv, TypeOK, Arrive
<1>2. seq \in [Block -> Nat] /\ Cardinality(index) \in Nat
  BY <1>1, Known, FS_CardinalityType
<1>3. seq' \in [Block -> Nat]
  BY <1>2 DEF Arrive
<1>4. /\ \A c \in index : seq'[c] = seq[c] /\ seq[c] < Cardinality(index)
      /\ seq'[b] = Cardinality(index)
  BY <1>1, <1>2 DEF Arrive, Counted
<1>5. \A c, e \in index : Worse(seq', c, e) <=> Worse(seq, c, e)
  BY <1>4 DEF Worse
<1>6. /\ valid' = valid \cup {b} /\ active' = mostWork' /\ b \notin index
      /\ mostWork' = IF \A c \in valid \cup {mostWork} : Work[c] < Work[b] THEN b
                     ELSE Best(valid \cup {mostWork})
  BY DEF Arrive
<1>7. CASE \A c \in valid \cup {mostWork} : Work[c] < Work[b]
  <2>1. active' = b
    BY <1>6, <1>7
  <2>2. ASSUME NEW c \in valid PROVE ~Worse(seq', b, c)
    <3>1. Work[c] \in Nat /\ Work[b] \in Nat /\ Work[c] < Work[b]
      BY <1>1, <1>7, TreeAssumption
    <3> QED
      BY <3>1 DEF Worse
  <2>3. ~Worse(seq', b, b)
    BY <1>3, NotWorseThanItself
  <2>4. \A c \in valid' : ~Worse(seq', active', c)
    BY <1>6, <2>1, <2>2, <2>3
  <2> QED
    BY <2>1, <2>4 DEF NoneBetter, Less, Worse
<1>8. CASE ~ \A c \in valid \cup {mostWork} : Work[c] < Work[b]
  <2> DEFINE S == valid \cup {mostWork}
             m == Best(S)
  <2>1. S \subseteq index /\ S \subseteq Block /\ IsFiniteSet(S) /\ S # {}
    BY <1>1, FS_Subset
  <2>2. m \in S /\ NoneBetter(m, S)
    BY <1>2, <2>1, BestIs
  <2> HIDE DEF m
  <2>3. active' = m /\ m \in Block /\ m \in index
    BY <1>6, <1>8, <2>1, <2>2 DEF m
  <2>4. ~Worse(seq, m, active) /\ \A c \in S : ~Worse(seq, m, c)
    BY <1>1, <2>2, LessIsWorse DEF NoneBetter
  <2>5. ~Worse(seq, active, m)
    <3>1. active \in Block /\ ~Worse(seq, active, active)
      BY <1>1, <1>2, NotWorseThanItself
    <3> QED
      BY <1>1, <2>2, <3>1, LessIsWorse DEF NoneBetter
  <2>6. m = active
    BY <1>1, <1>2, <2>3, <2>4, <2>5, NoTies
  <2>7. ~Worse(seq', m, b)
    <3>1. PICK c \in S : ~(Work[c] < Work[b])
      BY <1>8
    <3>2. Work[c] \in Nat /\ Work[b] \in Nat /\ Work[m] \in Nat
      BY <2>1, <2>3, TreeAssumption
    <3>3. ~(Work[m] < Work[c])
      BY <2>4 DEF Worse
    <3>4. seq'[m] < seq'[b] /\ seq'[m] \in Nat /\ seq'[b] \in Nat
      BY <1>3, <1>4, <2>3
    <3> QED
      BY <3>1, <3>2, <3>3, <3>4 DEF Worse
  <2>8. \A c \in valid : ~Worse(seq', m, c)
    BY <1>5, <2>1, <2>3, <2>4
  <2>9. \A c \in valid' : ~Worse(seq', active', c)
    BY <1>6, <2>3, <2>7, <2>8
  <2> QED
    BY <2>3, <2>6, <2>9 DEF NoneBetter, Less, Worse
<1> QED
  BY <1>7, <1>8

LEMMA ArriveCInv ==
    ASSUME CInv, NEW b \in Block, Arrive(b)
    PROVE  CInv'
<1>0. /\ TypeOK /\ IsFiniteSet(index) /\ ParentsKnown /\ Counted
      /\ Genesis \in points /\ Genesis \in index /\ mostWork = active
  BY DEF CInv, Arrive
<1>1. TypeOK'
  <2>1. mostWork' \in index \cup {b}
    <3> DEFINE S == valid \cup {mostWork}
    <3>1. S \subseteq index /\ S \subseteq Block /\ IsFiniteSet(S) /\ S # {}
      BY <1>0, FS_Subset DEF TypeOK
    <3>2. Best(S) \in S
      BY <3>1, Known, BestIs
    <3> QED
      BY <3>1, <3>2 DEF Arrive
  <2>2. Cardinality(index) \in Nat
    BY <1>0, FS_CardinalityType
  <2>3. seq' \in [Block -> Nat]
    BY <1>0, <2>2 DEF Arrive, TypeOK
  <2>4. astray' \in SUBSET Cause
    BY <1>0 DEF Arrive, TypeOK, Cause
  <2>5. index' = index \cup {b} /\ valid' = valid \cup {b} /\ active' = mostWork'
    BY DEF Arrive
  <2>6. index' \subseteq Block /\ mostWork' \in index' /\ active' \in Block
    BY <1>0, <2>1, <2>5 DEF TypeOK
  <2> QED
    BY <1>0, <2>3, <2>4, <2>5, <2>6 DEF Arrive, TypeOK, sweepVars
<1>2. IsFiniteSet(index')
  BY <1>0, FS_AddElement DEF Arrive
<1>3. ParentsKnown'
  <2>1. b \notin index /\ Prev[b] \in index /\ index' = index \cup {b}
    BY DEF Arrive
  <2>2. Anc[b] = Anc[Prev[b]] \cup {b}
    BY <1>0, <2>1, ParentChain
  <2> QED
    BY <1>0, <2>1, <2>2 DEF ParentsKnown
<1>4. Counted'
  <2>1. Cardinality(index) \in Nat /\ Cardinality(index') = Cardinality(index) + 1
    BY <1>0, FS_AddElement, FS_CardinalityType DEF Arrive
  <2>2. ASSUME NEW c \in index' PROVE seq'[c] < Cardinality(index')
    <3>1. c \in Block /\ seq \in [Block -> Nat] /\ seq[c] \in Nat
      BY <1>0, <1>1 DEF TypeOK
    <3>2. seq'[c] = IF c = b THEN Cardinality(index) ELSE seq[c]
      BY <3>1 DEF Arrive
    <3>3. c # b => seq[c] < Cardinality(index)
      BY <1>0 DEF Counted, Arrive
    <3> QED
      BY <2>1, <3>1, <3>2, <3>3
  <2> QED
    BY <2>2 DEF Counted
<1>5. ASSUME "rewound" \notin astray' PROVE AllowedIsCandidate' /\ NoneBetter(active, valid)'
  <2>1. "rewound" \notin astray
    BY <1>5 DEF Arrive
  <2>2. AllowedIsCandidate
    BY <2>1 DEF CInv
  <2>3. \A c \in index : Allowed(c)' => Allowed(c)
    BY DEF Allowed, Arrive
  <2>4. AllowedIsCandidate'
    BY <2>2, <2>3 DEF AllowedIsCandidate, Arrive
  <2> QED
    BY <2>1, <2>4, ArriveKeepsBest
<1>6. ASSUME astray' = {} PROVE OnPassed(active)'
  <2>1. /\ astray = {}
        /\ \A p \in points : Height(p) < Height(b) => p \in Anc[b]
    BY <1>6 DEF Arrive
  <2>2. Passed' = Passed /\ Passed \subseteq points
    BY DEF Passed, Arrive
  <2>3. OnPassed(active)
    BY <2>1 DEF CInv, Arrive
  <2>4. ASSUME NEW p \in Passed, Height(p) <= Height(b) PROVE p \in Anc[b]
    <3>1. p \in Block /\ Height(p) \in Nat /\ Height(b) \in Nat
      BY <2>2, Known, HeightType
    <3>2. CASE Height(p) = Height(b)
      BY <2>2, <3>2, OwnChain DEF Arrive, Accept, CheckBlock
    <3>3. CASE Height(p) < Height(b)
      BY <2>1, <2>2, <3>3
    <3> QED
      BY <2>4, <3>1, <3>2, <3>3
  <2>5. active' \in {active, b}
    BY <2>1, ArriveKeepsBest
  <2> QED
    BY <2>2, <2>3, <2>4, <2>5 DEF OnPassed
<1>7. pc' = "idle" /\ mostWork' = active' /\ Genesis \in points' /\ Genesis \in index'
  BY <1>0 DEF Arrive
<1> QED
  BY <1>1, <1>2, <1>3, <1>4, <1>5, <1>6, <1>7 DEF CInv

LEMMA AddCheckpointCInv ==
    ASSUME CInv, NEW p \in Anc[Official], AddCheckpoint(p)
    PROVE  CInv'
<1>0. /\ index' = index /\ seq' = seq /\ valid' = valid /\ active' = active
      /\ mostWork' = mostWork /\ pc' = pc /\ target' = target /\ last' = last
      /\ at' = at /\ astray' = astray /\ restarts' = restarts
      /\ points' = points \cup {p} /\ pending' = pending \cup {p} /\ pc # "starting"
  BY DEF AddCheckpoint, chainVars, sweepVars
<1>1. TypeOK'
  BY <1>0 DEF CInv, TypeOK
<1>2. IsFiniteSet(index)' /\ ParentsKnown' /\ Counted'
  BY <1>0 DEF CInv, ParentsKnown, Counted
<1>3. Passed' \subseteq Passed
  BY <1>0 DEF Passed
<1>4. AllowedIsCandidate => AllowedIsCandidate'
  BY <1>0 DEF AllowedIsCandidate, Allowed
<1>5. \A b, blocks : NoneBetter(b, blocks) => NoneBetter(b, blocks)'
  BY <1>0 DEF NoneBetter, Less
<1>6. SweepInOrder => SweepInOrder'
  BY <1>0 DEF SweepInOrder, NoneBetter, Less
<1>7. /\ \A b : OnPassed(b) => OnPassed(b)'
      /\ \A blocks : BelowUnknown(blocks) => BelowUnknown(blocks)'
  BY <1>0, <1>3 DEF OnPassed, BelowUnknown
<1>8. NoneBetter(active, valid) => NoneBetter(active, valid)'
  BY <1>0 DEF NoneBetter, Less
<1>9. OnPassed(active) => OnPassed(active)'
  BY <1>0, <1>3 DEF OnPassed
<1>10. BelowUnknown(valid \cup {mostWork}) => BelowUnknown(valid \cup {mostWork})'
  BY <1>0, <1>3 DEF BelowUnknown
<1> QED
  BY <1>0, <1>1, <1>2, <1>3, <1>4, <1>6, <1>8, <1>9, <1>10 DEF CInv

(* CheckActiveChain up to its loop, for a checkpoint p that is new or the  *)
(* last one with a block: what it leaves of the rest of the state.         *)
LEMMA CheckActiveChainCInv ==
    ASSUME CInv, NEW p \in points,
           CheckActiveChain(p, active, mostWork, valid),
           UNCHANGED <<index, seq, valid, active, points, restarts>>,
           pending' \subseteq pending,
           pc # "sweep",
           astray = {} /\ ~Mismatch(p, active) => OnPassed(active)'
    PROVE  CInv'
<1>0. /\ index' = index /\ seq' = seq /\ valid' = valid /\ active' = active
      /\ points' = points /\ restarts' = restarts
  OBVIOUS
<1>1. /\ p \in Block /\ LastCheckpoint \in Block /\ LastCheckpoint \in points \cap index
      /\ index \subseteq Block /\ valid \subseteq Block /\ IsFiniteSet(valid)
      /\ seq \in [Block -> Nat]
  BY Known, LastCheckpointIs
<1>2. /\ TypeOK /\ IsFiniteSet(index) /\ ParentsKnown /\ Counted
      /\ Genesis \in points /\ Genesis \in index /\ mostWork = active
  BY DEF CInv
<1>3. IsFiniteSet(index)' /\ ParentsKnown' /\ Counted'
  BY <1>0, <1>2 DEF ParentsKnown, Counted
<1>4. AllowedIsCandidate => AllowedIsCandidate'
  BY <1>0 DEF AllowedIsCandidate, Allowed
<1>5. NoneBetter(active, valid) => NoneBetter(active, valid)'
  BY <1>0 DEF NoneBetter, Less
<1>6. CASE Mismatch(p, active)
  <2>1. /\ pc' = "sweep" /\ target' = p /\ last' = LastCheckpoint
        /\ mostWork' = LastCheckpoint /\ at' = Best(valid)
        /\ astray' = astray
                \cup (IF Height(LastCheckpoint) < Height(p) THEN {"rewound"} ELSE {})
                \cup (IF Unseen(valid) THEN {"unseen"} ELSE {})
    BY <1>6 DEF CheckActiveChain
  <2>2. /\ valid = {} => at' = Nil
        /\ valid # {} => at' \in valid /\ NoneBetter(Best(valid), valid) /\ at' # Nil
    <3>1. Nil \notin valid
      BY <1>1, BestIs
    <3> QED
      BY <1>1, <2>1, <3>1, BestIs
  <2>3. astray' \in SUBSET Cause
    BY <1>2, <2>1 DEF TypeOK, Cause
  <2>4. TypeOK'
    BY <1>0, <1>1, <1>2, <2>1, <2>2, <2>3 DEF TypeOK, Pc
  <2>5. ASSUME "rewound" \notin astray' PROVE AllowedIsCandidate' /\ SweepInOrder'
    <3>1. Height(LastCheckpoint) \in Nat /\ Height(p) \in Nat
      BY <1>1, HeightType
    <3>2. Height(p) <= Height(LastCheckpoint) /\ "rewound" \notin astray
      BY <2>1, <2>5, <3>1
    <3>3. AllowedIsCandidate'
      BY <1>4, <3>2 DEF CInv
    <3>4. last' \in points' \cap index' /\ last' \in Anc[mostWork']
      BY <1>0, <1>1, <2>1, OwnChain
    <3>5. Height(target') <= Height(last')
      BY <2>1, <3>2
    <3>6. at' \in valid' \cup {Nil} /\ mostWork' = last'
      BY <1>0, <2>1, <2>2
    <3>7. \A c \in valid' : at' # Nil /\ ~Less(at, c)'
      BY <1>0, <2>1, <2>2 DEF NoneBetter, Less
    <3>8. SweepInOrder'
      BY <3>4, <3>5, <3>6, <3>7 DEF SweepInOrder, Height
    <3> QED
      BY <3>3, <3>8
  <2>6. ASSUME astray' = {}
        PROVE  /\ \A q \in Passed' \cap index' : q \in Anc[last']
               /\ BelowUnknown(valid \cup {mostWork})'
    <3>1. ~Unseen(valid)
      BY <2>1, <2>6
    <3>2. Passed' \subseteq points
      BY <1>0 DEF Passed
    <3>3. \A q \in Passed' \cap index' : q \in Anc[last']
      BY <1>0, <2>1, <3>2, LastCheckpointIs
    <3>4. ASSUME NEW q \in points \ index, NEW c \in valid \cup {LastCheckpoint}
          PROVE  Height(c) < Height(q)
      <4>1. CASE c = LastCheckpoint
        BY <4>1, LastCheckpointIs
      <4>2. CASE c \in valid
        <5>1. Height(c) \in Nat /\ Height(q) \in Nat
          BY <1>1, <4>2, Known, HeightType
        <5>2. ~(Height(c) >= Height(q))
          BY <3>1, <4>2 DEF Unseen
        <5> QED
          BY <5>1, <5>2
      <4> QED
        BY <4>1, <4>2
    <3>5. BelowUnknown(valid \cup {mostWork})'
      BY <1>0, <2>1, <3>2, <3>4 DEF BelowUnknown, Height
    <3> QED
      BY <3>3, <3>5
  <2> QED
    BY <1>0, <1>2, <1>3, <2>1, <2>4, <2>5, <2>6 DEF CInv
<1>7. CASE ~Mismatch(p, active)
  <2>1. /\ pc' = "idle" /\ mostWork' = mostWork /\ target' = target /\ last' = last
        /\ at' = at /\ astray' = astray
    BY <1>7 DEF CheckActiveChain, sweepVars
  <2>2. TypeOK'
    BY <1>0, <1>2, <2>1 DEF TypeOK, Pc
  <2>3. "rewound" \notin astray' => AllowedIsCandidate' /\ NoneBetter(active, valid)'
    BY <1>4, <1>5, <2>1 DEF CInv
  <2> QED
    BY <1>0, <1>2, <1>3, <1>7, <2>1, <2>2, <2>3 DEF CInv
<1> QED
  BY <1>6, <1>7

(* The active chain has nothing to mend for a checkpoint: it is on it, or  *)
(* has not come so far.                                                    *)
LEMMA NoMismatch ==
    ASSUME CInv, NEW p \in points, ~Mismatch(p, active), Height(p) <= Height(active)
    PROVE  p \in Anc[active]
<1>1. p \in Block /\ active \in Block /\ Official \in Block
  BY Known, OfficialAssumption
<1>2. Height(p) \in Nat /\ Height(active) \in Nat
  BY <1>1, HeightType
<1>3. CASE Height(p) = 0
  <2>1. p \in Anc[Official] /\ Genesis \in Anc[Official]
    BY <1>1, Known, OwnChain
  <2>2. p = Genesis
    BY <1>1, <1>3, <2>1, HeightStep, SameHeight
  <2> QED
    BY <1>1, <2>2, OwnChain
<1>4. CASE Height(p) # 0
  <2>1. AtHeight(active, Height(p)) = p
    BY <1>2, <1>4 DEF Mismatch
  <2> QED
    BY <1>1, <1>2, <2>1, AtHeightIs
<1> QED
  BY <1>3, <1>4

LEMMA CheckCInv ==
    ASSUME CInv, NEW p \in Anc[Official], Check(p)
    PROVE  CInv'
<1>1. p \in points /\ p \in pending
  BY DEF Check, CInv, TypeOK
<1>2. pending' \subseteq pending /\ pc # "sweep"
  BY DEF Check
<1>3. ASSUME astray = {}, ~Mismatch(p, active) PROVE OnPassed(active)'
  <2>1. OnPassed(active)
    BY <1>3 DEF CInv, Check
  <2>2. active' = active /\ Passed' = Passed \cup {p}
    BY <1>1 DEF Check, Passed
  <2>3. Height(p) <= Height(active) => p \in Anc[active]
    BY <1>1, <1>3, NoMismatch
  <2> QED
    BY <2>1, <2>2, <2>3 DEF OnPassed, Height
<1>4. /\ CheckActiveChain(p, active, mostWork, valid)
      /\ UNCHANGED <<index, seq, valid, active, points, restarts>>
  BY DEF Check
<1> QED
  BY <1>1, <1>2, <1>3, <1>4, CheckActiveChainCInv

LEMMA StartCheckCInv ==
    ASSUME CInv, StartCheck
    PROVE  CInv'
<1> DEFINE p == LastCheckpoint
<1>1. /\ p \in points /\ p \in Block /\ active \in Block /\ active \in index
      /\ \A q \in points \cap index : q \in Anc[p]
  <2>1. mostWork \in index /\ mostWork = active
    BY DEF CInv, TypeOK, StartCheck
  <2> QED
    BY <2>1, Known, LastCheckpointIs
<1>2. pending' \subseteq pending /\ pc # "sweep"
  BY DEF StartCheck
<1>3. ASSUME astray = {}, ~Mismatch(p, active) PROVE OnPassed(active)'
  <2>1. BelowUnknown(index)
    BY <1>3 DEF CInv, StartCheck
  <2>2. active' = active /\ Passed' = Passed /\ Passed \subseteq points
    BY DEF StartCheck, Passed
  <2>3. ASSUME NEW q \in Passed, Height(q) <= Height(active) PROVE q \in Anc[active]
    <3>1. q \in Block /\ Height(q) \in Nat /\ Height(active) \in Nat /\ Height(p) \in Nat
      BY <1>1, <2>2, Known, HeightType
    <3>2. q \in index
      BY <1>1, <2>1, <2>3, <3>1 DEF BelowUnknown
    <3>3. q \in Anc[p]
      BY <1>1, <2>2, <3>2
    <3>4. CASE p \in Anc[active]
      BY <1>1, <3>3, <3>4, OwnChain
    <3>5. CASE p \notin Anc[active]
      <4>1. ~(Height(p) <= Height(active))
        BY <1>1, <1>3, <3>5, NoMismatch
      <4>2. Height(p) >= 1
        BY <3>1, <4>1
      <4>3. Contains(active, LastCheckpoint)
        BY <1>3, <3>1, <4>1, <4>2 DEF Mismatch
      <4> QED
        BY <3>5, <4>3 DEF Contains
    <3> QED
      BY <3>4, <3>5
  <2> QED
    BY <2>2, <2>3 DEF OnPassed, Height
<1>4. /\ CheckActiveChain(p, active, mostWork, valid)
      /\ UNCHANGED <<index, seq, valid, active, points, restarts>>
  BY DEF StartCheck
<1> HIDE DEF p
<1> QED
  BY <1>1, <1>2, <1>3, <1>4, CheckActiveChainCInv

(* A candidate forks from the chain to activate at the last checkpoint     *)
(* block or above it just if the checkpoint block is in its own chain.     *)
LEMMA ForkAboveLast ==
    ASSUME mostWork \in Block, NEW c \in Block, last \in Anc[mostWork]
    PROVE  last \in Anc[c] <=> Height(last) <= Height(Fork(c))
<1>1. /\ Fork(c) \in Anc[c] /\ Fork(c) \in Anc[mostWork]
      /\ \A a \in Anc[c] \cap Anc[mostWork] : Height(a) <= Height(Fork(c))
  BY ForkIs
<1>2. last \in Anc[c] => Height(last) <= Height(Fork(c))
  BY <1>1
<1>3. ASSUME Height(last) <= Height(Fork(c)) PROVE last \in Anc[c]
  <2>1. last \in Anc[Fork(c)]
    BY <1>1, <1>3, LowerIsAncestor
  <2> QED
    BY <1>1, <2>1, OwnChain
<1> QED
  BY <1>2, <1>3

LEMMA SweepEraseCInv ==
    ASSUME CInv, SweepErase
    PROVE  CInv'
<1>0. /\ index' = index /\ seq' = seq /\ active' = active /\ mostWork' = mostWork
      /\ points' = points /\ pending' = pending /\ pc' = pc /\ target' = target
      /\ last' = last /\ astray' = astray /\ restarts' = restarts
      /\ valid' = valid \ Doomed(at) /\ at' = Best(valid') /\ pc = "sweep"
      /\ at # Nil /\ Doomed(at) # {}
  BY DEF SweepErase, Sweeping
<1>1. /\ TypeOK /\ IsFiniteSet(index) /\ ParentsKnown /\ Counted
      /\ Genesis \in points /\ Genesis \in index
  BY DEF CInv
<1>2. /\ index \subseteq Block /\ valid' \subseteq valid /\ valid' \subseteq Block
      /\ IsFiniteSet(valid') /\ seq \in [Block -> Nat] /\ mostWork \in Block
      /\ at \in index /\ at \in Block
  <2>1. /\ valid \subseteq Block /\ IsFiniteSet(valid) /\ index \subseteq Block
        /\ seq \in [Block -> Nat] /\ mostWork \in Block
    BY Known
  <2>2. valid' \subseteq valid
    BY <1>0
  <2>3. IsFiniteSet(valid')
    BY <2>1, <2>2, FS_Subset
  <2>4. at \in index
    BY <1>0, <1>1 DEF TypeOK
  <2> QED
    BY <2>1, <2>2, <2>3, <2>4
<1>3. /\ valid' = {} => at' = Nil
      /\ valid' # {} => at' \in valid' /\ at' # Nil /\ \A c \in valid' : ~Worse(seq, at', c)
  <2> DEFINE S == valid'
  <2>1. S \subseteq Block /\ IsFiniteSet(S) /\ at' = Best(S)
    BY <1>0, <1>2
  <2> HIDE DEF S
  <2>2. /\ S = {} => Best(S) = Nil
        /\ S # {} => Best(S) \in S /\ NoneBetter(Best(S), S)
        /\ Nil \notin S
    BY <1>2, <2>1, BestIs
  <2>3. \A c \in S : S # {} => ~Worse(seq, at', c)
    BY <2>1, <2>2, LessIsWorse DEF NoneBetter
  <2>4. /\ S = {} => at' = Nil
        /\ S # {} => at' \in S /\ at' # Nil /\ \A c \in S : ~Worse(seq, at', c)
    BY <2>1, <2>2, <2>3
  <2> QED
    BY <2>4 DEF S
<1>4. TypeOK'
  BY <1>0, <1>1, <1>2, <1>3 DEF TypeOK
<1>5. IsFiniteSet(index)' /\ ParentsKnown' /\ Counted'
  BY <1>0, <1>1 DEF ParentsKnown, Counted
<1>6. ASSUME "rewound" \notin astray PROVE AllowedIsCandidate' /\ SweepInOrder'
  <2>1. SweepInOrder /\ AllowedIsCandidate
    BY <1>0, <1>6 DEF CInv
  <2>2. /\ last \in points \cap index /\ last \in Anc[mostWork] /\ last \in Block
        /\ Height(last) \in Nat /\ Height(target) \in Nat /\ Height(target) <= Height(last)
    BY <1>1, <2>1, HeightType DEF SweepInOrder, TypeOK
  <2>3. Doomed(at) = {a \in Anc[at] \ Anc[Fork(at)] : Height(Fork(at)) < Height(last)}
    BY <2>2 DEF Doomed
  <2>4. last \notin Anc[at]
    <3>1. Height(Fork(at)) < Height(last)
      BY <1>0, <2>3
    <3>2. Fork(at) \in Block /\ Height(Fork(at)) \in Nat
      BY <1>2, ForkIs, OwnChain, HeightType
    <3> QED
      BY <1>2, <2>2, <3>1, <3>2, ForkAboveLast
  <2>5. ASSUME NEW b \in index, Allowed(b) PROVE b \in valid'
    <3>1. b \in valid
      BY <2>1, <2>5 DEF AllowedIsCandidate
    <3>2. last \in Anc[b]
      BY <2>2, <2>5 DEF Allowed, Contains
    <3>3. b \notin Anc[at]
      BY <1>2, <2>4, <3>2, OwnChain
    <3> QED
      BY <1>0, <2>3, <3>1, <3>3
  <2>6. AllowedIsCandidate'
    BY <1>0, <2>5 DEF AllowedIsCandidate, Allowed
  <2>7. mostWork' # last' => NoneBetter(mostWork, valid)'
    BY <1>0, <1>2, <2>1 DEF SweepInOrder, NoneBetter, Less
  <2>8. \A c \in valid' : at' # Nil /\ ~Less(at, c)'
    BY <1>0, <1>3 DEF Less, Worse
  <2>9. at' \in valid' \cup {Nil}
    BY <1>3
  <2>10. last' \in points' \cap index' /\ last' \in Anc[mostWork'] /\ Height(target') <= Height(last')
    BY <1>0, <2>2
  <2>11. SweepInOrder'
    BY <2>7, <2>8, <2>9, <2>10 DEF SweepInOrder, Height
  <2> QED
    BY <2>6, <2>11
<1>7. ASSUME astray = {}
      PROVE  /\ \A p \in Passed' \cap index' : p \in Anc[last']
             /\ BelowUnknown(valid \cup {mostWork})'
  BY <1>0, <1>2, <1>7 DEF CInv, BelowUnknown, Passed
<1> QED
  BY <1>0, <1>1, <1>4, <1>5, <1>6, <1>7 DEF CInv

LEMMA SweepKeepCInv ==
    ASSUME CInv, SweepKeep
    PROVE  CInv'
<1>0. /\ index' = index /\ seq' = seq /\ valid' = valid /\ active' = active
      /\ points' = points /\ pending' = pending /\ pc' = pc /\ target' = target
      /\ last' = last /\ astray' = astray /\ restarts' = restarts
      /\ mostWork' = (IF Height(last) >= Height(target) /\ Fork(at) = mostWork
                      THEN at ELSE mostWork)
      /\ at' = After(at) /\ pc = "sweep"
      /\ at # Nil /\ at \notin Anc[mostWork] /\ Doomed(at) = {}
  BY DEF SweepKeep, Sweeping, Contains
<1>1. /\ TypeOK /\ IsFiniteSet(index) /\ ParentsKnown /\ Counted
      /\ Genesis \in points /\ Genesis \in index
  BY DEF CInv
<1>2. /\ index \subseteq Block /\ valid \subseteq Block /\ IsFiniteSet(valid)
      /\ seq \in [Block -> Nat] /\ mostWork \in Block
      /\ at \in index /\ at \in Block /\ mostWork \in index
  <2>1. at \in index /\ mostWork \in index
    BY <1>0, <1>1 DEF TypeOK
  <2> QED
    BY <2>1, Known
<1>3. at' \in valid \cup {Nil}
  <2> DEFINE S == {c \in valid : Less(c, at)}
  <2>1. S \subseteq Block /\ IsFiniteSet(S) /\ at' = Best(S) /\ S \subseteq valid
    BY <1>0, <1>2, FS_Subset DEF After
  <2> HIDE DEF S
  <2> QED
    BY <1>2, <2>1, BestIs
<1>4. mostWork' \in {mostWork, at}
  BY <1>0
<1>5. TypeOK'
  <2>1. valid \subseteq index
    BY <1>1 DEF TypeOK
  <2> QED
    BY <1>0, <1>1, <1>2, <1>3, <1>4, <2>1 DEF TypeOK
<1>6. IsFiniteSet(index)' /\ ParentsKnown' /\ Counted'
  BY <1>0, <1>1 DEF ParentsKnown, Counted
<1>7. ASSUME "rewound" \notin astray
      PROVE  AllowedIsCandidate' /\ SweepInOrder' /\ at \in valid
  <2>1. SweepInOrder /\ AllowedIsCandidate
    BY <1>0, <1>7 DEF CInv
  <2>2. /\ last \in points \cap index /\ last \in Anc[mostWork] /\ last \in Block
        /\ Height(last) \in Nat /\ Height(target) \in Nat /\ Height(target) <= Height(last)
        /\ at \in valid
    BY <1>0, <1>1, <2>1, HeightType DEF SweepInOrder, TypeOK
  <2>3. AllowedIsCandidate'
    BY <1>0, <2>1 DEF AllowedIsCandidate, Allowed
  <2>4. mostWork' = IF Fork(at) = mostWork THEN at ELSE mostWork
    BY <1>0, <2>2
  <2>5. /\ Fork(at) \in Anc[at] /\ Fork(at) \in Anc[mostWork]
        /\ Fork(at) \in Block /\ Height(Fork(at)) \in Nat
    BY <1>2, ForkIs, OwnChain, HeightType
  <2>6. Height(last) <= Height(Fork(at)) /\ last \in Anc[at]
    <3>1. at \in Anc[at] \ Anc[Fork(at)]
      BY <1>0, <1>2, <2>5, OwnChain
    <3>2. ~(Height(Fork(at)) < Height(last))
      BY <1>0, <2>2, <3>1 DEF Doomed
    <3>3. Height(last) <= Height(Fork(at))
      BY <2>2, <2>5, <3>2
    <3> QED
      BY <1>2, <2>2, <3>3, ForkAboveLast
  <2>7. last' \in Anc[mostWork']
    BY <1>0, <1>4, <2>2, <2>6
  <2>8. CASE mostWork = last
    <3>1. last \in Anc[Fork(at)] /\ Fork(at) \in Anc[last]
      BY <1>2, <2>2, <2>5, <2>6, <2>8, LowerIsAncestor
    <3>2. Fork(at) = mostWork
      BY <2>2, <2>5, <2>8, <3>1, WorkGrows
    <3>3. mostWork' = at /\ at # last
      BY <1>0, <1>2, <2>4, <2>8, <3>2, OwnChain
    <3>4. \A c \in valid : ~Less(at, c)
      BY <2>1, <2>8 DEF SweepInOrder
    <3>5. NoneBetter(mostWork, valid)' /\ mostWork' # last'
      BY <1>0, <3>3, <3>4 DEF NoneBetter, Less
    <3> QED
      BY <1>0, <1>3, <2>2, <2>3, <2>7, <3>5 DEF SweepInOrder, Height
  <2>9. CASE mostWork # last
    <3>1. NoneBetter(mostWork, valid)
      BY <2>1, <2>9 DEF SweepInOrder
    <3>2. Fork(at) # mostWork
      <4> SUFFICES ASSUME Fork(at) = mostWork PROVE FALSE
        OBVIOUS
      <4>1. mostWork \in Anc[at] /\ mostWork # at
        BY <1>0, <1>2, <2>5, OwnChain
      <4>2. Work[mostWork] < Work[at]
        BY <1>2, <4>1, WorkGrows
      <4>3. Less(mostWork, at)
        BY <4>2 DEF Less
      <4> QED
        BY <2>2, <3>1, <4>3 DEF NoneBetter
    <3>3. mostWork' = mostWork
      BY <2>4, <3>2
    <3>4. NoneBetter(mostWork, valid)' /\ mostWork' # last'
      BY <1>0, <2>9, <3>1, <3>3 DEF NoneBetter, Less
    <3> QED
      BY <1>0, <1>3, <2>2, <2>3, <2>7, <3>4 DEF SweepInOrder, Height
  <2> QED
    BY <2>8, <2>9
<1>8. ASSUME astray = {}
      PROVE  /\ \A p \in Passed' \cap index' : p \in Anc[last']
             /\ BelowUnknown(valid \cup {mostWork})'
  <2>1. at \in valid
    BY <1>7, <1>8
  <2>2. /\ \A p \in Passed \cap index : p \in Anc[last]
        /\ BelowUnknown(valid \cup {mostWork})
    BY <1>0, <1>8 DEF CInv
  <2>3. valid' \cup {mostWork'} \subseteq valid \cup {mostWork}
    BY <1>0, <1>4, <2>1
  <2>4. Passed' = Passed
    BY <1>0 DEF Passed
  <2> QED
    BY <1>0, <2>2, <2>3, <2>4 DEF BelowUnknown, Height
<1> QED
  BY <1>0, <1>1, <1>5, <1>6, <1>7, <1>8 DEF CInv

LEMMA SweepEndCInv ==
    ASSUME CInv, SweepEnd
    PROVE  CInv'
<1>0. /\ index' = index /\ seq' = seq /\ mostWork' = mostWork /\ points' = points
      /\ pending' = pending /\ astray' = astray /\ restarts' = restarts
      /\ active' = mostWork /\ valid' = valid \cup (Anc[mostWork] \ Anc[active])
      /\ pc' = "idle" /\ pc = "sweep" /\ target' = Genesis /\ last' = Genesis /\ at' = Nil
      /\ at # Nil => at \in Anc[mostWork]
  BY DEF SweepEnd, Released, Sweeping, Contains
<1>1. /\ TypeOK /\ IsFiniteSet(index) /\ ParentsKnown /\ Counted
      /\ Genesis \in points /\ Genesis \in index /\ Genesis \in Block
  BY TreeAssumption DEF CInv
<1>2. /\ index \subseteq Block /\ valid \subseteq Block /\ seq \in [Block -> Nat]
      /\ mostWork \in Block /\ mostWork \in index
  BY <1>1, Known DEF TypeOK
<1>3. TypeOK'
  <2>1. Anc[mostWork] \subseteq index
    BY <1>1, <1>2 DEF ParentsKnown
  <2> QED
    BY <1>0, <1>1, <1>2, <2>1 DEF TypeOK, Pc
<1>4. IsFiniteSet(index)' /\ ParentsKnown' /\ Counted'
  BY <1>0, <1>1 DEF ParentsKnown, Counted
<1>5. ASSUME "rewound" \notin astray PROVE AllowedIsCandidate' /\ NoneBetter(active, valid)'
  <2>1. SweepInOrder /\ AllowedIsCandidate
    BY <1>0, <1>5 DEF CInv
  <2>2. AllowedIsCandidate'
    BY <1>0, <2>1 DEF AllowedIsCandidate, Allowed
  <2>3. ASSUME NEW c \in Anc[mostWork] PROVE ~Worse(seq, mostWork, c)
    <3>1. Work[c] \in Nat /\ Work[mostWork] \in Nat /\ (c # mostWork => Work[c] < Work[mostWork])
      BY <1>2, WorkGrows
    <3>2. c # mostWork => ~Worse(seq, mostWork, c)
      BY <3>1 DEF Worse
    <3> QED
      BY <1>2, <3>2, NotWorseThanItself
  <2>4. ASSUME NEW c \in valid PROVE ~Worse(seq, mostWork, c)
    <3>1. CASE mostWork # last
      BY <2>1, <3>1, LessIsWorse DEF SweepInOrder, NoneBetter
    <3>2. CASE mostWork = last
      <4>1. at # Nil /\ ~Worse(seq, at, c)
        BY <2>1, <3>2, LessIsWorse DEF SweepInOrder
      <4>2. at \in Block /\ ~Worse(seq, mostWork, at)
        BY <1>0, <1>2, <2>3, <4>1, OwnChain
      <4> QED
        BY <1>2, <4>1, <4>2, NotWorse
    <3> QED
      BY <3>1, <3>2
  <2>5. \A c \in valid' : ~Worse(seq', active', c)
    BY <1>0, <2>3, <2>4
  <2> QED
    BY <2>2, <2>5 DEF NoneBetter, Less, Worse
<1>6. ASSUME astray = {} PROVE OnPassed(active)'
  <2>1. /\ \A p \in Passed \cap index : p \in Anc[last]
        /\ BelowUnknown(valid \cup {mostWork})
        /\ SweepInOrder
    BY <1>0, <1>6 DEF CInv
  <2>2. Passed' = Passed /\ Passed \subseteq Block
    BY <1>0, Known DEF Passed
  <2>3. ASSUME NEW p \in Passed, Height(p) <= Height(mostWork) PROVE p \in Anc[mostWork]
    <3>1. Height(p) \in Nat /\ Height(mostWork) \in Nat
      BY <1>2, <2>2, HeightType
    <3>2. p \in index
      BY <2>1, <2>3, <3>1 DEF BelowUnknown
    <3>3. p \in Anc[last] /\ last \in Anc[mostWork]
      BY <2>1, <3>2 DEF SweepInOrder
    <3> QED
      BY <1>2, <3>3, OwnChain
  <2> QED
    BY <1>0, <2>2, <2>3 DEF OnPassed, Height
<1> QED
  BY <1>0, <1>1, <1>3, <1>4, <1>5, <1>6 DEF CInv

(* A start makes all blocks candidates and goes for the best of them.      *)
LEMMA RestartCInv ==
    ASSUME CInv, Restart
    PROVE  CInv'
<1> DEFINE s == [b \in Block |-> 0]
<1>0. /\ index' = index /\ points' = points /\ seq' = s /\ valid' = index
      /\ mostWork' = active' /\ pending' = {} /\ pc' = "starting"
      /\ target' = Genesis /\ last' = Genesis /\ at' = Nil
      /\ astray' = (IF Unseen(index) THEN {"unseen"} ELSE {})
      /\ restarts' = restarts + 1 /\ restarts < MaxRestarts
      /\ active' = CHOOSE b \in index : \A c \in index :
                       Work[c] < Work[b] \/ (Work[c] = Work[b] /\ Address[c] >= Address[b])
  BY DEF Restart, Released
<1>1. /\ TypeOK /\ IsFiniteSet(index) /\ ParentsKnown
      /\ Genesis \in points /\ Genesis \in index /\ Genesis \in Block
  BY TreeAssumption DEF CInv
<1>2. index \subseteq Block /\ points \subseteq Block /\ s \in [Block -> Nat]
  BY Known
<1>3. \A b, c \in Block : s[b] = s[c]
  OBVIOUS
<1>4. seq' = s
  BY <1>0
<1> HIDE DEF s
<1>5. ASSUME NEW b \in index, NEW c \in index
      PROVE  ~Worse(s, b, c) <=>
                 Work[c] < Work[b] \/ (Work[c] = Work[b] /\ Address[c] >= Address[b])
  <2>1. /\ Work[b] \in Nat /\ Work[c] \in Nat /\ Address[b] \in Nat /\ Address[c] \in Nat
        /\ s[b] = s[c] /\ s[b] \in Nat
    BY <1>2, <1>3, OrderTypes
  <2> QED
    BY <2>1 DEF Worse
<1>6. active' \in index /\ \A c \in index : ~Worse(s, active', c)
  <2>1. HasBest(s, index)
    BY <1>1, <1>2, BestExists
  <2>2. \E b \in index : \A c \in index :
            Work[c] < Work[b] \/ (Work[c] = Work[b] /\ Address[c] >= Address[b])
    BY <1>5, <2>1 DEF HasBest
  <2>3. /\ active' \in index
        /\ \A c \in index : Work[c] < Work[active']
                            \/ (Work[c] = Work[active'] /\ Address[c] >= Address[active'])
    BY <1>0, <2>2
  <2> QED
    BY <1>5, <2>3
<1>7. TypeOK'
  BY <1>0, <1>1, <1>2, <1>4, <1>6, MaxRestartsAssumption DEF TypeOK, Pc, Cause
<1>8. IsFiniteSet(index)' /\ ParentsKnown'
  BY <1>0, <1>1 DEF ParentsKnown
<1>9. Counted'
  <2>1. Cardinality(index) \in Nat /\ Cardinality(index) # 0
    BY <1>1, FS_CardinalityType, FS_EmptySet
  <2>2. \A b \in Block : s[b] = 0
    BY DEF s
  <2> QED
    BY <1>0, <1>2, <1>4, <2>1, <2>2 DEF Counted
<1>10. AllowedIsCandidate'
  BY <1>0 DEF AllowedIsCandidate
<1>11. NoneBetter(active, valid)'
  <2>1. \A c \in valid' : ~Worse(seq', active', c)
    BY <1>0, <1>4, <1>6
  <2> QED
    BY <2>1 DEF NoneBetter, Less, Worse
<1>12. ASSUME astray' = {} PROVE BelowUnknown(index)'
  <2>1. ~Unseen(index)
    BY <1>0, <1>12
  <2>2. Passed' = points
    BY <1>0 DEF Passed
  <2>3. ASSUME NEW p \in points \ index, NEW c \in index PROVE Height(c) < Height(p)
    <3>1. Height(p) \in Nat /\ Height(c) \in Nat
      BY <1>2, HeightType
    <3>2. ~(Height(c) >= Height(p))
      BY <2>1 DEF Unseen
    <3> QED
      BY <3>1, <3>2
  <2> QED
    BY <1>0, <2>2, <2>3 DEF BelowUnknown, Height
<1> QED
  BY <1>0, <1>1, <1>7, <1>8, <1>9, <1>10, <1>11, <1>12 DEF CInv

LEMMA StutterCInv ==
    ASSUME CInv, UNCHANGED vars
    PROVE  CInv'
<1>0. /\ index' = index /\ seq' = seq /\ valid' = valid /\ active' = active
      /\ mostWork' = mostWork /\ points' = points /\ pending' = pending /\ pc' = pc
      /\ target' = target /\ last' = last /\ at' = at /\ astray' = astray
      /\ restarts' = restarts
  BY DEF vars, chainVars, sweepVars
<1>1. /\ TypeOK' = TypeOK /\ ParentsKnown' = ParentsKnown /\ Counted' = Counted
      /\ AllowedIsCandidate' = AllowedIsCandidate
      /\ NoneBetter(active, valid)' = NoneBetter(active, valid)
      /\ SweepInOrder' = SweepInOrder /\ OnPassed(active)' = OnPassed(active)
      /\ BelowUnknown(index)' = BelowUnknown(index)
      /\ BelowUnknown(valid \cup {mostWork})' = BelowUnknown(valid \cup {mostWork})
      /\ Passed' = Passed
  BY <1>0 DEF TypeOK, ParentsKnown, Counted, AllowedIsCandidate, Allowed, NoneBetter, Less,
              SweepInOrder, OnPassed, BelowUnknown, Passed
<1> QED
  BY <1>0, <1>1 DEF CInv

LEMMA NextCInv == CInv /\ [Next]_vars => CInv'
<1> SUFFICES ASSUME CInv, [Next]_vars PROVE CInv'
  OBVIOUS
<1>1. CASE \E b \in Block : Arrive(b)
  BY <1>1, ArriveCInv
<1>2. CASE \E p \in Anc[Official] : AddCheckpoint(p)
  BY <1>2, AddCheckpointCInv
<1>3. CASE \E p \in Anc[Official] : Check(p)
  BY <1>3, CheckCInv
<1>4. CASE SweepErase
  BY <1>4, SweepEraseCInv
<1>5. CASE SweepKeep
  BY <1>5, SweepKeepCInv
<1>6. CASE SweepEnd
  BY <1>6, SweepEndCInv
<1>7. CASE Restart
  BY <1>7, RestartCInv
<1>8. CASE StartCheck
  BY <1>8, StartCheckCInv
<1>9. CASE UNCHANGED vars
  BY <1>9, StutterCInv
<1> QED
  BY <1>1, <1>2, <1>3, <1>4, <1>5, <1>6, <1>7, <1>8, <1>9 DEF Next, Sweep

-----------------------------------------------------------------------------
(* The invariant above holds of a node in every state, whatever arrives and *)
(* however its starts fall between the steps of CheckActiveChain.          *)
THEOREM CheckpointInvariance == Spec => []CInv
<1>1. Init => CInv
  BY InitCInv
<1>2. CInv /\ [Next]_vars => CInv'
  BY NextCInv
<1> QED
  BY <1>1, <1>2, PTL DEF Spec

(* The chains, the candidates and the locals of CheckActiveChain are of    *)
(* blocks in g_mapBlockIndex.                                              *)
THEOREM CheckpointTypeCorrect == Spec => []TypeOK
<1>1. CInv => TypeOK
  BY DEF CInv
<1> QED
  BY <1>1, CheckpointInvariance, PTL

(* Except after the events of Cause, a node at rest has no other block than *)
(* the checkpoint's at the height of a checkpoint it has the block of.     *)
THEOREM CheckpointsLock == Spec => []LockedIn
<1>1. CInv => LockedIn
  <2> SUFFICES ASSUME CInv, Settled, astray = {},
                      NEW p \in points \cap index, Height(active) >= Height(p)
               PROVE  Contains(active, p)
    BY DEF LockedIn
  <2>1. OnPassed(active) /\ p \in Passed
    BY DEF CInv, Settled, Passed
  <2>2. Height(p) \in Nat /\ Height(active) \in Nat
    BY Known, HeightType
  <2> QED
    BY <2>1, <2>2 DEF OnPassed, Contains
<1> QED
  BY <1>1, CheckpointInvariance, PTL

(* A node at rest is on the best chain that no checkpoint forbids: what    *)
(* CheckActiveChain takes out of g_setBlockIndexValid, and where its loop  *)
(* stops, never costs it a better one.                                     *)
THEOREM LockCostsNothing == Spec => []BestLocked
<1>1. CInv => BestLocked
  <2> SUFFICES ASSUME CInv, Settled, "rewound" \notin astray, NEW b \in index, Allowed(b)
               PROVE  ~Less(active, b)
    BY DEF BestLocked, Allowed
  <2>1. AllowedIsCandidate /\ NoneBetter(active, valid)
    BY DEF CInv, Settled
  <2> QED
    BY <2>1 DEF AllowedIsCandidate, NoneBetter
<1> QED
  BY <1>1, CheckpointInvariance, PTL
=============================================================================
