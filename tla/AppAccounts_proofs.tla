-------------------------- MODULE AppAccounts_proofs --------------------------
(***************************************************************************)
(* AppAccounts for any users, tags, amounts and bounds: the records have   *)
(* their types, what the users own is backed by what the app holds,        *)
(* DisconnectBlock restores every record, and a transfer of all assets     *)
(* moves all of them.                                                      *)
(*                                                                         *)
(* The lemmas about sums are those of Ledger_proofs, which is about        *)
(* another module's state and cannot be extended here; SumSplit and those  *)
(* after it are new.                                                       *)
(***************************************************************************)
EXTENDS AppAccounts, SequenceTheorems, FiniteSetTheorems, WellFoundedInduction, TLAPS

(* Every nonempty set of natural numbers has a least element. *)
LEMMA LeastNat ==
    ASSUME NEW T, T \subseteq Nat, T # {}
    PROVE  \E n \in T : \A m \in T : n <= m
<1> DEFINE R == {ss \in Nat \X Nat : ss[1] < ss[2]}
<1>1. IsWellFoundedOn(R, Nat)
  BY NatLessThanWellFounded DEF OpToRel
<1>2. R = {ss \in Nat \X Nat : ss[1] < ss[2]}
  OBVIOUS
<1> HIDE DEF R
<1>3. PICK n \in T : \A m \in T : <<m, n>> \notin R
  BY <1>1, WFMin
<1>4. ASSUME NEW m \in T PROVE n <= m
  <2>1. m \in Nat /\ n \in Nat /\ <<m, n>> \notin R
    BY <1>3
  <2>2. ~(m < n)
    BY <1>2, <2>1
  <2> QED
    BY <2>1, <2>2
<1> QED
  BY <1>4

(* Induction, as a fact about the set of the numbers that have a property. *)
LEMMA SetInduction ==
    ASSUME NEW S, 0 \in S, \A n \in Nat : n \in S => n + 1 \in S
    PROVE  Nat \subseteq S
<1> SUFFICES ASSUME Nat \ S # {} PROVE FALSE
  OBVIOUS
<1>1. PICK n \in Nat \ S : \A m \in Nat \ S : n <= m
  BY LeastNat
<1>2. n # 0 /\ n - 1 \in Nat
  BY <1>1
<1>3. n - 1 \in S
  BY <1>1, <1>2
<1> QED
  BY <1>1, <1>2, <1>3

-----------------------------------------------------------------------------
(* Sums over finite sets.                                                  *)

(* SumFunctionOnSet adds one chosen element at a time: g holds the sums of  *)
(* the sets of C.                                                           *)
Chosen(s) == CHOOSE x \in s : TRUE
Sums(g, f, C) ==
    [s \in C |-> IF s = {} THEN 0 ELSE f[Chosen(s)] + g[s \ {Chosen(s)}]]

(* One element taken from a finite set. *)
LEMMA Smaller ==
    ASSUME NEW s, IsFiniteSet(s), NEW x \in s
    PROVE  /\ IsFiniteSet(s \ {x})
           /\ Cardinality(s) \in Nat /\ Cardinality(s \ {x}) \in Nat
           /\ Cardinality(s) = Cardinality(s \ {x}) + 1
<1>1. /\ IsFiniteSet(s \ {x}) /\ Cardinality(s \ {x}) = Cardinality(s) - 1
      /\ Cardinality(s) \in Nat /\ Cardinality(s \ {x}) \in Nat
  BY FS_RemoveElement, FS_CardinalityType
<1> QED
  BY <1>1

LEMMA ChosenIn == ASSUME NEW s, s # {} PROVE Chosen(s) \in s
BY DEF Chosen

(* A sum over the subsets of a finite set exists. *)
LEMMA SumExists ==
    ASSUME NEW f, NEW S, IsFiniteSet(S)
    PROVE  \E g : g = Sums(g, f, SUBSET S)
<1> DEFINE Level(n) == {s \in SUBSET S : Cardinality(s) <= n}
           P == {n \in Nat : \E g : g = Sums(g, f, Level(n))}
<1>1. \A s \in SUBSET S : IsFiniteSet(s) /\ Cardinality(s) \in Nat
                          /\ Cardinality(s) <= Cardinality(S)
  BY FS_Subset, FS_CardinalityType
<1>2. 0 \in P
  <2> DEFINE g == [s \in Level(0) |-> 0]
  <2>1. \A s \in Level(0) : s = {}
    BY <1>1, FS_EmptySet
  <2>2. g = Sums(g, f, Level(0))
    BY <2>1 DEF Sums
  <2> QED
    BY <2>2
<1>3. ASSUME NEW n \in Nat, n \in P PROVE n + 1 \in P
  <2>1. PICK g : g = Sums(g, f, Level(n))
    BY <1>3
  <2> DEFINE h == Sums(g, f, Level(n + 1))
  <2>2. ASSUME NEW s \in Level(n + 1) PROVE h[s] = Sums(h, f, Level(n + 1))[s]
    <3>1. CASE s = {}
      BY <3>1 DEF Sums
    <3>2. CASE s # {}
      <4> DEFINE t == s \ {Chosen(s)}
      <4>1. t \in Level(n) /\ t \in Level(n + 1)
        <5>1. s \in SUBSET S /\ Cardinality(s) <= n + 1 /\ Chosen(s) \in s
          BY <2>2, <3>2, ChosenIn
        <5>2. Cardinality(t) <= n /\ Cardinality(t) <= n + 1
          BY <1>1, <5>1, Smaller
        <5> QED
          BY <5>1, <5>2
      <4>2. h[t] = g[t]
        BY <2>1, <4>1 DEF Sums
      <4>3. h[s] = f[Chosen(s)] + g[t]
        BY <2>2, <3>2 DEF Sums
      <4>4. Sums(h, f, Level(n + 1))[s] = f[Chosen(s)] + h[t]
        BY <2>2, <3>2 DEF Sums
      <4> QED
        BY <4>2, <4>3, <4>4
    <3> QED
      BY <3>1, <3>2
  <2>3. h = Sums(h, f, Level(n + 1))
    BY <2>2 DEF Sums
  <2> QED
    BY <2>3
<1> HIDE DEF P
<1>4. Cardinality(S) \in P
  BY <1>1, <1>2, <1>3, SetInduction
<1>5. Level(Cardinality(S)) = SUBSET S
  BY <1>1
<1> QED
  BY <1>4, <1>5 DEF P

(* Two of them agree where both are defined. *)
LEMMA SumUnique ==
    ASSUME NEW f, NEW S, IsFiniteSet(S), NEW T, T \subseteq S, NEW g, NEW h,
           g = Sums(g, f, SUBSET S), h = Sums(h, f, SUBSET T)
    PROVE  g[T] = h[T]
<1> DEFINE P == {n \in Nat : \A s \in SUBSET T : Cardinality(s) <= n => g[s] = h[s]}
<1>1. \A s \in SUBSET T : IsFiniteSet(s) /\ Cardinality(s) \in Nat
  BY FS_Subset, FS_CardinalityType
<1>2. 0 \in P
  <2> SUFFICES ASSUME NEW s \in SUBSET T, Cardinality(s) <= 0 PROVE g[s] = h[s]
    OBVIOUS
  <2>1. s = {}
    BY <1>1, FS_EmptySet
  <2> QED
    BY <2>1 DEF Sums
<1>3. ASSUME NEW n \in Nat, n \in P PROVE n + 1 \in P
  <2> SUFFICES ASSUME NEW s \in SUBSET T, Cardinality(s) <= n + 1 PROVE g[s] = h[s]
    OBVIOUS
  <2>1. CASE s = {}
    BY <2>1 DEF Sums
  <2>2. CASE s # {}
    <3> DEFINE t == s \ {Chosen(s)}
    <3>1. t \in SUBSET T /\ Cardinality(t) <= n
      BY <1>1, <2>2, ChosenIn, Smaller
    <3>2. g[t] = h[t]
      BY <1>3, <3>1
    <3>3. g[s] = f[Chosen(s)] + g[t] /\ h[s] = f[Chosen(s)] + h[t]
      BY <2>2 DEF Sums
    <3> QED
      BY <3>2, <3>3
  <2> QED
    BY <2>1, <2>2
<1> HIDE DEF P
<1>4. Cardinality(T) \in P
  BY <1>1, <1>2, <1>3, SetInduction
<1> QED
  BY <1>1, <1>4 DEF P

LEMMA SumIsChosen ==
    ASSUME NEW f, NEW S
    PROVE  SumFunctionOnSet(f, S) = (CHOOSE g : g = Sums(g, f, SUBSET S))[S]
BY DEF SumFunctionOnSet, FoldFunctionOnSet, MapThenFoldSet, Sums, Chosen

LEMMA SumOfNothing == ASSUME NEW f PROVE SumFunctionOnSet(f, {}) = 0
<1> DEFINE g == CHOOSE g : g = Sums(g, f, SUBSET {})
<1>1. g = Sums(g, f, SUBSET {})
  BY SumExists, FS_EmptySet
<1>2. SumFunctionOnSet(f, {}) = g[{}]
  BY SumIsChosen
<1> HIDE DEF g
<1> QED
  BY <1>1, <1>2 DEF Sums

LEMMA SumUnrolled ==
    ASSUME NEW f, NEW S, IsFiniteSet(S), S # {}
    PROVE  SumFunctionOnSet(f, S)
             = f[Chosen(S)] + SumFunctionOnSet(f, S \ {Chosen(S)})
<1> DEFINE T == S \ {Chosen(S)}
           g == CHOOSE g : g = Sums(g, f, SUBSET S)
           h == CHOOSE h : h = Sums(h, f, SUBSET T)
<1>1. IsFiniteSet(T) /\ T \subseteq S
  BY FS_Subset
<1>2. g = Sums(g, f, SUBSET S)
  BY SumExists
<1>3. h = Sums(h, f, SUBSET T)
  <2> HIDE DEF T
  <2> QED
    BY <1>1, SumExists
<1>4. SumFunctionOnSet(f, S) = g[S]
  BY SumIsChosen
<1>5. SumFunctionOnSet(f, T) = h[T]
  <2> HIDE DEF T
  <2> QED
    BY SumIsChosen
<1> HIDE DEF g, h
<1>6. g[T] = h[T]
  <2> HIDE DEF T
  <2> QED
    BY <1>1, <1>2, <1>3, SumUnique
<1>7. g[S] = f[Chosen(S)] + g[T]
  BY <1>2 DEF Sums
<1> QED
  BY <1>4, <1>5, <1>6, <1>7

(* A sum of integers is one, a sum of natural numbers too. *)
LEMMA SumType ==
    ASSUME NEW V, 0 \in V, \A x, y \in V : x + y \in V,
           NEW S, IsFiniteSet(S), NEW f, \A x \in S : f[x] \in V
    PROVE  SumFunctionOnSet(f, S) \in V
<1> DEFINE P == {n \in Nat : \A s \in SUBSET S :
                    Cardinality(s) <= n => SumFunctionOnSet(f, s) \in V}
<1>1. \A s \in SUBSET S : IsFiniteSet(s) /\ Cardinality(s) \in Nat
  BY FS_Subset, FS_CardinalityType
<1>2. 0 \in P
  <2> SUFFICES ASSUME NEW s \in SUBSET S, Cardinality(s) <= 0
               PROVE  SumFunctionOnSet(f, s) \in V
    OBVIOUS
  <2>1. s = {}
    BY <1>1, FS_EmptySet
  <2> QED
    BY <2>1, SumOfNothing
<1>3. ASSUME NEW n \in Nat, n \in P PROVE n + 1 \in P
  <2> SUFFICES ASSUME NEW s \in SUBSET S, Cardinality(s) <= n + 1
               PROVE  SumFunctionOnSet(f, s) \in V
    OBVIOUS
  <2>1. CASE s = {}
    BY <2>1, SumOfNothing
  <2>2. CASE s # {}
    <3> DEFINE t == s \ {Chosen(s)}
    <3>1. t \in SUBSET S /\ Cardinality(t) <= n /\ Chosen(s) \in S
      BY <1>1, <2>2, ChosenIn, Smaller
    <3>2. SumFunctionOnSet(f, t) \in V
      BY <1>3, <3>1
    <3>3. SumFunctionOnSet(f, s) = f[Chosen(s)] + SumFunctionOnSet(f, t)
      BY <1>1, <2>2, SumUnrolled
    <3> QED
      BY <3>1, <3>2, <3>3
  <2> QED
    BY <2>1, <2>2
<1> HIDE DEF P
<1>4. Cardinality(S) \in P
  BY <1>1, <1>2, <1>3, SetInduction
<1> QED
  BY <1>1, <1>4 DEF P

LEMMA SumIsInteger ==
    ASSUME NEW S, IsFiniteSet(S), NEW f, \A x \in S : f[x] \in Int
    PROVE  SumFunctionOnSet(f, S) \in Int
<1>1. 0 \in Int /\ \A x, y \in Int : x + y \in Int
  OBVIOUS
<1> QED
  BY <1>1, SumType

LEMMA SumSame ==
    ASSUME NEW S, IsFiniteSet(S), NEW f, NEW g, \A x \in S : f[x] = g[x]
    PROVE  SumFunctionOnSet(f, S) = SumFunctionOnSet(g, S)
<1> DEFINE P == {n \in Nat : \A s \in SUBSET S : Cardinality(s) <= n =>
                    SumFunctionOnSet(f, s) = SumFunctionOnSet(g, s)}
<1>1. \A s \in SUBSET S : IsFiniteSet(s) /\ Cardinality(s) \in Nat
  BY FS_Subset, FS_CardinalityType
<1>2. 0 \in P
  <2> SUFFICES ASSUME NEW s \in SUBSET S, Cardinality(s) <= 0
               PROVE  SumFunctionOnSet(f, s) = SumFunctionOnSet(g, s)
    OBVIOUS
  <2>1. s = {}
    BY <1>1, FS_EmptySet
  <2> QED
    BY <2>1, SumOfNothing
<1>3. ASSUME NEW n \in Nat, n \in P PROVE n + 1 \in P
  <2> SUFFICES ASSUME NEW s \in SUBSET S, Cardinality(s) <= n + 1
               PROVE  SumFunctionOnSet(f, s) = SumFunctionOnSet(g, s)
    OBVIOUS
  <2>1. CASE s = {}
    BY <2>1, SumOfNothing
  <2>2. CASE s # {}
    <3> DEFINE t == s \ {Chosen(s)}
    <3>1. t \in SUBSET S /\ Cardinality(t) <= n /\ Chosen(s) \in S
      BY <1>1, <2>2, ChosenIn, Smaller
    <3>2. SumFunctionOnSet(f, t) = SumFunctionOnSet(g, t)
      BY <1>3, <3>1
    <3>3. /\ SumFunctionOnSet(f, s) = f[Chosen(s)] + SumFunctionOnSet(f, t)
          /\ SumFunctionOnSet(g, s) = g[Chosen(s)] + SumFunctionOnSet(g, t)
      BY <1>1, <2>2, SumUnrolled
    <3> QED
      BY <3>1, <3>2, <3>3
  <2> QED
    BY <2>1, <2>2
<1> HIDE DEF P
<1>4. Cardinality(S) \in P
  BY <1>1, <1>2, <1>3, SetInduction
<1> QED
  BY <1>1, <1>4 DEF P

(* The order of summation does not matter. *)
LEMMA SumWithout ==
    ASSUME NEW S, IsFiniteSet(S), NEW f, \A x \in S : f[x] \in Int, NEW y \in S
    PROVE  SumFunctionOnSet(f, S) = f[y] + SumFunctionOnSet(f, S \ {y})
<1> DEFINE Splits(s) == \A x \in s :
                SumFunctionOnSet(f, s) = f[x] + SumFunctionOnSet(f, s \ {x})
           P == {n \in Nat : \A s \in SUBSET S : Cardinality(s) <= n => Splits(s)}
<1>1. \A s \in SUBSET S : IsFiniteSet(s) /\ Cardinality(s) \in Nat
  BY FS_Subset, FS_CardinalityType
<1>2. 0 \in P
  <2> SUFFICES ASSUME NEW s \in SUBSET S, Cardinality(s) <= 0 PROVE Splits(s)
    OBVIOUS
  <2>1. s = {}
    BY <1>1, FS_EmptySet
  <2> QED
    BY <2>1
<1>3. ASSUME NEW n \in Nat, n \in P PROVE n + 1 \in P
  <2> SUFFICES ASSUME NEW s \in SUBSET S, Cardinality(s) <= n + 1, NEW x \in s
               PROVE  SumFunctionOnSet(f, s) = f[x] + SumFunctionOnSet(f, s \ {x})
    OBVIOUS
  <2> DEFINE c == Chosen(s)
             t == s \ {c}
             u == s \ {x}
             both == u \ {c}
  <2>1. c \in s /\ IsFiniteSet(s) /\ s \in SUBSET S
    BY <1>1, ChosenIn
  <2>2. SumFunctionOnSet(f, s) = f[c] + SumFunctionOnSet(f, t)
    BY <1>1, <2>1, SumUnrolled
  <2>3. CASE x = c
    BY <2>2, <2>3
  <2>4. CASE x # c
    <3> HIDE DEF c
    <3>1. t \in SUBSET S /\ Cardinality(t) <= n /\ u \in SUBSET S /\ Cardinality(u) <= n
      BY <1>1, <2>1, Smaller
    <3>2. x \in t /\ c \in u /\ t \ {x} = both
      BY <2>1, <2>4
    <3>3. Splits(t) /\ Splits(u)
      BY <1>3, <3>1
    <3>4. SumFunctionOnSet(f, t) = f[x] + SumFunctionOnSet(f, both)
      BY <3>2, <3>3
    <3>5. SumFunctionOnSet(f, u) = f[c] + SumFunctionOnSet(f, both)
      BY <3>2, <3>3
    <3>6. f[x] \in Int /\ f[c] \in Int /\ SumFunctionOnSet(f, both) \in Int
      <4>1. both \in SUBSET S /\ \A z \in both : f[z] \in Int
        BY <2>1
      <4>2. IsFiniteSet(both) /\ 0 \in Int /\ \A a, b \in Int : a + b \in Int
        BY <1>1, <4>1
      <4> QED
        BY <2>1, <4>1, <4>2, SumType
    <3> HIDE DEF t, u, both
    <3>7. \A a, b, d \in Int : a + (b + d) = b + (a + d)
      OBVIOUS
    <3> QED
      BY <2>2, <3>4, <3>5, <3>6, <3>7 DEF u
  <2> QED
    BY <2>3, <2>4
<1> HIDE DEF P
<1>4. Cardinality(S) \in P
  BY <1>1, <1>2, <1>3, SetInduction
<1> QED
  BY <1>1, <1>4 DEF P

(* Functions with integer values on S that differ at y at most. *)
SameBut(f, g, S, y) ==
    \A x \in S : f[x] \in Int /\ g[x] \in Int /\ (x # y => f[x] = g[x])

LEMMA SumChanged ==
    ASSUME NEW S, IsFiniteSet(S), NEW f, NEW g, NEW y \in S, SameBut(f, g, S, y)
    PROVE  /\ SumFunctionOnSet(f, S) \in Int
           /\ SumFunctionOnSet(g, S) = SumFunctionOnSet(f, S) - f[y] + g[y]
<1> DEFINE T == S \ {y}
<1>1. /\ SumFunctionOnSet(f, S) = f[y] + SumFunctionOnSet(f, T)
      /\ SumFunctionOnSet(g, S) = g[y] + SumFunctionOnSet(g, T)
  BY SumWithout DEF SameBut
<1>2. IsFiniteSet(T) /\ \A x \in T : f[x] = g[x]
  BY FS_Subset DEF SameBut
<1>3. SumFunctionOnSet(f, T) = SumFunctionOnSet(g, T)
  <2> HIDE DEF T
  <2> QED
    BY <1>2, SumSame
<1>4. SumFunctionOnSet(f, T) \in Int /\ SumFunctionOnSet(f, S) \in Int
  <2>1. \A x \in T : f[x] \in Int
    BY DEF SameBut
  <2>2. \A x \in S : f[x] \in Int
    BY DEF SameBut
  <2> HIDE DEF T
  <2> QED
    BY <1>2, <2>1, <2>2, SumIsInteger
<1> HIDE DEF T
<1>5. f[y] \in Int /\ g[y] \in Int
  BY DEF SameBut
<1> QED
  BY <1>1, <1>3, <1>4, <1>5

(* Functions with the same integer values on S. *)
SameOn(f, g, S) == \A x \in S : f[x] = g[x] /\ g[x] \in Int

LEMMA SumExtended ==
    ASSUME NEW S, IsFiniteSet(S), NEW y, y \notin S, NEW f, NEW g,
           SameOn(f, g, S), g[y] \in Int
    PROVE  /\ SumFunctionOnSet(f, S) \in Int
           /\ SumFunctionOnSet(g, S \cup {y}) = SumFunctionOnSet(f, S) + g[y]
<1> DEFINE T == S \cup {y}
<1>1. IsFiniteSet(T) /\ y \in T /\ T \ {y} = S /\ \A x \in T : g[x] \in Int
  BY FS_AddElement DEF SameOn
<1>2. SumFunctionOnSet(g, T) = g[y] + SumFunctionOnSet(g, S)
  <2> HIDE DEF T
  <2> QED
    BY <1>1, SumWithout
<1>3. SumFunctionOnSet(g, S) = SumFunctionOnSet(f, S)
  BY SumSame DEF SameOn
<1>4. SumFunctionOnSet(g, S) \in Int
  BY SumIsInteger DEF SameOn
<1> QED
  BY <1>2, <1>3, <1>4

(* The sum of a sequence, and of one with another element at its end. *)
LEMMA SumAppended ==
    ASSUME NEW n \in Nat, NEW f, DOMAIN f = 1..n, NEW g, DOMAIN g = 1..(n + 1),
           \A i \in 1..n : g[i] = f[i] /\ f[i] \in Int, g[n + 1] \in Int
    PROVE  SumFunction(f) \in Int /\ SumFunction(g) = SumFunction(f) + g[n + 1]
<1> DEFINE S == 1..n
           y == n + 1
<1>1. IsFiniteSet(S)
  <2>1. 1 \in Int /\ n \in Int
    OBVIOUS
  <2> QED
    BY <2>1, FS_Interval
<1>2. y \notin S /\ 1..(n + 1) = S \cup {y}
  OBVIOUS
<1>3. SameOn(f, g, S) /\ g[y] \in Int
  BY DEF SameOn
<1>4. SumFunction(f) = SumFunctionOnSet(f, S) /\ SumFunction(g) = SumFunctionOnSet(g, S \cup {y})
  BY <1>2 DEF SumFunction
<1> HIDE DEF S, y
<1>5. /\ SumFunctionOnSet(f, S) \in Int
      /\ SumFunctionOnSet(g, S \cup {y}) = SumFunctionOnSet(f, S) + g[y]
  BY <1>1, <1>2, <1>3, SumExtended
<1> QED
  BY <1>4, <1>5 DEF y

(* A sum of two parts. *)
LEMMA SumSplit ==
    ASSUME NEW S, IsFiniteSet(S), NEW f, \A x \in S : f[x] \in Int, NEW A \in SUBSET S
    PROVE  /\ SumFunctionOnSet(f, A) \in Int /\ SumFunctionOnSet(f, S \ A) \in Int
           /\ SumFunctionOnSet(f, S) = SumFunctionOnSet(f, S \ A) + SumFunctionOnSet(f, A)
<1> DEFINE Total_(B) == SumFunctionOnSet(f, B)
           P == {n \in Nat : \A B \in SUBSET S : Cardinality(B) = n =>
                    Total_(S) = Total_(S \ B) + Total_(B)}
<1>1. \A B \in SUBSET S : IsFiniteSet(B) /\ Cardinality(B) \in Nat /\ Total_(B) \in Int
  <2> SUFFICES ASSUME NEW B \in SUBSET S
               PROVE  IsFiniteSet(B) /\ Cardinality(B) \in Nat /\ Total_(B) \in Int
    OBVIOUS
  <2>1. IsFiniteSet(B) /\ Cardinality(B) \in Nat /\ \A x \in B : f[x] \in Int
    BY FS_Subset, FS_CardinalityType
  <2> QED
    BY <2>1, SumIsInteger
<1>2. 0 \in P
  <2> SUFFICES ASSUME NEW B \in SUBSET S, Cardinality(B) = 0
               PROVE  Total_(S) = Total_(S \ B) + Total_(B)
    OBVIOUS
  <2>1. B = {} /\ S \ B = S /\ Total_(S) \in Int
    BY <1>1, FS_EmptySet
  <2>2. Total_(B) = 0
    BY <2>1, SumOfNothing
  <2> QED
    BY <2>1, <2>2
<1>3. ASSUME NEW n \in Nat, n \in P PROVE n + 1 \in P
  <2> SUFFICES ASSUME NEW B \in SUBSET S, Cardinality(B) = n + 1
               PROVE  Total_(S) = Total_(S \ B) + Total_(B)
    OBVIOUS
  <2>1. B # {}
    BY <1>1, FS_EmptySet
  <2>2. PICK y \in B : TRUE
    BY <2>1
  <2> DEFINE C == B \ {y}
  <2>3. C \in SUBSET S /\ Cardinality(C) = n /\ S \ B \in SUBSET S
    <3>1. IsFiniteSet(B) /\ Cardinality(B) = Cardinality(C) + 1 /\ Cardinality(C) \in Nat
      BY <1>1, <2>2, Smaller
    <3> QED
      BY <3>1
  <2>4. Total_(S) = Total_(S \ C) + Total_(C)
    BY <1>3, <2>3
  <2>5. Total_(B) = f[y] + Total_(C)
    <3>1. IsFiniteSet(B) /\ \A x \in B : f[x] \in Int
      BY <1>1
    <3> QED
      BY <2>2, <3>1, SumWithout
  <2>6. Total_(S \ C) = f[y] + Total_(S \ B)
    <3> DEFINE D == S \ C
    <3>1. IsFiniteSet(D) /\ y \in D /\ D \ {y} = S \ B /\ \A x \in D : f[x] \in Int
      BY <1>1, <2>2
    <3> HIDE DEF D
    <3>2. SumFunctionOnSet(f, D) = f[y] + SumFunctionOnSet(f, D \ {y})
      BY <3>1, SumWithout
    <3> QED
      BY <3>1, <3>2 DEF D
  <2>7. f[y] \in Int /\ Total_(C) \in Int /\ Total_(S \ B) \in Int
    BY <1>1, <2>2, <2>3
  <2> HIDE DEF Total_, C
  <2> QED
    BY <2>4, <2>5, <2>6, <2>7
<1> HIDE DEF P
<1>4. Cardinality(A) \in P
  BY <1>1, <1>2, <1>3, SetInduction
<1>5. Total_(S) = Total_(S \ A) + Total_(A)
  BY <1>4 DEF P
<1>6. S \ A \in SUBSET S
  OBVIOUS
<1> QED
  BY <1>1, <1>5, <1>6

(* Sums of natural numbers: none is more than the sum. *)
LEMMA SumBounds ==
    ASSUME NEW S, IsFiniteSet(S), NEW f, \A x \in S : f[x] \in Nat
    PROVE  /\ SumFunctionOnSet(f, S) \in Nat
           /\ \A x \in S : f[x] <= SumFunctionOnSet(f, S)
<1>1. 0 \in Nat /\ \A x, y \in Nat : x + y \in Nat
  OBVIOUS
<1>2. SumFunctionOnSet(f, S) \in Nat
  BY <1>1, SumType
<1>3. ASSUME NEW y \in S PROVE f[y] <= SumFunctionOnSet(f, S)
  <2> DEFINE T == S \ {y}
  <2>1. IsFiniteSet(T) /\ \A x \in T : f[x] \in Nat
    BY FS_Subset
  <2> HIDE DEF T
  <2>2. SumFunctionOnSet(f, T) \in Nat
    BY <1>1, <2>1, SumType
  <2>3. \A x \in S : f[x] \in Int
    OBVIOUS
  <2>4. SumFunctionOnSet(f, S) = f[y] + SumFunctionOnSet(f, T)
    BY <2>3, SumWithout DEF T
  <2> QED
    BY <2>2, <2>4
<1> QED
  BY <1>2, <1>3

(* Two sums, and what one has more than the other. *)
LEMMA SumDifference ==
    ASSUME NEW S, IsFiniteSet(S), NEW f, NEW g, NEW h,
           \A x \in S : f[x] \in Int /\ g[x] \in Int /\ h[x] = f[x] + g[x]
    PROVE  SumFunctionOnSet(h, S) = SumFunctionOnSet(f, S) + SumFunctionOnSet(g, S)
<1> DEFINE P == {n \in Nat : \A B \in SUBSET S : Cardinality(B) = n =>
                    SumFunctionOnSet(h, B) = SumFunctionOnSet(f, B) + SumFunctionOnSet(g, B)}
<1>1. \A B \in SUBSET S : IsFiniteSet(B) /\ Cardinality(B) \in Nat
  BY FS_Subset, FS_CardinalityType
<1>2. 0 \in P
  <2> SUFFICES ASSUME NEW B \in SUBSET S, Cardinality(B) = 0
               PROVE  SumFunctionOnSet(h, B) = SumFunctionOnSet(f, B) + SumFunctionOnSet(g, B)
    OBVIOUS
  <2>1. B = {}
    BY <1>1, FS_EmptySet
  <2> QED
    BY <2>1, SumOfNothing
<1>3. ASSUME NEW n \in Nat, n \in P PROVE n + 1 \in P
  <2> SUFFICES ASSUME NEW B \in SUBSET S, Cardinality(B) = n + 1
               PROVE  SumFunctionOnSet(h, B) = SumFunctionOnSet(f, B) + SumFunctionOnSet(g, B)
    OBVIOUS
  <2>1. B # {}
    BY <1>1, FS_EmptySet
  <2>2. PICK y \in B : TRUE
    BY <2>1
  <2> DEFINE C == B \ {y}
  <2>3. C \in SUBSET S /\ Cardinality(C) = n /\ IsFiniteSet(C)
    <3>1. IsFiniteSet(B) /\ C \in SUBSET S
      BY <1>1
    <3>2. IsFiniteSet(C) /\ Cardinality(B) = Cardinality(C) + 1 /\ Cardinality(C) \in Nat
      BY <2>2, <3>1, Smaller
    <3> HIDE DEF C
    <3> QED
      BY <3>1, <3>2
  <2>4. SumFunctionOnSet(h, C) = SumFunctionOnSet(f, C) + SumFunctionOnSet(g, C)
    BY <1>3, <2>3
  <2>5. IsFiniteSet(B) /\ \A x \in B : f[x] \in Int /\ g[x] \in Int /\ h[x] \in Int
    BY <1>1
  <2>6. /\ SumFunctionOnSet(f, B) = f[y] + SumFunctionOnSet(f, C)
        /\ SumFunctionOnSet(g, B) = g[y] + SumFunctionOnSet(g, C)
        /\ SumFunctionOnSet(h, B) = h[y] + SumFunctionOnSet(h, C)
    BY <2>2, <2>5, SumWithout
  <2>7. /\ f[y] \in Int /\ g[y] \in Int /\ h[y] = f[y] + g[y]
        /\ SumFunctionOnSet(f, C) \in Int /\ SumFunctionOnSet(g, C) \in Int
    <3>1. \A x \in C : f[x] \in Int /\ g[x] \in Int
      BY <2>5
    <3> HIDE DEF C
    <3> QED
      BY <2>2, <2>3, <3>1, SumIsInteger
  <2> HIDE DEF C
  <2> QED
    BY <2>4, <2>6, <2>7
<1> HIDE DEF P
<1>4. Cardinality(S) \in P /\ S \in SUBSET S
  BY <1>1, <1>2, <1>3, SetInduction
<1> QED
  BY <1>4 DEF P

LEMMA SumOfZeros ==
    ASSUME NEW S, IsFiniteSet(S), NEW f, \A x \in S : f[x] = 0
    PROVE  SumFunctionOnSet(f, S) = 0
<1>1. 0 \in {0} /\ \A x, y \in {0} : x + y \in {0}
  OBVIOUS
<1>2. SumFunctionOnSet(f, S) \in {0}
  BY <1>1, SumType
<1> QED
  BY <1>2

-----------------------------------------------------------------------------
(* What FoldLeft and FoldRight do, as traces.                              *)

LEMMA Greatest ==
    ASSUME NEW n \in Nat, NEW s \in SUBSET (1..n), s # {}
    PROVE  Max(s) \in s /\ \A y \in s : y <= Max(s)
<1> DEFINE T == {n - x : x \in s}
<1>1. T \subseteq Nat /\ T # {}
  <2>1. \A x \in s : x \in 1..n /\ n - x \in Nat
    OBVIOUS
  <2>2. PICK x \in s : TRUE
    OBVIOUS
  <2>3. n - x \in T
    BY <2>2
  <2> QED
    BY <2>1, <2>3
<1>2. PICK m \in T : \A k \in T : m <= k
  <2> HIDE DEF T
  <2> QED
    BY <1>1, LeastNat
<1>3. PICK x \in s : m = n - x
  BY <1>2
<1>4. \A y \in s : x >= y
  <2> SUFFICES ASSUME NEW y \in s PROVE x >= y
    OBVIOUS
  <2>1. m <= n - y
    BY <1>2
  <2> QED
    BY <1>3, <2>1
<1>5. Max(s) \in s /\ \A y \in s : Max(s) >= y
  <2> HIDE DEF T
  <2> QED
    BY <1>4 DEF Max
<1>6. \A y \in s : y \in Nat
  OBVIOUS
<1> QED
  BY <1>5, <1>6

LEMMA Least ==
    ASSUME NEW n \in Nat, NEW s \in SUBSET (1..n), s # {}
    PROVE  Min(s) \in s /\ \A y \in s : Min(s) <= y
<1>1. s \subseteq Nat
  OBVIOUS
<1>2. PICK x \in s : \A y \in s : x <= y
  BY <1>1, LeastNat
<1> QED
  BY <1>2 DEF Min

(* Operate: one operation after the other. *)
Start(a) == [ok |-> TRUE, record |-> a]
OneMore(r, op) == IF r.ok /\ CanOperate(r.record, op)
                  THEN [r EXCEPT !.record = Operated(@, op)]
                  ELSE [r EXCEPT !.ok = FALSE]
Onwards(g, a, ops, C) ==
    [s \in C |-> IF s = {} THEN Start(a) ELSE OneMore(g[s \ {Max(s)}], ops[Max(s)])]

LEMMA OnwardsExists ==
    ASSUME NEW a, NEW ops, NEW N \in Nat
    PROVE  \E g : g = Onwards(g, a, ops, SUBSET (1..N))
<1> DEFINE S == 1..N
           Level(n) == {s \in SUBSET S : Cardinality(s) <= n}
           P == {n \in Nat : \E g : g = Onwards(g, a, ops, Level(n))}
<1>1. IsFiniteSet(S)
  <2>1. 1 \in Int /\ N \in Int
    OBVIOUS
  <2> QED
    BY <2>1, FS_Interval
<1>2. \A s \in SUBSET S : IsFiniteSet(s) /\ Cardinality(s) \in Nat
                          /\ Cardinality(s) <= Cardinality(S)
  <2> HIDE DEF S
  <2> QED
    BY <1>1, FS_Subset, FS_CardinalityType
<1>3. Cardinality(S) \in Nat
  BY <1>2
<1>4. \A s \in SUBSET S : s # {} => Max(s) \in s
  BY Greatest
<1> HIDE DEF S
<1>5. 0 \in P
  <2> DEFINE g == [s \in Level(0) |-> Start(a)]
  <2>1. \A s \in Level(0) : s = {}
    BY <1>2, FS_EmptySet
  <2>2. g = Onwards(g, a, ops, Level(0))
    BY <2>1 DEF Onwards
  <2> QED
    BY <2>2
<1>6. ASSUME NEW n \in Nat, n \in P PROVE n + 1 \in P
  <2>1. PICK g : g = Onwards(g, a, ops, Level(n))
    BY <1>6
  <2> DEFINE h == Onwards(g, a, ops, Level(n + 1))
  <2>2. ASSUME NEW s \in Level(n + 1) PROVE h[s] = Onwards(h, a, ops, Level(n + 1))[s]
    <3>1. CASE s = {}
      BY <3>1 DEF Onwards
    <3>2. CASE s # {}
      <4> DEFINE t == s \ {Max(s)}
      <4>1. t \in Level(n) /\ t \in Level(n + 1)
        <5>1. s \in SUBSET S /\ Cardinality(s) <= n + 1 /\ Max(s) \in s
          BY <1>4, <2>2, <3>2
        <5>2. Cardinality(t) <= n /\ Cardinality(t) <= n + 1
          BY <1>2, <5>1, Smaller
        <5> QED
          BY <5>1, <5>2
      <4>2. h[t] = g[t]
        BY <2>1, <4>1 DEF Onwards
      <4>3. h[s] = OneMore(g[t], ops[Max(s)])
        BY <2>2, <3>2 DEF Onwards
      <4>4. Onwards(h, a, ops, Level(n + 1))[s] = OneMore(h[t], ops[Max(s)])
        BY <2>2, <3>2 DEF Onwards
      <4> QED
        BY <4>2, <4>3, <4>4
    <3> QED
      BY <3>1, <3>2
  <2>3. h = Onwards(h, a, ops, Level(n + 1))
    BY <2>2 DEF Onwards
  <2> QED
    BY <2>3
<1> HIDE DEF P
<1>7. Cardinality(S) \in P
  BY <1>3, <1>5, <1>6, SetInduction
<1>8. Level(Cardinality(S)) = SUBSET S
  BY <1>2
<1> QED
  BY <1>7, <1>8 DEF P, S

LEMMA OperateIsChosen ==
    ASSUME NEW a, NEW ops
    PROVE  Operate(a, ops)
             = (CHOOSE g : g = Onwards(g, a, ops, SUBSET DOMAIN ops))[DOMAIN ops]
BY DEF Operate, FoldLeft, MapThenFoldSet, Onwards, OneMore, Start

(* The states between the operations. *)
Trace(r, a, ops, n) ==
    r[0] = Start(a) /\ \A k \in 1..n : r[k] = OneMore(r[k - 1], ops[k])

LEMMA OperateTrace ==
    ASSUME NEW a, NEW ops, NEW n \in Nat, DOMAIN ops = 1..n
    PROVE  \E r : Trace(r, a, ops, n) /\ Operate(a, ops) = r[n]
<1> DEFINE g == CHOOSE g : g = Onwards(g, a, ops, SUBSET (1..n))
           r == [k \in 0..n |-> g[1..k]]
<1>1. g = Onwards(g, a, ops, SUBSET (1..n))
  BY OnwardsExists
<1>2. Operate(a, ops) = g[1..n]
  BY OperateIsChosen
<1> HIDE DEF g
<1>3. r[0] = Start(a)
  <2>1. 1..0 = {} /\ {} \in SUBSET (1..n) /\ r[0] = g[{}]
    OBVIOUS
  <2>2. g[{}] = Start(a)
    BY <1>1 DEF Onwards
  <2> QED
    BY <2>1, <2>2
<1>4. ASSUME NEW k \in 1..n PROVE r[k] = OneMore(r[k - 1], ops[k])
  <2> DEFINE s == 1..k
  <2>1. s \in SUBSET (1..n) /\ s # {} /\ k \in s
    <3>1. k \in s /\ \A i \in s : i \in 1..n
      OBVIOUS
    <3> HIDE DEF s
    <3> QED
      BY <3>1
  <2>2. Max(s) = k
    <3>1. Max(s) \in s /\ k <= Max(s)
      BY <2>1, Greatest
    <3> QED
      BY <3>1
  <2>3. s \ {k} = 1..(k - 1)
    OBVIOUS
  <2>4. g[s] = OneMore(g[s \ {Max(s)}], ops[Max(s)])
    <3> HIDE DEF s
    <3> QED
      BY <1>1, <2>1 DEF Onwards
  <2>5. r[k] = g[s] /\ r[k - 1] = g[1..(k - 1)]
    OBVIOUS
  <2> HIDE DEF s, r
  <2> QED
    BY <2>2, <2>3, <2>4, <2>5
<1>5. r[n] = g[1..n]
  OBVIOUS
<1> HIDE DEF r
<1> QED
  BY <1>2, <1>3, <1>4, <1>5 DEF Trace

(* DisconnectBlock: one call after the other, from the last. *)
Backwards(g, txs, w, C) ==
    [s \in C |-> IF s = {} THEN w ELSE Undo(g[s \ {Min(s)}], txs[Min(s)].log)]

UndoAll(txs, w) == FoldRight(LAMBDA tx, v : Undo(v, tx.log), txs, w)

LEMMA BackwardsExists ==
    ASSUME NEW w, NEW txs, NEW N \in Nat
    PROVE  \E g : g = Backwards(g, txs, w, SUBSET (1..N))
<1> DEFINE S == 1..N
           Level(n) == {s \in SUBSET S : Cardinality(s) <= n}
           P == {n \in Nat : \E g : g = Backwards(g, txs, w, Level(n))}
<1>1. IsFiniteSet(S)
  <2>1. 1 \in Int /\ N \in Int
    OBVIOUS
  <2> QED
    BY <2>1, FS_Interval
<1>2. \A s \in SUBSET S : IsFiniteSet(s) /\ Cardinality(s) \in Nat
                          /\ Cardinality(s) <= Cardinality(S)
  <2> HIDE DEF S
  <2> QED
    BY <1>1, FS_Subset, FS_CardinalityType
<1>3. Cardinality(S) \in Nat
  BY <1>2
<1>4. \A s \in SUBSET S : s # {} => Min(s) \in s
  BY Least
<1> HIDE DEF S
<1>5. 0 \in P
  <2> DEFINE g == [s \in Level(0) |-> w]
  <2>1. \A s \in Level(0) : s = {}
    BY <1>2, FS_EmptySet
  <2>2. g = Backwards(g, txs, w, Level(0))
    BY <2>1 DEF Backwards
  <2> QED
    BY <2>2
<1>6. ASSUME NEW n \in Nat, n \in P PROVE n + 1 \in P
  <2>1. PICK g : g = Backwards(g, txs, w, Level(n))
    BY <1>6
  <2> DEFINE h == Backwards(g, txs, w, Level(n + 1))
  <2>2. ASSUME NEW s \in Level(n + 1) PROVE h[s] = Backwards(h, txs, w, Level(n + 1))[s]
    <3>1. CASE s = {}
      BY <3>1 DEF Backwards
    <3>2. CASE s # {}
      <4> DEFINE t == s \ {Min(s)}
      <4>1. t \in Level(n) /\ t \in Level(n + 1)
        <5>1. s \in SUBSET S /\ Cardinality(s) <= n + 1 /\ Min(s) \in s
          BY <1>4, <2>2, <3>2
        <5>2. Cardinality(t) <= n /\ Cardinality(t) <= n + 1
          BY <1>2, <5>1, Smaller
        <5> QED
          BY <5>1, <5>2
      <4>2. h[t] = g[t]
        BY <2>1, <4>1 DEF Backwards
      <4>3. h[s] = Undo(g[t], txs[Min(s)].log)
        BY <2>2, <3>2 DEF Backwards
      <4>4. Backwards(h, txs, w, Level(n + 1))[s] = Undo(h[t], txs[Min(s)].log)
        BY <2>2, <3>2 DEF Backwards
      <4> QED
        BY <4>2, <4>3, <4>4
    <3> QED
      BY <3>1, <3>2
  <2>3. h = Backwards(h, txs, w, Level(n + 1))
    BY <2>2 DEF Backwards
  <2> QED
    BY <2>3
<1> HIDE DEF P
<1>7. Cardinality(S) \in P
  BY <1>3, <1>5, <1>6, SetInduction
<1>8. Level(Cardinality(S)) = SUBSET S
  BY <1>2
<1> QED
  BY <1>7, <1>8 DEF P, S

LEMMA UndoAllIsChosen ==
    ASSUME NEW w, NEW txs
    PROVE  UndoAll(txs, w)
             = (CHOOSE g : g = Backwards(g, txs, w, SUBSET DOMAIN txs))[DOMAIN txs]
BY DEF UndoAll, FoldRight, MapThenFoldSet, Backwards

(* r[i] is the world before call i of n, to which its log goes back. *)
Goes(r, txs, n) == \A i \in 1..n : r[i] = Undo(r[i + 1], txs[i].log)
Undoes(txs, w, w0) ==
    \E r : r[Len(txs) + 1] = w /\ r[1] = w0 /\ Goes(r, txs, Len(txs))

LEMMA UndoesUndoAll ==
    ASSUME NEW Elem, NEW txs \in Seq(Elem), NEW w, NEW w0, Undoes(txs, w, w0)
    PROVE  UndoAll(txs, w) = w0
<1> DEFINE n == Len(txs)
           g == CHOOSE g : g = Backwards(g, txs, w, SUBSET (1..n))
<1>1. n \in Nat /\ DOMAIN txs = 1..n
  OBVIOUS
<1>2. PICK r : r[n + 1] = w /\ r[1] = w0 /\ Goes(r, txs, n)
  BY DEF Undoes
<1> HIDE DEF n
<1>3. g = Backwards(g, txs, w, SUBSET (1..n))
  BY <1>1, BackwardsExists
<1>4. UndoAll(txs, w) = g[1..n]
  BY <1>1, UndoAllIsChosen
<1> HIDE DEF g
<1> DEFINE Q == {d \in Nat : d <= n => g[(n - d + 1)..n] = r[n - d + 1]}
<1>5. 0 \in Q
  <2>1. (n - 0 + 1)..n = {} /\ n - 0 + 1 = n + 1
    BY <1>1
  <2>2. g[{}] = w
    BY <1>3 DEF Backwards
  <2> QED
    BY <1>2, <2>1, <2>2
<1>6. ASSUME NEW d \in Nat, d \in Q PROVE d + 1 \in Q
  <2> SUFFICES ASSUME d + 1 <= n PROVE g[(n - (d + 1) + 1)..n] = r[n - (d + 1) + 1]
    OBVIOUS
  <2> DEFINE i == n - d
             s == i..n
  <2>1. i \in 1..n /\ n - (d + 1) + 1 = i /\ n - d + 1 = i + 1
    BY <1>1
  <2>2. g[(i + 1)..n] = r[i + 1]
    BY <1>6, <2>1, <1>1
  <2> HIDE DEF i
  <2>3. s \in SUBSET (1..n) /\ s # {} /\ i \in s /\ s \ {i} = (i + 1)..n
    <3>1. i \in s /\ \A j \in s : j \in 1..n
      BY <1>1, <2>1
    <3>2. s \ {i} = (i + 1)..n
      BY <1>1, <2>1
    <3> HIDE DEF s
    <3> QED
      BY <3>1, <3>2
  <2>4. Min(s) = i
    <3>1. Min(s) \in s /\ Min(s) <= i
      <4> HIDE DEF s
      <4> QED
        BY <1>1, <2>3, Least
    <3> QED
      BY <1>1, <2>1, <3>1
  <2>5. g[s] = Undo(g[s \ {Min(s)}], txs[Min(s)].log)
    <3> HIDE DEF s
    <3> QED
      BY <1>3, <2>3 DEF Backwards
  <2>6. r[i] = Undo(r[i + 1], txs[i].log)
    BY <1>2, <2>1 DEF Goes
  <2>7. g[s] = r[i]
    <3> HIDE DEF s
    <3> QED
      BY <2>2, <2>3, <2>4, <2>5, <2>6
  <2> QED
    BY <2>1, <2>7
<1> HIDE DEF Q
<1>7. n \in Q
  BY <1>1, <1>5, <1>6, SetInduction
<1>8. n - n + 1 = 1
  BY <1>1
<1>9. g[1..n] = r[1]
  BY <1>1, <1>7, <1>8 DEF Q
<1> QED
  BY <1>2, <1>4, <1>9

(* No call, nothing to undo; one more call, undone first. *)
LEMMA UndoesNothing == ASSUME NEW w PROVE Undoes(<<>>, w, w)
<1> DEFINE r == [i \in {1} |-> w]
<1>1. r[Len(<<>>) + 1] = w /\ r[1] = w /\ Goes(r, <<>>, Len(<<>>))
  BY DEF Goes
<1> QED
  BY <1>1 DEF Undoes

LEMMA UndoesOneMore ==
    ASSUME NEW Elem, NEW txs \in Seq(Elem), NEW tx, NEW w, NEW v, NEW w0,
           Undoes(txs, w, w0), Undo(v, tx.log) = w
    PROVE  Undoes(Append(txs, tx), v, w0)
<1> DEFINE n == Len(txs)
           more == Append(txs, tx)
<1>1. PICK r : r[n + 1] = w /\ r[1] = w0 /\ Goes(r, txs, n)
  BY DEF Undoes
<1> DEFINE q == [i \in 1..(n + 2) |-> IF i = n + 2 THEN v ELSE r[i]]
<1>2. /\ n \in Nat /\ Len(more) = n + 1 /\ more[n + 1] = tx
      /\ \A i \in 1..n : more[i] = txs[i]
  OBVIOUS
<1> HIDE DEF n, more
<1>3. q[n + 1 + 1] = v /\ q[1] = w0 /\ q[n + 1] = w
  BY <1>1, <1>2
<1>4. ASSUME NEW i \in 1..(n + 1) PROVE q[i] = Undo(q[i + 1], more[i].log)
  <2>1. CASE i = n + 1
    <3>1. q[i] = w /\ q[i + 1] = v /\ more[i] = tx
      BY <1>2, <1>3, <2>1
    <3> HIDE DEF q
    <3> QED
      BY <3>1
  <2>2. CASE i # n + 1
    <3>1. i \in 1..n /\ q[i] = r[i] /\ q[i + 1] = r[i + 1]
      BY <1>2, <2>2
    <3> HIDE DEF q
    <3> QED
      BY <1>1, <1>2, <3>1 DEF Goes
  <2> QED
    BY <2>1, <2>2
<1> HIDE DEF q
<1>5. Goes(q, more, n + 1)
  BY <1>4 DEF Goes
<1> QED
  BY <1>2, <1>3, <1>5 DEF Undoes, more

-----------------------------------------------------------------------------
(* One record.                                                             *)

IsFunds(f) ==
    /\ f = [k \in DOMAIN f |-> f[k]] /\ DOMAIN f \subseteq FundKey
    /\ \A k \in DOMAIN f : f[k] \in Nat \ {0}
IsRecord(a) ==
    /\ a = [free |-> a.free, frozen |-> a.frozen]
    /\ a.free \in Nat /\ IsFunds(a.frozen)

Operations ==
    [kind : {"addFree", "subFree"}, key : {Nowhere}, money : Nat \ {0}]
    \cup [kind : {"addTag", "subTag"}, key : FundKey, money : Nat \ {0}]

LEMMA FiniteKeys == IsFiniteSet(FundKey)
<1> DEFINE until == 1..MaxTime
           T == Tag \X until
           f == [k \in FundKey |-> <<k.tag, k.until>>]
<1>1. IsFiniteSet(until)
  <2>1. 1 \in Int /\ MaxTime \in Int
    BY BoundAssumption
  <2> QED
    BY <2>1, FS_Interval
<1>2. IsFiniteSet(Tag)
  BY BoundAssumption
<1>3. \A k \in FundKey : /\ k.tag \in Tag /\ k.until \in until
                          /\ k = [tag |-> k.tag, until |-> k.until]
  BY DEF FundKey
<1> HIDE DEF until
<1>4. IsFiniteSet(T)
  BY <1>1, <1>2, FS_Product
<1>5. \A k \in FundKey : <<k.tag, k.until>> \in T
  BY <1>3
<1> HIDE DEF T
<1>6. f \in [FundKey -> T]
  BY <1>5
<1>7. ASSUME NEW k \in FundKey, NEW m \in FundKey, f[k] = f[m] PROVE k = m
  <2>1. k.tag = m.tag /\ k.until = m.until
    BY <1>7
  <2> QED
    BY <1>3, <2>1, Zenon
<1>8. f \in Injection(FundKey, T)
  <2> HIDE DEF f
  <2> QED
    BY <1>6, <1>7 DEF Injection, IsInjective
<1> QED
  BY <1>4, <1>8, FS_Injection

LEMMA FundsFinite ==
    ASSUME NEW f, IsFunds(f)
    PROVE  /\ IsFiniteSet(DOMAIN f) /\ SumFunction(f) \in Nat
           /\ \A k \in DOMAIN f : f[k] \in Nat /\ f[k] \in Int /\ f[k] <= SumFunction(f)
<1>1. IsFiniteSet(DOMAIN f)
  BY FiniteKeys, FS_Subset DEF IsFunds
<1>2. \A k \in DOMAIN f : f[k] \in Nat
  BY DEF IsFunds
<1> QED
  BY <1>1, <1>2, SumBounds DEF SumFunction

LEMMA OwnedType ==
    ASSUME NEW a, IsRecord(a)
    PROVE  /\ Owned(a) \in Nat /\ a.free <= Owned(a)
           /\ \A k \in DOMAIN a.frozen : a.frozen[k] <= Owned(a)
<1>1. /\ a.free \in Nat /\ SumFunction(a.frozen) \in Nat
      /\ \A k \in DOMAIN a.frozen : a.frozen[k] \in Nat /\ a.frozen[k] <= SumFunction(a.frozen)
  BY FundsFinite DEF IsRecord
<1> QED
  BY <1>1 DEF Owned

LEMMA NothingOwned == IsRecord(NewRecord) /\ Owned(NewRecord) = 0
<1>1. NewRecord.free = 0 /\ DOMAIN NewRecord.frozen = {} /\ NewRecord.frozen = <<>>
  BY DEF NewRecord
<1>2. SumFunction(NewRecord.frozen) = 0
  BY <1>1, SumOfNothing DEF SumFunction
<1>3. <<>> = [k \in {} |-> <<>>[k]]
  OBVIOUS
<1>4. IsRecord(NewRecord)
  BY <1>1, <1>3 DEF IsRecord, IsFunds, NewRecord
<1> QED
  BY <1>1, <1>2, <1>4 DEF Owned

(* AutoMergeFreezeToFree frees funds, no money. *)
LEMMA MergeKeeps ==
    ASSUME NEW a, IsRecord(a), NEW now
    PROVE  /\ IsRecord(AutoMergeFreezeToFree(a, now))
           /\ Owned(AutoMergeFreezeToFree(a, now)) = Owned(a)
<1> DEFINE K == DOMAIN a.frozen
           due == {k \in K : k.until <= now}
           rest == K \ due
           left == Restrict(a.frozen, rest)
           b == AutoMergeFreezeToFree(a, now)
<1>1. b.free = a.free + SumFunctionOnSet(a.frozen, due) /\ b.frozen = left
      /\ b = [free |-> b.free, frozen |-> b.frozen]
  BY DEF AutoMergeFreezeToFree
<1>2. IsFiniteSet(K) /\ \A k \in K : a.frozen[k] \in Int /\ a.frozen[k] \in Nat
  BY FundsFinite DEF IsRecord
<1>3. due \in SUBSET K /\ rest \in SUBSET K /\ IsFiniteSet(rest) /\ IsFiniteSet(due)
  BY <1>2, FS_Subset
<1>4. DOMAIN left = rest /\ \A k \in rest : left[k] = a.frozen[k]
  BY DEF Restrict
<1>5. left = [k \in DOMAIN left |-> left[k]]
  BY DEF Restrict
<1> HIDE DEF left, b, due
<1>6. /\ SumFunctionOnSet(a.frozen, due) \in Int /\ SumFunctionOnSet(a.frozen, rest) \in Int
      /\ SumFunctionOnSet(a.frozen, K)
           = SumFunctionOnSet(a.frozen, rest) + SumFunctionOnSet(a.frozen, due)
  <2> HIDE DEF K
  <2> QED
    BY <1>2, <1>3, SumSplit
<1>7. SumFunctionOnSet(a.frozen, due) \in Nat
  <2>1. \A k \in due : a.frozen[k] \in Nat
    BY <1>2, <1>3
  <2> QED
    BY <1>3, <2>1, SumBounds
<1>8. SumFunctionOnSet(left, rest) = SumFunctionOnSet(a.frozen, rest)
  <2> HIDE DEF rest
  <2> QED
    BY <1>3, <1>4, SumSame
<1>9. IsRecord(b)
  <2>1. IsFunds(left)
    BY <1>3, <1>4, <1>5 DEF IsFunds, IsRecord
  <2> QED
    BY <1>1, <1>7, <2>1 DEF IsRecord
<1>10. a.free \in Nat
  BY DEF IsRecord
<1>11. Owned(b) = Owned(a)
  <2>1. SumFunction(b.frozen) = SumFunctionOnSet(a.frozen, rest)
    BY <1>1, <1>4, <1>8 DEF SumFunction
  <2>2. SumFunction(a.frozen) = SumFunctionOnSet(a.frozen, K)
    BY DEF SumFunction
  <2> HIDE DEF K, rest
  <2> QED
    BY <1>1, <1>6, <1>10, <2>1, <2>2 DEF Owned
<1> QED
  BY <1>9, <1>11 DEF b

(* AddAppCFund. *)
LEMMA AddedFund ==
    ASSUME NEW a, IsRecord(a), NEW key \in FundKey, NEW money \in Nat \ {0}
    PROVE  /\ IsRecord(AddAppCFund(a, key, money))
           /\ Owned(AddAppCFund(a, key, money)) = Owned(a) + money
<1> DEFINE K == DOMAIN a.frozen
           b == AddAppCFund(a, key, money)
           f == b.frozen
<1>1. /\ b = [free |-> b.free, frozen |-> b.frozen] /\ b.free = a.free
      /\ DOMAIN f = K \cup {key} /\ f = [k \in DOMAIN f |-> f[k]]
      /\ f[key] = FundOf(a, key) + money
      /\ \A k \in K \ {key} : f[k] = a.frozen[k]
  BY DEF AddAppCFund, IsRecord
<1>2. IsFiniteSet(K) /\ \A k \in K : a.frozen[k] \in Int /\ a.frozen[k] \in Nat \ {0}
  BY FundsFinite DEF IsRecord, IsFunds
<1>3. FundOf(a, key) \in Nat /\ f[key] \in Nat \ {0} /\ f[key] \in Int
  BY <1>1, <1>2 DEF FundOf
<1>4. K \subseteq FundKey /\ a.free \in Nat
  BY DEF IsRecord, IsFunds
<1> HIDE DEF b
<1>5. IsRecord(b)
  <2>1. IsFunds(f)
    <3>1. \A k \in DOMAIN f : f[k] \in Nat \ {0}
      BY <1>1, <1>2, <1>3
    <3> HIDE DEF f
    <3> QED
      BY <1>1, <1>4, <3>1 DEF IsFunds
  <2> QED
    BY <1>1, <1>4, <2>1 DEF IsRecord
<1>6. SumFunction(f) = SumFunction(a.frozen) + money /\ SumFunction(a.frozen) \in Int
  <2>1. SumFunctionOnSet(a.frozen, K) \in Int
    BY <1>2, SumIsInteger
  <2>2. CASE key \in K
    <3>1. DOMAIN f = K /\ f[key] = a.frozen[key] + money
      BY <1>1, <2>2 DEF FundOf
    <3>2. SameBut(a.frozen, f, K, key)
      BY <1>1, <1>2, <1>3 DEF SameBut
    <3> HIDE DEF K, f
    <3>3. SumFunctionOnSet(f, K) = SumFunctionOnSet(a.frozen, K) - a.frozen[key] + f[key]
      BY <1>2, <2>2, <3>2, SumChanged
    <3>4. a.frozen[key] \in Int
      BY <1>2, <2>2
    <3>5. SumFunctionOnSet(f, K) = SumFunctionOnSet(a.frozen, K) + money
      BY <2>1, <3>1, <3>3, <3>4
    <3> QED
      BY <2>1, <3>1, <3>5 DEF SumFunction, K
  <2>3. CASE key \notin K
    <3>1. f[key] = money
      BY <1>1, <2>3 DEF FundOf
    <3>2. SameOn(a.frozen, f, K)
      BY <1>1, <1>2, <2>3 DEF SameOn
    <3> HIDE DEF K, f
    <3>3. SumFunctionOnSet(f, K \cup {key}) = SumFunctionOnSet(a.frozen, K) + f[key]
      BY <1>2, <1>3, <2>3, <3>2, SumExtended
    <3> QED
      BY <1>1, <2>1, <3>1, <3>3 DEF SumFunction, K
  <2> QED
    BY <2>2, <2>3
<1>7. Owned(b) = Owned(a) + money
  BY <1>1, <1>4, <1>6 DEF Owned
<1> QED
  BY <1>5, <1>7 DEF b

(* MinusAppCFund. *)
LEMMA ReducedFund ==
    ASSUME NEW a, IsRecord(a), NEW key \in FundKey, NEW money \in Nat \ {0},
           money <= FundOf(a, key)
    PROVE  /\ IsRecord(MinusAppCFund(a, key, money))
           /\ Owned(MinusAppCFund(a, key, money)) = Owned(a) - money
<1> DEFINE K == DOMAIN a.frozen
           b == MinusAppCFund(a, key, money)
           f == b.frozen
<1>1. key \in K /\ FundOf(a, key) = a.frozen[key]
  BY DEF FundOf
<1>2. IsFiniteSet(K) /\ \A k \in K : a.frozen[k] \in Int /\ a.frozen[k] \in Nat \ {0}
  BY FundsFinite DEF IsRecord, IsFunds
<1>3. K \subseteq FundKey /\ a.free \in Nat
  BY DEF IsRecord, IsFunds
<1>4. SumFunctionOnSet(a.frozen, K) \in Int /\ SumFunction(a.frozen) = SumFunctionOnSet(a.frozen, K)
  BY <1>2, SumIsInteger DEF SumFunction
<1>5. CASE a.frozen[key] = money
  <2> DEFINE R == K \ {key}
  <2>1. /\ b = [free |-> b.free, frozen |-> b.frozen] /\ b.free = a.free
        /\ DOMAIN f = R /\ f = [k \in DOMAIN f |-> f[k]]
        /\ \A k \in R : f[k] = a.frozen[k]
    BY <1>1, <1>5 DEF MinusAppCFund, IsRecord, Restrict
  <2> HIDE DEF b
  <2>2. IsRecord(b)
    <3>1. IsFunds(f)
      <4>1. \A k \in DOMAIN f : f[k] \in Nat \ {0}
        BY <1>2, <2>1
      <4> HIDE DEF f
      <4> QED
        BY <1>3, <2>1, <4>1 DEF IsFunds
    <3> QED
      BY <1>3, <2>1, <3>1 DEF IsRecord
  <2>3. SumFunctionOnSet(a.frozen, K) = a.frozen[key] + SumFunctionOnSet(a.frozen, R)
    <3> HIDE DEF K
    <3> QED
      BY <1>1, <1>2, SumWithout
  <2>4. IsFiniteSet(R) /\ \A k \in R : a.frozen[k] \in Int
    BY <1>2, FS_Subset
  <2>5. SumFunctionOnSet(f, R) = SumFunctionOnSet(a.frozen, R)
    <3> HIDE DEF R, f
    <3> QED
      BY <2>1, <2>4, SumSame
  <2>6. SumFunctionOnSet(a.frozen, R) \in Int
    <3> HIDE DEF R
    <3> QED
      BY <2>4, SumIsInteger
  <2>7. SumFunction(f) = SumFunctionOnSet(a.frozen, R)
    BY <2>1, <2>5 DEF SumFunction
  <2>8. Owned(b) = Owned(a) - money
    <3> HIDE DEF R, K, f
    <3>1. SumFunction(f) = SumFunction(a.frozen) - money /\ SumFunction(a.frozen) \in Int
      BY <1>4, <1>5, <2>3, <2>6, <2>7
    <3> QED
      BY <1>3, <2>1, <3>1 DEF Owned, f
  <2> QED
    BY <2>2, <2>8 DEF b
<1>6. CASE a.frozen[key] # money
  <2>1. /\ b = [free |-> b.free, frozen |-> b.frozen] /\ b.free = a.free
        /\ DOMAIN f = K /\ f = [k \in DOMAIN f |-> f[k]]
        /\ f[key] = a.frozen[key] - money
        /\ \A k \in K \ {key} : f[k] = a.frozen[k]
    BY <1>1, <1>6 DEF MinusAppCFund, IsRecord
  <2>2. f[key] \in Nat \ {0} /\ f[key] \in Int /\ a.frozen[key] \in Int
    BY <1>1, <1>2, <1>6, <2>1
  <2> HIDE DEF b
  <2>3. IsRecord(b)
    <3>1. IsFunds(f)
      <4>1. \A k \in DOMAIN f : f[k] \in Nat \ {0}
        BY <1>2, <2>1, <2>2
      <4> HIDE DEF f
      <4> QED
        BY <1>3, <2>1, <4>1 DEF IsFunds
    <3> QED
      BY <1>3, <2>1, <3>1 DEF IsRecord
  <2>4. SameBut(a.frozen, f, K, key)
    BY <1>2, <2>1, <2>2 DEF SameBut
  <2>5. SumFunctionOnSet(f, K) = SumFunctionOnSet(a.frozen, K) - a.frozen[key] + f[key]
    <3> HIDE DEF K, f
    <3> QED
      BY <1>1, <1>2, <2>4, SumChanged
  <2>6. SumFunction(f) = SumFunctionOnSet(f, K)
    BY <2>1 DEF SumFunction
  <2>7. Owned(b) = Owned(a) - money
    <3> HIDE DEF K, f
    <3>1. SumFunction(f) = SumFunction(a.frozen) - money /\ SumFunction(a.frozen) \in Int
      BY <1>4, <2>1, <2>2, <2>5, <2>6
    <3> QED
      BY <1>3, <2>1, <3>1 DEF Owned, f
  <2> QED
    BY <2>3, <2>7 DEF b
<1> QED
  BY <1>5, <1>6

(* One operation changes what is owned by its money. *)
LEMMA OperatedChanges ==
    ASSUME NEW a, IsRecord(a), NEW op \in Operations, CanOperate(a, op)
    PROVE  /\ IsRecord(Operated(a, op)) /\ Change(op) \in Int
           /\ Owned(Operated(a, op)) = Owned(a) + Change(op)
<1>1. op.money \in Nat \ {0} /\ Owned(a) \in Nat /\ a.free \in Nat /\ IsFunds(a.frozen)
      /\ SumFunction(a.frozen) \in Nat
  BY OwnedType, FundsFinite DEF Operations, IsRecord
<1>2. CASE op.kind = "addFree"
  <2> DEFINE b == [free |-> a.free + op.money, frozen |-> a.frozen]
  <2>1. Operated(a, op) = b /\ Change(op) = op.money
    BY <1>2 DEF Operated, Change, Adds, IsRecord
  <2>2. IsRecord(b) /\ Owned(b) = Owned(a) + op.money
    BY <1>1 DEF IsRecord, Owned
  <2> HIDE DEF b
  <2> QED
    BY <1>1, <2>1, <2>2
<1>3. CASE op.kind = "subFree"
  <2> DEFINE b == [free |-> a.free - op.money, frozen |-> a.frozen]
  <2>1. Operated(a, op) = b /\ Change(op) = -op.money /\ op.money <= a.free
    BY <1>3 DEF Operated, Change, Adds, IsRecord, CanOperate
  <2>2. IsRecord(b) /\ Owned(b) = Owned(a) - op.money
    BY <1>1, <2>1 DEF IsRecord, Owned
  <2> HIDE DEF b
  <2> QED
    BY <1>1, <2>1, <2>2
<1>4. CASE op.kind = "addTag"
  <2>1. /\ Operated(a, op) = AddAppCFund(a, op.key, op.money)
        /\ Change(op) = op.money /\ op.key \in FundKey
    BY <1>4 DEF Operated, Change, Adds, Operations
  <2> QED
    BY <1>1, <2>1, AddedFund
<1>5. CASE op.kind = "subTag"
  <2>1. /\ Operated(a, op) = MinusAppCFund(a, op.key, op.money)
        /\ Change(op) = -op.money /\ op.key \in FundKey /\ op.money <= FundOf(a, op.key)
    BY <1>5 DEF Operated, Change, Adds, Operations, CanOperate
  <2>2. /\ IsRecord(MinusAppCFund(a, op.key, op.money))
        /\ Owned(MinusAppCFund(a, op.key, op.money)) = Owned(a) - op.money
    BY <1>1, <2>1, ReducedFund
  <2> QED
    BY <1>1, <2>1, <2>2
<1> QED
  BY <1>2, <1>3, <1>4, <1>5 DEF Operations

-----------------------------------------------------------------------------
(* The operations of one user.                                             *)

LEMMA OneMoreOk ==
    ASSUME NEW r, r = [ok |-> r.ok, record |-> r.record], NEW op
    PROVE  /\ OneMore(r, op) = [ok |-> OneMore(r, op).ok, record |-> OneMore(r, op).record]
           /\ OneMore(r, op).ok => r.ok /\ CanOperate(r.record, op)
           /\ r.ok /\ CanOperate(r.record, op)
                => OneMore(r, op) = [ok |-> r.ok, record |-> Operated(r.record, op)]
<1>1. CASE r.ok /\ CanOperate(r.record, op)
  <2> DEFINE q == [ok |-> r.ok, record |-> Operated(r.record, op)]
  <2>1. OneMore(r, op) = q
    BY <1>1 DEF OneMore
  <2> QED
    BY <1>1, <2>1
<1>2. CASE ~(r.ok /\ CanOperate(r.record, op))
  <2> DEFINE q == [ok |-> FALSE, record |-> r.record]
  <2>1. OneMore(r, op) = q
    BY <1>2 DEF OneMore
  <2> QED
    BY <1>2, <2>1
<1> QED
  BY <1>1, <1>2

(* If all of them can be done, they change what is owned by their sum. *)
LEMMA OperateChanges ==
    ASSUME NEW a, IsRecord(a), NEW ops \in Seq(Operations), Operate(a, ops).ok
    PROVE  /\ IsRecord(Operate(a, ops).record)
           /\ SumFunction([i \in DOMAIN ops |-> Change(ops[i])]) \in Int
           /\ Owned(Operate(a, ops).record)
                = Owned(a) + SumFunction([i \in DOMAIN ops |-> Change(ops[i])])
<1> DEFINE n == Len(ops)
           c == [i \in DOMAIN ops |-> Change(ops[i])]
           Gained(k) == SumFunctionOnSet(c, 1..k)
<1>1. n \in Nat /\ DOMAIN ops = 1..n /\ \A i \in 1..n : ops[i] \in Operations
  OBVIOUS
<1>2. \A i \in 1..n : c[i] = Change(ops[i]) /\ c[i] \in Int
  BY <1>1 DEF Change, Operations
<1>3. SumFunction(c) = Gained(n)
  BY <1>1 DEF SumFunction
<1>4. PICK r : Trace(r, a, ops, n) /\ Operate(a, ops) = r[n]
  BY <1>1, OperateTrace
<1> HIDE DEF n, c
<1> DEFINE Fine(q, m) == /\ q = [ok |-> q.ok, record |-> q.record]
                         /\ q.ok => IsRecord(q.record) /\ Owned(q.record) = Owned(a) + m
           P == {k \in Nat : k <= n => Gained(k) \in Int /\ Fine(r[k], Gained(k))}
<1>5. 0 \in P
  <2>1. Gained(0) = 0
    <3>1. 1..0 = {}
      OBVIOUS
    <3> QED
      BY <3>1, SumOfNothing
  <2>2. r[0] = [ok |-> TRUE, record |-> a] /\ Owned(a) \in Nat
    BY <1>4, OwnedType DEF Trace, Start
  <2>3. Fine(r[0], 0)
    BY <2>2
  <2> HIDE DEF Fine, Gained
  <2> QED
    BY <2>1, <2>3
<1>6. ASSUME NEW k \in Nat, k \in P PROVE k + 1 \in P
  <2> SUFFICES ASSUME k + 1 <= n PROVE Gained(k + 1) \in Int /\ Fine(r[k + 1], Gained(k + 1))
    OBVIOUS
  <2> DEFINE op == ops[k + 1]
  <2>1. k + 1 \in 1..n /\ k <= n /\ k + 1 - 1 = k
    BY <1>1
  <2>2. r[k + 1] = OneMore(r[k], op)
    BY <1>4, <2>1 DEF Trace
  <2>3. Gained(k) \in Int /\ Gained(k + 1) = Gained(k) + Change(op) /\ Change(op) \in Int
    <3>1. IsFiniteSet(1..k)
      <4>1. 1 \in Int /\ k \in Int
        OBVIOUS
      <4> QED
        BY <4>1, FS_Interval
    <3>2. k + 1 \notin 1..k /\ 1..(k + 1) = (1..k) \cup {k + 1}
      OBVIOUS
    <3>3. SameOn(c, c, 1..k) /\ c[k + 1] = Change(op) /\ c[k + 1] \in Int
      BY <1>1, <1>2, <2>1 DEF SameOn
    <3>4. /\ SumFunctionOnSet(c, 1..k) \in Int
          /\ SumFunctionOnSet(c, (1..k) \cup {k + 1}) = SumFunctionOnSet(c, 1..k) + c[k + 1]
      <4> DEFINE S == 1..k
                 y == k + 1
      <4>1. IsFiniteSet(S) /\ y \notin S /\ SameOn(c, c, S) /\ c[y] \in Int
        BY <3>1, <3>2, <3>3
      <4> HIDE DEF S, y
      <4>2. /\ SumFunctionOnSet(c, S) \in Int
            /\ SumFunctionOnSet(c, S \cup {y}) = SumFunctionOnSet(c, S) + c[y]
        BY <4>1, SumExtended
      <4> QED
        BY <4>2 DEF S, y
    <3> QED
      BY <3>2, <3>3, <3>4
  <2>4. Fine(r[k], Gained(k))
    BY <1>6, <2>1
  <2> HIDE DEF Gained, op
  <2>5. /\ r[k + 1] = [ok |-> r[k + 1].ok, record |-> r[k + 1].record]
        /\ r[k + 1].ok => r[k].ok /\ CanOperate(r[k].record, op)
        /\ r[k].ok /\ CanOperate(r[k].record, op)
             => r[k + 1] = [ok |-> r[k].ok, record |-> Operated(r[k].record, op)]
    BY <2>2, <2>4, OneMoreOk
  <2>6. ASSUME r[k + 1].ok
        PROVE  /\ IsRecord(r[k + 1].record)
               /\ Owned(r[k + 1].record) = Owned(a) + Gained(k + 1)
    <3>1. /\ r[k].ok /\ CanOperate(r[k].record, op)
          /\ r[k + 1].record = Operated(r[k].record, op)
      BY <2>5, <2>6
    <3>2. IsRecord(r[k].record) /\ Owned(r[k].record) = Owned(a) + Gained(k)
      BY <2>4, <3>1
    <3>3. op \in Operations
      BY <1>1, <2>1 DEF op
    <3>4. /\ IsRecord(r[k + 1].record)
          /\ Owned(r[k + 1].record) = Owned(r[k].record) + Change(op)
      BY <3>1, <3>2, <3>3, OperatedChanges
    <3>5. Owned(a) \in Int
      BY OwnedType
    <3> QED
      BY <2>3, <3>2, <3>4, <3>5
  <2>7. Fine(r[k + 1], Gained(k + 1))
    BY <2>5, <2>6
  <2> HIDE DEF Fine
  <2> QED
    BY <2>3, <2>7
<1> HIDE DEF P
<1>7. n \in P
  BY <1>1, <1>5, <1>6, SetInduction
<1>8. Gained(n) \in Int /\ Fine(r[n], Gained(n))
  <2> HIDE DEF Fine, Gained
  <2> QED
    BY <1>1, <1>7 DEF P
<1>9. r[n].ok
  BY <1>4
<1> HIDE DEF Gained
<1> QED
  BY <1>3, <1>4, <1>8, <1>9 DEF c

(* What only adds can always be done. *)
LEMMA AddingIsOk ==
    ASSUME NEW a, NEW Elem, NEW ops \in Seq(Elem), \A i \in DOMAIN ops : Adds(ops[i])
    PROVE  Operate(a, ops).ok
<1> DEFINE n == Len(ops)
<1>1. n \in Nat /\ DOMAIN ops = 1..n
  OBVIOUS
<1>2. PICK r : Trace(r, a, ops, n) /\ Operate(a, ops) = r[n]
  BY <1>1, OperateTrace
<1> HIDE DEF n
<1> DEFINE Fine(q) == q = [ok |-> q.ok, record |-> q.record] /\ q.ok
           P == {k \in Nat : k <= n => Fine(r[k])}
<1>3. 0 \in P
  <2>1. r[0] = [ok |-> TRUE, record |-> a]
    BY <1>2 DEF Trace, Start
  <2>2. Fine(r[0])
    BY <2>1
  <2> HIDE DEF Fine
  <2> QED
    BY <2>2
<1>4. ASSUME NEW k \in Nat, k \in P PROVE k + 1 \in P
  <2> SUFFICES ASSUME k + 1 <= n PROVE Fine(r[k + 1])
    OBVIOUS
  <2>1. k + 1 \in 1..n /\ k <= n /\ k + 1 - 1 = k
    BY <1>1
  <2>2. r[k + 1] = OneMore(r[k], ops[k + 1]) /\ CanOperate(r[k].record, ops[k + 1])
    BY <1>1, <1>2, <2>1 DEF Trace, CanOperate, Adds
  <2>3. Fine(r[k])
    BY <1>4, <2>1
  <2> QED
    BY <2>2, <2>3, OneMoreOk
<1> HIDE DEF P
<1>5. n \in P
  BY <1>1, <1>3, <1>4, SetInduction
<1>6. Fine(r[n])
  <2> HIDE DEF Fine
  <2> QED
    BY <1>1, <1>5 DEF P
<1> QED
  BY <1>2, <1>6

-----------------------------------------------------------------------------
(* Worlds.                                                                 *)

IsWorld(w) ==
    /\ w = [users |-> w.users, held |-> w.held]
    /\ w.users = [u \in DOMAIN w.users |-> w.users[u]] /\ DOMAIN w.users \subseteq User
    /\ \A u \in DOMAIN w.users : IsRecord(w.users[u])
    /\ w.held \in 0..MaxMoney
Backed(w) == OwnedByUsers(w) <= w.held

OwnedOf(w, u) == IF u \in DOMAIN w.users THEN Owned(w.users[u]) ELSE 0
Owners(w) == [u \in User |-> OwnedOf(w, u)]

LEMMA OwnersType ==
    ASSUME NEW w, IsWorld(w)
    PROVE  /\ OwnedByUsers(w) = SumFunctionOnSet(Owners(w), User) /\ OwnedByUsers(w) \in Nat
           /\ \A u \in User : OwnedOf(w, u) \in Nat /\ OwnedOf(w, u) <= OwnedByUsers(w)
<1>1. \A u \in User : Owners(w)[u] = OwnedOf(w, u) /\ Owners(w)[u] \in Nat
  BY OwnedType, NothingOwned DEF Owners, OwnedOf, IsWorld
<1>2. OwnedByUsers(w) = SumFunctionOnSet(Owners(w), User)
  BY DEF OwnedByUsers, Owners, OwnedOf, SumFunction
<1>3. IsFiniteSet(User)
  BY BoundAssumption
<1>4. /\ SumFunctionOnSet(Owners(w), User) \in Nat
      /\ \A u \in User : Owners(w)[u] <= SumFunctionOnSet(Owners(w), User)
  BY <1>1, <1>3, SumBounds
<1> QED
  BY <1>1, <1>2, <1>4

(* Amounts that are backed stay below the money there is. *)
LEMMA WorldBounds == ASSUME NEW w, IsWorld(w), Backed(w) PROVE w \in Worlds
<1>1. MaxMoney \in Nat /\ w.held \in Nat /\ w.held <= MaxMoney
  BY BoundAssumption DEF IsWorld
<1>2. ASSUME NEW u \in DOMAIN w.users PROVE w.users[u] \in Record
  <2> DEFINE a == w.users[u]
  <2>1. IsRecord(a) /\ u \in User /\ Owned(a) = OwnedOf(w, u)
    BY DEF IsWorld, OwnedOf
  <2>2. Owned(a) \in Nat /\ Owned(a) <= MaxMoney
    <3>1. Owned(a) \in Nat /\ Owned(a) <= OwnedByUsers(w) /\ OwnedByUsers(w) \in Nat
      BY <2>1, OwnersType
    <3> QED
      BY <1>1, <3>1 DEF Backed
  <2> HIDE DEF a
  <2>3. a.free \in 0..MaxMoney
    BY <1>1, <2>1, <2>2, OwnedType DEF IsRecord
  <2>4. \A k \in DOMAIN a.frozen : a.frozen[k] \in Money
    BY <1>1, <2>1, <2>2, OwnedType DEF IsRecord, IsFunds, Money
  <2>5. a.frozen \in Funds
    <3>1. a.frozen \in [DOMAIN a.frozen -> Money] /\ DOMAIN a.frozen \in SUBSET FundKey
      BY <2>1, <2>4 DEF IsRecord, IsFunds
    <3> QED
      BY <3>1 DEF Funds
  <2>6. a = [free |-> a.free, frozen |-> a.frozen]
    BY <2>1 DEF IsRecord
  <2>7. a \in Record
    BY <2>3, <2>5, <2>6 DEF Record
  <2> QED
    BY <2>7 DEF a
<1>3. w.users \in UNION {[U -> Record] : U \in SUBSET User}
  <2>1. w.users \in [DOMAIN w.users -> Record] /\ DOMAIN w.users \in SUBSET User
    BY <1>2 DEF IsWorld
  <2> QED
    BY <2>1
<1>4. w = [users |-> w.users, held |-> w.held] /\ w.held \in 0..MaxMoney
  BY DEF IsWorld
<1> QED
  BY <1>3, <1>4 DEF Worlds

IsAsked(ops) ==
    /\ ops = [u \in DOMAIN ops |-> ops[u]] /\ DOMAIN ops \subseteq User
    /\ \A u \in DOMAIN ops : ops[u] \in Seq(Operations)

LEMMA LoadedKeeps ==
    ASSUME NEW w, IsWorld(w), NEW u \in User, NEW now
    PROVE  IsRecord(Loaded(w, u, now)) /\ Owned(Loaded(w, u, now)) = OwnedOf(w, u)
<1>1. CASE u \in DOMAIN w.users
  <2>1. IsRecord(w.users[u])
    BY <1>1 DEF IsWorld
  <2> QED
    BY <1>1, <2>1, MergeKeeps DEF Loaded, OwnedOf
<1>2. CASE u \notin DOMAIN w.users
  BY <1>2, NothingOwned DEF Loaded, OwnedOf
<1> QED
  BY <1>1, <1>2

(* What all users own changes by what the program asked for. *)
LEMMA WrittenWorld ==
    ASSUME NEW w, IsWorld(w), NEW ops, IsAsked(ops), NEW h, NEW s, NEW held \in 0..MaxMoney,
           \A u \in DOMAIN ops : OpeatorAppAccount(ops, w, h, s)[u].ok, NEW v,
           v = [users |-> Written(OpeatorAppAccount(ops, w, h, s), w), held |-> held]
    PROVE  /\ IsWorld(v) /\ Total(ops) \in Int
           /\ OwnedByUsers(v) = OwnedByUsers(w) + Total(ops)
<1> DEFINE now == MergeTime(h, s)
           results == OpeatorAppAccount(ops, w, h, s)
           c == [u \in DOMAIN ops |-> SumFunction([i \in DOMAIN ops[u] |-> Change(ops[u][i])])]
           d == [u \in User |-> IF u \in DOMAIN ops THEN c[u] ELSE 0]
           D == DOMAIN ops
<1>1. D \subseteq User /\ IsFiniteSet(User) /\ IsFiniteSet(D) /\ IsFiniteSet(User \ D)
  BY BoundAssumption, FS_Subset DEF IsAsked
<1>2. /\ DOMAIN results = D
      /\ \A u \in D : results[u] = Operate(Loaded(w, u, now), ops[u])
  BY DEF OpeatorAppAccount
<1>3. ASSUME NEW u \in D
      PROVE  /\ IsRecord(results[u].record) /\ c[u] \in Int
             /\ Owned(results[u].record) = OwnedOf(w, u) + c[u]
  <2> DEFINE a == Loaded(w, u, now)
  <2>1. u \in User /\ ops[u] \in Seq(Operations) /\ Operate(a, ops[u]).ok
    BY <1>2 DEF IsAsked
  <2>2. IsRecord(a) /\ Owned(a) = OwnedOf(w, u)
    BY <2>1, LoadedKeeps
  <2>3. c[u] = SumFunction([i \in DOMAIN ops[u] |-> Change(ops[u][i])])
    OBVIOUS
  <2> HIDE DEF a, c
  <2>4. /\ IsRecord(Operate(a, ops[u]).record) /\ c[u] \in Int
        /\ Owned(Operate(a, ops[u]).record) = Owned(a) + c[u]
    BY <2>1, <2>2, <2>3, OperateChanges
  <2> QED
    BY <1>2, <2>2, <2>4 DEF a
<1> HIDE DEF results, c
<1>4. /\ v.held = held /\ v = [users |-> v.users, held |-> v.held]
      /\ v.users = [u \in DOMAIN v.users |-> v.users[u]]
      /\ DOMAIN v.users = D \cup DOMAIN w.users
      /\ \A u \in D : v.users[u] = results[u].record
      /\ \A u \in DOMAIN w.users \ D : v.users[u] = w.users[u]
  BY <1>2 DEF Written, results
<1>5. IsWorld(v)
  BY <1>1, <1>3, <1>4 DEF IsWorld
<1>6. \A u \in User : /\ Owners(w)[u] \in Int /\ d[u] \in Int
                      /\ Owners(v)[u] = Owners(w)[u] + d[u]
  <2> SUFFICES ASSUME NEW u \in User
               PROVE  /\ Owners(w)[u] \in Int /\ d[u] \in Int
                      /\ Owners(v)[u] = Owners(w)[u] + d[u]
    OBVIOUS
  <2>1. Owners(w)[u] = OwnedOf(w, u) /\ Owners(v)[u] = OwnedOf(v, u) /\ OwnedOf(w, u) \in Int
    <3>1. OwnedOf(w, u) \in Nat
      BY OwnersType
    <3> QED
      BY <3>1 DEF Owners
  <2>2. CASE u \in D
    <3>1. OwnedOf(v, u) = Owned(results[u].record) /\ d[u] = c[u]
      BY <1>4, <2>2 DEF OwnedOf
    <3> HIDE DEF d
    <3> QED
      BY <1>3, <2>1, <2>2, <3>1
  <2>3. CASE u \notin D
    <3>1. OwnedOf(v, u) = OwnedOf(w, u) /\ d[u] = 0
      BY <1>4, <2>3 DEF OwnedOf
    <3> HIDE DEF d
    <3> QED
      BY <2>1, <3>1
  <2> QED
    BY <2>2, <2>3
<1>7. SumFunctionOnSet(Owners(v), User)
        = SumFunctionOnSet(Owners(w), User) + SumFunctionOnSet(d, User)
  <2> HIDE DEF d
  <2> QED
    BY <1>1, <1>6, SumDifference
<1>8. SumFunctionOnSet(d, User) = Total(ops) /\ Total(ops) \in Int
  <2>1. \A u \in User : d[u] \in Int
    BY <1>6
  <2>2. (\A u \in D : d[u] = c[u] /\ d[u] \in Int) /\ \A u \in User \ D : d[u] = 0
    BY <1>1, <1>3
  <2>3. Total(ops) = SumFunctionOnSet(c, D)
    BY DEF Total, SumFunction, c
  <2> HIDE DEF d, D
  <2>4. /\ SumFunctionOnSet(d, D) \in Int
        /\ SumFunctionOnSet(d, User) = SumFunctionOnSet(d, User \ D) + SumFunctionOnSet(d, D)
    BY <1>1, <2>1, SumSplit
  <2>5. SumFunctionOnSet(d, User \ D) = 0
    BY <1>1, <2>2, SumOfZeros
  <2>6. SumFunctionOnSet(d, D) = SumFunctionOnSet(c, D)
    BY <1>1, <2>2, SumSame
  <2> QED
    BY <2>3, <2>4, <2>5, <2>6
<1> HIDE DEF d
<1>9. OwnedByUsers(v) = OwnedByUsers(w) + Total(ops)
  BY <1>5, <1>7, <1>8, OwnersType
<1> QED
  BY <1>5, <1>8, <1>9

(* The log of a call leads back to the world before it. *)
LEMMA UndoneWorld ==
    ASSUME NEW w, IsWorld(w), NEW results, NEW held
    PROVE  Undo([users |-> Written(results, w), held |-> held], LogOf(results, w)) = w
<1> DEFINE v == [users |-> Written(results, w), held |-> held]
           log == LogOf(results, w)
           D == DOMAIN results
           W == DOMAIN w.users
           back == Undo(v, log)
<1>1. /\ log.touched = D /\ DOMAIN log.users = D \cap W /\ log.held = w.held
      /\ \A u \in D \cap W : log.users[u] = w.users[u]
  BY DEF LogOf, Restrict
<1>2. DOMAIN v.users = D \cup W /\ \A u \in W \ D : v.users[u] = w.users[u]
  BY DEF Written
<1> HIDE DEF log, v
<1>3. DOMAIN log.users \cup (DOMAIN v.users \ log.touched) = W
  BY <1>1, <1>2
<1>4. back = [users |-> [u \in W |-> IF u \in D \cap W THEN log.users[u] ELSE v.users[u]],
              held |-> w.held]
  BY <1>1, <1>3 DEF Undo
<1>5. [u \in W |-> IF u \in D \cap W THEN log.users[u] ELSE v.users[u]] = [u \in W |-> w.users[u]]
  BY <1>1, <1>2
<1>6. w = [users |-> [u \in W |-> w.users[u]], held |-> w.held]
  BY DEF IsWorld
<1>7. back = w
  <2> HIDE DEF back
  <2> QED
    BY <1>4, <1>5, <1>6, Zenon
<1> QED
  BY <1>7 DEF v, log

-----------------------------------------------------------------------------
(* What a program asks for.                                                *)

LEMMA KeysOf ==
    ASSUME NEW K, IsFiniteSet(K)
    PROVE  /\ Cardinality(K) \in Nat /\ SetToSeq(K) \in [1..Cardinality(K) -> K]
           /\ \A i, j \in 1..Cardinality(K) : SetToSeq(K)[i] = SetToSeq(K)[j] => i = j
           /\ \A k \in K : \E i \in 1..Cardinality(K) : SetToSeq(K)[i] = k
<1> DEFINE n == Cardinality(K)
           N == 1..n
           s == SetToSeq(K)
<1>1. n \in Nat /\ Bijection(N, K) # {}
  BY FS_CardinalityType DEF ExistsBijection
<1>2. PICK f : f \in [N -> K] /\ IsInjective(f)
  <2> HIDE DEF N
  <2> QED
    BY <1>1 DEF Bijection, Injection
<1>3. s \in [N -> K] /\ IsInjective(s)
  <2> HIDE DEF s, N
  <2>1. s = CHOOSE g \in [N -> K] : IsInjective(g)
    BY DEF SetToSeq, s, N
  <2> QED
    BY <1>2, <2>1
<1>4. IsFiniteSet(N) /\ Cardinality(N) = n
  <2>1. 1 \in Int /\ n \in Int /\ (IF 1 > n THEN 0 ELSE n - 1 + 1) = n
    BY <1>1
  <2> HIDE DEF n
  <2> QED
    BY <2>1, FS_Interval
<1> HIDE DEF N, s
<1>5. s \in Injection(N, K)
  BY <1>3 DEF Injection
<1>6. s \in Surjection(N, K)
  BY <1>4, <1>5, FS_Injection
<1>7. \A i, j \in N : s[i] = s[j] => i = j
  BY <1>3 DEF IsInjective
<1>8. \A k \in K : \E i \in N : s[i] = k
  BY <1>6 DEF Surjection
<1> QED
  BY <1>1, <1>3, <1>7, <1>8 DEF N, s

(* One operation for the free money if there is some, then one for each of *)
(* m funds.                                                                *)
Lists(ops, a, free, tag, m, keys, off) ==
    /\ m \in Nat /\ keys \in [1..m -> DOMAIN a.frozen] /\ off \in {0, 1}
    /\ \A i, j \in 1..m : keys[i] = keys[j] => i = j
    /\ \A k \in DOMAIN a.frozen : \E i \in 1..m : keys[i] = k
    /\ off = 0 <=> a.free = 0
    /\ Len(ops) = off + m
    /\ off = 1 => ops[1] = Op(free, Nowhere, a.free)
    /\ \A i \in 1..m : ops[off + i] = Op(tag, keys[i], a.frozen[keys[i]])

LEMMA AssetsListed ==
    ASSUME NEW a, IsRecord(a), NEW free \in {"subFree", "addFree"},
           NEW tag \in {"subTag", "addTag"}
    PROVE  /\ Assets(a, free, tag) \in Seq(Operations)
           /\ \E m, keys, off : Lists(Assets(a, free, tag), a, free, tag, m, keys, off)
           /\ \A i \in DOMAIN Assets(a, free, tag) : Assets(a, free, tag)[i].kind \in {free, tag}
<1> DEFINE K == DOMAIN a.frozen
           m == Cardinality(K)
           keys == SetToSeq(K)
           head == IF a.free > 0 THEN <<Op(free, Nowhere, a.free)>> ELSE <<>>
           off == IF a.free > 0 THEN 1 ELSE 0
           tail == [i \in DOMAIN keys |-> Op(tag, keys[i], a.frozen[keys[i]])]
           ops == Assets(a, free, tag)
<1>1. a.free \in Nat /\ IsFiniteSet(K) /\ K \subseteq FundKey
      /\ \A k \in K : a.frozen[k] \in Nat \ {0}
  BY FundsFinite DEF IsRecord, IsFunds
<1>2. /\ m \in Nat /\ keys \in [1..m -> K]
      /\ \A i, j \in 1..m : keys[i] = keys[j] => i = j
      /\ \A k \in K : \E i \in 1..m : keys[i] = k
  BY <1>1, KeysOf
<1>3. ops = head \o tail
  BY DEF Assets
<1> HIDE DEF keys, m, K, ops
<1>4. \A i \in 1..m : Op(tag, keys[i], a.frozen[keys[i]]) \in Operations
  BY <1>1, <1>2 DEF Op, Operations
<1>5. tail \in Seq(Operations) /\ Len(tail) = m /\ DOMAIN tail = 1..m
      /\ \A i \in 1..m : tail[i] = Op(tag, keys[i], a.frozen[keys[i]])
  <2>1. DOMAIN keys = 1..m
    BY <1>2
  <2>2. tail \in [1..m -> Operations]
    BY <1>4, <2>1
  <2>3. tail \in Seq(Operations) /\ DOMAIN tail = 1..m
    BY <1>2, <2>2, IsASeq
  <2>4. Len(tail) = m
    <3> HIDE DEF tail
    <3> QED
      BY <1>2, <2>3
  <2> QED
    BY <2>1, <2>3, <2>4
<1>6. /\ head \in Seq(Operations) /\ Len(head) = off /\ off \in {0, 1}
      /\ off = 0 <=> a.free = 0
      /\ off = 1 => head[1] = Op(free, Nowhere, a.free)
  <2>1. CASE a.free > 0
    <3>1. Op(free, Nowhere, a.free) \in Operations
      BY <1>1, <2>1 DEF Op, Operations
    <3> QED
      BY <1>1, <2>1, <3>1
  <2>2. CASE ~(a.free > 0)
    BY <1>1, <2>2
  <2> QED
    BY <2>1, <2>2
<1> HIDE DEF head, tail, off
<1>7. /\ ops \in Seq(Operations) /\ Len(ops) = off + m
      /\ \A i \in 1..(off + m) : ops[i] = IF i <= off THEN head[i] ELSE tail[i - off]
  BY <1>2, <1>3, <1>5, <1>6, ConcatProperties
<1>8. off = 1 => ops[1] = Op(free, Nowhere, a.free)
  BY <1>2, <1>6, <1>7
<1>9. \A i \in 1..m : ops[off + i] = Op(tag, keys[i], a.frozen[keys[i]])
  <2> SUFFICES ASSUME NEW i \in 1..m PROVE ops[off + i] = tail[i]
    BY <1>5
  <2> DEFINE j == off + i
  <2>1. j \in 1..(off + m) /\ ~(j <= off) /\ j - off = i
    BY <1>2, <1>6
  <2> HIDE DEF j
  <2>2. ops[j] = tail[j - off]
    BY <1>7, <2>1
  <2> QED
    BY <2>1, <2>2 DEF j
<1>10. Lists(ops, a, free, tag, m, keys, off)
  BY <1>2, <1>6, <1>7, <1>8, <1>9 DEF Lists, K
<1>11. \A i \in DOMAIN ops : ops[i].kind \in {free, tag}
  <2> SUFFICES ASSUME NEW i \in 1..(off + m) PROVE ops[i].kind \in {free, tag}
    BY <1>7
  <2>1. CASE i <= off
    <3>1. i = 1 /\ off = 1
      BY <1>2, <1>6, <2>1
    <3> QED
      BY <1>8, <3>1 DEF Op
  <2>2. CASE ~(i <= off)
    <3>1. i - off \in 1..m /\ ops[i] = tail[i - off]
      BY <1>2, <1>6, <1>7, <2>2
    <3> QED
      BY <1>5, <3>1 DEF Op
  <2> QED
    BY <2>1, <2>2
<1> QED
  BY <1>7, <1>10, <1>11 DEF ops

LEMMA NothingAsked == IsAsked(<<>>)
BY DEF IsAsked

LEMMA InsertAsks ==
    ASSUME NEW ops, IsAsked(ops), NEW user \in User, NEW op \in Operations
    PROVE  IsAsked(InsertOutAPPOperte(ops, user, op))
<1> DEFINE more == InsertOutAPPOperte(ops, user, op)
           was == IF user \in DOMAIN ops THEN ops[user] ELSE <<>>
<1>1. was \in Seq(Operations)
  BY DEF IsAsked
<1>2. Append(was, op) \in Seq(Operations)
  <2> HIDE DEF was
  <2> QED
    BY <1>1
<1>3. /\ DOMAIN more = DOMAIN ops \cup {user} /\ more = [u \in DOMAIN more |-> more[u]]
      /\ more[user] = Append(was, op)
      /\ \A u \in DOMAIN ops \ {user} : more[u] = ops[u]
  BY DEF InsertOutAPPOperte
<1> HIDE DEF more, was
<1>4. \A u \in DOMAIN more : more[u] \in Seq(Operations)
  BY <1>2, <1>3 DEF IsAsked
<1> QED
  BY <1>3, <1>4 DEF IsAsked, more

LEMMA TransferAsks ==
    ASSUME NEW w, IsWorld(w), NEW from \in User, NEW to \in User, NEW s
    PROVE  IsAsked(TransferContactAsset(from, to, w, s))
<1> DEFINE a == AutoMergeFreezeToFree(w.users[from], MergeTime(Len(s), s))
           ops == [u \in {from, to} |-> IF u = from THEN Assets(a, "subFree", "subTag")
                                        ELSE Assets(a, "addFree", "addTag")]
<1>1. CASE from \notin DOMAIN w.users \/ a = NewRecord
  BY <1>1, NothingAsked DEF TransferContactAsset
<1>2. CASE ~(from \notin DOMAIN w.users \/ a = NewRecord)
  <2>1. TransferContactAsset(from, to, w, s) = ops
    BY <1>2 DEF TransferContactAsset
  <2>2. IsRecord(a)
    <3>1. IsRecord(w.users[from])
      BY <1>2 DEF IsWorld
    <3> QED
      BY <3>1, MergeKeeps
  <2> HIDE DEF a
  <2>3. /\ Assets(a, "subFree", "subTag") \in Seq(Operations)
        /\ Assets(a, "addFree", "addTag") \in Seq(Operations)
    BY <2>2, AssetsListed
  <2>4. IsAsked(ops)
    BY <2>3 DEF IsAsked
  <2> QED
    BY <2>1, <2>4
<1> QED
  BY <1>1, <1>2

LEMMA ProgramAsks ==
    ASSUME NEW p \in Programs, NEW w, IsWorld(w), NEW s
    PROVE  IsAsked(OpsOf(p, w, s))
<1> DEFINE Asked(u, v, o) == InsertOutAPPOperte(InsertOutAPPOperte(<<>>, u, o[1]), v, o[2])
           Two(u, v, o) == [ask |-> "ops", ops |-> Asked(u, v, o)]
<1>1. \A op \in Ops : op \in Operations
  <2> SUFFICES ASSUME NEW op \in Ops PROVE op \in Operations
    OBVIOUS
  <2>1. PICK k \in Kinds, m \in 1..MaxOp : op = Op(k[1], k[2], m)
    BY DEF Ops
  <2>2. m \in Nat \ {0}
    BY BoundAssumption
  <2>3. \/ k[1] \in {"addFree", "subFree"} /\ k[2] = Nowhere
        \/ k[1] \in {"addTag", "subTag"} /\ k[2] \in FundKey
    BY DEF Kinds
  <2> QED
    BY <2>1, <2>2, <2>3 DEF Op, Operations
<1>2. CASE \E u \in User, op \in Ops :
               p = [ask |-> "ops", ops |-> InsertOutAPPOperte(<<>>, u, op)]
  <2>1. PICK u \in User, op \in Ops :
                p = [ask |-> "ops", ops |-> InsertOutAPPOperte(<<>>, u, op)]
    BY <1>2
  <2>2. OpsOf(p, w, s) = InsertOutAPPOperte(<<>>, u, op)
    BY <2>1 DEF OpsOf
  <2> QED
    BY <1>1, <2>2, NothingAsked, InsertAsks
<1>3. CASE \E u, v \in User, o \in Ops \X Ops : p = Two(u, v, o)
  <2>1. PICK u \in User, v \in User, o \in Ops \X Ops : p = Two(u, v, o)
    BY <1>3
  <2>2. OpsOf(p, w, s) = InsertOutAPPOperte(InsertOutAPPOperte(<<>>, u, o[1]), v, o[2])
    BY <2>1 DEF OpsOf
  <2>3. o[1] \in Operations /\ o[2] \in Operations
    BY <1>1
  <2>4. IsAsked(InsertOutAPPOperte(<<>>, u, o[1]))
    BY <2>3, NothingAsked, InsertAsks
  <2> QED
    BY <2>2, <2>3, <2>4, InsertAsks
<1>4. CASE \E q \in User \X User : p = [ask |-> "all", from |-> q[1], to |-> q[2]]
  <2>1. PICK q \in User \X User : p = [ask |-> "all", from |-> q[1], to |-> q[2]]
    BY <1>4
  <2>2. OpsOf(p, w, s) = TransferContactAsset(q[1], q[2], w, s) /\ q[1] \in User /\ q[2] \in User
    BY <2>1 DEF OpsOf
  <2> QED
    BY <2>2, TransferAsks
<1> QED
  BY <1>2, <1>3, <1>4 DEF Programs

-----------------------------------------------------------------------------
(* The inductive invariant.                                                *)

Logs == [touched : SUBSET User, users : UNION {[U -> Record] : U \in SUBSET User},
         held : 0..MaxMoney]
Txs == [program : Programs, log : Logs]
Blocks == [time : 1..MaxTime, txs : Seq(Txs)]

(* What is in the blocks, and how many worlds there were.                  *)
Histories ==
    /\ byTime \in BOOLEAN
    /\ chain \in Seq(Blocks) /\ open \in Seq(Txs)
    /\ past \in Seq(Worlds) /\ Len(past) = Len(chain) + 1

(* The users own no more than the app holds, now and before each block.    *)
WorldsBacked ==
    /\ IsWorld(world) /\ Backed(world)
    /\ \A i \in 1..Len(past) : IsWorld(past[i]) /\ Backed(past[i])

(* The logs of each block lead from the world after it to the one before   *)
(* it, those of the block that is being connected to the tip's.            *)
LogsLeadBack ==
    /\ \A i \in 1..Len(chain) : Undoes(chain[i].txs, past[i + 1], past[i])
    /\ Undoes(open, world, past[Len(past)])

IInv == Histories /\ WorldsBacked /\ LogsLeadBack

LEMMA InitIInv == Init => IInv
<1> SUFFICES ASSUME Init PROVE IInv
  OBVIOUS
<1>1. /\ byTime \in BOOLEAN /\ chain = <<>> /\ open = <<>>
      /\ world = [users |-> <<>>, held |-> 0] /\ past = <<world>>
  BY DEF Init
<1>2. IsWorld(world)
  <2>1. <<>> = [u \in {} |-> <<>>[u]] /\ 0 \in 0..MaxMoney
    BY BoundAssumption
  <2> QED
    BY <1>1, <2>1 DEF IsWorld
<1>3. Backed(world)
  <2>1. \A u \in User : Owners(world)[u] = 0
    BY <1>1 DEF Owners, OwnedOf
  <2>2. IsFiniteSet(User)
    BY BoundAssumption
  <2>3. OwnedByUsers(world) = 0
    BY <1>2, <2>1, <2>2, OwnersType, SumOfZeros
  <2> QED
    BY <1>1, <2>3 DEF Backed
<1>4. world \in Worlds
  BY <1>2, <1>3, WorldBounds
<1> HIDE DEF IInv
<1>5. Histories
  BY <1>1, <1>4 DEF Histories
<1>6. Len(past) = 1 /\ past[1] = world /\ Len(chain) = 0
  BY <1>1
<1>7. WorldsBacked
  BY <1>2, <1>3, <1>6 DEF WorldsBacked
<1>8. LogsLeadBack
  BY <1>1, <1>6, UndoesNothing DEF LogsLeadBack
<1> QED
  BY <1>5, <1>7, <1>8 DEF IInv

LEMMA CallStep ==
    ASSUME IInv, NEW p \in Programs, NEW value \in 0..MaxMoney, NEW out \in 0..MaxMoney,
           NEW self \in BOOLEAN, world.held + value <= MaxMoney, Call(p, value, out, self)
    PROVE  IInv'
<1> DEFINE ops == OpsOf(p, world, chain)
           results == OpeatorAppAccount(ops, world, Height, chain)
           held == world.held + value - (IF self THEN 0 ELSE out)
           tx == [program |-> p, log |-> LogOf(results, world)]
<1>1. /\ CheckAppAcctOperate(ops, value, out) /\ out <= world.held + value
      /\ \A u \in DOMAIN results : results[u].ok
      /\ world' = [users |-> Written(results, world), held |-> held]
      /\ open' = Append(open, tx)
      /\ byTime' = byTime /\ chain' = chain /\ past' = past
  BY DEF Call
<1>2. Histories /\ WorldsBacked /\ LogsLeadBack
  BY DEF IInv
<1>3. /\ MaxMoney \in Nat /\ world.held \in 0..MaxMoney /\ IsWorld(world) /\ Backed(world)
      /\ world \in Worlds
  BY <1>2, BoundAssumption, WorldBounds DEF WorldsBacked, IsWorld
<1>4. held \in 0..MaxMoney /\ world.held + value - out <= held /\ held \in Int
  BY <1>1, <1>3
<1>5. IsAsked(ops)
  BY <1>3, ProgramAsks
<1> HIDE DEF ops, held
<1>6. DOMAIN results = DOMAIN ops
  BY DEF OpeatorAppAccount
<1>7. /\ IsWorld(world') /\ Total(ops) \in Int
      /\ OwnedByUsers(world') = OwnedByUsers(world) + Total(ops)
  <2>1. \A u \in DOMAIN ops : OpeatorAppAccount(ops, world, Height, chain)[u].ok
    BY <1>1, <1>6
  <2> DEFINE v == world'
  <2>2. v = [users |-> Written(OpeatorAppAccount(ops, world, Height, chain), world), held |-> held]
    BY <1>1
  <2> HIDE DEF v
  <2>3. /\ IsWorld(v) /\ Total(ops) \in Int
        /\ OwnedByUsers(v) = OwnedByUsers(world) + Total(ops)
    BY <1>3, <1>4, <1>5, <2>1, <2>2, WrittenWorld
  <2> QED
    BY <2>3 DEF v
<1>8. Backed(world')
  <2>1. Total(ops) = value - out
    BY <1>1 DEF CheckAppAcctOperate
  <2>2. OwnedByUsers(world) \in Nat /\ OwnedByUsers(world) <= world.held
    BY <1>3, OwnersType DEF Backed
  <2>3. world'.held = held
    BY <1>1
  <2>4. OwnedByUsers(world') <= world'.held
    BY <1>3, <1>4, <1>7, <2>1, <2>2, <2>3
  <2> QED
    BY <2>4 DEF Backed
<1>9. tx \in Txs
  <2> DEFINE W == DOMAIN world.users
             D == DOMAIN results \cap W
  <2>1. \A u \in W : world.users[u] \in Record
    BY <1>3 DEF Worlds
  <2>2. Restrict(world.users, D) \in [D -> Record]
    BY <2>1 DEF Restrict
  <2>3. D \in SUBSET User /\ DOMAIN results \in SUBSET User
    BY <1>3, <1>5, <1>6 DEF IsWorld, IsAsked
  <2>4. Restrict(world.users, D) \in UNION {[U -> Record] : U \in SUBSET User}
    <3> HIDE DEF D
    <3> QED
      BY <2>2, <2>3
  <2>5. LogOf(results, world) \in Logs
    <3> HIDE DEF results
    <3> QED
      BY <1>3, <2>3, <2>4 DEF LogOf, Logs
  <2> HIDE DEF results
  <2> QED
    BY <2>5 DEF Txs
<1>10. Undo(world', tx.log) = world
  <2>1. tx.log = LogOf(results, world)
    OBVIOUS
  <2> HIDE DEF tx, results
  <2> QED
    BY <1>1, <1>3, <2>1, UndoneWorld
<1> HIDE DEF results, tx
<1>11. Histories'
  <2>1. open' \in Seq(Txs)
    BY <1>1, <1>2, <1>9 DEF Histories
  <2> QED
    BY <1>1, <1>2, <2>1 DEF Histories
<1>12. WorldsBacked'
  BY <1>1, <1>2, <1>7, <1>8 DEF WorldsBacked
<1>13. LogsLeadBack'
  <2>1. open \in Seq(Txs) /\ Undoes(open, world, past[Len(past)])
    BY <1>2 DEF Histories, LogsLeadBack
  <2>2. Undoes(Append(open, tx), world', past[Len(past)])
    <3> DEFINE v == world'
    <3>1. Undo(v, tx.log) = world
      BY <1>10
    <3> HIDE DEF v
    <3>2. Undoes(Append(open, tx), v, past[Len(past)])
      BY <2>1, <3>1, UndoesOneMore
    <3> QED
      BY <3>2 DEF v
  <2>3. Undoes(open', world', past'[Len(past')])
    BY <1>1, <2>2
  <2>4. \A i \in 1..Len(chain') : Undoes(chain'[i].txs, past'[i + 1], past'[i])
    BY <1>1, <1>2 DEF LogsLeadBack
  <2> QED
    BY <2>3, <2>4 DEF LogsLeadBack
<1> QED
  BY <1>11, <1>12, <1>13 DEF IInv

LEMMA ConnectStep ==
    ASSUME IInv, NEW time \in 1..MaxTime, Connect(time)
    PROVE  IInv'
<1> DEFINE b == [time |-> time, txs |-> open]
           n == Len(chain)
<1>1. /\ chain' = Append(chain, b) /\ open' = <<>> /\ past' = Append(past, world)
      /\ byTime' = byTime /\ world' = world
  BY DEF Connect
<1>2. Histories /\ WorldsBacked /\ LogsLeadBack
  BY DEF IInv
<1>3. /\ chain \in Seq(Blocks) /\ open \in Seq(Txs) /\ past \in Seq(Worlds)
      /\ n \in Nat /\ Len(past) = n + 1 /\ byTime \in BOOLEAN
  BY <1>2 DEF Histories
<1>4. IsWorld(world) /\ Backed(world) /\ world \in Worlds
  BY <1>2, WorldBounds DEF WorldsBacked
<1>5. b \in Blocks /\ b.txs = open
  BY <1>3 DEF Blocks
<1> HIDE DEF b
<1>6. /\ chain' \in Seq(Blocks) /\ Len(chain') = n + 1 /\ chain'[n + 1] = b
      /\ \A i \in 1..n : chain'[i] = chain[i]
  BY <1>1, <1>3, <1>5
<1>7. /\ past' \in Seq(Worlds) /\ Len(past') = n + 2 /\ past'[n + 2] = world
      /\ \A i \in 1..(n + 1) : past'[i] = past[i]
  <2>1. past' \in Seq(Worlds) /\ Len(past') = Len(past) + 1 /\ past'[Len(past) + 1] = world
        /\ \A i \in 1..Len(past) : past'[i] = past[i]
    BY <1>1, <1>3, <1>4
  <2>2. n + 1 + 1 = n + 2
    BY <1>3
  <2> HIDE DEF n
  <2> QED
    BY <1>3, <2>1, <2>2
<1> HIDE DEF n
<1>8. Histories'
  BY <1>1, <1>3, <1>6, <1>7 DEF Histories
<1>9. WorldsBacked'
  <2>1. ASSUME NEW i \in 1..(n + 2) PROVE IsWorld(past'[i]) /\ Backed(past'[i])
    <3> DEFINE v == past'[i]
    <3>1. v = world \/ \E j \in 1..(n + 1) : v = past[j]
      BY <1>3, <1>7
    <3> HIDE DEF v
    <3>2. IsWorld(v) /\ Backed(v)
      BY <1>2, <1>3, <1>4, <3>1 DEF WorldsBacked
    <3> QED
      BY <3>2 DEF v
  <2> QED
    BY <1>1, <1>4, <1>7, <2>1 DEF WorldsBacked
<1>10. LogsLeadBack'
  <2>1. ASSUME NEW i \in 1..(n + 1)
        PROVE  Undoes(chain'[i].txs, past'[i + 1], past'[i])
    <3>1. CASE i = n + 1
      <4>1. past'[i + 1] = world /\ past'[i] = past[n + 1] /\ chain'[i].txs = open
        BY <1>3, <1>5, <1>6, <1>7, <3>1
      <4> QED
        BY <1>2, <1>3, <4>1 DEF LogsLeadBack
    <3>2. CASE i # n + 1
      <4>1. i \in 1..n /\ i \in 1..(n + 1) /\ i + 1 \in 1..(n + 1)
        BY <1>3, <3>2
      <4>2. past'[i + 1] = past[i + 1] /\ past'[i] = past[i] /\ chain'[i] = chain[i]
        BY <1>6, <1>7, <4>1
      <4> QED
        BY <1>2, <4>1, <4>2 DEF LogsLeadBack, n
    <3> QED
      BY <3>1, <3>2
  <2>2. Undoes(open', world', past'[Len(past')])
    BY <1>1, <1>7, UndoesNothing
  <2> QED
    BY <1>6, <2>1, <2>2 DEF LogsLeadBack
<1> QED
  BY <1>8, <1>9, <1>10 DEF IInv

(* With no call in the open block the world is the tip's. *)
LEMMA TipWorld == ASSUME IInv, open = <<>> PROVE world = past[Len(past)]
<1>1. PICK r : r[Len(<<>>) + 1] = world /\ r[1] = past[Len(past)]
  BY DEF IInv, LogsLeadBack, Undoes
<1>2. Len(<<>>) + 1 = 1
  OBVIOUS
<1> QED
  BY <1>1, <1>2

LEMMA DisconnectStep ==
    ASSUME IInv, Disconnect
    PROVE  IInv'
<1> DEFINE n == Len(chain)
<1>1. /\ chain # <<>> /\ open = <<>> /\ chain' = Front(chain) /\ past' = Front(past)
      /\ world' = UndoAll(Last(chain).txs, world) /\ byTime' = byTime /\ open' = open
  BY DEF Disconnect, UndoAll
<1>2. Histories /\ WorldsBacked /\ LogsLeadBack
  BY DEF IInv
<1>3. /\ chain \in Seq(Blocks) /\ open \in Seq(Txs) /\ past \in Seq(Worlds)
      /\ n \in Nat \ {0} /\ Len(past) = n + 1 /\ byTime \in BOOLEAN
  BY <1>1, <1>2 DEF Histories
<1>4. Last(chain) = chain[n] /\ chain[n] \in Blocks
  BY <1>3 DEF Last
<1>5. /\ chain' \in Seq(Blocks) /\ Len(chain') = n - 1
      /\ \A i \in 1..(n - 1) : chain'[i] = chain[i]
  <2>1. Len(chain) = n /\ chain' = SubSeq(chain, 1, n - 1)
    BY <1>1 DEF Front
  <2> HIDE DEF n
  <2> QED
    BY <1>3, <2>1
<1>6. /\ past' \in Seq(Worlds) /\ Len(past') = n
      /\ \A i \in 1..n : past'[i] = past[i]
  BY <1>1, <1>3 DEF Front
<1>7. world = past[n + 1]
  BY <1>1, <1>3, TipWorld
<1>8. Undoes(chain[n].txs, past[n + 1], past[n])
  BY <1>2, <1>3 DEF LogsLeadBack
<1> HIDE DEF n
<1>9. world' = past[n]
  <2>1. chain[n].txs \in Seq(Txs)
    BY <1>4 DEF Blocks
  <2>2. UndoAll(chain[n].txs, past[n + 1]) = past[n]
    BY <1>8, <2>1, UndoesUndoAll
  <2> QED
    BY <1>1, <1>4, <1>7, <2>2
<1>10. n - 1 + 1 = n /\ n \in 1..n /\ n \in 1..(n + 1)
  BY <1>3
<1>11. Histories'
  BY <1>1, <1>3, <1>5, <1>6, <1>10 DEF Histories
<1>12. WorldsBacked'
  <2>1. \A i \in 1..n : IsWorld(past[i]) /\ Backed(past[i])
    BY <1>2, <1>3 DEF WorldsBacked
  <2>2. IsWorld(world') /\ Backed(world')
    BY <1>9, <1>10, <2>1
  <2>3. \A i \in 1..Len(past') : IsWorld(past'[i]) /\ Backed(past'[i])
    BY <1>6, <2>1
  <2> QED
    BY <2>2, <2>3 DEF WorldsBacked
<1>13. LogsLeadBack'
  <2>1. ASSUME NEW i \in 1..(n - 1) PROVE Undoes(chain'[i].txs, past'[i + 1], past'[i])
    <3>1. i \in 1..n /\ i + 1 \in 1..n
      BY <1>3
    <3>2. past'[i + 1] = past[i + 1] /\ past'[i] = past[i] /\ chain'[i] = chain[i]
      BY <1>5, <1>6, <3>1
    <3> QED
      BY <1>2, <3>1, <3>2 DEF LogsLeadBack, n
  <2>2. Undoes(open', world', past'[Len(past')])
    BY <1>1, <1>6, <1>9, <1>10, UndoesNothing
  <2> QED
    BY <1>5, <2>1, <2>2 DEF LogsLeadBack
<1> QED
  BY <1>11, <1>12, <1>13 DEF IInv

LEMMA NextIInv == IInv /\ [Next]_vars => IInv'
<1> SUFFICES ASSUME IInv, [Next]_vars PROVE IInv'
  OBVIOUS
<1>1. CASE \E p \in Programs, value, out \in 0..MaxMoney, self \in BOOLEAN :
              world.held + value <= MaxMoney /\ Call(p, value, out, self)
  BY <1>1, CallStep
<1>2. CASE \E time \in 1..MaxTime : Connect(time)
  BY <1>2, ConnectStep
<1>3. CASE Disconnect
  BY <1>3, DisconnectStep
<1>4. CASE UNCHANGED vars
  BY <1>4 DEF vars, IInv, Histories, WorldsBacked, LogsLeadBack
<1> QED
  BY <1>1, <1>2, <1>3, <1>4 DEF Next

(* The worlds and blocks have their types, and the inductive invariant.    *)
THEOREM AppInvariance == Spec => []IInv
BY InitIInv, NextIInv, PTL DEF Spec

(* AppAccounts types: every amount is at most the money there is, because  *)
(* the records are backed by what the app holds.                           *)
THEOREM AppTypeCorrect == Spec => []TypeOK
<1>1. IInv => TypeOK
  <2> SUFFICES ASSUME IInv PROVE TypeOK
    OBVIOUS
  <2>1. Histories /\ WorldsBacked
    BY DEF IInv
  <2>2. world \in Worlds
    BY <2>1, WorldBounds DEF WorldsBacked
  <2>3. \A i \in DOMAIN past : past[i] \in Worlds
    BY <2>1 DEF Histories
  <2> QED
    BY <2>1, <2>2, <2>3 DEF TypeOK, Histories
<1> QED
  BY <1>1, AppInvariance, PTL

(* CVmRunEvn::run: the records of the users are backed by the app account. *)
THEOREM FundsStayBacked == Spec => []FundsAreBacked
<1>1. IInv => FundsAreBacked
  BY DEF IInv, WorldsBacked, Backed, FundsAreBacked
<1> QED
  BY <1>1, AppInvariance, PTL

(* DisconnectBlock: the records are as they were before the block.         *)
THEOREM UndoIsExact == Spec => []UndoRestoresRecords
<1>1. IInv => UndoRestoresRecords
  BY TipWorld DEF UndoRestoresRecords, Last
<1> QED
  BY <1>1, AppInvariance, PTL

-----------------------------------------------------------------------------
(* The transfer of all that a user has.                                    *)

(* What is left after the free money and the first i funds are gone. *)
Left(a, keys, i) == DOMAIN a.frozen \ {keys[j] : j \in 1..i}
Rest(a, keys, i) == [free |-> 0, frozen |-> [k \in Left(a, keys, i) |-> a.frozen[k]]]

LEMMA OneFundLess ==
    ASSUME NEW a, IsRecord(a), NEW m \in Nat, NEW keys \in [1..m -> DOMAIN a.frozen],
           NEW i \in Nat, i + 1 \in 1..m, \A j, k \in 1..m : keys[j] = keys[k] => j = k
    PROVE  LET op == Op("subTag", keys[i + 1], a.frozen[keys[i + 1]]) IN
           /\ CanOperate(Rest(a, keys, i), op)
           /\ Operated(Rest(a, keys, i), op) = Rest(a, keys, i + 1)
<1> DEFINE key == keys[i + 1]
           money == a.frozen[key]
           op == Op("subTag", key, money)
           b == Rest(a, keys, i)
           L == Left(a, keys, i)
           M == Left(a, keys, i + 1)
<1>1. op.kind = "subTag" /\ op.key = key /\ op.money = money
  BY DEF Op
<1>2. 1..(i + 1) = (1..i) \cup {i + 1} /\ \A j \in 1..i : j \in 1..m /\ j # i + 1
  OBVIOUS
<1>3. key \in L
  BY <1>2 DEF Left
<1>4. money \in Nat
  BY DEF IsRecord, IsFunds
<1>5. M = L \ {key}
  BY <1>2 DEF Left
<1>6. b = [free |-> 0, frozen |-> [k \in L |-> a.frozen[k]]]
  BY DEF Rest
<1>7. Rest(a, keys, i + 1) = [free |-> 0, frozen |-> [k \in M |-> a.frozen[k]]]
  BY DEF Rest
<1> HIDE DEF b, L, M, op, key, money
<1>8. FundOf(b, key) = money /\ DOMAIN b.frozen = L
  BY <1>3, <1>6 DEF FundOf, money
<1> QED
  <2>1. CanOperate(b, op)
    BY <1>1, <1>4, <1>8 DEF CanOperate
  <2>2. Operated(b, op) = MinusAppCFund(b, key, money)
    BY <1>1 DEF Operated
  <2>3. MinusAppCFund(b, key, money) = [b EXCEPT !.frozen = Restrict(@, L \ {key})]
    BY <1>8 DEF MinusAppCFund
  <2>4. Restrict(b.frozen, L \ {key}) = [k \in M |-> a.frozen[k]]
    BY <1>5, <1>6 DEF Restrict
  <2>5. [b EXCEPT !.frozen = Restrict(@, L \ {key})]
          = [free |-> 0, frozen |-> [k \in M |-> a.frozen[k]]]
    BY <1>6, <2>4
  <2> QED
    BY <1>7, <2>1, <2>2, <2>3, <2>5 DEF b, op, key, money

LEMMA EmptyingWorks ==
    ASSUME NEW a, IsRecord(a)
    PROVE  /\ Operate(a, Assets(a, "subFree", "subTag")).ok
           /\ Owned(Operate(a, Assets(a, "subFree", "subTag")).record) = 0
<1> DEFINE ops == Assets(a, "subFree", "subTag")
           K == DOMAIN a.frozen
<1>1. ops \in Seq(Operations)
  BY AssetsListed
<1>2. PICK m, keys, off : Lists(ops, a, "subFree", "subTag", m, keys, off)
  BY AssetsListed
<1> HIDE DEF ops
<1>3. /\ m \in Nat /\ keys \in [1..m -> K] /\ off \in {0, 1}
      /\ \A j, k \in 1..m : keys[j] = keys[k] => j = k
      /\ \A k \in K : \E i \in 1..m : keys[i] = k
      /\ off = 0 <=> a.free = 0
      /\ Len(ops) = off + m
      /\ off = 1 => ops[1] = Op("subFree", Nowhere, a.free)
      /\ \A i \in 1..m : ops[off + i] = Op("subTag", keys[i], a.frozen[keys[i]])
  BY <1>2 DEF Lists
<1> DEFINE n == off + m
<1>4. n \in Nat /\ DOMAIN ops = 1..n
  BY <1>1, <1>3
<1> HIDE DEF n
<1>5. PICK r : Trace(r, a, ops, n) /\ Operate(a, ops) = r[n]
  BY <1>4, OperateTrace
<1> DEFINE Good(i) == r[off + i] = [ok |-> TRUE, record |-> Rest(a, keys, i)]
           P == {i \in Nat : i <= m => Good(i)}
<1>6. 0 \in P
  <2>1. Rest(a, keys, 0) = [free |-> 0, frozen |-> a.frozen]
    <3>1. Left(a, keys, 0) = K
      <4>1. 1..0 = {}
        OBVIOUS
      <4> QED
        BY <4>1 DEF Left
    <3>2. a.frozen = [k \in K |-> a.frozen[k]]
      BY DEF IsRecord, IsFunds
    <3> HIDE DEF K
    <3> QED
      BY <3>1, <3>2, Zenon DEF Rest
  <2>2. r[0] = [ok |-> TRUE, record |-> a]
    BY <1>5 DEF Trace, Start
  <2>3. a = [free |-> a.free, frozen |-> a.frozen]
    BY DEF IsRecord
  <2>4. CASE off = 0
    <3>1. a = [free |-> 0, frozen |-> a.frozen] /\ off + 0 = 0
      BY <1>3, <2>3, <2>4
    <3> QED
      BY <2>1, <2>2, <3>1
  <2>5. CASE off = 1
    <3> DEFINE op == ops[1]
               q == r[0]
    <3>1. op.kind = "subFree" /\ op.money = a.free
      BY <1>3, <2>5 DEF Op
    <3>2. 1 \in 1..n /\ 1 - 1 = 0 /\ off + 0 = 1
      BY <1>3, <2>5 DEF n
    <3>3. r[1] = OneMore(r[0], op)
      BY <1>5, <3>2 DEF Trace
    <3>4. a.free \in Nat
      BY DEF IsRecord
    <3>5. q = [ok |-> q.ok, record |-> q.record] /\ q.ok /\ q.record = a
      BY <2>2
    <3> HIDE DEF op, q
    <3>6. CanOperate(a, op) /\ Operated(a, op) = [a EXCEPT !.free = @ - op.money]
      BY <3>1, <3>4 DEF CanOperate, Operated
    <3>7. Operated(a, op) = [free |-> 0, frozen |-> a.frozen]
      <4>1. [a EXCEPT !.free = @ - op.money] = [free |-> a.free - op.money, frozen |-> a.frozen]
        BY <2>3
      <4>2. a.free - op.money = 0
        BY <3>1, <3>4
      <4> QED
        BY <3>6, <4>1, <4>2
    <3>8. OneMore(q, op) = [ok |-> q.ok, record |-> Operated(a, op)]
      BY <3>5, <3>6, OneMoreOk
    <3>9. q.ok = TRUE
      BY <2>2 DEF q
    <3>10. r[1] = [ok |-> TRUE, record |-> Rest(a, keys, 0)]
      BY <2>1, <3>3, <3>7, <3>8, <3>9 DEF q
    <3> QED
      BY <3>2, <3>10
  <2> QED
    BY <1>3, <2>4, <2>5
<1>7. ASSUME NEW i \in Nat, i \in P PROVE i + 1 \in P
  <2> SUFFICES ASSUME i + 1 <= m PROVE Good(i + 1)
    OBVIOUS
  <2> DEFINE op == Op("subTag", keys[i + 1], a.frozen[keys[i + 1]])
             b == Rest(a, keys, i)
             l == off + (i + 1)
             q == [ok |-> TRUE, record |-> b]
  <2>1. i + 1 \in 1..m /\ i <= m /\ l \in 1..n /\ l - 1 = off + i
    BY <1>3 DEF n
  <2>2. ops[l] = op
    BY <1>3, <2>1
  <2>3. r[off + i] = q
    BY <1>7, <2>1
  <2>4. CanOperate(b, op) /\ Operated(b, op) = Rest(a, keys, i + 1)
    <3>1. /\ m \in Nat /\ keys \in [1..m -> DOMAIN a.frozen] /\ i + 1 \in 1..m
          /\ \A j, k \in 1..m : keys[j] = keys[k] => j = k
      BY <1>3, <2>1
    <3> HIDE DEF P, n, l
    <3> QED
      BY <3>1, OneFundLess
  <2>5. r[l] = OneMore(r[l - 1], ops[l])
    <3> HIDE DEF l
    <3> QED
      BY <1>5, <2>1 DEF Trace
  <2>6. q = [ok |-> q.ok, record |-> q.record] /\ q.ok = TRUE /\ q.record = b
    OBVIOUS
  <2> HIDE DEF op, b, q
  <2>7. OneMore(q, op) = [ok |-> q.ok, record |-> Operated(b, op)]
    BY <2>4, <2>6, OneMoreOk
  <2>8. r[l] = [ok |-> TRUE, record |-> Rest(a, keys, i + 1)]
    <3> HIDE DEF l
    <3> QED
      BY <2>1, <2>2, <2>3, <2>4, <2>5, <2>6, <2>7
  <2> QED
    BY <2>8
<1> HIDE DEF P
<1>8. m \in P
  BY <1>3, <1>6, <1>7, SetInduction
<1>9. Operate(a, ops) = [ok |-> TRUE, record |-> Rest(a, keys, m)]
  <2>1. r[off + m] = [ok |-> TRUE, record |-> Rest(a, keys, m)]
    BY <1>3, <1>8 DEF P
  <2> QED
    BY <1>5, <2>1 DEF n
<1>10. Left(a, keys, m) = {}
  BY <1>3 DEF Left
<1>11. Owned(Rest(a, keys, m)) = 0
  <2> DEFINE f == [k \in Left(a, keys, m) |-> a.frozen[k]]
  <2>1. DOMAIN f = {} /\ Rest(a, keys, m) = [free |-> 0, frozen |-> f]
    BY <1>10 DEF Rest
  <2> HIDE DEF f
  <2>2. SumFunction(f) = 0
    BY <2>1, SumOfNothing DEF SumFunction
  <2> QED
    BY <2>1, <2>2 DEF Owned
<1> QED
  BY <1>9, <1>11 DEF ops

(* What the call takes for free is what its execution takes for free, if   *)
(* no fund matures at the height it runs at.                               *)
LEMMA SameMerge ==
    ASSUME IInv, NEW from \in DOMAIN world.users,
           ~(~byTime /\ \E k \in DOMAIN world.users[from].frozen : k.until = Height)
    PROVE  Loaded(world, from, MergeTime(Height, chain))
             = AutoMergeFreezeToFree(world.users[from], MergeTime(Len(chain), chain))
<1> DEFINE a == world.users[from]
           n == Len(chain)
<1>1. n \in Nat /\ Height = n + 1
  BY DEF IInv, Histories, Height
<1>2. IsRecord(a)
  BY DEF IInv, WorldsBacked, IsWorld
<1>3. Loaded(world, from, MergeTime(Height, chain))
        = AutoMergeFreezeToFree(a, MergeTime(Height, chain))
  BY DEF Loaded
<1>4. CASE byTime
  <2>1. MergeTime(Height, chain) = MergeTime(n, chain)
    BY <1>1, <1>4 DEF MergeTime
  <2> QED
    BY <1>3, <2>1
<1>5. CASE ~byTime
  <2>1. MergeTime(Height, chain) = n + 1 /\ MergeTime(n, chain) = n
    BY <1>1, <1>5 DEF MergeTime
  <2>2. ASSUME NEW k \in DOMAIN a.frozen PROVE k.until <= n + 1 <=> k.until <= n
    <3>1. k.until \in 1..MaxTime
      BY <1>2 DEF IsRecord, IsFunds, FundKey
    <3>2. k.until \in Nat /\ k.until # n + 1
      BY <1>1, <1>5, <3>1, BoundAssumption
    <3> HIDE DEF n
    <3> QED
      BY <1>1, <3>2
  <2>3. {k \in DOMAIN a.frozen : k.until <= n + 1} = {k \in DOMAIN a.frozen : k.until <= n}
    BY <2>2
  <2> HIDE DEF a, n
  <2>4. AutoMergeFreezeToFree(a, n + 1) = AutoMergeFreezeToFree(a, n)
    BY <2>3, Zenon DEF AutoMergeFreezeToFree
  <2> QED
    BY <1>3, <2>1, <2>4 DEF n, a
<1> QED
  BY <1>4, <1>5

LEMMA TransferWorks ==
    ASSUME IInv, NEW from \in DOMAIN world.users, NEW to \in User \ {from},
           ~(~byTime /\ \E k \in DOMAIN world.users[from].frozen : k.until = Height)
    PROVE  LET ops     == TransferContactAsset(from, to, world, chain)
               results == OpeatorAppAccount(ops, world, Height, chain)
           IN
           /\ \A u \in DOMAIN results : results[u].ok
           /\ Owned(Written(results, world)[from]) = 0
<1> DEFINE ops == TransferContactAsset(from, to, world, chain)
           results == OpeatorAppAccount(ops, world, Height, chain)
           a == AutoMergeFreezeToFree(world.users[from], MergeTime(Len(chain), chain))
           subs == Assets(a, "subFree", "subTag")
           adds == Assets(a, "addFree", "addTag")
           now == MergeTime(Height, chain)
<1>1. IsRecord(world.users[from])
  BY DEF IInv, WorldsBacked, IsWorld
<1>2. IsRecord(a) /\ Owned(a) = Owned(world.users[from])
  BY <1>1, MergeKeeps
<1>3. /\ DOMAIN results = DOMAIN ops
      /\ \A u \in DOMAIN ops : results[u] = Operate(Loaded(world, u, now), ops[u])
  BY DEF OpeatorAppAccount
<1>4. Loaded(world, from, now) = a
  BY SameMerge
<1>5. CASE a = NewRecord
  <2>1. ops = <<>>
    BY <1>5 DEF TransferContactAsset
  <2>2. DOMAIN results = {}
    BY <1>3, <2>1
  <2> HIDE DEF results, a
  <2>3. Written(results, world)[from] = world.users[from]
    BY <2>2 DEF Written
  <2>4. Owned(world.users[from]) = 0
    BY <1>2, <1>5, NothingOwned
  <2> QED
    BY <2>2, <2>3, <2>4 DEF results
<1>6. CASE a # NewRecord
  <2>1. ops = [u \in {from, to} |-> IF u = from THEN subs ELSE adds]
    BY <1>6 DEF TransferContactAsset
  <2> HIDE DEF ops, results, a, now
  <2>2. DOMAIN ops = {from, to} /\ ops[from] = subs /\ ops[to] = adds
    BY <2>1
  <2>3. Operate(a, subs).ok /\ Owned(Operate(a, subs).record) = 0
    BY <1>2, EmptyingWorks
  <2>4. \A b : Operate(b, adds).ok
    <3>1. adds \in Seq(Operations) /\ \A i \in DOMAIN adds : adds[i].kind \in {"addFree", "addTag"}
      BY <1>2, AssetsListed
    <3> HIDE DEF adds
    <3> QED
      BY <3>1, AddingIsOk DEF Adds
  <2> HIDE DEF subs, adds
  <2>5. results[from] = Operate(a, subs) /\ results[to].ok
    BY <1>3, <1>4, <2>2, <2>4
  <2>6. \A u \in DOMAIN results : results[u].ok
    BY <1>3, <2>2, <2>3, <2>5
  <2>7. Written(results, world)[from] = results[from].record
    BY <1>3, <2>2 DEF Written
  <2> QED
    BY <2>3, <2>5, <2>6, <2>7 DEF results, ops
<1> QED
  BY <1>5, <1>6

(* ExTransferContactAsset: "transfer all assets" leaves the sender with    *)
(* nothing, unless a fund matures at the height the call runs at.          *)
THEOREM TransferIsComplete == Spec => []TransferMovesAll
<1>1. IInv => TransferMovesAll
  BY TransferWorks DEF TransferMovesAll
<1> QED
  BY <1>1, AppInvariance, PTL
=============================================================================
