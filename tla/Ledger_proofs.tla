---------------------------- MODULE Ledger_proofs ----------------------------
(***************************************************************************)
(* Ledger for any users, amounts, fees, parameters and bounds.             *)
(*                                                                         *)
(* Four inductive invariants, each resting on those before it: LedgerInv   *)
(* (types, and whose key an id names), HistoryInv (what undo data leads    *)
(* back to), MoneyInv (what accounts, rewards and fuel add up to) and      *)
(* EarnedInv (what coin days an account can have).  The sums they speak of *)
(* come first.                                                             *)
(***************************************************************************)
EXTENDS Ledger, SequenceTheorems, FiniteSetTheorems, WellFoundedInduction, TLAPS

(* Every nonempty set of natural numbers has a least element. *)
LEMMA LeastNat ==
    ASSUME NEW T, T \subseteq Nat, T # {}
    PROVE  \E n \in T : \A m \in T : n <= m
<1> DEFINE R == {ss \in Nat \X Nat : ss[1] < ss[2]}
<1>1. IsWellFoundedOn(R, Nat)
  BY NatLessThanWellFounded DEF OpToRel
<1>2. R = {ss \in Nat \X Nat : ss[1] < ss[2]}
  OBVIOUS
<1> HIDE DEF R
<1>3. PICK n \in T : \A m \in T : <<m, n>> \notin R
  BY <1>1, WFMin
<1>4. ASSUME NEW m \in T PROVE n <= m
  <2>1. m \in Nat /\ n \in Nat /\ <<m, n>> \notin R
    BY <1>3
  <2>2. ~(m < n)
    BY <1>2, <2>1
  <2> QED
    BY <2>1, <2>2
<1> QED
  BY <1>4

(* Induction, as a fact about the set of the numbers that have a property. *)
LEMMA SetInduction ==
    ASSUME NEW S, 0 \in S, \A n \in Nat : n \in S => n + 1 \in S
    PROVE  Nat \subseteq S
<1> SUFFICES ASSUME Nat \ S # {} PROVE FALSE
  OBVIOUS
<1>1. PICK n \in Nat \ S : \A m \in Nat \ S : n <= m
  BY LeastNat
<1>2. n # 0 /\ n - 1 \in Nat
  BY <1>1
<1>3. n - 1 \in S
  BY <1>1, <1>2
<1> QED
  BY <1>1, <1>2, <1>3

-----------------------------------------------------------------------------
(* Sums over finite sets.                                                  *)

(* SumFunctionOnSet adds one chosen element at a time: g holds the sums of  *)
(* the sets of C.                                                           *)
Chosen(s) == CHOOSE x \in s : TRUE
Adds(g, f, C) ==
    [s \in C |-> IF s = {} THEN 0 ELSE f[Chosen(s)] + g[s \ {Chosen(s)}]]

(* One element taken from a finite set. *)
LEMMA Smaller ==
    ASSUME NEW s, IsFiniteSet(s), NEW x \in s
    PROVE  /\ IsFiniteSet(s \ {x})
           /\ Cardinality(s) \in Nat /\ Cardinality(s \ {x}) \in Nat
           /\ Cardinality(s) = Cardinality(s \ {x}) + 1
<1>1. /\ IsFiniteSet(s \ {x}) /\ Cardinality(s \ {x}) = Cardinality(s) - 1
      /\ Cardinality(s) \in Nat /\ Cardinality(s \ {x}) \in Nat
  BY FS_RemoveElement, FS_CardinalityType
<1> QED
  BY <1>1

LEMMA ChosenIn == ASSUME NEW s, s # {} PROVE Chosen(s) \in s
BY DEF Chosen

(* A sum over the subsets of a finite set exists. *)
LEMMA SumExists ==
    ASSUME NEW f, NEW S, IsFiniteSet(S)
    PROVE  \E g : g = Adds(g, f, SUBSET S)
<1> DEFINE Level(n) == {s \in SUBSET S : Cardinality(s) <= n}
           P == {n \in Nat : \E g : g = Adds(g, f, Level(n))}
<1>1. \A s \in SUBSET S : IsFiniteSet(s) /\ Cardinality(s) \in Nat
                          /\ Cardinality(s) <= Cardinality(S)
  BY FS_Subset, FS_CardinalityType
<1>2. 0 \in P
  <2> DEFINE g == [s \in Level(0) |-> 0]
  <2>1. \A s \in Level(0) : s = {}
    BY <1>1, FS_EmptySet
  <2>2. g = Adds(g, f, Level(0))
    BY <2>1 DEF Adds
  <2> QED
    BY <2>2
<1>3. ASSUME NEW n \in Nat, n \in P PROVE n + 1 \in P
  <2>1. PICK g : g = Adds(g, f, Level(n))
    BY <1>3
  <2> DEFINE h == Adds(g, f, Level(n + 1))
  <2>2. ASSUME NEW s \in Level(n + 1) PROVE h[s] = Adds(h, f, Level(n + 1))[s]
    <3>1. CASE s = {}
      BY <3>1 DEF Adds
    <3>2. CASE s # {}
      <4> DEFINE t == s \ {Chosen(s)}
      <4>1. t \in Level(n) /\ t \in Level(n + 1)
        <5>1. s \in SUBSET S /\ Cardinality(s) <= n + 1 /\ Chosen(s) \in s
          BY <2>2, <3>2, ChosenIn
        <5>2. Cardinality(t) <= n /\ Cardinality(t) <= n + 1
          BY <1>1, <5>1, Smaller
        <5> QED
          BY <5>1, <5>2
      <4>2. h[t] = g[t]
        BY <2>1, <4>1 DEF Adds
      <4>3. h[s] = f[Chosen(s)] + g[t]
        BY <2>2, <3>2 DEF Adds
      <4>4. Adds(h, f, Level(n + 1))[s] = f[Chosen(s)] + h[t]
        BY <2>2, <3>2 DEF Adds
      <4> QED
        BY <4>2, <4>3, <4>4
    <3> QED
      BY <3>1, <3>2
  <2>3. h = Adds(h, f, Level(n + 1))
    BY <2>2 DEF Adds
  <2> QED
    BY <2>3
<1> HIDE DEF P
<1>4. Cardinality(S) \in P
  BY <1>1, <1>2, <1>3, SetInduction
<1>5. Level(Cardinality(S)) = SUBSET S
  BY <1>1
<1> QED
  BY <1>4, <1>5 DEF P

(* Two of them agree where both are defined. *)
LEMMA SumUnique ==
    ASSUME NEW f, NEW S, IsFiniteSet(S), NEW T, T \subseteq S, NEW g, NEW h,
           g = Adds(g, f, SUBSET S), h = Adds(h, f, SUBSET T)
    PROVE  g[T] = h[T]
<1> DEFINE P == {n \in Nat : \A s \in SUBSET T : Cardinality(s) <= n => g[s] = h[s]}
<1>1. \A s \in SUBSET T : IsFiniteSet(s) /\ Cardinality(s) \in Nat
  BY FS_Subset, FS_CardinalityType
<1>2. 0 \in P
  <2> SUFFICES ASSUME NEW s \in SUBSET T, Cardinality(s) <= 0 PROVE g[s] = h[s]
    OBVIOUS
  <2>1. s = {}
    BY <1>1, FS_EmptySet
  <2> QED
    BY <2>1 DEF Adds
<1>3. ASSUME NEW n \in Nat, n \in P PROVE n + 1 \in P
  <2> SUFFICES ASSUME NEW s \in SUBSET T, Cardinality(s) <= n + 1 PROVE g[s] = h[s]
    OBVIOUS
  <2>1. CASE s = {}
    BY <2>1 DEF Adds
  <2>2. CASE s # {}
    <3> DEFINE t == s \ {Chosen(s)}
    <3>1. t \in SUBSET T /\ Cardinality(t) <= n
      BY <1>1, <2>2, ChosenIn, Smaller
    <3>2. g[t] = h[t]
      BY <1>3, <3>1
    <3>3. g[s] = f[Chosen(s)] + g[t] /\ h[s] = f[Chosen(s)] + h[t]
      BY <2>2 DEF Adds
    <3> QED
      BY <3>2, <3>3
  <2> QED
    BY <2>1, <2>2
<1> HIDE DEF P
<1>4. Cardinality(T) \in P
  BY <1>1, <1>2, <1>3, SetInduction
<1> QED
  BY <1>1, <1>4 DEF P

LEMMA SumIsChosen ==
    ASSUME NEW f, NEW S
    PROVE  SumFunctionOnSet(f, S) = (CHOOSE g : g = Adds(g, f, SUBSET S))[S]
BY DEF SumFunctionOnSet, FoldFunctionOnSet, MapThenFoldSet, Adds, Chosen

LEMMA SumOfNothing == ASSUME NEW f PROVE SumFunctionOnSet(f, {}) = 0
<1> DEFINE g == CHOOSE g : g = Adds(g, f, SUBSET {})
<1>1. g = Adds(g, f, SUBSET {})
  BY SumExists, FS_EmptySet
<1>2. SumFunctionOnSet(f, {}) = g[{}]
  BY SumIsChosen
<1> HIDE DEF g
<1> QED
  BY <1>1, <1>2 DEF Adds

LEMMA SumUnrolled ==
    ASSUME NEW f, NEW S, IsFiniteSet(S), S # {}
    PROVE  SumFunctionOnSet(f, S)
             = f[Chosen(S)] + SumFunctionOnSet(f, S \ {Chosen(S)})
<1> DEFINE T == S \ {Chosen(S)}
           g == CHOOSE g : g = Adds(g, f, SUBSET S)
           h == CHOOSE h : h = Adds(h, f, SUBSET T)
<1>1. IsFiniteSet(T) /\ T \subseteq S
  BY FS_Subset
<1>2. g = Adds(g, f, SUBSET S)
  BY SumExists
<1>3. h = Adds(h, f, SUBSET T)
  <2> HIDE DEF T
  <2> QED
    BY <1>1, SumExists
<1>4. SumFunctionOnSet(f, S) = g[S]
  BY SumIsChosen
<1>5. SumFunctionOnSet(f, T) = h[T]
  <2> HIDE DEF T
  <2> QED
    BY SumIsChosen
<1> HIDE DEF g, h
<1>6. g[T] = h[T]
  <2> HIDE DEF T
  <2> QED
    BY <1>1, <1>2, <1>3, SumUnique
<1>7. g[S] = f[Chosen(S)] + g[T]
  BY <1>2 DEF Adds
<1> QED
  BY <1>4, <1>5, <1>6, <1>7

(* A sum of integers is one, a sum of natural numbers too. *)
LEMMA SumType ==
    ASSUME NEW V, 0 \in V, \A x, y \in V : x + y \in V,
           NEW S, IsFiniteSet(S), NEW f, \A x \in S : f[x] \in V
    PROVE  SumFunctionOnSet(f, S) \in V
<1> DEFINE P == {n \in Nat : \A s \in SUBSET S :
                    Cardinality(s) <= n => SumFunctionOnSet(f, s) \in V}
<1>1. \A s \in SUBSET S : IsFiniteSet(s) /\ Cardinality(s) \in Nat
  BY FS_Subset, FS_CardinalityType
<1>2. 0 \in P
  <2> SUFFICES ASSUME NEW s \in SUBSET S, Cardinality(s) <= 0
               PROVE  SumFunctionOnSet(f, s) \in V
    OBVIOUS
  <2>1. s = {}
    BY <1>1, FS_EmptySet
  <2> QED
    BY <2>1, SumOfNothing
<1>3. ASSUME NEW n \in Nat, n \in P PROVE n + 1 \in P
  <2> SUFFICES ASSUME NEW s \in SUBSET S, Cardinality(s) <= n + 1
               PROVE  SumFunctionOnSet(f, s) \in V
    OBVIOUS
  <2>1. CASE s = {}
    BY <2>1, SumOfNothing
  <2>2. CASE s # {}
    <3> DEFINE t == s \ {Chosen(s)}
    <3>1. t \in SUBSET S /\ Cardinality(t) <= n /\ Chosen(s) \in S
      BY <1>1, <2>2, ChosenIn, Smaller
    <3>2. SumFunctionOnSet(f, t) \in V
      BY <1>3, <3>1
    <3>3. SumFunctionOnSet(f, s) = f[Chosen(s)] + SumFunctionOnSet(f, t)
      BY <1>1, <2>2, SumUnrolled
    <3> QED
      BY <3>1, <3>2, <3>3
  <2> QED
    BY <2>1, <2>2
<1> HIDE DEF P
<1>4. Cardinality(S) \in P
  BY <1>1, <1>2, <1>3, SetInduction
<1> QED
  BY <1>1, <1>4 DEF P

LEMMA SumIsInteger ==
    ASSUME NEW S, IsFiniteSet(S), NEW f, \A x \in S : f[x] \in Int
    PROVE  SumFunctionOnSet(f, S) \in Int
<1>1. 0 \in Int /\ \A x, y \in Int : x + y \in Int
  OBVIOUS
<1> QED
  BY <1>1, SumType

LEMMA SumSame ==
    ASSUME NEW S, IsFiniteSet(S), NEW f, NEW g, \A x \in S : f[x] = g[x]
    PROVE  SumFunctionOnSet(f, S) = SumFunctionOnSet(g, S)
<1> DEFINE P == {n \in Nat : \A s \in SUBSET S : Cardinality(s) <= n =>
                    SumFunctionOnSet(f, s) = SumFunctionOnSet(g, s)}
<1>1. \A s \in SUBSET S : IsFiniteSet(s) /\ Cardinality(s) \in Nat
  BY FS_Subset, FS_CardinalityType
<1>2. 0 \in P
  <2> SUFFICES ASSUME NEW s \in SUBSET S, Cardinality(s) <= 0
               PROVE  SumFunctionOnSet(f, s) = SumFunctionOnSet(g, s)
    OBVIOUS
  <2>1. s = {}
    BY <1>1, FS_EmptySet
  <2> QED
    BY <2>1, SumOfNothing
<1>3. ASSUME NEW n \in Nat, n \in P PROVE n + 1 \in P
  <2> SUFFICES ASSUME NEW s \in SUBSET S, Cardinality(s) <= n + 1
               PROVE  SumFunctionOnSet(f, s) = SumFunctionOnSet(g, s)
    OBVIOUS
  <2>1. CASE s = {}
    BY <2>1, SumOfNothing
  <2>2. CASE s # {}
    <3> DEFINE t == s \ {Chosen(s)}
    <3>1. t \in SUBSET S /\ Cardinality(t) <= n /\ Chosen(s) \in S
      BY <1>1, <2>2, ChosenIn, Smaller
    <3>2. SumFunctionOnSet(f, t) = SumFunctionOnSet(g, t)
      BY <1>3, <3>1
    <3>3. /\ SumFunctionOnSet(f, s) = f[Chosen(s)] + SumFunctionOnSet(f, t)
          /\ SumFunctionOnSet(g, s) = g[Chosen(s)] + SumFunctionOnSet(g, t)
      BY <1>1, <2>2, SumUnrolled
    <3> QED
      BY <3>1, <3>2, <3>3
  <2> QED
    BY <2>1, <2>2
<1> HIDE DEF P
<1>4. Cardinality(S) \in P
  BY <1>1, <1>2, <1>3, SetInduction
<1> QED
  BY <1>1, <1>4 DEF P

(* The order of summation does not matter. *)
LEMMA SumWithout ==
    ASSUME NEW S, IsFiniteSet(S), NEW f, \A x \in S : f[x] \in Int, NEW y \in S
    PROVE  SumFunctionOnSet(f, S) = f[y] + SumFunctionOnSet(f, S \ {y})
<1> DEFINE Splits(s) == \A x \in s :
                SumFunctionOnSet(f, s) = f[x] + SumFunctionOnSet(f, s \ {x})
           P == {n \in Nat : \A s \in SUBSET S : Cardinality(s) <= n => Splits(s)}
<1>1. \A s \in SUBSET S : IsFiniteSet(s) /\ Cardinality(s) \in Nat
  BY FS_Subset, FS_CardinalityType
<1>2. 0 \in P
  <2> SUFFICES ASSUME NEW s \in SUBSET S, Cardinality(s) <= 0 PROVE Splits(s)
    OBVIOUS
  <2>1. s = {}
    BY <1>1, FS_EmptySet
  <2> QED
    BY <2>1
<1>3. ASSUME NEW n \in Nat, n \in P PROVE n + 1 \in P
  <2> SUFFICES ASSUME NEW s \in SUBSET S, Cardinality(s) <= n + 1, NEW x \in s
               PROVE  SumFunctionOnSet(f, s) = f[x] + SumFunctionOnSet(f, s \ {x})
    OBVIOUS
  <2> DEFINE c == Chosen(s)
             t == s \ {c}
             u == s \ {x}
             both == u \ {c}
  <2>1. c \in s /\ IsFiniteSet(s) /\ s \in SUBSET S
    BY <1>1, ChosenIn
  <2>2. SumFunctionOnSet(f, s) = f[c] + SumFunctionOnSet(f, t)
    BY <1>1, <2>1, SumUnrolled
  <2>3. CASE x = c
    BY <2>2, <2>3
  <2>4. CASE x # c
    <3> HIDE DEF c
    <3>1. t \in SUBSET S /\ Cardinality(t) <= n /\ u \in SUBSET S /\ Cardinality(u) <= n
      BY <1>1, <2>1, Smaller
    <3>2. x \in t /\ c \in u /\ t \ {x} = both
      BY <2>1, <2>4
    <3>3. Splits(t) /\ Splits(u)
      BY <1>3, <3>1
    <3>4. SumFunctionOnSet(f, t) = f[x] + SumFunctionOnSet(f, both)
      BY <3>2, <3>3
    <3>5. SumFunctionOnSet(f, u) = f[c] + SumFunctionOnSet(f, both)
      BY <3>2, <3>3
    <3>6. f[x] \in Int /\ f[c] \in Int /\ SumFunctionOnSet(f, both) \in Int
      <4>1. both \in SUBSET S /\ \A z \in both : f[z] \in Int
        BY <2>1
      <4>2. IsFiniteSet(both) /\ 0 \in Int /\ \A a, b \in Int : a + b \in Int
        BY <1>1, <4>1
      <4> QED
        BY <2>1, <4>1, <4>2, SumType
    <3> HIDE DEF t, u, both
    <3>7. \A a, b, d \in Int : a + (b + d) = b + (a + d)
      OBVIOUS
    <3> QED
      BY <2>2, <3>4, <3>5, <3>6, <3>7 DEF u
  <2> QED
    BY <2>3, <2>4
<1> HIDE DEF P
<1>4. Cardinality(S) \in P
  BY <1>1, <1>2, <1>3, SetInduction
<1> QED
  BY <1>1, <1>4 DEF P

(* Functions with integer values on S that differ at y at most. *)
SameBut(f, g, S, y) ==
    \A x \in S : f[x] \in Int /\ g[x] \in Int /\ (x # y => f[x] = g[x])

LEMMA SumChanged ==
    ASSUME NEW S, IsFiniteSet(S), NEW f, NEW g, NEW y \in S, SameBut(f, g, S, y)
    PROVE  /\ SumFunctionOnSet(f, S) \in Int
           /\ SumFunctionOnSet(g, S) = SumFunctionOnSet(f, S) - f[y] + g[y]
<1> DEFINE T == S \ {y}
<1>1. /\ SumFunctionOnSet(f, S) = f[y] + SumFunctionOnSet(f, T)
      /\ SumFunctionOnSet(g, S) = g[y] + SumFunctionOnSet(g, T)
  BY SumWithout DEF SameBut
<1>2. IsFiniteSet(T) /\ \A x \in T : f[x] = g[x]
  BY FS_Subset DEF SameBut
<1>3. SumFunctionOnSet(f, T) = SumFunctionOnSet(g, T)
  <2> HIDE DEF T
  <2> QED
    BY <1>2, SumSame
<1>4. SumFunctionOnSet(f, T) \in Int /\ SumFunctionOnSet(f, S) \in Int
  <2>1. \A x \in T : f[x] \in Int
    BY DEF SameBut
  <2>2. \A x \in S : f[x] \in Int
    BY DEF SameBut
  <2> HIDE DEF T
  <2> QED
    BY <1>2, <2>1, <2>2, SumIsInteger
<1> HIDE DEF T
<1>5. f[y] \in Int /\ g[y] \in Int
  BY DEF SameBut
<1> QED
  BY <1>1, <1>3, <1>4, <1>5

(* Functions with the same integer values on S. *)
SameOn(f, g, S) == \A x \in S : f[x] = g[x] /\ g[x] \in Int

LEMMA SumExtended ==
    ASSUME NEW S, IsFiniteSet(S), NEW y, y \notin S, NEW f, NEW g,
           SameOn(f, g, S), g[y] \in Int
    PROVE  /\ SumFunctionOnSet(f, S) \in Int
           /\ SumFunctionOnSet(g, S \cup {y}) = SumFunctionOnSet(f, S) + g[y]
<1> DEFINE T == S \cup {y}
<1>1. IsFiniteSet(T) /\ y \in T /\ T \ {y} = S /\ \A x \in T : g[x] \in Int
  BY FS_AddElement DEF SameOn
<1>2. SumFunctionOnSet(g, T) = g[y] + SumFunctionOnSet(g, S)
  <2> HIDE DEF T
  <2> QED
    BY <1>1, SumWithout
<1>3. SumFunctionOnSet(g, S) = SumFunctionOnSet(f, S)
  BY SumSame DEF SameOn
<1>4. SumFunctionOnSet(g, S) \in Int
  BY SumIsInteger DEF SameOn
<1> QED
  BY <1>2, <1>3, <1>4

(* The sum of a sequence, and of one with another element at its end. *)
LEMMA SumAppended ==
    ASSUME NEW n \in Nat, NEW f, DOMAIN f = 1..n, NEW g, DOMAIN g = 1..(n + 1),
           \A i \in 1..n : g[i] = f[i] /\ f[i] \in Int, g[n + 1] \in Int
    PROVE  SumFunction(f) \in Int /\ SumFunction(g) = SumFunction(f) + g[n + 1]
<1> DEFINE S == 1..n
           y == n + 1
<1>1. IsFiniteSet(S)
  <2>1. 1 \in Int /\ n \in Int
    OBVIOUS
  <2> QED
    BY <2>1, FS_Interval
<1>2. y \notin S /\ 1..(n + 1) = S \cup {y}
  OBVIOUS
<1>3. SameOn(f, g, S) /\ g[y] \in Int
  BY DEF SameOn
<1>4. SumFunction(f) = SumFunctionOnSet(f, S) /\ SumFunction(g) = SumFunctionOnSet(g, S \cup {y})
  BY <1>2 DEF SumFunction
<1> HIDE DEF S, y
<1>5. /\ SumFunctionOnSet(f, S) \in Int
      /\ SumFunctionOnSet(g, S \cup {y}) = SumFunctionOnSet(f, S) + g[y]
  BY <1>1, <1>2, <1>3, SumExtended
<1> QED
  BY <1>4, <1>5 DEF y

-----------------------------------------------------------------------------
(* Accounts: value, coin days and height stay natural numbers.             *)

LEMMA Numbers ==
    /\ Maturity \in Nat \ {0} /\ IntervalPos \in Nat \ {0} /\ MaxDay \in Nat \ {0}
    /\ Width \in Nat \ {0}
    /\ PosReward \in Nat /\ RemainHeight \in Nat /\ MaxHeight \in Nat /\ MaxTxs \in Nat
    /\ \A x \in Fee : x \in Nat
    /\ \A x \in Amount : x \in Nat
BY LedgerNumbers

(* What identifies an account, and is not moved by money. *)
SameRole(a, b) == a.pub = b.pub /\ a.reg = b.reg

LEMMA Wrapped == ASSUME NEW n \in Nat PROVE n % Width \in Nat
<1>1. \A w \in Nat \ {0} : n % w \in Nat
  OBVIOUS
<1> QED
  BY <1>1, Numbers

LEMMA CoinDaysGrow ==
    ASSUME NEW a \in Account, NEW h \in Nat
    PROVE  LET b == UpDateCoinDay(a, h) IN
           b \in Account /\ b.value = a.value /\ SameRole(b, a)
<1>1. CASE h <= a.height
  BY <1>1 DEF UpDateCoinDay, SameRole
<1>2. CASE ~(h <= a.height)
  <2> DEFINE grown == (a.coin + a.value * (h - a.height)) % Width
             most == (a.value * MaxDay) % Width
             coin == IF grown > most THEN most ELSE grown
  <2>1. /\ a.value \in Nat /\ a.coin \in Nat /\ a.height \in Nat
        /\ h - a.height \in Nat /\ MaxDay \in Nat
    BY <1>2, Numbers DEF Account
  <2>2. /\ \A x, y \in Nat : x * y \in Nat
        /\ \A x, y \in Nat : x + y \in Nat
    OBVIOUS
  <2>3. a.value * (h - a.height) \in Nat /\ a.value * MaxDay \in Nat
    BY <2>1, <2>2
  <2>4. a.coin + a.value * (h - a.height) \in Nat
    BY <2>1, <2>2, <2>3
  <2>5. grown \in Nat /\ most \in Nat
    BY <2>3, <2>4, Wrapped
  <2> HIDE DEF grown, most
  <2>6. coin \in Nat
    BY <2>5
  <2>7. UpDateCoinDay(a, h) = [a EXCEPT !.coin = coin, !.height = h]
    BY <1>2 DEF UpDateCoinDay, grown, most
  <2> HIDE DEF coin
  <2> QED
    BY <2>6, <2>7 DEF Account, SameRole
<1> QED
  BY <1>1, <1>2

(* Spending v of the money leaves a natural number of coin days. *)
LEMMA CoinDaysSpent ==
    ASSUME NEW a \in Account, NEW v \in Nat, v # 0, v <= a.value, NEW h \in Nat
    PROVE  RemainCoinDay(a, v, h) \in Nat
<1> DEFINE rest == IF h < RemainHeight
                   THEN a.coin - (v \div a.value) * a.coin
                   ELSE (a.coin * (a.value - v)) \div a.value
           interval == (a.value * IntervalPos) % Width
<1>1. /\ a.value \in Nat /\ a.value > 0 /\ a.coin \in Nat
      /\ a.value - v \in Nat /\ IntervalPos \in Nat
  BY Numbers DEF Account
<1>2. /\ \A x, y \in Nat : x * y \in Nat
      /\ \A x \in Nat, y \in Nat : y > 0 => x \div y \in Nat
  OBVIOUS
<1>3. a.coin - (v \div a.value) * a.coin \in Nat
  <2>1. v \div a.value \in {0, 1}
    <3>1. CASE v = a.value
      <4>1. \A x \in Nat : x > 0 => x \div x = 1
        OBVIOUS
      <4> QED
        BY <1>1, <3>1, <4>1
    <3>2. CASE v < a.value
      <4>1. \A x, y \in Nat : y < x => y \div x = 0
        OBVIOUS
      <4> QED
        BY <1>1, <3>2, <4>1
    <3> QED
      BY <1>1, <3>1, <3>2
  <2>2. /\ 0 * a.coin = 0 /\ 1 * a.coin = a.coin
    BY <1>1
  <2> QED
    BY <1>1, <2>1, <2>2
<1>4. (a.coin * (a.value - v)) \div a.value \in Nat
  BY <1>1, <1>2
<1>5. rest \in Nat
  BY <1>3, <1>4
<1>6. interval \in Nat
  BY <1>1, <1>2, Wrapped
<1>7. RemainCoinDay(a, v, h) =
          IF a.coin > interval /\ rest < interval THEN interval ELSE rest
  BY DEF RemainCoinDay
<1> HIDE DEF rest, interval
<1> QED
  BY <1>5, <1>6, <1>7

LEMMA MinusType ==
    ASSUME NEW a \in Account, NEW v \in Nat, v <= a.value, NEW h \in Nat
    PROVE  /\ Minus(a, v, h) \in Account
           /\ Minus(a, v, h).value = a.value - v
           /\ SameRole(Minus(a, v, h), a)
<1> DEFINE b == UpDateCoinDay(a, h)
           coin == RemainCoinDay(b, v, h)
<1>1. b \in Account /\ b.value = a.value /\ SameRole(b, a)
  BY CoinDaysGrow
<1>2. v # 0 => coin \in Nat
  BY <1>1, CoinDaysSpent
<1>3. Minus(a, v, h) = IF v = 0 THEN b ELSE [b EXCEPT !.value = b.value - v, !.coin = coin]
  BY DEF Minus
<1> HIDE DEF b, coin
<1>4. CASE v = 0
  BY <1>1, <1>3, <1>4 DEF Account
<1>5. CASE v # 0
  <2>1. b.value - v \in Nat
    BY <1>1 DEF Account
  <2> QED
    BY <1>1, <1>2, <1>3, <1>5, <2>1 DEF Account, SameRole
<1> QED
  BY <1>4, <1>5

LEMMA PlusType ==
    ASSUME NEW a \in Account, NEW v \in Nat, NEW h \in Nat
    PROVE  /\ Plus(a, v, h) \in Account
           /\ Plus(a, v, h).value = a.value + v
           /\ SameRole(Plus(a, v, h), a)
<1> DEFINE b == UpDateCoinDay(a, h)
<1>1. b \in Account /\ b.value = a.value /\ SameRole(b, a)
  BY CoinDaysGrow
<1>2. Plus(a, v, h) = [b EXCEPT !.value = b.value + v]
  BY DEF Plus
<1> HIDE DEF b
<1> QED
  BY <1>1, <1>2 DEF Account, SameRole

LEMMA ClearType ==
    ASSUME NEW a \in Account, NEW h \in Nat
    PROVE  /\ ClearAccPos(a, h) \in Account
           /\ ClearAccPos(a, h).value = a.value
           /\ SameRole(ClearAccPos(a, h), a)
<1> DEFINE b == UpDateCoinDay(a, h)
<1>1. b \in Account /\ b.value = a.value /\ SameRole(b, a)
  BY CoinDaysGrow
<1>2. ClearAccPos(a, h) = [b EXCEPT !.coin = 0]
  BY DEF ClearAccPos
<1> HIDE DEF b
<1> QED
  BY <1>1, <1>2 DEF Account, SameRole

LEMMA UndoType ==
    ASSUME NEW a \in Account, NEW l \in Log
    PROVE  /\ UndoOperateAccount(a, l) \in Account
           /\ UndoOperateAccount(a, l).value = l.value
           /\ SameRole(UndoOperateAccount(a, l), a)
BY DEF UndoOperateAccount, Account, Log, SameRole

-----------------------------------------------------------------------------
(* Views.                                                                  *)

LEMMA Ids == /\ \A x \in Key : x # None
             /\ \A x \in Account : x # None
             /\ \A x \in Id : x \in Key /\ x \notin User
             /\ \A x \in User : x \in Key
BY LedgerNone DEF Key

LEMMA NewAccountType == NewAccount \in Account
BY DEF NewAccount, Account

LEMMA HeldType ==
    ASSUME NEW w \in World, NEW k \in Key
    PROVE  Held(w, k) \in Account /\ (w.acct[k] # None => w.acct[k] \in Account)
BY NewAccountType DEF Held, World

LEMMA LogOfType ==
    ASSUME NEW w \in World, NEW k \in Key
    PROVE  LogOf(w, k) \in Log
BY HeldType DEF LogOf, Log, Account

LEMMA SetAccountType ==
    ASSUME NEW w \in World, NEW k \in Key, NEW a \in Account
    PROVE  /\ SetAccount(w, k, a) \in World
           /\ SetAccount(w, k, a).ids = w.ids
           /\ SetAccount(w, k, a).scripts = w.scripts
           /\ SetAccount(w, k, a).acct[k] = a
           /\ \A x \in Key : x # k => SetAccount(w, k, a).acct[x] = w.acct[x]
<1> DEFINE acct == [w.acct EXCEPT ![k] = a]
<1>1. acct \in [Key -> Account \cup {None}] /\ acct[k] = a
      /\ \A x \in Key : x # k => acct[x] = w.acct[x]
  BY DEF World
<1>2. SetAccount(w, k, a) = [w EXCEPT !.acct = acct]
  BY DEF SetAccount, World
<1> HIDE DEF acct
<1> QED
  BY <1>1, <1>2 DEF World

LEMMA EraseAccountType ==
    ASSUME NEW w \in World, NEW k \in Key
    PROVE  /\ EraseAccount(w, k) \in World
           /\ EraseAccount(w, k).ids = w.ids
           /\ EraseAccount(w, k).scripts = w.scripts
           /\ EraseAccount(w, k).acct[k] = None
           /\ \A x \in Key : x # k => EraseAccount(w, k).acct[x] = w.acct[x]
<1> DEFINE acct == [w.acct EXCEPT ![k] = None]
<1>1. acct \in [Key -> Account \cup {None}] /\ acct[k] = None
      /\ \A x \in Key : x # k => acct[x] = w.acct[x]
  BY DEF World
<1>2. EraseAccount(w, k) = [w EXCEPT !.acct = acct]
  BY DEF EraseAccount, World
<1> HIDE DEF acct
<1> QED
  BY <1>1, <1>2 DEF World

(* The key of a registered id, or of a user, and its account. *)
LEMMA KeyOfType ==
    ASSUME NEW w \in World, NEW u \in Key
    PROVE  /\ KeyOf(w, u) \in Key \cup {None}
           /\ (Has(w, u) \/ u \in User) => KeyOf(w, u) \in Key
           /\ Has(w, u) => w.acct[KeyOf(w, u)] \in Account
<1>1. KeyOf(w, u) \in Key \cup {None} /\ (u \in User => KeyOf(w, u) = u)
  BY Ids DEF KeyOf, World, Key
<1>2. Has(w, u) => KeyOf(w, u) \in Key
  BY <1>1 DEF Has
<1> QED
  BY <1>1, <1>2, HeldType, Ids DEF Has

(* Whose roles a view knows: the account of a registered user is found by   *)
(* the id written in it, and nobody else has a public key.                  *)
Found(w) ==
    \A k \in Key : Held(w, k).pub =>
        /\ k \in User
        /\ w.acct[k].reg \in Id
        /\ w.ids[w.acct[k].reg] = k

(* w2 comes from w by moving money: no account gains a public key or an id. *)
KeepsRoles(w, w2) ==
    /\ w2.ids = w.ids
    /\ \A k \in Key : Held(w2, k).pub =>
          Held(w, k).pub /\ w2.acct[k].reg = w.acct[k].reg

LEMMA PublicIsThere ==
    ASSUME NEW w, NEW k \in Key, Held(w, k).pub
    PROVE  w.acct[k] # None /\ Held(w, k) = w.acct[k]
BY DEF Held, NewAccount

LEMMA RolesKeptTwice ==
    ASSUME NEW w, NEW w2, NEW w3, KeepsRoles(w, w2), KeepsRoles(w2, w3)
    PROVE  KeepsRoles(w, w3)
BY DEF KeepsRoles

LEMMA FoundKept ==
    ASSUME NEW w, NEW w2, Found(w), KeepsRoles(w, w2)
    PROVE  Found(w2)
BY DEF Found, KeepsRoles

LEMMA SetKeepsRoles ==
    ASSUME NEW w \in World, NEW k \in Key, NEW a \in Account,
           a.pub => Held(w, k).pub /\ a.reg = w.acct[k].reg
    PROVE  KeepsRoles(w, SetAccount(w, k, a))
<1> DEFINE w2 == SetAccount(w, k, a)
<1>1. /\ w2.ids = w.ids /\ w2.acct[k] = a
      /\ \A x \in Key : x # k => w2.acct[x] = w.acct[x]
  BY SetAccountType
<1> HIDE DEF w2
<1>2. ASSUME NEW x \in Key, Held(w2, x).pub
      PROVE  Held(w, x).pub /\ w2.acct[x].reg = w.acct[x].reg
  <2>1. CASE x = k
    BY <1>1, <1>2, <2>1, PublicIsThere
  <2>2. CASE x # k
    BY <1>1, <1>2, <2>2 DEF Held
  <2> QED
    BY <2>1, <2>2
<1> QED
  BY <1>1, <1>2 DEF KeepsRoles, w2

LEMMA EraseKeepsRoles ==
    ASSUME NEW w \in World, NEW k \in Key
    PROVE  KeepsRoles(w, EraseAccount(w, k))
<1> DEFINE w2 == EraseAccount(w, k)
<1>1. /\ w2.ids = w.ids /\ w2.acct[k] = None
      /\ \A x \in Key : x # k => w2.acct[x] = w.acct[x]
  BY EraseAccountType
<1> HIDE DEF w2
<1>2. ASSUME NEW x \in Key, Held(w2, x).pub
      PROVE  Held(w, x).pub /\ w2.acct[x].reg = w.acct[x].reg
  <2>1. x # k
    BY <1>1, <1>2, PublicIsThere
  <2> QED
    BY <1>1, <1>2, <2>1 DEF Held
<1> QED
  BY <1>1, <1>2 DEF KeepsRoles, w2

(* An account rewritten with what OperateAccount or an undo made of it. *)
LEMMA Rewritten ==
    ASSUME NEW w \in World, NEW k \in Key, NEW a \in Account, SameRole(a, Held(w, k))
    PROVE  KeepsRoles(w, SetAccount(w, k, a))
<1>1. a.pub => Held(w, k).pub /\ a.reg = w.acct[k].reg
  BY PublicIsThere DEF SameRole
<1> QED
  BY <1>1, SetKeepsRoles

LEMMA CreditType ==
    ASSUME NEW w \in World, NEW k \in Key, NEW v \in Nat, Height \in Nat
    PROVE  /\ Credit(w, k, v) \in World
           /\ Credit(w, k, v).scripts = w.scripts
           /\ Credit(w, k, v).acct[k] \in Account
           /\ KeepsRoles(w, Credit(w, k, v))
<1>1. Held(w, k) \in Account
  BY HeldType
<1> DEFINE a == Plus(Held(w, k), v, Height)
<1>2. a \in Account /\ SameRole(a, Held(w, k))
  BY <1>1, PlusType
<1>3. Credit(w, k, v) = SetAccount(w, k, a)
  BY DEF Credit
<1> HIDE DEF a
<1> QED
  BY <1>2, <1>3, SetAccountType, Rewritten

LEMMA DebitType ==
    ASSUME NEW w \in World, NEW k \in Key, w.acct[k] # None,
           NEW v \in Nat, v <= w.acct[k].value, Height \in Nat
    PROVE  /\ Debit(w, k, v) \in World
           /\ Debit(w, k, v).scripts = w.scripts
           /\ Debit(w, k, v).acct[k] \in Account
           /\ KeepsRoles(w, Debit(w, k, v))
<1>1. w.acct[k] \in Account /\ Held(w, k) = w.acct[k]
  BY HeldType DEF Held
<1> DEFINE a == Minus(w.acct[k], v, Height)
<1>2. a \in Account /\ SameRole(a, Held(w, k))
  BY <1>1, MinusType
<1>3. Debit(w, k, v) = SetAccount(w, k, a)
  BY DEF Debit
<1> HIDE DEF a
<1> QED
  BY <1>2, <1>3, SetAccountType, Rewritten

-----------------------------------------------------------------------------
(* Sequences of transactions and of blocks.                                *)

LEMMA AppendedTo ==
    ASSUME NEW S, NEW s \in Seq(S), NEW x \in S
    PROVE  /\ Append(s, x) \in Seq(S)
           /\ Len(s) \in Nat /\ Len(Append(s, x)) = Len(s) + 1
           /\ DOMAIN s = 1..Len(s) /\ DOMAIN Append(s, x) = 1..(Len(s) + 1)
           /\ \A i \in 1..Len(s) : Append(s, x)[i] = s[i]
           /\ Append(s, x)[Len(s) + 1] = x
BY AppendProperties, LenProperties

LEMMA FrontAndLast ==
    ASSUME NEW S, NEW s \in Seq(S), s # <<>>
    PROVE  /\ Front(s) \in Seq(S) /\ Last(s) \in S
           /\ Last(s) = s[Len(s)] /\ Len(s) \in Nat \ {0}
           /\ Len(Front(s)) = Len(s) - 1
           /\ DOMAIN s = 1..Len(s) /\ DOMAIN Front(s) = 1..(Len(s) - 1)
           /\ \A i \in 1..(Len(s) - 1) : Front(s)[i] = s[i]
<1> DEFINE n == Len(s)
           u == SubSeq(s, 1, n - 1)
<1>1. /\ n \in Nat \ {0} /\ n - 1 \in Int /\ \A i \in 1..n : s[i] \in S
      /\ DOMAIN s = 1..n
  BY EmptySeq, LenProperties, ElementOfSeq
<1>2. /\ u \in Seq(S)
      /\ Len(u) = IF 1 <= n - 1 THEN n - 1 - 1 + 1 ELSE 0
      /\ \A i \in 1..(n - 1 - 1 + 1) : u[i] = s[1 + i - 1]
  <2>1. \A i \in 1..(n - 1) : s[i] \in S
    BY <1>1
  <2> QED
    BY <1>1, <2>1, SubSeqProperties
<1>3. Front(s) = u /\ Last(s) = s[n]
  BY DEF Front, Last
<1> HIDE DEF n, u
<1>4. u \in Seq(S) /\ Len(u) = n - 1 /\ \A i \in 1..(n - 1) : u[i] = s[i]
  BY <1>1, <1>2
<1>5. s[n] \in S /\ DOMAIN u = 1..(n - 1)
  BY <1>1, <1>4, LenProperties
<1> QED
  BY <1>1, <1>3, <1>4, <1>5 DEF n

(* A transaction with the undo data its type needs. *)
Registering == {"register", "app"}
GoodEntry ==
    {e \in Entry :
        /\ e.logs # <<>>
        /\ e.fuel <= e.fee
        /\ e.type \in {"register", "app", "reward"} => e.id \in Id
        /\ e.type \in Registering => Len(e.logs) = 1 /\ e.logs[1].key = e.user
        /\ e.type = "register" => e.user \in User
        /\ e.type = "app" => e.user # e.id}

(* Whose key the id of a registration names. *)
Owner(e) == IF e.type = "app" THEN e.id ELSE e.user

HasReward(b) == \E i \in DOMAIN b : b[i].type = "reward"

LEMMA IdParts ==
    /\ \A id \in Id : id[1] \in Nat /\ id[2] \in Nat /\ id = <<id[1], id[2]>>
    /\ \A i, j : <<i, j>> \in Id => i \in Nat /\ j \in Nat
BY DEF Id

-----------------------------------------------------------------------------
(* The ids of a view are the registrations of the blocks it stands on.     *)

(* The ids of height h are those of the registrations of block b. *)
Own(ids, b, h) ==
    /\ \A n \in DOMAIN b : b[n].type \in Registering =>
          b[n].id = <<h, n>> /\ ids[<<h, n>>] = Owner(b[n])
    /\ \A id \in Id : id[1] = h /\ ids[id] # None =>
          id[2] \in DOMAIN b /\ b[id[2]].type \in Registering

Follows(ids, s) ==
    /\ \A i \in DOMAIN s : Own(ids, s[i], i)
    /\ \A id \in Id : ids[id] # None => id[1] \in 0..Len(s)

(* The same of blocks s and the transactions b of the next one. *)
FollowsWith(ids, s, b) ==
    /\ \A i \in DOMAIN s : Own(ids, s[i], i)
    /\ Own(ids, b, Len(s) + 1)
    /\ \A id \in Id : ids[id] # None => id[1] \in 0..(Len(s) + 1)

LEMMA OwnNothing ==
    ASSUME NEW ids, NEW h, \A id \in Id : ids[id] # None => id[1] # h
    PROVE  Own(ids, <<>>, h)
BY DEF Own

LEMMA OwnAppended ==
    ASSUME NEW ids, NEW h, NEW b \in Seq(GoodEntry), NEW e \in GoodEntry,
           e.type \notin Registering, Own(ids, b, h)
    PROVE  Own(ids, Append(b, e), h)
<1> DEFINE b2 == Append(b, e)
<1>1. /\ Len(b) \in Nat /\ DOMAIN b = 1..Len(b) /\ DOMAIN b2 = 1..(Len(b) + 1)
      /\ \A i \in 1..Len(b) : b2[i] = b[i]
      /\ b2[Len(b) + 1] = e
  BY AppendedTo
<1> HIDE DEF b2
<1>2. ASSUME NEW n \in DOMAIN b2, b2[n].type \in Registering
      PROVE  b2[n].id = <<h, n>> /\ ids[<<h, n>>] = Owner(b2[n])
  <2>1. n \in DOMAIN b /\ b2[n] = b[n]
    BY <1>1, <1>2
  <2> QED
    BY <1>2, <2>1 DEF Own
<1>3. ASSUME NEW id \in Id, id[1] = h, ids[id] # None
      PROVE  id[2] \in DOMAIN b2 /\ b2[id[2]].type \in Registering
  BY <1>1, <1>3 DEF Own
<1> QED
  BY <1>2, <1>3 DEF Own, b2

LEMMA OwnRegistered ==
    ASSUME NEW ids \in [Id -> Key \cup {None}], NEW h,
           NEW b \in Seq(GoodEntry), NEW e \in GoodEntry,
           e.id = <<h, Len(b) + 1>>, e.id \in Id, Own(ids, b, h)
    PROVE  e.type \in Registering => Own([ids EXCEPT ![e.id] = Owner(e)], Append(b, e), h)
<1> SUFFICES ASSUME e.type \in Registering
             PROVE  Own([ids EXCEPT ![e.id] = Owner(e)], Append(b, e), h)
  OBVIOUS
<1> DEFINE b2 == Append(b, e)
           ids2 == [ids EXCEPT ![e.id] = Owner(e)]
<1>1. /\ Len(b) \in Nat /\ DOMAIN b = 1..Len(b) /\ DOMAIN b2 = 1..(Len(b) + 1)
      /\ \A i \in 1..Len(b) : b2[i] = b[i] /\ b[i] \in GoodEntry
      /\ b2[Len(b) + 1] = e
  BY AppendedTo, ElementOfSeq
<1>2. /\ ids2[e.id] = Owner(e)
      /\ \A id \in Id : id # e.id => ids2[id] = ids[id]
  OBVIOUS
<1> HIDE DEF b2, ids2
<1>3. ASSUME NEW n \in DOMAIN b2, b2[n].type \in Registering
      PROVE  b2[n].id = <<h, n>> /\ ids2[<<h, n>>] = Owner(b2[n])
  <2>1. CASE n = Len(b) + 1
    BY <1>1, <1>2, <2>1
  <2>2. CASE n # Len(b) + 1
    <3>1. n \in DOMAIN b /\ b2[n] = b[n] /\ b[n] \in GoodEntry
      BY <1>1, <2>2
    <3>2. b[n].id = <<h, n>> /\ ids[<<h, n>>] = Owner(b[n])
      BY <1>3, <3>1 DEF Own
    <3>3. <<h, n>> \in Id
      BY <1>3, <3>1, <3>2 DEF GoodEntry, Registering
    <3>4. <<h, n>> # e.id
      BY <2>2
    <3> QED
      BY <1>2, <3>1, <3>2, <3>3, <3>4
  <2> QED
    BY <2>1, <2>2
<1>4. ASSUME NEW id \in Id, id[1] = h, ids2[id] # None
      PROVE  id[2] \in DOMAIN b2 /\ b2[id[2]].type \in Registering
  <2>1. CASE id = e.id
    BY <1>1, <2>1
  <2>2. CASE id # e.id
    BY <1>1, <1>2, <1>4, <2>2 DEF Own
  <2> QED
    BY <2>1, <2>2
<1> QED
  BY <1>3, <1>4 DEF Own, b2, ids2

(* Writing an id of height h leaves those of another height alone. *)
LEMMA OwnElsewhere ==
    ASSUME NEW ids \in [Id -> Key \cup {None}], NEW i,
           NEW b \in Seq(GoodEntry), NEW id \in Id, NEW k,
           id[1] # i, Own(ids, b, i)
    PROVE  Own([ids EXCEPT ![id] = k], b, i)
<1> DEFINE ids2 == [ids EXCEPT ![id] = k]
<1>1. \A x \in Id : x # id => ids2[x] = ids[x]
  OBVIOUS
<1> HIDE DEF ids2
<1>2. ASSUME NEW n \in DOMAIN b, b[n].type \in Registering
      PROVE  b[n].id = <<i, n>> /\ ids2[<<i, n>>] = Owner(b[n])
  <2>1. b[n].id = <<i, n>> /\ ids[<<i, n>>] = Owner(b[n])
    BY <1>2 DEF Own
  <2>2. <<i, n>> \in Id
    <3>1. b[n] \in GoodEntry
      BY LenProperties, ElementOfSeq
    <3> QED
      BY <1>2, <2>1, <3>1 DEF GoodEntry, Registering
  <2>3. <<i, n>> # id
    OBVIOUS
  <2> QED
    BY <1>1, <2>1, <2>2, <2>3
<1>3. ASSUME NEW x \in Id, x[1] = i, ids2[x] # None
      PROVE  x[2] \in DOMAIN b /\ b[x[2]].type \in Registering
  BY <1>1, <1>3 DEF Own
<1> QED
  BY <1>2, <1>3 DEF Own, ids2

(* UndoExecuteTx takes back the last transaction: one that registers        *)
(* nothing, or one whose id is erased.                                      *)
LEMMA OwnUndone ==
    ASSUME NEW ids, NEW h, NEW b \in Seq(GoodEntry), b # <<>>,
           Last(b).type \notin Registering, Own(ids, b, h)
    PROVE  Own(ids, Front(b), h)
<1> DEFINE c == Front(b)
<1>1. /\ Len(b) \in Nat \ {0} /\ DOMAIN b = 1..Len(b) /\ DOMAIN c = 1..(Len(b) - 1)
      /\ \A i \in 1..(Len(b) - 1) : c[i] = b[i]
      /\ b[Len(b)].type \notin Registering
  BY FrontAndLast
<1> HIDE DEF c
<1>2. ASSUME NEW n \in DOMAIN c, c[n].type \in Registering
      PROVE  c[n].id = <<h, n>> /\ ids[<<h, n>>] = Owner(c[n])
  <2>1. n \in DOMAIN b /\ c[n] = b[n]
    BY <1>1
  <2> QED
    BY <1>2, <2>1 DEF Own
<1>3. ASSUME NEW id \in Id, id[1] = h, ids[id] # None
      PROVE  id[2] \in DOMAIN c /\ c[id[2]].type \in Registering
  <2>1. id[2] \in DOMAIN b /\ b[id[2]].type \in Registering
    BY <1>3 DEF Own
  <2>2. id[2] # Len(b)
    BY <1>1, <2>1
  <2> QED
    BY <1>1, <2>1, <2>2
<1> QED
  BY <1>2, <1>3 DEF Own, c

LEMMA OwnUnregistered ==
    ASSUME NEW ids \in [Id -> Key \cup {None}], NEW h,
           NEW b \in Seq(GoodEntry), b # <<>>, Own(ids, b, h)
    PROVE  Last(b).type \in Registering =>
              Own([ids EXCEPT ![Last(b).id] = None], Front(b), h)
<1> SUFFICES ASSUME Last(b).type \in Registering
             PROVE  Own([ids EXCEPT ![Last(b).id] = None], Front(b), h)
  OBVIOUS
<1> DEFINE c == Front(b)
           e == Last(b)
           ids2 == [ids EXCEPT ![e.id] = None]
<1>1. /\ Len(b) \in Nat \ {0} /\ DOMAIN b = 1..Len(b) /\ DOMAIN c = 1..(Len(b) - 1)
      /\ \A i \in 1..(Len(b) - 1) : c[i] = b[i] /\ b[i] \in GoodEntry
      /\ b[Len(b)] = e /\ e \in GoodEntry
  BY FrontAndLast, ElementOfSeq
<1>2. e.type \in Registering /\ e.id \in Id
  BY <1>1 DEF GoodEntry, Registering
<1>3. e.id = <<h, Len(b)>>
  <2>1. Len(b) \in DOMAIN b /\ b[Len(b)].type \in Registering
    BY <1>1, <1>2
  <2> HIDE DEF e
  <2> QED
    BY <1>1, <2>1 DEF Own
<1>4. /\ ids2[e.id] = None
      /\ \A id \in Id : id # e.id => ids2[id] = ids[id]
  BY <1>2
<1> HIDE DEF c, e, ids2
<1>5. ASSUME NEW n \in DOMAIN c, c[n].type \in Registering
      PROVE  c[n].id = <<h, n>> /\ ids2[<<h, n>>] = Owner(c[n])
  <2>1. n \in DOMAIN b /\ n # Len(b) /\ c[n] = b[n] /\ b[n] \in GoodEntry
    BY <1>1
  <2>2. b[n].id = <<h, n>> /\ ids[<<h, n>>] = Owner(b[n])
    BY <1>5, <2>1 DEF Own
  <2>3. <<h, n>> \in Id
    BY <1>5, <2>1, <2>2 DEF GoodEntry, Registering
  <2>4. <<h, n>> # e.id
    BY <1>3, <2>1
  <2> QED
    BY <1>4, <2>1, <2>2, <2>3, <2>4
<1>6. ASSUME NEW id \in Id, id[1] = h, ids2[id] # None
      PROVE  id[2] \in DOMAIN c /\ c[id[2]].type \in Registering
  <2>1. id # e.id /\ ids[id] # None
    BY <1>4, <1>6
  <2>2. id[2] \in DOMAIN b /\ b[id[2]].type \in Registering
    BY <1>6, <2>1 DEF Own
  <2>3. id[2] # Len(b)
    BY <1>3, <1>6, <2>1, IdParts
  <2> QED
    BY <1>1, <2>2, <2>3
<1> QED
  BY <1>5, <1>6 DEF Own, c, e, ids2

(* CBaseTransaction::UndoExecuteTx drops a log of the last transaction. *)
LEMMA OwnSameIds ==
    ASSUME NEW ids, NEW h, NEW b, NEW c, DOMAIN c = DOMAIN b,
           \A n \in DOMAIN b : c[n].type = b[n].type /\ c[n].id = b[n].id
                               /\ Owner(c[n]) = Owner(b[n]),
           Own(ids, b, h)
    PROVE  Own(ids, c, h)
BY DEF Own

LEMMA BeginsWithNothing ==
    ASSUME NEW ids, NEW S, NEW s \in Seq(S), Follows(ids, s)
    PROVE  FollowsWith(ids, s, <<>>)
<1>1. Len(s) \in Nat /\ \A id \in Id : ids[id] # None => id[1] \in 0..Len(s)
  BY LenProperties DEF Follows
<1>2. Own(ids, <<>>, Len(s) + 1)
  BY <1>1, OwnNothing
<1>3. \A id \in Id : ids[id] # None => id[1] \in 0..(Len(s) + 1)
  BY <1>1
<1> QED
  BY <1>2, <1>3 DEF Follows, FollowsWith

LEMMA EndsWithNothing ==
    ASSUME NEW ids, NEW S, NEW s \in Seq(S), FollowsWith(ids, s, <<>>)
    PROVE  Follows(ids, s)
<1>1. Len(s) \in Nat
  BY LenProperties
<1>2. ASSUME NEW id \in Id, ids[id] # None
      PROVE  id[1] \in 0..Len(s)
  <2>1. id[1] \in 0..(Len(s) + 1) /\ Own(ids, <<>>, Len(s) + 1)
    BY <1>2 DEF FollowsWith
  <2>2. id[1] # Len(s) + 1
    BY <1>2, <2>1 DEF Own
  <2> QED
    BY <1>1, <2>1, <2>2
<1> QED
  BY <1>2 DEF Follows, FollowsWith

LEMMA BlockJoins ==
    ASSUME NEW ids, NEW S, NEW s \in Seq(S), NEW b \in S, FollowsWith(ids, s, b)
    PROVE  Follows(ids, Append(s, b))
<1> DEFINE s2 == Append(s, b)
<1>1. /\ Len(s) \in Nat /\ Len(s2) = Len(s) + 1
      /\ DOMAIN s = 1..Len(s) /\ DOMAIN s2 = 1..(Len(s) + 1)
      /\ \A i \in 1..Len(s) : s2[i] = s[i]
      /\ s2[Len(s) + 1] = b
  BY AppendedTo
<1> HIDE DEF s2
<1>2. ASSUME NEW i \in DOMAIN s2 PROVE Own(ids, s2[i], i)
  <2>1. CASE i = Len(s) + 1
    BY <1>1, <2>1 DEF FollowsWith
  <2>2. CASE i # Len(s) + 1
    <3>1. i \in DOMAIN s /\ s2[i] = s[i]
      BY <1>1, <2>2
    <3> QED
      BY <3>1 DEF FollowsWith
  <2> QED
    BY <2>1, <2>2
<1> QED
  BY <1>1, <1>2 DEF Follows, FollowsWith, s2

LEMMA BlockLeaves ==
    ASSUME NEW ids, NEW S, NEW s \in Seq(S), s # <<>>, Follows(ids, s)
    PROVE  FollowsWith(ids, Front(s), Last(s))
<1> DEFINE s2 == Front(s)
<1>1. /\ Len(s) \in Nat \ {0} /\ Len(s2) = Len(s) - 1 /\ Last(s) = s[Len(s)]
      /\ DOMAIN s = 1..Len(s) /\ DOMAIN s2 = 1..(Len(s) - 1)
      /\ \A i \in 1..(Len(s) - 1) : s2[i] = s[i]
  BY FrontAndLast
<1> HIDE DEF s2
<1>2. ASSUME NEW i \in DOMAIN s2 PROVE Own(ids, s2[i], i)
  BY <1>1 DEF Follows
<1>3. Own(ids, Last(s), Len(s2) + 1)
  <2>1. Len(s2) + 1 = Len(s) /\ Len(s) \in DOMAIN s
    BY <1>1
  <2> QED
    BY <1>1, <2>1 DEF Follows
<1>4. \A id \in Id : ids[id] # None => id[1] \in 0..(Len(s2) + 1)
  BY <1>1 DEF Follows
<1> QED
  BY <1>2, <1>3, <1>4 DEF FollowsWith, s2

LEMMA WithAppended ==
    ASSUME NEW ids, NEW s, NEW b \in Seq(GoodEntry), NEW e \in GoodEntry,
           e.type \notin Registering, FollowsWith(ids, s, b)
    PROVE  FollowsWith(ids, s, Append(b, e))
BY OwnAppended DEF FollowsWith

LEMMA WithUndone ==
    ASSUME NEW ids, NEW s, NEW b \in Seq(GoodEntry), b # <<>>,
           Last(b).type \notin Registering, FollowsWith(ids, s, b)
    PROVE  FollowsWith(ids, s, Front(b))
BY OwnUndone DEF FollowsWith

(* The next id of the block is free, and goes to its owner. *)
LEMMA WithRegistered ==
    ASSUME NEW ids \in [Id -> Key \cup {None}], NEW s \in Seq(Seq(GoodEntry)),
           NEW b \in Seq(GoodEntry), NEW e \in GoodEntry, e.type \in Registering,
           e.id = <<Len(s) + 1, Len(b) + 1>>, FollowsWith(ids, s, b)
    PROVE  /\ e.id \in Id /\ Owner(e) \in Key
           /\ ids[e.id] = None
           /\ FollowsWith([ids EXCEPT ![e.id] = Owner(e)], s, Append(b, e))
<1> DEFINE ids2 == [ids EXCEPT ![e.id] = Owner(e)]
           h == Len(s) + 1
<1>1. /\ e.id \in Id /\ e.id[1] = h /\ e.id[2] = Len(b) + 1 /\ Owner(e) \in Key
      /\ Len(s) \in Nat /\ DOMAIN s = 1..Len(s)
      /\ Len(b) \in Nat /\ DOMAIN b = 1..Len(b)
      /\ \A i \in DOMAIN s : s[i] \in Seq(GoodEntry)
  <2>1. e.id \in Id /\ Owner(e) \in Key
    BY Ids DEF GoodEntry, Registering, Owner, Entry
  <2>2. Len(s) \in Nat /\ DOMAIN s = 1..Len(s) /\ Len(b) \in Nat /\ DOMAIN b = 1..Len(b)
    BY LenProperties
  <2>3. \A i \in DOMAIN s : s[i] \in Seq(GoodEntry)
    BY <2>2, ElementOfSeq
  <2> QED
    BY <2>1, <2>2, <2>3
<1>2. ids[e.id] = None
  <2>1. Own(ids, b, h)
    BY DEF FollowsWith
  <2>2. e.id[2] \notin DOMAIN b
    BY <1>1
  <2> HIDE DEF h
  <2> QED
    BY <1>1, <2>1, <2>2 DEF Own
<1>3. ASSUME NEW i \in DOMAIN s PROVE Own(ids2, s[i], i)
  <2>1. Own(ids, s[i], i) /\ e.id[1] # i /\ s[i] \in Seq(GoodEntry)
    BY <1>1 DEF FollowsWith
  <2> QED
    BY <1>1, <2>1, OwnElsewhere
<1>4. Own(ids2, Append(b, e), h)
  <2>1. Own(ids, b, h)
    BY DEF FollowsWith
  <2> QED
    BY <1>1, <2>1, OwnRegistered
<1>5. ASSUME NEW id \in Id, ids2[id] # None PROVE id[1] \in 0..(Len(s) + 1)
  <2>1. CASE id = e.id
    BY <1>1, <2>1
  <2>2. CASE id # e.id
    BY <1>5, <2>2 DEF FollowsWith
  <2> QED
    BY <2>1, <2>2
<1> HIDE DEF ids2
<1>6. FollowsWith(ids2, s, Append(b, e))
  BY <1>3, <1>4, <1>5 DEF FollowsWith
<1> QED
  BY <1>1, <1>2, <1>6 DEF ids2

(* A registration undone frees the id of its owner. *)
LEMMA WithUnregistered ==
    ASSUME NEW ids \in [Id -> Key \cup {None}], NEW s \in Seq(Seq(GoodEntry)),
           NEW b \in Seq(GoodEntry), b # <<>>, Last(b).type \in Registering,
           FollowsWith(ids, s, b)
    PROVE  /\ Last(b) \in GoodEntry /\ Last(b).id \in Id
           /\ ids[Last(b).id] = Owner(Last(b))
           /\ FollowsWith([ids EXCEPT ![Last(b).id] = None], s, Front(b))
<1> DEFINE e == Last(b)
           ids2 == [ids EXCEPT ![e.id] = None]
           h == Len(s) + 1
<1>1. /\ e \in GoodEntry /\ e.id \in Id
      /\ Len(s) \in Nat /\ DOMAIN s = 1..Len(s)
      /\ Len(b) \in DOMAIN b /\ b[Len(b)] = e
      /\ \A i \in DOMAIN s : s[i] \in Seq(GoodEntry)
  <2>1. e \in GoodEntry /\ Len(b) \in DOMAIN b /\ b[Len(b)] = e
    BY FrontAndLast
  <2>2. e.id \in Id
    BY <2>1 DEF GoodEntry, Registering
  <2>3. Len(s) \in Nat /\ DOMAIN s = 1..Len(s)
    BY LenProperties
  <2>4. \A i \in DOMAIN s : s[i] \in Seq(GoodEntry)
    BY <2>3, ElementOfSeq
  <2> QED
    BY <2>1, <2>2, <2>3, <2>4
<1>2. e.id = <<h, Len(b)>> /\ ids[e.id] = Owner(e)
  <2>1. Own(ids, b, h) /\ e.type \in Registering
    BY DEF FollowsWith
  <2> HIDE DEF e, h
  <2> QED
    BY <1>1, <2>1 DEF Own
<1>3. ASSUME NEW i \in DOMAIN s PROVE Own(ids2, s[i], i)
  <2>1. Own(ids, s[i], i) /\ e.id[1] # i /\ s[i] \in Seq(GoodEntry)
    BY <1>1, <1>2 DEF FollowsWith
  <2> QED
    BY <1>1, <2>1, OwnElsewhere
<1>4. Own(ids2, Front(b), h)
  <2>1. Own(ids, b, h)
    BY DEF FollowsWith
  <2> QED
    BY <2>1, OwnUnregistered
<1>5. ASSUME NEW id \in Id, ids2[id] # None PROVE id[1] \in 0..(Len(s) + 1)
  <2>1. id # e.id /\ ids[id] # None
    BY <1>5
  <2> QED
    BY <2>1 DEF FollowsWith
<1> HIDE DEF ids2
<1>6. FollowsWith(ids2, s, Front(b))
  BY <1>3, <1>4, <1>5 DEF FollowsWith
<1> QED
  BY <1>1, <1>2, <1>6 DEF ids2

-----------------------------------------------------------------------------
(* The reward that ConnectBlock demands is never negative. *)

LEMMA RewardType ==
    ASSUME NEW b \in Seq(GoodEntry)
    PROVE  RewardValue(b) \in Nat
<1> DEFINE f == [i \in DOMAIN b |-> b[i].fee - b[i].fuel]
<1>1. IsFiniteSet(DOMAIN b)
  BY LenProperties, FS_Interval
<1>2. \A i \in DOMAIN b : f[i] \in Nat
  <2> SUFFICES ASSUME NEW i \in DOMAIN b PROVE b[i].fee - b[i].fuel \in Nat
    OBVIOUS
  <2>1. b[i] \in GoodEntry
    BY LenProperties, ElementOfSeq
  <2>2. /\ b[i].fee \in Nat /\ b[i].fuel \in Nat /\ b[i].fuel <= b[i].fee
    BY <2>1 DEF GoodEntry, Entry
  <2> QED
    BY <2>2
<1>3. SumFunction(f) \in Nat
  <2>1. DOMAIN f = DOMAIN b /\ 0 \in Nat /\ \A x, y \in Nat : x + y \in Nat
    OBVIOUS
  <2> HIDE DEF f
  <2> QED
    BY <1>1, <1>2, <2>1, SumType DEF SumFunction
<1>4. RewardValue(b) = PosReward + SumFunction(f)
  BY DEF RewardValue
<1> HIDE DEF f
<1> QED
  BY <1>3, <1>4, Numbers

-----------------------------------------------------------------------------
(* The inductive invariant.                                                *)

(* The blocks below the one that is being connected or disconnected. *)
Base == IF mode = "undo" THEN Front(chain) ELSE chain

Stages ==
    /\ mode = "idle" => view = tip /\ block = <<>>
    /\ mode \in {"connect", "rewarded"} => Len(chain) < MaxHeight
    /\ mode = "rewarded" => HasReward(block)
    /\ mode = "undo" => chain # <<>>

LedgerInv ==
    /\ TypeOK
    /\ chain \in Seq(Seq(GoodEntry)) /\ block \in Seq(GoodEntry)
    /\ \A i \in DOMAIN chain : HasReward(chain[i])
    /\ Stages
    /\ Found(tip) /\ Follows(tip.ids, chain)
    /\ Found(view)
    /\ mode # "idle" => FollowsWith(view.ids, Base, block)

LEMMA Heights ==
    ASSUME LedgerInv
    PROVE  /\ Len(chain) \in Nat /\ Len(block) \in Nat
           /\ Height \in Nat /\ Height = Len(chain) + 1
           /\ view \in World /\ tip \in World
BY LenProperties DEF LedgerInv, TypeOK, Height

(* The genesis block gives its accounts the ids of its reward transactions. *)
LEMMA GenesisIsWorld ==
    GenesisWorld \in World /\ Found(GenesisWorld) /\ Follows(GenesisWorld.ids, <<>>)
<1> DEFINE w == GenesisWorld
<1>1. Genesis \in Seq([key : User, value : Nat]) /\ Len(Genesis) \in Nat
      /\ DOMAIN Genesis = 1..Len(Genesis)
      /\ \A i \in DOMAIN Genesis : Genesis[i].key \in User /\ Genesis[i].value \in Nat
  <2>1. \A i \in 1..Len(Genesis) : Genesis[i] \in [key : User, value : Nat]
    BY LedgerGenesis, ElementOfSeq
  <2> QED
    BY <2>1, LedgerGenesis, LenProperties
<1>2. \A i \in DOMAIN Genesis : <<0, i>> \in Id
  <2>1. \A i \in DOMAIN Genesis : i \in 0..(MaxTxs + Len(Genesis)) /\ 0 \in 0..MaxHeight
    BY <1>1, Numbers
  <2> QED
    BY <2>1 DEF Id
<1> DEFINE place(k) == CHOOSE i \in DOMAIN Genesis : Genesis[i].key = k
           rich(k) == \E i \in DOMAIN Genesis : Genesis[i].key = k
<1>3. \A k \in Key : rich(k) =>
          /\ place(k) \in DOMAIN Genesis /\ Genesis[place(k)].key = k
          /\ w.acct[k] = [NewAccount EXCEPT !.value = Genesis[place(k)].value,
                                            !.pub = TRUE, !.reg = <<0, place(k)>>]
  BY DEF GenesisWorld
<1>4. \A k \in Key : ~rich(k) => w.acct[k] = None
  BY DEF GenesisWorld
<1>5. /\ w.ids = [id \in Id |-> IF id[1] = 0 /\ id[2] \in DOMAIN Genesis
                                THEN Genesis[id[2]].key ELSE None]
      /\ w.scripts = {}
      /\ w = [acct |-> w.acct, ids |-> w.ids, scripts |-> w.scripts]
      /\ \E a : w.acct = [k \in Key |-> a[k]]
  <2>1. w.acct = [k \in Key |-> w.acct[k]]
    BY DEF GenesisWorld
  <2> QED
    BY <2>1 DEF GenesisWorld
<1> HIDE DEF w, place, rich
<1>6. \A k \in Key : rich(k) =>
          /\ w.acct[k] \in Account /\ w.acct[k].reg = <<0, place(k)>>
          /\ <<0, place(k)>> \in Id
          /\ k \in User
  <2>1. \A k \in Key : rich(k) => Genesis[place(k)].value \in Nat /\ <<0, place(k)>> \in Id
                                  /\ k \in User
    BY <1>1, <1>2, <1>3
  <2>2. \A v \in Nat, id \in Id :
            LET a == [NewAccount EXCEPT !.value = v, !.pub = TRUE, !.reg = id]
            IN  a \in Account /\ a.reg = id
    BY DEF NewAccount, Account
  <2>3. ASSUME NEW k \in Key, rich(k)
        PROVE  w.acct[k] \in Account /\ w.acct[k].reg = <<0, place(k)>>
    <3> DEFINE v == Genesis[place(k)].value
               id == <<0, place(k)>>
    <3>1. v \in Nat /\ id \in Id
      BY <2>1, <2>3
    <3>2. w.acct[k] = [NewAccount EXCEPT !.value = v, !.pub = TRUE, !.reg = id]
      BY <1>3, <2>3
    <3> HIDE DEF v, id
    <3> QED
      BY <2>2, <3>1, <3>2 DEF id
  <2> QED
    BY <2>1, <2>3
<1>7. w \in World
  <2>1. \A k \in Key : w.acct[k] \in Account \cup {None}
    BY <1>4, <1>6
  <2>2. w.acct \in [Key -> Account \cup {None}]
    BY <1>5, <2>1
  <2>3. w.ids \in [Id -> Key \cup {None}]
    BY <1>1, <1>5, Ids
  <2> QED
    BY <1>5, <2>2, <2>3 DEF World
<1>8. Found(w)
  <2> SUFFICES ASSUME NEW k \in Key, Held(w, k).pub
               PROVE  k \in User /\ w.acct[k].reg \in Id /\ w.ids[w.acct[k].reg] = k
    BY DEF Found
  <2>1. w.acct[k] # None
    BY PublicIsThere
  <2>2. rich(k)
    BY <1>4, <2>1
  <2>3. w.acct[k].reg = <<0, place(k)>> /\ <<0, place(k)>> \in Id
        /\ place(k) \in DOMAIN Genesis /\ Genesis[place(k)].key = k /\ k \in User
    BY <1>3, <1>6, <2>2
  <2> QED
    BY <1>5, <2>3
<1>9. Follows(w.ids, <<>>)
  BY <1>5, Numbers DEF Follows
<1> QED
  BY <1>7, <1>8, <1>9 DEF w

LEMMA LedgerInit == Init => LedgerInv
BY GenesisIsWorld DEF Init, LedgerInv, TypeOK, Stages

(* A transaction of the block executed. *)
LEMMA ExecutedKeeps ==
    ASSUME LedgerInv, mode \in {"connect"}, NEW w \in World, NEW e \in GoodEntry,
           Executed(w, e), Found(w), FollowsWith(w.ids, chain, Append(block, e))
    PROVE  LedgerInv'
<1>1. /\ view' = w /\ block' = Append(block, e)
      /\ tip' = tip /\ chain' = chain /\ before' = before /\ mode' = mode
  BY DEF Executed
<1>2. Append(block, e) \in Seq(GoodEntry) /\ Append(block, e) \in Seq(Entry)
  <2>1. e \in Entry
    BY DEF GoodEntry
  <2> QED
    BY <2>1, AppendedTo DEF LedgerInv, TypeOK
<1>3. Base' = chain
  BY <1>1 DEF Base
<1>4. TypeOK'
  BY <1>1, <1>2 DEF LedgerInv, TypeOK
<1>5. Stages'
  BY <1>1 DEF LedgerInv, Stages
<1> QED
  BY <1>1, <1>2, <1>3, <1>4, <1>5 DEF LedgerInv

(* One that only moves money. *)
LEMMA MoneyMoves ==
    ASSUME LedgerInv, mode \in {"connect"}, NEW w \in World, NEW e \in GoodEntry,
           e.type \notin Registering, Executed(w, e), KeepsRoles(view, w)
    PROVE  LedgerInv'
<1>1. Found(w) /\ w.ids = view.ids
  BY FoundKept DEF LedgerInv, KeepsRoles
<1>2. FollowsWith(view.ids, chain, block) /\ block \in Seq(GoodEntry)
  BY DEF LedgerInv, Base
<1>3. FollowsWith(w.ids, chain, Append(block, e))
  BY <1>1, <1>2, WithAppended
<1> QED
  BY <1>1, <1>3, ExecutedKeeps

(* The sender of a transaction. *)
LEMMA SenderCanPay ==
    ASSUME LedgerInv, NEW src \in Registered, NEW v \in Nat, MaySend(src, v)
    PROVE  /\ view.ids[src] \in Key /\ view.acct[view.ids[src]] \in Account
           /\ view.acct[view.ids[src]].pub
           /\ v <= view.acct[view.ids[src]].value
<1>1. src \in Id /\ src \in Key /\ view \in World
  BY Ids, Heights DEF Registered
<1>2. KeyOf(view, src) = view.ids[src] /\ Has(view, src)
  BY <1>1 DEF KeyOf, MaySend
<1>3. view.ids[src] \in Key /\ view.acct[view.ids[src]] \in Account
  BY <1>1, <1>2, KeyOfType
<1> QED
  BY <1>2, <1>3 DEF MaySend, AccountOf, Affordable

LEMMA TransferKeeps ==
    ASSUME LedgerInv, mode = "connect",
           NEW src \in Registered, NEW des \in User \cup Registered,
           NEW v \in Amount, NEW fee \in Fee, Transfer(src, des, v, fee)
    PROVE  LedgerInv'
<1> DEFINE from == view.ids[src]
           w == Debit(view, from, v + fee)
           to == KeyOf(w, des)
           w2 == Credit(w, to, v)
           e == [type |-> "common", id |-> None, user |-> from, fee |-> fee,
                 fuel |-> 0, logs |-> <<LogOf(view, from), LogOf(w, to)>>]
<1>1. v \in Nat /\ fee \in Nat /\ v + fee \in Nat
  BY Numbers
<1>2. /\ MaySend(src, v + fee)
      /\ Has(w, des) \/ des \in User
      /\ Executed(w2, e)
  BY DEF Transfer
<1> HIDE DEF w2, e, to
<1>3. /\ from \in Key /\ view.acct[from] \in Account /\ view.acct[from] # None
      /\ v + fee <= view.acct[from].value
  BY <1>1, <1>2, SenderCanPay, Ids
<1>4. view \in World /\ Height \in Nat
  BY Heights
<1>5. w \in World /\ KeepsRoles(view, w)
  BY <1>1, <1>3, <1>4, DebitType
<1> HIDE DEF w, from
<1>6. to \in Key
  <2>1. des \in Key
    BY Ids DEF Registered
  <2> QED
    BY <1>2, <1>5, <2>1, KeyOfType DEF to
<1>7. w2 \in World /\ KeepsRoles(w, w2)
  BY <1>1, <1>4, <1>5, <1>6, CreditType DEF w2
<1>8. KeepsRoles(view, w2)
  BY <1>5, <1>7, RolesKeptTwice
<1>9. e \in GoodEntry /\ e.type \notin Registering
  <2>1. LogOf(view, from) \in Log /\ LogOf(w, to) \in Log
    BY <1>3, <1>4, <1>5, <1>6, LogOfType
  <2> DEFINE all == <<LogOf(view, from), LogOf(w, to)>>
  <2>2. all \in Seq(Log) /\ all # <<>>
    BY <2>1
  <2>3. e = [type |-> "common", id |-> None, user |-> from, fee |-> fee,
             fuel |-> 0, logs |-> all]
    BY DEF e
  <2> HIDE DEF all
  <2> QED
    BY <1>1, <1>3, <2>2, <2>3 DEF GoodEntry, Entry, Registering
<1> QED
  BY <1>2, <1>7, <1>8, <1>9, MoneyMoves

LEMMA ContractKeeps ==
    ASSUME LedgerInv, mode = "connect",
           NEW src \in Registered, NEW app \in view.scripts,
           NEW to \in User \cup Registered \cup {None},
           NEW v \in Amount, NEW pay \in Amount, NEW fee \in Fee, NEW fuel \in Fee,
           Contract(src, app, v, fee, fuel, to, pay)
    PROVE  LedgerInv'
<1> DEFINE from == view.ids[src]
           owner == view.ids[app]
           w1 == Debit(view, from, v + fee)
           w2 == Credit(w1, owner, v)
           w3 == Debit(w2, owner, pay)
           k == KeyOf(view, to)
           w4 == Credit(w3, k, pay)
           l1 == LogOf(view, from)
           l2 == LogOf(w1, owner)
           l3 == LogOf(w2, owner)
           l4 == LogOf(w3, k)
           entry(logs) == [type |-> "contract", id |-> None, user |-> from, fee |-> fee,
                           fuel |-> fuel, logs |-> <<l1, l2>> \o logs]
<1>1. v \in Nat /\ pay \in Nat /\ fee \in Nat /\ fuel \in Nat /\ v + fee \in Nat
  BY Numbers
<1>2. /\ MaySend(src, v + fee)
      /\ Has(view, app)
      /\ fuel < fee
      /\ IF to = None
         THEN Executed(w2, entry(<<>>))
         ELSE /\ Affordable(w2.acct[owner], pay)
              /\ Has(view, to) \/ to \in User
              /\ Executed(w4, entry(<<l3, l4>>))
  BY DEF Contract
<1> HIDE DEF l1, l2, l3, l4, w4, w3, w2, k, entry
<1>3. view \in World /\ Height \in Nat
  BY Heights
<1>4. /\ from \in Key /\ view.acct[from] \in Account /\ view.acct[from] # None
      /\ v + fee <= view.acct[from].value
  BY <1>1, <1>2, SenderCanPay, Ids
<1>5. w1 \in World /\ KeepsRoles(view, w1)
  BY <1>1, <1>3, <1>4, DebitType
<1> HIDE DEF w1
<1>6. owner \in Key
  <2>1. app \in Id /\ app \in Key
    BY <1>3, Ids DEF World
  <2>2. KeyOf(view, app) = owner
    BY <2>1 DEF KeyOf
  <2> QED
    BY <1>2, <1>3, <2>1, <2>2, KeyOfType
<1> HIDE DEF from, owner
<1>7. w2 \in World /\ KeepsRoles(w1, w2) /\ w2.acct[owner] \in Account
  BY <1>1, <1>3, <1>5, <1>6, CreditType DEF w2
<1>8. KeepsRoles(view, w2)
  BY <1>5, <1>7, RolesKeptTwice
<1>9. l1 \in Log /\ l2 \in Log /\ l3 \in Log
  BY <1>3, <1>4, <1>5, <1>6, <1>7, LogOfType DEF l1, l2, l3
<1>10. \A logs \in Seq(Log) : entry(logs) \in GoodEntry /\ entry(logs).type \notin Registering
  <2> SUFFICES ASSUME NEW logs \in Seq(Log)
               PROVE  entry(logs) \in GoodEntry /\ entry(logs).type \notin Registering
    OBVIOUS
  <2> DEFINE all == <<l1, l2>> \o logs
  <2>1. <<l1, l2>> \in Seq(Log) /\ Len(<<l1, l2>>) = 2
    BY <1>9
  <2>2. all \in Seq(Log) /\ Len(all) = 2 + Len(logs) /\ Len(logs) \in Nat
    BY <2>1, ConcatProperties, LenProperties
  <2>3. all # <<>>
    BY <2>2
  <2>4. entry(logs) = [type |-> "contract", id |-> None, user |-> from, fee |-> fee,
                       fuel |-> fuel, logs |-> all]
    BY DEF entry
  <2> HIDE DEF all
  <2> QED
    BY <1>1, <1>2, <1>4, <2>2, <2>3, <2>4 DEF GoodEntry, Entry, Registering
<1>11. CASE to = None
  <2>1. Executed(w2, entry(<<>>)) /\ <<>> \in Seq(Log)
    BY <1>2, <1>11
  <2> QED
    BY <1>7, <1>8, <1>10, <2>1, MoneyMoves
<1>12. CASE to # None
  <2>1. /\ Affordable(w2.acct[owner], pay)
        /\ Has(view, to) \/ to \in User
        /\ Executed(w4, entry(<<l3, l4>>))
    BY <1>2, <1>12
  <2>2. w2.acct[owner] # None /\ pay <= w2.acct[owner].value
    BY <1>7, <2>1, Ids DEF Affordable
  <2>3. w3 \in World /\ KeepsRoles(w2, w3)
    BY <1>1, <1>3, <1>6, <1>7, <2>2, DebitType DEF w3
  <2>4. k \in Key
    <3>1. to \in Key
      BY <1>12, Ids DEF Registered
    <3> QED
      BY <1>3, <2>1, <3>1, KeyOfType DEF k
  <2>5. w4 \in World /\ KeepsRoles(w3, w4)
    BY <1>1, <1>3, <2>3, <2>4, CreditType DEF w4
  <2>6. KeepsRoles(view, w4)
    BY <1>8, <2>3, <2>5, RolesKeptTwice
  <2>7. <<l3, l4>> \in Seq(Log)
    BY <1>9, <2>3, <2>4, LogOfType DEF l4
  <2> QED
    BY <1>10, <2>1, <2>5, <2>6, <2>7, MoneyMoves
<1> QED
  BY <1>11, <1>12

(* CRegIDs are given in the order of the transactions. *)
LEMMA NextIdIsId ==
    ASSUME LedgerInv, mode = "connect", Len(block) < MaxTxs
    PROVE  NextId \in Id /\ NextId = <<Len(chain) + 1, Len(block) + 1>>
<1>1. /\ Len(chain) \in Nat /\ Len(block) \in Nat /\ Len(chain) < MaxHeight
      /\ Len(Genesis) \in Nat
  BY Heights, LedgerGenesis, LenProperties DEF LedgerInv, Stages
<1>2. NextId = <<Len(chain) + 1, Len(block) + 1>>
  BY DEF NextId, Height
<1>3. Len(chain) + 1 \in 0..MaxHeight /\ Len(block) + 1 \in 0..(MaxTxs + Len(Genesis))
  BY <1>1, Numbers
<1> QED
  BY <1>2, <1>3 DEF Id

LEMMA NewIdType ==
    ASSUME NEW w \in World, NEW id \in Id, NEW k \in Key \cup {None}
    PROVE  LET w2 == [w EXCEPT !.ids[id] = k] IN
           /\ w2 \in World /\ w2.acct = w.acct /\ w2.scripts = w.scripts
           /\ w2.ids = [w.ids EXCEPT ![id] = k]
<1> DEFINE ids == [w.ids EXCEPT ![id] = k]
<1>1. ids \in [Id -> Key \cup {None}]
  BY DEF World
<1>2. [w EXCEPT !.ids[id] = k] = [w EXCEPT !.ids = ids]
  BY DEF World
<1> HIDE DEF ids
<1>3. LET w2 == [w EXCEPT !.ids = ids] IN
      /\ w2 \in World /\ w2.acct = w.acct /\ w2.scripts = w.scripts
      /\ w2.ids = ids
  BY <1>1 DEF World
<1> QED
  BY <1>2, <1>3 DEF ids

(* w2 has one id more than w, for k, and the roles of all others. *)
OneIdMore(w, w2, id, k) ==
    /\ w.ids[id] = None /\ w2.ids[id] = k
    /\ \A i \in Id : i # id => w2.ids[i] = w.ids[i]
    /\ \A x \in Key : x # k /\ Held(w2, x).pub =>
          Held(w, x).pub /\ w2.acct[x].reg = w.acct[x].reg
    /\ Held(w2, k).pub => k \in User /\ w2.acct[k].reg = id

(* An id nobody had names an account that carries it, or one without a key. *)
LEMMA FoundWithNewId ==
    ASSUME NEW w \in World, NEW w2 \in World, NEW id \in Id, NEW k \in Key,
           Found(w), OneIdMore(w, w2, id, k)
    PROVE  Found(w2)
<1> SUFFICES ASSUME NEW x \in Key, Held(w2, x).pub
             PROVE  x \in User /\ w2.acct[x].reg \in Id /\ w2.ids[w2.acct[x].reg] = x
  BY DEF Found
<1>2. CASE x = k
  BY <1>2 DEF OneIdMore
<1>3. CASE x # k
  <2>1. x \in User /\ w.acct[x].reg \in Id /\ w.ids[w.acct[x].reg] = x
        /\ w2.acct[x].reg = w.acct[x].reg
    BY <1>3 DEF Found, OneIdMore
  <2>2. w.acct[x].reg # id
    BY <2>1, Ids DEF OneIdMore
  <2> QED
    BY <2>1, <2>2 DEF OneIdMore
<1> QED
  BY <1>2, <1>3

LEMMA RegisterKeeps ==
    ASSUME LedgerInv, mode = "connect", Len(block) < MaxTxs,
           NEW k \in User, NEW fee \in Fee, Register(k, fee)
    PROVE  LedgerInv'
<1> DEFINE old == view.acct[k]
           paid == IF fee > 0 THEN Minus(old, fee, Height) ELSE old
           a == [paid EXCEPT !.pub = TRUE, !.reg = NextId]
           w1 == SetAccount(view, k, a)
           w2 == [w1 EXCEPT !.ids[NextId] = k]
           e == [type |-> "register", id |-> NextId, user |-> k, fee |-> fee,
                 fuel |-> 0, logs |-> <<LogOf(view, k)>>]
<1>1. fee \in Nat /\ k \in Key /\ view \in World /\ Height \in Nat
  BY Numbers, Ids, Heights
<1>2. old # None /\ fee <= old.value /\ Executed(w2, e)
  BY DEF Register, Affordable
<1>3. NextId \in Id /\ NextId = <<Len(chain) + 1, Len(block) + 1>>
  BY NextIdIsId
<1>4. old \in Account
  BY <1>1, <1>2, HeldType
<1>5. paid \in Account
  BY <1>1, <1>2, <1>4, MinusType
<1> HIDE DEF old, paid
<1>6. a \in Account /\ a.reg = NextId
  BY <1>3, <1>5 DEF Account
<1> HIDE DEF a
<1>7. /\ w1 \in World /\ w1.ids = view.ids /\ w1.acct[k] = a
      /\ \A x \in Key : x # k => w1.acct[x] = view.acct[x]
  BY <1>1, <1>6, SetAccountType
<1> HIDE DEF w1
<1>8. w2 \in World /\ w2.acct = w1.acct /\ w2.ids = [view.ids EXCEPT ![NextId] = k]
  BY <1>1, <1>3, <1>7, NewIdType
<1> DEFINE l == LogOf(view, k)
<1>9. l \in Log
  BY <1>1, LogOfType
<1> HIDE DEF w2, e, l
<1>10. e \in GoodEntry /\ e.type = "register" /\ e.id = NextId /\ Owner(e) = k
  <2> DEFINE all == <<l>>
  <2>1. all \in Seq(Log) /\ all # <<>> /\ Len(all) = 1 /\ all[1].key = k
    BY <1>9 DEF l, LogOf
  <2>2. e = [type |-> "register", id |-> NextId, user |-> k, fee |-> fee,
             fuel |-> 0, logs |-> all]
    BY DEF e, l
  <2> HIDE DEF all
  <2> QED
    BY <1>1, <1>3, <2>1, <2>2 DEF GoodEntry, Entry, Registering, Owner
<1>11. /\ FollowsWith(view.ids, chain, block) /\ Found(view)
       /\ chain \in Seq(Seq(GoodEntry)) /\ block \in Seq(GoodEntry)
  BY DEF LedgerInv, Base
<1>12. view.ids[NextId] = None /\ FollowsWith(w2.ids, chain, Append(block, e))
  <2>1. view.ids \in [Id -> Key \cup {None}] /\ e.type \in Registering
    BY <1>1, <1>10 DEF World, Registering
  <2>2. /\ view.ids[e.id] = None
        /\ FollowsWith([view.ids EXCEPT ![e.id] = Owner(e)], chain, Append(block, e))
    BY <1>3, <1>10, <1>11, <2>1, WithRegistered
  <2> QED
    BY <1>8, <1>10, <2>2
<1>13. Found(w2)
  <2>1. \A x \in Key : x # k /\ Held(w2, x).pub =>
            Held(view, x).pub /\ w2.acct[x].reg = view.acct[x].reg
    BY <1>7, <1>8 DEF Held
  <2>2. Held(w2, k).pub => k \in User /\ w2.acct[k].reg = NextId
    BY <1>6, <1>7, <1>8
  <2>3. /\ view.ids[NextId] = None /\ w2 \in World /\ w2.ids[NextId] = k
        /\ \A i \in Id : i # NextId => w2.ids[i] = view.ids[i]
    BY <1>1, <1>3, <1>8, <1>12 DEF World
  <2>4. OneIdMore(view, w2, NextId, k)
    BY <2>1, <2>2, <2>3 DEF OneIdMore
  <2> QED
    BY <1>1, <1>3, <1>11, <2>3, <2>4, FoundWithNewId
<1> QED
  BY <1>2, <1>8, <1>10, <1>12, <1>13, ExecutedKeeps

LEMMA RegisterAppKeeps ==
    ASSUME LedgerInv, mode = "connect", Len(block) < MaxTxs,
           NEW src \in Registered, NEW fee \in Fee, NEW fuel \in Fee,
           RegisterApp(src, fee, fuel)
    PROVE  LedgerInv'
<1> DEFINE from == view.ids[src]
           app == [NewAccount EXCEPT !.reg = NextId]
           w1 == SetAccount(view, NextId, app)
           w2 == Debit(w1, from, fee)
           w3 == [w2 EXCEPT !.ids[NextId] = NextId]
           w4 == [w2 EXCEPT !.ids[NextId] = NextId, !.scripts = @ \cup {NextId}]
           e == [type |-> "app", id |-> NextId, user |-> from, fee |-> fee,
                 fuel |-> fuel, logs |-> <<LogOf(view, from)>>]
<1>1. fee \in Nat /\ fuel \in Nat /\ view \in World /\ Height \in Nat
  BY Numbers, Heights
<1>2. fuel <= fee /\ MaySend(src, fee) /\ Executed(w4, e)
  BY DEF RegisterApp
<1>3. NextId \in Id /\ NextId \in Key /\ NextId \notin User
      /\ NextId = <<Len(chain) + 1, Len(block) + 1>>
  BY NextIdIsId, Ids
<1>4. /\ from \in Key /\ view.acct[from] \in Account /\ view.acct[from].pub
      /\ fee <= view.acct[from].value
  BY <1>1, <1>2, SenderCanPay
<1> HIDE DEF from
<1>5. from # NextId /\ view.acct[from] # None
  <2>1. view.acct[from] # None
    BY <1>4, Ids
  <2>2. Held(view, from).pub
    BY <1>4, <2>1 DEF Held
  <2> QED
    BY <1>3, <1>4, <2>1, <2>2 DEF LedgerInv, Found
<1>6. app \in Account /\ ~app.pub
  BY <1>3 DEF NewAccount, Account
<1> HIDE DEF app
<1>7. /\ w1 \in World /\ w1.ids = view.ids /\ w1.scripts = view.scripts
      /\ w1.acct[from] = view.acct[from] /\ w1.acct[NextId] = app
      /\ \A x \in Key : x # NextId => w1.acct[x] = view.acct[x]
  <2>1. /\ w1 \in World /\ w1.ids = view.ids /\ w1.scripts = view.scripts
        /\ w1.acct[NextId] = app
        /\ \A x \in Key : x # NextId => w1.acct[x] = view.acct[x]
    BY <1>1, <1>3, <1>6, SetAccountType
  <2> HIDE DEF w1
  <2> QED
    BY <1>4, <1>5, <2>1
<1> HIDE DEF w1
<1>8. w2 \in World /\ KeepsRoles(w1, w2)
  BY <1>1, <1>4, <1>5, <1>7, DebitType
<1>9. KeepsRoles(view, w2)
  <2>1. KeepsRoles(view, w1)
    <3>1. app.pub => Held(view, NextId).pub /\ app.reg = view.acct[NextId].reg
      BY <1>6
    <3> QED
      BY <1>1, <1>3, <1>6, <3>1, SetKeepsRoles DEF w1
  <2> QED
    BY <1>8, <2>1, RolesKeptTwice
<1> HIDE DEF w2
<1>10. /\ w3 \in World /\ w3.acct = w2.acct /\ w3.scripts = w2.scripts
       /\ w3.ids = [view.ids EXCEPT ![NextId] = NextId]
  BY <1>3, <1>8, <1>9, NewIdType DEF KeepsRoles
<1>11. w4 = [w3 EXCEPT !.scripts = @ \cup {NextId}]
  BY <1>8 DEF World
<1> HIDE DEF w3, w4
<1>12. w4 \in World /\ w4.acct = w2.acct /\ w4.ids = [view.ids EXCEPT ![NextId] = NextId]
  BY <1>3, <1>10, <1>11 DEF World
<1> DEFINE l == LogOf(view, from)
<1>13. l \in Log /\ l.key = from
  BY <1>1, <1>4, LogOfType DEF LogOf
<1> HIDE DEF e, l
<1>14. e \in GoodEntry /\ e.type = "app" /\ e.id = NextId /\ Owner(e) = NextId
  <2> DEFINE all == <<l>>
  <2>1. all \in Seq(Log) /\ all # <<>> /\ Len(all) = 1 /\ all[1].key = from
    BY <1>13
  <2>2. e = [type |-> "app", id |-> NextId, user |-> from, fee |-> fee,
             fuel |-> fuel, logs |-> all]
    BY DEF e, l
  <2> HIDE DEF all
  <2> QED
    BY <1>1, <1>2, <1>3, <1>4, <1>5, <2>1, <2>2 DEF GoodEntry, Entry, Registering, Owner
<1>15. /\ FollowsWith(view.ids, chain, block) /\ Found(view)
       /\ chain \in Seq(Seq(GoodEntry)) /\ block \in Seq(GoodEntry)
  BY DEF LedgerInv, Base
<1>16. view.ids[NextId] = None /\ FollowsWith(w4.ids, chain, Append(block, e))
  <2>1. view.ids \in [Id -> Key \cup {None}] /\ e.type \in Registering
    BY <1>1, <1>14 DEF World, Registering
  <2>2. /\ view.ids[e.id] = None
        /\ FollowsWith([view.ids EXCEPT ![e.id] = Owner(e)], chain, Append(block, e))
    BY <1>3, <1>14, <1>15, <2>1, WithRegistered
  <2> QED
    BY <1>12, <1>14, <2>2
<1>17. Found(w4)
  <2>1. \A x \in Key : Held(w4, x).pub =>
            Held(view, x).pub /\ w4.acct[x].reg = view.acct[x].reg
    BY <1>9, <1>12 DEF Held, KeepsRoles
  <2>2. ~Held(w4, NextId).pub
    BY <1>3, <1>15, <2>1 DEF Found
  <2>3. /\ view.ids[NextId] = None /\ w4 \in World
        /\ w4.ids[NextId] = NextId
        /\ \A i \in Id : i # NextId => w4.ids[i] = view.ids[i]
    BY <1>1, <1>3, <1>12, <1>16 DEF World
  <2>4. /\ \A x \in Key : x # NextId /\ Held(w4, x).pub =>
            Held(view, x).pub /\ w4.acct[x].reg = view.acct[x].reg
        /\ Held(w4, NextId).pub => NextId \in User /\ w4.acct[NextId].reg = NextId
    BY <2>1, <2>2
  <2>5. OneIdMore(view, w4, NextId, NextId)
    BY <2>3, <2>4 DEF OneIdMore
  <2> QED
    BY <1>1, <1>3, <1>15, <2>3, <2>5, FoundWithNewId
<1> QED
  BY <1>2, <1>12, <1>14, <1>16, <1>17, ExecutedKeeps

(* The entry of a reward: one account is logged. *)
LEMMA RewardEntry ==
    ASSUME NEW type \in {"reward", "mature"}, NEW id \in Id, NEW k \in Key,
           NEW fee \in Nat, NEW l \in Log, NEW e,
           e = [type |-> type, id |-> id, user |-> k, fee |-> fee, fuel |-> 0,
                logs |-> <<l>>]
    PROVE  /\ e \in GoodEntry /\ e.type = type /\ e.type \notin Registering
           /\ e.logs = Append(<<>>, l)
<1> DEFINE all == <<l>>
<1>1. all \in Seq(Log) /\ all # <<>> /\ all = Append(<<>>, l)
  OBVIOUS
<1>2. e = [type |-> type, id |-> id, user |-> k, fee |-> fee, fuel |-> 0, logs |-> all]
  OBVIOUS
<1> HIDE DEF all
<1>3. /\ e.type = type /\ e.id = id /\ e.user = k /\ e.fee = fee /\ e.fuel = 0
      /\ e.logs = all
  BY <1>2
<1>4. e \in Entry
  BY <1>1, <1>2 DEF Entry
<1>5. e.logs # <<>> /\ e.fuel <= e.fee /\ e.id \in Id
  BY <1>1, <1>3
<1>6. e.type # "register" /\ e.type # "app" /\ e.type \notin Registering
  BY <1>3 DEF Registering
<1> QED
  BY <1>1, <1>3, <1>4, <1>5, <1>6 DEF GoodEntry

LEMMA RewardKeeps ==
    ASSUME LedgerInv, NEW miner \in Registered, Reward(miner)
    PROVE  LedgerInv'
<1> DEFINE k == view.ids[miner]
           a == ClearAccPos(view.acct[k], Height)
           w == SetAccount(view, k, a)
           l == LogOf(view, k)
           e == [type |-> "reward", id |-> miner, user |-> k,
                 fee |-> RewardValue(block), fuel |-> 0, logs |-> <<l>>]
<1>1. /\ mode = "connect" /\ Has(view, miner)
      /\ view' = w /\ block' = Append(block, e) /\ mode' = "rewarded"
      /\ tip' = tip /\ chain' = chain /\ before' = before
  BY DEF Reward
<1>2. /\ miner \in Id /\ miner \in Key /\ view \in World /\ Height \in Nat
      /\ block \in Seq(GoodEntry) /\ RewardValue(block) \in Nat
  BY Ids, Heights, RewardType DEF Registered, LedgerInv
<1>3. k \in Key /\ view.acct[k] \in Account /\ Held(view, k) = view.acct[k]
  <2>1. KeyOf(view, miner) = k
    BY <1>2 DEF KeyOf
  <2>2. k \in Key /\ view.acct[k] \in Account
    BY <1>1, <1>2, <2>1, KeyOfType
  <2> QED
    BY <2>2, Ids DEF Held
<1> HIDE DEF k, l, e
<1>4. a \in Account /\ SameRole(a, Held(view, k))
  BY <1>2, <1>3, ClearType
<1> HIDE DEF a
<1>5. w \in World /\ KeepsRoles(view, w)
  BY <1>2, <1>3, <1>4, SetAccountType, Rewritten
<1> HIDE DEF w
<1>6. e \in GoodEntry /\ e.type = "reward" /\ e.type \notin Registering
  BY <1>2, <1>3, LogOfType, RewardEntry DEF e, l
<1>7. Found(w) /\ w.ids = view.ids
  BY <1>5, FoundKept DEF LedgerInv, KeepsRoles
<1>8. FollowsWith(w.ids, chain, Append(block, e))
  <2>1. FollowsWith(view.ids, chain, block)
    BY <1>1 DEF LedgerInv, Base
  <2> QED
    BY <1>2, <1>6, <1>7, <2>1, WithAppended
<1>9. /\ Append(block, e) \in Seq(GoodEntry) /\ Append(block, e) \in Seq(Entry)
      /\ HasReward(Append(block, e))
  <2>1. e \in Entry /\ block \in Seq(Entry)
    BY <1>6 DEF GoodEntry, LedgerInv, TypeOK
  <2>2. /\ Append(block, e) \in Seq(GoodEntry) /\ Append(block, e) \in Seq(Entry)
        /\ Len(block) + 1 \in DOMAIN Append(block, e)
        /\ Append(block, e)[Len(block) + 1] = e
    BY <1>2, <1>6, <2>1, AppendedTo
  <2> QED
    BY <1>6, <2>2 DEF HasReward
<1>10. TypeOK' /\ Stages'
  BY <1>1, <1>5, <1>9 DEF LedgerInv, TypeOK, Stages
<1>11. Base' = chain
  BY <1>1 DEF Base
<1> QED
  BY <1>1, <1>7, <1>8, <1>9, <1>10, <1>11 DEF LedgerInv

(* The block is complete: its views become those of the tip. *)
LEMMA CommitKeeps ==
    ASSUME LedgerInv, mode = "rewarded", NEW w \in World, NEW b \in Seq(GoodEntry),
           HasReward(b), Commit(w, b), Found(w), FollowsWith(w.ids, chain, b)
    PROVE  LedgerInv'
<1>1. /\ tip' = w /\ view' = w /\ chain' = Append(chain, b) /\ before' = Append(before, tip)
      /\ block' = <<>> /\ mode' = "idle"
  BY DEF Commit
<1>2. /\ chain \in Seq(Seq(GoodEntry)) /\ chain \in Seq(Seq(Entry))
      /\ before \in Seq(World) /\ Len(before) = Len(chain) /\ tip \in World
      /\ \A i \in DOMAIN chain : HasReward(chain[i])
  BY DEF LedgerInv, TypeOK
<1>3. b \in Seq(Entry)
  BY SeqMonotonic DEF GoodEntry
<1>4. chain' \in Seq(Seq(GoodEntry)) /\ chain' \in Seq(Seq(Entry))
  BY <1>1, <1>2, <1>3, AppendedTo
<1>5. before' \in Seq(World) /\ Len(before') = Len(chain')
  BY <1>1, <1>2, AppendedTo
<1>6. \A i \in DOMAIN chain' : HasReward(chain'[i])
  <2> DEFINE c == Append(chain, b)
  <2>1. /\ Len(chain) \in Nat /\ DOMAIN chain = 1..Len(chain)
        /\ DOMAIN c = 1..(Len(chain) + 1)
        /\ \A i \in 1..Len(chain) : c[i] = chain[i]
        /\ c[Len(chain) + 1] = b
    BY <1>2, AppendedTo
  <2> HIDE DEF c
  <2>2. ASSUME NEW i \in DOMAIN c PROVE HasReward(c[i])
    <3>1. CASE i = Len(chain) + 1
      BY <2>1, <3>1
    <3>2. CASE i # Len(chain) + 1
      BY <1>2, <2>1, <3>2
    <3> QED
      BY <3>1, <3>2
  <2> QED
    BY <1>1, <2>2 DEF c
<1>7. Follows(w.ids, Append(chain, b))
  BY <1>2, BlockJoins
<1>8. TypeOK' /\ Stages' /\ block' \in Seq(GoodEntry)
  BY <1>1, <1>4, <1>5 DEF TypeOK, Stages
<1> QED
  BY <1>1, <1>4, <1>6, <1>7, <1>8 DEF LedgerInv

(* The reward of a block on the chain. *)
LEMMA RewardOfChain ==
    ASSUME LedgerInv, NEW i \in DOMAIN chain
    PROVE  RewardOf(chain[i]) \in GoodEntry /\ RewardOf(chain[i]).type = "reward"
<1>1. chain[i] \in Seq(GoodEntry) /\ HasReward(chain[i])
  <2>1. chain \in Seq(Seq(GoodEntry)) /\ DOMAIN chain = 1..Len(chain)
    BY LenProperties DEF LedgerInv
  <2> QED
    BY <2>1, ElementOfSeq DEF LedgerInv
<1>2. \A e \in ToSet(chain[i]) : e \in GoodEntry
  BY <1>1, LenProperties, ElementOfSeq DEF ToSet
<1>3. \E e \in ToSet(chain[i]) : e.type = "reward"
  BY <1>1 DEF HasReward, ToSet
<1>4. RewardOf(chain[i]) \in ToSet(chain[i]) /\ RewardOf(chain[i]).type = "reward"
  BY <1>3 DEF RewardOf
<1> QED
  BY <1>2, <1>4

(* The reward that matures now. *)
LEMMA RewardIsDue ==
    ASSUME LedgerInv, Height > Maturity
    PROVE  /\ RewardOf(chain[Height - Maturity]) \in GoodEntry
           /\ RewardOf(chain[Height - Maturity]).type = "reward"
<1>1. /\ Height \in Nat /\ Len(chain) \in Nat /\ Height = Len(chain) + 1
      /\ Maturity \in Nat \ {0} /\ DOMAIN chain = 1..Len(chain)
  BY Heights, Numbers, LenProperties DEF LedgerInv
<1>2. \A h, m, n \in Nat : h > m /\ h = n + 1 /\ m # 0 => h - m \in 1..n
  OBVIOUS
<1>3. Height - Maturity \in DOMAIN chain
  BY <1>1, <1>2
<1> QED
  BY <1>3, RewardOfChain

LEMMA MatureKeeps ==
    ASSUME LedgerInv, ConnectMature
    PROVE  LedgerInv'
<1> DEFINE due == RewardOf(chain[Height - Maturity])
           k == view.ids[due.id]
           a == [view.acct[k] EXCEPT !.value = view.acct[k].value + due.fee]
           w == SetAccount(view, k, a)
           l == LogOf(view, k)
           e == [type |-> "mature", id |-> due.id, user |-> k,
                 fee |-> due.fee, fuel |-> 0, logs |-> <<l>>]
<1>1. /\ mode = "rewarded" /\ Height > Maturity /\ Has(view, due.id)
      /\ Commit(w, Append(block, e))
  BY DEF ConnectMature
<1>2. /\ view \in World /\ Height \in Nat /\ Height = Len(chain) + 1 /\ Len(chain) \in Nat
      /\ block \in Seq(GoodEntry) /\ HasReward(block) /\ Maturity \in Nat \ {0}
  BY <1>1, Heights, Numbers DEF LedgerInv, Stages
<1>3. due \in GoodEntry /\ due.type = "reward"
  BY <1>1, RewardIsDue
<1> HIDE DEF due
<1>4. due.id \in Id /\ due.id \in Key /\ due.fee \in Nat
  BY <1>3, Ids DEF GoodEntry, Entry
<1>5. k \in Key /\ view.acct[k] \in Account /\ Held(view, k) = view.acct[k]
  <2>1. KeyOf(view, due.id) = k
    BY <1>4 DEF KeyOf
  <2>2. k \in Key /\ view.acct[k] \in Account
    BY <1>1, <1>2, <1>4, <2>1, KeyOfType
  <2> QED
    BY <2>2, Ids DEF Held
<1> HIDE DEF k, l, e
<1>6. a \in Account /\ SameRole(a, Held(view, k))
  <2> DEFINE old == view.acct[k]
  <2>1. old \in Account /\ old.value + due.fee \in Nat
    BY <1>4, <1>5 DEF Account
  <2>2. a = [old EXCEPT !.value = old.value + due.fee]
    OBVIOUS
  <2> HIDE DEF a, old
  <2>3. a \in Account /\ SameRole(a, old)
    BY <2>1, <2>2 DEF Account, SameRole
  <2> QED
    BY <1>5, <2>3 DEF old
<1> HIDE DEF a
<1>7. w \in World /\ KeepsRoles(view, w)
  BY <1>2, <1>5, <1>6, SetAccountType, Rewritten
<1> HIDE DEF w
<1>8. e \in GoodEntry /\ e.type = "mature"
  BY <1>2, <1>4, <1>5, LogOfType, RewardEntry DEF e, l
<1>9. Found(w) /\ w.ids = view.ids
  BY <1>7, FoundKept DEF LedgerInv, KeepsRoles
<1>10. FollowsWith(w.ids, chain, Append(block, e))
  <2>1. FollowsWith(view.ids, chain, block) /\ e.type \notin Registering
    BY <1>1, <1>8 DEF LedgerInv, Base, Registering
  <2> QED
    BY <1>2, <1>8, <1>9, <2>1, WithAppended
<1>11. Append(block, e) \in Seq(GoodEntry) /\ HasReward(Append(block, e))
  <2> DEFINE b == Append(block, e)
  <2>1. b \in Seq(GoodEntry) /\ DOMAIN block \subseteq DOMAIN b
        /\ \A i \in DOMAIN block : b[i] = block[i]
    BY <1>2, <1>8, AppendedTo
  <2> HIDE DEF b
  <2>2. HasReward(b)
    BY <1>2, <2>1 DEF HasReward
  <2> QED
    BY <2>1, <2>2 DEF b
<1> QED
  BY <1>1, <1>7, <1>9, <1>10, <1>11, CommitKeeps

LEMMA EarlyKeeps ==
    ASSUME LedgerInv, ConnectEarly
    PROVE  LedgerInv'
<1>1. mode = "rewarded" /\ Commit(view, block)
  BY DEF ConnectEarly
<1>2. /\ view \in World /\ block \in Seq(GoodEntry) /\ HasReward(block) /\ Found(view)
      /\ FollowsWith(view.ids, chain, block)
  BY <1>1, Heights DEF LedgerInv, Stages, Base
<1> QED
  BY <1>1, <1>2, CommitKeeps

LEMMA BeginConnectKeeps ==
    ASSUME LedgerInv, BeginConnect
    PROVE  LedgerInv'
<1>1. /\ mode = "idle" /\ Len(chain) < MaxHeight /\ mode' = "connect"
      /\ tip' = tip /\ chain' = chain /\ before' = before /\ view' = view
      /\ block' = block
  BY DEF BeginConnect
<1>2. view = tip /\ block = <<>> /\ chain \in Seq(Seq(GoodEntry)) /\ Follows(tip.ids, chain)
  BY <1>1 DEF LedgerInv, Stages
<1>3. FollowsWith(view.ids, chain, block)
  BY <1>2, BeginsWithNothing
<1>4. Base' = chain
  BY <1>1 DEF Base
<1> QED
  BY <1>1, <1>3, <1>4 DEF LedgerInv, TypeOK, Stages

LEMMA DropKeeps ==
    ASSUME LedgerInv, Drop
    PROVE  LedgerInv'
<1>1. /\ mode' = "idle" /\ view' = tip /\ block' = <<>>
      /\ tip' = tip /\ chain' = chain /\ before' = before
  BY DEF Drop
<1> QED
  BY <1>1 DEF LedgerInv, TypeOK, Stages

LEMMA BeginUndoKeeps ==
    ASSUME LedgerInv, BeginUndo
    PROVE  LedgerInv'
<1>1. /\ mode = "idle" /\ chain # <<>> /\ mode' = "undo" /\ block' = Last(chain)
      /\ tip' = tip /\ chain' = chain /\ before' = before /\ view' = view
  BY DEF BeginUndo
<1>2. /\ view = tip /\ chain \in Seq(Seq(GoodEntry)) /\ chain \in Seq(Seq(Entry))
      /\ Follows(tip.ids, chain)
  BY <1>1 DEF LedgerInv, Stages, TypeOK
<1>3. FollowsWith(view.ids, Front(chain), Last(chain))
  BY <1>1, <1>2, BlockLeaves
<1>4. Last(chain) \in Seq(GoodEntry) /\ Last(chain) \in Seq(Entry)
  BY <1>1, <1>2, FrontAndLast
<1>5. Base' = Front(chain)
  BY <1>1 DEF Base
<1> QED
  BY <1>1, <1>3, <1>4, <1>5 DEF LedgerInv, TypeOK, Stages

LEMMA EndUndoKeeps ==
    ASSUME LedgerInv, EndUndo
    PROVE  LedgerInv'
<1>1. /\ mode = "undo" /\ block = <<>> /\ mode' = "idle" /\ tip' = view
      /\ chain' = Front(chain) /\ before' = Front(before) /\ view' = view /\ block' = block
  BY DEF EndUndo
<1>2. /\ chain # <<>> /\ chain \in Seq(Seq(GoodEntry)) /\ chain \in Seq(Seq(Entry))
      /\ before \in Seq(World) /\ Len(before) = Len(chain)
      /\ \A i \in DOMAIN chain : HasReward(chain[i])
  BY <1>1 DEF LedgerInv, TypeOK, Stages
<1>3. before # <<>>
  BY <1>2, EmptySeq, LenProperties
<1>4. /\ Front(chain) \in Seq(Seq(GoodEntry)) /\ Front(chain) \in Seq(Seq(Entry))
      /\ Front(before) \in Seq(World) /\ Len(Front(before)) = Len(Front(chain))
      /\ \A i \in DOMAIN Front(chain) : i \in DOMAIN chain /\ Front(chain)[i] = chain[i]
  <2>1. /\ Front(chain) \in Seq(Seq(GoodEntry)) /\ Front(chain) \in Seq(Seq(Entry))
        /\ Len(Front(chain)) = Len(chain) - 1 /\ Len(chain) \in Nat \ {0}
        /\ DOMAIN chain = 1..Len(chain) /\ DOMAIN Front(chain) = 1..(Len(chain) - 1)
        /\ \A i \in 1..(Len(chain) - 1) : Front(chain)[i] = chain[i]
    BY <1>2, FrontAndLast
  <2>2. Front(before) \in Seq(World) /\ Len(Front(before)) = Len(before) - 1
    BY <1>2, <1>3, FrontAndLast
  <2> QED
    BY <1>2, <2>1, <2>2
<1>5. FollowsWith(view.ids, Front(chain), <<>>)
  BY <1>1 DEF LedgerInv, Base
<1>6. Follows(view.ids, Front(chain))
  BY <1>4, <1>5, EndsWithNothing
<1> QED
  BY <1>1, <1>2, <1>4, <1>6 DEF LedgerInv, TypeOK, Stages

(* A transaction of the block undone. *)
LEMMA UndoneKeeps ==
    ASSUME LedgerInv, mode = "undo", block # <<>>, NEW w \in World, Undone(w),
           Found(w), FollowsWith(w.ids, Front(chain), Front(block))
    PROVE  LedgerInv'
<1>1. /\ view' = w /\ block' = Front(block)
      /\ tip' = tip /\ chain' = chain /\ before' = before /\ mode' = mode
  BY DEF Undone
<1>2. Front(block) \in Seq(GoodEntry) /\ Front(block) \in Seq(Entry)
  BY FrontAndLast DEF LedgerInv, TypeOK
<1>3. Base' = Front(chain)
  BY <1>1 DEF Base
<1> QED
  BY <1>1, <1>2, <1>3 DEF LedgerInv, TypeOK, Stages

LEMMA UndoLogKeeps ==
    ASSUME LedgerInv, UndoLog
    PROVE  LedgerInv'
<1> DEFINE e == Last(block)
           l == Last(e.logs)
           old == UndoOperateAccount(view.acct[l.key], l)
           w == IF e.type = "common" /\ Bare(old)
                THEN EraseAccount(view, l.key) ELSE SetAccount(view, l.key, old)
           shorter == [block EXCEPT ![Len(block)].logs = Front(@)]
<1>1. /\ mode = "undo" /\ block # <<>> /\ e.type \in ByLogs
      /\ view.acct[l.key] # None
      /\ IF Len(e.logs) = 1 THEN Undone(w)
         ELSE /\ view' = w /\ block' = shorter
              /\ UNCHANGED <<tip, chain, before, mode>>
  BY DEF UndoLog, Undoing
<1>2. /\ view \in World /\ block \in Seq(GoodEntry) /\ block \in Seq(Entry)
      /\ FollowsWith(view.ids, Front(chain), block) /\ Found(view)
  BY <1>1 DEF LedgerInv, TypeOK, Base
<1>3. /\ e \in GoodEntry /\ e = block[Len(block)] /\ Len(block) \in DOMAIN block
      /\ e.type \notin Registering
  BY <1>1, <1>2, FrontAndLast DEF ByLogs, Registering
<1>4. e.logs \in Seq(Log) /\ e.logs # <<>>
  BY <1>3 DEF GoodEntry, Entry
<1>5. l \in Log /\ l.key \in Key /\ Front(e.logs) \in Seq(Log)
      /\ Len(Front(e.logs)) = Len(e.logs) - 1 /\ Len(e.logs) \in Nat \ {0}
  <2>1. l \in Log /\ Front(e.logs) \in Seq(Log)
        /\ Len(Front(e.logs)) = Len(e.logs) - 1 /\ Len(e.logs) \in Nat \ {0}
    BY <1>4, FrontAndLast
  <2> QED
    BY <2>1 DEF Log
<1>6. old \in Account /\ SameRole(old, Held(view, l.key))
  BY <1>1, <1>2, <1>5, HeldType, UndoType DEF Held
<1> HIDE DEF l
<1>7. w \in World /\ KeepsRoles(view, w)
  BY <1>2, <1>5, <1>6, SetAccountType, EraseAccountType, Rewritten, EraseKeepsRoles
<1> HIDE DEF w, old
<1>8. Found(w) /\ w.ids = view.ids
  BY <1>2, <1>7, FoundKept DEF KeepsRoles
<1>9. CASE Len(e.logs) = 1
  <2>1. FollowsWith(w.ids, Front(chain), Front(block))
    BY <1>1, <1>2, <1>3, <1>8, WithUndone
  <2> QED
    BY <1>1, <1>7, <1>8, <1>9, <2>1, UndoneKeeps
<1>10. CASE Len(e.logs) # 1
  <2>1. /\ view' = w /\ block' = shorter
        /\ tip' = tip /\ chain' = chain /\ before' = before /\ mode' = mode
    BY <1>1, <1>10
  <2> DEFINE e2 == [e EXCEPT !.logs = Front(e.logs)]
  <2>2. e2 \in GoodEntry /\ e2.type = e.type /\ e2.id = e.id /\ e2.user = e.user
    <3> DEFINE all == Front(e.logs)
    <3>1. all \in Seq(Log) /\ all # <<>>
      <4>1. all \in Seq(Log) /\ Len(all) # 0
        BY <1>5, <1>10
      <4> HIDE DEF all
      <4> QED
        BY <4>1, EmptySeq
    <3>2. e2 = [e EXCEPT !.logs = all]
      OBVIOUS
    <3> HIDE DEF all, e2, e
    <3> QED
      BY <1>3, <3>1, <3>2 DEF GoodEntry, Entry
  <2>3. shorter = [block EXCEPT ![Len(block)] = e2]
    BY <1>3
  <2> HIDE DEF e2, e, shorter
  <2>4. /\ shorter \in Seq(GoodEntry) /\ shorter \in Seq(Entry)
        /\ DOMAIN shorter = DOMAIN block
        /\ shorter[Len(block)] = e2
        /\ \A i \in DOMAIN block : i # Len(block) => shorter[i] = block[i]
    <3>1. e2 \in Entry /\ Len(block) \in 1..Len(block)
      BY <1>2, <1>3, <2>2, LenProperties DEF GoodEntry
    <3>2. shorter \in Seq(GoodEntry) /\ shorter \in Seq(Entry)
      BY <1>2, <2>2, <2>3, <3>1, ExceptSeq
    <3> QED
      BY <1>3, <2>3, <3>2
  <2>5. FollowsWith(w.ids, Front(chain), shorter)
    <3>1. \A n \in DOMAIN block : shorter[n].type = block[n].type
                                  /\ shorter[n].id = block[n].id
                                  /\ Owner(shorter[n]) = Owner(block[n])
      BY <1>3, <2>2, <2>4 DEF Owner
    <3> QED
      BY <1>2, <1>8, <2>4, <3>1, OwnSameIds DEF FollowsWith
  <2>6. Base' = Front(chain)
    BY <1>1, <2>1 DEF Base
  <2> QED
    BY <1>1, <1>7, <1>8, <2>1, <2>4, <2>5, <2>6 DEF LedgerInv, TypeOK, Stages
<1> QED
  BY <1>9, <1>10

LEMMA UndoRegisterKeeps ==
    ASSUME LedgerInv, UndoRegister
    PROVE  LedgerInv'
<1> DEFINE e == Last(block)
           k == view.ids[e.id]
           l == e.logs[1]
           old == IF e.fee > 0 THEN UndoOperateAccount(view.acct[k], l) ELSE view.acct[k]
           bare == [old EXCEPT !.pub = FALSE]
           w == IF old.value = 0 THEN EraseAccount(view, k) ELSE SetAccount(view, k, bare)
           w2 == [w EXCEPT !.ids[e.id] = None]
<1>1. /\ mode = "undo" /\ block # <<>> /\ e.type = "register" /\ Has(view, e.id)
      /\ Undone(w2)
  BY DEF UndoRegister, Undoing
<1>2. /\ view \in World /\ block \in Seq(GoodEntry)
      /\ chain \in Seq(Seq(GoodEntry)) /\ chain # <<>>
      /\ FollowsWith(view.ids, Front(chain), block) /\ Found(view)
  BY <1>1 DEF LedgerInv, TypeOK, Stages, Base
<1>3. /\ e \in GoodEntry /\ e.type \in Registering /\ e.id \in Id /\ e.id \in Key
      /\ view.ids[e.id] = Owner(e)
      /\ FollowsWith([view.ids EXCEPT ![e.id] = None], Front(chain), Front(block))
  <2>1. view.ids \in [Id -> Key \cup {None}] /\ Front(chain) \in Seq(Seq(GoodEntry))
        /\ Last(block).type \in Registering
    BY <1>1, <1>2, FrontAndLast DEF World, Registering
  <2> QED
    BY <1>1, <1>2, <2>1, WithUnregistered, Ids
<1>4. k \in Key /\ view.acct[k] \in Account /\ Held(view, k) = view.acct[k]
  <2>1. KeyOf(view, e.id) = k
    BY <1>3 DEF KeyOf
  <2>2. k \in Key /\ view.acct[k] \in Account
    BY <1>1, <1>2, <1>3, <2>1, KeyOfType
  <2> QED
    BY <2>2, Ids DEF Held
<1>5. l \in Log
  <2>1. e.logs \in Seq(Log) /\ Len(e.logs) = 1
    BY <1>3 DEF GoodEntry, Entry
  <2> QED
    BY <2>1, ElementOfSeq
<1> HIDE DEF e, k, l
<1>6. old \in Account
  BY <1>4, <1>5, UndoType
<1> HIDE DEF old
<1>7. bare \in Account /\ ~bare.pub
  BY <1>6 DEF Account
<1> HIDE DEF bare
<1>8. w \in World /\ KeepsRoles(view, w) /\ ~Held(w, k).pub
  <2>1. CASE old.value = 0
    <3>1. w = EraseAccount(view, k)
      BY <2>1
    <3>2. w.acct[k] = None
      BY <1>2, <1>4, <3>1, EraseAccountType
    <3> QED
      BY <1>2, <1>4, <3>1, <3>2, EraseAccountType, EraseKeepsRoles DEF Held, NewAccount
  <2>2. CASE old.value # 0
    <3>1. w = SetAccount(view, k, bare)
      BY <2>2
    <3>2. w \in World /\ w.acct[k] = bare /\ KeepsRoles(view, w)
      <4>1. bare.pub => Held(view, k).pub /\ bare.reg = view.acct[k].reg
        BY <1>7
      <4> QED
        BY <1>2, <1>4, <1>7, <3>1, <4>1, SetAccountType, SetKeepsRoles
    <3> HIDE DEF w
    <3> QED
      BY <1>7, <3>2, Ids DEF Held
  <2> QED
    BY <2>1, <2>2
<1> HIDE DEF w
<1>9. w2 \in World /\ w2.acct = w.acct /\ w2.ids = [view.ids EXCEPT ![e.id] = None]
  BY <1>3, <1>8, NewIdType DEF KeepsRoles
<1>10. Found(w2)
  <2> SUFFICES ASSUME NEW x \in Key, Held(w2, x).pub
               PROVE  x \in User /\ w2.acct[x].reg \in Id /\ w2.ids[w2.acct[x].reg] = x
    BY DEF Found
  <2>1. Held(w, x).pub /\ x # k
    BY <1>8, <1>9 DEF Held
  <2>2. Held(view, x).pub /\ w2.acct[x].reg = view.acct[x].reg
    BY <1>8, <1>9, <2>1 DEF KeepsRoles
  <2>3. x \in User /\ view.acct[x].reg \in Id /\ view.ids[view.acct[x].reg] = x
    BY <1>2, <2>2 DEF Found
  <2>4. view.acct[x].reg # e.id
    BY <2>1, <2>3 DEF k
  <2> QED
    BY <1>2, <1>9, <2>2, <2>3, <2>4 DEF World
<1>11. FollowsWith(w2.ids, Front(chain), Front(block))
  BY <1>3, <1>9
<1> HIDE DEF w2
<1> QED
  BY <1>1, <1>9, <1>10, <1>11, UndoneKeeps

LEMMA UndoRegisterAppKeeps ==
    ASSUME LedgerInv, UndoRegisterApp
    PROVE  LedgerInv'
<1> DEFINE e == Last(block)
           l == e.logs[1]
           old == UndoOperateAccount(view.acct[e.user], l)
           w1 == EraseAccount(view, e.id)
           w2 == SetAccount(w1, e.user, old)
           w3 == [w2 EXCEPT !.ids[e.id] = None]
           w4 == [w2 EXCEPT !.ids[e.id] = None, !.scripts = @ \ {e.id}]
<1>1. /\ mode = "undo" /\ block # <<>> /\ e.type = "app" /\ view.acct[e.user] # None
      /\ Undone(w4)
  BY DEF UndoRegisterApp, Undoing
<1>2. /\ view \in World /\ block \in Seq(GoodEntry)
      /\ chain \in Seq(Seq(GoodEntry)) /\ chain # <<>>
      /\ FollowsWith(view.ids, Front(chain), block) /\ Found(view)
  BY <1>1 DEF LedgerInv, TypeOK, Stages, Base
<1>3. /\ e \in GoodEntry /\ e.type \in Registering /\ e.id \in Id /\ e.id \in Key
      /\ view.ids[e.id] = Owner(e)
      /\ FollowsWith([view.ids EXCEPT ![e.id] = None], Front(chain), Front(block))
  <2>1. view.ids \in [Id -> Key \cup {None}] /\ Front(chain) \in Seq(Seq(GoodEntry))
        /\ Last(block).type \in Registering
    BY <1>1, <1>2, FrontAndLast DEF World, Registering
  <2> QED
    BY <1>1, <1>2, <2>1, WithUnregistered, Ids
<1>4. view.ids[e.id] = e.id /\ e.id \notin User
  BY <1>1, <1>3, Ids DEF Owner
<1>5. l \in Log /\ e.user \in Key
  <2>1. e.logs \in Seq(Log) /\ Len(e.logs) = 1 /\ e.user \in Key
    BY <1>3 DEF GoodEntry, Entry
  <2> QED
    BY <2>1, ElementOfSeq
<1> HIDE DEF e, l
<1>6. old \in Account /\ SameRole(old, Held(view, e.user))
  BY <1>1, <1>2, <1>5, HeldType, UndoType DEF Held
<1> HIDE DEF old
<1>7. w1 \in World /\ KeepsRoles(view, w1)
  BY <1>2, <1>3, EraseAccountType, EraseKeepsRoles
<1>8. w2 \in World /\ KeepsRoles(view, w2)
  <2>1. w2 \in World /\ w2.ids = w1.ids /\ w2.acct[e.user] = old
        /\ \A x \in Key : x # e.user => w2.acct[x] = w1.acct[x]
    BY <1>5, <1>6, <1>7, SetAccountType
  <2> HIDE DEF w1, w2
  <2>2. ASSUME NEW x \in Key, Held(w2, x).pub
        PROVE  Held(view, x).pub /\ w2.acct[x].reg = view.acct[x].reg
    <3>1. CASE x = e.user
      <4>1. old.pub /\ w2.acct[x] = old
        BY <2>1, <2>2, <3>1, PublicIsThere
      <4>2. Held(view, x).pub /\ old.reg = Held(view, x).reg
        BY <1>6, <3>1, <4>1 DEF SameRole
      <4> QED
        BY <4>1, <4>2, PublicIsThere
    <3>2. CASE x # e.user
      BY <1>7, <2>1, <2>2, <3>2 DEF Held, KeepsRoles
    <3> QED
      BY <3>1, <3>2
  <2> QED
    BY <1>7, <2>1, <2>2 DEF KeepsRoles
<1> HIDE DEF w1, w2
<1>9. w3 \in World /\ w3.acct = w2.acct /\ w3.ids = [view.ids EXCEPT ![e.id] = None]
  BY <1>3, <1>8, NewIdType DEF KeepsRoles
<1>10. w4 = [w3 EXCEPT !.scripts = @ \ {e.id}]
  BY <1>8 DEF World
<1> HIDE DEF w3, w4
<1>11. w4 \in World /\ w4.acct = w2.acct /\ w4.ids = [view.ids EXCEPT ![e.id] = None]
  BY <1>9, <1>10 DEF World
<1>12. Found(w4)
  <2> SUFFICES ASSUME NEW x \in Key, Held(w4, x).pub
               PROVE  x \in User /\ w4.acct[x].reg \in Id /\ w4.ids[w4.acct[x].reg] = x
    BY DEF Found
  <2>1. Held(view, x).pub /\ w4.acct[x].reg = view.acct[x].reg
    BY <1>8, <1>11 DEF Held, KeepsRoles
  <2>2. x \in User /\ view.acct[x].reg \in Id /\ view.ids[view.acct[x].reg] = x
    BY <1>2, <2>1 DEF Found
  <2>3. view.acct[x].reg # e.id
    BY <1>4, <2>2
  <2> QED
    BY <1>2, <1>11, <2>1, <2>2, <2>3 DEF World
<1>13. FollowsWith(w4.ids, Front(chain), Front(block))
  BY <1>3, <1>11
<1> QED
  BY <1>1, <1>11, <1>12, <1>13, UndoneKeeps

LEMMA LedgerStep == LedgerInv /\ [Next]_vars => LedgerInv'
<1> SUFFICES ASSUME LedgerInv, [Next]_vars PROVE LedgerInv'
  OBVIOUS
<1>1. CASE BeginConnect
  BY <1>1, BeginConnectKeeps
<1>2. CASE Executing
  <2>1. mode = "connect" /\ Len(block) < MaxTxs
    BY <1>2 DEF Executing
  <2>2. CASE \E k \in User, fee \in Fee : Register(k, fee)
    BY <2>1, <2>2, RegisterKeeps
  <2>3. CASE \E src \in Registered, des \in User \cup Registered,
                v \in Amount, fee \in Fee : Transfer(src, des, v, fee)
    BY <2>1, <2>3, TransferKeeps
  <2>4. CASE \E src \in Registered, app \in view.scripts,
                to \in User \cup Registered \cup {None},
                v, pay \in Amount, fee, fuel \in Fee :
                Contract(src, app, v, fee, fuel, to, pay)
    BY <2>1, <2>4, ContractKeeps
  <2>5. CASE \E src \in Registered, fee, fuel \in Fee : RegisterApp(src, fee, fuel)
    BY <2>1, <2>5, RegisterAppKeeps
  <2> QED
    BY <1>2, <2>2, <2>3, <2>4, <2>5 DEF Executing
<1>3. CASE \E miner \in Registered : Reward(miner)
  BY <1>3, RewardKeeps
<1>4. CASE ConnectMature
  BY <1>4, MatureKeeps
<1>5. CASE ConnectEarly
  BY <1>5, EarlyKeeps
<1>6. CASE BeginUndo
  BY <1>6, BeginUndoKeeps
<1>7. CASE UndoLog
  BY <1>7, UndoLogKeeps
<1>8. CASE UndoRegister
  BY <1>8, UndoRegisterKeeps
<1>9. CASE UndoRegisterApp
  BY <1>9, UndoRegisterAppKeeps
<1>10. CASE EndUndo
  BY <1>10, EndUndoKeeps
<1>11. CASE Drop
  BY <1>11, DropKeeps
<1>12. CASE UNCHANGED vars
  <2>1. Base' = Base
    BY <1>12 DEF Base, vars
  <2> QED
    BY <1>12, <2>1 DEF LedgerInv, TypeOK, Stages, vars
<1> QED
  BY <1>1, <1>2, <1>3, <1>4, <1>5, <1>6, <1>7, <1>8, <1>9, <1>10, <1>11, <1>12 DEF Next

(* Between any two steps of ConnectBlock and DisconnectBlock the ids of a   *)
(* view are the registrations of the blocks it stands on, each at the place *)
(* of its transaction, and every block of the chain ends with its reward.   *)
THEOREM LedgerInvariance == Spec => []LedgerInv
<1> QED
  BY LedgerInit, LedgerStep, PTL DEF Spec

(* No transaction executed or undone takes a balance, the coin days or the  *)
(* amount in a log below zero: OperateAccount refuses what an account does  *)
(* not have, and the coin days left when money is spent (RemainCoinDay)     *)
(* stay natural numbers for every value, fee and width.                     *)
THEOREM LedgerTypeCorrect == Spec => []TypeOK
<1>1. LedgerInv => TypeOK
  BY DEF LedgerInv
<1> QED
  BY <1>1, LedgerInvariance, PTL

(* ExecuteTx of a registration gives the account the place of the           *)
(* transaction as its id, UndoExecuteTx erases the id and takes the public  *)
(* key but leaves the id written in the account: however many branches come *)
(* and go, an account with a public key is found by the id it carries.      *)
THEOREM AccountsKeepTheirIds == Spec => []RegisteredIsFound
<1>1. LedgerInv => RegisteredIsFound
  BY DEF LedgerInv, Found, RegisteredIsFound
<1> QED
  BY <1>1, LedgerInvariance, PTL

-----------------------------------------------------------------------------
(* What a log keeps of an account, and what the logs of a block give back. *)

(* The log of an account that is not there. *)
Nothing(k) == [key |-> k, value |-> 0, coin |-> 0, height |-> 0]

(* l is as good as m: the same, or of an account without money that is no   *)
(* longer there.                                                            *)
Restores(l, m) == l = m \/ (m.value = 0 /\ l = Nothing(m.key))

LEMMA RestoresTwice ==
    ASSUME NEW l, NEW m, NEW n, Restores(l, m), Restores(m, n)
    PROVE  Restores(l, n)
BY DEF Restores, Nothing

(* The entries whose undo writes the account of k, and the log it writes:   *)
(* the first one of k is written last.  The account of an app is erased.    *)
FirstIn(logs, k, j) ==
    j \in DOMAIN logs /\ logs[j].key = k /\ \A i \in 1..(j - 1) : logs[i].key # k

Unlogged(e) == e.type = "register" /\ e.fee = 0
Touches(e, k) ==
    \/ e.type = "app" /\ k = e.id
    \/ ~Unlogged(e) /\ \E j \in DOMAIN e.logs : e.logs[j].key = k
Gives(e, k, l) ==
    IF e.type = "app" /\ k = e.id THEN l = Nothing(k)
    ELSE \E j : FirstIn(e.logs, k, j) /\ l = e.logs[j]

FirstTouch(b, k, i) ==
    i \in DOMAIN b /\ Touches(b[i], k) /\ \A m \in 1..(i - 1) : ~Touches(b[m], k)

(* The entries of b, undone from the last to the first on w, give every     *)
(* account of t back.                                                       *)
UndoesTo(w, b, t) ==
    \A k \in Key :
        /\ (\A i \in DOMAIN b : ~Touches(b[i], k)) =>
              Restores(LogOf(w, k), LogOf(t, k))
        /\ \A i, l : FirstTouch(b, k, i) /\ Gives(b[i], k, l) =>
              Restores(l, LogOf(t, k))

LEMMA UndoesNothing == ASSUME NEW w PROVE UndoesTo(w, <<>>, w)
BY DEF UndoesTo, FirstTouch, Restores

LEMMA RestoredFirst ==
    ASSUME NEW w, NEW w2, NEW b, NEW t, UndoesTo(w, b, t),
           \A k \in Key : Restores(LogOf(w2, k), LogOf(w, k))
    PROVE  UndoesTo(w2, b, t)
<1> SUFFICES ASSUME NEW k \in Key, \A i \in DOMAIN b : ~Touches(b[i], k)
             PROVE  Restores(LogOf(w2, k), LogOf(t, k))
  BY DEF UndoesTo
<1>1. Restores(LogOf(w, k), LogOf(t, k)) /\ Restores(LogOf(w2, k), LogOf(w, k))
  BY DEF UndoesTo
<1> QED
  BY <1>1, RestoresTwice

(* w becomes w2, and e remembers what was there. *)
Records(w, e, w2) ==
    \A k \in Key :
        /\ ~Touches(e, k) => LogOf(w2, k) = LogOf(w, k)
        /\ \A l : Touches(e, k) /\ Gives(e, k, l) => l = LogOf(w, k)

LEMMA EntryDone ==
    ASSUME NEW w, NEW w2, NEW t, NEW b \in Seq(GoodEntry), NEW e \in GoodEntry,
           UndoesTo(w, b, t), Records(w, e, w2)
    PROVE  UndoesTo(w2, Append(b, e), t)
<1> DEFINE b2 == Append(b, e)
           n == Len(b)
<1>1. /\ n \in Nat /\ DOMAIN b = 1..n /\ DOMAIN b2 = 1..(n + 1)
      /\ \A i \in 1..n : b2[i] = b[i]
      /\ b2[n + 1] = e
  BY AppendedTo
<1> HIDE DEF b2, n
<1>2. ASSUME NEW k \in Key, \A i \in DOMAIN b2 : ~Touches(b2[i], k)
      PROVE  Restores(LogOf(w2, k), LogOf(t, k))
  <2>1. \A i \in DOMAIN b : ~Touches(b[i], k)
    <3> SUFFICES ASSUME NEW i \in DOMAIN b PROVE ~Touches(b[i], k)
      OBVIOUS
    <3>1. i \in DOMAIN b2 /\ b2[i] = b[i]
      BY <1>1
    <3> QED
      BY <1>2, <3>1
  <2>2. ~Touches(e, k)
    <3>1. n + 1 \in DOMAIN b2
      BY <1>1
    <3> QED
      BY <1>1, <1>2, <3>1
  <2>3. LogOf(w2, k) = LogOf(w, k)
    BY <2>2 DEF Records
  <2> QED
    BY <2>1, <2>3 DEF UndoesTo
<1>3. ASSUME NEW k \in Key, NEW i, NEW l, FirstTouch(b2, k, i), Gives(b2[i], k, l)
      PROVE  Restores(l, LogOf(t, k))
  <2>1. i \in 1..(n + 1) /\ Touches(b2[i], k) /\ \A m \in 1..(i - 1) : ~Touches(b2[m], k)
    BY <1>1, <1>3 DEF FirstTouch
  <2>2. CASE i = n + 1
    <3>1. \A m \in DOMAIN b : ~Touches(b[m], k)
      <4> SUFFICES ASSUME NEW m \in DOMAIN b PROVE ~Touches(b[m], k)
        OBVIOUS
      <4>1. m \in 1..(i - 1) /\ b2[m] = b[m]
        BY <1>1, <2>2
      <4> QED
        BY <2>1, <4>1
    <3>2. b2[i] = e
      BY <1>1, <2>2
    <3>3. l = LogOf(w, k)
      BY <1>3, <2>1, <3>2 DEF Records
    <3> QED
      BY <3>1, <3>3 DEF UndoesTo
  <2>3. CASE i # n + 1
    <3>1. i \in DOMAIN b /\ b2[i] = b[i]
      BY <1>1, <2>1, <2>3
    <3>2. \A m \in 1..(i - 1) : ~Touches(b[m], k)
      <4> SUFFICES ASSUME NEW m \in 1..(i - 1) PROVE ~Touches(b[m], k)
        OBVIOUS
      <4>1. b2[m] = b[m]
        BY <1>1, <3>1
      <4> QED
        BY <2>1, <4>1
    <3>3. FirstTouch(b, k, i)
      BY <2>1, <3>1, <3>2 DEF FirstTouch
    <3> QED
      BY <1>3, <3>1, <3>3 DEF UndoesTo
  <2> QED
    BY <2>2, <2>3
<1> QED
  BY <1>2, <1>3 DEF UndoesTo, b2

(* w becomes w2 and the last entry is undone. *)
TakesBack(w, e, w2) ==
    \A k \in Key :
        /\ ~Touches(e, k) => Restores(LogOf(w2, k), LogOf(w, k))
        /\ Touches(e, k) => \E l : Gives(e, k, l) /\ Restores(LogOf(w2, k), l)

LEMMA EntryUndone ==
    ASSUME NEW w, NEW w2, NEW t, NEW b \in Seq(GoodEntry), b # <<>>,
           UndoesTo(w, b, t), TakesBack(w, Last(b), w2)
    PROVE  UndoesTo(w2, Front(b), t)
<1> DEFINE c == Front(b)
           n == Len(b)
           e == Last(b)
<1>1. /\ n \in Nat \ {0} /\ DOMAIN b = 1..n /\ DOMAIN c = 1..(n - 1)
      /\ \A i \in 1..(n - 1) : c[i] = b[i]
      /\ b[n] = e
  BY FrontAndLast
<1> HIDE DEF c, n, e
<1>2. ASSUME NEW k \in Key, \A i \in DOMAIN c : ~Touches(c[i], k)
      PROVE  Restores(LogOf(w2, k), LogOf(t, k))
  <2>1. \A i \in 1..(n - 1) : ~Touches(b[i], k)
    BY <1>1, <1>2
  <2>2. CASE Touches(e, k)
    <3>1. PICK l : Gives(e, k, l) /\ Restores(LogOf(w2, k), l)
      BY <2>2 DEF TakesBack, e
    <3>2. FirstTouch(b, k, n)
      BY <1>1, <2>1, <2>2 DEF FirstTouch
    <3>3. Restores(l, LogOf(t, k))
      BY <1>1, <3>1, <3>2 DEF UndoesTo
    <3> QED
      BY <3>1, <3>3, RestoresTwice
  <2>3. CASE ~Touches(e, k)
    <3>1. \A i \in DOMAIN b : ~Touches(b[i], k)
      <4> SUFFICES ASSUME NEW i \in DOMAIN b PROVE ~Touches(b[i], k)
        OBVIOUS
      <4>1. i = n \/ i \in 1..(n - 1)
        BY <1>1
      <4> QED
        BY <1>1, <2>1, <2>3, <4>1
    <3>2. Restores(LogOf(w, k), LogOf(t, k))
      BY <3>1 DEF UndoesTo
    <3>3. Restores(LogOf(w2, k), LogOf(w, k))
      BY <2>3 DEF TakesBack, e
    <3> QED
      BY <3>2, <3>3, RestoresTwice
  <2> QED
    BY <2>2, <2>3
<1>3. ASSUME NEW k \in Key, NEW i, NEW l, FirstTouch(c, k, i), Gives(c[i], k, l)
      PROVE  Restores(l, LogOf(t, k))
  <2>1. i \in DOMAIN b /\ c[i] = b[i] /\ i \in 1..(n - 1)
    BY <1>1, <1>3 DEF FirstTouch
  <2>2. \A m \in 1..(i - 1) : c[m] = b[m]
    BY <1>1, <2>1
  <2>3. FirstTouch(b, k, i)
    BY <1>3, <2>1, <2>2 DEF FirstTouch
  <2> QED
    BY <1>3, <2>1, <2>3 DEF UndoesTo
<1> QED
  BY <1>2, <1>3 DEF UndoesTo, c

(* One log of the last entry is taken back, others are left in it. *)
LEMMA LogUndone ==
    ASSUME NEW w, NEW w2, NEW t, NEW b \in Seq(GoodEntry), b # <<>>,
           NEW b2, DOMAIN b2 = DOMAIN b,
           \A i \in DOMAIN b : i # Len(b) => b2[i] = b[i],
           Last(b).type \in ByLogs, b2[Len(b)].type \in ByLogs,
           b2[Len(b)].logs = Front(Last(b).logs),
           UndoesTo(w, b, t),
           NEW l, l = Last(Last(b).logs),
           Restores(LogOf(w2, l.key), l),
           \A k \in Key : k # l.key => LogOf(w2, k) = LogOf(w, k)
    PROVE  UndoesTo(w2, b2, t)
<1> DEFINE n == Len(b)
           e == Last(b)
           e2 == b2[n]
<1>1. /\ n \in Nat \ {0} /\ DOMAIN b = 1..n /\ b[n] = e /\ e \in GoodEntry
  BY FrontAndLast
<1> DEFINE q == Len(e.logs)
<1>2. /\ q \in Nat \ {0} /\ DOMAIN e.logs = 1..q /\ e.logs[q] = l
      /\ DOMAIN e2.logs = 1..(q - 1)
      /\ \A j \in 1..(q - 1) : e2.logs[j] = e.logs[j]
  <2>1. e.logs \in Seq(Log) /\ e.logs # <<>>
    BY <1>1 DEF GoodEntry, Entry
  <2> QED
    BY <2>1, FrontAndLast
<1>3. /\ \A k : Touches(e, k) <=> \E j \in 1..q : e.logs[j].key = k
      /\ \A k : Touches(e2, k) <=> \E j \in 1..(q - 1) : e.logs[j].key = k
      /\ \A k, m : Gives(e, k, m) <=> \E j : FirstIn(e.logs, k, j) /\ m = e.logs[j]
      /\ \A k, m : Gives(e2, k, m) <=> \E j : FirstIn(e2.logs, k, j) /\ m = e2.logs[j]
  <2>1. e.type \notin Registering /\ e2.type \notin Registering
    BY DEF ByLogs, Registering
  <2> HIDE DEF e, e2, q
  <2>2. \A k : Touches(e2, k) <=> \E j \in 1..(q - 1) : e2.logs[j].key = k
    BY <1>2, <2>1 DEF Touches, Unlogged, Registering
  <2>3. \A k : Touches(e, k) <=> \E j \in 1..q : e.logs[j].key = k
    BY <1>2, <2>1 DEF Touches, Unlogged, Registering
  <2>4. \A k, m : Gives(e, k, m) <=> \E j : FirstIn(e.logs, k, j) /\ m = e.logs[j]
    BY <2>1 DEF Gives, Registering
  <2>5. \A k, m : Gives(e2, k, m) <=> \E j : FirstIn(e2.logs, k, j) /\ m = e2.logs[j]
    BY <2>1 DEF Gives, Registering
  <2> QED
    BY <1>2, <2>2, <2>3, <2>4, <2>5
<1> HIDE DEF e, e2, q
<1>4. \A k, m : Gives(e2, k, m) => Gives(e, k, m)
  <2> SUFFICES ASSUME NEW k, NEW j, FirstIn(e2.logs, k, j)
               PROVE  FirstIn(e.logs, k, j) /\ e2.logs[j] = e.logs[j]
    BY <1>3
  <2>1. j \in 1..(q - 1) /\ j \in 1..q /\ e2.logs[j] = e.logs[j]
        /\ \A i \in 1..(j - 1) : i \in 1..(q - 1) /\ e2.logs[i].key # k
    BY <1>2 DEF FirstIn
  <2> QED
    BY <1>2, <2>1 DEF FirstIn
<1>5. \A k : Touches(e2, k) => Touches(e, k)
  BY <1>2, <1>3
<1>6. \A k : ~Touches(e2, k) /\ k # l.key => ~Touches(e, k)
  <2> SUFFICES ASSUME NEW k, NEW j \in 1..q, e.logs[j].key = k, k # l.key
               PROVE  Touches(e2, k)
    BY <1>3
  <2>1. j # q
    BY <1>2
  <2> QED
    BY <1>2, <1>3, <2>1
<1>7. ~Touches(e2, l.key) => Touches(e, l.key) /\ Gives(e, l.key, l)
  <2> SUFFICES ASSUME ~Touches(e2, l.key) PROVE Touches(e, l.key) /\ Gives(e, l.key, l)
    OBVIOUS
  <2>1. \A i \in 1..(q - 1) : e.logs[i].key # l.key
    BY <1>3
  <2>2. q \in 1..q /\ FirstIn(e.logs, l.key, q)
    BY <1>2, <2>1 DEF FirstIn
  <2> QED
    BY <1>2, <1>3, <2>2
<1>8. ASSUME NEW k \in Key, \A i \in DOMAIN b2 : ~Touches(b2[i], k)
      PROVE  Restores(LogOf(w2, k), LogOf(t, k))
  <2>1. ~Touches(e2, k) /\ \A i \in 1..(n - 1) : ~Touches(b[i], k)
    <3>1. n \in DOMAIN b2
      BY <1>1
    <3>2. \A i \in 1..(n - 1) : i \in DOMAIN b2 /\ b2[i] = b[i]
      BY <1>1
    <3> QED
      BY <1>8, <3>1, <3>2 DEF e2
  <2>2. CASE k = l.key
    <3>1. FirstTouch(b, k, n)
      BY <1>1, <1>7, <2>1, <2>2 DEF FirstTouch
    <3>2. Restores(l, LogOf(t, k))
      BY <1>1, <1>7, <2>1, <2>2, <3>1 DEF UndoesTo
    <3> QED
      BY <2>2, <3>2, RestoresTwice
  <2>3. CASE k # l.key
    <3>1. \A i \in DOMAIN b : ~Touches(b[i], k)
      <4> SUFFICES ASSUME NEW i \in DOMAIN b PROVE ~Touches(b[i], k)
        OBVIOUS
      <4>1. i = n \/ i \in 1..(n - 1)
        BY <1>1
      <4> QED
        BY <1>1, <1>6, <2>1, <2>3, <4>1
    <3>2. Restores(LogOf(w, k), LogOf(t, k))
      BY <3>1 DEF UndoesTo
    <3> QED
      BY <2>3, <3>2
  <2> QED
    BY <2>2, <2>3
<1>9. ASSUME NEW k \in Key, NEW i, NEW m, FirstTouch(b2, k, i), Gives(b2[i], k, m)
      PROVE  Restores(m, LogOf(t, k))
  <2>1. i \in 1..n /\ Touches(b2[i], k) /\ \A j \in 1..(i - 1) : ~Touches(b2[j], k)
    BY <1>1, <1>9 DEF FirstTouch
  <2>2. \A j \in 1..(i - 1) : ~Touches(b[j], k)
    <3> SUFFICES ASSUME NEW j \in 1..(i - 1) PROVE ~Touches(b[j], k)
      OBVIOUS
    <3>1. b2[j] = b[j]
      BY <1>1, <2>1
    <3> QED
      BY <2>1, <3>1
  <2>3. Touches(b[i], k) /\ Gives(b[i], k, m)
    <3>1. CASE i = n
      BY <1>1, <1>4, <1>5, <1>9, <2>1, <3>1 DEF e2
    <3>2. CASE i # n
      BY <1>1, <1>9, <2>1, <3>2
    <3> QED
      BY <3>1, <3>2
  <2>4. FirstTouch(b, k, i)
    BY <1>1, <2>1, <2>2, <2>3 DEF FirstTouch
  <2> QED
    BY <2>3, <2>4 DEF UndoesTo
<1> QED
  BY <1>8, <1>9 DEF UndoesTo

-----------------------------------------------------------------------------
(* Running the writes of a transaction.                                    *)

(* The account of an app is there only while its id names it. *)
Named(w) ==
    \A id \in Id :
        /\ w.acct[id] # None => w.ids[id] = id
        /\ w.ids[id] \in Id => w.ids[id] = id

AtMost(w, h) == \A k \in Key : Held(w, k).height <= h

(* One account is written, whose log was taken before. *)
Writes(w, k, w2) ==
    /\ w \in World /\ w2 \in World /\ k \in Key
    /\ w2.ids = w.ids
    /\ \A x \in Key : x # k => w2.acct[x] = w.acct[x]
    /\ w.acct[k] # None \/ k \in User \/ w.ids[k] = k
    /\ Held(w, k).height <= Height => Held(w2, k).height <= Height

Recorded(w, logs, w2) ==
    \A k \in Key :
        /\ (\A j \in DOMAIN logs : logs[j].key # k) => LogOf(w2, k) = LogOf(w, k)
        /\ \A j : FirstIn(logs, k, j) => logs[j] = LogOf(w, k)

(* Some accounts are written, each with its log. *)
Run(w, logs, w2) ==
    /\ w2 \in World /\ logs \in Seq(Log)
    /\ w2.ids = w.ids
    /\ Recorded(w, logs, w2)
    /\ Named(w) => Named(w2)
    /\ AtMost(w, Height) => AtMost(w2, Height)

LEMMA SameLog ==
    ASSUME NEW w, NEW w2, NEW k, w2.acct[k] = w.acct[k]
    PROVE  Held(w2, k) = Held(w, k) /\ LogOf(w2, k) = LogOf(w, k)
BY DEF Held, LogOf

LEMMA WriteKeeps ==
    ASSUME NEW w, NEW k, NEW w2, Writes(w, k, w2)
    PROVE  /\ Named(w) => Named(w2)
           /\ AtMost(w, Height) => AtMost(w2, Height)
           /\ \A x \in Key : x # k => LogOf(w2, x) = LogOf(w, x)
<1>1. \A x \in Key : x # k => Held(w2, x) = Held(w, x) /\ LogOf(w2, x) = LogOf(w, x)
  BY SameLog DEF Writes
<1>2. Named(w) => Named(w2)
  BY Ids DEF Writes, Named
<1>3. AtMost(w, Height) => AtMost(w2, Height)
  BY <1>1 DEF Writes, AtMost
<1> QED
  BY <1>1, <1>2, <1>3

LEMMA RunNothing == ASSUME NEW w \in World PROVE Run(w, <<>>, w)
BY DEF Run, Recorded, FirstIn

LEMMA RunMore ==
    ASSUME NEW w, NEW logs, NEW w1, NEW k, NEW w2, Run(w, logs, w1), Writes(w1, k, w2)
    PROVE  Run(w, Append(logs, LogOf(w1, k)), w2)
<1> DEFINE l == LogOf(w1, k)
           more == Append(logs, l)
           n == Len(logs)
<1>1. /\ w1 \in World /\ w2 \in World /\ k \in Key /\ logs \in Seq(Log)
      /\ l \in Log /\ l.key = k
      /\ w2.ids = w.ids
  <2>1. w1 \in World /\ k \in Key
    BY DEF Writes
  <2> QED
    BY <2>1, LogOfType DEF Run, Writes, LogOf
<1>2. /\ more \in Seq(Log) /\ n \in Nat
      /\ DOMAIN logs = 1..n /\ DOMAIN more = 1..(n + 1)
      /\ \A i \in 1..n : more[i] = logs[i]
      /\ more[n + 1] = l
  BY <1>1, AppendedTo
<1>3. /\ Named(w) => Named(w2)
      /\ AtMost(w, Height) => AtMost(w2, Height)
      /\ \A x \in Key : x # k => LogOf(w2, x) = LogOf(w1, x)
  BY WriteKeeps DEF Run
<1> HIDE DEF l, more, n
<1>4. Recorded(w, more, w2)
  <2>1. ASSUME NEW x \in Key, \A j \in DOMAIN more : more[j].key # x
        PROVE  LogOf(w2, x) = LogOf(w, x)
    <3>1. x # k
      <4>1. n + 1 \in DOMAIN more
        BY <1>2
      <4> QED
        BY <1>1, <1>2, <2>1, <4>1
    <3>2. \A j \in DOMAIN logs : logs[j].key # x
      <4> SUFFICES ASSUME NEW j \in DOMAIN logs PROVE logs[j].key # x
        OBVIOUS
      <4>1. j \in DOMAIN more /\ more[j] = logs[j]
        BY <1>2
      <4> QED
        BY <2>1, <4>1
    <3>3. LogOf(w1, x) = LogOf(w, x)
      BY <3>2 DEF Run, Recorded
    <3> QED
      BY <1>3, <3>1, <3>3
  <2>2. ASSUME NEW x \in Key, NEW j, FirstIn(more, x, j)
        PROVE  more[j] = LogOf(w, x)
    <3>1. j \in 1..(n + 1) /\ more[j].key = x /\ \A i \in 1..(j - 1) : more[i].key # x
      BY <1>2, <2>2 DEF FirstIn
    <3>2. CASE j = n + 1
      <4>1. \A i \in DOMAIN logs : logs[i].key # x
        <5> SUFFICES ASSUME NEW i \in DOMAIN logs PROVE logs[i].key # x
          OBVIOUS
        <5>1. i \in 1..(j - 1) /\ more[i] = logs[i]
          BY <1>2, <3>2
        <5> QED
          BY <3>1, <5>1
      <4>2. LogOf(w1, x) = LogOf(w, x)
        BY <4>1 DEF Run, Recorded
      <4>3. more[j] = l /\ x = k
        BY <1>1, <1>2, <3>1, <3>2
      <4> QED
        BY <4>2, <4>3 DEF l
    <3>3. CASE j # n + 1
      <4>1. j \in DOMAIN logs /\ more[j] = logs[j]
        BY <1>2, <3>1, <3>3
      <4>2. \A i \in 1..(j - 1) : logs[i].key # x
        <5> SUFFICES ASSUME NEW i \in 1..(j - 1) PROVE logs[i].key # x
          OBVIOUS
        <5>1. more[i] = logs[i]
          BY <1>2, <4>1
        <5> QED
          BY <3>1, <5>1
      <4>3. FirstIn(logs, x, j)
        BY <3>1, <4>1, <4>2 DEF FirstIn
      <4> QED
        BY <4>1, <4>3 DEF Run, Recorded
    <3> QED
      BY <3>2, <3>3
  <2> QED
    BY <2>1, <2>2 DEF Recorded
<1> QED
  BY <1>1, <1>2, <1>3, <1>4 DEF Run, more, l

LEMMA HeightGrows ==
    ASSUME NEW a \in Account, NEW h \in Nat, a.height <= h
    PROVE  UpDateCoinDay(a, h) \in Account /\ UpDateCoinDay(a, h).height <= h
<1>1. UpDateCoinDay(a, h) \in Account
  BY CoinDaysGrow
<1>2. UpDateCoinDay(a, h).height <= h
  <2> DEFINE coin == LET grown == (a.coin + a.value * (h - a.height)) % Width
                         most == (a.value * MaxDay) % Width
                     IN IF grown > most THEN most ELSE grown
  <2>1. UpDateCoinDay(a, h) =
            IF h <= a.height THEN a ELSE [a EXCEPT !.coin = coin, !.height = h]
    BY DEF UpDateCoinDay
  <2> HIDE DEF coin
  <2> QED
    BY <2>1 DEF Account
<1> QED
  BY <1>1, <1>2

LEMMA HeightsOfOperations ==
    ASSUME NEW a \in Account, NEW v \in Nat, NEW h \in Nat, a.height <= h
    PROVE  /\ Plus(a, v, h).height <= h
           /\ Minus(a, v, h).height <= h
           /\ ClearAccPos(a, h).height <= h
<1> DEFINE b == UpDateCoinDay(a, h)
           coin == RemainCoinDay(b, v, h)
<1>1. b \in Account /\ b.height <= h
  BY HeightGrows
<1>2. /\ Plus(a, v, h) = [b EXCEPT !.value = b.value + v]
      /\ Minus(a, v, h) = IF v = 0 THEN b ELSE [b EXCEPT !.value = b.value - v, !.coin = coin]
      /\ ClearAccPos(a, h) = [b EXCEPT !.coin = 0]
  BY DEF Plus, Minus, ClearAccPos
<1> HIDE DEF b, coin
<1> QED
  BY <1>1, <1>2 DEF Account

LEMMA SetWrites ==
    ASSUME NEW w \in World, NEW k \in Key, NEW a \in Account,
           w.acct[k] # None \/ k \in User \/ w.ids[k] = k,
           Held(w, k).height <= Height => a.height <= Height
    PROVE  /\ Writes(w, k, SetAccount(w, k, a))
           /\ Held(SetAccount(w, k, a), k) = a
<1> DEFINE w2 == SetAccount(w, k, a)
<1>1. /\ w2 \in World /\ w2.ids = w.ids /\ w2.acct[k] = a
      /\ \A x \in Key : x # k => w2.acct[x] = w.acct[x]
  BY SetAccountType
<1> HIDE DEF w2
<1>2. Held(w2, k) = a
  BY <1>1, Ids DEF Held
<1> QED
  BY <1>1, <1>2 DEF Writes, w2

LEMMA CreditWrites ==
    ASSUME NEW w \in World, NEW k \in Key, NEW v \in Nat, Height \in Nat,
           w.acct[k] # None \/ k \in User \/ w.ids[k] = k
    PROVE  /\ Writes(w, k, Credit(w, k, v))
           /\ ValueOf(Credit(w, k, v), k) = ValueOf(w, k) + v
<1> DEFINE a == Plus(Held(w, k), v, Height)
<1>1. Held(w, k) \in Account
  BY HeldType
<1>2. /\ a \in Account /\ a.value = Held(w, k).value + v
      /\ Held(w, k).height <= Height => a.height <= Height
  BY <1>1, PlusType, HeightsOfOperations
<1>3. Credit(w, k, v) = SetAccount(w, k, a)
  BY DEF Credit
<1> HIDE DEF a
<1> QED
  BY <1>2, <1>3, SetWrites DEF ValueOf

LEMMA DebitWrites ==
    ASSUME NEW w \in World, NEW k \in Key, w.acct[k] # None,
           NEW v \in Nat, v <= w.acct[k].value, Height \in Nat
    PROVE  /\ Writes(w, k, Debit(w, k, v))
           /\ ValueOf(Debit(w, k, v), k) = ValueOf(w, k) - v
<1> DEFINE a == Minus(w.acct[k], v, Height)
<1>1. w.acct[k] \in Account /\ Held(w, k) = w.acct[k]
  BY HeldType DEF Held
<1>2. /\ a \in Account /\ a.value = Held(w, k).value - v
      /\ Held(w, k).height <= Height => a.height <= Height
  BY <1>1, MinusType, HeightsOfOperations
<1>3. Debit(w, k, v) = SetAccount(w, k, a)
  BY DEF Debit
<1> HIDE DEF a
<1> QED
  BY <1>2, <1>3, SetWrites DEF ValueOf

(* The key an id names is a user's, or the id itself. *)
LEMMA KeyOfIsNamed ==
    ASSUME NEW w \in World, Named(w), NEW u \in Key, KeyOf(w, u) \in Key
    PROVE  KeyOf(w, u) \in User \/ w.ids[KeyOf(w, u)] = KeyOf(w, u)
<1>1. CASE u \in Id
  BY <1>1, Ids DEF KeyOf, Named, Key
<1>2. CASE u \notin Id
  BY <1>2 DEF KeyOf, Key
<1> QED
  BY <1>1, <1>2

(* A run is what an entry without registration remembers. *)
LEMMA RunIsRecord ==
    ASSUME NEW w, NEW w2, NEW e, e.type \notin Registering, Run(w, e.logs, w2)
    PROVE  Records(w, e, w2)
<1>1. \A k : Touches(e, k) <=> \E j \in DOMAIN e.logs : e.logs[j].key = k
  BY DEF Touches, Unlogged, Registering
<1>2. \A k, l : Gives(e, k, l) => \E j : FirstIn(e.logs, k, j) /\ l = e.logs[j]
  BY DEF Gives, Registering
<1> QED
  BY <1>1, <1>2 DEF Run, Recorded, Records

-----------------------------------------------------------------------------
(* The second inductive invariant: what undo finds.                        *)

(* The view of the tip after block i of the chain. *)
After(i) == IF i = Len(chain) THEN tip ELSE before[i + 1]

HistoryInv ==
    /\ Named(tip) /\ Named(view)
    /\ AtMost(tip, Len(chain))
    /\ \A i \in DOMAIN before : AtMost(before[i], i - 1)
    /\ \A i \in DOMAIN chain : UndoesTo(After(i), chain[i], before[i])
    /\ mode \in {"connect", "rewarded"} => AtMost(view, Height) /\ UndoesTo(view, block, tip)
    /\ mode = "undo" => UndoesTo(view, block, Last(before))

LEMMA GenesisWrites ==
    /\ \A k \in Key : k \notin User => GenesisWorld.acct[k] = None
    /\ \A id \in Id : GenesisWorld.ids[id] \notin Id
    /\ \A k \in Key : Held(GenesisWorld, k).height = 0
<1>1. Genesis \in Seq([key : User, value : Nat]) /\ DOMAIN Genesis = 1..Len(Genesis)
      /\ \A i \in DOMAIN Genesis : Genesis[i].key \in User
  <2>1. \A i \in 1..Len(Genesis) : Genesis[i] \in [key : User, value : Nat]
    BY LedgerGenesis, ElementOfSeq
  <2> QED
    BY <2>1, LedgerGenesis, LenProperties
<1>2. \A k \in Key : \/ GenesisWorld.acct[k] = None
                     \/ /\ k \in User
                        /\ \E i, v : GenesisWorld.acct[k] =
                              [NewAccount EXCEPT !.value = v, !.pub = TRUE, !.reg = <<0, i>>]
  BY <1>1 DEF GenesisWorld
<1>3. \A id \in Id : GenesisWorld.ids[id] \notin Id
  <2>1. GenesisWorld.ids = [id \in Id |-> IF id[1] = 0 /\ id[2] \in DOMAIN Genesis
                                          THEN Genesis[id[2]].key ELSE None]
    BY DEF GenesisWorld
  <2> QED
    BY <1>1, <2>1, Ids
<1>4. \A i, v : [NewAccount EXCEPT !.value = v, !.pub = TRUE, !.reg = <<0, i>>].height = 0
  BY DEF NewAccount
<1>5. NewAccount.height = 0
  BY DEF NewAccount
<1>6. ASSUME NEW k \in Key PROVE Held(GenesisWorld, k).height = 0
  <2>1. CASE GenesisWorld.acct[k] = None
    BY <1>5, <2>1 DEF Held
  <2>2. CASE GenesisWorld.acct[k] # None
    <3>1. PICK i, v : GenesisWorld.acct[k] =
              [NewAccount EXCEPT !.value = v, !.pub = TRUE, !.reg = <<0, i>>]
      BY <1>2, <2>2
    <3>2. GenesisWorld.acct[k].height = 0
      BY <1>4, <3>1
    <3> QED
      BY <2>2, <3>2 DEF Held
  <2> QED
    BY <2>1, <2>2
<1>7. \A k \in Key : k \notin User => GenesisWorld.acct[k] = None
  BY <1>2
<1> QED
  BY <1>3, <1>6, <1>7

LEMMA HistoryInit == Init => HistoryInv
<1> SUFFICES ASSUME Init PROVE HistoryInv
  OBVIOUS
<1>1. /\ tip = GenesisWorld /\ view = GenesisWorld /\ chain = <<>> /\ before = <<>>
      /\ mode = "idle"
  BY DEF Init
<1>2. Named(GenesisWorld) /\ AtMost(GenesisWorld, 0)
  BY GenesisWrites, Ids DEF Named, AtMost
<1> QED
  BY <1>1, <1>2 DEF HistoryInv

(* A transaction of the block executed. *)
LEMMA ExecutedRemembers ==
    ASSUME LedgerInv, HistoryInv, mode = "connect",
           NEW w, NEW e \in GoodEntry, Executed(w, e),
           Records(view, e, w), Named(w), AtMost(w, Height)
    PROVE  HistoryInv'
<1>1. /\ view' = w /\ block' = Append(block, e)
      /\ tip' = tip /\ chain' = chain /\ before' = before /\ mode' = mode
  BY DEF Executed
<1>2. UndoesTo(w, Append(block, e), tip)
  BY EntryDone DEF HistoryInv, LedgerInv
<1>3. /\ \A i \in DOMAIN chain' : After(i)' = After(i)
      /\ Height' = Height
  BY <1>1 DEF After, Height
<1> QED
  BY <1>1, <1>2, <1>3 DEF HistoryInv

LEMMA RunRemembers ==
    ASSUME LedgerInv, HistoryInv, mode = "connect",
           NEW w, NEW e \in GoodEntry, Executed(w, e),
           e.type \notin Registering, Run(view, e.logs, w)
    PROVE  HistoryInv'
<1>1. Records(view, e, w) /\ Named(w) /\ AtMost(w, Height)
  BY RunIsRecord DEF HistoryInv, Run
<1> QED
  BY <1>1, ExecutedRemembers

LEMMA TransferRemembers ==
    ASSUME LedgerInv, HistoryInv, mode = "connect",
           NEW src \in Registered, NEW des \in User \cup Registered,
           NEW v \in Amount, NEW fee \in Fee, Transfer(src, des, v, fee)
    PROVE  HistoryInv'
<1> DEFINE from == view.ids[src]
           w == Debit(view, from, v + fee)
           to == KeyOf(w, des)
           w2 == Credit(w, to, v)
           logs == <<LogOf(view, from), LogOf(w, to)>>
           e == [type |-> "common", id |-> None, user |-> from, fee |-> fee,
                 fuel |-> 0, logs |-> logs]
<1>1. v \in Nat /\ fee \in Nat /\ v + fee \in Nat /\ view \in World /\ Height \in Nat
  BY Numbers, Heights
<1>2. /\ MaySend(src, v + fee)
      /\ Has(w, des) \/ des \in User
      /\ Executed(w2, e)
  BY DEF Transfer
<1>3. /\ from \in Key /\ view.acct[from] \in Account /\ view.acct[from] # None
      /\ v + fee <= view.acct[from].value
  BY <1>1, <1>2, SenderCanPay, Ids
<1> HIDE DEF w2, e, to, logs, from
<1>4. Writes(view, from, w)
  BY <1>1, <1>3, DebitWrites
<1> HIDE DEF w
<1>5. /\ to \in Key /\ w \in World
      /\ to \in User \/ w.ids[to] = to
  <2>1. des \in Key
    BY Ids DEF Registered
  <2>2. w \in World /\ Named(w)
    BY <1>4, WriteKeeps DEF Writes, HistoryInv
  <2> QED
    BY <1>2, <2>1, <2>2, KeyOfType, KeyOfIsNamed DEF to
<1>6. Writes(w, to, w2)
  BY <1>1, <1>5, CreditWrites DEF w2
<1>7. Run(view, logs, w2)
  <2> DEFINE l1 == LogOf(view, from)
             l2 == LogOf(w, to)
  <2>1. Run(view, <<>>, view)
    BY <1>1, RunNothing
  <2>2. Run(view, Append(<<>>, l1), w)
    BY <1>4, <2>1, RunMore
  <2>3. Run(view, Append(Append(<<>>, l1), l2), w2)
    BY <1>6, <2>2, RunMore
  <2>4. logs = Append(Append(<<>>, l1), l2)
    BY DEF logs
  <2> QED
    BY <2>3, <2>4
<1>8. e \in GoodEntry /\ e.type \notin Registering /\ e.logs = logs
  <2>1. logs \in Seq(Log) /\ logs # <<>>
    <3>1. logs \in Seq(Log)
      BY <1>7 DEF Run
    <3> QED
      BY <3>1 DEF logs
  <2> QED
    BY <1>1, <1>3, <2>1 DEF e, GoodEntry, Entry, Registering
<1> QED
  BY <1>2, <1>7, <1>8, RunRemembers

LEMMA ContractRemembers ==
    ASSUME LedgerInv, HistoryInv, mode = "connect",
           NEW src \in Registered, NEW app \in view.scripts,
           NEW to \in User \cup Registered \cup {None},
           NEW v \in Amount, NEW pay \in Amount, NEW fee \in Fee, NEW fuel \in Fee,
           Contract(src, app, v, fee, fuel, to, pay)
    PROVE  HistoryInv'
<1> DEFINE from == view.ids[src]
           owner == view.ids[app]
           w1 == Debit(view, from, v + fee)
           w2 == Credit(w1, owner, v)
           w3 == Debit(w2, owner, pay)
           k == KeyOf(view, to)
           w4 == Credit(w3, k, pay)
           l1 == LogOf(view, from)
           l2 == LogOf(w1, owner)
           l3 == LogOf(w2, owner)
           l4 == LogOf(w3, k)
           entry(logs) == [type |-> "contract", id |-> None, user |-> from, fee |-> fee,
                           fuel |-> fuel, logs |-> <<l1, l2>> \o logs]
<1>1. /\ v \in Nat /\ pay \in Nat /\ fee \in Nat /\ fuel \in Nat /\ v + fee \in Nat
      /\ view \in World /\ Height \in Nat /\ Named(view)
  BY Numbers, Heights DEF HistoryInv
<1>2. /\ MaySend(src, v + fee)
      /\ Has(view, app)
      /\ fuel < fee
      /\ IF to = None
         THEN Executed(w2, entry(<<>>))
         ELSE /\ Affordable(w2.acct[owner], pay)
              /\ Has(view, to) \/ to \in User
              /\ Executed(w4, entry(<<l3, l4>>))
  BY DEF Contract
<1> HIDE DEF l1, l2, l3, l4, w4, w3, w2, k, entry
<1>3. /\ from \in Key /\ view.acct[from] \in Account /\ view.acct[from] # None
      /\ v + fee <= view.acct[from].value
  BY <1>1, <1>2, SenderCanPay, Ids
<1>4. Writes(view, from, w1)
  BY <1>1, <1>3, DebitWrites
<1> HIDE DEF w1
<1>5. owner \in Key /\ (owner \in User \/ view.ids[owner] = owner)
  <2>1. app \in Id /\ app \in Key
    BY <1>1, Ids DEF World
  <2>2. KeyOf(view, app) = owner
    BY <2>1 DEF KeyOf
  <2>3. owner \in Key
    BY <1>1, <1>2, <2>1, <2>2, KeyOfType
  <2> QED
    BY <1>1, <2>1, <2>2, <2>3, KeyOfIsNamed
<1> HIDE DEF from, owner
<1>6. Writes(w1, owner, w2) /\ w1.ids = view.ids
  <2>1. w1 \in World /\ w1.ids = view.ids
    BY <1>4 DEF Writes
  <2> QED
    BY <1>1, <1>5, <2>1, CreditWrites DEF w2
<1>7. Run(view, <<l1, l2>>, w2)
  <2>1. Run(view, <<>>, view)
    BY <1>1, RunNothing
  <2>2. Run(view, Append(<<>>, l1), w1)
    BY <1>4, <2>1, RunMore DEF l1
  <2>3. Run(view, Append(Append(<<>>, l1), l2), w2)
    BY <1>6, <2>2, RunMore DEF l2
  <2>4. <<l1, l2>> = Append(Append(<<>>, l1), l2)
    OBVIOUS
  <2> QED
    BY <2>3, <2>4
<1>8. \A logs : <<l1, l2>> \o logs \in Seq(Log) /\ <<l1, l2>> \o logs # <<>> =>
          /\ entry(logs) \in GoodEntry /\ entry(logs).type \notin Registering
          /\ entry(logs).logs = <<l1, l2>> \o logs
  <2> SUFFICES ASSUME NEW logs, <<l1, l2>> \o logs \in Seq(Log), <<l1, l2>> \o logs # <<>>
               PROVE  /\ entry(logs) \in GoodEntry /\ entry(logs).type \notin Registering
                      /\ entry(logs).logs = <<l1, l2>> \o logs
    OBVIOUS
  <2> DEFINE all == <<l1, l2>> \o logs
  <2>1. all \in Seq(Log) /\ all # <<>>
    OBVIOUS
  <2>2. entry(logs) = [type |-> "contract", id |-> None, user |-> from, fee |-> fee,
                       fuel |-> fuel, logs |-> all]
    BY DEF entry
  <2> HIDE DEF all
  <2>3. /\ entry(logs) \in GoodEntry /\ entry(logs).type \notin Registering
        /\ entry(logs).logs = all
    BY <1>1, <1>2, <1>3, <2>1, <2>2 DEF GoodEntry, Entry, Registering
  <2> QED
    BY <2>3 DEF all
<1>9. CASE to = None
  <2>1. <<l1, l2>> \o <<>> = <<l1, l2>> /\ <<l1, l2>> \in Seq(Log) /\ <<l1, l2>> # <<>>
    <3>1. <<l1, l2>> \in Seq(Log)
      BY <1>7 DEF Run
    <3> QED
      BY <3>1
  <2>2. Executed(w2, entry(<<>>))
    BY <1>2, <1>9
  <2>3. /\ entry(<<>>) \in GoodEntry /\ entry(<<>>).type \notin Registering
        /\ Run(view, entry(<<>>).logs, w2)
    BY <1>7, <1>8, <2>1
  <2> QED
    BY <2>2, <2>3, RunRemembers
<1>10. CASE to # None
  <2>1. /\ Affordable(w2.acct[owner], pay)
        /\ Has(view, to) \/ to \in User
        /\ Executed(w4, entry(<<l3, l4>>))
    BY <1>2, <1>10
  <2>2. w2 \in World /\ w2.acct[owner] # None /\ pay <= w2.acct[owner].value
    <3>1. w1 \in World
      BY <1>4 DEF Writes
    <3>2. w2 \in World /\ w2.acct[owner] \in Account
      BY <1>1, <1>5, <3>1, CreditType DEF w2
    <3> QED
      BY <2>1, <3>2, Ids DEF Affordable
  <2>3. Writes(w2, owner, w3)
    BY <1>1, <1>5, <2>2, DebitWrites DEF w3
  <2>4. k \in Key /\ (k \in User \/ view.ids[k] = k)
    <3>1. to \in Key
      BY <1>10, Ids DEF Registered
    <3> QED
      BY <1>1, <2>1, <3>1, KeyOfType, KeyOfIsNamed DEF k
  <2>5. Writes(w3, k, w4)
    <3>1. w3 \in World /\ w3.ids = view.ids
      BY <1>6, <2>3 DEF Writes
    <3> QED
      BY <1>1, <2>4, <3>1, CreditWrites DEF w4
  <2>6. Run(view, Append(Append(<<l1, l2>>, l3), l4), w4)
    <3>1. Run(view, Append(<<l1, l2>>, l3), w3)
      BY <1>7, <2>3, RunMore DEF l3
    <3> QED
      BY <2>5, <3>1, RunMore DEF l4
  <2>7. <<l1, l2>> \o <<l3, l4>> = Append(Append(<<l1, l2>>, l3), l4)
    OBVIOUS
  <2>8. /\ <<l1, l2>> \o <<l3, l4>> \in Seq(Log) /\ <<l1, l2>> \o <<l3, l4>> # <<>>
        /\ Run(view, <<l1, l2>> \o <<l3, l4>>, w4)
    <3>1. Run(view, <<l1, l2>> \o <<l3, l4>>, w4)
      BY <2>6, <2>7, Zenon
    <3>2. <<l1, l2>> \o <<l3, l4>> \in Seq(Log)
      BY <3>1 DEF Run
    <3>3. <<l1, l2>> \o <<l3, l4>> # <<>>
      OBVIOUS
    <3> QED
      BY <3>1, <3>2, <3>3
  <2>9. /\ entry(<<l3, l4>>) \in GoodEntry /\ entry(<<l3, l4>>).type \notin Registering
        /\ Run(view, entry(<<l3, l4>>).logs, w4)
    BY <1>8, <2>8
  <2> QED
    BY <2>1, <2>9, RunRemembers
<1> QED
  BY <1>9, <1>10

LEMMA RegisterRemembers ==
    ASSUME LedgerInv, HistoryInv, mode = "connect", Len(block) < MaxTxs,
           NEW k \in User, NEW fee \in Fee, Register(k, fee)
    PROVE  HistoryInv'
<1> DEFINE old == view.acct[k]
           paid == IF fee > 0 THEN Minus(old, fee, Height) ELSE old
           a == [paid EXCEPT !.pub = TRUE, !.reg = NextId]
           w1 == SetAccount(view, k, a)
           w2 == [w1 EXCEPT !.ids[NextId] = k]
           l == LogOf(view, k)
           e == [type |-> "register", id |-> NextId, user |-> k, fee |-> fee,
                 fuel |-> 0, logs |-> <<l>>]
<1>1. /\ fee \in Nat /\ k \in Key /\ k \notin Id /\ view \in World /\ Height \in Nat
      /\ Named(view) /\ AtMost(view, Height)
  BY Numbers, Ids, Heights DEF HistoryInv
<1>2. old # None /\ fee <= old.value /\ Executed(w2, e)
  BY DEF Register, Affordable
<1>3. NextId \in Id
  BY NextIdIsId
<1>4. old \in Account /\ Held(view, k) = old
  BY <1>1, <1>2, HeldType DEF Held
<1>5. /\ paid \in Account /\ paid.height <= Height
      /\ fee = 0 => paid = old
  <2>1. old.height <= Height
    BY <1>1, <1>4 DEF AtMost
  <2>2. fee > 0 => paid \in Account /\ paid.height <= Height
    BY <1>1, <1>2, <1>4, <2>1, MinusType, HeightsOfOperations
  <2>3. fee > 0 \/ fee = 0
    BY <1>1
  <2> QED
    BY <1>4, <2>1, <2>2, <2>3
<1> HIDE DEF old, paid
<1>6. /\ a \in Account /\ a.height <= Height
      /\ a.value = paid.value /\ a.coin = paid.coin /\ a.height = paid.height
  BY <1>3, <1>5 DEF Account
<1> HIDE DEF a
<1>7. /\ Writes(view, k, w1) /\ Held(w1, k) = a
  BY <1>1, <1>6, SetWrites
<1> HIDE DEF w1
<1>8. w2 \in World /\ w2.acct = w1.acct /\ w2.ids = [view.ids EXCEPT ![NextId] = k]
  BY <1>1, <1>3, <1>7, NewIdType DEF Writes
<1> HIDE DEF w2, e, l
<1>9. l \in Log /\ l.key = k
  BY <1>1, LogOfType DEF LogOf, l
<1> DEFINE all == <<l>>
<1>10. all \in Seq(Log) /\ all # <<>> /\ Len(all) = 1 /\ all[1] = l /\ DOMAIN all = {1}
  BY <1>9
<1>11. e = [type |-> "register", id |-> NextId, user |-> k, fee |-> fee,
            fuel |-> 0, logs |-> all]
  BY DEF e
<1> HIDE DEF all
<1>12. e \in GoodEntry
  BY <1>1, <1>3, <1>9, <1>10, <1>11 DEF GoodEntry, Entry, Registering
<1>13. Records(view, e, w2)
  <2>1. \A x \in Key : x # k => LogOf(w2, x) = LogOf(view, x)
    BY <1>7, <1>8, SameLog DEF Writes
  <2>2. fee = 0 => LogOf(w2, k) = LogOf(view, k)
    <3>1. Held(w2, k) = a
      BY <1>7, <1>8 DEF Held
    <3> QED
      BY <1>4, <1>5, <1>6, <3>1 DEF LogOf
  <2>3. \A x : Touches(e, x) <=> fee # 0 /\ x = k
    BY <1>9, <1>10, <1>11 DEF Touches, Unlogged
  <2>4. \A x, m : Gives(e, x, m) => m = l
    BY <1>10, <1>11 DEF Gives, FirstIn
  <2> QED
    BY <2>1, <2>2, <2>3, <2>4 DEF Records, l
<1>14. Named(w2)
  <2>1. Named(w1)
    BY <1>1, <1>7, WriteKeeps
  <2>2. view.ids[NextId] = None
    <3>1. FollowsWith(view.ids, chain, block) /\ block \in Seq(GoodEntry)
      BY DEF LedgerInv, Base
    <3>2. e.type \in Registering /\ e.id = <<Len(chain) + 1, Len(block) + 1>>
      BY <1>11, NextIdIsId DEF Registering
    <3>3. view.ids \in [Id -> Key \cup {None}] /\ chain \in Seq(Seq(GoodEntry))
      BY <1>1 DEF World, LedgerInv
    <3>4. view.ids[e.id] = None
      BY <1>12, <3>1, <3>2, <3>3, WithRegistered
    <3> QED
      BY <1>11, <3>4
  <2>3. w1.ids = view.ids /\ view.ids \in [Id -> Key \cup {None}]
    BY <1>1, <1>7 DEF Writes, World
  <2> QED
    BY <1>1, <1>3, <1>8, <2>1, <2>2, <2>3, Ids DEF Named
<1>15. AtMost(w2, Height)
  <2>1. AtMost(w1, Height)
    BY <1>1, <1>7, WriteKeeps
  <2> QED
    BY <1>8, <2>1 DEF AtMost, Held
<1> QED
  BY <1>2, <1>12, <1>13, <1>14, <1>15, ExecutedRemembers

LEMMA RegisterAppRemembers ==
    ASSUME LedgerInv, HistoryInv, mode = "connect", Len(block) < MaxTxs,
           NEW src \in Registered, NEW fee \in Fee, NEW fuel \in Fee,
           RegisterApp(src, fee, fuel)
    PROVE  HistoryInv'
<1> DEFINE from == view.ids[src]
           app == [NewAccount EXCEPT !.reg = NextId]
           w1 == SetAccount(view, NextId, app)
           w2 == Debit(w1, from, fee)
           w4 == [w2 EXCEPT !.ids[NextId] = NextId, !.scripts = @ \cup {NextId}]
           l == LogOf(view, from)
           e == [type |-> "app", id |-> NextId, user |-> from, fee |-> fee,
                 fuel |-> fuel, logs |-> <<l>>]
<1>1. /\ fee \in Nat /\ fuel \in Nat /\ view \in World /\ Height \in Nat
      /\ Named(view) /\ AtMost(view, Height)
  BY Numbers, Heights DEF HistoryInv
<1>2. fuel <= fee /\ MaySend(src, fee) /\ Executed(w4, e)
  BY DEF RegisterApp
<1>3. NextId \in Id /\ NextId \in Key /\ NextId \notin User
  BY NextIdIsId, Ids
<1>4. /\ from \in Key /\ view.acct[from] \in Account /\ view.acct[from].pub
      /\ fee <= view.acct[from].value
  BY <1>1, <1>2, SenderCanPay
<1> HIDE DEF from
<1>5. from \in User /\ from # NextId /\ view.acct[from] # None
  <2>1. view.acct[from] # None
    BY <1>4, Ids
  <2>2. Held(view, from).pub
    BY <1>4, <2>1 DEF Held
  <2> QED
    BY <1>3, <1>4, <2>1, <2>2 DEF LedgerInv, Found
<1>6. l \in Log /\ l.key = from
  BY <1>1, <1>4, LogOfType DEF LogOf
<1> HIDE DEF l, e
<1> DEFINE all == <<l>>
<1>7. all \in Seq(Log) /\ all # <<>> /\ Len(all) = 1 /\ all[1] = l /\ DOMAIN all = {1}
  BY <1>6
<1>8. e = [type |-> "app", id |-> NextId, user |-> from, fee |-> fee,
           fuel |-> fuel, logs |-> all]
  BY DEF e
<1> HIDE DEF all
<1>9. e \in GoodEntry
  BY <1>1, <1>2, <1>3, <1>4, <1>5, <1>6, <1>7, <1>8 DEF GoodEntry, Entry, Registering
<1>10. view.ids[NextId] = None /\ view.acct[NextId] = None
  <2>1. FollowsWith(view.ids, chain, block) /\ block \in Seq(GoodEntry)
    BY DEF LedgerInv, Base
  <2>2. e.type \in Registering /\ e.id = <<Len(chain) + 1, Len(block) + 1>>
    BY <1>8, NextIdIsId DEF Registering
  <2>3. view.ids \in [Id -> Key \cup {None}] /\ chain \in Seq(Seq(GoodEntry))
    BY <1>1 DEF World, LedgerInv
  <2>4. view.ids[e.id] = None
    BY <1>9, <2>1, <2>2, <2>3, WithRegistered
  <2> QED
    BY <1>1, <1>3, <1>8, <2>4, Ids DEF Named
<1>11. app \in Account /\ app.height = 0
  BY <1>3 DEF NewAccount, Account
<1> HIDE DEF app
<1>12. /\ w1 \in World /\ w1.ids = view.ids
       /\ w1.acct[NextId] = app
       /\ \A x \in Key : x # NextId => w1.acct[x] = view.acct[x]
  BY <1>1, <1>3, <1>11, SetAccountType
<1> HIDE DEF w1
<1>13. Writes(w1, from, w2)
  <2>1. w1.acct[from] = view.acct[from]
    BY <1>4, <1>5, <1>12
  <2> QED
    BY <1>1, <1>4, <1>5, <1>12, <2>1, DebitWrites
<1> HIDE DEF w2
<1>14. w4.acct = w2.acct /\ w4.ids = [view.ids EXCEPT ![NextId] = NextId]
  <2>1. w2 \in World /\ w2.ids = view.ids
    BY <1>12, <1>13 DEF Writes
  <2> DEFINE w3 == [w2 EXCEPT !.ids[NextId] = NextId]
  <2>2. w3 \in World /\ w3.acct = w2.acct /\ w3.ids = [view.ids EXCEPT ![NextId] = NextId]
    BY <1>3, <2>1, NewIdType
  <2>3. w4 = [w3 EXCEPT !.scripts = @ \cup {NextId}]
    BY <2>1 DEF World
  <2> HIDE DEF w3, w4
  <2> QED
    BY <2>2, <2>3 DEF World
<1> HIDE DEF w4
<1>15. /\ \A x \in Key : x # NextId /\ x # from => w4.acct[x] = view.acct[x]
       /\ w4.acct[NextId] = app
  BY <1>3, <1>5, <1>12, <1>13, <1>14 DEF Writes
<1>16. Records(view, e, w4)
  <2>1. \A x \in Key : x # NextId /\ x # from => LogOf(w4, x) = LogOf(view, x)
    BY <1>15, SameLog
  <2>2. \A x : Touches(e, x) <=> x = NextId \/ x = from
    BY <1>6, <1>7, <1>8 DEF Touches, Unlogged
  <2>3. \A m : Gives(e, NextId, m) => m = Nothing(NextId)
    BY <1>8 DEF Gives
  <2>4. \A m : Gives(e, from, m) => m = l
    BY <1>5, <1>7, <1>8 DEF Gives, FirstIn
  <2>5. LogOf(view, NextId) = Nothing(NextId)
    BY <1>10 DEF LogOf, Held, NewAccount, Nothing
  <2> QED
    BY <2>1, <2>2, <2>3, <2>4, <2>5 DEF Records, l
<1>17. Named(w4)
  <2>1. \A id \in Id : id # NextId => w4.acct[id] = view.acct[id] /\ w4.ids[id] = view.ids[id]
    BY <1>1, <1>5, <1>14, <1>15, Ids DEF World
  <2>2. w4.ids[NextId] = NextId
    BY <1>1, <1>3, <1>14 DEF World
  <2> QED
    BY <1>1, <2>1, <2>2 DEF Named
<1>18. AtMost(w4, Height)
  <2>1. Held(w4, NextId).height <= Height
    BY <1>1, <1>11, <1>15, Ids DEF Held
  <2>2. Held(w1, from).height <= Height
    BY <1>1, <1>4, <1>5, <1>12 DEF AtMost, Held
  <2>3. Held(w4, from).height <= Height
    BY <1>13, <1>14, <2>2 DEF Writes, Held
  <2>4. \A x \in Key : x # NextId /\ x # from => Held(w4, x).height <= Height
    BY <1>1, <1>15 DEF AtMost, Held
  <2> QED
    BY <2>1, <2>3, <2>4 DEF AtMost
<1> QED
  BY <1>2, <1>9, <1>16, <1>17, <1>18, ExecutedRemembers

LEMMA RewardRemembers ==
    ASSUME LedgerInv, HistoryInv, NEW miner \in Registered, Reward(miner)
    PROVE  HistoryInv'
<1> DEFINE k == view.ids[miner]
           a == ClearAccPos(view.acct[k], Height)
           w == SetAccount(view, k, a)
           l == LogOf(view, k)
           logs == Append(<<>>, l)
           e == [type |-> "reward", id |-> miner, user |-> k,
                 fee |-> RewardValue(block), fuel |-> 0, logs |-> <<l>>]
<1>1. /\ mode = "connect" /\ Has(view, miner)
      /\ view' = w /\ block' = Append(block, e) /\ mode' = "rewarded"
      /\ tip' = tip /\ chain' = chain /\ before' = before
  BY DEF Reward
<1>2. /\ miner \in Id /\ miner \in Key /\ view \in World /\ Height \in Nat
      /\ block \in Seq(GoodEntry) /\ RewardValue(block) \in Nat
  BY Ids, Heights, RewardType DEF Registered, LedgerInv
<1>3. k \in Key /\ view.acct[k] # None /\ view.acct[k] \in Account
      /\ Held(view, k) = view.acct[k]
  <2>1. KeyOf(view, miner) = k
    BY <1>2 DEF KeyOf
  <2>2. k \in Key /\ view.acct[k] \in Account
    BY <1>1, <1>2, <2>1, KeyOfType
  <2> QED
    BY <2>2, Ids DEF Held
<1> HIDE DEF k
<1>4. a \in Account /\ (Held(view, k).height <= Height => a.height <= Height)
  <2>1. 0 \in Nat
    OBVIOUS
  <2> QED
    BY <1>2, <1>3, <2>1, ClearType, HeightsOfOperations
<1> HIDE DEF a
<1>5. Writes(view, k, w)
  BY <1>2, <1>3, <1>4, SetWrites
<1> HIDE DEF w
<1>6. Run(view, logs, w)
  BY <1>2, <1>5, RunNothing, RunMore
<1>7. e \in GoodEntry /\ e.type \notin Registering /\ e.logs = logs
  BY <1>2, <1>3, LogOfType, RewardEntry
<1> HIDE DEF e, logs
<1>8. Records(view, e, w) /\ Named(w) /\ AtMost(w, Height) /\ UndoesTo(view, block, tip)
  BY <1>1, <1>6, <1>7, RunIsRecord DEF HistoryInv, Run
<1>9. UndoesTo(w, Append(block, e), tip)
  BY <1>2, <1>7, <1>8, EntryDone
<1>10. Height' = Height /\ \A i \in DOMAIN chain' : After(i)' = After(i)
  BY <1>1 DEF After, Height
<1> QED
  BY <1>1, <1>8, <1>9, <1>10 DEF HistoryInv

LEMMA CommitRemembers ==
    ASSUME LedgerInv, HistoryInv, NEW w \in World, NEW b, Commit(w, b),
           Named(w), AtMost(w, Height), UndoesTo(w, b, tip)
    PROVE  HistoryInv'
<1> DEFINE n == Len(chain)
           c == Append(chain, b)
           was == Append(before, tip)
<1>1. /\ tip' = w /\ view' = w /\ mode' = "idle" /\ chain' = c /\ before' = was
  BY DEF Commit
<1>2. /\ n \in Nat /\ DOMAIN chain = 1..n /\ DOMAIN before = 1..n
      /\ Len(c) = n + 1 /\ DOMAIN c = 1..(n + 1) /\ DOMAIN was = 1..(n + 1)
      /\ \A i \in 1..n : c[i] = chain[i] /\ was[i] = before[i]
      /\ was[n + 1] = tip
      /\ Height = n + 1
  <2>1. /\ chain \in Seq(Seq(GoodEntry)) /\ before \in Seq(World) /\ tip \in World
        /\ Len(before) = n /\ n \in Nat /\ Height = n + 1
    BY Heights DEF LedgerInv, TypeOK
  <2>2. /\ DOMAIN chain = 1..n /\ Len(c) = n + 1 /\ DOMAIN c = 1..(n + 1)
        /\ \A i \in 1..n : c[i] = chain[i]
    BY <2>1, LenProperties, ElementOfSeq
  <2>3. /\ DOMAIN before = 1..n /\ DOMAIN was = 1..(n + 1)
        /\ \A i \in 1..n : was[i] = before[i]
        /\ was[n + 1] = tip
    BY <2>1, AppendedTo
  <2> QED
    BY <2>1, <2>2, <2>3
<1>3. c[n + 1] = b
  <2>1. chain \in Seq(Seq(GoodEntry))
    BY DEF LedgerInv
  <2> QED
    BY <2>1, <1>2
<1> HIDE DEF n, c, was
<1>4. \A i \in DOMAIN before' : AtMost(before'[i], i - 1)
  <2> SUFFICES ASSUME NEW i \in 1..(n + 1) PROVE AtMost(was[i], i - 1)
    BY <1>1, <1>2
  <2>1. CASE i = n + 1
    <3>1. AtMost(tip, n) /\ i - 1 = n
      BY <1>2, <2>1 DEF HistoryInv, n
    <3> QED
      BY <1>2, <2>1, <3>1
  <2>2. CASE i # n + 1
    <3>1. i \in DOMAIN before /\ was[i] = before[i]
      BY <1>2, <2>2
    <3> QED
      BY <3>1 DEF HistoryInv
  <2> QED
    BY <2>1, <2>2
<1>5. \A i \in DOMAIN chain' : UndoesTo(After(i)', chain'[i], before'[i])
  <2> SUFFICES ASSUME NEW i \in 1..(n + 1) PROVE UndoesTo(After(i)', c[i], was[i])
    BY <1>1, <1>2
  <2>1. CASE i = n + 1
    <3>1. After(i)' = w
      BY <1>1, <1>2, <2>1 DEF After
    <3> QED
      BY <1>2, <1>3, <2>1, <3>1
  <2>2. CASE i # n + 1
    <3>1. i \in DOMAIN chain /\ c[i] = chain[i] /\ was[i] = before[i] /\ i + 1 \in 1..(n + 1)
      BY <1>2, <2>2
    <3>2. After(i)' = was[i + 1]
      BY <1>1, <1>2, <2>2 DEF After
    <3>3. was[i + 1] = After(i)
      <4>1. CASE i = n
        BY <1>2, <4>1 DEF After, n
      <4>2. CASE i # n
        <5>1. i + 1 \in 1..n
          BY <1>2, <2>2, <4>2
        <5> QED
          BY <1>2, <4>2, <5>1 DEF After, n
      <4> QED
        BY <4>1, <4>2
    <3> QED
      BY <3>1, <3>2, <3>3 DEF HistoryInv
  <2> QED
    BY <2>1, <2>2
<1>6. AtMost(tip', Len(chain'))
  BY <1>1, <1>2
<1> QED
  BY <1>1, <1>4, <1>5, <1>6 DEF HistoryInv

LEMMA EarlyRemembers ==
    ASSUME LedgerInv, HistoryInv, ConnectEarly
    PROVE  HistoryInv'
<1>1. mode = "rewarded" /\ Commit(view, block) /\ view \in World
  BY Heights DEF ConnectEarly
<1> QED
  BY <1>1, CommitRemembers DEF HistoryInv

LEMMA MatureRemembers ==
    ASSUME LedgerInv, HistoryInv, ConnectMature
    PROVE  HistoryInv'
<1> DEFINE due == RewardOf(chain[Height - Maturity])
           k == view.ids[due.id]
           a == [view.acct[k] EXCEPT !.value = view.acct[k].value + due.fee]
           w == SetAccount(view, k, a)
           l == LogOf(view, k)
           logs == Append(<<>>, l)
           e == [type |-> "mature", id |-> due.id, user |-> k,
                 fee |-> due.fee, fuel |-> 0, logs |-> <<l>>]
<1>1. /\ mode = "rewarded" /\ Height > Maturity /\ Has(view, due.id)
      /\ Commit(w, Append(block, e))
  BY DEF ConnectMature
<1>2. /\ view \in World /\ Height \in Nat /\ block \in Seq(GoodEntry)
  BY <1>1, Heights DEF LedgerInv
<1>3. due \in GoodEntry /\ due.type = "reward"
  BY <1>1, RewardIsDue
<1> HIDE DEF due
<1>4. due.id \in Id /\ due.id \in Key /\ due.fee \in Nat
  BY <1>3, Ids DEF GoodEntry, Entry
<1>5. k \in Key /\ view.acct[k] # None /\ view.acct[k] \in Account
      /\ Held(view, k) = view.acct[k]
  <2>1. KeyOf(view, due.id) = k
    BY <1>4 DEF KeyOf
  <2>2. k \in Key /\ view.acct[k] \in Account
    BY <1>1, <1>2, <1>4, <2>1, KeyOfType
  <2> QED
    BY <2>2, Ids DEF Held
<1> HIDE DEF k
<1>6. a \in Account /\ a.height = Held(view, k).height
  <2> DEFINE old == view.acct[k]
  <2>1. old \in Account /\ old.value + due.fee \in Nat
    BY <1>4, <1>5 DEF Account
  <2>2. a = [old EXCEPT !.value = old.value + due.fee]
    OBVIOUS
  <2> HIDE DEF a, old
  <2>3. a \in Account /\ a.height = old.height
    BY <2>1, <2>2 DEF Account
  <2> QED
    BY <1>5, <2>3 DEF old
<1> HIDE DEF a
<1>7. Writes(view, k, w)
  BY <1>2, <1>5, <1>6, SetWrites
<1> HIDE DEF w
<1>8. Run(view, logs, w)
  BY <1>2, <1>7, RunNothing, RunMore
<1>9. e \in GoodEntry /\ e.type \notin Registering /\ e.logs = logs
  BY <1>2, <1>4, <1>5, LogOfType, RewardEntry
<1> HIDE DEF e, logs
<1>10. Records(view, e, w) /\ Named(w) /\ AtMost(w, Height) /\ UndoesTo(view, block, tip)
       /\ w \in World
  BY <1>1, <1>8, <1>9, RunIsRecord DEF HistoryInv, Run
<1>11. UndoesTo(w, Append(block, e), tip)
  BY <1>2, <1>9, <1>10, EntryDone
<1> QED
  BY <1>1, <1>10, <1>11, CommitRemembers

LEMMA BeginConnectRemembers ==
    ASSUME LedgerInv, HistoryInv, BeginConnect
    PROVE  HistoryInv'
<1>1. /\ mode' = "connect" /\ view = tip /\ block = <<>>
      /\ tip' = tip /\ chain' = chain /\ before' = before /\ view' = view /\ block' = block
  BY DEF BeginConnect, LedgerInv, Stages
<1>2. Height' = Height /\ \A i \in DOMAIN chain' : After(i)' = After(i)
  BY <1>1 DEF After, Height
<1>3. UndoesTo(tip, <<>>, tip)
  BY UndoesNothing
<1>4. AtMost(tip, Height)
  <2>1. \A k \in Key : Held(tip, k).height \in Nat /\ Held(tip, k).height <= Len(chain)
    BY Heights, HeldType DEF Account, HistoryInv, AtMost
  <2>2. Height = Len(chain) + 1 /\ Len(chain) \in Nat
    BY Heights
  <2> QED
    BY <2>1, <2>2 DEF AtMost
<1> QED
  BY <1>1, <1>2, <1>3, <1>4 DEF HistoryInv

LEMMA DropRemembers ==
    ASSUME LedgerInv, HistoryInv, Drop
    PROVE  HistoryInv'
<1>1. /\ mode' = "idle" /\ view' = tip
      /\ tip' = tip /\ chain' = chain /\ before' = before
  BY DEF Drop
<1>2. \A i \in DOMAIN chain' : After(i)' = After(i)
  BY <1>1 DEF After
<1> QED
  BY <1>1, <1>2 DEF HistoryInv

(* Where the last block of the chain starts and ends. *)
LEMMA LastBlock ==
    ASSUME LedgerInv, chain # <<>>
    PROVE  /\ Len(chain) \in Nat \ {0} /\ Len(chain) \in DOMAIN chain
           /\ DOMAIN chain = 1..Len(chain) /\ DOMAIN before = 1..Len(chain)
           /\ Last(chain) = chain[Len(chain)] /\ Last(before) = before[Len(chain)]
           /\ Last(before) \in World /\ before # <<>>
<1>1. /\ chain \in Seq(Seq(GoodEntry)) /\ before \in Seq(World) /\ Len(before) = Len(chain)
  BY DEF LedgerInv, TypeOK
<1>2. before # <<>>
  BY <1>1, EmptySeq, LenProperties
<1>3. /\ Len(chain) \in Nat \ {0} /\ DOMAIN chain = 1..Len(chain)
      /\ Last(chain) = chain[Len(chain)]
  BY <1>1, FrontAndLast
<1>4. /\ DOMAIN before = 1..Len(before) /\ Last(before) = before[Len(before)]
      /\ Last(before) \in World
  BY <1>1, <1>2, FrontAndLast
<1> QED
  BY <1>1, <1>2, <1>3, <1>4

LEMMA BeginUndoRemembers ==
    ASSUME LedgerInv, HistoryInv, BeginUndo
    PROVE  HistoryInv'
<1>1. /\ mode = "idle" /\ chain # <<>> /\ mode' = "undo" /\ block' = Last(chain)
      /\ tip' = tip /\ chain' = chain /\ before' = before /\ view' = view
  BY DEF BeginUndo
<1>2. view = tip
  BY <1>1 DEF LedgerInv, Stages
<1>3. UndoesTo(tip, Last(chain), Last(before))
  <2>1. UndoesTo(After(Len(chain)), chain[Len(chain)], before[Len(chain)])
    BY <1>1, LastBlock DEF HistoryInv
  <2>2. After(Len(chain)) = tip
    BY DEF After
  <2> QED
    BY <1>1, <2>1, <2>2, LastBlock
<1>4. \A i \in DOMAIN chain' : After(i)' = After(i)
  BY <1>1 DEF After
<1> QED
  BY <1>1, <1>2, <1>3, <1>4 DEF HistoryInv

(* The account of a log gets back what it had, or is erased. *)
LEMMA TakenBack ==
    ASSUME NEW w \in World, NEW k \in Key, w.acct[k] # None, NEW l \in Log, l.key = k,
           NEW w2 \in World, w2.ids = w.ids,
           \A x \in Key : x # k => w2.acct[x] = w.acct[x],
           \/ w2.acct[k] = None /\ l.value = 0
           \/ /\ w2.acct[k] # None
              /\ w2.acct[k].value = l.value /\ w2.acct[k].coin = l.coin
              /\ w2.acct[k].height = l.height
    PROVE  /\ Restores(LogOf(w2, k), l)
           /\ \A x \in Key : x # k => LogOf(w2, x) = LogOf(w, x)
           /\ Named(w) => Named(w2)
<1>1. Restores(LogOf(w2, k), l)
  <2>1. CASE w2.acct[k] = None
    BY <2>1 DEF LogOf, Held, NewAccount, Restores, Nothing
  <2>2. CASE w2.acct[k] # None
    <3>1. LogOf(w2, k) = [key |-> k, value |-> l.value, coin |-> l.coin, height |-> l.height]
      BY <2>2 DEF LogOf, Held
    <3>2. LogOf(w2, k) = l
      BY <3>1 DEF Log
    <3> QED
      BY <3>2 DEF Restores
  <2> QED
    BY <2>1, <2>2
<1>2. \A x \in Key : x # k => LogOf(w2, x) = LogOf(w, x)
  BY SameLog
<1>3. Named(w) => Named(w2)
  BY Ids DEF Named
<1> QED
  BY <1>1, <1>2, <1>3

(* A transaction of the block undone. *)
LEMMA UndoneRemembers ==
    ASSUME LedgerInv, HistoryInv, mode = "undo", block # <<>>,
           NEW w, Undone(w), Named(w), TakesBack(view, Last(block), w)
    PROVE  HistoryInv'
<1>1. /\ view' = w /\ block' = Front(block)
      /\ tip' = tip /\ chain' = chain /\ before' = before /\ mode' = mode
  BY DEF Undone
<1>2. UndoesTo(w, Front(block), Last(before))
  BY EntryUndone DEF LedgerInv, HistoryInv
<1>3. \A i \in DOMAIN chain' : After(i)' = After(i)
  BY <1>1 DEF After
<1> QED
  BY <1>1, <1>2, <1>3 DEF HistoryInv

LEMMA UndoLogRemembers ==
    ASSUME LedgerInv, HistoryInv, UndoLog
    PROVE  HistoryInv'
<1> DEFINE e == Last(block)
           l == Last(e.logs)
           old == UndoOperateAccount(view.acct[l.key], l)
           w == IF e.type = "common" /\ Bare(old)
                THEN EraseAccount(view, l.key) ELSE SetAccount(view, l.key, old)
           shorter == [block EXCEPT ![Len(block)].logs = Front(@)]
<1>1. /\ mode = "undo" /\ block # <<>> /\ e.type \in ByLogs
      /\ view.acct[l.key] # None
      /\ IF Len(e.logs) = 1 THEN Undone(w)
         ELSE /\ view' = w /\ block' = shorter
              /\ UNCHANGED <<tip, chain, before, mode>>
  BY DEF UndoLog, Undoing
<1>2. /\ view \in World /\ block \in Seq(GoodEntry)
      /\ UndoesTo(view, block, Last(before)) /\ Named(view)
  BY <1>1 DEF LedgerInv, TypeOK, HistoryInv
<1>3. /\ e \in GoodEntry /\ e = block[Len(block)] /\ Len(block) \in DOMAIN block
      /\ e.type \notin Registering
  BY <1>1, <1>2, FrontAndLast DEF ByLogs, Registering
<1>4. e.logs \in Seq(Log) /\ e.logs # <<>>
  BY <1>3 DEF GoodEntry, Entry
<1>5. l \in Log /\ l.key \in Key /\ l = e.logs[Len(e.logs)]
      /\ DOMAIN e.logs = 1..Len(e.logs)
  <2>1. l \in Log /\ l = e.logs[Len(e.logs)] /\ DOMAIN e.logs = 1..Len(e.logs)
    BY <1>4, FrontAndLast
  <2> QED
    BY <2>1 DEF Log
<1>6. old \in Account /\ old.value = l.value /\ old.coin = l.coin /\ old.height = l.height
  <2>1. view.acct[l.key] \in Account
    BY <1>1, <1>2, <1>5, HeldType
  <2> HIDE DEF l
  <2> QED
    BY <1>5, <2>1 DEF UndoOperateAccount, Account, Log
<1> HIDE DEF l
<1>7. /\ Restores(LogOf(w, l.key), l) /\ Named(w)
      /\ \A x \in Key : x # l.key => LogOf(w, x) = LogOf(view, x)
  <2>1. CASE e.type = "common" /\ Bare(old)
    <3>1. w = EraseAccount(view, l.key) /\ l.value = 0
      BY <1>6, <2>1 DEF Bare
    <3> HIDE DEF w
    <3>2. /\ w \in World /\ w.ids = view.ids /\ w.acct[l.key] = None
          /\ \A x \in Key : x # l.key => w.acct[x] = view.acct[x]
      BY <1>2, <1>5, <3>1, EraseAccountType
    <3> QED
      BY <1>1, <1>2, <1>5, <3>1, <3>2, TakenBack
  <2>2. CASE ~(e.type = "common" /\ Bare(old))
    <3>1. w = SetAccount(view, l.key, old)
      BY <2>2
    <3> HIDE DEF w, old
    <3>2. /\ w \in World /\ w.ids = view.ids /\ w.acct[l.key] = old
          /\ \A x \in Key : x # l.key => w.acct[x] = view.acct[x]
      BY <1>2, <1>5, <1>6, <3>1, SetAccountType
    <3>3. w.acct[l.key] # None
      BY <1>6, <3>2, Ids
    <3> QED
      BY <1>1, <1>2, <1>5, <1>6, <3>2, <3>3, TakenBack
  <2> QED
    BY <2>1, <2>2
<1> HIDE DEF w, old
<1>8. CASE Len(e.logs) = 1
  <2>1. e.logs[1] = l /\ DOMAIN e.logs = {1}
    BY <1>5, <1>8
  <2>2. \A k : Touches(e, k) <=> k = l.key
    BY <1>3, <2>1 DEF Touches, Unlogged, Registering
  <2>3. Gives(e, l.key, l)
    <3>1. FirstIn(e.logs, l.key, 1)
      BY <2>1 DEF FirstIn
    <3> QED
      BY <1>3, <2>1, <3>1 DEF Gives, Registering
  <2> HIDE DEF e
  <2>4. TakesBack(view, e, w)
    <3> SUFFICES ASSUME NEW k \in Key
                 PROVE  /\ ~Touches(e, k) => Restores(LogOf(w, k), LogOf(view, k))
                        /\ Touches(e, k) => \E m : Gives(e, k, m) /\ Restores(LogOf(w, k), m)
      BY DEF TakesBack
    <3>1. CASE k = l.key
      BY <1>7, <2>2, <2>3, <3>1
    <3>2. CASE k # l.key
      BY <1>7, <2>2, <3>2 DEF Restores
    <3> QED
      BY <3>1, <3>2
  <2> QED
    BY <1>1, <1>7, <1>8, <2>4, UndoneRemembers DEF e
<1>9. CASE Len(e.logs) # 1
  <2>1. /\ view' = w /\ block' = shorter
        /\ tip' = tip /\ chain' = chain /\ before' = before /\ mode' = mode
    BY <1>1, <1>9
  <2> DEFINE e2 == [e EXCEPT !.logs = Front(e.logs)]
  <2>2. /\ DOMAIN shorter = DOMAIN block /\ shorter[Len(block)] = e2
        /\ \A i \in DOMAIN block : i # Len(block) => shorter[i] = block[i]
    BY <1>3
  <2>3. e2.type \in ByLogs /\ e2.logs = Front(e.logs)
    <3> HIDE DEF e
    <3> QED
      BY <1>1, <1>3 DEF GoodEntry, Entry
  <2> HIDE DEF e2, shorter
  <2>4. UndoesTo(w, shorter, Last(before))
    BY <1>1, <1>2, <1>5, <1>7, <2>2, <2>3, LogUndone DEF l
  <2>5. \A i \in DOMAIN chain' : After(i)' = After(i)
    BY <2>1 DEF After
  <2> QED
    BY <1>1, <1>7, <2>1, <2>4, <2>5 DEF HistoryInv
<1> QED
  BY <1>8, <1>9

LEMMA UndoRegisterRemembers ==
    ASSUME LedgerInv, HistoryInv, UndoRegister
    PROVE  HistoryInv'
<1> DEFINE e == Last(block)
           k == view.ids[e.id]
           l == e.logs[1]
           old == IF e.fee > 0 THEN UndoOperateAccount(view.acct[k], l) ELSE view.acct[k]
           bare == [old EXCEPT !.pub = FALSE]
           w == IF old.value = 0 THEN EraseAccount(view, k) ELSE SetAccount(view, k, bare)
           w2 == [w EXCEPT !.ids[e.id] = None]
           was == IF e.fee > 0 THEN l ELSE LogOf(view, k)
<1>1. /\ mode = "undo" /\ block # <<>> /\ e.type = "register" /\ Has(view, e.id)
      /\ Undone(w2)
  BY DEF UndoRegister, Undoing
<1>2. /\ view \in World /\ Named(view) /\ block \in Seq(GoodEntry)
      /\ chain \in Seq(Seq(GoodEntry)) /\ chain # <<>>
      /\ FollowsWith(view.ids, Front(chain), block)
  BY <1>1 DEF LedgerInv, TypeOK, Stages, Base, HistoryInv
<1>3. /\ e \in GoodEntry /\ e.id \in Id /\ e.id \in Key /\ view.ids[e.id] = Owner(e)
  <2>1. view.ids \in [Id -> Key \cup {None}] /\ Front(chain) \in Seq(Seq(GoodEntry))
        /\ Last(block).type \in Registering
    BY <1>1, <1>2, FrontAndLast DEF World, Registering
  <2> QED
    BY <1>1, <1>2, <2>1, WithUnregistered, Ids
<1>4. /\ l \in Log /\ DOMAIN e.logs = {1} /\ l.key = e.user /\ e.user \in User
      /\ e.fee \in Nat
  <2>1. e.logs \in Seq(Log) /\ Len(e.logs) = 1 /\ e.logs[1].key = e.user /\ e.user \in User
        /\ e.fee \in Nat
    BY <1>1, <1>3 DEF GoodEntry, Entry, Registering
  <2> QED
    BY <2>1, ElementOfSeq, LenProperties
<1>5. k = e.user /\ k \in Key /\ k # e.id
  BY <1>1, <1>3, <1>4, Ids DEF Owner
<1>6. view.acct[k] # None /\ view.acct[k] \in Account /\ Held(view, k) = view.acct[k]
  <2>1. KeyOf(view, e.id) = k
    BY <1>3 DEF KeyOf
  <2>2. view.acct[k] # None
    BY <1>1, <2>1 DEF Has
  <2> QED
    BY <1>2, <1>5, <2>2, HeldType DEF Held
<1> HIDE DEF k, l, e
<1>7. was \in Log /\ was.key = k
  BY <1>2, <1>4, <1>5, LogOfType DEF LogOf
<1>8. /\ old \in Account /\ old.value = was.value /\ old.coin = was.coin
      /\ old.height = was.height
  <2>1. CASE e.fee > 0
    <3>1. old = UndoOperateAccount(view.acct[k], l) /\ was = l
      BY <2>1
    <3> HIDE DEF old, was
    <3> QED
      BY <1>4, <1>6, <3>1 DEF UndoOperateAccount, Account, Log
  <2>2. CASE ~(e.fee > 0)
    <3>1. old = view.acct[k] /\ was = LogOf(view, k)
      BY <2>2
    <3> QED
      BY <1>6, <3>1 DEF LogOf
  <2> QED
    BY <2>1, <2>2
<1> HIDE DEF old, was
<1>9. /\ bare \in Account /\ bare.value = old.value /\ bare.coin = old.coin
      /\ bare.height = old.height
  BY <1>8 DEF Account
<1> HIDE DEF bare
<1>10. /\ w \in World /\ w.ids = view.ids
       /\ \A x \in Key : x # k => w.acct[x] = view.acct[x]
       /\ Restores(LogOf(w, k), was)
       /\ \A x \in Key : x # k => LogOf(w, x) = LogOf(view, x)
       /\ Named(w)
  <2>1. CASE old.value = 0
    <3>1. w = EraseAccount(view, k)
      BY <2>1
    <3> HIDE DEF w
    <3>2. /\ w \in World /\ w.ids = view.ids /\ w.acct[k] = None
          /\ \A x \in Key : x # k => w.acct[x] = view.acct[x]
      BY <1>2, <1>5, <3>1, EraseAccountType
    <3> QED
      BY <1>2, <1>5, <1>6, <1>7, <1>8, <2>1, <3>2, TakenBack
  <2>2. CASE old.value # 0
    <3>1. w = SetAccount(view, k, bare)
      BY <2>2
    <3> HIDE DEF w
    <3>2. /\ w \in World /\ w.ids = view.ids /\ w.acct[k] = bare
          /\ \A x \in Key : x # k => w.acct[x] = view.acct[x]
      BY <1>2, <1>5, <1>9, <3>1, SetAccountType
    <3>3. /\ w.acct[k] # None /\ w.acct[k].value = was.value
          /\ w.acct[k].coin = was.coin /\ w.acct[k].height = was.height
      BY <1>8, <1>9, <3>2, Ids
    <3>4. /\ Restores(LogOf(w, k), was)
          /\ \A x \in Key : x # k => LogOf(w, x) = LogOf(view, x)
          /\ Named(view) => Named(w)
      <4>1. view \in World /\ k \in Key /\ view.acct[k] # None
        BY <1>2, <1>5, <1>6
      <4> HIDE DEF w2
      <4> QED
        BY <1>7, <3>2, <3>3, <4>1, TakenBack
    <3> QED
      BY <1>2, <3>2, <3>4
  <2> QED
    BY <2>1, <2>2
<1> HIDE DEF w
<1>11. w2.acct = w.acct /\ w2.ids = [view.ids EXCEPT ![e.id] = None]
  BY <1>3, <1>10, NewIdType
<1> HIDE DEF w2
<1>12. Named(w2)
  <2>1. w.acct[e.id] = None
    <3>1. view.ids[e.id] \notin Id
      BY <1>4, <1>5, Ids DEF k
    <3> QED
      BY <1>3, <1>10, <3>1 DEF Named
  <2>2. /\ \A id \in Id : id # e.id => w2.ids[id] = w.ids[id]
        /\ w2.ids[e.id] = None /\ None \notin Id
    BY <1>2, <1>3, <1>10, <1>11, Ids DEF World
  <2> QED
    BY <1>10, <1>11, <2>1, <2>2 DEF Named
<1>13. TakesBack(view, e, w2)
  <2> SUFFICES ASSUME NEW x \in Key
               PROVE  /\ ~Touches(e, x) => Restores(LogOf(w2, x), LogOf(view, x))
                      /\ Touches(e, x) => \E m : Gives(e, x, m) /\ Restores(LogOf(w2, x), m)
    BY DEF TakesBack
  <2>1. LogOf(w2, x) = LogOf(w, x)
    BY <1>11, SameLog
  <2>2. Touches(e, x) <=> e.fee > 0 /\ x = k
    BY <1>1, <1>4, <1>5 DEF Touches, Unlogged, e, l
  <2>3. CASE x # k
    BY <1>10, <2>1, <2>2, <2>3 DEF Restores
  <2>4. CASE x = k /\ e.fee > 0
    <3>1. FirstIn(e.logs, k, 1)
      BY <1>4, <1>5 DEF FirstIn, l
    <3>2. Gives(e, k, l)
      BY <1>1, <3>1 DEF Gives, e, l
    <3>3. was = l
      BY <2>4 DEF was
    <3> QED
      BY <1>10, <2>1, <2>2, <2>4, <3>2, <3>3
  <2>5. CASE x = k /\ ~(e.fee > 0)
    <3>1. was = LogOf(view, k)
      BY <2>5 DEF was
    <3> QED
      BY <1>10, <2>1, <2>2, <2>5, <3>1
  <2> QED
    BY <2>3, <2>4, <2>5
<1> QED
  BY <1>1, <1>12, <1>13, UndoneRemembers DEF e

LEMMA UndoRegisterAppRemembers ==
    ASSUME LedgerInv, HistoryInv, UndoRegisterApp
    PROVE  HistoryInv'
<1> DEFINE e == Last(block)
           k == e.user
           l == e.logs[1]
           old == UndoOperateAccount(view.acct[k], l)
           w1 == EraseAccount(view, e.id)
           w2 == SetAccount(w1, k, old)
           w3 == [w2 EXCEPT !.ids[e.id] = None]
           w4 == [w2 EXCEPT !.ids[e.id] = None, !.scripts = @ \ {e.id}]
<1>1. /\ mode = "undo" /\ block # <<>> /\ e.type = "app" /\ view.acct[k] # None
      /\ Undone(w4)
  BY DEF UndoRegisterApp, Undoing
<1>2. /\ view \in World /\ Named(view) /\ block \in Seq(GoodEntry)
  BY <1>1 DEF LedgerInv, TypeOK, HistoryInv
<1>3. /\ e \in GoodEntry /\ e.id \in Id /\ e.id \in Key
  <2>1. e \in GoodEntry
    BY <1>1, <1>2, FrontAndLast
  <2>2. e.id \in Id
    BY <1>1, <2>1 DEF GoodEntry
  <2> QED
    BY <2>1, <2>2, Ids
<1>4. l \in Log /\ DOMAIN e.logs = {1} /\ l.key = k /\ k \in Key /\ k # e.id
  <2>1. e.logs \in Seq(Log) /\ Len(e.logs) = 1 /\ e.logs[1].key = k /\ k \in Key /\ k # e.id
    BY <1>1, <1>3 DEF GoodEntry, Entry, Registering
  <2> QED
    BY <2>1, ElementOfSeq, LenProperties
<1> HIDE DEF k, l, e
<1>5. /\ old \in Account /\ old.value = l.value /\ old.coin = l.coin
      /\ old.height = l.height
  <2>1. view.acct[k] \in Account
    BY <1>1, <1>2, <1>4, HeldType
  <2> QED
    BY <1>4, <2>1 DEF UndoOperateAccount, Account, Log
<1> HIDE DEF old
<1>6. /\ w1 \in World /\ w1.ids = view.ids /\ w1.acct[e.id] = None
      /\ \A x \in Key : x # e.id => w1.acct[x] = view.acct[x]
  BY <1>2, <1>3, EraseAccountType
<1> HIDE DEF w1
<1>7. /\ w2 \in World /\ w2.ids = view.ids /\ w2.acct[k] = old
      /\ \A x \in Key : x # k => w2.acct[x] = w1.acct[x]
  BY <1>4, <1>5, <1>6, SetAccountType
<1> HIDE DEF w2
<1>8. w3 \in World /\ w3.acct = w2.acct /\ w3.ids = [view.ids EXCEPT ![e.id] = None]
  BY <1>3, <1>7, NewIdType
<1>9. w4 = [w3 EXCEPT !.scripts = @ \ {e.id}]
  BY <1>7 DEF World
<1> HIDE DEF w3, w4
<1>10. w4.acct = w2.acct /\ w4.ids = [view.ids EXCEPT ![e.id] = None]
  BY <1>8, <1>9 DEF World
<1>11. Restores(LogOf(w4, k), l)
  <2>1. w1.acct[k] # None
    BY <1>1, <1>4, <1>6
  <2>2. w2.acct[k] # None
    BY <1>5, <1>7, Ids
  <2>3. Restores(LogOf(w2, k), l)
    BY <1>4, <1>5, <1>6, <1>7, <2>1, <2>2, TakenBack
  <2> QED
    BY <1>10, <2>3, SameLog
<1>12. LogOf(w4, e.id) = Nothing(e.id)
  BY <1>3, <1>4, <1>6, <1>7, <1>10 DEF LogOf, Held, NewAccount, Nothing
<1>13. \A x \in Key : x # k /\ x # e.id => LogOf(w4, x) = LogOf(view, x)
  BY <1>6, <1>7, <1>10, SameLog
<1>14. Named(w4)
  <2>1. /\ \A id \in Id : id # e.id => w4.ids[id] = view.ids[id]
        /\ w4.ids[e.id] = None /\ None \notin Id
    BY <1>2, <1>3, <1>10, Ids DEF World
  <2>2. /\ w4.acct[e.id] = None
        /\ \A id \in Id : id # e.id /\ w4.acct[id] # None => view.acct[id] # None
    BY <1>1, <1>3, <1>4, <1>6, <1>7, <1>10, Ids
  <2> QED
    BY <1>2, <2>1, <2>2 DEF Named
<1>15. TakesBack(view, e, w4)
  <2>1. \A x : Touches(e, x) <=> x = e.id \/ x = k
    BY <1>1, <1>4 DEF Touches, Unlogged, e, l
  <2>2. Gives(e, e.id, Nothing(e.id))
    BY <1>1 DEF Gives, e
  <2>3. Gives(e, k, l)
    <3>1. FirstIn(e.logs, k, 1)
      BY <1>4 DEF FirstIn, l
    <3> QED
      BY <1>4, <3>1 DEF Gives, l
  <2>4. ASSUME NEW x \in Key
        PROVE  /\ ~Touches(e, x) => Restores(LogOf(w4, x), LogOf(view, x))
               /\ Touches(e, x) => \E m : Gives(e, x, m) /\ Restores(LogOf(w4, x), m)
    <3>1. CASE x = e.id
      BY <1>12, <2>1, <2>2, <3>1 DEF Restores
    <3>2. CASE x = k
      BY <1>11, <2>1, <2>3, <3>2
    <3>3. CASE x # e.id /\ x # k
      BY <1>13, <2>1, <3>3 DEF Restores
    <3> QED
      BY <3>1, <3>2, <3>3
  <2> QED
    BY <2>4 DEF TakesBack
<1> QED
  BY <1>1, <1>14, <1>15, UndoneRemembers DEF e

(* The last block is undone: the tip below it is worth what it was. *)
LEMMA LastUndone ==
    ASSUME LedgerInv, HistoryInv, mode = "undo", block = <<>>
    PROVE  \A k \in Key : Restores(LogOf(view, k), LogOf(Last(before), k))
<1>1. UndoesTo(view, <<>>, Last(before))
  BY DEF HistoryInv
<1> QED
  BY <1>1 DEF UndoesTo

LEMMA EndUndoRemembers ==
    ASSUME LedgerInv, HistoryInv, EndUndo
    PROVE  HistoryInv'
<1> DEFINE n == Len(chain)
           c == Front(chain)
           was == Front(before)
<1>1. /\ mode = "undo" /\ block = <<>> /\ mode' = "idle" /\ tip' = view
      /\ chain' = c /\ before' = was /\ view' = view
  BY DEF EndUndo
<1>2. chain # <<>>
  BY <1>1 DEF LedgerInv, Stages
<1>3. /\ n \in Nat \ {0} /\ DOMAIN chain = 1..n /\ DOMAIN before = 1..n
      /\ Len(c) = n - 1 /\ DOMAIN c = 1..(n - 1) /\ DOMAIN was = 1..(n - 1)
      /\ \A i \in 1..(n - 1) : c[i] = chain[i] /\ was[i] = before[i]
      /\ Last(before) = before[n] /\ Last(before) \in World
  <2>1. /\ chain \in Seq(Seq(GoodEntry)) /\ before \in Seq(World) /\ before # <<>>
        /\ Len(before) = n
    BY <1>2, LastBlock DEF LedgerInv, TypeOK
  <2>2. /\ n \in Nat \ {0} /\ DOMAIN chain = 1..n
        /\ Len(c) = n - 1 /\ DOMAIN c = 1..(n - 1)
        /\ \A i \in 1..(n - 1) : c[i] = chain[i]
    BY <1>2, <2>1, FrontAndLast
  <2>3. /\ DOMAIN before = 1..n /\ DOMAIN was = 1..(n - 1)
        /\ \A i \in 1..(n - 1) : was[i] = before[i]
        /\ Last(before) = before[n] /\ Last(before) \in World
    BY <2>1, FrontAndLast
  <2> QED
    BY <2>2, <2>3
<1> HIDE DEF n, c, was
<1>4. \A k \in Key : Restores(LogOf(view, k), LogOf(Last(before), k))
  BY <1>1, LastUndone
<1>5. AtMost(view, n - 1)
  <2> SUFFICES ASSUME NEW k \in Key PROVE Held(view, k).height <= n - 1
    BY DEF AtMost
  <2>1. Held(Last(before), k).height <= n - 1
    BY <1>3 DEF HistoryInv, AtMost
  <2>2. CASE LogOf(view, k) = LogOf(Last(before), k)
    <3>1. LogOf(view, k).height = LogOf(Last(before), k).height
      BY <2>2
    <3> QED
      BY <2>1, <3>1 DEF LogOf
  <2>3. CASE LogOf(view, k) # LogOf(Last(before), k)
    <3>1. LogOf(view, k).height = 0
      BY <1>4, <2>3 DEF Restores, Nothing
    <3> QED
      BY <1>3, <3>1 DEF LogOf
  <2> QED
    BY <2>2, <2>3
<1>6. \A i \in 1..(n - 1) : AtMost(was[i], i - 1)
  BY <1>3 DEF HistoryInv
<1>7. ASSUME NEW i \in 1..(n - 1) PROVE UndoesTo(After(i)', c[i], was[i])
  <2>1. i \in DOMAIN chain /\ c[i] = chain[i] /\ was[i] = before[i] /\ i # n
    BY <1>3
  <2>2. UndoesTo(After(i), chain[i], before[i]) /\ After(i) = before[i + 1]
    BY <2>1 DEF HistoryInv, After, n
  <2>3. CASE i = n - 1
    <3>1. After(i)' = view
      BY <1>1, <1>3, <2>3 DEF After
    <3>2. After(i) = Last(before)
      BY <1>3, <2>2, <2>3
    <3> QED
      BY <1>4, <2>1, <2>2, <3>1, <3>2, RestoredFirst
  <2>4. CASE i # n - 1
    <3>1. After(i)' = was[i + 1] /\ i + 1 \in 1..(n - 1)
      BY <1>1, <1>3, <2>4 DEF After
    <3> QED
      BY <1>3, <2>1, <2>2, <3>1
  <2> QED
    BY <2>3, <2>4
<1> QED
  BY <1>1, <1>3, <1>5, <1>6, <1>7 DEF HistoryInv

LEMMA HistoryStep == LedgerInv /\ HistoryInv /\ [Next]_vars => HistoryInv'
<1> SUFFICES ASSUME LedgerInv, HistoryInv, [Next]_vars PROVE HistoryInv'
  OBVIOUS
<1>1. CASE BeginConnect
  BY <1>1, BeginConnectRemembers
<1>2. CASE Executing
  <2>1. mode = "connect" /\ Len(block) < MaxTxs
    BY <1>2 DEF Executing
  <2>2. CASE \E k \in User, fee \in Fee : Register(k, fee)
    BY <2>1, <2>2, RegisterRemembers
  <2>3. CASE \E src \in Registered, des \in User \cup Registered,
                v \in Amount, fee \in Fee : Transfer(src, des, v, fee)
    BY <2>1, <2>3, TransferRemembers
  <2>4. CASE \E src \in Registered, app \in view.scripts,
                to \in User \cup Registered \cup {None},
                v, pay \in Amount, fee, fuel \in Fee :
                Contract(src, app, v, fee, fuel, to, pay)
    BY <2>1, <2>4, ContractRemembers
  <2>5. CASE \E src \in Registered, fee, fuel \in Fee : RegisterApp(src, fee, fuel)
    BY <2>1, <2>5, RegisterAppRemembers
  <2> QED
    BY <1>2, <2>2, <2>3, <2>4, <2>5 DEF Executing
<1>3. CASE \E miner \in Registered : Reward(miner)
  BY <1>3, RewardRemembers
<1>4. CASE ConnectMature
  BY <1>4, MatureRemembers
<1>5. CASE ConnectEarly
  BY <1>5, EarlyRemembers
<1>6. CASE BeginUndo
  BY <1>6, BeginUndoRemembers
<1>7. CASE UndoLog
  BY <1>7, UndoLogRemembers
<1>8. CASE UndoRegister
  BY <1>8, UndoRegisterRemembers
<1>9. CASE UndoRegisterApp
  BY <1>9, UndoRegisterAppRemembers
<1>10. CASE EndUndo
  BY <1>10, EndUndoRemembers
<1>11. CASE Drop
  BY <1>11, DropRemembers
<1>12. CASE UNCHANGED vars
  <2>1. /\ tip' = tip /\ view' = view /\ chain' = chain /\ before' = before
        /\ mode' = mode /\ block' = block
    BY <1>12 DEF vars
  <2>2. Height' = Height /\ \A i \in DOMAIN chain' : After(i)' = After(i)
    BY <2>1 DEF After, Height
  <2> QED
    BY <2>1, <2>2 DEF HistoryInv
<1> QED
  BY <1>1, <1>2, <1>3, <1>4, <1>5, <1>6, <1>7, <1>8, <1>9, <1>10, <1>11, <1>12 DEF Next

-----------------------------------------------------------------------------
(* What the chain remembers, and what an undo gives back.                  *)

(* Only DisconnectBlock, at its end, makes the chain shorter. *)
LEMMA OnlyUndoShortens ==
    ASSUME LedgerInv, [Next]_vars, Len(chain') < Len(chain)
    PROVE  EndUndo
<1>1. Len(chain) \in Nat /\ chain \in Seq(Seq(GoodEntry))
  BY Heights DEF LedgerInv
<1>2. chain' # chain
  BY <1>1
<1>3. ASSUME NEW w, NEW b, Commit(w, b) PROVE FALSE
  <2>1. Len(chain') = Len(chain) + 1
    BY <1>1, <1>3 DEF Commit
  <2> QED
    BY <1>1, <2>1
<1>4. ~ConnectMature /\ ~ConnectEarly
  BY <1>3 DEF ConnectMature, ConnectEarly
<1>5. ~BeginConnect /\ ~BeginUndo /\ ~Drop /\ ~UNCHANGED vars
  BY <1>2 DEF BeginConnect, BeginUndo, Drop, vars
<1>6. \A w, e : ~Executed(w, e)
  BY <1>2 DEF Executed
<1>7. ~Executing
  <2>1. \A k, fee : ~Register(k, fee)
    BY <1>6 DEF Register
  <2>2. \A src, des, v, fee : ~Transfer(src, des, v, fee)
    BY <1>6 DEF Transfer
  <2>3. \A src, app, v, fee, fuel, to, pay : ~Contract(src, app, v, fee, fuel, to, pay)
    BY <1>6 DEF Contract
  <2>4. \A src, fee, fuel : ~RegisterApp(src, fee, fuel)
    BY <1>6 DEF RegisterApp
  <2> QED
    BY <2>1, <2>2, <2>3, <2>4 DEF Executing
<1>8. \A miner : ~Reward(miner)
  BY <1>2 DEF Reward
<1>9. \A w : ~Undone(w)
  BY <1>2 DEF Undone
<1>10. ~UndoLog /\ ~UndoRegister /\ ~UndoRegisterApp
  BY <1>2, <1>9 DEF UndoLog, UndoRegister, UndoRegisterApp
<1> QED
  BY <1>4, <1>5, <1>7, <1>8, <1>10 DEF Next

(* Accounts with the same log are worth the same, and one without money     *)
(* has no coin days at a later height.                                      *)
LEMMA SameWorth ==
    ASSUME NEW a \in Account, NEW b \in Account, NEW h \in Nat,
           a.value = b.value, a.coin = b.coin, a.height = b.height
    PROVE  UpDateCoinDay(a, h).coin = UpDateCoinDay(b, h).coin
<1> DEFINE coin == LET grown == (a.coin + a.value * (h - a.height)) % Width
                       most == (a.value * MaxDay) % Width
                   IN IF grown > most THEN most ELSE grown
<1>1. /\ UpDateCoinDay(a, h) =
            IF h <= a.height THEN a ELSE [a EXCEPT !.coin = coin, !.height = h]
      /\ UpDateCoinDay(b, h) =
            IF h <= b.height THEN b ELSE [b EXCEPT !.coin = coin, !.height = h]
  BY DEF UpDateCoinDay
<1> HIDE DEF coin
<1> QED
  BY <1>1 DEF Account

LEMMA NoMoneyNoCoinDays ==
    ASSUME NEW a \in Account, NEW h \in Nat, a.value = 0, a.height < h
    PROVE  UpDateCoinDay(a, h).coin = 0
<1> DEFINE grown == (a.coin + a.value * (h - a.height)) % Width
           most == (a.value * MaxDay) % Width
           coin == IF grown > most THEN most ELSE grown
<1>1. a.coin \in Nat /\ a.height \in Nat /\ h - a.height \in Int
      /\ Width \in Nat \ {0} /\ MaxDay \in Nat
  BY Numbers DEF Account
<1>2. a.value * (h - a.height) = 0 /\ a.value * MaxDay = 0
  BY <1>1
<1>3. most = 0 /\ grown \in Nat
  <2>1. 0 % Width = 0
    BY <1>1
  <2>2. a.coin + a.value * (h - a.height) = a.coin
    BY <1>1, <1>2
  <2> QED
    BY <1>1, <1>2, <2>1, <2>2, Wrapped
<1>4. UpDateCoinDay(a, h) = [a EXCEPT !.coin = coin, !.height = h]
  <2>1. ~(h <= a.height)
    BY <1>1
  <2> QED
    BY <2>1 DEF UpDateCoinDay
<1> HIDE DEF grown, most
<1>5. coin = 0
  BY <1>3
<1> QED
  BY <1>4, <1>5 DEF Account

(* A view that restores the logs of another one is worth the same. *)
LEMMA RestoredWorth ==
    ASSUME NEW w \in World, NEW t \in World, NEW k \in Key, NEW h \in Nat \ {0},
           Restores(LogOf(w, k), LogOf(t, k)), Held(t, k).height < h
    PROVE  /\ ValueOf(w, k) = ValueOf(t, k)
           /\ UpDateCoinDay(Held(w, k), h).coin = UpDateCoinDay(Held(t, k), h).coin
<1> DEFINE a == Held(w, k)
           b == Held(t, k)
<1>1. a \in Account /\ b \in Account
  BY HeldType
<1>2. CASE LogOf(w, k) = LogOf(t, k)
  <2>1. /\ LogOf(w, k).value = a.value /\ LogOf(w, k).coin = a.coin
        /\ LogOf(w, k).height = a.height
        /\ LogOf(t, k).value = b.value /\ LogOf(t, k).coin = b.coin
        /\ LogOf(t, k).height = b.height
    BY DEF LogOf
  <2> HIDE DEF a, b
  <2> QED
    BY <1>1, <1>2, <2>1, SameWorth DEF ValueOf, a, b
<1>3. CASE LogOf(w, k) # LogOf(t, k)
  <2>1. LogOf(t, k).value = 0 /\ LogOf(w, k) = Nothing(LogOf(t, k).key)
    BY <1>3 DEF Restores
  <2>2. b.value = 0 /\ a.value = 0 /\ a.height = 0
    BY <2>1 DEF LogOf, Nothing
  <2>3. a.height < h /\ b.height < h
    BY <2>2
  <2> HIDE DEF a, b
  <2> QED
    BY <1>1, <2>2, <2>3, NoMoneyNoCoinDays DEF ValueOf, a, b
<1> QED
  BY <1>2, <1>3

(* At every step of connecting and disconnecting blocks, the undo data of   *)
(* the blocks - and of the part of a block executed or still to be undone - *)
(* leads from the views they produced back to the views they began with: it *)
(* holds for branches of any length, through blocks that are refused.       *)
THEOREM HistoryInvariance == Spec => []HistoryInv
<1> QED
  BY LedgerInit, LedgerStep, HistoryInit, HistoryStep, PTL DEF Spec

(* DisconnectBlock undoes what ConnectBlock did: each key has the money and *)
(* the coin days it had before the block was connected, although            *)
(* UndoExecuteTx restores three fields of an account from the logs and      *)
(* erases accounts that hold nothing.                                       *)
THEOREM DisconnectRestoresWorth == Spec => UndoRestoresWorth
<1>1. ASSUME LedgerInv, HistoryInv, [Next]_vars, Len(chain') < Len(chain), NEW k \in Key
      PROVE  Worth(tip, k)' = [value |-> ValueOf(Last(before), k),
                               coin |-> UpDateCoinDay(Held(Last(before), k), Height').coin]
  <2>1. EndUndo
    BY <1>1, OnlyUndoShortens
  <2>2. /\ mode = "undo" /\ block = <<>> /\ tip' = view /\ chain' = Front(chain)
        /\ chain # <<>> /\ view \in World
    BY <1>1, <2>1, Heights DEF EndUndo, LedgerInv, Stages
  <2>3. Restores(LogOf(view, k), LogOf(Last(before), k))
    BY <1>1, <2>2, LastUndone
  <2> DEFINE n == Len(chain)
             t == Last(before)
  <2>4. n \in Nat \ {0} /\ t \in World /\ t = before[n] /\ n \in DOMAIN before
    BY <1>1, <2>2, LastBlock
  <2>5. Height' = n
    <3>1. Len(Front(chain)) = n - 1
      BY <1>1, <2>2, FrontAndLast DEF LedgerInv
    <3>2. Height' = n - 1 + 1
      BY <2>2, <3>1 DEF Height
    <3> QED
      BY <2>4, <3>2
  <2>6. Held(t, k).height < n
    <3>1. Held(t, k).height <= n - 1
      BY <1>1, <2>4 DEF HistoryInv, AtMost
    <3>2. Held(t, k).height \in Nat
      BY <2>4, HeldType DEF Account
    <3> QED
      BY <2>4, <3>1, <3>2
  <2>7. Worth(tip, k)' = [value |-> ValueOf(tip', k),
                          coin |-> UpDateCoinDay(Held(tip', k), Height').coin]
    BY DEF Worth, ValueOf, Held
  <2> HIDE DEF n, t
  <2> QED
    BY <2>2, <2>3, <2>4, <2>5, <2>6, <2>7, RestoredWorth DEF t
<1>2. LedgerInv /\ HistoryInv /\ [Next]_vars =>
        [Len(chain') < Len(chain) =>
            \A k \in Key : Worth(tip, k)' =
                [value |-> ValueOf(Last(before), k),
                 coin |-> UpDateCoinDay(Held(Last(before), k), Height').coin]]_vars
  BY <1>1
<1> QED
  BY <1>2, LedgerInvariance, HistoryInvariance, PTL DEF Spec, UndoRestoresWorth

-----------------------------------------------------------------------------
(* Money: what the accounts of a view hold together.                       *)

LEMMA KeysAreFinite == IsFiniteSet(Key)
<1>1. MaxHeight \in Nat /\ MaxTxs \in Nat /\ Len(Genesis) \in Nat
  BY Numbers, LedgerGenesis, LenProperties
<1>2. IsFiniteSet(0..MaxHeight) /\ IsFiniteSet(0..(MaxTxs + Len(Genesis)))
  BY <1>1, FS_Interval
<1>3. IsFiniteSet(Id)
  BY <1>2, FS_Product DEF Id
<1> QED
  BY <1>3, FS_Union, LedgerNumbers DEF Key

LEMMA ValueType ==
    ASSUME NEW w \in World, NEW k \in Key
    PROVE  ValueOf(w, k) \in Nat
BY HeldType DEF ValueOf, Account

LEMMA MoneyType ==
    ASSUME NEW w \in World
    PROVE  Money(w) \in Nat
<1> DEFINE f == [k \in Key |-> ValueOf(w, k)]
<1>1. DOMAIN f = Key /\ \A k \in Key : f[k] \in Nat
  BY ValueType
<1>2. 0 \in Nat /\ \A x, y \in Nat : x + y \in Nat
  OBVIOUS
<1>3. Money(w) = SumFunctionOnSet(f, Key)
  BY DEF Money, SumFunction
<1> HIDE DEF f
<1> QED
  BY <1>1, <1>2, <1>3, KeysAreFinite, SumType

LEMMA MoneyMoved ==
    ASSUME NEW w \in World, NEW w2 \in World, NEW k \in Key,
           \A x \in Key : x # k => w2.acct[x] = w.acct[x]
    PROVE  Money(w2) = Money(w) - ValueOf(w, k) + ValueOf(w2, k)
<1> DEFINE f == [x \in Key |-> ValueOf(w, x)]
           g == [x \in Key |-> ValueOf(w2, x)]
<1>1. SameBut(f, g, Key, k)
  <2> SUFFICES ASSUME NEW x \in Key
               PROVE  f[x] \in Int /\ g[x] \in Int /\ (x # k => f[x] = g[x])
    BY DEF SameBut
  <2>1. f[x] \in Nat /\ g[x] \in Nat
    BY ValueType
  <2>2. x # k => f[x] = g[x]
    BY DEF ValueOf, Held
  <2> QED
    BY <2>1, <2>2
<1>2. Money(w) = SumFunctionOnSet(f, Key) /\ Money(w2) = SumFunctionOnSet(g, Key)
  BY DEF Money, SumFunction
<1>3. f[k] = ValueOf(w, k) /\ g[k] = ValueOf(w2, k)
  OBVIOUS
<1> HIDE DEF f, g
<1> QED
  BY <1>1, <1>2, <1>3, KeysAreFinite, SumChanged

LEMMA MoneySame ==
    ASSUME NEW w, NEW w2, \A k \in Key : ValueOf(w2, k) = ValueOf(w, k)
    PROVE  Money(w2) = Money(w)
BY DEF Money

LEMMA MoneyCredited ==
    ASSUME NEW w \in World, NEW k \in Key, NEW v \in Nat, Height \in Nat
    PROVE  Credit(w, k, v) \in World /\ Money(Credit(w, k, v)) = Money(w) + v
<1> DEFINE a == Plus(Held(w, k), v, Height)
           w2 == SetAccount(w, k, a)
<1>1. Held(w, k) \in Account
  BY HeldType
<1>2. a \in Account /\ a.value = ValueOf(w, k) + v
  BY <1>1, PlusType DEF ValueOf
<1>3. Credit(w, k, v) = w2
  BY DEF Credit
<1> HIDE DEF a
<1>4. /\ w2 \in World /\ w2.acct[k] = a
      /\ \A x \in Key : x # k => w2.acct[x] = w.acct[x]
  BY <1>2, SetAccountType
<1> HIDE DEF w2
<1>5. ValueOf(w2, k) = ValueOf(w, k) + v
  BY <1>2, <1>4, Ids DEF ValueOf, Held
<1>6. Money(w2) = Money(w) - ValueOf(w, k) + ValueOf(w2, k)
  BY <1>4, MoneyMoved
<1>7. Money(w) \in Nat /\ ValueOf(w, k) \in Nat
  BY MoneyType, ValueType
<1> QED
  BY <1>3, <1>4, <1>5, <1>6, <1>7

LEMMA MoneyDebited ==
    ASSUME NEW w \in World, NEW k \in Key, w.acct[k] # None,
           NEW v \in Nat, v <= w.acct[k].value, Height \in Nat
    PROVE  Debit(w, k, v) \in World /\ Money(Debit(w, k, v)) = Money(w) - v
<1> DEFINE a == Minus(w.acct[k], v, Height)
           w2 == SetAccount(w, k, a)
<1>1. w.acct[k] \in Account /\ Held(w, k) = w.acct[k]
  BY HeldType DEF Held
<1>2. a \in Account /\ a.value = ValueOf(w, k) - v
  BY <1>1, MinusType DEF ValueOf
<1>3. Debit(w, k, v) = w2
  BY DEF Debit
<1> HIDE DEF a
<1>4. /\ w2 \in World /\ w2.acct[k] = a
      /\ \A x \in Key : x # k => w2.acct[x] = w.acct[x]
  BY <1>2, SetAccountType
<1> HIDE DEF w2
<1>5. ValueOf(w2, k) = ValueOf(w, k) - v
  BY <1>2, <1>4, Ids DEF ValueOf, Held
<1>6. Money(w2) = Money(w) - ValueOf(w, k) + ValueOf(w2, k)
  BY <1>4, MoneyMoved
<1>7. Money(w) \in Nat /\ ValueOf(w, k) \in Nat
  BY MoneyType, ValueType
<1> QED
  BY <1>3, <1>4, <1>5, <1>6, <1>7

(* What a block burns and earns, with one more entry. *)
LEMMA BlockAppended ==
    ASSUME NEW b \in Seq(GoodEntry), NEW e, e.fee \in Nat, e.fuel \in Nat
    PROVE  /\ Burnt(b) \in Int /\ RewardValue(b) \in Int
           /\ Burnt(Append(b, e)) = Burnt(b) + e.fuel
           /\ RewardValue(Append(b, e)) = RewardValue(b) + e.fee - e.fuel
           /\ ToSet(Append(b, e)) = ToSet(b) \cup {e}
<1> DEFINE n == Len(b)
           b2 == Append(b, e)
           f == [i \in DOMAIN b |-> b[i].fuel]
           f2 == [i \in DOMAIN b2 |-> b2[i].fuel]
           g == [i \in DOMAIN b |-> b[i].fee - b[i].fuel]
           g2 == [i \in DOMAIN b2 |-> b2[i].fee - b2[i].fuel]
<1>1. /\ n \in Nat /\ DOMAIN b = 1..n /\ DOMAIN b2 = 1..(n + 1)
      /\ \A i \in 1..n : b2[i] = b[i]
      /\ b2[n + 1] = e
  <2>1. b \in Seq(GoodEntry \cup {e}) /\ e \in GoodEntry \cup {e}
    BY SeqMonotonic
  <2> QED
    BY <2>1, AppendedTo
<1>2. \A i \in 1..n : b[i].fee \in Nat /\ b[i].fuel \in Nat
  <2> SUFFICES ASSUME NEW i \in 1..n PROVE b[i].fee \in Nat /\ b[i].fuel \in Nat
    OBVIOUS
  <2>1. b[i] \in GoodEntry
    BY <1>1, ElementOfSeq
  <2> QED
    BY <2>1 DEF GoodEntry, Entry
<1> HIDE DEF n, b2
<1>3. SumFunction(f) \in Int /\ SumFunction(f2) = SumFunction(f) + e.fuel
  <2>1. /\ DOMAIN f = 1..n /\ DOMAIN f2 = 1..(n + 1) /\ f2[n + 1] = e.fuel
        /\ \A i \in 1..n : f2[i] = f[i] /\ f[i] \in Int
        /\ f2[n + 1] \in Int
    BY <1>1, <1>2
  <2> HIDE DEF f, f2
  <2> QED
    BY <1>1, <2>1, SumAppended
<1>4. SumFunction(g) \in Int /\ SumFunction(g2) = SumFunction(g) + (e.fee - e.fuel)
  <2>1. /\ DOMAIN g = 1..n /\ DOMAIN g2 = 1..(n + 1) /\ g2[n + 1] = e.fee - e.fuel
        /\ \A i \in 1..n : g2[i] = g[i] /\ g[i] \in Int
        /\ g2[n + 1] \in Int
    BY <1>1, <1>2
  <2> HIDE DEF g, g2
  <2> QED
    BY <1>1, <2>1, SumAppended
<1>5. /\ Burnt(b) = SumFunction(f) /\ Burnt(b2) = SumFunction(f2)
      /\ RewardValue(b) = PosReward + SumFunction(g)
      /\ RewardValue(b2) = PosReward + SumFunction(g2)
  BY DEF Burnt, RewardValue
<1> HIDE DEF f, f2, g, g2
<1>6. ToSet(b2) = ToSet(b) \cup {e}
  BY <1>1 DEF ToSet
<1>7. PosReward \in Nat
  BY Numbers
<1> QED
  BY <1>3, <1>4, <1>5, <1>6, <1>7 DEF b2

-----------------------------------------------------------------------------
(* The third inductive invariant: where the money is.                      *)

NoReward(b) == \A e \in ToSet(b) : e.type # "reward"

(* r is the one reward of b. *)
IsReward(b, r) ==
    /\ r \in ToSet(b) /\ r.type = "reward"
    /\ \A e \in ToSet(b) : e.type = "reward" => e = r

LEMMA RewardIsOne == ASSUME NEW b, NEW r, IsReward(b, r) PROVE RewardOf(b) = r
BY DEF IsReward, RewardOf

DuesOf(c) == [i \in DOMAIN c |-> RewardOf(c[i]).fee]
FuelsOf(c) == [i \in DOMAIN c |-> Burnt(c[i])]
Owed(n) == {i \in 1..n : i + Maturity > n}

(* The money of view w, which stands on the first n blocks of c, together   *)
(* with the rewards of these blocks that are not paid yet, and their fuel.  *)
Balanced(c, w, n) ==
    Money(w) + SumFunctionOnSet(DuesOf(c), Owed(n)) + SumFunctionOnSet(FuelsOf(c), 1..n)
        = Money(GenesisWorld) + PosReward * n

MoneyInv ==
    /\ Balanced(chain, tip, Len(chain))
    /\ \A i \in DOMAIN before : Balanced(chain, before[i], i - 1)
    /\ mode = "connect" =>
          /\ NoReward(block)
          /\ Money(view) + RewardValue(block) + Burnt(block) = Money(tip) + PosReward
    /\ mode = "rewarded" => \E r \in GoodEntry :
          /\ IsReward(block, r)
          /\ Money(view) + r.fee + Burnt(block) = Money(tip) + PosReward

LEMMA OwedIsFinite ==
    ASSUME NEW n \in Nat
    PROVE  IsFiniteSet(1..n) /\ IsFiniteSet(Owed(n)) /\ Owed(n) \subseteq 1..n
<1>1. IsFiniteSet(1..n)
  BY FS_Interval
<1>2. Owed(n) \subseteq 1..n
  BY DEF Owed
<1> QED
  BY <1>1, <1>2, FS_Subset

(* It does not matter what blocks come later. *)
LEMMA BalancedStays ==
    ASSUME NEW c, NEW d, NEW w, NEW n \in Nat, Balanced(c, w, n),
           \A i \in 1..n : i \in DOMAIN c /\ i \in DOMAIN d /\ c[i] = d[i]
    PROVE  Balanced(d, w, n)
<1>1. \A i \in 1..n : DuesOf(c)[i] = DuesOf(d)[i] /\ FuelsOf(c)[i] = FuelsOf(d)[i]
  BY DEF DuesOf, FuelsOf
<1>2. SumFunctionOnSet(FuelsOf(c), 1..n) = SumFunctionOnSet(FuelsOf(d), 1..n)
  BY <1>1, OwedIsFinite, SumSame
<1>3. SumFunctionOnSet(DuesOf(c), Owed(n)) = SumFunctionOnSet(DuesOf(d), Owed(n))
  <2>1. \A i \in Owed(n) : DuesOf(c)[i] = DuesOf(d)[i]
    BY <1>1, OwedIsFinite
  <2> QED
    BY <2>1, OwedIsFinite, SumSame
<1> QED
  BY <1>2, <1>3 DEF Balanced

LEMMA BurntType ==
    ASSUME NEW b \in Seq(GoodEntry)
    PROVE  Burnt(b) \in Nat
<1> DEFINE f == [i \in DOMAIN b |-> b[i].fuel]
<1>1. IsFiniteSet(DOMAIN b)
  BY LenProperties, FS_Interval
<1>2. \A i \in DOMAIN b : f[i] \in Nat
  <2> SUFFICES ASSUME NEW i \in DOMAIN b PROVE b[i].fuel \in Nat
    OBVIOUS
  <2>1. b[i] \in GoodEntry
    BY LenProperties, ElementOfSeq
  <2> QED
    BY <2>1 DEF GoodEntry, Entry
<1>3. DOMAIN f = DOMAIN b /\ 0 \in Nat /\ \A x, y \in Nat : x + y \in Nat
  OBVIOUS
<1>4. Burnt(b) = SumFunctionOnSet(f, DOMAIN b)
  BY DEF Burnt, SumFunction
<1> HIDE DEF f
<1>5. SumFunctionOnSet(f, DOMAIN b) \in Nat
  <2> DEFINE S == DOMAIN b
  <2>1. IsFiniteSet(S) /\ 0 \in Nat /\ (\A x, y \in Nat : x + y \in Nat)
        /\ \A x \in S : f[x] \in Nat
    BY <1>1, <1>2, <1>3
  <2> HIDE DEF S
  <2>2. SumFunctionOnSet(f, S) \in Nat
    BY <2>1, SumType
  <2> QED
    BY <2>2 DEF S
<1> QED
  BY <1>4, <1>5

(* What the sums of the chain are made of. *)
LEMMA ChainTerms ==
    ASSUME LedgerInv
    PROVE  /\ Len(chain) \in Nat /\ DOMAIN chain = 1..Len(chain)
           /\ DOMAIN before = 1..Len(chain)
           /\ \A i \in 1..Len(chain) : /\ DuesOf(chain)[i] = RewardOf(chain[i]).fee
                                       /\ DuesOf(chain)[i] \in Int
                                       /\ FuelsOf(chain)[i] \in Int
<1>1. /\ chain \in Seq(Seq(GoodEntry)) /\ before \in Seq(World) /\ Len(before) = Len(chain)
  BY DEF LedgerInv, TypeOK
<1>2. /\ Len(chain) \in Nat /\ DOMAIN chain = 1..Len(chain)
      /\ DOMAIN before = 1..Len(chain)
  BY <1>1, LenProperties
<1>3. ASSUME NEW i \in 1..Len(chain)
      PROVE  /\ DuesOf(chain)[i] = RewardOf(chain[i]).fee
             /\ DuesOf(chain)[i] \in Int
             /\ FuelsOf(chain)[i] \in Int
  <2>1. RewardOf(chain[i]).fee \in Nat
    BY <1>2, RewardOfChain DEF GoodEntry, Entry
  <2>2. Burnt(chain[i]) \in Nat
    BY <1>1, <1>2, ElementOfSeq, BurntType
  <2> QED
    BY <1>2, <2>1, <2>2 DEF DuesOf, FuelsOf
<1> QED
  BY <1>2, <1>3

(* A block connected: its reward is owed, its fuel burnt, and the reward    *)
(* of the block Maturity below it paid.                                     *)
LEMMA BalancedCommit ==
    ASSUME LedgerInv, Balanced(chain, tip, Len(chain)), NEW w \in World,
           NEW b \in Seq(GoodEntry), NEW r \in GoodEntry, IsReward(b, r),
           NEW paid \in Nat,
           IF Height > Maturity THEN paid = RewardOf(chain[Height - Maturity]).fee
           ELSE paid = 0,
           Money(w) + r.fee + Burnt(b) = Money(tip) + PosReward + paid
    PROVE  Balanced(Append(chain, b), w, Len(chain) + 1)
<1> DEFINE n == Len(chain)
           c == Append(chain, b)
           D == DuesOf(chain)
           D2 == DuesOf(c)
           F == FuelsOf(chain)
           F2 == FuelsOf(c)
           last == n + 1
           due == last - Maturity
<1>1. /\ n \in Nat /\ last \in Nat /\ Height = last /\ Maturity \in Nat \ {0}
      /\ DOMAIN chain = 1..n
      /\ \A i \in 1..n : D[i] \in Int /\ F[i] \in Int /\ D[i] = RewardOf(chain[i]).fee
  BY ChainTerms, Heights, Numbers
<1>2. /\ DOMAIN c = 1..last /\ c[last] = b
      /\ \A i \in 1..n : c[i] = chain[i]
  <2>1. chain \in Seq(Seq(GoodEntry))
    BY DEF LedgerInv
  <2> QED
    BY <2>1, AppendedTo
<1>3. RewardOf(b) = r /\ r.fee \in Nat /\ Burnt(b) \in Nat
  BY RewardIsOne, BurntType DEF GoodEntry, Entry
<1>4. /\ \A i \in 1..n : D2[i] = D[i] /\ F2[i] = F[i]
      /\ D2[last] = r.fee /\ F2[last] = Burnt(b)
  <2>1. \A i \in 1..n : i \in 1..last
    BY <1>1
  <2>2. last \in 1..last
    BY <1>1
  <2> HIDE DEF last
  <2> QED
    BY <1>1, <1>2, <1>3, <2>1, <2>2 DEF DuesOf, FuelsOf
<1>5. 1..last = 1..n \cup {last} /\ last \notin 1..n
  BY <1>1
<1> HIDE DEF D, D2, F, F2, c
<1>6. /\ SumFunctionOnSet(F, 1..n) \in Int
      /\ SumFunctionOnSet(F2, 1..last) = SumFunctionOnSet(F, 1..n) + Burnt(b)
  <2>1. SameOn(F, F2, 1..n) /\ F2[last] \in Int
    BY <1>1, <1>3, <1>4 DEF SameOn
  <2>2. IsFiniteSet(1..n)
    BY <1>1, OwedIsFinite
  <2> DEFINE S == 1..n
  <2> HIDE DEF last, n, S
  <2>3. IsFiniteSet(S) /\ last \notin S /\ SameOn(F, F2, S) /\ F2[last] \in Int
    BY <1>5, <2>1, <2>2 DEF S
  <2>4. /\ SumFunctionOnSet(F, S) \in Int
        /\ SumFunctionOnSet(F2, S \cup {last}) = SumFunctionOnSet(F, S) + F2[last]
    <3>1. SumFunctionOnSet(F, S) \in Int
      <4>1. \A x \in S : F[x] = F2[x] /\ F2[x] \in Int
        BY <2>3 DEF SameOn
      <4>2. \A x \in S : F[x] \in Int
        BY <4>1
      <4>3. IsFiniteSet(S)
        BY <2>3
      <4> QED
        BY <4>2, <4>3, SumIsInteger
    <3>2. SumFunctionOnSet(F2, S \cup {last}) = SumFunctionOnSet(F, S) + F2[last]
      BY <2>3, SumExtended
    <3> QED
      BY <3>1, <3>2
  <2>5. S \cup {last} = 1..last /\ F2[last] = Burnt(b)
    BY <1>4, <1>5 DEF S
  <2> QED
    BY <2>4, <2>5 DEF S
<1>7. /\ SumFunctionOnSet(D, Owed(n)) \in Int
      /\ SumFunctionOnSet(D2, Owed(last)) = SumFunctionOnSet(D, Owed(n)) - paid + r.fee
  <2> DEFINE S == IF last > Maturity THEN Owed(n) \ {due} ELSE Owed(n)
  <2>1. Owed(last) = S \cup {last} /\ last \notin S /\ S \subseteq 1..n
    BY <1>1 DEF Owed
  <2>2. last > Maturity => due \in Owed(n) /\ paid = D[due]
    <3>1. last > Maturity => due \in Owed(n) /\ due \in 1..n
      BY <1>1 DEF Owed
    <3> QED
      BY <1>1, <3>1
  <2>3. IsFiniteSet(S) /\ IsFiniteSet(Owed(n)) /\ Owed(n) \subseteq 1..n
    BY <1>1, <2>1, OwedIsFinite, FS_Subset
  <2>4. SumFunctionOnSet(D2, S \cup {last}) = SumFunctionOnSet(D, S) + r.fee
        /\ SumFunctionOnSet(D, S) \in Int
    <3>1. SameOn(D, D2, S) /\ D2[last] \in Int
      BY <1>1, <1>3, <1>4, <2>1 DEF SameOn
    <3> HIDE DEF S, last, n
    <3>2. /\ SumFunctionOnSet(D, S) \in Int
          /\ SumFunctionOnSet(D2, S \cup {last}) = SumFunctionOnSet(D, S) + D2[last]
      <4>1. \A x \in S : D[x] \in Int
        BY <3>1 DEF SameOn
      <4>2. SumFunctionOnSet(D, S) \in Int
        BY <2>3, <4>1, SumIsInteger
      <4>3. IsFiniteSet(S) /\ last \notin S /\ SameOn(D, D2, S) /\ D2[last] \in Int
        BY <2>1, <2>3, <3>1
      <4>4. SumFunctionOnSet(D2, S \cup {last}) = SumFunctionOnSet(D, S) + D2[last]
        BY <4>3, SumExtended
      <4> QED
        BY <4>2, <4>4
    <3> QED
      BY <1>4, <3>2
  <2>5. SumFunctionOnSet(D, Owed(n)) = SumFunctionOnSet(D, S) + paid
    <3>1. CASE last > Maturity
      <4>1. S = Owed(n) \ {due} /\ due \in Owed(n) /\ paid = D[due]
        BY <2>2, <3>1
      <4>2. \A i \in Owed(n) : D[i] \in Int
        BY <1>1, <2>3
      <4> HIDE DEF S, due
      <4>3. SumFunctionOnSet(D, Owed(n)) = D[due] + SumFunctionOnSet(D, Owed(n) \ {due})
        BY <2>3, <4>1, <4>2, SumWithout
      <4>4. D[due] \in Int
        BY <4>1, <4>2
      <4> QED
        BY <2>4, <4>1, <4>3, <4>4
    <3>2. CASE ~(last > Maturity)
      BY <1>1, <2>4, <3>2
    <3> QED
      BY <3>1, <3>2
  <2> HIDE DEF S, n, last
  <2>6. paid \in Int /\ r.fee \in Int
    BY <1>3
  <2>7. SumFunctionOnSet(D2, Owed(last)) = SumFunctionOnSet(D, S) + r.fee
    BY <2>1, <2>4
  <2>8. \A x, y, z \in Int : (x + y) - y + z = x + z /\ x + y \in Int
    OBVIOUS
  <2> QED
    BY <2>4, <2>5, <2>6, <2>7, <2>8
<1>8. /\ Money(tip) + SumFunctionOnSet(D, Owed(n)) + SumFunctionOnSet(F, 1..n)
            = Money(GenesisWorld) + PosReward * n
      /\ Money(w) \in Nat /\ Money(tip) \in Nat /\ PosReward \in Nat
  BY MoneyType, Heights, Numbers DEF Balanced, D, F
<1>9. Money(GenesisWorld) \in Int /\ PosReward * n \in Int
      /\ PosReward * last = PosReward * n + PosReward
  <2>1. GenesisWorld \in World
    BY GenesisIsWorld
  <2>2. \A p, m \in Nat : p * m \in Int /\ p * (m + 1) = p * m + p
    OBVIOUS
  <2> QED
    BY <1>1, <1>8, <2>1, <2>2, MoneyType
<1> DEFINE e == PosReward * n
           e2 == PosReward * last
<1> HIDE DEF n, last, e, e2
<1>10. Money(w) + SumFunctionOnSet(D2, Owed(last)) + SumFunctionOnSet(F2, 1..last)
        = Money(GenesisWorld) + e2
  <2>1. /\ Money(tip) \in Int /\ Money(w) \in Int /\ Money(GenesisWorld) \in Int
        /\ SumFunctionOnSet(D, Owed(n)) \in Int /\ SumFunctionOnSet(F, 1..n) \in Int
        /\ r.fee \in Int /\ Burnt(b) \in Int /\ paid \in Int /\ PosReward \in Int
        /\ e \in Int /\ e2 = e + PosReward
    BY <1>3, <1>6, <1>7, <1>8, <1>9 DEF e, e2
  <2>2. /\ Money(tip) + SumFunctionOnSet(D, Owed(n)) + SumFunctionOnSet(F, 1..n)
              = Money(GenesisWorld) + e
        /\ Money(w) + r.fee + Burnt(b) = Money(tip) + PosReward + paid
    BY <1>8 DEF e
  <2> DEFINE mt == Money(tip)
             mw == Money(w)
             mg == Money(GenesisWorld)
             od == SumFunctionOnSet(D, Owed(n))
             fb == SumFunctionOnSet(F, 1..n)
             fe == r.fee
             bu == Burnt(b)
             o2 == SumFunctionOnSet(D2, Owed(last))
             f2 == SumFunctionOnSet(F2, 1..last)
  <2>3. /\ SumFunctionOnSet(D2, Owed(last)) = SumFunctionOnSet(D, Owed(n)) - paid + r.fee
        /\ SumFunctionOnSet(F2, 1..last) = SumFunctionOnSet(F, 1..n) + Burnt(b)
    BY <1>6, <1>7
  <2> HIDE DEF mt, mw, mg, od, fb, fe, bu, o2, f2
  <2>4. /\ mt + od + fb = mg + e
        /\ mw + fe + bu = mt + PosReward + paid
        /\ o2 = od - paid + fe
        /\ f2 = fb + bu
    BY <2>2, <2>3 DEF mt, mw, mg, od, fb, fe, bu, o2, f2
  <2>5. /\ mt \in Int /\ mw \in Int /\ mg \in Int /\ od \in Int /\ fb \in Int
        /\ fe \in Int /\ bu \in Int /\ paid \in Int /\ PosReward \in Int
        /\ e \in Int /\ e2 = e + PosReward
    BY <2>1 DEF mt, mw, mg, od, fb, fe, bu
  <2>6. mw + o2 + f2 = mg + e2
    BY <2>4, <2>5
  <2> QED
    BY <2>6 DEF mw, o2, f2, mg
<1> QED
  BY <1>10 DEF Balanced, c, last, n, D2, F2, e2

(* What the invariant says of a block to which another entry is added. *)
LEMMA MoreInBlock ==
    ASSUME LedgerInv, MoneyInv, mode = "connect", NEW w \in World, NEW e,
           e.fee \in Nat, e.fuel \in Nat, e.type # "reward",
           Money(w) = Money(view) - e.fee
    PROVE  LET b == Append(block, e) IN
           /\ NoReward(b)
           /\ Money(w) + RewardValue(b) + Burnt(b) = Money(tip) + PosReward
<1> DEFINE b == Append(block, e)
<1>1. /\ NoReward(block) /\ block \in Seq(GoodEntry)
      /\ Money(view) + RewardValue(block) + Burnt(block) = Money(tip) + PosReward
  BY DEF MoneyInv, LedgerInv
<1>2. /\ Burnt(block) \in Int /\ RewardValue(block) \in Int
      /\ Burnt(b) = Burnt(block) + e.fuel
      /\ RewardValue(b) = RewardValue(block) + e.fee - e.fuel
      /\ ToSet(b) = ToSet(block) \cup {e}
  BY <1>1, BlockAppended
<1>3. Money(view) \in Nat /\ Money(w) \in Nat
  BY Heights, MoneyType
<1> HIDE DEF b
<1>4. NoReward(b)
  BY <1>1, <1>2 DEF NoReward
<1>5. Money(w) + RewardValue(b) + Burnt(b) = Money(tip) + PosReward
  BY <1>1, <1>2, <1>3
<1> QED
  BY <1>4, <1>5 DEF b

(* A transaction takes its fee from the accounts, and nothing else. *)
LEMMA ExecutedPays ==
    ASSUME LedgerInv, MoneyInv, mode = "connect", NEW w \in World, NEW e,
           e.fee \in Nat, e.fuel \in Nat, e.type # "reward",
           Money(w) = Money(view) - e.fee, Executed(w, e)
    PROVE  MoneyInv'
<1> DEFINE b == Append(block, e)
<1>1. NoReward(b) /\ Money(w) + RewardValue(b) + Burnt(b) = Money(tip) + PosReward
  BY MoreInBlock
<1>2. /\ view' = w /\ block' = b /\ mode' = mode
      /\ tip' = tip /\ chain' = chain /\ before' = before
  BY DEF Executed
<1> HIDE DEF b
<1>3. /\ Balanced(chain, tip, Len(chain))
      /\ \A i \in DOMAIN before : Balanced(chain, before[i], i - 1)
  BY DEF MoneyInv
<1> QED
  BY <1>1, <1>2, <1>3 DEF MoneyInv

LEMMA TransferPays ==
    ASSUME LedgerInv, MoneyInv, mode = "connect",
           NEW src \in Registered, NEW des \in User \cup Registered,
           NEW v \in Amount, NEW fee \in Fee, Transfer(src, des, v, fee)
    PROVE  MoneyInv'
<1> DEFINE from == view.ids[src]
           w == Debit(view, from, v + fee)
           to == KeyOf(w, des)
           w2 == Credit(w, to, v)
           e == [type |-> "common", id |-> None, user |-> from, fee |-> fee,
                 fuel |-> 0, logs |-> <<LogOf(view, from), LogOf(w, to)>>]
<1>1. v \in Nat /\ fee \in Nat /\ v + fee \in Nat
  BY Numbers
<1>2. /\ MaySend(src, v + fee)
      /\ Has(w, des) \/ des \in User
      /\ Executed(w2, e)
  BY DEF Transfer
<1>3. e.fee = fee /\ e.fuel = 0 /\ e.type # "reward"
  OBVIOUS
<1> HIDE DEF w2, e, to
<1>4. /\ from \in Key /\ view.acct[from] \in Account /\ view.acct[from] # None
      /\ v + fee <= view.acct[from].value
  BY <1>1, <1>2, SenderCanPay, Ids
<1>5. view \in World /\ Height \in Nat
  BY Heights
<1>6. w \in World /\ Money(w) = Money(view) - (v + fee)
  BY <1>1, <1>4, <1>5, MoneyDebited
<1> HIDE DEF w, from
<1>7. to \in Key
  <2>1. des \in Key
    BY Ids DEF Registered
  <2> QED
    BY <1>2, <1>6, <2>1, KeyOfType DEF to
<1>8. w2 \in World /\ Money(w2) = Money(w) + v
  BY <1>1, <1>5, <1>6, <1>7, MoneyCredited DEF w2
<1>9. Money(w2) = Money(view) - e.fee
  <2>1. Money(view) \in Nat
    BY <1>5, MoneyType
  <2> QED
    BY <1>1, <1>3, <1>6, <1>8, <2>1
<1> QED
  BY <1>1, <1>2, <1>3, <1>8, <1>9, ExecutedPays

LEMMA ContractPays ==
    ASSUME LedgerInv, MoneyInv, mode = "connect",
           NEW src \in Registered, NEW app \in view.scripts,
           NEW to \in User \cup Registered \cup {None},
           NEW v \in Amount, NEW pay \in Amount, NEW fee \in Fee, NEW fuel \in Fee,
           Contract(src, app, v, fee, fuel, to, pay)
    PROVE  MoneyInv'
<1> DEFINE from == view.ids[src]
           owner == view.ids[app]
           w1 == Debit(view, from, v + fee)
           w2 == Credit(w1, owner, v)
           w3 == Debit(w2, owner, pay)
           k == KeyOf(view, to)
           w4 == Credit(w3, k, pay)
           l1 == LogOf(view, from)
           l2 == LogOf(w1, owner)
           l3 == LogOf(w2, owner)
           l4 == LogOf(w3, k)
           entry(logs) == [type |-> "contract", id |-> None, user |-> from, fee |-> fee,
                           fuel |-> fuel, logs |-> <<l1, l2>> \o logs]
<1>1. v \in Nat /\ pay \in Nat /\ fee \in Nat /\ fuel \in Nat /\ v + fee \in Nat
  BY Numbers
<1>2. /\ MaySend(src, v + fee)
      /\ Has(view, app)
      /\ IF to = None
         THEN Executed(w2, entry(<<>>))
         ELSE /\ Affordable(w2.acct[owner], pay)
              /\ Has(view, to) \/ to \in User
              /\ Executed(w4, entry(<<l3, l4>>))
  BY DEF Contract
<1>3. \A logs : entry(logs).fee = fee /\ entry(logs).fuel = fuel
                /\ entry(logs).type # "reward"
  OBVIOUS
<1> HIDE DEF l1, l2, l3, l4, w4, w3, w2, k, entry
<1>4. view \in World /\ Height \in Nat
  BY Heights
<1>5. /\ from \in Key /\ view.acct[from] \in Account /\ view.acct[from] # None
      /\ v + fee <= view.acct[from].value
  BY <1>1, <1>2, SenderCanPay, Ids
<1>6. w1 \in World /\ Money(w1) = Money(view) - (v + fee)
  BY <1>1, <1>4, <1>5, MoneyDebited
<1> HIDE DEF w1
<1>7. owner \in Key
  <2>1. app \in Id /\ app \in Key
    BY <1>4, Ids DEF World
  <2>2. KeyOf(view, app) = owner
    BY <2>1 DEF KeyOf
  <2> QED
    BY <1>2, <1>4, <2>1, <2>2, KeyOfType
<1> HIDE DEF from, owner
<1>8. /\ w2 \in World /\ w2.acct[owner] \in Account
      /\ Money(w2) = Money(w1) + v
  BY <1>1, <1>4, <1>6, <1>7, CreditType, MoneyCredited DEF w2
<1>9. Money(view) \in Nat /\ Money(w2) = Money(view) - fee
  <2>1. Money(view) \in Nat
    BY <1>4, MoneyType
  <2> QED
    BY <1>1, <1>6, <1>8, <2>1
<1>10. CASE to = None
  <2>1. Executed(w2, entry(<<>>))
    BY <1>2, <1>10
  <2>2. entry(<<>>).fee = fee /\ entry(<<>>).fuel = fuel /\ entry(<<>>).type # "reward"
    BY <1>3
  <2> QED
    BY <1>1, <1>8, <1>9, <2>1, <2>2, ExecutedPays
<1>11. CASE to # None
  <2> DEFINE e == entry(<<l3, l4>>)
  <2>1. /\ Affordable(w2.acct[owner], pay)
        /\ Has(view, to) \/ to \in User
        /\ Executed(w4, e)
    BY <1>2, <1>11
  <2>2. w2.acct[owner] # None /\ pay <= w2.acct[owner].value
    BY <1>8, <2>1, Ids DEF Affordable
  <2>3. w3 \in World /\ Money(w3) = Money(w2) - pay
    BY <1>1, <1>4, <1>7, <1>8, <2>2, MoneyDebited DEF w3
  <2>4. k \in Key
    <3>1. to \in Key
      BY <1>11, Ids DEF Registered
    <3> QED
      BY <1>4, <2>1, <3>1, KeyOfType DEF k
  <2>5. w4 \in World /\ Money(w4) = Money(w3) + pay
    BY <1>1, <1>4, <2>3, <2>4, MoneyCredited DEF w4
  <2>6. e.fee = fee /\ e.fuel = fuel /\ e.type # "reward"
    BY <1>3
  <2> HIDE DEF e
  <2>7. Money(w4) = Money(view) - e.fee
    BY <1>1, <1>9, <2>3, <2>5, <2>6
  <2> QED
    BY <1>1, <2>1, <2>5, <2>6, <2>7, ExecutedPays
<1> QED
  BY <1>10, <1>11

LEMMA RegisterPays ==
    ASSUME LedgerInv, MoneyInv, mode = "connect", Len(block) < MaxTxs,
           NEW k \in User, NEW fee \in Fee, Register(k, fee)
    PROVE  MoneyInv'
<1> DEFINE old == view.acct[k]
           paid == IF fee > 0 THEN Minus(old, fee, Height) ELSE old
           a == [paid EXCEPT !.pub = TRUE, !.reg = NextId]
           w1 == SetAccount(view, k, a)
           w2 == [w1 EXCEPT !.ids[NextId] = k]
           e == [type |-> "register", id |-> NextId, user |-> k, fee |-> fee,
                 fuel |-> 0, logs |-> <<LogOf(view, k)>>]
<1>1. fee \in Nat /\ k \in Key /\ view \in World /\ Height \in Nat
  BY Numbers, Ids, Heights
<1>2. old # None /\ fee <= old.value /\ Executed(w2, e)
  BY DEF Register, Affordable
<1>3. NextId \in Id
  BY NextIdIsId
<1>4. old \in Account /\ Held(view, k) = old
  BY <1>1, <1>2, HeldType DEF Held
<1>5. paid \in Account /\ paid.value = old.value - fee
  <2>1. fee > 0 => paid \in Account /\ paid.value = old.value - fee
    BY <1>1, <1>2, <1>4, MinusType
  <2>2. ~(fee > 0) => fee = 0 /\ paid = old
    BY <1>1
  <2>3. old.value \in Nat
    BY <1>4 DEF Account
  <2> HIDE DEF paid, old
  <2> QED
    BY <1>4, <2>1, <2>2, <2>3
<1>6. e.fee = fee /\ e.fuel = 0 /\ e.type # "reward"
  OBVIOUS
<1> HIDE DEF old, paid, e
<1>7. a \in Account /\ a.value = paid.value
  BY <1>3, <1>5 DEF Account
<1> HIDE DEF a
<1>8. /\ w1 \in World /\ w1.acct[k] = a
      /\ \A x \in Key : x # k => w1.acct[x] = view.acct[x]
  BY <1>1, <1>7, SetAccountType
<1> HIDE DEF w1
<1>9. w2 \in World /\ w2.acct = w1.acct
  BY <1>1, <1>3, <1>8, NewIdType
<1> HIDE DEF w2
<1>10. Money(w2) = Money(view) - ValueOf(view, k) + ValueOf(w2, k)
  BY <1>1, <1>8, <1>9, MoneyMoved
<1>11. ValueOf(view, k) = old.value /\ ValueOf(w2, k) = old.value - fee
  BY <1>4, <1>5, <1>7, <1>8, <1>9, Ids DEF ValueOf, Held
<1>12. Money(view) \in Nat /\ old.value \in Nat
  BY <1>1, <1>4, MoneyType DEF Account
<1>13. Money(w2) = Money(view) - e.fee
  BY <1>1, <1>6, <1>10, <1>11, <1>12
<1> QED
  BY <1>1, <1>2, <1>6, <1>9, <1>13, ExecutedPays

(* The id given next is nobody's yet, and has no account. *)
LEMMA NextIdIsFree ==
    ASSUME LedgerInv, HistoryInv, mode = "connect", Len(block) < MaxTxs
    PROVE  NextId \in Id /\ view.ids[NextId] = None /\ view.acct[NextId] = None
<1>1. NextId \in Id /\ NextId = <<Len(chain) + 1, Len(block) + 1>>
  BY NextIdIsId
<1>2. Own(view.ids, block, Len(chain) + 1) /\ DOMAIN block = 1..Len(block) /\ Len(block) \in Nat
  BY LenProperties DEF LedgerInv, Base, FollowsWith
<1>3. NextId[1] = Len(chain) + 1 /\ NextId[2] = Len(block) + 1
  BY <1>1
<1>4. view.ids[NextId] = None
  <2>1. NextId[2] \notin DOMAIN block
    BY <1>2, <1>3
  <2> QED
    BY <1>1, <1>2, <1>3, <2>1 DEF Own
<1>5. view.acct[NextId] = None
  BY <1>1, <1>4, Ids DEF HistoryInv, Named
<1> QED
  BY <1>1, <1>4, <1>5

LEMMA RegisterAppPays ==
    ASSUME LedgerInv, HistoryInv, MoneyInv, mode = "connect", Len(block) < MaxTxs,
           NEW src \in Registered, NEW fee \in Fee, NEW fuel \in Fee,
           RegisterApp(src, fee, fuel)
    PROVE  MoneyInv'
<1> DEFINE from == view.ids[src]
           app == [NewAccount EXCEPT !.reg = NextId]
           w1 == SetAccount(view, NextId, app)
           w2 == Debit(w1, from, fee)
           w3 == [w2 EXCEPT !.ids[NextId] = NextId]
           w4 == [w2 EXCEPT !.ids[NextId] = NextId, !.scripts = @ \cup {NextId}]
           e == [type |-> "app", id |-> NextId, user |-> from, fee |-> fee,
                 fuel |-> fuel, logs |-> <<LogOf(view, from)>>]
<1>1. fee \in Nat /\ fuel \in Nat /\ view \in World /\ Height \in Nat
  BY Numbers, Heights
<1>2. MaySend(src, fee) /\ Executed(w4, e)
  BY DEF RegisterApp
<1>3. NextId \in Id /\ NextId \in Key /\ NextId \notin User /\ view.acct[NextId] = None
  BY NextIdIsFree, Ids
<1>4. /\ from \in Key /\ view.acct[from] \in Account
      /\ fee <= view.acct[from].value
  BY <1>1, <1>2, SenderCanPay
<1>5. e.fee = fee /\ e.fuel = fuel /\ e.type # "reward"
  OBVIOUS
<1> HIDE DEF from, e
<1>6. from # NextId /\ view.acct[from] # None
  BY <1>3, <1>4, Ids
<1>7. app \in Account /\ app.value = 0
  BY <1>3 DEF NewAccount, Account
<1> HIDE DEF app
<1>8. /\ w1 \in World /\ w1.acct[NextId] = app
      /\ \A x \in Key : x # NextId => w1.acct[x] = view.acct[x]
  BY <1>1, <1>3, <1>7, SetAccountType
<1> HIDE DEF w1
<1>9. Money(w1) = Money(view)
  <2>1. Money(w1) = Money(view) - ValueOf(view, NextId) + ValueOf(w1, NextId)
    BY <1>1, <1>3, <1>8, MoneyMoved
  <2>2. ValueOf(view, NextId) = 0 /\ ValueOf(w1, NextId) = 0
    BY <1>3, <1>7, <1>8 DEF ValueOf, Held, NewAccount
  <2>3. Money(view) \in Nat
    BY <1>1, MoneyType
  <2> QED
    BY <2>1, <2>2, <2>3
<1>10. w2 \in World /\ Money(w2) = Money(w1) - fee
  <2>1. w1.acct[from] = view.acct[from]
    BY <1>4, <1>6, <1>8
  <2> QED
    BY <1>1, <1>4, <1>6, <1>8, <2>1, MoneyDebited
<1> HIDE DEF w2
<1>11. w3 \in World /\ w3.acct = w2.acct
  BY <1>3, <1>10, NewIdType
<1>12. w4 = [w3 EXCEPT !.scripts = @ \cup {NextId}]
  BY <1>10 DEF World
<1> HIDE DEF w3, w4
<1>13. w4 \in World /\ w4.acct = w2.acct
  BY <1>3, <1>11, <1>12 DEF World
<1>14. Money(w4) = Money(view) - e.fee
  <2>1. \A k \in Key : ValueOf(w4, k) = ValueOf(w2, k)
    BY <1>13 DEF ValueOf, Held
  <2> QED
    BY <1>5, <1>9, <1>10, <2>1, MoneySame
<1> QED
  BY <1>1, <1>2, <1>5, <1>13, <1>14, ExecutedPays

(* The reward of the block is due, but not paid: the miner loses coin days. *)
LEMMA RewardPays ==
    ASSUME LedgerInv, MoneyInv, NEW miner \in Registered, Reward(miner)
    PROVE  MoneyInv'
<1> DEFINE k == view.ids[miner]
           a == ClearAccPos(view.acct[k], Height)
           w == SetAccount(view, k, a)
           l == LogOf(view, k)
           e == [type |-> "reward", id |-> miner, user |-> k,
                 fee |-> RewardValue(block), fuel |-> 0, logs |-> <<l>>]
           b == Append(block, e)
<1>1. /\ mode = "connect" /\ Has(view, miner)
      /\ view' = w /\ block' = b /\ mode' = "rewarded"
      /\ tip' = tip /\ chain' = chain /\ before' = before
  BY DEF Reward
<1>2. /\ miner \in Id /\ miner \in Key /\ view \in World /\ Height \in Nat
      /\ block \in Seq(GoodEntry) /\ RewardValue(block) \in Nat
  BY Ids, Heights, RewardType DEF Registered, LedgerInv
<1>3. k \in Key /\ view.acct[k] \in Account /\ Held(view, k) = view.acct[k]
  <2>1. KeyOf(view, miner) = k
    BY <1>2 DEF KeyOf
  <2>2. k \in Key /\ view.acct[k] \in Account
    BY <1>1, <1>2, <2>1, KeyOfType
  <2> QED
    BY <2>2, Ids DEF Held
<1>4. e.fee = RewardValue(block) /\ e.fuel = 0
  OBVIOUS
<1> HIDE DEF k, l, e
<1>5. a \in Account /\ a.value = ValueOf(view, k)
  BY <1>2, <1>3, ClearType DEF ValueOf
<1> HIDE DEF a
<1>6. /\ w \in World /\ w.acct[k] = a
      /\ \A x \in Key : x # k => w.acct[x] = view.acct[x]
  BY <1>2, <1>3, <1>5, SetAccountType
<1> HIDE DEF w
<1>7. Money(w) = Money(view)
  <2>1. \A x \in Key : ValueOf(w, x) = ValueOf(view, x)
    BY <1>5, <1>6, Ids DEF ValueOf, Held
  <2> QED
    BY <2>1, MoneySame
<1>8. e \in GoodEntry /\ e.type = "reward"
  BY <1>2, <1>3, LogOfType, RewardEntry DEF e, l
<1>9. Burnt(b) = Burnt(block) + e.fuel /\ Burnt(block) \in Int /\ ToSet(b) = ToSet(block) \cup {e}
  BY <1>2, <1>4, BlockAppended
<1> HIDE DEF b
<1>10. /\ NoReward(block)
       /\ Money(view) + RewardValue(block) + Burnt(block) = Money(tip) + PosReward
       /\ Balanced(chain, tip, Len(chain))
       /\ \A i \in DOMAIN before : Balanced(chain, before[i], i - 1)
  BY <1>1 DEF MoneyInv
<1>11. IsReward(b, e)
  BY <1>8, <1>9, <1>10 DEF IsReward, NoReward
<1>12. Money(w) + e.fee + Burnt(b) = Money(tip) + PosReward
  BY <1>4, <1>7, <1>9, <1>10
<1> QED
  BY <1>1, <1>8, <1>10, <1>11, <1>12 DEF MoneyInv

(* The block is complete, and what it remembers of the blocks below is      *)
(* still so.                                                                *)
LEMMA CommitPays ==
    ASSUME LedgerInv, MoneyInv, NEW w \in World, NEW b \in Seq(GoodEntry),
           Commit(w, b), Balanced(Append(chain, b), w, Len(chain) + 1)
    PROVE  MoneyInv'
<1> DEFINE n == Len(chain)
           c == Append(chain, b)
           was == Append(before, tip)
<1>1. /\ tip' = w /\ chain' = c /\ before' = was /\ mode' = "idle"
  BY DEF Commit
<1>2. /\ chain \in Seq(Seq(GoodEntry)) /\ before \in Seq(World) /\ Len(before) = n
      /\ tip \in World
  BY DEF LedgerInv, TypeOK
<1>3. /\ n \in Nat /\ Len(c) = n + 1 /\ DOMAIN chain = 1..n /\ DOMAIN c = 1..(n + 1)
      /\ \A i \in 1..n : c[i] = chain[i]
  BY <1>2, AppendedTo
<1>4. /\ DOMAIN was = 1..(n + 1) /\ was[n + 1] = tip /\ DOMAIN before = 1..n
      /\ \A i \in 1..n : was[i] = before[i]
  BY <1>2, AppendedTo
<1>5. /\ Balanced(chain, tip, n) /\ Balanced(c, w, n + 1)
      /\ \A i \in 1..n : Balanced(chain, before[i], i - 1)
  BY <1>4 DEF MoneyInv
<1> HIDE DEF n, c, was
<1>6. ASSUME NEW i \in 1..(n + 1) PROVE Balanced(c, was[i], i - 1)
  <2> DEFINE m == i - 1
  <2>1. m \in Nat /\ \A j \in 1..m : j \in DOMAIN chain /\ j \in DOMAIN c /\ chain[j] = c[j]
    BY <1>3
  <2>2. Balanced(chain, was[i], m)
    <3>1. CASE i \in 1..n
      BY <1>4, <1>5, <3>1
    <3>2. CASE i = n + 1
      <4>1. m = n
        BY <1>3, <3>2
      <4> QED
        BY <1>4, <1>5, <3>2, <4>1
    <3> QED
      BY <1>3, <3>1, <3>2
  <2> HIDE DEF m
  <2>3. Balanced(c, was[i], m)
    BY <2>1, <2>2, BalancedStays
  <2> QED
    BY <2>3 DEF m
<1> QED
  BY <1>1, <1>3, <1>4, <1>5, <1>6 DEF MoneyInv

LEMMA EarlyPays ==
    ASSUME LedgerInv, MoneyInv, ConnectEarly
    PROVE  MoneyInv'
<1>1. mode = "rewarded" /\ Height <= Maturity /\ Commit(view, block)
  BY DEF ConnectEarly
<1>2. /\ view \in World /\ block \in Seq(GoodEntry) /\ Height \in Nat
      /\ Balanced(chain, tip, Len(chain))
  BY Heights DEF LedgerInv, MoneyInv
<1>3. PICK r \in GoodEntry :
          /\ IsReward(block, r)
          /\ Money(view) + r.fee + Burnt(block) = Money(tip) + PosReward
  BY <1>1 DEF MoneyInv
<1>4. ~(Height > Maturity)
  BY <1>1, <1>2, Numbers
<1>5. Money(view) + r.fee + Burnt(block) = Money(tip) + PosReward + 0
  <2>1. Money(tip) \in Nat /\ PosReward \in Nat
    BY Heights, MoneyType, Numbers
  <2> QED
    BY <1>3, <2>1
<1>6. 0 \in Nat /\ IF Height > Maturity THEN 0 = RewardOf(chain[Height - Maturity]).fee
                   ELSE 0 = 0
  BY <1>4
<1>7. Balanced(Append(chain, block), view, Len(chain) + 1)
  BY <1>2, <1>3, <1>5, <1>6, BalancedCommit
<1> QED
  BY <1>1, <1>2, <1>7, CommitPays

LEMMA MaturePays ==
    ASSUME LedgerInv, MoneyInv, ConnectMature
    PROVE  MoneyInv'
<1> DEFINE due == RewardOf(chain[Height - Maturity])
           k == view.ids[due.id]
           a == [view.acct[k] EXCEPT !.value = view.acct[k].value + due.fee]
           w == SetAccount(view, k, a)
           l == LogOf(view, k)
           e == [type |-> "mature", id |-> due.id, user |-> k,
                 fee |-> due.fee, fuel |-> 0, logs |-> <<l>>]
           b == Append(block, e)
<1>1. /\ mode = "rewarded" /\ Height > Maturity /\ Has(view, due.id)
      /\ Commit(w, b)
  BY DEF ConnectMature
<1>2. /\ view \in World /\ block \in Seq(GoodEntry)
      /\ Balanced(chain, tip, Len(chain))
  BY Heights DEF LedgerInv, MoneyInv
<1>3. PICK r \in GoodEntry :
          /\ IsReward(block, r)
          /\ Money(view) + r.fee + Burnt(block) = Money(tip) + PosReward
  BY <1>1 DEF MoneyInv
<1>4. due \in GoodEntry
  BY <1>1, RewardIsDue
<1>5. e.fee = due.fee /\ e.fuel = 0
  OBVIOUS
<1>6. IF Height > Maturity THEN due.fee = RewardOf(chain[Height - Maturity]).fee
      ELSE due.fee = 0
  BY <1>1
<1> HIDE DEF due
<1>7. due.id \in Id /\ due.id \in Key /\ due.fee \in Nat
  <2>1. due.type = "reward" => due.id \in Id
    BY <1>4 DEF GoodEntry
  <2>2. due.type = "reward"
    BY <1>1, RewardIsDue DEF due
  <2> QED
    BY <1>4, <2>1, <2>2, Ids DEF GoodEntry, Entry
<1>8. k \in Key /\ view.acct[k] \in Account /\ Held(view, k) = view.acct[k]
  <2>1. KeyOf(view, due.id) = k
    BY <1>7 DEF KeyOf
  <2>2. k \in Key /\ view.acct[k] \in Account
    BY <1>1, <1>2, <1>7, <2>1, KeyOfType
  <2> QED
    BY <2>2, Ids DEF Held
<1> HIDE DEF k, l, e
<1>9. a \in Account /\ a.value = ValueOf(view, k) + due.fee
  <2> DEFINE old == view.acct[k]
  <2>1. old \in Account /\ old.value + due.fee \in Nat
    BY <1>7, <1>8 DEF Account
  <2>2. a = [old EXCEPT !.value = old.value + due.fee]
    OBVIOUS
  <2> HIDE DEF a, old
  <2>3. a \in Account /\ a.value = old.value + due.fee
    BY <2>1, <2>2 DEF Account
  <2> QED
    BY <1>8, <2>3 DEF old, ValueOf
<1> HIDE DEF a
<1>10. /\ w \in World /\ w.acct[k] = a
       /\ \A x \in Key : x # k => w.acct[x] = view.acct[x]
  BY <1>2, <1>8, <1>9, SetAccountType
<1> HIDE DEF w
<1>11. Money(w) = Money(view) + due.fee
  <2>1. Money(w) = Money(view) - ValueOf(view, k) + ValueOf(w, k)
    BY <1>2, <1>8, <1>10, MoneyMoved
  <2>2. ValueOf(w, k) = ValueOf(view, k) + due.fee
    BY <1>9, <1>10, Ids DEF ValueOf, Held
  <2>3. Money(view) \in Nat /\ ValueOf(view, k) \in Nat
    BY <1>2, <1>8, MoneyType, ValueType
  <2> QED
    BY <1>7, <2>1, <2>2, <2>3
<1>12. e \in GoodEntry /\ e.type = "mature"
  BY <1>2, <1>7, <1>8, LogOfType, RewardEntry DEF e, l
<1>13. /\ Burnt(b) = Burnt(block) + 0 /\ Burnt(block) \in Int
       /\ ToSet(b) = ToSet(block) \cup {e}
  BY <1>2, <1>5, <1>7, BlockAppended
<1>14. b \in Seq(GoodEntry)
  BY <1>2, <1>12, AppendedTo
<1> HIDE DEF b
<1>15. IsReward(b, r)
  BY <1>3, <1>12, <1>13 DEF IsReward
<1>16. Money(w) + r.fee + Burnt(b) = Money(tip) + PosReward + due.fee
  <2>1. Money(view) \in Nat /\ Money(tip) \in Nat /\ PosReward \in Nat /\ r.fee \in Nat
    BY Heights, MoneyType, Numbers DEF GoodEntry, Entry
  <2> QED
    BY <1>3, <1>7, <1>11, <1>13, <2>1
<1>17. Balanced(Append(chain, b), w, Len(chain) + 1)
  <2> DEFINE paid == due.fee
  <2>1. paid \in Nat /\ Money(w) + r.fee + Burnt(b) = Money(tip) + PosReward + paid
        /\ IF Height > Maturity THEN paid = RewardOf(chain[Height - Maturity]).fee
           ELSE paid = 0
    BY <1>6, <1>7, <1>16
  <2> HIDE DEF paid
  <2> QED
    BY <1>2, <1>3, <1>10, <1>14, <1>15, <2>1, BalancedCommit
<1> QED
  BY <1>1, <1>10, <1>14, <1>17, CommitPays

(* A step that touches no view that counts. *)
LEMMA NothingPaid ==
    ASSUME MoneyInv, tip' = tip, chain' = chain, before' = before,
           mode' \notin {"connect", "rewarded"}
    PROVE  MoneyInv'
BY DEF MoneyInv

LEMMA UndoPays ==
    ASSUME MoneyInv, UndoLog \/ UndoRegister \/ UndoRegisterApp
    PROVE  MoneyInv'
<1>1. /\ tip' = tip /\ chain' = chain /\ before' = before
      /\ mode = "undo" /\ mode' = mode
  BY DEF UndoLog, UndoRegister, UndoRegisterApp, Undoing, Undone
<1> QED
  BY <1>1, NothingPaid

LEMMA BeginConnectPays ==
    ASSUME LedgerInv, MoneyInv, BeginConnect
    PROVE  MoneyInv'
<1>1. /\ mode = "idle" /\ mode' = "connect" /\ view' = view /\ block' = block
      /\ tip' = tip /\ chain' = chain /\ before' = before
  BY DEF BeginConnect
<1>2. view = tip /\ block = <<>>
  BY <1>1 DEF LedgerInv, Stages
<1>3. NoReward(<<>>)
  BY DEF NoReward, ToSet
<1>4. RewardValue(<<>>) = PosReward /\ Burnt(<<>>) = 0
  <2> DEFINE f == [i \in DOMAIN <<>> |-> <<>>[i].fee - <<>>[i].fuel]
             g == [i \in DOMAIN <<>> |-> <<>>[i].fuel]
  <2>1. /\ RewardValue(<<>>) = PosReward + SumFunctionOnSet(f, DOMAIN f)
        /\ Burnt(<<>>) = SumFunctionOnSet(g, DOMAIN g)
    BY DEF RewardValue, Burnt, SumFunction
  <2>2. DOMAIN f = {} /\ DOMAIN g = {}
    OBVIOUS
  <2> HIDE DEF f, g
  <2>3. SumFunctionOnSet(f, DOMAIN f) = 0 /\ SumFunctionOnSet(g, DOMAIN g) = 0
    BY <2>2, SumOfNothing
  <2>4. PosReward \in Nat
    BY Numbers
  <2> QED
    BY <2>1, <2>3, <2>4
<1>5. Money(tip) + PosReward + 0 = Money(tip) + PosReward
  <2>1. Money(tip) \in Nat /\ PosReward \in Nat
    BY Heights, MoneyType, Numbers
  <2> QED
    BY <2>1
<1> QED
  BY <1>1, <1>2, <1>3, <1>4, <1>5 DEF MoneyInv

(* A block disconnected: every account has again what it had before.        *)
LEMMA EndUndoPays ==
    ASSUME LedgerInv, HistoryInv, MoneyInv, EndUndo
    PROVE  MoneyInv'
<1> DEFINE n == Len(chain)
           c == Front(chain)
           was == Front(before)
           m == n - 1
<1>1. /\ mode = "undo" /\ block = <<>> /\ mode' = "idle" /\ tip' = view
      /\ chain' = c /\ before' = was
  BY DEF EndUndo
<1>2. chain # <<>>
  BY <1>1 DEF LedgerInv, Stages
<1>3. /\ n \in Nat \ {0} /\ DOMAIN chain = 1..n /\ Len(c) = m /\ DOMAIN c = 1..m
      /\ \A i \in 1..m : c[i] = chain[i]
  <2>1. chain \in Seq(Seq(GoodEntry))
    BY DEF LedgerInv
  <2> QED
    BY <1>2, <2>1, FrontAndLast
<1>4. /\ DOMAIN before = 1..n /\ DOMAIN was = 1..m
      /\ \A i \in 1..m : was[i] = before[i]
      /\ Last(before) = before[n]
  <2>1. before \in Seq(World) /\ before # <<>> /\ Len(before) = n
    BY <1>2, LastBlock DEF LedgerInv, TypeOK
  <2> QED
    BY <2>1, FrontAndLast
<1>5. Money(view) = Money(before[n])
  <2>1. ASSUME NEW k \in Key PROVE ValueOf(view, k) = ValueOf(before[n], k)
    <3>1. Restores(LogOf(view, k), LogOf(before[n], k))
      BY <1>1, <1>4, LastUndone
    <3>2. LogOf(view, k).value = LogOf(before[n], k).value
      BY <3>1 DEF Restores, Nothing
    <3> QED
      BY <3>2 DEF LogOf, ValueOf
  <2> QED
    BY <2>1, MoneySame
<1>6. \A i \in 1..n : Balanced(chain, before[i], i - 1)
  BY <1>4 DEF MoneyInv
<1>7. m \in Nat /\ n \in 1..n /\ \A i \in 1..m : i \in 1..n
  BY <1>3
<1>8. Balanced(chain, view, m)
  <2>1. Balanced(chain, before[n], m)
    BY <1>6, <1>7
  <2> HIDE DEF m
  <2> QED
    BY <1>5, <2>1 DEF Balanced
<1> HIDE DEF n, c, was, m
<1>9. Balanced(c, view, m)
  <2>1. \A i \in 1..m : i \in DOMAIN chain /\ i \in DOMAIN c /\ chain[i] = c[i]
    BY <1>3, <1>7
  <2> QED
    BY <1>7, <1>8, <2>1, BalancedStays
<1>10. ASSUME NEW i \in 1..m PROVE Balanced(c, was[i], i - 1)
  <2> DEFINE j == i - 1
  <2>1. j \in Nat /\ \A x \in 1..j : x \in DOMAIN chain /\ x \in DOMAIN c /\ chain[x] = c[x]
    BY <1>3, <1>7
  <2>2. Balanced(chain, was[i], j)
    BY <1>4, <1>6, <1>7
  <2> HIDE DEF j
  <2>3. Balanced(c, was[i], j)
    BY <2>1, <2>2, BalancedStays
  <2> QED
    BY <2>3 DEF j
<1> QED
  BY <1>1, <1>3, <1>4, <1>9, <1>10 DEF MoneyInv

LEMMA MoneyInit == Init => MoneyInv
<1> SUFFICES ASSUME Init PROVE MoneyInv
  OBVIOUS
<1>1. /\ tip = GenesisWorld /\ chain = <<>> /\ before = <<>> /\ mode = "idle"
  BY DEF Init
<1>2. 1..0 = {} /\ Owed(0) = {} /\ Len(<<>>) = 0
  BY DEF Owed
<1>3. /\ SumFunctionOnSet(DuesOf(<<>>), {}) = 0
      /\ SumFunctionOnSet(FuelsOf(<<>>), {}) = 0
  BY SumOfNothing
<1>4. Money(GenesisWorld) + 0 + 0 = Money(GenesisWorld) + PosReward * 0
  <2>1. Money(GenesisWorld) \in Nat
    BY GenesisIsWorld, MoneyType
  <2>2. \A p \in Nat : p * 0 = 0
    OBVIOUS
  <2> QED
    BY <2>1, <2>2, Numbers
<1>5. Balanced(<<>>, GenesisWorld, 0)
  BY <1>2, <1>3, <1>4 DEF Balanced
<1> QED
  BY <1>1, <1>2, <1>5 DEF MoneyInv

LEMMA MoneyStep == LedgerInv /\ HistoryInv /\ MoneyInv /\ [Next]_vars => MoneyInv'
<1> SUFFICES ASSUME LedgerInv, HistoryInv, MoneyInv, [Next]_vars PROVE MoneyInv'
  OBVIOUS
<1>1. CASE BeginConnect
  BY <1>1, BeginConnectPays
<1>2. CASE Executing
  <2>1. mode = "connect" /\ Len(block) < MaxTxs
    BY <1>2 DEF Executing
  <2>2. CASE \E k \in User, fee \in Fee : Register(k, fee)
    BY <2>1, <2>2, RegisterPays
  <2>3. CASE \E src \in Registered, des \in User \cup Registered,
                v \in Amount, fee \in Fee : Transfer(src, des, v, fee)
    BY <2>1, <2>3, TransferPays
  <2>4. CASE \E src \in Registered, app \in view.scripts,
                to \in User \cup Registered \cup {None},
                v, pay \in Amount, fee, fuel \in Fee :
                Contract(src, app, v, fee, fuel, to, pay)
    BY <2>1, <2>4, ContractPays
  <2>5. CASE \E src \in Registered, fee, fuel \in Fee : RegisterApp(src, fee, fuel)
    BY <2>1, <2>5, RegisterAppPays
  <2> QED
    BY <1>2, <2>2, <2>3, <2>4, <2>5 DEF Executing
<1>3. CASE \E miner \in Registered : Reward(miner)
  BY <1>3, RewardPays
<1>4. CASE ConnectMature
  BY <1>4, MaturePays
<1>5. CASE ConnectEarly
  BY <1>5, EarlyPays
<1>6. CASE BeginUndo
  BY <1>6, NothingPaid DEF BeginUndo
<1>7. CASE UndoLog \/ UndoRegister \/ UndoRegisterApp
  BY <1>7, UndoPays
<1>8. CASE EndUndo
  BY <1>8, EndUndoPays
<1>9. CASE Drop
  BY <1>9, NothingPaid DEF Drop
<1>10. CASE UNCHANGED vars
  BY <1>10 DEF MoneyInv, vars
<1> QED
  BY <1>1, <1>2, <1>3, <1>4, <1>5, <1>6, <1>7, <1>8, <1>9, <1>10 DEF Next

(* At every step of ConnectBlock the view, the reward it must demand and    *)
(* the fuel burnt so far account for the tip and one POS_REWARD; the tip,   *)
(* and every state that the chain went through, for the genesis block.      *)
THEOREM MoneyInvariance == Spec => []MoneyInv
<1> QED
  BY LedgerInit, LedgerStep, HistoryInit, HistoryStep, MoneyInit, MoneyStep, PTL DEF Spec

(* Money is neither made nor lost by any transaction executed, reward       *)
(* matured or block undone (ExecuteTx, UndoExecuteTx, ConnectBlock and      *)
(* DisconnectBlock).                                                        *)
THEOREM MoneyIsConserved == Spec => []Conservation
<1>1. ASSUME LedgerInv, MoneyInv PROVE Conservation
  <2> DEFINE Immature == {i \in DOMAIN chain : i + Maturity > Len(chain)}
             f == [i \in Immature |-> RewardOf(chain[i]).fee]
  <2>1. Len(chain) \in Nat /\ DOMAIN chain = 1..Len(chain)
    BY <1>1, ChainTerms
  <2>2. Immature = Owed(Len(chain)) /\ Immature \subseteq DOMAIN chain
    BY <2>1 DEF Owed
  <2>3. SumFunction(f) = SumFunctionOnSet(DuesOf(chain), Owed(Len(chain)))
    <3>1. \A i \in Immature : f[i] = DuesOf(chain)[i]
      BY <2>2 DEF DuesOf
    <3>2. SumFunction(f) = SumFunctionOnSet(f, Immature)
      BY DEF SumFunction
    <3> HIDE DEF Immature, f
    <3>3. IsFiniteSet(Immature)
      BY <2>1, <2>2, OwedIsFinite
    <3>4. SumFunctionOnSet(f, Immature) = SumFunctionOnSet(DuesOf(chain), Immature)
      BY <3>1, <3>3, SumSame
    <3> QED
      BY <2>2, <3>2, <3>4
  <2>4. SumFunction([i \in DOMAIN chain |-> Burnt(chain[i])])
          = SumFunctionOnSet(FuelsOf(chain), 1..Len(chain))
    BY <2>1 DEF FuelsOf, SumFunction
  <2>5. Balanced(chain, tip, Len(chain))
    BY <1>1 DEF MoneyInv
  <2> QED
    BY <2>3, <2>4, <2>5 DEF Conservation, Balanced
<1> QED
  BY <1>1, LedgerInvariance, MoneyInvariance, PTL

-----------------------------------------------------------------------------
(* Coin days are earned: sums.                                              *)

(* A part of a sum of natural numbers is at most the sum.                   *)
LEMMA SumOfPart ==
    ASSUME NEW T, IsFiniteSet(T), NEW f, \A x \in T : f[x] \in Nat, NEW S, S \subseteq T
    PROVE  /\ SumFunctionOnSet(f, S) \in Nat /\ SumFunctionOnSet(f, T) \in Nat
           /\ SumFunctionOnSet(f, S) <= SumFunctionOnSet(f, T)
<1> DEFINE Sm(A) == SumFunctionOnSet(f, A)
           Fine(A) == Sm(A) \in Nat /\ Sm(T) \in Nat /\ Sm(A) <= Sm(T)
           X == {n \in Nat : \A A \in SUBSET T : Cardinality(T \ A) = n => Fine(A)}
<1>1. \A A \in SUBSET T : IsFiniteSet(A) /\ IsFiniteSet(T \ A)
  BY FS_Subset
<1>2. \A A \in SUBSET T : Sm(A) \in Nat
  <2> SUFFICES ASSUME NEW A \in SUBSET T PROVE Sm(A) \in Nat
    OBVIOUS
  <2>1. 0 \in Nat /\ \A x, y \in Nat : x + y \in Nat
    OBVIOUS
  <2>2. \A x \in A : f[x] \in Nat
    OBVIOUS
  <2> QED
    BY <1>1, <2>1, <2>2, SumType
<1>3. 0 \in X
  <2> SUFFICES ASSUME NEW A \in SUBSET T, Cardinality(T \ A) = 0 PROVE Fine(A)
    OBVIOUS
  <2>1. T \ A = {}
    BY <1>1, FS_EmptySet
  <2>2. A = T
    BY <2>1
  <2> QED
    BY <1>2, <2>2
<1>4. \A n \in Nat : n \in X => n + 1 \in X
  <2> SUFFICES ASSUME NEW n \in Nat, n \in X, NEW A \in SUBSET T, Cardinality(T \ A) = n + 1
               PROVE  Fine(A)
    OBVIOUS
  <2>1. T \ A # {}
    BY <1>1, FS_EmptySet
  <2>2. PICK y \in T : y \notin A
    BY <2>1
  <2> DEFINE B == A \cup {y}
  <2>3. B \in SUBSET T /\ y \in B /\ B \ {y} = A /\ T \ B = (T \ A) \ {y} /\ y \in T \ A
    BY <2>2
  <2> HIDE DEF B
  <2>4. Cardinality(T \ B) = n
    <3>1. Cardinality((T \ A) \ {y}) = Cardinality(T \ A) - 1
      BY <1>1, <2>3, FS_RemoveElement
    <3>2. Cardinality(T \ B) = (n + 1) - 1
      BY <2>3, <3>1
    <3> QED
      BY <3>2
  <2>5. Fine(B)
    BY <2>3, <2>4
  <2>6. IsFiniteSet(B) /\ \A x \in B : f[x] \in Int
    <3>1. \A x \in T : f[x] \in Int
      OBVIOUS
    <3>2. IsFiniteSet(B)
      BY <1>1, <2>3
    <3> HIDE DEF Fine, Sm
    <3> QED
      BY <2>3, <3>1, <3>2
  <2>7. Sm(B) = f[y] + Sm(A)
    BY <2>3, <2>6, SumWithout
  <2>8. f[y] \in Nat /\ Sm(A) \in Nat
    BY <1>2
  <2> QED
    BY <2>5, <2>7, <2>8
<1> HIDE DEF X
<1>5. Nat \subseteq X
  BY <1>3, <1>4, SetInduction
<1>6. Cardinality(T \ S) \in Nat
  BY <1>1, FS_CardinalityType
<1>7. Fine(S)
  BY <1>5, <1>6 DEF X
<1> QED
  BY <1>7

-----------------------------------------------------------------------------
(* What a key held before a block, and when it last made one, for a chain c *)
(* and the views ws[i] that the blocks c[i] were, or will be, connected to. *)

MadeBefore(c, k, i) == {m \in 1..(i - 1) : RewardOf(c[m]).user = k}
Unpaid(c, k, i) == SumFunctionOnSet(DuesOf(c), {m \in MadeBefore(c, k, i) : m + Maturity >= i})
HadBefore(c, ws, k, i) == ValueOf(ws[i], k) + Unpaid(c, k, i)
HadOf(c, ws, k) == [i \in DOMAIN ws |-> HadBefore(c, ws, k, i)]
Since(c, k, i) == {x \in Nat : \A m \in MadeBefore(c, k, i) : m < x}
Cap(c, ws, k, i, h) == SumFunctionOnSet(HadOf(c, ws, k), {x \in 1..h : x \in Since(c, k, i)})

(* What an account of key k may have before block i: not more coin days     *)
(* than it had coins before the blocks up to its height, and in the blocks  *)
(* since then the coins it has now, paid or not.                            *)
EarnedAt(c, ws, i, k, a) ==
    /\ a.coin <= Cap(c, ws, k, i, a.height)
    /\ \A x \in 1..(i - 1) : x \in Since(c, k, i) /\ a.height < x
          => a.value + Unpaid(c, k, i) <= HadBefore(c, ws, k, x)
Earned(c, ws, i) == \A k \in Key : EarnedAt(c, ws, i, k, Held(ws[i], k))

(* n blocks, and the n + 1 views below, between and above them. *)
ChainOf(c, ws, n) ==
    /\ n \in Nat /\ DOMAIN c = 1..n /\ DOMAIN ws = 1..(n + 1)
    /\ \A i \in 1..(n + 1) : ws[i] \in World
    /\ \A i \in 1..n : RewardOf(c[i]).fee \in Nat

LEMMA UnpaidType ==
    ASSUME NEW c, NEW ws, NEW n, ChainOf(c, ws, n), NEW k \in Key, NEW i \in 1..(n + 1)
    PROVE  /\ MadeBefore(c, k, i) \subseteq 1..n /\ IsFiniteSet(MadeBefore(c, k, i))
           /\ \A m \in 1..n : DuesOf(c)[m] = RewardOf(c[m]).fee /\ DuesOf(c)[m] \in Nat
           /\ Unpaid(c, k, i) \in Nat
<1>1. n \in Nat /\ DOMAIN c = 1..n /\ \A m \in 1..n : RewardOf(c[m]).fee \in Nat
  BY DEF ChainOf
<1>2. MadeBefore(c, k, i) \subseteq 1..n
  BY <1>1 DEF MadeBefore
<1>3. IsFiniteSet(1..n)
  BY <1>1, FS_Interval
<1>4. IsFiniteSet(MadeBefore(c, k, i))
  BY <1>2, <1>3, FS_Subset
<1>5. \A m \in 1..n : DuesOf(c)[m] = RewardOf(c[m]).fee /\ DuesOf(c)[m] \in Nat
  BY <1>1 DEF DuesOf
<1> DEFINE S == {m \in MadeBefore(c, k, i) : m + Maturity >= i}
<1>6. S \subseteq 1..n
  BY <1>2
<1>7. SumFunctionOnSet(DuesOf(c), S) \in Nat
  BY <1>3, <1>5, <1>6, SumOfPart
<1> QED
  BY <1>2, <1>4, <1>5, <1>7 DEF Unpaid

LEMMA HadType ==
    ASSUME NEW c, NEW ws, NEW n, ChainOf(c, ws, n), NEW k \in Key, NEW i \in 1..(n + 1)
    PROVE  /\ HadBefore(c, ws, k, i) \in Nat /\ HadOf(c, ws, k)[i] = HadBefore(c, ws, k, i)
           /\ ValueOf(ws[i], k) \in Nat /\ ValueOf(ws[i], k) <= HadBefore(c, ws, k, i)
<1>1. ws[i] \in World /\ DOMAIN ws = 1..(n + 1)
  BY DEF ChainOf
<1>2. ValueOf(ws[i], k) \in Nat /\ Unpaid(c, k, i) \in Nat
  BY <1>1, ValueType, UnpaidType
<1> QED
  BY <1>1, <1>2 DEF HadBefore, HadOf

(* One block more in the sum. *)
LEMMA CapGrows ==
    ASSUME NEW c, NEW ws, NEW n, ChainOf(c, ws, n), NEW k \in Key, NEW i \in 1..(n + 1),
           NEW h \in 0..n
    PROVE  /\ Cap(c, ws, k, i, h) \in Nat /\ Cap(c, ws, k, i, h + 1) \in Nat
           /\ h + 1 \in Since(c, k, i)
                 => Cap(c, ws, k, i, h + 1) = Cap(c, ws, k, i, h) + HadBefore(c, ws, k, h + 1)
<1> DEFINE f == HadOf(c, ws, k)
           S(x) == {y \in 1..x : y \in Since(c, k, i)}
<1>1. n \in Nat /\ IsFiniteSet(1..(n + 1))
  BY FS_Interval DEF ChainOf
<1>2. \A x \in 1..(n + 1) : f[x] \in Nat /\ f[x] = HadBefore(c, ws, k, x)
  BY HadType
<1> HIDE DEF f
<1>3. S(h) \subseteq 1..(n + 1) /\ S(h + 1) \subseteq 1..(n + 1)
  BY <1>1
<1>4. SumFunctionOnSet(f, S(h)) \in Nat /\ SumFunctionOnSet(f, S(h + 1)) \in Nat
  BY <1>1, <1>2, <1>3, SumOfPart
<1>5. ASSUME h + 1 \in Since(c, k, i)
      PROVE  SumFunctionOnSet(f, S(h + 1)) = SumFunctionOnSet(f, S(h)) + f[h + 1]
  <2>1. h + 1 \in S(h + 1) /\ S(h + 1) \ {h + 1} = S(h)
    BY <1>5
  <2>2. IsFiniteSet(S(h + 1)) /\ \A x \in S(h + 1) : f[x] \in Int
    BY <1>1, <1>2, <1>3, FS_Subset
  <2>3. SumFunctionOnSet(f, S(h + 1)) = f[h + 1] + SumFunctionOnSet(f, S(h))
    BY <2>1, <2>2, SumWithout
  <2>4. f[h + 1] \in Nat
    BY <1>1, <1>2
  <2> QED
    BY <1>4, <2>3, <2>4
<1>6. f[h + 1] = HadBefore(c, ws, k, h + 1)
  BY <1>1, <1>2
<1> QED
  BY <1>4, <1>5, <1>6 DEF Cap, f

(* An account ages by its coins times the blocks that passed, at most.     *)
LEMMA CoinDaysAge ==
    ASSUME NEW a \in Account, NEW h \in Nat
    PROVE  LET b == UpDateCoinDay(a, h) IN
           /\ b \in Account /\ b.coin \in Nat /\ b.value = a.value
           /\ h <= a.height => b = a
           /\ h > a.height => b.height = h /\ b.coin <= a.coin + a.value * (h - a.height)
<1> DEFINE b == UpDateCoinDay(a, h)
           g == a.coin + a.value * (h - a.height)
           grown == g % Width
           most == (a.value * MaxDay) % Width
           c == IF grown > most THEN most ELSE grown
<1>1. /\ a.value \in Nat /\ a.coin \in Nat /\ a.height \in Nat /\ a.pub \in BOOLEAN
      /\ a.reg \in Id \cup {None}
      /\ a = [value |-> a.value, coin |-> a.coin, height |-> a.height, pub |-> a.pub,
              reg |-> a.reg]
      /\ Width \in Nat \ {0} /\ MaxDay \in Nat
  BY Numbers DEF Account
<1>2. b \in Account /\ b.value = a.value
  BY CoinDaysGrow
<1>3. b.coin \in Nat
  BY <1>2 DEF Account
<1>4. h <= a.height => b = a
  BY DEF UpDateCoinDay
<1>5. ASSUME h > a.height PROVE b.height = h /\ b.coin = c
  BY <1>1, <1>5 DEF UpDateCoinDay, Account
<1>6. ASSUME h > a.height PROVE c <= g
  <2> DEFINE d == h - a.height
  <2>1. d \in Nat
    BY <1>1, <1>6
  <2> HIDE DEF d
  <2>2. a.value * d \in Nat
    BY <1>1, <2>1
  <2>3. g = a.coin + a.value * d /\ g \in Nat
    BY <1>1, <2>2 DEF d
  <2>4. grown \in Nat /\ grown <= g
    <3> HIDE DEF g
    <3>1. \A x \in Nat, y \in Nat \ {0} : x % y \in Nat /\ x % y <= x
      OBVIOUS
    <3> QED
      BY <1>1, <2>3, <3>1
  <2>5. most \in Nat
    <3>1. a.value * MaxDay \in Nat
      BY <1>1
    <3> QED
      BY <3>1, Wrapped
  <2> HIDE DEF grown, most, g
  <2> QED
    BY <2>3, <2>4, <2>5
<1> HIDE DEF b, c
<1>7. h > a.height => b.height = h /\ b.coin <= g
  BY <1>5, <1>6
<1> QED
  BY <1>2, <1>3, <1>4, <1>7 DEF b

(* The coin days of an account at any height up to the next block.         *)
LEMMA CoinDaysBound ==
    ASSUME NEW c, NEW ws, NEW n, ChainOf(c, ws, n), NEW k \in Key, NEW i \in 1..(n + 1),
           NEW a, a = Held(ws[i], k), EarnedAt(c, ws, i, k, a), a.height <= i - 1,
           a.value = 0 \/ \A m \in MadeBefore(c, k, i) : m <= a.height,
           NEW h \in Nat, a.height <= h, h <= i
    PROVE  UpDateCoinDay(a, h).coin <= Cap(c, ws, k, i, h)
<1> DEFINE Had(x) == HadBefore(c, ws, k, x)
           Top(x) == Cap(c, ws, k, i, x)
           u == Unpaid(c, k, i)
<1>1. n \in Nat /\ i \in Nat /\ ws[i] \in World
  BY DEF ChainOf
<1>2. a \in Account
  BY <1>1, HeldType
<1>3. a.value \in Nat /\ a.coin \in Nat /\ a.height \in Nat
  BY <1>2 DEF Account
<1>4. u \in Nat /\ \A x \in 1..(n + 1) : Had(x) \in Nat
  BY UnpaidType, HadType
<1>5. Had(i) = a.value + u
  BY DEF HadBefore, ValueOf
<1>6. \A x \in 0..n : /\ Top(x) \in Nat /\ Top(x + 1) \in Nat
                      /\ x + 1 \in Since(c, k, i) => Top(x + 1) = Top(x) + Had(x + 1)
  BY CapGrows
<1>7. a.coin <= Top(a.height)
  BY DEF EarnedAt
<1>8. \A x \in 1..(i - 1) : x \in Since(c, k, i) /\ a.height < x => a.value + u <= Had(x)
  BY DEF EarnedAt
<1> HIDE DEF Had, Top, u
<1>9. CASE h = a.height
  BY <1>2, <1>3, <1>7, <1>9, CoinDaysAge DEF Top
<1>10. CASE h # a.height /\ a.value = 0
  <2>1. UpDateCoinDay(a, h).coin = 0
    BY <1>2, <1>3, <1>10, NoMoneyNoCoinDays
  <2>2. h - 1 \in 0..n /\ h = (h - 1) + 1
    BY <1>1, <1>3, <1>10
  <2>3. Top(h) \in Nat
    BY <1>6, <2>2
  <2> QED
    BY <2>1, <2>3 DEF Top
<1>11. CASE h # a.height /\ a.value # 0
  <2>1. \A m \in MadeBefore(c, k, i) : m <= a.height /\ m \in Nat
    BY <1>11 DEF MadeBefore
  <2>2. \A x \in Nat : a.height < x => x \in Since(c, k, i)
    BY <1>3, <2>1 DEF Since
  <2>3. ASSUME NEW x \in Nat, a.height < x, x <= i PROVE a.value <= Had(x) /\ x \in 1..(n + 1)
    <3>1. x \in 1..(n + 1)
      BY <1>1, <1>3, <2>3
    <3>2. Had(x) \in Nat
      BY <1>4, <3>1
    <3>3. CASE x = i
      BY <1>3, <1>4, <1>5, <3>1, <3>3
    <3>4. CASE x # i
      <4>1. x \in 1..(i - 1)
        BY <1>1, <1>3, <2>3, <3>4
      <4>2. a.value + u <= Had(x)
        BY <1>8, <2>2, <2>3, <4>1
      <4> QED
        BY <1>3, <1>4, <3>1, <3>2, <4>2
    <3> QED
      BY <3>3, <3>4
  <2> DEFINE X == {d \in Nat : a.height + d <= i => a.coin + a.value * d <= Top(a.height + d)}
  <2>4. 0 \in X
    <3>1. a.value * 0 = 0 /\ a.height + 0 = a.height
      BY <1>3
    <3> QED
      BY <1>3, <1>7, <3>1
  <2>5. \A d \in Nat : d \in X => d + 1 \in X
    <3> SUFFICES ASSUME NEW d \in Nat, d \in X, a.height + (d + 1) <= i
                 PROVE  a.coin + a.value * (d + 1) <= Top(a.height + (d + 1))
      OBVIOUS
    <3> DEFINE x == a.height + d
    <3>1. /\ x \in Nat /\ x \in 0..n /\ x <= i /\ x + 1 <= i /\ a.height < x + 1
          /\ x + 1 \in Nat /\ a.height + (d + 1) = x + 1
      <4> HIDE DEF X
      <4>1. \A p, q, r, s \in Nat : p + (q + 1) <= r /\ r \in 1..(s + 1)
               => /\ p + q \in Nat /\ p + q \in 0..s /\ p + q <= r /\ (p + q) + 1 <= r
                  /\ p < (p + q) + 1 /\ (p + q) + 1 \in Nat /\ p + (q + 1) = (p + q) + 1
        OBVIOUS
      <4> QED
        BY <1>1, <1>3, <4>1
    <3>2. a.coin + a.value * d <= Top(x)
      BY <3>1
    <3> HIDE DEF x, X
    <3>3. Top(x + 1) = Top(x) + Had(x + 1) /\ Top(x) \in Nat
      BY <1>6, <2>2, <3>1
    <3>4. a.value <= Had(x + 1) /\ Had(x + 1) \in Nat
      BY <1>4, <2>3, <3>1
    <3>5. a.value * (d + 1) = a.value * d + a.value /\ a.value * d \in Nat
      BY <1>3
    <3> QED
      BY <1>3, <3>1, <3>2, <3>3, <3>4, <3>5
  <2> HIDE DEF X
  <2>6. Nat \subseteq X
    BY <2>4, <2>5, SetInduction
  <2> DEFINE d == h - a.height
  <2>7. d \in Nat /\ a.height + d = h /\ h > a.height
    BY <1>3, <1>11
  <2>8. a.coin + a.value * d <= Top(h)
    <3>1. d \in X
      BY <2>6, <2>7
    <3> HIDE DEF d
    <3> QED
      BY <2>7, <3>1 DEF X
  <2>9. UpDateCoinDay(a, h).coin <= a.coin + a.value * d /\ UpDateCoinDay(a, h).coin \in Nat
    BY <1>2, <2>7, CoinDaysAge
  <2>10. a.value * d \in Nat /\ Top(h) \in Nat
    <3>1. h - 1 \in 0..n /\ h = (h - 1) + 1
      BY <1>1, <1>3, <1>11
    <3>2. Top(h) \in Nat
      BY <1>6, <3>1
    <3> HIDE DEF d
    <3> QED
      BY <1>3, <2>7, <3>2
  <2> HIDE DEF d
  <2> QED
    BY <1>3, <2>8, <2>9, <2>10 DEF Top
<1> QED
  BY <1>9, <1>10, <1>11

(* The terms of the sums depend on the blocks below only.                  *)
SamePast(c, ws, d, vs, i) ==
    /\ \A x \in 1..(i - 1) : c[x] = d[x] /\ ws[x] = vs[x]

LEMMA PastTerms ==
    ASSUME NEW c, NEW ws, NEW n, ChainOf(c, ws, n), NEW d, NEW vs, NEW m, ChainOf(d, vs, m),
           NEW k \in Key, NEW i, i \in 1..(n + 1), i \in 1..(m + 1), SamePast(c, ws, d, vs, i)
    PROVE  /\ \A x \in 1..i : /\ MadeBefore(c, k, x) = MadeBefore(d, k, x)
                              /\ Unpaid(c, k, x) = Unpaid(d, k, x)
           /\ \A x \in 1..(i - 1) : HadBefore(c, ws, k, x) = HadBefore(d, vs, k, x)
<1>1. n \in Nat /\ m \in Nat /\ i \in Nat
  BY DEF ChainOf
<1>2. ASSUME NEW x \in 1..i
      PROVE  MadeBefore(c, k, x) = MadeBefore(d, k, x) /\ Unpaid(c, k, x) = Unpaid(d, k, x)
  <2>1. \A y \in 1..(x - 1) : y \in 1..(i - 1) /\ y \in 1..n /\ y \in 1..m
    BY <1>1
  <2>2. MadeBefore(c, k, x) = MadeBefore(d, k, x)
    BY <2>1 DEF MadeBefore, SamePast
  <2> DEFINE S == {y \in MadeBefore(c, k, x) : y + Maturity >= x}
  <2>3. x \in 1..(n + 1) /\ x \in 1..(m + 1)
    BY <1>1
  <2>4. IsFiniteSet(S) /\ \A y \in S : y \in 1..(x - 1)
    <3>1. IsFiniteSet(MadeBefore(c, k, x))
      BY <2>3, UnpaidType
    <3> QED
      BY <3>1, FS_Subset DEF MadeBefore
  <2>5. \A y \in S : DuesOf(c)[y] = DuesOf(d)[y]
    <3> SUFFICES ASSUME NEW y \in S PROVE DuesOf(c)[y] = DuesOf(d)[y]
      OBVIOUS
    <3>1. y \in 1..(i - 1) /\ y \in 1..n /\ y \in 1..m
      BY <2>1, <2>4
    <3>2. c[y] = d[y]
      BY <3>1 DEF SamePast
    <3> QED
      BY <2>3, <3>1, <3>2, UnpaidType
  <2> HIDE DEF S
  <2>6. SumFunctionOnSet(DuesOf(c), S) = SumFunctionOnSet(DuesOf(d), S)
    BY <2>4, <2>5, SumSame
  <2> QED
    BY <2>2, <2>6 DEF Unpaid, S
<1>3. ASSUME NEW x \in 1..(i - 1) PROVE HadBefore(c, ws, k, x) = HadBefore(d, vs, k, x)
  <2>1. x \in 1..i /\ ws[x] = vs[x]
    BY <1>1 DEF SamePast
  <2> QED
    BY <1>2, <2>1 DEF HadBefore
<1> QED
  BY <1>2, <1>3

LEMMA SameCap ==
    ASSUME NEW c, NEW ws, NEW n, ChainOf(c, ws, n), NEW d, NEW vs, NEW m, ChainOf(d, vs, m),
           NEW k \in Key, NEW i, NEW j, Since(c, k, i) = Since(d, k, j),
           NEW h \in Nat, h <= n + 1, h <= m + 1,
           \A x \in 1..h : HadBefore(c, ws, k, x) = HadBefore(d, vs, k, x)
    PROVE  Cap(c, ws, k, i, h) = Cap(d, vs, k, j, h)
<1> DEFINE S == {x \in 1..h : x \in Since(c, k, i)}
<1>1. n \in Nat /\ m \in Nat
  BY DEF ChainOf
<1>2. IsFiniteSet(S)
  BY FS_Interval, FS_Subset
<1>3. \A x \in S : HadOf(c, ws, k)[x] = HadOf(d, vs, k)[x]
  <2> SUFFICES ASSUME NEW x \in 1..h PROVE HadOf(c, ws, k)[x] = HadOf(d, vs, k)[x]
    OBVIOUS
  <2>1. x \in 1..(n + 1) /\ x \in 1..(m + 1)
    BY <1>1
  <2> QED
    BY <2>1, HadType
<1> HIDE DEF S
<1>4. SumFunctionOnSet(HadOf(c, ws, k), S) = SumFunctionOnSet(HadOf(d, vs, k), S)
  BY <1>2, <1>3, SumSame
<1> QED
  BY <1>4 DEF Cap, S

LEMMA EarnedInPast ==
    ASSUME NEW c, NEW ws, NEW n, ChainOf(c, ws, n), NEW d, NEW vs, NEW m, ChainOf(d, vs, m),
           NEW k \in Key, NEW i, i \in 1..(n + 1), i \in 1..(m + 1), SamePast(c, ws, d, vs, i),
           NEW a, a.height \in Nat, a.height <= i - 1, EarnedAt(c, ws, i, k, a)
    PROVE  EarnedAt(d, vs, i, k, a)
<1>1. n \in Nat /\ m \in Nat /\ i \in 1..i
  BY DEF ChainOf
<1>2. /\ MadeBefore(c, k, i) = MadeBefore(d, k, i) /\ Unpaid(c, k, i) = Unpaid(d, k, i)
      /\ \A x \in 1..(i - 1) : HadBefore(c, ws, k, x) = HadBefore(d, vs, k, x)
  BY <1>1, PastTerms
<1>3. Since(c, k, i) = Since(d, k, i)
  BY <1>2 DEF Since
<1>4. /\ a.height <= n + 1 /\ a.height <= m + 1
      /\ \A x \in 1..a.height : HadBefore(c, ws, k, x) = HadBefore(d, vs, k, x)
  BY <1>1, <1>2
<1>5. Cap(c, ws, k, i, a.height) = Cap(d, vs, k, i, a.height)
  BY <1>3, <1>4, SameCap
<1> QED
  BY <1>2, <1>3, <1>5 DEF EarnedAt

(* An account without money that is no longer there. *)
LEMMA NothingEarned ==
    ASSUME NEW c, NEW ws, NEW n, ChainOf(c, ws, n), NEW k \in Key, NEW i \in 1..(n + 1),
           NEW b, b.value = 0, b.coin = 0, b.height = 0
    PROVE  EarnedAt(c, ws, i, k, b)
<1>1. n \in Nat
  BY DEF ChainOf
<1>2. Cap(c, ws, k, i, 0) \in Nat
  BY <1>1, CapGrows
<1>3. ASSUME NEW x \in 1..(i - 1), x \in Since(c, k, i)
      PROVE  0 + Unpaid(c, k, i) <= HadBefore(c, ws, k, x)
  <2> DEFINE T == {m \in MadeBefore(c, k, x) : m + Maturity >= x}
             S == {m \in MadeBefore(c, k, i) : m + Maturity >= i}
  <2>1. x \in 1..(n + 1) /\ x <= i /\ x \in Nat /\ i \in Nat /\ Maturity \in Nat
    BY <1>1, Numbers
  <2>2. S \subseteq T
    <3> SUFFICES ASSUME NEW m \in MadeBefore(c, k, i), m + Maturity >= i
                 PROVE  m \in MadeBefore(c, k, x) /\ m + Maturity >= x
      OBVIOUS
    <3>1. m < x /\ m \in 1..(i - 1) /\ RewardOf(c[m]).user = k
      BY <1>3 DEF Since, MadeBefore
    <3> QED
      BY <2>1, <3>1 DEF MadeBefore
  <2>3. IsFiniteSet(T) /\ \A m \in T : DuesOf(c)[m] \in Nat
    <3>1. /\ MadeBefore(c, k, x) \subseteq 1..n /\ IsFiniteSet(MadeBefore(c, k, x))
          /\ \A m \in 1..n : DuesOf(c)[m] \in Nat
      BY <2>1, UnpaidType
    <3> QED
      BY <3>1, FS_Subset
  <2> HIDE DEF S, T
  <2>4. SumFunctionOnSet(DuesOf(c), S) \in Nat
        /\ SumFunctionOnSet(DuesOf(c), S) <= SumFunctionOnSet(DuesOf(c), T)
    BY <2>2, <2>3, SumOfPart
  <2>5. Unpaid(c, k, i) \in Nat /\ Unpaid(c, k, i) <= Unpaid(c, k, x)
    BY <2>4 DEF Unpaid, S, T
  <2>6. ValueOf(ws[x], k) \in Nat /\ Unpaid(c, k, x) \in Nat
    BY <2>1, HadType, UnpaidType
  <2> QED
    BY <2>5, <2>6 DEF HadBefore
<1> QED
  BY <1>2, <1>3 DEF EarnedAt

(* A reward that matures is not unpaid any more. *)
LEMMA UnpaidNext ==
    ASSUME NEW c, NEW ws, NEW n, ChainOf(c, ws, n), NEW d, NEW vs, ChainOf(d, vs, n + 1),
           SamePast(c, ws, d, vs, n + 1), NEW k \in Key, RewardOf(d[n + 1]).user # k,
           NEW paid \in Nat,
           IF n + 1 > Maturity /\ RewardOf(c[n + 1 - Maturity]).user = k
           THEN paid = RewardOf(c[n + 1 - Maturity]).fee ELSE paid = 0
    PROVE  /\ MadeBefore(d, k, n + 2) = MadeBefore(c, k, n + 1)
           /\ paid + Unpaid(d, k, n + 2) = Unpaid(c, k, n + 1)
<1> DEFINE M == MadeBefore(c, k, n + 1)
           S == {m \in M : m + Maturity >= n + 1}
           T == {m \in M : m + Maturity >= n + 2}
           p == n + 1 - Maturity
<1>1. n \in Nat /\ Maturity \in Nat \ {0} /\ n + 1 \in 1..(n + 1) /\ n + 1 \in 1..((n + 1) + 1)
      /\ n + 1 \in 1..(n + 1) /\ n + 2 \in 1..((n + 1) + 1)
  BY Numbers DEF ChainOf
<1>2. M = MadeBefore(d, k, n + 1)
  BY <1>1, PastTerms
<1>3. MadeBefore(d, k, n + 2) = M
  <2>1. \A m : m \in 1..((n + 2) - 1) <=> m \in 1..((n + 1) - 1) \/ m = n + 1
    BY <1>1
  <2> QED
    BY <1>2, <2>1 DEF MadeBefore
<1>4. /\ M \subseteq 1..n /\ IsFiniteSet(M)
      /\ \A m \in M : DuesOf(c)[m] \in Nat
      /\ \A m \in M : DuesOf(c)[m] = RewardOf(c[m]).fee /\ DuesOf(d)[m] = DuesOf(c)[m]
  <2>1. /\ M \subseteq 1..n /\ IsFiniteSet(M)
        /\ \A m \in 1..n : DuesOf(c)[m] = RewardOf(c[m]).fee /\ DuesOf(c)[m] \in Nat
    BY <1>1, UnpaidType
  <2>2. \A m \in 1..(n + 1) : DuesOf(d)[m] = RewardOf(d[m]).fee
    BY <1>1, UnpaidType
  <2>3. \A m \in 1..n : c[m] = d[m] /\ m \in 1..(n + 1)
    BY <1>1 DEF SamePast
  <2> QED
    BY <2>1, <2>2, <2>3
<1> HIDE DEF M
<1>5. IsFiniteSet(S) /\ IsFiniteSet(T) /\ T = S \ {p}
  <2>1. IsFiniteSet(S) /\ IsFiniteSet(T)
    BY <1>4, FS_Subset
  <2>2. \A m \in M : m \in Nat
    BY <1>4
  <2>3. \A m \in Nat : m + Maturity >= n + 2 <=> m + Maturity >= n + 1 /\ m # p
    BY <1>1
  <2> QED
    BY <2>1, <2>2, <2>3
<1>6. Unpaid(d, k, n + 2) = SumFunctionOnSet(DuesOf(c), T)
  <2>1. SumFunctionOnSet(DuesOf(c), T) = SumFunctionOnSet(DuesOf(d), T)
    BY <1>4, <1>5, SumSame
  <2> QED
    BY <1>3, <2>1 DEF Unpaid
<1>7. Unpaid(c, k, n + 1) = SumFunctionOnSet(DuesOf(c), S)
  BY DEF Unpaid, M
<1>8. n + 1 > Maturity /\ RewardOf(c[p]).user = k <=> p \in S
  <2>1. p \in 1..((n + 1) - 1) <=> n + 1 > Maturity
    BY <1>1
  <2>2. p + Maturity >= n + 1
    BY <1>1
  <2> QED
    BY <2>1, <2>2 DEF M, MadeBefore
<1> DEFINE sumS == SumFunctionOnSet(DuesOf(c), S)
           sumT == SumFunctionOnSet(DuesOf(c), T)
<1>9. sumT \in Nat
  BY <1>4, <1>5, SumOfPart
<1>10. CASE p \in S
  <2>1. \A x \in S : DuesOf(c)[x] \in Int
    BY <1>4
  <2>2. sumS = DuesOf(c)[p] + sumT
    BY <1>5, <1>10, <2>1, SumWithout
  <2>3. paid = DuesOf(c)[p]
    BY <1>4, <1>8, <1>10
  <2> QED
    BY <1>3, <1>6, <1>7, <2>2, <2>3 DEF M
<1>11. CASE p \notin S
  <2>1. T = S /\ paid = 0
    BY <1>5, <1>8, <1>11
  <2> HIDE DEF S, T
  <2> QED
    BY <1>3, <1>6, <1>7, <1>9, <2>1 DEF M
<1> QED
  BY <1>10, <1>11

-----------------------------------------------------------------------------
(* Coin days are earned: the inductive invariant.                           *)

(* The ids name different keys, the users among them have their public key, *)
(* and the reward of block m went to the key that its id, registered at m   *)
(* or below, still names.                                                   *)
Unique(w) == \A i, j \in Id : w.ids[i] # None /\ w.ids[i] = w.ids[j] => i = j
Public(w) == \A id \in Id : w.ids[id] \in User => Held(w, w.ids[id]).pub
Paying(w, c) ==
    \A m \in DOMAIN c : /\ w.ids[RewardOf(c[m]).id] = RewardOf(c[m]).user
                        /\ RewardOf(c[m]).id[1] <= m
Enrolled(w, c) == Unique(w) /\ Public(w) /\ Paying(w, c)

(* Nothing that key k made below block i is above height h: its coin days   *)
(* were spent when it made a block and count from there.                    *)
Settled(c, k, i, h) == \A m \in MadeBefore(c, k, i) : m <= h

Level(w, c) ==
    \A k \in Key : w.acct[k] # None => Settled(c, k, Len(c) + 1, Held(w, k).height)
GoodLogs(c, i, b) ==
    \A n \in DOMAIN b : \A j \in DOMAIN b[n].logs :
        Settled(c, b[n].logs[j].key, i, b[n].logs[j].height)

(* What a block in progress does to an account: it brings its coin days to  *)
(* the height of the block, less what was spent, or leaves them.            *)
Fresh(k) == k \in Id /\ k[1] = Height
Brought(w, k) ==
    /\ Held(w, k).height = Height
    /\ Held(w, k).coin <= UpDateCoinDay(Held(tip, k), Height).coin
Left(w, k) ==
    /\ Held(w, k).value = Held(tip, k).value /\ Held(w, k).coin = Held(tip, k).coin
    /\ Held(w, k).height = Held(tip, k).height
    /\ w.acct[k] = None \/ tip.acct[k] # None \/ Fresh(k)
Aged(w) == \A k \in Key : Brought(w, k) \/ Left(w, k)

(* The reward of the block in progress went to an account that has no coin  *)
(* days left.                                                               *)
Spent(w, b) ==
    \E r \in GoodEntry :
        /\ IsReward(b, r) /\ r.id \in Id /\ r.id[1] <= Height
        /\ w.ids[r.id] = r.user
        /\ Held(w, r.user).coin = 0 /\ Held(w, r.user).height = Height

EarnedInv ==
    /\ Enrolled(tip, chain) /\ Level(tip, chain)
    /\ Enrolled(view, Base)
    /\ \A i \in DOMAIN chain : GoodLogs(chain, i, chain[i])
    /\ \A i \in 1..(Len(chain) + 1) : Earned(chain, Append(before, tip), i)
    /\ mode \in {"connect", "rewarded"} => Aged(view)
    /\ mode = "rewarded" => Spent(view, block)
    /\ mode = "undo" => Level(view, Base)
    /\ mode # "idle" => GoodLogs(Base, Len(Base) + 1, block)

(* One block more: the account that made it has no coin days, and any other *)
(* was brought to the height of the block, or got a reward that matured.    *)
LEMMA EarnedNext ==
    ASSUME NEW c, NEW ws, NEW n, ChainOf(c, ws, n), NEW d, NEW vs, ChainOf(d, vs, n + 1),
           SamePast(c, ws, d, vs, n + 1), vs[n + 1] = ws[n + 1],
           NEW k \in Key, NEW a, a = Held(ws[n + 1], k), EarnedAt(c, ws, n + 1, k, a),
           a.height <= n, a.value = 0 \/ Settled(c, k, n + 1, a.height),
           NEW paid \in Nat,
           IF n + 1 > Maturity /\ RewardOf(c[n + 1 - Maturity]).user = k
           THEN paid = RewardOf(c[n + 1 - Maturity]).fee ELSE paid = 0,
           NEW b \in Account,
           \/ RewardOf(d[n + 1]).user = k /\ b.coin = 0 /\ b.height = n + 1
           \/ /\ RewardOf(d[n + 1]).user # k
              /\ \/ b.height = n + 1 /\ b.coin <= UpDateCoinDay(a, n + 1).coin
                 \/ b.coin = a.coin /\ b.height = a.height /\ b.value = a.value + paid
    PROVE  EarnedAt(d, vs, n + 2, k, b)
<1> DEFINE i == n + 1
           j == n + 2
           D(x) == HadBefore(d, vs, k, x)
           C(x) == HadBefore(c, ws, k, x)
<1>1. /\ n \in Nat /\ i \in 1..(n + 1) /\ i \in 1..(i + 1) /\ j \in 1..(i + 1) /\ i \in Nat
      /\ ws[i] \in World
  BY DEF ChainOf
<1>2. a \in Account /\ a.value \in Nat /\ a.coin \in Nat /\ a.height \in Nat
  <2>1. a \in Account
    BY <1>1, HeldType
  <2> QED
    BY <2>1 DEF Account
<1>3. b.value \in Nat /\ b.coin \in Nat /\ b.height \in Nat
  BY DEF Account
<1>4. \A x \in 1..i : D(x) = C(x)
  <2>1. /\ Unpaid(c, k, i) = Unpaid(d, k, i)
        /\ \A x \in 1..(i - 1) : C(x) = D(x)
    BY <1>1, PastTerms
  <2>2. C(i) = D(i)
    BY <2>1 DEF HadBefore
  <2>3. \A x \in 1..i : x = i \/ x \in 1..(i - 1)
    BY <1>1
  <2> HIDE DEF C, D, i
  <2> QED
    BY <2>1, <2>2, <2>3
<1>5. \A x \in 0..i : Cap(d, vs, k, j, x) \in Nat
  <2> SUFFICES ASSUME NEW x \in 0..i PROVE Cap(d, vs, k, j, x) \in Nat
    OBVIOUS
  <2> QED
    BY <1>1, CapGrows
<1>6. ASSUME b.height = n + 1, NEW x \in 1..(j - 1), b.height < x PROVE FALSE
  BY <1>1, <1>6
<1>7. CASE RewardOf(d[n + 1]).user = k /\ b.coin = 0 /\ b.height = n + 1
  <2>1. i \in 0..i
    BY <1>1
  <2>2. Cap(d, vs, k, j, b.height) \in Nat
    BY <1>5, <1>7, <2>1
  <2>3. b.coin <= Cap(d, vs, k, j, b.height)
    BY <1>7, <2>2
  <2> QED
    BY <1>6, <1>7, <2>3 DEF EarnedAt
<1>8. ASSUME RewardOf(d[n + 1]).user # k
      PROVE  /\ paid + Unpaid(d, k, j) = Unpaid(c, k, i)
             /\ Since(d, k, j) = Since(c, k, i)
             /\ \A x \in 0..i : Cap(c, ws, k, i, x) = Cap(d, vs, k, j, x)
  <2>1. /\ MadeBefore(d, k, j) = MadeBefore(c, k, i)
        /\ paid + Unpaid(d, k, j) = Unpaid(c, k, i)
    BY <1>8, UnpaidNext
  <2>2. Since(d, k, j) = Since(c, k, i)
    BY <2>1 DEF Since
  <2>3. ASSUME NEW x \in 0..i PROVE Cap(c, ws, k, i, x) = Cap(d, vs, k, j, x)
    <3>1. /\ x \in Nat /\ x <= n + 1 /\ x <= i + 1
          /\ \A y \in 1..x : y \in 1..i
      BY <1>1
    <3>2. \A y \in 1..x : C(y) = D(y)
      BY <1>4, <3>1
    <3> QED
      BY <2>2, <3>1, <3>2, SameCap
  <2> QED
    BY <2>1, <2>2, <2>3
<1>9. CASE /\ RewardOf(d[n + 1]).user # k
           /\ b.height = n + 1 /\ b.coin <= UpDateCoinDay(a, n + 1).coin
  <2>1. a.height <= i - 1 /\ a.height <= i /\ i <= i
    BY <1>1, <1>2
  <2>2. a.value = 0 \/ \A m \in MadeBefore(c, k, i) : m <= a.height
    BY DEF Settled
  <2>3. UpDateCoinDay(a, i).coin <= Cap(c, ws, k, i, i)
    BY <1>1, <2>1, <2>2, CoinDaysBound
  <2>4. Cap(c, ws, k, i, i) = Cap(d, vs, k, j, i) /\ Cap(d, vs, k, j, i) \in Nat
    <3>1. i \in 0..i
      BY <1>1
    <3> QED
      BY <1>5, <1>8, <1>9, <3>1
  <2>5. UpDateCoinDay(a, i).coin \in Nat
    BY <1>1, <1>2, CoinDaysAge
  <2>6. b.coin <= Cap(d, vs, k, j, b.height)
    <3>1. b.coin <= UpDateCoinDay(a, i).coin /\ b.height = i
      BY <1>9
    <3> HIDE DEF i, j
    <3>2. b.coin <= Cap(d, vs, k, j, i)
      BY <1>3, <2>3, <2>4, <2>5, <3>1
    <3> QED
      BY <3>1, <3>2
  <2> QED
    BY <1>6, <1>9, <2>6 DEF EarnedAt
<1>10. CASE /\ RewardOf(d[n + 1]).user # k
            /\ b.coin = a.coin /\ b.height = a.height /\ b.value = a.value + paid
  <2>1. /\ paid + Unpaid(d, k, j) = Unpaid(c, k, i)
        /\ Since(d, k, j) = Since(c, k, i)
        /\ Cap(c, ws, k, i, a.height) = Cap(d, vs, k, j, a.height)
    <3>1. a.height \in 0..i
      BY <1>1, <1>2
    <3> QED
      BY <1>8, <1>10, <3>1
  <2>2. /\ a.coin <= Cap(c, ws, k, i, a.height)
        /\ \A x \in 1..(i - 1) : x \in Since(c, k, i) /\ a.height < x
              => a.value + Unpaid(c, k, i) <= C(x)
    BY DEF EarnedAt
  <2>3. b.value + Unpaid(d, k, j) = a.value + Unpaid(c, k, i)
    <3>1. Unpaid(d, k, j) \in Nat
      BY <1>1, UnpaidType
    <3> HIDE DEF i, j
    <3> QED
      BY <1>2, <1>10, <2>1, <3>1
  <2>4. ASSUME NEW x \in 1..(j - 1), x \in Since(d, k, j), b.height < x
        PROVE  b.value + Unpaid(d, k, j) <= D(x)
    <3>1. x \in 1..i /\ (x = i \/ x \in 1..(i - 1))
      BY <1>1
    <3>2. CASE x = i
      <4>1. C(i) = a.value + Unpaid(c, k, i)
        BY DEF HadBefore, ValueOf
      <4>2. C(i) \in Nat
        BY <1>1, HadType
      <4>3. D(i) = C(i)
        BY <1>4, <3>1, <3>2
      <4> HIDE DEF C, D, i, j
      <4>4. b.value + Unpaid(d, k, j) = D(i) /\ D(i) \in Nat
        BY <2>3, <4>1, <4>2, <4>3
      <4>5. b.value + Unpaid(d, k, j) <= D(i)
        BY <4>4
      <4> QED
        BY <3>2, <4>5
    <3>3. CASE x \in 1..(i - 1)
      <4>1. a.value + Unpaid(c, k, i) <= C(x)
        BY <1>10, <2>1, <2>2, <2>4, <3>3
      <4>2. D(x) = C(x)
        BY <1>4, <3>1
      <4> HIDE DEF C, D, i, j
      <4> QED
        BY <2>3, <4>1, <4>2
    <3> QED
      BY <3>1, <3>2, <3>3
  <2>5. b.coin <= Cap(d, vs, k, j, b.height)
    BY <1>10, <2>1, <2>2
  <2> QED
    BY <2>4, <2>5 DEF EarnedAt
<1> QED
  BY <1>7, <1>9, <1>10

-----------------------------------------------------------------------------
(* Coin days are earned: what a transaction does.                           *)

(* A part of a product is not more than the product. *)
LEMMA PartOf ==
    ASSUME NEW x \in Nat, NEW p \in Nat, NEW q \in Nat, q > 0, p <= q
    PROVE  (x * p) \div q <= x
<1> DEFINE n == x * p
           d == n \div q
<1>1. \A u, v, t \in Nat : u * v \in Nat /\ u * v = v * u /\ u * (v + t) = u * v + u * t
  OBVIOUS
<1>2. \A u, v \in Nat : v > 0 => u \div v \in Nat /\ v * (u \div v) <= u
  OBVIOUS
<1>3. n \in Nat /\ d \in Nat /\ q * d <= n
  <2>1. n \in Nat
    BY <1>1
  <2> HIDE DEF n
  <2> QED
    BY <1>2, <2>1
<1>4. n <= x * q /\ x * q = q * x
  <2>1. q - p \in Nat /\ q = p + (q - p)
    OBVIOUS
  <2>2. x * q = x * p + x * (q - p) /\ x * (q - p) \in Nat
    BY <1>1, <2>1
  <2> QED
    BY <1>1, <1>3, <2>2
<1> HIDE DEF n, d
<1>5. ASSUME d > x PROVE FALSE
  <2> DEFINE m == d - (x + 1)
  <2>1. m \in Nat /\ d = x + (1 + m) /\ 1 + m \in Nat
    BY <1>3, <1>5
  <2> HIDE DEF m
  <2>2. q * d = q * x + q * (1 + m) /\ q * (1 + m) = q * 1 + q * m
        /\ q * m \in Nat /\ q * x \in Nat
    BY <1>1, <2>1
  <2>3. q * 1 = q
    OBVIOUS
  <2> QED
    BY <1>3, <1>4, <2>2, <2>3
<1> QED
  BY <1>3, <1>5 DEF d, n

(* Spending money leaves no more coin days than there were. *)
LEMMA CoinDaysLeft ==
    ASSUME NEW a \in Account, NEW v \in Nat, v # 0, v <= a.value, NEW h \in Nat
    PROVE  RemainCoinDay(a, v, h) <= a.coin
<1> DEFINE rest == IF h < RemainHeight
                   THEN a.coin - (v \div a.value) * a.coin
                   ELSE (a.coin * (a.value - v)) \div a.value
           interval == (a.value * IntervalPos) % Width
<1>1. /\ a.value \in Nat /\ a.value > 0 /\ a.coin \in Nat
      /\ a.value - v \in Nat /\ a.value - v <= a.value /\ IntervalPos \in Nat
  BY Numbers DEF Account
<1>2. a.coin - (v \div a.value) * a.coin <= a.coin
  <2>1. v \div a.value \in Nat
    <3>1. \A x \in Nat, y \in Nat : y > 0 => x \div y \in Nat
      OBVIOUS
    <3> QED
      BY <1>1, <3>1
  <2>2. (v \div a.value) * a.coin \in Nat
    <3>1. \A x, y \in Nat : x * y \in Nat
      OBVIOUS
    <3> QED
      BY <1>1, <2>1, <3>1
  <2> QED
    BY <1>1, <2>2
<1>3. (a.coin * (a.value - v)) \div a.value <= a.coin
  BY <1>1, PartOf
<1>4. rest <= a.coin
  BY <1>2, <1>3
<1>5. interval \in Nat
  <2>1. a.value * IntervalPos \in Nat
    BY <1>1
  <2> QED
    BY <2>1, Wrapped
<1>6. RemainCoinDay(a, v, h) =
          IF a.coin > interval /\ rest < interval THEN interval ELSE rest
  BY DEF RemainCoinDay
<1> HIDE DEF rest, interval
<1>7. a.coin > interval => interval <= a.coin
  BY <1>1, <1>5
<1> QED
  BY <1>4, <1>6, <1>7

(* Every operation on an account brings it to the height of the block, with *)
(* no more coin days than it has there.                                     *)
LEMMA CoinDaysOfOperations ==
    ASSUME NEW a \in Account, NEW v \in Nat, NEW h \in Nat, a.height <= h
    PROVE  LET u == UpDateCoinDay(a, h).coin IN
           /\ Plus(a, v, h).height = h /\ Plus(a, v, h).coin <= u
           /\ v <= a.value => Minus(a, v, h).height = h /\ Minus(a, v, h).coin <= u
           /\ ClearAccPos(a, h).height = h /\ ClearAccPos(a, h).coin = 0
           /\ 0 <= u
<1> DEFINE b == UpDateCoinDay(a, h)
           coin == RemainCoinDay(b, v, h)
<1>1. /\ b \in Account /\ b.coin \in Nat /\ b.value = a.value
      /\ h <= a.height => b = a
      /\ h > a.height => b.height = h
  BY CoinDaysAge
<1>2. b.height = h
  <2>1. a.height \in Nat
    BY DEF Account
  <2> HIDE DEF b
  <2> QED
    BY <1>1, <2>1
<1>3. /\ Plus(a, v, h) = [b EXCEPT !.value = b.value + v]
      /\ Minus(a, v, h) = IF v = 0 THEN b ELSE [b EXCEPT !.value = b.value - v, !.coin = coin]
      /\ ClearAccPos(a, h) = [b EXCEPT !.coin = 0]
  BY DEF Plus, Minus, ClearAccPos
<1>4. v # 0 /\ v <= a.value => coin <= b.coin
  BY <1>1, CoinDaysLeft
<1> HIDE DEF b, coin
<1>5. Plus(a, v, h).height = h /\ Plus(a, v, h).coin <= b.coin
  BY <1>1, <1>2, <1>3 DEF Account
<1>6. ClearAccPos(a, h).height = h /\ ClearAccPos(a, h).coin = 0
  BY <1>1, <1>2, <1>3 DEF Account
<1>7. ASSUME v <= a.value PROVE Minus(a, v, h).height = h /\ Minus(a, v, h).coin <= b.coin
  <2>1. CASE v = 0
    BY <1>1, <1>2, <1>3, <2>1
  <2>2. CASE v # 0
    <3>1. Minus(a, v, h) = [b EXCEPT !.value = b.value - v, !.coin = coin]
      BY <1>3, <2>2
    <3>2. Minus(a, v, h).height = b.height /\ Minus(a, v, h).coin = coin
      BY <1>1, <3>1 DEF Account
    <3> QED
      BY <1>2, <1>4, <1>7, <2>2, <3>2
  <2> QED
    BY <2>1, <2>2
<1> QED
  BY <1>1, <1>5, <1>6, <1>7 DEF b

-----------------------------------------------------------------------------
(* The views of a block in progress.                                        *)
Going(w) ==
    /\ w \in World /\ Named(w) /\ AtMost(w, Height)
    /\ Enrolled(w, chain) /\ Aged(w)
Sound(l) == Settled(chain, l.key, Height, l.height)

LEMMA RewardIds ==
    ASSUME LedgerInv, NEW m \in 1..Len(chain)
    PROVE  RewardOf(chain[m]).id \in Id /\ RewardOf(chain[m]).id \in Key
           /\ RewardOf(chain[m]).user \in Key
           /\ RewardOf(chain[m]).fee \in Nat
<1>1. m \in DOMAIN chain
  BY ChainTerms
<1>2. RewardOf(chain[m]) \in GoodEntry /\ RewardOf(chain[m]).type = "reward"
  BY <1>1, RewardOfChain
<1> QED
  BY <1>2, Ids DEF GoodEntry, Entry

(* A key that made a block names an account that is there and was brought   *)
(* to the height of that block, or above it.                                *)
LEMMA LogIsSound ==
    ASSUME LedgerInv, HistoryInv, EarnedInv, NEW w, Going(w), NEW k \in Key,
           w.acct[k] # None \/ k \in User
    PROVE  Sound(LogOf(w, k))
<1>1. Len(chain) \in Nat /\ Height = Len(chain) + 1 /\ w \in World
  BY Heights DEF Going
<1>2. Held(w, k).height \in Nat
  BY <1>1, HeldType DEF Account
<1>3. SUFFICES ASSUME NEW m \in MadeBefore(chain, k, Height) PROVE m <= Held(w, k).height
  BY DEF Sound, Settled, LogOf
<1> DEFINE r == RewardOf(chain[m])
<1>4. m \in 1..Len(chain) /\ r.user = k
  BY <1>1, <1>3 DEF MadeBefore
<1>5. r.id \in Id /\ m \in DOMAIN chain
  BY <1>4, RewardIds, ChainTerms
<1>6. w.ids[r.id] = k /\ r.id[1] <= m
  BY <1>4, <1>5 DEF Going, Enrolled, Paying
<1> HIDE DEF r
<1>7. CASE w.acct[k] = None
  <2>1. Held(w, k).pub
    BY <1>5, <1>6, <1>7 DEF Going, Enrolled, Public
  <2> QED
    BY <1>7, <2>1 DEF Held, NewAccount
<1>8. CASE w.acct[k] # None /\ Brought(w, k)
  BY <1>1, <1>4, <1>8 DEF Brought
<1>9. CASE w.acct[k] # None /\ Left(w, k)
  <2>1. CASE tip.acct[k] # None
    <3>1. Settled(chain, k, Len(chain) + 1, Held(tip, k).height)
      BY <2>1 DEF EarnedInv, Level
    <3>2. m <= Held(tip, k).height
      BY <1>1, <3>1 DEF Settled
    <3> QED
      BY <1>9, <3>2 DEF Left
  <2>2. CASE Fresh(k)
    <3>1. k = r.id
      BY <1>5, <1>6, <2>2 DEF Fresh, Going, Named
    <3>2. k[1] = Len(chain) + 1 /\ r.id[1] \in Nat
      BY <1>1, <1>5, <2>2, IdParts DEF Fresh
    <3> QED
      BY <1>1, <1>4, <1>6, <3>1, <3>2
  <2> QED
    BY <1>9, <2>1, <2>2 DEF Left
<1> QED
  BY <1>7, <1>8, <1>9 DEF Going, Aged

(* The account of one key written. *)
LEMMA GoingSet ==
    ASSUME LedgerInv, HistoryInv, EarnedInv, NEW w, Going(w), NEW k \in Key,
           w.acct[k] # None \/ k \in User,
           NEW a \in Account, Held(w, k).pub => a.pub,
           \/ /\ a.height = Height
              /\ a.coin <= UpDateCoinDay(Held(w, k), Height).coin
           \/ /\ w.acct[k] # None
              /\ a.value = Held(w, k).value /\ a.coin = Held(w, k).coin
              /\ a.height = Held(w, k).height
    PROVE  Going(SetAccount(w, k, a))
<1> DEFINE w2 == SetAccount(w, k, a)
<1>1. Height \in Nat /\ tip \in World /\ w \in World
  BY Heights DEF Going
<1>2. /\ Held(w, k) \in Account /\ Held(tip, k) \in Account
      /\ Held(w, k).height <= Height
  BY <1>1, HeldType DEF Going, AtMost
<1>3. a.height \in Nat /\ a.coin \in Nat
  BY DEF Account
<1>4. Writes(w, k, w2) /\ Held(w2, k) = a
  <2>1. Held(w, k).height <= Height => a.height <= Height
    BY <1>1, <1>3
  <2> QED
    BY <1>1, <2>1, SetWrites
<1>5. w2.acct[k] = a
  BY <1>1, SetAccountType
<1> HIDE DEF w2
<1>6. /\ w2 \in World /\ w2.ids = w.ids
      /\ \A x \in Key : x # k => w2.acct[x] = w.acct[x] /\ Held(w2, x) = Held(w, x)
  BY <1>4 DEF Writes, Held
<1>7. Named(w2) /\ AtMost(w2, Height)
  BY <1>4, WriteKeeps DEF Going
<1>8. Enrolled(w2, chain)
  <2>1. Public(w2)
    <3> SUFFICES ASSUME NEW id \in Id, w2.ids[id] \in User PROVE Held(w2, w2.ids[id]).pub
      BY DEF Public
    <3>1. Held(w, w.ids[id]).pub /\ w.ids[id] \in Key
      BY <1>6, Ids DEF Going, Enrolled, Public
    <3> QED
      BY <1>4, <1>6, <3>1
  <2> QED
    BY <1>6, <2>1 DEF Going, Enrolled, Unique, Paying
<1>9. ASSUME NEW x \in Key PROVE Brought(w2, x) \/ Left(w2, x)
  <2>1. Brought(w, x) \/ Left(w, x)
    BY DEF Going, Aged
  <2>2. CASE x # k
    BY <1>6, <2>1, <2>2 DEF Brought, Left
  <2>3. CASE /\ x = k /\ a.height = Height
             /\ a.coin <= UpDateCoinDay(Held(w, k), Height).coin
    <3> DEFINE u == UpDateCoinDay(Held(w, k), Height)
               t == UpDateCoinDay(Held(tip, k), Height)
    <3>1. u.coin \in Nat /\ t.coin \in Nat
      BY <1>1, <1>2, CoinDaysAge
    <3>2. u.coin <= t.coin
      <4>1. CASE Brought(w, k)
        <5>1. u = Held(w, k)
          BY <1>1, <1>2, <4>1, CoinDaysAge DEF Brought
        <5> QED
          BY <4>1, <5>1 DEF Brought
      <4>2. CASE Left(w, k)
        <5>1. u.coin = t.coin
          BY <1>1, <1>2, <4>2, SameWorth DEF Left
        <5> QED
          BY <3>1, <5>1
      <4> QED
        BY <2>1, <2>3, <4>1, <4>2
    <3> HIDE DEF u, t
    <3>3. a.coin <= t.coin
      BY <1>3, <2>3, <3>1, <3>2 DEF u
    <3> QED
      BY <1>4, <2>3, <3>3 DEF Brought, t
  <2>4. CASE /\ x = k /\ w.acct[k] # None
             /\ a.value = Held(w, k).value /\ a.coin = Held(w, k).coin
             /\ a.height = Held(w, k).height
    BY <1>4, <2>1, <2>4 DEF Brought, Left
  <2> QED
    BY <2>2, <2>3, <2>4
<1> QED
  BY <1>6, <1>7, <1>8, <1>9 DEF Going, Aged, w2

LEMMA GoingDebit ==
    ASSUME LedgerInv, HistoryInv, EarnedInv, NEW w, Going(w), NEW k \in Key,
           w.acct[k] # None, NEW v \in Nat, v <= w.acct[k].value
    PROVE  Going(Debit(w, k, v)) /\ Sound(LogOf(w, k))
<1> DEFINE a == Minus(w.acct[k], v, Height)
<1>1. Height \in Nat /\ w \in World
  BY Heights DEF Going
<1>2. w.acct[k] \in Account /\ Held(w, k) = w.acct[k] /\ Held(w, k).height <= Height
  BY <1>1, HeldType DEF Held, Going, AtMost
<1>3. /\ a \in Account /\ a.pub = Held(w, k).pub /\ a.height = Height
      /\ a.coin <= UpDateCoinDay(Held(w, k), Height).coin
  BY <1>1, <1>2, MinusType, CoinDaysOfOperations DEF SameRole
<1>4. Debit(w, k, v) = SetAccount(w, k, a)
  BY DEF Debit
<1> HIDE DEF a
<1> QED
  BY <1>3, <1>4, GoingSet, LogIsSound

LEMMA GoingCredit ==
    ASSUME LedgerInv, HistoryInv, EarnedInv, NEW w, Going(w), NEW k \in Key,
           w.acct[k] # None \/ k \in User, NEW v \in Nat
    PROVE  Going(Credit(w, k, v)) /\ Sound(LogOf(w, k))
<1> DEFINE a == Plus(Held(w, k), v, Height)
<1>1. Height \in Nat /\ w \in World
  BY Heights DEF Going
<1>2. Held(w, k) \in Account /\ Held(w, k).height <= Height
  BY <1>1, HeldType DEF Going, AtMost
<1>3. /\ a \in Account /\ a.pub = Held(w, k).pub /\ a.height = Height
      /\ a.coin <= UpDateCoinDay(Held(w, k), Height).coin
  BY <1>1, <1>2, PlusType, CoinDaysOfOperations DEF SameRole
<1>4. Credit(w, k, v) = SetAccount(w, k, a)
  BY DEF Credit
<1> HIDE DEF a
<1> QED
  BY <1>3, <1>4, GoingSet, LogIsSound

(* No account goes. *)
LEMMA StillThere ==
    ASSUME NEW w \in World, NEW k \in Key, NEW v \in Nat, Height \in Nat, NEW x \in Key,
           w.acct[x] # None
    PROVE  /\ w.acct[k] # None /\ v <= w.acct[k].value => Debit(w, k, v).acct[x] # None
           /\ Credit(w, k, v).acct[x] # None
<1>1. w.acct[k] # None /\ v <= w.acct[k].value
         => Debit(w, k, v).acct[k] \in Account
            /\ (x # k => Debit(w, k, v).acct[x] = w.acct[x])
  BY DebitType, DebitWrites DEF Writes
<1>2. Credit(w, k, v).acct[k] \in Account
  BY CreditType
<1>3. x # k => Credit(w, k, v).acct[x] = w.acct[x]
  <2>1. Held(w, k) \in Account
    BY HeldType
  <2>2. Plus(Held(w, k), v, Height) \in Account
    BY <2>1, PlusType
  <2> QED
    BY <2>2, SetAccountType DEF Credit
<1> QED
  BY <1>1, <1>2, <1>3, Ids

LEMMA ViewIsGoing ==
    ASSUME LedgerInv, HistoryInv, EarnedInv, mode \in {"connect", "rewarded"}
    PROVE  Going(view) /\ Base = chain
BY Heights DEF Going, HistoryInv, EarnedInv, Base

(* The logs of one more entry. *)
LEMMA MoreGoodLogs ==
    ASSUME NEW c, NEW i, NEW b \in Seq(GoodEntry), NEW e, GoodLogs(c, i, b),
           \A j \in DOMAIN e.logs : Settled(c, e.logs[j].key, i, e.logs[j].height)
    PROVE  GoodLogs(c, i, Append(b, e))
<1> DEFINE n == Len(b)
           b2 == Append(b, e)
<1>1. /\ n \in Nat /\ DOMAIN b = 1..n /\ DOMAIN b2 = 1..(n + 1)
      /\ \A m \in 1..n : b2[m] = b[m]
      /\ b2[n + 1] = e
  <2>1. b \in Seq(GoodEntry \cup {e}) /\ e \in GoodEntry \cup {e}
    BY SeqMonotonic
  <2> QED
    BY <2>1, AppendedTo
<1> HIDE DEF n, b2
<1>2. \A m \in 1..(n + 1) : m \in 1..n \/ m = n + 1
  BY <1>1
<1> QED
  BY <1>1, <1>2 DEF GoodLogs, b2

(* A transaction, or the reward, joins the block in progress. *)
LEMMA BlockGrows ==
    ASSUME LedgerInv, HistoryInv, EarnedInv, mode = "connect", NEW w, Going(w), NEW e,
           view' = w, block' = Append(block, e),
           tip' = tip, chain' = chain, before' = before,
           mode' = "connect" \/ (mode' = "rewarded" /\ Spent(w, Append(block, e))),
           \A j \in DOMAIN e.logs : Sound(e.logs[j])
    PROVE  EarnedInv'
<1>1. /\ view' = w /\ block' = Append(block, e)
      /\ tip' = tip /\ chain' = chain /\ before' = before
      /\ mode' \in {"connect", "rewarded"}
  OBVIOUS
<1>2. block \in Seq(GoodEntry) /\ Height = Len(chain) + 1
  BY Heights DEF LedgerInv
<1>3. Base = chain /\ Base' = chain /\ Height' = Height
  BY <1>1 DEF Base, Height
<1>4. GoodLogs(chain, Height, Append(block, e))
  <2>1. GoodLogs(chain, Height, block)
    BY <1>2, <1>3 DEF EarnedInv
  <2> QED
    BY <1>2, <2>1, MoreGoodLogs DEF Sound
<1>5. Enrolled(view', Base') /\ GoodLogs(Base', Len(Base') + 1, block')
  BY <1>1, <1>2, <1>3, <1>4 DEF Going
<1>6. Aged(view)'
  BY <1>1, <1>3 DEF Going, Aged, Brought, Left, Fresh
<1>7. mode' = "rewarded" => Spent(view, block)'
  BY <1>1, <1>3 DEF Spent
<1> QED
  BY <1>1, <1>5, <1>6, <1>7 DEF EarnedInv

LEMMA ExecutedEarns ==
    ASSUME LedgerInv, HistoryInv, EarnedInv, mode = "connect", NEW w, Going(w), NEW e,
           Executed(w, e), \A j \in DOMAIN e.logs : Sound(e.logs[j])
    PROVE  EarnedInv'
<1>1. /\ view' = w /\ block' = Append(block, e)
      /\ tip' = tip /\ chain' = chain /\ before' = before /\ mode' = "connect"
  BY DEF Executed
<1>2. mode' = "connect" \/ (mode' = "rewarded" /\ Spent(w, Append(block, e)))
  BY <1>1
<1> QED
  BY <1>1, <1>2, BlockGrows

LEMMA TransferEarns ==
    ASSUME LedgerInv, HistoryInv, EarnedInv, mode = "connect",
           NEW src \in Registered, NEW des \in User \cup Registered,
           NEW v \in Amount, NEW fee \in Fee, Transfer(src, des, v, fee)
    PROVE  EarnedInv'
<1> DEFINE from == view.ids[src]
           w == Debit(view, from, v + fee)
           to == KeyOf(w, des)
           w2 == Credit(w, to, v)
           logs == <<LogOf(view, from), LogOf(w, to)>>
           e == [type |-> "common", id |-> None, user |-> from, fee |-> fee,
                 fuel |-> 0, logs |-> logs]
<1>1. v \in Nat /\ fee \in Nat /\ v + fee \in Nat /\ view \in World /\ Height \in Nat
  BY Numbers, Heights
<1>2. /\ MaySend(src, v + fee)
      /\ Has(w, des) \/ des \in User
      /\ Executed(w2, e)
  BY DEF Transfer
<1>3. /\ from \in Key /\ view.acct[from] \in Account /\ view.acct[from] # None
      /\ v + fee <= view.acct[from].value
  BY <1>1, <1>2, SenderCanPay, Ids
<1>4. e.logs = logs
  OBVIOUS
<1> HIDE DEF w2, e, to, logs, from
<1>5. Going(w) /\ Sound(LogOf(view, from))
  BY <1>1, <1>3, ViewIsGoing, GoingDebit
<1> HIDE DEF w
<1>6. to \in Key /\ (w.acct[to] # None \/ to \in User)
  <2>1. des \in Key
    BY Ids DEF Registered
  <2>2. to \in Key
    BY <1>2, <1>5, <2>1, KeyOfType DEF to, Going
  <2> QED
    BY <1>2, <2>2, Ids DEF to, KeyOf, Has
<1>7. Going(w2) /\ Sound(LogOf(w, to))
  BY <1>1, <1>5, <1>6, GoingCredit DEF w2
<1>8. \A j \in DOMAIN e.logs : Sound(e.logs[j])
  BY <1>4, <1>5, <1>7 DEF logs
<1> QED
  BY <1>2, <1>7, <1>8, ExecutedEarns

LEMMA ContractEarns ==
    ASSUME LedgerInv, HistoryInv, EarnedInv, mode = "connect",
           NEW src \in Registered, NEW app \in view.scripts,
           NEW to \in User \cup Registered \cup {None},
           NEW v \in Amount, NEW pay \in Amount, NEW fee \in Fee, NEW fuel \in Fee,
           Contract(src, app, v, fee, fuel, to, pay)
    PROVE  EarnedInv'
<1> DEFINE from == view.ids[src]
           owner == view.ids[app]
           w1 == Debit(view, from, v + fee)
           w2 == Credit(w1, owner, v)
           w3 == Debit(w2, owner, pay)
           k == KeyOf(view, to)
           w4 == Credit(w3, k, pay)
           l1 == LogOf(view, from)
           l2 == LogOf(w1, owner)
           l3 == LogOf(w2, owner)
           l4 == LogOf(w3, k)
           entry(logs) == [type |-> "contract", id |-> None, user |-> from, fee |-> fee,
                           fuel |-> fuel, logs |-> <<l1, l2>> \o logs]
<1>1. v \in Nat /\ pay \in Nat /\ fee \in Nat /\ fuel \in Nat /\ v + fee \in Nat
  BY Numbers
<1>2. /\ MaySend(src, v + fee)
      /\ Has(view, app)
      /\ IF to = None
         THEN Executed(w2, entry(<<>>))
         ELSE /\ Affordable(w2.acct[owner], pay)
              /\ Has(view, to) \/ to \in User
              /\ Executed(w4, entry(<<l3, l4>>))
  BY DEF Contract
<1>3. /\ \A j \in DOMAIN entry(<<>>).logs : entry(<<>>).logs[j] \in {l1, l2}
      /\ \A j \in DOMAIN entry(<<l3, l4>>).logs :
            entry(<<l3, l4>>).logs[j] \in {l1, l2, l3, l4}
  <2>1. \A logs : entry(logs).logs = <<l1, l2>> \o logs
    OBVIOUS
  <2> HIDE DEF l1, l2, l3, l4, entry
  <2>2. /\ \A S : <<l1, l2>> \in Seq(S) /\ <<>> \in Seq(S) => <<l1, l2>> \o <<>> \in Seq(S)
        /\ \A S : <<l1, l2>> \in Seq(S) /\ <<l3, l4>> \in Seq(S)
              => <<l1, l2>> \o <<l3, l4>> \in Seq(S)
    BY ConcatProperties
  <2>3. /\ <<l1, l2>> \in Seq({l1, l2}) /\ <<>> \in Seq({l1, l2})
        /\ <<l1, l2>> \in Seq({l1, l2, l3, l4}) /\ <<l3, l4>> \in Seq({l1, l2, l3, l4})
    OBVIOUS
  <2>4. /\ entry(<<>>).logs \in Seq({l1, l2})
        /\ entry(<<l3, l4>>).logs \in Seq({l1, l2, l3, l4})
    BY <2>1, <2>2, <2>3
  <2> QED
    BY <2>4, ElementOfSeq, LenProperties
<1> HIDE DEF l1, l2, l3, l4, w4, w3, w2, k, entry
<1>4. view \in World /\ Height \in Nat /\ Going(view)
  BY Heights, ViewIsGoing
<1>5. /\ from \in Key /\ view.acct[from] \in Account /\ view.acct[from] # None
      /\ v + fee <= view.acct[from].value
  BY <1>1, <1>2, SenderCanPay, Ids
<1>6. Going(w1) /\ w1 \in World /\ Sound(l1)
  BY <1>1, <1>4, <1>5, GoingDebit DEF Going, l1
<1>7. \A x \in Key : view.acct[x] # None => w1.acct[x] # None
  BY <1>1, <1>4, <1>5, StillThere
<1> HIDE DEF w1
<1>8. owner \in Key /\ w1.acct[owner] # None
  <2>1. app \in Id /\ app \in Key
    BY <1>4, Ids DEF World
  <2>2. KeyOf(view, app) = owner
    BY <2>1 DEF KeyOf
  <2>3. owner \in Key /\ view.acct[owner] # None
    BY <1>2, <1>4, <2>1, <2>2, KeyOfType DEF Has
  <2> QED
    BY <1>7, <2>3
<1> HIDE DEF from, owner
<1>9. Going(w2) /\ w2 \in World /\ Sound(l2)
  BY <1>1, <1>6, <1>8, GoingCredit DEF Going, l2, w2
<1>10. \A x \in Key : w1.acct[x] # None => w2.acct[x] # None
  BY <1>1, <1>4, <1>6, <1>8, StillThere DEF w2
<1>11. CASE to = None
  <2> DEFINE e == entry(<<>>)
  <2>1. Executed(w2, e) /\ \A j \in DOMAIN e.logs : e.logs[j] \in {l1, l2}
    BY <1>2, <1>3, <1>11
  <2> HIDE DEF e
  <2>2. \A j \in DOMAIN e.logs : Sound(e.logs[j])
    BY <1>6, <1>9, <2>1
  <2> QED
    BY <1>9, <2>1, <2>2, ExecutedEarns
<1>12. CASE to # None
  <2> DEFINE e == entry(<<l3, l4>>)
  <2>1. /\ pay <= w2.acct[owner].value
        /\ Has(view, to) \/ to \in User
        /\ Executed(w4, e) /\ \A j \in DOMAIN e.logs : e.logs[j] \in {l1, l2, l3, l4}
    BY <1>2, <1>3, <1>12 DEF Affordable
  <2> HIDE DEF e
  <2>2. w2.acct[owner] # None
    BY <1>8, <1>10
  <2>3. Going(w3) /\ w3 \in World /\ Sound(l3)
    BY <1>1, <1>8, <1>9, <2>1, <2>2, GoingDebit DEF Going, l3, w3
  <2>4. k \in Key /\ (w3.acct[k] # None \/ k \in User)
    <3>1. to \in Key
      BY <1>12, Ids DEF Registered
    <3>2. k \in Key
      BY <1>4, <2>1, <3>1, KeyOfType DEF k
    <3>3. view.acct[k] # None \/ k \in User
      BY <2>1, Ids DEF k, Has, KeyOf
    <3>4. w2.acct[k] # None => w3.acct[k] # None
      BY <1>1, <1>4, <1>8, <1>9, <2>1, <2>2, <3>2, StillThere DEF w3
    <3> QED
      BY <1>7, <1>10, <3>2, <3>3, <3>4
  <2>5. Going(w4) /\ Sound(l4)
    BY <1>1, <2>3, <2>4, GoingCredit DEF l4, w4
  <2>6. \A j \in DOMAIN e.logs : Sound(e.logs[j])
    BY <1>6, <1>9, <2>1, <2>3, <2>5
  <2> QED
    BY <2>1, <2>5, <2>6, ExecutedEarns
<1> QED
  BY <1>11, <1>12

(* Scripts do not matter. *)
LEMMA GoingSame ==
    ASSUME NEW w, Going(w), NEW w2 \in World, w2.acct = w.acct, w2.ids = w.ids
    PROVE  Going(w2)
BY DEF Going, Named, AtMost, Enrolled, Unique, Public, Paying, Aged, Brought, Left, Held

(* A new id, of a key that has none. *)
LEMMA GoingNamed ==
    ASSUME LedgerInv, NEW w, Going(w), NEW id \in Id, w.ids[id] = None, NEW k \in Key,
           \A i \in Id : w.ids[i] # k, k \in User => Held(w, k).pub, k \in Id => k = id,
           NEW w2 \in World, w2.acct = w.acct, w2.ids = [w.ids EXCEPT ![id] = k]
    PROVE  Going(w2)
<1>1. /\ w2.ids[id] = k /\ k # None
      /\ \A i \in Id : i # id => w2.ids[i] = w.ids[i]
  BY Ids DEF Going, World
<1>2. \A x : Held(w2, x) = Held(w, x)
  BY DEF Held
<1>3. Named(w2)
  <2>1. w.acct[id] = None
    BY Ids DEF Going, Named
  <2> QED
    BY <1>1, <2>1 DEF Going, Named
<1>4. Unique(w2)
  BY <1>1 DEF Going, Enrolled, Unique
<1>5. Public(w2)
  BY <1>1, <1>2 DEF Going, Enrolled, Public
<1>6. Paying(w2, chain)
  <2> SUFFICES ASSUME NEW m \in DOMAIN chain
               PROVE  /\ w2.ids[RewardOf(chain[m]).id] = RewardOf(chain[m]).user
                      /\ RewardOf(chain[m]).id[1] <= m
    BY DEF Paying
  <2>1. m \in 1..Len(chain)
    BY ChainTerms
  <2>2. RewardOf(chain[m]).id \in Id /\ RewardOf(chain[m]).user \in Key
    BY <2>1, RewardIds
  <2>3. /\ w.ids[RewardOf(chain[m]).id] = RewardOf(chain[m]).user
        /\ RewardOf(chain[m]).id[1] <= m
    BY DEF Going, Enrolled, Paying
  <2>4. RewardOf(chain[m]).id # id
    BY <2>2, <2>3, Ids
  <2> QED
    BY <1>1, <2>2, <2>3, <2>4
<1>7. AtMost(w2, Height) /\ Aged(w2)
  BY <1>2 DEF Going, AtMost, Aged, Brought, Left
<1> QED
  BY <1>3, <1>4, <1>5, <1>6, <1>7 DEF Going, Enrolled

(* The account of an app registered in this block. *)
LEMMA GoingNew ==
    ASSUME LedgerInv, NEW w, Going(w), NEW id \in Id, w.ids[id] = id, w.acct[id] = None,
           id[1] = Height,
           NEW a \in Account, a.value = 0, a.coin = 0, a.height = 0
    PROVE  Going(SetAccount(w, id, a))
<1> DEFINE w2 == SetAccount(w, id, a)
<1>1. Height \in Nat /\ Height # 0 /\ w \in World /\ id \in Key /\ id \notin User
  BY Heights, Ids DEF Going
<1>2. Writes(w, id, w2) /\ Held(w2, id) = a
  <2>1. Held(w, id).height <= Height => a.height <= Height
    BY <1>1
  <2> QED
    BY <1>1, <2>1, SetWrites
<1> HIDE DEF w2
<1>3. /\ w2 \in World /\ w2.ids = w.ids
      /\ \A x \in Key : x # id => w2.acct[x] = w.acct[x] /\ Held(w2, x) = Held(w, x)
  BY <1>2 DEF Writes, Held
<1>4. Named(w2) /\ AtMost(w2, Height)
  BY <1>2, WriteKeeps DEF Going
<1>5. Enrolled(w2, chain)
  <2>1. Public(w2)
    BY <1>1, <1>3, Ids DEF Going, Enrolled, Public
  <2> QED
    BY <1>3, <2>1 DEF Going, Enrolled, Unique, Paying
<1>6. ASSUME NEW x \in Key PROVE Brought(w2, x) \/ Left(w2, x)
  <2>1. Brought(w, x) \/ Left(w, x)
    BY DEF Going, Aged
  <2>2. CASE x # id
    BY <1>3, <2>1, <2>2 DEF Brought, Left
  <2>3. CASE x = id
    <3>1. Held(w, id) = NewAccount
      BY DEF Held
    <3>2. Held(w, id).value = 0 /\ Held(w, id).coin = 0 /\ Held(w, id).height = 0
      BY <3>1 DEF NewAccount
    <3>3. Left(w, id)
      BY <1>1, <2>1, <2>3, <3>2 DEF Brought
    <3> QED
      BY <1>2, <2>3, <3>2, <3>3 DEF Left, Fresh
  <2> QED
    BY <2>2, <2>3
<1> QED
  BY <1>3, <1>4, <1>5, <1>6 DEF Going, Aged, w2

LEMMA RegisterEarns ==
    ASSUME LedgerInv, HistoryInv, EarnedInv, mode = "connect", Len(block) < MaxTxs,
           NEW k \in User, NEW fee \in Fee, Register(k, fee)
    PROVE  EarnedInv'
<1> DEFINE old == view.acct[k]
           paid == IF fee > 0 THEN Minus(old, fee, Height) ELSE old
           a == [paid EXCEPT !.pub = TRUE, !.reg = NextId]
           w1 == SetAccount(view, k, a)
           w2 == [w1 EXCEPT !.ids[NextId] = k]
           l == LogOf(view, k)
           e == [type |-> "register", id |-> NextId, user |-> k, fee |-> fee,
                 fuel |-> 0, logs |-> <<l>>]
<1>1. /\ fee \in Nat /\ k \in Key /\ k \notin Id /\ view \in World /\ Height \in Nat
      /\ AtMost(view, Height) /\ Going(view)
  BY Numbers, Ids, Heights, ViewIsGoing DEF HistoryInv
<1>2. old # None /\ ~old.pub /\ fee <= old.value /\ Executed(w2, e)
  BY DEF Register, Affordable
<1>3. NextId \in Id /\ view.ids[NextId] = None
  BY NextIdIsFree
<1>4. old \in Account /\ Held(view, k) = old /\ old.height <= Height
  BY <1>1, <1>2, HeldType DEF Held, AtMost
<1>5. /\ paid \in Account
      /\ \/ paid.height = Height /\ paid.coin <= UpDateCoinDay(old, Height).coin
         \/ paid = old
  <2>1. fee > 0 => /\ paid \in Account /\ paid.height = Height
                   /\ paid.coin <= UpDateCoinDay(old, Height).coin
    BY <1>1, <1>2, <1>4, MinusType, CoinDaysOfOperations
  <2> QED
    BY <1>4, <2>1
<1>6. e.logs = <<l>>
  OBVIOUS
<1> HIDE DEF old, paid, e
<1>7. /\ a \in Account /\ a.pub = TRUE
      /\ a.value = paid.value /\ a.coin = paid.coin /\ a.height = paid.height
  BY <1>3, <1>5 DEF Account
<1> HIDE DEF a
<1>8. Going(w1) /\ Sound(l)
  <2>1. view.acct[k] # None
    BY <1>2 DEF old
  <2> QED
    BY <1>1, <1>4, <1>5, <1>7, <2>1, GoingSet, LogIsSound
<1>9. w1 \in World /\ w1.ids = view.ids /\ w1.acct[k] = a
  BY <1>1, <1>7, SetAccountType
<1> HIDE DEF w1, l
<1>10. w2 \in World /\ w2.acct = w1.acct /\ w2.ids = [w1.ids EXCEPT ![NextId] = k]
  BY <1>1, <1>3, <1>9, NewIdType
<1> HIDE DEF w2
<1>11. \A i \in Id : w1.ids[i] # k
  BY <1>1, <1>2, <1>4, <1>9 DEF Going, Enrolled, Public
<1>12. Held(w1, k).pub
  BY <1>7, <1>9, Ids DEF Held
<1>13. Going(w2)
  BY <1>1, <1>3, <1>8, <1>9, <1>10, <1>11, <1>12, GoingNamed
<1>14. \A j \in DOMAIN e.logs : Sound(e.logs[j])
  BY <1>6, <1>8
<1> QED
  BY <1>2, <1>13, <1>14, ExecutedEarns

LEMMA RegisterAppEarns ==
    ASSUME LedgerInv, HistoryInv, EarnedInv, mode = "connect", Len(block) < MaxTxs,
           NEW src \in Registered, NEW fee \in Fee, NEW fuel \in Fee,
           RegisterApp(src, fee, fuel)
    PROVE  EarnedInv'
<1> DEFINE from == view.ids[src]
           app == [NewAccount EXCEPT !.reg = NextId]
           w1 == SetAccount(view, NextId, app)
           w2 == Debit(w1, from, fee)
           w3 == [w2 EXCEPT !.ids[NextId] = NextId]
           w4 == [w2 EXCEPT !.ids[NextId] = NextId, !.scripts = @ \cup {NextId}]
           v1 == [view EXCEPT !.ids[NextId] = NextId]
           v2 == SetAccount(v1, NextId, app)
           v3 == Debit(v2, from, fee)
           l == LogOf(view, from)
           e == [type |-> "app", id |-> NextId, user |-> from, fee |-> fee,
                 fuel |-> fuel, logs |-> <<l>>]
<1>1. /\ fee \in Nat /\ fuel \in Nat /\ view \in World /\ Height \in Nat
      /\ Going(view)
  BY Numbers, Heights, ViewIsGoing
<1>2. MaySend(src, fee) /\ Executed(w4, e)
  BY DEF RegisterApp
<1>3. /\ NextId \in Id /\ NextId \in Key /\ NextId \notin User
      /\ view.acct[NextId] = None /\ view.ids[NextId] = None
  BY NextIdIsFree, Ids
<1>4. NextId[1] = Height
  <2>1. NextId = <<Len(chain) + 1, Len(block) + 1>>
    BY NextIdIsId
  <2> QED
    BY <2>1 DEF Height
<1>5. /\ from \in Key /\ view.acct[from] \in Account
      /\ fee <= view.acct[from].value
  BY <1>1, <1>2, SenderCanPay
<1>6. e.logs = <<l>>
  OBVIOUS
<1> HIDE DEF from, e
<1>7. from # NextId /\ view.acct[from] # None
  BY <1>3, <1>5, Ids
<1>8. app \in Account /\ app.value = 0 /\ app.coin = 0 /\ app.height = 0
  BY <1>3 DEF NewAccount, Account
<1> HIDE DEF app
<1>9. Sound(l)
  BY <1>1, <1>5, <1>7, LogIsSound
<1> HIDE DEF l
<1>10. v1 \in World /\ v1.acct = view.acct /\ v1.ids = [view.ids EXCEPT ![NextId] = NextId]
  BY <1>1, <1>3, NewIdType
<1> HIDE DEF v1
<1>11. Going(v1)
  <2>1. \A i \in Id : view.ids[i] # NextId
    BY <1>1, <1>3, Ids DEF Going, Named
  <2> QED
    BY <1>1, <1>3, <1>10, <2>1, GoingNamed
<1>12. v1.ids[NextId] = NextId /\ v1.acct[NextId] = None
  BY <1>1, <1>3, <1>10 DEF World
<1>13. Going(v2)
  BY <1>3, <1>4, <1>8, <1>11, <1>12, GoingNew
<1>14. /\ v2 \in World /\ v2.ids = v1.ids
       /\ v2.acct = [view.acct EXCEPT ![NextId] = app]
       /\ w1 \in World /\ w1.ids = view.ids
       /\ w1.acct = [view.acct EXCEPT ![NextId] = app]
  <2>1. v2.ids = v1.ids /\ v2.acct = [v1.acct EXCEPT ![NextId] = app]
    BY <1>10 DEF SetAccount, World
  <2>2. w1.acct = [view.acct EXCEPT ![NextId] = app]
    BY <1>1 DEF SetAccount, World
  <2> QED
    BY <1>1, <1>3, <1>8, <1>10, <2>1, <2>2, SetAccountType
<1> HIDE DEF v2, w1
<1>15. v2.acct[from] = view.acct[from] /\ w1.acct[from] = view.acct[from]
  BY <1>1, <1>5, <1>7, <1>14 DEF World
<1>16. Going(v3)
  BY <1>1, <1>5, <1>7, <1>13, <1>15, GoingDebit
<1>17. /\ v3.ids = v1.ids /\ w2.ids = view.ids
       /\ w2 \in World /\ v3.acct = w2.acct
  <2> DEFINE a == Minus(view.acct[from], fee, Height)
  <2>1. v3 = SetAccount(v2, from, a) /\ w2 = SetAccount(w1, from, a)
    BY <1>15 DEF Debit
  <2> HIDE DEF a
  <2>2. /\ v3.ids = v2.ids /\ w2.ids = w1.ids
        /\ v3.acct = [v2.acct EXCEPT ![from] = a] /\ w2.acct = [w1.acct EXCEPT ![from] = a]
    BY <1>14, <2>1 DEF SetAccount, World
  <2>3. w2 \in World
    BY <1>1, <1>5, <1>7, <1>14, <1>15, DebitType
  <2> QED
    BY <1>14, <2>2, <2>3
<1> HIDE DEF v3, w2
<1>18. w3 \in World /\ w3.acct = w2.acct /\ w3.ids = [view.ids EXCEPT ![NextId] = NextId]
  BY <1>3, <1>17, NewIdType
<1>19. w4 = [w3 EXCEPT !.scripts = @ \cup {NextId}]
  BY <1>17 DEF World
<1> HIDE DEF w3, w4
<1>20. w4 \in World /\ w4.acct = w3.acct /\ w4.ids = w3.ids
  BY <1>3, <1>18, <1>19 DEF World
<1>21. Going(w4)
  BY <1>10, <1>16, <1>17, <1>18, <1>20, GoingSame
<1>22. \A j \in DOMAIN e.logs : Sound(e.logs[j])
  BY <1>6, <1>9
<1> QED
  BY <1>2, <1>21, <1>22, ExecutedEarns

LEMMA RewardEarns ==
    ASSUME LedgerInv, HistoryInv, MoneyInv, EarnedInv, NEW miner \in Registered, Reward(miner)
    PROVE  EarnedInv'
<1> DEFINE k == view.ids[miner]
           a == ClearAccPos(view.acct[k], Height)
           w == SetAccount(view, k, a)
           l == LogOf(view, k)
           e == [type |-> "reward", id |-> miner, user |-> k,
                 fee |-> RewardValue(block), fuel |-> 0, logs |-> <<l>>]
           b == Append(block, e)
<1>1. /\ mode = "connect" /\ Has(view, miner)
      /\ view' = w /\ block' = b /\ mode' = "rewarded"
      /\ tip' = tip /\ chain' = chain /\ before' = before
  BY DEF Reward
<1>2. /\ miner \in Id /\ miner \in Key /\ view \in World /\ Height \in Nat
      /\ block \in Seq(GoodEntry) /\ RewardValue(block) \in Nat
      /\ view.ids[miner] # None
  BY Ids, Heights, RewardType DEF Registered, LedgerInv
<1>3. k \in Key /\ view.acct[k] \in Account /\ Held(view, k) = view.acct[k]
      /\ view.acct[k] # None
  <2>1. KeyOf(view, miner) = k
    BY <1>2 DEF KeyOf
  <2>2. k \in Key /\ view.acct[k] \in Account
    BY <1>1, <1>2, <2>1, KeyOfType
  <2> QED
    BY <2>2, Ids DEF Held
<1>4. e.fee = RewardValue(block) /\ e.fuel = 0 /\ e.logs = <<l>> /\ e.id = miner /\ e.user = k
  OBVIOUS
<1>5. miner[1] <= Height
  <2>1. FollowsWith(view.ids, chain, block)
    BY <1>1 DEF LedgerInv, Base
  <2>2. miner[1] \in 0..(Len(chain) + 1)
    BY <1>2, <2>1 DEF FollowsWith
  <2> QED
    BY <2>2 DEF Height
<1> HIDE DEF k, l, e
<1>6. /\ a \in Account /\ a.pub = Held(view, k).pub /\ a.height = Height /\ a.coin = 0
      /\ a.coin <= UpDateCoinDay(Held(view, k), Height).coin
  <2>1. 0 \in Nat /\ Held(view, k).height <= Height
    BY <1>1, <1>3 DEF HistoryInv, AtMost
  <2>2. a \in Account /\ SameRole(a, view.acct[k])
    BY <1>2, <1>3, ClearType
  <2>3. /\ a.height = Height /\ a.coin = 0
        /\ 0 <= UpDateCoinDay(view.acct[k], Height).coin
    BY <1>2, <1>3, <2>1, CoinDaysOfOperations
  <2> HIDE DEF a
  <2> QED
    BY <1>3, <2>2, <2>3 DEF SameRole
<1> HIDE DEF a
<1>7. Going(w) /\ Sound(l)
  BY <1>1, <1>3, <1>6, ViewIsGoing, GoingSet, LogIsSound DEF l
<1>8. w.acct[k] = a /\ w.ids = view.ids
  BY <1>2, <1>3, <1>6, SetAccountType
<1> HIDE DEF w
<1>9. e \in GoodEntry /\ e.type = "reward"
  BY <1>2, <1>3, LogOfType, RewardEntry DEF e, l
<1>10. ToSet(b) = ToSet(block) \cup {e}
  BY <1>2, <1>4, BlockAppended
<1> HIDE DEF b
<1>11. IsReward(b, e)
  BY <1>1, <1>9, <1>10 DEF IsReward, NoReward, MoneyInv
<1>12. Spent(w, b)
  <2>1. Held(w, k) = a
    BY <1>6, <1>8, Ids DEF Held
  <2>2. w.ids[e.id] = e.user
    BY <1>4, <1>8 DEF k
  <2> QED
    BY <1>2, <1>4, <1>5, <1>6, <1>9, <1>11, <2>1, <2>2 DEF Spent
<1>13. \A j \in DOMAIN e.logs : Sound(e.logs[j])
  BY <1>4, <1>7
<1> QED
  BY <1>1, <1>7, <1>12, <1>13, BlockGrows DEF b

-----------------------------------------------------------------------------
(* The chain grows or shrinks by one block.                                 *)

LEMMA ChainIsChain ==
    ASSUME LedgerInv
    PROVE  LET n == Len(chain)
               ws == Append(before, tip)
           IN /\ ChainOf(chain, ws, n)
              /\ \A i \in 1..n : ws[i] = before[i] /\ before[i] \in World
              /\ ws[n + 1] = tip
<1> DEFINE n == Len(chain)
           ws == Append(before, tip)
<1>1. /\ n \in Nat /\ DOMAIN chain = 1..n /\ DOMAIN before = 1..n
  BY ChainTerms
<1>2. before \in Seq(World) /\ Len(before) = n /\ tip \in World
  BY DEF LedgerInv, TypeOK
<1>3. /\ DOMAIN ws = 1..(n + 1) /\ ws[n + 1] = tip
      /\ \A i \in 1..n : ws[i] = before[i]
  BY <1>2, AppendedTo
<1>4. \A i \in 1..n : before[i] \in World
  BY <1>2, ElementOfSeq
<1>5. \A i \in 1..(n + 1) : ws[i] \in World
  <2>1. \A i \in 1..(n + 1) : i \in 1..n \/ i = n + 1
    BY <1>1
  <2> HIDE DEF n, ws
  <2> QED
    BY <1>2, <1>3, <1>4, <2>1
<1>6. \A i \in 1..n : RewardOf(chain[i]).fee \in Nat
  BY RewardIds
<1> QED
  BY <1>1, <1>3, <1>4, <1>5, <1>6 DEF ChainOf

(* What accounts had at the heights below. *)
LEMMA HeightsBelow ==
    ASSUME LedgerInv, HistoryInv, NEW i \in 1..(Len(chain) + 1), NEW k \in Key
    PROVE  LET a == Held(Append(before, tip)[i], k) IN
           a \in Account /\ a.height \in Nat /\ a.height <= i - 1
<1> DEFINE n == Len(chain)
           w == Append(before, tip)[i]
<1>1. /\ n \in Nat /\ \A j \in 1..n : Append(before, tip)[j] = before[j] /\ before[j] \in World
      /\ Append(before, tip)[n + 1] = tip /\ DOMAIN before = 1..n /\ tip \in World
  BY ChainIsChain, ChainTerms, Heights
<1>2. w \in World /\ AtMost(w, i - 1)
  <2>1. CASE i \in 1..n
    BY <1>1, <2>1 DEF HistoryInv
  <2>2. CASE i = n + 1
    <3>1. i - 1 = n
      BY <1>1, <2>2
    <3> QED
      BY <1>1, <2>2, <3>1 DEF HistoryInv
  <2> QED
    BY <1>1, <2>1, <2>2
<1> HIDE DEF w
<1>3. Held(w, k) \in Account
  BY <1>2, HeldType
<1> QED
  BY <1>2, <1>3 DEF AtMost, Account, w

(* Logs are good whatever comes above. *)
LEMMA GoodLogsPast ==
    ASSUME NEW c, NEW d, NEW i \in Nat, \A x \in 1..(i - 1) : c[x] = d[x],
           NEW b, GoodLogs(c, i, b)
    PROVE  GoodLogs(d, i, b)
<1>1. \A k : MadeBefore(c, k, i) = MadeBefore(d, k, i)
  BY DEF MadeBefore
<1> QED
  BY <1>1 DEF GoodLogs, Settled

(* What key k is paid when the reward of the block Maturity below matures. *)
DueTo(k) == IF Height > Maturity /\ RewardOf(chain[Height - Maturity]).user = k
            THEN RewardOf(chain[Height - Maturity]).fee ELSE 0
PaidTo(k, a, b) ==
    /\ b.value = a.value + DueTo(k) /\ b.coin = a.coin /\ b.height = a.height
    /\ b.pub = a.pub
AllPaid(w) ==
    \A k \in Key : /\ PaidTo(k, Held(view, k), Held(w, k))
                   /\ w.acct[k] # None => view.acct[k] # None

LEMMA CommitEarns ==
    ASSUME LedgerInv, HistoryInv, EarnedInv, mode = "rewarded",
           NEW w \in World, NEW b \in Seq(GoodEntry), Commit(w, b), w.ids = view.ids,
           AllPaid(w),
           Spent(view, b), GoodLogs(chain, Height, b)
    PROVE  EarnedInv'
<1> USE DEF AllPaid
<1> DEFINE n == Len(chain)
           c == chain
           d == Append(chain, b)
           ws == Append(before, tip)
           vs == Append(ws, w)
<1>1. /\ tip' = w /\ view' = w /\ chain' = d /\ before' = ws /\ mode' = "idle"
      /\ block' = <<>>
  BY DEF Commit
<1>2. PICK r \in GoodEntry :
          /\ IsReward(b, r) /\ r.id \in Id /\ r.id[1] <= Height
          /\ view.ids[r.id] = r.user
          /\ Held(view, r.user).coin = 0 /\ Held(view, r.user).height = Height
  BY DEF Spent
<1>3. RewardOf(b) = r
  BY <1>2, RewardIsOne
<1>4. /\ n \in Nat /\ Height = n + 1 /\ tip \in World /\ view \in World
      /\ chain \in Seq(Seq(GoodEntry)) /\ before \in Seq(World) /\ Len(before) = n
      /\ DOMAIN c = 1..n
  BY Heights, ChainTerms DEF LedgerInv, TypeOK
<1>5. /\ DOMAIN d = 1..(n + 1) /\ Len(d) = n + 1 /\ d[n + 1] = b
      /\ \A i \in 1..n : d[i] = c[i]
  BY <1>4, AppendedTo
<1>6. /\ DOMAIN vs = 1..((n + 1) + 1) /\ vs[(n + 1) + 1] = w
      /\ \A i \in 1..(n + 1) : vs[i] = ws[i]
      /\ ws[n + 1] = tip
  <2>1. ws \in Seq(World) /\ Len(ws) = n + 1 /\ ws[n + 1] = tip
    BY <1>4, AppendedTo
  <2> HIDE DEF ws
  <2> QED
    BY <1>4, <2>1, AppendedTo
<1>7. ChainOf(c, ws, n)
  BY ChainIsChain
<1> HIDE DEF d, ws, vs
<1>8. ChainOf(d, vs, n + 1)
  <2>1. \A i \in 1..(n + 1) : i \in 1..n \/ i = n + 1
    BY <1>4
  <2>2. \A i \in 1..((n + 1) + 1) : i \in 1..(n + 1) \/ i = (n + 1) + 1
    BY <1>4
  <2>3. \A i \in 1..((n + 1) + 1) : vs[i] \in World
    BY <1>6, <1>7, <2>2 DEF ChainOf
  <2>4. \A i \in 1..(n + 1) : RewardOf(d[i]).fee \in Nat
    <3>1. r.fee \in Nat
      BY DEF GoodEntry, Entry
    <3> QED
      BY <1>3, <1>5, <1>7, <2>1, <3>1 DEF ChainOf
  <2> QED
    BY <1>4, <1>5, <1>6, <2>3, <2>4 DEF ChainOf
<1>9. SamePast(c, ws, d, vs, n + 1)
  BY <1>4, <1>5, <1>6 DEF SamePast
<1>10. Enrolled(w, d)
  <2>1. Enrolled(view, c)
    BY DEF EarnedInv, Base
  <2>2. Public(w)
    <3> SUFFICES ASSUME NEW id \in Id, w.ids[id] \in User PROVE Held(w, w.ids[id]).pub
      BY DEF Public
    <3>1. Held(view, w.ids[id]).pub /\ w.ids[id] \in Key
      BY <2>1, Ids DEF Enrolled, Public
    <3> QED
      BY <3>1 DEF PaidTo
  <2>3. Paying(w, d)
    <3> SUFFICES ASSUME NEW m \in 1..(n + 1)
                 PROVE  /\ w.ids[RewardOf(d[m]).id] = RewardOf(d[m]).user
                        /\ RewardOf(d[m]).id[1] <= m
      BY <1>5 DEF Paying
    <3>1. CASE m \in 1..n
      BY <1>4, <1>5, <2>1, <3>1 DEF Enrolled, Paying
    <3>2. CASE m = n + 1
      BY <1>2, <1>3, <1>4, <1>5, <3>2
    <3> QED
      BY <1>4, <3>1, <3>2
  <2> QED
    BY <2>1, <2>2, <2>3 DEF Enrolled, Unique
<1>11. Level(w, d)
  <2> SUFFICES ASSUME NEW k \in Key, w.acct[k] # None,
                      NEW m \in MadeBefore(d, k, (n + 1) + 1)
               PROVE  m <= Held(w, k).height
    BY <1>5 DEF Level, Settled
  <2>1. m \in 1..(n + 1) /\ RewardOf(d[m]).user = k
    BY <1>4 DEF MadeBefore
  <2>2. Held(w, k).height = Held(view, k).height /\ view.acct[k] # None
    BY DEF PaidTo
  <2>3. CASE m \in 1..n
    <3>1. m \in MadeBefore(chain, k, Height)
      BY <1>4, <1>5, <2>1, <2>3 DEF MadeBefore
    <3>2. Sound(LogOf(view, k))
      BY <2>2, ViewIsGoing, LogIsSound
    <3> QED
      BY <2>2, <3>1, <3>2 DEF Sound, Settled, LogOf
  <2>4. CASE m = n + 1
    BY <1>2, <1>3, <1>4, <1>5, <2>1, <2>2, <2>4
  <2> QED
    BY <1>4, <2>1, <2>3, <2>4
<1>12. ASSUME NEW i \in 1..(n + 1) PROVE GoodLogs(d, i, d[i])
  <2>1. i \in Nat /\ (i \in 1..n \/ i = n + 1) /\ \A x \in 1..(i - 1) : x \in 1..n
    BY <1>4
  <2>2. \A x \in 1..(i - 1) : c[x] = d[x]
    BY <1>5, <2>1
  <2>3. GoodLogs(c, i, d[i])
    <3>1. i \in 1..n => GoodLogs(c, i, c[i])
      BY <1>4 DEF EarnedInv
    <3> QED
      BY <1>4, <1>5, <2>1, <3>1
  <2> QED
    BY <2>1, <2>2, <2>3, GoodLogsPast
<1>13. ASSUME NEW i \in 1..((n + 1) + 1) PROVE Earned(d, vs, i)
  <2> SUFFICES ASSUME NEW k \in Key PROVE EarnedAt(d, vs, i, k, Held(vs[i], k))
    BY DEF Earned
  <2>1. CASE i \in 1..(n + 1)
    <3>1. EarnedAt(c, ws, i, k, Held(ws[i], k))
      BY <2>1 DEF EarnedInv, Earned, ws
    <3> DEFINE a == Held(ws[i], k)
    <3>2. a.height \in Nat /\ a.height <= i - 1
      BY <2>1, HeightsBelow DEF ws
    <3>3. vs[i] = ws[i]
      BY <1>6, <2>1
    <3>4. SamePast(c, ws, d, vs, i)
      <4>1. \A x \in 1..(i - 1) : x \in 1..((n + 1) - 1)
        BY <1>4, <2>1
      <4> QED
        BY <1>9, <4>1 DEF SamePast
    <3> HIDE DEF a
    <3>5. EarnedAt(d, vs, i, k, a)
      BY <1>4, <1>7, <1>8, <2>1, <3>1, <3>2, <3>4, EarnedInPast DEF a
    <3> QED
      BY <3>3, <3>5 DEF a
  <2>2. CASE i = (n + 1) + 1
    <3> DEFINE a == Held(tip, k)
               x == Held(w, k)
               y == Held(view, k)
               paid == DueTo(k)
    <3>1. n + 1 \in 1..(n + 1) /\ (n + 1) - 1 = n /\ (n + 1) + 1 = n + 2
      BY <1>4
    <3>2. EarnedAt(c, ws, n + 1, k, a)
      BY <1>6, <3>1 DEF EarnedInv, Earned, ws
    <3>3. a.height <= n
      BY <1>4 DEF HistoryInv, AtMost
    <3>4. a.value = 0 \/ Settled(c, k, n + 1, a.height)
      BY DEF EarnedInv, Level, Held, NewAccount
    <3>5. IF n + 1 > Maturity /\ RewardOf(c[n + 1 - Maturity]).user = k
          THEN paid = RewardOf(c[n + 1 - Maturity]).fee ELSE paid = 0
      <4>1. Height = n + 1
        BY <1>4
      <4>2. paid = IF Height > Maturity /\ RewardOf(c[Height - Maturity]).user = k
                   THEN RewardOf(c[Height - Maturity]).fee ELSE 0
        BY DEF DueTo
      <4> DEFINE Due(h) == IF h > Maturity /\ RewardOf(c[h - Maturity]).user = k
                           THEN paid = RewardOf(c[h - Maturity]).fee ELSE paid = 0
      <4>3. Due(Height)
        BY <4>2
      <4> HIDE DEF Due
      <4>4. Due(n + 1)
        BY <4>1, <4>3
      <4>5. (n + 1) - Maturity = n + 1 - Maturity
        BY <1>4, Numbers
      <4> QED
        BY <4>4, <4>5 DEF Due
    <3>6. paid \in Nat
      <4>1. n + 1 > Maturity => n + 1 - Maturity \in 1..n
        BY <1>4, Numbers
      <4> QED
        BY <1>7, <3>5, <4>1 DEF ChainOf
    <3>7. x.value = y.value + paid /\ x.coin = y.coin /\ x.height = y.height
      BY DEF PaidTo
    <3>8. x \in Account
      BY HeldType
    <3>9. \/ RewardOf(d[n + 1]).user = k /\ x.coin = 0 /\ x.height = n + 1
          \/ /\ RewardOf(d[n + 1]).user # k
             /\ \/ x.height = n + 1 /\ x.coin <= UpDateCoinDay(a, n + 1).coin
                \/ x.coin = a.coin /\ x.height = a.height /\ x.value = a.value + paid
      <4>1. RewardOf(d[n + 1]) = r
        BY <1>3, <1>5
      <4>2. CASE r.user = k
        BY <1>2, <1>4, <3>7, <4>1, <4>2
      <4>3. CASE r.user # k
        <5>1. Brought(view, k) \/ Left(view, k)
          BY DEF EarnedInv, Aged
        <5>2. Brought(view, k)
                 => x.height = n + 1 /\ x.coin <= UpDateCoinDay(a, n + 1).coin
          BY <1>4, <3>7 DEF Brought
        <5>3. Left(view, k)
                 => x.coin = a.coin /\ x.height = a.height /\ x.value = a.value + paid
          BY <3>7 DEF Left
        <5> HIDE DEF a, x, y, paid
        <5> QED
          BY <4>1, <4>3, <5>1, <5>2, <5>3
      <4> QED
        BY <4>2, <4>3
    <3>10. vs[n + 1] = ws[n + 1] /\ a = Held(ws[n + 1], k) /\ vs[i] = w
      BY <1>6, <2>2, <3>1
    <3> HIDE DEF a, x, y, paid
    <3>11. EarnedAt(d, vs, n + 2, k, x)
      BY <1>7, <1>8, <1>9, <3>2, <3>3, <3>4, <3>5, <3>6, <3>8, <3>9, <3>10, EarnedNext
    <3> QED
      BY <2>2, <3>1, <3>10, <3>11 DEF x
  <2> QED
    BY <1>4, <2>1, <2>2
<1> QED
  BY <1>1, <1>5, <1>10, <1>11, <1>12, <1>13 DEF EarnedInv, Base, vs

LEMMA EarlyEarns ==
    ASSUME LedgerInv, HistoryInv, EarnedInv, ConnectEarly
    PROVE  EarnedInv'
<1>1. mode = "rewarded" /\ Height <= Maturity /\ Commit(view, block)
  BY DEF ConnectEarly
<1>2. /\ view \in World /\ block \in Seq(GoodEntry) /\ Height \in Nat
      /\ Height = Len(chain) + 1
  BY Heights DEF LedgerInv
<1>3. Spent(view, block) /\ GoodLogs(chain, Height, block)
  BY <1>1, <1>2 DEF EarnedInv, Base
<1>4. ~(Height > Maturity)
  BY <1>1, <1>2, Numbers
<1>5. ASSUME NEW k \in Key
      PROVE  /\ PaidTo(k, Held(view, k), Held(view, k))
             /\ view.acct[k] # None => view.acct[k] # None
  <2>1. DueTo(k) = 0
    BY <1>4 DEF DueTo
  <2>2. Held(view, k).value \in Nat
    BY <1>2, HeldType DEF Account
  <2>3. Held(view, k).value = Held(view, k).value + 0
    BY <2>2
  <2> QED
    BY <2>1, <2>3 DEF PaidTo
<1>6. AllPaid(view) /\ view.ids = view.ids
  BY <1>5 DEF AllPaid
<1> QED
  BY <1>1, <1>2, <1>3, <1>6, CommitEarns

LEMMA MatureEarns ==
    ASSUME LedgerInv, HistoryInv, EarnedInv, ConnectMature
    PROVE  EarnedInv'
<1> DEFINE due == RewardOf(chain[Height - Maturity])
           k == view.ids[due.id]
           a == [view.acct[k] EXCEPT !.value = view.acct[k].value + due.fee]
           w == SetAccount(view, k, a)
           l == LogOf(view, k)
           e == [type |-> "mature", id |-> due.id, user |-> k,
                 fee |-> due.fee, fuel |-> 0, logs |-> <<l>>]
           b == Append(block, e)
<1>1. /\ mode = "rewarded" /\ Height > Maturity /\ Has(view, due.id)
      /\ Commit(w, b)
  BY DEF ConnectMature
<1>2. /\ view \in World /\ block \in Seq(GoodEntry) /\ Height \in Nat
      /\ Height = Len(chain) + 1 /\ Going(view) /\ Base = chain
  BY <1>1, Heights, ViewIsGoing DEF LedgerInv
<1>3. due \in GoodEntry /\ due.type = "reward"
  BY <1>1, RewardIsDue
<1>4. e.fee = due.fee /\ e.logs = <<l>> /\ e.fuel = 0
  OBVIOUS
<1>5. due.id \in Id /\ due.id \in Key /\ due.fee \in Nat
  BY <1>3, Ids DEF GoodEntry, Entry
<1>6. Height - Maturity \in DOMAIN chain
  <2>1. Len(chain) \in Nat /\ Maturity \in Nat \ {0} /\ DOMAIN chain = 1..Len(chain)
    BY ChainTerms, Numbers
  <2>2. \A h, m, n \in Nat : h > m /\ h = n + 1 /\ m # 0 => h - m \in 1..n
    OBVIOUS
  <2> QED
    BY <1>1, <1>2, <2>1, <2>2
<1>7. k = due.user
  BY <1>2, <1>6 DEF Going, Enrolled, Paying
<1>8. \A x : DueTo(x) = IF due.user = x THEN due.fee ELSE 0
  BY <1>1 DEF DueTo
<1> HIDE DEF due
<1>9. k \in Key /\ view.acct[k] \in Account /\ view.acct[k] # None
      /\ Held(view, k) = view.acct[k]
  <2>1. KeyOf(view, due.id) = k
    BY <1>5 DEF KeyOf
  <2>2. k \in Key /\ view.acct[k] \in Account
    BY <1>1, <1>2, <1>5, <2>1, KeyOfType
  <2> QED
    BY <2>2, Ids DEF Held
<1> HIDE DEF k, l, e
<1>10. a \in Account /\ PaidTo(k, Held(view, k), a)
  <2> DEFINE old == view.acct[k]
  <2>1. old \in Account /\ old.value + due.fee \in Nat /\ Held(view, k) = old
    BY <1>5, <1>9 DEF Account
  <2>2. a = [old EXCEPT !.value = old.value + due.fee]
    OBVIOUS
  <2>3. DueTo(k) = due.fee
    BY <1>7, <1>8
  <2> HIDE DEF a, old
  <2>4. a \in Account /\ a.value = old.value + due.fee /\ a.coin = old.coin
        /\ a.height = old.height /\ a.pub = old.pub
    BY <2>1, <2>2 DEF Account
  <2> QED
    BY <2>1, <2>3, <2>4 DEF PaidTo
<1> HIDE DEF a
<1>11. /\ w \in World /\ w.acct[k] = a /\ w.ids = view.ids
       /\ \A x \in Key : x # k => w.acct[x] = view.acct[x]
  BY <1>2, <1>9, <1>10, SetAccountType
<1> HIDE DEF w
<1>12. Held(w, k) = a
  BY <1>10, <1>11, Ids DEF Held
<1>13. ASSUME NEW x \in Key
       PROVE  /\ PaidTo(x, Held(view, x), Held(w, x))
              /\ w.acct[x] # None => view.acct[x] # None
  <2>1. CASE x = k
    BY <1>9, <1>10, <1>12, <2>1
  <2>2. CASE x # k
    <3>1. DueTo(x) = 0
      BY <1>7, <1>8, <2>2
    <3>2. Held(view, x).value \in Nat /\ Held(w, x) = Held(view, x)
      BY <1>2, <1>11, <2>2, HeldType DEF Account, Held
    <3>3. Held(view, x).value = Held(view, x).value + 0
      BY <3>2
    <3> QED
      BY <1>11, <2>2, <3>1, <3>2, <3>3 DEF PaidTo
  <2> QED
    BY <2>1, <2>2
<1>14. e \in GoodEntry /\ e.type = "mature"
  BY <1>2, <1>5, <1>9, LogOfType, RewardEntry DEF e, l
<1>15. b \in Seq(GoodEntry) /\ ToSet(b) = ToSet(block) \cup {e}
  <2>1. e.fee \in Nat /\ e.fuel \in Nat
    BY <1>4, <1>5
  <2> QED
    BY <1>2, <1>14, <2>1, AppendedTo, BlockAppended
<1>16. Spent(view, b)
  <2>1. PICK r \in GoodEntry :
            /\ IsReward(block, r) /\ r.id \in Id /\ r.id[1] <= Height
            /\ view.ids[r.id] = r.user
            /\ Held(view, r.user).coin = 0 /\ Held(view, r.user).height = Height
    BY <1>1 DEF EarnedInv, Spent
  <2>2. IsReward(b, r)
    BY <1>14, <1>15, <2>1 DEF IsReward
  <2> QED
    BY <2>1, <2>2 DEF Spent
<1>17. GoodLogs(chain, Height, b)
  <2>1. GoodLogs(chain, Height, block)
    BY <1>1, <1>2 DEF EarnedInv
  <2>2. Sound(l)
    BY <1>2, <1>9, LogIsSound DEF l
  <2>3. \A j \in DOMAIN e.logs : e.logs[j] = l
    BY <1>4
  <2>4. \A j \in DOMAIN e.logs : Settled(chain, e.logs[j].key, Height, e.logs[j].height)
    BY <2>2, <2>3 DEF Sound
  <2> QED
    BY <1>2, <2>1, <2>4, MoreGoodLogs
<1> HIDE DEF b
<1>18. AllPaid(w)
  BY <1>13 DEF AllPaid
<1> QED
  BY <1>1, <1>11, <1>18, <1>15, <1>16, <1>17, CommitEarns

LEMMA BeginConnectEarns ==
    ASSUME LedgerInv, EarnedInv, BeginConnect
    PROVE  EarnedInv'
<1>1. /\ mode = "idle" /\ mode' = "connect" /\ view = tip /\ block = <<>>
      /\ tip' = tip /\ chain' = chain /\ before' = before /\ view' = view /\ block' = block
  BY DEF BeginConnect, LedgerInv, Stages
<1>2. Base = chain /\ Base' = chain
  BY <1>1 DEF Base
<1>3. Aged(view)'
  BY <1>1 DEF Aged, Left
<1>4. GoodLogs(chain, Len(chain) + 1, <<>>)
  BY DEF GoodLogs
<1> QED
  BY <1>1, <1>2, <1>3, <1>4 DEF EarnedInv

LEMMA DropEarns ==
    ASSUME EarnedInv, Drop
    PROVE  EarnedInv'
<1>1. /\ mode' = "idle" /\ view' = tip
      /\ tip' = tip /\ chain' = chain /\ before' = before
  BY DEF Drop
<1>2. Base' = chain
  BY <1>1 DEF Base
<1> QED
  BY <1>1, <1>2 DEF EarnedInv

-----------------------------------------------------------------------------
(* Coin days are earned: disconnecting a block.                             *)

(* The chain below its last block. *)
LEMMA BelowLast ==
    ASSUME LedgerInv, chain # <<>>
    PROVE  LET n == Len(chain)
               c == Front(chain)
           IN /\ n \in Nat \ {0} /\ n - 1 \in Nat
              /\ Len(c) = n - 1 /\ DOMAIN c = 1..(n - 1) /\ DOMAIN chain = 1..n
              /\ \A i \in 1..(n - 1) : c[i] = chain[i] /\ i \in 1..n
              /\ Last(chain) = chain[n]
              /\ \A k, i : i \in 1..n => MadeBefore(c, k, i) = MadeBefore(chain, k, i)
              /\ \A w : Paying(w, chain) => Paying(w, c)
<1> DEFINE n == Len(chain)
           c == Front(chain)
<1>1. /\ n \in Nat \ {0} /\ Len(c) = n - 1 /\ DOMAIN c = 1..(n - 1) /\ DOMAIN chain = 1..n
      /\ \A i \in 1..(n - 1) : c[i] = chain[i]
      /\ Last(chain) = chain[n]
  BY FrontAndLast DEF LedgerInv
<1> HIDE DEF n, c
<1>2. n - 1 \in Nat /\ \A i \in 1..(n - 1) : i \in 1..n
  BY <1>1
<1>3. ASSUME NEW k, NEW i \in 1..n PROVE MadeBefore(c, k, i) = MadeBefore(chain, k, i)
  <2>1. \A m \in 1..(i - 1) : m \in 1..(n - 1)
    BY <1>1
  <2> QED
    BY <1>1, <2>1 DEF MadeBefore
<1>4. ASSUME NEW w, Paying(w, chain) PROVE Paying(w, c)
  BY <1>1, <1>2, <1>4 DEF Paying
<1> QED
  BY <1>1, <1>2, <1>3, <1>4 DEF n, c

LEMMA BeginUndoEarns ==
    ASSUME LedgerInv, EarnedInv, BeginUndo
    PROVE  EarnedInv'
<1> DEFINE n == Len(chain)
           c == Front(chain)
<1>1. /\ mode = "idle" /\ chain # <<>> /\ mode' = "undo" /\ block' = Last(chain)
      /\ tip' = tip /\ chain' = chain /\ before' = before /\ view' = view
      /\ view = tip
  BY DEF BeginUndo, LedgerInv, Stages
<1>2. /\ n \in Nat \ {0} /\ n - 1 \in Nat /\ (n - 1) + 1 = n /\ n \in 1..n
      /\ Len(c) = n - 1 /\ DOMAIN chain = 1..n /\ Last(chain) = chain[n]
      /\ \A k, i : i \in 1..n => MadeBefore(c, k, i) = MadeBefore(chain, k, i)
      /\ Paying(tip, chain) => Paying(tip, c)
  BY <1>1, BelowLast
<1>3. Base' = c
  BY <1>1 DEF Base
<1> HIDE DEF n, c
<1>4. Enrolled(tip, c)
  BY <1>2 DEF EarnedInv, Enrolled
<1>5. Level(tip, c)
  <2> SUFFICES ASSUME NEW k \in Key, tip.acct[k] # None, NEW m \in MadeBefore(chain, k, n)
               PROVE  m <= Held(tip, k).height
    BY <1>2 DEF Level, Settled
  <2>1. m \in MadeBefore(chain, k, n + 1)
    BY <1>2 DEF MadeBefore
  <2> QED
    BY <2>1 DEF EarnedInv, Level, Settled, n
<1>6. GoodLogs(c, n, Last(chain))
  <2>1. GoodLogs(chain, n, Last(chain))
    BY <1>2 DEF EarnedInv
  <2> QED
    BY <1>2, <2>1 DEF GoodLogs, Settled
<1> QED
  BY <1>1, <1>2, <1>3, <1>4, <1>5, <1>6 DEF EarnedInv

(* One account is written, or erased. *)
LEMMA UndoSet ==
    ASSUME NEW w, NEW c, Enrolled(w, c), Level(w, c), NEW k \in Key, NEW w2,
           w2.ids = w.ids, \A x \in Key : x # k => w2.acct[x] = w.acct[x],
           \A id \in Id : w.ids[id] = k /\ k \in User => Held(w2, k).pub,
           w2.acct[k] # None => Settled(c, k, Len(c) + 1, Held(w2, k).height)
    PROVE  Enrolled(w2, c) /\ Level(w2, c)
<1>1. \A x \in Key : x # k => Held(w2, x) = Held(w, x)
  BY DEF Held
<1>2. Public(w2)
  <2> SUFFICES ASSUME NEW id \in Id, w2.ids[id] \in User PROVE Held(w2, w2.ids[id]).pub
    BY DEF Public
  <2>1. w2.ids[id] \in Key /\ Held(w, w2.ids[id]).pub
    BY Ids DEF Enrolled, Public
  <2> QED
    BY <1>1, <2>1
<1>3. Level(w2, c)
  BY <1>1 DEF Level
<1> QED
  BY <1>2, <1>3 DEF Enrolled, Unique, Paying

Unnamed(w, k) == \A id \in Id : w.ids[id] # k

(* An id that no block below has is erased: nobody has the key it named. *)
LEMMA UndoName ==
    ASSUME NEW w \in World, NEW c, Enrolled(w, c), Level(w, c), NEW id \in Id,
           \A m \in DOMAIN c : RewardOf(c[m]).id \in Id /\ m \in Nat /\ ~(id[1] <= m),
           NEW w2, w2.acct = w.acct, w2.ids = [w.ids EXCEPT ![id] = None]
    PROVE  /\ Enrolled(w2, c) /\ Level(w2, c)
           /\ w.ids[id] # None => Unnamed(w2, w.ids[id])
<1>1. /\ w2.ids[id] = None /\ None \notin User
      /\ \A i \in Id : i # id => w2.ids[i] = w.ids[i]
  BY Ids DEF World
<1>2. \A x : Held(w2, x) = Held(w, x)
  BY DEF Held
<1>3. Unique(w2) /\ Public(w2)
  BY <1>1, <1>2 DEF Enrolled, Unique, Public
<1>4. Paying(w2, c)
  <2> SUFFICES ASSUME NEW m \in DOMAIN c
               PROVE  /\ w2.ids[RewardOf(c[m]).id] = RewardOf(c[m]).user
                      /\ RewardOf(c[m]).id[1] <= m
    BY DEF Paying
  <2>1. /\ w.ids[RewardOf(c[m]).id] = RewardOf(c[m]).user
        /\ RewardOf(c[m]).id[1] <= m /\ RewardOf(c[m]).id \in Id
    BY DEF Enrolled, Paying
  <2>2. RewardOf(c[m]).id # id
    BY <2>1
  <2> QED
    BY <1>1, <2>1, <2>2
<1>5. Level(w2, c)
  BY <1>2 DEF Level
<1>6. w.ids[id] # None => Unnamed(w2, w.ids[id])
  BY <1>1 DEF Enrolled, Unique, Unnamed
<1> QED
  BY <1>3, <1>4, <1>5, <1>6 DEF Enrolled

LEMMA UndoBase ==
    ASSUME LedgerInv, mode = "undo"
    PROVE  /\ Base = Front(chain) /\ Base \in Seq(Seq(GoodEntry))
           /\ Len(Base) \in Nat /\ DOMAIN Base = 1..Len(Base)
           /\ \A m \in DOMAIN Base : RewardOf(Base[m]).id \in Id
<1>1. Base = Front(chain) /\ chain # <<>> /\ chain \in Seq(Seq(GoodEntry))
  BY DEF Base, LedgerInv, Stages
<1>2. Base \in Seq(Seq(GoodEntry)) /\ Len(Base) \in Nat /\ DOMAIN Base = 1..Len(Base)
  BY <1>1, FrontAndLast, LenProperties
<1>3. ASSUME NEW m \in DOMAIN Base PROVE RewardOf(Base[m]).id \in Id
  <2>1. /\ DOMAIN Front(chain) = 1..(Len(chain) - 1)
        /\ \A i \in 1..(Len(chain) - 1) : Front(chain)[i] = chain[i] /\ i \in 1..Len(chain)
    BY <1>1, BelowLast
  <2>2. Base[m] = chain[m] /\ m \in 1..Len(chain)
    BY <1>1, <2>1
  <2> QED
    BY <2>2, RewardIds
<1> QED
  BY <1>1, <1>2, <1>3

LEMMA UndoneEarns ==
    ASSUME EarnedInv, mode = "undo", NEW w, NEW b,
           view' = w, block' = b, tip' = tip, chain' = chain, before' = before, mode' = mode,
           Enrolled(w, Base), Level(w, Base), GoodLogs(Base, Len(Base) + 1, b)
    PROVE  EarnedInv'
<1>1. Base' = Base
  BY DEF Base
<1>2. mode' = "undo"
  OBVIOUS
<1> QED
  BY <1>1, <1>2 DEF EarnedInv

(* The last transaction, or its last log, leaves the block. *)
LEMMA FewerLogs ==
    ASSUME NEW c, NEW i, NEW b \in Seq(GoodEntry), b # <<>>, GoodLogs(c, i, b)
    PROVE  /\ GoodLogs(c, i, Front(b))
           /\ \A j \in DOMAIN Last(b).logs :
                 Settled(c, Last(b).logs[j].key, i, Last(b).logs[j].height)
           /\ GoodLogs(c, i, [b EXCEPT ![Len(b)].logs = Front(@)])
<1> DEFINE n == Len(b)
           e == Last(b)
           s == Front(b)
           e2 == [e EXCEPT !.logs = Front(e.logs)]
           t == [b EXCEPT ![n].logs = Front(@)]
<1>1. /\ n \in Nat \ {0} /\ DOMAIN b = 1..n /\ b[n] = e /\ e \in GoodEntry
      /\ DOMAIN s = 1..(n - 1) /\ \A m \in 1..(n - 1) : s[m] = b[m] /\ m \in 1..n
      /\ n \in 1..n
  <2>1. /\ n \in Nat \ {0} /\ DOMAIN b = 1..n /\ b[n] = e /\ e \in GoodEntry
        /\ DOMAIN s = 1..(n - 1) /\ \A m \in 1..(n - 1) : s[m] = b[m]
    BY FrontAndLast
  <2> HIDE DEF n, e, s
  <2> QED
    BY <2>1
<1>2. DOMAIN t = 1..n /\ t[n] = e2 /\ \A m \in 1..n : m # n => t[m] = b[m]
  BY <1>1
<1>3. /\ DOMAIN e2.logs \subseteq DOMAIN e.logs
      /\ \A j \in DOMAIN e2.logs : e2.logs[j] = e.logs[j]
  <2> HIDE DEF e
  <2>1. e2.logs = Front(e.logs) /\ e.logs \in Seq(Log) /\ e.logs # <<>>
    BY <1>1 DEF GoodEntry, Entry
  <2> DEFINE q == Len(e.logs)
  <2>2. /\ q \in Nat \ {0} /\ DOMAIN e.logs = 1..q /\ DOMAIN Front(e.logs) = 1..(q - 1)
        /\ \A j \in 1..(q - 1) : Front(e.logs)[j] = e.logs[j]
    BY <2>1, FrontAndLast
  <2> HIDE DEF q, e2
  <2>3. \A j \in 1..(q - 1) : j \in 1..q
    BY <2>2
  <2> QED
    BY <2>1, <2>2, <2>3
<1> HIDE DEF n, e, s, e2, t
<1>4. \A j \in DOMAIN e.logs : Settled(c, e.logs[j].key, i, e.logs[j].height)
  BY <1>1 DEF GoodLogs
<1>5. GoodLogs(c, i, s)
  BY <1>1 DEF GoodLogs
<1>6. GoodLogs(c, i, t)
  <2> SUFFICES ASSUME NEW m \in 1..n, NEW j \in DOMAIN t[m].logs
               PROVE  Settled(c, t[m].logs[j].key, i, t[m].logs[j].height)
    BY <1>2 DEF GoodLogs
  <2>1. CASE m = n
    BY <1>2, <1>3, <1>4, <2>1
  <2>2. CASE m # n
    BY <1>1, <1>2, <2>2 DEF GoodLogs
  <2> QED
    BY <2>1, <2>2
<1> QED
  BY <1>4, <1>5, <1>6 DEF n, e, s, t

LEMMA UndoLogEarns ==
    ASSUME LedgerInv, EarnedInv, UndoLog
    PROVE  EarnedInv'
<1> DEFINE e == Last(block)
           l == Last(e.logs)
           k == l.key
           old == UndoOperateAccount(view.acct[k], l)
           w == IF e.type = "common" /\ Bare(old)
                THEN EraseAccount(view, k) ELSE SetAccount(view, k, old)
           shorter == [block EXCEPT ![Len(block)].logs = Front(@)]
           c == Base
           h == Len(Base) + 1
<1>1. /\ mode = "undo" /\ block # <<>> /\ view.acct[k] # None
      /\ \/ view' = w /\ block' = Front(block)
         \/ view' = w /\ block' = shorter
      /\ tip' = tip /\ chain' = chain /\ before' = before /\ mode' = mode
  BY DEF UndoLog, Undoing, Undone
<1>2. /\ view \in World /\ block \in Seq(GoodEntry)
      /\ Enrolled(view, c) /\ Level(view, c) /\ GoodLogs(c, h, block)
  BY <1>1, Heights DEF LedgerInv, EarnedInv
<1>3. /\ GoodLogs(c, h, Front(block)) /\ GoodLogs(c, h, shorter)
      /\ \A j \in DOMAIN e.logs : Settled(c, e.logs[j].key, h, e.logs[j].height)
  BY <1>1, <1>2, FewerLogs
<1>4. /\ l \in Log /\ k \in Key /\ Settled(c, k, h, l.height)
  <2>1. e \in GoodEntry
    BY <1>1, <1>2, FrontAndLast
  <2>2. e.logs \in Seq(Log) /\ e.logs # <<>>
    BY <2>1 DEF GoodEntry, Entry
  <2>3. l \in Log /\ l = e.logs[Len(e.logs)] /\ Len(e.logs) \in DOMAIN e.logs
    BY <2>2, FrontAndLast
  <2> HIDE DEF l
  <2> QED
    BY <1>3, <2>3 DEF Log
<1> HIDE DEF e, l, shorter, c, h
<1>5. /\ old \in Account /\ old.height = l.height /\ old.pub = Held(view, k).pub
  <2>1. view.acct[k] \in Account /\ Held(view, k) = view.acct[k]
    BY <1>1, <1>2, <1>4, HeldType DEF Held
  <2> HIDE DEF k
  <2> QED
    BY <1>4, <2>1 DEF UndoOperateAccount, Account, Log
<1> HIDE DEF k, old
<1>6. \A id \in Id : view.ids[id] = k /\ k \in User => old.pub
  BY <1>2, <1>5 DEF Enrolled, Public
<1>7. Enrolled(w, c) /\ Level(w, c)
  <2>1. CASE e.type = "common" /\ Bare(old)
    <3>1. w = EraseAccount(view, k) /\ ~old.pub
      BY <2>1 DEF Bare
    <3> HIDE DEF w
    <3>2. /\ w.ids = view.ids /\ w.acct[k] = None
          /\ \A x \in Key : x # k => w.acct[x] = view.acct[x]
      BY <1>2, <1>4, <3>1, EraseAccountType
    <3>3. \A id \in Id : view.ids[id] = k /\ k \in User => Held(w, k).pub
      BY <1>6, <3>1
    <3> QED
      BY <1>2, <1>4, <3>2, <3>3, UndoSet DEF h
  <2>2. CASE ~(e.type = "common" /\ Bare(old))
    <3>1. w = SetAccount(view, k, old)
      BY <2>2
    <3> HIDE DEF w
    <3>2. /\ w.ids = view.ids /\ w.acct[k] = old
          /\ \A x \in Key : x # k => w.acct[x] = view.acct[x]
      BY <1>2, <1>4, <1>5, <3>1, SetAccountType
    <3>3. Held(w, k) = old
      BY <1>5, <3>2, Ids DEF Held
    <3>4. /\ \A id \in Id : view.ids[id] = k /\ k \in User => Held(w, k).pub
          /\ w.acct[k] # None => Settled(c, k, Len(c) + 1, Held(w, k).height)
      BY <1>4, <1>5, <1>6, <3>3 DEF c, h
    <3> QED
      BY <1>2, <1>4, <3>2, <3>4, UndoSet
  <2> QED
    BY <2>1, <2>2
<1> HIDE DEF w
<1> QED
  BY <1>1, <1>3, <1>7, UndoneEarns DEF c, h

LEMMA UndoRegisterEarns ==
    ASSUME LedgerInv, EarnedInv, UndoRegister
    PROVE  EarnedInv'
<1> DEFINE e == Last(block)
           k == view.ids[e.id]
           l == e.logs[1]
           old == IF e.fee > 0 THEN UndoOperateAccount(view.acct[k], l) ELSE view.acct[k]
           bare == [old EXCEPT !.pub = FALSE]
           w == IF old.value = 0 THEN EraseAccount(view, k) ELSE SetAccount(view, k, bare)
           w2 == [w EXCEPT !.ids[e.id] = None]
           v == [view EXCEPT !.ids[e.id] = None]
           c == Base
           h == Len(Base) + 1
<1>1. /\ mode = "undo" /\ block # <<>> /\ e.type = "register" /\ Has(view, e.id)
      /\ view' = w2 /\ block' = Front(block)
      /\ tip' = tip /\ chain' = chain /\ before' = before /\ mode' = mode
  BY DEF UndoRegister, Undoing, Undone
<1>2. /\ view \in World /\ block \in Seq(GoodEntry)
      /\ Enrolled(view, c) /\ Level(view, c) /\ GoodLogs(c, h, block)
      /\ FollowsWith(view.ids, c, block)
  BY <1>1, Heights DEF LedgerInv, EarnedInv
<1>3. /\ c \in Seq(Seq(GoodEntry)) /\ Len(c) \in Nat /\ DOMAIN c = 1..Len(c)
      /\ \A m \in DOMAIN c : RewardOf(c[m]).id \in Id
  BY <1>1, UndoBase
<1>4. /\ GoodLogs(c, h, Front(block))
      /\ \A j \in DOMAIN e.logs : Settled(c, e.logs[j].key, h, e.logs[j].height)
  BY <1>1, <1>2, FewerLogs
<1>5. /\ e \in GoodEntry /\ e.id \in Id /\ e.id \in Key /\ view.ids[e.id] = Owner(e)
      /\ e.id[1] = h
  <2>1. view.ids \in [Id -> Key \cup {None}] /\ Last(block).type \in Registering
    BY <1>1, <1>2 DEF World, Registering
  <2>2. /\ e \in GoodEntry /\ e.id \in Id /\ view.ids[e.id] = Owner(e)
    BY <1>1, <1>2, <1>3, <2>1, WithUnregistered
  <2>3. e.id[1] = h
    <3>1. Own(view.ids, block, h)
      BY <1>2 DEF FollowsWith
    <3>2. Len(block) \in DOMAIN block /\ block[Len(block)] = e
      <4>1. block \in Seq(GoodEntry) /\ block # <<>>
        BY <1>1, <1>2
      <4>2. /\ Len(block) \in Nat \ {0} /\ DOMAIN block = 1..Len(block)
            /\ Last(block) = block[Len(block)]
        BY <4>1, FrontAndLast
      <4> QED
        BY <4>2
    <3>3. e.id = <<h, Len(block)>>
      <4> HIDE DEF e, h
      <4> QED
        BY <2>1, <3>1, <3>2 DEF Own, e
    <3> QED
      BY <3>3
  <2> QED
    BY <2>2, <2>3, Ids
<1>6. /\ l \in Log /\ l.key = e.user /\ e.user \in User /\ Settled(c, l.key, h, l.height)
  <2>1. e.logs \in Seq(Log) /\ Len(e.logs) = 1 /\ e.logs[1].key = e.user /\ e.user \in User
    BY <1>1, <1>5 DEF GoodEntry, Entry, Registering
  <2>2. e.logs[1] \in Log /\ 1 \in DOMAIN e.logs
    BY <2>1, ElementOfSeq, LenProperties
  <2> QED
    BY <1>4, <2>1, <2>2
<1>7. k = e.user /\ k \in Key
  BY <1>1, <1>5, <1>6, Ids DEF Owner
<1>8. view.acct[k] # None /\ view.acct[k] \in Account /\ Held(view, k) = view.acct[k]
  <2>1. KeyOf(view, e.id) = k
    BY <1>5 DEF KeyOf
  <2>2. view.acct[k] # None
    BY <1>1, <2>1 DEF Has
  <2> QED
    BY <1>2, <1>7, <2>2, HeldType DEF Held
<1>9. \A m \in DOMAIN c : m \in Nat /\ ~(e.id[1] <= m)
  BY <1>3, <1>5
<1>10. view.ids[e.id] = k /\ k # None
  BY <1>7, Ids
<1> HIDE DEF k, l, e, c, h
<1>11. v \in World /\ v.acct = view.acct /\ v.ids = [view.ids EXCEPT ![e.id] = None]
  BY <1>2, <1>5, NewIdType
<1> HIDE DEF v
<1>12. Enrolled(v, c) /\ Level(v, c) /\ Unnamed(v, k)
  <2>1. /\ Enrolled(v, c) /\ Level(v, c)
        /\ view.ids[e.id] # None => Unnamed(v, view.ids[e.id])
    <3>1. \A m \in DOMAIN c : RewardOf(c[m]).id \in Id /\ m \in Nat /\ ~(e.id[1] <= m)
      BY <1>3, <1>9
    <3>2. view \in World /\ Enrolled(view, c) /\ Level(view, c) /\ e.id \in Id
      BY <1>2, <1>5
    <3> QED
      BY <1>11, <3>1, <3>2, UndoName
  <2> QED
    BY <1>10, <2>1
<1>13. old \in Account /\ Settled(c, k, h, old.height)
  <2>1. CASE e.fee > 0
    <3>1. old = UndoOperateAccount(view.acct[k], l)
      BY <2>1
    <3> HIDE DEF old
    <3>2. old \in Account /\ old.height = l.height
      BY <1>6, <1>8, <3>1 DEF UndoOperateAccount, Account, Log
    <3> QED
      BY <1>6, <1>7, <3>2
  <2>2. CASE ~(e.fee > 0)
    <3>1. old = view.acct[k]
      BY <2>2
    <3> HIDE DEF old
    <3> QED
      BY <1>2, <1>7, <1>8, <3>1 DEF Level, c, h
  <2> QED
    BY <2>1, <2>2
<1> HIDE DEF old
<1>14. bare \in Account /\ bare.height = old.height
  BY <1>13 DEF Account
<1> HIDE DEF bare
<1>15. /\ w \in World /\ w.ids = view.ids
       /\ \A x \in Key : x # k => w.acct[x] = view.acct[x]
       /\ w.acct[k] # None => Held(w, k).height = old.height
  <2>1. CASE old.value = 0
    BY <1>2, <1>7, <2>1, EraseAccountType
  <2>2. CASE old.value # 0
    <3>1. w = SetAccount(view, k, bare)
      BY <2>2
    <3> HIDE DEF w
    <3>2. /\ w \in World /\ w.ids = view.ids /\ w.acct[k] = bare
          /\ \A x \in Key : x # k => w.acct[x] = view.acct[x]
      BY <1>2, <1>7, <1>14, <3>1, SetAccountType
    <3>3. w.acct[k] # None => Held(w, k) = bare
      BY <3>2 DEF Held
    <3> QED
      BY <1>14, <3>2, <3>3
  <2> QED
    BY <2>1, <2>2
<1> HIDE DEF w
<1>16. w2.acct = w.acct /\ w2.ids = [view.ids EXCEPT ![e.id] = None]
  BY <1>5, <1>15, NewIdType
<1> HIDE DEF w2
<1>17. Enrolled(w2, c) /\ Level(w2, c)
  <2>1. w2.ids = v.ids /\ \A x \in Key : x # k => w2.acct[x] = v.acct[x]
    BY <1>11, <1>15, <1>16
  <2>2. w2.acct[k] # None => Settled(c, k, Len(c) + 1, Held(w2, k).height)
    <3>1. w2.acct[k] # None => Held(w2, k).height = old.height
      BY <1>15, <1>16 DEF Held
    <3> QED
      BY <1>13, <3>1 DEF c, h
  <2>3. \A id \in Id : v.ids[id] = k /\ k \in User => Held(w2, k).pub
    BY <1>12 DEF Unnamed
  <2> QED
    BY <1>7, <1>12, <2>1, <2>2, <2>3, UndoSet
<1> QED
  BY <1>1, <1>4, <1>17, UndoneEarns DEF c, h

LEMMA UndoRegisterAppEarns ==
    ASSUME LedgerInv, EarnedInv, UndoRegisterApp
    PROVE  EarnedInv'
<1> DEFINE e == Last(block)
           k == e.user
           l == e.logs[1]
           old == UndoOperateAccount(view.acct[k], l)
           w1 == EraseAccount(view, e.id)
           w2 == SetAccount(w1, k, old)
           w3 == [w2 EXCEPT !.ids[e.id] = None]
           w4 == [w2 EXCEPT !.ids[e.id] = None, !.scripts = @ \ {e.id}]
           v == [view EXCEPT !.ids[e.id] = None]
           v1 == EraseAccount(v, e.id)
           c == Base
           h == Len(Base) + 1
<1>1. /\ mode = "undo" /\ block # <<>> /\ e.type = "app" /\ view.acct[k] # None
      /\ view' = w4 /\ block' = Front(block)
      /\ tip' = tip /\ chain' = chain /\ before' = before /\ mode' = mode
  BY DEF UndoRegisterApp, Undoing, Undone
<1>2. /\ view \in World /\ block \in Seq(GoodEntry)
      /\ Enrolled(view, c) /\ Level(view, c) /\ GoodLogs(c, h, block)
      /\ FollowsWith(view.ids, c, block)
  BY <1>1, Heights DEF LedgerInv, EarnedInv
<1>3. /\ c \in Seq(Seq(GoodEntry)) /\ Len(c) \in Nat /\ DOMAIN c = 1..Len(c)
      /\ \A m \in DOMAIN c : RewardOf(c[m]).id \in Id
  BY <1>1, UndoBase
<1>4. /\ GoodLogs(c, h, Front(block))
      /\ \A j \in DOMAIN e.logs : Settled(c, e.logs[j].key, h, e.logs[j].height)
  BY <1>1, <1>2, FewerLogs
<1>5. /\ e \in GoodEntry /\ e.id \in Id /\ e.id \in Key /\ e.id \notin User
      /\ e.id[1] = h
  <2>1. view.ids \in [Id -> Key \cup {None}] /\ Last(block).type \in Registering
    BY <1>1, <1>2 DEF World, Registering
  <2>2. e \in GoodEntry /\ e.id \in Id
    BY <1>1, <1>2, <1>3, <2>1, WithUnregistered
  <2>3. e.id[1] = h
    <3>1. Own(view.ids, block, h)
      BY <1>2 DEF FollowsWith
    <3>2. Len(block) \in DOMAIN block /\ block[Len(block)] = e
      <4>1. block \in Seq(GoodEntry) /\ block # <<>>
        BY <1>1, <1>2
      <4>2. /\ Len(block) \in Nat \ {0} /\ DOMAIN block = 1..Len(block)
            /\ Last(block) = block[Len(block)]
        BY <4>1, FrontAndLast
      <4> QED
        BY <4>2
    <3>3. e.id = <<h, Len(block)>>
      <4> HIDE DEF e, h
      <4> QED
        BY <2>1, <3>1, <3>2 DEF Own, e
    <3> QED
      BY <3>3
  <2> QED
    BY <2>2, <2>3, Ids, LedgerNone
<1>6. /\ l \in Log /\ l.key = k /\ k \in Key /\ k # e.id /\ Settled(c, k, h, l.height)
  <2>1. e.logs \in Seq(Log) /\ Len(e.logs) = 1 /\ e.logs[1].key = k /\ k \in Key /\ k # e.id
    BY <1>1, <1>5 DEF GoodEntry, Entry, Registering
  <2>2. e.logs[1] \in Log /\ 1 \in DOMAIN e.logs
    BY <2>1, ElementOfSeq, LenProperties
  <2> QED
    BY <1>4, <2>1, <2>2
<1>7. \A m \in DOMAIN c : m \in Nat /\ ~(e.id[1] <= m)
  BY <1>3, <1>5
<1> HIDE DEF k, l, e, c, h
<1>8. v \in World /\ v.acct = view.acct /\ v.ids = [view.ids EXCEPT ![e.id] = None]
  BY <1>2, <1>5, NewIdType
<1> HIDE DEF v
<1>9. Enrolled(v, c) /\ Level(v, c)
  BY <1>2, <1>3, <1>5, <1>7, <1>8, UndoName
<1>10. /\ v1 \in World /\ v1.ids = v.ids /\ v1.acct[e.id] = None
       /\ \A x \in Key : x # e.id => v1.acct[x] = v.acct[x]
  BY <1>5, <1>8, EraseAccountType
<1> HIDE DEF v1
<1>11. Enrolled(v1, c) /\ Level(v1, c)
  BY <1>5, <1>9, <1>10, UndoSet
<1>12. /\ old \in Account /\ old.height = l.height /\ old.pub = Held(v1, k).pub
  <2>1. view.acct[k] \in Account /\ Held(v1, k) = view.acct[k]
    BY <1>1, <1>2, <1>6, <1>8, <1>10, HeldType DEF Held
  <2> QED
    BY <1>6, <2>1 DEF UndoOperateAccount, Account, Log
<1> HIDE DEF old
<1>13. /\ w1 \in World /\ w1.ids = view.ids /\ w1.acct[e.id] = None
       /\ \A x \in Key : x # e.id => w1.acct[x] = view.acct[x]
  BY <1>2, <1>5, EraseAccountType
<1> HIDE DEF w1
<1>14. /\ w2 \in World /\ w2.ids = view.ids /\ w2.acct[k] = old
       /\ \A x \in Key : x # k => w2.acct[x] = w1.acct[x]
  BY <1>6, <1>12, <1>13, SetAccountType
<1> HIDE DEF w2
<1>15. w3 \in World /\ w3.acct = w2.acct /\ w3.ids = [view.ids EXCEPT ![e.id] = None]
  BY <1>5, <1>14, NewIdType
<1>16. w4 = [w3 EXCEPT !.scripts = @ \ {e.id}]
  BY <1>14 DEF World
<1> HIDE DEF w3, w4
<1>17. w4.acct = w2.acct /\ w4.ids = v1.ids
  BY <1>8, <1>10, <1>15, <1>16 DEF World
<1>18. Enrolled(w4, c) /\ Level(w4, c)
  <2>1. \A x \in Key : x # k => w4.acct[x] = v1.acct[x]
    <3> SUFFICES ASSUME NEW x \in Key, x # k PROVE w4.acct[x] = v1.acct[x]
      OBVIOUS
    <3>1. CASE x = e.id
      BY <1>6, <1>10, <1>13, <1>14, <1>17, <3>1
    <3>2. CASE x # e.id
      BY <1>8, <1>10, <1>13, <1>14, <1>17, <3>2
    <3> QED
      BY <3>1, <3>2
  <2>2. Held(w4, k) = old
    BY <1>12, <1>14, <1>17, Ids DEF Held
  <2>3. w4.acct[k] # None => Settled(c, k, Len(c) + 1, Held(w4, k).height)
    BY <1>6, <1>12, <2>2 DEF c, h
  <2>4. \A id \in Id : v1.ids[id] = k /\ k \in User => Held(w4, k).pub
    BY <1>11, <1>12, <2>2 DEF Enrolled, Public
  <2> QED
    BY <1>6, <1>11, <1>17, <2>1, <2>3, <2>4, UndoSet
<1> QED
  BY <1>1, <1>4, <1>18, UndoneEarns DEF c, h

LEMMA EndUndoEarns ==
    ASSUME LedgerInv, HistoryInv, EarnedInv, EndUndo
    PROVE  EarnedInv'
<1> DEFINE n == Len(chain)
           m == n - 1
           c == chain
           d == Front(chain)
           was == Front(before)
           ws == Append(before, tip)
           vs == Append(was, view)
<1>1. /\ mode = "undo" /\ block = <<>> /\ mode' = "idle" /\ tip' = view
      /\ chain' = d /\ before' = was /\ view' = view
  BY DEF EndUndo
<1>2. chain # <<>> /\ Base = d
  BY <1>1 DEF LedgerInv, Stages, Base
<1>3. /\ n \in Nat \ {0} /\ m \in Nat /\ m + 1 = n
      /\ Len(d) = m /\ DOMAIN d = 1..m /\ DOMAIN c = 1..n
      /\ \A i \in 1..m : d[i] = c[i] /\ i \in 1..n
  BY <1>2, BelowLast
<1>4. /\ before \in Seq(World) /\ before # <<>> /\ Len(before) = n /\ view \in World
      /\ DOMAIN before = 1..n /\ Last(before) = before[n]
  BY <1>2, LastBlock, Heights DEF LedgerInv, TypeOK
<1>5. /\ was \in Seq(World) /\ Len(was) = m
      /\ \A i \in 1..m : was[i] = before[i]
  BY <1>4, FrontAndLast
<1>6. /\ ChainOf(c, ws, n)
      /\ \A i \in 1..n : ws[i] = before[i] /\ before[i] \in World
  BY ChainIsChain
<1> HIDE DEF d, was, ws
<1>7. /\ DOMAIN vs = 1..(m + 1) /\ vs[m + 1] = view
      /\ \A i \in 1..m : vs[i] = was[i]
  <2> HIDE DEF m
  <2>1. /\ Len(was) = m
        /\ DOMAIN vs = 1..(Len(was) + 1) /\ vs[Len(was) + 1] = view
        /\ \A i \in 1..Len(was) : vs[i] = was[i]
    BY <1>4, <1>5, AppendedTo
  <2> QED
    BY <2>1
<1> HIDE DEF n, m, c, vs
<1>8. \A i \in 1..(m + 1) : i \in 1..m \/ i = m + 1
  BY <1>3
<1>9. \A i \in 1..m : vs[i] = ws[i] /\ vs[i] \in World
  BY <1>3, <1>5, <1>6, <1>7
<1>10. ChainOf(d, vs, m)
  <2>1. \A i \in 1..(m + 1) : vs[i] \in World
    BY <1>4, <1>7, <1>8, <1>9
  <2>2. \A i \in 1..m : RewardOf(d[i]).fee \in Nat
    BY <1>3, <1>6 DEF ChainOf
  <2> QED
    BY <1>3, <1>7, <2>1, <2>2 DEF ChainOf
<1>11. Enrolled(view, d) /\ Level(view, d)
  BY <1>1, <1>2 DEF EarnedInv
<1>12. ASSUME NEW i \in 1..m PROVE GoodLogs(d, i, d[i])
  <2>1. i \in Nat /\ \A x \in 1..(i - 1) : x \in 1..m
    BY <1>3
  <2>2. \A x \in 1..(i - 1) : c[x] = d[x]
    BY <1>3, <2>1
  <2>3. GoodLogs(c, i, d[i])
    BY <1>3 DEF EarnedInv, c
  <2> QED
    BY <2>1, <2>2, <2>3, GoodLogsPast
<1>13. ASSUME NEW i \in 1..(m + 1) PROVE Earned(d, vs, i)
  <2> SUFFICES ASSUME NEW k \in Key PROVE EarnedAt(d, vs, i, k, Held(vs[i], k))
    BY DEF Earned
  <2> DEFINE a == Held(ws[i], k)
  <2>1. i \in Nat /\ i \in 1..n /\ i \in 1..(n + 1)
    BY <1>3
  <2>2. EarnedAt(c, ws, i, k, a)
    BY <2>1 DEF EarnedInv, Earned, c, n, ws
  <2>3. a.height \in Nat /\ a.height <= i - 1
    BY <2>1, HeightsBelow DEF n, ws
  <2>4. SamePast(c, ws, d, vs, i)
    <3>1. \A x \in 1..(i - 1) : x \in 1..m
      BY <1>3
    <3> QED
      BY <1>3, <1>9, <3>1 DEF SamePast
  <2> HIDE DEF a
  <2>5. EarnedAt(d, vs, i, k, a)
    BY <1>6, <1>10, <2>1, <2>2, <2>3, <2>4, EarnedInPast
  <2>6. CASE i \in 1..m
    BY <1>9, <2>5, <2>6 DEF a
  <2>7. CASE i = m + 1
    <3> DEFINE b == Held(view, k)
               t == before[n]
    <3>1. vs[i] = view /\ a = Held(t, k)
      BY <1>3, <1>6, <1>7, <2>1, <2>7 DEF a
    <3>2. Restores(LogOf(view, k), LogOf(t, k))
      BY <1>1, <1>4, LastUndone
    <3>3. CASE LogOf(view, k) = LogOf(t, k)
      <4>1. /\ LogOf(view, k).value = b.value /\ LogOf(view, k).coin = b.coin
            /\ LogOf(view, k).height = b.height
            /\ LogOf(t, k).value = a.value /\ LogOf(t, k).coin = a.coin
            /\ LogOf(t, k).height = a.height
        BY <3>1 DEF LogOf
      <4> HIDE DEF b
      <4>2. EarnedAt(d, vs, i, k, b)
        BY <2>5, <3>3, <4>1 DEF EarnedAt
      <4> QED
        BY <3>1, <4>2 DEF b
    <3>4. CASE LogOf(view, k) = Nothing(LogOf(t, k).key)
      <4>1. b.value = 0 /\ b.coin = 0 /\ b.height = 0
        BY <3>4 DEF LogOf, Nothing
      <4> HIDE DEF b
      <4>2. EarnedAt(d, vs, i, k, b)
        BY <1>10, <4>1, NothingEarned
      <4> QED
        BY <3>1, <4>2 DEF b
    <3> QED
      BY <3>2, <3>3, <3>4 DEF Restores
  <2> QED
    BY <1>8, <2>6, <2>7
<1> QED
  BY <1>1, <1>3, <1>11, <1>12, <1>13 DEF EarnedInv, Base, vs

-----------------------------------------------------------------------------
(* Coin days are earned: every behaviour.                                   *)

LEMMA GenesisHas ==
    /\ \A k \in Key : Held(GenesisWorld, k).coin = 0
    /\ Unique(GenesisWorld) /\ Public(GenesisWorld)
<1>1. \A i \in DOMAIN Genesis : Genesis[i].key \in User
  <2>1. \A i \in 1..Len(Genesis) : Genesis[i] \in [key : User, value : Nat]
    BY LedgerGenesis, ElementOfSeq
  <2> QED
    BY <2>1, LedgerGenesis, LenProperties
<1>2. GenesisWorld.ids = [id \in Id |-> IF id[1] = 0 /\ id[2] \in DOMAIN Genesis
                                        THEN Genesis[id[2]].key ELSE None]
  BY DEF GenesisWorld
<1>3. \A id \in Id : GenesisWorld.ids[id] # None =>
          /\ id[1] = 0 /\ id[2] \in DOMAIN Genesis
          /\ GenesisWorld.ids[id] = Genesis[id[2]].key
  BY <1>2
<1>4. ASSUME NEW k \in Key
      PROVE  /\ GenesisWorld.acct[k] # None =>
                    GenesisWorld.acct[k].coin = 0 /\ GenesisWorld.acct[k].pub
             /\ (\E i \in DOMAIN Genesis : Genesis[i].key = k) =>
                    GenesisWorld.acct[k] # None
  <2>1. \A v, r : LET a == [NewAccount EXCEPT !.value = v, !.pub = TRUE, !.reg = r]
                  IN  a.coin = 0 /\ a.pub
    BY DEF NewAccount
  <2> DEFINE p == CHOOSE i \in DOMAIN Genesis : Genesis[i].key = k
             a == [NewAccount EXCEPT !.value = Genesis[p].value, !.pub = TRUE,
                                     !.reg = <<0, p>>]
  <2>2. GenesisWorld.acct[k] = IF \E i \in DOMAIN Genesis : Genesis[i].key = k
                               THEN a ELSE None
    BY DEF GenesisWorld
  <2>3. a.coin = 0 /\ a.pub
    BY <2>1
  <2>4. (\E i \in DOMAIN Genesis : Genesis[i].key = k) => a # None
    <3> SUFFICES ASSUME \E i \in DOMAIN Genesis : Genesis[i].key = k PROVE a # None
      OBVIOUS
    <3>1. GenesisWorld.acct[k] = a
      BY <2>2
    <3>2. p \in DOMAIN Genesis
      OBVIOUS
    <3>3. a \in Account
      <4>1. Genesis[p].value \in Nat /\ <<0, p>> \in Id
        <5>1. p \in 1..Len(Genesis) /\ Len(Genesis) \in Nat
              /\ Genesis[p] \in [key : User, value : Nat]
          <6> HIDE DEF p
          <6>1. DOMAIN Genesis = 1..Len(Genesis) /\ Len(Genesis) \in Nat
            BY LedgerGenesis, LenProperties
          <6>2. p \in 1..Len(Genesis)
            BY <3>2, <6>1
          <6> QED
            BY <6>1, <6>2, LedgerGenesis, ElementOfSeq
        <5> HIDE DEF p
        <5>2. p \in 0..(MaxTxs + Len(Genesis)) /\ 0 \in 0..MaxHeight
          BY <5>1, Numbers
        <5> QED
          BY <5>1, <5>2 DEF Id
      <4>2. \A v \in Nat, r \in Id :
                [NewAccount EXCEPT !.value = v, !.pub = TRUE, !.reg = r] \in Account
        BY DEF NewAccount, Account
      <4> HIDE DEF p
      <4> QED
        BY <4>1, <4>2
    <3> HIDE DEF a
    <3> QED
      BY <3>3, Ids, LedgerNone
  <2> HIDE DEF a
  <2> QED
    BY <2>2, <2>3, <2>4
<1>5. \A k \in Key : Held(GenesisWorld, k).coin = 0
  BY <1>4 DEF Held, NewAccount
<1>6. Public(GenesisWorld)
  <2> SUFFICES ASSUME NEW id \in Id, GenesisWorld.ids[id] \in User
               PROVE  Held(GenesisWorld, GenesisWorld.ids[id]).pub
    BY DEF Public
  <2>1. GenesisWorld.ids[id] \in Key /\ GenesisWorld.ids[id] # None
    BY Ids
  <2>2. GenesisWorld.acct[GenesisWorld.ids[id]] # None
    BY <1>3, <1>4, <2>1
  <2> QED
    BY <1>4, <2>1, <2>2 DEF Held
<1>7. Unique(GenesisWorld)
  <2> SUFFICES ASSUME NEW i \in Id, NEW j \in Id, GenesisWorld.ids[i] # None,
                      GenesisWorld.ids[i] = GenesisWorld.ids[j]
               PROVE  i = j
    BY DEF Unique
  <2>1. i[1] = j[1] /\ i[2] = j[2]
    BY <1>3, LedgerGenesis
  <2> QED
    BY <2>1, IdParts
<1> QED
  BY <1>5, <1>6, <1>7

LEMMA EarnedInit == Init => EarnedInv
<1> SUFFICES ASSUME Init PROVE EarnedInv
  OBVIOUS
<1> DEFINE G == GenesisWorld
           ws == Append(<<>>, G)
<1>1. /\ tip = G /\ view = G /\ chain = <<>> /\ before = <<>> /\ mode = "idle"
      /\ Base = <<>>
  BY DEF Init, Base
<1>2. /\ DOMAIN <<>> = {} /\ Len(<<>>) = 0 /\ G \in World
      /\ DOMAIN ws = 1..(0 + 1) /\ ws[1] = G
  BY GenesisIsWorld
<1> HIDE DEF G, ws
<1>3. Enrolled(G, <<>>) /\ Level(G, <<>>)
  <2>1. \A k : MadeBefore(<<>>, k, 0 + 1) = {}
    BY DEF MadeBefore
  <2> QED
    BY <1>2, <2>1, GenesisHas DEF Enrolled, Paying, Level, Settled, G
<1>4. ChainOf(<<>>, ws, 0)
  BY <1>2 DEF ChainOf
<1>5. \A i \in 1..(0 + 1) : Earned(<<>>, ws, i)
  <2> SUFFICES ASSUME NEW k \in Key PROVE EarnedAt(<<>>, ws, 1, k, Held(G, k))
    BY <1>2 DEF Earned
  <2>1. Held(G, k).coin = 0 /\ Held(G, k).height = 0
    BY GenesisHas, GenesisWrites DEF G
  <2>2. Cap(<<>>, ws, k, 1, 0) \in Nat
    BY <1>4, CapGrows
  <2> QED
    BY <2>1, <2>2 DEF EarnedAt
<1> QED
  BY <1>1, <1>2, <1>3, <1>5 DEF EarnedInv, ws

LEMMA EarnedStep ==
    LedgerInv /\ HistoryInv /\ MoneyInv /\ EarnedInv /\ [Next]_vars => EarnedInv'
<1> SUFFICES ASSUME LedgerInv, HistoryInv, MoneyInv, EarnedInv, [Next]_vars PROVE EarnedInv'
  OBVIOUS
<1>1. CASE BeginConnect
  BY <1>1, BeginConnectEarns
<1>2. CASE Executing
  <2>1. mode = "connect" /\ Len(block) < MaxTxs
    BY <1>2 DEF Executing
  <2>2. CASE \E k \in User, fee \in Fee : Register(k, fee)
    BY <2>1, <2>2, RegisterEarns
  <2>3. CASE \E src \in Registered, des \in User \cup Registered,
                v \in Amount, fee \in Fee : Transfer(src, des, v, fee)
    BY <2>1, <2>3, TransferEarns
  <2>4. CASE \E src \in Registered, app \in view.scripts,
                to \in User \cup Registered \cup {None},
                v, pay \in Amount, fee, fuel \in Fee :
                Contract(src, app, v, fee, fuel, to, pay)
    BY <2>1, <2>4, ContractEarns
  <2>5. CASE \E src \in Registered, fee, fuel \in Fee : RegisterApp(src, fee, fuel)
    BY <2>1, <2>5, RegisterAppEarns
  <2> QED
    BY <1>2, <2>2, <2>3, <2>4, <2>5 DEF Executing
<1>3. CASE \E miner \in Registered : Reward(miner)
  BY <1>3, RewardEarns
<1>4. CASE ConnectMature
  BY <1>4, MatureEarns
<1>5. CASE ConnectEarly
  BY <1>5, EarlyEarns
<1>6. CASE BeginUndo
  BY <1>6, BeginUndoEarns
<1>7. CASE UndoLog
  BY <1>7, UndoLogEarns
<1>8. CASE UndoRegister
  BY <1>8, UndoRegisterEarns
<1>9. CASE UndoRegisterApp
  BY <1>9, UndoRegisterAppEarns
<1>10. CASE EndUndo
  BY <1>10, EndUndoEarns
<1>11. CASE Drop
  BY <1>11, DropEarns
<1>12. CASE UNCHANGED vars
  <2>1. /\ tip' = tip /\ view' = view /\ chain' = chain /\ before' = before
        /\ mode' = mode /\ block' = block
    BY <1>12 DEF vars
  <2>2. Base' = Base /\ Height' = Height
    BY <2>1 DEF Base, Height
  <2>3. /\ Aged(view) => Aged(view)'
        /\ Spent(view, block) => Spent(view, block)'
    BY <2>1, <2>2 DEF Aged, Brought, Left, Fresh, Spent
  <2> QED
    BY <2>1, <2>2, <2>3 DEF EarnedInv
<1> QED
  BY <1>1, <1>2, <1>3, <1>4, <1>5, <1>6, <1>7, <1>8, <1>9, <1>10, <1>11, <1>12 DEF Next

(* Before every block that is still there, and at the tip, no account has   *)
(* more coin days than the coins it had, paid or not, before the blocks     *)
(* since it last made one; logs and ids lead an undo back to such accounts. *)
THEOREM EarnedInvariance == Spec => []EarnedInv
<1> QED
  BY LedgerInit, LedgerStep, HistoryInit, HistoryStep, MoneyInit, MoneyStep,
     EarnedInit, EarnedStep, PTL DEF Spec

(* Coin days, the right to make blocks, are earned: one per coin and block  *)
(* held since the account last made a block, a reward counting from the     *)
(* block it was made in (UpDateCoinDay, OperateAccount, ClearAccPos, and    *)
(* UndoOperateAccount on every block disconnected).                         *)
THEOREM CoinDaysAreEarned == Spec => []CoinDaysEarned
<1>1. ASSUME LedgerInv, HistoryInv, EarnedInv PROVE CoinDaysEarned
  <2> SUFFICES ASSUME NEW k \in Key
               PROVE  LET since == {i \in DOMAIN chain : \A m \in MinedBy(k) : m < i}
                      IN UpDateCoinDay(Held(tip, k), Len(chain)).coin
                           <= SumFunction([i \in since |->
                                             ValueOf(before[i], k) + Pending(k, i)])
    BY DEF CoinDaysEarned
  <2> DEFINE n == Len(chain)
             c == chain
             ws == Append(before, tip)
             since == {i \in DOMAIN chain : \A m \in MinedBy(k) : m < i}
             had == [i \in since |-> ValueOf(before[i], k) + Pending(k, i)]
             a == Held(tip, k)
  <2>1. /\ n \in Nat /\ DOMAIN chain = 1..n /\ tip \in World /\ n + 1 \in 1..(n + 1)
        /\ (n + 1) - 1 = n
    BY <1>1, ChainTerms, Heights
  <2>2. /\ ChainOf(c, ws, n) /\ ws[n + 1] = tip
        /\ \A i \in 1..n : ws[i] = before[i]
    BY <1>1, ChainIsChain
  <2>3. MinedBy(k) = MadeBefore(c, k, n + 1)
    BY <2>1 DEF MinedBy, MadeBefore
  <2>4. since = {x \in 1..n : x \in Since(c, k, n + 1)}
    BY <2>1, <2>3 DEF Since
  <2>5. ASSUME NEW i \in 1..n PROVE Pending(k, i) = Unpaid(c, k, i)
    <3> DEFINE J == {j \in MinedBy(k) : j < i /\ j + Maturity >= i}
               f == [j \in J |-> RewardOf(chain[j]).fee]
    <3>1. Pending(k, i) = SumFunctionOnSet(f, J)
      BY DEF Pending, SumFunction
    <3>2. J = {m \in MadeBefore(c, k, i) : m + Maturity >= i}
      BY <2>1 DEF MinedBy, MadeBefore
    <3>3. i \in 1..(n + 1)
      BY <2>1
    <3>4. /\ MadeBefore(c, k, i) \subseteq 1..n /\ IsFiniteSet(MadeBefore(c, k, i))
          /\ \A m \in 1..n : DuesOf(c)[m] = RewardOf(c[m]).fee
      BY <2>2, <3>3, UnpaidType
    <3>5. IsFiniteSet(J) /\ J \subseteq 1..n
      BY <3>2, <3>4, FS_Subset
    <3>6. \A j \in J : f[j] = DuesOf(c)[j]
      BY <3>4, <3>5
    <3> HIDE DEF f, J
    <3>7. SumFunctionOnSet(f, J) = SumFunctionOnSet(DuesOf(c), J)
      BY <3>5, <3>6, SumSame
    <3> QED
      BY <3>1, <3>2, <3>7 DEF Unpaid
  <2>6. \A i \in since : had[i] = HadOf(c, ws, k)[i]
    <3> SUFFICES ASSUME NEW i \in since PROVE had[i] = HadOf(c, ws, k)[i]
      OBVIOUS
    <3>1. i \in 1..n /\ i \in 1..(n + 1)
      BY <2>1
    <3>2. HadOf(c, ws, k)[i] = HadBefore(c, ws, k, i)
      BY <2>2, <3>1, HadType
    <3>3. had[i] = ValueOf(ws[i], k) + Unpaid(c, k, i)
      BY <2>2, <2>5, <3>1
    <3> QED
      BY <3>2, <3>3 DEF HadBefore
  <2>7. SumFunction(had) = Cap(c, ws, k, n + 1, n)
    <3>1. SumFunction(had) = SumFunctionOnSet(had, since)
      BY DEF SumFunction
    <3>2. IsFiniteSet(since)
      <4>1. since \subseteq 1..n /\ IsFiniteSet(1..n)
        BY <2>1, FS_Interval
      <4> HIDE DEF since, n
      <4> QED
        BY <4>1, FS_Subset
    <3> HIDE DEF had, since
    <3>3. SumFunctionOnSet(had, since) = SumFunctionOnSet(HadOf(c, ws, k), since)
      BY <2>6, <3>2, SumSame
    <3> QED
      BY <2>4, <3>1, <3>3 DEF Cap
  <2>8. a.height <= n /\ a.height \in Nat
    BY <1>1, <2>1, HeldType DEF HistoryInv, AtMost, Account
  <2>9. EarnedAt(c, ws, n + 1, k, a)
    BY <1>1, <2>1, <2>2 DEF EarnedInv, Earned
  <2>10. a.value = 0 \/ \A m \in MadeBefore(c, k, n + 1) : m <= a.height
    BY <1>1 DEF EarnedInv, Level, Settled, Held, NewAccount
  <2> HIDE DEF c, ws, had, since, n
  <2>11. a = Held(ws[n + 1], k) /\ a.height <= (n + 1) - 1 /\ n <= n + 1
    BY <2>1, <2>2, <2>8
  <2> HIDE DEF a
  <2>12. UpDateCoinDay(a, n).coin <= Cap(c, ws, k, n + 1, n)
    BY <2>1, <2>2, <2>8, <2>9, <2>10, <2>11, CoinDaysBound
  <2> QED
    BY <2>7, <2>12 DEF a, n, had, since
<1> QED
  BY <1>1, LedgerInvariance, HistoryInvariance, EarnedInvariance, PTL
=============================================================================
