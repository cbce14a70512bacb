--------------------------- MODULE Mempool_proofs ---------------------------
(***************************************************************************)
(* Mempool for any transactions, accounts, funds and heights.              *)
(***************************************************************************)
EXTENDS Mempool, FiniteSetTheorems, SequenceTheorems, WellFoundedInduction, TLAPS

(* Every nonempty set of natural numbers has a least element. *)
LEMMA LeastNat ==
    ASSUME NEW T, T \subseteq Nat, T # {}
    PROVE  \E n \in T : \A m \in T : n <= m
<1> DEFINE R == {ss \in Nat \X Nat : ss[1] < ss[2]}
<1>1. IsWellFoundedOn(R, Nat)
  BY NatLessThanWellFounded DEF OpToRel
<1>2. R = {ss \in Nat \X Nat : ss[1] < ss[2]}
  OBVIOUS
<1> HIDE DEF R
<1>3. PICK n \in T : \A m \in T : <<m, n>> \notin R
  BY <1>1, WFMin
<1>4. ASSUME NEW m \in T PROVE n <= m
  <2>1. m \in Nat /\ n \in Nat /\ <<m, n>> \notin R
    BY <1>3
  <2>2. ~(m < n)
    BY <1>2, <2>1
  <2> QED
    BY <2>1, <2>2
<1> QED
  BY <1>4

(* Induction, as a fact about the set of the numbers that have a property. *)
LEMMA SetInduction ==
    ASSUME NEW S, 0 \in S, \A n \in Nat : n \in S => n + 1 \in S
    PROVE  Nat \subseteq S
<1> SUFFICES ASSUME Nat \ S # {} PROVE FALSE
  OBVIOUS
<1>1. PICK n \in Nat \ S : \A m \in Nat \ S : n <= m
  BY LeastNat
<1>2. n # 0 /\ n - 1 \in Nat
  BY <1>1
<1>3. n - 1 \in S
  BY <1>1, <1>2
<1> QED
  BY <1>1, <1>2, <1>3

-----------------------------------------------------------------------------
(* Sets of transactions and what they move.                                *)

(* mapTx is a finite map: the order of its keys lists all of them. *)
LEMMA TxFinite == IsFiniteSet(Tx)
<1>1. /\ HashOrder \in [1..Len(HashOrder) -> Tx] /\ Len(HashOrder) \in Nat
      /\ DOMAIN HashOrder = 1..Len(HashOrder)
  BY PoolAssumption, LenProperties
<1>2. \A t \in Tx : \E i \in 1..Len(HashOrder) : HashOrder[i] = t
  BY <1>1, PoolAssumption DEF ToSet
<1>3. HashOrder \in Surjection(1..Len(HashOrder), Tx)
  BY <1>1, <1>2 DEF Surjection
<1> QED
  BY <1>1, <1>3, FS_Interval, FS_Surjection

(* A block undone gives back what it moved. *)
LEMMA MovedType ==
    ASSUME NEW base \in [Account -> Int], NEW T \in SUBSET Tx
    PROVE  /\ Moved(base, T, 1) \in [Account -> Int]
           /\ Moved(Moved(base, T, 1), T, -1) = base
<1> DEFINE In(a) == {t \in T : Payee[t] = a}
           Out(a) == {t \in T : Payer[t] = a}
<1>1. \A a \in Account : Cardinality(In(a)) \in Nat /\ Cardinality(Out(a)) \in Nat
  BY TxFinite, FS_Subset, FS_CardinalityType
<1>2. Moved(base, T, 1) = [a \in Account |->
          base[a] + 1 * (Cardinality(In(a)) - Cardinality(Out(a)))]
  BY DEF Moved
<1> HIDE DEF In, Out
<1>3. Moved(base, T, 1) \in [Account -> Int]
  BY <1>1, <1>2
<1> DEFINE moved == Moved(base, T, 1)
<1>4. Moved(moved, T, -1) = [a \in Account |->
          moved[a] + (-1) * (Cardinality(In(a)) - Cardinality(Out(a)))]
  BY DEF Moved, In, Out
<1>5. \A a \in Account : Moved(moved, T, -1)[a] = base[a]
  BY <1>1, <1>2, <1>4
<1> QED
  BY <1>3, <1>4, <1>5

LEMMA MovedNothing ==
    ASSUME NEW base \in [Account -> Int]
    PROVE  \A a \in Account : Moved(base, {}, 1)[a] = base[a]
<1>1. \A a \in Account : {t \in {} : Payee[t] = a} = {} /\ {t \in {} : Payer[t] = a} = {}
  OBVIOUS
<1> QED
  BY <1>1, FS_EmptySet DEF Moved

(* One transaction more moves one coin more. *)
Coin(t, a) == (IF a = Payee[t] THEN 1 ELSE 0) - (IF a = Payer[t] THEN 1 ELSE 0)

LEMMA MovedOneMore ==
    ASSUME NEW base \in [Account -> Int], NEW T \in SUBSET Tx, NEW t \in Tx \ T,
           NEW a \in Account
    PROVE  Moved(base, T \cup {t}, 1)[a] = Moved(base, T, 1)[a] + Coin(t, a)
<1> DEFINE In(S) == {x \in S : Payee[x] = a}
           Out(S) == {x \in S : Payer[x] = a}
<1>1. /\ IsFiniteSet(In(T)) /\ Cardinality(In(T)) \in Nat
      /\ IsFiniteSet(Out(T)) /\ Cardinality(Out(T)) \in Nat
  BY TxFinite, FS_Subset, FS_CardinalityType
<1>2. Cardinality(In(T \cup {t})) =
          Cardinality(In(T)) + (IF a = Payee[t] THEN 1 ELSE 0)
  <2>1. CASE a = Payee[t]
    <3>1. In(T \cup {t}) = In(T) \cup {t} /\ t \notin In(T)
      BY <2>1
    <3> QED
      BY <1>1, <2>1, <3>1, FS_AddElement
  <2>2. CASE a # Payee[t]
    <3>1. In(T \cup {t}) = In(T)
      BY <2>2
    <3> HIDE DEF In
    <3> QED
      BY <1>1, <2>2, <3>1
  <2> QED
    BY <2>1, <2>2
<1>3. Cardinality(Out(T \cup {t})) =
          Cardinality(Out(T)) + (IF a = Payer[t] THEN 1 ELSE 0)
  <2>1. CASE a = Payer[t]
    <3>1. Out(T \cup {t}) = Out(T) \cup {t} /\ t \notin Out(T)
      BY <2>1
    <3> QED
      BY <1>1, <2>1, <3>1, FS_AddElement
  <2>2. CASE a # Payer[t]
    <3>1. Out(T \cup {t}) = Out(T)
      BY <2>2
    <3> HIDE DEF Out
    <3> QED
      BY <1>1, <2>2, <3>1
  <2> QED
    BY <2>1, <2>2
<1>4. /\ Moved(base, T, 1)[a] = base[a] + 1 * (Cardinality(In(T)) - Cardinality(Out(T)))
      /\ Moved(base, T \cup {t}, 1)[a] =
             base[a] + 1 * (Cardinality(In(T \cup {t})) - Cardinality(Out(T \cup {t})))
  BY DEF Moved
<1> HIDE DEF In, Out
<1> QED
  BY <1>1, <1>2, <1>3, <1>4 DEF Coin

(* A sequence that lists a finite set has all of its elements. *)
LEMMA ListsAll ==
    ASSUME NEW T, IsFiniteSet(T), NEW s \in SetToSeqs(T)
    PROVE  /\ s \in Seq(T) /\ Len(s) = Cardinality(T) /\ Cardinality(T) \in Nat
           /\ \A i, j \in 1..Len(s) : i # j => s[i] # s[j]
           /\ {s[j] : j \in 1..Len(s)} = T
<1> DEFINE n == Cardinality(T)
<1>1. /\ n \in Nat /\ s \in [1..n -> T]
      /\ \A i, j \in 1..n : i # j => s[i] # s[j]
  BY FS_CardinalityType DEF SetToSeqs
<1>2. s \in Seq(T) /\ Len(s) = n
  BY <1>1
<1>3. ASSUME NEW t \in T, \A j \in 1..n : s[j] # t
      PROVE  FALSE
  <2>1. /\ IsFiniteSet(T \ {t}) /\ Cardinality(T \ {t}) = n - 1
        /\ IsFiniteSet(1..n) /\ Cardinality(1..n) = n
    <3>1. IsFiniteSet(T \ {t}) /\ Cardinality(T \ {t}) = n - 1
      BY <1>3, FS_RemoveElement
    <3> HIDE DEF n
    <3>2. IsFiniteSet(1..n) /\ Cardinality(1..n) = n
      BY <1>1, FS_Interval
    <3> QED
      BY <3>1, <3>2
  <2>2. s \in [1..n -> T \ {t}]
    BY <1>1, <1>3
  <2>3. \E i, j \in 1..n : i # j /\ s[i] = s[j]
    <3>1. Cardinality(T \ {t}) < Cardinality(1..n)
      BY <1>1, <2>1
    <3> HIDE DEF n
    <3> QED
      BY <2>1, <2>2, <3>1, FS_PigeonHole
  <2> QED
    BY <1>1, <2>3
<1>4. {s[j] : j \in 1..n} = T
  BY <1>1, <1>3
<1> QED
  BY <1>1, <1>2, <1>4

(* Nobody is overdrawn by transactions that can be executed. *)
LEMMA ExecutableIsCovered ==
    ASSUME NEW base \in [Account -> Nat], NEW T \in SUBSET Tx, Executable(base, T)
    PROVE  Moved(base, T, 1) \in [Account -> Nat]
<1>1. PICK s \in SetToSeqs(T) :
          \A i \in DOMAIN s :
              CanPay(<<>>, Moved(base, {s[j] : j \in 1..(i - 1)}, 1), s[i])
  BY DEF Executable
<1>2. IsFiniteSet(T) /\ base \in [Account -> Int]
  BY TxFinite, FS_Subset
<1>3. /\ s \in Seq(T) /\ Len(s) \in Nat /\ DOMAIN s = 1..Len(s)
      /\ \A i, j \in 1..Len(s) : i # j => s[i] # s[j]
      /\ {s[j] : j \in 1..Len(s)} = T
      /\ \A i \in 1..Len(s) : s[i] \in T
  BY <1>2, ListsAll, LenProperties, ElementOfSeq
<1> DEFINE First(n) == {s[j] : j \in 1..n}
           S == {n \in Nat : n <= Len(s) =>
                     \A a \in Account : Moved(base, First(n), 1)[a] \in Nat}
<1>4. 0 \in S
  <2>1. First(0) = {}
    OBVIOUS
  <2> HIDE DEF First
  <2> QED
    BY <1>2, <2>1, MovedNothing
<1>5. ASSUME NEW n \in Nat, n \in S
      PROVE  n + 1 \in S
  <2> SUFFICES ASSUME n + 1 <= Len(s), NEW a \in Account
               PROVE  Moved(base, First(n + 1), 1)[a] \in Nat
    OBVIOUS
  <2> DEFINE t == s[n + 1]
  <2>1. /\ First(n + 1) = First(n) \cup {t} /\ t \notin First(n)
        /\ First(n) \subseteq T /\ t \in T
    BY <1>3
  <2>2. \A b \in Account : Moved(base, First(n), 1)[b] \in Nat
    BY <1>3, <1>5
  <2>3. CanPay(<<>>, Moved(base, First(n), 1), t)
    <3>1. n + 1 \in DOMAIN s /\ (n + 1) - 1 = n
      BY <1>3
    <3> QED
      BY <1>1, <3>1
  <2> HIDE DEF First, t
  <2>4. Moved(base, First(n), 1)[Payer[t]] > 0
    BY <2>3 DEF CanPay, Held
  <2>5. Moved(base, First(n + 1), 1)[a] = Moved(base, First(n), 1)[a] + Coin(t, a)
    BY <1>2, <2>1, MovedOneMore
  <2> QED
    BY <2>2, <2>4, <2>5 DEF Coin
<1> HIDE DEF S
<1>6. Len(s) \in S
  BY <1>3, <1>4, <1>5, SetInduction
<1>7. \A a \in Account : Moved(base, T, 1)[a] \in Nat
  BY <1>3, <1>6 DEF S
<1> QED
  BY <1>7 DEF Moved

-----------------------------------------------------------------------------
(* What the checks do to the entries and to the view.                      *)

(* The entries and the accounts the view of the pool holds. *)
IsPool(p) ==
    /\ p = [txs |-> p.txs, layer |-> p.layer]
    /\ p.txs \in SUBSET Tx
    /\ DOMAIN p.layer \subseteq Account
    /\ \A a \in DOMAIN p.layer : p.layer[a] \in Nat

(* The view shows the accounts of the tip after these transactions. *)
Shows(layer, base, T) ==
    \A a \in Account : Held(layer, base, a) = Moved(base, T, 1)[a]

(* CheckTxInMemPool drops the transaction and leaves the view as it was, or *)
(* enters it and executes it.                                              *)
LEMMA CheckedCases ==
    ASSUME NEW p, IsPool(p), NEW t \in Tx, NEW base \in [Account -> Nat], NEW s
    PROVE  /\ IsPool(Checked(p, t, base, s))
           /\ \/ /\ Checked(p, t, base, s).txs = p.txs \ {t}
                 /\ \A a \in Account : Held(Checked(p, t, base, s).layer, base, a)
                                       = Held(p.layer, base, a)
              \/ /\ Checked(p, t, base, s).txs = p.txs \cup {t}
                 /\ Fits(t, s)
                 /\ \A a \in Account : Held(Checked(p, t, base, s).layer, base, a)
                                       = Held(p.layer, base, a) + Coin(t, a)
<1>1. /\ \A a \in Account : Held(p.layer, base, a) \in Nat
      /\ Payer[t] \in Account /\ Payee[t] \in Account /\ Payer[t] # Payee[t]
  BY PoolAssumption DEF IsPool, Held
<1>2. CASE ~Fits(t, s)
  <2>1. Checked(p, t, base, s) = [txs |-> p.txs \ {t}, layer |-> p.layer]
    BY <1>2 DEF Checked, IsPool
  <2> QED
    BY <2>1 DEF IsPool
<1>3. CASE Fits(t, s) /\ CanPay(p.layer, base, t)
  <2> DEFINE new == Execute(p.layer, base, t)
  <2>1. Checked(p, t, base, s) = [txs |-> p.txs \cup {t}, layer |-> new]
    BY <1>3 DEF Checked
  <2>2. /\ DOMAIN new \subseteq Account
        /\ \A a \in DOMAIN new : new[a] = Held(p.layer, base, a) + Coin(t, a)
    BY <1>1 DEF Execute, Coin, IsPool
  <2>3. \A a \in DOMAIN new : new[a] \in Nat
    BY <1>1, <1>3, <2>2 DEF CanPay, Coin
  <2>4. \A a \in Account : Held(new, base, a) = Held(p.layer, base, a) + Coin(t, a)
    <3>1. ASSUME NEW a \in Account, a \notin DOMAIN new
          PROVE  /\ a \notin DOMAIN p.layer
                 /\ Coin(t, a) = 0
      BY <3>1 DEF Execute, Coin
    <3> HIDE DEF new
    <3> QED
      BY <1>1, <2>2, <3>1 DEF Held
  <2> HIDE DEF new
  <2> QED
    BY <1>3, <2>1, <2>2, <2>3, <2>4 DEF IsPool
<1>4. CASE Fits(t, s) /\ ~CanPay(p.layer, base, t)
  <2> DEFINE new == Read(p.layer, base, Payer[t])
  <2>1. Checked(p, t, base, s) = [txs |-> p.txs \ {t}, layer |-> new]
    BY <1>4 DEF Checked
  <2>2. /\ DOMAIN new \subseteq Account
        /\ \A a \in DOMAIN new : new[a] = Held(p.layer, base, a)
        /\ DOMAIN p.layer \subseteq DOMAIN new
    BY <1>1 DEF Read, IsPool
  <2> HIDE DEF new
  <2>3. \A a \in Account : Held(new, base, a) = Held(p.layer, base, a)
    BY <2>2 DEF Held
  <2> QED
    BY <1>1, <2>1, <2>2, <2>3 DEF IsPool
<1> QED
  BY <1>2, <1>3, <1>4

(* ReScanMemPoolTx is a loop: the pool after each transaction. *)
LEMMA ScanSteps ==
    ASSUME NEW p, NEW base, NEW s
    PROVE  \E scan :
              /\ scan[0] = [p EXCEPT !.layer = <<>>]
              /\ \A i \in 1..Len(HashOrder) :
                    scan[i] = IF HashOrder[i] \in p.txs
                              THEN Checked(scan[i - 1], HashOrder[i], base, s)
                              ELSE scan[i - 1]
              /\ Rescanned(p, base, s) = scan[Len(HashOrder)]
<1> DEFINE Loop(f, n) ==
               [i \in 0..n |->
                   IF i = 0 THEN [p EXCEPT !.layer = <<>>]
                   ELSE IF HashOrder[i] \in p.txs
                        THEN Checked(f[i - 1], HashOrder[i], base, s) ELSE f[i - 1]]
           S == {n \in Nat : \E f : f = Loop(f, n)}
<1>1. 0 \in S
  <2> DEFINE f == [i \in 0..0 |-> [p EXCEPT !.layer = <<>>]]
  <2>1. f = Loop(f, 0)
    OBVIOUS
  <2> QED
    BY <2>1
<1>2. ASSUME NEW n \in Nat, n \in S
      PROVE  n + 1 \in S
  <2>1. PICK f : f = Loop(f, n)
    BY <1>2
  <2> DEFINE g == [i \in 0..(n + 1) |-> IF i \in 0..n THEN f[i] ELSE Loop(f, n + 1)[i]]
  <2>2. ASSUME NEW i \in 0..(n + 1) PROVE g[i] = Loop(g, n + 1)[i]
    <3>1. CASE i = 0
      BY <2>1, <3>1
    <3>2. CASE i # 0
      <4>1. i - 1 \in 0..n /\ g[i - 1] = f[i - 1]
        BY <3>2
      <4>2. CASE i \in 0..n
        BY <2>1, <3>2, <4>1, <4>2
      <4>3. CASE i = n + 1
        BY <3>2, <4>1, <4>3
      <4> QED
        BY <4>2, <4>3
    <3> QED
      BY <3>1, <3>2
  <2>3. g = Loop(g, n + 1)
    BY <2>2
  <2>4. \E h : h = Loop(h, n + 1)
    BY <2>3
  <2> QED
    BY <2>4
<1> HIDE DEF S
<1>3. Len(HashOrder) \in Nat
  BY PoolAssumption
<1>4. Len(HashOrder) \in S
  BY <1>1, <1>2, <1>3, SetInduction
<1>5. \E f : f = Loop(f, Len(HashOrder))
  BY <1>4 DEF S
<1> DEFINE scan == CHOOSE f : f = Loop(f, Len(HashOrder))
<1>6. scan = Loop(scan, Len(HashOrder))
  BY <1>5
<1>7. Rescanned(p, base, s) = scan[Len(HashOrder)]
  BY DEF Rescanned
<1> HIDE DEF scan
<1>8. /\ scan[0] = [p EXCEPT !.layer = <<>>]
      /\ \A i \in 1..Len(HashOrder) :
            scan[i] = IF HashOrder[i] \in p.txs
                      THEN Checked(scan[i - 1], HashOrder[i], base, s)
                      ELSE scan[i - 1]
  BY <1>3, <1>6
<1> QED
  BY <1>7, <1>8

(* It leaves transactions that fit the tip, and a view of just these. *)
LEMMA RescanInStep ==
    ASSUME NEW p, IsPool(p), NEW base \in [Account -> Nat], NEW s
    PROVE  /\ IsPool(Rescanned(p, base, s))
           /\ \A t \in Rescanned(p, base, s).txs : Fits(t, s)
           /\ Shows(Rescanned(p, base, s).layer, base, Rescanned(p, base, s).txs)
<1>1. PICK scan :
          /\ scan[0] = [p EXCEPT !.layer = <<>>]
          /\ \A i \in 1..Len(HashOrder) :
                scan[i] = IF HashOrder[i] \in p.txs
                          THEN Checked(scan[i - 1], HashOrder[i], base, s)
                          ELSE scan[i - 1]
          /\ Rescanned(p, base, s) = scan[Len(HashOrder)]
  BY ScanSteps
<1> DEFINE n == Len(HashOrder)
           Seen(i) == {HashOrder[j] : j \in 1..i}
           Good(q, i) == /\ IsPool(q) /\ q.txs \subseteq p.txs
                         /\ \A t \in q.txs \cap Seen(i) : Fits(t, s)
                         /\ Shows(q.layer, base, q.txs \cap Seen(i))
           S == {i \in Nat : i <= n => Good(scan[i], i)}
<1>2. /\ n \in Nat /\ DOMAIN HashOrder = 1..n
      /\ \A i \in 1..n : HashOrder[i] \in Tx
      /\ \A i, j \in 1..n : HashOrder[i] = HashOrder[j] => i = j
      /\ Seen(n) = Tx
  BY PoolAssumption, LenProperties, ElementOfSeq DEF IsInjective, ToSet
<1>3. base \in [Account -> Int]
  OBVIOUS
<1>4. 0 \in S
  <2>1. Seen(0) = {}
    OBVIOUS
  <2>2. scan[0] = [txs |-> p.txs, layer |-> <<>>] /\ DOMAIN <<>> = {}
    BY <1>1 DEF IsPool
  <2>3. Shows(<<>>, base, {})
    BY <1>3, <2>2, MovedNothing DEF Shows, Held
  <2>4. IsPool(scan[0])
    BY <2>2 DEF IsPool
  <2> HIDE DEF Seen
  <2>5. scan[0].txs = p.txs /\ scan[0].txs \cap Seen(0) = {} /\ scan[0].layer = <<>>
    BY <2>1, <2>2
  <2>6. Good(scan[0], 0)
    BY <2>3, <2>4, <2>5
  <2> QED
    BY <2>6
<1>5. ASSUME NEW i \in Nat, i \in S
      PROVE  i + 1 \in S
  <2> SUFFICES ASSUME i + 1 <= n PROVE Good(scan[i + 1], i + 1)
    OBVIOUS
  <2> DEFINE t == HashOrder[i + 1]
             q == scan[i]
             r == scan[i + 1]
  <2>1. /\ Seen(i + 1) = Seen(i) \cup {t} /\ t \notin Seen(i) /\ t \in Tx
        /\ Good(q, i)
    BY <1>2, <1>5
  <2>2. r = IF t \in p.txs THEN Checked(q, t, base, s) ELSE q
    <3>1. i + 1 \in 1..n /\ (i + 1) - 1 = i
      BY <1>2
    <3> QED
      BY <1>1, <3>1
  <2> HIDE DEF Seen, t, q, r
  <2>3. CASE t \notin p.txs
    <3>1. r = q /\ q.txs \cap Seen(i + 1) = q.txs \cap Seen(i)
      BY <2>1, <2>2, <2>3
    <3> QED
      BY <2>1, <3>1 DEF r
  <2>4. CASE t \in p.txs
    <3>1. r = Checked(q, t, base, s) /\ IsPool(q)
      BY <2>1, <2>2, <2>4
    <3>2. CASE /\ IsPool(r)
               /\ r.txs = q.txs \ {t}
               /\ \A a \in Account : Held(r.layer, base, a) = Held(q.layer, base, a)
      <4>1. r.txs \cap Seen(i + 1) = q.txs \cap Seen(i)
        BY <2>1, <3>2
      <4> QED
        BY <2>1, <3>2, <4>1 DEF r, Shows
    <3>3. CASE /\ IsPool(r)
               /\ r.txs = q.txs \cup {t}
               /\ Fits(t, s)
               /\ \A a \in Account :
                     Held(r.layer, base, a) = Held(q.layer, base, a) + Coin(t, a)
      <4> DEFINE T == q.txs \cap Seen(i)
      <4>1. r.txs \cap Seen(i + 1) = T \cup {t} /\ t \in Tx \ T /\ T \in SUBSET Tx
        BY <2>1, <3>3 DEF IsPool
      <4>2. \A u \in r.txs \cap Seen(i + 1) : Fits(u, s)
        BY <2>1, <3>3, <4>1
      <4>3. Shows(q.layer, base, T)
        BY <2>1
      <4> HIDE DEF T
      <4>4. Shows(r.layer, base, T \cup {t})
        BY <1>3, <3>3, <4>1, <4>3, MovedOneMore DEF Shows
      <4> QED
        BY <2>1, <2>4, <3>3, <4>1, <4>2, <4>4 DEF r
    <3> QED
      BY <2>1, <3>1, <3>2, <3>3, CheckedCases
  <2> QED
    BY <2>3, <2>4
<1> HIDE DEF S, Seen, Good
<1>6. Good(scan[n], n)
  <2>1. n \in S
    BY <1>2, <1>4, <1>5, SetInduction
  <2> QED
    BY <1>2, <2>1 DEF S
<1>7. scan[n].txs \cap Seen(n) = scan[n].txs
  BY <1>2, <1>6 DEF Good, IsPool
<1> QED
  BY <1>1, <1>6, <1>7 DEF Good

(* AcceptToMemoryPool leaves a pool. *)
LEMMA AcceptedIsPool ==
    ASSUME NEW p, IsPool(p), NEW t \in Tx, NEW base \in [Account -> Nat], NEW s
    PROVE  IsPool(Accepted(p, t, base, s))
  BY CheckedCases DEF Accepted

(* So does DisconnectTip, a loop of the same. *)
LEMMA BackSteps ==
    ASSUME NEW p, NEW txs \in Seq(Tx), NEW base, NEW s
    PROVE  \E back :
              /\ back[0] = p
              /\ \A i \in 1..Len(txs) : back[i] = Accepted(back[i - 1], txs[i], base, s)
              /\ PutBack(p, txs, base, s) = back[Len(txs)]
<1> DEFINE Loop(f, n) ==
               [i \in 0..n |->
                   IF i = 0 THEN p ELSE Accepted(f[i - 1], txs[i], base, s)]
           S == {n \in Nat : \E f : f = Loop(f, n)}
<1>1. 0 \in S
  <2> DEFINE f == [i \in 0..0 |-> p]
  <2>1. f = Loop(f, 0)
    OBVIOUS
  <2> QED
    BY <2>1
<1>2. ASSUME NEW n \in Nat, n \in S
      PROVE  n + 1 \in S
  <2>1. PICK f : f = Loop(f, n)
    BY <1>2
  <2> DEFINE g == [i \in 0..(n + 1) |-> IF i \in 0..n THEN f[i] ELSE Loop(f, n + 1)[i]]
  <2>2. ASSUME NEW i \in 0..(n + 1) PROVE g[i] = Loop(g, n + 1)[i]
    <3>1. CASE i = 0
      BY <2>1, <3>1
    <3>2. CASE i # 0
      <4>1. i - 1 \in 0..n /\ g[i - 1] = f[i - 1]
        BY <3>2
      <4>2. CASE i \in 0..n
        BY <2>1, <3>2, <4>1, <4>2
      <4>3. CASE i = n + 1
        BY <3>2, <4>1, <4>3
      <4> QED
        BY <4>2, <4>3
    <3> QED
      BY <3>1, <3>2
  <2>3. g = Loop(g, n + 1)
    BY <2>2
  <2>4. \E h : h = Loop(h, n + 1)
    BY <2>3
  <2> QED
    BY <2>4
<1> HIDE DEF S
<1>3. Len(txs) \in Nat
  BY LenProperties
<1>4. Len(txs) \in S
  BY <1>1, <1>2, <1>3, SetInduction
<1>5. \E f : f = Loop(f, Len(txs))
  BY <1>4 DEF S
<1> DEFINE back == CHOOSE f : f = Loop(f, Len(txs))
<1>6. back = Loop(back, Len(txs))
  BY <1>5
<1>7. PutBack(p, txs, base, s) = back[Len(txs)]
  BY DEF PutBack
<1> HIDE DEF back
<1>8. /\ back[0] = p
      /\ \A i \in 1..Len(txs) : back[i] = Accepted(back[i - 1], txs[i], base, s)
  BY <1>3, <1>6
<1> QED
  BY <1>7, <1>8

LEMMA PutBackIsPool ==
    ASSUME NEW p, IsPool(p), NEW txs \in Seq(Tx), NEW base \in [Account -> Nat], NEW s
    PROVE  IsPool(PutBack(p, txs, base, s))
<1>1. Len(txs) \in Nat /\ \A i \in 1..Len(txs) : txs[i] \in Tx
  BY LenProperties, ElementOfSeq
<1>2. PICK back :
          /\ back[0] = p
          /\ \A i \in 1..Len(txs) : back[i] = Accepted(back[i - 1], txs[i], base, s)
          /\ PutBack(p, txs, base, s) = back[Len(txs)]
  BY BackSteps
<1> DEFINE S == {i \in Nat : i <= Len(txs) => IsPool(back[i])}
<1>3. 0 \in S
  BY <1>2
<1>4. ASSUME NEW i \in Nat, i \in S
      PROVE  i + 1 \in S
  <2> SUFFICES ASSUME i + 1 <= Len(txs) PROVE IsPool(back[i + 1])
    OBVIOUS
  <2>1. /\ i + 1 \in 1..Len(txs) /\ (i + 1) - 1 = i
        /\ IsPool(back[i]) /\ txs[i + 1] \in Tx
    BY <1>1, <1>4
  <2>2. back[i + 1] = Accepted(back[i], txs[i + 1], base, s)
    BY <1>2, <2>1
  <2> QED
    BY <2>1, <2>2, AcceptedIsPool
<1> HIDE DEF S
<1>5. Len(txs) \in S
  BY <1>1, <1>3, <1>4, SetInduction
<1> QED
  BY <1>1, <1>2, <1>5 DEF S

-----------------------------------------------------------------------------
(* The blocks of the chain.                                                *)

LEMMA FrontOfChain ==
    ASSUME NEW s \in Seq(SUBSET Tx), s # <<>>
    PROVE  /\ Front(s) \in Seq(SUBSET Tx) /\ Last(s) \in SUBSET Tx
           /\ Last(s) = s[Len(s)] /\ Len(s) \in Nat \ {0}
           /\ Len(Front(s)) = Len(s) - 1
           /\ \A i \in 1..(Len(s) - 1) : Front(s)[i] = s[i]
<1> DEFINE n == Len(s)
           u == SubSeq(s, 1, n - 1)
<1>1. n \in Nat \ {0} /\ n - 1 \in Int /\ \A i \in 1..n : s[i] \in SUBSET Tx
  BY EmptySeq, LenProperties, ElementOfSeq
<1>2. /\ u \in Seq(SUBSET Tx)
      /\ Len(u) = IF 1 <= n - 1 THEN n - 1 - 1 + 1 ELSE 0
      /\ \A i \in 1..(n - 1 - 1 + 1) : u[i] = s[1 + i - 1]
  <2>1. \A i \in 1..(n - 1) : s[i] \in SUBSET Tx
    BY <1>1
  <2> QED
    BY <1>1, <2>1, SubSeqProperties
<1>3. Front(s) = u /\ Last(s) = s[n]
  BY DEF Front, Last
<1> HIDE DEF n, u
<1>4. u \in Seq(SUBSET Tx) /\ Len(u) = n - 1 /\ \A i \in 1..(n - 1) : u[i] = s[i]
  BY <1>1, <1>2
<1>5. s[n] \in SUBSET Tx
  BY <1>1
<1> QED
  BY <1>1, <1>3, <1>4, <1>5 DEF n

(* A transaction is among the last CacheHeight blocks of a chain. *)
LEMMA ConfirmedAt ==
    ASSUME NEW s \in Seq(SUBSET Tx), NEW t
    PROVE  Confirmed(t, s) <=> \E i \in 1..Len(s) : i > Len(s) - CacheHeight /\ t \in s[i]
<1>1. DOMAIN s = 1..Len(s) /\ Len(s) \in Nat
  BY LenProperties
<1>2. \A b : b \in RecentOf(s) <=>
          \E i \in 1..Len(s) : i > Len(s) - CacheHeight
                               /\ b = [height |-> i, txs |-> s[i], nonce |-> 0]
  BY <1>1 DEF RecentOf, Blocks
<1>3. ASSUME Confirmed(t, s)
      PROVE  \E i \in 1..Len(s) : i > Len(s) - CacheHeight /\ t \in s[i]
  <2>1. PICK b \in RecentOf(s) : t \in b.txs
    BY <1>3 DEF Confirmed
  <2> QED
    BY <1>2, <2>1
<1>4. ASSUME NEW i \in 1..Len(s), i > Len(s) - CacheHeight, t \in s[i]
      PROVE  Confirmed(t, s)
  <2> DEFINE b == [height |-> i, txs |-> s[i], nonce |-> 0]
  <2>1. b \in RecentOf(s) /\ b.txs = s[i]
    BY <1>2, <1>4
  <2> HIDE DEF b
  <2> QED
    BY <1>4, <2>1 DEF Confirmed
<1> QED
  BY <1>3, <1>4

(* One that is valid for two heights this far apart would have to be valid *)
(* for heights further apart than the window is wide.                      *)
LEMMA ValidInWindow ==
    ASSUME NEW t \in Tx, NEW h \in Nat, NEW k \in Nat,
           Confirm!IsValidHeight(t, h), Confirm!IsValidHeight(t, k)
    PROVE  h - k <= CacheHeight
  BY PoolAssumption DEF Confirm!IsValidHeight

-----------------------------------------------------------------------------
(* The inductive invariant.                                                *)

(* F[i] are the accounts after the first i blocks of s. *)
FundsAlong(s, F) ==
    /\ F \in [0..Len(s) -> [Account -> Nat]]
    /\ F[0] = Funds
    /\ \A i \in 1..Len(s) : F[i] = Moved(F[i - 1], s[i], 1)

FundsAfter(s, f) == \E F : FundsAlong(s, F) /\ F[Len(s)] = f

FundsFollowChain == FundsAfter(chain, funds)

ConfirmedInWindow ==
    \A i \in 1..Len(chain) : \A t \in chain[i] : Confirm!IsValidHeight(t, i - 1)

FreshPoolInStep ==
    fresh => /\ \A t \in pool : Fits(t, chain)
             /\ Shows(poolView, funds, pool)

(* A template can be connected to the chain it was made for, if it was     *)
(* made from a pool in step.                                               *)
Promised(b) ==
    /\ \A t \in b.txs : Fits(t, b.on)
    /\ \E f : FundsAfter(b.on, f) /\ Executable(f, b.txs)

TemplateFits == template # NoBlock /\ template.sound => Promised(template)

IInv ==
    /\ TypeOK
    /\ FundsFollowChain
    /\ ConfirmedInWindow
    /\ FreshPoolInStep
    /\ TemplateFits

(* There is one way through a chain. *)
LEMMA FundsOnce ==
    ASSUME NEW s \in Seq(SUBSET Tx), NEW f, NEW g, FundsAfter(s, f), FundsAfter(s, g)
    PROVE  f = g
<1>1. PICK F : FundsAlong(s, F) /\ F[Len(s)] = f
  BY DEF FundsAfter
<1>2. PICK G : FundsAlong(s, G) /\ G[Len(s)] = g
  BY DEF FundsAfter
<1> DEFINE S == {n \in Nat : n <= Len(s) => F[n] = G[n]}
<1>3. 0 \in S
  BY <1>1, <1>2 DEF FundsAlong
<1>4. ASSUME NEW n \in Nat, n \in S
      PROVE  n + 1 \in S
  <2> SUFFICES ASSUME n + 1 <= Len(s) PROVE F[n + 1] = G[n + 1]
    OBVIOUS
  <2>1. Len(s) \in Nat
    BY LenProperties
  <2>2. F[n] = G[n] /\ n + 1 \in 1..Len(s) /\ (n + 1) - 1 = n
    BY <1>4, <2>1
  <2>3. F[n + 1] = Moved(F[n], s[n + 1], 1) /\ G[n + 1] = Moved(G[n], s[n + 1], 1)
    BY <1>1, <1>2, <2>2 DEF FundsAlong
  <2> QED
    BY <2>2, <2>3
<1> HIDE DEF S
<1>5. Len(s) \in Nat
  BY LenProperties
<1>6. Len(s) \in S
  BY <1>3, <1>4, <1>5, SetInduction
<1> QED
  BY <1>1, <1>2, <1>5, <1>6 DEF S

(* A block further, and back. *)
LEMMA FundsOneMore ==
    ASSUME NEW s \in Seq(SUBSET Tx), NEW f \in [Account -> Nat], FundsAfter(s, f),
           NEW T \in SUBSET Tx, Executable(f, T)
    PROVE  FundsAfter(Append(s, T), Moved(f, T, 1))
<1> DEFINE n == Len(s)
           u == Append(s, T)
<1>1. /\ n \in Nat /\ Len(u) = n + 1 /\ u[n + 1] = T
      /\ \A i \in 1..n : u[i] = s[i]
  BY AppendProperties, LenProperties
<1>2. PICK F : FundsAlong(s, F) /\ F[n] = f
  BY DEF FundsAfter
<1>3. Moved(f, T, 1) \in [Account -> Nat]
  BY ExecutableIsCovered
<1> DEFINE G == [i \in 0..(n + 1) |-> IF i <= n THEN F[i] ELSE Moved(f, T, 1)]
<1> HIDE DEF n, u
<1>4. G \in [0..(n + 1) -> [Account -> Nat]]
  BY <1>1, <1>2, <1>3 DEF FundsAlong, n
<1>5. ASSUME NEW i \in 1..(n + 1)
      PROVE  G[i] = Moved(G[i - 1], u[i], 1)
  <2>1. i - 1 \in 0..n /\ G[i - 1] = F[i - 1]
    BY <1>1
  <2>2. CASE i <= n
    <3>1. i \in 1..n /\ G[i] = F[i] /\ u[i] = s[i]
      BY <1>1, <2>2
    <3>2. F[i] = Moved(F[i - 1], s[i], 1)
      BY <1>2, <3>1 DEF FundsAlong, n
    <3> QED
      BY <2>1, <3>1, <3>2
  <2>3. CASE i = n + 1
    <3>1. i - 1 = n /\ G[i] = Moved(f, T, 1) /\ u[i] = T
      BY <1>1, <2>3
    <3> QED
      BY <1>2, <2>1, <3>1
  <2> QED
    BY <1>1, <2>2, <2>3
<1>6. G[0] = Funds /\ G[n + 1] = Moved(f, T, 1)
  BY <1>1, <1>2 DEF FundsAlong
<1> HIDE DEF G
<1>7. FundsAlong(u, G) /\ G[Len(u)] = Moved(f, T, 1)
  BY <1>1, <1>4, <1>5, <1>6 DEF FundsAlong
<1> QED
  BY <1>7 DEF FundsAfter, u

LEMMA FundsOneLess ==
    ASSUME NEW s \in Seq(SUBSET Tx), s # <<>>, NEW f, FundsAfter(s, f)
    PROVE  /\ FundsAfter(Front(s), Moved(f, Last(s), -1))
           /\ Moved(f, Last(s), -1) \in [Account -> Nat]
<1> DEFINE n == Len(s)
           u == Front(s)
<1>1. /\ n \in Nat \ {0} /\ Len(u) = n - 1 /\ Last(s) = s[n] /\ s[n] \in SUBSET Tx
      /\ \A i \in 1..(n - 1) : u[i] = s[i]
  BY FrontOfChain
<1>2. PICK F : FundsAlong(s, F) /\ F[n] = f
  BY DEF FundsAfter
<1> HIDE DEF n, u
<1>3. F[n - 1] \in [Account -> Nat] /\ f = Moved(F[n - 1], s[n], 1)
  <2>1. n - 1 \in 0..n /\ n \in 1..n
    BY <1>1
  <2> QED
    BY <1>2, <2>1 DEF FundsAlong, n
<1>4. Moved(f, Last(s), -1) = F[n - 1]
  <2>1. F[n - 1] \in [Account -> Int]
    BY <1>3
  <2> QED
    BY <1>1, <1>3, <2>1, MovedType
<1> DEFINE G == [i \in 0..(n - 1) |-> F[i]]
<1>5. FundsAlong(u, G)
  <2>1. G \in [0..(n - 1) -> [Account -> Nat]] /\ G[0] = Funds
    BY <1>1, <1>2 DEF FundsAlong, n
  <2>2. ASSUME NEW i \in 1..(n - 1) PROVE G[i] = Moved(G[i - 1], u[i], 1)
    <3>1. i \in 1..n /\ i - 1 \in 0..(n - 1) /\ i \in 0..(n - 1) /\ u[i] = s[i]
      BY <1>1
    <3> QED
      BY <1>2, <3>1 DEF FundsAlong, n
  <2> HIDE DEF G
  <2> QED
    BY <1>1, <2>1, <2>2 DEF FundsAlong
<1>6. G[Len(u)] = F[n - 1]
  BY <1>1
<1> HIDE DEF G
<1> QED
  BY <1>3, <1>4, <1>5, <1>6 DEF FundsAfter, u

-----------------------------------------------------------------------------
(* The steps.                                                              *)

PoolInStep(T, layer, base, s) ==
    /\ \A t \in T : Fits(t, s)
    /\ Shows(layer, base, T)

(* Whatever ActivateBestChain did to the pool, it is in step once the      *)
(* rescan ran.                                                             *)
LEMMA MoveEnds ==
    ASSUME NEW p, IsPool(p), funds' \in [Account -> Nat], AfterMove(p)
    PROVE  /\ IsPool([txs |-> pool', layer |-> poolView'])
           /\ busy' \in BOOLEAN /\ fresh' \in BOOLEAN
           /\ fresh' => PoolInStep(pool', poolView', funds', chain')
<1>1. CASE /\ SetPool(Rescanned(p, funds', chain'))
           /\ fresh' = TRUE /\ busy' \in BOOLEAN
  <2>1. LET r == Rescanned(p, funds', chain') IN
           /\ IsPool(r) /\ \A t \in r.txs : Fits(t, chain')
           /\ Shows(r.layer, funds', r.txs)
    BY RescanInStep
  <2> QED
    BY <1>1, <2>1 DEF SetPool, IsPool, PoolInStep
<1>2. CASE SetPool(p) /\ fresh' = FALSE /\ busy' \in BOOLEAN
  BY <1>2 DEF SetPool, IsPool
<1> QED
  BY <1>1, <1>2 DEF AfterMove

LEMMA PoolOfType ==
    TypeOK <=> /\ chain \in Seq(SUBSET Tx)
               /\ funds \in [Account -> Nat]
               /\ IsPool(Pool)
               /\ busy \in BOOLEAN /\ fresh \in BOOLEAN
               /\ template = NoBlock \/ template \in Templates
  BY DEF TypeOK, IsPool, Pool

(* A block that is connected extends the chain and the accounts of it. *)
LEMMA ConnectStep ==
    ASSUME IInv, NEW T \in SUBSET Tx, CanConnect(T), ConnectTip(T)
    PROVE  /\ chain' \in Seq(SUBSET Tx) /\ funds' \in [Account -> Nat]
           /\ FundsFollowChain' /\ ConfirmedInWindow'
<1>1. /\ chain \in Seq(SUBSET Tx) /\ funds \in [Account -> Nat] /\ FundsAfter(chain, funds)
      /\ chain' = Append(chain, T) /\ funds' = Moved(funds, T, 1)
  BY DEF IInv, TypeOK, FundsFollowChain, CanConnect, ConnectTip
<1>2. Executable(funds, T)
  BY DEF CanConnect
<1>3. FundsAfter(chain', funds') /\ funds' \in [Account -> Nat]
  BY <1>1, <1>2, FundsOneMore, ExecutableIsCovered
<1>4. /\ chain' \in Seq(SUBSET Tx) /\ Len(chain) \in Nat /\ Len(chain') = Len(chain) + 1
      /\ chain'[Len(chain) + 1] = T
      /\ \A i \in 1..Len(chain) : chain'[i] = chain[i]
  BY <1>1, AppendProperties, LenProperties
<1>5. ASSUME NEW i \in 1..Len(chain'), NEW t \in chain'[i]
      PROVE  Confirm!IsValidHeight(t, i - 1)
  <2>1. CASE i \in 1..Len(chain)
    BY <1>4, <1>5, <2>1 DEF IInv, ConfirmedInWindow
  <2>2. CASE i = Len(chain) + 1
    <3>1. t \in T /\ i - 1 = Len(chain)
      BY <1>4, <2>2
    <3>2. Confirm!IsValidHeight(t, Len(chain))
      BY <3>1 DEF CanConnect, Fits
    <3> QED
      BY <3>1, <3>2
  <2> QED
    BY <1>4, <2>1, <2>2
<1>6. ConfirmedInWindow'
  BY <1>5 DEF ConfirmedInWindow, Confirm!IsValidHeight
<1> QED
  BY <1>3, <1>4, <1>6 DEF FundsFollowChain, FundsAfter, FundsAlong

(* Taking a block out of the pool, before the rescan. *)
LEMMA PoolWithout ==
    ASSUME TypeOK, NEW T
    PROVE  IsPool([Pool EXCEPT !.txs = @ \ T])
<1>1. [Pool EXCEPT !.txs = @ \ T] = [txs |-> pool \ T, layer |-> poolView]
  BY DEF Pool
<1> QED
  BY <1>1 DEF IsPool, TypeOK

(* What a template promises is about the chain it was made for: it does    *)
(* not change with the tip.                                                *)
LEMMA FitsIsRigid == \A t, s : Fits(t, s)' <=> Fits(t, s)
  BY DEF Fits, Confirmed, RecentOf, Blocks, Confirm!IsValidHeight

LEMMA ExecutableIsRigid == \A f, T : Executable(f, T)' <=> Executable(f, T)
  BY Zenon DEF Executable, CanPay, Held, Moved

LEMMA PromiseIsRigid == \A b : Promised(b)' <=> Promised(b)
  BY Zenon, FitsIsRigid, ExecutableIsRigid DEF Promised, FundsAfter, FundsAlong, Moved

LEMMA TemplateStays ==
    ASSUME TemplateFits, UNCHANGED template
    PROVE  TemplateFits'
  BY Zenon, PromiseIsRigid DEF TemplateFits

(* Nor does the pool get out of step while the tip stays. *)
LEMMA TipStays ==
    ASSUME IInv, UNCHANGED <<chain, funds>>
    PROVE  /\ FundsFollowChain' /\ ConfirmedInWindow'
           /\ PoolInStep(pool', poolView', funds, chain)
                => PoolInStep(pool', poolView', funds', chain')
  BY DEF IInv, FundsFollowChain, ConfirmedInWindow

(* The invariant holds of a node that starts with the genesis block. *)
THEOREM MempoolInit == Init => IInv
<1> SUFFICES ASSUME Init PROVE IInv
  OBVIOUS
<1>1. TypeOK
  <2>1. <<>> \in Seq(SUBSET Tx) /\ DOMAIN <<>> = {}
    OBVIOUS
  <2> QED
    BY <2>1, PoolAssumption DEF Init, TypeOK
<1>2. FundsFollowChain
  <2> DEFINE F == [i \in 0..0 |-> Funds]
  <2>1. FundsAlong(<<>>, F) /\ F[Len(<<>>)] = Funds
    <3>1. Len(<<>>) = 0
      OBVIOUS
    <3> QED
      BY <3>1, PoolAssumption DEF FundsAlong
  <2> HIDE DEF F
  <2>2. FundsAfter(<<>>, Funds)
    BY <2>1 DEF FundsAfter
  <2> QED
    BY <2>2 DEF Init, FundsFollowChain
<1>3. ConfirmedInWindow
  BY DEF Init, ConfirmedInWindow
<1>4. FreshPoolInStep
  <2>1. Shows(<<>>, funds, {})
    <3>1. funds \in [Account -> Int]
      BY <1>1 DEF TypeOK
    <3> QED
      BY <3>1, MovedNothing DEF Shows, Held
  <2> QED
    BY <2>1 DEF Init, FreshPoolInStep
<1>5. TemplateFits
  BY DEF Init, TemplateFits
<1> QED
  BY <1>1, <1>2, <1>3, <1>4, <1>5 DEF IInv

(* Every step of the pool, of the chain and of the miner preserves it. *)
THEOREM MempoolStep == IInv /\ [Next]_vars => IInv'
<1> SUFFICES ASSUME IInv, [Next]_vars PROVE IInv'
  OBVIOUS
<1> USE DEF tipVars, poolVars
<1>1. /\ chain \in Seq(SUBSET Tx) /\ funds \in [Account -> Nat] /\ IsPool(Pool)
      /\ busy \in BOOLEAN /\ fresh \in BOOLEAN
      /\ template = NoBlock \/ template \in Templates
      /\ Pool.txs = pool /\ Pool.layer = poolView
      /\ FundsFollowChain /\ ConfirmedInWindow /\ FreshPoolInStep /\ TemplateFits
  BY PoolOfType DEF IInv, Pool
<1>2. ASSUME NEW a \in Account, GetRawBalance(a)
      PROVE  IInv'
  <2>1. /\ UNCHANGED <<chain, funds, busy, fresh, pool, template>>
        /\ poolView' = Read(poolView, funds, a)
    BY <1>2 DEF GetRawBalance
  <2>2. /\ DOMAIN poolView' = DOMAIN poolView \cup {a}
        /\ \A b \in DOMAIN poolView' : poolView'[b] = Held(poolView, funds, b)
    BY <2>1 DEF Read
  <2>3. \A b \in Account : /\ Held(poolView, funds, b) \in Nat
                           /\ Held(poolView', funds, b) = Held(poolView, funds, b)
    BY <1>1, <2>2 DEF Held, IsPool
  <2>4. IsPool(Pool')
    BY <1>1, <2>1, <2>2, <2>3 DEF IsPool, Pool
  <2>5. FreshPoolInStep'
    BY <1>1, <2>1, <2>3, TipStays DEF FreshPoolInStep, Shows, PoolInStep
  <2>6. TypeOK'
    BY <1>1, <2>1, <2>4 DEF IsPool, Pool, TypeOK
  <2> QED
    BY <2>1, <2>5, <2>6, <1>1, TipStays, TemplateStays DEF IInv
<1>3. ASSUME NEW t \in Tx, AcceptToMemoryPool(t)
      PROVE  IInv'
  <2> DEFINE p == Accepted(Pool, t, funds, chain)
  <2>1. /\ UNCHANGED <<chain, funds, busy, fresh, template>>
        /\ pool' = p.txs /\ poolView' = p.layer
    BY <1>3 DEF AcceptToMemoryPool, SetPool
  <2>2. IsPool(p)
    BY <1>1, AcceptedIsPool
  <2>3. CASE t \in pool
    <3>1. p = Pool
      BY <1>1, <2>3 DEF Accepted
    <3> QED
      BY <1>1, <2>1, <3>1, TipStays, TemplateStays
      DEF IInv, FreshPoolInStep, PoolInStep, TypeOK
  <2>4. CASE t \notin pool
    <3>1. p = Checked(Pool, t, funds, chain)
      BY <1>1, <2>4 DEF Accepted
    <3> HIDE DEF p
    <3>2. ASSUME fresh PROVE PoolInStep(pool', poolView', funds, chain)
      <4>1. PoolInStep(pool, poolView, funds, chain)
        BY <1>1, <3>2 DEF FreshPoolInStep, PoolInStep
      <4>2. CASE /\ p.txs = pool \ {t}
                 /\ \A a \in Account : Held(p.layer, funds, a) = Held(poolView, funds, a)
        <5>1. p.txs = pool
          BY <2>4, <4>2
        <5> QED
          BY <2>1, <4>1, <4>2, <5>1 DEF PoolInStep, Shows
      <4>3. CASE /\ p.txs = pool \cup {t}
                 /\ Fits(t, chain)
                 /\ \A a \in Account : Held(p.layer, funds, a)
                                       = Held(poolView, funds, a) + Coin(t, a)
        <5>1. funds \in [Account -> Int] /\ pool \in SUBSET Tx /\ t \in Tx \ pool
          BY <1>1, <2>4 DEF IsPool
        <5>2. Shows(poolView', funds, pool \cup {t})
          BY <2>1, <4>1, <4>3, <5>1, MovedOneMore DEF Shows, PoolInStep
        <5> QED
          BY <2>1, <4>1, <4>3, <5>2 DEF PoolInStep
      <4> QED
        BY <1>1, <3>1, <4>2, <4>3, CheckedCases
    <3>3. FreshPoolInStep'
      BY <2>1, <3>2, TipStays DEF FreshPoolInStep, PoolInStep
    <3>4. TypeOK'
      BY <1>1, <2>1, <2>2 DEF TypeOK, IsPool
    <3> QED
      BY <1>1, <2>1, <3>3, <3>4, TipStays, TemplateStays DEF IInv
  <2> QED
    BY <2>3, <2>4
<1>4. ASSUME NEW T \in SUBSET Tx, Connect(T)
      PROVE  IInv'
  <2> DEFINE p == [Pool EXCEPT !.txs = @ \ T]
  <2>1. /\ CanConnect(T) /\ ConnectTip(T) /\ AfterMove(p) /\ UNCHANGED template
    BY <1>4 DEF Connect
  <2>2. IsPool(p)
    BY PoolWithout DEF IInv
  <2> HIDE DEF p
  <2>3. /\ chain' \in Seq(SUBSET Tx) /\ funds' \in [Account -> Nat]
        /\ FundsFollowChain' /\ ConfirmedInWindow'
    BY <2>1, ConnectStep
  <2>4. /\ IsPool([txs |-> pool', layer |-> poolView'])
        /\ busy' \in BOOLEAN /\ fresh' \in BOOLEAN
        /\ fresh' => PoolInStep(pool', poolView', funds', chain')
    BY <2>1, <2>2, <2>3, MoveEnds
  <2>5. TypeOK' /\ FreshPoolInStep'
    BY <1>1, <2>1, <2>3, <2>4 DEF TypeOK, IsPool, FreshPoolInStep, PoolInStep
  <2> QED
    BY <1>1, <2>1, <2>3, <2>5, TemplateStays DEF IInv
<1>5. ASSUME Disconnect
      PROVE  IInv'
  <2>1. /\ chain # <<>> /\ chain' = Front(chain) /\ funds' = Moved(funds, Last(chain), -1)
        /\ UNCHANGED template
    BY <1>5 DEF Disconnect
  <2>2. PICK s \in SetToSeqs(Last(chain)) : AfterMove(PutBack(Pool, s, funds', chain'))
    BY <1>5 DEF Disconnect
  <2>3. /\ chain' \in Seq(SUBSET Tx) /\ Last(chain) \in SUBSET Tx
        /\ Len(chain) \in Nat \ {0} /\ Len(chain') = Len(chain) - 1
        /\ \A i \in 1..(Len(chain) - 1) : chain'[i] = chain[i]
    BY <1>1, <2>1, FrontOfChain
  <2>4. FundsFollowChain' /\ funds' \in [Account -> Nat]
    <3>1. FundsAfter(chain', funds') /\ funds' \in [Account -> Nat]
      BY <1>1, <2>1, FundsOneLess DEF FundsFollowChain
    <3> QED
      BY <3>1 DEF FundsFollowChain, FundsAfter, FundsAlong
  <2>5. ConfirmedInWindow'
    <3>1. \A i \in 1..(Len(chain) - 1) : \A t \in chain[i] : Confirm!IsValidHeight(t, i - 1)
      BY <1>1, <2>3 DEF ConfirmedInWindow
    <3> QED
      BY <2>3, <3>1 DEF ConfirmedInWindow, Confirm!IsValidHeight
  <2>6. s \in Seq(Tx)
    <3>1. IsFiniteSet(Last(chain))
      BY <2>3, TxFinite, FS_Subset
    <3>2. s \in Seq(Last(chain)) /\ Len(s) \in Nat
      BY <3>1, ListsAll, LenProperties
    <3> QED
      BY <2>3, <3>2, ElementOfSeq, SeqDef
  <2>7. IsPool(PutBack(Pool, s, funds', chain'))
    BY <1>1, <2>4, <2>6, PutBackIsPool
  <2>8. /\ IsPool([txs |-> pool', layer |-> poolView'])
        /\ busy' \in BOOLEAN /\ fresh' \in BOOLEAN
        /\ fresh' => PoolInStep(pool', poolView', funds', chain')
    BY <2>2, <2>4, <2>7, MoveEnds
  <2>9. TypeOK' /\ FreshPoolInStep'
    BY <1>1, <2>1, <2>3, <2>4, <2>8 DEF TypeOK, IsPool, FreshPoolInStep, PoolInStep
  <2> QED
    BY <1>1, <2>1, <2>4, <2>5, <2>9, TemplateStays DEF IInv
<1>6. ASSUME NEW T \in SUBSET pool, CreateNewBlock(T)
      PROVE  IInv'
  <2>1. /\ UNCHANGED <<chain, funds, busy, fresh, pool, poolView>>
        /\ template' = [on |-> chain, txs |-> T, sound |-> fresh]
        /\ Executable(funds, T)
    BY <1>6 DEF CreateNewBlock
  <2>2. TypeOK' /\ FreshPoolInStep'
    <3>1. template' \in Templates
      BY <1>1, <2>1 DEF Templates, IsPool
    <3> QED
      BY <1>1, <2>1, <3>1, TipStays DEF TypeOK, IInv, FreshPoolInStep, PoolInStep
  <2>3. fresh => (\A t \in T : Fits(t, chain))
    BY <1>1 DEF FreshPoolInStep
  <2>4. FundsAfter(chain, funds)
    BY <1>1 DEF FundsFollowChain
  <2> DEFINE b == [on |-> chain, txs |-> T, sound |-> fresh]
  <2>5. b.sound => Promised(b)
    BY <2>1, <2>3, <2>4 DEF Promised
  <2> HIDE DEF b
  <2>6. template' = b
    BY <2>1 DEF b
  <2>7. TemplateFits'
    BY <2>5, <2>6, PromiseIsRigid, Zenon DEF TemplateFits
  <2> QED
    BY <2>1, <2>2, <2>7, TipStays DEF IInv
<1>7. CASE CheckWork
  <2>1. template' = NoBlock /\ template # NoBlock
    BY <1>7 DEF CheckWork
  <2>2. TemplateFits'
    BY <2>1 DEF TemplateFits
  <2>3. CASE UNCHANGED <<tipVars, poolVars>>
    <3>1. TypeOK' /\ FreshPoolInStep'
      BY <1>1, <2>1, <2>3, TipStays DEF TypeOK, IInv, FreshPoolInStep, PoolInStep
    <3> QED
      BY <2>2, <2>3, <3>1, TipStays DEF IInv
  <2>4. CASE /\ template.on = chain /\ CanConnect(template.txs)
             /\ ConnectTip(template.txs)
             /\ SetPool(Rescanned([Pool EXCEPT !.txs = @ \ template.txs], funds', chain'))
             /\ fresh' = TRUE
             /\ busy' = FALSE
    <3> DEFINE T == template.txs
               p == [Pool EXCEPT !.txs = @ \ T]
    <3>1. T \in SUBSET Tx
      BY <1>1, <2>1 DEF Templates
    <3>2. IsPool(p)
      BY PoolWithout DEF IInv
    <3>3. CanConnect(T) /\ ConnectTip(T) /\ AfterMove(p)
      BY <2>4 DEF AfterMove
    <3> HIDE DEF T, p
    <3>4. /\ chain' \in Seq(SUBSET Tx) /\ funds' \in [Account -> Nat]
          /\ FundsFollowChain' /\ ConfirmedInWindow'
      BY <3>1, <3>3, ConnectStep
    <3>5. /\ IsPool([txs |-> pool', layer |-> poolView'])
          /\ busy' \in BOOLEAN /\ fresh' \in BOOLEAN
          /\ fresh' => PoolInStep(pool', poolView', funds', chain')
      BY <3>2, <3>3, <3>4, MoveEnds
    <3>6. TypeOK' /\ FreshPoolInStep'
      BY <2>1, <3>4, <3>5 DEF TypeOK, IsPool, FreshPoolInStep, PoolInStep
    <3> QED
      BY <2>2, <3>4, <3>6 DEF IInv
  <2> QED
    BY <1>7, <2>3, <2>4 DEF CheckWork
<1>8. CASE Abandon
  <2>1. UNCHANGED <<tipVars, poolVars>> /\ template' = NoBlock
    BY <1>8 DEF Abandon
  <2>2. TypeOK' /\ FreshPoolInStep' /\ TemplateFits'
    BY <1>1, <2>1, TipStays DEF TypeOK, IInv, FreshPoolInStep, PoolInStep, TemplateFits
  <2> QED
    BY <2>1, <2>2, TipStays DEF IInv
<1>9. CASE Restart
  <2>1. /\ UNCHANGED <<chain, funds, busy>> /\ template' = NoBlock
        /\ pool' = {} /\ poolView' = <<>> /\ fresh' = TRUE
    BY <1>9 DEF Restart, SetPool
  <2>2. Shows(poolView', funds', pool')
    <3>1. funds \in [Account -> Int]
      BY <1>1
    <3> QED
      BY <2>1, <3>1, MovedNothing DEF Shows, Held
  <2>3. TypeOK' /\ FreshPoolInStep' /\ TemplateFits'
    BY <1>1, <2>1, <2>2 DEF TypeOK, FreshPoolInStep, TemplateFits
  <2> QED
    BY <2>1, <2>3, TipStays DEF IInv
<1>10. CASE UNCHANGED vars
  <2>1. UNCHANGED <<chain, funds, busy, fresh, pool, poolView, template>>
    BY <1>10 DEF vars
  <2>2. TypeOK' /\ FreshPoolInStep'
    BY <1>1, <2>1, TipStays DEF TypeOK, IInv, FreshPoolInStep, PoolInStep
  <2> QED
    BY <1>1, <2>1, <2>2, TipStays, TemplateStays DEF IInv
<1> QED
  BY <1>2, <1>3, <1>4, <1>5, <1>6, <1>7, <1>8, <1>9, <1>10 DEF Next

-----------------------------------------------------------------------------
(* What follows.                                                           *)

(* The pool, its view and the template are in step with the chain in every *)
(* state of the node: the invariant of AcceptToMemoryPool, ConnectTip,     *)
(* DisconnectTip, ReScanMemPoolTx and CreateNewBlock.                      *)
THEOREM MempoolInvariance == Spec => []IInv
  BY MempoolInit, MempoolStep, PTL DEF Spec

(* The variables keep their types; above all, no account of the tip or of  *)
(* the view of the pool is ever overdrawn, although DisconnectTip takes    *)
(* back what a block paid.                                                 *)
THEOREM MempoolTypeCorrect == Spec => []TypeOK
<1>1. IInv => TypeOK
  BY DEF IInv
<1> QED
  BY <1>1, MempoolInvariance, PTL

(* What CheckTxInMemPool asks of the last CacheHeight blocks is enough for *)
(* all of them: the window of valid heights is no wider.                   *)
LEMMA InStepFitsNextBlock == IInv => PoolFitsNextBlock
<1> SUFFICES ASSUME IInv, fresh, NEW t \in pool
             PROVE  /\ \A i \in DOMAIN chain : t \notin chain[i]
                    /\ Confirm!IsValidHeight(t, Len(chain))
  BY DEF PoolFitsNextBlock
<1>1. /\ chain \in Seq(SUBSET Tx) /\ Len(chain) \in Nat /\ DOMAIN chain = 1..Len(chain)
      /\ t \in Tx /\ ConfirmedInWindow
      /\ ~Confirmed(t, chain) /\ Confirm!IsValidHeight(t, Len(chain))
  BY LenProperties DEF IInv, TypeOK, FreshPoolInStep, Fits
<1>2. ASSUME NEW i \in 1..Len(chain), t \in chain[i]
      PROVE  FALSE
  <2>1. Confirm!IsValidHeight(t, i - 1)
    BY <1>1, <1>2 DEF ConfirmedInWindow
  <2>2. i - 1 \in Nat /\ Len(chain) - (i - 1) <= CacheHeight
    BY <1>1, <2>1, ValidInWindow
  <2>3. i > Len(chain) - CacheHeight
    BY <1>1, <2>2, PoolAssumption
  <2> QED
    BY <1>1, <1>2, <2>3, ConfirmedAt
<1> QED
  BY <1>1, <1>2

(* After a completed activation the pool holds only transactions that the  *)
(* next block may have, none of them confirmed anywhere in the chain.      *)
THEOREM PoolIsForNextBlock == Spec => []PoolFitsNextBlock
  BY InStepFitsNextBlock, MempoolInvariance, PTL

(* The accounts the pool shows are those of the tip after its transactions *)
(* and no other, whatever was read, dropped or put back in between.        *)
THEOREM PoolViewInStep == Spec => []PoolViewIsTipAndPool
<1>1. IInv => PoolViewIsTipAndPool
  BY DEF IInv, FreshPoolInStep, Shows, PoolViewIsTipAndPool
<1> QED
  BY <1>1, MempoolInvariance, PTL

(* A block made of a pool in step is connected by CheckWork: that the tip  *)
(* is where it was is all that has to be asked again.                      *)
LEMMA SolvedStep ==
    ASSUME IInv, CheckWork, template.sound
    PROVE  chain' = Append(chain, template.txs)
<1>1. /\ template # NoBlock /\ template.on = chain /\ Len(chain) < MaxHeight
      /\ Promised(template) /\ FundsAfter(chain, funds) /\ chain \in Seq(SUBSET Tx)
  BY DEF IInv, TypeOK, TemplateFits, FundsFollowChain, CheckWork, SolvedIsOnTip
<1>2. PICK f : FundsAfter(chain, f) /\ Executable(f, template.txs)
  BY <1>1 DEF Promised
<1>3. f = funds
  BY <1>1, <1>2, FundsOnce
<1>4. CanConnect(template.txs)
  BY <1>1, <1>2, <1>3 DEF CanConnect, Promised
<1>5. ConnectTip(template.txs)
  BY <1>1, <1>4 DEF CheckWork
<1> QED
  BY <1>5 DEF ConnectTip

THEOREM SolvedBlocksConnect == Spec => SolvedBlockConnects
<1>1. IInv /\ [Next]_vars
        => [CheckWork /\ template.sound => chain' = Append(chain, template.txs)]_vars
  BY SolvedStep
<1> QED
  BY <1>1, MempoolInvariance, PTL DEF Spec, SolvedBlockConnects

=============================================================================
