-------------------------- MODULE ArithmeticProofs --------------------------
(***************************************************************************)
(* The laws of the arithmetic: what Total returns and how it changes with  *)
(* one entry of the table; and the comments of Bps::fee, proved: the       *)
(* computation in words agrees with the exact one, and no unchecked        *)
(* operation leaves the word, for every rate, every amount and every width *)
(* the static_assert allows.                                               *)
(***************************************************************************)
EXTENDS Bps, Totals, FiniteSetTheorems, TLAPS

(***************************************************************************)
(* The heap of one entry: n units of u.                                    *)
(***************************************************************************)
LEMMA HeapCardinality ==
  ASSUME NEW u, NEW n \in Nat
  PROVE  /\ IsFiniteSet({u} \X (1 .. n))
         /\ Cardinality({u} \X (1 .. n)) = n
<1>1. IsFiniteSet({u}) /\ Cardinality({u}) = 1
  BY FS_Singleton
<1>2. IsFiniteSet(1 .. n) /\ Cardinality(1 .. n) = n
  <2>1. 1 \in Int /\ n \in Int
    OBVIOUS
  <2>2. IsFiniteSet(1 .. n)
    BY <2>1, FS_Interval
  <2>3. Cardinality(1 .. n) = IF 1 > n THEN 0 ELSE n - 1 + 1
    BY <2>1, FS_Interval, Zenon
  <2> QED BY <2>2, <2>3
<1>3. /\ IsFiniteSet({u} \X (1 .. n))
      /\ Cardinality({u} \X (1 .. n)) = Cardinality({u}) * Cardinality(1 .. n)
  BY <1>1, <1>2, FS_Product, Zenon
<1> QED BY <1>1, <1>2, <1>3

(***************************************************************************)
(* A table of natural numbers over a finite domain has finitely many units.*)
(***************************************************************************)
LEMMA UnitsFinite ==
  ASSUME NEW D, IsFiniteSet(D), NEW f \in [D -> Nat]
  PROVE  IsFiniteSet(Units(f))
<1> DEFINE heap == [u \in D |-> {u} \X (1 .. f[u])]
           Heaps == {heap[u] : u \in D}
<1>1. \A u \in D : IsFiniteSet(heap[u])
  BY HeapCardinality
<1>2. IsFiniteSet(Heaps)
  <2>1. heap \in Surjection(D, Heaps)
    BY DEF Surjection
  <2> QED BY <2>1, FS_Surjection
<1>3. \A T \in Heaps : IsFiniteSet(T)
  BY <1>1
<1>4. IsFiniteSet(UNION Heaps)
  BY <1>2, <1>3, FS_UNION
<1>5. Units(f) = UNION Heaps
  BY DEF Units
<1> QED BY <1>4, <1>5

(***************************************************************************)
(* The units of u and those of everybody else.                             *)
(***************************************************************************)
LEMMA UnitsSplit ==
  ASSUME NEW D, IsFiniteSet(D), NEW f \in [D -> Nat], NEW u \in D
  PROVE  LET others == {p \in Units(f) : p[1] # u}
         IN  /\ IsFiniteSet(others)
             /\ Cardinality(others) \in Nat
             /\ Total(f) = Cardinality(others) + f[u]
<1> DEFINE heap == {u} \X (1 .. f[u])
           others == {p \in Units(f) : p[1] # u}
<1>1. IsFiniteSet(Units(f)) 
  BY UnitsFinite
<1>2. IsFiniteSet(others) 
  BY <1>1, FS_Subset
<1>3. Cardinality(others) \in Nat
  BY <1>2, FS_CardinalityType
<1>4. IsFiniteSet(heap) /\ Cardinality(heap) = f[u]
  BY HeapCardinality
<1>5. Units(f) = others \cup heap
  BY DEF Units
<1>6. others \cap heap = {}
  OBVIOUS
<1>7. Cardinality(others \cup heap) = Cardinality(others) + Cardinality(heap) - 0
  <2>1. Cardinality(others \cup heap)
          = Cardinality(others) + Cardinality(heap) - Cardinality(others \cap heap)
    BY <1>2, <1>4, FS_Union
  <2> HIDE DEF others, heap
  <2> QED BY <2>1, <1>6, FS_EmptySet
<1> HIDE DEF others, heap
<1>8. Total(f) = Cardinality(others) + f[u]
  BY <1>3, <1>4, <1>5, <1>7 DEF Total
<1> QED BY <1>2, <1>3, <1>8 DEF others

(***************************************************************************)
(* A total is a natural number, and no entry is above it.                  *)
(***************************************************************************)
LEMMA TotalType ==
  ASSUME NEW D, IsFiniteSet(D), NEW f \in [D -> Nat]
  PROVE  /\ Total(f) \in Nat
         /\ \A u \in D : f[u] <= Total(f)
<1>1. Total(f) \in Nat
  BY UnitsFinite, FS_CardinalityType DEF Total
<1>2. ASSUME NEW u \in D PROVE f[u] <= Total(f)
  <2> DEFINE n == Cardinality({p \in Units(f) : p[1] # u})
  <2>1. n \in Nat /\ Total(f) = n + f[u]
    BY UnitsSplit
  <2> HIDE DEF n
  <2> QED BY <2>1
<1> QED BY <1>1, <1>2

(***************************************************************************)
(* The empty table totals zero.                                            *)
(***************************************************************************)
LEMMA TotalZero ==
  ASSUME NEW D, NEW f \in [D -> Nat], \A u \in D : f[u] = 0
  PROVE  Total(f) = 0
<1>1. Units(f) = {}
  BY DEF Units
<1> QED BY <1>1, FS_EmptySet DEF Total

(***************************************************************************)
(* Changing one entry changes the total by the difference.                 *)
(***************************************************************************)
LEMMA TotalUpdate ==
  ASSUME NEW D, IsFiniteSet(D), NEW f \in [D -> Nat], NEW u \in D, NEW n \in Nat
  PROVE  Total([f EXCEPT ![u] = n]) = Total(f) - f[u] + n
<1> DEFINE g == [f EXCEPT ![u] = n]
           fOthers == {p \in Units(f) : p[1] # u}
           gOthers == {p \in Units(g) : p[1] # u}
<1>1. g \in [D -> Nat] /\ g[u] = n
  OBVIOUS
<1>2. fOthers = gOthers
  BY DEF Units
<1>3. Cardinality(fOthers) \in Nat /\ Total(f) = Cardinality(fOthers) + f[u]
  BY UnitsSplit
<1> HIDE DEF g
<1>4. Total(g) = Cardinality(gOthers) + g[u]
  BY <1>1, UnitsSplit
<1> HIDE DEF fOthers, gOthers
<1>5. Total(g) = Total(f) - f[u] + n
  BY <1>1, <1>2, <1>3, <1>4
<1> QED BY <1>5 DEF g

-----------------------------------------------------------------------------
(***************************************************************************)
(* Division with remainder, and that it is the only one.                   *)
(***************************************************************************)
LEMMA DivisionAlgorithm ==
  ASSUME NEW x \in Nat, NEW d \in Nat \ {0}
  PROVE  /\ x \div d \in Nat
         /\ x % d \in 0 .. (d - 1)
         /\ x = d * (x \div d) + (x % d)
OBVIOUS

LEMMA DivisionUnique ==
  ASSUME NEW x \in Nat, NEW d \in Nat \ {0}, NEW q \in Nat, NEW r \in 0 .. (d - 1),
         x = d * q + r
  PROVE  x \div d = q /\ x % d = r
OBVIOUS

(***************************************************************************)
(* Two facts on products that the solver wants to be told.                 *)
(***************************************************************************)
LEMMA ProductType ==
  ASSUME NEW a \in Nat, NEW b \in Nat
  PROVE  a * b \in Nat
OBVIOUS

LEMMA ProductMonotone ==
  ASSUME NEW a \in Nat, NEW b \in Nat, NEW c \in Nat, a <= b
  PROVE  a * c <= b * c /\ c * a <= c * b
OBVIOUS

LEMMA ProductCancel ==
  ASSUME NEW a \in Nat, NEW b \in Nat, NEW d \in Nat \ {0}, d * a <= d * b
  PROVE  a <= b
OBVIOUS

(***************************************************************************)
(* The fee is at most the amount and is the exact quotient rounded up; and *)
(* the intermediate results are bounded as the SAFETY comments say.        *)
(***************************************************************************)
LEMMA FeeParts ==
  ASSUME NEW bps \in BpsValue, NEW amount \in Nat
  PROVE  /\ WholePart(bps, amount) \in 0 .. amount
         /\ RemainderProduct(bps, amount) \in 0 .. BPS_MAX * BPS_MAX
         /\ DivCeil(RemainderProduct(bps, amount), BPS_MAX) \in 0 .. amount
         /\ Fee(bps, amount) \in 0 .. amount
         /\ Fee(bps, amount) = FeeReference(bps, amount)
<1> DEFINE q == amount \div BPS_MAX
           r == amount % BPS_MAX
           b == r * bps
           c == b \div BPS_MAX
           e == b % BPS_MAX
<1>m. BPS_MAX \in Nat \ {0} /\ bps \in Nat /\ bps <= BPS_MAX
  BY BpsAssumption DEF BpsValue
<1>1. q \in Nat /\ r \in 0 .. (BPS_MAX - 1) /\ amount = BPS_MAX * q + r
  BY <1>m, DivisionAlgorithm
<1>2. b \in Nat
  BY <1>1, <1>m, ProductType
<1>3. c \in Nat /\ e \in 0 .. (BPS_MAX - 1) /\ b = BPS_MAX * c + e
  BY <1>2, <1>m, DivisionAlgorithm
<1> DEFINE up == IF e # 0 THEN 1 ELSE 0
           whole == q * bps
<1>4. /\ WholePart(bps, amount) = whole
      /\ RemainderProduct(bps, amount) = b
      /\ DivCeil(b, BPS_MAX) = c + up
      /\ Fee(bps, amount) = whole + (c + up)
  BY DEF WholePart, RemainderProduct, DivCeil, Fee
<1>5. whole \in Nat /\ whole <= BPS_MAX * q
  BY <1>1, <1>m, ProductType, ProductMonotone
<1>6. b <= BPS_MAX * r /\ BPS_MAX * r <= BPS_MAX * BPS_MAX
  BY <1>1, <1>m, ProductMonotone
<1>7. c + up \in Nat /\ c + up <= r
  <2>1. BPS_MAX * (c + up) <= BPS_MAX * r
    <3>1. CASE e = 0
      BY <3>1, <1>1, <1>3, <1>6, <1>m
    <3>2. CASE e # 0
      <4>1. BPS_MAX * c < BPS_MAX * r
        BY <3>2, <1>3, <1>6, <1>1, <1>m
      <4>2. c < r
        BY <4>1, <1>1, <1>3, <1>m, ProductMonotone
      <4> QED BY <3>2, <4>2, <1>1, <1>3, <1>m, ProductMonotone
    <3> QED BY <3>1, <3>2
  <2> QED BY <2>1, <1>1, <1>3, <1>m, ProductCancel
<1>8. Fee(bps, amount) = FeeReference(bps, amount)
  <2>1. amount * bps = BPS_MAX * (whole + c) + e
    <3>1. amount * bps = (BPS_MAX * q) * bps + r * bps
      BY <1>1, <1>m
    <3>2. (BPS_MAX * q) * bps = BPS_MAX * whole
      BY <1>1, <1>m
    <3> QED BY <3>1, <3>2, <1>3, <1>5, <1>m
  <2>2. amount * bps \in Nat /\ whole + c \in Nat
    BY <1>m, <1>3, <1>5, ProductType
  <2>3. (amount * bps) \div BPS_MAX = whole + c /\ (amount * bps) % BPS_MAX = e
    <3> DEFINE n == whole + c
               product == amount * bps
    <3>1. product = BPS_MAX * n + e /\ product \in Nat /\ n \in Nat
      BY <2>1, <2>2
    <3> HIDE DEF n, product, e
    <3>2. product \div BPS_MAX = n /\ product % BPS_MAX = e
      BY <3>1, <1>3, <1>m, DivisionUnique
    <3> QED BY <3>2 DEF n, product
  <2>4. FeeReference(bps, amount) = (whole + c) + up
    BY <2>3 DEF FeeReference
  <2>5. up \in Nat
    OBVIOUS
  <2> HIDE DEF whole, c, e, up
  <2> QED BY <2>4, <2>5, <1>4, <1>5, <1>3
<1> HIDE DEF q, r, b, whole, c, e, up
<1> QED BY <1>1, <1>2, <1>3, <1>4, <1>5, <1>6, <1>7, <1>8, <1>m

(***************************************************************************)
(* The fee is the exact one, rounded up, and never more than the amount    *)
(* (the last line of the derivation in Bps::fee; fees_match_u128_impl).    *)
(***************************************************************************)
THEOREM FeeIsExact ==
  ASSUME NEW bps \in BpsValue, NEW amount \in U64
  PROVE  /\ Fee(bps, amount) = FeeReference(bps, amount)
         /\ Fee(bps, amount) <= amount
<1>1. amount \in Nat
  BY U64Assumption DEF U64
<1> QED BY <1>1, FeeParts

(***************************************************************************)
(* No unchecked operation of Bps::fee or fee_received is undefined         *)
(* behaviour.                                                              *)
(***************************************************************************)
THEOREM FeeNeverOverflows ==
  ASSUME NEW bps \in BpsValue, NEW amount \in U64
  PROVE  FeeStaysInWord(bps, amount)
<1>1. amount \in Nat /\ amount <= U64_MAX /\ U64_MAX \in Nat
  BY U64Assumption DEF U64
<1>2. BPS_MAX * BPS_MAX \in Nat /\ BPS_MAX * BPS_MAX <= U64_MAX
  BY BpsAssumption, ProductType
<1> QED BY <1>1, <1>2, FeeParts DEF FeeStaysInWord, Defined, Received, U64

=============================================================================
