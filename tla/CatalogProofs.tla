---------------------------- MODULE CatalogProofs ----------------------------
(***************************************************************************)
(* Proofs about the catalog store, for every set of orders and products,   *)
(* every INTEGER width and every supply, and about its concurrent          *)
(* transactions, for every number of connections: they never deadlock,     *)
(* they implement the atomic store, and a hold a caller was told of lasts. *)
(***************************************************************************)
EXTENDS CatalogTxn, FiniteSetTheorems, TLAPS

\* The units of one product are finitely many, since orders are.
LEMMA UnitsFinite ==
    ASSUME NEW f \in PerLine(Nat), NEW p \in Products
    PROVE  IsFiniteSet(Units(f, p))
<1> DEFINE block == [o \in Orders |-> {o} \X (1..f[o][p])]
           Blocks == {block[o] : o \in Orders}
<1>1. IsFiniteSet(Orders)
  BY CatalogAssumption
<1>2. IsFiniteSet(Blocks)
  <2>1. block \in Surjection(Orders, Blocks)
    BY DEF Surjection
  <2> HIDE DEF block, Blocks
  <2> QED
    BY <1>1, <2>1, FS_Surjection
<1>3. \A B \in Blocks : IsFiniteSet(B)
  <2>1. TAKE B \in Blocks
  <2>2. PICK o \in Orders : B = {o} \X (1..f[o][p])
    OBVIOUS
  <2>3. f[o][p] \in Nat
    BY DEF PerLine
  <2>4. IsFiniteSet({o})
    BY FS_Singleton, Zenon
  <2>5. IsFiniteSet(1..f[o][p])
    <3>1. 1 \in Int /\ f[o][p] \in Int
      BY <2>3
    <3> QED
      BY <3>1, FS_Interval, Zenon
  <2> QED
    BY <2>2, <2>4, <2>5, FS_Product, Zenon
<1>4. Units(f, p) = UNION Blocks
  BY DEF Units
<1> HIDE DEF Blocks
<1> QED
  BY <1>2, <1>3, <1>4, FS_UNION

\* Adding q to one line of a table adds q units to that product.
LEMMA UnitsGrow ==
    ASSUME NEW f \in PerLine(Nat), NEW g \in PerLine(Nat),
           NEW o \in Orders, NEW p \in Products, NEW q \in Nat,
           g[o][p] = f[o][p] + q,
           \A x \in Orders \ {o} : g[x][p] = f[x][p]
    PROVE  Cardinality(Units(g, p)) = Cardinality(Units(f, p)) + q
<1> DEFINE a == f[o][p]
           new == {o} \X (a + 1 .. a + q)
<1>1. a \in Nat /\ g[o][p] = a + q
  BY DEF PerLine
<1>2. Units(g, p) = Units(f, p) \cup new
  <2>1. 1..g[o][p] = (1..a) \cup (a + 1 .. a + q)
    BY <1>1
  <2> HIDE DEF a
  <2>2. {o} \X (1..g[o][p]) = ({o} \X (1..a)) \cup new
    BY <2>1
  <2>3. \A x \in Orders \ {o} : {x} \X (1..g[x][p]) = {x} \X (1..f[x][p])
    OBVIOUS
  <2>4. \A u : u \in Units(g, p) <=> u \in Units(f, p) \cup new
    <3>1. TAKE u
    <3>2. u \in Units(g, p) <=> \E x \in Orders : u \in {x} \X (1..g[x][p])
      BY Zenon DEF Units
    <3>3. u \in Units(f, p) <=> \E x \in Orders : u \in {x} \X (1..f[x][p])
      BY Zenon DEF Units
    <3>4. \A x \in Orders : u \in {x} \X (1..g[x][p])
             <=> (u \in {x} \X (1..f[x][p]) \/ (x = o /\ u \in new))
      BY <2>2, <2>3, Zenon DEF a
    <3> QED
      BY <3>2, <3>3, <3>4, Zenon
  <2> QED
    BY <2>4
<1>3. Units(f, p) \cap new = {}
  <2>1. SUFFICES ASSUME NEW u \in Units(f, p), u \in new
                 PROVE  FALSE
    OBVIOUS
  <2>2. PICK x \in Orders : u \in {x} \X (1..f[x][p])
    BY DEF Units
  <2>3. PICK i \in 1..f[x][p] : u = <<x, i>>
    BY <2>2
  <2>4. x = o /\ i \in a + 1 .. a + q
    BY <2>1, <2>3
  <2> QED
    BY <2>3, <2>4, <1>1
<1>4. IsFiniteSet(new) /\ Cardinality(new) = q
  <2>1. IsFiniteSet(a + 1 .. a + q) /\ Cardinality(a + 1 .. a + q) = q
    <3>1. a + 1 \in Int /\ a + q \in Int
      BY <1>1
    <3>2. (IF a + 1 > a + q THEN 0 ELSE (a + q) - (a + 1) + 1) = q
      BY <1>1
    <3> HIDE DEF a
    <3> QED
      BY <3>1, <3>2, FS_Interval
  <2>2. IsFiniteSet({o}) /\ Cardinality({o}) = 1
    BY FS_Singleton
  <2> DEFINE fresh == a + 1 .. a + q
  <2>3. IsFiniteSet(fresh) /\ Cardinality(fresh) = q
    BY <2>1
  <2> HIDE DEF fresh
  <2>4. /\ IsFiniteSet({o} \X fresh)
        /\ Cardinality({o} \X fresh) = Cardinality({o}) * Cardinality(fresh)
    BY <2>2, <2>3, FS_Product, Zenon
  <2>5. IsFiniteSet({o} \X fresh) /\ Cardinality({o} \X fresh) = q
    BY <2>2, <2>3, <2>4
  <2> QED
    BY <2>5 DEF fresh
<1>5. IsFiniteSet(Units(f, p))
  BY UnitsFinite
<1>6. Cardinality(Units(f, p)) \in Nat
  BY <1>5, FS_CardinalityType
<1>7. Cardinality({}) = 0
  BY FS_EmptySet
<1>8. Cardinality(Units(f, p) \cup new)
         = Cardinality(Units(f, p)) + Cardinality(new) - Cardinality(Units(f, p) \cap new)
  <2> HIDE DEF new
  <2> QED
    BY <1>4, <1>5, FS_Union, Zenon
<1>9. Cardinality(Units(f, p) \cap new) = 0
  BY <1>3, <1>7, Zenon
<1>10. Cardinality(Units(g, p)) = Cardinality(Units(f, p) \cup new)
  BY <1>2, Zenon
<1> HIDE DEF new
<1> QED
  BY <1>4, <1>6, <1>8, <1>9, <1>10

\* A table that has the same quantities of a product has the same units of it.
LEMMA UnitsSame ==
    ASSUME NEW f, NEW g, NEW p, \A x \in Orders : g[x][p] = f[x][p]
    PROVE  Units(g, p) = Units(f, p)
  BY DEF Units

\* One line's quantity is at most its product's units.
LEMMA LineWithinUnits ==
    ASSUME NEW f \in PerLine(Nat), NEW o \in Orders, NEW p \in Products
    PROVE  /\ Cardinality(Units(f, p)) \in Nat
           /\ f[o][p] <= Cardinality(Units(f, p))
<1> DEFINE f0 == [f EXCEPT ![o][p] = 0]
<1>1. f0 \in PerLine(Nat) /\ f[o][p] \in Nat
  BY DEF PerLine
<1>2. f[o][p] = f0[o][p] + f[o][p] /\ \A x \in Orders \ {o} : f[x][p] = f0[x][p]
  BY <1>1 DEF PerLine
<1> HIDE DEF f0
<1>3. Cardinality(Units(f, p)) = Cardinality(Units(f0, p)) + f[o][p]
  BY <1>1, <1>2, UnitsGrow
<1>4. Cardinality(Units(f, p)) \in Nat /\ Cardinality(Units(f0, p)) \in Nat
  BY <1>1, UnitsFinite, FS_CardinalityType
<1> QED
  BY <1>1, <1>3, <1>4

\* An empty table has no units.
LEMMA UnitsEmpty ==
    ASSUME NEW f, NEW p, \A o \in Orders : f[o][p] = 0
    PROVE  Cardinality(Units(f, p)) = 0
<1>1. Units(f, p) = {}
  <2>1. SUFFICES ASSUME NEW u \in Units(f, p) PROVE FALSE
    OBVIOUS
  <2>2. PICK o \in Orders : u \in {o} \X (1..f[o][p])
    BY DEF Units
  <2>3. 1..f[o][p] = {}
    OBVIOUS
  <2> QED
    BY <2>2, <2>3
<1> QED
  BY <1>1, FS_EmptySet

-----------------------------------------------------------------------------
\* Every call of the store keeps the tables within their types.
LEMMA TypeStep == TypeOK /\ [Next]_cvars => TypeOK'
<1> SUFFICES ASSUME TypeOK, [Next]_cvars PROVE TypeOK'
  OBVIOUS
<1> USE CatalogAssumption DEF TypeOK, PerLine
<1>1. CASE \E p \in Products, n \in 0..MaxInt : CreateProduct(p, n)
  BY <1>1 DEF CreateProduct, RowAllowed
<1>2. CASE \E o \in Orders, p \in Products, q \in 1..MaxInt : Reserve(o, p, q)
  <2>1. PICK o \in Orders, p \in Products, q \in 1..MaxInt : Reserve(o, p, q)
    BY <1>2
  <2>2. CASE UNCHANGED cvars
    BY <2>2 DEF cvars
  <2>3. CASE /\ RowAllowed(stock[p], reserved[p] + q)
             /\ reservations' = [reservations EXCEPT ![o][p] = q]
             /\ reserved' = [reserved EXCEPT ![p] = @ + q]
             /\ UNCHANGED <<products, stock, sold, supplied>>
    <3>1. reserved' \in [Products -> 0..MaxInt]
      BY <2>3 DEF RowAllowed
    <3>2. reservations' \in PerLine(0..MaxInt)
      BY <2>3
    <3> QED
      BY <2>1, <2>3, <3>1, <3>2 DEF Reserve
  <2> QED
    BY <2>1, <2>2, <2>3, Zenon DEF Reserve
<1>3. CASE \E o \in Orders, p \in Products : Release(o, p)
  BY <1>3 DEF Release, RowAllowed, AtLeastZero
<1>4. CASE \E o \in Orders, p \in Products : Commit(o, p)
  <2>1. PICK o \in Orders, p \in Products : Commit(o, p)
    BY <1>4
  <2> DEFINE q == reservations[o][p]
  <2>2. q \in 0..MaxInt /\ sold[o][p] + q \in Nat
    OBVIOUS
  <2>3. stock' \in [Products -> 0..MaxInt] /\ reserved' \in [Products -> 0..MaxInt]
    BY <2>1, <2>2 DEF Commit, RowAllowed
  <2>4. reservations' \in PerLine(0..MaxInt)
    BY <2>1 DEF Commit
  <2>5. sold' = [sold EXCEPT ![o][p] = sold[o][p] + q]
    BY <2>1 DEF Commit
  <2> HIDE DEF q
  <2>6. sold' \in PerLine(Nat)
    BY <2>2, <2>5
  <2> QED
    BY <2>1, <2>3, <2>4, <2>5, <2>6 DEF Commit
<1>5. CASE \E p \in Products, n \in 1..MaxInt : AddStock(p, n)
  BY <1>5 DEF AddStock, RowAllowed
<1>6. CASE UNCHANGED cvars
  BY <1>6 DEF cvars
<1> QED
  BY <1>1, <1>2, <1>3, <1>4, <1>5, <1>6 DEF Next

\* The empty tables of a new database are well typed.
LEMMA TypeInit == Init => TypeOK
  BY CatalogAssumption DEF Init, TypeOK, PerLine

\* Type correctness of the store: the tables respect their column types and
\* the foreign key under every sequence of calls.
THEOREM CatalogTypeCorrect == Spec => []TypeOK
  BY TypeInit, TypeStep, PTL DEF Spec

-----------------------------------------------------------------------------
\* What Release and Commit subtract is there: GREATEST never clips.
LEMMA SettleExact ==
    ASSUME IndInv, NEW o \in Orders, NEW p \in Products
    PROVE  LET q == reservations[o][p]
           IN  /\ q \in Nat /\ q <= reserved[p] /\ q <= stock[p]
               /\ stock[p] \in Nat /\ reserved[p] \in Nat
               /\ AtLeastZero(reserved[p] - q) = reserved[p] - q
               /\ AtLeastZero(stock[p] - q) = stock[p] - q
<1>1. reservations \in PerLine(Nat) /\ stock[p] \in Nat /\ reserved[p] \in Nat
  BY CatalogAssumption DEF IndInv, TypeOK, PerLine
<1>2. reservations[o][p] \in Nat
  BY <1>1 DEF PerLine
<1>3. reservations[o][p] <= Cardinality(Units(reservations, p))
  BY <1>1, LineWithinUnits
<1>4. reserved[p] = Cardinality(Units(reservations, p)) /\ reserved[p] <= stock[p]
  BY DEF IndInv, ReservedMatchesRows, ReservedWithinStock, HeldUnits
<1> QED
  BY <1>1, <1>2, <1>3, <1>4 DEF AtLeastZero

\* A table that differs in one product's lines has the other products' units.
LEMMA OtherUnitsSame ==
    ASSUME NEW f, NEW g, NEW p,
           \A x \in Orders : \A r \in Products \ {p} : g[x][r] = f[x][r]
    PROVE  \A r \in Products \ {p} : Units(g, r) = Units(f, r)
<1> TAKE r \in Products \ {p}
<1>1. \A x \in Orders : g[x][r] = f[x][r]
  OBVIOUS
<1> QED
  BY <1>1, UnitsSame, Zenon

\* Reserve keeps the inductive invariant: it adds to reserved what it inserts.
LEMMA ReserveKeepsBooks ==
    ASSUME IndInv, NEW o \in Orders, NEW p \in Products, NEW q \in 1..MaxInt, Reserve(o, p, q)
    PROVE  (ReservedMatchesRows /\ ReservedWithinStock /\ StockConserved)'
<1>1. CASE UNCHANGED cvars
  BY <1>1 DEF cvars, IndInv, ReservedMatchesRows, ReservedWithinStock, StockConserved,
              HeldUnits, SoldUnits, Units
<1>2. CASE /\ reservations[o][p] = 0
           /\ RowAllowed(stock[p], reserved[p] + q)
           /\ reservations' = [reservations EXCEPT ![o][p] = q]
           /\ reserved' = [reserved EXCEPT ![p] = @ + q]
           /\ UNCHANGED <<products, stock, sold, supplied>>
  <2>1. reservations \in PerLine(Nat) /\ q \in Nat /\ reserved \in [Products -> Nat]
    BY CatalogAssumption DEF IndInv, TypeOK, PerLine
  <2>2. /\ reservations' \in PerLine(Nat)
        /\ reservations'[o][p] = q
        /\ \A x \in Orders \ {o} : reservations'[x][p] = reservations[x][p]
        /\ \A r \in Products \ {p} : Units(reservations', r) = Units(reservations, r)
    <3>1. /\ reservations' \in PerLine(Nat)
          /\ reservations'[o][p] = q
          /\ \A x \in Orders \ {o} : reservations'[x][p] = reservations[x][p]
          /\ \A x \in Orders : \A r \in Products \ {p} : reservations'[x][r] = reservations[x][r]
      BY <1>2, <2>1 DEF PerLine
    <3> QED
      BY <3>1, OtherUnitsSame, Zenon
  <2>3. Cardinality(Units(reservations', p)) = Cardinality(Units(reservations, p)) + q
    <3>1. reservations'[o][p] = reservations[o][p] + q
      BY <1>2, <2>1, <2>2
    <3> QED
      BY <2>1, <2>2, <3>1, UnitsGrow
  <2>4. ReservedMatchesRows'
    BY <1>2, <2>1, <2>2, <2>3 DEF IndInv, ReservedMatchesRows, HeldUnits
  <2>5. ReservedWithinStock'
    BY <1>2, <2>1 DEF IndInv, ReservedWithinStock, RowAllowed
  <2>6. StockConserved'
    BY <1>2 DEF IndInv, StockConserved, SoldUnits, Units
  <2> QED
    BY <2>4, <2>5, <2>6
<1> QED
  BY <1>1, <1>2 DEF Reserve

\* Release keeps the inductive invariant: it takes from reserved what it deletes.
LEMMA ReleaseKeepsBooks ==
    ASSUME IndInv, NEW o \in Orders, NEW p \in Products, Release(o, p)
    PROVE  (ReservedMatchesRows /\ ReservedWithinStock /\ StockConserved)'
<1> DEFINE q == reservations[o][p]
<1>1. /\ q \in Nat /\ q <= reserved[p] /\ stock[p] \in Nat /\ reserved[p] \in Nat
      /\ AtLeastZero(reserved[p] - q) = reserved[p] - q
  BY SettleExact
<1>2. reservations \in PerLine(Nat) /\ reserved \in [Products -> Nat] /\ stock \in [Products -> Nat]
  BY CatalogAssumption DEF IndInv, TypeOK, PerLine
<1>3. /\ reservations' \in PerLine(Nat)
      /\ reservations'[o][p] = 0
      /\ \A x \in Orders \ {o} : reservations'[x][p] = reservations[x][p]
      /\ \A r \in Products \ {p} : Units(reservations', r) = Units(reservations, r)
  <2>1. reservations' = [reservations EXCEPT ![o][p] = 0] /\ 0 \in Nat
    BY DEF Release
  <2>2. /\ reservations' \in PerLine(Nat)
        /\ reservations'[o][p] = 0
        /\ \A x \in Orders \ {o} : reservations'[x][p] = reservations[x][p]
        /\ \A x \in Orders : \A r \in Products \ {p} : reservations'[x][r] = reservations[x][r]
    BY <1>2, <2>1 DEF PerLine
  <2> QED
    BY <2>2, OtherUnitsSame, Zenon
<1>4. Cardinality(Units(reservations, p)) = Cardinality(Units(reservations', p)) + q
  <2>1. reservations[o][p] = reservations'[o][p] + q
    BY <1>1, <1>3
  <2> QED
    BY <1>1, <1>2, <1>3, <2>1, UnitsGrow
<1>5. Cardinality(Units(reservations', p)) \in Nat
  BY <1>3, LineWithinUnits
<1>6. reserved' = [reserved EXCEPT ![p] = reserved[p] - q]
  <2>1. CASE q > 0
    BY <1>1, <2>1 DEF Release
  <2>2. CASE q = 0
    BY <1>1, <1>2, <2>2 DEF Release
  <2> QED
    BY <1>1, <2>1, <2>2
<1>7. stock' = stock /\ sold' = sold /\ supplied' = supplied
  BY DEF Release
<1> HIDE DEF q
<1>8. ReservedMatchesRows'
  BY <1>1, <1>2, <1>3, <1>4, <1>5, <1>6 DEF IndInv, ReservedMatchesRows, HeldUnits
<1>9. ReservedWithinStock'
  BY <1>1, <1>2, <1>6, <1>7 DEF IndInv, ReservedWithinStock
<1>10. StockConserved'
  BY <1>7 DEF IndInv, StockConserved, SoldUnits, Units
<1> QED
  BY <1>8, <1>9, <1>10

\* Commit keeps the inductive invariant: what leaves the stock is sold.
LEMMA CommitKeepsBooks ==
    ASSUME IndInv, NEW o \in Orders, NEW p \in Products, Commit(o, p)
    PROVE  (ReservedMatchesRows /\ ReservedWithinStock /\ StockConserved)'
<1> DEFINE q == reservations[o][p]
<1>1. /\ q \in Nat /\ q <= reserved[p] /\ q <= stock[p]
      /\ stock[p] \in Nat /\ reserved[p] \in Nat
      /\ AtLeastZero(reserved[p] - q) = reserved[p] - q
      /\ AtLeastZero(stock[p] - q) = stock[p] - q
  BY SettleExact
<1>2. /\ reservations \in PerLine(Nat) /\ sold \in PerLine(Nat)
      /\ reserved \in [Products -> Nat] /\ stock \in [Products -> Nat]
      /\ sold[o][p] \in Nat
  BY CatalogAssumption DEF IndInv, TypeOK, PerLine
<1>3. /\ reservations' \in PerLine(Nat)
      /\ reservations'[o][p] = 0
      /\ \A x \in Orders \ {o} : reservations'[x][p] = reservations[x][p]
      /\ \A r \in Products \ {p} : Units(reservations', r) = Units(reservations, r)
  <2>1. reservations' = [reservations EXCEPT ![o][p] = 0] /\ 0 \in Nat
    BY DEF Commit
  <2>2. /\ reservations' \in PerLine(Nat)
        /\ reservations'[o][p] = 0
        /\ \A x \in Orders \ {o} : reservations'[x][p] = reservations[x][p]
        /\ \A x \in Orders : \A r \in Products \ {p} : reservations'[x][r] = reservations[x][r]
    BY <1>2, <2>1 DEF PerLine
  <2> QED
    BY <2>2, OtherUnitsSame, Zenon
<1>4. /\ sold' \in PerLine(Nat)
      /\ sold'[o][p] = sold[o][p] + q
      /\ \A x \in Orders \ {o} : sold'[x][p] = sold[x][p]
      /\ \A r \in Products \ {p} : Units(sold', r) = Units(sold, r)
  <2>1. sold' = [sold EXCEPT ![o][p] = sold[o][p] + q] /\ sold[o][p] + q \in Nat
    BY <1>1, <1>2 DEF Commit
  <2> HIDE DEF q
  <2>2. /\ sold' \in PerLine(Nat)
        /\ sold'[o][p] = sold[o][p] + q
        /\ \A x \in Orders \ {o} : sold'[x][p] = sold[x][p]
        /\ \A x \in Orders : \A r \in Products \ {p} : sold'[x][r] = sold[x][r]
    BY <1>2, <2>1 DEF PerLine
  <2> QED
    BY <2>2, OtherUnitsSame, Zenon
<1>5. Cardinality(Units(reservations, p)) = Cardinality(Units(reservations', p)) + q
  <2>1. reservations[o][p] = reservations'[o][p] + q
    BY <1>1, <1>3
  <2> QED
    BY <1>1, <1>2, <1>3, <2>1, UnitsGrow
<1>6. Cardinality(Units(sold', p)) = Cardinality(Units(sold, p)) + q
  BY <1>1, <1>2, <1>4, UnitsGrow
<1>7. Cardinality(Units(reservations', p)) \in Nat /\ Cardinality(Units(sold, p)) \in Nat
  BY <1>2, <1>3, LineWithinUnits
<1>8. /\ reserved' = [reserved EXCEPT ![p] = reserved[p] - q]
      /\ stock' = [stock EXCEPT ![p] = stock[p] - q]
      /\ supplied' = supplied
  <2>1. CASE q > 0
    BY <1>1, <2>1 DEF Commit
  <2>2. CASE q = 0
    BY <1>1, <1>2, <2>2 DEF Commit
  <2> QED
    BY <1>1, <2>1, <2>2
<1> HIDE DEF q
<1>9. ReservedMatchesRows'
  BY <1>1, <1>2, <1>3, <1>5, <1>7, <1>8 DEF IndInv, ReservedMatchesRows, HeldUnits
<1>10. ReservedWithinStock'
  BY <1>1, <1>2, <1>8 DEF IndInv, ReservedWithinStock
<1>11. StockConserved'
  BY <1>1, <1>2, <1>4, <1>6, <1>7, <1>8 DEF IndInv, StockConserved, SoldUnits
<1> QED
  BY <1>9, <1>10, <1>11

\* CreateProduct and AddStock put in what they add to the supply.
LEMMA SupplyKeepsBooks ==
    ASSUME IndInv, NEW p \in Products, NEW n \in 0..MaxInt,
           CreateProduct(p, n) \/ AddStock(p, n)
    PROVE  (ReservedMatchesRows /\ ReservedWithinStock /\ StockConserved)'
<1>1. /\ reservations' = reservations /\ reserved' = reserved /\ sold' = sold
      /\ n \in Nat
  BY CatalogAssumption DEF CreateProduct, AddStock
<1>2. /\ sold \in PerLine(Nat) /\ reserved \in [Products -> Nat]
      /\ stock \in [Products -> Nat] /\ supplied \in [Products -> Nat]
  BY CatalogAssumption DEF IndInv, TypeOK, PerLine
<1>3. stock' = [stock EXCEPT ![p] = stock[p] + n] /\ supplied' = [supplied EXCEPT ![p] = supplied[p] + n]
  BY <1>1, <1>2 DEF IndInv, TypeOK, CreateProduct, AddStock
<1>4. ReservedMatchesRows'
  BY <1>1 DEF IndInv, ReservedMatchesRows, HeldUnits, Units
<1>5. ReservedWithinStock'
  BY <1>1, <1>2, <1>3 DEF IndInv, ReservedWithinStock
<1>6. StockConserved'
  <2>1. \A r \in Products : Units(sold', r) = Units(sold, r)
    BY <1>1
  <2>2. \A r \in Products : Cardinality(Units(sold, r)) \in Nat
    BY <1>2, UnitsFinite, FS_CardinalityType
  <2> QED
    BY <1>1, <1>2, <1>3, <2>1, <2>2 DEF IndInv, StockConserved, SoldUnits
<1> QED
  BY <1>4, <1>5, <1>6

-----------------------------------------------------------------------------
\* The empty tables satisfy the inductive invariant.
LEMMA IndInit == Init => IndInv
<1> SUFFICES ASSUME Init PROVE IndInv
  OBVIOUS
<1>1. TypeOK
  BY TypeInit
<1>2. \A o \in Orders, p \in Products : reservations[o][p] = 0 /\ sold[o][p] = 0
  BY DEF Init
<1>3. \A p \in Products : reserved[p] = 0 /\ stock[p] = 0 /\ supplied[p] = 0
  BY DEF Init
<1>4. \A p \in Products : Cardinality(Units(reservations, p)) = 0
  BY <1>2, UnitsEmpty
<1>5. \A p \in Products : Cardinality(Units(sold, p)) = 0
  BY <1>2, UnitsEmpty
<1> QED
  BY <1>1, <1>3, <1>4, <1>5
     DEF IndInv, ReservedMatchesRows, ReservedWithinStock, StockConserved, HeldUnits, SoldUnits

\* Every call of the store keeps the inductive invariant.
LEMMA IndStep == IndInv /\ [Next]_cvars => IndInv'
<1> SUFFICES ASSUME IndInv, [Next]_cvars PROVE IndInv'
  OBVIOUS
<1>1. TypeOK'
  BY TypeStep DEF IndInv
<1>2. (ReservedMatchesRows /\ ReservedWithinStock /\ StockConserved)'
  <2>1. CASE \E p \in Products, n \in 0..MaxInt : CreateProduct(p, n)
    BY <2>1, SupplyKeepsBooks
  <2>2. CASE \E o \in Orders, p \in Products, q \in 1..MaxInt : Reserve(o, p, q)
    BY <2>2, ReserveKeepsBooks
  <2>3. CASE \E o \in Orders, p \in Products : Release(o, p)
    BY <2>3, ReleaseKeepsBooks
  <2>4. CASE \E o \in Orders, p \in Products : Commit(o, p)
    BY <2>4, CommitKeepsBooks
  <2>5. CASE \E p \in Products, n \in 1..MaxInt : AddStock(p, n)
    <3>1. 1..MaxInt \subseteq 0..MaxInt
      BY CatalogAssumption
    <3> QED
      BY <2>5, <3>1, SupplyKeepsBooks
  <2>6. CASE UNCHANGED cvars
    BY <2>6 DEF cvars, IndInv, ReservedMatchesRows, ReservedWithinStock, StockConserved,
                HeldUnits, SoldUnits, Units
  <2> QED
    BY <2>1, <2>2, <2>3, <2>4, <2>5, <2>6 DEF Next
<1> QED
  BY <1>1, <1>2 DEF IndInv

\* The inductive invariant holds throughout.
LEMMA CatalogIndInv == Spec => []IndInv
  BY IndInit, IndStep, PTL DEF Spec

\* products.reserved is the sum of the reservation rows, always.
THEOREM CatalogReservedExact == Spec => []ReservedMatchesRows
<1>1. IndInv => ReservedMatchesRows
  BY DEF IndInv
<1> QED
  BY CatalogIndInv, <1>1, PTL

\* No oversell: every unit held for an order exists, whatever mixture of
\* reserve, release, commit and restock calls the store has served.
THEOREM CatalogNeverOversells == Spec => []HoldsAreBacked
<1>1. IndInv => HoldsAreBacked
  <2> SUFFICES ASSUME IndInv PROVE HoldsAreBacked
    OBVIOUS
  <2> QED
    BY DEF IndInv, ReservedMatchesRows, ReservedWithinStock, HoldsAreBacked
<1> QED
  BY CatalogIndInv, <1>1, PTL

\* Units are conserved: supply = stock + what orders consumed.
THEOREM CatalogConservesStock == Spec => []StockConserved
<1>1. IndInv => StockConserved
  BY DEF IndInv
<1> QED
  BY CatalogIndInv, <1>1, PTL

\* Settling one order never takes stock from another: only a new hold lowers
\* what is available, and by exactly its quantity.
THEOREM CatalogOnlyReserveTakes == Spec => OnlyReserveTakesStock
<1> DEFINE A == \A p \in Products :
          Available(p)' < Available(p) =>
             \E o \in Orders :
                /\ reservations[o][p] = 0
                /\ Available(p)' = Available(p) - reservations'[o][p]
                /\ \A x \in Orders \ {o} : reservations'[x][p] = reservations[x][p]
<1>1. IndInv /\ [Next]_cvars => [A]_cvars
  <2> SUFFICES ASSUME IndInv, Next PROVE A
    OBVIOUS
  <2>1. /\ stock \in [Products -> Nat] /\ reserved \in [Products -> Nat]
        /\ reservations \in PerLine(Nat)
    BY CatalogAssumption DEF IndInv, TypeOK, PerLine
  <2>2. ASSUME NEW p \in Products, NEW n \in 0..MaxInt, CreateProduct(p, n) PROVE A
    BY <2>1, <2>2, CatalogAssumption DEF CreateProduct, Available, IndInv, TypeOK
  <2>3. ASSUME NEW o \in Orders, NEW p \in Products, NEW q \in 1..MaxInt, Reserve(o, p, q)
        PROVE  A
    <3>1. CASE UNCHANGED cvars
      BY <2>1, <3>1 DEF cvars, Available
    <3>2. CASE reservations[o][p] = 0 /\ ~UNCHANGED cvars
      <4>1. /\ reservations' = [reservations EXCEPT ![o][p] = q]
            /\ reserved' = [reserved EXCEPT ![p] = reserved[p] + q]
            /\ stock' = stock /\ q \in Nat
        BY <2>3, <3>2, CatalogAssumption DEF Reserve, cvars
      <4>2. \A r \in Products \ {p} : Available(r)' = Available(r)
        BY <2>1, <4>1 DEF Available
      <4>3. Available(p)' = Available(p) - reservations'[o][p]
        BY <2>1, <4>1 DEF Available, PerLine
      <4>4. \A x \in Orders \ {o} : reservations'[x][p] = reservations[x][p]
        BY <2>1, <4>1 DEF PerLine
      <4>5. \A r \in Products : Available(r) \in Int
        BY <2>1 DEF Available
      <4> QED
        BY <3>2, <4>2, <4>3, <4>4, <4>5
    <3> QED
      BY <2>3, <3>1, <3>2 DEF Reserve
  <2>4. ASSUME NEW o \in Orders, NEW p \in Products, Release(o, p) \/ Commit(o, p)
        PROVE  A
    <3> DEFINE q == reservations[o][p]
    <3>1. /\ q \in Nat /\ stock[p] \in Nat /\ reserved[p] \in Nat
          /\ AtLeastZero(reserved[p] - q) = reserved[p] - q
          /\ AtLeastZero(stock[p] - q) = stock[p] - q
      BY SettleExact
    <3>2. \A r \in Products \ {p} : Available(r)' = Available(r)
      BY <2>1, <2>4 DEF Available, Release, Commit
    <3>3. ~(Available(p)' < Available(p))
      <4>1. CASE Release(o, p)
        BY <2>1, <3>1, <4>1 DEF Available, Release
      <4>2. CASE Commit(o, p)
        BY <2>1, <3>1, <4>2 DEF Available, Commit
      <4> QED
        BY <2>4, <4>1, <4>2
    <3>4. \A r \in Products : Available(r) \in Int
      BY <2>1 DEF Available
    <3> QED
      BY <3>2, <3>3, <3>4
  <2>5. ASSUME NEW p \in Products, NEW n \in 1..MaxInt, AddStock(p, n) PROVE A
    BY <2>1, <2>5, CatalogAssumption DEF AddStock, Available
  <2> QED
    BY <2>2, <2>3, <2>4, <2>5 DEF Next
<1> QED
  BY CatalogIndInv, <1>1, PTL DEF Spec, OnlyReserveTakesStock

-----------------------------------------------------------------------------
(* Concurrent transactions. *)

(* Transactions take their locks in one order: one that waits for a product   *)
(* row waits for a transaction at its commit, and one that waits for a        *)
(* reservation row for a transaction past that statement.                     *)
LEMMA LocksInOrder ==
    ASSUME NEW t \in Backends, NEW u \in Backends, WaitsFor(t, u)
    PROVE  \/ txn[t].pc = "row" /\ txn[u].pc \in {"update", "commit"}
           \/ txn[t].pc = "update" /\ txn[u].pc = "commit"
BY DEF WaitsFor, HoldsLine, HoldsProduct

(* In every group of transactions some member waits for no other: one at or   *)
(* past its commit if there is any, else one at its UPDATE, else any.         *)
LEMMA SomebodyRuns == NoDeadlock
<1> SUFFICES ASSUME NEW S \in (SUBSET Backends) \ {{}}
             PROVE  \E t \in S : \A u \in S : ~WaitsFor(t, u)
  BY DEF NoDeadlock
<1>1. CASE \E t \in S : txn[t].pc \notin {"row", "update"}
  BY <1>1, LocksInOrder
<1>2. CASE /\ \A t \in S : txn[t].pc \in {"row", "update"}
           /\ \E t \in S : txn[t].pc = "update"
  BY <1>2, LocksInOrder
<1>3. CASE \A t \in S : txn[t].pc = "row"
  BY <1>3, LocksInOrder
<1> QED
  BY <1>1, <1>2, <1>3

(* Release, Commit and Reserve lock the reservation row before the product    *)
(* row, so no set of transactions waits in a circle.                          *)
THEOREM TxnNeverDeadlocks == TxnSpec => []NoDeadlock
BY SomebodyRuns, PTL

-----------------------------------------------------------------------------
Txns == [pc : {"idle", "row", "update", "commit", "answer"},
         op : {"none", "reserve", "release", "commit"},
         order : Orders \cup {"none"}, product : Products \cup {"none"},
         quantity : 0..MaxInt, stock : 0..MaxInt, reserved : 0..MaxInt]

(* A line is settling from the first Release or Commit of it on. *)
Settling(o, p) == told[o][p] = "settling"

(* What a transaction knows at its statement.  At "update" it has the line:   *)
(* Reserve's row is new and the other two deleted the row they give back.  At *)
(* "commit" it has the product: what it wrote is computed from the committed  *)
(* row.  At "answer" Reserve has seen a row that only settling removes.       *)
TxnKnows(t) ==
    LET o == txn[t].order
        p == txn[t].product
        q == txn[t].quantity
    IN  /\ txn[t].pc # "idle" =>
              /\ o \in Orders /\ p \in Products
              /\ txn[t].op \in {"reserve", "release", "commit"}
              /\ IF txn[t].op = "reserve" THEN q > 0 ELSE Settling(o, p)
        /\ txn[t].pc \in {"update", "commit"} =>
              /\ p \in products
              /\ q > 0
              /\ reservations[o][p] = IF txn[t].op = "reserve" THEN 0 ELSE q
        /\ txn[t].pc = "commit" =>
              /\ Matches(t)
              /\ RowAllowed(NewStock(t), NewReserved(t))
              /\ txn[t].stock = NewStock(t)
              /\ txn[t].reserved = NewReserved(t)
        /\ txn[t].pc = "answer" /\ txn[t].op = "reserve" =>
              reservations[o][p] > 0 \/ Settling(o, p)

(* No two transactions have the same line or the same product row locked. *)
Exclusive ==
    \A t, u \in Backends : t # u =>
        /\ \A o \in Orders, p \in Products : ~(HoldsLine(t, o, p) /\ HoldsLine(u, o, p))
        /\ \A p \in Products : ~(HoldsProduct(t, p) /\ HoldsProduct(u, p))

(* The inductive invariant of the transactions over Catalog's. *)
TxnInv ==
    /\ IndInv
    /\ txn \in [Backends -> Txns]
    /\ told \in PerLine({"none", "held", "settling"})
    /\ \A t \in Backends : TxnKnows(t)
    /\ Exclusive
    /\ ToldHoldsLast

(* No transaction is running at first and no caller was told anything. *)
LEMMA TxnStart == TxnInit => TxnInv
<1> SUFFICES ASSUME TxnInit PROVE TxnInv
  OBVIOUS
<1>1. IndInv
  BY IndInit DEF TxnInit
<1>2. \A t \in Backends : txn[t] = Idle
  BY DEF TxnInit
<1>3. Idle \in Txns /\ Idle.pc = "idle"
  BY CatalogAssumption DEF Idle, Txns
<1>4. txn \in [Backends -> Txns]
  BY <1>3 DEF TxnInit
<1>5. told \in PerLine({"none", "held", "settling"}) /\ ToldHoldsLast
  BY DEF TxnInit, PerLine, ToldHoldsLast
<1>6. \A t \in Backends : TxnKnows(t)
  BY <1>2, <1>3 DEF TxnKnows
<1>7. Exclusive
  BY <1>2, <1>3 DEF Exclusive, HoldsLine, HoldsProduct
<1> QED
  BY <1>1, <1>4, <1>5, <1>6, <1>7 DEF TxnInv

(* The types of the tables and of a running transaction. *)
LEMMA TxnFacts ==
    ASSUME TxnInv, NEW t \in Backends
    PROVE  /\ txn[t] \in Txns
           /\ \A o \in Orders, p \in Products : reservations[o][p] \in 0..MaxInt
           /\ \A p \in Products : stock[p] \in 0..MaxInt /\ reserved[p] \in 0..MaxInt
           /\ \A o \in Orders, p \in Products : sold[o][p] \in Nat
           /\ \A o \in Orders, p \in Products : reservations[o][p] > 0 => p \in products
           /\ txn[t].pc # "idle" => txn[t].order \in Orders /\ txn[t].product \in Products
BY CatalogAssumption DEF TxnInv, IndInv, TypeOK, PerLine, TxnKnows

(* A transaction that does not move keeps knowing what it knows, if the step   *)
(* leaves the rows it has locked alone and only settling removes a row.        *)
LEMMA OthersKnow ==
    ASSUME TxnInv, NEW v \in Backends, txn'[v] = txn[v], products \subseteq products',
           \A o \in Orders, p \in Products :
              /\ HoldsLine(v, o, p) => reservations'[o][p] = reservations[o][p]
              /\ HoldsProduct(v, p) => stock'[p] = stock[p] /\ reserved'[p] = reserved[p]
              /\ Settling(o, p) => Settling(o, p)'
              /\ reservations[o][p] > 0 => reservations'[o][p] > 0 \/ Settling(o, p)'
    PROVE  TxnKnows(v)'
<1> DEFINE o == txn[v].order
           p == txn[v].product
<1>1. TxnKnows(v)
  BY DEF TxnInv
<1>2. txn[v].pc # "idle" => o \in Orders /\ p \in Products
  BY TxnFacts
<1>3. CASE txn[v].pc = "commit"
  <2>1. /\ o \in Orders /\ p \in Products
        /\ reservations'[o][p] = reservations[o][p]
        /\ stock'[p] = stock[p] /\ reserved'[p] = reserved[p]
    BY <1>2, <1>3 DEF HoldsLine, HoldsProduct
  <2>2. NewStock(v)' = NewStock(v) /\ NewReserved(v)' = NewReserved(v)
    BY <2>1 DEF NewStock, NewReserved
  <2>3. Matches(v)' = Matches(v)
    BY <2>1 DEF Matches, Available
  <2>4. RowAllowed(NewStock(v), NewReserved(v))' = RowAllowed(NewStock(v), NewReserved(v))
    BY <2>2 DEF RowAllowed
  <2> QED
    BY <1>1, <1>3, <2>1, <2>2, <2>3, <2>4 DEF TxnKnows
<1>4. CASE txn[v].pc = "update"
  <2>1. o \in Orders /\ p \in Products /\ reservations'[o][p] = reservations[o][p]
    BY <1>2, <1>4 DEF HoldsLine
  <2> QED
    BY <1>1, <1>4, <2>1 DEF TxnKnows
<1>5. CASE txn[v].pc \notin {"update", "commit"}
  BY <1>1, <1>2, <1>5 DEF TxnKnows
<1> QED
  BY <1>3, <1>4, <1>5

(* Locks stay exclusive when one transaction moves and takes only free ones. *)
LEMMA ExclusiveKept ==
    ASSUME TxnInv, NEW t \in Backends, NEW e \in Txns, txn' = [txn EXCEPT ![t] = e],
           e.pc \in {"update", "commit"} =>
              \A u \in Backends \ {t} : ~HoldsLine(u, e.order, e.product),
           e.pc = "commit" => \A u \in Backends \ {t} : ~HoldsProduct(u, e.product)
    PROVE  Exclusive'
<1>1. txn'[t] = e /\ \A u \in Backends \ {t} : txn'[u] = txn[u]
  BY DEF TxnInv
<1>2. Exclusive
  BY DEF TxnInv
<1> QED
  BY <1>1, <1>2 DEF Exclusive, HoldsLine, HoldsProduct

(* A step of one transaction that is invisible to the others. *)
LEMMA PrivateKeeps ==
    ASSUME TxnInv, NEW t \in Backends, NEW e \in Txns, txn' = [txn EXCEPT ![t] = e],
           UNCHANGED cvars, TxnKnows(t)',
           told' \in PerLine({"none", "held", "settling"}),
           \A o \in Orders, p \in Products : Settling(o, p) => Settling(o, p)',
           ToldHoldsLast',
           e.pc \in {"update", "commit"} =>
              \A u \in Backends \ {t} : ~HoldsLine(u, e.order, e.product),
           e.pc = "commit" => \A u \in Backends \ {t} : ~HoldsProduct(u, e.product)
    PROVE  TxnInv'
<1>1. IndInv'
  BY IndStep DEF TxnInv
<1>2. txn' \in [Backends -> Txns] /\ \A v \in Backends \ {t} : txn'[v] = txn[v]
  BY DEF TxnInv
<1>3. \A v \in Backends : TxnKnows(v)'
  <2>1. TAKE v \in Backends
  <2>2. CASE v = t
    BY <2>2
  <2>3. CASE v # t
    BY <1>2, <2>3, OthersKnow DEF cvars
  <2> QED
    BY <2>2, <2>3
<1>4. Exclusive'
  BY ExclusiveKept
<1> QED
  BY <1>1, <1>2, <1>3, <1>4 DEF TxnInv

(* A transaction ends without having changed anything. *)
LEMMA EndKeeps ==
    ASSUME TxnInv, NEW t \in Backends, txn' = [txn EXCEPT ![t] = Idle], UNCHANGED cvars,
           told' \in PerLine({"none", "held", "settling"}),
           \A o \in Orders, p \in Products : Settling(o, p) => Settling(o, p)',
           ToldHoldsLast'
    PROVE  TxnInv'
<1>1. Idle \in Txns /\ Idle.pc = "idle"
  BY CatalogAssumption DEF Idle, Txns
<1>2. txn'[t] = Idle
  BY DEF TxnInv
<1>3. TxnKnows(t)'
  BY <1>1, <1>2 DEF TxnKnows
<1> QED
  BY <1>1, <1>3, PrivateKeeps

(* What answering a caller changes: a Reserve's line that was not answered    *)
(* for before, and never one that is settling.                                *)
LEMMA TellFacts ==
    ASSUME TxnInv, NEW t \in Backends, txn[t].pc # "idle", Tell(t) \/ UNCHANGED told
    PROVE  /\ told' \in PerLine({"none", "held", "settling"})
           /\ \A o \in Orders, p \in Products : Settling(o, p) => Settling(o, p)'
           /\ \A o \in Orders, p \in Products :
                 told'[o][p] = "held" =>
                    \/ told[o][p] = "held"
                    \/ /\ o = txn[t].order /\ p = txn[t].product
                       /\ txn[t].op = "reserve" /\ told[o][p] = "none"
<1>1. txn[t].order \in Orders /\ txn[t].product \in Products
  BY TxnFacts
<1>2. told \in PerLine({"none", "held", "settling"})
  BY DEF TxnInv
<1>3. CASE UNCHANGED told
  BY <1>2, <1>3 DEF Settling
<1>4. CASE Tell(t)
  BY <1>1, <1>2, <1>4 DEF Tell, PerLine, Settling
<1> QED
  BY <1>3, <1>4

(* Beginning a transaction; a Release or Commit makes its line settling. *)
LEMMA BeginKeeps ==
    ASSUME TxnInv, NEW t \in Backends, NEW o \in Orders, NEW p \in Products,
           NEW op \in {"reserve", "release", "commit"}, NEW q \in 0..MaxInt,
           op = "reserve" => q > 0, Begin(t, op, o, p, q)
    PROVE  TxnInv'
<1> DEFINE e == [Idle EXCEPT !.pc = "row", !.op = op, !.order = o, !.product = p, !.quantity = q]
<1>1. e \in Txns /\ e.pc = "row" /\ e.op = op /\ e.order = o /\ e.product = p /\ e.quantity = q
  <2>1. Idle \in Txns
    BY CatalogAssumption DEF Idle, Txns
  <2> QED
    BY <2>1 DEF Txns
<1>2. txn' = [txn EXCEPT ![t] = e] /\ txn'[t] = e /\ UNCHANGED cvars
  BY DEF Begin, TxnInv
<1> HIDE DEF e
<1>3. told \in PerLine({"none", "held", "settling"}) /\ ToldHoldsLast
  BY DEF TxnInv
<1>4. /\ told' \in PerLine({"none", "held", "settling"})
      /\ \A x \in Orders, y \in Products : told'[x][y] \in {told[x][y], "settling"}
      /\ op # "reserve" => told'[o][p] = "settling"
  BY <1>3 DEF Begin, PerLine
<1>5. \A x \in Orders, y \in Products : Settling(x, y) => Settling(x, y)'
  BY <1>4 DEF Settling
<1>6. ToldHoldsLast'
  BY <1>2, <1>3, <1>4 DEF ToldHoldsLast, cvars
<1>7. TxnKnows(t)'
  BY <1>1, <1>2, <1>4 DEF TxnKnows, Settling
<1> QED
  BY <1>1, <1>2, <1>4, <1>5, <1>6, <1>7, PrivateKeeps

(* INSERT and DELETE: the line is free, so its row is the one they see. *)
LEMMA RowKeeps ==
    ASSUME TxnInv, NEW t \in Backends, InsertRow(t) \/ InsertConflicts(t) \/ DeleteRow(t)
    PROVE  TxnInv'
<1> DEFINE o == txn[t].order
           p == txn[t].product
           pc == IF \/ txn[t].op = "reserve" /\ reservations[o][p] = 0
                    \/ txn[t].op # "reserve" /\ reservations[o][p] > 0
                 THEN "update" ELSE "answer"
           q == IF txn[t].op = "reserve" THEN txn[t].quantity ELSE reservations[o][p]
           e == [txn[t] EXCEPT !.pc = pc, !.quantity = q]
<1>1. /\ txn[t].pc = "row" /\ (\A u \in Backends : ~WaitsFor(t, u))
      /\ UNCHANGED <<cvars, told>>
  BY DEF InsertRow, InsertConflicts, DeleteRow, Ready
<1>2. /\ txn[t] \in Txns /\ o \in Orders /\ p \in Products
      /\ reservations[o][p] \in 0..MaxInt
      /\ (reservations[o][p] > 0 => p \in products)
      /\ TxnKnows(t)
  BY <1>1, TxnFacts DEF TxnInv
<1>3. txn[t].quantity \in 0..MaxInt /\ q \in 0..MaxInt
  BY <1>2 DEF Txns
<1>4. e \in Txns /\ e.pc = pc /\ e.op = txn[t].op /\ e.order = o /\ e.product = p /\ e.quantity = q
  BY <1>2, <1>3 DEF Txns
<1>5. txn' = [txn EXCEPT ![t] = e]
  <2>1. CASE InsertRow(t)
    <3>1. pc = "update" /\ q = txn[t].quantity
      BY <2>1 DEF InsertRow
    <3>2. e = [txn[t] EXCEPT !.pc = "update"]
      BY <1>2, <3>1 DEF Txns
    <3> QED
      BY <2>1, <3>2 DEF InsertRow
  <2>2. CASE InsertConflicts(t)
    <3>1. pc = "answer" /\ q = txn[t].quantity
      BY <1>2, <2>2 DEF InsertConflicts
    <3>2. e = [txn[t] EXCEPT !.pc = "answer"]
      BY <1>2, <3>1 DEF Txns
    <3> QED
      BY <2>2, <3>2 DEF InsertConflicts
  <2>3. CASE DeleteRow(t)
    <3>1. pc = (IF reservations[o][p] > 0 THEN "update" ELSE "answer") /\ q = reservations[o][p]
      BY <2>3 DEF DeleteRow
    <3> QED
      BY <2>3, <3>1 DEF DeleteRow
  <2> QED
    BY <2>1, <2>2, <2>3
<1>6. txn[t].op = "reserve" /\ pc = "update" => p \in products
  BY <1>2 DEF InsertRow, InsertConflicts, DeleteRow
<1>7. pc \in {"update", "answer"}
  OBVIOUS
<1>8. pc = "update" => \A u \in Backends \ {t} : ~HoldsLine(u, o, p)
  <2>1. \A u \in Backends \ {t} : HoldsLine(u, o, p) =>
           ~(txn[t].op = "reserve" \/ reservations[o][p] > 0)
    BY <1>1 DEF WaitsFor
  <2> QED
    BY <2>1
<1>9. /\ pc = "update" => q > 0 /\ reservations[o][p] = IF txn[t].op = "reserve" THEN 0 ELSE q
      /\ pc = "answer" /\ txn[t].op = "reserve" => reservations[o][p] > 0
      /\ txn[t].op = "reserve" => q > 0
  <2>1. txn[t].op = "reserve" => txn[t].quantity > 0
    BY <1>1, <1>2 DEF TxnKnows
  <2>2. PICK r \in 0..MaxInt : r = reservations[o][p]
    BY <1>2
  <2>3. r = 0 \/ r > 0
    BY CatalogAssumption
  <2>4. CASE txn[t].op = "reserve" /\ r = 0
    <3>1. pc = "update" /\ q = txn[t].quantity
      BY <2>2, <2>4
    <3> QED
      BY <2>1, <2>2, <2>4, <3>1
  <2>5. CASE txn[t].op = "reserve" /\ r > 0
    <3>1. pc = "answer" /\ q = txn[t].quantity
      BY <2>2, <2>5
    <3> QED
      BY <2>1, <2>2, <2>5, <3>1
  <2>6. CASE txn[t].op # "reserve" /\ r = 0
    <3>1. pc = "answer"
      BY <2>2, <2>6
    <3> QED
      BY <2>6, <3>1
  <2>7. CASE txn[t].op # "reserve" /\ r > 0
    <3>1. q = r
      BY <2>2, <2>7
    <3> QED
      BY <2>2, <2>7, <3>1
  <2> QED
    BY <2>3, <2>4, <2>5, <2>6, <2>7
<1>10. txn'[t] = e
  BY <1>5 DEF TxnInv
<1> HIDE DEF e, pc, q
<1>11. TxnKnows(t)'
  BY <1>1, <1>2, <1>4, <1>6, <1>7, <1>9, <1>10 DEF TxnKnows, Settling, cvars
<1>12. \A x \in Orders, y \in Products : Settling(x, y) => Settling(x, y)'
  BY <1>1 DEF Settling
<1>13. told' \in PerLine({"none", "held", "settling"}) /\ ToldHoldsLast'
  BY <1>1 DEF TxnInv, ToldHoldsLast, cvars
<1> QED
  BY <1>1, <1>4, <1>5, <1>7, <1>8, <1>11, <1>12, <1>13, PrivateKeeps

(* UPDATE: the product row is free and its newest version matches. *)
LEMMA UpdateKeeps ==
    ASSUME TxnInv, NEW t \in Backends, UpdateProduct(t)
    PROVE  TxnInv'
<1> DEFINE o == txn[t].order
           p == txn[t].product
           e == [txn[t] EXCEPT !.pc = "commit", !.stock = NewStock(t), !.reserved = NewReserved(t)]
<1>1. /\ txn[t].pc = "update" /\ (\A u \in Backends : ~WaitsFor(t, u)) /\ Matches(t)
      /\ RowAllowed(NewStock(t), NewReserved(t))
      /\ UNCHANGED <<cvars, told>>
  BY DEF UpdateProduct, Ready
<1>2. txn[t] \in Txns /\ o \in Orders /\ p \in Products /\ TxnKnows(t)
  BY <1>1, TxnFacts DEF TxnInv
<1>3. NewStock(t) \in 0..MaxInt /\ NewReserved(t) \in 0..MaxInt
  BY <1>1, CatalogAssumption DEF RowAllowed
<1>4. /\ e \in Txns /\ e.pc = "commit" /\ e.op = txn[t].op /\ e.order = o /\ e.product = p
      /\ e.quantity = txn[t].quantity /\ e.stock = NewStock(t) /\ e.reserved = NewReserved(t)
  BY <1>2, <1>3 DEF Txns
<1>5. txn' = [txn EXCEPT ![t] = e] /\ txn'[t] = e
  BY <1>2 DEF UpdateProduct, TxnInv
<1> HIDE DEF e
<1>6. \A u \in Backends \ {t} : ~HoldsLine(u, o, p) /\ ~HoldsProduct(u, p)
  <2>1. HoldsLine(t, o, p) /\ Exclusive
    BY <1>1 DEF HoldsLine, TxnInv
  <2>2. \A u \in Backends \ {t} : ~HoldsLine(u, o, p)
    BY <1>2, <2>1 DEF Exclusive
  <2> QED
    BY <1>1, <2>2 DEF WaitsFor
<1>7. /\ NewStock(t)' = NewStock(t) /\ NewReserved(t)' = NewReserved(t)
      /\ Matches(t)' = Matches(t)
  BY <1>1, <1>4, <1>5 DEF NewStock, NewReserved, Matches, Available, cvars
<1>8. RowAllowed(NewStock(t), NewReserved(t))'
  BY <1>1, <1>7 DEF RowAllowed
<1>9. TxnKnows(t)'
  <2>1. /\ txn[t].op \in {"reserve", "release", "commit"} /\ p \in products
        /\ txn[t].quantity > 0 /\ (txn[t].op # "reserve" => Settling(o, p))
        /\ reservations[o][p] = IF txn[t].op = "reserve" THEN 0 ELSE txn[t].quantity
    BY <1>1, <1>2 DEF TxnKnows
  <2>2. /\ txn'[t].pc = "commit" /\ txn'[t].op = txn[t].op /\ txn'[t].order = o
        /\ txn'[t].product = p /\ txn'[t].quantity = txn[t].quantity
        /\ txn'[t].stock = NewStock(t)' /\ txn'[t].reserved = NewReserved(t)'
    BY <1>4, <1>5, <1>7
  <2>3. products' = products /\ reservations' = reservations /\ told' = told /\ Matches(t)'
    BY <1>1, <1>7 DEF cvars
  <2> QED
    BY <1>2, <1>8, <2>1, <2>2, <2>3 DEF TxnKnows, Settling
<1>10. \A x \in Orders, y \in Products : Settling(x, y) => Settling(x, y)'
  BY <1>1 DEF Settling
<1>11. told' \in PerLine({"none", "held", "settling"}) /\ ToldHoldsLast'
  BY <1>1 DEF TxnInv, ToldHoldsLast, cvars
<1> QED
  BY <1>1, <1>4, <1>5, <1>6, <1>9, <1>10, <1>11, PrivateKeeps

(* What a commit makes visible: rows of one line and one product, and nothing *)
(* else.                                                                      *)
LEMMA ApplyRows ==
    ASSUME TxnInv, NEW t \in Backends, Apply(t)
    PROVE  LET o == txn[t].order
               p == txn[t].product
               q == txn[t].quantity
           IN  /\ o \in Orders /\ p \in Products /\ p \in products
               /\ q \in 1..MaxInt /\ txn[t].op \in {"reserve", "release", "commit"}
               /\ reservations'[o][p] = IF txn[t].op = "reserve" THEN q ELSE 0
               /\ \A x \in Orders, y \in Products :
                     x # o \/ y # p => reservations'[x][y] = reservations[x][y]
               /\ \A y \in Products \ {p} : stock'[y] = stock[y] /\ reserved'[y] = reserved[y]
<1> DEFINE o == txn[t].order
           p == txn[t].product
           q == txn[t].quantity
<1>1. txn[t].pc = "commit" /\ txn[t] \in Txns /\ TxnKnows(t)
  BY TxnFacts DEF Apply, TxnInv
<1>2. /\ o \in Orders /\ p \in Products /\ p \in products
      /\ q \in 1..MaxInt /\ txn[t].op \in {"reserve", "release", "commit"}
  BY <1>1, CatalogAssumption DEF TxnKnows, Txns
<1>3. /\ reservations \in PerLine(0..MaxInt) /\ stock \in [Products -> 0..MaxInt]
      /\ reserved \in [Products -> 0..MaxInt]
  BY DEF TxnInv, IndInv, TypeOK
<1>4. /\ reservations'[o][p] = IF txn[t].op = "reserve" THEN q ELSE 0
      /\ \A x \in Orders, y \in Products :
            x # o \/ y # p => reservations'[x][y] = reservations[x][y]
  BY <1>2, <1>3 DEF Apply, PerLine
<1>5. \A y \in Products \ {p} : stock'[y] = stock[y] /\ reserved'[y] = reserved[y]
  BY <1>2, <1>3 DEF Apply
<1> QED
  BY <1>2, <1>4, <1>5

(* A commit is one call of the atomic store: the rows its statements were     *)
(* computed from are still the committed ones.                                *)
LEMMA ApplyIsCall ==
    ASSUME TxnInv, NEW t \in Backends, Apply(t)
    PROVE  Next
<1> DEFINE o == txn[t].order
           p == txn[t].product
           q == txn[t].quantity
<1>1. /\ txn[t].pc = "commit" /\ TxnKnows(t)
      /\ o \in Orders /\ p \in Products /\ p \in products
      /\ q \in 1..MaxInt /\ q > 0 /\ txn[t].op \in {"reserve", "release", "commit"}
  <2>1. /\ o \in Orders /\ p \in Products /\ p \in products
        /\ q \in 1..MaxInt /\ txn[t].op \in {"reserve", "release", "commit"}
    BY ApplyRows
  <2>2. q > 0
    BY <2>1, CatalogAssumption
  <2> QED
    BY <2>1, <2>2 DEF Apply, TxnInv
<1>2. /\ Matches(t) /\ RowAllowed(NewStock(t), NewReserved(t))
      /\ txn[t].stock = NewStock(t) /\ txn[t].reserved = NewReserved(t)
      /\ reservations[o][p] = IF txn[t].op = "reserve" THEN 0 ELSE q
  BY <1>1 DEF TxnKnows
<1>3. /\ reservations \in PerLine(0..MaxInt) /\ stock \in [Products -> 0..MaxInt]
      /\ reserved \in [Products -> 0..MaxInt] /\ sold \in PerLine(Nat)
  BY DEF TxnInv, IndInv, TypeOK
<1>4. UNCHANGED <<products, supplied>>
  BY DEF Apply
<1>5. txn[t].op # "commit" => UNCHANGED <<stock, sold>>
  <2> SUFFICES ASSUME txn[t].op # "commit" PROVE stock' = stock /\ sold' = sold
    OBVIOUS
  <2>1. stock' = [stock EXCEPT ![p] = stock[p]]
    BY <1>2 DEF Apply, NewStock
  <2>2. sold' = [sold EXCEPT ![o][p] = sold[o][p]]
    BY DEF Apply
  <2> QED
    BY <1>1, <1>3, <2>1, <2>2 DEF PerLine
<1>6. CASE txn[t].op = "reserve"
  <2>1. NewStock(t) = stock[p] /\ NewReserved(t) = reserved[p] + q
    BY <1>6 DEF NewStock, NewReserved
  <2>2. Available(p) >= q /\ RowAllowed(stock[p], reserved[p] + q) /\ reservations[o][p] = 0
    BY <1>2, <1>6, <2>1 DEF Matches
  <2>3. /\ reservations' = [reservations EXCEPT ![o][p] = q]
        /\ reserved' = [reserved EXCEPT ![p] = reserved[p] + q]
    BY <1>2, <1>6, <2>1 DEF Apply
  <2>4. Reserve(o, p, q)
    BY <1>1, <1>4, <1>5, <1>6, <2>2, <2>3 DEF Reserve
  <2> QED
    BY <1>1, <2>4 DEF Next
<1>7. CASE txn[t].op = "release"
  <2>1. /\ NewStock(t) = stock[p] /\ NewReserved(t) = AtLeastZero(reserved[p] - q)
        /\ reservations[o][p] = q
    BY <1>2, <1>7 DEF NewStock, NewReserved
  <2>2. /\ reservations' = [reservations EXCEPT ![o][p] = 0]
        /\ reserved' = [reserved EXCEPT ![p] = AtLeastZero(reserved[p] - q)]
    BY <1>2, <1>7, <2>1 DEF Apply
  <2>3. Release(o, p)
    BY <1>1, <1>2, <1>4, <1>5, <1>7, <2>1, <2>2 DEF Release
  <2> QED
    BY <1>1, <2>3 DEF Next
<1>8. CASE txn[t].op = "commit"
  <2>1. /\ NewStock(t) = AtLeastZero(stock[p] - q)
        /\ NewReserved(t) = AtLeastZero(reserved[p] - q)
        /\ reservations[o][p] = q
    BY <1>2, <1>8 DEF NewStock, NewReserved
  <2>2. /\ reservations' = [reservations EXCEPT ![o][p] = 0]
        /\ reserved' = [reserved EXCEPT ![p] = AtLeastZero(reserved[p] - q)]
        /\ stock' = [stock EXCEPT ![p] = AtLeastZero(stock[p] - q)]
        /\ sold' = [sold EXCEPT ![o][p] = sold[o][p] + q]
    BY <1>2, <1>8, <2>1 DEF Apply
  <2>3. Commit(o, p)
    BY <1>1, <1>2, <1>4, <2>1, <2>2 DEF Commit
  <2> QED
    BY <1>1, <2>3 DEF Next
<1> QED
  BY <1>1, <1>6, <1>7, <1>8

(* A commit keeps what the other transactions know: it changes no row that    *)
(* they have locked.                                                          *)
LEMMA ApplyKeeps ==
    ASSUME TxnInv, NEW t \in Backends, Apply(t), Tell(t) \/ UNCHANGED told
    PROVE  TxnInv'
<1> DEFINE o == txn[t].order
           p == txn[t].product
<1>1. IndInv'
  BY ApplyIsCall, IndStep DEF TxnInv
<1>2. /\ txn' = [txn EXCEPT ![t] = Idle] /\ Idle \in Txns /\ Idle.pc = "idle"
      /\ txn' \in [Backends -> Txns] /\ txn'[t] = Idle
      /\ \A v \in Backends \ {t} : txn'[v] = txn[v]
  <2>1. Idle \in Txns /\ Idle.pc = "idle"
    BY CatalogAssumption DEF Idle, Txns
  <2> QED
    BY <2>1 DEF Apply, TxnInv
<1>3. txn[t].pc = "commit" /\ o \in Orders /\ p \in Products /\ TxnKnows(t)
  BY ApplyRows DEF Apply, TxnInv
<1>4. /\ told' \in PerLine({"none", "held", "settling"})
      /\ \A x \in Orders, y \in Products : Settling(x, y) => Settling(x, y)'
      /\ \A x \in Orders, y \in Products :
            told'[x][y] = "held" =>
               told[x][y] = "held" \/ (x = o /\ y = p /\ txn[t].op = "reserve")
  BY <1>3, TellFacts
<1>5. txn[t].op # "reserve" => Settling(o, p)
  BY <1>3 DEF TxnKnows
<1>6. \A x \in Orders, y \in Products :
         reservations[x][y] > 0 => reservations'[x][y] > 0 \/ Settling(x, y)
  BY <1>5, ApplyRows
<1>7. \A v \in Backends : TxnKnows(v)'
  <2>1. TAKE v \in Backends
  <2>2. CASE v = t
    BY <1>2, <2>2 DEF TxnKnows
  <2>3. CASE v # t
    <3>1. HoldsLine(t, o, p) /\ HoldsProduct(t, p) /\ Exclusive
      BY <1>3 DEF HoldsLine, HoldsProduct, TxnInv
    <3>2. ~HoldsLine(v, o, p) /\ ~HoldsProduct(v, p)
      BY <1>3, <2>3, <3>1 DEF Exclusive
    <3>3. \A x \in Orders, y \in Products : HoldsLine(v, x, y) => reservations'[x][y] = reservations[x][y]
      BY <3>2, ApplyRows
    <3>4. \A y \in Products : HoldsProduct(v, y) => stock'[y] = stock[y] /\ reserved'[y] = reserved[y]
      BY <3>2, ApplyRows
    <3>5. products' = products
      BY DEF Apply
    <3> QED
      BY <1>2, <1>4, <1>6, <2>3, <3>3, <3>4, <3>5, OthersKnow
  <2> QED
    BY <2>2, <2>3
<1>8. Exclusive'
  BY <1>2, ExclusiveKept
<1>9. ToldHoldsLast'
  <2> SUFFICES ASSUME NEW x \in Orders, NEW y \in Products, told'[x][y] = "held"
               PROVE  reservations'[x][y] > 0
    BY DEF ToldHoldsLast
  <2>1. CASE told[x][y] = "held"
    <3>1. reservations[x][y] > 0 /\ ~Settling(x, y)
      BY <2>1 DEF TxnInv, ToldHoldsLast, Settling
    <3> QED
      BY <1>6, <3>1
  <2>2. CASE x = o /\ y = p /\ txn[t].op = "reserve"
    BY <2>2, ApplyRows
  <2> QED
    BY <1>4, <2>1, <2>2
<1> QED
  BY <1>1, <1>2, <1>4, <1>7, <1>8, <1>9 DEF TxnInv

(* A caller is answered without a change: a Reserve it is told of has its row, *)
(* or the line has begun to settle since.                                      *)
LEMMA AnswerKeeps ==
    ASSUME TxnInv, NEW t \in Backends, AnswerUnchanged(t)
    PROVE  TxnInv'
<1>1. txn[t].pc = "answer" /\ UNCHANGED cvars /\ txn' = [txn EXCEPT ![t] = Idle]
      /\ (Tell(t) \/ UNCHANGED told) /\ TxnKnows(t)
  BY DEF AnswerUnchanged, TxnInv
<1>2. ToldHoldsLast'
  <2> SUFFICES ASSUME NEW x \in Orders, NEW y \in Products, told'[x][y] = "held"
               PROVE  reservations[x][y] > 0
    BY <1>1 DEF ToldHoldsLast, cvars
  <2>1. CASE told[x][y] = "held"
    BY <2>1 DEF TxnInv, ToldHoldsLast
  <2>2. CASE /\ x = txn[t].order /\ y = txn[t].product
             /\ txn[t].op = "reserve" /\ told[x][y] = "none"
    BY <1>1, <2>2 DEF TxnKnows, Settling
  <2> QED
    BY <1>1, <2>1, <2>2, TellFacts
<1> QED
  BY <1>1, <1>2, TellFacts, EndKeeps

(* A product is created or restocked while no transaction has its row. *)
LEMMA SupplyKeeps ==
    ASSUME TxnInv, NEW p \in Products, NEW n \in 0..MaxInt,
           CreateProductAlone(p, n) \/ (n > 0 /\ AddStockUnlocked(p, n))
    PROVE  Next /\ TxnInv'
<1>1. Next
  <2>1. n > 0 => n \in 1..MaxInt
    BY CatalogAssumption
  <2> QED
    BY <2>1 DEF Next, CreateProductAlone, AddStockUnlocked
<1>2. IndInv'
  BY <1>1, IndStep DEF TxnInv
<1>3. UNCHANGED <<txn, told, reservations, reserved>> /\ products \subseteq products'
  BY DEF CreateProductAlone, AddStockUnlocked, CreateProduct, AddStock
<1>4. \A y \in Products \ {p} : stock'[y] = stock[y]
  BY DEF CreateProductAlone, AddStockUnlocked, CreateProduct, AddStock, TxnInv, IndInv, TypeOK
<1>5. ASSUME NEW v \in Backends PROVE TxnKnows(v)'
  <2>1. ~HoldsProduct(v, p)
    BY DEF CreateProductAlone, AddStockUnlocked, CreateProduct, TxnInv, TxnKnows, HoldsProduct
  <2>2. \A y \in Products : HoldsProduct(v, y) => stock'[y] = stock[y]
    BY <1>4, <2>1
  <2> QED
    BY <1>3, <2>2, OthersKnow DEF Settling
<1>6. (Exclusive /\ ToldHoldsLast)' /\ told' \in PerLine({"none", "held", "settling"})
      /\ txn' \in [Backends -> Txns]
  BY <1>3 DEF TxnInv, Exclusive, HoldsLine, HoldsProduct, ToldHoldsLast
<1> QED
  BY <1>1, <1>2, <1>5, <1>6 DEF TxnInv

(* Every step keeps the invariant, and is a call of the atomic store or leaves *)
(* its tables alone.                                                           *)
LEMMA TxnStepSimulates == TxnInv /\ [TxnNext]_tvars => TxnInv' /\ [Next]_cvars
<1> SUFFICES ASSUME TxnInv, [TxnNext]_tvars PROVE TxnInv' /\ [Next]_cvars
  OBVIOUS
<1>1. ASSUME NEW p \in Products, NEW n \in 0..MaxInt, CreateProductAlone(p, n)
      PROVE  TxnInv' /\ Next
  BY <1>1, SupplyKeeps
<1>2. ASSUME NEW p \in Products, NEW n \in 1..MaxInt, AddStockUnlocked(p, n)
      PROVE  TxnInv' /\ Next
  <2>1. n \in 0..MaxInt /\ n > 0
    BY CatalogAssumption
  <2> QED
    BY <1>2, <2>1, SupplyKeeps
<1>3. ASSUME NEW t \in Backends, NEW o \in Orders, NEW p \in Products,
             \/ \E q \in 1..MaxInt : Begin(t, "reserve", o, p, q)
             \/ Begin(t, "release", o, p, 0)
             \/ Begin(t, "commit", o, p, 0)
      PROVE  TxnInv' /\ UNCHANGED cvars
  <2>1. CASE \E q \in 1..MaxInt : Begin(t, "reserve", o, p, q)
    <3>1. PICK q \in 1..MaxInt : Begin(t, "reserve", o, p, q)
      BY <2>1
    <3>2. q \in 0..MaxInt /\ q > 0
      BY CatalogAssumption
    <3> QED
      BY <3>1, <3>2, BeginKeeps DEF Begin
  <2>2. CASE Begin(t, "release", o, p, 0) \/ Begin(t, "commit", o, p, 0)
    <3>1. 0 \in 0..MaxInt
      BY CatalogAssumption
    <3> QED
      BY <2>2, <3>1, BeginKeeps DEF Begin
  <2> QED
    BY <1>3, <2>1, <2>2
<1>4. ASSUME NEW t \in Backends, InsertRow(t) \/ InsertConflicts(t) \/ DeleteRow(t)
      PROVE  TxnInv' /\ UNCHANGED cvars
  BY <1>4, RowKeeps DEF InsertRow, InsertConflicts, DeleteRow
<1>5. ASSUME NEW t \in Backends, UpdateProduct(t)
      PROVE  TxnInv' /\ UNCHANGED cvars
  BY <1>5, UpdateKeeps DEF UpdateProduct
<1>6. ASSUME NEW t \in Backends, UpdateRefused(t) \/ Abort(t)
      PROVE  TxnInv' /\ UNCHANGED cvars
  <2>1. UNCHANGED <<cvars, told>> /\ txn' = [txn EXCEPT ![t] = Idle]
    BY <1>6 DEF UpdateRefused, Abort
  <2>2. told' \in PerLine({"none", "held", "settling"}) /\ ToldHoldsLast'
    BY <2>1 DEF TxnInv, ToldHoldsLast, cvars
  <2> QED
    BY <2>1, <2>2, EndKeeps DEF Settling
<1>7. ASSUME NEW t \in Backends, AnswerUnchanged(t)
      PROVE  TxnInv' /\ UNCHANGED cvars
  BY <1>7, AnswerKeeps DEF AnswerUnchanged
<1>8. ASSUME NEW t \in Backends, CommitTxn(t) \/ CommitUnanswered(t)
      PROVE  TxnInv' /\ Next
  BY <1>8, ApplyKeeps, ApplyIsCall DEF CommitTxn, CommitUnanswered
<1>9. CASE UNCHANGED tvars
  <2>1. UNCHANGED <<txn, told>> /\ UNCHANGED cvars
    BY <1>9 DEF tvars
  <2>2. IndInv'
    BY <2>1, IndStep DEF TxnInv
  <2>3. \A v \in Backends : TxnKnows(v)'
    BY <2>1, OthersKnow DEF cvars, Settling
  <2>4. (Exclusive /\ ToldHoldsLast)' /\ told' \in PerLine({"none", "held", "settling"})
        /\ txn' \in [Backends -> Txns]
    BY <2>1 DEF TxnInv, Exclusive, HoldsLine, HoldsProduct, ToldHoldsLast, cvars
  <2> QED
    BY <2>1, <2>2, <2>3, <2>4 DEF TxnInv
<1> QED
  BY <1>1, <1>2, <1>3, <1>4, <1>5, <1>6, <1>7, <1>8, <1>9 DEF TxnNext, TxnStep

(* The invariant of the transactions holds in every reachable state. *)
LEMMA TxnInvariant == TxnSpec => []TxnInv
<1>1. TxnInv /\ [TxnNext]_tvars => TxnInv'
  BY TxnStepSimulates
<1> QED
  BY TxnStart, <1>1, PTL DEF TxnSpec

(* The concurrent transactions implement the atomic store: each Reserve,       *)
(* Release and Commit takes effect at one instant, its tx.Commit, and does     *)
(* what Catalog says it does on the tables of that instant.                    *)
THEOREM TxnImplementsCatalog == TxnSpec => ImplementsCatalog
<1>1. TxnInit => Init
  BY DEF TxnInit
<1>2. TxnInv /\ [TxnNext]_tvars => [Next]_cvars
  BY TxnStepSimulates
<1> QED
  BY TxnInvariant, <1>1, <1>2, PTL DEF TxnSpec, Spec, ImplementsCatalog

(* A hold whose Reserve was answered with success stays until the order is     *)
(* released or committed, whatever transactions roll back in between.          *)
THEOREM TxnToldHoldsLast == TxnSpec => []ToldHoldsLast
<1>1. TxnInv => ToldHoldsLast
  BY DEF TxnInv
<1> QED
  BY TxnInvariant, <1>1, PTL

(* The books of the atomic store are kept under concurrent transactions:       *)
(* reserved is the sum of the rows, no unit is oversold, none is lost.         *)
THEOREM TxnKeepsBooks == TxnSpec => [](ReservedMatchesRows /\ HoldsAreBacked /\ StockConserved)
BY TxnImplementsCatalog, CatalogReservedExact, CatalogNeverOversells, CatalogConservesStock, PTL
   DEF ImplementsCatalog
=============================================================================
