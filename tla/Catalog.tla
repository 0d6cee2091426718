------------------------------- MODULE Catalog -------------------------------
(***************************************************************************)
(* The catalog service's inventory store (services/catalog/store.go) over  *)
(* the products and reservations tables of its migration.  Every exported  *)
(* method is one database transaction, so each one is one action (module   *)
(* CatalogTxn has their statements); a refused call changes nothing and is *)
(* not an action.                                                          *)
(*                                                                         *)
(* A product is identified by its SKU: the id is a fresh UUID and the      *)
(* unique index lets one SKU name only one row.  A reservation row is its  *)
(* quantity, 0 when there is no row (the table checks quantity > 0).       *)
(***************************************************************************)
EXTENDS Integers, FiniteSets

CONSTANTS
    Orders,      \* order ids callers use
    Products,    \* SKUs
    MaxInt,      \* largest value of a Postgres INTEGER column
    MaxSupply    \* bound: units ever stocked of one product

ASSUME CatalogAssumption ==
    /\ IsFiniteSet(Orders)
    /\ MaxInt \in Nat
    /\ MaxSupply \in Nat

VARIABLES
    products,      \* SKUs that have a row
    stock,         \* products.stock
    reserved,      \* products.reserved
    reservations,  \* reservations.quantity by order and product
    sold,          \* history: units Commit has consumed, by order and product
    supplied       \* history: units CreateProduct and AddStock have put in

cvars == <<products, stock, reserved, reservations, sold, supplied>>

\* A quantity for every line (order and product).
PerLine(S) == [Orders -> [Products -> S]]

Init ==
    /\ products = {}
    /\ stock = [p \in Products |-> 0]
    /\ reserved = [p \in Products |-> 0]
    /\ reservations = [o \in Orders |-> [p \in Products |-> 0]]
    /\ sold = [o \in Orders |-> [p \in Products |-> 0]]
    /\ supplied = [p \in Products |-> 0]

-----------------------------------------------------------------------------
\* Product.Available: what can still be promised to a new order.
Available(p) == stock[p] - reserved[p]

\* Mutant of RowAllowed: no constraints.
AnyRow(newStock, newReserved) == TRUE

\* The CHECK constraints of the products table, on a row's new values.  A
\* statement that breaks one aborts its transaction.
RowAllowed(newStock, newReserved) ==
    /\ newStock \in 0..MaxInt
    /\ newReserved \in 0..newStock

\* GREATEST(0, n) of the two UPDATE statements that give stock back.
AtLeastZero(n) == IF n < 0 THEN 0 ELSE n

CreateProduct(p, n) ==
    /\ p \notin products
    /\ RowAllowed(n, 0)
    /\ n <= MaxSupply
    /\ products' = products \cup {p}
    /\ stock' = [stock EXCEPT ![p] = n]
    /\ supplied' = [supplied EXCEPT ![p] = n]
    /\ UNCHANGED <<reserved, reservations, sold>>

\* Reserve, when it answers success: either the order already has a row for
\* this product, whatever its quantity (INSERT ... DO NOTHING hit the key), or
\* the row is inserted and the WHERE clause found enough available.
Reserve(o, p, q) ==
    /\ p \in products
    /\ q > 0
    /\ \/ /\ reservations[o][p] > 0
          /\ UNCHANGED cvars
       \/ /\ reservations[o][p] = 0
          /\ Available(p) >= q
          /\ RowAllowed(stock[p], reserved[p] + q)
          /\ reservations' = [reservations EXCEPT ![o][p] = q]
          /\ reserved' = [reserved EXCEPT ![p] = @ + q]
          /\ UNCHANGED <<products, stock, sold, supplied>>

\* Reserve, when it answers ErrInsufficientStock: the transaction, the new
\* reservation row included, is rolled back.
ReserveRefused(o, p, q) ==
    /\ p \in products
    /\ q > 0
    /\ reservations[o][p] = 0
    /\ Available(p) < q

\* Release: DELETE ... RETURNING quantity, then give the quantity back.  With
\* no row to delete it answers success and changes nothing.
Release(o, p) ==
    LET q == reservations[o][p]
        newReserved == AtLeastZero(reserved[p] - q)
    IN  /\ p \in products
        /\ q > 0 => RowAllowed(stock[p], newReserved)
        /\ reservations' = [reservations EXCEPT ![o][p] = 0]
        /\ reserved' = IF q > 0 THEN [reserved EXCEPT ![p] = newReserved] ELSE reserved
        /\ UNCHANGED <<products, stock, sold, supplied>>

\* Commit: as Release, but the units leave the warehouse.
Commit(o, p) ==
    LET q == reservations[o][p]
        newStock == AtLeastZero(stock[p] - q)
        newReserved == AtLeastZero(reserved[p] - q)
    IN  /\ p \in products
        /\ q > 0 => RowAllowed(newStock, newReserved)
        /\ reservations' = [reservations EXCEPT ![o][p] = 0]
        /\ reserved' = IF q > 0 THEN [reserved EXCEPT ![p] = newReserved] ELSE reserved
        /\ stock' = IF q > 0 THEN [stock EXCEPT ![p] = newStock] ELSE stock
        /\ sold' = [sold EXCEPT ![o][p] = @ + q]
        /\ UNCHANGED <<products, supplied>>

AddStock(p, n) ==
    /\ p \in products
    /\ n > 0
    /\ RowAllowed(stock[p] + n, reserved[p])
    /\ supplied[p] + n <= MaxSupply
    /\ stock' = [stock EXCEPT ![p] = @ + n]
    /\ supplied' = [supplied EXCEPT ![p] = @ + n]
    /\ UNCHANGED <<products, reserved, reservations, sold>>

Next ==
    \/ \E p \in Products, n \in 0..MaxInt : CreateProduct(p, n)
    \/ \E o \in Orders, p \in Products, q \in 1..MaxInt : Reserve(o, p, q)
    \/ \E o \in Orders, p \in Products : Release(o, p)
    \/ \E o \in Orders, p \in Products : Commit(o, p)
    \/ \E p \in Products, n \in 1..MaxInt : AddStock(p, n)

Spec == Init /\ [][Next]_cvars

-----------------------------------------------------------------------------
\* Every variable holds a value of its column's type; a product without a row
\* has no stock and no reservation refers to it (the foreign key).
TypeOK ==
    /\ products \subseteq Products
    /\ stock \in [Products -> 0..MaxInt]
    /\ reserved \in [Products -> 0..MaxInt]
    /\ reservations \in PerLine(0..MaxInt)
    /\ sold \in PerLine(Nat)
    /\ supplied \in [Products -> 0..MaxSupply]
    /\ \A o \in Orders, p \in Products \ products :
          reservations[o][p] = 0 /\ sold[o][p] = 0
    /\ \A p \in Products \ products :
          stock[p] = 0 /\ reserved[p] = 0 /\ supplied[p] = 0

\* The units a table of per-line quantities stands for, one element per unit.
Units(quantity, p) == UNION {{o} \X (1..quantity[o][p]) : o \in Orders}

HeldUnits(p) == Units(reservations, p)
SoldUnits(p) == Units(sold, p)

\* The denormalised products.reserved is the sum of the reservation rows, so
\* the GREATEST of Release and Commit never has anything to hide.
ReservedMatchesRows ==
    \A p \in Products : reserved[p] = Cardinality(HeldUnits(p))

\* No oversell: what is held for orders exists in the warehouse.
HoldsAreBacked ==
    \A p \in Products : Cardinality(HeldUnits(p)) <= stock[p]

\* The table constraint reserved_within_stock, needed as part of the inductive
\* invariant (HoldsAreBacked follows from it and ReservedMatchesRows).
ReservedWithinStock == \A p \in Products : reserved[p] <= stock[p]

\* Units are neither created nor destroyed: what came in is in stock or was
\* consumed by the Commit of some order.
StockConserved ==
    \A p \in Products : stock[p] + Cardinality(SoldUnits(p)) = supplied[p]

\* The inductive invariant behind the theorems of CatalogProofs.
IndInv ==
    /\ TypeOK
    /\ ReservedMatchesRows
    /\ ReservedWithinStock
    /\ StockConserved

\* Available stock falls only by what one order newly holds, and settling an
\* order (Release, Commit) never takes units promised to another one.
OnlyReserveTakesStock ==
    [][\A p \in Products :
          Available(p)' < Available(p) =>
             \E o \in Orders :
                /\ reservations[o][p] = 0
                /\ Available(p)' = Available(p) - reservations'[o][p]
                /\ \A x \in Orders \ {o} : reservations'[x][p] = reservations[x][p]]_cvars
=============================================================================
