SPECIFICATION TxnSpec
CONSTANTS
    Orders = {o1, o2}
    Products = {p1}
    Backends = {t1, t2, t3}
    MaxInt = 2
    MaxSupply = 3
SYMMETRY Symmetry
INVARIANTS
    TypeOK
    ReservedMatchesRows
    HoldsAreBacked
    StockConserved
    ToldHoldsLast
    NoDeadlock
PROPERTIES
    OnlyReserveTakesStock
    ImplementsCatalog
