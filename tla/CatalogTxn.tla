----------------------------- MODULE CatalogTxn -----------------------------
(***************************************************************************)
(* Store.Reserve, Release and Commit (services/catalog/store.go) one       *)
(* statement at a time, as concurrent READ COMMITTED transactions of the   *)
(* connection pool.  The variables of Catalog are the committed tables; a  *)
(* transaction keeps what it has written to itself until it commits.       *)
(*                                                                         *)
(* A statement that finds its row locked waits, and then looks at the row  *)
(* the other transaction left, so waiting is a guard.  A DELETE that waited *)
(* misses a row inserted meanwhile; it finds none in the order of steps in *)
(* which it ran before that insert.                                        *)
(***************************************************************************)
EXTENDS Catalog

CONSTANT Backends   \* connections of the pool

VARIABLES
    txn,    \* each connection's transaction
    told    \* history of a line: none, held once a Reserve was answered with
            \* success, settling from the first Release or Commit on

tvars == <<cvars, txn, told>>

\* stock and reserved: the values the UPDATE has written, not yet committed.
Idle == [pc |-> "idle", op |-> "none", order |-> "none", product |-> "none",
         quantity |-> 0, stock |-> 0, reserved |-> 0]

TxnInit ==
    /\ Init
    /\ txn = [t \in Backends |-> Idle]
    /\ told = [o \in Orders |-> [p \in Products |-> "none"]]

-----------------------------------------------------------------------------
\* Mutant of HoldsLine: SELECT quantity, and only at the end DELETE.
HoldsNoLine(t, o, p) == FALSE

\* t has inserted or deleted this reservation row.
HoldsLine(t, o, p) ==
    /\ txn[t].order = o /\ txn[t].product = p
    /\ txn[t].pc \in {"update", "commit"}

\* Mutants of HoldsProduct: availability is read into Go and written back; a
\* SELECT ... FOR UPDATE of the product begins Release.
HoldsNoProduct(t, p) == FALSE

ReleaseLocksProductFirst(t, p) ==
    /\ txn[t].product = p
    /\ \/ txn[t].pc = "commit"
       \/ txn[t].op = "release" /\ txn[t].pc \in {"row", "update"}

\* t has updated this product row.
HoldsProduct(t, p) == txn[t].product = p /\ txn[t].pc = "commit"

\* The WHERE clause of Reserve's UPDATE, on the committed row.
Matches(t) == txn[t].op = "reserve" => Available(txn[t].product) >= txn[t].quantity

\* t's next statement must wait for u: INSERT for any change of the key, DELETE
\* for another deletion of a row it sees, UPDATE for another update of a row
\* that its WHERE clause matches.  (The foreign key's lock on the product
\* is compatible with these updates, which change no key.)
WaitsFor(t, u) ==
    LET o == txn[t].order
        p == txn[t].product
    IN  /\ t # u
        /\ \/ /\ txn[t].pc = "row" /\ HoldsLine(u, o, p)
              /\ txn[t].op = "reserve" \/ reservations[o][p] > 0
           \/ /\ txn[t].pc = "update" /\ HoldsProduct(u, p)
              /\ Matches(t)

Ready(t, pc) == txn[t].pc = pc /\ \A u \in Backends : ~WaitsFor(t, u)

-----------------------------------------------------------------------------
Begin(t, op, o, p, q) ==
    /\ txn[t].pc = "idle"
    /\ txn' = [txn EXCEPT ![t] = [Idle EXCEPT !.pc = "row", !.op = op, !.order = o,
                                              !.product = p, !.quantity = q]]
    /\ told' = IF op = "reserve" THEN told ELSE [told EXCEPT ![o][p] = "settling"]
    /\ UNCHANGED cvars

\* INSERT ... ON CONFLICT DO NOTHING inserts; the foreign key needs the product.
InsertRow(t) ==
    /\ Ready(t, "row")
    /\ txn[t].op = "reserve"
    /\ txn[t].product \in products
    /\ reservations[txn[t].order][txn[t].product] = 0
    /\ txn' = [txn EXCEPT ![t].pc = "update"]
    /\ UNCHANGED <<cvars, told>>

\* Mutant of InsertConflicts: a row not committed yet is a conflict too.
ConflictsUncommitted(t) ==
    LET o == txn[t].order
        p == txn[t].product
    IN  /\ txn[t].pc = "row" /\ txn[t].op = "reserve"
        /\ \/ reservations[o][p] > 0
           \/ \E u \in Backends : HoldsLine(u, o, p)
        /\ txn' = [txn EXCEPT ![t].pc = "answer"]
        /\ UNCHANGED <<cvars, told>>

\* The row was there: no rows affected.
InsertConflicts(t) ==
    /\ Ready(t, "row")
    /\ txn[t].op = "reserve"
    /\ reservations[txn[t].order][txn[t].product] > 0
    /\ txn' = [txn EXCEPT ![t].pc = "answer"]
    /\ UNCHANGED <<cvars, told>>

\* DELETE ... RETURNING quantity, or nothing to delete.
DeleteRow(t) ==
    LET q == reservations[txn[t].order][txn[t].product]
    IN  /\ Ready(t, "row")
        /\ txn[t].op # "reserve"
        /\ txn' = [txn EXCEPT ![t].pc = IF q > 0 THEN "update" ELSE "answer",
                              ![t].quantity = q]
        /\ UNCHANGED <<cvars, told>>

\* Mutant of NewReserved: Commit takes the stock and leaves the promise.
NewReservedReleaseOnly(t) ==
    LET now == reserved[txn[t].product]
    IN  CASE txn[t].op = "reserve" -> now + txn[t].quantity
          [] txn[t].op = "release" -> AtLeastZero(now - txn[t].quantity)
          [] OTHER -> now

\* What the UPDATE statements assign to products.reserved and products.stock.
NewReserved(t) ==
    LET now == reserved[txn[t].product]
    IN  IF txn[t].op = "reserve"
        THEN now + txn[t].quantity ELSE AtLeastZero(now - txn[t].quantity)

NewStock(t) ==
    LET now == stock[txn[t].product]
    IN  IF txn[t].op = "commit" THEN AtLeastZero(now - txn[t].quantity) ELSE now

\* UPDATE products: the row is locked and its newest version tested.
UpdateProduct(t) ==
    /\ Ready(t, "update")
    /\ Matches(t)
    /\ RowAllowed(NewStock(t), NewReserved(t))
    /\ txn' = [txn EXCEPT ![t].pc = "commit", ![t].stock = NewStock(t),
                          ![t].reserved = NewReserved(t)]
    /\ UNCHANGED <<cvars, told>>

\* Mutant of UpdateRefused: the new reservation row is committed all the same.
RefusedKeepsRow(t) ==
    LET o == txn[t].order
        p == txn[t].product
    IN  /\ txn[t].pc = "update" /\ ~Matches(t)
        /\ reservations' = [reservations EXCEPT ![o][p] = txn[t].quantity]
        /\ txn' = [txn EXCEPT ![t] = Idle]
        /\ UNCHANGED <<products, stock, reserved, sold, supplied, told>>

\* No row matched: ErrInsufficientStock, and the deferred Rollback.
UpdateRefused(t) ==
    /\ txn[t].pc = "update" /\ ~Matches(t)
    /\ txn' = [txn EXCEPT ![t] = Idle]
    /\ UNCHANGED <<cvars, told>>

\* The caller is answered with success.
Tell(t) ==
    told' = IF /\ txn[t].op = "reserve"
               /\ told[txn[t].order][txn[t].product] = "none"
            THEN [told EXCEPT ![txn[t].order][txn[t].product] = "held"]
            ELSE told

\* tx.Commit: the transaction's writes become the tables' rows.
Apply(t) ==
    LET o == txn[t].order
        p == txn[t].product
        q == txn[t].quantity
    IN  /\ txn[t].pc = "commit"
        /\ reservations' = [reservations EXCEPT ![o][p] = IF txn[t].op = "reserve" THEN q ELSE 0]
        /\ stock' = [stock EXCEPT ![p] = txn[t].stock]
        /\ reserved' = [reserved EXCEPT ![p] = txn[t].reserved]
        /\ sold' = [sold EXCEPT ![o][p] = IF txn[t].op = "commit" THEN @ + q ELSE @]
        /\ txn' = [txn EXCEPT ![t] = Idle]
        /\ UNCHANGED <<products, supplied>>

CommitTxn(t) == Apply(t) /\ Tell(t)

\* The commit took effect but its answer was lost.
CommitUnanswered(t) == Apply(t) /\ UNCHANGED told

\* Nothing was written: SELECT the product, which may not exist, and commit.
AnswerUnchanged(t) ==
    /\ txn[t].pc = "answer"
    /\ txn' = [txn EXCEPT ![t] = Idle]
    /\ IF txn[t].product \in products THEN Tell(t) ELSE UNCHANGED told
    /\ UNCHANGED cvars

\* A statement fails, its context is cancelled or the connection dies: nothing
\* the transaction wrote was ever visible.
Abort(t) ==
    /\ txn[t].pc # "idle"
    /\ txn' = [txn EXCEPT ![t] = Idle]
    /\ UNCHANGED <<cvars, told>>

\* Single statements, each its own transaction; AddStock waits for the row.
AddStockUnlocked(p, n) ==
    /\ AddStock(p, n)
    /\ \A u \in Backends : ~HoldsProduct(u, p)
    /\ UNCHANGED <<txn, told>>

CreateProductAlone(p, n) == CreateProduct(p, n) /\ UNCHANGED <<txn, told>>

TxnStep(t) ==
    \/ InsertRow(t)
    \/ InsertConflicts(t)
    \/ DeleteRow(t)
    \/ UpdateProduct(t)
    \/ UpdateRefused(t)
    \/ CommitTxn(t)
    \/ AnswerUnchanged(t)

TxnNext ==
    \/ \E p \in Products, n \in 0..MaxInt : CreateProductAlone(p, n)
    \/ \E p \in Products, n \in 1..MaxInt : AddStockUnlocked(p, n)
    \/ \E t \in Backends, o \in Orders, p \in Products :
          \/ \E q \in 1..MaxInt : Begin(t, "reserve", o, p, q)
          \/ Begin(t, "release", o, p, 0)
          \/ Begin(t, "commit", o, p, 0)
    \/ \E t \in Backends : TxnStep(t)
    \/ \E t \in Backends : CommitUnanswered(t)
    \/ \E t \in Backends : Abort(t)

TxnSpec == TxnInit /\ [][TxnNext]_tvars

-----------------------------------------------------------------------------
\* The committed tables change only as Catalog says the methods change them,
\* each method at one instant: the interleaved statements and row locks of
\* Reserve, Release and Commit implement the atomic store.
ImplementsCatalog == Spec

\* A hold the caller was told of stays until the order is released or
\* committed: in particular a repeated Reserve answers success only for a row
\* that cannot be rolled back any more.
ToldHoldsLast ==
    \A o \in Orders, p \in Products : told[o][p] = "held" => reservations[o][p] > 0

\* Transactions never wait for each other in a circle: all of them lock the
\* reservation row before the product row.
NoDeadlock ==
    \A S \in (SUBSET Backends) \ {{}} : \E t \in S : \A u \in S : ~WaitsFor(t, u)
=============================================================================
