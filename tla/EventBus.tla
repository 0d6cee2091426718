------------------------------ MODULE EventBus ------------------------------
(***************************************************************************)
(* The saga's Kafka topics and the at-least-once loop of pkg/events:       *)
(* Publisher.Publish appends an event to the partition its key hashes to,  *)
(* and Consumer.Run of the one consumer goroutine a topic has fetches,     *)
(* handles and commits one message at a time.                              *)
(*                                                                         *)
(* The broker and kafka-go's Reader are external: a partition is an        *)
(* append-only log, the group keeps one committed offset per partition,    *)
(* and the Reader keeps in memory the position it fetches from next, set   *)
(* from the committed offset when a generation starts.  An event is its    *)
(* key: the order id determines the rest of it.                            *)
(***************************************************************************)
EXTENDS Naturals, Sequences

CONSTANTS
    Topics,
    Partitions,
    Keys,          \* order ids
    Hash,          \* the partition of a key, the same in every topic
    FaultKinds,    \* which of the faults below may happen
    MaxFaults,     \* bound: how often a fault happens
    MaxEvents      \* bound: events in one partition

ASSUME BusAssumption ==
    /\ Hash \in [Keys -> Partitions]
    /\ MaxFaults \in Nat
    /\ MaxEvents \in Nat

VARIABLES
    log,         \* events of a topic's partition
    position,    \* offsets the Reader has handed out since its generation began
    committed,   \* the group's committed offset: deliveries restart after it
    consumer,    \* "idle", "stopped", or the partition and offset in its handler
    handled,     \* history: offsets whose handler returned nil
    failed,      \* history: offsets whose handler returned an error
    faults       \* faults so far

busVars == <<log, position, committed, consumer, handled, failed>>

Idle == <<"idle">>
Stopped == <<"stopped">>
Busy(q, n) == <<"busy", q, n>>

\* No topic has events and no group has committed: StartOffset is FirstOffset.
BusInit ==
    /\ log = [t \in Topics |-> [q \in Partitions |-> <<>>]]
    /\ position = [t \in Topics |-> [q \in Partitions |-> 0]]
    /\ committed = [t \in Topics |-> [q \in Partitions |-> 0]]
    /\ consumer = [t \in Topics |-> Idle]
    /\ handled = [t \in Topics |-> [q \in Partitions |-> {}]]
    /\ failed = [t \in Topics |-> [q \in Partitions |-> {}]]

-----------------------------------------------------------------------------
IsBusy(t) == consumer[t][1] = "busy"

\* The event in the topic's handler.
Current(t) == log[t][consumer[t][2]][consumer[t][3]]

\* Mutant of Publish: a message without a key goes to any partition.
PublishUnkeyed(t, k) ==
    \E q \in Partitions :
        /\ Len(log[t][q]) < MaxEvents
        /\ log' = [log EXCEPT ![t][q] = Append(@, k)]
        /\ UNCHANGED <<position, committed, consumer, handled, failed>>

Publish(t, k) ==
    /\ Len(log[t][Hash[k]]) < MaxEvents
    /\ log' = [log EXCEPT ![t][Hash[k]] = Append(@, k)]
    /\ UNCHANGED <<position, committed, consumer, handled, failed>>

\* Mutant of Fetch: it commits at once, as ReadMessage does.
FetchAndCommit(t, q) ==
    /\ consumer[t] = Idle
    /\ position[t][q] < Len(log[t][q])
    /\ position' = [position EXCEPT ![t][q] = @ + 1]
    /\ committed' = [committed EXCEPT ![t][q] = position[t][q] + 1]
    /\ consumer' = [consumer EXCEPT ![t] = Busy(q, position[t][q] + 1)]
    /\ UNCHANGED <<log, handled, failed>>

\* FetchMessage: the next message of some partition, without committing it.
Fetch(t, q) ==
    /\ consumer[t] = Idle
    /\ position[t][q] < Len(log[t][q])
    /\ position' = [position EXCEPT ![t][q] = @ + 1]
    /\ consumer' = [consumer EXCEPT ![t] = Busy(q, position[t][q] + 1)]
    /\ UNCHANGED <<log, committed, handled, failed>>

\* The handler returned nil: CommitMessages stores the message's offset, which
\* is also the group's offset for everything before it in the partition.
HandleAndCommit(t) ==
    LET q == consumer[t][2]
        n == consumer[t][3]
    IN  /\ IsBusy(t)
        /\ committed' = [committed EXCEPT ![t][q] = n]
        /\ handled' = [handled EXCEPT ![t][q] = @ \cup {n}]
        /\ consumer' = [consumer EXCEPT ![t] = Idle]
        /\ UNCHANGED <<log, position, failed>>

\* The handler returned nil and CommitMessages failed: logged, the loop goes on.
HandleCommitFails(t) ==
    LET q == consumer[t][2]
        n == consumer[t][3]
    IN  /\ IsBusy(t)
        /\ handled' = [handled EXCEPT ![t][q] = @ \cup {n}]
        /\ consumer' = [consumer EXCEPT ![t] = Idle]
        /\ UNCHANGED <<log, position, committed, failed>>

\* The handler returned an error: logged, nothing is committed, and the loop
\* continues with FetchMessage, which hands out the message after this one.
HandlerFails(t) ==
    LET q == consumer[t][2]
        n == consumer[t][3]
    IN  /\ IsBusy(t)
        /\ failed' = [failed EXCEPT ![t][q] = @ \cup {n}]
        /\ consumer' = [consumer EXCEPT ![t] = Idle]
        /\ UNCHANGED <<log, position, committed, handled>>

\* FetchMessage failed: Run closes the reader and returns.  The goroutine in
\* main logs the error and ends, and the process runs on without a consumer.
FetchFails(t) ==
    /\ consumer[t] = Idle
    /\ consumer' = [consumer EXCEPT ![t] = Stopped]
    /\ UNCHANGED <<log, position, committed, handled, failed>>

\* The process that consumes these topics dies and is started again.
Restart(ts) ==
    /\ consumer' = [t \in Topics |-> IF t \in ts THEN Idle ELSE consumer[t]]
    /\ position' = [t \in Topics |-> IF t \in ts THEN committed[t] ELSE position[t]]
    /\ UNCHANGED <<log, committed, handled, failed>>

\* The group rebalances: the Reader starts a generation at the committed
\* offsets while the handler of the old one is still running.
Rebalance(t) ==
    /\ consumer[t] # Stopped
    /\ position' = [position EXCEPT ![t] = committed[t]]
    /\ UNCHANGED <<log, committed, consumer, handled, failed>>

-----------------------------------------------------------------------------
\* A fault of an enabled kind, counted against the bound.
Fault(kind) ==
    /\ kind \in FaultKinds
    /\ faults < MaxFaults
    /\ faults' = faults + 1

Init == BusInit /\ faults = 0

Next ==
    \/ \E t \in Topics, k \in Keys : Publish(t, k) /\ UNCHANGED faults
    \/ \E t \in Topics, q \in Partitions : Fetch(t, q) /\ UNCHANGED faults
    \/ \E t \in Topics : HandleAndCommit(t) /\ UNCHANGED faults
    \/ \E t \in Topics : HandleCommitFails(t) /\ Fault("commit")
    \/ \E t \in Topics : HandlerFails(t) /\ Fault("handler")
    \/ \E t \in Topics : FetchFails(t) /\ Fault("fetch")
    \/ \E t \in Topics : Restart({t}) /\ Fault("restart")
    \/ \E t \in Topics : Rebalance(t) /\ Fault("rebalance")

vars == <<busVars, faults>>

\* The consumer goroutine keeps running: it fetches while there is a message
\* in some partition, and its handler returns in the end.
Goroutine(t) == (\E q \in Partitions : Fetch(t, q)) \/ HandleAndCommit(t)

Fairness == \A t \in Topics : WF_vars(Goroutine(t) /\ UNCHANGED faults)

Spec == Init /\ [][Next]_vars
FairSpec == Spec /\ Fairness

-----------------------------------------------------------------------------
\* Offsets stay within their logs; a consumer's step is one of Run's.
TypeOK ==
    /\ log \in [Topics -> [Partitions -> Seq(Keys)]]
    /\ position \in [Topics -> [Partitions -> Nat]]
    /\ committed \in [Topics -> [Partitions -> Nat]]
    /\ handled \in [Topics -> [Partitions -> SUBSET Nat]]
    /\ failed \in [Topics -> [Partitions -> SUBSET Nat]]
    /\ faults \in 0..MaxFaults
    /\ \A t \in Topics : \/ consumer[t] \in {Idle, Stopped}
                         \/ \E q \in Partitions, n \in 1..MaxEvents : consumer[t] = Busy(q, n)
    /\ \A t \in Topics, q \in Partitions :
          /\ position[t][q] <= Len(log[t][q])
          /\ committed[t][q] <= Len(log[t][q])
          /\ handled[t][q] \subseteq 1..Len(log[t][q])
          /\ failed[t][q] \subseteq 1..Len(log[t][q])

\* "A crash between fetch and commit redelivers the message": whatever crashes,
\* rebalances and failed commits come in between, an offset is committed only
\* over events whose handler has run to its end, so a restart skips no event but
\* one whose handler failed.
OnlyFailedIsSkipped ==
    \A t \in Topics, q \in Partitions :
        1..committed[t][q] \subseteq handled[t][q] \cup failed[t][q]

\* "Keying by order ID puts every event about one order on one partition in
\* order": when an event has been given to the handler, no event of its order is
\* in another partition, whose place in time is unknown, and each earlier one has
\* been given to the handler before it, through restarts and rebalances.
TriedInOrder ==
    \A t \in Topics, q, r \in Partitions :
        \A n \in handled[t][q] \cup failed[t][q], m \in 1..Len(log[t][r]) :
            log[t][r][m] = log[t][q][n] =>
                r = q /\ (m < n => m \in handled[t][q] \cup failed[t][q])

\* Every published event is handled in the end, although the process restarts,
\* the group rebalances and offset commits fail in between.  The exceptions are
\* an event whose handler failed, which Run does not fetch again, and a consumer
\* whose FetchMessage failed and whose process is not restarted.
PublishedIsHandled ==
    \A t \in Topics, q \in Partitions, n \in 1..MaxEvents :
        (n <= Len(log[t][q])) ~>
            (n \in handled[t][q] \cup failed[t][q] \/ consumer[t] = Stopped)
=============================================================================
