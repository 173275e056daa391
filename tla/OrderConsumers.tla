----------------------------- MODULE OrderConsumers -----------------------------
(***************************************************************************)
(* The two services that read the topic of orders: accounting, which       *)
(* consumes one record at a time, and fraud detection, which polls for a   *)
(* batch and folds over it.  Consumer groups know nothing of each other,   *)
(* so that a behaviour is of one.  Neither service commits an offset: the  *)
(* client libraries do, which are external.  That of accounting commits by *)
(* a timer what has been handed to the service, that of fraud detection,   *)
(* when it is polled, what earlier polls have returned, and what all polls *)
(* have returned when it is closed.  A service that stops is started again.*)
(***************************************************************************)
EXTENDS Integers, Sequences, FiniteSets

CONSTANTS
  MaxOrders,    \* bound: records on the topic
  MaxBatch,     \* max.poll.records
  MaxCrashes    \* bound

VARIABLES
  group,       \* the service
  topic,       \* the records, some of which cannot be parsed
  committed,   \* the offset the broker keeps for the group, or -1
  position,    \* the next offset the client fetches
  pending,     \* how many of the records it has returned are not handled yet
  up,          \* whether the service runs
  handled,     \* the offsets of the orders that were handled
  crashes,
  first,       \* for the properties only: where the group began to read, or -1
  passed       \* for the properties only: offsets that a later start without a committed
               \* offset passed over

history == <<first, passed>>
vars == <<group, topic, committed, position, pending, up, handled, crashes, history>>

Offsets == 0 .. Len(topic) - 1
Kind(r) == topic[r + 1]
Current == position - pending   \* the offset that is being handled

Init ==
  /\ group \in {"accounting", "fraud-detection"}
  /\ topic = <<>>
  /\ committed = -1
  /\ position = 0
  /\ pending = 0
  /\ up = FALSE
  /\ handled = {}
  /\ crashes = 0
  /\ first = -1
  /\ passed = {}

Produce(kind) ==
  /\ Len(topic) < MaxOrders
  /\ topic' = Append(topic, kind)
  /\ UNCHANGED <<group, committed, position, pending, up, handled, crashes, history>>

\* Where a consumer begins without an offset of its group: AutoOffsetReset is Earliest
\* in accounting, and latest where it is not set.
Reset == IF group = "accounting" THEN 0 ELSE Len(topic)

\* The consumer is built and subscribes.
Start ==
  /\ ~up
  /\ up' = TRUE
  /\ position' = IF committed = -1 THEN Reset ELSE committed
  /\ first' = IF first = -1 THEN Reset ELSE first
  /\ passed' = IF first # -1 /\ committed = -1 THEN first .. Reset - 1 ELSE passed
  /\ UNCHANGED <<group, topic, committed, pending, handled, crashes>>

Crash ==
  /\ up
  /\ crashes < MaxCrashes
  /\ crashes' = crashes + 1
  /\ up' = FALSE
  /\ pending' = 0
  /\ UNCHANGED <<group, topic, committed, position, handled, history>>

-----------------------------------------------------------------------------
(* accounting                                                                *)

Consume ==
  /\ group = "accounting"
  /\ up /\ pending = 0
  /\ position < Len(topic)
  /\ position' = position + 1
  /\ pending' = 1
  /\ UNCHANGED <<group, topic, committed, up, handled, crashes, history>>

\* A record that cannot be parsed is logged, and that is all.
ProcessMessage ==
  /\ group = "accounting"
  /\ pending = 1
  /\ pending' = 0
  /\ handled' = IF Kind(Current) = "order" THEN handled \cup {Current} ELSE handled
  /\ UNCHANGED <<group, topic, committed, position, up, crashes, history>>

\* EnableAutoCommit: at any time, be the record handled or not.
CommitByTimer ==
  /\ group = "accounting"
  /\ up
  /\ position > 0 /\ committed # position
  /\ committed' = position
  /\ UNCHANGED <<group, topic, position, pending, up, handled, crashes, history>>

-----------------------------------------------------------------------------
(* fraud detection                                                           *)

\* Variant: what this poll returns is committed with it.
PolledOffsetAhead(n) == position + n

\* What a poll that returns n records commits, if it is time to.
PolledOffset(n) == position

Poll(n, commits) ==
  /\ group = "fraud-detection"
  /\ up /\ pending = 0
  /\ n <= Len(topic) - position
  /\ n > 0 \/ (commits /\ committed # position)
  /\ position' = position + n
  /\ pending' = n
  /\ committed' = IF commits THEN PolledOffset(n) ELSE committed
  /\ UNCHANGED <<group, topic, up, handled, crashes, history>>

Fold ==
  /\ group = "fraud-detection"
  /\ pending > 0
  /\ Kind(Current) = "order"
  /\ handled' = handled \cup {Current}
  /\ pending' = pending - 1
  /\ UNCHANGED <<group, topic, committed, position, up, crashes, history>>

\* Variant: nothing is committed on the way out.
ClosedOffsetKept == committed

\* What close commits: all that was polled, handled or not.
ClosedOffset == position

\* A record that cannot be parsed ends the loop, use closes the consumer, and main ends.
FailParse ==
  /\ group = "fraud-detection"
  /\ pending > 0
  /\ Kind(Current) # "order"
  /\ committed' = ClosedOffset
  /\ up' = FALSE
  /\ pending' = 0
  /\ UNCHANGED <<group, topic, position, handled, crashes, history>>

Work ==
  \/ Consume \/ ProcessMessage
  \/ \E n \in 1..MaxBatch, commits \in BOOLEAN : Poll(n, commits)
  \/ Fold \/ FailParse

Next ==
  \/ \E kind \in {"order", "garbled"} : Produce(kind)
  \/ Start \/ Crash
  \/ CommitByTimer \/ Poll(0, TRUE)
  \/ Work

-----------------------------------------------------------------------------
(* Properties.                                                               *)

\* The offset up to which the service has come, and from which it would go on.
Reached == IF up THEN Current ELSE committed

Lost == {r \in Offsets : r < Reached /\ Kind(r) = "order" /\ r \notin handled}

\* Offsets before the first that the group read, and those that it passed over when it
\* began anew.
PassedOver == (0 .. first - 1) \cup passed

\* accounting loses at most one order with each crash.  Fraud detection loses an order
\* only in the batch of a record that cannot be parsed, after that record; or when it
\* begins to read the topic after the order; or when it crashed before anything was
\* committed, and begins anew after the order, which it may have polled before.  A crash
\* after the first commit loses none.
OrdersLostHaveCause ==
  IF group = "accounting" THEN Cardinality(Lost) <= crashes
  ELSE /\ passed # {} => crashes > 0
       /\ \A r \in Lost \ PassedOver :
            \E b \in Offsets : b < r /\ r < b + MaxBatch /\ Kind(b) = "garbled"

\* A service catches up with the topic when crashes and orders end: no record, though
\* it cannot be parsed, stops it for good.
CatchesUp == <>[](up /\ Current = Len(topic))
=============================================================================
