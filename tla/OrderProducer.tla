--------------------------- MODULE OrderProducer ---------------------------
(***************************************************************************)
(* The Kafka producer all orders share (checkout/kafka/producer.go) and    *)
(* the goroutines at its channels: sendToPostProcessor of every order, the *)
(* one goroutine that drains Errors(), and the goroutines the flag         *)
(* kafkaQueueProblems makes.  The channels are unbuffered and say nothing  *)
(* of whose message a report is about: a goroutine takes any report.       *)
(*                                                                         *)
(* The producer itself is sarama's: of a message it takes it makes one     *)
(* report, success or error, sooner or later, and it holds so many of them *)
(* that nobody has taken yet.  RequiredAcks is NoResponse: a success says  *)
(* that the message was sent, not that the broker has it.                  *)
(***************************************************************************)
EXTENDS Naturals, FiniteSets

CONSTANTS
  Orders,        \* calls of sendToPostProcessor
  Copies,        \* the goroutines of kafkaQueueProblems
  CopyOf,        \* CopyOf[c]: the order whose message goroutine c sends again
  Capacity,      \* messages sarama holds before Input() blocks
  BrokerFails,   \* whether a message may end in an error
  CallersLeave   \* whether the context of an order may be done before it is

ASSUME ProducerAssumption ==
  /\ IsFiniteSet(Orders)
  /\ IsFiniteSet(Copies)
  /\ Orders \cap Copies = {}
  /\ CopyOf \in [Copies -> Orders]
  /\ Capacity \in Nat \ {0}
  /\ BrokerFails \in BOOLEAN
  /\ CallersLeave \in BOOLEAN

Senders == Orders \cup Copies

VARIABLES
  pc,         \* pc[s]: at Input(), at Successes(), at the flag, or gone
  done,       \* the orders whose ctx.Done() is closed
  pipe,       \* what the producer holds: messages and what it will report
  taken,      \* taken[s]: the senders of the messages whose report s took
  drained,    \* the senders whose error the draining goroutine took
  abandoned   \* the orders that left while their message was in the pipe

vars == <<pc, done, pipe, taken, drained, abandoned>>

Reports == IF BrokerFails THEN {"success", "error"} ELSE {"success"}

TypeOK ==
  /\ pc \in [Senders -> {"idle", "input", "waiting", "flag", "ended"}]
  /\ done \subseteq Orders
  /\ pipe \subseteq [of : Senders, report : {"success", "error"}]
  /\ taken \in [Senders -> SUBSET Senders]
  /\ drained \subseteq Senders
  /\ abandoned \subseteq Orders

Init ==
  /\ pc = [s \in Senders |-> IF s \in Orders THEN "input" ELSE "idle"]
  /\ done = {}
  /\ pipe = {}
  /\ taken = [s \in Senders |-> {}]
  /\ drained = {}
  /\ abandoned = {}

-----------------------------------------------------------------------------
\* The caller of PlaceOrder goes away, and its context with it.
CallerLeaves(o) ==
  /\ CallersLeave
  /\ o \notin done
  /\ pc[o] # "ended"
  /\ done' = done \cup {o}
  /\ UNCHANGED <<pc, pipe, taken, drained, abandoned>>

\* A variant whose copies do not stay for a report.
SendForgetting(s) ==
  /\ pc[s] = "input"
  /\ Cardinality(pipe) < Capacity
  /\ \E report \in Reports : pipe' = pipe \cup {[of |-> s, report |-> report]}
  /\ pc' = [pc EXCEPT ![s] = IF s \in Copies THEN "ended" ELSE "waiting"]
  /\ UNCHANGED <<done, taken, drained, abandoned>>

\* case cs.KafkaProducerClient.Input() <- &msg
Send(s) ==
  /\ pc[s] = "input"
  /\ Cardinality(pipe) < Capacity
  /\ \E report \in Reports : pipe' = pipe \cup {[of |-> s, report |-> report]}
  /\ pc' = [pc EXCEPT ![s] = "waiting"]
  /\ UNCHANGED <<done, taken, drained, abandoned>>

\* A variant that goes on to wait instead of returning.
NotSentButWaiting(o) ==
  /\ pc[o] = "input"
  /\ o \in done
  /\ pc' = [pc EXCEPT ![o] = "waiting"]
  /\ UNCHANGED <<done, pipe, taken, drained, abandoned>>

\* case <-ctx.Done() before the message was taken: return
NotSent(o) ==
  /\ pc[o] = "input"
  /\ o \in done
  /\ pc' = [pc EXCEPT ![o] = "ended"]
  /\ UNCHANGED <<done, pipe, taken, drained, abandoned>>

\* successMsg := <-Successes(), of an order or of a copy, which then ends.
TakeSuccess(s) ==
  /\ pc[s] = "waiting"
  /\ \E e \in pipe :
       /\ e.report = "success"
       /\ pipe' = pipe \ {e}
       /\ taken' = [taken EXCEPT ![s] = @ \cup {e.of}]
  /\ pc' = [pc EXCEPT ![s] = IF s \in Orders THEN "flag" ELSE "ended"]
  /\ UNCHANGED <<done, drained, abandoned>>

\* errMsg := <-Errors(); the copies do not listen there.
TakeError(o) ==
  /\ pc[o] = "waiting"
  /\ \E e \in pipe :
       /\ e.report = "error"
       /\ pipe' = pipe \ {e}
       /\ taken' = [taken EXCEPT ![o] = @ \cup {e.of}]
  /\ pc' = [pc EXCEPT ![o] = "flag"]
  /\ UNCHANGED <<done, drained, abandoned>>

\* for err := range producer.Errors(), in the goroutine that only logs them.
Drain ==
  /\ \E e \in pipe :
       /\ e.report = "error"
       /\ pipe' = pipe \ {e}
       /\ drained' = drained \cup {e.of}
  /\ UNCHANGED <<pc, done, taken, abandoned>>

\* A variant that does not listen to the context once the message is taken.
GiveUpNever(o) == pc[o] = "flag" /\ o \in abandoned /\ UNCHANGED vars

\* case <-ctx.Done() while waiting: the report will find somebody else.
GiveUp(o) ==
  /\ pc[o] = "waiting"
  /\ o \in done
  /\ pc' = [pc EXCEPT ![o] = "flag"]
  /\ abandoned' = abandoned \cup {o}
  /\ UNCHANGED <<done, pipe, taken, drained>>

\* kafkaQueueProblems: 0, or so many goroutines that send the message again.
Overload(o) ==
  /\ pc[o] = "flag"
  /\ \E started \in {{}, {c \in Copies : CopyOf[c] = o}} :
       pc' = [s \in Senders |-> IF s = o THEN "ended"
                                ELSE IF s \in started THEN "input"
                                ELSE pc[s]]
  /\ UNCHANGED <<done, pipe, taken, drained, abandoned>>

Proceed(s) ==
  \/ Send(s) \/ TakeSuccess(s)
  \/ s \in Orders /\ (NotSent(s) \/ TakeError(s) \/ GiveUp(s) \/ Overload(s))

Next ==
  \/ \E s \in Senders : Proceed(s)
  \/ \E o \in Orders : CallerLeaves(o)
  \/ Drain

Spec == Init /\ [][Next]_vars

\* Goroutines that can go on do; no caller ever has to leave.
FairSpec == Spec /\ WF_vars(Drain) /\ \A s \in Senders : WF_vars(Proceed(s))

-----------------------------------------------------------------------------
(* Properties *)

Waiting == {s \in Senders : pc[s] = "waiting"}

\* Every report the producer owes is awaited by somebody, one for one, but for
\* the errors the draining goroutine took, each of which leaves one too many
\* waiting, and the waits that were given up, each of which leaves one too few.
ReportsMatchWaits ==
  Cardinality(Waiting) + Cardinality(abandoned) = Cardinality(pipe) + Cardinality(drained)

\* Orders are held up at Input() by a full producer with nobody there to take
\* its reports only after as many callers have left as the producer holds.
BlockedOnlyByAbandoned ==
  Waiting = {} /\ Cardinality(pipe) = Capacity => Cardinality(abandoned) >= Capacity

\* producer.go: "So we can know the partition and offset of messages."  The
\* report an order takes for its own, with the offset it puts in its trace, may
\* be about the message of another.
ReportIsOwn == \A o \in Orders : taken[o] \subseteq {o}

\* Every order gets past Kafka as long as the draining goroutine takes no error
\* and no caller leaves.
EveryOrderGetsPast ==
  [](drained = {} /\ done = {}) => \A o \in Orders : <>(pc[o] = "ended")

\* An order whose caller has left gets past Kafka, whatever else happens.
CancelledOrdersEnd == \A o \in Orders : o \in done ~> pc[o] = "ended"
=============================================================================
