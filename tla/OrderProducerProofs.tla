------------------------ MODULE OrderProducerProofs ------------------------
(***************************************************************************)
(* The book-keeping of the shared producer, for any number of orders and   *)
(* copies and any capacity: who may be left waiting for nothing, and when  *)
(* everybody is held up.                                                   *)
(***************************************************************************)
EXTENDS OrderProducer, FiniteSetTheorems, TLAPS

THEOREM TypeCorrect == Spec => []TypeOK
  <1>1. Init => TypeOK
    BY DEF Init, TypeOK, Senders
  <1>2. TypeOK /\ [Next]_vars => TypeOK'
    <2> SUFFICES ASSUME TypeOK, [Next]_vars PROVE TypeOK'
      OBVIOUS
    <2> USE DEF TypeOK
    <2>1. ASSUME NEW s \in Senders, Send(s) PROVE TypeOK'
      BY <2>1 DEF Send, Reports
    <2>2. ASSUME NEW s \in Senders, TakeSuccess(s) PROVE TypeOK'
      BY <2>2 DEF TakeSuccess
    <2>3. ASSUME NEW o \in Orders, TakeError(o) PROVE TypeOK'
      BY <2>3 DEF TakeError, Senders
    <2>4. ASSUME NEW o \in Orders, NotSent(o) \/ GiveUp(o) \/ CallerLeaves(o) PROVE TypeOK'
      BY <2>4 DEF NotSent, GiveUp, CallerLeaves, Senders
    <2>5. ASSUME NEW o \in Orders, Overload(o) PROVE TypeOK'
      BY <2>5 DEF Overload
    <2>6. CASE Drain
      BY <2>6 DEF Drain
    <2>7. CASE UNCHANGED vars
      BY <2>7 DEF vars
    <2>8. QED
      BY <2>1, <2>2, <2>3, <2>4, <2>5, <2>6, <2>7 DEF Next, Proceed
  <1>3. QED
    BY <1>1, <1>2, PTL DEF Spec

-----------------------------------------------------------------------------
(* One report for each wait. *)

\* The strengthening: a sender has at most one message in the pipe, and none
\* before it has passed Input() or after its error was drained; the copies of
\* an order start when it ends.
MessagesInv ==
  /\ \A e, f \in pipe : e.of = f.of => e = f
  /\ \A e \in pipe : pc[e.of] \notin {"idle", "input"} /\ e.of \notin drained
  /\ \A s \in drained : pc[s] \notin {"idle", "input"}
  /\ \A o \in abandoned : pc[o] \in {"flag", "ended"}
  /\ \A c \in Copies : pc[CopyOf[c]] # "ended" => pc[c] = "idle"

LEMMA Finiteness ==
  ASSUME TypeOK
  PROVE  /\ IsFiniteSet(Waiting) /\ IsFiniteSet(abandoned) /\ IsFiniteSet(drained)
         /\ Cardinality(Waiting) \in Nat /\ Cardinality(abandoned) \in Nat
         /\ Cardinality(drained) \in Nat
  <1>1. IsFiniteSet(Senders)
    BY ProducerAssumption, FS_Union DEF Senders
  <1>2. Waiting \in SUBSET Senders /\ drained \in SUBSET Senders /\ abandoned \in SUBSET Orders
    BY DEF Waiting, TypeOK
  <1>3. IsFiniteSet(Waiting) /\ IsFiniteSet(abandoned) /\ IsFiniteSet(drained)
    BY <1>1, <1>2, ProducerAssumption, FS_Subset
  <1>4. QED
    BY <1>3, FS_CardinalityType

\* The four quantities, as an action changes them.
Balanced == IsFiniteSet(pipe) /\ ReportsMatchWaits

\* A message enters the pipe, and its sender waits.
LEMMA SendBalances ==
  ASSUME TypeOK, MessagesInv, Balanced, NEW s \in Senders, Send(s)
  PROVE  MessagesInv' /\ Balanced'
  <1>1. PICK report \in Reports : pipe' = pipe \cup {[of |-> s, report |-> report]}
    BY DEF Send
  <1> DEFINE e == [of |-> s, report |-> report]
  <1>2. e \notin pipe /\ \A f \in pipe : f.of # s
    BY DEF MessagesInv, Send
  <1>3. Waiting' = Waiting \cup {s} /\ s \notin Waiting
    BY DEF Send, Waiting, TypeOK
  <1>4. MessagesInv'
    <2>1. /\ pc'[s] = "waiting" /\ pc[s] = "input" /\ s \notin drained /\ s \notin abandoned
          /\ \A x \in Senders : x # s => pc'[x] = pc[x]
          /\ drained' = drained /\ abandoned' = abandoned
      BY DEF Send, TypeOK, MessagesInv
    <2>2. \A f \in pipe' : f \in pipe \/ f = e
      BY <1>1
    <2>3. \A f, g \in pipe' : f.of = g.of => f = g
      BY <1>2, <2>2 DEF MessagesInv
    <2>4. \A f \in pipe' : pc'[f.of] \notin {"idle", "input"} /\ f.of \notin drained'
      BY <2>1, <2>2 DEF MessagesInv, TypeOK
    <2>5. \A c \in Copies : pc'[CopyOf[c]] # "ended" => pc'[c] = "idle"
      BY <2>1, ProducerAssumption DEF MessagesInv, Senders
    <2>6. QED
      BY <2>1, <2>3, <2>4, <2>5 DEF MessagesInv, TypeOK, Senders
  <1>5. /\ IsFiniteSet(pipe') /\ Cardinality(pipe') = Cardinality(pipe) + 1
        /\ Cardinality(pipe) \in Nat
    BY <1>1, <1>2, FS_AddElement, FS_CardinalityType DEF Balanced
  <1>6. Cardinality(Waiting') = Cardinality(Waiting) + 1
    BY <1>3, Finiteness, FS_AddElement
  <1>7. abandoned' = abandoned /\ drained' = drained
    BY DEF Send
  <1>8. QED
    BY <1>4, <1>5, <1>6, <1>7, Finiteness DEF Balanced, ReportsMatchWaits

\* A report is taken, and a wait is over.
LEMMA TakeBalances ==
  ASSUME TypeOK, MessagesInv, Balanced, NEW s \in Senders, pc[s] = "waiting",
         NEW e \in pipe, pipe' = pipe \ {e},
         NEW p \in {"flag", "ended"}, pc' = [pc EXCEPT ![s] = p],
         UNCHANGED <<drained, abandoned>>
  PROVE  MessagesInv' /\ Balanced'
  <1>1. Waiting' = Waiting \ {s} /\ s \in Waiting
    BY DEF Waiting, TypeOK
  <1>2. /\ IsFiniteSet(pipe') /\ Cardinality(pipe') = Cardinality(pipe) - 1
        /\ Cardinality(pipe) \in Nat
    BY FS_RemoveElement, FS_CardinalityType DEF Balanced
  <1>3. Cardinality(Waiting') = Cardinality(Waiting) - 1
    BY <1>1, Finiteness, FS_RemoveElement
  <1>4. MessagesInv'
    <2>1. pc'[s] = p /\ \A x \in Senders : x # s => pc'[x] = pc[x]
      BY DEF TypeOK
    <2>2. \A c \in Copies : pc'[CopyOf[c]] # "ended" => pc'[c] = "idle"
      BY <2>1, ProducerAssumption DEF MessagesInv, Senders
    <2>3. \A f \in pipe' : f \in pipe
      OBVIOUS
    <2>4. \A f \in pipe' : pc'[f.of] \notin {"idle", "input"} /\ f.of \notin drained'
      BY <2>1, <2>3 DEF MessagesInv, TypeOK
    <2>5. QED
      BY <2>1, <2>2, <2>3, <2>4 DEF MessagesInv, TypeOK, Senders
  <1>5. QED
    BY <1>2, <1>3, <1>4, Finiteness DEF Balanced, ReportsMatchWaits

\* An error goes to the draining goroutine, and a wait has lost its report.
LEMMA DrainBalances ==
  ASSUME TypeOK, MessagesInv, Balanced, Drain
  PROVE  MessagesInv' /\ Balanced'
  <1>1. PICK e \in pipe : pipe' = pipe \ {e} /\ drained' = drained \cup {e.of}
    BY DEF Drain
  <1>2. e.of \notin drained /\ \A f \in pipe' : f.of # e.of
    BY <1>1 DEF MessagesInv
  <1>3. /\ IsFiniteSet(pipe') /\ Cardinality(pipe') = Cardinality(pipe) - 1
        /\ Cardinality(pipe) \in Nat
    BY <1>1, FS_RemoveElement, FS_CardinalityType DEF Balanced
  <1>4. Cardinality(drained') = Cardinality(drained) + 1
    BY <1>1, <1>2, Finiteness, FS_AddElement
  <1>5. Waiting' = Waiting /\ abandoned' = abandoned /\ pc' = pc
    BY DEF Drain, Waiting
  <1>6. MessagesInv'
    BY <1>1, <1>2, <1>5 DEF MessagesInv
  <1>7. QED
    BY <1>3, <1>4, <1>5, <1>6, Finiteness DEF Balanced, ReportsMatchWaits

\* A wait is given up, and a report is left over.
LEMMA GiveUpBalances ==
  ASSUME TypeOK, MessagesInv, Balanced, NEW o \in Orders, GiveUp(o)
  PROVE  MessagesInv' /\ Balanced'
  <1>0. o \in Senders
    BY DEF Senders
  <1>1. Waiting' = Waiting \ {o} /\ o \in Waiting
    BY <1>0 DEF GiveUp, Waiting, TypeOK
  <1>2. abandoned' = abandoned \cup {o} /\ o \notin abandoned
    BY DEF GiveUp, MessagesInv
  <1>3. Cardinality(Waiting') = Cardinality(Waiting) - 1
    BY <1>1, Finiteness, FS_RemoveElement
  <1>4. Cardinality(abandoned') = Cardinality(abandoned) + 1
    BY <1>2, Finiteness, FS_AddElement
  <1>5. pipe' = pipe /\ drained' = drained
    BY DEF GiveUp
  <1>6. MessagesInv'
    <2>1. pc'[o] = "flag" /\ pc[o] = "waiting" /\ \A x \in Senders : x # o => pc'[x] = pc[x]
      BY <1>0 DEF GiveUp, TypeOK
    <2>2. \A c \in Copies : pc'[CopyOf[c]] # "ended" => pc'[c] = "idle"
      BY <2>1, ProducerAssumption DEF MessagesInv, Senders
    <2>3. QED
      BY <1>2, <1>5, <2>1, <2>2 DEF MessagesInv, TypeOK, Senders
  <1>7. Cardinality(pipe) \in Nat
    BY FS_CardinalityType DEF Balanced
  <1>8. QED
    BY <1>3, <1>4, <1>5, <1>6, <1>7, Finiteness DEF Balanced, ReportsMatchWaits

\* The steps that have nothing to do with reports.
LEMMA OtherStepBalances ==
  ASSUME TypeOK, MessagesInv, Balanced, UNCHANGED <<pipe, drained, abandoned>>,
         \A s \in Senders : /\ pc'[s] = "waiting" <=> pc[s] = "waiting"
                            /\ pc[s] \notin {"idle", "input"} =>
                                 pc'[s] = pc[s] \/ (pc[s] = "flag" /\ pc'[s] = "ended"),
         \A c \in Copies : pc'[CopyOf[c]] # "ended" => pc[CopyOf[c]] # "ended" /\ pc'[c] = pc[c]
  PROVE  MessagesInv' /\ Balanced'
  <1>1. Waiting' = Waiting
    BY DEF Waiting
  <1>2. MessagesInv'
    BY DEF MessagesInv, TypeOK, Senders
  <1>3. QED
    BY <1>1, <1>2 DEF Balanced, ReportsMatchWaits

LEMMA BalanceInvariant == Spec => [](MessagesInv /\ Balanced)
  <1>1. Init => MessagesInv /\ Balanced
    <2> SUFFICES ASSUME Init PROVE MessagesInv /\ Balanced
      OBVIOUS
    <2>1. Waiting = {} /\ pipe = {} /\ drained = {} /\ abandoned = {}
      BY DEF Init, Waiting
    <2>2. \A c \in Copies : pc[c] = "idle"
      BY ProducerAssumption DEF Init, Senders
    <2>3. QED
      BY <2>1, <2>2, FS_EmptySet DEF MessagesInv, Balanced, ReportsMatchWaits
  <1>2. TypeOK /\ MessagesInv /\ Balanced /\ [Next]_vars => MessagesInv' /\ Balanced'
    <2> SUFFICES ASSUME TypeOK, MessagesInv, Balanced, [Next]_vars
                 PROVE  MessagesInv' /\ Balanced'
      OBVIOUS
    <2>0. \A o \in Orders : o \in Senders /\ o \notin Copies
      BY ProducerAssumption DEF Senders
    <2>1. ASSUME NEW s \in Senders, TakeSuccess(s) PROVE MessagesInv' /\ Balanced'
      <3>1. PICK e \in pipe : pipe' = pipe \ {e}
        BY <2>1 DEF TakeSuccess
      <3>2. QED
        BY <2>1, <3>1, TakeBalances DEF TakeSuccess
    <2>2. ASSUME NEW o \in Orders, TakeError(o) PROVE MessagesInv' /\ Balanced'
      <3>1. PICK e \in pipe : pipe' = pipe \ {e}
        BY <2>2 DEF TakeError
      <3>2. QED
        BY <2>0, <2>2, <3>1, TakeBalances DEF TakeError
    <2>3. ASSUME NEW o \in Orders, NotSent(o) PROVE MessagesInv' /\ Balanced'
      <3>1. /\ pc[o] = "input" /\ pc'[o] = "ended"
            /\ \A s \in Senders : s # o => pc'[s] = pc[s]
            /\ UNCHANGED <<pipe, drained, abandoned>>
        BY <2>0, <2>3 DEF NotSent, TypeOK
      <3>2. \A c \in Copies : pc'[CopyOf[c]] # "ended" =>
                                pc[CopyOf[c]] # "ended" /\ pc'[c] = pc[c]
        BY <2>0, <3>1, ProducerAssumption DEF Senders
      <3>3. QED
        BY <3>1, <3>2, OtherStepBalances
    <2>4. ASSUME NEW o \in Orders, Overload(o) PROVE MessagesInv' /\ Balanced'
      <3>1. PICK started \in {{}, {c \in Copies : CopyOf[c] = o}} :
              pc' = [s \in Senders |-> IF s = o THEN "ended"
                                       ELSE IF s \in started THEN "input"
                                       ELSE pc[s]]
        BY <2>4 DEF Overload
      <3>2. pc[o] = "flag" /\ \A c \in started : c \in Copies /\ CopyOf[c] = o /\ pc[c] = "idle"
        BY <2>4, <3>1 DEF Overload, MessagesInv
      <3>3. \A c \in Copies : pc'[CopyOf[c]] # "ended" =>
                                pc[CopyOf[c]] # "ended" /\ pc'[c] = pc[c]
        BY <2>0, <3>1, <3>2, ProducerAssumption DEF Senders
      <3>4. UNCHANGED <<pipe, drained, abandoned>>
        BY <2>4 DEF Overload
      <3>5. \A s \in Senders : /\ pc'[s] = "waiting" <=> pc[s] = "waiting"
                               /\ pc[s] \notin {"idle", "input"} =>
                                    pc'[s] = pc[s] \/ (pc[s] = "flag" /\ pc'[s] = "ended")
        BY <2>0, <3>1, <3>2
      <3>6. QED
        BY <3>3, <3>4, <3>5, OtherStepBalances
    <2>5. ASSUME NEW o \in Orders, CallerLeaves(o) PROVE MessagesInv' /\ Balanced'
      BY <2>5, OtherStepBalances DEF CallerLeaves
    <2>6. CASE UNCHANGED vars
      BY <2>6, OtherStepBalances DEF vars
    <2>7. QED
      BY <2>1, <2>2, <2>3, <2>4, <2>5, <2>6, SendBalances, DrainBalances, GiveUpBalances
      DEF Next, Proceed
  <1>3. QED
    BY <1>1, <1>2, TypeCorrect, PTL DEF Spec

\* Every report owed is awaited, one for one, but for drained errors and waits
\* given up.
THEOREM ReportsAndWaitsMatch == Spec => []ReportsMatchWaits
  <1>1. Balanced => ReportsMatchWaits
    BY DEF Balanced
  <1>2. QED
    BY <1>1, BalanceInvariant, PTL

\* The producer is full with nobody to take its reports only after as many
\* callers as it holds messages have left.
THEOREM OrdersBlockOnlyBehindAbandoned == Spec => []BlockedOnlyByAbandoned
  <1>1. TypeOK /\ Balanced => BlockedOnlyByAbandoned
    <2> SUFFICES ASSUME TypeOK, Balanced, Waiting = {}, Cardinality(pipe) = Capacity
                 PROVE  Cardinality(abandoned) >= Capacity
      BY DEF BlockedOnlyByAbandoned
    <2>1. Cardinality(Waiting) = 0
      BY FS_EmptySet
    <2>2. QED
      BY <2>1, Finiteness, ProducerAssumption DEF Balanced, ReportsMatchWaits
  <1>2. QED
    BY <1>1, BalanceInvariant, TypeCorrect, PTL
=============================================================================
