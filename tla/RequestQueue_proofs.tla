------------------------ MODULE RequestQueue_proofs ------------------------
(***************************************************************************)
(* RequestQueue, for every number of threads and every maxSize: its types, *)
(* the absence of lost wakeups on both condition variables, and that its   *)
(* steps are steps of the plain bounded FIFO.                              *)
(*                                                                         *)
(* The wakeup invariants are inductive with TypeOK and nothing else: a     *)
(* thread starts to sleep only when there is nothing for it (the bound is  *)
(* then met by Len(queue) alone), and from there every step that frees a   *)
(* place, or adds a request, adds exactly one thread to the seekers.       *)
(***************************************************************************)
EXTENDS RequestQueue, FiniteSetTheorems, TLAPS

\* Subsets of the threads are finite, and counting one thread more or less
\* does what it says.
LEMMA SeekerCount ==
  ASSUME NEW S \in SUBSET Threads, NEW T \in SUBSET Threads
  PROVE  /\ IsFiniteSet(S) /\ Cardinality(S) \in Nat
         /\ S \subseteq T => Cardinality(S) <= Cardinality(T)
         /\ \A t \in Threads \ S : Cardinality(S \cup {t}) = Cardinality(S) + 1
         /\ \A t \in S : Cardinality(S \ {t}) = Cardinality(S) - 1
<1>1. IsFiniteSet(S) /\ IsFiniteSet(T)
  BY FS_Subset, QueueAssumption
<1>2. Cardinality(S) \in Nat
  BY <1>1, FS_CardinalityType
<1>3. S \subseteq T => Cardinality(S) <= Cardinality(T)
  BY <1>1, FS_Subset
<1>4. \A t \in Threads \ S : Cardinality(S \cup {t}) = Cardinality(S) + 1
  BY <1>1, FS_AddElement
<1>5. \A t \in S : Cardinality(S \ {t}) = Cardinality(S) - 1
  BY <1>1, FS_RemoveElement
<1>6. QED
  BY <1>1, <1>2, <1>3, <1>4, <1>5

\* notify_one leaves the waiters alone or removes one of them, and it leaves
\* them alone only when there are none.
LEMMA NotifyOne ==
  ASSUME NEW W, NEW V \in AfterNotify(W)
  PROVE  \/ W = {} /\ V = {}
         \/ \E u \in W : V = W \ {u}
BY DEF AfterNotify

\* In Push, the pusher's next request is put behind the others.
LEMMA PushRoom ==
  ASSUME TypeOK, NEW t \in Pushers, Push(t), ~Full
  PROVE  /\ \E r \in Requests : queue' = Append(queue, r)
         /\ queue' \in Seq(Requests)
         /\ Len(queue') = Len(queue) + 1
<1>1. PICK s \in States :
        queue' = Append(queue, [from |-> t, n |-> sent[t] + 1, state |-> s])
  BY DEF Push
<1>2. sent[t] \in 0..MaxPushes /\ sent[t] < MaxPushes
  BY DEF Push, TypeOK
<1>3. sent[t] + 1 \in 1..MaxPushes
  BY <1>2, QueueAssumption
<1>4. [from |-> t, n |-> sent[t] + 1, state |-> s] \in Requests
  BY <1>3 DEF Requests
<1>5. queue \in Seq(Requests)
  BY DEF TypeOK
<1>6. QED
  BY <1>1, <1>4, <1>5

\* Every thread is where the code can be, a sleeping pusher is in push or
\* waitToPush and a sleeping consumer in pop or popIf (RequestQueue.hpp 23-69).
THEOREM TypeCorrect == Spec => []TypeOK
<1> USE DEF TypeOK, Threads, Consumers
<1>1. Init => TypeOK
  BY QueueAssumption DEF Init
<1>2. TypeOK /\ [Next]_vars => TypeOK'
  <2> SUFFICES ASSUME TypeOK, [Next]_vars
               PROVE  TypeOK'
    OBVIOUS
  <2>1. ASSUME NEW t \in Pushers, CallPush(t)
        PROVE  TypeOK'
    BY <2>1, QueueAssumption DEF CallPush
  <2>2. ASSUME NEW t \in Pushers, WaitToPush(t)
        PROVE  TypeOK'
    BY <2>2, QueueAssumption DEF WaitToPush
  <2>3. ASSUME NEW t \in Pushers, Push(t)
        PROVE  TypeOK'
    <3>1. CASE Full
      BY <2>3, <3>1, QueueAssumption DEF Push
    <3>2. CASE ~Full
      <4>2. sent[t] + 1 \in 1..MaxPushes
        BY <2>3, QueueAssumption DEF Push
      <4>4. queue' \in Seq(Requests)
        BY <2>3, <3>2, PushRoom
      <4>5. pc' = [pc EXCEPT ![t] = "notify"] /\ sent' = [sent EXCEPT ![t] = @ + 1]
            /\ UNCHANGED <<condPush, condPop, delivered>> /\ t \notin condPush
        BY <2>3, <3>2 DEF Push
      <4>6. /\ pc' \in [Threads -> {"idle", "room", "push", "pop", "notify"}]
            /\ \A u \in Pushers : pc'[u] # "pop"
            /\ \A u \in Consumers : pc'[u] \in {"idle", "pop", "notify"}
        BY <4>5
      <4>7. /\ sent' \in [Pushers -> 0..MaxPushes]
            /\ \A u \in Pushers : pc'[u] \in {"room", "push"} => sent'[u] < MaxPushes
        BY <4>2, <4>5
      <4>8. /\ condPush' \subseteq {u \in Pushers : pc'[u] \in {"room", "push"}}
            /\ condPop' \subseteq {u \in Consumers : pc'[u] = "pop"}
        BY <4>5, QueueAssumption
      <4>9. QED
        BY <4>4, <4>5, <4>6, <4>7, <4>8
    <3>3. QED
      BY <3>1, <3>2
  <2>4. ASSUME NEW t \in Pushers, NotifyPop(t)
        PROVE  TypeOK'
    <3>1. condPop' \subseteq condPop
      BY <2>4, NotifyOne DEF NotifyPop
    <3>2. QED
      BY <2>4, <3>1, QueueAssumption DEF NotifyPop
  <2>5. ASSUME NEW t \in Consumers, CallPop(t)
        PROVE  TypeOK'
    BY <2>5, QueueAssumption DEF CallPop
  <2>6. ASSUME NEW t \in Consumers, Pop(t)
        PROVE  TypeOK'
    <3>1. CASE CanTake(t)
      <4>1. queue # <<>> /\ Head(queue) \in Requests /\ Tail(queue) \in Seq(Requests)
        BY <3>1 DEF CanTake
      <4>a. delivered' = Append(delivered, Head(queue)) /\ queue' = Tail(queue)
        BY <2>6, <3>1 DEF Pop
      <4>2. delivered' \in Seq(Requests) /\ queue' \in Seq(Requests)
        BY <4>1, <4>a
      <4>3. QED
        BY <2>6, <3>1, <4>2, QueueAssumption DEF Pop
    <3>2. CASE ~CanTake(t)
      BY <2>6, <3>2, QueueAssumption DEF Pop
    <3>3. QED
      BY <3>1, <3>2
  <2>7. ASSUME NEW t \in Consumers, NotifyPush(t)
        PROVE  TypeOK'
    <3>1. condPush' \subseteq condPush
      BY <2>7, NotifyOne DEF NotifyPush
    <3>2. QED
      BY <2>7, <3>1, QueueAssumption DEF NotifyPush
  <2>8. CASE Wake
    BY <2>8 DEF Wake
  <2>9. CASE UNCHANGED vars
    BY <2>9 DEF vars
  <2>10. QED
    BY <2>1, <2>2, <2>3, <2>4, <2>5, <2>6, <2>7, <2>8, <2>9
    DEF Next, PusherStep, ConsumerStep
<1>3. QED
  BY <1>1, <1>2, PTL DEF Spec

\* In Pop, the oldest request leaves.
LEMMA PopRequest ==
  ASSUME TypeOK, NEW t \in Consumers, Pop(t), CanTake(t)
  PROVE  Len(queue) \in Nat /\ Len(queue') = Len(queue) - 1
BY DEF Pop, CanTake, TypeOK

\* popIf(RS_DONE) waits only on an empty queue, like pop.
LEMMA CannotTake ==
  ASSUME TypeOK, NEW t \in Consumers, ~CanTake(t)
  PROVE  Len(queue) = 0
<1>1. SUFFICES ASSUME queue # <<>>
               PROVE  FALSE
  BY DEF TypeOK
<1>2. Head(queue) \in Requests
  BY <1>1 DEF TypeOK
<1>3. Head(queue).state \in States
  BY <1>2 DEF Requests
<1>4. QED
  BY <1>1, <1>3, QueueAssumption DEF CanTake

\* One notify_one per pop, sent after the unlock, wakes every sleeping pusher
\* there is room for (RequestQueue.hpp 23-37, 45-47, 60-62).
THEOREM PushWakeup == Spec => []NoLostPushWakeup
<1> DEFINE Inv == TypeOK /\ NoLostPushWakeup
<1>1. Init => NoLostPushWakeup
  BY DEF Init, NoLostPushWakeup
<1>2. Inv /\ TypeOK' /\ [Next]_vars => NoLostPushWakeup'
  <2> SUFFICES ASSUME TypeOK, NoLostPushWakeup, TypeOK', [Next]_vars, condPush' # {}
               PROVE  MaxSize <= Len(queue') + Cardinality(RoomSeekers')
    BY DEF NoLostPushWakeup
  <2> DEFINE A == RoomSeekers
             B == RoomSeekers'
  <2>a. A \in SUBSET Threads /\ B \in SUBSET Threads
    BY DEF RoomSeekers, Threads
  <2>b. /\ Cardinality(A) \in Nat /\ Cardinality(B) \in Nat
        /\ A \subseteq B => Cardinality(A) <= Cardinality(B)
    BY <2>a, SeekerCount
  <2>c. Len(queue) \in Nat /\ Len(queue') \in Nat /\ MaxSize \in Nat
    BY QueueAssumption DEF TypeOK
  <2> HIDE DEF A, B
  <2> SUFFICES MaxSize <= Len(queue') + Cardinality(B)
    BY DEF B
  <2>d. condPush # {} => MaxSize <= Len(queue) + Cardinality(A)
    BY DEF NoLostPushWakeup, A
  <2>e. ASSUME condPush # {}, Len(queue') = Len(queue), A \subseteq B
        PROVE  MaxSize <= Len(queue') + Cardinality(B)
    BY <2>b, <2>c, <2>d, <2>e
  <2>1. ASSUME NEW t \in Pushers, CallPush(t)
        PROVE  MaxSize <= Len(queue') + Cardinality(B)
    <3>1. A \subseteq B
      BY <2>1, QueueAssumption DEF CallPush, A, B, RoomSeekers, TypeOK, Threads, Consumers
    <3>2. QED
      BY <2>1, <2>e, <3>1 DEF CallPush
  <2>2. ASSUME NEW t \in Pushers, WaitToPush(t)
        PROVE  MaxSize <= Len(queue') + Cardinality(B)
    <3>1. CASE Full
      BY <2>2, <2>b, <2>c, <3>1 DEF WaitToPush, Full
    <3>2. CASE ~Full
      <4>1. A \subseteq B
        BY <2>2, <3>2, QueueAssumption DEF WaitToPush, A, B, RoomSeekers, TypeOK, Threads, Consumers
      <4>2. QED
        BY <2>2, <2>e, <3>2, <4>1 DEF WaitToPush
    <3>3. QED
      BY <3>1, <3>2
  <2>3. ASSUME NEW t \in Pushers, Push(t)
        PROVE  MaxSize <= Len(queue') + Cardinality(B)
    <3>1. CASE Full
      BY <2>3, <2>b, <2>c, <3>1 DEF Push, Full
    <3>2. CASE ~Full
      <4>1. t \in A /\ B = A \ {t}
        BY <2>3, <3>2, QueueAssumption DEF Push, A, B, RoomSeekers, TypeOK, Threads, Consumers
      <4>2. Cardinality(B) = Cardinality(A) - 1
        BY <2>a, <4>1, SeekerCount
      <4>3. Len(queue') = Len(queue) + 1 /\ condPush # {}
        BY <2>3, <3>2, PushRoom DEF Push
      <4>4. QED
        BY <2>b, <2>c, <2>d, <4>2, <4>3
    <3>3. QED
      BY <3>1, <3>2
  <2>4. ASSUME NEW t \in Pushers, NotifyPop(t)
        PROVE  MaxSize <= Len(queue') + Cardinality(B)
    <3>1. A \subseteq B
      BY <2>4, QueueAssumption DEF NotifyPop, A, B, RoomSeekers, TypeOK, Threads, Consumers
    <3>2. QED
      BY <2>4, <2>e, <3>1 DEF NotifyPop
  <2>5. ASSUME NEW t \in Consumers, CallPop(t)
        PROVE  MaxSize <= Len(queue') + Cardinality(B)
    <3>1. A \subseteq B
      BY <2>5, QueueAssumption DEF CallPop, A, B, RoomSeekers, TypeOK, Threads, Consumers
    <3>2. QED
      BY <2>5, <2>e, <3>1 DEF CallPop
  <2>6. ASSUME NEW t \in Consumers, Pop(t)
        PROVE  MaxSize <= Len(queue') + Cardinality(B)
    <3>1. CASE CanTake(t)
      <4>1. t \in Threads \ A /\ B = A \cup {t}
        BY <2>6, <3>1, QueueAssumption DEF Pop, A, B, RoomSeekers, TypeOK, Threads, Consumers
      <4>2. Cardinality(B) = Cardinality(A) + 1
        BY <2>a, <4>1, SeekerCount
      <4>3. Len(queue') = Len(queue) - 1 /\ condPush # {}
        BY <2>6, <3>1, PopRequest DEF Pop
      <4>4. QED
        BY <2>b, <2>c, <2>d, <4>2, <4>3
    <3>2. CASE ~CanTake(t)
      <4>1. A \subseteq B
        BY <2>6, <3>2, QueueAssumption DEF Pop, A, B, RoomSeekers, TypeOK, Threads, Consumers
      <4>2. QED
        BY <2>6, <2>e, <3>2, <4>1 DEF Pop
    <3>3. QED
      BY <3>1, <3>2
  <2>7. ASSUME NEW t \in Consumers, NotifyPush(t)
        PROVE  MaxSize <= Len(queue') + Cardinality(B)
    <3>1. PICK u \in condPush : condPush' = condPush \ {u}
      BY <2>7, NotifyOne DEF NotifyPush
    <3>2. u \in Threads \ (A \ {t}) /\ t \in A /\ B = (A \ {t}) \cup {u}
      BY <2>7, <3>1, QueueAssumption DEF NotifyPush, A, B, RoomSeekers, TypeOK, Threads, Consumers
    <3>3. Cardinality(B) = Cardinality(A)
      <4>1. A \ {t} \in SUBSET Threads
        BY <2>a
      <4>2. Cardinality(A \ {t}) = Cardinality(A) - 1
        BY <2>a, <3>2, SeekerCount
      <4>3. Cardinality((A \ {t}) \cup {u}) = Cardinality(A \ {t}) + 1
        BY <3>2, <4>1, SeekerCount
      <4>4. QED
        BY <2>b, <3>2, <4>2, <4>3
    <3>4. QED
      BY <2>7, <2>b, <2>c, <2>d, <3>1, <3>3 DEF NotifyPush
  <2>8. CASE Wake
    <3>1. A \subseteq B
      BY <2>8 DEF Wake, A, B, RoomSeekers
    <3>2. QED
      BY <2>8, <2>e, <3>1 DEF Wake
  <2>9. CASE UNCHANGED vars
    <3>1. A \subseteq B
      BY <2>9 DEF vars, A, B, RoomSeekers
    <3>2. QED
      BY <2>9, <2>e, <3>1 DEF vars
  <2>10. QED
    BY <2>1, <2>2, <2>3, <2>4, <2>5, <2>6, <2>7, <2>8, <2>9
    DEF Next, PusherStep, ConsumerStep
<1>3. QED
  BY <1>1, <1>2, TypeCorrect, PTL DEF Spec

\* One notify_one per push, sent after the unlock, wakes every sleeping popper
\* and taker there is a request for (RequestQueue.hpp 28-29, 39-43, 55-58).
THEOREM PopWakeup == Spec => []NoLostPopWakeup
<1> DEFINE Inv == TypeOK /\ NoLostPopWakeup
<1>1. Init => NoLostPopWakeup
  BY DEF Init, NoLostPopWakeup
<1>2. Inv /\ TypeOK' /\ [Next]_vars => NoLostPopWakeup'
  <2> SUFFICES ASSUME TypeOK, NoLostPopWakeup, TypeOK', [Next]_vars, condPop' # {}
               PROVE  Len(queue') <= Cardinality(RequestSeekers')
    BY DEF NoLostPopWakeup
  <2> DEFINE A == RequestSeekers
             B == RequestSeekers'
  <2>a. A \in SUBSET Threads /\ B \in SUBSET Threads
    BY DEF RequestSeekers, Threads
  <2>b. /\ Cardinality(A) \in Nat /\ Cardinality(B) \in Nat
        /\ A \subseteq B => Cardinality(A) <= Cardinality(B)
    BY <2>a, SeekerCount
  <2>c. Len(queue) \in Nat /\ Len(queue') \in Nat
    BY DEF TypeOK
  <2> HIDE DEF A, B
  <2> SUFFICES Len(queue') <= Cardinality(B)
    BY DEF B
  <2>d. condPop # {} => Len(queue) <= Cardinality(A)
    BY DEF NoLostPopWakeup, A
  <2>e. ASSUME condPop # {}, Len(queue') = Len(queue), A \subseteq B
        PROVE  Len(queue') <= Cardinality(B)
    BY <2>b, <2>c, <2>d, <2>e
  <2>1. ASSUME NEW t \in Pushers, CallPush(t)
        PROVE  Len(queue') <= Cardinality(B)
    <3>1. A \subseteq B
      BY <2>1, QueueAssumption DEF CallPush, A, B, RequestSeekers, TypeOK, Threads, Consumers
    <3>2. QED
      BY <2>1, <2>e, <3>1 DEF CallPush
  <2>2. ASSUME NEW t \in Pushers, WaitToPush(t)
        PROVE  Len(queue') <= Cardinality(B)
    <3>1. A \subseteq B
      BY <2>2, QueueAssumption DEF WaitToPush, A, B, RequestSeekers, TypeOK, Threads, Consumers
    <3>2. QED
      BY <2>2, <2>e, <3>1 DEF WaitToPush
  <2>3. ASSUME NEW t \in Pushers, Push(t)
        PROVE  Len(queue') <= Cardinality(B)
    <3>1. CASE Full
      <4>1. A \subseteq B
        BY <2>3, <3>1, QueueAssumption DEF Push, A, B, RequestSeekers, TypeOK, Threads, Consumers
      <4>2. QED
        BY <2>3, <2>e, <3>1, <4>1 DEF Push
    <3>2. CASE ~Full
      <4>1. t \in Threads \ A /\ B = A \cup {t}
        BY <2>3, <3>2, QueueAssumption DEF Push, A, B, RequestSeekers, TypeOK, Threads, Consumers
      <4>2. Cardinality(B) = Cardinality(A) + 1
        BY <2>a, <4>1, SeekerCount
      <4>3. Len(queue') = Len(queue) + 1 /\ condPop # {}
        BY <2>3, <3>2, PushRoom DEF Push
      <4>4. QED
        BY <2>b, <2>c, <2>d, <4>2, <4>3
    <3>3. QED
      BY <3>1, <3>2
  <2>4. ASSUME NEW t \in Pushers, NotifyPop(t)
        PROVE  Len(queue') <= Cardinality(B)
    <3>1. PICK u \in condPop : condPop' = condPop \ {u}
      BY <2>4, NotifyOne DEF NotifyPop
    <3>2. u \in Threads \ (A \ {t}) /\ t \in A /\ B = (A \ {t}) \cup {u}
      BY <2>4, <3>1, QueueAssumption DEF NotifyPop, A, B, RequestSeekers, TypeOK, Threads, Consumers
    <3>3. Cardinality(B) = Cardinality(A)
      <4>1. A \ {t} \in SUBSET Threads
        BY <2>a
      <4>2. Cardinality(A \ {t}) = Cardinality(A) - 1
        BY <2>a, <3>2, SeekerCount
      <4>3. Cardinality((A \ {t}) \cup {u}) = Cardinality(A \ {t}) + 1
        BY <3>2, <4>1, SeekerCount
      <4>4. QED
        BY <2>b, <3>2, <4>2, <4>3
    <3>4. QED
      BY <2>4, <2>b, <2>c, <2>d, <3>1, <3>3 DEF NotifyPop
  <2>5. ASSUME NEW t \in Consumers, CallPop(t)
        PROVE  Len(queue') <= Cardinality(B)
    <3>1. A \subseteq B
      BY <2>5, QueueAssumption DEF CallPop, A, B, RequestSeekers, TypeOK, Threads, Consumers
    <3>2. QED
      BY <2>5, <2>e, <3>1 DEF CallPop
  <2>6. ASSUME NEW t \in Consumers, Pop(t)
        PROVE  Len(queue') <= Cardinality(B)
    <3>1. CASE CanTake(t)
      <4>1. t \in A /\ B = A \ {t}
        BY <2>6, <3>1, QueueAssumption DEF Pop, A, B, RequestSeekers, TypeOK, Threads, Consumers
      <4>2. Cardinality(B) = Cardinality(A) - 1
        BY <2>a, <4>1, SeekerCount
      <4>3. Len(queue') = Len(queue) - 1 /\ condPop # {}
        BY <2>6, <3>1, PopRequest DEF Pop
      <4>4. QED
        BY <2>b, <2>c, <2>d, <4>2, <4>3
    <3>2. CASE ~CanTake(t)
      <4>1. Len(queue') = 0
        BY <2>6, <3>2, CannotTake DEF Pop
      <4>2. QED
        BY <2>b, <4>1
    <3>3. QED
      BY <3>1, <3>2
  <2>7. ASSUME NEW t \in Consumers, NotifyPush(t)
        PROVE  Len(queue') <= Cardinality(B)
    <3>1. A \subseteq B
      BY <2>7, QueueAssumption DEF NotifyPush, A, B, RequestSeekers, TypeOK, Threads, Consumers
    <3>2. QED
      BY <2>7, <2>e, <3>1 DEF NotifyPush
  <2>8. CASE Wake
    <3>1. A \subseteq B
      BY <2>8 DEF Wake, A, B, RequestSeekers
    <3>2. QED
      BY <2>8, <2>e, <3>1 DEF Wake
  <2>9. CASE UNCHANGED vars
    <3>1. A \subseteq B
      BY <2>9 DEF vars, A, B, RequestSeekers
    <3>2. QED
      BY <2>9, <2>e, <3>1 DEF vars
  <2>10. QED
    BY <2>1, <2>2, <2>3, <2>4, <2>5, <2>6, <2>7, <2>8, <2>9
    DEF Next, PusherStep, ConsumerStep
<1>3. QED
  BY <1>1, <1>2, TypeCorrect, PTL DEF Spec

\* The steps of the queue are steps of the bounded FIFO: push enqueues only
\* below maxSize, pop and popIf take the oldest request, and calls, waits,
\* notifications and wakeups change nothing a client can see.
THEOREM FifoImplemented == Spec => Fifo!FifoSafety
<1>1. Init => Fifo!FifoInit
  BY DEF Init, Fifo!FifoInit
<1>2. TypeOK /\ [Next]_vars => [Fifo!FifoNext]_(Fifo!fifoVars)
  <2> SUFFICES ASSUME TypeOK, [Next]_vars
               PROVE  Fifo!FifoNext \/ UNCHANGED <<queue, delivered>>
    BY DEF Fifo!fifoVars
  <2>1. ASSUME NEW t \in Pushers, Push(t)
        PROVE  Fifo!FifoNext \/ UNCHANGED <<queue, delivered>>
    <3>1. CASE Full
      BY <2>1, <3>1 DEF Push
    <3>2. CASE ~Full
      <4>1. \E r \in Requests : queue' = Append(queue, r)
        BY <2>1, <3>2, PushRoom
      <4>2. QED
        BY <2>1, <3>2, <4>1 DEF Push, Full, Fifo!FifoNext, Fifo!Enqueue, Fifo!Full
    <3>3. QED
      BY <3>1, <3>2
  <2>2. ASSUME NEW t \in Consumers, Pop(t)
        PROVE  Fifo!FifoNext \/ UNCHANGED <<queue, delivered>>
    BY <2>2 DEF Pop, CanTake, Fifo!FifoNext, Fifo!Dequeue
  <2>3. QED
    BY <2>1, <2>2
    DEF Next, PusherStep, ConsumerStep, CallPush, WaitToPush, NotifyPop, CallPop,
        NotifyPush, Wake, vars
<1>3. QED
  BY <1>1, <1>2, TypeCorrect, PTL DEF Spec, Fifo!FifoSafety
=============================================================================
