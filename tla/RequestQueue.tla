---------------------------- MODULE RequestQueue ----------------------------
(***************************************************************************)
(* DataLayer/kdindex/RequestQueue.hpp: the bounded queue between the host  *)
(* thread and the GPU threads, a std::deque guarded by one mutex and two   *)
(* condition variables.                                                    *)
(*                                                                         *)
(* A critical section is one action: everything between scoped_lock and    *)
(* wait() or unlock() happens with the mutex held, and no member is        *)
(* touched without it.  What is not atomic is kept apart: a thread that    *)
(* waits leaves the mutex and joins the wait set in the same step; a       *)
(* thread that changed the deque has unlocked before it calls notify_one,  *)
(* so anything can happen between the two; a woken thread has to take the  *)
(* mutex again and find its condition still true.                          *)
(***************************************************************************)
EXTENDS Naturals, Sequences, FiniteSets

CONSTANTS
  Pushers,    \* threads that push (a call of waitToPush may come first)
  Poppers,    \* threads that call pop
  Takers,     \* threads that call popIf(RS_DONE)
  States,     \* the REQUEST_STATEs of the requests pushed on this queue
  MaxSize,    \* maxSize: 128 unless the constructor is given another; 0: no limit
  MaxPushes   \* bound of the model: calls of push per thread

Consumers == Poppers \cup Takers
Threads == Pushers \cup Consumers

\* popIf compares only the oldest request, so a queue read with popIf must
\* never hold a request in another state: CudaDevice pushes a request on
\* "results" only after request.state = RS_DONE.
ASSUME QueueAssumption ==
  /\ IsFiniteSet(Threads)
  /\ Pushers \cap Consumers = {}
  /\ Poppers \cap Takers = {}
  /\ States \subseteq {"RS_NEW", "RS_DONE"}
  /\ Takers # {} => States = {"RS_DONE"}
  /\ MaxSize \in Nat
  /\ MaxPushes \in Nat

\* The n-th request of a thread.
Requests == [from : Pushers, n : 1..MaxPushes, state : States]

VARIABLES
  queue,      \* the deque, front first
  pc,         \* where each thread is
  condPush,   \* threads waiting on condPush
  condPop,    \* threads waiting on condPop
  sent,       \* how many requests each pusher has put into the deque
  delivered   \* history: the requests popped, in order

vars == <<queue, pc, condPush, condPop, sent, delivered>>

\* (Mutated: the bound tested with > instead of >=.)
FullPastTheEnd == MaxSize > 0 /\ Len(queue) > MaxSize

Full == MaxSize > 0 /\ Len(queue) >= MaxSize

TypeOK ==
  /\ queue \in Seq(Requests)
  /\ delivered \in Seq(Requests)
  /\ pc \in [Threads -> {"idle", "room", "push", "pop", "notify"}]
  /\ \A t \in Pushers : pc[t] # "pop"
  /\ \A t \in Consumers : pc[t] \in {"idle", "pop", "notify"}
  /\ condPush \subseteq {t \in Pushers : pc[t] \in {"room", "push"}}
  /\ condPop \subseteq {t \in Consumers : pc[t] = "pop"}
  /\ sent \in [Pushers -> 0..MaxPushes]
  /\ \A t \in Pushers : pc[t] \in {"room", "push"} => sent[t] < MaxPushes

Init ==
  /\ queue = <<>>
  /\ pc = [t \in Threads |-> "idle"]
  /\ condPush = {}
  /\ condPop = {}
  /\ sent = [t \in Pushers |-> 0]
  /\ delivered = <<>>

-----------------------------------------------------------------------------
\* A thread calls push(), or waitToPush() and then push().
CallPush(t) ==
  /\ pc[t] = "idle" /\ sent[t] < MaxPushes
  /\ \E entry \in {"room", "push"} : pc' = [pc EXCEPT ![t] = entry]
  /\ UNCHANGED <<queue, condPush, condPop, sent, delivered>>

\* A thread calls pop() or popIf().
CallPop(t) ==
  /\ pc[t] = "idle"
  /\ pc' = [pc EXCEPT ![t] = "pop"]
  /\ UNCHANGED <<queue, condPush, condPop, sent, delivered>>

\* (Mutated: the wait in waitToPush is on condPop.)
WaitToPushOnCondPop(t) ==
  /\ pc[t] = "room" /\ t \notin condPush
  /\ \/ /\ ~Full
        /\ pc' = [pc EXCEPT ![t] = "push"]
        /\ UNCHANGED condPop
     \/ /\ Full
        /\ condPop' = condPop \cup {t}
        /\ UNCHANGED pc
  /\ UNCHANGED <<queue, condPush, sent, delivered>>

\* waitToPush(), mutex held: leave the loop, or wait.  It notifies nobody.
WaitToPush(t) ==
  /\ pc[t] = "room" /\ t \notin condPush
  /\ \/ /\ ~Full
        /\ pc' = [pc EXCEPT ![t] = "push"]
        /\ UNCHANGED condPush
     \/ /\ Full
        /\ condPush' = condPush \cup {t}
        /\ UNCHANGED pc
  /\ UNCHANGED <<queue, condPop, sent, delivered>>

\* push(), mutex held: wait while the queue is full, else append and unlock.
Push(t) ==
  /\ pc[t] = "push" /\ t \notin condPush
  /\ \/ /\ ~Full
        /\ \E s \in States :
              queue' = Append(queue, [from |-> t, n |-> sent[t] + 1, state |-> s])
        /\ sent' = [sent EXCEPT ![t] = @ + 1]
        /\ pc' = [pc EXCEPT ![t] = "notify"]
        /\ UNCHANGED condPush
     \/ /\ Full
        /\ condPush' = condPush \cup {t}
        /\ UNCHANGED <<queue, sent, pc>>
  /\ UNCHANGED <<condPop, delivered>>

\* The loop condition of pop() is the queue being empty; popIf(RS_DONE) also
\* looks at the state of the oldest request.
CanTake(t) ==
  /\ queue # <<>>
  /\ t \in Takers => Head(queue).state = "RS_DONE"

\* pop() and popIf(RS_DONE), mutex held.
Pop(t) ==
  /\ pc[t] = "pop" /\ t \notin condPop
  /\ \/ /\ CanTake(t)
        /\ delivered' = Append(delivered, Head(queue))
        /\ queue' = Tail(queue)
        /\ pc' = [pc EXCEPT ![t] = "notify"]
        /\ UNCHANGED condPop
     \/ /\ ~CanTake(t)
        /\ condPop' = condPop \cup {t}
        /\ UNCHANGED <<queue, pc, delivered>>
  /\ UNCHANGED <<condPush, sent>>

\* notify_one() on a condition variable: one of the waiters, if there is one.
AfterNotify(waiters) ==
  IF waiters = {} THEN {waiters} ELSE {waiters \ {u} : u \in waiters}

\* (Mutated: push notifies only when its request is the first in the deque.)
NotifyPopWhenFirst(t) ==
  /\ pc[t] = "notify"
  /\ condPop' \in IF Len(queue) <= 1 THEN AfterNotify(condPop) ELSE {condPop}
  /\ pc' = [pc EXCEPT ![t] = "idle"]
  /\ UNCHANGED <<queue, condPush, sent, delivered>>

\* (Mutated: push does not notify.)
NotifyPopForgotten(t) ==
  /\ pc[t] = "notify"
  /\ pc' = [pc EXCEPT ![t] = "idle"]
  /\ UNCHANGED <<queue, condPush, condPop, sent, delivered>>

\* The last line of push(): the mutex is free again.
NotifyPop(t) ==
  /\ pc[t] = "notify"
  /\ condPop' \in AfterNotify(condPop)
  /\ pc' = [pc EXCEPT ![t] = "idle"]
  /\ UNCHANGED <<queue, condPush, sent, delivered>>

\* (Mutated: pop notifies condPop, the condition it waited on itself.)
NotifyPushOnCondPop(t) ==
  /\ pc[t] = "notify"
  /\ condPop' \in AfterNotify(condPop)
  /\ pc' = [pc EXCEPT ![t] = "idle"]
  /\ UNCHANGED <<queue, condPush, sent, delivered>>

\* The last line of pop() and popIf().
NotifyPush(t) ==
  /\ pc[t] = "notify"
  /\ condPush' \in AfterNotify(condPush)
  /\ pc' = [pc EXCEPT ![t] = "idle"]
  /\ UNCHANGED <<queue, condPop, sent, delivered>>

\* A wait may end without a reason (boost allows it); notifyProcessed() ends
\* one on condPop in the same way, from outside.
Wake ==
  /\ \E u \in condPush \cup condPop :
        /\ condPush' = condPush \ {u}
        /\ condPop' = condPop \ {u}
  /\ UNCHANGED <<queue, pc, sent, delivered>>

PusherStep(t) == WaitToPush(t) \/ Push(t) \/ NotifyPop(t)
ConsumerStep(t) == CallPop(t) \/ Pop(t) \/ NotifyPush(t)

Next ==
  \/ \E t \in Pushers : CallPush(t) \/ PusherStep(t)
  \/ \E t \in Consumers : ConsumerStep(t)
  \/ Wake

Spec == Init /\ [][Next]_vars

\* A thread inside an operation is scheduled again, and a consumer comes back
\* for more: CudaDevice::run loops on pop(), and the host pops one result per
\* request it pushed.  Nothing makes a pusher call push, and nothing wakes a
\* waiting thread but a notification.
Fairness ==
  /\ \A t \in Pushers : WF_vars(PusherStep(t))
  /\ \A t \in Consumers : WF_vars(ConsumerStep(t))

FairSpec == Spec /\ Fairness

-----------------------------------------------------------------------------
\* Threads that will still look for room, or announce some.
RoomSeekers ==
  {t \in Pushers : pc[t] \in {"room", "push"} /\ t \notin condPush}
    \cup {t \in Consumers : pc[t] = "notify"}

\* Threads that will still look for a request, or announce one.
RequestSeekers ==
  {t \in Consumers : pc[t] = "pop" /\ t \notin condPop}
    \cup {t \in Pushers : pc[t] = "notify"}

\* No lost wakeup for push() and waitToPush(): while some thread sleeps on
\* condPush, every free place of the deque is accounted for by a thread that is
\* awake and about to test for room or by a popper that has not notified yet.
\* One notify_one per pop, sent after the unlock, is therefore enough.
NoLostPushWakeup ==
  condPush # {} => MaxSize <= Len(queue) + Cardinality(RoomSeekers)

\* No lost wakeup for pop() and popIf(): while some thread sleeps on condPop,
\* every request in the deque is accounted for by a consumer that is awake or
\* by a pusher that has not notified yet.
NoLostPopWakeup ==
  condPop # {} => Len(queue) <= Cardinality(RequestSeekers)

Fifo == INSTANCE BoundedFifo WITH buffer <- queue

\* The queue with its mutex and condition variables implements the plain
\* first-in first-out buffer: nothing is lost, duplicated or overtaken between
\* push and pop, and while there is a request it keeps being popped.
ImplementsFifo == Fifo!FifoSpec

\* Every request pushed is popped: a consumer asleep on condPop is always woken
\* for it, without the help of a spurious wakeup.
EveryRequestDelivered ==
  \A t \in Pushers : \A k \in 1..MaxPushes :
    (sent[t] >= k) ~> (\E i \in 1..Len(delivered) : delivered[i].from = t /\ delivered[i].n = k)
=============================================================================
