----------------------------- MODULE ScanQueue ------------------------------
(***************************************************************************)
(* sweep::queue::queue<T> of libsweep/include/queue.hpp: a bounded queue   *)
(* under one mutex and one condition variable.  Background workers         *)
(* enqueue, callers of sweep_device_get_scan dequeue (several of them at   *)
(* once in the Node.js binding), sweep_device_start_scanning clears.       *)
(*                                                                         *)
(* A thread's critical section is split at every point where another      *)
(* thread can tell the difference: lock, change of the container, notify   *)
(* and unlock.  Elements are numbered in the order of the pushes, which is *)
(* all that the properties tell apart.                                     *)
(***************************************************************************)
EXTENDS Naturals, Sequences, FiniteSets

CONSTANTS Producers,     \* threads that call enqueue
          Consumers,     \* threads that call dequeue
          Clearers,      \* threads that call clear
          MaxSize,       \* max_size; sweep.cc constructs the queue with 20
          MaxEnqueues,   \* bound: how many elements are ever enqueued
          NoThread       \* nobody holds the mutex

Threads == Producers \cup Consumers \cup Clearers

ASSUME QueueAssumption ==
  /\ MaxSize \in Nat \ {0}
  /\ MaxEnqueues \in Nat
  /\ IsFiniteSet(Producers) /\ IsFiniteSet(Consumers)
  /\ Producers \cap Consumers = {}
  /\ Clearers \cap (Producers \cup Consumers) = {}
  /\ NoThread \notin Threads

VARIABLES the_queue,     \* the container: numbers of the elements in it
          the_mutex,     \* the thread that holds the mutex, or NoThread
          the_cond_var,  \* the consumers blocked on the condition variable
          pc,            \* where each thread is
          enqueued,      \* how many elements have been pushed
          last           \* history: the element dequeued last, or 0

vars == <<the_queue, the_mutex, the_cond_var, pc, enqueued, last>>

Init == /\ the_queue = <<>>
        /\ the_mutex = NoThread
        /\ the_cond_var = {}
        /\ pc = [t \in Threads |-> "idle"]
        /\ enqueued = 0
        /\ last = 0

-----------------------------------------------------------------------------
\* Taking the mutex for a call that begins, or again inside wait().
Lock(t, from, to) ==
  /\ pc[t] = from
  /\ the_mutex = NoThread
  /\ the_mutex' = t
  /\ pc' = [pc EXCEPT ![t] = to]
  /\ UNCHANGED <<the_queue, the_cond_var, enqueued, last>>

Unlock(t, to) ==
  /\ the_mutex' = NoThread
  /\ pc' = [pc EXCEPT ![t] = to]

EnqueueLock(p) == enqueued < MaxEnqueues /\ Lock(p, "idle", "store")

\* If the queue is full the oldest element makes room for the new one.
EnqueueStore(p) ==
  /\ pc[p] = "store"
  /\ the_queue' = Append(IF Len(the_queue) >= MaxSize THEN Tail(the_queue) ELSE the_queue,
                         enqueued + 1)
  /\ enqueued' = enqueued + 1
  /\ pc' = [pc EXCEPT ![p] = "notify"]
  /\ UNCHANGED <<the_mutex, the_cond_var, last>>

\* Bug: nobody is notified.
NotifyForgotten(p) ==
  /\ pc[p] = "notify"
  /\ Unlock(p, "idle")
  /\ UNCHANGED <<the_queue, the_cond_var, enqueued, last>>

\* Bug: notified only when the queue was empty before.
NotifyFirstOnly(p) ==
  /\ pc[p] = "notify"
  /\ \/ (the_cond_var = {} \/ Len(the_queue) > 1) /\ UNCHANGED the_cond_var
     \/ Len(the_queue) = 1 /\ \E c \in the_cond_var : the_cond_var' = the_cond_var \ {c}
  /\ Unlock(p, "idle")
  /\ UNCHANGED <<the_queue, enqueued, last>>

\* notify_one, still under the lock_guard that the return releases.
EnqueueNotify(p) ==
  /\ pc[p] = "notify"
  /\ \/ the_cond_var = {} /\ UNCHANGED the_cond_var
     \/ \E c \in the_cond_var : the_cond_var' = the_cond_var \ {c}
  /\ Unlock(p, "idle")
  /\ UNCHANGED <<the_queue, enqueued, last>>

DequeueLock(c) == Lock(c, "idle", "check")

\* The queue is empty: wait() blocks and releases the mutex in one step.
DequeueWait(c) ==
  /\ pc[c] = "check"
  /\ the_queue = <<>>
  /\ the_cond_var' = the_cond_var \cup {c}
  /\ Unlock(c, "wait")
  /\ UNCHANGED <<the_queue, enqueued, last>>

\* wait() may return without a notification.
SpuriousWakeup(c) ==
  /\ c \in the_cond_var
  /\ the_cond_var' = the_cond_var \ {c}
  /\ UNCHANGED <<the_queue, the_mutex, pc, enqueued, last>>

\* Bug: "if" where the source has "while".
RelockWithoutTest(c) == c \notin the_cond_var /\ Lock(c, "wait", "pop")

\* wait() returns only with the mutex, to the test of the while loop.
DequeueRelock(c) == c \notin the_cond_var /\ Lock(c, "wait", "check")

\* The test of the while loop fails: there is an element to take.
DequeueCheck(c) ==
  /\ pc[c] = "check"
  /\ the_queue # <<>>
  /\ pc' = [pc EXCEPT ![c] = "pop"]
  /\ UNCHANGED <<the_queue, the_mutex, the_cond_var, enqueued, last>>

DequeuePop(c) ==
  /\ pc[c] = "pop"
  /\ last' = Head(the_queue)
  /\ the_queue' = Tail(the_queue)
  /\ Unlock(c, "idle")
  /\ UNCHANGED <<the_cond_var, enqueued>>

ClearLock(k) == Lock(k, "idle", "clear")

\* Bug: clear removes one element instead of all.
ClearOne(k) ==
  /\ pc[k] = "clear"
  /\ the_queue' = IF the_queue = <<>> THEN <<>> ELSE Tail(the_queue)
  /\ Unlock(k, "idle")
  /\ UNCHANGED <<the_cond_var, enqueued, last>>

ClearPop(k) ==
  /\ pc[k] = "clear"
  /\ the_queue' = <<>>
  /\ Unlock(k, "idle")
  /\ UNCHANGED <<the_cond_var, enqueued, last>>

Enqueue(p) == EnqueueLock(p) \/ EnqueueStore(p) \/ EnqueueNotify(p)
Dequeue(c) == \/ DequeueLock(c) \/ DequeueWait(c) \/ SpuriousWakeup(c)
              \/ DequeueRelock(c) \/ DequeueCheck(c) \/ DequeuePop(c)
Clear(k) == ClearLock(k) \/ ClearPop(k)

Next == \/ \E p \in Producers : Enqueue(p)
        \/ \E c \in Consumers : Dequeue(c)
        \/ \E k \in Clearers : Clear(k)

Spec == Init /\ [][Next]_vars

\* A thread inside a critical section keeps running, and a woken thread gets
\* the mutex in the end although others take it in between.  No fairness on
\* the calls themselves: nobody has to enqueue, dequeue or clear.
Fairness ==
  /\ \A p \in Producers : WF_vars(EnqueueStore(p) \/ EnqueueNotify(p))
  /\ \A c \in Consumers : /\ WF_vars(DequeueWait(c) \/ DequeueCheck(c) \/ DequeuePop(c))
                           /\ SF_vars(DequeueRelock(c))
  /\ \A k \in Clearers : WF_vars(ClearPop(k))

FairSpec == Spec /\ Fairness

-----------------------------------------------------------------------------
\* The shape of the state: each thread runs the code of its role, and only
\* threads inside wait() are blocked on the condition variable.
TypeOK ==
  /\ the_queue \in Seq(Nat)
  /\ the_mutex \in Threads \cup {NoThread}
  /\ the_cond_var \in SUBSET Consumers
  /\ pc \in [Threads -> {"idle", "store", "notify", "check", "wait", "pop", "clear"}]
  /\ \A p \in Producers : pc[p] \in {"idle", "store", "notify"}
  /\ \A c \in Consumers : pc[c] \in {"idle", "check", "wait", "pop"}
  /\ \A k \in Clearers : pc[k] \in {"idle", "clear"}
  /\ \A c \in the_cond_var : pc[c] = "wait"
  /\ enqueued \in Nat
  /\ last \in Nat

\* The queue never outgrows the capacity it was constructed with, although
\* enqueue never blocks: what a slow reader costs is scans, never memory.
QueueBounded == Len(the_queue) <= MaxSize

\* The container always holds exactly the newest elements, without a gap and
\* in order: only the oldest element is ever overwritten.
HoldsNewest ==
  \A i \in 1 .. Len(the_queue) : the_queue[i] = enqueued - Len(the_queue) + i

\* The emptiness test of dequeue is still true when the element is moved out:
\* front() and pop() never meet an empty container.
PopsAnElement == \A c \in Consumers : pc[c] = "pop" => the_queue # <<>>

\* Consumers that are past the condition variable but have not taken their
\* element yet, and producers that have stored but not notified yet.
Awake == {c \in Consumers : pc[c] \in {"check", "pop"} \/ (pc[c] = "wait" /\ c \notin the_cond_var)}
Notifying == {p \in Producers : pc[p] = "notify"}

\* No wakeup is lost: while some reader sleeps, every element in the queue
\* has a thread under way that will look at the queue or wake a sleeper.
NoLostWakeup ==
  the_cond_var # {} => Len(the_queue) <= Cardinality(Awake) + Cardinality(Notifying)

\* A dequeue never returns an element older than, or the same as, one some
\* reader was given before: no scan is delivered twice or out of order.
DeliversInOrder == [][last' > last]_last

\* A reader asleep beside a non-empty queue does not last.
SleepersAreServed ==
  (the_queue # <<>> /\ the_cond_var # {}) ~> (the_queue = <<>> \/ the_cond_var = {})

\* The queue is the sliding window its readers are promised.
Window == INSTANCE ScanWindow WITH lo <- enqueued - Len(the_queue), hi <- enqueued
WindowSpec == Window!Spec
=============================================================================
