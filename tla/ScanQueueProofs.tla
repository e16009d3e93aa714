--------------------------- MODULE ScanQueueProofs --------------------------
(***************************************************************************)
(* Proofs about ScanQueue for every number of threads, every capacity and  *)
(* every number of elements: what the run ScanQueue.cfg checks on a small  *)
(* instance, except for liveness.                                          *)
(*                                                                         *)
(* The properties are not inductive by themselves.  That a queue holds the *)
(* newest elements needs that nobody else changes it between the test for  *)
(* emptiness and the pop, hence MutualExclusion; that nothing is delivered *)
(* twice needs that what was delivered is older than what is in the queue, *)
(* hence Delivered.                                                        *)
(***************************************************************************)
EXTENDS ScanQueue, FiniteSetTheorems, TLAPS

\* A thread is inside a critical section exactly when it holds the mutex.
MutualExclusion ==
  \A t \in Threads : pc[t] \in {"store", "notify", "check", "pop", "clear"} <=> the_mutex = t

\* Whatever was dequeued is older than whatever is still in the queue.
Delivered == Len(the_queue) <= enqueued /\ last <= enqueued - Len(the_queue)

IInv == /\ TypeOK
        /\ MutualExclusion
        /\ PopsAnElement
        /\ QueueBounded
        /\ HoldsNewest
        /\ Delivered

-----------------------------------------------------------------------------
\* The elements of q are the last Len(q) of the numbers 1 .. n, in order.
Newest(q, n) == \A i \in 1 .. Len(q) : q[i] = n - Len(q) + i

\* Pushing the next number keeps the container without a gap.  (EnqueueStore)
LEMMA AppendNewest ==
  ASSUME NEW q \in Seq(Nat), NEW n \in Nat, Newest(q, n)
  PROVE  /\ Append(q, n + 1) \in Seq(Nat)
         /\ Len(Append(q, n + 1)) = Len(q) + 1
         /\ Newest(Append(q, n + 1), n + 1)
<1>1. PICK r : r = Append(q, n + 1)  OBVIOUS
<1>2. r \in Seq(Nat) /\ Len(r) = Len(q) + 1 /\ Len(q) \in Nat  BY <1>1
<1>3. r[Len(q) + 1] = n + 1 /\ \A i \in 1 .. Len(q) : r[i] = q[i]  BY <1>1
<1>4. ASSUME NEW i \in 1 .. Len(q) + 1  PROVE r[i] = n + 1 - (Len(q) + 1) + i
  <2>1. CASE i = Len(q) + 1  BY <1>2, <1>3, <2>1
  <2>2. CASE i # Len(q) + 1
    <3>1. i \in 1 .. Len(q)  BY <1>2, <2>2
    <3>2. r[i] = n - Len(q) + i  BY <1>3, <3>1 DEF Newest
    <3> QED BY <1>2, <3>1, <3>2
  <2> QED BY <2>1, <2>2
<1> QED BY <1>1, <1>2, <1>4 DEF Newest

\* The front element is the oldest of the window, and taking it leaves the
\* others without a gap.  (EnqueueStore on a full queue, DequeuePop)
LEMMA TailNewest ==
  ASSUME NEW q \in Seq(Nat), NEW n \in Nat, q # <<>>, Len(q) <= n, Newest(q, n)
  PROVE  /\ Head(q) \in Nat /\ Head(q) = n - Len(q) + 1
         /\ Tail(q) \in Seq(Nat) /\ Len(Tail(q)) = Len(q) - 1 /\ Len(q) \in Nat \ {0}
         /\ Newest(Tail(q), n)
<1>1. Len(q) \in Nat \ {0}  OBVIOUS
<1>2. PICK r : r = Tail(q)  OBVIOUS
<1>3. Head(q) = q[1] /\ r \in Seq(Nat) /\ Len(r) = Len(q) - 1  BY <1>1, <1>2
<1>4. \A i \in 1 .. Len(r) : r[i] = q[i + 1]  BY <1>1, <1>2
<1>5. ASSUME NEW i \in 1 .. Len(r)  PROVE r[i] = n - Len(r) + i
  <2>1. i + 1 \in 1 .. Len(q)  BY <1>1, <1>3
  <2>2. r[i] = n - Len(q) + (i + 1)  BY <1>4, <2>1 DEF Newest
  <2> QED BY <1>1, <1>3, <2>2
<1>6. Head(q) = n - Len(q) + 1  BY <1>1, <1>3 DEF Newest
<1> QED BY <1>1, <1>2, <1>3, <1>5, <1>6 DEF Newest

-----------------------------------------------------------------------------
LEMMA InitInv == Init => IInv
<1> SUFFICES ASSUME Init  PROVE IInv
  OBVIOUS
<1> USE QueueAssumption DEF Init
<1>1. TypeOK  BY DEF TypeOK, Threads
<1>2. MutualExclusion  BY DEF MutualExclusion, Threads
<1>3. PopsAnElement  BY DEF PopsAnElement, Threads
<1>4. QueueBounded /\ HoldsNewest /\ Delivered  BY DEF QueueBounded, HoldsNewest, Delivered
<1> QED BY <1>1, <1>2, <1>3, <1>4 DEF IInv

\* A step that moves one thread and leaves the container alone keeps what is
\* said of the container.
LEMMA ContainerUntouched ==
  ASSUME IInv, UNCHANGED <<the_queue, enqueued, last>>
  PROVE  QueueBounded' /\ HoldsNewest' /\ Delivered'
BY DEF IInv, QueueBounded, HoldsNewest, Delivered

\* Taking the mutex, from any of the places where the code takes it.
LEMMA LockInv ==
  ASSUME IInv, NEW t \in Threads, NEW from, NEW to, Lock(t, from, to),
         from \notin {"store", "notify", "check", "pop", "clear"},
         \/ t \in Producers /\ to = "store"
         \/ t \in Consumers /\ to = "check"
         \/ t \in Clearers /\ to = "clear",
         t \notin the_cond_var
  PROVE  IInv'
<1> USE QueueAssumption DEF Lock
<1>1. TypeOK'  BY DEF IInv, TypeOK, Threads
<1>2. MutualExclusion'  BY DEF IInv, TypeOK, MutualExclusion, Threads
<1>3. PopsAnElement'  BY DEF IInv, TypeOK, PopsAnElement, Threads
<1> QED BY <1>1, <1>2, <1>3, ContainerUntouched DEF IInv

LEMMA NextInv == IInv /\ [Next]_vars => IInv'
<1> SUFFICES ASSUME IInv, [Next]_vars  PROVE IInv'
  OBVIOUS
<1> USE QueueAssumption
<1>1. TypeOK /\ MutualExclusion  BY DEF IInv
<1>2. ASSUME NEW p \in Producers, EnqueueLock(p)  PROVE IInv'
  <2>1. p \in Threads /\ p \notin the_cond_var  BY <1>1, <1>2 DEF TypeOK, Threads
  <2> QED BY <1>2, <2>1, LockInv DEF EnqueueLock
<1>3. ASSUME NEW p \in Producers, EnqueueStore(p)  PROVE IInv'
  <2> USE <1>3 DEF EnqueueStore
  <2> DEFINE s == IF Len(the_queue) >= MaxSize THEN Tail(the_queue) ELSE the_queue
  <2>1. /\ s \in Seq(Nat) /\ Newest(s, enqueued) /\ enqueued \in Nat
        /\ Len(s) < MaxSize /\ Len(s) <= Len(the_queue) /\ Len(the_queue) <= Len(s) + 1
    <3>1. the_queue \in Seq(Nat) /\ Newest(the_queue, enqueued) /\ enqueued \in Nat
      BY DEF IInv, TypeOK, HoldsNewest, Newest
    <3>2. Len(the_queue) <= MaxSize /\ Len(the_queue) <= enqueued /\ Len(the_queue) \in Nat
      BY <3>1 DEF IInv, QueueBounded, Delivered
    <3>3. CASE Len(the_queue) >= MaxSize
      <4>1. the_queue # <<>>  BY <3>1, <3>3
      <4> QED BY <3>1, <3>2, <3>3, <4>1, TailNewest
    <3>4. CASE ~(Len(the_queue) >= MaxSize)  BY <3>1, <3>2, <3>4
    <3> QED BY <3>3, <3>4
  <2>2. the_queue' = Append(s, enqueued + 1) /\ enqueued' = enqueued + 1
    OBVIOUS
  <2> HIDE DEF s
  <2>3. /\ the_queue' \in Seq(Nat) /\ Len(the_queue') = Len(s) + 1 /\ Len(s) \in Nat
        /\ Newest(the_queue', enqueued')
    <3>1. /\ Append(s, enqueued + 1) \in Seq(Nat)
          /\ Len(Append(s, enqueued + 1)) = Len(s) + 1
          /\ Newest(Append(s, enqueued + 1), enqueued + 1)
      BY <2>1, AppendNewest
    <3>2. Len(s) \in Nat  BY <2>1
    <3> QED BY <2>2, <3>1, <3>2
  <2>4. TypeOK'  BY <1>1, <2>3 DEF TypeOK, Threads
  <2>5. MutualExclusion'  BY <1>1 DEF TypeOK, MutualExclusion, Threads
  <2>6. PopsAnElement'
    <3>1. the_queue' # <<>>  BY <2>3
    <3> QED BY <3>1 DEF PopsAnElement
  <2>7. QueueBounded'  BY <2>1, <2>3 DEF QueueBounded
  <2>8. HoldsNewest'  BY <2>3 DEF HoldsNewest, Newest
  <2>9. Delivered'
    <3>1. Len(the_queue) \in Nat /\ last \in Nat /\ last <= enqueued - Len(the_queue)
          /\ Len(the_queue) <= enqueued
      BY DEF IInv, TypeOK, Delivered
    <3> QED BY <2>1, <2>2, <2>3, <3>1 DEF Delivered
  <2> QED BY <2>4, <2>5, <2>6, <2>7, <2>8, <2>9 DEF IInv
<1>4. ASSUME NEW p \in Producers, EnqueueNotify(p)  PROVE IInv'
  <2> USE <1>4 DEF EnqueueNotify, Unlock
  <2>1. TypeOK'  BY <1>1 DEF TypeOK, Threads
  <2>2. MutualExclusion'  BY <1>1 DEF TypeOK, MutualExclusion, Threads
  <2>3. PopsAnElement'  BY <1>1 DEF IInv, TypeOK, PopsAnElement, Threads
  <2> QED BY <2>1, <2>2, <2>3, ContainerUntouched DEF IInv
<1>5. ASSUME NEW c \in Consumers, DequeueLock(c)  PROVE IInv'
  <2>1. c \in Threads /\ c \notin the_cond_var
    BY <1>1, <1>5 DEF TypeOK, Threads, DequeueLock, Lock
  <2> QED BY <1>5, <2>1, LockInv DEF DequeueLock
<1>6. ASSUME NEW c \in Consumers, DequeueWait(c)  PROVE IInv'
  <2> USE <1>6 DEF DequeueWait, Unlock
  <2>1. TypeOK'  BY <1>1 DEF TypeOK, Threads
  <2>2. MutualExclusion'  BY <1>1 DEF TypeOK, MutualExclusion, Threads
  <2>3. PopsAnElement'  BY <1>1 DEF IInv, TypeOK, PopsAnElement, Threads
  <2> QED BY <2>1, <2>2, <2>3, ContainerUntouched DEF IInv
<1>7. ASSUME NEW c \in Consumers, SpuriousWakeup(c)  PROVE IInv'
  <2> USE <1>7 DEF SpuriousWakeup
  <2>1. TypeOK'  BY <1>1 DEF TypeOK, Threads
  <2>2. MutualExclusion' /\ PopsAnElement'  BY DEF IInv, MutualExclusion, PopsAnElement
  <2> QED BY <2>1, <2>2, ContainerUntouched DEF IInv
<1>8. ASSUME NEW c \in Consumers, DequeueRelock(c)  PROVE IInv'
  <2>1. c \in Threads  BY DEF Threads
  <2> QED BY <1>8, <2>1, LockInv DEF DequeueRelock
<1>9. ASSUME NEW c \in Consumers, DequeueCheck(c)  PROVE IInv'
  <2> USE <1>9 DEF DequeueCheck
  <2>1. TypeOK'  BY <1>1 DEF TypeOK, Threads
  <2>2. MutualExclusion'  BY <1>1 DEF TypeOK, MutualExclusion, Threads
  <2>3. PopsAnElement'  BY DEF PopsAnElement
  <2> QED BY <2>1, <2>2, <2>3, ContainerUntouched DEF IInv
<1>10. ASSUME NEW c \in Consumers, DequeuePop(c)  PROVE IInv'
  <2> USE <1>10 DEF DequeuePop, Unlock
  <2>1. /\ the_queue \in Seq(Nat) /\ Newest(the_queue, enqueued) /\ enqueued \in Nat
        /\ the_queue # <<>> /\ Len(the_queue) <= enqueued
    BY DEF IInv, TypeOK, PopsAnElement, HoldsNewest, Newest, Delivered
  <2>2. /\ last' \in Nat /\ last' = enqueued - Len(the_queue) + 1
        /\ the_queue' \in Seq(Nat) /\ Len(the_queue') = Len(the_queue) - 1
        /\ Len(the_queue) \in Nat \ {0}
        /\ Newest(the_queue', enqueued)
    BY <2>1, TailNewest
  <2>3. TypeOK'  BY <1>1, <2>2 DEF TypeOK, Threads
  <2>4. MutualExclusion'  BY <1>1 DEF TypeOK, MutualExclusion, Threads
  <2>5. PopsAnElement'
    <3>1. \A d \in Consumers : pc'[d] # "pop"
      BY <1>1 DEF TypeOK, MutualExclusion, Threads
    <3> QED BY <3>1 DEF PopsAnElement
  <2>6. QueueBounded' /\ HoldsNewest' /\ Delivered'
    BY <2>1, <2>2 DEF IInv, QueueBounded, HoldsNewest, Newest, Delivered
  <2> QED BY <2>3, <2>4, <2>5, <2>6 DEF IInv
<1>11. ASSUME NEW k \in Clearers, ClearLock(k)  PROVE IInv'
  <2>1. k \in Threads /\ k \notin the_cond_var  BY <1>1 DEF TypeOK, Threads
  <2> QED BY <1>11, <2>1, LockInv DEF ClearLock
<1>12. ASSUME NEW k \in Clearers, ClearPop(k)  PROVE IInv'
  <2> USE <1>12 DEF ClearPop, Unlock
  <2>1. TypeOK'  BY <1>1 DEF TypeOK, Threads
  <2>2. MutualExclusion'  BY <1>1 DEF TypeOK, MutualExclusion, Threads
  <2>3. PopsAnElement'
    <3>1. \A d \in Consumers : pc'[d] # "pop"
      BY <1>1 DEF TypeOK, MutualExclusion, Threads
    <3> QED BY <3>1 DEF PopsAnElement
  <2>4. /\ the_queue \in Seq(Nat) /\ enqueued \in Nat /\ last \in Nat
        /\ last <= enqueued - Len(the_queue) /\ Len(the_queue) <= enqueued
    BY DEF IInv, TypeOK, Delivered
  <2>5. QueueBounded' /\ HoldsNewest' /\ Delivered'
    BY <2>4 DEF QueueBounded, HoldsNewest, Delivered
  <2> QED BY <2>1, <2>2, <2>3, <2>5 DEF IInv
<1>13. CASE UNCHANGED vars
  BY <1>13 DEF vars, IInv, TypeOK, MutualExclusion, PopsAnElement, QueueBounded, HoldsNewest, Delivered
<1> QED
  BY <1>2, <1>3, <1>4, <1>5, <1>6, <1>7, <1>8, <1>9, <1>10, <1>11, <1>12, <1>13
  DEF Next, Enqueue, Dequeue, Clear

LEMMA Inductive == Spec => []IInv
BY InitInv, NextInv, PTL DEF Spec

-----------------------------------------------------------------------------
\* Each thread runs the code of its role, and the wait set holds only threads
\* inside wait().  (the whole of queue.hpp)
THEOREM TypeCorrect == Spec => []TypeOK
BY Inductive, PTL DEF IInv

\* enqueue never lets the container outgrow max_size, at whatever capacity the
\* device constructs it with.  (queue.hpp, enqueue)
THEOREM Bounded == Spec => []QueueBounded
BY Inductive, PTL DEF IInv

\* The container holds the newest elements without a gap: a slow reader loses
\* the oldest scans and no other.  (queue.hpp, enqueue and dequeue)
THEOREM NewestKept == Spec => []HoldsNewest
BY Inductive, PTL DEF IInv

\* Between the emptiness test of dequeue and front() nobody empties the
\* container, although clear() runs in another thread.  (queue.hpp, dequeue)
THEOREM NeverPopsEmpty == Spec => []PopsAnElement
BY Inductive, PTL DEF IInv

\* Every dequeue returns a newer element than all those before it, whichever
\* threads call it.  (queue.hpp, dequeue)
THEOREM InOrder == Spec => DeliversInOrder
<1>1. ASSUME IInv, [Next]_vars  PROVE [last' > last]_last
  <2>1. ASSUME NEW c \in Consumers, DequeuePop(c)  PROVE last' > last
    <3>1. /\ the_queue \in Seq(Nat) /\ Newest(the_queue, enqueued) /\ enqueued \in Nat
          /\ the_queue # <<>> /\ Len(the_queue) <= enqueued
          /\ last \in Nat /\ last <= enqueued - Len(the_queue)
      BY <1>1, <2>1 DEF IInv, TypeOK, PopsAnElement, HoldsNewest, Newest, Delivered, DequeuePop
    <3>2. last' = enqueued - Len(the_queue) + 1 /\ Len(the_queue) \in Nat
      BY <2>1, <3>1, TailNewest DEF DequeuePop
    <3> QED BY <3>1, <3>2
  <2>2. ASSUME ~ \E c \in Consumers : DequeuePop(c)  PROVE last' = last
    BY <1>1, <2>2 DEF Next, vars, Enqueue, Dequeue, Clear, EnqueueLock, EnqueueStore,
      EnqueueNotify, DequeueLock, DequeueWait, SpuriousWakeup, DequeueRelock, DequeueCheck,
      ClearLock, ClearPop, Lock, Unlock
  <2> QED BY <2>1, <2>2
<1> QED BY <1>1, Inductive, PTL DEF Spec, DeliversInOrder

-----------------------------------------------------------------------------
\* The queue implements the sliding window: locking, waiting and notifying are
\* stuttering steps, storing a scan is a Put, taking one a Take, clear a Clear.
THEOREM ImplementsWindow == Spec => WindowSpec
<1>1. ASSUME Init  PROVE Window!Init
  <2>1. Len(the_queue) = 0 /\ enqueued = 0 /\ last = 0  BY <1>1 DEF Init
  <2> QED BY <2>1 DEF Window!Init
<1>2. ASSUME IInv, [Next]_vars  PROVE [Window!Next]_(Window!window)
  <2> USE <1>2
  <2>1. /\ the_queue \in Seq(Nat) /\ enqueued \in Nat /\ Len(the_queue) \in Nat
        /\ Newest(the_queue, enqueued) /\ Len(the_queue) <= enqueued
        /\ Len(the_queue) <= MaxSize /\ MaxSize \in Nat \ {0}
    <3>1. the_queue \in Seq(Nat) /\ enqueued \in Nat /\ Newest(the_queue, enqueued)
      BY DEF IInv, TypeOK, HoldsNewest, Newest
    <3> QED BY <3>1, QueueAssumption DEF IInv, Delivered, QueueBounded
  <2>2. ASSUME NEW p \in Producers, EnqueueStore(p)  PROVE Window!Put
    <3>1. enqueued' = enqueued + 1 /\ last' = last  BY <2>2 DEF EnqueueStore
    <3>2. CASE Len(the_queue) >= MaxSize
      <4>1. the_queue # <<>>  BY <2>1, <3>2
      <4>2. Tail(the_queue) \in Seq(Nat) /\ Len(Tail(the_queue)) = Len(the_queue) - 1
            /\ Newest(Tail(the_queue), enqueued)
        BY <2>1, <4>1, TailNewest
      <4>3. the_queue' = Append(Tail(the_queue), enqueued + 1)
        BY <2>2, <3>2 DEF EnqueueStore
      <4>4. Len(the_queue') = Len(the_queue)  BY <2>1, <4>2, <4>3, AppendNewest
      <4>5. enqueued - (enqueued - Len(the_queue)) >= MaxSize  BY <2>1, <3>2
      <4> QED BY <2>1, <3>1, <4>4, <4>5 DEF Window!Put
    <3>3. CASE ~(Len(the_queue) >= MaxSize)
      <4>1. the_queue' = Append(the_queue, enqueued + 1)
        BY <2>2, <3>3 DEF EnqueueStore
      <4>2. Len(the_queue') = Len(the_queue) + 1  BY <2>1, <4>1, AppendNewest
      <4>3. ~(enqueued - (enqueued - Len(the_queue)) >= MaxSize)  BY <2>1, <3>3
      <4> QED BY <2>1, <3>1, <4>2, <4>3 DEF Window!Put
    <3> QED BY <3>2, <3>3
  <2>3. ASSUME NEW c \in Consumers, DequeuePop(c)  PROVE Window!Take
    <3>1. the_queue # <<>>  BY <2>3 DEF IInv, PopsAnElement, DequeuePop
    <3>2. last' = enqueued - Len(the_queue) + 1 /\ Len(the_queue') = Len(the_queue) - 1
          /\ Len(the_queue) \in Nat \ {0} /\ enqueued' = enqueued
      BY <2>1, <2>3, <3>1, TailNewest DEF DequeuePop
    <3> QED BY <2>1, <3>2 DEF Window!Take
  <2>4. ASSUME NEW k \in Clearers, ClearPop(k)  PROVE Window!Clear
    BY <2>1, <2>4 DEF ClearPop, Window!Clear
  <2>5. ASSUME ~ \E p \in Producers : EnqueueStore(p), ~ \E c \in Consumers : DequeuePop(c),
               ~ \E k \in Clearers : ClearPop(k)
        PROVE  UNCHANGED Window!window
    <3>1. UNCHANGED <<the_queue, enqueued, last>>
      BY <2>5 DEF Next, vars, Enqueue, Dequeue, Clear, EnqueueLock,
        EnqueueNotify, DequeueLock, DequeueWait, SpuriousWakeup, DequeueRelock, DequeueCheck,
        ClearLock, Lock, Unlock
    <3> QED BY <3>1 DEF Window!window
  <2> QED BY <2>2, <2>3, <2>4, <2>5 DEF Window!Next
<1> QED BY <1>1, <1>2, Inductive, PTL DEF Spec, WindowSpec, Window!Spec

-----------------------------------------------------------------------------
\* The threads that will still look at the queue or wake a sleeper.
LEMMA CreditsFinite ==
  ASSUME TypeOK
  PROVE  /\ IsFiniteSet(Awake) /\ IsFiniteSet(Notifying)
         /\ Cardinality(Awake) \in Nat /\ Cardinality(Notifying) \in Nat
<1>1. Awake \in SUBSET Consumers /\ Notifying \in SUBSET Producers  BY DEF Awake, Notifying
<1>2. IsFiniteSet(Awake) /\ IsFiniteSet(Notifying)  BY <1>1, QueueAssumption, FS_Subset
<1> QED BY <1>2, FS_CardinalityType

\* While a reader sleeps, every element in the queue has a thread under way
\* that will take it or wake a sleeper for it: notify_one under the mutex loses
\* no wakeup, for any number of readers.  (queue.hpp, enqueue and dequeue)
THEOREM WakeupsKept == Spec => []NoLostWakeup
<1>1. Init => NoLostWakeup
  BY DEF Init, NoLostWakeup
<1>2. ASSUME IInv, IInv', NoLostWakeup, [Next]_vars, the_cond_var' # {}
      PROVE  Len(the_queue') <= Cardinality(Awake') + Cardinality(Notifying')
  <2>1. /\ TypeOK /\ TypeOK' /\ MutualExclusion
        /\ the_queue \in Seq(Nat) /\ Len(the_queue) \in Nat /\ Len(the_queue') \in Nat
        /\ enqueued \in Nat /\ MaxSize \in Nat \ {0}
    BY <1>2, QueueAssumption DEF IInv, TypeOK
  <2>2. /\ IsFiniteSet(Awake) /\ IsFiniteSet(Notifying)
        /\ Cardinality(Awake) \in Nat /\ Cardinality(Notifying) \in Nat
    BY <2>1, CreditsFinite
  <2>3. /\ IsFiniteSet(Awake') /\ IsFiniteSet(Notifying')
        /\ Cardinality(Awake') \in Nat /\ Cardinality(Notifying') \in Nat
    <3>1. Awake' \in SUBSET Consumers /\ Notifying' \in SUBSET Producers
      BY DEF Awake, Notifying
    <3>2. IsFiniteSet(Awake') /\ IsFiniteSet(Notifying')  BY <3>1, QueueAssumption, FS_Subset
    <3> QED BY <3>2, FS_CardinalityType
  <2>4. the_cond_var # {} => Len(the_queue) <= Cardinality(Awake) + Cardinality(Notifying)
    BY <1>2 DEF NoLostWakeup
  <2>5. ASSUME NEW p \in Producers, EnqueueStore(p)
        PROVE  Len(the_queue') <= Cardinality(Awake') + Cardinality(Notifying')
    <3>1. Awake' = Awake /\ Notifying' = Notifying \cup {p} /\ p \notin Notifying
      BY <2>1, <2>5, QueueAssumption DEF TypeOK, Threads, Awake, Notifying, EnqueueStore
    <3>2. Cardinality(Notifying') = Cardinality(Notifying) + 1
      BY <2>2, <3>1, FS_AddElement
    <3>3. Len(the_queue') <= Len(the_queue) + 1
      <4>1. CASE Len(the_queue) >= MaxSize
        <5>1. the_queue # <<>>  BY <2>1, <4>1
        <5>2. Tail(the_queue) \in Seq(Nat) /\ Len(Tail(the_queue)) = Len(the_queue) - 1
          BY <2>1, <5>1
        <5> QED BY <2>1, <2>5, <4>1, <5>2 DEF EnqueueStore
      <4>2. CASE ~(Len(the_queue) >= MaxSize)  BY <2>1, <2>5, <4>2 DEF EnqueueStore
      <4> QED BY <4>1, <4>2
    <3>4. the_cond_var # {}  BY <1>2, <2>5 DEF EnqueueStore
    <3> QED BY <2>1, <2>2, <2>4, <3>1, <3>2, <3>3, <3>4
  <2>6. ASSUME NEW p \in Producers, EnqueueNotify(p)
        PROVE  Len(the_queue') <= Cardinality(Awake') + Cardinality(Notifying')
    <3>1. PICK c \in the_cond_var : the_cond_var' = the_cond_var \ {c}
      BY <1>2, <2>6 DEF EnqueueNotify
    <3>2. Awake' = Awake \cup {c} /\ c \notin Awake
      BY <2>1, <2>6, <3>1, QueueAssumption DEF TypeOK, Threads, Awake, EnqueueNotify, Unlock
    <3>3. Notifying' = Notifying \ {p} /\ p \in Notifying
      BY <2>1, <2>6, QueueAssumption DEF TypeOK, Threads, Notifying, EnqueueNotify, Unlock
    <3>4. Cardinality(Awake') = Cardinality(Awake) + 1  BY <2>2, <3>2, FS_AddElement
    <3>5. Cardinality(Notifying') = Cardinality(Notifying) - 1
      BY <2>2, <3>3, FS_RemoveElement
    <3>6. the_queue' = the_queue  BY <2>6 DEF EnqueueNotify
    <3> QED BY <2>1, <2>2, <2>4, <3>1, <3>4, <3>5, <3>6
  <2>7. ASSUME NEW c \in Consumers, DequeueWait(c)
        PROVE  Len(the_queue') <= Cardinality(Awake') + Cardinality(Notifying')
    <3>1. Len(the_queue') = 0  BY <2>7 DEF DequeueWait
    <3> QED BY <2>3, <3>1
  <2>8. ASSUME NEW c \in Consumers, SpuriousWakeup(c) \/ DequeueLock(c)
        PROVE  Len(the_queue') <= Cardinality(Awake') + Cardinality(Notifying')
    <3>1. Awake' = Awake \cup {c}
      BY <2>1, <2>8, QueueAssumption
      DEF TypeOK, Threads, Awake, SpuriousWakeup, DequeueLock, Lock
    <3>2. Notifying' = Notifying
      BY <2>1, <2>8, QueueAssumption
      DEF TypeOK, Threads, Notifying, SpuriousWakeup, DequeueLock, Lock
    <3>3. Cardinality(Awake') >= Cardinality(Awake)
      <4>1. Awake \in SUBSET Awake'  BY <3>1
      <4> QED BY <2>2, <2>3, <4>1, FS_Subset
    <3>4. the_cond_var # {} /\ the_queue' = the_queue
      BY <1>2, <2>8 DEF SpuriousWakeup, DequeueLock, Lock
    <3> QED BY <2>1, <2>2, <2>3, <2>4, <3>2, <3>3, <3>4
  <2>9. ASSUME NEW c \in Consumers, DequeuePop(c)
        PROVE  Len(the_queue') <= Cardinality(Awake') + Cardinality(Notifying')
    <3>1. Awake' = Awake \ {c} /\ c \in Awake
      BY <2>1, <2>9, QueueAssumption DEF TypeOK, Threads, Awake, DequeuePop, Unlock
    <3>2. Notifying' = Notifying
      BY <2>1, <2>9, QueueAssumption DEF TypeOK, Threads, Notifying, DequeuePop, Unlock
    <3>3. Cardinality(Awake') = Cardinality(Awake) - 1  BY <2>2, <3>1, FS_RemoveElement
    <3>4. the_queue # <<>> /\ the_queue' = Tail(the_queue) /\ the_cond_var # {}
      BY <1>2, <2>9 DEF IInv, PopsAnElement, DequeuePop
    <3>5. Len(the_queue') = Len(the_queue) - 1  BY <2>1, <3>4
    <3> QED BY <2>1, <2>2, <2>4, <3>2, <3>3, <3>4, <3>5
  <2>10. ASSUME NEW k \in Clearers, ClearPop(k)
         PROVE  Len(the_queue') <= Cardinality(Awake') + Cardinality(Notifying')
    <3>1. Len(the_queue') = 0  BY <2>10 DEF ClearPop
    <3> QED BY <2>3, <3>1
  <2>11. ASSUME UNCHANGED <<Awake, Notifying, the_cond_var, the_queue>>
         PROVE  Len(the_queue') <= Cardinality(Awake') + Cardinality(Notifying')
    BY <1>2, <2>4, <2>11
  <2>12. ASSUME NEW p \in Producers, EnqueueLock(p)
         PROVE  UNCHANGED <<Awake, Notifying, the_cond_var, the_queue>>
    BY <2>1, <2>12, QueueAssumption DEF TypeOK, Threads, Awake, Notifying, EnqueueLock, Lock
  <2>13. ASSUME NEW k \in Clearers, ClearLock(k)
         PROVE  UNCHANGED <<Awake, Notifying, the_cond_var, the_queue>>
    BY <2>1, <2>13, QueueAssumption DEF TypeOK, Threads, Awake, Notifying, ClearLock, Lock
  <2>14. ASSUME NEW c \in Consumers, DequeueRelock(c) \/ DequeueCheck(c)
         PROVE  UNCHANGED <<Awake, Notifying, the_cond_var, the_queue>>
    BY <2>1, <2>14, QueueAssumption
    DEF TypeOK, Threads, Awake, Notifying, DequeueRelock, DequeueCheck, Lock
  <2>15. CASE UNCHANGED vars
    <3>1. UNCHANGED <<Awake, Notifying, the_cond_var, the_queue>>
      BY <2>15 DEF vars, Awake, Notifying
    <3> QED BY <2>11, <3>1
  <2> QED
    BY <1>2, <2>5, <2>6, <2>7, <2>8, <2>9, <2>10, <2>11, <2>12, <2>13, <2>14, <2>15
    DEF Next, Enqueue, Dequeue, Clear
<1>3. IInv /\ IInv' /\ NoLostWakeup /\ [Next]_vars => NoLostWakeup'
  BY <1>2 DEF NoLostWakeup
<1> QED BY <1>1, <1>3, Inductive, PTL DEF Spec
=============================================================================
