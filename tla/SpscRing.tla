------------------------------ MODULE SpscRing ------------------------------
(***************************************************************************)
(* The sample queue (core/spsc_ring_queue.hpp): a ring of slots with one   *)
(* producer and one consumer, a fast path without a lock, and a slow path  *)
(* that parks on a mutex and a condition variable.                         *)
(*                                                                         *)
(* A step is one access to something both threads can see: an atomic, a    *)
(* slot, the mutex or a condition variable.  Steps are sequentially        *)
(* consistent: the accesses of the wake-up handshake are so in the code,   *)
(* and every other atomic is written by one thread and read with acquire,  *)
(* where an older value only makes the ring look fuller or emptier.        *)
(*                                                                         *)
(* The n-th push carries the item n.                                       *)
(***************************************************************************)
EXTENDS Integers, Sequences

CONSTANTS
    Capacity,        \* capacity_
    RingSize,        \* mask_ + 1
    IndexModulus,    \* head_ and tail_ count modulo this (2^64 in the code)
    SpinTries,       \* kSpinTries
    MaxItems         \* bound: calls of push

ASSUME SpscAssumption ==
    /\ Capacity \in Nat \ {0}
    /\ SpinTries \in Nat \ {0}
    /\ MaxItems \in Nat
    /\ IndexModulus \in Nat /\ Capacity < IndexModulus
    /\ RingSize \in Nat /\ Capacity <= RingSize /\ IndexModulus % RingSize = 0

VARIABLES
    drop_newest,               \* policy_ is kDropNewest (it never changes)
    head, tail,                \* next slot to fill, next slot to empty
    cached_tail, cached_head,  \* the producer's copy of tail, the consumer's of head
    slots,
    producer_waiting, consumer_waiting,
    closed, dropped,
    mutex,                     \* who holds mutex_
    producer, consumer, closer,
    item,                      \* calls of push so far, and the item of the last one
    received,                  \* history: the items popped, oldest first
    ended                      \* pop() has returned nullopt

shared  == <<head, tail, cached_tail, cached_head, slots>>
handshake == <<producer_waiting, consumer_waiting, mutex>>
counters  == <<closed, dropped, item, received, ended>>
vars == <<drop_newest, shared, handshake, counters, producer, consumer, closer>>

None == "none"

\* A slot that holds no item.
Empty == 0

SlotRoundedDown(index) == index % (RingSize \div 2)

Slot(index) == index % RingSize

Distance(ahead, behind) == (ahead - behind) % IndexModulus

Following(index) == (index + 1) % IndexModulus

has_space_inclusive == Distance(head, tail) <= Capacity

has_space == Distance(head, tail) < Capacity

has_item == head # tail

\* A thread is [pc, mode, spins]: mode tells from where try_push or try_pop was
\* called (the fast path, the spin loop, or under the lock).
At(thread, pc) == [thread EXCEPT !.pc = pc]

PushPcs == {"idle", "check", "fill", "publish", "spin", "lock", "flag",
            "testClosed", "testSpace", "sleep", "asleep", "woken", "unflag", "recheck",
            "unlock", "wake", "wakeLock", "notify"}

PopPcs == {"idle", "check", "take", "publish", "lock", "readClosed", "flag",
           "testClosed", "testItem", "sleep", "asleep", "woken", "unflag", "unlock",
           "wake", "wakeLock", "notify", "ended"}

Init ==
    /\ drop_newest \in BOOLEAN
    /\ head = 0 /\ tail = 0 /\ cached_tail = 0 /\ cached_head = 0
    /\ slots = [i \in 0..RingSize - 1 |-> Empty]
    /\ producer_waiting = FALSE /\ consumer_waiting = FALSE
    /\ closed = FALSE /\ dropped = 0 /\ mutex = None
    /\ producer = [pc |-> "idle", mode |-> "fast", spins |-> 0]
    /\ consumer = [pc |-> "idle", mode |-> "spin", spins |-> 0,
                   was_closed |-> FALSE, item |-> Empty]
    /\ closer = "idle"
    /\ item = 0 /\ received = <<>> /\ ended = FALSE

-----------------------------------------------------------------------------
(* The producer: push(), try_push(), push_blocking(), wake_consumer_if_waiting(). *)

PushCall ==
    /\ producer.pc = "idle"
    /\ item < MaxItems
    /\ item' = item + 1
    /\ producer' = IF closed THEN producer
                   ELSE [pc |-> "check", mode |-> "fast", spins |-> 0]
    /\ UNCHANGED <<drop_newest, shared, handshake, closed, dropped, received, ended, consumer, closer>>

\* What the caller of try_push does when the ring is full.
PushFull ==
    CASE producer.mode = "fast" /\ drop_newest -> At(producer, "idle")
      [] producer.mode = "fast" /\ ~drop_newest -> [producer EXCEPT !.pc = "spin", !.mode = "spin"]
      [] producer.mode = "spin" /\ producer.spins + 1 < SpinTries ->
             [producer EXCEPT !.pc = "spin", !.spins = @ + 1]
      [] producer.mode = "spin" /\ producer.spins + 1 >= SpinTries ->
             [producer EXCEPT !.pc = "lock", !.mode = "locked"]
      [] producer.mode = "locked" -> At(producer, "flag")

PushCheckUncounted ==
    /\ producer.pc = "check"
    /\ cached_tail' = IF Distance(head, cached_tail) >= Capacity THEN tail ELSE cached_tail
    /\ producer' = IF Distance(head, cached_tail) >= Capacity /\ ~has_space
                   THEN PushFull ELSE At(producer, "fill")
    /\ UNCHANGED <<drop_newest, head, tail, cached_head, slots, handshake, counters, consumer, closer>>

\* tail_ is read only when the cached copy says that the ring is full.
PushCheck ==
    /\ producer.pc = "check"
    /\ LET looksFull == Distance(head, cached_tail) >= Capacity
           full == looksFull /\ ~has_space
       IN  /\ cached_tail' = IF looksFull THEN tail ELSE cached_tail
           /\ producer' = IF full THEN PushFull ELSE At(producer, "fill")
           /\ dropped' = IF full /\ drop_newest THEN dropped + 1 ELSE dropped
    /\ UNCHANGED <<drop_newest, head, tail, cached_head, slots, handshake, closed, item, received, ended,
                   consumer, closer>>

PushFill ==
    /\ producer.pc = "fill"
    /\ slots' = [slots EXCEPT ![Slot(head)] = item]
    /\ producer' = At(producer, "publish")
    /\ UNCHANGED <<drop_newest, head, tail, cached_tail, cached_head, handshake, counters, consumer, closer>>

PushPublish ==
    /\ producer.pc = "publish"
    /\ head' = Following(head)
    /\ producer' = At(producer, IF producer.mode = "locked" THEN "unlock" ELSE "wake")
    /\ UNCHANGED <<drop_newest, tail, cached_tail, cached_head, slots, handshake, counters, consumer, closer>>

PushSpin ==
    /\ producer.pc = "spin"
    /\ producer' = At(producer, IF closed THEN "idle" ELSE "check")
    /\ UNCHANGED <<drop_newest, shared, handshake, counters, consumer, closer>>

PushLock ==
    /\ producer.pc = "lock"
    /\ mutex = None
    /\ mutex' = "producer"
    /\ producer' = At(producer, "flag")
    /\ UNCHANGED <<drop_newest, shared, producer_waiting, consumer_waiting, counters, consumer, closer>>

PushFlag ==
    /\ producer.pc = "flag"
    /\ producer_waiting' = TRUE
    /\ producer' = At(producer, "testClosed")
    /\ UNCHANGED <<drop_newest, shared, consumer_waiting, mutex, counters, consumer, closer>>

PushTestClosed ==
    /\ producer.pc = "testClosed"
    /\ producer' = At(producer, IF closed THEN "unflag" ELSE "testSpace")
    /\ UNCHANGED <<drop_newest, shared, handshake, counters, consumer, closer>>

PushTestSpace ==
    /\ producer.pc = "testSpace"
    /\ producer' = At(producer, IF has_space THEN "unflag" ELSE "sleep")
    /\ UNCHANGED <<drop_newest, shared, handshake, counters, consumer, closer>>

\* wait() releases the mutex and goes to sleep in one step.
PushSleep ==
    /\ producer.pc = "sleep"
    /\ mutex' = None
    /\ producer' = At(producer, "asleep")
    /\ UNCHANGED <<drop_newest, shared, producer_waiting, consumer_waiting, counters, consumer, closer>>

PushRelock ==
    /\ producer.pc = "woken"
    /\ mutex = None
    /\ mutex' = "producer"
    /\ producer' = At(producer, "testClosed")
    /\ UNCHANGED <<drop_newest, shared, producer_waiting, consumer_waiting, counters, consumer, closer>>

PushUnflag ==
    /\ producer.pc = "unflag"
    /\ producer_waiting' = FALSE
    /\ producer' = At(producer, "recheck")
    /\ UNCHANGED <<drop_newest, shared, consumer_waiting, mutex, counters, consumer, closer>>

PushRecheckForgets ==
    /\ producer.pc = "recheck"
    /\ producer' = At(producer, "idle")
    /\ mutex' = None
    /\ UNCHANGED <<drop_newest, shared, producer_waiting, consumer_waiting, counters, consumer, closer>>

PushRecheck ==
    /\ producer.pc = "recheck"
    /\ producer' = At(producer, IF closed THEN "idle" ELSE "check")
    /\ mutex' = IF closed THEN None ELSE mutex
    /\ UNCHANGED <<drop_newest, shared, producer_waiting, consumer_waiting, counters, consumer, closer>>

PushUnlock ==
    /\ producer.pc = "unlock"
    /\ mutex' = None
    /\ producer' = At(producer, "wake")
    /\ UNCHANGED <<drop_newest, shared, producer_waiting, consumer_waiting, counters, consumer, closer>>

PushWakeSkipped ==
    /\ producer.pc = "wake"
    /\ producer' = At(producer, "idle")
    /\ UNCHANGED <<drop_newest, shared, handshake, counters, consumer, closer>>

PushWake ==
    /\ producer.pc = "wake"
    /\ producer' = At(producer, IF consumer_waiting THEN "wakeLock" ELSE "idle")
    /\ UNCHANGED <<drop_newest, shared, handshake, counters, consumer, closer>>

PushWakeLockNotTaken ==
    /\ producer.pc = "wakeLock"
    /\ producer' = At(producer, "notify")
    /\ UNCHANGED <<drop_newest, shared, handshake, counters, consumer, closer>>

\* The lock is taken and released at once.
PushWakeLock ==
    /\ producer.pc = "wakeLock"
    /\ mutex = None
    /\ producer' = At(producer, "notify")
    /\ UNCHANGED <<drop_newest, shared, handshake, counters, consumer, closer>>

Woken(thread) == IF thread.pc = "asleep" THEN At(thread, "woken") ELSE thread

PushNotify ==
    /\ producer.pc = "notify"
    /\ consumer' = Woken(consumer)
    /\ producer' = At(producer, "idle")
    /\ UNCHANGED <<drop_newest, shared, handshake, counters, closer>>

ProducerStep ==
    \/ PushCheck \/ PushFill \/ PushPublish \/ PushSpin \/ PushLock \/ PushFlag
    \/ PushTestClosed \/ PushTestSpace \/ PushSleep \/ PushRelock \/ PushUnflag \/ PushRecheck
    \/ PushUnlock \/ PushWake \/ PushWakeLock \/ PushNotify

-----------------------------------------------------------------------------
(* The consumer: pop(), try_pop(), pop_blocking(), wake_producer_if_waiting(). *)

PopCall ==
    /\ consumer.pc = "idle"
    /\ consumer' = [consumer EXCEPT !.pc = "check", !.mode = "spin", !.spins = 0]
    /\ UNCHANGED <<drop_newest, shared, handshake, counters, producer, closer>>

\* What the caller of try_pop does when the ring is empty.
PopEmpty ==
    CASE consumer.mode = "spin" /\ consumer.spins + 1 < SpinTries ->
             [consumer EXCEPT !.spins = @ + 1]
      [] consumer.mode = "spin" /\ consumer.spins + 1 >= SpinTries ->
             [consumer EXCEPT !.pc = "lock", !.mode = "locked"]
      [] consumer.mode = "locked" /\ consumer.was_closed -> At(consumer, "ended")
      [] consumer.mode = "locked" /\ ~consumer.was_closed -> At(consumer, "flag")

\* head_ is read only when the cached copy says that the ring is empty.
PopCheck ==
    /\ consumer.pc = "check"
    /\ LET looksEmpty == tail = cached_head
           empty == looksEmpty /\ ~has_item
           gone == empty /\ consumer.mode = "locked" /\ consumer.was_closed
       IN  /\ cached_head' = IF looksEmpty THEN head ELSE cached_head
           /\ consumer' = IF empty THEN PopEmpty ELSE At(consumer, "take")
           /\ mutex' = IF gone THEN None ELSE mutex
           /\ ended' = (ended \/ gone)
    /\ UNCHANGED <<drop_newest, head, tail, cached_tail, slots, producer_waiting, consumer_waiting,
                   closed, dropped, item, received, producer, closer>>

\* The item is moved out and the slot reset before the producer may see it.
PopTake ==
    /\ consumer.pc = "take"
    /\ consumer' = [consumer EXCEPT !.pc = "publish", !.item = slots[Slot(tail)]]
    /\ slots' = [slots EXCEPT ![Slot(tail)] = Empty]
    /\ UNCHANGED <<drop_newest, head, tail, cached_tail, cached_head, handshake, counters, producer, closer>>

PopPublish ==
    /\ consumer.pc = "publish"
    /\ tail' = Following(tail)
    /\ received' = Append(received, consumer.item)
    /\ consumer' = [At(consumer, IF consumer.mode = "locked" THEN "unlock" ELSE "wake")
                       EXCEPT !.item = Empty]
    /\ UNCHANGED <<drop_newest, head, cached_tail, cached_head, slots, handshake, closed, dropped, item,
                   ended, producer, closer>>

PopLock ==
    /\ consumer.pc = "lock"
    /\ mutex = None
    /\ mutex' = "consumer"
    /\ consumer' = At(consumer, "readClosed")
    /\ UNCHANGED <<drop_newest, shared, producer_waiting, consumer_waiting, counters, producer, closer>>

PopReadClosed ==
    /\ consumer.pc = "readClosed"
    /\ consumer' = [consumer EXCEPT !.pc = "check", !.was_closed = closed]
    /\ UNCHANGED <<drop_newest, shared, handshake, counters, producer, closer>>

PopFlag ==
    /\ consumer.pc = "flag"
    /\ consumer_waiting' = TRUE
    /\ consumer' = At(consumer, "testClosed")
    /\ UNCHANGED <<drop_newest, shared, producer_waiting, mutex, counters, producer, closer>>

PopTestClosed ==
    /\ consumer.pc = "testClosed"
    /\ consumer' = At(consumer, IF closed THEN "unflag" ELSE "testItem")
    /\ UNCHANGED <<drop_newest, shared, handshake, counters, producer, closer>>

PopTestItem ==
    /\ consumer.pc = "testItem"
    /\ consumer' = At(consumer, IF has_item THEN "unflag" ELSE "sleep")
    /\ UNCHANGED <<drop_newest, shared, handshake, counters, producer, closer>>

PopSleep ==
    /\ consumer.pc = "sleep"
    /\ mutex' = None
    /\ consumer' = At(consumer, "asleep")
    /\ UNCHANGED <<drop_newest, shared, producer_waiting, consumer_waiting, counters, producer, closer>>

PopRelock ==
    /\ consumer.pc = "woken"
    /\ mutex = None
    /\ mutex' = "consumer"
    /\ consumer' = At(consumer, "testClosed")
    /\ UNCHANGED <<drop_newest, shared, producer_waiting, consumer_waiting, counters, producer, closer>>

PopUnflagEnds ==
    /\ consumer.pc = "unflag"
    /\ consumer_waiting' = FALSE
    /\ consumer' = At(consumer, IF closed THEN "ended" ELSE "readClosed")
    /\ mutex' = IF closed THEN None ELSE mutex
    /\ ended' = (ended \/ closed)
    /\ UNCHANGED <<drop_newest, shared, producer_waiting, closed, dropped, item, received, producer, closer>>

PopUnflag ==
    /\ consumer.pc = "unflag"
    /\ consumer_waiting' = FALSE
    /\ consumer' = At(consumer, "readClosed")
    /\ UNCHANGED <<drop_newest, shared, producer_waiting, mutex, counters, producer, closer>>

PopUnlock ==
    /\ consumer.pc = "unlock"
    /\ mutex' = None
    /\ consumer' = At(consumer, "wake")
    /\ UNCHANGED <<drop_newest, shared, producer_waiting, consumer_waiting, counters, producer, closer>>

PopWake ==
    /\ consumer.pc = "wake"
    /\ consumer' = At(consumer, IF producer_waiting THEN "wakeLock" ELSE "idle")
    /\ UNCHANGED <<drop_newest, shared, handshake, counters, producer, closer>>

PopWakeLock ==
    /\ consumer.pc = "wakeLock"
    /\ mutex = None
    /\ consumer' = At(consumer, "notify")
    /\ UNCHANGED <<drop_newest, shared, handshake, counters, producer, closer>>

PopNotify ==
    /\ consumer.pc = "notify"
    /\ producer' = Woken(producer)
    /\ consumer' = At(consumer, "idle")
    /\ UNCHANGED <<drop_newest, shared, handshake, counters, closer>>

ConsumerStep ==
    \/ PopCheck \/ PopTake \/ PopPublish \/ PopLock \/ PopReadClosed \/ PopFlag
    \/ PopTestClosed \/ PopTestItem \/ PopSleep \/ PopRelock \/ PopUnflag \/ PopUnlock
    \/ PopWake \/ PopWakeLock \/ PopNotify

-----------------------------------------------------------------------------
(* close(), from any thread. *)

CloseCall ==
    /\ closer = "idle"
    /\ closed' = TRUE
    /\ closer' = "lock"
    /\ UNCHANGED <<drop_newest, shared, handshake, dropped, item, received, ended, producer, consumer>>

CloseLock ==
    /\ closer = "lock"
    /\ mutex = None
    /\ closer' = "notify"
    /\ UNCHANGED <<drop_newest, shared, handshake, counters, producer, consumer>>

CloseNotify ==
    /\ closer = "notify"
    /\ consumer' = Woken(consumer)
    /\ producer' = Woken(producer)
    /\ closer' = "done"
    /\ UNCHANGED <<drop_newest, shared, handshake, counters>>

CloserStep == CloseLock \/ CloseNotify

\* A condition variable may wake a sleeper for no reason.
SpuriousWake ==
    /\ "asleep" \in {producer.pc, consumer.pc}
    /\ \/ /\ producer.pc = "asleep"
          /\ producer' = At(producer, "woken")
          /\ UNCHANGED consumer
       \/ /\ consumer.pc = "asleep"
          /\ consumer' = At(consumer, "woken")
          /\ UNCHANGED producer
    /\ UNCHANGED <<drop_newest, shared, handshake, counters, closer>>

\* Every push was made, the queue is closed and the consumer was told.
Terminated ==
    /\ producer.pc = "idle" /\ item = MaxItems
    /\ consumer.pc = "ended" /\ closer = "done"
    /\ UNCHANGED vars

Next ==
    \/ PushCall \/ ProducerStep
    \/ PopCall \/ ConsumerStep
    \/ CloseCall \/ CloserStep
    \/ SpuriousWake \/ Terminated

Spec == Init /\ [][Next]_vars

\* The threads run, and a thread that waits for the mutex gets it in the end
\* although a sleeper may wake and lock it again and again; the worker keeps
\* popping; nobody has to push or to close.
Fairness ==
    /\ SF_vars(ProducerStep) /\ SF_vars(ConsumerStep)
    /\ SF_vars(CloserStep) /\ WF_vars(PopCall)

FairSpec == Spec /\ Fairness

-----------------------------------------------------------------------------
(* Properties. *)

TypeOK ==
    /\ {head, tail, cached_tail, cached_head} \subseteq 0..IndexModulus - 1
    /\ slots \in [0..RingSize - 1 -> 0..MaxItems]
    /\ {drop_newest, producer_waiting, consumer_waiting, closed, ended} \subseteq BOOLEAN
    /\ dropped \in 0..MaxItems /\ item \in 0..MaxItems
    /\ mutex \in {None, "producer", "consumer"}
    /\ producer \in [pc : PushPcs, mode : {"fast", "spin", "locked"}, spins : 0..SpinTries]
    /\ consumer \in [pc : PopPcs, mode : {"spin", "locked"}, spins : 0..SpinTries,
                     was_closed : BOOLEAN, item : 0..MaxItems]
    /\ closer \in {"idle", "lock", "notify", "done"}
    /\ received \in Seq(1..MaxItems)

\* The items in the ring, oldest first.  The one the consumer has moved out is
\* in the queue until the consumer publishes the new tail.
Contents ==
    [i \in 1..Distance(head, tail) |->
        IF i = 1 /\ consumer.pc = "publish" THEN consumer.item ELSE slots[Slot(tail + i - 1)]]

\* The producer fills only an empty slot and the consumer takes only from a full
\* one, so the two never touch the same slot at the same time, although neither
\* holds a lock and each may rely on an old copy of the other's index.
SlotsNotShared ==
    /\ producer.pc = "fill" => slots[Slot(head)] = Empty
    /\ consumer.pc = "take" => slots[Slot(tail)] # Empty
    /\ producer.pc = "fill" /\ consumer.pc = "take" => Slot(head) # Slot(tail)

\* Whoever sleeps in wait() while its predicate holds has a notification on the
\* way: the other side has stored its index and not yet passed its wake-up, or
\* close() has not yet notified.
NoLostWakeup ==
    /\ consumer.pc = "asleep" /\ has_item =>
           /\ consumer_waiting
           /\ producer.pc \in {"unlock", "wake", "wakeLock", "notify"}
    /\ producer.pc = "asleep" /\ has_space =>
           /\ producer_waiting
           /\ consumer.pc \in {"unlock", "wake", "wakeLock", "notify"}
    /\ "asleep" \in {producer.pc, consumer.pc} /\ closed => closer \in {"lock", "notify"}

\* Every push() that returned is accounted for: its item was popped, is in the
\* ring, or was counted by dropped_count().
NothingUncounted ==
    producer.pc = "idle" /\ ~closed =>
        item = Len(received) + Distance(head, tail) + dropped

Fifo == INSTANCE BoundedFifo WITH
    Items <- 1..MaxItems, LatePush <- TRUE, queue <- Contents

\* The ring is a bounded first-in first-out channel: items leave once and in
\* order, no more than capacity_ are inside, and nullopt is returned only when the
\* queue is closed and empty.  An item whose push() was under way may still enter
\* after the close, as the header says.
ImplementsFifo == Fifo!Spec

\* Neither side waits for the other for ever: a push() returns, since the consumer
\* makes room and wakes the producer; an item in the ring is popped, unless the
\* consumer was told of the end first; and after close() the consumer drains the
\* ring and is told of the end.
BothSidesProgress ==
    /\ producer.pc # "idle" ~> producer.pc = "idle"
    /\ \A n \in 1..MaxItems :
           (\E i \in DOMAIN Contents : Contents[i] = n)
               ~> (ended \/ \E i \in DOMAIN received : received[i] = n)
    /\ closed ~> ended
=============================================================================
