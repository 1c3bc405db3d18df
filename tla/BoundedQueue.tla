---------------------------- MODULE BoundedQueue ----------------------------
(***************************************************************************)
(* The blocking queue (core/queue.hpp): a deque under one mutex with a     *)
(* condition variable for each direction.  It carries the controller's     *)
(* inbox, the worker's jobs and the jobs of the fit pool.                  *)
(*                                                                         *)
(* A step is one critical section, from taking the mutex to releasing it   *)
(* or sleeping, or one notification, which the code sends after releasing  *)
(* the mutex.                                                              *)
(***************************************************************************)
EXTENDS Integers, Sequences, FiniteSets

CONSTANTS
    Threads,
    Items,
    NoItem,
    Capacity,       \* capacity_
    DropNewest      \* policy_ is kDropNewest

ASSUME QueueAssumption ==
    /\ Capacity \in Nat \ {0}
    /\ DropNewest \in BOOLEAN
    /\ NoItem \notin Items
    /\ IsFiniteSet(Threads)

VARIABLES
    items_, closed_, dropped_,
    at,          \* where each thread is in push(), pop() or close()
    holding,     \* the item a push() brings, or the one a pop() took
    received,    \* history: the items popped, oldest first
    ended        \* some pop() has returned nullopt

queueVars == <<items_, closed_, dropped_, at, holding, received, ended>>

QueueInit ==
    /\ items_ = <<>> /\ closed_ = FALSE /\ dropped_ = 0
    /\ at = [t \in Threads |-> "outside"]
    /\ holding = [t \in Threads |-> NoItem]
    /\ received = <<>> /\ ended = FALSE

Goes(t, place) == at' = [at EXCEPT ![t] = place]

\* notify_one: some sleeper of the condition variable wakes, if there is one.
NotifyOne(t, asleep, woken) ==
    LET sleepers == {s \in Threads : at[s] = asleep}
    IN  IF sleepers = {} THEN Goes(t, "outside")
        ELSE \E s \in sleepers : at' = [at EXCEPT ![t] = "outside", ![s] = woken]

NotifyAll(t, place, asleep, woken) ==
    at' = [s \in Threads |-> IF s = t THEN place
                             ELSE IF at[s] = asleep THEN woken ELSE at[s]]

-----------------------------------------------------------------------------
(* push() *)

PushFails(t) ==
    /\ Goes(t, "outside")
    /\ holding' = [holding EXCEPT ![t] = NoItem]
    /\ UNCHANGED <<items_, closed_, received, ended>>

PushAppends(t, x) ==
    /\ items_' = Append(items_, x)
    /\ Goes(t, "pushed")
    /\ holding' = [holding EXCEPT ![t] = NoItem]
    /\ UNCHANGED <<closed_, dropped_, received, ended>>

PushSleeps(t, x) ==
    /\ Goes(t, "pushAsleep")
    /\ holding' = [holding EXCEPT ![t] = x]
    /\ UNCHANGED <<items_, closed_, dropped_, received, ended>>

Push(t, x) ==
    /\ at[t] = "outside"
    /\ \/ /\ closed_
          /\ PushFails(t)
          /\ UNCHANGED dropped_
       \/ /\ ~closed_ /\ Len(items_) < Capacity
          /\ PushAppends(t, x)
       \/ /\ ~closed_ /\ Len(items_) >= Capacity /\ DropNewest
          /\ PushFails(t)
          /\ dropped_' = dropped_ + 1
       \/ /\ ~closed_ /\ Len(items_) >= Capacity /\ ~DropNewest
          /\ PushSleeps(t, x)

\* Mutant: wait() without a predicate.
PushResumesUntested(t) ==
    /\ at[t] = "pushWoken"
    /\ PushAppends(t, holding[t])

\* not_full_.wait() has the mutex again and tests its predicate.
PushResumes(t) ==
    /\ at[t] = "pushWoken"
    /\ \/ /\ closed_
          /\ PushFails(t)
          /\ UNCHANGED dropped_
       \/ /\ ~closed_ /\ Len(items_) < Capacity
          /\ PushAppends(t, holding[t])
       \/ /\ ~closed_ /\ Len(items_) >= Capacity
          /\ PushSleeps(t, holding[t])

PushNotifies(t) ==
    /\ at[t] = "pushed"
    /\ NotifyOne(t, "popAsleep", "popWoken")
    /\ UNCHANGED <<items_, closed_, dropped_, holding, received, ended>>

-----------------------------------------------------------------------------
(* pop() *)

PopSection(t) ==
    \/ /\ items_ # <<>>
       /\ items_' = Tail(items_)
       /\ received' = Append(received, Head(items_))
       /\ holding' = [holding EXCEPT ![t] = Head(items_)]
       /\ Goes(t, "popped")
       /\ UNCHANGED <<closed_, dropped_, ended>>
    \/ /\ items_ = <<>> /\ closed_
       /\ ended' = TRUE
       /\ holding' = [holding EXCEPT ![t] = NoItem]
       /\ Goes(t, "outside")
       /\ UNCHANGED <<items_, closed_, dropped_, received>>
    \/ /\ items_ = <<>> /\ ~closed_
       /\ Goes(t, "popAsleep")
       /\ UNCHANGED <<items_, closed_, dropped_, holding, received, ended>>

Pop(t) == at[t] = "outside" /\ PopSection(t)

PopResumes(t) == at[t] = "popWoken" /\ PopSection(t)

PopNotifies(t) ==
    /\ at[t] = "popped"
    /\ NotifyOne(t, "pushAsleep", "pushWoken")
    /\ UNCHANGED <<items_, closed_, dropped_, holding, received, ended>>

-----------------------------------------------------------------------------
(* close() *)

Close(t) ==
    /\ at[t] = "outside"
    /\ closed_' = TRUE
    /\ Goes(t, "closedIt")
    /\ UNCHANGED <<items_, dropped_, holding, received, ended>>

CloseWakesConsumers(t) ==
    /\ at[t] = "closedIt"
    /\ NotifyAll(t, "closeWoke", "popAsleep", "popWoken")
    /\ UNCHANGED <<items_, closed_, dropped_, holding, received, ended>>

CloseWakesProducers(t) ==
    /\ at[t] = "closeWoke"
    /\ NotifyAll(t, "outside", "pushAsleep", "pushWoken")
    /\ UNCHANGED <<items_, closed_, dropped_, holding, received, ended>>

\* A condition variable may wake a sleeper for no reason.
SpuriousWake(t) ==
    /\ \/ at[t] = "pushAsleep" /\ Goes(t, "pushWoken")
       \/ at[t] = "popAsleep" /\ Goes(t, "popWoken")
    /\ UNCHANGED <<items_, closed_, dropped_, holding, received, ended>>

\* The steps of a thread that is inside a call.
Continues(t) ==
    \/ PushResumes(t) \/ PushNotifies(t) \/ PopResumes(t) \/ PopNotifies(t)
    \/ CloseWakesConsumers(t) \/ CloseWakesProducers(t)

\* Any thread may call anything.
QueueNext ==
    \E t \in Threads :
        \/ \E x \in Items : Push(t, x)
        \/ Pop(t) \/ Close(t) \/ Continues(t) \/ SpuriousWake(t)

QueueSpec == QueueInit /\ [][QueueNext]_queueVars

-----------------------------------------------------------------------------
Fifo == INSTANCE BoundedFifo WITH
    LatePush <- FALSE, queue <- items_, closed <- closed_

\* The queue is the bounded first-in first-out channel: an item comes out once
\* and in order, nothing enters after close(), and nullopt is returned only when
\* the queue is closed and empty.
ImplementsFifo == Fifo!Spec
=============================================================================
