------------------------------ MODULE EventBus ------------------------------
(***************************************************************************)
(* The event bus (core/event_bus).  publish() copies the subscriber list   *)
(* under the bus lock and calls the handlers without it; unsubscribe()     *)
(* takes a subscriber off the list, forbids new calls, and waits for the   *)
(* calls in flight unless it is called from inside the handler itself.     *)
(*                                                                         *)
(* A step is one critical section of the bus lock or of a subscriber's     *)
(* mutex, or one notification.                                             *)
(***************************************************************************)
EXTENDS Integers, Sequences, FiniteSets

CONSTANTS
    Threads,
    Ids,            \* subscription ids
    Types,          \* event types
    TypeOf,         \* type_by_id_: the type each subscription is for
    Subscribed,     \* the subscriptions made before the threads start, by type
    None

ASSUME BusAssumption ==
    /\ TypeOf \in [Ids -> Types]
    /\ Subscribed \in [Types -> Seq(Ids)]
    /\ \A y \in Types : \A i \in DOMAIN Subscribed[y] : TypeOf[Subscribed[y][i]] = y
    /\ \A y \in Types : \A i, j \in DOMAIN Subscribed[y] : Subscribed[y][i] = Subscribed[y][j] => i = j
    /\ None \notin Ids
    /\ IsFiniteSet(Threads)

VARIABLES
    subscribers,     \* subscribers_by_type_
    used,            \* the ids that subscribe() has given out
    running, removed,
    bus,             \* where each thread is in publish() and unsubscribe()
    released         \* history: ids whose unsubscribe() has returned to a caller
                     \* that is not inside the handler

busVars == <<subscribers, used, running, removed, bus, released>>

\* A thread outside the bus.  todo: the subscribers publish() has still to call;
\* inside: the one whose handler it runs; notify: the one it has just left;
\* target: the one it unsubscribes, in the phase named.
Outside == [event |-> None, todo |-> <<>>, inside |-> None, notify |-> None,
            target |-> None, phase |-> "none"]

Registered(d) == \E i \in DOMAIN subscribers[TypeOf[d]] : subscribers[TypeOf[d]][i] = d

BusInit ==
    /\ subscribers = Subscribed
    /\ used = {d \in Ids : Registered(d)}
    /\ running = [d \in Ids |-> 0]
    /\ removed = [d \in Ids |-> FALSE]
    /\ bus = [t \in Threads |-> Outside]
    /\ released = {}

Publishing(t) == bus[t].event # None

\* The thread runs code outside the bus: its own, or that of a handler.
InCode(t) ==
    /\ bus[t].target = None /\ bus[t].notify = None
    /\ Publishing(t) => bus[t].inside # None

-----------------------------------------------------------------------------
subscribe(t, d) ==
    /\ InCode(t)
    /\ d \notin used
    /\ used' = used \union {d}
    /\ subscribers' = [subscribers EXCEPT ![TypeOf[d]] = Append(@, d)]
    /\ UNCHANGED <<running, removed, bus, released>>

\* publish(): the list is copied.  e.type is the type of the event.
publish(t, e) ==
    /\ InCode(t) /\ ~Publishing(t)
    /\ bus' = [bus EXCEPT ![t].event = e, ![t].todo = subscribers[e.type]]
    /\ UNCHANGED <<subscribers, used, running, removed, released>>

CallsNext(t) == Publishing(t) /\ bus[t].inside = None /\ bus[t].notify = None /\ bus[t].todo # <<>>

StartsHandler(t) ==
    /\ CallsNext(t)
    /\ LET d == Head(bus[t].todo)
       IN  /\ ~removed[d]
           /\ running' = [running EXCEPT ![d] = @ + 1]
           /\ bus' = [bus EXCEPT ![t].todo = Tail(@), ![t].inside = d]
    /\ UNCHANGED <<subscribers, used, removed, released>>

SkipsRemoved(t) ==
    /\ CallsNext(t)
    /\ removed[Head(bus[t].todo)]
    /\ bus' = [bus EXCEPT ![t].todo = Tail(@)]
    /\ UNCHANGED <<subscribers, used, running, removed, released>>

\* ~Done: the handler has returned.
LeavesHandler(t) ==
    /\ bus[t].inside # None /\ bus[t].target = None
    /\ running' = [running EXCEPT ![bus[t].inside] = @ - 1]
    /\ bus' = [bus EXCEPT ![t].inside = None, ![t].notify = bus[t].inside]
    /\ UNCHANGED <<subscribers, used, removed, released>>

\* Mutant: the waiters are not notified.
NotifiesNobody(t) ==
    /\ bus[t].notify # None
    /\ bus' = [bus EXCEPT ![t].notify = None]
    /\ UNCHANGED <<subscribers, used, running, removed, released>>

NotifiesIdle(t) ==
    /\ bus[t].notify # None
    /\ bus' = [s \in Threads |->
                  IF s = t THEN [bus[s] EXCEPT !.notify = None]
                  ELSE IF bus[s].target = bus[t].notify /\ bus[s].phase = "asleep"
                       THEN [bus[s] EXCEPT !.phase = "woken"] ELSE bus[s]]
    /\ UNCHANGED <<subscribers, used, running, removed, released>>

publishReturns(t) ==
    /\ Publishing(t) /\ bus[t].todo = <<>> /\ bus[t].inside = None /\ bus[t].notify = None
    /\ bus' = [bus EXCEPT ![t].event = None]
    /\ UNCHANGED <<subscribers, used, running, removed, released>>

-----------------------------------------------------------------------------
\* vector::erase of the element at i.
Erased(q, i) == [j \in 1..Len(q) - 1 |-> IF j < i THEN q[j] ELSE q[j + 1]]

\* unsubscribe(), under the bus lock.  An id that is not registered is ignored:
\* that call returns at once and changes nothing.
unsubscribe(t, d) ==
    /\ InCode(t)
    /\ \E i \in DOMAIN subscribers[TypeOf[d]] :
         /\ subscribers[TypeOf[d]][i] = d
         /\ subscribers' = [subscribers EXCEPT ![TypeOf[d]] = Erased(@, i)]
    /\ bus' = [bus EXCEPT ![t].target = d, ![t].phase = "mark"]
    /\ UNCHANGED <<used, running, removed, released>>

Returns(t) == bus' = [bus EXCEPT ![t].target = None, ![t].phase = "none"]

\* idle.wait(): return when no call is in flight, or sleep.
WaitsIdle(t) ==
    LET d == bus[t].target
    IN  \/ /\ running[d] = 0
           /\ Returns(t)
           /\ released' = released \union {d}
        \/ /\ running[d] # 0
           /\ bus' = [bus EXCEPT ![t].phase = "asleep"]
           /\ UNCHANGED released

\* Mutant: no new call is forbidden, since the list no longer holds it.
MarksNothing(t) ==
    /\ bus[t].phase = "mark"
    /\ WaitsIdle(t)
    /\ UNCHANGED <<subscribers, used, running, removed>>

MarksRemoved(t) ==
    /\ bus[t].phase = "mark"
    /\ removed' = [removed EXCEPT ![bus[t].target] = TRUE]
    /\ IF bus[t].inside = bus[t].target
       THEN Returns(t) /\ UNCHANGED released
       ELSE WaitsIdle(t)
    /\ UNCHANGED <<subscribers, used, running>>

ResumesWait(t) ==
    /\ bus[t].phase = "woken"
    /\ WaitsIdle(t)
    /\ UNCHANGED <<subscribers, used, running, removed>>

SpuriousWake(t) ==
    /\ bus[t].phase = "asleep"
    /\ bus' = [bus EXCEPT ![t].phase = "woken"]
    /\ UNCHANGED <<subscribers, used, running, removed, released>>

\* The steps of a thread inside the bus, and the return of a handler.
BusStep(t) ==
    \/ SkipsRemoved(t) \/ NotifiesIdle(t) \/ LeavesHandler(t)
    \/ publishReturns(t) \/ MarksRemoved(t) \/ ResumesWait(t)

-----------------------------------------------------------------------------
\* Once the unsubscribe() that took a subscriber off the list has returned to a
\* thread that is not inside the handler, the handler runs on no thread and is
\* never started again, although a publisher may have copied the list before: the
\* subscriber can be destroyed at once.
QuietAfterUnsubscribe ==
    \A d \in released : \A t \in Threads : bus[t].inside # d

\* An unsubscribe() that waits for calls in flight returns when they do.
UnsubscribeReturns == \A t \in Threads : bus[t].target # None ~> bus[t].target = None
=============================================================================
