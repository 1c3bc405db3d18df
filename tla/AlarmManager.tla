---------------------------- MODULE AlarmManager ----------------------------
(***************************************************************************)
(* The alarm manager (core/alarms) on the event bus.  The table changes    *)
(* under a lock; the change is announced after the lock is released, by    *)
(* the thread that made it.                                                *)
(***************************************************************************)
EXTENDS EventBus

CONSTANTS
    AlarmCount,      \* the alarms are 1..AlarmCount
    Users,           \* the threads that set and clear alarms
    Owner,           \* the thread that subscribes and unsubscribes
    MaxCalls         \* bound: calls of set, clear and clear_all

Alarms == 1..AlarmCount

ASSUME AlarmAssumption ==
    /\ AlarmCount \in Nat /\ MaxCalls \in Nat
    /\ Types = {"AlarmSet", "AlarmCleared"}
    /\ Threads = Users \union {Owner}
    /\ None \notin [type : Types, alarm : Alarms]

VARIABLES
    active_,
    pending,        \* the announcements each thread has still to publish
    calls,
    transitions,    \* history: how often each alarm was set and cleared
    got             \* history: how often each subscription was told

alarmVars == <<active_, pending, calls, transitions, got>>
vars == <<busVars, alarmVars>>

Event(type, a) == [type |-> type, alarm |-> a]

Init ==
    /\ BusInit
    /\ active_ = {}
    /\ pending = [t \in Threads |-> <<>>]
    /\ calls = 0
    /\ transitions = [y \in Types |-> [a \in Alarms |-> 0]]
    /\ got = [d \in Ids |-> [a \in Alarms |-> 0]]

\* The thread is in its own code and has announced what it did.
Free(t) == InCode(t) /\ ~Publishing(t) /\ pending[t] = <<>>

Calls(t) ==
    /\ Free(t) /\ calls < MaxCalls
    /\ calls' = calls + 1
    /\ UNCHANGED <<busVars, got>>

set(t, a) ==
    /\ Calls(t)
    /\ active_' = active_ \union {a}
    /\ IF a \in active_ THEN UNCHANGED <<pending, transitions>>
       ELSE /\ pending' = [pending EXCEPT ![t] = <<Event("AlarmSet", a)>>]
            /\ transitions' = [transitions EXCEPT !["AlarmSet"][a] = @ + 1]

\* Mutant: clear() announces also an alarm that was not active.
clear_repeats(t, a) ==
    /\ Calls(t)
    /\ active_' = active_ \ {a}
    /\ pending' = [pending EXCEPT ![t] = <<Event("AlarmCleared", a)>>]
    /\ transitions' = IF a \notin active_ THEN transitions
                      ELSE [transitions EXCEPT !["AlarmCleared"][a] = @ + 1]

clear(t, a) ==
    /\ Calls(t)
    /\ active_' = active_ \ {a}
    /\ IF a \notin active_ THEN UNCHANGED <<pending, transitions>>
       ELSE /\ pending' = [pending EXCEPT ![t] = <<Event("AlarmCleared", a)>>]
            /\ transitions' = [transitions EXCEPT !["AlarmCleared"][a] = @ + 1]

\* The ids of the active alarms in the order the unordered_map has them, each once.
Orders(S) ==
    {q \in [1..Cardinality(S) -> S] :
       \A a \in S : \E i \in DOMAIN q : \A j \in DOMAIN q : q[j] = a <=> j = i}

clear_all(t) ==
    /\ Calls(t)
    /\ active_' = {}
    /\ \E cleared \in Orders(active_) :
         pending' = [pending EXCEPT ![t] =
                        [i \in DOMAIN cleared |-> Event("AlarmCleared", cleared[i])]]
    /\ transitions' = [transitions EXCEPT !["AlarmCleared"] =
                          [a \in Alarms |-> IF a \in active_ THEN @[a] + 1 ELSE @[a]]]

Announces(t) ==
    /\ pending[t] # <<>>
    /\ publish(t, Head(pending[t]))
    /\ pending' = [pending EXCEPT ![t] = Tail(@)]
    /\ UNCHANGED <<active_, calls, transitions, got>>

\* A subscriber takes note of the alarm.
Handles(t) ==
    /\ StartsHandler(t)
    /\ got' = [got EXCEPT ![Head(bus[t].todo)][bus[t].event.alarm] = @ + 1]
    /\ UNCHANGED <<active_, pending, calls, transitions>>

BusContinues(t) == BusStep(t) /\ UNCHANGED alarmVars

\* The owner subscribes and unsubscribes; a handler may unsubscribe itself.
ChangesSubscription(t) ==
    /\ \/ t = Owner /\ \E d \in Ids : subscribe(t, d) \/ unsubscribe(t, d)
       \/ t # Owner /\ \E d \in Ids : bus[t].inside = d /\ unsubscribe(t, d)
    /\ UNCHANGED alarmVars

WakesForNothing(t) == SpuriousWake(t) /\ UNCHANGED alarmVars

Quiescent == \A t \in Threads : Free(t)

\* Every call was made and announced.
Finished ==
    /\ Quiescent /\ calls = MaxCalls
    /\ UNCHANGED vars

ThreadStep(t) == Announces(t) \/ Handles(t) \/ BusContinues(t)

Next ==
    \/ \E t \in Users : \/ \E a \in Alarms : set(t, a) \/ clear(t, a)
                        \/ clear_all(t)
    \/ \E t \in Threads : ThreadStep(t) \/ ChangesSubscription(t) \/ WakesForNothing(t)
    \/ Finished

\* Threads run and handlers return; nobody has to set, clear or subscribe.
Fairness == \A t \in Threads : WF_vars(ThreadStep(t))

Spec == Init /\ [][Next]_vars /\ Fairness

-----------------------------------------------------------------------------
(* Properties. *)

Initially == {d \in Ids : \E i \in DOMAIN Subscribed[TypeOf[d]] : Subscribed[TypeOf[d]][i] = d}

\* FR-ALM-2: "each alarm set and clear transition is announced to all subscribers
\* exactly once", whichever threads set and clear the same alarms at the same
\* time: no subscriber is told of more than happened and, whenever no call is in
\* progress, one that was there from the start and still is has been told of all.
AnnouncedOnce ==
    /\ \A d \in Ids : \A a \in Alarms : got[d][a] <= transitions[TypeOf[d]][a]
    /\ Quiescent => \A d \in Initially : Registered(d) => got[d] = transitions[TypeOf[d]]
=============================================================================
