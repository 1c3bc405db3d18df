------------------------- MODULE AlarmManagerProofs -------------------------
(***************************************************************************)
(* That a handler is quiet once unsubscribe() has returned, and that every *)
(* transition of an alarm is announced exactly once, for any number of     *)
(* threads, subscriptions and alarms.                                      *)
(***************************************************************************)
EXTENDS AlarmManager, FiniteSetTheorems, TLAPS

Inside(d) == {t \in Threads : bus[t].inside = d}

\* The shape of a thread's place in the bus.  What is on the lists does not matter here.
Shapes ==
    /\ running \in [Ids -> Nat] /\ removed \in [Ids -> BOOLEAN] /\ released \subseteq Ids
    /\ DOMAIN bus = Threads
    /\ \A t \in Threads :
         DOMAIN bus[t] = {"event", "todo", "inside", "notify", "target", "phase"}

\* running counts the threads inside a handler: what unsubscribe() waits for.
Counted == \A d \in Ids : running[d] = Cardinality(Inside(d))

\* Who waits for a handler to be idle has forbidden new calls of it, and nothing but the
\* return of such a wait releases a subscriber.
Forbidden ==
    /\ \A t \in Threads : bus[t].phase # "none" => bus[t].target \in Ids
    /\ \A t \in Threads : bus[t].phase \in {"asleep", "woken"} => removed[bus[t].target]
    /\ \A d \in released : removed[d] /\ running[d] = 0

BusInv == Shapes /\ Counted /\ Forbidden

-----------------------------------------------------------------------------
\* A thread that enters or leaves a handler changes the number inside it by one.
LEMMA InsideFinite ==
    ASSUME NEW d
    PROVE  IsFiniteSet(Inside(d)) /\ Cardinality(Inside(d)) \in Nat
<1>1. IsFiniteSet(Inside(d))
  BY FS_Subset, BusAssumption DEF Inside
<1> QED
  BY <1>1, FS_CardinalityType

LEMMA InitEstablishes == Init => BusInv
<1> SUFFICES ASSUME Init PROVE BusInv
  OBVIOUS
<1> USE DEF Init, BusInit, Outside
<1>1. Shapes
  BY DEF Shapes
<1>2. Counted
  <2> SUFFICES ASSUME NEW d \in Ids PROVE running[d] = Cardinality(Inside(d))
    BY DEF Counted
  <2>1. Inside(d) = {}
    BY BusAssumption DEF Inside
  <2> QED
    BY <2>1, FS_EmptySet
<1>3. Forbidden
  BY DEF Forbidden
<1> QED
  BY <1>1, <1>2, <1>3 DEF BusInv

\* A step that moves no thread into or out of a handler keeps the count.
LEMMA CountKept ==
    ASSUME Counted, UNCHANGED running, \A t \in Threads : bus'[t].inside = bus[t].inside
    PROVE  Counted'
<1>1. \A d : Inside(d)' = Inside(d)
  BY DEF Inside
<1> QED
  BY <1>1 DEF Counted

\* publish() calls a handler only while it is not removed, and counts itself in first.
LEMMA EntryKeeps ==
    ASSUME BusInv, NEW t \in Threads, StartsHandler(t)
    PROVE  BusInv'
<1> DEFINE d == Head(bus[t].todo)
<1>1. /\ bus[t].inside = None /\ ~removed[d]
      /\ running' = [running EXCEPT ![d] = @ + 1]
      /\ bus' = [bus EXCEPT ![t].todo = Tail(@), ![t].inside = d]
      /\ UNCHANGED <<removed, released>>
  BY DEF StartsHandler, CallsNext
<1> HIDE DEF d
<1>2. /\ bus'[t].inside = d /\ bus'[t].phase = bus[t].phase /\ bus'[t].target = bus[t].target
      /\ \A s \in Threads \ {t} : bus'[s] = bus[s]
  BY <1>1 DEF BusInv, Shapes
<1>3. Shapes'
  <2>1. running' \in [Ids -> Nat]
    <3>1. \A x \in Ids : running'[x] = IF x = d THEN running[x] + 1 ELSE running[x]
      BY <1>1 DEF BusInv, Shapes
    <3>2. running' = [x \in Ids |-> running'[x]]
      BY <1>1, Zenon DEF BusInv, Shapes
    <3> QED
      BY <3>1, <3>2 DEF BusInv, Shapes
  <2>2. DOMAIN bus' = Threads
    BY <1>1 DEF BusInv, Shapes
  <2>3. \A s \in Threads : DOMAIN bus'[s] = DOMAIN bus[s]
    BY <1>1 DEF BusInv, Shapes
  <2> QED
    BY <1>1, <2>1, <2>2, <2>3 DEF BusInv, Shapes
<1>4. Counted'
  <2> SUFFICES ASSUME NEW x \in Ids PROVE running'[x] = Cardinality(Inside(x)')
    BY DEF Counted
  <2>1. CASE x = d
    <3>0. t \notin Inside(x)
      BY <1>1, BusAssumption DEF Inside
    <3>1. Inside(x)' = Inside(x) \union {t} /\ t \notin Inside(x)
      BY <3>0, <1>2, <2>1 DEF Inside
    <3>2. Cardinality(Inside(x)') = Cardinality(Inside(x)) + 1
      BY <3>1, InsideFinite, FS_AddElement
    <3> QED
      BY <3>2, <1>1, <2>1 DEF BusInv, Counted, Shapes
  <2>2. CASE x # d
    <3>1. Inside(x)' = Inside(x)
      BY <1>1, <1>2, <2>2, BusAssumption, Zenon DEF Inside
    <3> QED
      BY <3>1, <1>1, <2>2 DEF BusInv, Counted, Shapes
  <2> QED
    BY <2>1, <2>2
<1>5. Forbidden'
  BY <1>1, <1>2 DEF BusInv, Forbidden, Shapes
<1> QED
  BY <1>3, <1>4, <1>5 DEF BusInv

\* ~Done counts the thread out when its handler has returned.
LEMMA ExitKeeps ==
    ASSUME BusInv, NEW t \in Threads, LeavesHandler(t)
    PROVE  BusInv'
<1>0. PICK d : d = bus[t].inside
  OBVIOUS
<1>1. /\ running' = [running EXCEPT ![d] = @ - 1]
      /\ bus' = [bus EXCEPT ![t].inside = None, ![t].notify = d]
      /\ UNCHANGED <<removed, released>> /\ d # None
  BY <1>0 DEF LeavesHandler
<1>2. /\ bus'[t].inside = None /\ bus'[t].phase = bus[t].phase /\ bus'[t].target = bus[t].target
      /\ \A s \in Threads \ {t} : bus'[s] = bus[s]
  BY <1>1 DEF BusInv, Shapes
<1>3. t \in Inside(d) /\ Inside(d)' = Inside(d) \ {t}
  BY <1>0, <1>1, <1>2, Zenon DEF Inside
<1>4. /\ Cardinality(Inside(d)') = Cardinality(Inside(d)) - 1
      /\ Cardinality(Inside(d)) - 1 \in Nat
  <2>1. IsFiniteSet(Inside(d) \ {t}) /\ Cardinality(Inside(d) \ {t}) = Cardinality(Inside(d)) - 1
    BY <1>3, InsideFinite, FS_RemoveElement
  <2> QED
    BY <2>1, <1>3, FS_CardinalityType
<1>5. Shapes'
  <2>1. running' \in [Ids -> Nat]
    BY <1>1, <1>4, Zenon DEF BusInv, Shapes, Counted
  <2>2. DOMAIN bus' = Threads
    BY <1>1 DEF BusInv, Shapes
  <2>3. \A s \in Threads : DOMAIN bus'[s] = DOMAIN bus[s]
    BY <1>1 DEF BusInv, Shapes
  <2> QED
    BY <1>1, <2>1, <2>2, <2>3 DEF BusInv, Shapes
<1>6. Counted'
  <2> SUFFICES ASSUME NEW x \in Ids PROVE running'[x] = Cardinality(Inside(x)')
    BY DEF Counted
  <2>1. CASE x = d
    BY <2>1, <1>1, <1>4 DEF BusInv, Counted, Shapes
  <2>2. CASE x # d
    <3>1. Inside(x)' = Inside(x)
      BY <1>0, <1>1, <1>2, <2>2, BusAssumption, Zenon DEF Inside
    <3> QED
      BY <3>1, <1>1, <2>2 DEF BusInv, Counted, Shapes
  <2> QED
    BY <2>1, <2>2
<1>7. Forbidden'
  <2>1. \A x \in released : x # d
    <3> SUFFICES ASSUME d \in released PROVE FALSE
      OBVIOUS
    <3> QED
      BY <1>4 DEF BusInv, Forbidden, Counted, Shapes
  <2> QED
    BY <2>1, <1>1, <1>2 DEF BusInv, Forbidden, Shapes
<1> QED
  BY <1>5, <1>6, <1>7 DEF BusInv

\* A released subscriber is removed and counts nobody inside.
LEMMA InvImpliesQuiet == BusInv => QuietAfterUnsubscribe
<1> SUFFICES ASSUME BusInv, NEW d \in released, NEW t \in Threads, bus[t].inside = d
             PROVE  FALSE
  BY DEF QuietAfterUnsubscribe
<1>1. Cardinality(Inside(d)) = 0
  BY DEF BusInv, Forbidden, Counted, Shapes
<1>2. Inside(d) = {}
  BY <1>1, InsideFinite, FS_EmptySet
<1> QED
  BY <1>2 DEF Inside

\* A thread that leaves the wait has seen no call in flight, after forbidding new ones.
LEMMA WaitKeeps ==
    ASSUME BusInv, NEW t \in Threads, bus[t].target \in Ids, removed'[bus[t].target],
           WaitsIdle(t), UNCHANGED running, removed' \in [Ids -> BOOLEAN],
           \A d \in Ids : removed[d] => removed'[d]
    PROVE  BusInv'
<1>1. /\ DOMAIN bus' = Threads
      /\ \A s \in Threads : DOMAIN bus'[s] = DOMAIN bus[s] /\ bus'[s].inside = bus[s].inside
      /\ \A s \in Threads \ {t} : bus'[s] = bus[s]
      /\ \/ bus'[t].phase = "none"
         \/ bus'[t].phase = "asleep" /\ bus'[t].target = bus[t].target
  BY DEF BusInv, Shapes, WaitsIdle, Returns
<1>2. released' \subseteq Ids /\ \A d \in released' : d \in released \/ (d = bus[t].target /\ running[d] = 0)
  BY DEF BusInv, Shapes, WaitsIdle
<1>3. Shapes'
  BY <1>1, <1>2 DEF BusInv, Shapes
<1>4. Counted'
  BY <1>1, CountKept DEF BusInv
<1>5. Forbidden'
  <2>1. \A s \in Threads : bus'[s].phase # "none" => bus'[s].target \in Ids
    BY <1>1 DEF BusInv, Forbidden
  <2>2. \A s \in Threads : bus'[s].phase \in {"asleep", "woken"} => removed'[bus'[s].target]
    BY <1>1 DEF BusInv, Forbidden
  <2>3. \A d \in released' : removed'[d] /\ running'[d] = 0
    BY <1>2 DEF BusInv, Forbidden, Shapes
  <2> QED
    BY <2>1, <2>2, <2>3 DEF Forbidden
<1> QED
  BY <1>3, <1>4, <1>5 DEF BusInv

\* Steps after which every thread is inside the handler it was inside.
LEMMA OthersKeep ==
    ASSUME BusInv, NEW t \in Threads,
           \/ SkipsRemoved(t) \/ NotifiesIdle(t) \/ publishReturns(t) \/ SpuriousWake(t)
           \/ (\E e : publish(t, e)) \/ (\E d \in Ids : subscribe(t, d) \/ unsubscribe(t, d))
    PROVE  BusInv'
<1>1. /\ UNCHANGED <<running, removed, released>>
      /\ DOMAIN bus' = Threads
      /\ \A s \in Threads :
           /\ DOMAIN bus'[s] = DOMAIN bus[s] /\ bus'[s].inside = bus[s].inside
           /\ \/ bus'[s].phase = bus[s].phase /\ bus'[s].target = bus[s].target
              \/ bus'[s].phase = "woken" /\ bus[s].phase = "asleep" /\ bus'[s].target = bus[s].target
              \/ bus'[s].phase = "mark" /\ bus'[s].target \in Ids
  <2>1. CASE SkipsRemoved(t)
    BY <2>1 DEF SkipsRemoved, BusInv, Shapes
  <2>2. CASE NotifiesIdle(t)
    BY <2>2 DEF NotifiesIdle, BusInv, Shapes
  <2>3. CASE publishReturns(t)
    BY <2>3 DEF publishReturns, BusInv, Shapes
  <2>4. CASE SpuriousWake(t)
    BY <2>4 DEF SpuriousWake, BusInv, Shapes
  <2>5. CASE \E e : publish(t, e)
    <3>1. PICK e : publish(t, e)
      BY <2>5
    <3>2. PICK list : bus' = [bus EXCEPT ![t].event = e, ![t].todo = list]
      BY <3>1, Zenon DEF publish
    <3>3. UNCHANGED <<running, removed, released>>
      BY <3>1 DEF publish
    <3> QED
      BY <3>2, <3>3 DEF BusInv, Shapes
  <2>6. CASE \E d \in Ids : subscribe(t, d)
    BY <2>6 DEF subscribe, BusInv, Shapes
  <2>7. CASE \E d \in Ids : unsubscribe(t, d)
    <3>1. PICK d \in Ids : unsubscribe(t, d)
      BY <2>7
    <3>2. /\ bus' = [bus EXCEPT ![t].target = d, ![t].phase = "mark"]
          /\ UNCHANGED <<running, removed, released>>
      BY <3>1 DEF unsubscribe
    <3> QED
      BY <3>2 DEF BusInv, Shapes
  <2> QED
    BY <2>1, <2>2, <2>3, <2>4, <2>5, <2>6, <2>7, Zenon
<1>2. Shapes'
  BY <1>1 DEF BusInv, Shapes
<1>3. Counted'
  BY <1>1, CountKept DEF BusInv
<1>4. Forbidden'
  BY <1>1 DEF BusInv, Forbidden
<1> QED
  BY <1>2, <1>3, <1>4, Zenon DEF BusInv

LEMMA StutterKeeps ==
    ASSUME BusInv, UNCHANGED busVars
    PROVE  BusInv'
<1>1. Counted'
  BY CountKept DEF BusInv, busVars
<1> QED
  BY <1>1 DEF BusInv, Shapes, Forbidden, busVars

LEMMA NextKeeps == BusInv /\ [Next]_vars => BusInv'
<1> SUFFICES ASSUME BusInv, [Next]_vars PROVE BusInv'
  OBVIOUS
<1>1. CASE UNCHANGED vars \/ Finished
  BY <1>1, StutterKeeps DEF vars, Finished
<1>2. CASE \E t \in Users : (\E a \in Alarms : set(t, a) \/ clear(t, a)) \/ clear_all(t)
  <2>1. UNCHANGED busVars
    BY <1>2 DEF set, clear, clear_all, Calls
  <2> QED
    BY <2>1, StutterKeeps
<1>3. ASSUME NEW t \in Threads, Announces(t)
      PROVE  BusInv'
  BY <1>3, OthersKeep, Zenon DEF Announces
<1>4. ASSUME NEW t \in Threads, Handles(t)
      PROVE  BusInv'
  BY <1>4, EntryKeeps DEF Handles
<1>5. ASSUME NEW t \in Threads, BusStep(t)
      PROVE  BusInv'
  <2>1. CASE SkipsRemoved(t) \/ NotifiesIdle(t) \/ publishReturns(t)
    BY <2>1, OthersKeep
  <2>2. CASE LeavesHandler(t)
    BY <2>2, ExitKeeps
  <2>3. CASE MarksRemoved(t)
    <3>1. /\ bus[t].target \in Ids /\ removed' \in [Ids -> BOOLEAN] /\ removed'[bus[t].target]
          /\ \A d \in Ids : removed[d] => removed'[d]
          /\ UNCHANGED running
      BY <2>3 DEF MarksRemoved, BusInv, Shapes, Forbidden
    <3>2. CASE bus[t].inside # bus[t].target
      BY <2>3, <3>1, <3>2, WaitKeeps DEF MarksRemoved
    <3>3. CASE bus[t].inside = bus[t].target
      <4>1. /\ DOMAIN bus' = Threads /\ UNCHANGED released
            /\ \A s \in Threads : DOMAIN bus'[s] = DOMAIN bus[s] /\ bus'[s].inside = bus[s].inside
            /\ \A s \in Threads \ {t} : bus'[s] = bus[s]
            /\ bus'[t].phase = "none"
        BY <2>3, <3>3 DEF MarksRemoved, Returns, BusInv, Shapes
      <4>2. Counted'
        BY <3>1, <4>1, CountKept DEF BusInv
      <4>3. Shapes'
        BY <3>1, <4>1 DEF BusInv, Shapes
      <4>4. Forbidden'
        BY <3>1, <4>1 DEF BusInv, Forbidden, Shapes
      <4> QED
        BY <4>2, <4>3, <4>4 DEF BusInv
    <3> QED
      BY <3>2, <3>3
  <2>4. CASE ResumesWait(t)
    <3>1. /\ bus[t].target \in Ids /\ removed[bus[t].target] /\ UNCHANGED <<running, removed>>
      BY <2>4 DEF ResumesWait, BusInv, Forbidden
    <3> QED
      BY <2>4, <3>1, WaitKeeps DEF ResumesWait, BusInv, Shapes
  <2> QED
    BY <1>5, <2>1, <2>2, <2>3, <2>4 DEF BusStep
<1>6. ASSUME NEW t \in Threads, ChangesSubscription(t) \/ WakesForNothing(t)
      PROVE  BusInv'
  BY <1>6, OthersKeep DEF ChangesSubscription, WakesForNothing
<1> QED
  BY <1>1, <1>2, <1>3, <1>4, <1>5, <1>6 DEF Next, ThreadStep, BusContinues

\* For every number of threads, subscriptions and alarms: after unsubscribe() has returned
\* to a thread outside the handler, EventBus::publish() never calls that handler again and
\* no call of it is in progress.
THEOREM HandlersQuietAfterUnsubscribe == Spec => []QuietAfterUnsubscribe
<1> QED
  BY InitEstablishes, NextKeeps, InvImpliesQuiet, PTL DEF Spec

-----------------------------------------------------------------------------
(* Every transition is announced once: where the announcements are. *)

Events == [type : Types, alarm : Alarms]
Has(q, x) == \E i \in DOMAIN q : q[i] = x
Once(q) == \A i, j \in DOMAIN q : q[i] = q[j] => i = j

\* The lists, and the copies publish() works on, hold an id once.
Lists ==
    /\ subscribers \in [Types -> Seq(Ids)] /\ used \subseteq Ids
    /\ \A y \in Types : Once(subscribers[y])
    /\ \A y \in Types : \A d \in Ids : Has(subscribers[y], d) => d \in used /\ TypeOf[d] = y
    /\ \A t \in Threads : bus[t].todo \in Seq(Ids) /\ Once(bus[t].todo)
    /\ \A t \in Threads : \A d \in Ids : Has(bus[t].todo, d) => TypeOf[d] = bus[t].event.type

\* What is being or will be removed is off its list and never comes back.
OffTheList ==
    /\ \A d \in Ids : removed[d] => d \in used /\ ~Registered(d)
    /\ \A t \in Threads : bus[t].target \in Ids => bus[t].target \in used /\ ~Registered(bus[t].target)

\* A thread announces each transition it has made once.
Announcing ==
    /\ pending \in [Threads -> Seq(Events)] /\ active_ \subseteq Alarms
    /\ \A t \in Threads : Once(pending[t])
    /\ \A t \in Threads : bus[t].event # None => bus[t].event \in Events /\ ~Has(pending[t], bus[t].event)

\* The threads that have still to tell d of a transition of a.
Owing(d, a) ==
    {t \in Threads : \/ Has(pending[t], Event(TypeOf[d], a))
                     \/ bus[t].event = Event(TypeOf[d], a) /\ Has(bus[t].todo, d)}

\* A subscription has been told, or is going to be, of no more than happened; and of all
\* of it if it was there from the start.
Told ==
    /\ transitions \in [Types -> [Alarms -> Nat]] /\ got \in [Ids -> [Alarms -> Nat]]
    /\ \A d \in Ids : \A a \in Alarms :
         /\ got[d][a] + Cardinality(Owing(d, a)) <= transitions[TypeOf[d]][a]
         /\ d \in Initially /\ Registered(d) =>
              got[d][a] + Cardinality(Owing(d, a)) = transitions[TypeOf[d]][a]

AnnounceInv == Lists /\ OffTheList /\ Announcing /\ Told

\* Taking the first element off a list.
LEMMA TailHas ==
    ASSUME NEW S, NEW q \in Seq(S), q # <<>>, Once(q)
    PROVE  /\ Tail(q) \in Seq(S) /\ Once(Tail(q))
           /\ Head(q) \in S /\ Has(q, Head(q)) /\ ~Has(Tail(q), Head(q))
           /\ \A x : x # Head(q) => (Has(Tail(q), x) <=> Has(q, x))
<1>1. /\ Head(q) = q[1] /\ Tail(q) \in Seq(S)
      /\ Len(q) \in Nat /\ Len(q) >= 1 /\ Len(Tail(q)) = Len(q) - 1
      /\ DOMAIN q = 1..Len(q) /\ DOMAIN Tail(q) = 1..Len(q) - 1
      /\ \A i \in 1..Len(q) - 1 : Tail(q)[i] = q[i + 1]
  OBVIOUS
<1>2. PICK r : r = Tail(q)
  BY Zenon
<1>3. \A i \in DOMAIN r : i + 1 \in DOMAIN q /\ i + 1 # 1 /\ r[i] = q[i + 1]
  BY <1>1, <1>2
<1>4. \A i \in DOMAIN q : i # 1 => i - 1 \in DOMAIN r /\ r[i - 1] = q[i]
  BY <1>1, <1>2
<1>5. Once(r)
  <2> SUFFICES ASSUME NEW i \in DOMAIN r, NEW j \in DOMAIN r, r[i] = r[j] PROVE i = j
    BY DEF Once
  <2>1. i + 1 = j + 1
    BY <1>3 DEF Once
  <2> QED
    BY <1>1, <1>2, <2>1
<1>6. Has(q, Head(q)) /\ Head(q) \in S
  BY <1>1 DEF Has
<1>7. ~Has(r, Head(q))
  BY <1>1, <1>3 DEF Has, Once
<1>8. ASSUME NEW x, x # Head(q) PROVE Has(r, x) <=> Has(q, x)
  <2>1. ASSUME Has(r, x) PROVE Has(q, x)
    BY <1>3, <2>1 DEF Has
  <2>2. ASSUME Has(q, x) PROVE Has(r, x)
    <3>1. PICK i \in DOMAIN q : q[i] = x
      BY <2>2 DEF Has
    <3>2. i - 1 \in DOMAIN r /\ r[i - 1] = x
      BY <1>1, <1>4, <1>8, <3>1
    <3> QED
      BY <3>2 DEF Has
  <2> QED
    BY <2>1, <2>2
<1> QED
  BY <1>1, <1>2, <1>5, <1>6, <1>7, <1>8

\* Putting a new element at the end.
LEMMA AppendHas ==
    ASSUME NEW S, NEW q \in Seq(S), NEW e \in S, Once(q), ~Has(q, e)
    PROVE  /\ Append(q, e) \in Seq(S) /\ Once(Append(q, e))
           /\ \A x : Has(Append(q, e), x) <=> Has(q, x) \/ x = e
<1>1. /\ Append(q, e) \in Seq(S)
      /\ Len(q) \in Nat /\ DOMAIN q = 1..Len(q) /\ DOMAIN Append(q, e) = 1..Len(q) + 1
      /\ \A i \in 1..Len(q) : Append(q, e)[i] = q[i]
      /\ Append(q, e)[Len(q) + 1] = e
  OBVIOUS
<1>2. PICK r : r = Append(q, e)
  BY Zenon
<1>3. /\ \A i \in DOMAIN q : i \in DOMAIN r /\ r[i] = q[i]
      /\ Len(q) + 1 \in DOMAIN r /\ r[Len(q) + 1] = e
      /\ \A i \in DOMAIN r : i \in DOMAIN q \/ i = Len(q) + 1
  BY <1>1, <1>2
<1>4. Once(r)
  BY <1>3 DEF Once, Has
<1>5. ASSUME NEW x PROVE Has(r, x) <=> Has(q, x) \/ x = e
  BY <1>3 DEF Has
<1> QED
  BY <1>1, <1>2, <1>4, <1>5

\* Erasing one.
LEMMA ErasedHas ==
    ASSUME NEW S, NEW q \in Seq(S), NEW i \in DOMAIN q, Once(q)
    PROVE  /\ Erased(q, i) \in Seq(S) /\ Once(Erased(q, i)) /\ ~Has(Erased(q, i), q[i])
           /\ \A x : Has(Erased(q, i), x) => Has(q, x)
<1>1. /\ Len(q) \in Nat /\ DOMAIN q = 1..Len(q) /\ Len(q) - 1 \in Nat /\ i \in 1..Len(q)
      /\ \A j \in DOMAIN q : q[j] \in S
  OBVIOUS
<1>2. PICK r : r = Erased(q, i)
  OBVIOUS
<1>3. r \in [1..Len(q) - 1 -> S]
  BY <1>1, <1>2 DEF Erased
<1>4. r \in Seq(S)
  BY <1>1, <1>3
<1>5. \A j \in DOMAIN r : r[j] = IF j < i THEN q[j] ELSE q[j + 1]
  BY <1>2 DEF Erased
<1>6. DOMAIN r = 1..Len(q) - 1
  BY <1>3
<1>7. Once(r)
  <2> SUFFICES ASSUME NEW j \in DOMAIN r, NEW k \in DOMAIN r, r[j] = r[k] PROVE j = k
    BY DEF Once
  <2>1. j \in DOMAIN q /\ j + 1 \in DOMAIN q /\ k \in DOMAIN q /\ k + 1 \in DOMAIN q
    BY <1>1, <1>6
  <2>2. (IF j < i THEN j ELSE j + 1) = (IF k < i THEN k ELSE k + 1)
    BY <1>5, <2>1 DEF Once
  <2> QED
    BY <1>1, <1>6, <2>2
<1>8. \A j \in DOMAIN r : \E k \in DOMAIN q : k # i /\ r[j] = q[k]
  <2> SUFFICES ASSUME NEW j \in DOMAIN r PROVE \E k \in DOMAIN q : k # i /\ r[j] = q[k]
    OBVIOUS
  <2>1. j \in DOMAIN q /\ j + 1 \in DOMAIN q /\ (j < i => j # i) /\ (~(j < i) => j + 1 # i)
    BY <1>1, <1>6
  <2> QED
    BY <1>5, <2>1
<1>9. ~Has(r, q[i]) /\ \A x : Has(r, x) => Has(q, x)
  BY <1>8 DEF Has, Once
<1> QED
  BY <1>2, <1>4, <1>7, <1>9

\* The event that the subscription d is owed for the alarm a.
LEMMA AnnouncedEvent ==
    ASSUME NEW d \in Ids, NEW a \in Alarms
    PROVE  /\ TypeOf[d] \in Types /\ Event(TypeOf[d], a) \in Events /\ Event(TypeOf[d], a) # None
           /\ Event(TypeOf[d], a).type = TypeOf[d] /\ Event(TypeOf[d], a).alarm = a
  BY BusAssumption, AlarmAssumption DEF Event, Events

-----------------------------------------------------------------------------
LEMMA OwingFinite ==
    ASSUME NEW d, NEW a
    PROVE  IsFiniteSet(Owing(d, a)) /\ Cardinality(Owing(d, a)) \in Nat
<1>1. IsFiniteSet(Owing(d, a))
  BY FS_Subset, BusAssumption DEF Owing
<1> QED
  BY <1>1, FS_CardinalityType

\* A step that announces nothing new: a debt may be dropped, but not to one who was there
\* from the start and still is.
LEMMA ToldKept ==
    ASSUME Told, UNCHANGED <<transitions, got>>,
           \A d \in Ids : \A a \in Alarms :
             /\ Owing(d, a)' \subseteq Owing(d, a)
             /\ d \in Initially /\ Registered(d)' => Registered(d) /\ Owing(d, a)' = Owing(d, a)
    PROVE  Told'
<1> SUFFICES ASSUME NEW d \in Ids, NEW a \in Alarms
             PROVE  /\ got'[d][a] + Cardinality(Owing(d, a)') <= transitions'[TypeOf[d]][a]
                    /\ d \in Initially /\ Registered(d)' =>
                         got'[d][a] + Cardinality(Owing(d, a)') = transitions'[TypeOf[d]][a]
  BY DEF Told, Initially
<1>1. /\ Cardinality(Owing(d, a)) \in Nat /\ Cardinality(Owing(d, a)') \in Nat
      /\ Cardinality(Owing(d, a)') <= Cardinality(Owing(d, a))
  BY OwingFinite, FS_Subset, FS_CardinalityType
<1>2. got[d][a] \in Nat /\ transitions[TypeOf[d]][a] \in Nat
  BY BusAssumption DEF Told
<1>3. got[d][a] + Cardinality(Owing(d, a)) <= transitions[TypeOf[d]][a]
  BY DEF Told
<1>4. d \in Initially /\ Registered(d) => got[d][a] + Cardinality(Owing(d, a)) = transitions[TypeOf[d]][a]
  BY DEF Told
<1>5. got'[d][a] + Cardinality(Owing(d, a)') <= transitions'[TypeOf[d]][a]
  BY <1>1, <1>2, <1>3
<1>6. d \in Initially /\ Registered(d)' =>
        got'[d][a] + Cardinality(Owing(d, a)') = transitions'[TypeOf[d]][a]
  BY <1>4
<1> QED
  BY <1>5, <1>6, Zenon

\* Steps that move no announcement and no list: leaving a handler, notifying, marking and
\* waiting.
LEMMA QuietStepKeeps ==
    ASSUME BusInv, AnnounceInv, UNCHANGED <<alarmVars, subscribers, used>>,
           \A s \in Threads : /\ bus'[s].event = bus[s].event /\ bus'[s].todo = bus[s].todo
                              /\ bus'[s].target \in {bus[s].target, None},
           \A d \in Ids : removed'[d] => removed[d] \/ \E s \in Threads : bus[s].target = d
    PROVE  AnnounceInv'
<1>1. \A d : Registered(d)' <=> Registered(d)
  BY DEF Registered
<1>2. \A d, a : Owing(d, a)' = Owing(d, a)
  BY DEF Owing, alarmVars
<1>3. Lists'
  BY DEF AnnounceInv, Lists
<1>4. OffTheList'
  <2>1. \A d \in Ids : removed'[d] => d \in used' /\ ~Registered(d)'
    BY <1>1 DEF AnnounceInv, OffTheList
  <2>2. \A s \in Threads : bus'[s].target \in Ids => bus'[s].target \in used' /\ ~Registered(bus[s].target)'
    BY <1>1, BusAssumption, Zenon DEF AnnounceInv, OffTheList
  <2>3. \A s \in Threads : bus'[s].target \in Ids => bus'[s].target = bus[s].target
    BY BusAssumption
  <2> QED
    BY <2>1, <2>2, <2>3 DEF OffTheList, Registered
<1>5. Announcing'
  BY DEF AnnounceInv, Announcing, alarmVars
<1>6. Told'
  BY <1>1, <1>2, ToldKept DEF AnnounceInv, alarmVars
<1> QED
  BY <1>3, <1>4, <1>5, <1>6 DEF AnnounceInv

\* A new subscription has an id that was never used, so it is not one of those that were
\* there from the start, and nobody removes it yet.
LEMMA SubscribeKeeps ==
    ASSUME BusInv, AnnounceInv, NEW t \in Threads, NEW d \in Ids, subscribe(t, d), UNCHANGED alarmVars,
           Initially \subseteq used
    PROVE  AnnounceInv'
<1>1. /\ d \notin used /\ used' = used \union {d} /\ UNCHANGED <<removed, bus>>
      /\ subscribers' = [subscribers EXCEPT ![TypeOf[d]] = Append(@, d)]
  BY DEF subscribe
<1>2. TypeOf[d] \in Types /\ subscribers[TypeOf[d]] \in Seq(Ids) /\ Once(subscribers[TypeOf[d]])
      /\ ~Has(subscribers[TypeOf[d]], d)
  BY <1>1, BusAssumption DEF AnnounceInv, Lists
<1>3. /\ subscribers'[TypeOf[d]] = Append(subscribers[TypeOf[d]], d)
      /\ \A y \in Types : y # TypeOf[d] => subscribers'[y] = subscribers[y]
      /\ DOMAIN subscribers' = Types /\ subscribers' = [y \in Types |-> subscribers'[y]]
  BY <1>1, <1>2, Zenon DEF AnnounceInv, Lists
<1>4. /\ Append(subscribers[TypeOf[d]], d) \in Seq(Ids) /\ Once(Append(subscribers[TypeOf[d]], d))
      /\ \A x : Has(Append(subscribers[TypeOf[d]], d), x) <=> Has(subscribers[TypeOf[d]], x) \/ x = d
  BY <1>2, AppendHas, Zenon
<1>5. \A y \in Types : /\ subscribers'[y] \in Seq(Ids) /\ Once(subscribers'[y])
                       /\ \A x : Has(subscribers'[y], x) <=> Has(subscribers[y], x) \/ (y = TypeOf[d] /\ x = d)
  <2> SUFFICES ASSUME NEW y \in Types
               PROVE  /\ subscribers'[y] \in Seq(Ids) /\ Once(subscribers'[y])
                      /\ \A x : Has(subscribers'[y], x) <=> Has(subscribers[y], x) \/ (y = TypeOf[d] /\ x = d)
    OBVIOUS
  <2>1. CASE y = TypeOf[d]
    BY <1>3, <1>4, <2>1, Zenon
  <2>2. CASE y # TypeOf[d]
    <3>1. subscribers'[y] = subscribers[y]
      BY <1>3, <2>2, Zenon
    <3> QED
      BY <2>2, <3>1 DEF AnnounceInv, Lists
  <2> QED
    BY <2>1, <2>2
<1>6. Lists'
  <2>1. subscribers' \in [Types -> Seq(Ids)]
    BY <1>3, <1>5, Zenon
  <2>2. \A y \in Types : \A x \in Ids : Has(subscribers'[y], x) => x \in used' /\ TypeOf[x] = y
    BY <1>1, <1>5 DEF AnnounceInv, Lists
  <2> QED
    BY <1>1, <1>5, <2>1, <2>2 DEF AnnounceInv, Lists
<1>7. \A x \in Ids : Registered(x)' <=> Registered(x) \/ x = d
  <2> SUFFICES ASSUME NEW x \in Ids PROVE Registered(x)' <=> Registered(x) \/ x = d
    OBVIOUS
  <2>1. TypeOf[x] \in Types
    BY BusAssumption
  <2>2. (Registered(x) <=> Has(subscribers[TypeOf[x]], x)) /\ (Registered(x)' <=> Has(subscribers'[TypeOf[x]], x))
    BY DEF Registered, Has
  <2> QED
    BY <1>5, <2>1, <2>2, Zenon
<1>8. OffTheList'
  BY <1>1, <1>7 DEF AnnounceInv, OffTheList
<1>9. Announcing'
  BY <1>1 DEF AnnounceInv, Announcing, alarmVars
<1>10. Told'
  <2>1. \A x, a : Owing(x, a)' = Owing(x, a)
    BY <1>1, Zenon DEF Owing, alarmVars
  <2> QED
    BY <1>1, <1>7, <2>1, ToldKept, Zenon DEF AnnounceInv, alarmVars
<1> QED
  BY <1>6, <1>8, <1>9, <1>10 DEF AnnounceInv

\* unsubscribe() takes the one place of the id off the list.
LEMMA UnsubscribeKeeps ==
    ASSUME BusInv, AnnounceInv, NEW t \in Threads, NEW d \in Ids, unsubscribe(t, d), UNCHANGED alarmVars
    PROVE  AnnounceInv'
<1>1. PICK i \in DOMAIN subscribers[TypeOf[d]] :
        /\ subscribers[TypeOf[d]][i] = d
        /\ subscribers' = [subscribers EXCEPT ![TypeOf[d]] = Erased(@, i)]
  BY Zenon DEF unsubscribe
<1>2. /\ bus' = [bus EXCEPT ![t].target = d, ![t].phase = "mark"] /\ UNCHANGED <<used, removed>>
  BY Zenon DEF unsubscribe
<1>3. /\ TypeOf[d] \in Types /\ subscribers[TypeOf[d]] \in Seq(Ids) /\ Once(subscribers[TypeOf[d]])
      /\ Has(subscribers[TypeOf[d]], d)
  BY <1>1, BusAssumption DEF AnnounceInv, Lists, Has
<1>4. /\ subscribers'[TypeOf[d]] = Erased(subscribers[TypeOf[d]], i)
      /\ \A y \in Types : y # TypeOf[d] => subscribers'[y] = subscribers[y]
      /\ subscribers' = [y \in Types |-> subscribers'[y]]
  BY <1>1, <1>3, Zenon DEF AnnounceInv, Lists
<1>5. /\ Erased(subscribers[TypeOf[d]], i) \in Seq(Ids) /\ Once(Erased(subscribers[TypeOf[d]], i))
      /\ ~Has(Erased(subscribers[TypeOf[d]], i), d)
      /\ \A x : Has(Erased(subscribers[TypeOf[d]], i), x) => Has(subscribers[TypeOf[d]], x)
  BY <1>1, <1>3, ErasedHas
<1>6. \A y \in Types : /\ subscribers'[y] \in Seq(Ids) /\ Once(subscribers'[y])
                       /\ \A x : Has(subscribers'[y], x) => Has(subscribers[y], x)
  <2>1. ASSUME NEW y \in Types
        PROVE  /\ subscribers'[y] \in Seq(Ids) /\ Once(subscribers'[y])
               /\ \A x : Has(subscribers'[y], x) => Has(subscribers[y], x)
    <3>1. CASE y = TypeOf[d]
      BY <1>4, <1>5, <3>1, Zenon
    <3>2. CASE y # TypeOf[d]
      BY <1>4, <3>2, Zenon DEF AnnounceInv, Lists
    <3> QED
      BY <3>1, <3>2, Zenon
  <2> QED
    BY <2>1, Zenon
<1>7. \A s \in Threads : /\ bus'[s].event = bus[s].event /\ bus'[s].todo = bus[s].todo
                         /\ bus'[s].target = IF s = t THEN d ELSE bus[s].target
  BY <1>2 DEF BusInv, Shapes
<1>8. Lists'
  <2>1. subscribers' \in [Types -> Seq(Ids)]
    BY <1>4, <1>6
  <2>2. \A y \in Types : \A x \in Ids : Has(subscribers'[y], x) => x \in used' /\ TypeOf[x] = y
    BY <1>2, <1>6 DEF AnnounceInv, Lists
  <2>3. \A s \in Threads : /\ bus'[s].todo \in Seq(Ids) /\ Once(bus'[s].todo)
                           /\ \A x \in Ids : Has(bus'[s].todo, x) => TypeOf[x] = bus'[s].event.type
    BY <1>7 DEF AnnounceInv, Lists
  <2> QED
    BY <1>2, <1>6, <2>1, <2>2, <2>3, Zenon DEF AnnounceInv, Lists
<1>9. ~Registered(d)' /\ \A x \in Ids : Registered(x)' => Registered(x)
  <2>1. ~Has(subscribers'[TypeOf[d]], d)
    BY <1>4, <1>5, Zenon
  <2>2. \A x \in Ids : Has(subscribers'[TypeOf[x]], x) => Has(subscribers[TypeOf[x]], x)
    BY <1>6, BusAssumption, Zenon
  <2> QED
    BY <2>1, <2>2 DEF Registered, Has
<1>10. OffTheList'
  <2>1. d \in used
    BY <1>3 DEF AnnounceInv, Lists
  <2>2. \A x \in Ids : removed'[x] => x \in used' /\ ~Registered(x)'
    BY <1>2, <1>9 DEF AnnounceInv, OffTheList
  <2>3. ASSUME NEW s \in Threads, NEW x \in Ids, bus'[s].target = x
        PROVE  x \in used' /\ ~Registered(x)'
    <3>1. CASE s = t
      <4>1. x = d
        BY <1>7, <2>3, <3>1
      <4> QED
        BY <1>2, <1>9, <2>1, <4>1 DEF Registered
    <3>2. CASE s # t
      <4>1. bus[s].target = x
        BY <1>7, <2>3, <3>2, Zenon
      <4> QED
        BY <1>2, <1>9, <4>1 DEF AnnounceInv, OffTheList
    <3> QED
      BY <3>1, <3>2
  <2> QED
    BY <2>2, <2>3, Zenon DEF OffTheList, Registered
<1>11. Announcing'
  BY <1>7, Zenon DEF AnnounceInv, Announcing, alarmVars
<1>12. Told'
  <2>1. \A x, a : Owing(x, a)' = Owing(x, a)
    BY <1>7, Zenon DEF Owing, alarmVars
  <2> QED
    BY <1>9, <2>1, ToldKept, Zenon DEF AnnounceInv, alarmVars
<1> QED
  BY <1>8, <1>10, <1>11, <1>12 DEF AnnounceInv

\* The thread t makes the transitions of type y of the alarms in A, and has q to announce.
Makes(t, y, A, q) ==
    /\ Free(t) /\ UNCHANGED <<busVars, got>> /\ active_' \subseteq Alarms
    /\ q \in Seq(Events) /\ Once(q)
    /\ \A e \in Events : Has(q, e) <=> (e.type = y /\ e.alarm \in A)
    /\ pending' = [pending EXCEPT ![t] = q]
    /\ transitions' \in [Types -> [Alarms -> Nat]]
    /\ \A z \in Types : \A a \in Alarms :
         transitions'[z][a] = transitions[z][a] + IF z = y /\ a \in A THEN 1 ELSE 0

\* A new transition, or several of one call: the thread that made them owed nothing and now
\* owes each once.
LEMMA TransitionKeeps ==
    ASSUME BusInv, AnnounceInv, NEW t \in Threads, NEW y \in Types, NEW A \in SUBSET Alarms, NEW q,
           Makes(t, y, A, q)
    PROVE  AnnounceInv'
<1> USE DEF Makes
<1>1. /\ pending[t] = <<>> /\ bus[t].event = None /\ got' = got
      /\ \A s \in Threads : pending'[s] = IF s = t THEN q ELSE pending[s]
      /\ pending' \in [Threads -> Seq(Events)]
  BY DEF Free, Publishing, AnnounceInv, Announcing
<1>2. \A d : Registered(d)' <=> Registered(d)
  BY Zenon DEF Registered, busVars
<1>3. Lists'
  BY Zenon DEF AnnounceInv, Lists, busVars
<1>4. OffTheList'
  BY <1>2, Zenon DEF AnnounceInv, OffTheList, busVars, Registered
<1>5. Announcing'
  BY <1>1, Zenon DEF AnnounceInv, Announcing, busVars
<1>6. /\ bus' = bus
      /\ \A e \in Events : Has(q, e) <=> (e.type = y /\ e.alarm \in A)
      /\ \A z \in Types : \A a \in Alarms :
           transitions'[z][a] = transitions[z][a] + IF z = y /\ a \in A THEN 1 ELSE 0
  BY Zenon DEF busVars
<1> HIDE DEF Makes
<1>7. Told'
  <2> SUFFICES ASSUME NEW d \in Ids, NEW a \in Alarms
               PROVE  /\ got'[d][a] + Cardinality(Owing(d, a)') <= transitions'[TypeOf[d]][a]
                      /\ d \in Initially /\ Registered(d)' =>
                           got'[d][a] + Cardinality(Owing(d, a)') = transitions'[TypeOf[d]][a]
    BY DEF AnnounceInv, Told, Initially, Makes
  <2>1. PICK e : e = Event(TypeOf[d], a)
    BY Zenon
  <2>2. e \in Events /\ e.type = TypeOf[d] /\ e.alarm = a /\ e # None /\ TypeOf[d] \in Types
    BY <2>1, AnnouncedEvent, Zenon
  <2>3. t \notin Owing(d, a)
    BY <1>1, <2>1, <2>2 DEF Owing, Has
  <2>4. t \in Owing(d, a)' <=> TypeOf[d] = y /\ a \in A
    BY <1>1, <1>6, <2>1, <2>2 DEF Owing
  <2>5. \A s \in Threads \ {t} : s \in Owing(d, a)' <=> s \in Owing(d, a)
    BY <1>1, <1>6, Zenon DEF Owing
  <2>6. Owing(d, a)' = IF TypeOf[d] = y /\ a \in A THEN Owing(d, a) \union {t} ELSE Owing(d, a)
    <3>1. Owing(d, a) \subseteq Threads /\ Owing(d, a)' \subseteq Threads
      BY Zenon DEF Owing
    <3>2. CASE TypeOf[d] = y /\ a \in A
      BY <2>4, <2>5, <3>1, <3>2
    <3>3. CASE ~(TypeOf[d] = y /\ a \in A)
      <4>1. t \in Owing(d, a)' <=> t \in Owing(d, a)
        BY <2>3, <2>4, <3>3, Zenon
      <4>2. Owing(d, a)' = Owing(d, a)
        <5>1. \A s \in Threads : s \in Owing(d, a)' <=> s \in Owing(d, a)
          BY <2>5, <4>1, Zenon
        <5> QED
          BY <3>1, <5>1, Zenon
      <4> QED
        BY <3>3, <4>2, Zenon
    <3> QED
      BY <3>2, <3>3, Zenon
  <2>7. /\ Cardinality(Owing(d, a)) \in Nat
        /\ Cardinality(Owing(d, a)') = Cardinality(Owing(d, a)) + IF TypeOf[d] = y /\ a \in A THEN 1 ELSE 0
    <3>1. IsFiniteSet(Owing(d, a)) /\ Cardinality(Owing(d, a)) \in Nat
      BY OwingFinite, Zenon
    <3>2. CASE TypeOf[d] = y /\ a \in A
      <4>1. Cardinality(Owing(d, a) \union {t}) = Cardinality(Owing(d, a)) + 1
        BY <2>3, <3>1, FS_AddElement, Zenon
      <4> QED
        BY <2>6, <3>1, <3>2, <4>1, Zenon
    <3>3. CASE ~(TypeOf[d] = y /\ a \in A)
      BY <2>6, <3>1, <3>3, SMTT(20)
    <3> QED
      BY <3>2, <3>3
  <2>8. got[d][a] \in Nat /\ transitions[TypeOf[d]][a] \in Nat
    BY <2>2, SMTT(20) DEF AnnounceInv, Told
  <2>9. got[d][a] + Cardinality(Owing(d, a)) <= transitions[TypeOf[d]][a]
    BY Zenon DEF AnnounceInv, Told
  <2>10. d \in Initially /\ Registered(d) =>
           got[d][a] + Cardinality(Owing(d, a)) = transitions[TypeOf[d]][a]
    BY Zenon DEF AnnounceInv, Told
  <2>11. transitions'[TypeOf[d]][a] = transitions[TypeOf[d]][a] + IF TypeOf[d] = y /\ a \in A THEN 1 ELSE 0
    BY <1>6, <2>2, Zenon
  <2>12. got'[d][a] + Cardinality(Owing(d, a)') <= transitions'[TypeOf[d]][a]
    BY <1>1, <2>7, <2>8, <2>9, <2>11, SMTT(20)
  <2>13. ASSUME d \in Initially, Registered(d)'
         PROVE  got'[d][a] + Cardinality(Owing(d, a)') = transitions'[TypeOf[d]][a]
    <3>1. got[d][a] + Cardinality(Owing(d, a)) = transitions[TypeOf[d]][a]
      BY <1>2, <2>10, <2>13
    <3> QED
      BY <1>1, <2>7, <2>8, <2>11, <3>1, SMTT(20)
  <2> QED
    BY <2>12, <2>13, Zenon
<1> QED
  BY <1>3, <1>4, <1>5, <1>7, Zenon DEF AnnounceInv

\* set() and clear() find a transition to announce, or none.
LEMMA OneTransitionKeeps ==
    ASSUME BusInv, AnnounceInv, NEW t \in Threads, Free(t), UNCHANGED <<busVars, got>>,
           active_' \subseteq Alarms, NEW y \in Types, NEW a \in Alarms,
           pending' = [pending EXCEPT ![t] = <<Event(y, a)>>],
           transitions' = [transitions EXCEPT ![y][a] = @ + 1]
    PROVE  AnnounceInv'
<1>1. PICK q : q = <<Event(y, a)>>
  BY Zenon
<1>2. Event(y, a) \in Events
  BY DEF Event, Events
<1>3. q \in Seq(Events) /\ DOMAIN q = {1} /\ q[1] = Event(y, a)
  BY <1>1, <1>2
<1>4. Once(q)
  BY <1>3 DEF Once
<1>5. ASSUME NEW e \in Events PROVE Has(q, e) <=> e.type = y /\ e.alarm \in {a}
  <2>1. Has(q, e) <=> e = Event(y, a)
    BY <1>3 DEF Has
  <2>2. e.type = y /\ e.alarm = a <=> e = Event(y, a)
    BY DEF Events, Event
  <2> QED
    BY <2>1, <2>2
<1>6. transitions \in [Types -> [Alarms -> Nat]]
  BY DEF AnnounceInv, Told
<1>7. /\ transitions' \in [Types -> [Alarms -> Nat]]
      /\ \A z \in Types : \A b \in Alarms :
           transitions'[z][b] = transitions[z][b] + IF z = y /\ b \in {a} THEN 1 ELSE 0
  BY <1>6
<1>8. {a} \in SUBSET Alarms /\ pending' = [pending EXCEPT ![t] = q]
  BY <1>1
<1>9. Makes(t, y, {a}, q)
  BY <1>3, <1>4, <1>5, <1>7, <1>8, Zenon DEF Makes
<1> QED
  BY <1>8, <1>9, TransitionKeeps

LEMMA StutterKeepsAnnounce ==
    ASSUME BusInv, AnnounceInv, UNCHANGED <<busVars, pending, transitions, got>>, active_' \subseteq Alarms
    PROVE  AnnounceInv'
<1>1. /\ \A d : Registered(d)' <=> Registered(d)
      /\ \A d, a : Owing(d, a)' = Owing(d, a)
  BY DEF Registered, Owing, busVars
<1>2. Told'
  BY <1>1, ToldKept DEF AnnounceInv
<1> QED
  BY <1>1, <1>2 DEF AnnounceInv, Lists, OffTheList, Announcing, busVars, Registered

LEMMA SetKeeps ==
    ASSUME BusInv, AnnounceInv, NEW t \in Threads, NEW a \in Alarms, set(t, a) \/ clear(t, a)
    PROVE  AnnounceInv'
<1>1. Free(t) /\ UNCHANGED <<busVars, got>> /\ active_' \subseteq Alarms
  BY DEF set, clear, Calls, AnnounceInv, Announcing
<1>2. "AlarmSet" \in Types /\ "AlarmCleared" \in Types
  BY AlarmAssumption
<1>3. CASE UNCHANGED <<pending, transitions>>
  BY <1>1, <1>3, StutterKeepsAnnounce, Zenon
<1>4. CASE ~UNCHANGED <<pending, transitions>>
  <2>1. \/ /\ pending' = [pending EXCEPT ![t] = <<Event("AlarmSet", a)>>]
           /\ transitions' = [transitions EXCEPT !["AlarmSet"][a] = @ + 1]
        \/ /\ pending' = [pending EXCEPT ![t] = <<Event("AlarmCleared", a)>>]
           /\ transitions' = [transitions EXCEPT !["AlarmCleared"][a] = @ + 1]
    BY <1>4 DEF set, clear
  <2> QED
    BY <1>1, <1>2, <2>1, OneTransitionKeeps, Zenon
<1> QED
  BY <1>3, <1>4

\* clear_all() owes each alarm that was active once, in whatever order.
LEMMA ClearAllKeeps ==
    ASSUME BusInv, AnnounceInv, NEW t \in Threads, clear_all(t)
    PROVE  AnnounceInv'
<1>1. Free(t) /\ UNCHANGED <<busVars, got>> /\ active_' \subseteq Alarms /\ active_ \in SUBSET Alarms
  BY DEF clear_all, Calls, AnnounceInv, Announcing
<1>2. PICK cleared \in Orders(active_) :
        pending' = [pending EXCEPT ![t] =
                      [i \in DOMAIN cleared |-> Event("AlarmCleared", cleared[i])]]
  BY Zenon DEF clear_all
<1>3. /\ cleared \in [1..Cardinality(active_) -> active_]
      /\ \A a \in active_ : \E i \in DOMAIN cleared : \A j \in DOMAIN cleared : cleared[j] = a <=> j = i
  BY DEF Orders
<1>4. Cardinality(active_) \in Nat
  <2>1. IsFiniteSet(Alarms)
    BY AlarmAssumption, FS_Interval DEF Alarms
  <2> QED
    BY <1>1, <2>1, FS_Subset, FS_CardinalityType
<1>5. PICK q : q = [i \in DOMAIN cleared |-> Event("AlarmCleared", cleared[i])]
  BY Zenon
<1>6. "AlarmCleared" \in Types
  BY AlarmAssumption
<1>7. DOMAIN q = DOMAIN cleared /\ \A i \in DOMAIN q : q[i] = Event("AlarmCleared", cleared[i]) /\ cleared[i] \in active_
  BY <1>3, <1>5
<1>8. \A a \in active_ : Event("AlarmCleared", a) \in Events
  BY <1>1, <1>6 DEF Event, Events
<1>9. q \in Seq(Events)
  <2>1. q \in [1..Cardinality(active_) -> Events]
    BY <1>3, <1>5, <1>7, <1>8, Zenon
  <2> QED
    BY <1>4, <2>1
<1>10. Once(q)
  <2> SUFFICES ASSUME NEW i \in DOMAIN q, NEW j \in DOMAIN q, q[i] = q[j] PROVE i = j
    BY Zenon DEF Once
  <2>1. cleared[i] = cleared[j]
    BY <1>7 DEF Event
  <2> QED
    BY <1>3, <1>7, <2>1
<1>11. ASSUME NEW e \in Events PROVE Has(q, e) <=> e.type = "AlarmCleared" /\ e.alarm \in active_
  <2>1. ASSUME Has(q, e) PROVE e.type = "AlarmCleared" /\ e.alarm \in active_
    BY <1>7, <2>1 DEF Has, Event
  <2>2. ASSUME e.type = "AlarmCleared", e.alarm \in active_ PROVE Has(q, e)
    <3>1. PICK i \in DOMAIN cleared : cleared[i] = e.alarm
      BY <1>3, <2>2, Zenon
    <3>2. q[i] = e
      BY <1>7, <2>2, <3>1, Zenon DEF Event, Events
    <3> QED
      BY <1>7, <3>2 DEF Has
  <2> QED
    BY <2>1, <2>2, Zenon
<1>12. /\ transitions' \in [Types -> [Alarms -> Nat]]
       /\ \A z \in Types : \A b \in Alarms :
            transitions'[z][b] = transitions[z][b] + IF z = "AlarmCleared" /\ b \in active_ THEN 1 ELSE 0
  <2>1. transitions \in [Types -> [Alarms -> Nat]]
    BY DEF AnnounceInv, Told
  <2>2. transitions' = [transitions EXCEPT !["AlarmCleared"] =
                          [a \in Alarms |-> IF a \in active_ THEN @[a] + 1 ELSE @[a]]]
    BY Zenon DEF clear_all
  <2> QED
    BY <1>6, <2>1, <2>2
<1>13. Makes(t, "AlarmCleared", active_, q)
  BY <1>1, <1>2, <1>5, <1>9, <1>10, <1>11, <1>12, Zenon DEF Makes
<1> QED
  BY <1>1, <1>6, <1>13, TransitionKeeps, Zenon

\* publish() copies the list: the announcement is now owed to who is on it.
LEMMA AnnouncesKeeps ==
    ASSUME BusInv, AnnounceInv, NEW t \in Threads, Announces(t)
    PROVE  AnnounceInv'
<1>0. PICK e : e = Head(pending[t])
  OBVIOUS
<1>1. /\ pending[t] # <<>> /\ bus[t].event = None
      /\ bus' = [bus EXCEPT ![t].event = e, ![t].todo = subscribers[e.type]]
      /\ pending' = [pending EXCEPT ![t] = Tail(@)]
      /\ UNCHANGED <<subscribers, used, removed, active_, transitions, got>>
  BY <1>0 DEF Announces, publish, Publishing
<1>2. pending \in [Threads -> Seq(Events)] /\ pending[t] \in Seq(Events) /\ Once(pending[t])
  BY DEF AnnounceInv, Announcing
<1>3. /\ Tail(pending[t]) \in Seq(Events) /\ Once(Tail(pending[t]))
      /\ e \in Events /\ Has(pending[t], e) /\ ~Has(Tail(pending[t]), e)
      /\ \A x : x # e => (Has(Tail(pending[t]), x) <=> Has(pending[t], x))
  BY <1>0, <1>1, <1>2, TailHas, Zenon
<1>4. e # None /\ e.type \in Types
  BY <1>3, AlarmAssumption DEF Events
<1>5. /\ bus'[t].event = e /\ bus'[t].todo = subscribers[e.type]
      /\ \A s \in Threads : bus'[s].target = bus[s].target
      /\ \A s \in Threads \ {t} : bus'[s] = bus[s]
  BY <1>1 DEF BusInv, Shapes
<1>6. /\ pending' \in [Threads -> Seq(Events)] /\ pending'[t] = Tail(pending[t])
      /\ \A s \in Threads \ {t} : pending'[s] = pending[s]
  BY <1>1, <1>2, <1>3
<1>7. \A d : Registered(d)' <=> Registered(d)
  BY <1>1 DEF Registered
<1>8. Lists'
  <2>1. /\ subscribers[e.type] \in Seq(Ids) /\ Once(subscribers[e.type])
        /\ \A d \in Ids : Has(subscribers[e.type], d) => TypeOf[d] = e.type
    BY <1>4, Zenon DEF AnnounceInv, Lists
  <2>2. ASSUME NEW s \in Threads
        PROVE  /\ bus'[s].todo \in Seq(Ids) /\ Once(bus'[s].todo)
               /\ \A d \in Ids : Has(bus'[s].todo, d) => TypeOf[d] = bus'[s].event.type
    <3>1. CASE s = t
      BY <1>5, <2>1, <3>1, Zenon
    <3>2. CASE s # t
      BY <1>5, <3>2 DEF AnnounceInv, Lists
    <3> QED
      BY <3>1, <3>2, Zenon
  <2> QED
    BY <1>1, <2>2, Zenon DEF AnnounceInv, Lists
<1>9. OffTheList'
  <2>1. \A d \in Ids : removed'[d] => d \in used' /\ ~Registered(d)'
    BY <1>1, <1>7 DEF AnnounceInv, OffTheList
  <2>2. ASSUME NEW s \in Threads, NEW d \in Ids, bus'[s].target = d
        PROVE  d \in used' /\ ~Registered(d)'
    <3>1. bus[s].target = d
      BY <1>5, <2>2
    <3> QED
      BY <1>1, <1>7, <3>1 DEF AnnounceInv, OffTheList
  <2> QED
    BY <2>1, <2>2 DEF OffTheList, Registered
<1>10. Announcing'
  <2>1. ASSUME NEW s \in Threads
        PROVE  /\ Once(pending'[s])
               /\ bus'[s].event # None => bus'[s].event \in Events /\ ~Has(pending'[s], bus'[s].event)
    <3>1. CASE s = t
      BY <1>3, <1>5, <1>6, <3>1, Zenon
    <3>2. CASE s # t
      BY <1>5, <1>6, <3>2 DEF AnnounceInv, Announcing
    <3> QED
      BY <3>1, <3>2
  <2> QED
    BY <1>1, <1>6, <2>1, Zenon DEF AnnounceInv, Announcing
<1>11. Told'
  <2>1. ASSUME NEW d \in Ids, NEW a \in Alarms
        PROVE  /\ Owing(d, a)' \subseteq Owing(d, a)
               /\ Registered(d) => Owing(d, a)' = Owing(d, a)
    <3>1. PICK x : x = Event(TypeOf[d], a)
      BY Zenon
    <3>2. \A s \in Threads \ {t} : s \in Owing(d, a)' <=> s \in Owing(d, a)
      BY <1>5, <1>6, Zenon DEF Owing
    <3>3. t \in Owing(d, a)' => t \in Owing(d, a)
      BY <1>3, <1>5, <1>6, Zenon DEF Owing
    <3>4. ASSUME Registered(d), t \in Owing(d, a) PROVE t \in Owing(d, a)'
      <4>1. x \in Events /\ x # None /\ x.type = TypeOf[d]
        BY <3>1, BusAssumption, AlarmAssumption DEF Event, Events
      <4>2. Has(pending[t], x)
        BY <1>1, <3>1, <3>4, <4>1, Zenon DEF Owing
      <4>3. CASE x = e
        <5>1. Has(subscribers[e.type], d)
          BY <3>4, <4>1, <4>3, Zenon DEF Registered, Has
        <5> QED
          BY <1>5, <3>1, <4>3, <5>1 DEF Owing
      <4>4. CASE x # e
        BY <1>3, <1>6, <3>1, <4>2, <4>4, Zenon DEF Owing
      <4> QED
        BY <4>3, <4>4, Zenon
    <3>5. Owing(d, a) \subseteq Threads /\ Owing(d, a)' \subseteq Threads
      BY DEF Owing
    <3>6. Owing(d, a)' \subseteq Owing(d, a)
      BY <3>2, <3>3, <3>5, Zenon
    <3>7. ASSUME Registered(d) PROVE Owing(d, a) \subseteq Owing(d, a)'
      BY <3>2, <3>4, <3>5, <3>7, Zenon
    <3> QED
      BY <3>6, <3>7
  <2> QED
    BY <1>1, <1>7, <2>1, ToldKept, Zenon DEF AnnounceInv
<1> QED
  BY <1>8, <1>9, <1>10, <1>11 DEF AnnounceInv

\* Taking the next subscriber off the copy settles the debt to it and to nobody else.
LEMMA TakesNext ==
    ASSUME BusInv, AnnounceInv, NEW t \in Threads, CallsNext(t), NEW h, h = Head(bus[t].todo),
           UNCHANGED <<subscribers, used, removed, active_, pending>>,
           bus'[t].todo = Tail(bus[t].todo),
           \A s \in Threads : bus'[s].event = bus[s].event /\ bus'[s].target = bus[s].target,
           \A s \in Threads \ {t} : bus'[s].todo = bus[s].todo
    PROVE  /\ Lists' /\ OffTheList' /\ Announcing'
           /\ h \in Ids /\ bus[t].event \in Events /\ bus[t].event = Event(TypeOf[h], bus[t].event.alarm)
           /\ \A d \in Ids : \A a \in Alarms :
                IF d = h /\ a = bus[t].event.alarm
                THEN t \in Owing(d, a) /\ Owing(d, a)' = Owing(d, a) \ {t}
                ELSE Owing(d, a)' = Owing(d, a)
<1>1. bus[t].event # None /\ bus[t].todo # <<>> /\ bus[t].todo \in Seq(Ids) /\ Once(bus[t].todo)
  BY Zenon DEF CallsNext, Publishing, AnnounceInv, Lists
<1>2. /\ Tail(bus[t].todo) \in Seq(Ids) /\ Once(Tail(bus[t].todo))
      /\ h \in Ids /\ Has(bus[t].todo, h) /\ ~Has(Tail(bus[t].todo), h)
      /\ \A x : x # h => (Has(Tail(bus[t].todo), x) <=> Has(bus[t].todo, x))
  BY <1>1, TailHas, Zenon
<1>3. bus[t].event \in Events /\ ~Has(pending[t], bus[t].event) /\ TypeOf[h] = bus[t].event.type
  BY <1>1, <1>2, Zenon DEF AnnounceInv, Announcing, Lists
<1>4. bus[t].event = Event(TypeOf[h], bus[t].event.alarm)
  BY <1>3, Zenon DEF Events, Event
<1>5. Lists'
  <2>1. ASSUME NEW s \in Threads
        PROVE  /\ bus'[s].todo \in Seq(Ids) /\ Once(bus'[s].todo)
               /\ \A d \in Ids : Has(bus'[s].todo, d) => TypeOf[d] = bus'[s].event.type
    <3>1. CASE s = t
      <4>1. \A d \in Ids : Has(Tail(bus[t].todo), d) => TypeOf[d] = bus[t].event.type
        BY <1>2, Zenon DEF AnnounceInv, Lists
      <4> QED
        BY <1>2, <3>1, <4>1, Zenon
    <3>2. CASE s # t
      BY <3>2 DEF AnnounceInv, Lists
    <3> QED
      BY <3>1, <3>2, Zenon
  <2> QED
    BY <2>1, Zenon DEF AnnounceInv, Lists
<1>6. OffTheList'
  BY DEF AnnounceInv, OffTheList, Registered
<1>7. Announcing'
  BY Zenon DEF AnnounceInv, Announcing
<1>8. ASSUME NEW d \in Ids, NEW a \in Alarms
      PROVE  IF d = h /\ a = bus[t].event.alarm
             THEN t \in Owing(d, a) /\ Owing(d, a)' = Owing(d, a) \ {t}
             ELSE Owing(d, a)' = Owing(d, a)
  <2>1. \A s \in Threads \ {t} : s \in Owing(d, a)' <=> s \in Owing(d, a)
    BY Zenon DEF Owing
  <2>2. Owing(d, a) \subseteq Threads /\ Owing(d, a)' \subseteq Threads
    BY Zenon DEF Owing
  <2>3. CASE d = h /\ a = bus[t].event.alarm
    <3>1. t \in Owing(d, a)
      BY <1>2, <1>4, <2>3, Zenon DEF Owing
    <3>2. t \notin Owing(d, a)'
      BY <1>2, <1>3, <1>4, <2>3, Zenon DEF Owing
    <3> QED
      BY <2>1, <2>2, <2>3, <3>1, <3>2, Zenon
  <2>4. CASE d # h
    <3>1. t \in Owing(d, a)' <=> t \in Owing(d, a)
      BY <1>2, <2>4, Zenon DEF Owing
    <3>2. Owing(d, a)' = Owing(d, a)
      <4>1. \A s \in Threads : s \in Owing(d, a)' <=> s \in Owing(d, a)
        BY <2>1, <3>1, Zenon
      <4> QED
        BY <2>2, <4>1, Zenon
    <3> QED
      BY <2>4, <3>2, Zenon
  <2>5. CASE d = h /\ a # bus[t].event.alarm
    <3>1. bus[t].event # Event(TypeOf[d], a)
      BY <2>5 DEF Event
    <3>2. t \in Owing(d, a)' <=> t \in Owing(d, a)
      BY <3>1 DEF Owing
    <3>3. Owing(d, a)' = Owing(d, a)
      <4>1. \A s \in Threads : s \in Owing(d, a)' <=> s \in Owing(d, a)
        BY <2>1, <3>2, Zenon
      <4> QED
        BY <2>2, <4>1, Zenon
    <3> QED
      BY <2>5, <3>3, Zenon
  <2> QED
    BY <2>3, <2>4, <2>5, Zenon
<1> QED
  BY <1>2, <1>3, <1>4, <1>5, <1>6, <1>7, <1>8, Zenon

\* A removed subscriber is not told; it is off the list, so it need not be.
LEMMA SkipKeeps ==
    ASSUME BusInv, AnnounceInv, NEW t \in Threads, SkipsRemoved(t), UNCHANGED alarmVars
    PROVE  AnnounceInv'
<1>0. PICK h : h = Head(bus[t].todo)
  OBVIOUS
<1>1. /\ CallsNext(t) /\ removed[h] /\ bus' = [bus EXCEPT ![t].todo = Tail(@)]
      /\ UNCHANGED <<subscribers, used, removed>>
  BY <1>0 DEF SkipsRemoved
<1>2. /\ bus'[t].todo = Tail(bus[t].todo)
      /\ \A s \in Threads : bus'[s].event = bus[s].event /\ bus'[s].target = bus[s].target
      /\ \A s \in Threads \ {t} : bus'[s].todo = bus[s].todo
  BY <1>1 DEF BusInv, Shapes
<1>3. UNCHANGED <<active_, pending, transitions, got>>
  BY DEF alarmVars
<1>4. /\ Lists' /\ OffTheList' /\ Announcing' /\ h \in Ids
      /\ \A d \in Ids : \A a \in Alarms :
           IF d = h /\ a = bus[t].event.alarm
           THEN t \in Owing(d, a) /\ Owing(d, a)' = Owing(d, a) \ {t}
           ELSE Owing(d, a)' = Owing(d, a)
  BY <1>0, <1>1, <1>2, <1>3, TakesNext
<1>5. ~Registered(h) /\ \A d : Registered(d)' <=> Registered(d)
  BY <1>1, <1>4, Zenon DEF AnnounceInv, OffTheList, Registered
<1>6. Told'
  BY <1>3, <1>4, <1>5, ToldKept, Zenon DEF AnnounceInv
<1> QED
  BY <1>4, <1>6 DEF AnnounceInv

\* The handler is called and takes note.
LEMMA HandlesKeeps ==
    ASSUME BusInv, AnnounceInv, NEW t \in Threads, Handles(t)
    PROVE  AnnounceInv'
<1> DEFINE h == Head(bus[t].todo)
           e == bus[t].event
<1>1. /\ CallsNext(t) /\ bus' = [bus EXCEPT ![t].todo = Tail(@), ![t].inside = h]
      /\ got' = [got EXCEPT ![h][e.alarm] = @ + 1]
      /\ UNCHANGED <<subscribers, used, removed, active_, pending, transitions>>
  BY Zenon DEF Handles, StartsHandler
<1>2. /\ bus'[t].todo = Tail(bus[t].todo)
      /\ \A s \in Threads : bus'[s].event = bus[s].event /\ bus'[s].target = bus[s].target
      /\ \A s \in Threads \ {t} : bus'[s].todo = bus[s].todo
  BY <1>1, Zenon DEF BusInv, Shapes
<1>3. /\ Lists' /\ OffTheList' /\ Announcing' /\ h \in Ids /\ e \in Events
      /\ \A d \in Ids : \A a \in Alarms :
           IF d = h /\ a = e.alarm
           THEN t \in Owing(d, a) /\ Owing(d, a)' = Owing(d, a) \ {t}
           ELSE Owing(d, a)' = Owing(d, a)
  BY <1>1, <1>2, TakesNext, Zenon
<1> HIDE DEF h, e
<1>4. \A d : Registered(d)' <=> Registered(d)
  BY <1>1 DEF Registered
<1>5. got \in [Ids -> [Alarms -> Nat]] /\ e.alarm \in Alarms
  BY <1>3 DEF AnnounceInv, Told, Events
<1>6. /\ got' \in [Ids -> [Alarms -> Nat]]
      /\ \A d \in Ids : \A a \in Alarms :
           got'[d][a] = got[d][a] + IF d = h /\ a = e.alarm THEN 1 ELSE 0
  BY <1>1, <1>3, <1>5
<1>7. ASSUME NEW d \in Ids, NEW a \in Alarms
      PROVE  got'[d][a] + Cardinality(Owing(d, a)') = got[d][a] + Cardinality(Owing(d, a))
  <2>1. IsFiniteSet(Owing(d, a)) /\ Cardinality(Owing(d, a)) \in Nat /\ got[d][a] \in Nat
    BY <1>5, OwingFinite, Zenon
  <2>2. CASE d = h /\ a = e.alarm
    <3>1. t \in Owing(d, a) /\ Owing(d, a)' = Owing(d, a) \ {t}
      BY <1>3, <2>2, Zenon
    <3>2. Cardinality(Owing(d, a) \ {t}) = Cardinality(Owing(d, a)) - 1
      BY <2>1, <3>1, FS_RemoveElement, Zenon
    <3>3. got'[d][a] = got[d][a] + 1
      BY <1>6, <2>2, Zenon
    <3> QED
      BY <2>1, <3>1, <3>2, <3>3
  <2>3. CASE ~(d = h /\ a = e.alarm)
    <3>1. Owing(d, a)' = Owing(d, a)
      BY <1>3, <2>3, Zenon
    <3>2. got'[d][a] = got[d][a] + 0
      BY <1>6, <2>3
    <3> QED
      BY <2>1, <3>1, <3>2
  <2> QED
    BY <2>2, <2>3
<1>8. Told'
  <2> SUFFICES ASSUME NEW d \in Ids, NEW a \in Alarms
               PROVE  /\ got'[d][a] + Cardinality(Owing(d, a)') <= transitions'[TypeOf[d]][a]
                      /\ d \in Initially /\ Registered(d)' =>
                           got'[d][a] + Cardinality(Owing(d, a)') = transitions'[TypeOf[d]][a]
    BY <1>1, <1>6, Zenon DEF AnnounceInv, Told, Initially
  <2>1. got[d][a] + Cardinality(Owing(d, a)) <= transitions[TypeOf[d]][a]
    BY DEF AnnounceInv, Told
  <2>2. d \in Initially /\ Registered(d) =>
          got[d][a] + Cardinality(Owing(d, a)) = transitions[TypeOf[d]][a]
    BY DEF AnnounceInv, Told
  <2> QED
    BY <1>1, <1>4, <1>7, <2>1, <2>2, Zenon
<1> QED
  BY <1>3, <1>8, Zenon DEF AnnounceInv

LEMMA ReturnKeeps ==
    ASSUME BusInv, AnnounceInv, NEW t \in Threads, publishReturns(t), UNCHANGED alarmVars
    PROVE  AnnounceInv'
<1>1. /\ bus[t].todo = <<>> /\ bus' = [bus EXCEPT ![t].event = None]
      /\ UNCHANGED <<subscribers, used, removed, active_, pending, transitions, got>>
  BY DEF publishReturns, alarmVars
<1>2. /\ bus'[t].event = None /\ \A s \in Threads \ {t} : bus'[s] = bus[s]
      /\ \A s \in Threads : bus'[s].todo = bus[s].todo /\ bus'[s].target = bus[s].target
  BY <1>1 DEF BusInv, Shapes
<1>3. \A d : ~Has(bus[t].todo, d)
  BY <1>1 DEF Has
<1>4. Lists'
  BY <1>1, <1>2, <1>3 DEF AnnounceInv, Lists
<1>5. OffTheList' /\ \A d : Registered(d)' <=> Registered(d)
  BY <1>1, <1>2 DEF AnnounceInv, OffTheList, Registered
<1>6. Announcing'
  BY <1>1, <1>2 DEF AnnounceInv, Announcing
<1>7. Told'
  <2>1. \A d, a : Owing(d, a)' = Owing(d, a)
    BY <1>1, <1>2, <1>3 DEF Owing
  <2> QED
    BY <1>1, <1>5, <2>1, ToldKept DEF AnnounceInv
<1> QED
  BY <1>4, <1>5, <1>6, <1>7 DEF AnnounceInv

-----------------------------------------------------------------------------
LEMMA InitAnnounces == Init => AnnounceInv /\ Initially \subseteq used
<1> SUFFICES ASSUME Init PROVE AnnounceInv /\ Initially \subseteq used
  OBVIOUS
<1>1. /\ subscribers = Subscribed /\ used = {d \in Ids : Registered(d)}
      /\ removed = [d \in Ids |-> FALSE]
      /\ active_ = {} /\ pending = [t \in Threads |-> <<>>]
      /\ transitions = [y \in Types |-> [a \in Alarms |-> 0]]
      /\ got = [d \in Ids |-> [a \in Alarms |-> 0]]
  BY Zenon DEF Init, BusInit
<1>2. \A t \in Threads : bus[t].event = None /\ bus[t].todo = <<>> /\ bus[t].target = None
  BY DEF Init, BusInit, Outside
<1>3. \A x : ~Has(<<>>, x)
  BY DEF Has
<1>4. Lists
  <2>1. \A y \in Types : \A d \in Ids : Has(subscribers[y], d) => TypeOf[d] = y /\ Registered(d)
    BY <1>1, BusAssumption DEF Has, Registered
  <2>2. \A y \in Types : Once(subscribers[y])
    BY <1>1, BusAssumption DEF Once
  <2>3. <<>> \in Seq(Ids) /\ Once(<<>>)
    BY DEF Once
  <2>4. \A t \in Threads : bus[t].todo \in Seq(Ids) /\ Once(bus[t].todo)
    BY <1>2, <2>3, Zenon
  <2>5. \A t \in Threads : \A d \in Ids : ~Has(bus[t].todo, d)
    BY <1>2, <1>3, Zenon
  <2> QED
    BY <1>1, <2>1, <2>2, <2>4, <2>5, BusAssumption, Zenon DEF Lists
<1>5. OffTheList
  BY <1>1, <1>2, BusAssumption, Zenon DEF OffTheList
<1>6. Announcing
  <2>1. <<>> \in Seq(Events) /\ Once(<<>>)
    BY DEF Once
  <2> QED
    BY <1>1, <1>2, <2>1 DEF Announcing
<1>7. Told
  <2>1. \A d, a : Owing(d, a) = {}
    BY <1>1, <1>2, <1>3 DEF Owing
  <2>2. Cardinality({}) = 0
    BY FS_EmptySet
  <2>3. \A d \in Ids : TypeOf[d] \in Types
    BY BusAssumption, Zenon
  <2>4. ASSUME NEW d \in Ids, NEW a \in Alarms
        PROVE  got[d][a] + Cardinality(Owing(d, a)) = transitions[TypeOf[d]][a] /\ transitions[TypeOf[d]][a] = 0
    <3>1. got[d][a] = 0
      BY <1>1
    <3>2. transitions[TypeOf[d]][a] = 0
      BY <1>1, <2>3
    <3>3. Cardinality(Owing(d, a)) = 0
      BY <2>1, <2>2
    <3> QED
      BY <3>1, <3>2, <3>3
  <2>5. transitions \in [Types -> [Alarms -> Nat]] /\ got \in [Ids -> [Alarms -> Nat]]
    BY <1>1, Zenon
  <2> QED
    BY <2>4, <2>5 DEF Told
<1>8. Initially \subseteq used
  BY <1>1, Zenon DEF Initially, Registered
<1> QED
  BY <1>4, <1>5, <1>6, <1>7, <1>8 DEF AnnounceInv

\* Waiting, with the subscriber marked or not.
LEMMA WaitKeepsAnnounce ==
    ASSUME BusInv, AnnounceInv, NEW t \in Threads, Returns(t) \/ WaitsIdle(t),
           UNCHANGED <<alarmVars, subscribers, used>>,
           \A d \in Ids : removed'[d] => removed[d] \/ d = bus[t].target
    PROVE  AnnounceInv'
<1>1. \A s \in Threads : /\ bus'[s].event = bus[s].event /\ bus'[s].todo = bus[s].todo
                         /\ bus'[s].target \in {bus[s].target, None}
  BY DEF Returns, WaitsIdle, BusInv, Shapes
<1>2. \A d \in Ids : removed'[d] => removed[d] \/ \E s \in Threads : bus[s].target = d
  OBVIOUS
<1> QED
  BY <1>1, <1>2, QuietStepKeeps

LEMMA BusKeepsAnnounce ==
    ASSUME BusInv, AnnounceInv, NEW t \in Threads, BusStep(t) \/ SpuriousWake(t), UNCHANGED alarmVars
    PROVE  AnnounceInv'
<1>1. CASE SkipsRemoved(t)
  BY <1>1, SkipKeeps
<1>2. CASE publishReturns(t)
  BY <1>2, ReturnKeeps, Zenon
<1>3. CASE NotifiesIdle(t) \/ LeavesHandler(t) \/ SpuriousWake(t)
  <2>1. UNCHANGED <<subscribers, used, removed>>
    BY <1>3, Zenon DEF NotifiesIdle, LeavesHandler, SpuriousWake
  <2>2. \A s \in Threads : /\ bus'[s].event = bus[s].event /\ bus'[s].todo = bus[s].todo
                           /\ bus'[s].target = bus[s].target
    <3>1. CASE NotifiesIdle(t)
      BY <3>1 DEF NotifiesIdle, BusInv, Shapes
    <3>2. CASE LeavesHandler(t)
      BY <3>2 DEF LeavesHandler, BusInv, Shapes
    <3>3. CASE SpuriousWake(t)
      BY <3>3, Zenon DEF SpuriousWake, BusInv, Shapes
    <3> QED
      BY <1>3, <3>1, <3>2, <3>3
  <2>3. \A s \in Threads : /\ bus'[s].event = bus[s].event /\ bus'[s].todo = bus[s].todo
                           /\ bus'[s].target \in {bus[s].target, None}
    BY <2>2
  <2>4. \A d \in Ids : removed'[d] => removed[d] \/ \E s \in Threads : bus[s].target = d
    BY <2>1
  <2> QED
    BY <2>1, <2>3, <2>4, QuietStepKeeps, Zenon
<1>4. CASE MarksRemoved(t)
  <2>1. /\ removed' = [removed EXCEPT ![bus[t].target] = TRUE] /\ UNCHANGED <<subscribers, used>>
        /\ Returns(t) \/ WaitsIdle(t)
    BY <1>4, Zenon DEF MarksRemoved
  <2>2. \A d \in Ids : removed'[d] => removed[d] \/ d = bus[t].target
    BY <2>1, Zenon DEF BusInv, Shapes
  <2> QED
    BY <2>1, <2>2, WaitKeepsAnnounce, Zenon
<1>5. CASE ResumesWait(t)
  <2>1. WaitsIdle(t) /\ UNCHANGED <<subscribers, used, removed>>
    BY <1>5, Zenon DEF ResumesWait
  <2> QED
    BY <2>1, WaitKeepsAnnounce, Zenon
<1> QED
  BY <1>1, <1>2, <1>3, <1>4, <1>5, Zenon DEF BusStep

LEMMA NextAnnounces ==
    BusInv /\ AnnounceInv /\ Initially \subseteq used /\ [Next]_vars => AnnounceInv' /\ (Initially \subseteq used)'
<1> SUFFICES ASSUME BusInv, AnnounceInv, Initially \subseteq used, [Next]_vars
             PROVE  AnnounceInv' /\ (Initially \subseteq used)'
  OBVIOUS
<1>1. CASE UNCHANGED vars \/ Finished
  <2>1. UNCHANGED <<busVars, pending, transitions, got>> /\ active_' = active_
    BY <1>1, Zenon DEF Finished, vars, alarmVars
  <2>2. AnnounceInv'
    BY <2>1, StutterKeepsAnnounce, Zenon DEF AnnounceInv, Announcing
  <2> QED
    BY <2>1, <2>2 DEF Initially, busVars
<1>2. ASSUME NEW t \in Users, (\E a \in Alarms : set(t, a) \/ clear(t, a)) \/ clear_all(t)
      PROVE  AnnounceInv' /\ (Initially \subseteq used)'
  <2>1. t \in Threads
    BY AlarmAssumption
  <2>2. AnnounceInv'
    BY <1>2, <2>1, SetKeeps, ClearAllKeeps, Zenon
  <2>3. UNCHANGED used
    BY <1>2 DEF set, clear, clear_all, Calls, busVars
  <2> QED
    BY <2>2, <2>3 DEF Initially
<1>3. ASSUME NEW t \in Threads, Announces(t) \/ Handles(t)
      PROVE  AnnounceInv' /\ (Initially \subseteq used)'
  <2>1. AnnounceInv'
    BY <1>3, AnnouncesKeeps, HandlesKeeps, Zenon
  <2>2. UNCHANGED used
    BY <1>3 DEF Announces, publish, Handles, StartsHandler
  <2> QED
    BY <2>1, <2>2 DEF Initially
<1>4. ASSUME NEW t \in Threads, BusContinues(t) \/ WakesForNothing(t)
      PROVE  AnnounceInv' /\ (Initially \subseteq used)'
  <2>1. AnnounceInv'
    BY <1>4, BusKeepsAnnounce, Zenon DEF BusContinues, WakesForNothing
  <2>2. UNCHANGED used
    BY <1>4 DEF BusContinues, WakesForNothing, BusStep, SpuriousWake, SkipsRemoved, NotifiesIdle,
                LeavesHandler, publishReturns, MarksRemoved, ResumesWait
  <2> QED
    BY <2>1, <2>2 DEF Initially
<1>5. ASSUME NEW t \in Threads, ChangesSubscription(t)
      PROVE  AnnounceInv' /\ (Initially \subseteq used)'
  <2>1. PICK d \in Ids : subscribe(t, d) \/ unsubscribe(t, d)
    BY <1>5 DEF ChangesSubscription
  <2>2. UNCHANGED alarmVars
    BY <1>5 DEF ChangesSubscription
  <2>3. AnnounceInv'
    BY <2>1, <2>2, SubscribeKeeps, UnsubscribeKeeps, Zenon
  <2>4. used \subseteq used'
    BY <2>1 DEF subscribe, unsubscribe
  <2> QED
    BY <2>3, <2>4 DEF Initially
<1> QED
  BY <1>1, <1>2, <1>3, <1>4, <1>5, Zenon DEF Next, ThreadStep

\* When nobody owes anything, what was told is what happened.
LEMMA ToldIsAll == AnnounceInv => AnnouncedOnce
<1> SUFFICES ASSUME AnnounceInv PROVE AnnouncedOnce
  OBVIOUS
<1>1. ASSUME NEW d \in Ids, NEW a \in Alarms PROVE got[d][a] <= transitions[TypeOf[d]][a]
  <2>1. got[d][a] \in Nat /\ transitions[TypeOf[d]][a] \in Nat /\ Cardinality(Owing(d, a)) \in Nat
    BY OwingFinite, BusAssumption DEF AnnounceInv, Told
  <2>2. got[d][a] + Cardinality(Owing(d, a)) <= transitions[TypeOf[d]][a]
    BY Zenon DEF AnnounceInv, Told
  <2> QED
    BY <2>1, <2>2
<1>2. ASSUME Quiescent, NEW d \in Initially, Registered(d) PROVE got[d] = transitions[TypeOf[d]]
  <2>1. d \in Ids /\ TypeOf[d] \in Types
    BY BusAssumption DEF Initially
  <2>2. got[d] \in [Alarms -> Nat] /\ transitions[TypeOf[d]] \in [Alarms -> Nat]
    BY <2>1 DEF AnnounceInv, Told
  <2>3. ASSUME NEW a \in Alarms PROVE got[d][a] = transitions[TypeOf[d]][a]
    <3>1. Event(TypeOf[d], a) # None
      BY <2>1, AlarmAssumption, SMTT(20) DEF Event
    <3>2. \A t \in Threads : pending[t] = <<>> /\ bus[t].event = None
      BY <1>2, Zenon DEF Quiescent, Free, Publishing
    <3>3. Owing(d, a) = {}
      BY <3>1, <3>2, SMTT(20) DEF Owing, Has
    <3>4. Cardinality(Owing(d, a)) = 0
      BY <3>3, FS_EmptySet, Zenon
    <3>5. got[d][a] + Cardinality(Owing(d, a)) = transitions[TypeOf[d]][a]
      BY <1>2, <2>1, Zenon DEF AnnounceInv, Told
    <3>6. got[d][a] \in Nat
      BY <2>2
    <3> QED
      BY <3>4, <3>5, <3>6
  <2> QED
    BY <2>2, <2>3, SMTT(20)
<1> QED
  BY <1>1, <1>2 DEF AnnouncedOnce

\* FR-ALM-2 for any threads, subscriptions and alarms: whichever threads call set(), clear()
\* and clear_all(), no subscriber is told of more transitions than there were, and when
\* all calls have returned one that was there from the start and still is has been told of
\* each exactly once.
THEOREM EachTransitionIsAnnouncedOnce == Spec => []AnnouncedOnce
<1> QED
  BY InitEstablishes, NextKeeps, InitAnnounces, NextAnnounces, ToldIsAll, PTL DEF Spec
=============================================================================
