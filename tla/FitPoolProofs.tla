---------------------------- MODULE FitPoolProofs ----------------------------
(***************************************************************************)
(* For any number of threads, calls and indices and any capacity of the    *)
(* queue: the blocking queue implements the bounded channel, with both     *)
(* policies, and no job of the fit pool outlives the call it belongs to.   *)
(* What the pool promises any user it promises run_pipeline(), whose       *)
(* result is the one a single thread would compute.                        *)
(***************************************************************************)
EXTENDS Pipeline, FiniteSetTheorems, TLAPS

-----------------------------------------------------------------------------
(* The blocking queue. *)

Places == {"outside", "pushed", "pushAsleep", "pushWoken", "popAsleep", "popWoken", "popped",
           "closedIt", "closeWoke"}

\* A push() that waits brings an item.
QueueInv ==
    /\ items_ \in Seq(Items)
    /\ closed_ \in BOOLEAN
    /\ at \in [Threads -> Places]
    /\ holding \in [Threads -> Items \union {NoItem}]
    /\ \A t \in Threads : at[t] \in {"pushAsleep", "pushWoken"} => holding[t] \in Items

\* What a step may do to the items and the end of the channel, apart from nothing.
ChannelStep == Fifo!Next \/ UNCHANGED <<items_, closed_, received, ended>>

-----------------------------------------------------------------------------
LEMMA QueueInitInv == QueueInit => QueueInv
<1> SUFFICES ASSUME QueueInit PROVE QueueInv
  OBVIOUS
<1>0. closed_ \in BOOLEAN
  BY Zenon DEF QueueInit
<1>1. items_ \in Seq(Items)
  BY DEF QueueInit
<1>2. at \in [Threads -> Places] /\ holding \in [Threads -> Items \union {NoItem}]
  BY DEF QueueInit, Places
<1>3. \A t \in Threads : at[t] = "outside"
  BY DEF QueueInit
<1> QED
  BY <1>0, <1>1, <1>2, <1>3 DEF QueueInv

\* A notification moves sleepers of one condition variable on, and its sender out.
LEMMA NotifyOneKeeps ==
    ASSUME QueueInv, NEW t \in Threads, NEW asleep \in Places, NEW woken \in Places,
           at[t] \notin {"pushAsleep", "pushWoken"},
           woken = "pushWoken" => asleep = "pushAsleep", woken # "pushAsleep",
           NotifyOne(t, asleep, woken), UNCHANGED <<items_, closed_, holding>>
    PROVE  QueueInv'
<1>1. at' \in [Threads -> Places]
  BY DEF QueueInv, NotifyOne, Goes, Places
<1>2. \A s \in Threads : at'[s] \in {"pushAsleep", "pushWoken"} => at[s] \in {"pushAsleep", "pushWoken"}
  BY DEF QueueInv, NotifyOne, Goes
<1> QED
  BY <1>1, <1>2 DEF QueueInv

LEMMA NotifyAllKeeps ==
    ASSUME QueueInv, NEW t \in Threads, NEW place \in {"closeWoke", "outside"},
           NEW asleep \in Places, NEW woken \in Places,
           woken = "pushWoken" => asleep = "pushAsleep", woken # "pushAsleep",
           NotifyAll(t, place, asleep, woken), UNCHANGED <<items_, closed_, holding>>
    PROVE  QueueInv'
<1>1. at' \in [Threads -> Places]
  BY DEF QueueInv, NotifyAll, Places
<1>2. \A s \in Threads : at'[s] \in {"pushAsleep", "pushWoken"} => at[s] \in {"pushAsleep", "pushWoken"}
  BY DEF QueueInv, NotifyAll
<1> QED
  BY <1>1, <1>2 DEF QueueInv

\* push(), at first or after waiting: refused, appended while there is room and the queue is
\* open, or asleep.
LEMMA PushKeeps ==
    ASSUME QueueInv, NEW t \in Threads, NEW x \in Items,
           \/ PushFails(t)
           \/ ~closed_ /\ Len(items_) < Capacity /\ PushAppends(t, x)
           \/ PushSleeps(t, x)
    PROVE  QueueInv' /\ ChannelStep
<1>1. CASE PushFails(t)
  <2>1. QueueInv'
    BY <1>1 DEF PushFails, Goes, QueueInv, Places
  <2> QED
    BY <1>1, <2>1 DEF PushFails, ChannelStep
<1>2. CASE ~closed_ /\ Len(items_) < Capacity /\ PushAppends(t, x)
  <2>1. QueueInv'
    BY <1>2 DEF PushAppends, Goes, QueueInv, Places
  <2>2. Fifo!Push(x)
    BY <1>2 DEF PushAppends, Fifo!Push
  <2> QED
    BY <2>1, <2>2 DEF ChannelStep, Fifo!Next
<1>3. CASE PushSleeps(t, x)
  <2>1. QueueInv'
    BY <1>3 DEF PushSleeps, Goes, QueueInv, Places
  <2> QED
    BY <1>3, <2>1 DEF PushSleeps, ChannelStep
<1> QED
  BY <1>1, <1>2, <1>3

\* pop(): the oldest item, the end, or asleep.
LEMMA PopKeeps ==
    ASSUME QueueInv, NEW t \in Threads, PopSection(t)
    PROVE  QueueInv' /\ ChannelStep
<1>1. CASE items_ # <<>>
  <2>1. /\ items_' = Tail(items_)
        /\ received' = Append(received, Head(items_))
        /\ holding' = [holding EXCEPT ![t] = Head(items_)]
        /\ at' = [at EXCEPT ![t] = "popped"]
        /\ UNCHANGED <<closed_, ended>>
    BY <1>1 DEF PopSection, Goes
  <2>2. Tail(items_) \in Seq(Items) /\ Head(items_) \in Items
    BY <1>1 DEF QueueInv
  <2>3. QueueInv'
    BY <2>1, <2>2 DEF QueueInv, Places
  <2>4. Fifo!Pop
    BY <1>1, <2>1 DEF Fifo!Pop
  <2> QED
    BY <2>3, <2>4 DEF ChannelStep, Fifo!Next
<1>2. CASE items_ = <<>> /\ closed_
  <2>1. /\ ended' = TRUE
        /\ holding' = [holding EXCEPT ![t] = NoItem]
        /\ at' = [at EXCEPT ![t] = "outside"]
        /\ UNCHANGED <<items_, closed_, received>>
    BY <1>2 DEF PopSection, Goes
  <2>2. QueueInv'
    BY <2>1 DEF QueueInv, Places
  <2>3. Fifo!End
    BY <1>2, <2>1 DEF Fifo!End
  <2> QED
    BY <2>2, <2>3 DEF ChannelStep, Fifo!Next
<1>3. CASE items_ = <<>> /\ ~closed_
  <2>1. /\ at' = [at EXCEPT ![t] = "popAsleep"]
        /\ UNCHANGED <<items_, closed_, holding, received, ended>>
    BY <1>3 DEF PopSection, Goes
  <2>2. QueueInv'
    BY <2>1 DEF QueueInv, Places
  <2> QED
    BY <2>1, <2>2 DEF ChannelStep
<1> QED
  BY <1>1, <1>2, <1>3

LEMMA QueueStep == QueueInv /\ [QueueNext]_queueVars => QueueInv' /\ ChannelStep
<1> SUFFICES ASSUME QueueInv, [QueueNext]_queueVars PROVE QueueInv' /\ ChannelStep
  OBVIOUS
<1>1. CASE UNCHANGED queueVars
  BY <1>1 DEF queueVars, QueueInv, ChannelStep
<1>2. ASSUME NEW t \in Threads, NEW x \in Items, Push(t, x)
      PROVE  QueueInv' /\ ChannelStep
  BY <1>2, PushKeeps DEF Push
<1>3. ASSUME NEW t \in Threads, PushResumes(t)
      PROVE  QueueInv' /\ ChannelStep
  <2>1. holding[t] \in Items
    BY <1>3 DEF PushResumes, QueueInv
  <2> QED
    BY <1>3, <2>1, PushKeeps DEF PushResumes
<1>4. ASSUME NEW t \in Threads, Pop(t) \/ PopResumes(t)
      PROVE  QueueInv' /\ ChannelStep
  BY <1>4, PopKeeps DEF Pop, PopResumes
<1>5. ASSUME NEW t \in Threads, PushNotifies(t) \/ PopNotifies(t)
      PROVE  QueueInv' /\ ChannelStep
  <2>1. UNCHANGED <<items_, closed_, received, ended, holding>>
    BY <1>5 DEF PushNotifies, PopNotifies
  <2>2. QueueInv'
    BY <1>5, <2>1, NotifyOneKeeps DEF PushNotifies, PopNotifies, Places
  <2> QED
    BY <2>1, <2>2 DEF ChannelStep
<1>6. ASSUME NEW t \in Threads, CloseWakesConsumers(t) \/ CloseWakesProducers(t)
      PROVE  QueueInv' /\ ChannelStep
  <2>1. UNCHANGED <<items_, closed_, received, ended, holding>>
    BY <1>6 DEF CloseWakesConsumers, CloseWakesProducers
  <2>2. QueueInv'
    BY <1>6, <2>1, NotifyAllKeeps DEF CloseWakesConsumers, CloseWakesProducers, Places
  <2> QED
    BY <2>1, <2>2 DEF ChannelStep
<1>7. ASSUME NEW t \in Threads, Close(t)
      PROVE  QueueInv' /\ ChannelStep
  <2>1. QueueInv'
    BY <1>7 DEF Close, Goes, QueueInv, Places
  <2>2. Fifo!Close
    BY <1>7 DEF Close, Fifo!Close
  <2> QED
    BY <2>1, <2>2 DEF ChannelStep, Fifo!Next
<1>8. ASSUME NEW t \in Threads, SpuriousWake(t)
      PROVE  QueueInv' /\ ChannelStep
  <2>1. QueueInv'
    BY <1>8 DEF SpuriousWake, Goes, QueueInv, Places
  <2> QED
    BY <1>8, <2>1 DEF SpuriousWake, ChannelStep
<1> QED
  BY <1>1, <1>2, <1>3, <1>4, <1>5, <1>6, <1>7, <1>8 DEF QueueNext, Continues

\* BoundedQueue::push(), pop() and close(), called by any threads in any order, are steps of
\* the bounded first-in first-out channel or change nothing of it.
THEOREM QueueImplementsFifo == QueueSpec => ImplementsFifo
<1>1. QueueInit => Fifo!Init
  BY DEF QueueInit, Fifo!Init
<1>2. ChannelStep => [Fifo!Next]_(Fifo!vars)
  BY DEF ChannelStep, Fifo!vars
<1> QED
  BY <1>1, <1>2, QueueInitInv, QueueStep, PTL DEF QueueSpec, ImplementsFifo, Fifo!Spec

-----------------------------------------------------------------------------
(* The fit pool.

   The queue is first in, first out and has one producer, so the jobs in it have
   consecutive indices; those that workers hold are older, and differ.  With this,
   what is left to count is what has not run plus what has run and is not yet
   counted. *)

\* The pool with any user: calls of any size, and jobs that do anything of their own.
PoolNext ==
    \/ \E count \in 0..MaxCount : Calls(count)
    \/ \E w \in Workers : WorkerRuns(w)
    \/ Destroys \/ PoolStep

PoolSpec == PoolInit /\ [][PoolNext]_<<queueVars, poolVars>>

-----------------------------------------------------------------------------
(* The inductive invariant. *)

Pushing == at[Caller] \in {"pushAsleep", "pushWoken"}

\* How many jobs of the call have entered the queue, and how many have left it.
Entered == IF Pushing THEN caller.submitted - 1 ELSE caller.submitted
Popped == Entered - Len(items_)

\* The worker has popped a job that it has not run.
Holds(w) == worker[w] = "popping" /\ at[w] \in {"popped", "outside"} /\ holding[w] # NoItem

Uncounted == {w \in Workers : worker[w] = "ran"}

PoolTypes ==
    /\ caller \in [pc : {"idle", "submitting", "asleep", "woken", "joining", "destroyed"},
                   call : 0..MaxCalls, count : 0..MaxCount, submitted : 0..MaxCount]
    /\ caller.submitted <= caller.count
    /\ InCall => caller.call >= 1
    /\ remaining \in Int
    /\ worker \in [Workers -> {"loop", "popping", "ran", "counted", "exited"}]

\* Where a thread is in the queue, given where it is in the pool.
Roles ==
    /\ at[Caller] \in {"outside", "pushed", "pushAsleep", "pushWoken", "closedIt", "closeWoke"}
    /\ caller.pc \notin {"submitting", "joining"} => at[Caller] = "outside"
    /\ Pushing => caller.pc = "submitting" /\ caller.submitted >= 1
    /\ caller.pc # "submitting" => caller.submitted = caller.count
    /\ closed_ => caller.pc \in {"joining", "destroyed"}
    /\ \A w \in Workers :
         /\ at[w] \in {"outside", "popAsleep", "popWoken", "popped"}
         /\ worker[w] # "popping" => at[w] = "outside"
         /\ worker[w] = "counted" => done_mutex = w

\* Where the jobs of the call are.
Transit ==
    /\ Popped \in Nat
    /\ Pushing => holding[Caller] = [call |-> caller.call, index |-> caller.submitted - 1]
    /\ \A i \in DOMAIN items_ : items_[i] = [call |-> caller.call, index |-> Popped + i - 1]
    /\ ran \subseteq 0..Popped - 1
    /\ \A w \in Workers :
         Holds(w) => holding[w].call = caller.call /\ holding[w].index \in (0..Popped - 1) \ ran
    /\ \A v, w \in Workers :
         v # w /\ Holds(v) /\ Holds(w) => holding[v].index # holding[w].index
    /\ \A w \in Workers :
         worker[w] \in {"ran", "counted"} => InCall /\ holding[w].call = caller.call

Count ==
    /\ InCall => remaining + Cardinality(ran) = caller.count + Cardinality(Uncounted)
    /\ ~InCall => /\ items_ = <<>> /\ ran = 0..caller.count - 1
                  /\ \A w \in Workers : ~Holds(w) /\ worker[w] \notin {"ran", "counted"}

PoolInv == QueueInv /\ PoolTypes /\ Roles /\ Transit /\ Count

-----------------------------------------------------------------------------
(* Steps. *)

\* The sets that are counted are finite.
LEMMA CountsFinite ==
    ASSUME PoolInv
    PROVE  /\ IsFiniteSet(Uncounted) /\ Cardinality(Uncounted) \in Nat
           /\ IsFiniteSet(ran) /\ Cardinality(ran) \in Nat /\ Cardinality(ran) <= Popped
           /\ Cardinality(ran) = Popped => ran = 0..Popped - 1
<1>1. IsFiniteSet(Workers)
  BY FS_Subset, QueueAssumption, PoolAssumption
<1>2. IsFiniteSet(Uncounted)
  BY <1>1, FS_Subset DEF Uncounted
<1>3. Popped \in Nat /\ ran \in SUBSET (0..Popped - 1)
  BY DEF PoolInv, Transit
<1>4. IsFiniteSet(0..Popped - 1) /\ Cardinality(0..Popped - 1) = Popped
  <2> DEFINE p == Popped
  <2> HIDE DEF p
  <2>1. p \in Nat => IsFiniteSet(0..p - 1) /\ Cardinality(0..p - 1) = IF 0 > p - 1 THEN 0 ELSE p - 1 - 0 + 1
    BY FS_Interval
  <2>2. p \in Nat => IsFiniteSet(0..p - 1) /\ Cardinality(0..p - 1) = p
    BY <2>1
  <2> QED
    BY <2>2, <1>3 DEF p
<1>5. /\ IsFiniteSet(ran) /\ Cardinality(ran) <= Popped
      /\ Cardinality(ran) = Popped => ran = 0..Popped - 1
  BY <1>3, <1>4, FS_Subset, Zenon
<1> QED
  BY <1>2, <1>5, FS_CardinalityType

\* Steps that leave the jobs of the call where they are.
LEMMA Framed ==
    ASSUME PoolInv, UNCHANGED <<items_, ran, remaining>>,
           caller'.call = caller.call, caller'.count = caller.count,
           caller'.submitted = caller.submitted, InCall' <=> InCall,
           Pushing' <=> Pushing, Pushing => holding'[Caller] = holding[Caller],
           \A w \in Workers :
             /\ Holds(w)' => Holds(w) /\ holding'[w] = holding[w]
             /\ worker'[w] = "ran" <=> worker[w] = "ran"
             /\ worker'[w] = "counted" => worker[w] = "counted"
             /\ worker'[w] \in {"ran", "counted"} => holding'[w] = holding[w]
    PROVE  Transit' /\ Count'
<1>1. Popped' = Popped
  BY DEF Popped, Entered
<1>2. Uncounted' = Uncounted
  BY DEF Uncounted
<1>3. Transit'
  <2> USE DEF PoolInv, Transit
  <2>1. Popped' \in Nat
    BY <1>1
  <2>2. Pushing' => holding'[Caller] = [call |-> caller'.call, index |-> caller'.submitted - 1]
    OBVIOUS
  <2>3. \A i \in DOMAIN items_' : items_'[i] = [call |-> caller'.call, index |-> Popped' + i - 1]
    BY <1>1
  <2>4. ran' \subseteq 0..Popped' - 1
    BY <1>1
  <2>5. \A w \in Workers :
          Holds(w)' => holding'[w].call = caller'.call /\ holding'[w].index \in (0..Popped' - 1) \ ran'
    BY <1>1
  <2>6. \A v, w \in Workers :
          v # w /\ Holds(v)' /\ Holds(w)' => holding'[v].index # holding'[w].index
    OBVIOUS
  <2>7. \A w \in Workers :
          worker'[w] \in {"ran", "counted"} => InCall' /\ holding'[w].call = caller'.call
    OBVIOUS
  <2> QED
    BY <2>1, <2>2, <2>3, <2>4, <2>5, <2>6, <2>7, Zenon
<1>4. Count'
  BY <1>2 DEF PoolInv, Count
<1> QED
  BY <1>3, <1>4

\* A job enters the queue, at once or after waiting for room.
LEMMA EntersQueue ==
    ASSUME PoolInv, NEW job, caller.pc = "submitting",
           job = [call |-> caller.call, index |-> Entered],
           items_' = Append(items_, job), ~Pushing',
           caller'.pc = caller.pc, caller'.call = caller.call, caller'.count = caller.count,
           caller'.submitted = Entered + 1, caller'.submitted \in Nat,
           UNCHANGED <<ran, remaining, worker>>,
           \A w \in Workers : at'[w] = at[w] /\ holding'[w] = holding[w]
    PROVE  Transit' /\ Count'
<1> USE DEF PoolInv, Transit
<1>0. items_ \in Seq(Items) /\ job \in Items => items_' \in Seq(Items)
  OBVIOUS
<1>1. Len(items_') = Len(items_) + 1 /\ Len(items_) \in Nat /\ Entered \in Int
  BY DEF QueueInv, Entered, PoolTypes
<1>2. Popped' = Popped
  BY <1>1 DEF Popped, Entered
<1>3. Uncounted' = Uncounted /\ InCall /\ InCall'
  BY DEF Uncounted, InCall
<1>4. \A i \in DOMAIN items_' : items_'[i] = [call |-> caller'.call, index |-> Popped' + i - 1]
  <2> SUFFICES ASSUME NEW i \in 1..Len(items_) + 1
               PROVE  items_'[i] = [call |-> caller.call, index |-> Popped + i - 1]
    BY <1>1, <1>2 DEF QueueInv
  <2>1. CASE i \in 1..Len(items_)
    BY <2>1 DEF QueueInv
  <2>2. CASE i = Len(items_) + 1
    <3>1. items_'[i] = job
      BY <2>2 DEF QueueInv
    <3>2. Popped + i - 1 = Entered
      BY <2>2, <1>1 DEF Popped
    <3> QED
      BY <3>1, <3>2
  <2> QED
    BY <2>1, <2>2, <1>1
<1>5. \A w \in Workers : Holds(w)' <=> Holds(w)
  BY DEF Holds
<1>6. Transit'
  <2>1. \A w \in Workers :
          Holds(w)' => holding'[w].call = caller'.call /\ holding'[w].index \in (0..Popped' - 1) \ ran'
    BY <1>2, <1>5, Zenon
  <2>2. \A v, w \in Workers :
          v # w /\ Holds(v)' /\ Holds(w)' => holding'[v].index # holding'[w].index
    BY <1>5
  <2>3. \A w \in Workers :
          worker'[w] \in {"ran", "counted"} => InCall' /\ holding'[w].call = caller'.call
    BY <1>3
  <2> QED
    BY <1>2, <1>4, <2>1, <2>2, <2>3, Zenon
<1>7. Count'
  BY <1>3 DEF Count
<1> QED
  BY <1>6, <1>7, Zenon

\* push() of the first call of for_each_index()'s loop finds the queue full.
LEMMA SleepsInPush ==
    ASSUME PoolInv, caller.pc = "submitting", ~Pushing, Pushing',
           holding'[Caller] = [call |-> caller.call, index |-> caller.submitted],
           caller'.pc = caller.pc, caller'.call = caller.call, caller'.count = caller.count,
           caller'.submitted = caller.submitted + 1,
           UNCHANGED <<items_, ran, remaining, worker>>,
           \A w \in Workers : at'[w] = at[w] /\ holding'[w] = holding[w]
    PROVE  Transit' /\ Count'
<1> USE DEF PoolInv, Transit
<1>1. Popped' = Popped
  BY DEF Popped, Entered, PoolTypes
<1>2. Uncounted' = Uncounted /\ InCall /\ InCall'
  BY DEF Uncounted, InCall
<1>3. \A w \in Workers : Holds(w)' <=> Holds(w)
  BY Zenon DEF Holds
<1>4. Transit'
  <2>1. \A w \in Workers :
          Holds(w)' => holding'[w].call = caller'.call /\ holding'[w].index \in (0..Popped' - 1) \ ran'
    BY <1>1, <1>3, Zenon
  <2>2. \A v, w \in Workers :
          v # w /\ Holds(v)' /\ Holds(w)' => holding'[v].index # holding'[w].index
    BY <1>3
  <2>3. \A w \in Workers :
          worker'[w] \in {"ran", "counted"} => InCall' /\ holding'[w].call = caller'.call
    BY <1>2
  <2>4. Pushing' => holding'[Caller] = [call |-> caller'.call, index |-> caller'.submitted - 1]
    BY DEF PoolTypes
  <2> QED
    BY <1>1, <2>1, <2>2, <2>3, <2>4, Zenon
<1>5. Count'
  BY <1>2 DEF Count
<1> QED
  BY <1>4, <1>5, Zenon

\* pop() hands the oldest job to a worker.
LEMMA TakesJob ==
    ASSUME PoolInv, NEW w \in Workers, ~Holds(w), worker[w] \notin {"ran", "counted"},
           items_ # <<>>, items_' = Tail(items_),
           holding' = [holding EXCEPT ![w] = Head(items_)],
           worker'[w] = "popping", \A v \in Workers \ {w} : worker'[v] = worker[v],
           at' = [at EXCEPT ![w] = "popped"],
           UNCHANGED <<caller, ran, remaining>>
    PROVE  Transit' /\ Count'
<1> USE DEF PoolInv, Transit
<1>1. /\ Len(items_) \in Nat \ {0} /\ Len(items_') = Len(items_) - 1 /\ Entered \in Int
      /\ \A i \in 1..Len(items_) - 1 : items_'[i] = items_[i + 1]
      /\ Head(items_) = items_[1] /\ 1 \in DOMAIN items_
  BY DEF QueueInv, Entered, PoolTypes
<1>2. w # Caller /\ w \in Threads /\ Caller \in Threads
  BY PoolAssumption
<1>3. (Pushing' <=> Pushing) /\ holding'[Caller] = holding[Caller]
  BY <1>2, Zenon DEF Pushing, QueueInv
<1>4. Popped' = Popped + 1
  BY <1>1, <1>3 DEF Popped, Entered
<1>5. holding'[w] = [call |-> caller.call, index |-> Popped]
  <2>1. items_[1] = [call |-> caller.call, index |-> Popped + 1 - 1]
    BY <1>1, Zenon
  <2>2. holding'[w] = items_[1]
    BY <1>1, <1>2, Zenon DEF QueueInv
  <2> QED
    BY <2>1, <2>2, SMTT(20)
<1>6. \A v \in Workers \ {w} : (Holds(v)' <=> Holds(v)) /\ holding'[v] = holding[v]
  BY <1>2, PoolAssumption, Zenon DEF Holds, QueueInv
<1>7. Uncounted' = Uncounted /\ (InCall' <=> InCall)
  BY DEF Uncounted, InCall
<1>8. Transit'
  <2>1. \A i \in DOMAIN items_' : items_'[i] = [call |-> caller'.call, index |-> Popped' + i - 1]
    <3> SUFFICES ASSUME NEW i \in 1..Len(items_) - 1
                 PROVE  items_'[i] = [call |-> caller.call, index |-> Popped' + i - 1]
      BY <1>1 DEF QueueInv
    <3>0. i + 1 \in DOMAIN items_
      BY <1>1 DEF QueueInv
    <3>1. items_[i + 1] = [call |-> caller.call, index |-> Popped + (i + 1) - 1]
      BY <3>0
    <3>2. Popped + (i + 1) - 1 = Popped' + i - 1
      BY <1>4
    <3> QED
      BY <1>1, <3>1, <3>2, Zenon
  <2>2. \A v \in Workers :
          Holds(v)' => holding'[v].call = caller'.call /\ holding'[v].index \in (0..Popped' - 1) \ ran'
    <3>1. /\ Popped \in Nat /\ ran \subseteq 0..Popped - 1
          /\ \A v \in Workers :
               Holds(v) => holding[v].call = caller.call /\ holding[v].index \in (0..Popped - 1) \ ran
      OBVIOUS
    <3> HIDE DEF PoolInv, Transit
    <3>2. holding'[w].call = caller'.call /\ holding'[w].index \in (0..Popped' - 1) \ ran'
      BY <1>4, <1>5, <3>1
    <3>3. ASSUME NEW v \in Workers \ {w}, Holds(v)'
          PROVE  holding'[v].call = caller'.call /\ holding'[v].index \in (0..Popped' - 1) \ ran'
      BY <1>4, <1>6, <3>1, <3>3
    <3> QED
      BY <3>2, <3>3, Zenon
  <2>3. \A u, v \in Workers :
          u # v /\ Holds(u)' /\ Holds(v)' => holding'[u].index # holding'[v].index
    BY <1>5, <1>6
  <2>4. \A v \in Workers :
          worker'[v] \in {"ran", "counted"} => InCall' /\ holding'[v].call = caller'.call
    BY <1>6, <1>7, Zenon
  <2>5. Popped' \in Nat /\ ran' \subseteq 0..Popped' - 1
    <3>1. Popped \in Nat /\ ran \subseteq 0..Popped - 1
      OBVIOUS
    <3> HIDE DEF PoolInv, Transit
    <3> QED
      BY <1>4, <3>1
  <2>6. Pushing' => holding'[Caller] = [call |-> caller'.call, index |-> caller'.submitted - 1]
    BY <1>3
  <2> QED
    BY <2>1, <2>2, <2>3, <2>4, <2>5, <2>6, Zenon
<1>9. Count'
  BY <1>7, <1>1, Zenon DEF Count
<1> QED
  BY <1>8, <1>9, Zenon

\* A worker runs the job it holds.
LEMMA RunsJob ==
    ASSUME PoolInv, NEW w \in Workers, Holds(w),
           worker' = [worker EXCEPT ![w] = "ran"], ran' = ran \union {holding[w].index},
           UNCHANGED <<queueVars, caller, remaining, done_mutex>>
    PROVE  Transit' /\ Count'
<1> USE DEF PoolInv, Transit
<1>0. UNCHANGED <<items_, at, holding, closed_, caller, remaining>>
  BY Zenon DEF queueVars
<1>1. Popped' = Popped /\ (Pushing' <=> Pushing) /\ (InCall' <=> InCall)
  BY <1>0, Zenon DEF Popped, Entered, Pushing, InCall
<1>2. InCall
  BY Zenon DEF Count
<1>3. ~Holds(w)' /\ \A v \in Workers \ {w} : (Holds(v)' <=> Holds(v)) /\ worker'[v] = worker[v]
  BY <1>0 DEF Holds, PoolTypes
<1>4. holding[w].index \in 0..Popped - 1 /\ holding[w].index \notin ran
  BY Zenon
<1>5. Transit'
  <2>1. ran' \subseteq 0..Popped' - 1
    BY <1>1, <1>4, Zenon
  <2>2. \A v \in Workers :
          Holds(v)' => holding'[v].call = caller'.call /\ holding'[v].index \in (0..Popped' - 1) \ ran'
    BY <1>0, <1>1, <1>3, Zenon
  <2>3. \A u, v \in Workers :
          u # v /\ Holds(u)' /\ Holds(v)' => holding'[u].index # holding'[v].index
    BY <1>0, <1>3, Zenon
  <2>4. \A v \in Workers :
          worker'[v] \in {"ran", "counted"} => InCall' /\ holding'[v].call = caller'.call
    BY <1>0, <1>1, <1>2, <1>3, Zenon
  <2>5. \A i \in DOMAIN items_' : items_'[i] = [call |-> caller'.call, index |-> Popped' + i - 1]
    BY <1>0, <1>1
  <2> QED
    BY <1>0, <1>1, <2>1, <2>2, <2>3, <2>4, <2>5
<1>6. Cardinality(ran') = Cardinality(ran) + 1
  BY <1>4, CountsFinite, FS_AddElement, Zenon
<1>7. Cardinality(Uncounted') = Cardinality(Uncounted) + 1
  <2>1. w \notin Uncounted /\ Uncounted' = Uncounted \union {w}
    <3>1. worker[w] = "popping" /\ worker'[w] = "ran"
      BY DEF Holds, PoolTypes
    <3> HIDE DEF PoolInv, Transit
    <3> QED
      BY <1>3, <3>1, Zenon DEF Uncounted
  <2> QED
    BY <2>1, CountsFinite, FS_AddElement, Zenon
<1>8. Count'
  <2>1. remaining + Cardinality(ran) = caller.count + Cardinality(Uncounted)
    BY <1>1, <1>2 DEF Count
  <2>2. remaining \in Int /\ caller.count \in Nat
    <3> HIDE DEF Transit
    <3> QED
      BY DEF PoolTypes
  <2>3. remaining' + Cardinality(ran') = caller'.count + Cardinality(Uncounted')
    <3>1. Cardinality(ran) \in Nat /\ Cardinality(Uncounted) \in Nat
      BY CountsFinite
    <3>2. remaining' = remaining /\ caller'.count = caller.count
      BY <1>0, Zenon
    <3> HIDE DEF PoolInv, Transit
    <3> QED
      BY <1>6, <1>7, <2>1, <2>2, <3>1, <3>2
  <2> QED
    BY <1>1, <1>2, <2>3, Zenon DEF Count
<1> QED
  BY <1>5, <1>8, Zenon

\* A job that has run counts itself: remaining and what it stands for go down together.
LEMMA CountsJob ==
    ASSUME PoolInv, NEW w \in Workers, JobCounts(w)
    PROVE  Transit' /\ Count'
<1> USE DEF PoolInv, Transit
<1>0. /\ worker[w] = "ran" /\ worker' = [worker EXCEPT ![w] = "counted"] /\ remaining' = remaining - 1
      /\ UNCHANGED <<items_, at, holding, closed_, caller, ran>>
  BY Zenon DEF JobCounts, Worker, queueVars
<1>1. Popped' = Popped /\ (Pushing' <=> Pushing) /\ (InCall' <=> InCall) /\ InCall
  BY <1>0 DEF Popped, Entered, Pushing, InCall
<1>2. \A v \in Workers : Holds(v)' <=> Holds(v)
  BY <1>0, Zenon DEF Holds, PoolTypes
<1>3. Transit'
  <2>1. \A v \in Workers :
          Holds(v)' => holding'[v].call = caller'.call /\ holding'[v].index \in (0..Popped' - 1) \ ran'
    BY <1>0, <1>1, <1>2, Zenon
  <2>2. \A u, v \in Workers :
          u # v /\ Holds(u)' /\ Holds(v)' => holding'[u].index # holding'[v].index
    BY <1>0, <1>2, Zenon
  <2>3. \A v \in Workers :
          worker'[v] \in {"ran", "counted"} => InCall' /\ holding'[v].call = caller'.call
    BY <1>0, <1>1 DEF PoolTypes
  <2>4. \A i \in DOMAIN items_' : items_'[i] = [call |-> caller'.call, index |-> Popped' + i - 1]
    BY <1>0, <1>1, Zenon
  <2> QED
    BY <1>0, <1>1, <2>1, <2>2, <2>3, <2>4, Zenon
<1>4. Cardinality(Uncounted') = Cardinality(Uncounted) - 1
  <2>1. w \in Uncounted /\ Uncounted' = Uncounted \ {w}
    BY <1>0, Zenon DEF Uncounted, PoolTypes
  <2> QED
    BY <2>1, CountsFinite, FS_RemoveElement, Zenon
<1>5. Count'
  <2>1. remaining + Cardinality(ran) = caller.count + Cardinality(Uncounted)
    BY <1>1, <1>2 DEF Count
  <2>2. remaining \in Int /\ caller.count \in Nat
    <3> HIDE DEF Transit
    <3> QED
      BY DEF PoolTypes
  <2>3. remaining' + Cardinality(ran') = caller'.count + Cardinality(Uncounted')
    <3>1. Cardinality(ran) \in Nat /\ Cardinality(Uncounted) \in Nat
      BY CountsFinite, Zenon
    <3> HIDE DEF PoolInv, Transit
    <3> QED
      BY <1>0, <1>4, <2>1, <2>2, <3>1
  <2> QED
    BY <1>1, <1>2, <2>3, Zenon DEF Count
<1> QED
  BY <1>3, <1>5, Zenon

\* done_cv.wait() returns: with nothing left to count, and the mutex free, every index has
\* run and no job of the call is anywhere.
LEMMA NothingLeft ==
    ASSUME PoolInv, InCall, remaining = 0, done_mutex = Nobody, caller.submitted = caller.count,
           ~Pushing
    PROVE  /\ items_ = <<>> /\ ran = 0..caller.count - 1
           /\ \A w \in Workers : ~Holds(w) /\ worker[w] \notin {"ran", "counted"}
<1> USE DEF PoolInv, Transit
<1>1. Popped = caller.count - Len(items_) /\ Len(items_) \in Nat /\ caller.count \in Nat
  BY DEF Popped, Entered, QueueInv, PoolTypes
<1>2. Cardinality(ran) = caller.count + Cardinality(Uncounted)
  <2>1. remaining + Cardinality(ran) = caller.count + Cardinality(Uncounted)
    BY Zenon DEF Count
  <2>2. Cardinality(ran) \in Nat
    BY CountsFinite
  <2> HIDE DEF PoolInv, Transit
  <2> QED
    BY <2>1, <2>2
<1>3. Cardinality(Uncounted) = 0 /\ Len(items_) = 0 /\ Cardinality(ran) = Popped
  <2>1. /\ Cardinality(Uncounted) \in Nat /\ Cardinality(ran) \in Nat
        /\ Cardinality(ran) <= Popped
    BY CountsFinite
  <2> HIDE DEF PoolInv, Transit
  <2> QED
    BY <1>1, <1>2, <2>1
<1>4. Uncounted = {} /\ items_ = <<>> /\ Popped = caller.count
  <2>1. IsFiniteSet(Uncounted) /\ items_ \in Seq(Items)
    BY CountsFinite DEF QueueInv
  <2> HIDE DEF PoolInv, Transit
  <2> QED
    BY <1>1, <1>3, <2>1, FS_EmptySet
<1>5. ran = 0..caller.count - 1
  <2>1. Cardinality(ran) = Popped => ran = 0..Popped - 1
    BY CountsFinite, Zenon
  <2> HIDE DEF PoolInv, Transit
  <2> QED
    BY <1>3, <1>4, <2>1, Zenon
<1>6. \A w \in Workers : ~Holds(w)
  BY <1>4, <1>5
<1>7. \A w \in Workers : worker[w] # "ran"
  BY <1>4, Zenon DEF Uncounted
<1>8. \A w \in Workers : worker[w] # "counted"
  BY PoolAssumption DEF Roles
<1> QED
  BY <1>4, <1>5, <1>6, <1>7, <1>8, Zenon

-----------------------------------------------------------------------------
(* The actions. *)

LEMMA PoolInitInv == PoolInit => PoolInv
<1> SUFFICES ASSUME PoolInit PROVE PoolInv
  OBVIOUS
<1>1. QueueInv
  BY QueueInitInv DEF PoolInit
<1>2. /\ items_ = <<>> /\ closed_ = FALSE /\ ran = {} /\ remaining = 0
      /\ caller = [pc |-> "idle", call |-> 0, count |-> 0, submitted |-> 0]
      /\ \A t \in Threads : at[t] = "outside"
      /\ worker = [w \in Workers |-> "loop"]
      /\ Workers \subseteq Threads /\ Caller \in Threads
  BY PoolAssumption, Zenon DEF PoolInit, QueueInit
<1>3. ~Pushing /\ ~InCall /\ Popped = 0 /\ \A w \in Workers : ~Holds(w)
  BY <1>2 DEF Pushing, InCall, Popped, Entered, Holds
<1>4. PoolTypes
  BY <1>2, <1>3, PoolAssumption DEF PoolTypes
<1>5. Roles
  BY <1>2, <1>3, Zenon DEF Roles
<1>6. Transit
  BY <1>2, <1>3 DEF Transit
<1>7. Count
  BY <1>2, <1>3 DEF Count
<1> QED
  BY <1>1, <1>4, <1>5, <1>6, <1>7, Zenon DEF PoolInv

\* What the pool does to the queue, the queue's own callers may do.
LEMMA QueueKept ==
    ASSUME PoolInv, PoolNext
    PROVE  QueueInv' /\ ChannelStep
<1>0. Workers \subseteq Threads /\ Caller \in Threads
  BY PoolAssumption
<1>1. CASE Submits
  <2>1. [call |-> caller.call, index |-> caller.submitted] \in Items
    BY <1>1, PoolAssumption DEF Submits, Jobs, PoolInv, PoolTypes, InCall
  <2>2. QueueNext
    BY <1>0, <1>1, <2>1 DEF Submits, QueueNext
  <2> QED
    BY <2>2, QueueStep DEF PoolInv
<1>2. CASE Destroys
  <2>1. QueueNext
    BY <1>0, <1>2, Zenon DEF Destroys, QueueNext
  <2> QED
    BY <2>1, QueueStep DEF PoolInv
<1>3. CASE \E w \in Workers : WorkerPops(w)
  <2>1. QueueNext
    BY <1>0, <1>3 DEF WorkerPops, QueueNext
  <2> QED
    BY <2>1, QueueStep DEF PoolInv
<1>4. CASE \E t \in Threads : QueueContinues(t) \/ QueueWakesForNothing(t)
  <2>1. QueueNext
    BY <1>4 DEF QueueContinues, QueueWakesForNothing, QueueNext
  <2> QED
    BY <2>1, QueueStep DEF PoolInv
<1>5. CASE UNCHANGED queueVars
  BY <1>5, QueueStep DEF PoolInv
<1>6. \/ Submits \/ Destroys \/ \E w \in Workers : WorkerPops(w)
      \/ \E t \in Threads : QueueContinues(t) \/ QueueWakesForNothing(t)
      \/ UNCHANGED queueVars
  BY DEF PoolNext, PoolStep, CallerStep, WorkerStep, Calls, WorkerRuns, Waits, Joins,
         WakesForNothing, JobCounts, JobNotifies
<1> QED
  BY <1>1, <1>2, <1>3, <1>4, <1>5, <1>6, Zenon

LEMMA CallKeeps ==
    ASSUME PoolInv, NEW count \in 0..MaxCount, Calls(count)
    PROVE  PoolTypes' /\ Roles' /\ Transit' /\ Count'
<1>1. /\ caller.pc = "idle" /\ caller.call < MaxCalls
      /\ caller' = [pc |-> "submitting", call |-> caller.call + 1, count |-> count, submitted |-> 0]
      /\ remaining' = count /\ ran' = {}
      /\ UNCHANGED <<items_, closed_, at, holding, done_mutex, worker>>
  BY Zenon DEF Calls, queueVars
<1>2. /\ ~InCall /\ InCall' /\ items_ = <<>> /\ ~Pushing /\ ~Pushing'
      /\ \A w \in Workers : ~Holds(w)' /\ worker[w] \notin {"ran", "counted"}
  BY <1>1 DEF PoolInv, Count, Roles, InCall, Pushing, Holds
<1>3. Popped' = 0
  BY <1>1, <1>2 DEF Popped, Entered
<1>4. Uncounted' = {}
  BY <1>1, <1>2, Zenon DEF Uncounted
<1>5. PoolTypes'
  <2>1. caller.call + 1 \in 1..MaxCalls /\ count \in Nat /\ 0 \in 0..MaxCount
    BY <1>1, PoolAssumption DEF PoolInv, PoolTypes
  <2>2. worker \in [Workers -> {"loop", "popping", "ran", "counted", "exited"}]
    BY Zenon DEF PoolInv, PoolTypes
  <2> QED
    BY <1>1, <2>1, <2>2 DEF PoolTypes
<1>6. Roles'
  BY <1>1, <1>2, Zenon DEF PoolInv, Roles
<1>7. Transit'
  <2>1. DOMAIN items_' = {} /\ ran' = {} /\ ~Pushing'
    BY <1>1, <1>2
  <2>2. \A w \in Workers : ~Holds(w)' /\ worker'[w] \notin {"ran", "counted"}
    BY <1>1, <1>2, Zenon
  <2> QED
    BY <1>3, <2>1, <2>2, Zenon DEF Transit
<1>8. Count'
  BY <1>1, <1>2, <1>4, FS_EmptySet DEF Count
<1> QED
  BY <1>5, <1>6, <1>7, <1>8

\* for_each_index() pushes the next job: it enters the queue, or the push waits for room.
LEMMA SubmitKeeps ==
    ASSUME PoolInv, Submits
    PROVE  PoolTypes' /\ Roles' /\ Transit' /\ Count'
<1> DEFINE job == [call |-> caller.call, index |-> caller.submitted]
<1>0. Workers \subseteq Threads /\ Caller \in Threads /\ Caller \notin Workers /\ ~DropNewest
  BY PoolAssumption
<1>1. /\ caller.pc = "submitting" /\ caller.submitted < caller.count
      /\ caller' = [caller EXCEPT !.submitted = @ + 1]
      /\ at[Caller] = "outside" /\ Push(Caller, job)
      /\ UNCHANGED <<remaining, done_mutex, worker, ran>>
  BY DEF Submits, Push
<1>2. /\ caller'.pc = caller.pc /\ caller'.call = caller.call /\ caller'.count = caller.count
      /\ caller'.submitted = caller.submitted + 1
  BY <1>1 DEF PoolInv, PoolTypes
<1>3. ~closed_ /\ ~Pushing /\ Entered = caller.submitted /\ caller.submitted \in Nat
  BY <1>1 DEF PoolInv, Roles, Pushing, Entered, PoolTypes
<1>4. \/ PushAppends(Caller, job) \/ PushSleeps(Caller, job)
  BY <1>0, <1>1, <1>3 DEF Push
<1> HIDE DEF job
<1>5. /\ UNCHANGED closed_ /\ at'[Caller] \in {"pushed", "pushAsleep"}
      /\ \A w \in Workers : at'[w] = at[w] /\ holding'[w] = holding[w]
  BY <1>0, <1>4 DEF PushAppends, PushSleeps, Goes, PoolInv, QueueInv
<1>6. PoolTypes'
  <2>1. caller' \in [pc : {"idle", "submitting", "asleep", "woken", "joining", "destroyed"},
                     call : 0..MaxCalls, count : 0..MaxCount, submitted : 0..MaxCount]
    BY <1>1, PoolAssumption DEF PoolInv, PoolTypes
  <2>2. caller.count \in Nat /\ caller.submitted \in Nat
    BY DEF PoolInv, PoolTypes
  <2> QED
    BY <1>1, <1>2, <2>1, <2>2 DEF PoolInv, PoolTypes, InCall
<1>7. Roles'
  BY <1>1, <1>2, <1>3, <1>5 DEF PoolInv, Roles, Pushing, PoolTypes
<1>8. CASE PushAppends(Caller, job)
  <2>1. items_' = Append(items_, job) /\ at'[Caller] = "pushed"
    BY <1>0, <1>8 DEF PushAppends, Goes, PoolInv, QueueInv
  <2>2. ~Pushing'
    BY <2>1 DEF Pushing
  <2>3. job = [call |-> caller.call, index |-> Entered]
    BY <1>3 DEF job
  <2> QED
    BY <1>1, <1>2, <1>3, <1>5, <1>6, <1>7, <2>1, <2>2, <2>3, EntersQueue
<1>9. CASE PushSleeps(Caller, job)
  <2>1. UNCHANGED items_ /\ at'[Caller] = "pushAsleep" /\ holding'[Caller] = job
    BY <1>0, <1>9 DEF PushSleeps, Goes, PoolInv, QueueInv
  <2>2. Pushing'
    BY <2>1 DEF Pushing
  <2> QED
    BY <1>1, <1>2, <1>3, <1>5, <1>6, <1>7, <2>1, <2>2, SleepsInPush, Zenon DEF job
<1> QED
  BY <1>4, <1>8, <1>9

\* A push() that waited goes on.
LEMMA PushResumeKeeps ==
    ASSUME PoolInv, NEW t \in Threads, PushResumes(t), UNCHANGED poolVars
    PROVE  PoolTypes' /\ Roles' /\ Transit' /\ Count'
<1>0. Workers \subseteq Threads /\ Caller \in Threads /\ Caller \notin Workers
  BY PoolAssumption
<1>1. t = Caller
  <2>1. at[t] = "pushWoken"
    BY Zenon DEF PushResumes
  <2>2. \A w \in Workers : at[w] # "pushWoken"
    BY DEF PoolInv, Roles
  <2> QED
    BY <2>1, <2>2, PoolAssumption, Zenon
<1>2. UNCHANGED <<caller, remaining, done_mutex, worker, ran>>
  BY DEF poolVars
<1>3. /\ at[Caller] = "pushWoken" /\ Pushing /\ caller.pc = "submitting" /\ ~closed_
      /\ holding[Caller] = [call |-> caller.call, index |-> caller.submitted - 1]
      /\ Entered = caller.submitted - 1 /\ caller.submitted = Entered + 1 /\ caller.submitted \in Nat
  <2>1. at[Caller] = "pushWoken" /\ Pushing
    BY <1>1, Zenon DEF PushResumes, Pushing
  <2>2. caller.pc = "submitting" /\ ~closed_
    BY <2>1, Zenon DEF PoolInv, Roles
  <2>3. holding[Caller] = [call |-> caller.call, index |-> caller.submitted - 1]
    BY <2>1 DEF PoolInv, Transit
  <2>4. Entered = caller.submitted - 1
    BY <2>1 DEF Entered
  <2>5. caller.submitted \in Nat
    BY DEF PoolInv, PoolTypes
  <2>6. caller.submitted = Entered + 1
    BY <2>4, <2>5
  <2> QED
    BY <2>1, <2>2, <2>3, <2>4, <2>5, <2>6, Zenon
<1>4. PushAppends(Caller, holding[Caller]) \/ PushSleeps(Caller, holding[Caller])
  BY <1>1, <1>3, Zenon DEF PushResumes
<1>5. /\ UNCHANGED closed_ /\ at'[Caller] \in {"pushed", "pushAsleep"}
      /\ \A w \in Workers : at'[w] = at[w] /\ holding'[w] = holding[w]
  BY <1>0, <1>4 DEF PushAppends, PushSleeps, Goes, PoolInv, QueueInv
<1>6. PoolTypes'
  BY <1>2, Zenon DEF PoolInv, PoolTypes, InCall
<1>7. Roles'
  BY <1>2, <1>3, <1>5, Zenon DEF PoolInv, Roles, Pushing, PoolTypes
<1>8. CASE PushAppends(Caller, holding[Caller])
  <2>1. items_' = Append(items_, holding[Caller]) /\ at'[Caller] = "pushed"
    BY <1>0, <1>8 DEF PushAppends, Goes, PoolInv, QueueInv
  <2>2. ~Pushing'
    BY <2>1 DEF Pushing
  <2>3. PICK job : job = holding[Caller]
    OBVIOUS
  <2>4. job = [call |-> caller.call, index |-> Entered] /\ caller'.submitted = Entered + 1
    <3>1. caller.submitted = Entered + 1
      BY <1>3, Zenon
    <3>2. job = [call |-> caller.call, index |-> Entered]
      BY <1>3, <2>3, Zenon
    <3>3. caller' = caller
      BY <1>2, Zenon
    <3> QED
      BY <3>1, <3>2, <3>3, Zenon
  <2> QED
    BY <1>2, <1>3, <1>5, <1>6, <1>7, <2>1, <2>2, <2>3, <2>4, EntersQueue, Zenon
<1>9. CASE PushSleeps(Caller, holding[Caller])
  <2>1. UNCHANGED items_ /\ at'[Caller] = "pushAsleep" /\ holding'[Caller] = holding[Caller]
    BY <1>0, <1>9, Zenon DEF PushSleeps, Goes, PoolInv, QueueInv
  <2>2. Pushing' /\ (InCall' <=> InCall) /\ \A w \in Workers : Holds(w)' <=> Holds(w)
    BY <1>2, <1>5, <2>1, Zenon DEF Pushing, InCall, Holds
  <2> QED
    BY <1>2, <1>3, <1>5, <1>6, <1>7, <2>1, <2>2, Framed, Zenon
<1> QED
  BY <1>4, <1>8, <1>9

\* pop(), at first or after waiting: the worker has the oldest job, the end, or sleeps.
LEMMA PopStepKeeps ==
    ASSUME PoolInv, NEW w \in Workers, PopSection(w), ~Holds(w),
           worker[w] \notin {"ran", "counted"}, worker' = [worker EXCEPT ![w] = "popping"],
           UNCHANGED <<caller, remaining, done_mutex, ran>>
    PROVE  PoolTypes' /\ Roles' /\ Transit' /\ Count'
<1>0. Workers \subseteq Threads /\ Caller \in Threads /\ Caller \notin Workers
  BY PoolAssumption, Zenon
<1>1. /\ UNCHANGED closed_ /\ at'[w] \in {"popped", "outside", "popAsleep"}
      /\ at'[Caller] = at[Caller] /\ holding'[Caller] = holding[Caller]
      /\ \A v \in Workers \ {w} : at'[v] = at[v] /\ holding'[v] = holding[v] /\ worker'[v] = worker[v]
      /\ worker'[w] = "popping"
  BY <1>0 DEF PopSection, Goes, PoolInv, QueueInv, PoolTypes
<1>2. PoolTypes'
  <2>1. worker' \in [Workers -> {"loop", "popping", "ran", "counted", "exited"}]
    BY Zenon DEF PoolInv, PoolTypes
  <2> QED
    BY <2>1 DEF PoolInv, PoolTypes, InCall
<1>3. Roles'
  <2>1. \A v \in Workers :
          /\ at'[v] \in {"outside", "popAsleep", "popWoken", "popped"}
          /\ worker'[v] # "popping" => at'[v] = "outside"
          /\ worker'[v] = "counted" => done_mutex' = v
    <3>1. \A v \in Workers :
            /\ at[v] \in {"outside", "popAsleep", "popWoken", "popped"}
            /\ worker[v] # "popping" => at[v] = "outside"
            /\ worker[v] = "counted" => done_mutex = v
      BY DEF PoolInv, Roles
    <3> TAKE v \in Workers
    <3>2. CASE v = w
      BY <1>1, <3>2, Zenon
    <3>3. CASE v # w
      <4>1. at'[v] = at[v] /\ worker'[v] = worker[v] /\ done_mutex' = done_mutex
        BY <1>1, <3>3, Zenon
      <4> QED
        BY <3>1, <4>1, Zenon
    <3> QED
      BY <3>2, <3>3, Zenon
  <2>2. at'[Caller] = at[Caller] /\ UNCHANGED <<closed_, caller>>
    BY <1>1, Zenon
  <2>3. Pushing' <=> Pushing
    BY <2>2 DEF Pushing
  <2> QED
    BY <2>1, <2>2, <2>3, Zenon DEF PoolInv, Roles
<1>4. CASE items_ # <<>>
  <2>1. /\ items_' = Tail(items_) /\ holding' = [holding EXCEPT ![w] = Head(items_)]
        /\ at' = [at EXCEPT ![w] = "popped"]
    BY <1>4, Zenon DEF PopSection, Goes
  <2> QED
    BY <1>1, <1>2, <1>3, <1>4, <2>1, TakesJob, Zenon
<1>5. CASE items_ = <<>>
  <2>1. /\ UNCHANGED items_
        /\ \/ at'[w] = "outside" /\ holding'[w] = NoItem
           \/ at'[w] = "popAsleep"
    BY <1>0, <1>5 DEF PopSection, Goes, PoolInv, QueueInv
  <2>2. ~Holds(w)' /\ \A v \in Workers \ {w} : Holds(v)' <=> Holds(v)
    BY <1>1, <2>1, Zenon DEF Holds
  <2>3. (Pushing' <=> Pushing) /\ (InCall' <=> InCall)
    BY <1>1, Zenon DEF Pushing, InCall
  <2>4. \A v \in Workers :
          /\ Holds(v)' => Holds(v) /\ holding'[v] = holding[v]
          /\ worker'[v] = "ran" <=> worker[v] = "ran"
          /\ worker'[v] = "counted" => worker[v] = "counted"
          /\ worker'[v] \in {"ran", "counted"} => holding'[v] = holding[v]
    BY <1>1, <2>2
  <2> QED
    BY <1>1, <1>2, <1>3, <2>1, <2>3, <2>4, Framed, Zenon
<1> QED
  BY <1>4, <1>5

\* A worker comes back from pop(): it runs the job, or ends.
LEMMA RunKeeps ==
    ASSUME PoolInv, NEW w \in Workers, WorkerRuns(w)
    PROVE  PoolTypes' /\ Roles' /\ Transit' /\ Count'
<1>1. /\ worker[w] = "popping" /\ at[w] = "outside"
      /\ UNCHANGED <<items_, closed_, at, holding, caller, remaining, done_mutex>>
  BY DEF WorkerRuns, queueVars
<1>2. PICK pc \in {"exited", "ran"} : worker' = [worker EXCEPT ![w] = pc]
  BY DEF WorkerRuns, Worker
<1>3. worker'[w] = pc /\ \A v \in Workers \ {w} : worker'[v] = worker[v]
  BY <1>2 DEF PoolInv, PoolTypes
<1>4. PoolTypes'
  <2>1. worker' \in [Workers -> {"loop", "popping", "ran", "counted", "exited"}]
    BY <1>2, Zenon DEF PoolInv, PoolTypes
  <2> QED
    BY <1>1, <2>1 DEF PoolInv, PoolTypes, InCall
<1>5. Roles'
  BY <1>1, <1>3 DEF PoolInv, Roles, Pushing
<1>6. CASE holding[w] # NoItem
  <2>1. Holds(w) /\ worker' = [worker EXCEPT ![w] = "ran"] /\ ran' = ran \union {holding[w].index}
    BY <1>1, <1>6, Zenon DEF Holds, WorkerRuns, Worker
  <2>2. UNCHANGED <<queueVars, caller, remaining, done_mutex>>
    BY DEF WorkerRuns
  <2> QED
    BY <1>4, <1>5, <2>1, <2>2, RunsJob, Zenon
<1>7. CASE holding[w] = NoItem
  <2>1. UNCHANGED ran /\ worker' = [worker EXCEPT ![w] = "exited"]
    BY <1>7 DEF WorkerRuns, Worker
  <2>2. worker'[w] = "exited"
    BY <2>1, Zenon DEF PoolInv, PoolTypes
  <2>3. (Pushing' <=> Pushing) /\ (InCall' <=> InCall) /\ \A v \in Workers : Holds(v)' => Holds(v)
    BY <1>1, <1>3, <2>2 DEF Pushing, InCall, Holds
  <2> QED
    BY <1>1, <1>3, <1>4, <1>5, <2>1, <2>2, <2>3, Framed, Zenon
<1> QED
  BY <1>6, <1>7, Zenon

\* A job counts itself under the mutex, and then notifies and lets the mutex go.
LEMMA JobEndKeeps ==
    ASSUME PoolInv, NEW w \in Workers, JobCounts(w) \/ JobNotifies(w)
    PROVE  PoolTypes' /\ Roles' /\ Transit' /\ Count'
<1>1. CASE JobCounts(w)
  <2>1. /\ worker[w] = "ran" /\ worker' = [worker EXCEPT ![w] = "counted"]
        /\ done_mutex = Nobody /\ done_mutex' = w /\ remaining' = remaining - 1
        /\ UNCHANGED <<closed_, at, caller>>
    BY <1>1 DEF JobCounts, Worker, queueVars
  <2>2. PoolTypes'
    BY <2>1 DEF PoolInv, PoolTypes, InCall
  <2>3. \A v \in Workers : worker[v] # "counted"
    BY <2>1, PoolAssumption, Zenon DEF PoolInv, Roles
  <2>4. worker'[w] = "counted" /\ \A v \in Workers \ {w} : worker'[v] = worker[v]
    BY <2>1, Zenon DEF PoolInv, PoolTypes
  <2>5. Roles'
    <3>1. \A v \in Workers :
            /\ at'[v] \in {"outside", "popAsleep", "popWoken", "popped"}
            /\ worker'[v] # "popping" => at'[v] = "outside"
      BY <2>1, <2>4 DEF PoolInv, Roles
    <3>2. \A v \in Workers : worker'[v] = "counted" => done_mutex' = v
      BY <2>1, <2>3, <2>4
    <3> QED
      BY <2>1, <3>1, <3>2, Zenon DEF PoolInv, Roles, Pushing
  <2> QED
    BY <1>1, <2>2, <2>5, CountsJob, Zenon
<1>2. CASE JobNotifies(w)
  <2>1. /\ worker[w] = "counted" /\ worker' = [worker EXCEPT ![w] = "loop"]
        /\ caller' = caller \/ (caller.pc = "asleep" /\ caller' = [caller EXCEPT !.pc = "woken"])
        /\ UNCHANGED <<items_, closed_, at, holding, remaining, ran>>
    BY <1>2 DEF JobNotifies, Worker, queueVars
  <2>2. /\ caller'.call = caller.call /\ caller'.count = caller.count
        /\ caller'.submitted = caller.submitted /\ (InCall' <=> InCall)
        /\ caller'.pc = caller.pc \/ (caller.pc = "asleep" /\ caller'.pc = "woken")
    BY <2>1 DEF PoolInv, PoolTypes, InCall
  <2>3. worker'[w] = "loop" /\ \A v \in Workers \ {w} : worker'[v] = worker[v]
    BY <2>1 DEF PoolInv, PoolTypes
  <2>4. PoolTypes'
    <3>1. worker' \in [Workers -> {"loop", "popping", "ran", "counted", "exited"}]
      BY <2>1 DEF PoolInv, PoolTypes
    <3>2. caller' \in [pc : {"idle", "submitting", "asleep", "woken", "joining", "destroyed"},
                       call : 0..MaxCalls, count : 0..MaxCount, submitted : 0..MaxCount]
      BY <2>1 DEF PoolInv, PoolTypes
    <3> QED
      BY <2>1, <2>2, <3>1, <3>2 DEF PoolInv, PoolTypes
  <2>5. \A v \in Workers \ {w} : worker[v] # "counted"
    BY <2>1 DEF PoolInv, Roles
  <2>6. Roles'
    BY <2>1, <2>2, <2>3, <2>5 DEF PoolInv, Roles, Pushing
  <2>7. (Pushing' <=> Pushing) /\ \A v \in Workers : Holds(v)' => Holds(v)
    BY <2>1, <2>3 DEF Pushing, Holds
  <2> QED
    BY <2>1, <2>2, <2>3, <2>4, <2>6, <2>7, Framed, Zenon
<1> QED
  BY <1>1, <1>2

\* for_each_index() waits, and returns when nothing is left.
LEMMA WaitKeeps ==
    ASSUME PoolInv, Waits \/ WakesForNothing
    PROVE  PoolTypes' /\ Roles' /\ Transit' /\ Count'
<1>1. /\ caller.pc \in {"submitting", "asleep", "woken"} /\ caller.submitted = caller.count
      /\ at[Caller] = "outside"
      /\ UNCHANGED <<items_, closed_, at, holding, remaining, done_mutex, worker, ran>>
  BY DEF Waits, WakesForNothing, queueVars, PoolInv, Roles
<1>2. PICK pc \in {"idle", "asleep", "woken"} :
          /\ caller' = [caller EXCEPT !.pc = pc]
          /\ pc = "idle" => remaining = 0 /\ done_mutex = Nobody
  BY DEF Waits, WakesForNothing
<1>3. /\ caller'.pc = pc /\ caller'.call = caller.call /\ caller'.count = caller.count
      /\ caller'.submitted = caller.submitted
  BY <1>2, Zenon DEF PoolInv, PoolTypes
<1>4. InCall /\ (InCall' <=> pc # "idle") /\ ~Pushing /\ ~Pushing'
  BY <1>1, <1>3, Zenon DEF InCall, Pushing
<1>5. PoolTypes'
  <2>1. caller' \in [pc : {"idle", "submitting", "asleep", "woken", "joining", "destroyed"},
                     call : 0..MaxCalls, count : 0..MaxCount, submitted : 0..MaxCount]
    BY <1>2, Zenon DEF PoolInv, PoolTypes
  <2> QED
    BY <1>1, <1>3, <1>4, <2>1 DEF PoolInv, PoolTypes
<1>6. Roles'
  BY <1>1, <1>3, <1>4 DEF PoolInv, Roles
<1>7. \A w \in Workers : Holds(w)' <=> Holds(w)
  BY <1>1, Zenon DEF Holds
<1>8. CASE pc # "idle"
  BY <1>1, <1>3, <1>4, <1>5, <1>6, <1>7, <1>8, Framed, Zenon
<1>9. CASE pc = "idle"
  <2>1. /\ items_ = <<>> /\ ran = 0..caller.count - 1
        /\ \A w \in Workers : ~Holds(w) /\ worker[w] \notin {"ran", "counted"}
    BY <1>1, <1>2, <1>4, <1>9, NothingLeft, Zenon
  <2>2. Popped' = Popped /\ Popped \in Nat
    BY <1>1, <1>3, <1>4, Zenon DEF Popped, Entered, PoolInv, Transit
  <2>3. Transit'
    BY <1>1, <1>3, <1>4, <1>7, <2>1, <2>2, Zenon DEF PoolInv, Transit
  <2>4. Count'
    BY <1>1, <1>3, <1>4, <1>7, <1>9, <2>1, Zenon DEF Count
  <2> QED
    BY <1>5, <1>6, <2>3, <2>4
<1> QED
  BY <1>8, <1>9

\* The destructor closes the queue and joins.
LEMMA EndKeeps ==
    ASSUME PoolInv, Destroys \/ Joins
    PROVE  PoolTypes' /\ Roles' /\ Transit' /\ Count'
<1>0. Workers \subseteq Threads /\ Caller \in Threads /\ Caller \notin Workers
  BY PoolAssumption
<1>1. /\ caller.pc \in {"idle", "joining"} /\ at[Caller] = "outside"
      /\ UNCHANGED <<items_, holding, remaining, done_mutex, worker, ran>>
      /\ \A w \in Workers : at'[w] = at[w]
      /\ at'[Caller] \in {"outside", "closedIt"}
  BY <1>0 DEF Destroys, Joins, Close, Goes, queueVars, PoolInv, QueueInv
<1>2. PICK pc \in {"joining", "destroyed"} :
          /\ caller' = [caller EXCEPT !.pc = pc]
          /\ pc = "destroyed" => at'[Caller] = "outside"
  BY DEF Destroys, Joins, queueVars
<1>3. /\ caller'.pc = pc /\ caller'.call = caller.call /\ caller'.count = caller.count
      /\ caller'.submitted = caller.submitted
  BY <1>2, Zenon DEF PoolInv, PoolTypes
<1>4. ~InCall /\ ~InCall' /\ ~Pushing /\ ~Pushing' /\ \A w \in Workers : Holds(w)' <=> Holds(w)
  BY <1>1, <1>3, Zenon DEF InCall, Pushing, Holds
<1>5. PoolTypes'
  <2>1. caller' \in [pc : {"idle", "submitting", "asleep", "woken", "joining", "destroyed"},
                     call : 0..MaxCalls, count : 0..MaxCount, submitted : 0..MaxCount]
    BY <1>2 DEF PoolInv, PoolTypes
  <2> QED
    BY <1>1, <1>3, <1>4, <2>1 DEF PoolInv, PoolTypes
<1>6. Roles'
  BY <1>1, <1>2, <1>3, <1>4, Zenon DEF PoolInv, Roles
<1> QED
  BY <1>1, <1>3, <1>4, <1>5, <1>6, Framed, Zenon

\* Notifications and wake-ups move threads on inside the queue only.
LEMMA QueueMoveKeeps ==
    ASSUME PoolInv, NEW t \in Threads, UNCHANGED poolVars,
           \/ PushNotifies(t) \/ PopNotifies(t) \/ CloseWakesConsumers(t)
           \/ CloseWakesProducers(t) \/ SpuriousWake(t)
    PROVE  PoolTypes' /\ Roles' /\ Transit' /\ Count'
<1>0. Workers \subseteq Threads /\ Caller \in Threads /\ Caller \notin Workers
  BY PoolAssumption
<1>1. UNCHANGED <<items_, closed_, holding, caller, remaining, done_mutex, worker, ran>>
  BY Zenon DEF PushNotifies, PopNotifies, CloseWakesConsumers, CloseWakesProducers, SpuriousWake, poolVars
<1>2. \A s \in Threads :
        \/ at'[s] = at[s]
        \/ at[s] = "pushAsleep" /\ at'[s] = "pushWoken"
        \/ at[s] = "popAsleep" /\ at'[s] = "popWoken"
        \/ at[s] \in {"pushed", "popped", "closeWoke"} /\ at'[s] = "outside"
        \/ at[s] = "closedIt" /\ at'[s] = "closeWoke"
  <2>1. CASE PushNotifies(t)
    BY <2>1, Zenon DEF PushNotifies, NotifyOne, Goes, PoolInv, QueueInv
  <2>2. CASE PopNotifies(t)
    BY <2>2, Zenon DEF PopNotifies, NotifyOne, Goes, PoolInv, QueueInv
  <2>3. CASE CloseWakesConsumers(t)
    BY <2>3, Zenon DEF CloseWakesConsumers, NotifyAll, PoolInv, QueueInv
  <2>4. CASE CloseWakesProducers(t)
    BY <2>4, Zenon DEF CloseWakesProducers, NotifyAll, PoolInv, QueueInv
  <2>5. CASE SpuriousWake(t)
    BY <2>5, Zenon DEF SpuriousWake, Goes, PoolInv, QueueInv
  <2> QED
    BY <2>1, <2>2, <2>3, <2>4, <2>5, Zenon
<1>3. (Pushing' <=> Pushing) /\ (InCall' <=> InCall)
  BY <1>0, <1>1, <1>2, Zenon DEF Pushing, InCall
<1>4. \A w \in Workers : Holds(w)' => Holds(w)
  BY <1>0, <1>1, <1>2 DEF Holds, PoolInv, Roles
<1>5. PoolTypes'
  BY <1>1, <1>3, Zenon DEF PoolInv, PoolTypes
<1>6. Roles'
  <2>1. /\ at'[Caller] \in {"outside", "pushed", "pushAsleep", "pushWoken", "closedIt", "closeWoke"}
        /\ at[Caller] = "outside" => at'[Caller] = "outside"
    BY <1>0, <1>2, Zenon DEF PoolInv, Roles
  <2>2. \A w \in Workers : /\ at'[w] \in {"outside", "popAsleep", "popWoken", "popped"}
                           /\ at[w] = "outside" => at'[w] = "outside"
    BY <1>0, <1>2, Zenon DEF PoolInv, Roles
  <2>3. /\ caller.pc \notin {"submitting", "joining"} => at[Caller] = "outside"
        /\ Pushing => caller.pc = "submitting" /\ caller.submitted >= 1
        /\ caller.pc # "submitting" => caller.submitted = caller.count
        /\ closed_ => caller.pc \in {"joining", "destroyed"}
    BY Zenon DEF PoolInv, Roles
  <2>4. \A w \in Workers : /\ worker[w] # "popping" => at[w] = "outside"
                           /\ worker[w] = "counted" => done_mutex = w
    BY Zenon DEF PoolInv, Roles
  <2>5. /\ caller'.pc \notin {"submitting", "joining"} => at'[Caller] = "outside"
        /\ Pushing' => caller'.pc = "submitting" /\ caller'.submitted >= 1
        /\ caller'.pc # "submitting" => caller'.submitted = caller'.count
    BY <1>1, <1>3, <2>1, <2>3
  <2>6. closed_' => caller'.pc \in {"joining", "destroyed"}
    BY <1>1, <2>3, Zenon
  <2>7. \A w \in Workers :
          /\ at'[w] \in {"outside", "popAsleep", "popWoken", "popped"}
          /\ worker'[w] # "popping" => at'[w] = "outside"
          /\ worker'[w] = "counted" => done_mutex' = w
    BY <1>1, <2>2, <2>4, Zenon
  <2> QED
    BY <2>1, <2>5, <2>6, <2>7, Zenon DEF Roles
<1> QED
  BY <1>1, <1>3, <1>4, <1>5, <1>6, Framed, Zenon

LEMMA PoolNextKeeps == PoolInv /\ [PoolNext]_<<queueVars, poolVars>> => PoolInv'
<1> SUFFICES ASSUME PoolInv, [PoolNext]_<<queueVars, poolVars>> PROVE PoolInv'
  OBVIOUS
<1> DEFINE AllKept == PoolTypes' /\ Roles' /\ Transit' /\ Count'
<1>0. Workers \subseteq Threads
  BY PoolAssumption
<1>1. CASE UNCHANGED <<queueVars, poolVars>>
  <2>1. UNCHANGED <<items_, closed_, at, holding, caller, remaining, done_mutex, worker, ran>>
    BY <1>1 DEF queueVars, poolVars
  <2>2. QueueInv'
    BY <1>1, QueueStep DEF PoolInv
  <2>3. PoolTypes'
    BY <2>1, Zenon DEF PoolInv, PoolTypes, InCall
  <2>4. Roles'
    BY <2>1, Zenon DEF PoolInv, Roles, Pushing
  <2>5. Transit' /\ Count'
    BY <2>1, Framed DEF InCall, Pushing, Holds
  <2> QED
    BY <2>2, <2>3, <2>4, <2>5, Zenon DEF PoolInv
<1>2. ASSUME NEW count \in 0..MaxCount, Calls(count) PROVE AllKept
  BY <1>2, CallKeeps
<1>3. ASSUME NEW w \in Workers, WorkerRuns(w) PROVE AllKept
  BY <1>3, RunKeeps
<1>4. ASSUME Destroys \/ Joins PROVE AllKept
  BY <1>4, EndKeeps
<1>5. ASSUME Submits PROVE AllKept
  BY <1>5, SubmitKeeps
<1>6. ASSUME Waits \/ WakesForNothing PROVE AllKept
  BY <1>6, WaitKeeps
<1>7. ASSUME NEW w \in Workers, JobCounts(w) \/ JobNotifies(w) PROVE AllKept
  BY <1>7, JobEndKeeps
<1>8. ASSUME NEW w \in Workers, WorkerPops(w) PROVE AllKept
  <2>1. ~Holds(w) /\ worker[w] = "loop" /\ PopSection(w)
        /\ worker' = [worker EXCEPT ![w] = "popping"] /\ UNCHANGED <<caller, remaining, done_mutex, ran>>
    BY <1>8 DEF WorkerPops, Worker, Pop, Holds
  <2> QED
    BY <2>1, PopStepKeeps, Zenon
<1>9. ASSUME NEW t \in Threads, PopResumes(t), UNCHANGED poolVars PROVE AllKept
  <2>1. at[t] = "popWoken" /\ PopSection(t)
    BY <1>9, Zenon DEF PopResumes
  <2>2. t \in Workers /\ worker[t] = "popping" /\ ~Holds(t)
    BY <2>1, PoolAssumption DEF PoolInv, Roles, Holds
  <2>3. UNCHANGED <<caller, remaining, done_mutex, ran>> /\ worker' = [worker EXCEPT ![t] = "popping"]
    BY <1>9, <2>2 DEF poolVars, PoolInv, PoolTypes
  <2> QED
    BY <2>1, <2>2, <2>3, PopStepKeeps, Zenon
<1>10. ASSUME NEW t \in Threads, QueueContinues(t) \/ QueueWakesForNothing(t) PROVE AllKept
  <2>1. UNCHANGED poolVars
    BY <1>10 DEF QueueContinues, QueueWakesForNothing
  <2>2. CASE PushResumes(t)
    BY <2>1, <2>2, PushResumeKeeps
  <2>3. CASE PopResumes(t)
    BY <2>1, <2>3, <1>9
  <2>4. CASE \/ PushNotifies(t) \/ PopNotifies(t) \/ CloseWakesConsumers(t)
             \/ CloseWakesProducers(t) \/ SpuriousWake(t)
    BY <2>1, <2>4, QueueMoveKeeps
  <2> QED
    BY <1>10, <2>2, <2>3, <2>4 DEF QueueContinues, QueueWakesForNothing, Continues
<1>11. CASE PoolNext
  <2>1. AllKept
    BY <1>2, <1>3, <1>4, <1>5, <1>6, <1>7, <1>8, <1>10, <1>11, Zenon
       DEF PoolNext, PoolStep, CallerStep, WorkerStep
  <2> QED
    BY <2>1, <1>11, QueueKept, Zenon DEF PoolInv
<1> QED
  BY <1>1, <1>11

LEMMA InvImpliesOutlives == PoolInv => FrameOutlivesJobs
<1> SUFFICES ASSUME PoolInv PROVE FrameOutlivesJobs
  OBVIOUS
<1>1. \A i \in DOMAIN items_ : InCall /\ items_[i].call = caller.call
  <2>0. \A i \in DOMAIN items_ : items_[i] = [call |-> caller.call, index |-> Popped + i - 1]
    BY DEF PoolInv, Transit
  <2>1. ASSUME NEW i \in DOMAIN items_ PROVE items_[i].call = caller.call
    <3>1. items_[i] = [call |-> caller.call, index |-> Popped + i - 1]
      BY <2>0
    <3> QED
      BY <3>1
  <2>2. ~InCall => items_ = <<>>
    BY DEF PoolInv, Count
  <2>3. items_ = <<>> => DOMAIN items_ = {}
    OBVIOUS
  <2> QED
    BY <2>1, <2>2, <2>3, Zenon
<1>2. \A w \in Workers : worker[w] \in {"ran", "counted"} => InCall /\ holding[w].call = caller.call
  BY DEF PoolInv, Transit
<1>3. caller.pc = "idle" => ran = 0..caller.count - 1
  BY DEF PoolInv, Count, InCall
<1> QED
  BY <1>1, <1>2, <1>3 DEF FrameOutlivesJobs

\* For any number of workers, calls and indices and any capacity: no job in the queue or with
\* a worker uses the mutex, the condition variable and the counter of for_each_index() after
\* it has returned, and by then every index has run.
THEOREM JobsNeverOutliveCall == PoolSpec => []FrameOutlivesJobs
<1> QED
  BY InvImpliesOutlives, PoolInitInv, PoolNextKeeps, PTL DEF PoolSpec

-----------------------------------------------------------------------------
(* The pipeline: each of its steps is a step of the pool, or leaves it alone. *)

PipelineInv == PoolInv /\ lines \in Wafers

\* A step of the pipeline is one of the pool for calls of any size, or none of its.
LEMMA PipelineSteps ==
    ASSUME lines \in Wafers, [Next]_vars
    PROVE  [PoolNext]_<<queueVars, poolVars>> /\ lines' = lines
<1>1. CASE CallsPool
  <2>1. Len(lines) \in 0..MaxCount
    BY WafersAssumption
  <2> QED
    BY <1>1, <2>1 DEF CallsPool, PoolNext, dataVars
<1>2. CASE Concludes
  BY <1>2 DEF Concludes
<1>3. CASE Ends
  BY <1>3 DEF Ends, PoolNext, dataVars
<1>4. CASE PoolContinues
  BY <1>4, Zenon DEF PoolContinues, PoolNext, dataVars
<1>5. ASSUME NEW w \in Workers, JobRuns(w)
      PROVE  [PoolNext]_<<queueVars, poolVars>> /\ lines' = lines
  BY <1>5 DEF JobRuns, PoolNext
<1>6. CASE Terminated \/ UNCHANGED vars
  BY <1>6 DEF Terminated, vars, dataVars
<1> QED
  BY <1>1, <1>2, <1>3, <1>4, <1>5, <1>6, Zenon DEF Next

LEMMA PipelineInitially == Init => PipelineInv
  BY PoolInitInv DEF Init, PipelineInv

LEMMA PipelineKeeps == PipelineInv /\ [Next]_vars => PipelineInv'
  BY PipelineSteps, PoolNextKeeps DEF PipelineInv

\* run_pipeline() on any wafers, with any number of workers and any capacity of the queue: no
\* job of its filters or its fits uses the local variables of for_each_index() after that call
\* has returned, and by then every line has been filtered, or fitted.
THEOREM LinesNeverOutliveCall == Spec => []FrameOutlivesJobs
<1>1. PipelineInv => FrameOutlivesJobs
  BY InvImpliesOutlives DEF PipelineInv
<1> QED
  BY <1>1, PipelineInitially, PipelineKeeps, PTL DEF Spec

\* BoundedQueue under the pool: the jobs of run_pipeline() go through a bounded first-in
\* first-out channel, for any number of workers and any capacity.
THEOREM JobsPassInOrder == Spec => ImplementsFifo
<1>1. Init => Fifo!Init
  BY DEF Init, PoolInit, QueueInit, Fifo!Init
<1>2. PipelineInv /\ [Next]_vars => [Fifo!Next]_(Fifo!vars)
  <2> SUFFICES ASSUME PipelineInv, [Next]_vars PROVE [Fifo!Next]_(Fifo!vars)
    OBVIOUS
  <2>1. [PoolNext]_<<queueVars, poolVars>>
    BY PipelineSteps DEF PipelineInv
  <2>2. CASE PoolNext
    BY <2>2, QueueKept DEF PipelineInv, ChannelStep, Fifo!vars
  <2>3. CASE UNCHANGED <<queueVars, poolVars>>
    BY <2>3, Zenon DEF queueVars, Fifo!vars
  <2> QED
    BY <2>1, <2>2, <2>3
<1> QED
  BY <1>1, <1>2, PipelineInitially, PipelineKeeps, PTL DEF Spec, ImplementsFifo, Fifo!Spec

-----------------------------------------------------------------------------
(* The result does not depend on the schedule. *)

Filtered(i) == In(Filters, lines[i])
Fitted(i) == In(Fits, <<lines[i], Filtered(i)>>)

AllFiltered == \A i \in DOMAIN lines : filtered_lines[i] = Filtered(i)
AllFitted == \A i \in DOMAIN lines : line_fits[i] = Fitted(i)

\* What one thread would have computed, line after line.
ResultIsSerial ==
    returned => \A i \in DOMAIN lines :
                  /\ filtered_lines[i] = Filter(lines[i])
                  /\ line_fits[i] = Fit(lines[i], Filter(lines[i]))

\* The tables hold one entry for each line.
LEMMA TablesLookUp ==
    ASSUME NEW line \in AllLines
    PROVE  In(Filters, line) = Filter(line) /\ In(Fits, <<line, Filter(line)>>) = Fit(line, Filter(line))
<1>1. <<line, Filter(line)>> \in Filters
  BY DEF Filters
<1>2. \A entry \in Filters : entry[1] = line => entry[2] = Filter(line)
  BY DEF Filters
<1>3. In(Filters, line) = Filter(line)
  BY <1>1, <1>2 DEF In
<1>4. PICK filter : filter = <<line, Filter(line)>>
  BY Zenon
<1>5. <<filter, Fit(line, Filter(line))>> \in Fits
  BY <1>1, <1>4 DEF Fits
<1>6. \A entry \in Fits : entry[1] = filter => entry[2] = Fit(line, Filter(line))
  BY <1>4 DEF Fits
<1>7. In(Fits, filter) = Fit(line, Filter(line))
  BY <1>5, <1>6 DEF In
<1> QED
  BY <1>3, <1>4, <1>7, Zenon

\* Every index that has run has written its own line, and the fits read finished filters.
DataInv ==
    /\ DOMAIN filtered_lines = DOMAIN lines /\ DOMAIN line_fits = DOMAIN lines
    /\ filtered_lines = [i \in DOMAIN lines |-> filtered_lines[i]]
    /\ line_fits = [i \in DOMAIN lines |-> line_fits[i]]
    /\ returned \in BOOLEAN
    /\ caller.call >= 1 => caller.count = Len(lines)
    /\ caller.call = 1 => \A i \in ran : filtered_lines[i + 1] = Filtered(i + 1)
    /\ caller.call >= 2 => AllFiltered /\ \A i \in ran : line_fits[i + 1] = Fitted(i + 1)
    /\ returned => caller.call >= 2
    /\ caller.call > 2 \/ returned => AllFitted

LEMMA LinesNumbered ==
    ASSUME PipelineInv
    PROVE  /\ Len(lines) \in Nat /\ DOMAIN lines = 1..Len(lines)
           /\ caller.call \in Nat /\ caller.count \in Nat
  BY WafersAssumption DEF PipelineInv, PoolInv, PoolTypes

\* Once a call has returned, every line has been seen to.
LEMMA AllLinesRan ==
    ASSUME PipelineInv, caller.pc = "idle", caller.count = Len(lines)
    PROVE  \A i \in DOMAIN lines : i - 1 \in ran /\ (i - 1) + 1 = i
<1>1. ran = 0..caller.count - 1
  BY Zenon DEF PipelineInv, PoolInv, Count, InCall
<1> QED
  BY <1>1, LinesNumbered

\* A call begins: what the previous one was for is complete.
LEMMA CallKeepsData ==
    ASSUME PipelineInv, DataInv, CallsPool
    PROVE  DataInv'
<1>1. /\ caller.pc = "idle" /\ ran' = {}
      /\ caller' = [pc |-> "submitting", call |-> caller.call + 1, count |-> Len(lines),
                    submitted |-> 0]
      /\ UNCHANGED <<lines, filtered_lines, line_fits, returned>>
  BY Zenon DEF CallsPool, Calls, dataVars
<1>2. caller'.call = caller.call + 1 /\ caller'.count = Len(lines) /\ caller.call \in Nat
  BY <1>1, LinesNumbered, Zenon
<1>3. caller'.call >= 2 => AllFiltered
  <2>1. CASE caller.call = 1
    <3>1. \A i \in DOMAIN lines : i - 1 \in ran /\ (i - 1) + 1 = i
      BY <1>1, <2>1, AllLinesRan DEF DataInv
    <3>2. \A i \in ran : filtered_lines[i + 1] = Filtered(i + 1)
      BY <2>1, Zenon DEF DataInv
    <3> QED
      BY <3>1, <3>2, Zenon DEF AllFiltered
  <2> QED
    BY <1>2, <2>1 DEF DataInv
<1>4. caller'.call > 2 => AllFitted
  <2>1. CASE caller.call >= 2
    <3>1. \A i \in DOMAIN lines : i - 1 \in ran /\ (i - 1) + 1 = i
      BY <1>1, <1>2, <2>1, AllLinesRan DEF DataInv
    <3>2. \A i \in ran : line_fits[i + 1] = Fitted(i + 1)
      BY <2>1, Zenon DEF DataInv
    <3> QED
      BY <3>1, <3>2, Zenon DEF AllFitted
  <2> QED
    BY <1>2, <2>1
<1>5. (AllFiltered' <=> AllFiltered) /\ (AllFitted' <=> AllFitted)
  BY <1>1 DEF AllFiltered, AllFitted, Filtered, Fitted
<1> QED
  BY <1>1, <1>2, <1>3, <1>4, <1>5 DEF DataInv

\* A job that is held, and each that has run, is for a line of the wafer.
LEMMA JobHasItsLine ==
    ASSUME PipelineInv, DataInv, NEW w \in Workers, Holds(w)
    PROVE  /\ holding[w].call = caller.call /\ caller.call >= 1
           /\ holding[w].index \in Nat /\ holding[w].index + 1 \in DOMAIN lines
           /\ \A k \in ran : k \in Nat /\ k + 1 \in DOMAIN lines
<1>1. DOMAIN lines = 1..Len(lines) /\ Len(lines) \in Nat
  BY LinesNumbered, Zenon
<1>2. /\ holding[w].call = caller.call /\ holding[w].index \in 0..Popped - 1
      /\ ran \subseteq 0..Popped - 1 /\ InCall
  BY Zenon DEF PipelineInv, PoolInv, Transit, Count
<1>3. Popped \in Nat /\ Popped <= caller.count /\ caller.call >= 1
  <2>1. Len(items_) \in Nat /\ Popped = Entered - Len(items_) /\ caller.submitted \in Nat
    BY DEF PipelineInv, PoolInv, QueueInv, PoolTypes, Popped
  <2>2. Entered <= caller.submitted /\ Entered \in Int
    BY <2>1 DEF Entered
  <2>3. caller.submitted <= caller.count /\ caller.count \in Nat /\ caller.call >= 1
    BY <1>2 DEF PipelineInv, PoolInv, PoolTypes
  <2>4. Popped \in Nat
    BY Zenon DEF PipelineInv, PoolInv, Transit
  <2> QED
    BY <2>1, <2>2, <2>3, <2>4
<1>4. caller.count = Len(lines)
  BY <1>3, Zenon DEF DataInv
<1>5. \A k \in 0..Popped - 1 : k \in Nat /\ k + 1 \in 1..Len(lines)
  BY <1>1, <1>3, <1>4
<1> QED
  BY <1>1, <1>2, <1>3, <1>5, Zenon

\* A job writes its own line.
LEMMA JobKeepsData ==
    ASSUME PipelineInv, DataInv, NEW w \in Workers, JobRuns(w)
    PROVE  DataInv'
<1> DEFINE n == holding[w].index
           i == n + 1
<1>1. UNCHANGED <<lines, returned, caller>>
  BY Zenon DEF JobRuns, WorkerRuns
<1>2. caller.call \in Nat /\ DOMAIN lines = 1..Len(lines) /\ Len(lines) \in Nat
  BY LinesNumbered, Zenon
<1>3. \A k : Filtered(k)' = Filtered(k) /\ Fitted(k)' = Fitted(k)
  BY <1>1, Zenon DEF Filtered, Fitted
<1>4. CASE holding[w] = NoItem
  <2>1. UNCHANGED <<filtered_lines, line_fits, ran>>
    BY <1>4, Zenon DEF JobRuns, WorkerRuns
  <2>2. (AllFiltered' <=> AllFiltered) /\ (AllFitted' <=> AllFitted)
    BY <1>1, <1>3, <2>1, Zenon DEF AllFiltered, AllFitted
  <2> QED
    BY <1>1, <1>3, <2>1, <2>2, Zenon DEF DataInv
<1>5. CASE holding[w] # NoItem
  <2>1. /\ Holds(w) /\ ran' = ran \union {n}
        /\ IF holding[w].call = 1
           THEN /\ filtered_lines' = [filtered_lines EXCEPT ![i] = In(Filters, lines[i])]
                /\ UNCHANGED line_fits
           ELSE /\ line_fits' = [line_fits EXCEPT ![i] = In(Fits, <<lines[i], filtered_lines[i]>>)]
                /\ UNCHANGED filtered_lines
    BY <1>5, Zenon DEF JobRuns, WorkerRuns, Holds
  <2>2. holding[w].call = caller.call /\ caller.call >= 1
    BY <2>1, JobHasItsLine, Zenon
  <2>3. n \in Nat /\ i \in DOMAIN lines
    BY <2>1, JobHasItsLine, Zenon
  <2>4. \A k \in ran : k \in Nat /\ k + 1 \in DOMAIN lines
    BY <2>1, JobHasItsLine, Zenon
  <2> HIDE DEF n
  <2>5. CASE caller.call = 1
    <3>0. ~(caller.call >= 2) /\ ~(caller.call > 2)
      BY <2>5
    <3>1. /\ filtered_lines' = [filtered_lines EXCEPT ![i] = Filtered(i)] /\ UNCHANGED line_fits
          /\ ~returned
      BY <2>1, <2>2, <2>5, <3>0, Zenon DEF Filtered, DataInv
    <3>2. /\ DOMAIN filtered_lines' = DOMAIN lines /\ filtered_lines'[i] = Filtered(i)
          /\ \A k \in DOMAIN lines : k # i => filtered_lines'[k] = filtered_lines[k]
          /\ filtered_lines' = [k \in DOMAIN lines |-> filtered_lines'[k]]
      BY <2>3, <3>1 DEF DataInv
    <3>3. \A k \in ran : filtered_lines[k + 1] = Filtered(k + 1)
      BY <2>5, Zenon DEF DataInv
    <3>4. \A k \in ran' : filtered_lines'[k + 1] = Filtered(k + 1)
      BY <2>1, <2>4, <3>2, <3>3, Zenon
    <3> QED
      BY <1>1, <1>3, <2>5, <3>0, <3>1, <3>2, <3>4, Zenon DEF DataInv
  <2>6. CASE caller.call >= 2
    <3>0. caller.call # 1 /\ holding[w].call # 1
      BY <2>2, <2>6
    <3>1. filtered_lines[i] = Filtered(i) /\ AllFiltered
      BY <2>3, <2>6, Zenon DEF DataInv, AllFiltered
    <3>2. line_fits' = [line_fits EXCEPT ![i] = Fitted(i)] /\ UNCHANGED filtered_lines
      BY <2>1, <3>0, <3>1, Zenon DEF Fitted
    <3>3. /\ DOMAIN line_fits' = DOMAIN lines /\ line_fits'[i] = Fitted(i)
          /\ \A k \in DOMAIN lines : k # i => line_fits'[k] = line_fits[k]
          /\ line_fits' = [k \in DOMAIN lines |-> line_fits'[k]]
      BY <2>3, <3>2 DEF DataInv
    <3>4. \A k \in ran : line_fits[k + 1] = Fitted(k + 1)
      BY <2>6, Zenon DEF DataInv
    <3>5. \A k \in ran' : line_fits'[k + 1] = Fitted(k + 1)
      BY <2>1, <2>4, <3>3, <3>4, Zenon
    <3>6. AllFiltered' /\ (AllFitted => AllFitted')
      BY <1>1, <1>3, <3>1, <3>2, <3>3, Zenon DEF AllFiltered, AllFitted
    <3> QED
      BY <1>1, <1>3, <2>6, <3>0, <3>2, <3>3, <3>5, <3>6, Zenon DEF DataInv
  <2>7. caller.call = 1 \/ caller.call >= 2
    BY <1>2, <2>2
  <2> QED
    BY <2>5, <2>6, <2>7, Zenon
<1> QED
  BY <1>4, <1>5, Zenon

\* run_pipeline() is done with the second call: its lines are all fitted.
LEMMA ConcludeKeepsData ==
    ASSUME PipelineInv, DataInv, Concludes
    PROVE  DataInv'
<1>1. /\ caller.pc = "idle" /\ caller.call = 2 /\ returned' = TRUE
      /\ UNCHANGED <<caller, ran, lines, filtered_lines, line_fits>>
  BY DEF Concludes, poolVars
<1>0. caller.call \in Nat /\ caller.call >= 2 /\ caller.call >= 1 /\ caller.call # 1
  BY <1>1
<1>2. AllFitted
  <2>1. \A i \in DOMAIN lines : i - 1 \in ran /\ (i - 1) + 1 = i
    BY <1>0, <1>1, AllLinesRan, Zenon DEF DataInv
  <2>2. \A i \in ran : line_fits[i + 1] = Fitted(i + 1)
    BY <1>0, Zenon DEF DataInv
  <2> QED
    BY <2>1, <2>2, Zenon DEF AllFitted
<1>3. (AllFiltered' <=> AllFiltered) /\ AllFitted'
  BY <1>1, <1>2, Zenon DEF AllFiltered, AllFitted, Filtered, Fitted
<1>4. \A k : Filtered(k)' = Filtered(k) /\ Fitted(k)' = Fitted(k)
  BY <1>1 DEF Filtered, Fitted
<1> QED
  BY <1>0, <1>1, <1>3, <1>4, Zenon DEF DataInv

\* The other steps leave the call, its indices and the data alone.
LEMMA RestKeepsData ==
    ASSUME DataInv, caller'.call = caller.call, caller'.count = caller.count,
           UNCHANGED <<ran, dataVars>>
    PROVE  DataInv'
<1>1. UNCHANGED <<ran, lines, filtered_lines, line_fits, returned>>
  BY Zenon DEF dataVars
<1>2. (AllFiltered' <=> AllFiltered) /\ (AllFitted' <=> AllFitted)
  BY <1>1, Zenon DEF AllFiltered, AllFitted, Filtered, Fitted
<1>3. \A k : Filtered(k)' = Filtered(k) /\ Fitted(k)' = Fitted(k)
  BY <1>1 DEF Filtered, Fitted
<1> QED
  BY <1>1, <1>2, <1>3, Zenon DEF DataInv

LEMMA DataInitially == Init => DataInv
<1> SUFFICES ASSUME Init PROVE DataInv
  OBVIOUS
<1>1. /\ caller.call = 0 /\ returned = FALSE
      /\ filtered_lines = [i \in DOMAIN lines |-> <<>>]
      /\ line_fits = [i \in DOMAIN lines |-> Unfitted]
  BY DEF Init, PoolInit
<1>2. ~(caller.call >= 1) /\ ~(caller.call >= 2) /\ ~(caller.call > 2) /\ caller.call # 1
  BY <1>1
<1> QED
  BY <1>1, <1>2, Zenon DEF DataInv

LEMMA DataKeeps == PipelineInv /\ DataInv /\ [Next]_vars => DataInv'
<1> SUFFICES ASSUME PipelineInv, DataInv, [Next]_vars PROVE DataInv'
  OBVIOUS
<1>0. caller = [caller EXCEPT !.pc = caller.pc] /\ PoolTypes
  BY DEF PipelineInv, PoolInv, PoolTypes
<1>1. CASE CallsPool
  BY <1>1, CallKeepsData
<1>2. ASSUME NEW w \in Workers, JobRuns(w) PROVE DataInv'
  BY <1>2, JobKeepsData, Zenon
<1>3. CASE Concludes
  BY <1>3, ConcludeKeepsData
<1>4. CASE Ends
  <2>1. caller' = [caller EXCEPT !.pc = "joining"] /\ UNCHANGED <<ran, dataVars>>
    BY <1>4 DEF Ends, Destroys
  <2>2. caller'.call = caller.call /\ caller'.count = caller.count
    BY <1>0, <2>1, Zenon DEF PoolTypes
  <2> QED
    BY <2>1, <2>2, RestKeepsData
<1>5. CASE PoolContinues
  <2>1. UNCHANGED <<ran, dataVars>>
    BY <1>5 DEF PoolContinues, PoolStep, CallerStep, Submits, Waits, Joins, WakesForNothing,
                WorkerStep, WorkerPops, JobCounts, JobNotifies, QueueContinues,
                QueueWakesForNothing, poolVars
  <2>2. \/ \E pc : caller' = [caller EXCEPT !.pc = pc]
        \/ caller' = [caller EXCEPT !.submitted = @ + 1]
        \/ caller' = caller
    BY <1>5 DEF PoolContinues, PoolStep, CallerStep, Submits, Waits, Joins, WakesForNothing,
                WorkerStep, WorkerPops, JobCounts, JobNotifies, QueueContinues,
                QueueWakesForNothing, poolVars
  <2>3. caller'.call = caller.call /\ caller'.count = caller.count
    BY <1>0, <2>2, Zenon DEF PoolTypes
  <2> QED
    BY <2>1, <2>3, RestKeepsData, Zenon
<1>6. CASE Terminated \/ UNCHANGED vars
  BY <1>6, RestKeepsData DEF Terminated, vars, poolVars
<1> QED
  BY <1>1, <1>2, <1>3, <1>4, <1>5, <1>6, Zenon DEF Next

\* pipeline.cpp's two parallel loops: for any wafer, any number of workers, any capacity of the
\* queue and any schedule, the flags and the fits run_pipeline() returns are those of one thread
\* that takes the lines one after the other.  No line is left out, written twice with different
\* values, or fitted before it has been filtered.
THEOREM ScheduleDoesNotMatter == Spec => []ResultIsSerial
<1>1. PipelineInv /\ DataInv => ResultIsSerial
  <2> SUFFICES ASSUME PipelineInv, DataInv, returned, NEW i \in DOMAIN lines
               PROVE  /\ filtered_lines[i] = Filter(lines[i])
                      /\ line_fits[i] = Fit(lines[i], Filter(lines[i]))
    BY DEF ResultIsSerial
  <2>1. AllFiltered /\ AllFitted
    BY Zenon DEF DataInv
  <2>2. filtered_lines[i] = Filtered(i) /\ line_fits[i] = Fitted(i)
    BY <2>1, Zenon DEF AllFiltered, AllFitted
  <2>3. lines[i] \in AllLines
    BY DEF AllLines, PipelineInv
  <2> QED
    BY <2>2, <2>3, TablesLookUp, Zenon DEF Filtered, Fitted
<1>2. PipelineInv /\ DataInv /\ [Next]_vars => (PipelineInv /\ DataInv)'
  BY PipelineKeeps, DataKeeps
<1> QED
  BY <1>1, <1>2, PipelineInitially, DataInitially, PTL DEF Spec
=============================================================================
