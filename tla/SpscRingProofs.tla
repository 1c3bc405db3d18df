--------------------------- MODULE SpscRingProofs ---------------------------
(***************************************************************************)
(* The sample queue, for every capacity, ring size, index width, number of *)
(* spins and policy: nobody sleeps with its predicate true unless a        *)
(* notification is on its way; the two threads never share a slot; every   *)
(* push() is accounted for; and the ring is a bounded first-in first-out   *)
(* channel.                                                                *)
(***************************************************************************)
EXTENDS SpscRing, SequenceTheorems, TLAPS

-----------------------------------------------------------------------------
(* The wake-up handshake. *)

\* The producer holds mutex_ exactly here.
ProducerLocked ==
    \/ producer.pc \in {"flag", "testClosed", "testSpace", "sleep", "unflag", "recheck", "unlock"}
    \/ producer.pc \in {"check", "fill", "publish"} /\ producer.mode = "locked"

\* The consumer holds mutex_ exactly here.
ConsumerLocked ==
    \/ consumer.pc \in {"readClosed", "flag", "testClosed", "testItem", "sleep", "unflag", "unlock"}
    \/ consumer.pc \in {"check", "take", "publish"} /\ consumer.mode = "locked"

Waiting == {"testClosed", "sleep", "asleep", "woken", "unflag"}

Producers == [pc : PushPcs, mode : {"fast", "spin", "locked"}, spins : Int]

Consumers ==
    [pc : PopPcs, mode : {"spin", "locked"}, spins : Int, was_closed : BOOLEAN, item : Int]

ThreadTypes ==
    /\ producer \in Producers
    /\ consumer \in Consumers
    /\ closer \in {"idle", "lock", "notify", "done"}
    /\ mutex \in {None, "producer", "consumer"}
    /\ closed \in BOOLEAN /\ item \in Int
    /\ head \in Int /\ tail \in Int
    /\ slots \in [0..RingSize - 1 -> Int]

\* The mutex has the owner the program counters say, try_push and try_pop know
\* whether they run under it, and a waiting flag is up between its two stores.
Handshake ==
    /\ mutex = "producer" <=> ProducerLocked
    /\ mutex = "consumer" <=> ConsumerLocked
    /\ producer.pc \in Waiting \union {"lock", "flag", "testSpace", "recheck"} =>
           producer.mode = "locked"
    /\ producer.pc = "spin" => producer.mode = "spin"
    /\ consumer.pc \in Waiting \union {"lock", "readClosed", "flag", "testItem"} =>
           consumer.mode = "locked"
    /\ producer.pc \in Waiting \union {"testSpace"} => producer_waiting
    /\ consumer.pc \in Waiting \union {"testItem"} => consumer_waiting

\* A side that found its predicate false, asleep or about to be, has a
\* notification coming if the predicate has become true since.  While it still
\* holds the mutex the notifier cannot have passed its own lock.
Woke ==
    /\ consumer.pc \in {"sleep", "asleep"} /\ has_item =>
           producer.pc \in {"unlock", "wake", "wakeLock"}
               \union (IF consumer.pc = "asleep" THEN {"notify"} ELSE {})
    /\ producer.pc \in {"sleep", "asleep"} /\ has_space =>
           consumer.pc \in {"unlock", "wake", "wakeLock"}
               \union (IF producer.pc = "asleep" THEN {"notify"} ELSE {})
    /\ closed =>
           /\ consumer.pc \in {"testItem", "sleep"} => closer = "lock"
           /\ producer.pc \in {"testSpace", "sleep"} => closer = "lock"
           /\ "asleep" \in {producer.pc, consumer.pc} => closer \in {"lock", "notify"}
    /\ closer = "idle" <=> ~closed

WakeInv == ThreadTypes /\ Handshake /\ Woke

-----------------------------------------------------------------------------
(* The invariant is inductive. *)

\* The ways the consumer's record is updated keep its type.
LEMMA ConsumerUpdate ==
    ASSUME NEW c \in Consumers, NEW p \in PopPcs, NEW m \in {"spin", "locked"}, NEW k \in Int
    PROVE  /\ [c EXCEPT !.pc = p, !.mode = m, !.spins = k] \in Consumers
           /\ [c EXCEPT !.pc = p, !.mode = m] \in Consumers
           /\ [c EXCEPT !.pc = p] \in Consumers
           /\ [c EXCEPT !.spins = k] \in Consumers
BY Zenon DEF Consumers

\* pop() starts from a consumer record.
LEMMA CallIsConsumer ==
    ASSUME NEW c \in Consumers
    PROVE  [c EXCEPT !.pc = "check", !.mode = "spin", !.spins = 0] \in Consumers
<1>1. "check" \in PopPcs /\ "spin" \in {"spin", "locked"} /\ 0 \in Int
  BY DEF PopPcs
<1> QED
  BY <1>1, ConsumerUpdate, Zenon

\* The ways the producer's record is updated keep its type.
LEMMA ProducerUpdate ==
    ASSUME NEW c \in Producers, NEW p \in PushPcs, NEW m \in {"spin", "locked"}, NEW k \in Int
    PROVE  /\ [c EXCEPT !.pc = p, !.mode = m] \in Producers
           /\ [c EXCEPT !.pc = p, !.spins = k] \in Producers
           /\ [c EXCEPT !.pc = p] \in Producers
BY Zenon DEF Producers

\* Whatever push() does about a full ring, the producer's record keeps its type.
LEMMA FullIsProducer == producer \in Producers => PushFull \in Producers
<1> SUFFICES ASSUME producer \in Producers PROVE PushFull \in Producers
  OBVIOUS
<1>1. producer.mode \in {"fast", "spin", "locked"} /\ producer.spins + 1 \in Int
  BY DEF Producers
<1>2. {"idle", "spin", "lock", "flag"} \subseteq PushPcs
  BY Zenon DEF PushPcs
<1>3. CASE producer.mode = "fast" /\ drop_newest
  <2>1. PushFull = [producer EXCEPT !.pc = "idle"]
    BY Zenon, <1>3 DEF PushFull, At
  <2> QED
    BY Zenon, <1>1, <1>2, <2>1, ProducerUpdate
<1>4. CASE producer.mode = "fast" /\ ~drop_newest
  <2>1. PushFull = [producer EXCEPT !.pc = "spin", !.mode = "spin"]
    BY Zenon, <1>4 DEF PushFull, At
  <2> QED
    BY Zenon, <1>1, <1>2, <2>1, ProducerUpdate
<1>5. CASE producer.mode = "spin" /\ producer.spins + 1 < SpinTries
  <2>1. PushFull = [producer EXCEPT !.pc = "spin", !.spins = producer.spins + 1]
    BY SMTT(30), <1>1, <1>5, SpscAssumption DEF PushFull, At
  <2> QED
    BY Zenon, <1>1, <1>2, <2>1, ProducerUpdate
<1>6. CASE producer.mode = "spin" /\ ~(producer.spins + 1 < SpinTries)
  <2>1. PushFull = [producer EXCEPT !.pc = "lock", !.mode = "locked"]
    BY SMTT(30), <1>1, <1>6, SpscAssumption DEF PushFull, At
  <2> QED
    BY Zenon, <1>1, <1>2, <2>1, ProducerUpdate
<1>7. CASE producer.mode = "locked"
  <2>1. PushFull = [producer EXCEPT !.pc = "flag"]
    BY <1>7 DEF PushFull, At
  <2> QED
    BY Zenon, <1>1, <1>2, <2>1, ProducerUpdate
<1> QED
  BY <1>1, <1>3, <1>4, <1>5, <1>6, <1>7

\* Whatever pop() does about an empty ring, the consumer's record keeps its type.
LEMMA EmptyIsConsumer == consumer \in Consumers => PopEmpty \in Consumers
<1> SUFFICES ASSUME consumer \in Consumers PROVE PopEmpty \in Consumers
  OBVIOUS
<1>1. /\ consumer.mode \in {"spin", "locked"} /\ consumer.spins + 1 \in Int
      /\ consumer.was_closed \in BOOLEAN
  BY DEF Consumers
<1>2. {"lock", "ended", "flag"} \subseteq PopPcs
  BY Zenon DEF PopPcs
<1>3. CASE consumer.mode = "spin" /\ consumer.spins + 1 < SpinTries
  <2>1. PopEmpty = [consumer EXCEPT !.spins = consumer.spins + 1]
    BY SMTT(30), <1>1, <1>3, SpscAssumption DEF PopEmpty, At
  <2> QED
    BY Zenon, <1>1, <1>2, <2>1, ConsumerUpdate
<1>4. CASE consumer.mode = "spin" /\ ~(consumer.spins + 1 < SpinTries)
  <2>1. PopEmpty = [consumer EXCEPT !.pc = "lock", !.mode = "locked"]
    BY SMTT(30), <1>1, <1>4, SpscAssumption DEF PopEmpty, At
  <2> QED
    BY Zenon, <1>1, <1>2, <2>1, ConsumerUpdate
<1>5. CASE consumer.mode = "locked" /\ consumer.was_closed
  <2>1. PopEmpty = [consumer EXCEPT !.pc = "ended"]
    BY Zenon, <1>5 DEF PopEmpty, At
  <2> QED
    BY Zenon, <1>1, <1>2, <2>1, ConsumerUpdate
<1>6. CASE consumer.mode = "locked" /\ ~consumer.was_closed
  <2>1. PopEmpty = [consumer EXCEPT !.pc = "flag"]
    BY <1>6 DEF PopEmpty, At
  <2> QED
    BY Zenon, <1>1, <1>2, <2>1, ConsumerUpdate
<1> QED
  BY <1>1, <1>3, <1>4, <1>5, <1>6

\* A new queue satisfies the invariant.
LEMMA InitWake == Init => WakeInv
<1> SUFFICES ASSUME Init PROVE WakeInv
  OBVIOUS
<1> USE SpscAssumption DEF Init, None
<1>1. ThreadTypes
  <2>1. "idle" \in PushPcs /\ "idle" \in PopPcs
    BY DEF PushPcs, PopPcs
  <2>2. producer \in Producers
    BY <2>1 DEF Producers
  <2>3. consumer \in Consumers
    BY <2>1 DEF Consumers, Empty
  <2>4. slots \in [0..RingSize - 1 -> Int]
    BY DEF Empty
  <2>5. closed \in BOOLEAN
    BY Zenon
  <2>6. closer = "idle" /\ mutex = "none" /\ item \in Int /\ head \in Int /\ tail \in Int
    OBVIOUS
  <2> QED
    BY <2>2, <2>3, <2>4, <2>5, <2>6 DEF ThreadTypes
<1>2. Handshake
  BY DEF Handshake, ProducerLocked, ConsumerLocked, Waiting
<1>3. Woke
  BY SMTT(30) DEF Woke
<1> QED
  BY <1>1, <1>2, <1>3 DEF WakeInv

\* Every step of push() keeps the invariant.
LEMMA ProducerWake ==
    ASSUME WakeInv, PushCall \/ ProducerStep
    PROVE  WakeInv'
<1> USE SpscAssumption DEF WakeInv, ThreadTypes, None, At, shared, handshake, counters
<1>1. CASE PushCall
  <2>1. ThreadTypes'
    <3>1. producer' \in Producers
      BY <1>1 DEF PushCall, Producers, PushPcs
    <3> QED
      BY <1>1, <3>1 DEF PushCall
  <2>2. Handshake'
    BY <1>1 DEF PushCall, Handshake, ProducerLocked, ConsumerLocked, Waiting,
              Producers, Consumers
  <2>3. Woke'
    BY <1>1 DEF PushCall, Woke, Handshake, ProducerLocked, ConsumerLocked, Waiting,
              has_item, has_space, Producers, Consumers
  <2> QED
    BY <2>1, <2>2, <2>3
<1>2. CASE PushCheck
  <2>1. ThreadTypes'
    <3>1. producer' \in Producers
      <4>1. {"idle", "spin", "lock", "flag", "fill"} \subseteq PushPcs
        BY DEF PushPcs
      <4>2. PushFull \in Producers
        BY <4>1, FullIsProducer
      <4> QED
        BY SMTT(30), <1>2, <4>1, <4>2 DEF PushCheck, Producers
    <3> QED
      BY Zenon, <1>2, <3>1 DEF PushCheck, PushFull
  <2>2. Handshake'
    BY SMTT(30), <1>2 DEF PushCheck, PushFull, Handshake, ProducerLocked, ConsumerLocked, Waiting,
              Producers, Consumers
  <2>3. Woke'
    BY SMTT(30), <1>2 DEF PushCheck, PushFull, Woke, Handshake, ProducerLocked, ConsumerLocked, Waiting,
              has_item, has_space, Producers, Consumers
  <2> QED
    BY <2>1, <2>2, <2>3
<1>3. CASE PushFill
  <2>1. ThreadTypes'
    <3>1. producer' \in Producers
      BY Zenon, <1>3 DEF PushFill, Slot, Producers, PushPcs
    <3> QED
      BY <1>3, <3>1 DEF PushFill, Slot
  <2>2. Handshake'
    BY <1>3 DEF PushFill, Handshake, ProducerLocked, ConsumerLocked, Waiting,
              Producers, Consumers
  <2>3. Woke'
    BY <1>3 DEF PushFill, Woke, Handshake, ProducerLocked, ConsumerLocked, Waiting,
              has_item, has_space, Producers, Consumers
  <2> QED
    BY <2>1, <2>2, <2>3
<1>4. CASE PushPublish
  <2>1. ThreadTypes'
    <3>1. producer' \in Producers
      BY SMTT(30), <1>4 DEF PushPublish, Following, Producers, PushPcs
    <3> QED
      BY <1>4, <3>1 DEF PushPublish, Following
  <2>2. Handshake'
    BY <1>4 DEF PushPublish, Handshake, ProducerLocked, ConsumerLocked, Waiting,
              Producers, Consumers
  <2>3. Woke'
    BY <1>4 DEF PushPublish, Woke, Handshake, ProducerLocked, ConsumerLocked, Waiting,
              has_item, has_space, Producers, Consumers
  <2> QED
    BY <2>1, <2>2, <2>3
<1>5. CASE PushSpin
  <2>1. ThreadTypes'
    <3>1. producer' \in Producers
      BY SMTT(30), <1>5 DEF PushSpin, Producers, PushPcs
    <3> QED
      BY <1>5, <3>1 DEF PushSpin
  <2>2. Handshake'
    BY <1>5 DEF PushSpin, Handshake, ProducerLocked, ConsumerLocked, Waiting,
              Producers, Consumers
  <2>3. Woke'
    BY <1>5 DEF PushSpin, Woke, Handshake, ProducerLocked, ConsumerLocked, Waiting,
              has_item, has_space, Producers, Consumers
  <2> QED
    BY <2>1, <2>2, <2>3
<1>6. CASE PushLock
  <2>1. ThreadTypes'
    <3>1. producer' \in Producers
      BY Zenon, <1>6 DEF PushLock, Producers, PushPcs
    <3> QED
      BY <1>6, <3>1 DEF PushLock
  <2>2. Handshake'
    BY <1>6 DEF PushLock, Handshake, ProducerLocked, ConsumerLocked, Waiting,
              Producers, Consumers
  <2>3. Woke'
    BY <1>6 DEF PushLock, Woke, Handshake, ProducerLocked, ConsumerLocked, Waiting,
              has_item, has_space, Producers, Consumers
  <2> QED
    BY <2>1, <2>2, <2>3
<1>7. CASE PushFlag
  <2>1. ThreadTypes'
    <3>1. producer' \in Producers
      BY <1>7 DEF PushFlag, Producers, PushPcs
    <3> QED
      BY <1>7, <3>1 DEF PushFlag
  <2>2. Handshake'
    BY <1>7 DEF PushFlag, Handshake, ProducerLocked, ConsumerLocked, Waiting,
              Producers, Consumers
  <2>3. Woke'
    BY <1>7 DEF PushFlag, Woke, Handshake, ProducerLocked, ConsumerLocked, Waiting,
              has_item, has_space, Producers, Consumers
  <2> QED
    BY <2>1, <2>2, <2>3
<1>8. CASE PushTestClosed
  <2>1. ThreadTypes'
    <3>1. producer' \in Producers
      BY SMTT(30), <1>8 DEF PushTestClosed, Producers, PushPcs
    <3> QED
      BY <1>8, <3>1 DEF PushTestClosed
  <2>2. Handshake'
    BY <1>8 DEF PushTestClosed, Handshake, ProducerLocked, ConsumerLocked, Waiting,
              Producers, Consumers
  <2>3. Woke'
    BY <1>8 DEF PushTestClosed, Woke, Handshake, ProducerLocked, ConsumerLocked, Waiting,
              has_item, has_space, Producers, Consumers
  <2> QED
    BY <2>1, <2>2, <2>3
<1>9. CASE PushTestSpace
  <2>1. ThreadTypes'
    <3>1. producer' \in Producers
      BY SMTT(30), <1>9 DEF PushTestSpace, Producers, PushPcs
    <3> QED
      BY <1>9, <3>1 DEF PushTestSpace
  <2>2. Handshake'
    BY <1>9 DEF PushTestSpace, Handshake, ProducerLocked, ConsumerLocked, Waiting,
              Producers, Consumers
  <2>3. Woke'
    BY <1>9 DEF PushTestSpace, Woke, Handshake, ProducerLocked, ConsumerLocked, Waiting,
              has_item, has_space, Producers, Consumers
  <2> QED
    BY <2>1, <2>2, <2>3
<1>10. CASE PushSleep
  <2>1. ThreadTypes'
    <3>1. producer' \in Producers
      BY <1>10 DEF PushSleep, Producers, PushPcs
    <3> QED
      BY <1>10, <3>1 DEF PushSleep
  <2>2. Handshake'
    BY <1>10 DEF PushSleep, Handshake, ProducerLocked, ConsumerLocked, Waiting,
              Producers, Consumers
  <2>3. Woke'
    BY <1>10 DEF PushSleep, Woke, Handshake, ProducerLocked, ConsumerLocked, Waiting,
              has_item, has_space, Producers, Consumers
  <2> QED
    BY <2>1, <2>2, <2>3
<1>11. CASE PushRelock
  <2>1. ThreadTypes'
    <3>1. producer' \in Producers
      BY Zenon, <1>11 DEF PushRelock, Producers, PushPcs
    <3> QED
      BY <1>11, <3>1 DEF PushRelock
  <2>2. Handshake'
    BY <1>11 DEF PushRelock, Handshake, ProducerLocked, ConsumerLocked, Waiting,
              Producers, Consumers
  <2>3. Woke'
    BY <1>11 DEF PushRelock, Woke, Handshake, ProducerLocked, ConsumerLocked, Waiting,
              has_item, has_space, Producers, Consumers
  <2> QED
    BY <2>1, <2>2, <2>3
<1>12. CASE PushUnflag
  <2>1. ThreadTypes'
    <3>1. producer' \in Producers
      BY <1>12 DEF PushUnflag, Producers, PushPcs
    <3> QED
      BY <1>12, <3>1 DEF PushUnflag
  <2>2. Handshake'
    BY <1>12 DEF PushUnflag, Handshake, ProducerLocked, ConsumerLocked, Waiting,
              Producers, Consumers
  <2>3. Woke'
    BY <1>12 DEF PushUnflag, Woke, Handshake, ProducerLocked, ConsumerLocked, Waiting,
              has_item, has_space, Producers, Consumers
  <2> QED
    BY <2>1, <2>2, <2>3
<1>13. CASE PushRecheck
  <2>1. ThreadTypes'
    <3>1. producer' \in Producers
      BY SMTT(30), <1>13 DEF PushRecheck, Producers, PushPcs
    <3> QED
      BY <1>13, <3>1 DEF PushRecheck
  <2>2. Handshake'
    BY <1>13 DEF PushRecheck, Handshake, ProducerLocked, ConsumerLocked, Waiting,
              Producers, Consumers
  <2>3. Woke'
    BY <1>13 DEF PushRecheck, Woke, Handshake, ProducerLocked, ConsumerLocked, Waiting,
              has_item, has_space, Producers, Consumers
  <2> QED
    BY <2>1, <2>2, <2>3
<1>14. CASE PushUnlock
  <2>1. ThreadTypes'
    <3>1. producer' \in Producers
      BY <1>14 DEF PushUnlock, Producers, PushPcs
    <3> QED
      BY <1>14, <3>1 DEF PushUnlock
  <2>2. Handshake'
    BY <1>14 DEF PushUnlock, Handshake, ProducerLocked, ConsumerLocked, Waiting,
              Producers, Consumers
  <2>3. Woke'
    BY <1>14 DEF PushUnlock, Woke, Handshake, ProducerLocked, ConsumerLocked, Waiting,
              has_item, has_space, Producers, Consumers
  <2> QED
    BY <2>1, <2>2, <2>3
<1>15. CASE PushWake
  <2>1. ThreadTypes'
    <3>1. producer' \in Producers
      BY SMTT(30), <1>15 DEF PushWake, Producers, PushPcs
    <3> QED
      BY <1>15, <3>1 DEF PushWake
  <2>2. Handshake'
    BY <1>15 DEF PushWake, Handshake, ProducerLocked, ConsumerLocked, Waiting,
              Producers, Consumers
  <2>3. Woke'
    BY <1>15 DEF PushWake, Woke, Handshake, ProducerLocked, ConsumerLocked, Waiting,
              has_item, has_space, Producers, Consumers
  <2> QED
    BY <2>1, <2>2, <2>3
<1>16. CASE PushWakeLock
  <2>1. ThreadTypes'
    <3>1. producer' \in Producers
      BY <1>16 DEF PushWakeLock, Producers, PushPcs
    <3> QED
      BY <1>16, <3>1 DEF PushWakeLock
  <2>2. Handshake'
    BY <1>16 DEF PushWakeLock, Handshake, ProducerLocked, ConsumerLocked, Waiting,
              Producers, Consumers
  <2>3. Woke'
    BY <1>16 DEF PushWakeLock, Woke, Handshake, ProducerLocked, ConsumerLocked, Waiting,
              has_item, has_space, Producers, Consumers
  <2> QED
    BY <2>1, <2>2, <2>3
<1>17. CASE PushNotify
  <2>1. ThreadTypes'
    <3>1. producer' \in Producers
      BY <1>17 DEF PushNotify, Woken, Producers, PushPcs
    <3>2. consumer' \in Consumers
      BY Zenon, <1>17 DEF PushNotify, Woken, Consumers, PopPcs
    <3> QED
      BY <1>17, <3>1, <3>2 DEF PushNotify, Woken
  <2>2. Handshake'
    BY <1>17 DEF PushNotify, Woken, Handshake, ProducerLocked, ConsumerLocked, Waiting,
              Producers, Consumers
  <2>3. Woke'
    BY SMTT(30), <1>17 DEF PushNotify, Woken, Woke, Handshake, ProducerLocked, ConsumerLocked, Waiting,
              has_item, has_space, Producers, Consumers
  <2> QED
    BY <2>1, <2>2, <2>3
<1> QED
  BY <1>1, <1>2, <1>3, <1>4, <1>5, <1>6, <1>7, <1>8, <1>9, <1>10, <1>11, <1>12, <1>13, <1>14, <1>15, <1>16, <1>17 DEF ProducerStep

\* Every step of pop() keeps the invariant.
LEMMA ConsumerWake ==
    ASSUME WakeInv, PopCall \/ ConsumerStep
    PROVE  WakeInv'
<1> USE SpscAssumption DEF WakeInv, ThreadTypes, None, At, shared, handshake, counters
<1>1. CASE PopCall
  <2>1. ThreadTypes'
    <3>1. consumer' \in Consumers
      <4>1. consumer' = [consumer EXCEPT !.pc = "check", !.mode = "spin", !.spins = 0]
        BY <1>1 DEF PopCall
      <4> QED
        BY Zenon, <4>1, CallIsConsumer
    <3> QED
      BY Zenon, <1>1, <3>1 DEF PopCall
  <2>2. Handshake'
    BY <1>1 DEF PopCall, Handshake, ProducerLocked, ConsumerLocked, Waiting,
              Producers, Consumers
  <2>3. Woke'
    BY <1>1 DEF PopCall, Woke, Handshake, ProducerLocked, ConsumerLocked, Waiting,
              has_item, has_space, Producers, Consumers
  <2> QED
    BY <2>1, <2>2, <2>3
<1>2. CASE PopCheck
  <2>1. ThreadTypes'
    <3>1. consumer' \in Consumers
      <4>1. {"lock", "ended", "flag", "take"} \subseteq PopPcs
        BY DEF PopPcs
      <4>2. PopEmpty \in Consumers
        BY <4>1, EmptyIsConsumer
      <4> QED
        BY Zenon, <1>2, <4>1, <4>2 DEF PopCheck, Consumers
    <3> QED
      BY Zenon, <1>2, <3>1 DEF PopCheck, PopEmpty
  <2>2. Handshake'
    <3>0. consumer.mode \in {"spin", "locked"} /\ consumer.was_closed \in BOOLEAN
      BY DEF Consumers
    <3>1. CASE ~(tail = cached_head /\ ~has_item)
      BY <1>2, <3>1 DEF PopCheck, Handshake, ProducerLocked, ConsumerLocked, Waiting,
                Producers, Consumers
    <3>2. CASE (tail = cached_head /\ ~has_item) /\ consumer.mode = "spin"
      BY SMTT(30), <1>2, <3>2 DEF PopCheck, PopEmpty, Handshake, ProducerLocked, ConsumerLocked, Waiting,
                Producers, Consumers
    <3>3. CASE (tail = cached_head /\ ~has_item) /\ consumer.mode = "locked" /\ consumer.was_closed
      BY <1>2, <3>3 DEF PopCheck, PopEmpty, Handshake, ProducerLocked, ConsumerLocked, Waiting,
                Producers, Consumers
    <3>4. CASE (tail = cached_head /\ ~has_item) /\ consumer.mode = "locked" /\ ~consumer.was_closed
      BY <1>2, <3>4 DEF PopCheck, PopEmpty, Handshake, ProducerLocked, ConsumerLocked, Waiting,
                Producers, Consumers
    <3> QED
      BY <3>0, <3>1, <3>2, <3>3, <3>4
  <2>3. Woke'
    BY SMTT(30), <1>2 DEF PopCheck, PopEmpty, Woke, Handshake, ProducerLocked, ConsumerLocked, Waiting,
              has_item, has_space, Producers, Consumers
  <2> QED
    BY <2>1, <2>2, <2>3
<1>3. CASE PopTake
  <2>1. ThreadTypes'
    <3>1. consumer' \in Consumers
      <4>1. "publish" \in PopPcs /\ slots[Slot(tail)] \in Int
        BY DEF PopPcs, Slot
      <4> QED
        BY Zenon, <1>3, <4>1 DEF PopTake, Consumers
    <3> QED
      BY <1>3, <3>1 DEF PopTake, Slot, Empty
  <2>2. Handshake'
    BY <1>3 DEF PopTake, Handshake, ProducerLocked, ConsumerLocked, Waiting,
              Producers, Consumers
  <2>3. Woke'
    BY <1>3 DEF PopTake, Woke, Handshake, ProducerLocked, ConsumerLocked, Waiting,
              has_item, has_space, Producers, Consumers
  <2> QED
    BY <2>1, <2>2, <2>3
<1>4. CASE PopPublish
  <2>1. ThreadTypes'
    <3>1. consumer' \in Consumers
      <4>1. {"unlock", "wake"} \subseteq PopPcs /\ Empty \in Int
        BY DEF PopPcs, Empty
      <4> QED
        BY Zenon, <1>4, <4>1 DEF PopPublish, Consumers
    <3> QED
      BY <1>4, <3>1, SMTT(20) DEF PopPublish, Following, Empty
  <2>2. Handshake'
    BY <1>4 DEF PopPublish, Handshake, ProducerLocked, ConsumerLocked, Waiting,
              Producers, Consumers
  <2>3. Woke'
    BY <1>4 DEF PopPublish, Woke, Handshake, ProducerLocked, ConsumerLocked, Waiting,
              has_item, has_space, Producers, Consumers
  <2> QED
    BY <2>1, <2>2, <2>3
<1>5. CASE PopLock
  <2>1. ThreadTypes'
    <3>1. consumer' \in Consumers
      BY Zenon, <1>5 DEF PopLock, Consumers, PopPcs
    <3> QED
      BY <1>5, <3>1 DEF PopLock
  <2>2. Handshake'
    BY <1>5 DEF PopLock, Handshake, ProducerLocked, ConsumerLocked, Waiting,
              Producers, Consumers
  <2>3. Woke'
    BY <1>5 DEF PopLock, Woke, Handshake, ProducerLocked, ConsumerLocked, Waiting,
              has_item, has_space, Producers, Consumers
  <2> QED
    BY <2>1, <2>2, <2>3
<1>6. CASE PopReadClosed
  <2>1. ThreadTypes'
    <3>1. consumer' \in Consumers
      BY Zenon, <1>6 DEF PopReadClosed, Consumers, PopPcs
    <3> QED
      BY <1>6, <3>1 DEF PopReadClosed
  <2>2. Handshake'
    BY <1>6 DEF PopReadClosed, Handshake, ProducerLocked, ConsumerLocked, Waiting,
              Producers, Consumers
  <2>3. Woke'
    BY <1>6 DEF PopReadClosed, Woke, Handshake, ProducerLocked, ConsumerLocked, Waiting,
              has_item, has_space, Producers, Consumers
  <2> QED
    BY <2>1, <2>2, <2>3
<1>7. CASE PopFlag
  <2>1. ThreadTypes'
    <3>1. consumer' \in Consumers
      BY SMTT(30), <1>7 DEF PopFlag, Consumers, PopPcs
    <3> QED
      BY <1>7, <3>1 DEF PopFlag
  <2>2. Handshake'
    BY <1>7 DEF PopFlag, Handshake, ProducerLocked, ConsumerLocked, Waiting,
              Producers, Consumers
  <2>3. Woke'
    BY <1>7 DEF PopFlag, Woke, Handshake, ProducerLocked, ConsumerLocked, Waiting,
              has_item, has_space, Producers, Consumers
  <2> QED
    BY <2>1, <2>2, <2>3
<1>8. CASE PopTestClosed
  <2>1. ThreadTypes'
    <3>1. consumer' \in Consumers
      BY SMTT(30), <1>8 DEF PopTestClosed, Consumers, PopPcs
    <3> QED
      BY <1>8, <3>1 DEF PopTestClosed
  <2>2. Handshake'
    BY <1>8 DEF PopTestClosed, Handshake, ProducerLocked, ConsumerLocked, Waiting,
              Producers, Consumers
  <2>3. Woke'
    BY <1>8 DEF PopTestClosed, Woke, Handshake, ProducerLocked, ConsumerLocked, Waiting,
              has_item, has_space, Producers, Consumers
  <2> QED
    BY <2>1, <2>2, <2>3
<1>9. CASE PopTestItem
  <2>1. ThreadTypes'
    <3>1. consumer' \in Consumers
      BY SMTT(30), <1>9 DEF PopTestItem, Consumers, PopPcs
    <3> QED
      BY <1>9, <3>1 DEF PopTestItem
  <2>2. Handshake'
    BY <1>9 DEF PopTestItem, Handshake, ProducerLocked, ConsumerLocked, Waiting,
              Producers, Consumers
  <2>3. Woke'
    BY <1>9 DEF PopTestItem, Woke, Handshake, ProducerLocked, ConsumerLocked, Waiting,
              has_item, has_space, Producers, Consumers
  <2> QED
    BY <2>1, <2>2, <2>3
<1>10. CASE PopSleep
  <2>1. ThreadTypes'
    <3>1. consumer' \in Consumers
      BY SMTT(30), <1>10 DEF PopSleep, Consumers, PopPcs
    <3> QED
      BY <1>10, <3>1 DEF PopSleep
  <2>2. Handshake'
    BY <1>10 DEF PopSleep, Handshake, ProducerLocked, ConsumerLocked, Waiting,
              Producers, Consumers
  <2>3. Woke'
    BY SMTT(30), <1>10 DEF PopSleep, Woke, Handshake, ProducerLocked, ConsumerLocked, Waiting,
              has_item, has_space, Producers, Consumers
  <2> QED
    BY <2>1, <2>2, <2>3
<1>11. CASE PopRelock
  <2>1. ThreadTypes'
    <3>1. consumer' \in Consumers
      BY Zenon, <1>11 DEF PopRelock, Consumers, PopPcs
    <3> QED
      BY <1>11, <3>1 DEF PopRelock
  <2>2. Handshake'
    BY <1>11 DEF PopRelock, Handshake, ProducerLocked, ConsumerLocked, Waiting,
              Producers, Consumers
  <2>3. Woke'
    BY <1>11 DEF PopRelock, Woke, Handshake, ProducerLocked, ConsumerLocked, Waiting,
              has_item, has_space, Producers, Consumers
  <2> QED
    BY <2>1, <2>2, <2>3
<1>12. CASE PopUnflag
  <2>1. ThreadTypes'
    <3>1. consumer' \in Consumers
      BY SMTT(30), <1>12 DEF PopUnflag, Consumers, PopPcs
    <3> QED
      BY <1>12, <3>1 DEF PopUnflag
  <2>2. Handshake'
    BY <1>12 DEF PopUnflag, Handshake, ProducerLocked, ConsumerLocked, Waiting,
              Producers, Consumers
  <2>3. Woke'
    BY <1>12 DEF PopUnflag, Woke, Handshake, ProducerLocked, ConsumerLocked, Waiting,
              has_item, has_space, Producers, Consumers
  <2> QED
    BY <2>1, <2>2, <2>3
<1>13. CASE PopUnlock
  <2>1. ThreadTypes'
    <3>1. consumer' \in Consumers
      BY SMTT(30), <1>13 DEF PopUnlock, Consumers, PopPcs
    <3> QED
      BY <1>13, <3>1 DEF PopUnlock
  <2>2. Handshake'
    BY <1>13 DEF PopUnlock, Handshake, ProducerLocked, ConsumerLocked, Waiting,
              Producers, Consumers
  <2>3. Woke'
    BY <1>13 DEF PopUnlock, Woke, Handshake, ProducerLocked, ConsumerLocked, Waiting,
              has_item, has_space, Producers, Consumers
  <2> QED
    BY <2>1, <2>2, <2>3
<1>14. CASE PopWake
  <2>1. ThreadTypes'
    <3>1. consumer' \in Consumers
      BY Zenon, <1>14 DEF PopWake, Consumers, PopPcs
    <3> QED
      BY <1>14, <3>1 DEF PopWake
  <2>2. Handshake'
    BY <1>14 DEF PopWake, Handshake, ProducerLocked, ConsumerLocked, Waiting,
              Producers, Consumers
  <2>3. Woke'
    BY <1>14 DEF PopWake, Woke, Handshake, ProducerLocked, ConsumerLocked, Waiting,
              has_item, has_space, Producers, Consumers
  <2> QED
    BY <2>1, <2>2, <2>3
<1>15. CASE PopWakeLock
  <2>1. ThreadTypes'
    <3>1. consumer' \in Consumers
      BY SMTT(30), <1>15 DEF PopWakeLock, Consumers, PopPcs
    <3> QED
      BY <1>15, <3>1 DEF PopWakeLock
  <2>2. Handshake'
    BY <1>15 DEF PopWakeLock, Handshake, ProducerLocked, ConsumerLocked, Waiting,
              Producers, Consumers
  <2>3. Woke'
    BY <1>15 DEF PopWakeLock, Woke, Handshake, ProducerLocked, ConsumerLocked, Waiting,
              has_item, has_space, Producers, Consumers
  <2> QED
    BY <2>1, <2>2, <2>3
<1>16. CASE PopNotify
  <2>1. ThreadTypes'
    <3>1. producer' \in Producers
      BY SMTT(30), <1>16 DEF PopNotify, Woken, Producers, PushPcs
    <3>2. consumer' \in Consumers
      BY <1>16 DEF PopNotify, Woken, Consumers, PopPcs
    <3> QED
      BY <1>16, <3>1, <3>2 DEF PopNotify, Woken
  <2>2. Handshake'
    BY <1>16 DEF PopNotify, Woken, Handshake, ProducerLocked, ConsumerLocked, Waiting,
              Producers, Consumers
  <2>3. Woke'
    BY SMTT(30), <1>16 DEF PopNotify, Woken, Woke, Handshake, ProducerLocked, ConsumerLocked, Waiting,
              has_item, has_space, Producers, Consumers
  <2> QED
    BY <2>1, <2>2, <2>3
<1> QED
  BY <1>1, <1>2, <1>3, <1>4, <1>5, <1>6, <1>7, <1>8, <1>9, <1>10, <1>11, <1>12, <1>13, <1>14, <1>15, <1>16 DEF ConsumerStep

\* close() and a spurious wake-up keep the invariant.
LEMMA CloserWake ==
    ASSUME WakeInv, CloseCall \/ CloserStep \/ SpuriousWake
    PROVE  WakeInv'
<1> USE SpscAssumption DEF WakeInv, ThreadTypes, None, At, shared, handshake, counters
<1>1. CASE CloseCall
  <2>1. ThreadTypes'
    BY <1>1 DEF CloseCall
  <2>2. Handshake'
    BY <1>1 DEF CloseCall, Handshake, ProducerLocked, ConsumerLocked, Waiting,
              Producers, Consumers
  <2>3. Woke'
    BY <1>1 DEF CloseCall, Woke, Handshake, ProducerLocked, ConsumerLocked, Waiting,
              has_item, has_space, Producers, Consumers
  <2> QED
    BY <2>1, <2>2, <2>3
<1>2. CASE CloseLock
  <2>1. ThreadTypes'
    BY <1>2 DEF CloseLock
  <2>2. Handshake'
    BY <1>2 DEF CloseLock, Handshake, ProducerLocked, ConsumerLocked, Waiting,
              Producers, Consumers
  <2>3. Woke'
    BY <1>2 DEF CloseLock, Woke, Handshake, ProducerLocked, ConsumerLocked, Waiting,
              has_item, has_space, Producers, Consumers
  <2> QED
    BY <2>1, <2>2, <2>3
<1>3. CASE CloseNotify
  <2>1. ThreadTypes'
    <3>1. producer' \in Producers
      BY Zenon, <1>3 DEF CloseNotify, Woken, Producers, PushPcs
    <3>2. consumer' \in Consumers
      BY Zenon, <1>3 DEF CloseNotify, Woken, Consumers, PopPcs
    <3> QED
      BY <1>3, <3>1, <3>2 DEF CloseNotify, Woken
  <2>2. Handshake'
    BY <1>3 DEF CloseNotify, Woken, Handshake, ProducerLocked, ConsumerLocked, Waiting,
              Producers, Consumers
  <2>3. Woke'
    BY <1>3 DEF CloseNotify, Woken, Woke, Handshake, ProducerLocked, ConsumerLocked, Waiting,
              has_item, has_space, Producers, Consumers
  <2> QED
    BY <2>1, <2>2, <2>3
<1>4. CASE SpuriousWake
  <2>1. ThreadTypes'
    <3>1. producer' \in Producers
      BY <1>4 DEF SpuriousWake, Producers, PushPcs
    <3>2. consumer' \in Consumers
      BY <1>4 DEF SpuriousWake, Consumers, PopPcs
    <3> QED
      BY <1>4, <3>1, <3>2 DEF SpuriousWake
  <2>2. Handshake'
    BY ZenonT(40), <1>4 DEF SpuriousWake, Handshake, ProducerLocked, ConsumerLocked, Waiting,
              Producers, Consumers
  <2>3. Woke'
    BY <1>4 DEF SpuriousWake, Woke, Handshake, ProducerLocked, ConsumerLocked, Waiting,
              has_item, has_space, Producers, Consumers
  <2> QED
    BY <2>1, <2>2, <2>3
<1> QED
  BY <1>1, <1>2, <1>3, <1>4 DEF CloserStep

\* So does every step.
LEMMA NextWake == WakeInv /\ [Next]_vars => WakeInv'
<1> SUFFICES ASSUME WakeInv, [Next]_vars PROVE WakeInv'
  OBVIOUS
<1>1. CASE UNCHANGED vars
  BY <1>1 DEF vars, shared, handshake, counters, WakeInv, ThreadTypes, Handshake, Woke,
      ProducerLocked, ConsumerLocked, has_item, has_space
<1>2. CASE Terminated
  BY <1>1, <1>2 DEF Terminated
<1> QED
  BY <1>1, <1>2, ProducerWake, ConsumerWake, CloserWake DEF Next

\* For every capacity, index width and policy: a producer or a consumer that
\* sleeps in wait() although its predicate has become true is about to be
\* notified.
THEOREM WakeupsAreNotLost == Spec => []NoLostWakeup
<1>1. WakeInv => NoLostWakeup
  BY DEF WakeInv, ThreadTypes, Handshake, Woke, Waiting, NoLostWakeup
<1> QED
  BY InitWake, NextWake, <1>1, PTL DEF Spec

-----------------------------------------------------------------------------
(* What the ring carries. *)

Indices == 0..IndexModulus - 1

Places == 0..RingSize - 1

\* How many items are in the ring.
Filled == Distance(head, tail)

\* Each side's copy of the other's index is old but on the safe side: the ring looks
\* no emptier to the producer, and no fuller to the consumer, than it is.
IndexInv ==
    /\ head \in Indices /\ tail \in Indices /\ cached_tail \in Indices /\ cached_head \in Indices
    /\ Filled <= Distance(head, cached_tail)
    /\ Distance(head, cached_tail) <= Capacity
    /\ Distance(cached_head, tail) <= Filled
    /\ producer.pc \in {"fill", "publish"} => Distance(head, cached_tail) < Capacity
    /\ consumer.pc \in {"take", "publish"} => tail # cached_head

\* The slot j places after the tail holds an item.
Holds(j) ==
    \/ j < Filled /\ ~(j = 0 /\ consumer.pc = "publish")
    \/ j = Filled /\ producer.pc = "publish"

SlotInv ==
    /\ slots \in [Places -> 0..MaxItems]
    /\ item \in 0..MaxItems /\ received \in Seq(1..MaxItems) /\ ended \in BOOLEAN
    /\ producer.pc # "idle" => item # 0
    /\ consumer.pc = "publish" => consumer.item \in 1..MaxItems
    /\ \A j \in Places : (slots[Slot(tail + j)] # Empty) <=> Holds(j)

\* The item of a push() that is under way is not yet in the ring or dropped.
InFlight ==
    IF producer.pc \in {"idle", "unlock", "wake", "wakeLock", "notify"} THEN 0 ELSE 1

CountInv ==
    /\ dropped \in Nat
    /\ drop_newest => producer.mode = "fast"
    /\ consumer.was_closed => closed
    /\ ~closed => item = Len(received) + Filled + dropped + InFlight

RingInv == IndexInv /\ SlotInv /\ CountInv

-----------------------------------------------------------------------------
(* Indices, distances and slots. *)

LEMMA RemainderIs ==
    ASSUME NEW m \in Nat \ {0}, NEW q \in Int, NEW r \in 0..m - 1
    PROVE  (m * q + r) % m = r
  OBVIOUS

LEMMA QuotientOf ==
    ASSUME NEW m \in Nat \ {0}, NEW a \in Int
    PROVE  /\ a \div m \in Int /\ a % m \in 0..m - 1
           /\ a = m * (a \div m) + (a % m)
  OBVIOUS

LEMMA MultipleSmall ==
    ASSUME NEW m \in Nat \ {0}, NEW q \in Int, m * q < m, -m < m * q
    PROVE  q = 0
  OBVIOUS

\* head_ - tail_ in the unsigned arithmetic of the code.
LEMMA DistanceIs ==
    ASSUME NEW a \in Indices, NEW b \in Indices
    PROVE  /\ Distance(a, b) = IF b <= a THEN a - b ELSE a - b + IndexModulus
           /\ Distance(a, b) \in Indices
<1>1. IndexModulus \in Nat \ {0}
  BY SpscAssumption
<1>2. CASE b <= a
  <2>1. a - b \in 0..IndexModulus - 1
    BY <1>1, <1>2 DEF Indices
  <2>2. a - b = IndexModulus * 0 + (a - b)
    BY <1>1, <2>1
  <2>3. (a - b) % IndexModulus = a - b
    BY <1>1, <2>1, <2>2, RemainderIs
  <2> QED
    BY <1>2, <2>1, <2>3 DEF Distance, Indices
<1>3. CASE ~(b <= a)
  <2>1. a - b + IndexModulus \in 0..IndexModulus - 1
    BY <1>1, <1>3 DEF Indices
  <2>2. a - b = IndexModulus * (-1) + (a - b + IndexModulus)
    BY <1>1, <2>1 DEF Indices
  <2>3. (a - b) % IndexModulus = a - b + IndexModulus
    BY <1>1, <2>1, <2>2, RemainderIs
  <2> QED
    BY <1>3, <2>1, <2>3 DEF Distance, Indices
<1> QED
  BY <1>2, <1>3

LEMMA FollowingIs ==
    ASSUME NEW a \in Indices
    PROVE  /\ Following(a) = IF a + 1 = IndexModulus THEN 0 ELSE a + 1
           /\ Following(a) \in Indices
<1>1. IndexModulus \in Nat \ {0}
  BY SpscAssumption
<1>2. CASE a + 1 = IndexModulus
  <2>1. (IndexModulus * 1 + 0) % IndexModulus = 0
    BY <1>1, RemainderIs
  <2> QED
    BY <1>1, <1>2, <2>1 DEF Following, Indices
<1>3. CASE a + 1 # IndexModulus
  <2>1. (IndexModulus * 0 + (a + 1)) % IndexModulus = a + 1
    BY <1>1, <1>3, RemainderIs DEF Indices
  <2> QED
    BY <1>1, <1>3, <2>1 DEF Following, Indices
<1> QED
  BY <1>2, <1>3

\* Publishing an index moves it one place away from what is behind it and one place
\* closer to what is ahead of it.
LEMMA DistanceGrows ==
    ASSUME NEW a \in Indices, NEW b \in Indices, Distance(a, b) + 1 < IndexModulus
    PROVE  Distance(Following(a), b) = Distance(a, b) + 1
<1>1. /\ Distance(a, b) = IF b <= a THEN a - b ELSE a - b + IndexModulus
      /\ Distance(Following(a), b) =
           IF b <= Following(a) THEN Following(a) - b ELSE Following(a) - b + IndexModulus
  BY FollowingIs, DistanceIs
<1>2. Following(a) = IF a + 1 = IndexModulus THEN 0 ELSE a + 1
  BY FollowingIs
<1>3. a \in 0..IndexModulus - 1 /\ b \in 0..IndexModulus - 1 /\ IndexModulus \in Nat
  BY SpscAssumption DEF Indices
<1> QED
  BY <1>1, <1>2, <1>3

LEMMA DistanceShrinks ==
    ASSUME NEW a \in Indices, NEW b \in Indices, a # b
    PROVE  Distance(a, Following(b)) = Distance(a, b) - 1 /\ Distance(a, b) >= 1
<1>1. /\ Distance(a, b) = IF b <= a THEN a - b ELSE a - b + IndexModulus
      /\ Distance(a, Following(b)) =
           IF Following(b) <= a THEN a - Following(b) ELSE a - Following(b) + IndexModulus
  BY FollowingIs, DistanceIs
<1>2. Following(b) = IF b + 1 = IndexModulus THEN 0 ELSE b + 1
  BY FollowingIs
<1>3. a \in 0..IndexModulus - 1 /\ b \in 0..IndexModulus - 1 /\ IndexModulus \in Nat
  BY SpscAssumption DEF Indices
<1> QED
  BY <1>1, <1>2, <1>3

LEMMA DistanceZero ==
    ASSUME NEW a \in Indices, NEW b \in Indices
    PROVE  Distance(a, b) = 0 <=> a = b
<1>1. Distance(a, b) = IF b <= a THEN a - b ELSE a - b + IndexModulus
  BY DistanceIs
<1>2. a \in 0..IndexModulus - 1 /\ b \in 0..IndexModulus - 1 /\ IndexModulus \in Nat
  BY SpscAssumption DEF Indices
<1> QED
  BY <1>1, <1>2

\* The ring size divides the index modulus, so an index that wraps stays on its slot.
LEMMA SlotWraps ==
    ASSUME NEW a \in Int
    PROVE  /\ Slot(a) \in Places
           /\ Slot(a + IndexModulus) = Slot(a)
           /\ Slot(a + RingSize) = Slot(a)
<1>1. RingSize \in Nat \ {0} /\ IndexModulus \in Nat
  BY SpscAssumption
<1> DEFINE q == a \div RingSize
           r == a % RingSize
           k == IndexModulus \div RingSize
<1>2. q \in Int /\ r \in 0..RingSize - 1 /\ a = RingSize * q + r
  BY <1>1, QuotientOf
<1>3. k \in Int /\ IndexModulus = RingSize * k
  BY <1>1, QuotientOf, SpscAssumption
<1> HIDE DEF q, r, k
<1>4. a + IndexModulus = RingSize * (q + k) + r
  BY <1>1, <1>2, <1>3
<1>5. a + RingSize = RingSize * (q + 1) + r
  BY <1>1, <1>2
<1>6. (RingSize * (q + k) + r) % RingSize = r /\ (RingSize * (q + 1) + r) % RingSize = r
  BY <1>1, <1>2, <1>3, RemainderIs
<1> QED
  BY <1>2, <1>4, <1>5, <1>6 DEF Slot, Places, r

\* Fewer than RingSize places apart, two indices have different slots.
LEMMA SlotsDiffer ==
    ASSUME NEW a \in Int, NEW i \in Places, NEW j \in Places, Slot(a + i) = Slot(a + j)
    PROVE  i = j
<1>1. RingSize \in Nat \ {0}
  BY SpscAssumption
<1> DEFINE p == (a + i) \div RingSize
           q == (a + j) \div RingSize
           r == Slot(a + i)
<1>2. /\ p \in Int /\ q \in Int /\ r \in Int
      /\ a + i = RingSize * p + r /\ a + j = RingSize * q + r
  BY <1>1, QuotientOf DEF Slot, Places
<1> HIDE DEF p, q, r
<1>3. i - j = RingSize * (p - q)
  BY <1>1, <1>2 DEF Places
<1>4. RingSize * (p - q) < RingSize /\ -RingSize < RingSize * (p - q)
  BY <1>1, <1>3 DEF Places
<1>5. p - q = 0
  BY <1>1, <1>2, <1>4, MultipleSmall
<1> QED
  BY <1>1, <1>3, <1>5 DEF Places

\* The producer fills the slot after the last item.
LEMMA SlotOfHead ==
    ASSUME head \in Indices, tail \in Indices
    PROVE  Slot(head) = Slot(tail + Filled)
<1>1. /\ Filled = IF tail <= head THEN head - tail ELSE head - tail + IndexModulus
      /\ head \in Int /\ tail \in Int /\ IndexModulus \in Int
  <2>1. Filled = IF tail <= head THEN head - tail ELSE head - tail + IndexModulus
    BY DistanceIs DEF Filled
  <2> QED
    BY <2>1, SpscAssumption DEF Indices
<1>2. head = tail + Filled \/ head + IndexModulus = tail + Filled
  BY <1>1
<1> QED
  BY <1>1, <1>2, SlotWraps

LEMMA SlotOfNext ==
    ASSUME NEW a \in Indices, NEW j \in Nat
    PROVE  Slot(Following(a) + j) = Slot(a + (j + 1))
<1>1. Following(a) + j = a + (j + 1) \/ (Following(a) + j) + IndexModulus = a + (j + 1)
  BY FollowingIs, SpscAssumption DEF Indices
<1> QED
  BY <1>1, SlotWraps, FollowingIs DEF Indices

\* The numbers of a ring in order.
LEMMA RingNumbers ==
    ASSUME RingInv
    PROVE  /\ head \in Indices /\ tail \in Indices /\ cached_tail \in Indices /\ cached_head \in Indices
           /\ tail \in Int
           /\ Filled \in Nat /\ Filled <= Capacity /\ Filled <= RingSize
           /\ Distance(head, cached_tail) \in Nat /\ Distance(cached_head, tail) \in Nat
           /\ Len(received) \in Nat /\ dropped \in Nat /\ item \in Nat
<1>1. head \in Indices /\ tail \in Indices /\ cached_tail \in Indices /\ cached_head \in Indices
  BY DEF RingInv, IndexInv
<1>2. /\ Filled \in Nat
      /\ Distance(head, cached_tail) \in Nat /\ Distance(cached_head, tail) \in Nat /\ tail \in Int
  BY <1>1, DistanceIs DEF Filled, Indices
<1>3. Filled <= Capacity /\ Filled <= RingSize
  BY <1>2, SpscAssumption DEF RingInv, IndexInv
<1> QED
  BY <1>1, <1>2, <1>3 DEF RingInv, SlotInv, CountInv

\* What the ring carries is a sequence of items.
LEMMA ContentsAreItems ==
    ASSUME RingInv
    PROVE  /\ Contents \in Seq(1..MaxItems)
           /\ Len(Contents) = Filled
           /\ \A i \in 1..Filled :
                Contents[i] = IF i = 1 /\ consumer.pc = "publish" THEN consumer.item
                              ELSE slots[Slot(tail + i - 1)]
<1>1. \A i \in 1..Filled :
        Contents[i] = IF i = 1 /\ consumer.pc = "publish" THEN consumer.item
                      ELSE slots[Slot(tail + i - 1)]
  BY DEF Contents, Filled
<1>2. ASSUME NEW i \in 1..Filled PROVE Contents[i] \in 1..MaxItems
  <2>1. CASE i = 1 /\ consumer.pc = "publish"
    BY <1>1, <2>1 DEF RingInv, SlotInv
  <2>2. CASE ~(i = 1 /\ consumer.pc = "publish")
    <3>1. i - 1 \in Places /\ i - 1 < Filled /\ tail + i - 1 = tail + (i - 1) /\ (i - 1 = 0 <=> i = 1)
      BY RingNumbers, SpscAssumption DEF Places
    <3>2. Holds(i - 1)
      BY <2>2, <3>1 DEF Holds
    <3>3. slots[Slot(tail + (i - 1))] # Empty
      BY <3>1, <3>2 DEF RingInv, SlotInv
    <3>4. Slot(tail + (i - 1)) \in Places
      BY <3>1, RingNumbers, SlotWraps
    <3>5. slots[Slot(tail + (i - 1))] \in 0..MaxItems
      BY <3>4 DEF RingInv, SlotInv
    <3> QED
      BY <1>1, <2>2, <3>1, <3>3, <3>5, SpscAssumption DEF Empty
  <2> QED
    BY <2>1, <2>2
<1>3. Contents \in [1..Filled -> 1..MaxItems]
  BY <1>2 DEF Contents, Filled
<1>4. Filled \in Nat
  BY RingNumbers
<1>5. Contents \in Seq(1..MaxItems)
  BY <1>3, <1>4, SeqDef
<1> QED
  BY <1>1, <1>3, <1>4, <1>5

\* The consumer holds an item out of the ring only while one is in it.
LEMMA TakenIsThere ==
    ASSUME RingInv, consumer.pc \in {"take", "publish"}
    PROVE  Filled >= 1 /\ head # tail
<1>1. Distance(cached_head, tail) # 0
  BY RingNumbers, DistanceZero DEF RingInv, IndexInv
<1>2. Filled >= 1
  BY <1>1, RingNumbers DEF RingInv, IndexInv
<1> QED
  BY <1>2, RingNumbers, DistanceZero DEF Filled

-----------------------------------------------------------------------------
(* The invariant is inductive, and every step is one of the channel's or none. *)

ChannelStep == Fifo!Next \/ UNCHANGED <<Contents, closed, received, ended>>

LEMMA InitRing == Init => RingInv /\ Fifo!Init
<1> SUFFICES ASSUME Init PROVE RingInv /\ Fifo!Init
  OBVIOUS
<1>1. 0 \in Indices /\ Distance(0, 0) = 0
  <2>1. 0 \in Indices
    BY SpscAssumption DEF Indices
  <2> QED
    BY <2>1, DistanceIs DEF Indices
<1>2. Filled = 0
  BY <1>1 DEF Init, Filled
<1>3. IndexInv
  BY <1>1, SpscAssumption DEF Init, IndexInv, Filled
<1>4. SlotInv
  <2>1. \A j \in Places : Slot(0 + j) \in Places
    BY SlotWraps DEF Places
  <2>2. \A j \in Places : ~ Holds(j)
    BY <1>2 DEF Holds, Places, Init
  <2>3. slots \in [Places -> 0..MaxItems] /\ \A j \in Places : slots[j] = Empty
    BY SpscAssumption DEF Init, Places, Empty
  <2>4. ended \in BOOLEAN
    BY DEF Init
  <2>5. received \in Seq(1..MaxItems)
    BY EmptySeq DEF Init
  <2>6. item \in 0..MaxItems
    BY SpscAssumption DEF Init
  <2> QED
    BY <2>1, <2>2, <2>3, <2>4, <2>5, <2>6 DEF Init, SlotInv
<1>5. CountInv
  BY <1>2 DEF Init, CountInv, InFlight
<1>6. Contents = <<>>
  BY <1>2 DEF Contents, Filled
<1> QED
  BY <1>3, <1>4, <1>5, <1>6 DEF RingInv, Fifo!Init, Init

\* A step that touches neither the ring nor the counters, and moves no thread into or
\* out of try_push or try_pop, or out of a push() without an effect.
QuietStep ==
    /\ UNCHANGED <<drop_newest, shared, closed, dropped, item, received, ended>>
    /\ producer'.pc \in {"fill", "publish"} \/ producer.pc \in {"fill", "publish"} =>
           producer'.pc = producer.pc
    /\ consumer'.pc \in {"take", "publish"} \/ consumer.pc \in {"take", "publish"} =>
           consumer'.pc = consumer.pc
    /\ consumer'.item = consumer.item
    /\ producer.pc = "idle" => producer'.pc = "idle"
    /\ drop_newest => producer'.mode = producer.mode
    /\ consumer'.was_closed => consumer.was_closed \/ closed
    /\ closed \/ InFlight' = InFlight

LEMMA QuietKeeps ==
    ASSUME RingInv, QuietStep
    PROVE  RingInv' /\ ChannelStep
<1>1. Filled' = Filled /\ \A j \in Places : Holds(j)' <=> Holds(j)
  BY DEF QuietStep, shared, Filled, Holds
<1>2. IndexInv'
  BY <1>1 DEF RingInv, IndexInv, QuietStep, shared
<1>3. SlotInv'
  BY <1>1 DEF RingInv, SlotInv, QuietStep, shared
<1>4. CountInv'
  BY <1>1 DEF RingInv, CountInv, QuietStep
<1>5. Contents' = Contents
  BY DEF Contents, QuietStep, shared
<1> QED
  BY <1>2, <1>3, <1>4, <1>5 DEF RingInv, ChannelStep, QuietStep

LEMMA QuietProducer ==
    ASSUME WakeInv, RingInv,
           \/ PushSpin \/ PushLock \/ PushFlag \/ PushTestClosed \/ PushTestSpace \/ PushSleep
           \/ PushRelock \/ PushUnflag \/ PushRecheck \/ PushUnlock \/ PushWake \/ PushWakeLock
           \/ PushNotify
    PROVE  QuietStep
<1>0. producer \in Producers /\ consumer \in Consumers
  BY DEF WakeInv, ThreadTypes
<1>1. CASE PushSpin \/ PushTestClosed \/ PushTestSpace \/ PushWake \/ PushWakeLock
  BY <1>0, <1>1 DEF PushSpin, PushTestClosed, PushTestSpace, PushWake, PushWakeLock, At, QuietStep,
     Producers, counters, InFlight
<1>2. CASE PushLock \/ PushFlag \/ PushSleep \/ PushRelock \/ PushUnflag \/ PushRecheck \/ PushUnlock
  BY <1>0, <1>2 DEF PushLock, PushFlag, PushSleep, PushRelock, PushUnflag, PushRecheck, PushUnlock, At,
     QuietStep, Producers, counters, InFlight
<1>3. CASE PushNotify
  BY <1>0, <1>3 DEF PushNotify, Woken, At, QuietStep, Producers, Consumers, counters, InFlight
<1> QED
  BY <1>1, <1>2, <1>3

LEMMA QuietConsumer ==
    ASSUME WakeInv, RingInv,
           \/ PopCall \/ PopLock \/ PopReadClosed \/ PopFlag \/ PopTestClosed \/ PopTestItem
           \/ PopSleep \/ PopRelock \/ PopUnflag \/ PopUnlock \/ PopWake \/ PopWakeLock \/ PopNotify
    PROVE  QuietStep
<1>0. producer \in Producers /\ consumer \in Consumers
  BY DEF WakeInv, ThreadTypes
<1>1. CASE PopCall \/ PopReadClosed \/ PopTestClosed \/ PopTestItem \/ PopWake \/ PopWakeLock
  BY <1>0, <1>1 DEF PopCall, PopReadClosed, PopTestClosed, PopTestItem, PopWake, PopWakeLock, At,
     QuietStep, Consumers, counters, InFlight
<1>2. CASE PopLock \/ PopFlag \/ PopSleep \/ PopRelock \/ PopUnflag \/ PopUnlock
  BY <1>0, <1>2 DEF PopLock, PopFlag, PopSleep, PopRelock, PopUnflag, PopUnlock, At, QuietStep,
     Consumers, counters, InFlight
<1>3. CASE PopNotify
  BY <1>0, <1>3 DEF PopNotify, Woken, At, QuietStep, Producers, Consumers, counters, InFlight
<1> QED
  BY <1>1, <1>2, <1>3

LEMMA QuietOthers ==
    ASSUME WakeInv, RingInv, CloserStep \/ SpuriousWake \/ UNCHANGED vars
    PROVE  QuietStep
<1>0. producer \in Producers /\ consumer \in Consumers
  BY DEF WakeInv, ThreadTypes
<1>1. CASE CloserStep
  BY <1>0, <1>1 DEF CloserStep, CloseLock, CloseNotify, Woken, At, QuietStep, Producers, Consumers,
     counters, InFlight
<1>2. CASE SpuriousWake
  BY <1>0, <1>2 DEF SpuriousWake, At, QuietStep, Producers, Consumers, counters, InFlight
<1>3. CASE UNCHANGED vars
  BY <1>3 DEF vars, QuietStep, counters, InFlight
<1> QED
  BY <1>1, <1>2, <1>3

LEMMA PushCallKeeps ==
    ASSUME WakeInv, RingInv, PushCall
    PROVE  RingInv' /\ ChannelStep
<1>0. /\ UNCHANGED <<drop_newest, head, tail, cached_tail, cached_head, slots, closed, dropped,
                     received, ended, consumer>>
      /\ item' = item + 1 /\ item < MaxItems /\ producer.pc = "idle"
      /\ closed => producer' = producer
      /\ ~closed => producer'.pc = "check" /\ producer'.mode = "fast"
  BY DEF PushCall, shared
<1>1. Filled' = Filled /\ \A j \in Places : Holds(j)' <=> Holds(j)
  BY <1>0 DEF Filled, Holds
<1>2. IndexInv'
  BY <1>0, <1>1 DEF RingInv, IndexInv
<1>3. SlotInv'
  BY <1>0, <1>1, SpscAssumption DEF RingInv, SlotInv
<1>4. CountInv'
  <2>1. ~closed => item' = Len(received') + Filled' + dropped' + InFlight'
    <3>1. ~closed => item = Len(received) + Filled + dropped
      BY <1>0, RingNumbers DEF RingInv, CountInv, InFlight
    <3> QED
      BY <1>0, <1>1, <3>1, RingNumbers DEF InFlight
  <2> QED
    BY <1>0, <2>1 DEF RingInv, CountInv
<1>5. Contents' = Contents
  BY <1>0 DEF Contents
<1> QED
  BY <1>0, <1>2, <1>3, <1>4, <1>5 DEF RingInv, ChannelStep

\* try_push finds room, or its caller drops the item, spins or waits.
LEMMA PushCheckKeeps ==
    ASSUME WakeInv, RingInv, PushCheck
    PROVE  RingInv' /\ ChannelStep
<1> DEFINE looksFull == Distance(head, cached_tail) >= Capacity
           full == looksFull /\ ~has_space
<1>0. /\ UNCHANGED <<drop_newest, head, tail, cached_head, slots, closed, item, received, ended,
                     consumer>>
      /\ cached_tail' = IF looksFull THEN tail ELSE cached_tail
      /\ producer' = IF full THEN PushFull ELSE At(producer, "fill")
      /\ dropped' = IF full /\ drop_newest THEN dropped + 1 ELSE dropped
      /\ producer.pc = "check"
      /\ producer \in Producers
  BY DEF PushCheck, WakeInv, ThreadTypes
<1>1. Filled' = Filled
  BY <1>0 DEF Filled
<1>2. /\ ~full => producer'.pc = "fill" /\ producer'.mode = producer.mode
      /\ full /\ drop_newest => producer'.pc = "idle" /\ producer'.mode = "fast"
      /\ full /\ ~drop_newest => producer'.pc \in {"spin", "lock", "flag"}
  <2>1. producer.mode \in {"fast", "spin", "locked"} /\ producer.spins \in Int
    BY <1>0 DEF Producers
  <2>2. drop_newest => producer.mode = "fast"
    BY DEF RingInv, CountInv
  <2>3. CASE ~full
    BY <1>0, <2>3 DEF At, Producers
  <2>4. CASE full /\ drop_newest
    <3>1. producer' = At(producer, "idle")
      BY <1>0, <2>2, <2>4 DEF PushFull
    <3> QED
      BY <1>0, <2>2, <2>4, <3>1 DEF At, Producers
  <2>5. CASE full /\ ~drop_newest
    <3>1. producer' = PushFull
      BY <1>0, <2>5
    <3>2. CASE producer.mode = "fast"
      BY <1>0, <2>5, <3>1, <3>2 DEF PushFull, Producers
    <3>3. CASE producer.mode = "spin" /\ producer.spins + 1 < SpinTries
      BY <1>0, <2>1, <2>5, <3>1, <3>3, SpscAssumption DEF PushFull, Producers
    <3>4. CASE producer.mode = "spin" /\ ~(producer.spins + 1 < SpinTries)
      BY <1>0, <2>1, <2>5, <3>1, <3>4, SpscAssumption DEF PushFull, Producers
    <3>5. CASE producer.mode = "locked"
      BY <1>0, <2>5, <3>1, <3>5 DEF PushFull, At, Producers
    <3> QED
      BY <2>1, <2>5, <3>2, <3>3, <3>4, <3>5
  <2> QED
    BY <2>3, <2>4, <2>5
<1>3. IndexInv'
  <2>1. /\ head \in Indices /\ tail \in Indices /\ cached_tail \in Indices
        /\ Distance(head, tail) \in Nat /\ Distance(head, cached_tail) \in Nat /\ Capacity \in Nat
    BY DistanceIs, SpscAssumption DEF RingInv, IndexInv, Indices
  <2>2. CASE looksFull
    <3>1. Distance(head, cached_tail)' = Filled
      BY <1>0, <2>2 DEF Filled
    <3>2. Filled <= Capacity
      BY <2>1 DEF RingInv, IndexInv, Filled
    <3>3. producer'.pc \in {"fill", "publish"} => Filled < Capacity
      BY <1>2, <2>2 DEF has_space, Filled
    <3> QED
      BY <1>0, <1>1, <2>1, <2>2, <3>1, <3>2, <3>3 DEF RingInv, IndexInv, Filled
  <2>3. CASE ~looksFull
    BY <1>0, <1>1, <2>1, <2>3 DEF RingInv, IndexInv
  <2> QED
    BY <2>2, <2>3
<1>4. SlotInv'
  <2>1. \A j \in Places : Holds(j)' <=> Holds(j)
    BY <1>0, <1>1, <1>2 DEF Holds
  <2> QED
    BY <1>0, <2>1 DEF RingInv, SlotInv
<1>5. CountInv'
  <2>1. ~closed => item' = Len(received') + Filled' + dropped' + InFlight'
    <3>1. ~closed => item = Len(received) + Filled + dropped + 1
      BY <1>0 DEF RingInv, CountInv, InFlight
    <3>2. \/ dropped' = dropped + 1 /\ InFlight' = 0
          \/ dropped' = dropped /\ InFlight' = 1
      BY <1>0, <1>2 DEF InFlight
    <3>3. Len(received) + Filled + dropped' + InFlight' = Len(received) + Filled + dropped + 1
      BY <3>2, RingNumbers
    <3> QED
      BY <1>0, <1>1, <3>1, <3>3
  <2> QED
    BY <1>0, <1>2, <2>1 DEF RingInv, CountInv
<1>6. Contents' = Contents
  BY <1>0 DEF Contents
<1> QED
  BY <1>0, <1>3, <1>4, <1>5, <1>6 DEF RingInv, ChannelStep

\* The producer writes the slot after the last item, which is none of theirs.
LEMMA PushFillKeeps ==
    ASSUME WakeInv, RingInv, PushFill
    PROVE  RingInv' /\ ChannelStep
<1>0. /\ UNCHANGED <<drop_newest, head, tail, cached_tail, cached_head, closed, dropped, item,
                     received, ended, consumer>>
      /\ slots' = [slots EXCEPT ![Slot(head)] = item]
      /\ producer.pc = "fill" /\ producer'.pc = "publish" /\ producer'.mode = producer.mode
  BY DEF PushFill, WakeInv, ThreadTypes, At, Producers, counters
<1>1. Filled' = Filled
  BY <1>0 DEF Filled
<1>2. /\ Filled \in Places /\ Slot(head) = Slot(tail + Filled) /\ tail \in Int
      /\ Filled < Capacity /\ Filled \in Nat
  <2>1. Filled < Capacity
    BY <1>0, RingNumbers, SpscAssumption DEF RingInv, IndexInv
  <2>2. Slot(head) = Slot(tail + Filled)
    BY RingNumbers, SlotOfHead
  <2> QED
    BY <2>1, <2>2, RingNumbers, SpscAssumption DEF Places
<1>3. \A j \in Places : /\ Slot(tail + j) \in Places
                        /\ slots'[Slot(tail + j)] = IF j = Filled THEN item ELSE slots[Slot(tail + j)]
  <2> SUFFICES ASSUME NEW j \in Places
               PROVE  /\ Slot(tail + j) \in Places
                      /\ slots'[Slot(tail + j)] = IF j = Filled THEN item ELSE slots[Slot(tail + j)]
    OBVIOUS
  <2>1. Slot(tail + j) \in Places /\ DOMAIN slots = Places
    <3>1. tail + j \in Int
      BY <1>2 DEF Places
    <3> QED
      BY <3>1, SlotWraps DEF RingInv, SlotInv
  <2>2. Slot(tail + j) = Slot(head) <=> j = Filled
    BY <1>2, SlotsDiffer
  <2> QED
    BY <1>0, <2>1, <2>2
<1>4. IndexInv'
  BY <1>0, <1>1 DEF RingInv, IndexInv
<1>5. SlotInv'
  <2>1. slots' \in [Places -> 0..MaxItems]
    BY <1>0 DEF RingInv, SlotInv
  <2>2. item # Empty
    BY <1>0 DEF RingInv, SlotInv, Empty
  <2>3. ASSUME NEW j \in Places
        PROVE  (slots'[Slot(tail + j)] # Empty) <=> Holds(j)'
    <3>1. (slots[Slot(tail + j)] # Empty) <=> Holds(j)
      BY DEF RingInv, SlotInv
    <3>2. j # Filled => (Holds(j)' <=> Holds(j))
      BY <1>0, <1>1 DEF Holds
    <3>3. j = Filled => Holds(j)'
      BY <1>0, <1>1 DEF Holds
    <3> QED
      BY <1>3, <2>2, <3>1, <3>2, <3>3
  <2> QED
    BY <1>0, <2>1, <2>3 DEF RingInv, SlotInv
<1>6. CountInv'
  BY <1>0, <1>1 DEF RingInv, CountInv, InFlight
<1>7. Contents' = Contents
  <2>1. \A i \in 1..Filled : slots'[Slot(tail + i - 1)] = slots[Slot(tail + i - 1)]
    <3> SUFFICES ASSUME NEW i \in 1..Filled
                 PROVE  slots'[Slot(tail + i - 1)] = slots[Slot(tail + i - 1)]
      OBVIOUS
    <3>1. i - 1 \in Places /\ i - 1 # Filled /\ tail + i - 1 = tail + (i - 1)
      BY <1>2, SpscAssumption DEF Places
    <3> QED
      BY <1>3, <3>1
  <2> QED
    BY <1>0, <1>1, <2>1 DEF Contents, Filled
<1> QED
  BY <1>0, <1>4, <1>5, <1>6, <1>7 DEF RingInv, ChannelStep

\* The new head lets the consumer see the item.
LEMMA PushPublishKeeps ==
    ASSUME WakeInv, RingInv, PushPublish
    PROVE  RingInv' /\ ChannelStep
<1>0. /\ UNCHANGED <<drop_newest, tail, cached_tail, cached_head, slots, closed, dropped, item,
                     received, ended, consumer>>
      /\ head' = Following(head)
      /\ producer.pc = "publish" /\ producer'.pc \in {"unlock", "wake"} /\ producer'.mode = producer.mode
  BY DEF PushPublish, WakeInv, ThreadTypes, At, Producers, counters
<1>1. /\ Filled' = Filled + 1
      /\ Distance(head, cached_tail)' = Distance(head, cached_tail) + 1
      /\ Filled < Capacity
  <2>1. Distance(head, cached_tail) < Capacity /\ Filled <= Distance(head, cached_tail)
    BY <1>0 DEF RingInv, IndexInv
  <2>2. Distance(head, cached_tail) + 1 < IndexModulus /\ Filled + 1 < IndexModulus /\ Filled < Capacity
    BY <2>1, RingNumbers, SpscAssumption
  <2> QED
    BY <1>0, <2>2, RingNumbers, DistanceGrows DEF Filled
<1>2. IndexInv'
  <2>1. head' \in Indices
    BY <1>0, RingNumbers, FollowingIs
  <2>2. /\ Filled' <= Distance(head, cached_tail)'
        /\ Distance(head, cached_tail)' <= Capacity
        /\ Distance(cached_head, tail)' <= Filled'
    BY <1>0, <1>1, RingNumbers, SpscAssumption DEF RingInv, IndexInv
  <2> QED
    BY <1>0, <2>1, <2>2 DEF RingInv, IndexInv
<1>3. consumer.pc = "publish" => Filled >= 1
  BY TakenIsThere
<1>4. SlotInv'
  <2>1. \A j \in Places : Holds(j)' <=> Holds(j)
    BY <1>0, <1>1, <1>3, RingNumbers, SpscAssumption DEF Holds, Places
  <2> QED
    BY <1>0, <2>1 DEF RingInv, SlotInv
<1>5. CountInv'
  <2>1. InFlight' = 0 /\ InFlight = 1
    BY <1>0 DEF InFlight
  <2> QED
    BY <1>0, <1>1, <2>1, RingNumbers DEF RingInv, CountInv
<1>6. \E x \in 1..MaxItems : Fifo!Push(x)
  <2> DEFINE x == slots[Slot(tail + Filled)]
  <2>1. x \in 1..MaxItems
    <3>1. Filled \in Places
      BY <1>1, RingNumbers, SpscAssumption DEF Places
    <3>2. Holds(Filled)
      BY <1>0 DEF Holds
    <3>3. x # Empty
      BY <3>1, <3>2 DEF RingInv, SlotInv
    <3>4. Slot(tail + Filled) \in Places
      BY RingNumbers, SlotWraps
    <3>5. x \in 0..MaxItems
      BY <3>4 DEF RingInv, SlotInv
    <3> QED
      BY <3>3, <3>5, SpscAssumption DEF Empty
  <2>2. Contents' = Append(Contents, x)
    <3> HIDE DEF x
    <3> DEFINE s == Append(Contents, x)
    <3>1. /\ s \in Seq(1..MaxItems) /\ Len(s) = Filled + 1
          /\ \A i \in 1..Filled : s[i] = Contents[i]
          /\ s[Filled + 1] = x
      BY <2>1, ContentsAreItems, AppendProperties
    <3> HIDE DEF s
    <3>2. s = [i \in 1..Filled + 1 |-> s[i]]
      BY <3>1, LenProperties
    <3>3. \A i \in 1..Filled + 1 :
            s[i] = IF i = 1 /\ consumer'.pc = "publish" THEN consumer'.item
                   ELSE slots'[Slot(tail' + i - 1)]
      <4> SUFFICES ASSUME NEW i \in 1..Filled + 1
                   PROVE  s[i] = IF i = 1 /\ consumer'.pc = "publish" THEN consumer'.item
                                 ELSE slots'[Slot(tail' + i - 1)]
        OBVIOUS
      <4>1. CASE i \in 1..Filled
        BY <1>0, <3>1, <4>1, ContentsAreItems
      <4>2. CASE i = Filled + 1
        <5>1. ~(i = 1 /\ consumer'.pc = "publish")
          BY <1>0, <1>3, <4>2, RingNumbers
        <5>2. tail' + i - 1 = tail + Filled
          BY <1>0, <4>2, RingNumbers
        <5> QED
          BY <1>0, <3>1, <4>2, <5>1, <5>2 DEF x
      <4> QED
        BY <4>1, <4>2, RingNumbers
    <3>4. Contents' = [i \in 1..Filled + 1 |->
                         IF i = 1 /\ consumer'.pc = "publish" THEN consumer'.item
                         ELSE slots'[Slot(tail' + i - 1)]]
      BY <1>1 DEF Contents, Filled
    <3>5. Contents' = s
      BY <3>2, <3>3, <3>4
    <3> QED
      BY <3>5 DEF s
  <2>3. Fifo!Push(x)
    BY <1>0, <1>1, <2>2, ContentsAreItems DEF Fifo!Push
  <2> QED
    BY <2>1, <2>3
<1> QED
  BY <1>2, <1>4, <1>5, <1>6 DEF RingInv, ChannelStep, Fifo!Next

\* try_pop finds an item, or its caller spins, waits or tells of the end.
LEMMA PopCheckKeeps ==
    ASSUME WakeInv, RingInv, PopCheck
    PROVE  RingInv' /\ ChannelStep
<1> DEFINE looksEmpty == tail = cached_head
           empty == looksEmpty /\ ~has_item
           gone == empty /\ consumer.mode = "locked" /\ consumer.was_closed
<1>0. /\ UNCHANGED <<drop_newest, head, tail, cached_tail, slots, closed, dropped, item, received,
                     producer>>
      /\ cached_head' = IF looksEmpty THEN head ELSE cached_head
      /\ consumer' = IF empty THEN PopEmpty ELSE At(consumer, "take")
      /\ ended' = (ended \/ gone)
      /\ consumer.pc = "check"
      /\ consumer \in Consumers
  BY DEF PopCheck, WakeInv, ThreadTypes
<1>1. /\ ~empty => consumer'.pc = "take"
      /\ empty => consumer'.pc \in {"check", "lock", "ended", "flag"}
      /\ consumer'.was_closed = consumer.was_closed
  <2>1. consumer.mode \in {"spin", "locked"} /\ consumer.spins \in Int /\ consumer.was_closed \in BOOLEAN
    BY <1>0 DEF Consumers
  <2>2. CASE ~empty
    BY <1>0, <2>2 DEF At, Consumers
  <2>3. CASE empty
    <3>1. consumer' = PopEmpty
      BY <1>0, <2>3
    <3>2. CASE consumer.mode = "spin" /\ consumer.spins + 1 < SpinTries
      BY <1>0, <2>1, <2>3, <3>1, <3>2, SpscAssumption DEF PopEmpty, Consumers
    <3>3. CASE consumer.mode = "spin" /\ ~(consumer.spins + 1 < SpinTries)
      BY <1>0, <2>1, <2>3, <3>1, <3>3, SpscAssumption DEF PopEmpty, Consumers
    <3>4. CASE consumer.mode = "locked" /\ consumer.was_closed
      BY <1>0, <2>3, <3>1, <3>4 DEF PopEmpty, At, Consumers
    <3>5. CASE consumer.mode = "locked" /\ ~consumer.was_closed
      BY <1>0, <2>3, <3>1, <3>5 DEF PopEmpty, At, Consumers
    <3> QED
      BY <2>1, <3>2, <3>3, <3>4, <3>5
  <2> QED
    BY <2>2, <2>3
<1>2. Filled' = Filled
  BY <1>0 DEF Filled
<1>3. IndexInv'
  <2>1. Distance(cached_head, tail)' <= Filled'
    BY <1>0, <1>2, RingNumbers DEF RingInv, IndexInv, Filled
  <2>2. consumer'.pc \in {"take", "publish"} => tail' # cached_head'
    BY <1>0, <1>1 DEF has_item
  <2>3. cached_head' \in Indices
    BY <1>0, RingNumbers
  <2> QED
    BY <1>0, <1>2, <2>1, <2>2, <2>3 DEF RingInv, IndexInv
<1>4. SlotInv'
  <2>1. \A j \in Places : Holds(j)' <=> Holds(j)
    BY <1>0, <1>1, <1>2 DEF Holds
  <2> QED
    BY <1>0, <1>1, <2>1 DEF RingInv, SlotInv
<1>5. CountInv'
  BY <1>0, <1>1, <1>2 DEF RingInv, CountInv, InFlight
<1>6. Contents' = Contents
  <2>1. consumer.pc # "publish" /\ consumer'.pc # "publish"
    BY <1>0, <1>1
  <2> QED
    BY <1>0, <2>1 DEF Contents
<1>7. ChannelStep
  <2>1. CASE gone
    <3>1. closed
      BY <2>1 DEF RingInv, CountInv
    <3>2. Contents = <<>>
      <4>1. Filled = 0
        BY <2>1, RingNumbers, DistanceZero DEF has_item, Filled
      <4> QED
        BY <4>1, ContentsAreItems, EmptySeq
    <3> QED
      BY <1>0, <1>6, <2>1, <3>1, <3>2 DEF ChannelStep, Fifo!Next, Fifo!End
  <2>2. CASE ~gone /\ ended' = ended
    BY <1>0, <1>6, <2>2 DEF ChannelStep
  <2>3. ended \in BOOLEAN => (~gone => ended' = ended)
    BY <1>0
  <2> QED
    BY <2>1, <2>2, <2>3 DEF RingInv, SlotInv
<1> QED
  BY <1>3, <1>4, <1>5, <1>7 DEF RingInv

\* The consumer empties the slot of the oldest item.
LEMMA PopTakeKeeps ==
    ASSUME WakeInv, RingInv, PopTake
    PROVE  RingInv' /\ ChannelStep
<1>0. /\ UNCHANGED <<drop_newest, head, tail, cached_tail, cached_head, closed, dropped, item,
                     received, ended, producer>>
      /\ slots' = [slots EXCEPT ![Slot(tail)] = Empty]
      /\ consumer.pc = "take" /\ consumer'.pc = "publish" /\ consumer'.item = slots[Slot(tail)]
      /\ consumer'.was_closed = consumer.was_closed
  BY DEF PopTake, WakeInv, ThreadTypes, Consumers, counters
<1>1. Filled' = Filled /\ Filled >= 1
  BY <1>0, TakenIsThere DEF Filled
<1>2. tail + 0 = tail /\ 0 \in Places
  BY RingNumbers, SpscAssumption DEF Places
<1>3. \A j \in Places : slots'[Slot(tail + j)] = IF j = 0 THEN Empty ELSE slots[Slot(tail + j)]
  <2> SUFFICES ASSUME NEW j \in Places
               PROVE  slots'[Slot(tail + j)] = IF j = 0 THEN Empty ELSE slots[Slot(tail + j)]
    OBVIOUS
  <2>1. Slot(tail + j) \in Places /\ DOMAIN slots = Places
    <3>1. tail + j \in Int
      BY RingNumbers DEF Places
    <3> QED
      BY <3>1, SlotWraps DEF RingInv, SlotInv
  <2>2. Slot(tail + j) = Slot(tail) <=> j = 0
    BY <1>2, RingNumbers, SlotsDiffer
  <2> QED
    BY <1>0, <2>1, <2>2
<1>4. slots[Slot(tail)] \in 1..MaxItems
  <2>1. Holds(0)
    BY <1>0, <1>1, RingNumbers DEF Holds
  <2>2. slots[Slot(tail)] # Empty
    BY <1>2, <2>1 DEF RingInv, SlotInv
  <2>3. slots[Slot(tail)] \in 0..MaxItems
    BY RingNumbers, SlotWraps DEF RingInv, SlotInv
  <2> QED
    BY <2>2, <2>3, SpscAssumption DEF Empty
<1>5. IndexInv'
  BY <1>0, <1>1 DEF RingInv, IndexInv
<1>6. SlotInv'
  <2>1. slots' \in [Places -> 0..MaxItems]
    <3>1. Empty \in 0..MaxItems /\ slots \in [Places -> 0..MaxItems]
      BY SpscAssumption DEF RingInv, SlotInv, Empty
    <3> QED
      BY <1>0, <3>1
  <2>2. ASSUME NEW j \in Places
        PROVE  (slots'[Slot(tail + j)] # Empty) <=> Holds(j)'
    <3>1. (slots[Slot(tail + j)] # Empty) <=> Holds(j)
      BY DEF RingInv, SlotInv
    <3>2. j # 0 => (Holds(j)' <=> Holds(j))
      BY <1>0, <1>1 DEF Holds
    <3>3. j = 0 => ~ Holds(j)'
      BY <1>0, <1>1, RingNumbers, SMTT(20) DEF Holds
    <3> QED
      BY <1>3, <3>1, <3>2, <3>3
  <2> QED
    BY <1>0, <1>4, <2>1, <2>2 DEF RingInv, SlotInv
<1>7. CountInv'
  BY <1>0, <1>1 DEF RingInv, CountInv, InFlight
<1>8. Contents' = Contents
  <2>1. \A i \in 1..Filled : Contents[i] = IF i = 1 THEN consumer'.item ELSE slots'[Slot(tail + i - 1)]
    <3> SUFFICES ASSUME NEW i \in 1..Filled
                 PROVE  Contents[i] = IF i = 1 THEN consumer'.item ELSE slots'[Slot(tail + i - 1)]
      OBVIOUS
    <3>1. i - 1 \in Places /\ tail + i - 1 = tail + (i - 1) /\ (i - 1 = 0 <=> i = 1)
      BY RingNumbers, SpscAssumption DEF Places
    <3>2. Contents[i] = slots[Slot(tail + (i - 1))]
      BY <1>0, <3>1, ContentsAreItems
    <3>3. CASE i = 1
      BY <1>0, <1>2, <3>1, <3>2, <3>3
    <3>4. CASE i # 1
      BY <1>3, <3>1, <3>2, <3>4
    <3> QED
      BY <3>3, <3>4
  <2>2. Contents' = [i \in 1..Filled |-> IF i = 1 THEN consumer'.item ELSE slots'[Slot(tail + i - 1)]]
    BY <1>0, <1>1 DEF Contents, Filled
  <2>3. Contents = [i \in 1..Filled |-> Contents[i]]
    BY DEF Contents, Filled
  <2> QED
    BY <2>1, <2>2, <2>3
<1> QED
  BY <1>0, <1>5, <1>6, <1>7, <1>8 DEF RingInv, ChannelStep

\* The new tail gives the slot back to the producer.
LEMMA PopPublishKeeps ==
    ASSUME WakeInv, RingInv, PopPublish
    PROVE  RingInv' /\ ChannelStep
<1>0. /\ UNCHANGED <<drop_newest, head, cached_tail, cached_head, slots, closed, dropped, item,
                     ended, producer>>
      /\ tail' = Following(tail)
      /\ received' = Append(received, consumer.item)
      /\ consumer.pc = "publish" /\ consumer'.pc \in {"unlock", "wake"}
      /\ consumer'.was_closed = consumer.was_closed
  BY DEF PopPublish, WakeInv, ThreadTypes, At, Consumers
<1>1. /\ Filled >= 1 /\ Filled' = Filled - 1
      /\ Distance(cached_head, tail)' = Distance(cached_head, tail) - 1
  <2>1. cached_head # tail
    BY <1>0 DEF RingInv, IndexInv
  <2> QED
    BY <1>0, <2>1, TakenIsThere, RingNumbers, DistanceShrinks DEF Filled
<1>2. consumer.item \in 1..MaxItems
  BY <1>0 DEF RingInv, SlotInv
<1>3. /\ received' \in Seq(1..MaxItems) /\ Len(received') = Len(received) + 1
  BY <1>0, <1>2 DEF RingInv, SlotInv
<1>4. IndexInv'
  <2>1. tail' \in Indices
    BY <1>0, RingNumbers, FollowingIs
  <2>2. Filled' <= Distance(head, cached_tail)' /\ Distance(cached_head, tail)' <= Filled'
    BY <1>0, <1>1, RingNumbers DEF RingInv, IndexInv
  <2> QED
    BY <1>0, <2>1, <2>2 DEF RingInv, IndexInv
<1>5. SlotInv'
  <2>1. ASSUME NEW j \in Places
        PROVE  (slots'[Slot(tail' + j)] # Empty) <=> Holds(j)'
    <3>1. slots'[Slot(tail' + j)] = slots[Slot(tail + (j + 1))]
      <4>1. j \in Nat
        BY SpscAssumption DEF Places
      <4> QED
        BY <1>0, <4>1, RingNumbers, SlotOfNext
    <3>2. CASE j + 1 \in Places
      <4>1. Holds(j)' <=> Holds(j + 1)
        BY <1>0, <1>1, RingNumbers, SpscAssumption, SMTT(20) DEF Holds, Places
      <4>2. (slots[Slot(tail + (j + 1))] # Empty) <=> Holds(j + 1)
        BY <3>2 DEF RingInv, SlotInv
      <4> QED
        BY <3>1, <4>1, <4>2
    <3>3. CASE j + 1 = RingSize
      <4>1. 0 \in Places /\ tail + 0 = tail
        BY RingNumbers, SpscAssumption DEF Places
      <4>2. Slot(tail + (j + 1)) = Slot(tail + 0)
        BY <3>3, <4>1, RingNumbers, SlotWraps
      <4>3. ~ Holds(0)
        BY <1>0, <1>1, RingNumbers DEF Holds
      <4>4. slots[Slot(tail + 0)] = Empty
        BY <4>1, <4>3 DEF RingInv, SlotInv
      <4>5. producer.pc = "publish" => Filled < RingSize
        BY RingNumbers, SpscAssumption DEF RingInv, IndexInv
      <4>6. ~ Holds(j)'
        BY <1>0, <1>1, <3>3, <4>5, RingNumbers, SpscAssumption DEF Holds, Places
      <4> QED
        BY <3>1, <4>2, <4>4, <4>6
    <3> QED
      BY <3>2, <3>3, SpscAssumption DEF Places
  <2> QED
    BY <1>0, <1>3, <2>1 DEF RingInv, SlotInv
<1>6. CountInv'
  <2>1. InFlight' = InFlight /\ InFlight \in Nat
    BY <1>0 DEF InFlight
  <2>2. Len(received') + Filled' + dropped' + InFlight' = Len(received) + Filled + dropped + InFlight
    BY <1>0, <1>1, <1>3, <2>1, RingNumbers
  <2> QED
    BY <1>0, <2>2 DEF RingInv, CountInv
<1>7. Fifo!Pop
  <2>1. Contents # <<>> /\ Head(Contents) = consumer.item
    BY <1>0, <1>1, ContentsAreItems, RingNumbers
  <2>2. Contents' = Tail(Contents)
    <3> DEFINE s == Tail(Contents)
    <3>1. /\ s \in Seq(1..MaxItems) /\ Len(s) = Filled - 1
          /\ \A i \in 1..Filled - 1 : s[i] = Contents[i + 1]
      BY <2>1, ContentsAreItems, HeadTailProperties
    <3> HIDE DEF s
    <3>2. s = [i \in 1..Filled - 1 |-> s[i]]
      BY <3>1, LenProperties
    <3>3. ASSUME NEW i \in 1..Filled - 1
          PROVE  s[i] = slots'[Slot(tail' + i - 1)]
      <4>1. i + 1 \in 1..Filled /\ i + 1 # 1 /\ i - 1 \in Nat
        BY RingNumbers
      <4>2. s[i] = slots[Slot(tail + (i + 1) - 1)]
        BY <3>1, <4>1, ContentsAreItems
      <4>3. /\ tail + (i + 1) - 1 = tail + ((i - 1) + 1)
            /\ Following(tail) \in Int => Following(tail) + i - 1 = Following(tail) + (i - 1)
        BY <4>1, RingNumbers
      <4>4. Following(tail) \in Int
        BY RingNumbers, FollowingIs DEF Indices
      <4> QED
        BY <1>0, <4>1, <4>2, <4>3, <4>4, RingNumbers, SlotOfNext
    <3>4. Contents' = [i \in 1..Filled - 1 |-> slots'[Slot(tail' + i - 1)]]
      <4>1. consumer'.pc # "publish"
        BY <1>0
      <4> QED
        BY <1>1, <4>1 DEF Contents, Filled
    <3>5. Contents' = s
      BY <3>2, <3>3, <3>4
    <3> QED
      BY <3>5 DEF s
  <2> QED
    BY <1>0, <2>1, <2>2 DEF Fifo!Pop
<1> QED
  BY <1>4, <1>5, <1>6, <1>7 DEF RingInv, ChannelStep, Fifo!Next

LEMMA CloseKeeps ==
    ASSUME WakeInv, RingInv, CloseCall
    PROVE  RingInv' /\ ChannelStep
<1>0. /\ UNCHANGED <<drop_newest, head, tail, cached_tail, cached_head, slots, dropped, item, received,
                     ended, producer, consumer>>
      /\ closed' = TRUE
  BY DEF CloseCall, shared
<1>1. Filled' = Filled /\ (\A j \in Places : Holds(j)' <=> Holds(j)) /\ Contents' = Contents
  BY <1>0 DEF Filled, Holds, Contents
<1>2. IndexInv' /\ SlotInv' /\ CountInv'
  BY <1>0, <1>1 DEF RingInv, IndexInv, SlotInv, CountInv
<1>3. Fifo!Close
  BY <1>0, <1>1 DEF Fifo!Close
<1> QED
  BY <1>2, <1>3 DEF RingInv, ChannelStep, Fifo!Next

LEMMA NextRing == WakeInv /\ RingInv /\ [Next]_vars => RingInv' /\ ChannelStep
<1> SUFFICES ASSUME WakeInv, RingInv, [Next]_vars PROVE RingInv' /\ ChannelStep
  OBVIOUS
<1>1. CASE PushCall \/ PushCheck \/ PushFill \/ PushPublish
  BY <1>1, PushCallKeeps, PushCheckKeeps, PushFillKeeps, PushPublishKeeps
<1>2. CASE PopCheck \/ PopTake \/ PopPublish
  BY <1>2, PopCheckKeeps, PopTakeKeeps, PopPublishKeeps
<1>3. CASE ProducerStep /\ ~(PushCheck \/ PushFill \/ PushPublish)
  BY <1>3, QuietProducer, QuietKeeps DEF ProducerStep
<1>4. CASE PopCall \/ (ConsumerStep /\ ~(PopCheck \/ PopTake \/ PopPublish))
  BY <1>4, QuietConsumer, QuietKeeps DEF ConsumerStep
<1>5. CASE CloseCall
  BY <1>5, CloseKeeps
<1>6. CASE CloserStep \/ SpuriousWake \/ UNCHANGED vars
  BY <1>6, QuietOthers, QuietKeeps
<1> QED
  BY <1>1, <1>2, <1>3, <1>4, <1>5, <1>6 DEF Next, Terminated

LEMMA RingAlways == Spec => []WakeInv /\ []RingInv
BY InitWake, NextWake, InitRing, NextRing, PTL DEF Spec

\* The slots of SpscRingQueue need no lock: try_push() fills only an empty slot and
\* try_pop() takes only from a full one, whatever old copy of the other's index each has.
THEOREM SlotsAreNeverShared == Spec => []SlotsNotShared
<1>1. RingInv => SlotsNotShared
  <2> SUFFICES ASSUME RingInv PROVE SlotsNotShared
    OBVIOUS
  <2>1. ASSUME producer.pc = "fill" PROVE slots[Slot(head)] = Empty
    <3>1. Filled \in Places
      BY <2>1, RingNumbers, SpscAssumption DEF RingInv, IndexInv, Places
    <3>2. ~ Holds(Filled)
      BY <2>1, RingNumbers DEF Holds
    <3> QED
      BY <3>1, <3>2, RingNumbers, SlotOfHead DEF RingInv, SlotInv
  <2>2. ASSUME consumer.pc = "take" PROVE slots[Slot(tail)] # Empty
    <3>1. tail + 0 = tail /\ 0 \in Places
      BY RingNumbers, SpscAssumption DEF Places
    <3>2. Holds(0)
      BY <2>2, TakenIsThere, RingNumbers DEF Holds
    <3> QED
      BY <3>1, <3>2 DEF RingInv, SlotInv
  <2> QED
    BY <2>1, <2>2 DEF SlotsNotShared
<1> QED
  BY <1>1, RingAlways, PTL

\* Every push() of SpscRingQueue that returned left its item popped, in the ring, or in
\* dropped_count().
THEOREM NothingIsUncounted == Spec => []NothingUncounted
<1>1. RingInv => NothingUncounted
  BY RingNumbers DEF RingInv, CountInv, InFlight, NothingUncounted, Filled
<1> QED
  BY <1>1, RingAlways, PTL

\* push(), pop() and close() of SpscRingQueue are steps of the bounded first-in first-out
\* channel, at the moment an index is published, or change nothing of it.
THEOREM RingImplementsFifo == Spec => ImplementsFifo
<1>1. ChannelStep => [Fifo!Next]_(Fifo!vars)
  BY DEF ChannelStep, Fifo!vars
<1> QED
  BY <1>1, InitRing, NextRing, RingAlways, PTL DEF Spec, ImplementsFifo, Fifo!Spec
=============================================================================
