-------------------------- MODULE HsmsServerProofs --------------------------
(***************************************************************************)
(* The HSMS server, for all durations, counter widths, bounds, host frames *)
(* and numbers of connections: the connection there is has one read and    *)
(* one write under way, what a host is sent was meant for it, and the      *)
(* service knows the requests that are open.  Each follows from ServerInv, *)
(* which every handler keeps.                                              *)
(***************************************************************************)
EXTENDS HsmsSessionProofs

-----------------------------------------------------------------------------
(* The steps, by what they have in common. *)

\* Work is posted or dropped, and parts of an output are used up.
LEMMA QueueStepKeeps ==
    ASSUME ServerInv, UNCHANGED <<linkVars, serverVars>>,
           out' \in Outputs, out'.close = out.close, out'.to_send = out.to_send, AnswersClosed',
           QueueKeeps(ready, ready', generation), GemTypes',
           Open \intersect open_requests_ \subseteq open_requests_'
    PROVE  ServerInv'
<1>1. LinkInv'
  BY LinkUnchanged DEF ServerInv
<1>2. Open' = Open /\ state' = state /\ call' = call
  BY DEF linkVars, Open
<1>3. UNCHANGED <<socket, generation, write_queue, writing, reads, writes, io>>
  BY DEF serverVars
<1>4. ServerTypes'
  BY <1>3 DEF ServerInv, ServerTypes, QueueKeeps
<1>5. StagesFollowSession'
  BY <1>2, <1>3 DEF ServerInv, StagesFollowSession
<1>6. ReadUnderWay'
  BY <1>3 DEF ServerInv, ReadUnderWay, QueueKeeps
<1>7. WriteUnderWay'
  BY <1>3 DEF ServerInv, WriteUnderWay
<1>8. StaleWorkFirst'
  BY <1>2, <1>3 DEF ServerInv, StaleWorkFirst, QueueKeeps
<1>9. MessagesStayInConnection'
  BY <1>3 DEF ServerInv, MessagesStayInConnection
<1>10. RequestsKnown'
  BY <1>2, <1>3 DEF ServerInv, RequestsKnown, JustSent
<1>11. GenerationBounded'
  BY <1>3 DEF ServerInv, GenerationBounded
<1> QED
  BY <1>1, <1>4, <1>5, <1>6, <1>7, <1>8, <1>9, <1>10, <1>11 DEF ServerInv

\* A handler finds nothing to do.
LEMMA IdleStepKeeps ==
    ASSUME ServerInv, QueueKeeps(ready, ready', generation),
           UNCHANGED <<sessionVars, gemVars, serverVars>>
    PROVE  ServerInv'
<1>1. UNCHANGED <<linkVars, serverVars, out>>
  BY DEF sessionVars, linkVars, timerVars
<1>2. UNCHANGED <<control_mode, preferred_online_mode_, open_requests_, transactions_>>
  BY DEF gemVars, sessionVars
<1>3. AnswersClosed' /\ GemTypes' /\ out' \in Outputs
  BY <1>1, <1>2 DEF ServerInv, ServerTypes, AnswersClosed, GemTypes, Open
<1> QED
  BY <1>1, <1>2, <1>3, QueueStepKeeps

\* The session was called and apply() has queued what it sends.
LEMMA AppliesKeeps ==
    ASSUME ServerInv, io.at \in {"rest", "bytes"}, socket,
           UNCHANGED <<gemVars, socket, generation, notified_state, reads>>,
           LinkInv', out' \in Outputs, AnswersClosed', call' = "none",
           out'.close <=> state' = "NotConnected",
           ready' \in Seq(Work), ReadsUpTo(ready', generation), StaleBeforeRead(ready', generation),
           state' = "Selected" => NoStaleIn(ready', generation),
           NEW of, NEW then \in {"read", "tick", "request", "reply"}, NEW w \in BOOLEAN,
           Applies(of, then, w), of = generation \/ out'.to_send = <<>>,
           IF then = "read" THEN generation \notin reads /\ NoReadIn(ready', generation)
           ELSE \/ generation \in reads /\ NoReadIn(ready', generation)
                \/ generation \notin reads /\ OneReadIn(ready', generation),
           Open' \subseteq open_requests_ \union
                 IF then = "request" /\ w /\ out'.to_send # <<>> THEN {out'.to_send[1].system} ELSE {}
    PROVE  ServerInv'
<1>1. /\ ServerTypes /\ WriteUnderWay /\ MessagesStayInConnection
      /\ generation \in Generations /\ generation <= 2 * MaxConnections
  BY DEF ServerInv, GenerationBounded
<1>2. /\ write_queue' \in Seq(Nat) /\ writing' \in BOOLEAN
      /\ WritesUpTo(writes', generation) /\ MessagesStayInConnection'
      /\ io' = [at |-> "deliver", then |-> then, w |-> w]
      /\ WriteUnderWay'
  BY <1>1, AppliesEffect
<1>3. io'.at = "deliver" /\ io'.then = then /\ io'.w = w /\ io' \in Stages
  BY <1>2 DEF Stages
<1>4. ServerTypes'
  <2>1. GemTypes'
    BY <1>1 DEF ServerTypes, GemTypes, gemVars
  <2> QED
    BY <1>1, <1>2, <1>3, <2>1 DEF ServerTypes
<1>5. StagesFollowSession'
  BY <1>3 DEF StagesFollowSession
<1>6. ReadUnderWay'
  BY <1>3 DEF ReadUnderWay
<1>7. StaleWorkFirst'
  BY <1>3 DEF StaleWorkFirst
<1>8. RequestsKnown'
  BY <1>3 DEF RequestsKnown, JustSent, gemVars
<1>9. GenerationBounded'
  <2>1. io.at # "stopped"
    OBVIOUS
  <2> QED
    BY <2>1 DEF ServerInv, GenerationBounded
<1> QED
  BY <1>2, <1>4, <1>5, <1>6, <1>7, <1>8, <1>9 DEF ServerInv

\* The connection is dropped: nothing that is left belongs to the next generation.
LEMMA DropKeeps ==
    ASSUME ServerInv, DropsConnection,
           LinkInv', state' = "NotConnected", call' = "none", Open' = {}, out' \in Outputs,
           GemTypes', io' \in Stages, io.at # "stopped",
           io'.at = "stopped" \/ (io'.at = "rest" /\ socket),
           ready' \in Seq(Work), ReadsUpTo(ready', generation), reads' \subseteq 0..generation,
           WritesUpTo(writes', generation)
    PROVE  ServerInv'
<1>1. generation \in Nat /\ generation' = generation + 1 /\ socket' = FALSE
      /\ write_queue' = <<>> /\ writing' = FALSE
  BY DEF ServerInv, ServerTypes, DropsConnection
<1>2. /\ ReadsUpTo(ready', generation') /\ NoReadIn(ready', generation')
      /\ StaleBeforeRead(ready', generation')
  BY <1>1, NewConnectionQueue
<1>3. GenerationBounded' /\ generation \in Generations
  BY <1>1, ServerAssumption DEF ServerInv, GenerationBounded, Generations
<1>4. WritesUpTo(writes', generation') /\ writes'[generation'] = 0
  BY <1>1, <1>3, NewConnectionWrites DEF GenerationBounded
<1>5. reads' \subseteq 0..generation' /\ generation' \notin reads'
  BY <1>1
<1>6. ServerTypes'
  <2>1. write_queue' \in Seq(Nat)
    BY <1>1, EmptyIsSeq
  <2>2. generation' \in Nat
    BY <1>1
  <2>3. socket' \in BOOLEAN /\ writing' \in BOOLEAN
    BY <1>1
  <2> QED
    BY <1>2, <1>4, <1>5, <2>1, <2>2, <2>3 DEF ServerTypes
<1>7. StagesFollowSession'
  BY <1>1 DEF StagesFollowSession
<1>8. ReadUnderWay' /\ WriteUnderWay'
  BY <1>1, <1>2, <1>4, <1>5 DEF ReadUnderWay, WriteUnderWay
<1>9. StaleWorkFirst'
  BY <1>2 DEF StaleWorkFirst
<1>10. MessagesStayInConnection'
  BY <1>1 DEF MessagesStayInConnection
<1>11. AnswersClosed' /\ RequestsKnown'
  BY DEF AnswersClosed, RequestsKnown
<1> QED
  BY <1>3, <1>6, <1>7, <1>8, <1>9, <1>10, <1>11 DEF ServerInv

\* close_socket() between two handlers.
LEMMA CloseKeeps ==
    ASSUME ServerInv, Resting, close_socket, io' \in Stages,
           io'.at = "stopped" \/ (io'.at = "rest" /\ socket),
           ready' \in Seq(Work), ReadsUpTo(ready', generation), reads' \subseteq 0..generation,
           WritesUpTo(writes', generation)
    PROVE  ServerInv'
<1>1. LinkInv'
  BY LossKeepsLink DEF ServerInv, close_socket
<1>2. call' = "none" /\ state' = "NotConnected" /\ out' = out
  BY DEF close_socket, on_disconnect, Disconnects
<1>3. Open' = {}
  <2>1. CASE state = "NotConnected"
    BY <2>1 DEF ServerInv, LinkInv, TimersFollowState, close_socket, on_disconnect, Open
  <2>2. CASE state # "NotConnected"
    BY <2>2, TableClears DEF close_socket, on_disconnect, Disconnects, reset_link_state
  <2> QED
    BY <2>1, <2>2
<1>4. GemTypes'
  BY NotifyEffect DEF ServerInv, ServerTypes, close_socket
<1>5. out' \in Outputs /\ DropsConnection /\ io.at # "stopped"
  BY <1>2 DEF ServerInv, ServerTypes, close_socket, Resting
<1> QED
  BY <1>1, <1>2, <1>3, <1>4, <1>5, DropKeeps

-----------------------------------------------------------------------------
(* One lemma for each step. *)

\* What Runs(kind) says of the queue.
LEMMA NextHandler ==
    ASSUME ServerInv, NEW kind, Runs(kind)
    PROVE  /\ ready \in Seq(Work) /\ ready # <<>> /\ Head(ready) = ready[1] /\ ready[1] \in Work
           /\ ready[1].kind = kind /\ 1 \in DOMAIN ready /\ io.at = "rest" /\ generation \in Nat
<1>1. ready \in Seq(Work) /\ ready # <<>> /\ generation \in Nat
  BY DEF Runs, ServerInv, ServerTypes
<1>2. Head(ready) = ready[1] /\ ready[1] \in Work /\ 1 \in DOMAIN ready
  BY <1>1, TailOfSeq
<1> QED
  BY <1>1, <1>2 DEF Runs, Resting

LEMMA StaleReadKeeps == ServerInv /\ StaleRead => ServerInv'
<1> SUFFICES ASSUME ServerInv, StaleRead PROVE ServerInv'
  OBVIOUS
<1>1. /\ ready \in Seq(Work) /\ ready # <<>> /\ Head(ready) = ready[1] /\ generation \in Nat
  BY NextHandler DEF StaleRead
<1>2. ~ReadAt(ready, generation, 1)
  BY <1>1 DEF StaleRead, ReadAt
<1>3. QueueKeeps(ready, ready', generation)
  BY <1>1, <1>2, TakingKeeps DEF StaleRead, Taken
<1> QED
  BY <1>3, IdleStepKeeps DEF StaleRead

LEMMA ReadFailsKeeps == ServerInv /\ ReadFails => ServerInv'
<1> SUFFICES ASSUME ServerInv, ReadFails PROVE ServerInv'
  OBVIOUS
<1>1. /\ ready \in Seq(Work) /\ ready # <<>> /\ Head(ready) = ready[1] /\ ready[1].kind = "read"
      /\ generation \in Nat /\ io.at = "rest"
  BY NextHandler DEF ReadFails
<1>2. ReadAt(ready, generation, 1)
  BY <1>1 DEF ReadFails, ReadAt
<1>3. ready' \in Seq(Work) /\ ReadsUpTo(ready', generation)
  BY <1>1, <1>2, TakingRead DEF ReadFails, Taken, ServerInv, ServerTypes
<1>4. io' = io /\ reads' \subseteq 0..generation /\ WritesUpTo(writes', generation) /\ io' \in Stages
  BY DEF ReadFails, ServerInv, ServerTypes
<1>5. close_socket /\ Resting /\ socket
  <2>1. 1 \in DOMAIN ready
    BY NextHandler DEF ReadFails
  <2> QED
    BY <1>1, <1>2, <2>1 DEF ReadFails, Resting, ServerInv, ReadUnderWay, NoReadIn
<1> QED
  BY <1>1, <1>3, <1>4, <1>5, CloseKeeps

LEMMA HandleReadKeeps == ServerInv /\ HandleRead => ServerInv'
<1> SUFFICES ASSUME ServerInv, HandleRead PROVE ServerInv'
  OBVIOUS
<1>1. /\ ready \in Seq(Work) /\ ready # <<>> /\ Head(ready) = ready[1] /\ ready[1].kind = "read"
      /\ generation \in Nat /\ io.at = "rest" /\ 1 \in DOMAIN ready
  BY NextHandler DEF HandleRead
<1>2. ReadAt(ready, generation, 1)
  BY <1>1 DEF HandleRead, ReadAt
<1>3. socket /\ generation \notin reads /\ OneReadIn(ready, generation)
  BY <1>1, <1>2 DEF ServerInv, ReadUnderWay, NoReadIn
<1>4. /\ ready' \in Seq(Work) /\ ReadsUpTo(ready', generation) /\ NoReadIn(ready', generation)
      /\ NoStaleIn(ready', generation)
  BY <1>1, <1>2, <1>3, TakingRead DEF HandleRead, Taken, ServerInv, ServerTypes, StaleWorkFirst
<1>5. StaleBeforeRead(ready', generation)
  BY <1>4 DEF NoStaleIn, StaleBeforeRead
<1>6. CASE BytesArrive /\ io' = InBytes /\ UNCHANGED <<write_queue, writing, writes>>
  <2>1. UNCHANGED <<gemVars, socket, generation, reads, write_queue, writing, writes>>
    BY <1>6 DEF HandleRead
  <2>2. /\ state' = state /\ state # "NotConnected" /\ call' = "bytes" /\ out' = NoOutput
        /\ transactions_' = transactions_
    BY <1>6 DEF BytesArrive
  <2>3. io' \in Stages /\ io'.at = "bytes" /\ io'.then = "read"
    BY <1>6 DEF InBytes, Stages
  <2>4. LinkInv'
    BY <1>6, ReadKeepsLink DEF ServerInv
  <2>5. out' \in Outputs /\ ~out'.close /\ out'.deliveries = <<>> /\ out'.timed_out = {}
    BY <2>2, NoOutputIs
  <2>6. ServerTypes'
    BY <1>4, <2>1, <2>3, <2>5 DEF ServerInv, ServerTypes, GemTypes, gemVars
  <2>7. StagesFollowSession'
    BY <1>3, <2>1, <2>2, <2>3, <2>5 DEF StagesFollowSession
  <2>8. ReadUnderWay'
    BY <1>3, <1>4, <2>1, <2>3 DEF ReadUnderWay
  <2>9. WriteUnderWay'
    BY <1>1, <2>1 DEF ServerInv, WriteUnderWay
  <2>10. StaleWorkFirst'
    BY <1>4, <1>5, <2>1 DEF StaleWorkFirst
  <2>11. MessagesStayInConnection' /\ AnswersClosed'
    BY <2>1, <2>5 DEF ServerInv, MessagesStayInConnection, AnswersClosed
  <2>12. RequestsKnown'
    BY <1>1, <2>1, <2>2, <2>3 DEF ServerInv, RequestsKnown, JustSent, Open, gemVars
  <2>13. GenerationBounded'
    BY <1>1, <2>1 DEF ServerInv, GenerationBounded
  <2> QED
    BY <2>4, <2>6, <2>7, <2>8, <2>9, <2>10, <2>11, <2>12, <2>13 DEF ServerInv
<1>7. CASE FramingError /\ Applies(generation, "read", FALSE)
  <2>1. UNCHANGED <<gemVars, socket, generation, notified_state, reads>>
    BY DEF HandleRead
  <2>2. /\ state' = "NotConnected" /\ call' = "none" /\ transactions_' = Closed
        /\ out' = [NoOutput EXCEPT !.close = TRUE]
    BY <1>7 DEF FramingError, Disconnects, reset_link_state
  <2>3. out' \in Outputs /\ out'.close /\ out'.deliveries = <<>> /\ out'.timed_out = {}
    BY <2>2, NoOutputIs DEF NoOutput
  <2>4. Open' = {}
    BY <2>2, TableClears
  <2>5. LinkInv' /\ AnswersClosed'
    BY <1>7, <2>3, LossKeepsLink DEF ServerInv, AnswersClosed
  <2> QED
    BY <1>1, <1>3, <1>4, <1>5, <1>7, <2>1, <2>2, <2>3, <2>4, <2>5, AppliesKeeps
<1> QED
  BY <1>6, <1>7 DEF HandleRead

LEMMA ReadGoesOnKeeps == ServerInv /\ ReadGoesOn => ServerInv'
<1> SUFFICES ASSUME ServerInv, ReadGoesOn PROVE ServerInv'
  OBVIOUS
<1>1. /\ io.at = "bytes" /\ io.then = "read" /\ socket /\ call = "bytes" /\ ~out.close
      /\ generation \notin reads /\ NoReadIn(ready, generation)
  BY DEF ReadGoesOn, ServerInv, StagesFollowSession, ReadUnderWay
<1>2. /\ ready \in Seq(Work) /\ ReadsUpTo(ready, generation) /\ generation \in Nat
      /\ StaleBeforeRead(ready, generation) /\ NoStaleIn(ready, generation)
  BY <1>1 DEF ServerInv, ServerTypes, StaleWorkFirst
<1>3. ready' = ready /\ UNCHANGED <<gemVars, socket, generation, notified_state, reads>>
  BY DEF ReadGoesOn
<1>4. /\ out' \in Outputs /\ Open' \subseteq Open /\ AnswersClosed' /\ LinkInv'
      /\ call' \in {"bytes", "none"}
      /\ call' = "bytes" => ~out'.close /\ state' # "NotConnected"
      /\ call' = "none" => (out'.close <=> state' = "NotConnected")
  <2>1. ASSUME NEW f \in HostFrames, handle_frame(f)
        PROVE  /\ out' \in Outputs /\ Open' \subseteq Open /\ AnswersClosed' /\ LinkInv'
               /\ call' \in {"bytes", "none"}
               /\ call' = "bytes" => ~out'.close /\ state' # "NotConnected"
               /\ call' = "none" => (out'.close <=> state' = "NotConnected")
    <3>1. /\ out' \in Outputs /\ Open' \subseteq Open /\ AnswersClosed'
          /\ call' \in {"bytes", "none"}
          /\ call' = "bytes" => ~out'.close /\ state' # "NotConnected"
          /\ call' = "none" => out'.close /\ state' = "NotConnected"
      BY <1>1, <2>1, FrameEffect DEF ServerInv, ServerTypes
    <3>2. LinkInv'
      BY <2>1, FrameKeepsLink DEF ServerInv
    <3> QED
      BY <3>1, <3>2
  <2>2. ASSUME NEW rest \in BOOLEAN, BytesEnd(rest)
        PROVE  /\ out' \in Outputs /\ Open' \subseteq Open /\ AnswersClosed' /\ LinkInv'
               /\ call' = "none" /\ (out'.close <=> state' = "NotConnected")
    <3>1. out' = out /\ Open' = Open /\ call' = "none" /\ state' = state
      BY <2>2 DEF BytesEnd, Open
    <3>2. LinkInv'
      BY <2>2, ReadKeepsLink DEF ServerInv
    <3>3. state # "NotConnected" /\ out \in Outputs /\ AnswersClosed
      BY <1>1 DEF ServerInv, ServerTypes, StagesFollowSession
    <3>4. AnswersClosed'
      BY <3>1, <3>3 DEF AnswersClosed
    <3> QED
      BY <1>1, <3>1, <3>2, <3>3, <3>4
  <2> QED
    BY <2>1, <2>2 DEF ReadGoesOn
<1>5. Open \subseteq open_requests_
  BY <1>1 DEF ServerInv, RequestsKnown, JustSent
<1>6. CASE call' = "none"
  <2>1. Applies(generation, "read", FALSE)
    BY <1>6 DEF ReadGoesOn
  <2> QED
    BY <1>1, <1>2, <1>3, <1>4, <1>5, <1>6, <2>1, AppliesKeeps
<1>7. CASE call' = "bytes"
  <2>1. UNCHANGED <<write_queue, writing, writes, io>>
    BY <1>7 DEF ReadGoesOn
  <2>2. ServerTypes'
    BY <1>3, <1>4, <2>1 DEF ServerInv, ServerTypes, GemTypes, gemVars
  <2>3. StagesFollowSession'
    BY <1>1, <1>3, <1>4, <1>7, <2>1 DEF StagesFollowSession
  <2>4. ReadUnderWay'
    BY <1>1, <1>3, <2>1 DEF ReadUnderWay
  <2>5. WriteUnderWay'
    BY <1>1, <1>3, <2>1 DEF ServerInv, WriteUnderWay
  <2>6. StaleWorkFirst'
    BY <1>2, <1>3 DEF StaleWorkFirst
  <2>7. MessagesStayInConnection'
    BY <1>3, <2>1 DEF ServerInv, MessagesStayInConnection
  <2>8. RequestsKnown'
    BY <1>3, <1>4, <1>5 DEF RequestsKnown, gemVars
  <2>9. GenerationBounded'
    BY <1>3, <2>1 DEF ServerInv, GenerationBounded
  <2> QED
    BY <1>4, <2>2, <2>3, <2>4, <2>5, <2>6, <2>7, <2>8, <2>9 DEF ServerInv
<1> QED
  BY <1>4, <1>6, <1>7

LEMMA HandleTickKeeps == ServerInv /\ HandleTick => ServerInv'
<1> SUFFICES ASSUME ServerInv, HandleTick PROVE ServerInv'
  OBVIOUS
<1>1. io.at = "rest" /\ socket /\ Applies(generation, "tick", FALSE)
  BY DEF HandleTick, Resting
<1>2. ready' = ready /\ UNCHANGED <<gemVars, socket, generation, notified_state, reads>>
  BY DEF HandleTick
<1>3. /\ out' \in Outputs /\ Open' \subseteq Open /\ AnswersClosed' /\ call' = "none"
      /\ out'.close <=> state' = "NotConnected"
      /\ state' = "Selected" => state = "Selected"
  BY TickEffect DEF ServerInv, HandleTick
<1>4. LinkInv'
  BY LossKeepsLink, TickKeepsLink DEF ServerInv, HandleTick
<1>5. /\ ready \in Seq(Work) /\ ReadsUpTo(ready, generation) /\ StaleBeforeRead(ready, generation)
      /\ state = "Selected" => NoStaleIn(ready, generation)
  BY DEF ServerInv, ServerTypes, StaleWorkFirst
<1>6. \/ generation \in reads /\ NoReadIn(ready, generation)
      \/ generation \notin reads /\ OneReadIn(ready, generation)
  BY <1>1 DEF ServerInv, ReadUnderWay
<1>7. Open \subseteq open_requests_
  BY <1>1 DEF ServerInv, RequestsKnown, JustSent
<1> QED
  BY <1>1, <1>2, <1>3, <1>4, <1>5, <1>6, <1>7, AppliesKeeps

\* The handler of a request or a reply is taken from the queue.
LEMMA PostedWorkTaken ==
    ASSUME ServerInv, NEW kind \in {"request", "reply"}, Runs(kind), Taken
    PROVE  /\ Head(ready) \in Work /\ Head(ready).kind = kind
           /\ QueueKeeps(ready, ready', generation)
           /\ ready' \in Seq(Work) /\ ReadsUpTo(ready', generation)
           /\ StaleBeforeRead(ready', generation)
           /\ state = "Selected" => NoStaleIn(ready', generation) /\ Head(ready).of = generation
           /\ Open \subseteq open_requests_
           /\ socket => \/ generation \in reads /\ NoReadIn(ready', generation)
                        \/ generation \notin reads /\ OneReadIn(ready', generation)
<1>1. /\ ready \in Seq(Work) /\ ready # <<>> /\ Head(ready) = ready[1] /\ ready[1] \in Work
      /\ ready[1].kind = kind /\ 1 \in DOMAIN ready /\ io.at = "rest" /\ generation \in Nat
  BY NextHandler
<1>2. ~ReadAt(ready, generation, 1)
  BY <1>1 DEF ReadAt
<1>3. QueueKeeps(ready, ready', generation)
  BY <1>1, <1>2, TakingKeeps DEF Taken
<1>4. /\ ready' \in Seq(Work) /\ ReadsUpTo(ready', generation)
      /\ StaleBeforeRead(ready', generation)
      /\ state = "Selected" => NoStaleIn(ready', generation)
  BY <1>3 DEF QueueKeeps, ServerInv, ServerTypes, StaleWorkFirst
<1>5. state = "Selected" => Head(ready).of = generation
  BY <1>1 DEF ServerInv, StaleWorkFirst, NoStaleIn, StaleAt
<1>6. Open \subseteq open_requests_
  BY <1>1 DEF ServerInv, RequestsKnown, JustSent
<1>7. socket => \/ generation \in reads /\ NoReadIn(ready', generation)
                \/ generation \notin reads /\ OneReadIn(ready', generation)
  BY <1>1, <1>3 DEF ServerInv, ReadUnderWay, QueueKeeps
<1> QED
  BY <1>1, <1>3, <1>4, <1>5, <1>6, <1>7

LEMMA HandleRequestKeeps ==
    ASSUME ServerInv, NEW fits \in BOOLEAN, HandleRequest(fits)
    PROVE  ServerInv'
<1> DEFINE w == Head(ready).w
           of == Head(ready).of
<1>1. /\ Head(ready) \in Work /\ Head(ready).kind = "request"
      /\ QueueKeeps(ready, ready', generation)
      /\ ready' \in Seq(Work) /\ ReadsUpTo(ready', generation)
      /\ StaleBeforeRead(ready', generation)
      /\ state = "Selected" => NoStaleIn(ready', generation) /\ of = generation
      /\ Open \subseteq open_requests_
      /\ socket => \/ generation \in reads /\ NoReadIn(ready', generation)
                   \/ generation \notin reads /\ OneReadIn(ready', generation)
  BY PostedWorkTaken DEF HandleRequest
<1>2. w \in BOOLEAN
  BY <1>1 DEF Work
<1>3. io.at = "rest" /\ UNCHANGED <<gemVars, socket, generation, notified_state, reads>>
  BY DEF HandleRequest, Runs, Resting
<1>4. CASE ~socket
  <2>1. UNCHANGED <<sessionVars, gemVars, serverVars>>
    BY <1>3, <1>4 DEF HandleRequest, serverVars
  <2> QED
    BY <1>1, <2>1, IdleStepKeeps
<1>5. CASE socket
  <2>1. send_request(w, fits) /\ Applies(of, "request", w)
    BY <1>5 DEF HandleRequest
  <2> HIDE DEF w, of
  <2>2. /\ out' \in Outputs /\ ~out'.close /\ out'.deliveries = <<>> /\ out'.timed_out = {}
        /\ state' = state /\ call' = "none"
        /\ state # "Selected" => out'.to_send = <<>>
        /\ \/ Open' \subseteq Open
           \/ w /\ out'.to_send # <<>> /\ Open' \subseteq Open \union {out'.to_send[1].system}
    BY <1>2, <2>1, RequestEffect DEF ServerInv
  <2>3. AnswersClosed'
    BY <2>2 DEF AnswersClosed
  <2>4. LinkInv'
    BY <1>2, <2>1, SendKeepsLink DEF ServerInv
  <2>5. state # "NotConnected"
    BY <1>3, <1>5 DEF ServerInv, StagesFollowSession
  <2>6. of = generation \/ out'.to_send = <<>>
    BY <1>1, <2>2
  <2>7. Open' \subseteq open_requests_ \union
              IF w /\ out'.to_send # <<>> THEN {out'.to_send[1].system} ELSE {}
    BY <1>1, <2>2
  <2> QED
    BY <1>1, <1>2, <1>3, <1>5, <2>1, <2>2, <2>3, <2>4, <2>5, <2>6, <2>7, AppliesKeeps
<1> QED
  BY <1>4, <1>5 DEF ServerInv, ServerTypes

LEMMA HandleReplyKeeps ==
    ASSUME ServerInv, NEW fits \in BOOLEAN, HandleReply(fits)
    PROVE  ServerInv'
<1> DEFINE n == Head(ready).system
           of == Head(ready).of
<1>1. /\ Head(ready) \in Work /\ Head(ready).kind = "reply"
      /\ QueueKeeps(ready, ready', generation)
      /\ ready' \in Seq(Work) /\ ReadsUpTo(ready', generation)
      /\ StaleBeforeRead(ready', generation)
      /\ state = "Selected" => NoStaleIn(ready', generation) /\ of = generation
      /\ Open \subseteq open_requests_
      /\ socket => \/ generation \in reads /\ NoReadIn(ready', generation)
                   \/ generation \notin reads /\ OneReadIn(ready', generation)
  BY PostedWorkTaken DEF HandleReply
<1>2. n \in HostSystems
  BY <1>1 DEF Work
<1>3. io.at = "rest" /\ UNCHANGED <<gemVars, socket, generation, notified_state, reads>>
  BY DEF HandleReply, Runs, Resting
<1>4. CASE ~socket
  <2>1. UNCHANGED <<sessionVars, gemVars, serverVars>>
    BY <1>3, <1>4 DEF HandleReply, serverVars
  <2> QED
    BY <1>1, <2>1, IdleStepKeeps
<1>5. CASE socket
  <2>1. send_reply(n, fits) /\ Applies(of, "reply", FALSE)
    BY <1>5 DEF HandleReply
  <2> HIDE DEF n, of
  <2>2. /\ out' \in Outputs /\ ~out'.close /\ out'.deliveries = <<>> /\ out'.timed_out = {}
        /\ state' = state /\ call' = "none" /\ Open' = Open /\ LinkInv'
        /\ state # "Selected" => out'.to_send = <<>>
    BY <1>2, <2>1, ReplyEffect DEF ServerInv
  <2>3. AnswersClosed'
    BY <2>2 DEF AnswersClosed
  <2>4. state # "NotConnected"
    BY <1>3, <1>5 DEF ServerInv, StagesFollowSession
  <2>5. of = generation \/ out'.to_send = <<>>
    BY <1>1, <2>2
  <2> QED
    BY <1>1, <1>3, <1>5, <2>1, <2>2, <2>3, <2>4, <2>5, AppliesKeeps
<1> QED
  BY <1>4, <1>5 DEF ServerInv, ServerTypes

LEMMA HandleTaskKeeps == ServerInv /\ HandleTask => ServerInv'
<1> SUFFICES ASSUME ServerInv, HandleTask PROVE ServerInv'
  OBVIOUS
<1>1. /\ ready \in Seq(Work) /\ ready # <<>> /\ Head(ready).kind = "task" /\ generation \in Nat
  BY NextHandler DEF HandleTask
<1>2. QueueKeeps(ready, ready', generation) /\ GemTypes' /\ open_requests_' = open_requests_
  BY <1>1, TaskEffect DEF HandleTask, ServerInv, ServerTypes
<1>3. UNCHANGED <<linkVars, serverVars, out, transactions_>>
  BY DEF HandleTask, sessionVars, linkVars, timerVars
<1>4. AnswersClosed' /\ out' \in Outputs
  BY <1>3 DEF ServerInv, ServerTypes, AnswersClosed, Open
<1> QED
  BY <1>2, <1>3, <1>4, QueueStepKeeps

LEMMA PublishesKeeps == ServerInv /\ Publishes => ServerInv'
<1> SUFFICES ASSUME ServerInv, Publishes PROVE ServerInv'
  OBVIOUS
<1>1. ready \in Seq(Work) /\ generation \in Nat /\ GemTypes
  BY DEF ServerInv, ServerTypes
<1>2. ASSUME NEW n \in 1..2, NEW m \in ControlModes \union {"none"},
             ready' = Append(ready, [kind |-> "task", reports |-> n, mode |-> m])
      PROVE  QueueKeeps(ready, ready', generation)
  <2> DEFINE x == [kind |-> "task", reports |-> n, mode |-> m]
  <2>1. x \in Work
    BY DEF Work
  <2>2. Append(ready, x) = ready \o <<x>>
    BY <1>1, <2>1, AppendIsPosting
  <2>3. Posted(<<x>>, generation)
    BY TaskPosted
  <2> QED
    BY <1>1, <1>2, <2>2, <2>3, PostingKeeps
<1>3. /\ QueueKeeps(ready, ready', generation) /\ GemTypes' /\ open_requests_' = open_requests_
  <2>1. ASSUME NEW n \in 1..2, MachineEvent(n)
        PROVE  /\ QueueKeeps(ready, ready', generation) /\ GemTypes'
               /\ open_requests_' = open_requests_
    BY <1>1, <1>2, <2>1 DEF MachineEvent, gemVars, GemTypes
  <2>2. ASSUME NEW m \in OperatorModes, OperatorSetsMode(m)
        PROVE  /\ QueueKeeps(ready, ready', generation) /\ GemTypes'
               /\ open_requests_' = open_requests_
    <3>1. m \in ControlModes /\ 1 \in 1..2
      BY ServerAssumption
    <3> QED
      BY <1>1, <1>2, <2>2, <3>1 DEF OperatorSetsMode, ModeChanged, GemTypes
  <2> QED
    BY <2>1, <2>2 DEF Publishes
<1>4. UNCHANGED <<linkVars, serverVars, out, transactions_>>
  BY DEF Publishes, sessionVars, linkVars, timerVars
<1>5. AnswersClosed' /\ out' \in Outputs
  BY <1>4 DEF ServerInv, ServerTypes, AnswersClosed, Open
<1> QED
  BY <1>3, <1>4, <1>5, QueueStepKeeps

LEMMA ApplyDeliversKeeps == ServerInv /\ ApplyDelivers => ServerInv'
<1> SUFFICES ASSUME ServerInv, ApplyDelivers PROVE ServerInv'
  OBVIOUS
<1> DEFINE d == Head(out.deliveries)
<1>1. out \in Outputs /\ out.deliveries \in Seq(Deliveries) /\ out.deliveries # <<>>
  BY DEF ApplyDelivers, ServerInv, ServerTypes, Outputs
<1>2. /\ d \in Deliveries /\ d = out.deliveries[1] /\ 1 \in DOMAIN out.deliveries
      /\ Tail(out.deliveries) \in Seq(Deliveries)
      /\ \A i \in DOMAIN Tail(out.deliveries) :
             i + 1 \in DOMAIN out.deliveries /\ Tail(out.deliveries)[i] = out.deliveries[i + 1]
  <2>1. /\ d \in Deliveries /\ d = out.deliveries[1] /\ Len(out.deliveries) \in Nat
        /\ Len(out.deliveries) >= 1 /\ Tail(out.deliveries) \in Seq(Deliveries)
        /\ Len(Tail(out.deliveries)) = Len(out.deliveries) - 1
        /\ \A i \in 1..Len(Tail(out.deliveries)) : Tail(out.deliveries)[i] = out.deliveries[i + 1]
    BY <1>1, TailOfSeq
  <2>2. /\ DOMAIN out.deliveries = 1..Len(out.deliveries)
        /\ DOMAIN Tail(out.deliveries) = 1..Len(Tail(out.deliveries))
    BY <1>1, <2>1
  <2> QED
    BY <2>1, <2>2
<1>3. /\ out' \in Outputs /\ out'.close = out.close /\ out'.to_send = out.to_send
      /\ out'.deliveries = Tail(out.deliveries) /\ out'.timed_out = out.timed_out
  BY <1>1, <1>2 DEF ApplyDelivers, OutputOnly, Outputs
<1>4. UNCHANGED <<linkVars, serverVars>>
  BY DEF ApplyDelivers, OutputOnly, linkVars
<1>5. Open' = Open
  BY <1>4 DEF linkVars, Open
<1>6. AnswersClosed'
  <2>1. \A i \in DOMAIN out'.deliveries :
            out'.deliveries[i].reply => out'.deliveries[i].frame.system \notin Open
    BY <1>2, <1>3 DEF ServerInv, AnswersClosed
  <2>2. out'.timed_out \intersect Open = {}
    BY <1>3 DEF ServerInv, AnswersClosed
  <2> QED
    BY <1>5, <2>1, <2>2 DEF AnswersClosed
<1>7. on_data(d, generation)
  BY DEF ApplyDelivers
<1>8. d.reply => d.frame.system \notin Open
  BY <1>2 DEF ServerInv, AnswersClosed
<1> HIDE DEF d
<1>9. /\ QueueKeeps(ready, ready', generation) /\ GemTypes'
      /\ \/ open_requests_' = open_requests_
         \/ d.reply /\ open_requests_' = open_requests_ \ {d.frame.system}
  BY <1>2, <1>7, DataEffect DEF ServerInv, ServerTypes
<1>10. Open \intersect open_requests_ \subseteq open_requests_'
  BY <1>8, <1>9
<1> QED
  BY <1>3, <1>4, <1>6, <1>9, <1>10, QueueStepKeeps

LEMMA ApplyTimesOutKeeps == ServerInv /\ ApplyTimesOut => ServerInv'
<1> SUFFICES ASSUME ServerInv, ApplyTimesOut PROVE ServerInv'
  OBVIOUS
<1>1. PICK s \in out.timed_out : /\ on_transaction_timeout(s, generation)
                                 /\ OutputOnly([out EXCEPT !.timed_out = @ \ {s}])
  BY DEF ApplyTimesOut
<1>2. out \in Outputs /\ ready \in Seq(Work) /\ generation \in Nat /\ GemTypes
  BY DEF ServerInv, ServerTypes
<1>3. /\ out' \in Outputs /\ out'.close = out.close /\ out'.to_send = out.to_send
      /\ out'.deliveries = out.deliveries /\ out'.timed_out = out.timed_out \ {s}
  BY <1>1, <1>2 DEF OutputOnly, Outputs
<1>4. UNCHANGED <<linkVars, serverVars>>
  BY <1>1 DEF ApplyTimesOut, OutputOnly, linkVars
<1>5. Open' = Open
  BY <1>4 DEF linkVars, Open
<1>6. AnswersClosed'
  BY <1>3, <1>5 DEF ServerInv, AnswersClosed
<1>7. QueueKeeps(ready, ready', generation)
  <2>1. Append(ready, Request(FALSE, generation)) = ready \o <<Request(FALSE, generation)>>
    BY <1>2, RequestPosted, AppendIsPosting
  <2>2. QueueKeeps(ready, Append(ready, Request(FALSE, generation)), generation)
    BY <1>2, <2>1, RequestPosted, PostingKeeps
  <2> QED
    BY <1>1, <1>2, <2>2, KeepsSelf DEF on_transaction_timeout
<1>8. GemTypes' /\ open_requests_' = open_requests_ \ {s}
  BY <1>1, <1>2 DEF on_transaction_timeout, GemTypes
<1>9. Open \intersect open_requests_ \subseteq open_requests_'
  BY <1>1, <1>8 DEF ServerInv, AnswersClosed
<1> QED
  BY <1>3, <1>4, <1>6, <1>7, <1>8, <1>9, QueueStepKeeps

\* apply() hands over to its caller, with nothing left to deliver.
LEMMA AppliedOutput ==
    ASSUME ServerInv, io.at = "deliver", OutputOnly(NoOutput), io' = AtRest
    PROVE  /\ LinkInv' /\ out' \in Outputs /\ AnswersClosed' /\ Open' = Open
           /\ state' = state /\ call' = "none"
           /\ io' \in Stages /\ io'.at = "rest" /\ io'.then = "none"
<1>1. UNCHANGED linkVars /\ out' = NoOutput /\ state' = state /\ call' = call
      /\ transactions_' = transactions_
  BY DEF OutputOnly, linkVars
<1>2. LinkInv'
  BY <1>1, LinkUnchanged DEF ServerInv
<1>3. out' \in Outputs /\ AnswersClosed'
  BY <1>1, NoOutputIs DEF AnswersClosed
<1>4. call' = "none"
  BY <1>1 DEF ServerInv, StagesFollowSession, LinkInv, SessionTypeOK
<1>5. io' \in Stages /\ io'.at = "rest" /\ io'.then = "none"
  BY DEF AtRest, Stages
<1>6. Open' = Open
  BY <1>1 DEF Open
<1> QED
  BY <1>1, <1>2, <1>3, <1>4, <1>5, <1>6

LEMMA ApplyClosesKeeps == ServerInv /\ ApplyCloses => ServerInv'
<1> SUFFICES ASSUME ServerInv, ApplyCloses PROVE ServerInv'
  OBVIOUS
<1>1. io.at = "deliver" /\ out.close /\ io' = AtRest /\ OutputOnly(NoOutput)
      /\ UNCHANGED <<ready, reads, writes>> /\ DropsConnection /\ notify_state(state)
  BY DEF ApplyCloses, Applied
<1>2. state = "NotConnected" /\ socket
  BY <1>1 DEF ServerInv, StagesFollowSession
<1>3. Open = {}
  BY <1>2 DEF ServerInv, LinkInv, TimersFollowState
<1>4. /\ LinkInv' /\ out' \in Outputs /\ Open' = Open /\ state' = state /\ call' = "none"
      /\ io' \in Stages /\ io'.at = "rest"
  BY <1>1, AppliedOutput
<1>5. GemTypes'
  BY <1>1, NotifyEffect DEF ServerInv, ServerTypes
<1>6. /\ ready' \in Seq(Work) /\ ReadsUpTo(ready', generation) /\ reads' \subseteq 0..generation
      /\ WritesUpTo(writes', generation)
  BY <1>1 DEF ServerInv, ServerTypes
<1> QED
  BY <1>1, <1>2, <1>3, <1>4, <1>5, <1>6, DropKeeps

LEMMA ApplyReturnsKeeps == ServerInv /\ ApplyReturns => ServerInv'
<1> SUFFICES ASSUME ServerInv, ApplyReturns PROVE ServerInv'
  OBVIOUS
<1>1. /\ io.at = "deliver" /\ ~out.close /\ io' = AtRest /\ OutputOnly(NoOutput)
      /\ UNCHANGED <<ready, socket, generation, write_queue, writing, writes>>
      /\ reads' = IF io.then = "read" THEN reads \union {generation} ELSE reads
  BY DEF ApplyReturns, Applied
<1>2. /\ LinkInv' /\ out' \in Outputs /\ AnswersClosed' /\ Open' = Open /\ state' = state
      /\ call' = "none" /\ io' \in Stages /\ io'.at = "rest" /\ io'.then = "none"
  BY <1>1, AppliedOutput
<1>3. state # "NotConnected" /\ socket
  BY <1>1 DEF ServerInv, StagesFollowSession
<1>4. GemTypes' /\ Open \subseteq open_requests_'
  <2>1. CASE io.then = "request" /\ io.w /\ out.to_send # <<>>
    <3>1. on_sent(out.to_send[1].system)
      BY <2>1 DEF ApplyReturns
    <3> QED
      BY <1>1, <2>1, <3>1 DEF ServerInv, ServerTypes, GemTypes, on_sent, RequestsKnown, JustSent
  <2>2. CASE ~(io.then = "request" /\ io.w /\ out.to_send # <<>>)
    <3>1. notify_state(state)
      BY <2>2 DEF ApplyReturns
    <3>2. GemTypes' /\ (state = "Selected" => open_requests_' = open_requests_)
      BY <3>1, NotifyEffect DEF ServerInv, ServerTypes
    <3>3. Open # {} => state = "Selected"
      BY DEF ServerInv, LinkInv, TimersFollowState
    <3>4. Open \subseteq open_requests_
      BY <2>2 DEF ServerInv, RequestsKnown, JustSent
    <3> QED
      BY <3>2, <3>3, <3>4
  <2> QED
    BY <2>1, <2>2
<1>5. ServerTypes'
  <2>1. reads' \subseteq 0..generation
    BY <1>1 DEF ServerInv, ServerTypes
  <2> QED
    BY <1>1, <1>2, <1>4, <2>1 DEF ServerInv, ServerTypes
<1>6. StagesFollowSession'
  BY <1>1, <1>2, <1>3 DEF StagesFollowSession
<1>7. ReadUnderWay'
  <2>1. CASE io.then = "read"
    BY <1>1, <1>2, <1>3, <2>1 DEF ServerInv, ReadUnderWay
  <2>2. CASE io.then # "read"
    BY <1>1, <1>2, <1>3, <2>2 DEF ServerInv, ReadUnderWay
  <2> QED
    BY <2>1, <2>2
<1>8. WriteUnderWay'
  BY <1>1, <1>2 DEF ServerInv, WriteUnderWay
<1>9. StaleWorkFirst'
  BY <1>1, <1>2 DEF ServerInv, StaleWorkFirst
<1>10. MessagesStayInConnection'
  BY <1>1 DEF ServerInv, MessagesStayInConnection
<1>11. RequestsKnown'
  BY <1>2, <1>4 DEF RequestsKnown
<1>12. GenerationBounded'
  BY <1>1 DEF ServerInv, GenerationBounded
<1> QED
  BY <1>2, <1>5, <1>6, <1>7, <1>8, <1>9, <1>10, <1>11, <1>12 DEF ServerInv

LEMMA HandleAcceptKeeps == ServerInv /\ HandleAccept => ServerInv'
<1> SUFFICES ASSUME ServerInv, HandleAccept PROVE ServerInv'
  OBVIOUS
<1>1. /\ io.at = "rest" /\ ~socket /\ socket' = TRUE /\ generation' = generation + 1
      /\ reads' = reads \union {generation + 1} /\ notify_state("NotSelected")
      /\ UNCHANGED <<ready, write_queue, writing, writes, io>>
  BY DEF HandleAccept, Resting
<1>2. /\ generation \in Nat /\ ready \in Seq(Work) /\ ReadsUpTo(ready, generation)
      /\ WritesUpTo(writes, generation) /\ reads \subseteq 0..generation
  BY DEF ServerInv, ServerTypes
<1>3. /\ state' = "NotSelected" /\ call' = "none" /\ out' = NoOutput /\ transactions_' = Closed
  BY DEF HandleAccept, on_connect, reset_link_state
<1>4. LinkInv'
  BY ConnectKeepsLink DEF ServerInv, HandleAccept
<1>5. Open' = {} /\ out' \in Outputs
  BY <1>3, TableClears, NoOutputIs
<1>6. /\ ReadsUpTo(ready, generation') /\ NoReadIn(ready, generation')
      /\ StaleBeforeRead(ready, generation')
  BY <1>1, <1>2, NewConnectionQueue
<1>7. GenerationBounded' /\ WritesUpTo(writes, generation') /\ writes[generation'] = 0
  <2>1. GenerationBounded' /\ generation \in Generations
    BY <1>1, <1>2, ServerAssumption DEF HandleAccept, ServerInv, GenerationBounded, Generations
  <2> QED
    BY <1>1, <1>2, <2>1, NewConnectionWrites DEF GenerationBounded
<1>8. ServerTypes'
  <2>1. generation' \in Nat /\ reads' \subseteq 0..generation'
    BY <1>1, <1>2
  <2>2. GemTypes'
    BY <1>1, NotifyEffect DEF ServerInv, ServerTypes
  <2>3. socket' \in BOOLEAN /\ writing' \in BOOLEAN /\ write_queue' \in Seq(Nat) /\ io' \in Stages
    BY <1>1 DEF ServerInv, ServerTypes
  <2> QED
    BY <1>1, <1>2, <1>5, <1>6, <1>7, <2>1, <2>2, <2>3 DEF ServerTypes
<1>9. StagesFollowSession'
  BY <1>1, <1>3 DEF StagesFollowSession
<1>10. ReadUnderWay'
  BY <1>1, <1>6 DEF ReadUnderWay
<1>11. ~writing /\ write_queue = <<>>
  BY <1>1 DEF ServerInv, WriteUnderWay
<1>12. WriteUnderWay'
  BY <1>1, <1>7, <1>11 DEF WriteUnderWay
<1>13. StaleWorkFirst'
  BY <1>1, <1>3, <1>6 DEF StaleWorkFirst
<1>14. MessagesStayInConnection'
  BY <1>1, <1>11 DEF MessagesStayInConnection
<1>15. AnswersClosed' /\ RequestsKnown'
  BY <1>5 DEF AnswersClosed, RequestsKnown
<1> QED
  BY <1>4, <1>7, <1>8, <1>9, <1>10, <1>12, <1>13, <1>14, <1>15 DEF ServerInv

LEMMA HandleStopKeeps == ServerInv /\ HandleStop => ServerInv'
<1> SUFFICES ASSUME ServerInv, HandleStop PROVE ServerInv'
  OBVIOUS
<1>1. Resting /\ close_socket /\ ready' = <<>> /\ reads' = {} /\ writes' = NoWrites
      /\ io' = [AtRest EXCEPT !.at = "stopped"]
  BY DEF HandleStop
<1>2. io' \in Stages /\ io'.at = "stopped"
  BY <1>1 DEF AtRest, Stages
<1>3. ready' \in Seq(Work) /\ ReadsUpTo(ready', generation)
  BY <1>1, EmptyIsSeq DEF ReadsUpTo
<1>4. reads' \subseteq 0..generation /\ WritesUpTo(writes', generation)
  BY <1>1, NoneInFlight DEF ServerInv, GenerationBounded
<1> QED
  BY <1>1, <1>2, <1>3, <1>4, CloseKeeps

LEMMA ReadCompletesKeeps ==
    ASSUME ServerInv, NEW g \in reads, NEW ok \in BOOLEAN, ReadCompletes(g, ok)
    PROVE  ServerInv'
<1> DEFINE x == [kind |-> "read", gen |-> g, ok |-> ok]
<1>1. /\ UNCHANGED <<linkVars, gemVars, out, socket, generation, write_queue, writing, writes, io>>
      /\ reads' = reads \ {g} /\ ready' = Append(ready, x)
  BY DEF ReadCompletes, sessionVars, linkVars, timerVars
<1>2. /\ ready \in Seq(Work) /\ generation \in Nat /\ g \in 0..generation
      /\ ReadsUpTo(ready, generation)
  BY DEF ServerInv, ServerTypes
<1>3. x \in Work /\ x.kind = "read" /\ x.gen = g /\ g <= generation
  BY <1>2, SMTT(20) DEF Work
<1> HIDE DEF x
<1>4. /\ ready' \in Seq(Work) /\ ReadsUpTo(ready', generation)
      /\ NoReadIn(ready, generation) => IF g = generation THEN OneReadIn(ready', generation)
                                        ELSE NoReadIn(ready', generation)
      /\ OneReadIn(ready, generation) /\ g # generation => OneReadIn(ready', generation)
      /\ NoStaleIn(ready, generation) => NoStaleIn(ready', generation)
      /\ StaleBeforeRead(ready, generation) => StaleBeforeRead(ready', generation)
  BY <1>1, <1>2, <1>3, CompletingKeeps
<1>5. LinkInv' /\ Open' = Open /\ state' = state /\ call' = call
  BY <1>1, LinkUnchanged DEF ServerInv, linkVars, Open
<1>6. ServerTypes'
  BY <1>1, <1>4 DEF ServerInv, ServerTypes, GemTypes, gemVars
<1>7. StagesFollowSession'
  BY <1>1, <1>5 DEF ServerInv, StagesFollowSession
<1>8. ReadUnderWay'
  <2>1. CASE g = generation
    BY <1>1, <1>4, <2>1 DEF ServerInv, ReadUnderWay
  <2>2. CASE g # generation
    BY <1>1, <1>4, <2>2 DEF ServerInv, ReadUnderWay
  <2> QED
    BY <2>1, <2>2
<1>9. WriteUnderWay'
  BY <1>1 DEF ServerInv, WriteUnderWay
<1>10. StaleWorkFirst'
  BY <1>1, <1>4, <1>5 DEF ServerInv, StaleWorkFirst
<1>11. MessagesStayInConnection'
  BY <1>1 DEF ServerInv, MessagesStayInConnection
<1>12. AnswersClosed' /\ RequestsKnown'
  BY <1>1, <1>5 DEF ServerInv, AnswersClosed, RequestsKnown, JustSent, gemVars
<1>13. GenerationBounded'
  BY <1>1 DEF ServerInv, GenerationBounded
<1> QED
  BY <1>5, <1>6, <1>7, <1>8, <1>9, <1>10, <1>11, <1>12, <1>13 DEF ServerInv

\* The completion of a write leaves all but the writing as it is.
LEMMA WriteStepKeeps ==
    ASSUME ServerInv, UNCHANGED <<sessionVars, gemVars, ready, socket, generation,
                                  notified_state, reads, io>>,
           WritesUpTo(writes', generation), writing' \in BOOLEAN, write_queue' \in Seq(Nat),
           WriteUnderWay', MessagesStayInConnection'
    PROVE  ServerInv'
<1>1. UNCHANGED <<linkVars, out, state, call, transactions_>>
  BY DEF sessionVars, linkVars, timerVars
<1>2. LinkInv' /\ Open' = Open
  BY <1>1, LinkUnchanged DEF ServerInv, Open
<1>3. ServerTypes'
  BY <1>1 DEF ServerInv, ServerTypes, GemTypes, gemVars
<1>4. StagesFollowSession' /\ ReadUnderWay' /\ StaleWorkFirst'
  BY <1>1 DEF ServerInv, StagesFollowSession, ReadUnderWay, StaleWorkFirst
<1>5. AnswersClosed' /\ RequestsKnown'
  BY <1>1, <1>2 DEF ServerInv, AnswersClosed, RequestsKnown, JustSent, gemVars
<1>6. GenerationBounded'
  BY DEF ServerInv, GenerationBounded
<1> QED
  BY <1>2, <1>3, <1>4, <1>5, <1>6 DEF ServerInv

LEMMA StaleWriteKeeps ==
    ASSUME ServerInv, NEW g \in Generations, writes[g] > 0, StaleWrite(g)
    PROVE  ServerInv'
<1>1. /\ g # generation /\ writes' = [writes EXCEPT ![g] = @ - 1]
      /\ UNCHANGED <<sessionVars, gemVars, ready, socket, generation, write_queue, writing,
                     notified_state, reads, io>>
  BY DEF StaleWrite
<1>2. generation \in Generations /\ WritesUpTo(writes, generation)
  BY DEF ServerInv, ServerTypes, GenerationBounded
<1>3. WritesUpTo(writes', generation) /\ writes'[generation] = writes[generation]
  BY <1>1, <1>2, WriteEnds
<1>4. WriteUnderWay' /\ MessagesStayInConnection'
  <2>1. out' = out
    BY <1>1 DEF sessionVars
  <2> QED
    BY <1>1, <1>3, <2>1 DEF ServerInv, WriteUnderWay, MessagesStayInConnection
<1>5. writing' \in BOOLEAN /\ write_queue' \in Seq(Nat)
  BY <1>1 DEF ServerInv, ServerTypes
<1> QED
  BY <1>1, <1>3, <1>4, <1>5, WriteStepKeeps

LEMMA WriteFailsKeeps ==
    ASSUME ServerInv, NEW g \in Generations, writes[g] > 0, WriteFails(g)
    PROVE  ServerInv'
<1>1. /\ Resting /\ g = generation /\ close_socket /\ writes' = [writes EXCEPT ![g] = @ - 1]
      /\ UNCHANGED <<ready, reads, io>>
  BY DEF WriteFails
<1>2. WritesUpTo(writes', generation)
  BY <1>1, WriteEnds DEF ServerInv, ServerTypes, GenerationBounded
<1>3. /\ ready' \in Seq(Work) /\ ReadsUpTo(ready', generation) /\ reads' \subseteq 0..generation
      /\ io' \in Stages /\ io'.at = "rest"
  BY <1>1 DEF ServerInv, ServerTypes, Resting
<1>4. socket
  BY <1>1 DEF ServerInv, WriteUnderWay
<1> QED
  BY <1>1, <1>2, <1>3, <1>4, CloseKeeps

LEMMA HandleWriteKeeps ==
    ASSUME ServerInv, NEW g \in Generations, writes[g] > 0, HandleWrite(g)
    PROVE  ServerInv'
<1> DEFINE others == [writes EXCEPT ![g] = @ - 1]
<1>1. /\ io.at = "rest" /\ g = generation /\ write_queue' = Tail(write_queue)
      /\ write_next(write_queue', others)
      /\ UNCHANGED <<sessionVars, gemVars, ready, socket, generation, notified_state, reads, io>>
  BY DEF HandleWrite, Resting
<1>2. generation \in Generations /\ WritesUpTo(writes, generation) /\ write_queue \in Seq(Nat)
  BY DEF ServerInv, ServerTypes, GenerationBounded
<1>3. WritesUpTo(others, generation) /\ others[generation] = writes[generation] - 1
  BY <1>1, <1>2, WriteEnds
<1>4. writes[generation] = 1 /\ writing /\ socket /\ write_queue # <<>>
  BY <1>1 DEF ServerInv, WriteUnderWay
<1> HIDE DEF others
<1>5. others[generation] = 0
  BY <1>3, <1>4, SMTT(20)
<1>6. /\ write_queue' \in Seq(Nat)
      /\ \A i \in DOMAIN write_queue' :
             i + 1 \in DOMAIN write_queue /\ write_queue'[i] = write_queue[i + 1]
  <2>1. /\ write_queue' \in Seq(Nat) /\ Len(write_queue) \in Nat
        /\ Len(write_queue') = Len(write_queue) - 1 /\ Len(write_queue) >= 1
        /\ \A i \in 1..Len(write_queue') : write_queue'[i] = write_queue[i + 1]
    BY <1>1, <1>2, <1>4, TailOfSeq
  <2>2. DOMAIN write_queue' = 1..Len(write_queue') /\ DOMAIN write_queue = 1..Len(write_queue)
    BY <1>2, <2>1
  <2> QED
    BY <2>1, <2>2
<1>7. MessagesStayInConnection'
  BY <1>1, <1>6 DEF ServerInv, MessagesStayInConnection
<1>8. CASE write_queue' # <<>>
  <2>1. writing' = TRUE /\ writes' = [others EXCEPT ![generation] = @ + 1]
    BY <1>1, <1>4, <1>8 DEF write_next
  <2>2. WritesUpTo(writes', generation) /\ writes'[generation] = 1
    <3>1. WritesUpTo(writes', generation) /\ writes'[generation] = others[generation] + 1
      BY <1>2, <1>3, <2>1, WriteBegins
    <3> QED
      BY <1>5, <3>1
  <2>3. WriteUnderWay'
    BY <1>1, <1>4, <1>8, <2>1, <2>2 DEF WriteUnderWay
  <2> QED
    BY <1>1, <1>6, <1>7, <2>1, <2>2, <2>3, WriteStepKeeps
<1>9. CASE write_queue' = <<>>
  <2>1. writing' = FALSE /\ writes' = others
    BY <1>1, <1>9 DEF write_next
  <2>2. WriteUnderWay'
    BY <1>1, <1>5, <1>9, <2>1 DEF WriteUnderWay
  <2> QED
    BY <1>1, <1>3, <1>6, <1>7, <2>1, <2>2, WriteStepKeeps
<1> QED
  BY <1>8, <1>9

LEMMA TimePassesKeeps == ServerInv /\ TimePasses => ServerInv'
<1> SUFFICES ASSUME ServerInv, TimePasses PROVE ServerInv'
  OBVIOUS
<1>1. Elapse /\ UNCHANGED <<gemVars, ready, serverVars>>
  BY DEF TimePasses
<1>2. LinkInv'
  BY <1>1, ElapseKeepsLink DEF ServerInv
<1>3. UNCHANGED <<state, call, out>>
  BY <1>1 DEF Elapse
<1>4. Open' = Open
  <2> DEFINE Left(t) == IF t > 0 THEN t - 1 ELSE t
  <2>1. transactions_' = [s \in Systems |-> Left(transactions_[s])]
    BY <1>1 DEF Elapse
  <2>2. \A t \in Timer(T3) : Left(t) = Stopped <=> t = Stopped
    BY Constants DEF Timer, Stopped
  <2>3. \A s \in Systems : transactions_[s] \in Timer(T3)
    BY DEF ServerInv, LinkInv, SessionTypeOK
  <2>4. \A s \in Systems : transactions_'[s] = Stopped <=> transactions_[s] = Stopped
    BY <2>1, <2>2, <2>3
  <2> QED
    BY <2>4 DEF Open
<1>5. UNCHANGED <<socket, generation, write_queue, writing, reads, writes, io>>
  BY <1>1 DEF serverVars
<1>6. ServerTypes'
  BY <1>1, <1>3, <1>5 DEF ServerInv, ServerTypes, GemTypes, gemVars
<1>7. StagesFollowSession' /\ StaleWorkFirst'
  BY <1>1, <1>3, <1>5 DEF ServerInv, StagesFollowSession, StaleWorkFirst
<1>8. ReadUnderWay'
  BY <1>1, <1>5 DEF ServerInv, ReadUnderWay
<1>9. WriteUnderWay' /\ MessagesStayInConnection'
  BY <1>3, <1>5 DEF ServerInv, WriteUnderWay, MessagesStayInConnection
<1>10. AnswersClosed' /\ RequestsKnown'
  BY <1>1, <1>3, <1>4, <1>5 DEF ServerInv, AnswersClosed, RequestsKnown, JustSent, gemVars
<1>11. GenerationBounded'
  BY <1>5 DEF ServerInv, GenerationBounded
<1> QED
  BY <1>2, <1>6, <1>7, <1>8, <1>9, <1>10, <1>11 DEF ServerInv

-----------------------------------------------------------------------------
(* The theorems. *)

LEMMA ServerInitially == Init => ServerInv
<1> SUFFICES ASSUME Init PROVE ServerInv
  OBVIOUS
<1>1. /\ ready = <<>> /\ socket = FALSE /\ generation = 0 /\ write_queue = <<>> /\ writing = FALSE
      /\ reads = {} /\ writes = NoWrites /\ io = AtRest
      /\ state = "NotConnected" /\ call = "none" /\ out = NoOutput
  BY DEF Init, SessionInit
<1>2. LinkInv
  BY LinkInitially DEF Init
<1>3. Open = {}
  BY DEF Init, SessionInit, Open, Closed
<1>4. io \in Stages /\ io.at = "rest"
  BY <1>1 DEF AtRest, Stages
<1>5. GenerationBounded /\ WritesUpTo(writes, generation) /\ writes[generation] = 0
  <2>1. GenerationBounded
    BY <1>1, ServerAssumption DEF GenerationBounded, Generations
  <2> QED
    BY <1>1, <2>1, NoneInFlight DEF GenerationBounded
<1>6. ServerTypes
  <2>1. ready \in Seq(Work) /\ write_queue \in Seq(Nat) /\ ReadsUpTo(ready, generation)
    BY <1>1, EmptyIsSeq DEF ReadsUpTo
  <2>2. out \in Outputs
    BY <1>1, NoOutputIs
  <2>3. GemTypes
    BY DEF Init, GemInit, GemTypes, ControlModes
  <2>4. reads \subseteq 0..generation /\ generation \in Nat
    BY <1>1
  <2>5. socket \in BOOLEAN /\ writing \in BOOLEAN
    BY <1>1
  <2> QED
    BY <1>4, <1>5, <2>1, <2>2, <2>3, <2>4, <2>5 DEF ServerTypes
<1>7. StagesFollowSession
  BY <1>1, <1>4 DEF StagesFollowSession
<1>8. ReadUnderWay /\ StaleWorkFirst
  BY <1>1, <1>4 DEF ReadUnderWay, NoReadIn, StaleWorkFirst, StaleBeforeRead
<1>9. WriteUnderWay
  BY <1>1, <1>5 DEF WriteUnderWay
<1>10. MessagesStayInConnection /\ AnswersClosed /\ RequestsKnown
  BY <1>1, <1>3, NoOutputIs DEF MessagesStayInConnection, AnswersClosed, RequestsKnown
<1> QED
  BY <1>2, <1>5, <1>6, <1>7, <1>8, <1>9, <1>10 DEF ServerInv

LEMMA ServerUnchanged == ServerInv /\ UNCHANGED vars => ServerInv'
<1> SUFFICES ASSUME ServerInv, UNCHANGED vars PROVE ServerInv'
  OBVIOUS
<1>1. UNCHANGED <<sessionVars, gemVars, serverVars>> /\ ready' = ready
  BY DEF vars
<1>2. QueueKeeps(ready, ready', generation)
  BY <1>1, KeepsSelf DEF ServerInv, ServerTypes
<1> QED
  BY <1>1, <1>2, IdleStepKeeps

LEMMA ServerStep == ServerInv /\ [Next]_vars => ServerInv'
<1> SUFFICES ASSUME ServerInv, [Next]_vars PROVE ServerInv'
  OBVIOUS
<1>1. CASE IoStep
  BY <1>1, StaleReadKeeps, ReadFailsKeeps, HandleReadKeeps, ReadGoesOnKeeps, HandleRequestKeeps,
     HandleReplyKeeps, HandleTaskKeeps, ApplyDeliversKeeps, ApplyTimesOutKeeps, ApplyClosesKeeps,
     ApplyReturnsKeeps DEF IoStep
<1>2. CASE Environment
  BY <1>2, HandleAcceptKeeps, HandleStopKeeps, ReadCompletesKeeps, StaleWriteKeeps,
     WriteFailsKeeps, HandleWriteKeeps DEF Environment
<1>3. CASE HandleTick
  BY <1>3, HandleTickKeeps
<1>4. CASE Publishes
  BY <1>4, PublishesKeeps
<1>5. CASE TimePasses
  BY <1>5, TimePassesKeeps
<1>6. CASE Finished \/ UNCHANGED vars
  BY <1>6, ServerUnchanged DEF Finished
<1> QED
  BY <1>1, <1>2, <1>3, <1>4, <1>5, <1>6 DEF Next

LEMMA ServerInvHolds == Spec => []ServerInv
  BY ServerInitially, ServerStep, PTL DEF Spec

\* What a host is sent was decided on for its own connection: work posted before a
\* connection ended finds the session of the next one not yet selected.
THEOREM MessagesAlwaysStayInConnection == Spec => []MessagesStayInConnection
<1>1. ServerInv => MessagesStayInConnection
  BY DEF ServerInv
<1> QED
  BY <1>1, ServerInvHolds, PTL

\* Between handlers the service knows every request that the session waits for.
THEOREM OpenRequestsAlwaysKnown == Spec => []OpenRequestsKnown
<1>1. ServerInv => OpenRequestsKnown
  BY DEF ServerInv, RequestsKnown, JustSent, OpenRequestsKnown, Resting
<1> QED
  BY <1>1, ServerInvHolds, PTL

-----------------------------------------------------------------------------
(* What needs the cardinality of finite sets. *)

INSTANCE FiniteSetTheorems

\* Between handlers every connection has exactly one read under way and, when there is
\* something to write, exactly one write: close_socket(), stale completions and apply()'s
\* nested deliveries neither lose one nor start a second.
THEOREM AlwaysOneReadOneWrite == Spec => []OneReadOneWrite
<1>1. ServerInv => OneReadOneWrite
  <2> SUFFICES ASSUME ServerInv, Resting PROVE OneReadOneWrite
    BY DEF OneReadOneWrite
  <2> DEFINE Completed == {i \in DOMAIN ready : ready[i].kind = "read" /\ ready[i].gen = generation}
  <2>1. io.at = "rest"
    BY DEF Resting
  <2>2. Cardinality(reads \intersect {generation}) + Cardinality(Completed) = IF socket THEN 1 ELSE 0
    <3>1. CASE socket /\ generation \in reads /\ NoReadIn(ready, generation)
      <4>1. reads \intersect {generation} = {generation} /\ Completed = {}
        BY <3>1 DEF NoReadIn, ReadAt
      <4>2. Cardinality(reads \intersect {generation}) = 1 /\ Cardinality(Completed) = 0
        BY <4>1, FS_Singleton, FS_EmptySet
      <4> HIDE DEF Completed
      <4> QED
        BY <3>1, <4>2
    <3>2. CASE socket /\ generation \notin reads /\ OneReadIn(ready, generation)
      <4>1. PICK i \in DOMAIN ready : \A j \in DOMAIN ready : ReadAt(ready, generation, j) <=> j = i
        BY <3>2 DEF OneReadIn
      <4>2. reads \intersect {generation} = {} /\ Completed = {i}
        BY <3>2, <4>1 DEF ReadAt
      <4>3. Cardinality(reads \intersect {generation}) = 0 /\ Cardinality(Completed) = 1
        BY <4>2, FS_Singleton, FS_EmptySet
      <4> HIDE DEF Completed
      <4> QED
        BY <3>2, <4>3
    <3>3. CASE ~socket /\ generation \notin reads /\ NoReadIn(ready, generation)
      <4>1. reads \intersect {generation} = {} /\ Completed = {}
        BY <3>3 DEF NoReadIn, ReadAt
      <4>2. Cardinality(reads \intersect {generation}) = 0 /\ Cardinality(Completed) = 0
        BY <4>1, FS_EmptySet
      <4> HIDE DEF Completed
      <4> QED
        BY <3>3, <4>2
    <3> QED
      BY <2>1, <3>1, <3>2, <3>3 DEF ServerInv, ReadUnderWay
  <2>3. writes[generation] = IF write_queue # <<>> THEN 1 ELSE 0
    BY <2>1 DEF ServerInv, WriteUnderWay
  <2>4. socket <=> state # "NotConnected"
    BY <2>1 DEF ServerInv, StagesFollowSession
  <2> QED
    BY <2>2, <2>3, <2>4 DEF OneReadOneWrite
<1> QED
  BY <1>1, ServerInvHolds, PTL

-----------------------------------------------------------------------------
(* The numbers of what is open differ. *)

NumbersInv == LinkInv /\ NumbersDiffer

LEMMA OpenFinite == IsFiniteSet(Open)
<1>1. IsFiniteSet(Systems)
  BY Constants, FS_Interval DEF Systems
<1> QED BY <1>1, FS_Subset DEF Open

LEMMA NumbersInitially == SessionInit => NumbersInv
<1> SUFFICES ASSUME SessionInit PROVE NumbersInv OBVIOUS
<1>1. Open = {}
  BY DEF SessionInit, Open, Closed
<1> QED BY <1>1, LinkInitially, FS_EmptySet, Constants DEF NumbersInv, NumbersDiffer

\* Nothing goes wrong while nothing is opened.
LEMMA ClosingKeepsNumbers ==
  ASSUME NumbersInv, Open' \subseteq Open, pending_linktest_' \in {0, pending_linktest_}
  PROVE  NumbersDiffer'
<1>1. 0 \notin Open'
  BY DEF Open, Systems
<1>2. Cardinality(Open') <= Cardinality(Open)
  BY OpenFinite, FS_Subset
<1>3. Cardinality(Open') \in Nat /\ Cardinality(Open) \in Nat
  BY OpenFinite, FS_Subset, FS_CardinalityType
<1> QED BY <1>1, <1>2, <1>3, Constants, SMTT(20) DEF NumbersInv, NumbersDiffer

\* A new request has a number of its own, and there was room for it.
LEMMA SendKeepsNumbers ==
  ASSUME NumbersInv, NEW w \in BOOLEAN, NEW fits \in BOOLEAN, send_request(w, fits)
  PROVE  NumbersDiffer'
<1>1. pending_linktest_' = pending_linktest_
  BY DEF send_request
<1>2. CASE transactions_' = transactions_
  BY <1>1, <1>2, ClosingKeepsNumbers DEF Open
<1>3. CASE transactions_' # transactions_
  <2>1. w /\ Cardinality(Open) < MaxOpen
    BY <1>3 DEF send_request
  <2>2. PICK s \in Systems : /\ Allocates(s, InUse({}))
                             /\ transactions_' = [transactions_ EXCEPT ![s] = T3]
    BY <1>3, <2>1 DEF send_request
  <2>3. s \notin Open /\ s # pending_linktest_
    BY <2>2 DEF Allocates, InUse
  <2>4. Open' = Open \union {s}
    BY <2>2, TableAdds DEF NumbersInv, LinkInv, SessionTypeOK
  <2>5. Cardinality(Open') = Cardinality(Open) + 1
    BY <2>3, <2>4, OpenFinite, FS_AddElement
  <2>6. Cardinality(Open) \in Nat
    BY OpenFinite, FS_CardinalityType
  <2> QED BY <1>1, <2>1, <2>3, <2>4, <2>5, <2>6, Constants DEF NumbersInv, NumbersDiffer
<1> QED BY <1>2, <1>3

\* A linktest takes a number that no request still open has.
LEMMA TickKeepsNumbers == NumbersInv /\ TickGoesOn => NumbersDiffer'
<1> SUFFICES ASSUME NumbersInv, TickGoesOn PROVE NumbersDiffer' OBVIOUS
<1> DEFINE expired == {s \in Open : transactions_[s] = 0}
<1>1. transactions_' = [s \in Systems |-> IF s \in expired THEN Stopped ELSE transactions_[s]]
  BY DEF TickGoesOn
<1>2. Open' = Open \ expired
  BY <1>1, TableForgets DEF NumbersInv, LinkInv, SessionTypeOK
<1>3. CASE UNCHANGED pending_linktest_
  BY <1>2, <1>3, ClosingKeepsNumbers
<1>4. CASE ~UNCHANGED pending_linktest_
  <2>1. PICK s \in Systems : Allocates(s, InUse(expired)) /\ pending_linktest_' = s
    BY <1>4 DEF TickGoesOn
  <2>2. pending_linktest_' \notin Open'
    BY <1>2, <2>1 DEF Allocates, InUse
  <2>3. Cardinality(Open') <= Cardinality(Open)
    BY <1>2, OpenFinite, FS_Subset
  <2>4. Cardinality(Open') \in Nat /\ Cardinality(Open) \in Nat
    BY <1>2, OpenFinite, FS_Subset, FS_CardinalityType
  <2> QED BY <2>2, <2>3, <2>4, Constants DEF NumbersInv, NumbersDiffer
<1> QED BY <1>3, <1>4

\* Frames only close.
LEMMA FrameKeepsNumbers ==
  ASSUME NumbersInv, NEW f \in Frames, handle_frame(f)
  PROVE  NumbersDiffer'
<1>1. transactions_ \in [Systems -> Timer(T3)]
  BY DEF NumbersInv, LinkInv, SessionTypeOK
<1>2. Open' \subseteq Open
  <2>1. CASE transactions_' = transactions_
    BY <2>1 DEF Open
  <2>2. CASE transactions_' = Closed
    BY <2>2, TableClears
  <2>3. CASE f.system \in Open /\ transactions_' = [transactions_ EXCEPT ![f.system] = Stopped]
    BY <1>1, <2>3, TableErases DEF Open
  <2> QED BY <2>1, <2>2, <2>3
          DEF handle_frame, RejectsFrame, TakesData, TakesSelect, TakesDeselect, AnswersLinktest,
              TakesLinktestRsp, TakesReject, TakesSeparate, close_connection, Disconnects,
              reset_link_state
<1>3. pending_linktest_' \in {0, pending_linktest_}
  BY DEF handle_frame, RejectsFrame, TakesData, TakesSelect, TakesDeselect, AnswersLinktest,
         TakesLinktestRsp, TakesReject, EndsLinktest, TakesSeparate, close_connection,
         Disconnects, reset_link_state
<1> QED BY <1>2, <1>3, ClosingKeepsNumbers

LEMMA NumbersStep == NumbersInv /\ [SessionNext]_sessionVars => NumbersInv'
<1> SUFFICES ASSUME NumbersInv, [SessionNext]_sessionVars PROVE NumbersDiffer'
  BY LinkStep DEF NumbersInv
<1>1. CASE on_connect \/ FramingError \/ TickCloses \/ (on_disconnect /\ state # "NotConnected")
  <2>1. transactions_' = Closed /\ pending_linktest_' = 0
    BY <1>1 DEF on_connect, FramingError, TickCloses, on_disconnect, Disconnects, reset_link_state
  <2> QED BY <2>1, TableClears, ClosingKeepsNumbers
<1>2. CASE UNCHANGED <<transactions_, pending_linktest_>>
  BY <1>2, ClosingKeepsNumbers DEF Open
<1>3. CASE BytesArrive \/ (\E rest \in BOOLEAN : BytesEnd(rest)) \/ UNCHANGED sessionVars
           \/ (on_disconnect /\ state = "NotConnected")
           \/ (\E system \in 0..SystemModulus - 1, fits \in BOOLEAN : send_reply(system, fits))
  BY <1>2, <1>3 DEF BytesArrive, BytesEnd, on_disconnect, send_reply, sessionVars
<1>4. CASE \E f \in Frames : handle_frame(f)
  BY <1>4, FrameKeepsNumbers
<1>5. CASE TickGoesOn
  BY <1>5, TickKeepsNumbers
<1>6. CASE \E w, fits \in BOOLEAN : send_request(w, fits)
  BY <1>6, SendKeepsNumbers
<1>7. CASE Elapse
  <2>1. Open' = Open /\ UNCHANGED pending_linktest_
    BY <1>7, Constants, SMTT(20) DEF Elapse, NumbersInv, LinkInv, SessionTypeOK, Open, Timer, Stopped
  <2> QED BY <2>1, ClosingKeepsNumbers
<1>8. \A stype \in STypes, system \in 0..SystemModulus - 1, primary \in BOOLEAN :
           [stype |-> stype, system |-> system, primary |-> primary] \in Frames
  BY DEF Frames
<1> QED BY <1>1, <1>3, <1>4, <1>5, <1>6, <1>7, <1>8 DEF SessionNext

(* FR-HSMS-5: whatever has been opened, answered, refused or timed out, and
   however often the counter has wrapped, the numbers of the open requests and of
   the linktest differ, and the open requests stay within their bound. *)
THEOREM NumbersAlwaysDiffer == SessionSpec => []NumbersDiffer
<1>1. NumbersInv => NumbersDiffer
  BY DEF NumbersInv
<1> QED BY NumbersInitially, NumbersStep, <1>1, PTL DEF SessionSpec
=============================================================================
