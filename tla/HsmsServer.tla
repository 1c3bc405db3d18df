----------------------------- MODULE HsmsServer -----------------------------
(***************************************************************************)
(* The HSMS server (secsgem/hsms/server) with its session and, above it,   *)
(* the GEM service, all on the I/O thread.                                 *)
(*                                                                         *)
(* A read that completes and work that is posted queue up in ready, and    *)
(* the thread runs their handlers in that order: a read that began after   *)
(* work was posted is handled after it.  The handlers of an accept, of a   *)
(* write and of the tick may run between any two others.  Closing a socket *)
(* takes back neither operations in flight nor their completions.          *)
(*                                                                         *)
(* A handler runs in several steps: the frames of a read, the parts of     *)
(* apply().  The other threads act between handlers and between deliveries.*)
(***************************************************************************)
EXTENDS HsmsSession, GemService

CONSTANTS
    HostFrames,         \* the frames a host may send
    MaxConnections,     \* bound: connections accepted or refused
    OperatorModes,      \* the control modes the operator uses
    MaxBacklog          \* bound: hosts send and threads publish while the work
                        \* and the frames that wait are fewer

ASSUME ServerAssumption ==
    MaxConnections \in Nat /\ MaxBacklog \in Nat /\ OperatorModes \subseteq ControlModes

VARIABLES
    socket,             \* is there a connection
    generation,
    write_queue, writing,
    notified_state,
    reads,              \* the generations of the reads in flight
    writes,             \* the number of writes in flight, by generation
    io                  \* where the I/O thread is

serverVars == <<socket, generation, write_queue, writing, notified_state,
                reads, writes, io>>
vars == <<sessionVars, gemVars, ready, serverVars>>

\* The generations there can be, up to a stop() after the last connection has ended.
Generations == 0..2 * MaxConnections + 2
NoWrites == [g \in Generations |-> 0]

\* at: between handlers, in on_bytes(), in apply() past its writes, or out of
\* io.run().  then: the handler apply() returns to.
AtRest == [at |-> "rest", then |-> "none", w |-> FALSE]

Init ==
    /\ SessionInit /\ GemInit
    /\ ready = <<>>
    /\ socket = FALSE /\ generation = 0
    /\ write_queue = <<>> /\ writing = FALSE
    /\ notified_state = "NotConnected"
    /\ reads = {} /\ writes = NoWrites
    /\ io = AtRest

Resting == io.at = "rest"
Runs(kind) == Resting /\ ready # <<>> /\ Head(ready).kind = kind
Taken == ready' = Tail(ready)
InBytes == [at |-> "bytes", then |-> "read", w |-> FALSE]

notify_state(now) ==
    IF now # notified_state
    THEN notified_state' = now /\ on_session_state(now)
    ELSE UNCHANGED <<notified_state, gemVars>>

\* close_socket(), but for the session's part.
DropsConnection ==
    /\ socket' = FALSE /\ write_queue' = <<>> /\ writing' = FALSE
    /\ generation' = generation + 1

close_socket ==
    /\ DropsConnection
    /\ on_disconnect
    /\ notify_state("NotConnected")

-----------------------------------------------------------------------------
(* Writing. *)

\* write_next(), with the queue and the other writes in flight by then.
write_next(queue, others) ==
    IF socket /\ queue # <<>> THEN writing' = TRUE /\ writes' = [others EXCEPT ![generation] = @ + 1]
    ELSE writing' = FALSE /\ writes' = others

\* Mutant: a write is started although one is in flight.
Applies_twice(of, then, w) ==
    LET queue == write_queue \o [i \in DOMAIN out'.to_send |-> of]
    IN  /\ write_queue' = queue
        /\ IF ~out'.close /\ queue # <<>> THEN write_next(queue, writes)
           ELSE UNCHANGED <<writing, writes>>
        /\ io' = [at |-> "deliver", then |-> then, w |-> w]

\* apply() queues what the session's call sends (out') and starts writing.  The
\* queue holds, for each frame, the connection it belongs to.
Applies(of, then, w) ==
    LET queue == write_queue \o [i \in DOMAIN out'.to_send |-> of]
    IN  /\ write_queue' = queue
        /\ IF ~out'.close /\ queue # <<>> /\ ~writing THEN write_next(queue, writes)
           ELSE UNCHANGED <<writing, writes>>
        /\ io' = [at |-> "deliver", then |-> then, w |-> w]

\* A write in flight, of generation g, completes.
StaleWrite(g) ==
    /\ Resting /\ g # generation
    /\ writes' = [writes EXCEPT ![g] = @ - 1]
    /\ UNCHANGED <<sessionVars, gemVars, ready, socket, generation, write_queue, writing,
                   notified_state, reads, io>>

WriteFails(g) ==
    /\ Resting /\ g = generation
    /\ writes' = [writes EXCEPT ![g] = @ - 1]
    /\ close_socket
    /\ UNCHANGED <<ready, reads, io>>

HandleWrite(g) ==
    /\ Resting /\ g = generation
    /\ write_queue' = Tail(write_queue)
    /\ write_next(Tail(write_queue), [writes EXCEPT ![g] = @ - 1])
    /\ UNCHANGED <<sessionVars, gemVars, ready, socket, generation, notified_state, reads, io>>

-----------------------------------------------------------------------------
(* Accepting and reading. *)

\* accept_next().  A second connection is refused and an error is ignored: both
\* leave everything as it is.
HandleAccept ==
    /\ Resting /\ ~socket /\ generation < 2 * MaxConnections
    /\ socket' = TRUE /\ generation' = generation + 1
    /\ on_connect
    /\ notify_state("NotSelected")
    /\ reads' = reads \union {generation + 1}
    /\ UNCHANGED <<ready, write_queue, writing, writes, io>>

\* Neither queue has a limit in the code.
Backlog == Len(ready) + Len(write_queue)

\* A read in flight when its socket is closed fails.
ReadCompletes(g, ok) ==
    /\ g \in reads /\ (ok => g = generation /\ Backlog < MaxBacklog)
    /\ reads' = reads \ {g}
    /\ ready' = Append(ready, [kind |-> "read", gen |-> g, ok |-> ok])
    /\ UNCHANGED <<sessionVars, gemVars, socket, generation, write_queue, writing,
                   notified_state, writes, io>>

StaleRead ==
    /\ Runs("read") /\ Head(ready).gen # generation
    /\ Taken
    /\ UNCHANGED <<sessionVars, gemVars, serverVars>>

ReadFails ==
    /\ Runs("read") /\ Head(ready).gen = generation /\ ~Head(ready).ok
    /\ Taken
    /\ close_socket
    /\ UNCHANGED <<reads, writes, io>>

HandleRead ==
    /\ Runs("read") /\ Head(ready).gen = generation /\ Head(ready).ok
    /\ Taken
    /\ \/ BytesArrive /\ io' = InBytes /\ UNCHANGED <<write_queue, writing, writes>>
       \/ FramingError /\ Applies(generation, "read", FALSE)
    /\ UNCHANGED <<gemVars, socket, generation, notified_state, reads>>

\* on_bytes() takes the next frame, or comes to the end of the read.
ReadGoesOn ==
    /\ io.at = "bytes"
    /\ \/ \E f \in HostFrames : handle_frame(f)
       \/ \E rest \in BOOLEAN : BytesEnd(rest)
    /\ IF call' = "none" THEN Applies(generation, "read", FALSE)
       ELSE UNCHANGED <<write_queue, writing, writes, io>>
    /\ UNCHANGED <<gemVars, ready, socket, generation, notified_state, reads>>

HandleTick ==
    /\ Resting /\ socket
    /\ TickCloses \/ TickGoesOn
    /\ Applies(generation, "tick", FALSE)
    /\ UNCHANGED <<gemVars, ready, socket, generation, notified_state, reads>>

-----------------------------------------------------------------------------
(* Posted work. *)

HandleRequest(fits) ==
    /\ Runs("request") /\ Taken
    /\ IF socket
       THEN send_request(Head(ready).w, fits) /\ Applies(Head(ready).of, "request", Head(ready).w)
       ELSE UNCHANGED <<sessionVars, write_queue, writing, writes, io>>
    /\ UNCHANGED <<gemVars, socket, generation, notified_state, reads>>

HandleReply(fits) ==
    /\ Runs("reply") /\ Taken
    /\ IF socket
       THEN send_reply(Head(ready).system, fits) /\ Applies(Head(ready).of, "reply", FALSE)
       ELSE UNCHANGED <<sessionVars, write_queue, writing, writes, io>>
    /\ UNCHANGED <<gemVars, socket, generation, notified_state, reads>>

HandleTask ==
    /\ Runs("task")
    /\ RunsTask(Head(ready), generation)
    /\ UNCHANGED <<sessionVars, serverVars>>

\* stop(): the I/O loop ends; what is in ready or in flight is never run.
HandleStop ==
    /\ Resting
    /\ close_socket
    /\ io' = [AtRest EXCEPT !.at = "stopped"]
    /\ ready' = <<>> /\ reads' = {} /\ writes' = NoWrites

-----------------------------------------------------------------------------
(* The rest of apply(). *)

OutputOnly(o) ==
    /\ out' = o
    /\ UNCHANGED <<state, timerVars, idle, pending_linktest_, transactions_,
                   next_system_bytes_, partial, call>>

ApplyDelivers ==
    /\ io.at = "deliver" /\ out.deliveries # <<>>
    /\ on_data(Head(out.deliveries), generation)
    /\ OutputOnly([out EXCEPT !.deliveries = Tail(@)])
    /\ UNCHANGED serverVars

ApplyTimesOut ==
    /\ io.at = "deliver" /\ out.deliveries = <<>>
    /\ \E s \in out.timed_out :
           /\ \A r \in out.timed_out : s <= r
           /\ on_transaction_timeout(s, generation)
           /\ OutputOnly([out EXCEPT !.timed_out = @ \ {s}])
    /\ UNCHANGED serverVars

Applied == io.at = "deliver" /\ out.deliveries = <<>> /\ out.timed_out = {}

\* The session is already disconnected.
ApplyCloses ==
    /\ Applied /\ out.close
    /\ notify_state(state)
    /\ DropsConnection
    /\ OutputOnly(NoOutput)
    /\ io' = AtRest
    /\ UNCHANGED <<ready, reads, writes>>

\* Back in the handler: the next read, on_sent.
ApplyReturns ==
    /\ Applied /\ ~out.close
    /\ IF io.then = "request" /\ io.w /\ out.to_send # <<>>
       THEN on_sent(out.to_send[1].system) /\ UNCHANGED notified_state
       ELSE notify_state(state)
    /\ reads' = IF io.then = "read" THEN reads \union {generation} ELSE reads
    /\ OutputOnly(NoOutput)
    /\ io' = AtRest
    /\ UNCHANGED <<ready, socket, generation, write_queue, writing, writes>>

-----------------------------------------------------------------------------
(* The other threads. *)

Running == io.at # "stopped"
Observable == io.at \in {"rest", "deliver"}

Publishes ==
    /\ Observable /\ Backlog < MaxBacklog
    /\ \/ \E n \in 1..2 : MachineEvent(n)
       \/ \E mode \in OperatorModes : OperatorSetsMode(mode)
    /\ UNCHANGED <<sessionVars, serverVars>>

TimePasses == Resting /\ Elapse /\ UNCHANGED <<gemVars, ready, serverVars>>

\* The steps the I/O thread has before it.
IoStep ==
    \/ StaleRead \/ ReadFails \/ HandleRead \/ ReadGoesOn
    \/ \E fits \in BOOLEAN : HandleRequest(fits) \/ HandleReply(fits)
    \/ HandleTask
    \/ ApplyDelivers \/ ApplyTimesOut \/ ApplyCloses \/ ApplyReturns

\* What the hosts, the network and the owner may do to it.
Environment ==
    \/ HandleAccept \/ HandleStop
    \/ Observable /\ \E g \in reads, ok \in BOOLEAN : ReadCompletes(g, ok)
    \/ \E g \in Generations :
           writes[g] > 0 /\ (StaleWrite(g) \/ WriteFails(g) \/ HandleWrite(g))

Finished == ~Running /\ UNCHANGED vars

Next == IoStep \/ Environment \/ HandleTick \/ Publishes \/ TimePasses \/ Finished

Spec == Init /\ [][Next]_vars

-----------------------------------------------------------------------------
(* Properties. *)

\* Between handlers a connection has exactly one read and, when there is something
\* to write, exactly one write on its way, however stale completions, failures,
\* timeouts and new connections follow each other: none is lost, so the link
\* does not fall silent, and there are never two, which would mix two frames.
OneReadOneWrite ==
    LET Completed == {i \in DOMAIN ready : ready[i].kind = "read" /\ ready[i].gen = generation}
    IN  Resting =>
            /\ Cardinality(reads \intersect {generation}) + Cardinality(Completed)
                   = IF socket THEN 1 ELSE 0
            /\ writes[generation] = IF write_queue # <<>> THEN 1 ELSE 0
            /\ socket <=> state # "NotConnected"

\* An answer to one host, and an event decided on for it, are never written to
\* the next: they wait in ready while the connection may end and another begin.
MessagesStayInConnection == \A i \in DOMAIN write_queue : write_queue[i] = generation

\* Every request the session waits for is known to the service, so a timeout of
\* T3 is always reported to the host.
OpenRequestsKnown == Resting => Open \subseteq open_requests_

\* handle_online_request(): "Back to whichever online mode the operator last used".
OnlineModeIsOperators == control_mode # "Offline" => control_mode = operator_mode
=============================================================================
