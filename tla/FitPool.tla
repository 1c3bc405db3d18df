------------------------------ MODULE FitPool ------------------------------
(***************************************************************************)
(* The fit pool (analysis/fit_pool): workers pop jobs from a blocking      *)
(* queue; for_each_index() pushes one job for each index and waits until   *)
(* all have run.  The mutex, the condition variable and the counter of     *)
(* that wait are local variables of for_each_index(), so no job may touch  *)
(* them once it has returned.                                              *)
(***************************************************************************)
EXTENDS BoundedQueue

CONSTANTS
    Workers,
    Caller,      \* the thread that owns the pool
    MaxCalls,    \* bound: calls of for_each_index()
    MaxCount     \* bound: indices of a call

\* A job is the call it belongs to and its index.
Jobs == [call : 1..MaxCalls, index : 0..MaxCount - 1]

Nobody == "nobody"

ASSUME PoolAssumption ==
    /\ Caller \notin Workers /\ Nobody \notin Workers
    /\ ~DropNewest
    /\ Threads = Workers \union {Caller}
    /\ Items = Jobs
    /\ MaxCalls \in Nat /\ MaxCount \in Nat

VARIABLES
    caller,        \* [pc, call, count, submitted]
    remaining,
    done_mutex,    \* who holds it
    worker,        \* where each worker is
    ran            \* history: the indices run for the current call

poolVars == <<caller, remaining, done_mutex, worker, ran>>

PoolInit ==
    /\ QueueInit
    /\ caller = [pc |-> "idle", call |-> 0, count |-> 0, submitted |-> 0]
    /\ remaining = 0
    /\ done_mutex = Nobody
    /\ worker = [w \in Workers |-> "loop"]
    /\ ran = {}

-----------------------------------------------------------------------------
(* The caller. *)

Calls(count) ==
    /\ caller.pc = "idle" /\ caller.call < MaxCalls
    /\ caller' = [pc |-> "submitting", call |-> caller.call + 1, count |-> count, submitted |-> 0]
    /\ remaining' = count
    /\ ran' = {}
    /\ UNCHANGED <<queueVars, done_mutex, worker>>

Submits ==
    /\ caller.pc = "submitting" /\ caller.submitted < caller.count
    /\ Push(Caller, [call |-> caller.call, index |-> caller.submitted])
    /\ caller' = [caller EXCEPT !.submitted = @ + 1]
    /\ UNCHANGED <<remaining, done_mutex, worker, ran>>

\* done_cv.wait(): the predicate under the mutex, then return or sleep.
Waits ==
    /\ \/ /\ caller.pc = "submitting" /\ caller.submitted = caller.count
          /\ at[Caller] = "outside"
       \/ caller.pc = "woken"
    /\ done_mutex = Nobody
    /\ caller' = [caller EXCEPT !.pc = IF remaining = 0 THEN "idle" ELSE "asleep"]
    /\ UNCHANGED <<queueVars, remaining, done_mutex, worker, ran>>

WakesForNothing ==
    /\ caller.pc = "asleep"
    /\ caller' = [caller EXCEPT !.pc = "woken"]
    /\ UNCHANGED <<queueVars, remaining, done_mutex, worker, ran>>

\* ~FitThreadPool(): close the queue, then join.
Destroys ==
    /\ caller.pc = "idle"
    /\ Close(Caller)
    /\ caller' = [caller EXCEPT !.pc = "joining"]
    /\ UNCHANGED <<remaining, done_mutex, worker, ran>>

Joins ==
    /\ caller.pc = "joining" /\ at[Caller] = "outside"
    /\ \A w \in Workers : worker[w] = "exited"
    /\ caller' = [caller EXCEPT !.pc = "destroyed"]
    /\ UNCHANGED <<queueVars, remaining, done_mutex, worker, ran>>

CallerStep == Submits \/ Waits \/ Joins

-----------------------------------------------------------------------------
(* The workers. *)

Worker(w, pc) == worker' = [worker EXCEPT ![w] = pc]

WorkerPops(w) ==
    /\ worker[w] = "loop"
    /\ Pop(w)
    /\ Worker(w, "popping")
    /\ UNCHANGED <<caller, remaining, done_mutex, ran>>

\* pop() has returned: nullopt ends the loop, a job runs fn(i).
WorkerRuns(w) ==
    /\ worker[w] = "popping" /\ at[w] = "outside"
    /\ IF holding[w] = NoItem
       THEN Worker(w, "exited") /\ UNCHANGED ran
       ELSE Worker(w, "ran") /\ ran' = ran \union {holding[w].index}
    /\ UNCHANGED <<queueVars, caller, remaining, done_mutex>>

\* Mutant: the count is an atomic and takes no lock.
JobCountsUnlocked(w) ==
    /\ worker[w] = "ran"
    /\ remaining' = remaining - 1
    /\ Worker(w, "counted")
    /\ UNCHANGED <<queueVars, caller, done_mutex, ran>>

JobCounts(w) ==
    /\ worker[w] = "ran"
    /\ done_mutex = Nobody
    /\ done_mutex' = w
    /\ remaining' = remaining - 1
    /\ Worker(w, "counted")
    /\ UNCHANGED <<queueVars, caller, ran>>

\* Mutant: the last job is taken to be the one that leaves one.
JobNotifiesEarly(w) ==
    /\ worker[w] = "counted"
    /\ caller' = IF remaining = 1 /\ caller.pc = "asleep"
                 THEN [caller EXCEPT !.pc = "woken"] ELSE caller
    /\ done_mutex' = Nobody
    /\ Worker(w, "loop")
    /\ UNCHANGED <<queueVars, remaining, ran>>

JobNotifies(w) ==
    /\ worker[w] = "counted"
    /\ caller' = IF remaining = 0 /\ caller.pc = "asleep"
                 THEN [caller EXCEPT !.pc = "woken"] ELSE caller
    /\ done_mutex' = Nobody
    /\ Worker(w, "loop")
    /\ UNCHANGED <<queueVars, remaining, ran>>

WorkerStep(w) == WorkerPops(w) \/ JobCounts(w) \/ JobNotifies(w)

-----------------------------------------------------------------------------
QueueContinues(t) == Continues(t) /\ UNCHANGED poolVars

QueueWakesForNothing(t) == SpuriousWake(t) /\ UNCHANGED poolVars

\* The steps the user of the pool does not see: all but the calls, the jobs' own work and
\* the destruction.
PoolStep ==
    \/ CallerStep \/ WakesForNothing
    \/ \E w \in Workers : WorkerStep(w)
    \/ \E t \in Threads : QueueContinues(t) \/ QueueWakesForNothing(t)

-----------------------------------------------------------------------------
(* Properties. *)

InCall == caller.pc \in {"submitting", "asleep", "woken"}

\* for_each_index() hands its workers references to its own local variables.  No
\* job uses them after it has returned: every job in the queue, or between being
\* popped and its last use of them, belongs to the call in progress; and when the
\* call has returned every index has run.
FrameOutlivesJobs ==
    /\ \A i \in DOMAIN items_ : InCall /\ items_[i].call = caller.call
    /\ \A w \in Workers :
           worker[w] \in {"ran", "counted"} => InCall /\ holding[w].call = caller.call
    /\ caller.pc = "idle" => ran = 0..caller.count - 1

\* for_each_index() returns, also when it has more indices than the queue has
\* places, and destroying the pool ends.
CallReturns ==
    /\ InCall ~> caller.pc = "idle"
    /\ caller.pc = "joining" ~> caller.pc = "destroyed"
=============================================================================
