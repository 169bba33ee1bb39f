------------------------------ MODULE WorkPool ------------------------------
(***************************************************************************)
(* The CLI's worker pool (cli/workers/workers.c), the token bucket its     *)
(* workers share (cli/workers/limiter.c) and the signal handler that       *)
(* cancels it (cli/signals.c).                                             *)
(*                                                                         *)
(* Everything the code does between a lock and its unlock is one step.  A  *)
(* thread in pthread_cond_wait has the label "wait" (a worker, not_empty)  *)
(* or "full" (the main thread, not_full); being woken only means that it   *)
(* looks at its condition again, and it may be woken for no reason.        *)
(*                                                                         *)
(* US ticks make a second.  L->tokens is counted in parts of a token, US   *)
(* of which are one token, so that a tick refills rate_pps parts.          *)
(***************************************************************************)
EXTENDS Integers, Sequences, FiniteSets

CONSTANTS
  Threads,    \* the worker threads
  QCap,       \* PS_WORK_QUEUE_CAP
  rate_pps,   \* the rate given to ps_limiter_init; the scans never give 0
  US,         \* ticks of a second
  Slack       \* the 250 us that ps_limiter_acquire adds to a sleep

\* ps_workers_init makes at least one thread.
ASSUME WorkPoolAssumption ==
  /\ Threads # {}
  /\ QCap \in Nat \ {0}
  /\ rate_pps \in Nat \ {0}
  /\ US \in Nat \ {0}
  /\ Slack \in Nat

VARIABLES
  W,        \* struct ps_workers: the ring of items, closed and cancel
  pc,       \* where each worker is
  held,     \* the item a worker has taken
  limiter,  \* [tokens, since]: L->tokens, ticks since L->last_refill_us
  nap,      \* ticks a worker in ps_limiter_acquire still sleeps
  level     \* history: what a meter draining at rate_pps has left of the
            \* tokens granted, in parts of a token

poolVars == <<W, pc, held, limiter, nap, level>>

Capacity == rate_pps * US

Less(a, b) == IF a < b THEN a ELSE b

NoPool ==
  [queue |-> [i \in 0 .. QCap - 1 |-> 0], q_head |-> 0, q_tail |-> 0,
   q_count |-> 0, closed |-> FALSE, cancel |-> FALSE]

\* Before the verb sets the pool up.
PoolInit ==
  /\ W = NoPool
  /\ pc = [t \in Threads |-> "none"]
  /\ held = [t \in Threads |-> 0]
  /\ limiter = [tokens |-> 0, since |-> 0]
  /\ nap = [t \in Threads |-> 0]
  /\ level = 0

\* ps_limiter_init and ps_workers_init: a full bucket, every thread running.
ps_workers_init ==
  /\ W' = NoPool
  /\ pc' = [t \in Threads |-> "loop"]
  /\ limiter' = [tokens |-> Capacity, since |-> 0]
  /\ level' = 0
  /\ UNCHANGED <<held, nap>>

Waiting == {t \in Threads : pc[t] = "wait"}
-----------------------------------------------------------------------------
(* The main thread's calls *)

Full == W.q_count = QCap /\ ~W.closed

Enqueue(item) ==
  W' = [W EXCEPT !.queue[W.q_tail] = item,
                 !.q_tail = (W.q_tail + 1) % QCap,
                 !.q_count = @ + 1]

\* pthread_cond_signal(&W->not_empty): one waiting worker, if there is one.
SignalWorker ==
  \/ Waiting = {} /\ UNCHANGED pc
  \/ \E t \in Waiting : pc' = [pc EXCEPT ![t] = "loop"]

\* ps_workers_submit once there is room.
ps_workers_submit(item) ==
  /\ ~Full
  /\ Enqueue(item)
  /\ SignalWorker
  /\ UNCHANGED <<held, limiter, nap, level>>

\* A close that wakes one worker only: a mutant.
CloseWakingOne ==
  /\ W' = [W EXCEPT !.closed = TRUE]
  /\ SignalWorker
  /\ UNCHANGED <<held, limiter, nap, level>>

\* ps_workers_finish, up to its joins: closes and wakes everyone.
Close ==
  /\ W' = [W EXCEPT !.closed = TRUE]
  /\ pc' = [t \in Threads |-> IF t \in Waiting THEN "loop" ELSE pc[t]]
  /\ UNCHANGED <<held, limiter, nap, level>>

Joined == \A t \in Threads : pc[t] = "exit"

\* handler: SIGINT or SIGTERM while the pool exists.
ps_workers_cancel ==
  /\ ~W.cancel
  /\ W' = [W EXCEPT !.cancel = TRUE]
  /\ UNCHANGED <<pc, held, limiter, nap, level>>
-----------------------------------------------------------------------------
(* worker_main *)

\* The newest item taken where the oldest is dropped: a mutant.
TakeNewest(t) ==
  /\ pc[t] = "loop"
  /\ \/ /\ W.q_count = 0
        /\ pc' = [pc EXCEPT ![t] = IF W.closed THEN "exit" ELSE "wait"]
        /\ UNCHANGED <<W, held>>
     \/ /\ W.q_count > 0
        /\ held' = [held EXCEPT ![t] = W.queue[(W.q_tail + QCap - 1) % QCap]]
        /\ W' = [W EXCEPT !.q_head = (W.q_head + 1) % QCap, !.q_count = @ - 1]
        /\ pc' = [pc EXCEPT ![t] = "admit"]
  /\ UNCHANGED <<limiter, nap, level>>

\* Waits for an item, takes the oldest, or exits when the pool is closed and
\* the ring is empty.  The signal of not_full that follows a take concerns
\* the main thread only and is part of the composed step.
Take(t) ==
  /\ pc[t] = "loop"
  /\ \/ /\ W.q_count = 0
        /\ pc' = [pc EXCEPT ![t] = IF W.closed THEN "exit" ELSE "wait"]
        /\ UNCHANGED <<W, held>>
     \/ /\ W.q_count > 0
        /\ held' = [held EXCEPT ![t] = W.queue[W.q_head]]
        /\ W' = [W EXCEPT !.q_head = (W.q_head + 1) % QCap, !.q_count = @ - 1]
        /\ pc' = [pc EXCEPT ![t] = "admit"]
  /\ UNCHANGED <<limiter, nap, level>>

\* pthread_cond_wait returning for no reason.
SpuriousWorker(t) ==
  /\ pc[t] = "wait"
  /\ pc' = [pc EXCEPT ![t] = "loop"]
  /\ UNCHANGED <<W, held, limiter, nap, level>>

\* A cancelled pool no longer waits for the limiter.
Admit(t) ==
  /\ pc[t] = "admit"
  /\ pc' = [pc EXCEPT ![t] = IF W.cancel THEN "run" ELSE "limit"]
  /\ UNCHANGED <<W, held, limiter, nap, level>>

Refilled == Less(limiter.tokens + limiter.since * rate_pps, Capacity)

\* A refill that does not move last_refill_us: a mutant.
RefillsAgain(t) ==
  /\ pc[t] = "limit"
  /\ nap[t] = 0
  /\ \/ /\ Refilled >= US
        /\ limiter' = [limiter EXCEPT !.tokens = Refilled - US]
        /\ level' = level + US
        /\ pc' = [pc EXCEPT ![t] = "run"]
        /\ UNCHANGED nap
     \/ /\ Refilled < US
        /\ limiter' = [limiter EXCEPT !.tokens = Refilled]
        /\ nap' = [nap EXCEPT ![t] = ((US - Refilled) \div rate_pps) + Slack]
        /\ UNCHANGED <<pc, level>>
  /\ UNCHANGED <<W, held>>

\* One turn of the loop: a token is taken, or the thread sleeps for about
\* the time the missing part of a token needs, and tries again.
ps_limiter_acquire(t) ==
  /\ pc[t] = "limit"
  /\ nap[t] = 0
  /\ \/ /\ Refilled >= US
        /\ limiter' = [tokens |-> Refilled - US, since |-> 0]
        /\ level' = level + US
        /\ pc' = [pc EXCEPT ![t] = "run"]
        /\ UNCHANGED nap
     \/ /\ Refilled < US
        /\ limiter' = [tokens |-> Refilled, since |-> 0]
        /\ nap' = [nap EXCEPT ![t] = ((US - Refilled) \div rate_pps) + Slack]
        /\ UNCHANGED <<pc, level>>
  /\ UNCHANGED <<W, held>>

\* Time passes.  After a second the bucket is full, so since stops there.
PoolTick ==
  /\ limiter' = [limiter EXCEPT !.since = Less(@ + 1, US)]
  /\ nap' = [t \in Threads |-> IF nap[t] = 0 THEN 0 ELSE nap[t] - 1]
  /\ level' = IF level < rate_pps THEN 0 ELSE level - rate_pps
  /\ UNCHANGED <<W, pc, held>>
-----------------------------------------------------------------------------
\* Over any stretch of time the workers, together, are granted at most one
\* second's worth of tokens plus what the rate allows in that time: the meter
\* never exceeds the bucket's capacity, however many threads find tokens
\* missing, sleep and come back at once (ps_limiter_acquire).
RateHeld == level <= Capacity
=============================================================================
