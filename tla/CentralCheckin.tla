--------------------------- MODULE CentralCheckin ---------------------------
(***************************************************************************)
(* Observations on their way to the central console: first the bounded     *)
(* ring of agent/src/obs_queue.c, then the two threads that share it.      *)
(* Every operation of the ring runs under g_lock from its first access to  *)
(* its last, so each is one atomic step.                                   *)
(***************************************************************************)
EXTENDS Integers, Sequences, FiniteSets

CONSTANTS
  Cap    \* PS_OBS_QUEUE_CAP

ASSUME CapAssumption == Cap \in Nat \ {0}

VARIABLES
  ring,  \* g_ring
  head,  \* g_head: next pop
  tail,  \* g_tail: next push
  count  \* g_count

queueVars == <<ring, head, tail, count>>

Slot == 0 .. Cap - 1

\* What an uninitialised (zeroed) slot holds; never read while count = 0.
Blank == 0

\* The static storage is zeroed before main runs.
QueueStatic ==
  /\ ring = [s \in Slot |-> Blank]
  /\ head = 0
  /\ tail = 0
  /\ count = 0

\* ps_obs_queue_init leaves the slots' bytes alone.
QueueReset ==
  /\ head' = 0
  /\ tail' = 0
  /\ count' = 0
  /\ UNCHANGED ring

\* The push of a full ring forgets to advance g_head: a mutant.
PushKeepingHead(x) ==
  /\ ring' = [ring EXCEPT ![tail] = x]
  /\ tail' = (tail + 1) % Cap
  /\ IF count = Cap THEN UNCHANGED <<head, count>>
                    ELSE count' = count + 1 /\ UNCHANGED head

\* ps_obs_queue_push: a full ring gives up its oldest item first.
Push(x) ==
  /\ head'  = IF count = Cap THEN (head + 1) % Cap ELSE head
  /\ count' = IF count = Cap THEN count ELSE count + 1
  /\ ring'  = [ring EXCEPT ![tail] = x]
  /\ tail'  = (tail + 1) % Cap

\* A full batch is one item short: a mutant.
DrainSizeOneShort(max) == IF count < max THEN count ELSE max - 1

\* How many items a drain into room for max items copies out.
DrainSize(max) == IF count < max THEN count ELSE max

\* The i-th oldest item, i from 1.
ItemAt(i) == ring[(head + i - 1) % Cap]

\* The newest item is copied out first: a mutant.
DrainedNewestFirst(max) ==
  [i \in 1 .. DrainSize(max) |-> ItemAt(DrainSize(max) + 1 - i)]

\* What ps_obs_queue_drain copies out, oldest first.
Drained(max) == [i \in 1 .. DrainSize(max) |-> ItemAt(i)]

\* A drain that clears the whole ring whatever it had room for: a mutant.
DrainAll(max) ==
  /\ head'  = (head + count) % Cap
  /\ count' = 0
  /\ UNCHANGED <<ring, tail>>

\* The state change of ps_obs_queue_drain.
Drain(max) ==
  /\ head'  = (head + DrainSize(max)) % Cap
  /\ count' = count - DrainSize(max)
  /\ UNCHANGED <<ring, tail>>

\* The pending items, oldest first.
Pending == [i \in 1 .. count |-> ItemAt(i)]
-----------------------------------------------------------------------------
(***************************************************************************)
(* The path of an observation from a module of packetsonded to the central *)
(* console.  The event loop publishes (ctx_publish in agent/src/main.c)    *)
(* into the ring above; a detached check-in thread                         *)
(* (agent/src/central_checkin.c) drains it in batches and posts each batch *)
(* through lib/reporter.c and lib/http_client.c.  Observations are         *)
(* numbered in the order they are published.                               *)
(***************************************************************************)

CONSTANTS
  ShipBatch,       \* PS_OBS_SHIP_BATCH: items per POST
  ShipMaxBatches,  \* PS_OBS_SHIP_MAX_BATCHES: POSTs per cycle
  ReqCap,          \* signed items whose POST fits the request buffer req[]
  MaxPublished     \* bound on the observations published

ASSUME CheckinAssumption ==
  /\ ShipBatch \in Nat \ {0}
  /\ ShipMaxBatches \in Nat \ {0}
  /\ ReqCap \in Nat
  /\ MaxPublished \in Nat

VARIABLES
  boot,       \* how far main() is: "start", "queue", "run"
  thread,     \* where checkin_loop is; "none" when it was never created
  batches,    \* POSTs of this cycle
  batch,      \* the static items[] the thread is posting
  published,  \* observations pushed so far
  delivered,  \* history: what the console accepted, in order
  refused,    \* history: posts answered with an error status
  failed,     \* history: batches whose POST never completed
  evicted     \* history: items overwritten in a full ring

checkinVars == <<thread, batches, batch>>
historyVars == <<delivered, refused, failed, evicted>>
vars == <<queueVars, boot, checkinVars, published, historyVars>>

ThreadState == {"none", "beat", "drain", "post", "sleep"}

Init ==
  /\ QueueStatic
  /\ boot = "start"
  /\ thread = "none"
  /\ batches = 0
  /\ batch = <<>>
  /\ published = 0
  /\ delivered = <<>>
  /\ refused = {}
  /\ failed = {}
  /\ evicted = {}

InBatch == {batch[i] : i \in DOMAIN batch}
InQueue == {Pending[i] : i \in 1 .. count}
-----------------------------------------------------------------------------
(* main() *)

\* ps_central_checkin_start: no console configured, or pthread_create failing,
\* leaves the daemon without a check-in thread.
StartCheckin ==
  /\ boot = "start"
  /\ boot' = "queue"
  /\ thread' \in {"none", "beat"}
  /\ UNCHANGED <<queueVars, batches, batch, published, historyVars>>

\* main resets the ring after the thread is already running.
InitQueue ==
  /\ boot = "queue"
  /\ boot' = "run"
  /\ QueueReset
  /\ UNCHANGED <<checkinVars, published, historyVars>>

\* ctx_publish of a discovery.* or net.iface.* finding whose event fits an item.
Publish ==
  /\ boot = "run"
  /\ published < MaxPublished
  /\ published' = published + 1
  /\ Push(published + 1)
  /\ evicted' = IF count = Cap THEN evicted \cup {ItemAt(1)} ELSE evicted
  /\ UNCHANGED <<boot, checkinVars, delivered, refused, failed>>
-----------------------------------------------------------------------------
(* checkin_loop *)

\* A failed heartbeat skips the shipping of this cycle: a mutant.
HeartbeatGatesShipping ==
  /\ thread = "beat"
  /\ thread' \in {"drain", "sleep"}
  /\ batches' = 0
  /\ UNCHANGED <<queueVars, boot, batch, published, historyVars>>

\* The heartbeat's result is only logged.
Heartbeat ==
  /\ thread = "beat"
  /\ thread' = "drain"
  /\ batches' = 0
  /\ UNCHANGED <<queueVars, boot, batch, published, historyVars>>

\* One batch leaves the ring before it is posted.
DrainBatch ==
  /\ thread = "drain"
  /\ batches < ShipMaxBatches
  /\ count > 0
  /\ batch' = Drained(ShipBatch)
  /\ Drain(ShipBatch)
  /\ batches' = batches + 1
  /\ thread' = "post"
  /\ UNCHANGED <<boot, published, historyVars>>

\* Nothing left, or the cycle's quota is used up.
EndCycle ==
  /\ thread = "drain"
  /\ batches = ShipMaxBatches \/ count = 0
  /\ thread' = "sleep"
  /\ UNCHANGED <<queueVars, boot, batches, batch, published, historyVars>>

\* ps_report_observations returns 0 whatever status the console answers.  An
\* answer lost after the console stored the batch changes only the log.
PostAnswered ==
  /\ thread = "post"
  /\ Len(batch) <= ReqCap
  /\ \/ delivered' = delivered \o batch /\ UNCHANGED refused
     \/ refused' = refused \cup InBatch /\ UNCHANGED delivered
  /\ batch' = <<>>
  /\ thread' = "drain"
  /\ UNCHANGED <<queueVars, boot, batches, published, failed, evicted>>

\* The request outgrows req[], the dial fails or the exchange breaks: the items
\* are already out of the ring and are forgotten.
PostFailed ==
  /\ thread = "post"
  /\ failed' = failed \cup InBatch
  /\ batch' = <<>>
  /\ thread' = "drain"
  /\ UNCHANGED <<queueVars, boot, batches, published, delivered, refused, evicted>>

Wake ==
  /\ thread = "sleep"
  /\ thread' = "beat"
  /\ UNCHANGED <<queueVars, boot, batches, batch, published, historyVars>>

Main == StartCheckin \/ InitQueue \/ Publish

Checkin ==
  Heartbeat \/ DrainBatch \/ EndCycle \/ PostAnswered \/ PostFailed \/ Wake

Next == Main \/ Checkin

Spec == Init /\ [][Next]_vars

\* The thread is scheduled by the system, and every socket call it makes has
\* a timeout (dial() in lib/http_client.c), so it never stays at one step.
FairSpec == Spec /\ WF_vars(Checkin)
-----------------------------------------------------------------------------
TypeOK ==
  /\ ring \in [Slot -> 0 .. MaxPublished]
  /\ head \in Slot
  /\ tail \in Slot
  /\ count \in 0 .. Cap
  /\ boot \in {"start", "queue", "run"}
  /\ thread \in ThreadState
  /\ batches \in 0 .. ShipMaxBatches
  /\ published \in 0 .. MaxPublished

(* The ring holds exactly the newest `count' of the published observations, *)
(* oldest first: pushing into a full ring costs the oldest item and nothing *)
(* else, and a drain takes a prefix (ps_obs_queue_push / _drain).           *)
NewestWindow ==
  \A i \in 1 .. count : ItemAt(i) = published - count + i

(* Central sees each observation at most once and in publication order: a   *)
(* batch is out of the ring before it is posted and is never re-posted.     *)
DeliveredInOrder ==
  \A i, j \in DOMAIN delivered : i < j => delivered[i] < delivered[j]

(* Every published observation is in exactly one place: still in the ring,  *)
(* in the batch being posted, delivered, refused by the console, lost with  *)
(* a failed POST, or overwritten in the full ring.                          *)
Accounted ==
  LET places == << InQueue, InBatch, {delivered[i] : i \in DOMAIN delivered},
                   refused, failed, evicted >>
  IN  /\ UNION {places[i] : i \in 1 .. 6} = 1 .. published
      /\ \A i, j \in 1 .. 6 : i # j => places[i] \cap places[j] = {}

(* With a running check-in thread, what is in the ring does not stay there: *)
(* it is drained or overwritten, whatever the console does.                 *)
QueueServed ==
  \A n \in 1 .. MaxPublished :
    (n \in InQueue /\ thread # "none") ~> (n \notin InQueue)

Channel == INSTANCE ObsChannel WITH pending <- Pending

(* The ring and its two threads implement the bounded FIFO that obs_queue.h *)
(* promises its users.                                                      *)
ImplementsChannel == Channel!Spec

(* What is in the ring and what the console has been given are in the order *)
(* of publication, the ring's indices and the check-in's counters within    *)
(* their bounds (ps_obs_queue_push, ps_checkin_ship_observations).          *)
InOrder == TypeOK /\ NewestWindow /\ DeliveredInOrder
=============================================================================
