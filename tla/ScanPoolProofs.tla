--------------------------- MODULE ScanPoolProofs ---------------------------
(***************************************************************************)
(* Lemmas about the worker pool of CliVerbs: the ring and the hands items  *)
(* pass through, what is reported of them, and the loop that submits them, *)
(* for any target, any ports and any number of workers.  CliVerbsProofs    *)
(* puts them together.                                                     *)
(***************************************************************************)
EXTENDS CliVerbs, TLAPS

-----------------------------------------------------------------------------
(* The pool.  The ring holds the items submitted last, in order; those     *)
(* submitted before them are in the hands of one worker each or freed.     *)

\* What the verb's target stands for.
Target ==
  {a \in 0 .. Shift[Bits] - 1 :
     IF plan.prefix = NoPrefix THEN a = plan.addr
     ELSE a \div Shift[Bits - plan.prefix] =
            plan.addr \div Shift[Bits - plan.prefix]}

Job == [host : Int, port : Nat]

Hosts(js) == {js[k].host : k \in DOMAIN js}

\* What the proofs use of finite sets and their sizes; CliVerbsProofs takes it
\* from the library.
Counting ==
  /\ IsFiniteSet({}) /\ Cardinality({}) = 0
  /\ \A x : Cardinality({x}) = 1
  /\ \A n \in Nat : \A S : S \subseteq 1 .. n => IsFiniteSet(S)
  /\ \A S : IsFiniteSet(S) => Cardinality(S) \in Nat
  /\ \A S, x : IsFiniteSet(S) /\ x \notin S => Cardinality(S \cup {x}) = Cardinality(S) + 1
  /\ \A S, x : IsFiniteSet(S) /\ x \in S =>
       Cardinality(S) # 0 /\ Cardinality(S \ {x}) = Cardinality(S) - 1

\* What the pool needs to know of a plan: its ports are a list, and the items
\* of a scan are one for each host of the target and each port.
PlansCovered ==
  plan \in Plans =>
    /\ PortList \in Seq(Nat)
    /\ \A ports \in Seq(Nat) : ports # <<>> =>
         /\ Len(ports) \in Nat \ {0}
         /\ \A cidr \in ps_cidr_parse(plan.addr, plan.prefix) :
              /\ Jobs(cidr, ports) \in Seq(Job)
              /\ plan.prefix # 0 => Hosts(Jobs(cidr, ports)) = Target

Busy == {"admit", "limit", "run", "probe"}

PoolType ==
  /\ plan \in Plans
  /\ mpc \in {"start", "next", "submit", "full", "finish", "join", "hop",
              "ptrjoin", "done"}
  /\ jobs \in Seq(Job)
  /\ pcnt \in Nat \ {0}
  /\ next \in 1 .. Len(jobs) + 1
  /\ W \in [queue : [0 .. QCap - 1 -> Nat], q_head : 0 .. QCap - 1,
            q_tail : 0 .. QCap - 1, q_count : 0 .. QCap,
            closed : BOOLEAN, cancel : BOOLEAN]
  /\ pc \in [Threads -> {"none", "loop", "wait", "admit", "limit", "run",
                         "probe", "exit"}]
  /\ held \in [Threads -> 0 .. Len(jobs)]
  /\ freed \in [1 .. Len(jobs) -> Nat]

RingInv ==
  /\ W.q_count < next
  /\ W.q_tail = (W.q_head + W.q_count) % QCap
  /\ \A i \in 0 .. W.q_count - 1 :
       W.queue[(W.q_head + i) % QCap] = (next - W.q_count) + i

\* An item was taken from the ring and its worker is not through with it.
Held(k) == \E t \in Threads : held[t] = k /\ pc[t] \in Busy

HandsInv ==
  /\ \A t \in Threads :
       pc[t] \in Busy => held[t] >= 1 /\ held[t] + W.q_count < next
  /\ \A t, u \in Threads :
       pc[t] \in Busy /\ pc[u] \in Busy /\ held[t] = held[u] => t = u
  /\ \A k \in 1 .. Len(jobs) :
       freed[k] = IF k + W.q_count < next /\ ~Held(k) THEN 1 ELSE 0

\* Where the main thread is, and what that says of the pool.
MainInv ==
  /\ mpc = "start" =>
       jobs = <<>> /\ next = 1 /\ W = NoPool /\ \A t \in Threads : pc[t] = "none"
  /\ mpc \in {"hop", "ptrjoin"} => jobs = <<>>
  /\ mpc \in {"submit", "full"} => next <= Len(jobs)
  /\ W.closed => mpc \in {"join", "done"}
  /\ \A t \in Threads : pc[t] = "exit" => W.closed /\ W.q_count = 0
  /\ mpc = "done" /\ jobs # <<>> => Joined

PoolInv == PoolType /\ RingInv /\ HandsInv /\ MainInv

\* The items reported, which are counted one by one.
Hits == {k \in 1 .. Len(jobs) : found[k] # <<>>}

FoundInv ==
  /\ found \in [1 .. Len(jobs) -> Seq(Nat)]
  /\ n_info = Cardinality(Hits)
  /\ \A k \in 1 .. Len(jobs) : freed[k] = 0 => found[k] = <<>>
  /\ mpc = "done" /\ jobs # <<>> => counts = n_info

\* What check_host knows of the ports it has tried.
TriesInv ==
  /\ tries \in [Threads -> 0 .. Len(SWEEP_PORTS) - 1]
  /\ \A t \in Threads : pc[t] # "probe" => tries[t] = 0
  /\ plan.verb = "hosts" /\ ~W.cancel =>
       \A t \in Threads : \A j \in 1 .. tries[t] :
         SWEEP_PORTS[j] \notin Answering(jobs[held[t]].host)

\* Two items belong to one host.
SameHost(k, j) == (k - 1) \div pcnt = (j - 1) \div pcnt

\* Where the main thread may be after a signal.
StopInv ==
  W.cancel =>
    /\ late \in 1 .. next
    /\ mpc \in {"submit", "full"} => SameHost(next, late)
    /\ \A k \in late .. next - 1 : SameHost(k, late)

CoverInv ==
  /\ mpc \in {"finish", "join", "done"} /\ jobs # <<>> /\ ~W.cancel =>
       next = Len(jobs) + 1
  /\ jobs # <<>> /\ plan.prefix # 0 => Hosts(jobs) = Target

\* The slots of a ring of q entries whose head is h.
LEMMA RingSlots ==
  ASSUME NEW q \in Nat \ {0}, NEW h \in 0 .. q - 1
  PROVE  /\ \A x \in Nat : x < 2 * q => x % q = IF x < q THEN x ELSE x - q
         /\ \A i \in 0 .. q : (h + i) % q = IF h + i < q THEN h + i ELSE (h + i) - q
<1>1. \A x \in Nat : x < 2 * q => x % q = IF x < q THEN x ELSE x - q
  OBVIOUS
<1> QED
  BY <1>1

\* Two entries have two slots, the first one at the head.
LEMMA RingDistinct ==
  ASSUME NEW q \in Nat \ {0}, NEW h \in 0 .. q - 1
  PROVE  /\ \A i \in 0 .. q : (h + i) % q \in 0 .. q - 1
         /\ \A i, j \in 0 .. q - 1 : (h + i) % q = (h + j) % q => i = j
         /\ (h + 0) % q = h /\ (h + 1) % q \in 0 .. q - 1
<1>1. \A i \in 0 .. q : (h + i) % q = IF h + i < q THEN h + i ELSE (h + i) - q
  BY RingSlots
<1>2. \A i \in 0 .. q : (h + i) % q \in 0 .. q - 1
  BY <1>1
<1>3. \A i, j \in 0 .. q - 1 : (h + i) % q = (h + j) % q => i = j
  BY <1>1
<1>4. (h + 0) % q = h /\ (h + 1) % q \in 0 .. q - 1
  BY <1>1, <1>2
<1> QED
  BY <1>2, <1>3, <1>4, Zenon

\* The slot after that of an entry is the slot of the next entry.
LEMMA RingNext ==
  ASSUME NEW q \in Nat \ {0}, NEW h \in 0 .. q - 1
  PROVE  \A c \in 0 .. q - 1 : (((h + c) % q) + 1) % q = (h + (c + 1)) % q
<1>1. \A x \in Nat : x < 2 * q => x % q = IF x < q THEN x ELSE x - q
  BY RingSlots
<1>2. \A i \in 0 .. q : (h + i) % q = IF h + i < q THEN h + i ELSE (h + i) - q
  BY RingSlots
<1> TAKE c \in 0 .. q - 1
<1>3. (h + c) % q = IF h + c < q THEN h + c ELSE (h + c) - q
  BY <1>2
<1>4. (h + (c + 1)) % q = IF h + (c + 1) < q THEN h + (c + 1) ELSE (h + (c + 1)) - q
  BY <1>2
<1>5. (((h + c) % q) + 1) % q =
        IF ((h + c) % q) + 1 < q THEN ((h + c) % q) + 1 ELSE (((h + c) % q) + 1) - q
  BY <1>1, <1>3
<1> QED
  BY <1>3, <1>4, <1>5

\* Moving the head moves every entry down by one.
LEMMA RingShift ==
  ASSUME NEW q \in Nat \ {0}, NEW h \in 0 .. q - 1
  PROVE  \A i \in 0 .. q - 1 : (((h + 1) % q) + i) % q = (h + (i + 1)) % q
<1>1. \A x \in Nat : x < 2 * q => x % q = IF x < q THEN x ELSE x - q
  BY RingSlots
<1>2. \A i \in 0 .. q : (h + i) % q = IF h + i < q THEN h + i ELSE (h + i) - q
  BY RingSlots
<1> TAKE i \in 0 .. q - 1
<1>3. (h + 1) % q = IF h + 1 < q THEN h + 1 ELSE (h + 1) - q
  BY <1>2
<1>4. (h + (i + 1)) % q = IF h + (i + 1) < q THEN h + (i + 1) ELSE (h + (i + 1)) - q
  BY <1>2
<1>5. (((h + 1) % q) + i) % q =
        IF ((h + 1) % q) + i < q THEN ((h + 1) % q) + i ELSE (((h + 1) % q) + i) - q
  BY <1>1, <1>3
<1> QED
  BY <1>3, <1>4, <1>5

\* At the start there is no item and no worker.
LEMMA InitPool == Init => PoolInv
<1> SUFFICES ASSUME Init PROVE PoolInv
  OBVIOUS
<1>1. /\ plan \in Plans /\ mpc = "start" /\ jobs = <<>> /\ pcnt = 1 /\ next = 1
      /\ freed = <<>> /\ W = NoPool
      /\ pc = [t \in Threads |-> "none"] /\ held = [t \in Threads |-> 0]
  BY DEF Init, PoolInit
<1>2. QCap \in Nat \ {0}
  BY WorkPoolAssumption
<1>3. /\ NoPool \in [queue : [0 .. QCap - 1 -> Nat], q_head : 0 .. QCap - 1,
                     q_tail : 0 .. QCap - 1, q_count : 0 .. QCap,
                     closed : BOOLEAN, cancel : BOOLEAN]
      /\ NoPool.q_count = 0 /\ NoPool.q_head = 0 /\ NoPool.q_tail = 0
      /\ NoPool.closed = FALSE /\ NoPool.cancel = FALSE
  BY <1>2 DEF NoPool
<1>4. Len(<<>>) = 0 /\ 1 .. 0 = {} /\ <<>> \in [1 .. 0 -> Nat]
  OBVIOUS
<1>5. PoolType
  BY <1>1, <1>3, <1>4 DEF PoolType
<1>6. RingInv
  BY <1>1, <1>2, <1>3 DEF RingInv
<1>7. HandsInv
  BY <1>1, <1>3, <1>4 DEF HandsInv, Busy
<1>8. MainInv
  BY <1>1, <1>3 DEF MainInv
<1> QED
  BY <1>5, <1>6, <1>7, <1>8 DEF PoolInv

PoolParts == <<plan, W, pc, held, jobs, pcnt, next, freed>>

\* A step of the main thread that leaves the pool alone.
LEMMA PoolQuiet ==
  ASSUME PoolInv, UNCHANGED PoolParts,
         mpc' \in {"start", "next", "submit", "full", "finish", "join", "hop",
                   "ptrjoin", "done"},
         MainInv'
  PROVE  PoolInv'
<1>1. PoolType'
  BY DEF PoolInv, PoolType, PoolParts
<1>2. RingInv'
  BY DEF PoolInv, RingInv, PoolParts
<1>3. HandsInv'
  BY DEF PoolInv, HandsInv, Held, PoolParts
<1> QED
  BY <1>1, <1>2, <1>3 DEF PoolInv

\* The fields of the pool.
LEMMA PoolFields ==
  ASSUME PoolType
  PROVE  /\ W.queue \in [0 .. QCap - 1 -> Nat] /\ W.q_head \in 0 .. QCap - 1
         /\ W.q_tail \in 0 .. QCap - 1 /\ W.q_count \in 0 .. QCap
         /\ W.closed \in BOOLEAN /\ W.cancel \in BOOLEAN
         /\ QCap \in Nat \ {0} /\ next \in Nat /\ Len(jobs) \in Nat
         /\ next \in 1 .. Len(jobs) + 1 /\ next >= 1
         /\ \A t \in Threads : held[t] \in Nat
<1>1. Len(jobs) \in Nat
  BY DEF PoolType
<1>2. \A t \in Threads : held[t] \in Nat
  BY <1>1 DEF PoolType
<1> QED
  BY <1>1, <1>2, WorkPoolAssumption DEF PoolType

\* A scan begins: an empty ring, and every worker looking for an item.
LEMMA BeginPool ==
  ASSUME PlansCovered, PoolInv, NEW ports \in Seq(Nat), Begin(ports)
  PROVE  PoolInv'
<1>1. PICK cidr \in ps_cidr_parse(plan.addr, plan.prefix) :
        jobs' = Jobs(cidr, ports) /\ freed' = [k \in DOMAIN Jobs(cidr, ports) |-> 0]
  BY Zenon DEF Begin
<1>2. /\ mpc = "start" /\ ports # <<>> /\ pcnt' = Len(ports) /\ mpc' = "next"
      /\ W' = NoPool /\ pc' = [t \in Threads |-> "loop"]
      /\ UNCHANGED <<plan, next, held>>
  BY DEF Begin, ps_workers_init
<1>3. plan \in Plans /\ jobs = <<>> /\ next = 1 /\ held \in [Threads -> 0 .. 0]
  BY <1>2 DEF PoolInv, PoolType, MainInv
<1>4. jobs' \in Seq(Job) /\ Len(ports) \in Nat \ {0}
  BY <1>1, <1>2, <1>3 DEF PlansCovered
<1>5. Len(jobs') \in Nat /\ DOMAIN jobs' = 1 .. Len(jobs')
  BY <1>4
<1>6. freed' = [k \in 1 .. Len(jobs') |-> 0]
  BY <1>1, <1>5
<1>7. QCap \in Nat \ {0}
  BY WorkPoolAssumption
<1>8. /\ NoPool \in [queue : [0 .. QCap - 1 -> Nat], q_head : 0 .. QCap - 1,
                     q_tail : 0 .. QCap - 1, q_count : 0 .. QCap,
                     closed : BOOLEAN, cancel : BOOLEAN]
      /\ NoPool.q_count = 0 /\ NoPool.q_head = 0 /\ NoPool.q_tail = 0
      /\ NoPool.closed = FALSE
  BY <1>7 DEF NoPool
<1>9. PoolType'
  <2>1. held' \in [Threads -> 0 .. Len(jobs')] /\ next' \in 1 .. Len(jobs') + 1
    BY <1>2, <1>3, <1>5
  <2>2. freed' \in [1 .. Len(jobs') -> Nat]
    BY <1>5, <1>6
  <2> QED
    BY <1>2, <1>3, <1>4, <1>8, <2>1, <2>2 DEF PoolType
<1>10. RingInv'
  BY <1>2, <1>3, <1>7, <1>8 DEF RingInv
<1>11. HandsInv'
  BY <1>2, <1>3, <1>5, <1>6, <1>8 DEF HandsInv, Busy
<1>12. MainInv'
  BY <1>2, <1>8 DEF MainInv
<1> QED
  BY <1>9, <1>10, <1>11, <1>12 DEF PoolInv

\* Nothing is taken and no item freed, but items may be added.
LEMMA HandsSame ==
  ASSUME PoolInv, NEW d \in Nat, W'.q_count = W.q_count + d, next' = next + d,
         UNCHANGED <<held, jobs, freed>>,
         \A t \in Threads : pc'[t] \in Busy <=> pc[t] \in Busy
  PROVE  HandsInv'
<1>1. /\ W.q_count \in Nat /\ next \in Nat /\ Len(jobs) \in Nat
      /\ \A t \in Threads : held[t] \in Nat
  <2>1. PoolType
    BY DEF PoolInv
  <2> QED
    BY <2>1, PoolFields
<1>2. \A k \in Nat : k + W'.q_count < next' <=> k + W.q_count < next
  BY <1>1
<1>3. \A k : Held(k)' <=> Held(k)
  BY DEF Held
<1>4. \A t \in Threads : pc'[t] \in Busy => held'[t] >= 1 /\ held'[t] + W'.q_count < next'
  BY <1>1, <1>2, Zenon DEF PoolInv, HandsInv
<1>5. \A t, u \in Threads :
        pc'[t] \in Busy /\ pc'[u] \in Busy /\ held'[t] = held'[u] => t = u
  BY Zenon DEF PoolInv, HandsInv
<1>6. \A k \in 1 .. Len(jobs') :
        freed'[k] = IF k + W'.q_count < next' /\ ~Held(k)' THEN 1 ELSE 0
  <2> TAKE k \in 1 .. Len(jobs')
  <2>1. k \in 1 .. Len(jobs) /\ k \in Nat
    BY <1>1
  <2>2. freed[k] = IF k + W.q_count < next /\ ~Held(k) THEN 1 ELSE 0
    BY <2>1, Zenon DEF PoolInv, HandsInv
  <2> QED
    BY <1>2, <1>3, <2>1, <2>2, Zenon
<1> QED
  BY <1>4, <1>5, <1>6, Zenon DEF HandsInv

\* A worker moves on without taking or freeing an item.
LEMMA PcPool ==
  ASSUME PoolInv, NEW t \in Threads, NEW p,
         p \in {"none", "loop", "wait", "admit", "limit", "run", "probe", "exit"},
         pc' = [pc EXCEPT ![t] = p], p \in Busy <=> pc[t] \in Busy,
         p = "exit" => W.closed /\ W.q_count = 0,
         pc[t] \notin {"none", "exit"},
         UNCHANGED <<plan, mpc, W, held, jobs, pcnt, next, freed>>
  PROVE  PoolInv'
<1>1. PoolType /\ RingInv /\ HandsInv /\ MainInv
  BY DEF PoolInv
<1>2. PoolType'
  BY <1>1 DEF PoolType
<1>3. RingInv'
  BY <1>1, Zenon DEF RingInv
<1>4. \A u \in Threads : pc'[u] = IF u = t THEN p ELSE pc[u]
  BY <1>1 DEF PoolType
<1>5. HandsInv'
  <2>1. \A u \in Threads : pc'[u] \in Busy <=> pc[u] \in Busy
    BY <1>4
  <2>2. W'.q_count = W.q_count + 0 /\ next' = next + 0
    BY <1>1, PoolFields
  <2> QED
    BY <2>1, <2>2, HandsSame
<1>6. MainInv'
  BY <1>1, <1>4 DEF MainInv, Joined
<1> QED
  BY <1>2, <1>3, <1>5, <1>6 DEF PoolInv

\* ps_workers_submit puts the next item behind the others.
LEMMA SubmitPool ==
  ASSUME PoolInv, mpc = "submit", ps_workers_submit(next), next' = next + 1,
         mpc' = "next", UNCHANGED <<plan, jobs, pcnt, freed>>
  PROVE  PoolInv'
<1>1. PoolType /\ RingInv /\ HandsInv /\ MainInv
  BY DEF PoolInv
<1> DEFINE q == QCap
           h == W.q_head
           c == W.q_count
<1>2. /\ W.queue \in [0 .. q - 1 -> Nat] /\ h \in 0 .. q - 1
      /\ W.q_tail \in 0 .. q - 1 /\ c \in 0 .. q
      /\ W.closed \in BOOLEAN /\ W.cancel \in BOOLEAN
      /\ q \in Nat \ {0} /\ next \in Nat /\ Len(jobs) \in Nat
      /\ next \in 1 .. Len(jobs) + 1
  BY <1>1, PoolFields
<1>3. ~W.closed /\ next <= Len(jobs)
  BY <1>1 DEF MainInv
<1>4. c < q
  <2>1. ~(c = q)
    BY <1>3 DEF ps_workers_submit, Full
  <2> QED
    BY <1>2, <2>1
<1>5. /\ W' = [W EXCEPT !.queue[W.q_tail] = next, !.q_tail = (W.q_tail + 1) % QCap,
                        !.q_count = @ + 1]
      /\ UNCHANGED held
  BY DEF ps_workers_submit, Enqueue
<1>6. W.q_tail = (h + c) % q
  BY <1>1 DEF RingInv
<1>7. /\ \A i \in 0 .. q : (h + i) % q \in 0 .. q - 1
      /\ \A i, j \in 0 .. q - 1 : (h + i) % q = (h + j) % q => i = j
      /\ (((h + c) % q) + 1) % q = (h + (c + 1)) % q
  <2> HIDE DEF q, h, c
  <2>1. c \in 0 .. q - 1
    BY <1>2, <1>4
  <2>2. q \in Nat \ {0} /\ h \in 0 .. q - 1
    BY <1>2
  <2>3. \A x \in 0 .. q - 1 : (((h + x) % q) + 1) % q = (h + (x + 1)) % q
    BY <2>2, RingNext, Zenon
  <2>4. /\ \A i \in 0 .. q : (h + i) % q \in 0 .. q - 1
        /\ \A i, j \in 0 .. q - 1 : (h + i) % q = (h + j) % q => i = j
    BY <2>2, RingDistinct, Zenon
  <2> QED
    BY <2>1, <2>3, <2>4, Zenon
<1>8. /\ W'.queue = [W.queue EXCEPT ![W.q_tail] = next]
      /\ W'.q_tail = (W.q_tail + 1) % q
      /\ W'.q_head = h /\ W'.q_count = c + 1
      /\ W'.closed = W.closed /\ W'.cancel = W.cancel
      /\ W' = [queue |-> W'.queue, q_head |-> W'.q_head, q_tail |-> W'.q_tail,
               q_count |-> W'.q_count, closed |-> W'.closed, cancel |-> W'.cancel]
  BY <1>1, <1>5, Zenon DEF PoolType
<1>9. W'.q_tail = (h + (c + 1)) % q /\ (h + (c + 1)) % q \in 0 .. q - 1
  <2> HIDE DEF q, h, c
  <2>1. c + 1 \in 0 .. q
    BY <1>2, <1>4
  <2> QED
    BY <1>6, <1>7, <1>8, <2>1
<1>10. /\ pc' \in [Threads -> {"none", "loop", "wait", "admit", "limit", "run",
                               "probe", "exit"}]
       /\ \A t \in Threads : pc'[t] \in Busy <=> pc[t] \in Busy
       /\ \A t \in Threads : pc'[t] = "exit" <=> pc[t] = "exit"
  <2>1. CASE UNCHANGED pc
    BY <1>1, <2>1 DEF PoolType
  <2>2. ASSUME NEW t \in Waiting, pc' = [pc EXCEPT ![t] = "loop"]
        PROVE  /\ pc' \in [Threads -> {"none", "loop", "wait", "admit", "limit",
                                       "run", "probe", "exit"}]
               /\ \A u \in Threads : pc'[u] \in Busy <=> pc[u] \in Busy
               /\ \A u \in Threads : pc'[u] = "exit" <=> pc[u] = "exit"
    BY <1>1, <2>2 DEF PoolType, Waiting, Busy
  <2> QED
    BY <2>1, <2>2 DEF ps_workers_submit, SignalWorker
<1>11. PoolType'
  <2>1. W' \in [queue : [0 .. QCap - 1 -> Nat], q_head : 0 .. QCap - 1,
                q_tail : 0 .. QCap - 1, q_count : 0 .. QCap,
                closed : BOOLEAN, cancel : BOOLEAN]
    <3>1. W'.queue \in [0 .. q - 1 -> Nat]
      BY <1>2, <1>8, Zenon
    <3>2. W'.q_count \in 0 .. q
      <4>1. c + 1 \in 0 .. q
        <5> HIDE DEF q, c
        <5> QED
          BY <1>2, <1>4
      <4> QED
        BY <1>8, <4>1, Zenon
    <3> QED
      BY <1>2, <1>8, <1>9, <3>1, <3>2, Zenon
  <2>2. next' \in 1 .. Len(jobs') + 1
    BY <1>2, <1>3
  <2> QED
    BY <1>1, <1>5, <1>10, <2>1, <2>2, Zenon DEF PoolType
<1>12. RingInv'
  <2>1. W'.q_count < next'
    BY <1>1, <1>2, <1>8 DEF RingInv
  <2>2. \A i \in 0 .. c - 1 : W.queue[(h + i) % q] = (next - c) + i
    BY <1>1 DEF RingInv
  <2>3. \A i \in 0 .. c : W'.queue[(h + i) % q] = (next - c) + i
    <3> TAKE i \in 0 .. c
    <3>1. i \in 0 .. q - 1 /\ c \in 0 .. q - 1 /\ (h + i) % q \in 0 .. q - 1
      <4> HIDE DEF q, h, c
      <4>1. i \in 0 .. q - 1 /\ c \in 0 .. q - 1 /\ i \in 0 .. q
        BY <1>2, <1>4
      <4> QED
        BY <1>7, <4>1
    <3>2. CASE i = c
      <4>1. W'.queue[(h + i) % q] = next
        BY <1>2, <1>6, <1>8, <3>1, <3>2
      <4> QED
        BY <1>2, <3>2, <4>1
    <3>3. CASE i # c
      <4>1. (h + i) % q # W.q_tail
        BY <1>6, <1>7, <3>1, <3>3
      <4>2. W'.queue[(h + i) % q] = W.queue[(h + i) % q]
        BY <1>2, <1>8, <3>1, <4>1, Zenon
      <4>3. i \in 0 .. c - 1
        BY <1>2, <3>3
      <4> QED
        BY <2>2, <4>2, <4>3
    <3> QED
      BY <3>2, <3>3
  <2>4. (next + 1) - (c + 1) = next - c /\ (c + 1) - 1 = c
    BY <1>2
  <2>5. \A i \in 0 .. W'.q_count - 1 :
          W'.queue[(W'.q_head + i) % QCap] = (next' - W'.q_count) + i
    BY <1>8, <2>3, <2>4
  <2> QED
    BY <1>8, <1>9, <2>1, <2>5, Zenon DEF RingInv
<1>13. HandsInv'
  BY <1>5, <1>8, <1>10, HandsSame
<1>14. MainInv'
  <2>1. \A t \in Threads : pc[t] # "exit"
    BY <1>1, <1>3 DEF MainInv
  <2> QED
    BY <1>3, <1>8, <1>10, <2>1 DEF MainInv
<1> QED
  BY <1>11, <1>12, <1>13, <1>14 DEF PoolInv

\* A worker frees its item and is back in its loop.
LEMMA FreePool ==
  ASSUME PoolInv, NEW t \in Threads, pc[t] \in Busy,
         freed' = [freed EXCEPT ![held[t]] = @ + 1],
         pc' = [pc EXCEPT ![t] = "loop"],
         UNCHANGED <<plan, mpc, W, held, jobs, pcnt, next>>
  PROVE  PoolInv' /\ freed[held[t]] = 0 /\ held[t] \in 1 .. Len(jobs)
<1>1. PoolType /\ RingInv /\ HandsInv /\ MainInv
  BY DEF PoolInv
<1>2. /\ W.q_count \in Nat /\ next \in 1 .. Len(jobs) + 1 /\ Len(jobs) \in Nat
      /\ \A u \in Threads : held[u] \in Nat
  BY <1>1, PoolFields
<1>3. held[t] \in 1 .. Len(jobs) /\ held[t] + W.q_count < next
  BY <1>1, <1>2 DEF HandsInv
<1>4. \A u \in Threads : pc'[u] = IF u = t THEN "loop" ELSE pc[u]
  BY <1>1 DEF PoolType
<1>5. \A k : Held(k)' <=> Held(k) /\ k # held[t]
  <2>1. \A u \in Threads : pc'[u] \in Busy <=> pc[u] \in Busy /\ u # t
    BY <1>4 DEF Busy
  <2>2. \A u \in Threads : pc[u] \in Busy /\ held[u] = held[t] => u = t
    BY <1>1, Zenon DEF HandsInv
  <2> QED
    BY <2>1, <2>2, Zenon DEF Held
<1>6. \A k \in 1 .. Len(jobs) :
        freed[k] = IF k + W.q_count < next /\ ~Held(k) THEN 1 ELSE 0
  BY <1>1 DEF HandsInv
<1>7. freed[held[t]] = 0
  <2>1. Held(held[t])
    BY DEF Held
  <2> QED
    BY <1>3, <1>6, <2>1, Zenon
<1>8. \A k \in 1 .. Len(jobs) : freed'[k] = IF k = held[t] THEN 1 ELSE freed[k]
  BY <1>1, <1>7 DEF PoolType
<1>9. HandsInv'
  <2>1. \A k \in 1 .. Len(jobs') :
          freed'[k] = IF k + W'.q_count < next' /\ ~Held(k)' THEN 1 ELSE 0
    BY <1>3, <1>5, <1>6, <1>8, Zenon
  <2>2. \A u \in Threads : pc'[u] \in Busy => pc[u] \in Busy
    BY <1>4 DEF Busy
  <2>3. \A u \in Threads : pc'[u] \in Busy => held'[u] >= 1 /\ held'[u] + W'.q_count < next'
    BY <1>1, <2>2, Zenon DEF HandsInv
  <2>4. \A v, u \in Threads :
          pc'[v] \in Busy /\ pc'[u] \in Busy /\ held'[v] = held'[u] => v = u
    BY <1>1, <2>2, Zenon DEF HandsInv
  <2> QED
    BY <2>1, <2>3, <2>4, Zenon DEF HandsInv
<1>10. PoolType'
  <2>1. freed' \in [1 .. Len(jobs) -> Nat]
    BY <1>1, <1>3 DEF PoolType
  <2>2. pc' \in [Threads -> {"none", "loop", "wait", "admit", "limit", "run",
                            "probe", "exit"}]
    BY <1>1 DEF PoolType
  <2> QED
    BY <1>1, <2>1, <2>2, Zenon DEF PoolType
<1>11. RingInv'
  BY <1>1 DEF RingInv
<1>12. MainInv'
  <2>1. pc[t] # "none" /\ pc[t] # "exit"
    BY DEF Busy
  <2> QED
    BY <1>1, <1>4, <2>1 DEF MainInv, Joined
<1> QED
  BY <1>3, <1>7, <1>9, <1>10, <1>11, <1>12 DEF PoolInv

\* The numbers of the items when the oldest of c in the ring is taken.
LEMMA TakeNumbers ==
  ASSUME NEW q \in Nat \ {0}, NEW c \in 1 .. q, NEW L \in Nat, NEW n \in 1 .. L + 1, c < n
  PROVE  /\ n - c \in 1 .. L /\ (n - c) + 0 = n - c
         /\ n - c >= 1 /\ (n - c) + (c - 1) < n
         /\ \A i \in 0 .. (c - 1) - 1 :
              /\ i \in 0 .. q - 1 /\ i + 1 \in 0 .. c - 1
              /\ (n - c) + (i + 1) = (n - (c - 1)) + i
         /\ \A k \in Nat : k + (c - 1) < n <=> k + c < n \/ k = n - c
         /\ \A k \in Nat : k + c < n => k # n - c
OBVIOUS

\* A worker takes the oldest item of the ring.
LEMMA TakePool ==
  ASSUME PoolInv, NEW t \in Threads, pc[t] = "loop", W.q_count > 0,
         held' = [held EXCEPT ![t] = W.queue[W.q_head]],
         W' = [W EXCEPT !.q_head = (W.q_head + 1) % QCap, !.q_count = @ - 1],
         pc' = [pc EXCEPT ![t] = "admit"],
         mpc' = IF mpc = "full" THEN "submit" ELSE mpc,
         UNCHANGED <<plan, jobs, pcnt, next, freed>>
  PROVE  PoolInv'
<1>1. PoolType /\ RingInv /\ HandsInv /\ MainInv
  BY DEF PoolInv
<1> DEFINE q == QCap
           h == W.q_head
           c == W.q_count
<1>2. /\ W.queue \in [0 .. q - 1 -> Nat] /\ h \in 0 .. q - 1
      /\ W.q_tail \in 0 .. q - 1 /\ c \in 0 .. q
      /\ W.closed \in BOOLEAN /\ W.cancel \in BOOLEAN
      /\ q \in Nat \ {0} /\ next \in Nat /\ Len(jobs) \in Nat
      /\ next \in 1 .. Len(jobs) + 1
      /\ \A u \in Threads : held[u] \in Nat
  BY <1>1, PoolFields
<1>3. c \in 1 .. q /\ c - 1 \in 0 .. q - 1 /\ c - 1 \in Nat
  <2>1. q \in Nat \ {0} /\ c \in 0 .. q /\ c > 0
    BY <1>2, Zenon
  <2> HIDE DEF q, c
  <2> QED
    BY <2>1
<1>4. /\ (h + 0) % q = h /\ (h + 1) % q \in 0 .. q - 1
      /\ \A i \in 0 .. q - 1 : (((h + 1) % q) + i) % q = (h + (i + 1)) % q
  <2> HIDE DEF q, h
  <2>1. q \in Nat \ {0} /\ h \in 0 .. q - 1
    BY <1>2
  <2>2. (h + 0) % q = h
    BY <2>1, RingDistinct, Zenon
  <2>3. (h + 1) % q \in 0 .. q - 1
    BY <2>1, RingDistinct, Zenon
  <2>4. \A i \in 0 .. q - 1 : (((h + 1) % q) + i) % q = (h + (i + 1)) % q
    BY <2>1, RingShift, Zenon
  <2> QED
    BY <2>2, <2>3, <2>4, Zenon
<1>5. /\ W'.queue = W.queue /\ W'.q_tail = W.q_tail
      /\ W'.q_head = (h + 1) % q /\ W'.q_count = c - 1
      /\ W'.closed = W.closed /\ W'.cancel = W.cancel
      /\ W' = [queue |-> W'.queue, q_head |-> W'.q_head, q_tail |-> W'.q_tail,
               q_count |-> W'.q_count, closed |-> W'.closed, cancel |-> W'.cancel]
  BY <1>1, Zenon DEF PoolType
<1>6. /\ W.q_tail = (h + c) % q /\ c < next
      /\ \A i \in 0 .. c - 1 : W.queue[(h + i) % q] = (next - c) + i
  BY <1>1 DEF RingInv
<1>6a. /\ next - c \in 1 .. Len(jobs) /\ (next - c) + 0 = next - c
       /\ next - c >= 1 /\ (next - c) + (c - 1) < next
       /\ \A i \in 0 .. (c - 1) - 1 :
            /\ i \in 0 .. q - 1 /\ i + 1 \in 0 .. c - 1
            /\ (next - c) + (i + 1) = (next - (c - 1)) + i
       /\ \A k \in Nat : k + (c - 1) < next <=> k + c < next \/ k = next - c
       /\ \A k \in Nat : k + c < next => k # next - c
  <2> HIDE DEF q, c
  <2>1. q \in Nat \ {0} /\ c \in 1 .. q /\ Len(jobs) \in Nat /\ next \in 1 .. Len(jobs) + 1 /\ c < next
    BY <1>2, <1>3, <1>6
  <2> QED
    BY <2>1, TakeNumbers, Zenon
<1>7. W.queue[h] = next - c /\ next - c \in 1 .. Len(jobs)
  <2>1. 0 \in 0 .. c - 1
    BY <1>3
  <2>2. W.queue[(h + 0) % q] = (next - c) + 0
    BY <1>6, <2>1
  <2>3. (next - c) + 0 = next - c /\ next - c \in 1 .. Len(jobs)
    BY <1>6a
  <2> QED
    BY <1>4, <2>2, <2>3
<1>8. \A u \in Threads : /\ pc'[u] = IF u = t THEN "admit" ELSE pc[u]
                         /\ held'[u] = IF u = t THEN next - c ELSE held[u]
  BY <1>1, <1>7 DEF PoolType
<1>9. PoolType'
  <2>1. W' \in [queue : [0 .. QCap - 1 -> Nat], q_head : 0 .. QCap - 1,
                q_tail : 0 .. QCap - 1, q_count : 0 .. QCap,
                closed : BOOLEAN, cancel : BOOLEAN]
    <3>1. W'.q_count \in 0 .. q
      BY <1>3, <1>5, <1>2
    <3> QED
      BY <1>2, <1>4, <1>5, <3>1, Zenon
  <2>2. held' \in [Threads -> 0 .. Len(jobs')]
    <3>1. next - c \in 0 .. Len(jobs)
      BY <1>2, <1>7
    <3>2. held \in [Threads -> 0 .. Len(jobs)] /\ jobs' = jobs
      BY <1>1, Zenon DEF PoolType
    <3> QED
      BY <1>7, <3>1, <3>2, Zenon
  <2> QED
    BY <1>1, <2>1, <2>2, Zenon DEF PoolType
<1>10. RingInv'
  <2>1. W'.q_count < next'
    BY <1>2, <1>3, <1>5, <1>6
  <2>2. W'.q_tail = (W'.q_head + W'.q_count) % q
    <3>1. (((h + 1) % q) + (c - 1)) % q = (h + ((c - 1) + 1)) % q
      BY <1>3, <1>4, Zenon
    <3>2. (c - 1) + 1 = c
      BY <1>2
    <3> QED
      BY <1>5, <1>6, <3>1, <3>2
  <2>3. \A i \in 0 .. (c - 1) - 1 : W'.queue[(W'.q_head + i) % q] = (next - (c - 1)) + i
    <3> TAKE i \in 0 .. (c - 1) - 1
    <3>1. /\ i \in 0 .. q - 1 /\ i + 1 \in 0 .. c - 1
          /\ (next - c) + (i + 1) = (next - (c - 1)) + i
      BY <1>6a, Zenon
    <3>2. (((h + 1) % q) + i) % q = (h + (i + 1)) % q
      BY <1>4, <3>1, Zenon
    <3>3. W.queue[(h + (i + 1)) % q] = (next - c) + (i + 1)
      BY <1>6, <3>1, Zenon
    <3> QED
      BY <1>5, <3>1, <3>2, <3>3, Zenon
  <2> QED
    BY <1>5, <2>1, <2>2, <2>3, Zenon DEF RingInv
<1>11. HandsInv'
  <2>1. \A k \in Nat : k + (c - 1) < next <=> k + c < next \/ k = next - c
    BY <1>6a
  <2>2. \A u \in Threads : pc[u] \in Busy => held[u] >= 1 /\ held[u] + c < next /\ held[u] # next - c
    <3>1. \A u \in Threads : pc[u] \in Busy => held[u] >= 1 /\ held[u] + c < next
      BY <1>1 DEF HandsInv
    <3>2. \A k \in Nat : k + c < next => k # next - c
      BY <1>6a
    <3> QED
      BY <1>2, <3>1, <3>2
  <2>3. \A u \in Threads : pc'[u] \in Busy <=> pc[u] \in Busy \/ u = t
    BY <1>8 DEF Busy
  <2>4. pc[t] \notin Busy
    BY DEF Busy
  <2>5. \A u \in Threads : pc'[u] \in Busy => held'[u] >= 1 /\ held'[u] + W'.q_count < next'
    <3> TAKE u \in Threads
    <3>1. CASE u = t
      <4>1. held'[u] = next - c
        BY <1>8, <3>1, Zenon
      <4> QED
        BY <1>5, <1>6a, <4>1, Zenon
    <3>2. CASE u # t
      <4>1. held'[u] = held[u] /\ held[u] \in Nat /\ (pc'[u] \in Busy => pc[u] \in Busy)
        BY <1>2, <1>8, <2>3, <3>2, Zenon
      <4>2. ASSUME pc'[u] \in Busy PROVE held[u] >= 1 /\ held[u] + c < next
        BY <2>2, <4>1, <4>2
      <4>3. ASSUME held[u] + c < next PROVE held[u] + (c - 1) < next
        BY <2>1, <4>1, <4>3, Zenon
      <4> QED
        BY <1>5, <4>1, <4>2, <4>3, Zenon
    <3> QED
      BY <3>1, <3>2
  <2>6. \A v, u \in Threads :
          pc'[v] \in Busy /\ pc'[u] \in Busy /\ held'[v] = held'[u] => v = u
    <3>1. \A v, u \in Threads : pc[v] \in Busy /\ pc[u] \in Busy /\ held[v] = held[u] => v = u
      BY <1>1 DEF HandsInv
    <3> SUFFICES ASSUME NEW v \in Threads, NEW u \in Threads, pc'[v] \in Busy,
                        pc'[u] \in Busy, held'[v] = held'[u], v # u
                 PROVE  FALSE
      OBVIOUS
    <3>2. CASE u = t
      <4>1. held'[u] = next - c /\ held'[v] = held[v] /\ pc[v] \in Busy
        BY <1>8, <2>3, <3>2
      <4> QED
        BY <2>2, <4>1
    <3>3. CASE v = t
      <4>1. held'[v] = next - c /\ held'[u] = held[u] /\ pc[u] \in Busy
        BY <1>8, <2>3, <3>3
      <4> QED
        BY <2>2, <4>1
    <3>4. CASE u # t /\ v # t
      <4>1. held'[v] = held[v] /\ held'[u] = held[u] /\ pc[v] \in Busy /\ pc[u] \in Busy
        BY <1>8, <2>3, <3>4
      <4> QED
        BY <3>1, <4>1
    <3> QED
      BY <3>2, <3>3, <3>4
  <2>7. \A k : Held(k)' <=> Held(k) \/ k = next - c
    BY <1>8, <2>3, <2>4, Zenon DEF Held
  <2>8. \A k \in 1 .. Len(jobs') :
          freed'[k] = IF k + W'.q_count < next' /\ ~Held(k)' THEN 1 ELSE 0
    <3> TAKE k \in 1 .. Len(jobs')
    <3>1. k \in 1 .. Len(jobs) /\ k \in Nat
      BY <1>2
    <3>2. freed[k] = IF k + c < next /\ ~Held(k) THEN 1 ELSE 0
      BY <1>1, <3>1, Zenon DEF HandsInv
    <3>3. k = next - c => ~(k + c < next)
      BY <1>2, <3>1
    <3> QED
      BY <1>5, <2>1, <2>7, <3>1, <3>2, <3>3, Zenon
  <2> QED
    BY <2>5, <2>6, <2>8, Zenon DEF HandsInv
<1>12. MainInv'
  <2>1. c # 0
    BY <1>3
  <2>2. \A u \in Threads : pc[u] # "exit" /\ pc'[u] # "exit"
    BY <1>1, <1>8, <2>1 DEF MainInv
  <2>3. mpc # "start" /\ ~(mpc = "done" /\ jobs # <<>>)
    BY <1>1 DEF MainInv, Joined
  <2>4. mpc' \in {"submit", "full"} => next' <= Len(jobs')
    BY <1>1 DEF MainInv
  <2>5. W'.closed => mpc' \in {"join", "done"}
    BY <1>1, <1>5 DEF MainInv
  <2>6. mpc' \in {"hop", "ptrjoin"} => jobs' = <<>>
    BY <1>1 DEF MainInv
  <2>7. mpc' # "start" /\ ~(mpc' = "done" /\ jobs' # <<>>)
    BY <2>3
  <2> QED
    BY <2>2, <2>4, <2>5, <2>6, <2>7 DEF MainInv
<1> QED
  BY <1>9, <1>10, <1>11, <1>12 DEF PoolInv

\* ps_workers_finish closes the pool and wakes the workers that wait.
LEMMA ClosePool ==
  ASSUME PoolInv, Finish
  PROVE  PoolInv'
<1>1. PoolType /\ RingInv /\ HandsInv /\ MainInv
  BY DEF PoolInv
<1>2. /\ W' = [W EXCEPT !.closed = TRUE]
      /\ pc' = [t \in Threads |-> IF t \in Waiting THEN "loop" ELSE pc[t]]
      /\ mpc = "finish" /\ mpc' = "join"
      /\ UNCHANGED <<plan, held, jobs, pcnt, next, freed>>
  BY DEF Finish, Close, scanVars
<1>3. /\ W'.queue = W.queue /\ W'.q_head = W.q_head /\ W'.q_tail = W.q_tail
      /\ W'.q_count = W.q_count
      /\ W' \in [queue : [0 .. QCap - 1 -> Nat], q_head : 0 .. QCap - 1,
                 q_tail : 0 .. QCap - 1, q_count : 0 .. QCap,
                 closed : BOOLEAN, cancel : BOOLEAN]
  BY <1>1, <1>2, Zenon DEF PoolType
<1>4. \A t \in Threads : /\ pc'[t] \in Busy <=> pc[t] \in Busy
                         /\ pc'[t] = "exit" <=> pc[t] = "exit"
  BY <1>2 DEF Waiting, Busy
<1>5. PoolType'
  <2>1. pc' \in [Threads -> {"none", "loop", "wait", "admit", "limit", "run",
                             "probe", "exit"}]
    BY <1>1, <1>2 DEF PoolType
  <2> QED
    BY <1>1, <1>2, <1>3, <2>1, Zenon DEF PoolType
<1>6. RingInv'
  BY <1>1, <1>2, <1>3 DEF RingInv
<1>7. HandsInv'
  <2>1. W'.q_count = W.q_count + 0 /\ next' = next + 0
    <3>1. W.q_count \in 0 .. QCap /\ QCap \in Nat /\ next \in Nat
      BY <1>1, PoolFields
    <3>2. W.q_count + 0 = W.q_count /\ next + 0 = next
      BY <3>1
    <3> QED
      BY <1>2, <1>3, <3>2, Zenon
  <2> QED
    BY <1>2, <1>4, <2>1, HandsSame
<1>8. MainInv'
  <2>1. \A t \in Threads : pc'[t] # "exit"
    BY <1>1, <1>2, <1>4 DEF MainInv
  <2> QED
    BY <1>2, <2>1 DEF MainInv
<1> QED
  BY <1>5, <1>6, <1>7, <1>8 DEF PoolInv

\* A signal only sets cancel.
LEMMA CancelPool ==
  ASSUME PoolInv, Interrupt
  PROVE  PoolInv' /\ W'.cancel = TRUE
<1>1. PoolType /\ RingInv /\ HandsInv /\ MainInv
  BY DEF PoolInv
<1>2. /\ W' = [W EXCEPT !.cancel = TRUE]
      /\ mpc # "start"
      /\ UNCHANGED <<plan, mpc, pc, held, jobs, pcnt, next, freed>>
  BY DEF Interrupt, ps_workers_cancel
<1>3. /\ W'.queue = W.queue /\ W'.q_head = W.q_head /\ W'.q_tail = W.q_tail
      /\ W'.q_count = W.q_count /\ W'.closed = W.closed /\ W'.cancel = TRUE
      /\ W' \in [queue : [0 .. QCap - 1 -> Nat], q_head : 0 .. QCap - 1,
                 q_tail : 0 .. QCap - 1, q_count : 0 .. QCap,
                 closed : BOOLEAN, cancel : BOOLEAN]
  BY <1>1, <1>2, Zenon DEF PoolType
<1>4. PoolType'
  BY <1>1, <1>2, <1>3, Zenon DEF PoolType
<1>5. RingInv'
  BY <1>1, <1>2, <1>3 DEF RingInv
<1>6. HandsInv'
  <2>1. W'.q_count = W.q_count + 0 /\ next' = next + 0
    <3>1. W.q_count \in 0 .. QCap /\ QCap \in Nat /\ next \in Nat
      BY <1>1, PoolFields
    <3>2. W.q_count + 0 = W.q_count /\ next + 0 = next
      BY <3>1
    <3> QED
      BY <1>2, <1>3, <3>2, Zenon
  <2> QED
    BY <1>2, <2>1, HandsSame
<1>7. MainInv'
  BY <1>1, <1>2, <1>3 DEF MainInv, Joined
<1> QED
  BY <1>3, <1>4, <1>5, <1>6, <1>7 DEF PoolInv

\* The main thread moves on, or does not move.
MainStep ==
  /\ UNCHANGED PoolParts
  /\ \/ RefuseScan \/ NextJob \/ SpuriousMain \/ Return
     \/ StartTrace \/ EndTrace \/ PtrJoin
     \/ mpc = "submit" /\ mpc' = "full"
     \/ mpc' = mpc

\* Where the main thread goes when it leaves the pool alone.
LEMMA MainMoves ==
  ASSUME PoolInv, MainStep
  PROVE  PoolInv'
<1>1. PoolType /\ RingInv /\ HandsInv /\ MainInv
  BY DEF PoolInv
<1>2. Len(jobs) \in Nat /\ next \in Nat /\ UNCHANGED PoolParts
  BY <1>1, PoolFields DEF MainStep
<1>3. MainInv' /\ mpc' \in {"start", "next", "submit", "full", "finish", "join",
                            "hop", "ptrjoin", "done"}
  <2>1. CASE RefuseScan
    BY <1>1, <1>2, <2>1 DEF RefuseScan, MainInv, Joined, PoolParts
  <2>2. CASE NextJob
    BY <1>1, <1>2, <2>2 DEF NextJob, MainInv, Joined, PoolParts
  <2>3. CASE SpuriousMain
    BY <1>1, <1>2, <2>3 DEF SpuriousMain, MainInv, Joined, PoolParts
  <2>4. CASE Return
    BY <1>1, <1>2, <2>4 DEF Return, MainInv, Joined, PoolParts
  <2>5. CASE StartTrace
    BY <1>1, <1>2, <2>5 DEF StartTrace, MainInv, Joined, PoolParts
  <2>6. CASE EndTrace
    BY <1>1, <1>2, <2>6 DEF EndTrace, MainInv, Joined, PoolParts
  <2>7. CASE PtrJoin
    BY <1>1, <1>2, <2>7 DEF PtrJoin, MainInv, Joined, PoolParts
  <2>8. CASE mpc = "submit" /\ mpc' = "full"
    BY <1>1, <1>2, <2>8 DEF MainInv, Joined, PoolParts
  <2>9. CASE mpc' = mpc
    BY <1>1, <1>2, <2>9 DEF PoolType, MainInv, Joined, PoolParts
  <2> QED
    BY <2>1, <2>2, <2>3, <2>4, <2>5, <2>6, <2>7, <2>8, <2>9, Zenon DEF MainStep
<1> QED
  BY <1>2, <1>3, PoolQuiet

\* A worker moves on.
WorkerStep(t) ==
  /\ UNCHANGED <<plan, mpc, W, held, jobs, pcnt, next, freed>>
  /\ \/ RunItem(t) /\ ~W.cancel
     \/ pc[t] = "limit" /\ pc' = [pc EXCEPT ![t] = "run"]
     \/ Admit(t) \/ SpuriousWorker(t)

\* What a step may do to the pool and its items: everything the workers and the
\* main thread do is one of these.
PoolStep ==
  \/ MainStep
  \/ \E ports \in Seq(Nat) : Begin(ports)
  \/ /\ mpc = "submit" /\ ps_workers_submit(next) /\ next' = next + 1
     /\ mpc' = "next" /\ UNCHANGED <<plan, jobs, pcnt, freed>>
  \/ Finish
  \/ Interrupt
  \/ \E t \in Threads :
       \/ TakeItem(t)
       \/ WorkerStep(t)
       \/ /\ pc[t] \in {"run", "probe"}
          /\ freed' = [freed EXCEPT ![held[t]] = @ + 1]
          /\ pc' = [pc EXCEPT ![t] = "loop"]
          /\ UNCHANGED <<plan, mpc, W, held, jobs, pcnt, next>>

\* Each of them keeps the invariant of the pool.
LEMMA StepPool == PlansCovered /\ PoolInv /\ PoolStep => PoolInv'
<1> SUFFICES ASSUME PlansCovered, PoolInv, PoolStep PROVE PoolInv'
  OBVIOUS
<1>1. ASSUME NEW t \in Threads, TakeItem(t) PROVE PoolInv'
  <2>1. /\ pc[t] = "loop"
        /\ mpc' = IF mpc = "full" /\ W'.q_count < W.q_count THEN "submit" ELSE mpc
        /\ UNCHANGED <<plan, jobs, pcnt, next, freed>>
    BY <1>1 DEF TakeItem, Take, scanVars
  <2>2. W.q_count \in Nat
    BY PoolFields DEF PoolInv
  <2>3. CASE /\ W.q_count = 0
             /\ pc' = [pc EXCEPT ![t] = IF W.closed THEN "exit" ELSE "wait"]
             /\ UNCHANGED <<W, held>>
    <3>1. mpc' = mpc
      BY <2>1, <2>2, <2>3
    <3> DEFINE p == IF W.closed THEN "exit" ELSE "wait"
    <3>2. /\ p \in {"none", "loop", "wait", "admit", "limit", "run", "probe", "exit"}
          /\ p \notin Busy /\ pc[t] \notin Busy /\ (p = "exit" => W.closed)
      BY <2>1 DEF Busy
    <3>3. pc' = [pc EXCEPT ![t] = p]
      BY <2>3
    <3>4. /\ UNCHANGED <<plan, mpc, W, held, jobs, pcnt, next, freed>>
          /\ pc[t] \notin {"none", "exit"}
          /\ p = "exit" => W.closed /\ W.q_count = 0
          /\ p \in Busy <=> pc[t] \in Busy
      BY <2>1, <2>3, <3>1, <3>2
    <3> HIDE DEF p
    <3> QED
      BY <3>2, <3>3, <3>4, PcPool, Zenon
  <2>4. CASE /\ W.q_count > 0
             /\ held' = [held EXCEPT ![t] = W.queue[W.q_head]]
             /\ W' = [W EXCEPT !.q_head = (W.q_head + 1) % QCap, !.q_count = @ - 1]
             /\ pc' = [pc EXCEPT ![t] = "admit"]
    <3>1. W'.q_count < W.q_count
      BY <2>2, <2>4 DEF PoolInv, PoolType
    <3>2. mpc' = IF mpc = "full" THEN "submit" ELSE mpc
      BY <2>1, <3>1
    <3> QED
      BY <2>1, <2>4, <3>2, TakePool, Zenon
  <2> QED
    BY <1>1, <2>3, <2>4 DEF TakeItem, Take
<1>2. ASSUME NEW t \in Threads, WorkerStep(t)
      PROVE  PoolInv'
  <2> USE <1>2 DEF WorkerStep
  <2>1. CASE RunItem(t) /\ ~W.cancel
    BY <2>1, PcPool DEF RunItem, Busy
  <2>2. CASE Admit(t)
    <3> DEFINE p == IF W.cancel THEN "run" ELSE "limit"
    <3>1. /\ pc' = [pc EXCEPT ![t] = p] /\ pc[t] = "admit"
      BY <2>2 DEF Admit
    <3>2. p \in {"run", "limit"}
      OBVIOUS
    <3> HIDE DEF p
    <3> QED
      BY <3>1, <3>2, PcPool, Zenon DEF Busy
  <2>3. CASE SpuriousWorker(t)
    BY <2>3, PcPool, Zenon DEF SpuriousWorker, Busy
  <2>4. CASE pc[t] = "limit" /\ pc' = [pc EXCEPT ![t] = "run"]
    BY <2>4, PcPool, Zenon DEF Busy
  <2> QED
    BY <2>1, <2>2, <2>3, <2>4
<1>3. ASSUME NEW t \in Threads, pc[t] \in {"run", "probe"},
             freed' = [freed EXCEPT ![held[t]] = @ + 1],
             pc' = [pc EXCEPT ![t] = "loop"],
             UNCHANGED <<plan, mpc, W, held, jobs, pcnt, next>>
      PROVE  PoolInv'
  <2>1. pc[t] \in Busy
    BY <1>3 DEF Busy
  <2> QED
    BY <1>3, <2>1, FreePool, Zenon
<1>4. ASSUME NEW ports \in Seq(Nat), Begin(ports) PROVE PoolInv'
  BY <1>4, BeginPool
<1>5. CASE Finish \/ Interrupt
  BY <1>5, ClosePool, CancelPool, Zenon
<1>6. CASE MainStep
  BY <1>6, MainMoves, Zenon
<1>7. CASE /\ mpc = "submit" /\ ps_workers_submit(next) /\ next' = next + 1
           /\ mpc' = "next" /\ UNCHANGED <<plan, jobs, pcnt, freed>>
  BY <1>7, SubmitPool, Zenon
<1> QED
  BY <1>1, <1>2, <1>3, <1>4, <1>5, <1>6, <1>7, Zenon DEF PoolStep

\* Every step of the program is one of these.
LEMMA NextPoolStep == PlansCovered /\ PoolInv /\ [Next]_vars => PoolStep
<1> SUFFICES ASSUME PlansCovered, PoolInv, [Next]_vars PROVE PoolStep
  OBVIOUS
<1>1. plan \in Plans
  BY DEF PoolInv, PoolType
<1>2. ASSUME UNCHANGED <<plan, mpc, poolVars, scanVars>> PROVE PoolStep
  BY <1>2 DEF PoolStep, MainStep, PoolParts, poolVars, scanVars
<1>3. CASE Main
  <2>1. PortList \in Seq(Nat) /\ <<0>> \in Seq(Nat)
    BY <1>1 DEF PlansCovered
  <2>2. CASE ps_scan_ports_run \/ ps_scan_udp_run \/ ps_discover_hosts_run
    BY <2>1, <2>2, Zenon
       DEF ps_scan_ports_run, ps_scan_udp_run, ps_discover_hosts_run, PoolStep
  <2>3. CASE RefuseScan \/ NextJob \/ Return \/ PtrJoin
    <3>1. UNCHANGED PoolParts
      BY <2>3 DEF RefuseScan, NextJob, Return, PtrJoin, PoolParts, poolVars, scanVars
    <3> QED
      BY <2>3, <3>1, Zenon DEF PoolStep, MainStep
  <2>4. CASE StartTrace \/ EndTrace
    <3>1. UNCHANGED PoolParts
      BY <2>4 DEF StartTrace, EndTrace, PoolParts, poolVars, scanVars
    <3> QED
      BY <2>4, <3>1, Zenon DEF PoolStep, MainStep
  <2>5. CASE tr_emit_cb
    <3>1. UNCHANGED <<plan, mpc, poolVars, scanVars>>
      BY <2>5, Zenon DEF tr_emit_cb
    <3> QED
      BY <1>2, <3>1
  <2>6. CASE Submit
    <3>1. CASE Full /\ mpc' = "full" /\ UNCHANGED <<next, poolVars>>
      BY <2>6, <3>1 DEF Submit, PoolStep, MainStep, PoolParts, poolVars
    <3>2. CASE ps_workers_submit(next) /\ next' = next + 1 /\ mpc' = "next"
      BY <2>6, <3>2 DEF Submit, PoolStep
    <3> QED
      BY <2>6, <3>1, <3>2 DEF Submit
  <2>7. CASE Finish
    BY <2>7 DEF PoolStep
  <2>8. CASE Recheck /\ UNCHANGED <<plan, mpc, poolVars, scanVars>>
    BY <1>2, <2>8
  <2> QED
    BY <1>3, <2>2, <2>3, <2>4, <2>5, <2>6, <2>7, <2>8 DEF Main
<1>4. ASSUME NEW t \in Threads, Worker(t) PROVE PoolStep
  <2>1. CASE TakeItem(t)
    BY <2>1, Zenon DEF PoolStep
  <2>2. CASE Admit(t) /\ UNCHANGED <<plan, mpc, ptrVars, scanVars>>
    <3>1. UNCHANGED <<plan, mpc, W, held, jobs, pcnt, next, freed>>
      BY <2>2 DEF Admit, scanVars
    <3> QED
      BY <2>2, <3>1, Zenon DEF PoolStep, WorkerStep
  <2>3. CASE ps_limiter_acquire(t) /\ UNCHANGED <<plan, mpc, ptrVars, scanVars>>
    <3>1. UNCHANGED <<plan, mpc, W, held, jobs, pcnt, next, freed>> /\ pc[t] = "limit"
      BY <2>3 DEF ps_limiter_acquire, scanVars
    <3>2. CASE pc' = [pc EXCEPT ![t] = "run"]
      BY <3>1, <3>2, Zenon DEF PoolStep, WorkerStep
    <3>3. CASE UNCHANGED pc
      BY <3>1, <3>3, Zenon DEF PoolStep, MainStep, PoolParts
    <3> QED
      BY <2>3, <3>2, <3>3 DEF ps_limiter_acquire
  <2>4. CASE RunItem(t)
    <3>1. UNCHANGED <<plan, mpc, W, held, jobs, pcnt, next>> /\ pc[t] = "run"
      BY <2>4 DEF RunItem
    <3>2. CASE W.cancel
      <4>1. FreeItem(t)
        BY <2>4, <3>2, Zenon DEF RunItem
      <4>2. pc[t] \in {"run", "probe"}
        BY <3>1
      <4> QED
        BY <3>1, <4>1, <4>2, Zenon DEF FreeItem, PoolStep
    <3>3. CASE ~W.cancel
      <4>1. UNCHANGED freed
        BY <2>4, <3>3 DEF RunItem
      <4>2. UNCHANGED <<plan, mpc, W, held, jobs, pcnt, next, freed>>
        BY <3>1, <4>1
      <4> QED
        BY <2>4, <3>3, <4>2, Zenon DEF PoolStep, WorkerStep
    <3> QED
      BY <3>2, <3>3
  <2>5. CASE scan_one(t) \/ udp_scan_one(t) \/ check_host(t)
    <3>1. UNCHANGED <<plan, mpc, W, held, jobs, pcnt, next>> /\ pc[t] \in {"run", "probe"}
      BY <2>5, Zenon DEF scan_one, udp_scan_one, check_host, ProbeOnce, itemVars
    <3>2. CASE FreeItem(t)
      BY <3>1, <3>2, Zenon DEF FreeItem, PoolStep
    <3>3. CASE UNCHANGED <<freed, pc>>
      BY <3>1, <3>3, Zenon DEF PoolStep, MainStep, PoolParts
    <3>4. FreeItem(t) \/ UNCHANGED <<freed, pc>>
      BY <2>5, Zenon DEF scan_one, udp_scan_one, check_host, ProbeOnce
    <3> QED
      BY <3>2, <3>3, <3>4
  <2> QED
    BY <1>4, <2>1, <2>2, <2>3, <2>4, <2>5 DEF Worker
<1>5. CASE Resolver \/ Timeout
  BY <1>2, <1>5 DEF Resolver, Timeout
<1>6. CASE Interrupt
  BY <1>6 DEF PoolStep
<1>7. CASE Tick
  BY <1>7 DEF Tick, PoolTick, PoolStep, MainStep, PoolParts, scanVars
<1>8. CASE Spurious
  <2>1. CASE SpuriousMain
    BY <2>1 DEF SpuriousMain, PoolStep, MainStep, PoolParts, poolVars, scanVars
  <2>2. ASSUME NEW t \in Threads,
               SpuriousWorker(t) /\ UNCHANGED <<plan, mpc, ptrVars, scanVars>>
        PROVE  PoolStep
    <3>1. UNCHANGED <<plan, mpc, W, held, jobs, pcnt, next, freed>>
      BY <2>2 DEF SpuriousWorker, scanVars
    <3> QED
      BY <2>2, <3>1, Zenon DEF PoolStep, WorkerStep
  <2> QED
    BY <1>2, <1>8, <2>1, <2>2 DEF Spurious
<1>9. CASE UNCHANGED vars
  BY <1>2, <1>9 DEF vars
<1> QED
  BY <1>3, <1>4, <1>5, <1>6, <1>7, <1>8, <1>9 DEF Next, Exited

-----------------------------------------------------------------------------
(* What is reported.                                                       *)

\* A worker's item is reported with a port and freed.
Reports(t, port) ==
  /\ pc[t] = "probe"
  /\ ps_output_emit(t, port)
  /\ FreeItem(t)
  /\ UNCHANGED <<plan, mpc, W, held, jobs, counts>>
  /\ \/ /\ plan.verb # "hosts"
        /\ port = jobs[held[t]].port
        /\ port \in Answering(jobs[held[t]].host)
     \/ /\ plan.verb = "hosts"
        /\ port = SWEEP_PORTS[tries[t] + 1]
        /\ port \in Answering(jobs[held[t]].host)

\* A worker's item is freed without a report.
Drops(t) ==
  /\ FreeItem(t)
  /\ UNCHANGED <<plan, mpc, W, held, jobs, counts, found, n_info>>
  /\ pc[t] \in {"run", "probe"}
  /\ \/ W.cancel
     \/ /\ plan.verb # "hosts"
        /\ jobs[held[t]].port \notin Answering(jobs[held[t]].host)
     \/ /\ plan.verb = "hosts"
        /\ tries[t] + 1 = Len(SWEEP_PORTS)
        /\ pc[t] = "probe"
        /\ SWEEP_PORTS[tries[t] + 1] \notin Answering(jobs[held[t]].host)

\* check_host goes on to the next port.
GoesOn(t) ==
  /\ pc[t] = "probe"
  /\ plan.verb = "hosts"
  /\ tries[t] + 1 # Len(SWEEP_PORTS)
  /\ W.cancel \/ SWEEP_PORTS[tries[t] + 1] \notin Answering(jobs[held[t]].host)
  /\ tries' = [tries EXCEPT ![t] = @ + 1]
  /\ UNCHANGED <<plan, mpc, W, held, pc, jobs, counts, freed, found, n_info>>

\* No item is freed or reported, no port tried.
ItemsQuiet ==
  /\ UNCHANGED <<plan, jobs, freed, tries, found, n_info>>
  /\ W'.cancel = W.cancel
  /\ \A t \in Threads : pc[t] = "probe" => pc'[t] = "probe" /\ held'[t] = held[t]
  /\ \A t \in Threads : pc'[t] = "probe" => pc[t] \in {"run", "probe"}
  /\ mpc' = "done" /\ jobs # <<>> =>
       (counts' = n_info \/ (mpc = "done" /\ counts' = counts))

ItemStep ==
  \/ \E ports \in Seq(Nat) : Begin(ports)
  \/ ItemsQuiet
  \/ Interrupt
  \/ \E t \in Threads : Drops(t) \/ GoesOn(t) \/ \E port : Reports(t, port)

\* A port answers when the verb's probe of it succeeds.
LEMMA AnswersProbe ==
  ASSUME plan \in Plans, NEW h, NEW p
  PROVE  /\ plan.verb = "udp" => (udp_probe(h, p) <=> p \in Answering(h))
         /\ plan.verb # "udp" => (ps_tcp_open_check(h, p) <=> p \in Answering(h))
<1>1. \A s \in plan.services : s.wants \in {"byte", "own"}
  BY PlansAssumption
<1>2. CASE plan.verb = "udp"
  <2>1. p \in Answering(h) <=>
          \E s \in plan.services :
            s.host = h /\ s.port = p /\ ~(s.wants = "own" /\ s.port \notin PROBES)
    BY <1>2, Zenon DEF Answering
  <2>2. \A s \in plan.services :
          s.port = p => (s.wants \in {"byte", find_probe(p)} <=>
                           ~(s.wants = "own" /\ s.port \notin PROBES))
    BY <1>1 DEF find_probe
  <2> QED
    BY <1>2, <2>1, <2>2, Zenon DEF udp_probe
<1>3. CASE plan.verb # "udp"
  BY <1>3, Zenon DEF Answering, ps_tcp_open_check
<1> QED
  BY <1>2, <1>3

\* Every step of the program is one of these.
LEMMA NextItemStep == PlansCovered /\ PoolInv /\ [Next]_vars => ItemStep
<1> SUFFICES ASSUME PlansCovered, PoolInv, [Next]_vars PROVE ItemStep
  OBVIOUS
<1>1. PoolType /\ MainInv /\ plan \in Plans
  BY DEF PoolInv, PoolType
<1>2. ASSUME UNCHANGED <<plan, mpc, poolVars, scanVars>> PROVE ItemStep
  BY <1>2, Zenon DEF ItemStep, ItemsQuiet, poolVars, scanVars
<1>3. CASE Main
  <2>1. PortList \in Seq(Nat) /\ <<0>> \in Seq(Nat)
    BY <1>1 DEF PlansCovered
  <2>2. CASE ps_scan_ports_run \/ ps_scan_udp_run \/ ps_discover_hosts_run
    BY <2>1, <2>2, Zenon
       DEF ps_scan_ports_run, ps_scan_udp_run, ps_discover_hosts_run, ItemStep
  <2>3. CASE RefuseScan \/ PtrJoin \/ NextJob
    BY <1>1, <2>3, Zenon
       DEF RefuseScan, PtrJoin, NextJob, ItemStep, ItemsQuiet, MainInv, poolVars, scanVars
  <2>4. CASE StartTrace \/ EndTrace
    BY <1>1, <2>4, Zenon
       DEF StartTrace, EndTrace, ItemStep, ItemsQuiet, MainInv, poolVars, scanVars
  <2>5. CASE tr_emit_cb
    <3>1. UNCHANGED <<plan, mpc, poolVars, scanVars>>
      BY <2>5, Zenon DEF tr_emit_cb
    <3> QED
      BY <1>2, <3>1
  <2>6. CASE Submit
    <3>1. CASE Full /\ mpc' = "full" /\ UNCHANGED <<next, poolVars>>
      BY <2>6, <3>1, Zenon DEF Submit, ItemStep, ItemsQuiet, poolVars
    <3>2. CASE ps_workers_submit(next) /\ mpc' = "next"
      <4>1. W'.cancel = W.cancel
        BY <1>1, <3>2, Zenon DEF ps_workers_submit, Enqueue, PoolType
      <4>2. \A t \in Threads : pc'[t] = "probe" <=> pc[t] = "probe"
        <5>1. CASE UNCHANGED pc
          BY <5>1
        <5>2. ASSUME NEW t \in Waiting, pc' = [pc EXCEPT ![t] = "loop"]
              PROVE  \A u \in Threads : pc'[u] = "probe" <=> pc[u] = "probe"
          BY <1>1, <5>2 DEF PoolType, Waiting
        <5> QED
          BY <3>2, <5>1, <5>2 DEF ps_workers_submit, SignalWorker
      <4> QED
        BY <2>6, <3>2, <4>1, <4>2, Zenon
           DEF Submit, ps_workers_submit, ItemStep, ItemsQuiet
    <3> QED
      BY <2>6, <3>1, <3>2 DEF Submit
  <2>7. CASE Finish
    <3>1. W'.cancel = W.cancel
      BY <1>1, <2>7 DEF Finish, Close, PoolType
    <3>2. \A t \in Threads : pc'[t] = "probe" <=> pc[t] = "probe"
      BY <2>7 DEF Finish, Close, Waiting
    <3> QED
      BY <2>7, <3>1, <3>2 DEF Finish, Close, ItemStep, ItemsQuiet, scanVars
  <2>8. CASE Return
    BY <2>8, Zenon DEF Return, ItemStep, ItemsQuiet, poolVars
  <2>9. CASE Recheck /\ UNCHANGED <<plan, mpc, poolVars, scanVars>>
    BY <1>2, <2>9
  <2> QED
    BY <1>3, <2>2, <2>3, <2>4, <2>5, <2>6, <2>7, <2>8, <2>9 DEF Main
<1>4. ASSUME NEW t \in Threads, NEW p,
             pc' = [pc EXCEPT ![t] = p], pc[t] # "probe", p = "probe" => pc[t] = "run",
             UNCHANGED <<plan, mpc, W, held, jobs, counts, freed, tries, found, n_info>>
      PROVE  ItemStep
  <2>1. \A u \in Threads : pc'[u] = IF u = t THEN p ELSE pc[u]
    BY <1>1, <1>4 DEF PoolType
  <2>2. ItemsQuiet
    BY <1>4, <2>1, Zenon DEF ItemsQuiet
  <2> QED
    BY <2>2 DEF ItemStep
<1>5. ASSUME NEW t \in Threads, Worker(t) PROVE ItemStep
  <2>1. CASE TakeItem(t)
    <3>1. pc[t] = "loop" /\ UNCHANGED <<plan, jobs, counts, freed, tries, found, n_info>>
      BY <2>1 DEF TakeItem, Take, scanVars
    <3>2. /\ W'.cancel = W.cancel
          /\ \A u \in Threads : u # t => pc'[u] = pc[u] /\ held'[u] = held[u]
          /\ pc'[t] \in {"admit", "wait", "exit"}
      <4>1. CASE /\ pc' = [pc EXCEPT ![t] = IF W.closed THEN "exit" ELSE "wait"]
                 /\ UNCHANGED <<W, held>>
        BY <1>1, <4>1 DEF PoolType
      <4>2. CASE /\ held' = [held EXCEPT ![t] = W.queue[W.q_head]]
                 /\ W' = [W EXCEPT !.q_head = (W.q_head + 1) % QCap, !.q_count = @ - 1]
                 /\ pc' = [pc EXCEPT ![t] = "admit"]
        BY <1>1, <4>2 DEF PoolType
      <4> QED
        BY <2>1, <4>1, <4>2 DEF TakeItem, Take
    <3>3. mpc' = "done" => mpc = "done"
      BY <2>1 DEF TakeItem
    <3>4. ItemsQuiet
      BY <3>1, <3>2, <3>3, Zenon DEF ItemsQuiet
    <3> QED
      BY <3>4 DEF ItemStep
  <2>2. CASE Admit(t) /\ UNCHANGED <<plan, mpc, ptrVars, scanVars>>
    <3> DEFINE p == IF W.cancel THEN "run" ELSE "limit"
    <3>1. /\ pc' = [pc EXCEPT ![t] = p] /\ pc[t] = "admit" /\ p # "probe"
          /\ UNCHANGED <<plan, mpc, W, held, jobs, counts, freed, tries, found, n_info>>
      BY <2>2 DEF Admit, scanVars
    <3> HIDE DEF p
    <3>2. pc[t] # "probe"
      BY <3>1
    <3> QED
      BY <1>4, <3>1, <3>2, Zenon
  <2>3. CASE ps_limiter_acquire(t) /\ UNCHANGED <<plan, mpc, ptrVars, scanVars>>
    <3>1. /\ UNCHANGED <<plan, mpc, W, held, jobs, counts, freed, tries, found, n_info>>
          /\ pc[t] = "limit"
      BY <2>3 DEF ps_limiter_acquire, scanVars
    <3>2. CASE pc' = [pc EXCEPT ![t] = "run"]
      BY <1>4, <3>1, <3>2, Zenon
    <3>3. CASE UNCHANGED pc
      BY <3>1, <3>3, Zenon DEF ItemStep, ItemsQuiet
    <3> QED
      BY <2>3, <3>2, <3>3 DEF ps_limiter_acquire
  <2>4. CASE RunItem(t)
    <3>1. UNCHANGED <<plan, mpc, W, held, jobs, counts, found, n_info>> /\ pc[t] = "run"
      BY <2>4 DEF RunItem
    <3>2. CASE W.cancel
      <4>1. FreeItem(t)
        BY <2>4, <3>2, Zenon DEF RunItem
      <4>2. pc[t] \in {"run", "probe"}
        BY <3>1
      <4>3. Drops(t)
        BY <3>1, <3>2, <4>1, <4>2, Zenon DEF Drops
      <4> QED
        BY <4>3, Zenon DEF ItemStep
    <3>3. CASE ~W.cancel
      <4>1. UNCHANGED <<freed, tries>> /\ pc' = [pc EXCEPT ![t] = "probe"]
        BY <2>4, <3>3 DEF RunItem
      <4> QED
        BY <1>4, <3>1, <4>1, Zenon
    <3> QED
      BY <3>2, <3>3
  <2>5. ASSUME NEW answered, ProbeOnce(t, answered), plan.verb # "hosts",
               answered <=> jobs[held[t]].port \in Answering(jobs[held[t]].host)
        PROVE  ItemStep
    <3>1. /\ UNCHANGED <<plan, mpc, W, held, jobs, counts>> /\ FreeItem(t)
          /\ pc[t] = "probe" /\ pc[t] \in {"run", "probe"}
      BY <2>5, Zenon DEF ProbeOnce, itemVars
    <3>2. CASE answered /\ ps_output_emit(t, jobs[held[t]].port)
      <4>1. Reports(t, jobs[held[t]].port)
        BY <2>5, <3>1, <3>2, Zenon DEF Reports
      <4> QED
        BY <4>1, Zenon DEF ItemStep
    <3>3. CASE (~answered \/ W.cancel) /\ UNCHANGED <<found, n_info>>
      <4>1. UNCHANGED <<plan, mpc, W, held, jobs, counts, found, n_info>>
        BY <3>1, <3>3
      <4>2. Drops(t)
        BY <2>5, <3>1, <3>3, <4>1, Zenon DEF Drops
      <4> QED
        BY <4>2, Zenon DEF ItemStep
    <3> QED
      BY <2>5, <3>2, <3>3, Zenon DEF ProbeOnce
  <2>6. CASE scan_one(t)
    <3>1. plan.verb = "ports"
          /\ ProbeOnce(t, ps_tcp_open_check(jobs[held[t]].host, jobs[held[t]].port))
      BY <2>6, Zenon DEF scan_one
    <3>2. plan.verb # "hosts" /\ plan.verb # "udp"
      BY <3>1
    <3> QED
      BY <1>1, <2>5, <3>1, <3>2, AnswersProbe, Zenon
  <2>7. CASE udp_scan_one(t)
    <3>1. plan.verb = "udp" /\ ProbeOnce(t, udp_probe(jobs[held[t]].host, jobs[held[t]].port))
      BY <2>7, Zenon DEF udp_scan_one
    <3>2. plan.verb # "hosts"
      BY <3>1
    <3> QED
      BY <1>1, <2>5, <3>1, <3>2, AnswersProbe, Zenon
  <2>8. CASE check_host(t)
    <3> DEFINE port == SWEEP_PORTS[tries[t] + 1]
               open == ps_tcp_open_check(jobs[held[t]].host, port)
    <3>1. /\ UNCHANGED <<plan, mpc, W, held, jobs, counts>>
          /\ pc[t] = "probe" /\ pc[t] \in {"run", "probe"} /\ plan.verb = "hosts"
      BY <2>8, Zenon DEF check_host, itemVars
    <3>2. open <=> port \in Answering(jobs[held[t]].host)
      <4>1. plan.verb # "udp"
        BY <3>1
      <4> QED
        BY <1>1, <4>1, AnswersProbe, Zenon
    <3>3. CASE open /\ ps_output_emit(t, port) /\ FreeItem(t)
      <4>1. Reports(t, port)
        BY <3>1, <3>2, <3>3, Zenon DEF Reports
      <4> QED
        BY <4>1, Zenon DEF ItemStep
    <3>4. CASE (~open \/ W.cancel) /\ UNCHANGED <<found, n_info>>
               /\ tries[t] + 1 = Len(SWEEP_PORTS) /\ FreeItem(t)
      <4>1. UNCHANGED <<plan, mpc, W, held, jobs, counts, found, n_info>>
        BY <3>1, <3>4
      <4>2. Drops(t)
        BY <3>1, <3>2, <3>4, <4>1, Zenon DEF Drops
      <4> QED
        BY <4>2, Zenon DEF ItemStep
    <3>5. CASE (~open \/ W.cancel) /\ UNCHANGED <<found, n_info>>
               /\ tries[t] + 1 # Len(SWEEP_PORTS)
               /\ tries' = [tries EXCEPT ![t] = @ + 1] /\ UNCHANGED <<freed, pc>>
      <4>1. UNCHANGED <<plan, mpc, W, held, pc, jobs, counts, freed, found, n_info>>
        BY <3>1, <3>5, Zenon
      <4>2. GoesOn(t)
        BY <3>1, <3>2, <3>5, <4>1, Zenon DEF GoesOn
      <4> QED
        BY <4>2, Zenon DEF ItemStep
    <3> QED
      BY <2>8, <3>3, <3>4, <3>5, Zenon DEF check_host
  <2> QED
    BY <1>5, <2>1, <2>2, <2>3, <2>4, <2>6, <2>7, <2>8 DEF Worker
<1>6. CASE Resolver \/ Timeout
  BY <1>2, <1>6 DEF Resolver, Timeout
<1>7. CASE Interrupt
  BY <1>7 DEF ItemStep
<1>8. CASE Tick
  BY <1>8 DEF Tick, PoolTick, ItemStep, ItemsQuiet, scanVars
<1>9. CASE Spurious
  <2>1. CASE SpuriousMain
    BY <2>1, Zenon DEF SpuriousMain, ItemStep, ItemsQuiet, poolVars, scanVars
  <2>2. ASSUME NEW t \in Threads,
               SpuriousWorker(t) /\ UNCHANGED <<plan, mpc, ptrVars, scanVars>>
        PROVE  ItemStep
    BY <1>4, <2>2, Zenon DEF SpuriousWorker, scanVars
  <2> QED
    BY <1>2, <1>9, <2>1, <2>2 DEF Spurious
<1>10. CASE UNCHANGED vars
  BY <1>2, <1>10 DEF vars
<1> QED
  BY <1>3, <1>5, <1>6, <1>7, <1>8, <1>9, <1>10 DEF Next, Exited

\* The item in a worker's hands is one of the scan and not yet freed.
LEMMA HeldItem ==
  ASSUME PoolInv, NEW t \in Threads, pc[t] \in {"run", "probe"}
  PROVE  /\ held[t] \in 1 .. Len(jobs) /\ freed[held[t]] = 0
         /\ Len(jobs) \in Nat /\ jobs # <<>> /\ mpc # "done"
<1>1. PoolType /\ HandsInv /\ MainInv
  BY DEF PoolInv
<1>2. /\ W.q_count \in Nat /\ next \in 1 .. Len(jobs) + 1 /\ Len(jobs) \in Nat
      /\ held[t] \in Nat
  BY <1>1, PoolFields
<1>3. pc[t] \in Busy /\ pc[t] # "exit"
  BY DEF Busy
<1>4. held[t] \in 1 .. Len(jobs)
  BY <1>1, <1>2, <1>3 DEF HandsInv
<1>5. Held(held[t])
  BY <1>3 DEF Held
<1>6. freed[held[t]] = 0
  BY <1>1, <1>4, <1>5, Zenon DEF HandsInv
<1>7. jobs # <<>>
  BY <1>2, <1>4
<1>8. mpc # "done"
  BY <1>1, <1>3, <1>7 DEF MainInv, Joined
<1> QED
  BY <1>2, <1>4, <1>6, <1>7, <1>8

\* What freeing it does.
LEMMA FreedItem ==
  ASSUME PoolInv, NEW t \in Threads, pc[t] \in {"run", "probe"}, FreeItem(t)
  PROVE  \A k \in 1 .. Len(jobs) : freed'[k] = IF k = held[t] THEN 1 ELSE freed[k]
<1>1. held[t] \in 1 .. Len(jobs) /\ freed[held[t]] = 0
  BY HeldItem
<1>2. freed \in [1 .. Len(jobs) -> Nat]
  BY DEF PoolInv, PoolType
<1> QED
  BY <1>1, <1>2 DEF FreeItem

\* What check_host knows stays true.
LEMMA StepTries ==
  ASSUME PoolInv, TriesInv, ItemStep
  PROVE  TriesInv'
<1>1. PoolType /\ MainInv
  BY DEF PoolInv
<1>2. SWEEP_PORTS \in Seq(Nat) /\ Len(SWEEP_PORTS) \in Nat \ {0}
  BY PortsAssumption
<1>3. /\ tries \in [Threads -> 0 .. Len(SWEEP_PORTS) - 1]
      /\ \A t \in Threads : pc[t] # "probe" => tries[t] = 0
      /\ plan.verb = "hosts" /\ ~W.cancel =>
           \A t \in Threads : \A j \in 1 .. tries[t] :
             SWEEP_PORTS[j] \notin Answering(jobs[held[t]].host)
  BY DEF TriesInv
<1>4. \A t \in Threads :
        plan' = plan /\ jobs' = jobs /\ held'[t] = held[t] =>
          Answering(jobs[held[t]].host)' = Answering(jobs[held[t]].host)
  BY DEF Answering
<1>5. ASSUME NEW ports \in Seq(Nat), Begin(ports) PROVE TriesInv'
  <2>1. /\ mpc = "start" /\ tries' = tries /\ pc' = [t \in Threads |-> "loop"]
    BY <1>5 DEF Begin, ps_workers_init
  <2>2. \A t \in Threads : pc[t] = "none"
    BY <1>1, <2>1 DEF MainInv
  <2>3. \A t \in Threads : tries'[t] = 0
    BY <1>3, <2>1, <2>2, Zenon
  <2> QED
    BY <1>3, <2>1, <2>3 DEF TriesInv
<1>6. CASE ItemsQuiet
  <2>1. /\ UNCHANGED <<plan, jobs, tries>> /\ W'.cancel = W.cancel
        /\ \A t \in Threads : pc[t] = "probe" => pc'[t] = "probe" /\ held'[t] = held[t]
    BY <1>6 DEF ItemsQuiet
  <2>2. \A t \in Threads : pc'[t] # "probe" => tries'[t] = 0
    BY <1>3, <2>1, Zenon
  <2>3. ASSUME plan'.verb = "hosts", ~W'.cancel, NEW t \in Threads, NEW j \in 1 .. tries'[t]
        PROVE  SWEEP_PORTS[j] \notin Answering(jobs[held[t]].host)'
    <3>1. tries[t] # 0
      BY <1>2, <1>3, <2>1, <2>3
    <3>2. held'[t] = held[t]
      BY <1>3, <2>1, <3>1, Zenon
    <3> QED
      BY <1>3, <1>4, <2>1, <2>3, <3>2, Zenon
  <2> QED
    BY <1>3, <2>1, <2>2, <2>3, Zenon DEF TriesInv
<1>7. CASE Interrupt
  <2>1. W'.cancel = TRUE /\ UNCHANGED <<tries, pc>>
    BY <1>7, CancelPool DEF Interrupt, ps_workers_cancel
  <2> QED
    BY <1>3, <2>1, Zenon DEF TriesInv
<1>8. ASSUME NEW t \in Threads, FreeItem(t), UNCHANGED <<plan, W, held, jobs>>
      PROVE  TriesInv'
  <2>1. \A u \in Threads : /\ tries'[u] = IF u = t THEN 0 ELSE tries[u]
                           /\ pc'[u] = IF u = t THEN "loop" ELSE pc[u]
    BY <1>1, <1>3, <1>8 DEF FreeItem, PoolType
  <2>2. tries' \in [Threads -> 0 .. Len(SWEEP_PORTS) - 1]
    BY <1>2, <1>3, <1>8 DEF FreeItem
  <2>3. ASSUME plan'.verb = "hosts", ~W'.cancel, NEW u \in Threads, NEW j \in 1 .. tries'[u]
        PROVE  SWEEP_PORTS[j] \notin Answering(jobs[held[u]].host)'
    <3>1. u # t
      BY <2>1, <2>3
    <3> QED
      BY <1>3, <1>4, <1>8, <2>1, <2>3, <3>1
  <2> QED
    BY <1>3, <2>1, <2>2, <2>3, Zenon DEF TriesInv
<1>9. ASSUME NEW t \in Threads, GoesOn(t) PROVE TriesInv'
  <2>1. /\ tries' = [tries EXCEPT ![t] = @ + 1] /\ pc[t] = "probe"
        /\ tries[t] + 1 # Len(SWEEP_PORTS)
        /\ W.cancel \/ SWEEP_PORTS[tries[t] + 1] \notin Answering(jobs[held[t]].host)
        /\ UNCHANGED <<plan, W, held, pc, jobs>>
    BY <1>9, Zenon DEF GoesOn
  <2>2. \A u \in Threads : tries'[u] = IF u = t THEN tries[t] + 1 ELSE tries[u]
    BY <1>3, <2>1
  <2>3. tries[t] + 1 \in 0 .. Len(SWEEP_PORTS) - 1 /\ tries[t] \in Nat
    BY <1>2, <1>3, <2>1
  <2>4. tries' \in [Threads -> 0 .. Len(SWEEP_PORTS) - 1]
    BY <1>3, <2>1, <2>3
  <2>5. ASSUME plan'.verb = "hosts", ~W'.cancel, NEW u \in Threads, NEW j \in 1 .. tries'[u]
        PROVE  SWEEP_PORTS[j] \notin Answering(jobs[held[u]].host)'
    <3>1. \A v \in Threads : \A i \in 1 .. tries[v] :
            SWEEP_PORTS[i] \notin Answering(jobs[held[v]].host)
      BY <1>3, <2>1, <2>5, Zenon
    <3>2. SWEEP_PORTS[j] \notin Answering(jobs[held[u]].host)
      <4>1. CASE u = t
        <5>1. j \in 1 .. tries[t] \/ j = tries[t] + 1
          BY <2>2, <2>3, <2>5, <4>1
        <5> QED
          BY <2>1, <2>5, <3>1, <4>1, <5>1, Zenon
      <4>2. CASE u # t
        BY <2>2, <2>5, <3>1, <4>2
      <4> QED
        BY <4>1, <4>2
    <3> QED
      BY <1>4, <2>1, <3>2
  <2> QED
    BY <1>3, <2>1, <2>2, <2>4, <2>5, Zenon DEF TriesInv
<1>10. ASSUME NEW t \in Threads, Drops(t) PROVE TriesInv'
  <2>1. FreeItem(t) /\ UNCHANGED <<plan, W, held, jobs>>
    BY <1>10 DEF Drops
  <2> QED
    BY <1>8, <2>1
<1>11. ASSUME NEW t \in Threads, NEW port, Reports(t, port) PROVE TriesInv'
  <2>1. FreeItem(t) /\ UNCHANGED <<plan, W, held, jobs>>
    BY <1>11, Zenon DEF Reports
  <2> QED
    BY <1>8, <2>1
<1> QED
  BY <1>5, <1>6, <1>7, <1>9, <1>10, <1>11, Zenon DEF ItemStep

\* A host without an open port is not reported, another with its first one.
LEMMA FirstPort ==
  ASSUME plan.verb = "hosts", NEW k
  PROVE  /\ (\A j \in DOMAIN SWEEP_PORTS : SWEEP_PORTS[j] \notin Answering(jobs[k].host)) =>
              Expected(k) = <<>>
         /\ \A j \in DOMAIN SWEEP_PORTS :
              /\ SWEEP_PORTS[j] \in Answering(jobs[k].host)
              /\ \A i \in 1 .. j - 1 : SWEEP_PORTS[i] \notin Answering(jobs[k].host)
              => Expected(k) = <<SWEEP_PORTS[j]>>
<1> DEFINE up == {j \in DOMAIN SWEEP_PORTS : SWEEP_PORTS[j] \in Answering(jobs[k].host)}
           first == CHOOSE j \in up : \A i \in up : j <= i
<1>1. Expected(k) = IF up = {} THEN <<>> ELSE <<SWEEP_PORTS[first]>>
  BY Zenon DEF Expected
<1>2. \A i : i \in up <=> i \in DOMAIN SWEEP_PORTS /\ SWEEP_PORTS[i] \in Answering(jobs[k].host)
  OBVIOUS
<1>3. DOMAIN SWEEP_PORTS = 1 .. Len(SWEEP_PORTS) /\ Len(SWEEP_PORTS) \in Nat
  BY PortsAssumption
<1>4. ASSUME NEW j \in DOMAIN SWEEP_PORTS,
             SWEEP_PORTS[j] \in Answering(jobs[k].host),
             \A i \in 1 .. j - 1 : SWEEP_PORTS[i] \notin Answering(jobs[k].host)
      PROVE  up # {} /\ first = j
  <2>1. j \in up /\ \A i \in up : i \in Int
    BY <1>2, <1>3, <1>4
  <2>2. \A i \in up : j <= i
    <3> SUFFICES ASSUME NEW i \in up, ~(j <= i) PROVE FALSE
      OBVIOUS
    <3>1. i \in 1 .. j - 1
      BY <1>2, <1>3, <1>4
    <3> QED
      BY <1>2, <1>4, <3>1
  <2>3. \E x \in up : \A i \in up : x <= i
    BY <2>1, <2>2, Zenon
  <2> HIDE DEF up
  <2>4. first \in up /\ \A i \in up : first <= i
    BY <2>3, Zenon
  <2> HIDE DEF first
  <2>5. first <= j /\ j <= first
    BY <2>1, <2>2, <2>4
  <2> QED
    BY <2>1, <2>4, <2>5
<1>5. (\A j \in DOMAIN SWEEP_PORTS : SWEEP_PORTS[j] \notin Answering(jobs[k].host)) => up = {}
  BY <1>2
<1> HIDE DEF up, first
<1> QED
  BY <1>1, <1>4, <1>5

\* Reports stay true.
LEMMA StepReported ==
  ASSUME PoolInv, TriesInv, FoundInv, Reported, ItemStep
  PROVE  Reported'
<1>1. PoolType /\ MainInv /\ Len(jobs) \in Nat /\ DOMAIN jobs = 1 .. Len(jobs)
  <2>1. PoolType /\ MainInv
    BY Zenon DEF PoolInv
  <2>2. jobs \in Seq(Job)
    BY <2>1, Zenon DEF PoolType
  <2> QED
    BY <2>1, <2>2
<1> DEFINE Good(k, f, r, x) ==
             /\ f # <<>> => f = Expected(k) \/ (x /\ plan.verb = "hosts")
             /\ r = 1 /\ ~x => f = Expected(k)
<1>2. \A k \in DOMAIN jobs : Good(k, found[k], freed[k], W.cancel)
  BY Zenon DEF Reported
<1>3. ASSUME UNCHANGED <<plan, jobs>>,
             \A k \in DOMAIN jobs : Good(k, found'[k], freed'[k], W'.cancel)
      PROVE  Reported'
  <2> DEFINE E(p, js, k) ==
         LET services == {s \in p.services : s.host = js[k].host}
             own == {s \in services : s.wants = "own" /\ s.port \notin PROBES}
             open == {s.port : s \in IF p.verb = "udp" THEN services \ own ELSE services}
             up == {j \in DOMAIN SWEEP_PORTS : SWEEP_PORTS[j] \in open}
             first == CHOOSE j \in up : \A i \in up : j <= i
         IN IF p.verb = "hosts" THEN IF up = {} THEN <<>> ELSE <<SWEEP_PORTS[first]>>
            ELSE IF js[k].port \in open THEN <<js[k].port>> ELSE <<>>
  <2>2. \A k : Expected(k) = E(plan, jobs, k) /\ Expected(k)' = E(plan', jobs', k)
    BY Zenon DEF Expected, Answering
  <2> HIDE DEF E
  <2>1. \A k : Expected(k)' = Expected(k)
    BY <1>3, <2>2, Zenon
  <2> QED
    BY <1>3, <2>1, Zenon DEF Reported
<1>4. ASSUME NEW ports \in Seq(Nat), Begin(ports) PROVE Reported'
  <2>1. PICK cidr \in ps_cidr_parse(plan.addr, plan.prefix) :
          /\ jobs' = Jobs(cidr, ports)
          /\ found' = [k \in DOMAIN Jobs(cidr, ports) |-> <<>>]
          /\ freed' = [k \in DOMAIN Jobs(cidr, ports) |-> 0]
    BY <1>4, Zenon DEF Begin
  <2>2. \A k \in DOMAIN jobs' : found'[k] = <<>> /\ freed'[k] = 0
    BY <2>1
  <2> QED
    BY <2>2 DEF Reported
<1>5. CASE ItemsQuiet
  BY <1>2, <1>3, <1>5, Zenon DEF ItemsQuiet
<1>6. CASE Interrupt
  <2>1. UNCHANGED <<plan, jobs, found, freed>> /\ W'.cancel = TRUE
    BY <1>6, CancelPool, Zenon DEF Interrupt
  <2>2. \A k \in DOMAIN jobs : Good(k, found'[k], freed'[k], W'.cancel)
    BY <1>2, <2>1, Zenon
  <2> QED
    BY <1>3, <2>1, <2>2, Zenon
<1>7. ASSUME NEW t \in Threads, GoesOn(t) PROVE Reported'
  BY <1>2, <1>3, <1>7, Zenon DEF GoesOn
<1>8. ASSUME NEW t \in Threads, pc[t] = "probe", plan.verb = "hosts", ~W.cancel
      PROVE  \A j \in 1 .. tries[t] : SWEEP_PORTS[j] \notin Answering(jobs[held[t]].host)
  BY <1>8, Zenon DEF TriesInv
<1>9. /\ DOMAIN SWEEP_PORTS = 1 .. Len(SWEEP_PORTS) /\ Len(SWEEP_PORTS) \in Nat
      /\ \A t \in Threads : tries[t] \in 0 .. Len(SWEEP_PORTS) - 1
  <2>1. SWEEP_PORTS \in Seq(Nat) /\ tries \in [Threads -> 0 .. Len(SWEEP_PORTS) - 1]
    BY PortsAssumption, Zenon DEF TriesInv
  <2> QED
    BY <2>1
<1>10. ASSUME NEW t \in Threads, Drops(t) PROVE Reported'
  <2>1. /\ pc[t] \in {"run", "probe"} /\ FreeItem(t)
        /\ UNCHANGED <<plan, jobs, W, found>>
    BY <1>10 DEF Drops
  <2>2. held[t] \in 1 .. Len(jobs) /\ freed[held[t]] = 0
    BY <2>1, HeldItem, Zenon
  <2>3. found[held[t]] = <<>>
    BY <2>2 DEF FoundInv
  <2>4. ~W.cancel => Expected(held[t]) = <<>>
    <3>1. CASE /\ plan.verb # "hosts"
               /\ jobs[held[t]].port \notin Answering(jobs[held[t]].host)
      BY <3>1, Zenon DEF Expected
    <3>2. CASE /\ plan.verb = "hosts" /\ ~W.cancel /\ pc[t] = "probe"
               /\ tries[t] + 1 = Len(SWEEP_PORTS)
               /\ SWEEP_PORTS[tries[t] + 1] \notin Answering(jobs[held[t]].host)
      <4>1. \A j \in DOMAIN SWEEP_PORTS : j \in 1 .. tries[t] \/ j = tries[t] + 1
        BY <1>9, <3>2
      <4>2. \A j \in DOMAIN SWEEP_PORTS : SWEEP_PORTS[j] \notin Answering(jobs[held[t]].host)
        BY <1>8, <3>2, <4>1
      <4> QED
        BY <3>2, <4>2, FirstPort
    <3> QED
      BY <1>10, <3>1, <3>2, Zenon DEF Drops
  <2>5. \A k \in 1 .. Len(jobs) : freed'[k] = IF k = held[t] THEN 1 ELSE freed[k]
    BY <2>1, FreedItem
  <2>6. \A k \in DOMAIN jobs : Good(k, found'[k], freed'[k], W'.cancel)
    <3> TAKE k \in DOMAIN jobs
    <3>1. CASE k = held[t]
      BY <2>1, <2>3, <2>4, <3>1
    <3>2. CASE k # held[t]
      <4>1. freed'[k] = freed[k] /\ found'[k] = found[k] /\ W'.cancel = W.cancel
        BY <1>1, <2>1, <2>5, <3>2
      <4> HIDE DEF Good
      <4> QED
        BY <1>2, <4>1
    <3> QED
      BY <3>1, <3>2
  <2> QED
    BY <1>3, <2>1, <2>6, Zenon
<1>11. ASSUME NEW t \in Threads, NEW port, Reports(t, port) PROVE Reported'
  <2>1. /\ pc[t] = "probe" /\ pc[t] \in {"run", "probe"} /\ FreeItem(t)
        /\ found' = [found EXCEPT ![held[t]] = Append(@, port)]
        /\ UNCHANGED <<plan, jobs, W>>
    BY <1>11, Zenon DEF Reports, ps_output_emit
  <2>2. held[t] \in 1 .. Len(jobs) /\ freed[held[t]] = 0
    BY <2>1, HeldItem
  <2>3. found[held[t]] = <<>> /\ found \in [1 .. Len(jobs) -> Seq(Nat)]
    BY <2>2 DEF FoundInv
  <2>4. (~W.cancel \/ plan.verb # "hosts") => Expected(held[t]) = <<port>>
    <3>1. CASE /\ plan.verb # "hosts" /\ port = jobs[held[t]].port
               /\ port \in Answering(jobs[held[t]].host)
      BY <3>1, Zenon DEF Expected
    <3>2. CASE /\ plan.verb = "hosts" /\ ~W.cancel
               /\ port = SWEEP_PORTS[tries[t] + 1]
               /\ port \in Answering(jobs[held[t]].host)
      <4>1. tries[t] + 1 \in DOMAIN SWEEP_PORTS /\ (tries[t] + 1) - 1 = tries[t]
        BY <1>9
      <4>2. \A j \in 1 .. (tries[t] + 1) - 1 :
              SWEEP_PORTS[j] \notin Answering(jobs[held[t]].host)
        BY <1>8, <2>1, <3>2, <4>1
      <4> QED
        BY <3>2, <4>1, <4>2, FirstPort, Zenon
    <3> QED
      BY <1>11, <3>1, <3>2, Zenon DEF Reports
  <2>5. \A k \in 1 .. Len(jobs) : /\ freed'[k] = IF k = held[t] THEN 1 ELSE freed[k]
                                  /\ found'[k] = IF k = held[t] THEN <<port>> ELSE found[k]
    <3>1. Append(<<>>, port) = <<port>>
      OBVIOUS
    <3>2. \A k \in 1 .. Len(jobs) : found'[k] = IF k = held[t] THEN <<port>> ELSE found[k]
      BY <2>1, <2>2, <2>3, <3>1, Zenon
    <3> QED
      BY <2>1, <3>2, FreedItem, Zenon
  <2>6. \A k \in DOMAIN jobs : Good(k, found'[k], freed'[k], W'.cancel)
    <3> TAKE k \in DOMAIN jobs
    <3>1. CASE k = held[t]
      <4>1. found'[k] = <<port>> /\ W'.cancel = W.cancel
        BY <2>1, <2>2, <2>5, <3>1, Zenon
      <4> QED
        BY <2>4, <3>1, <4>1, Zenon
    <3>2. CASE k # held[t]
      <4>1. freed'[k] = freed[k] /\ found'[k] = found[k] /\ W'.cancel = W.cancel
        BY <1>1, <2>1, <2>5, <3>2, Zenon
      <4> HIDE DEF Good
      <4> QED
        BY <1>2, <4>1
    <3> QED
      BY <3>1, <3>2
  <2> QED
    BY <1>3, <2>1, <2>6, Zenon
<1> QED
  BY <1>4, <1>5, <1>6, <1>7, <1>10, <1>11, Zenon DEF ItemStep

-----------------------------------------------------------------------------
(* The loop over the targets.                                              *)

\* The main thread stays in its loop or stays out of it.
LoopQuiet ==
  /\ UNCHANGED <<plan, jobs, pcnt, next, late>>
  /\ W'.cancel = W.cancel
  /\ mpc' \in {"submit", "full"} => mpc \in {"submit", "full"}
  /\ mpc' \in {"finish", "join", "done"} /\ jobs # <<>> => mpc \in {"finish", "join", "done"}

\* An item goes into the ring.
Submits ==
  /\ mpc = "submit" /\ mpc' = "next" /\ next' = next + 1
  /\ W'.cancel = W.cancel
  /\ UNCHANGED <<plan, jobs, pcnt, late>>

LoopStep ==
  \/ \E ports \in Seq(Nat) : Begin(ports)
  \/ NextJob \/ Submits \/ Interrupt \/ LoopQuiet

\* Every step of the program is one of these.
LEMMA NextLoopStep == PlansCovered /\ PoolInv /\ [Next]_vars => LoopStep
<1> SUFFICES ASSUME PlansCovered, PoolInv, [Next]_vars PROVE LoopStep
  OBVIOUS
<1>1. PoolType /\ MainInv /\ plan \in Plans
  BY DEF PoolInv, PoolType
<1>2. ASSUME UNCHANGED <<plan, mpc, W, jobs, pcnt, next, late>> PROVE LoopStep
  BY <1>2 DEF LoopStep, LoopQuiet
<1>3. ASSUME UNCHANGED <<plan, mpc, poolVars, scanVars>> PROVE LoopStep
  <2>1. UNCHANGED <<plan, mpc, W, jobs, pcnt, next, late>>
    BY <1>3 DEF poolVars, scanVars
  <2> QED
    BY <1>2, <2>1
<1>4. CASE Main
  <2>1. PortList \in Seq(Nat) /\ <<0>> \in Seq(Nat)
    BY <1>1 DEF PlansCovered
  <2>2. CASE ps_scan_ports_run \/ ps_scan_udp_run \/ ps_discover_hosts_run
    BY <2>1, <2>2, Zenon
       DEF ps_scan_ports_run, ps_scan_udp_run, ps_discover_hosts_run, LoopStep
  <2>3. CASE RefuseScan \/ PtrJoin \/ Return
    BY <1>1, <2>3
       DEF RefuseScan, PtrJoin, Return, LoopStep, LoopQuiet, MainInv, poolVars, scanVars
  <2>4. CASE StartTrace \/ EndTrace
    BY <1>1, <2>4
       DEF StartTrace, EndTrace, LoopStep, LoopQuiet, MainInv, poolVars, scanVars
  <2>5. CASE tr_emit_cb
    <3>1. UNCHANGED <<plan, mpc, poolVars, scanVars>>
      BY <2>5, Zenon DEF tr_emit_cb
    <3> QED
      BY <1>3, <3>1
  <2>6. CASE Submit
    <3>1. CASE Full /\ mpc' = "full" /\ UNCHANGED <<next, poolVars>>
      BY <2>6, <3>1 DEF Submit, LoopStep, LoopQuiet, poolVars
    <3>2. CASE ps_workers_submit(next) /\ next' = next + 1 /\ mpc' = "next"
      <4>1. W'.cancel = W.cancel
        BY <1>1, <3>2 DEF ps_workers_submit, Enqueue, PoolType
      <4> QED
        BY <2>6, <3>2, <4>1, Zenon DEF Submit, LoopStep, Submits
    <3> QED
      BY <2>6, <3>1, <3>2 DEF Submit
  <2>7. CASE Finish
    <3>1. W'.cancel = W.cancel
      BY <1>1, <2>7 DEF Finish, Close, PoolType
    <3> QED
      BY <2>7, <3>1, Zenon DEF Finish, LoopStep, LoopQuiet, scanVars
  <2>8. CASE Recheck /\ UNCHANGED <<plan, mpc, poolVars, scanVars>>
    BY <1>3, <2>8
  <2>9. CASE NextJob
    BY <2>9 DEF LoopStep
  <2> QED
    BY <1>4, <2>2, <2>3, <2>4, <2>5, <2>6, <2>7, <2>8, <2>9 DEF Main
<1>5. ASSUME NEW t \in Threads, Worker(t) PROVE LoopStep
  <2>1. CASE TakeItem(t)
    <3>1. UNCHANGED <<plan, jobs, pcnt, next, late>>
      BY <2>1 DEF TakeItem, scanVars
    <3>2. W'.cancel = W.cancel
      BY <1>1, <2>1, Zenon DEF TakeItem, Take, PoolType
    <3>3. mpc' = mpc \/ (mpc = "full" /\ mpc' = "submit")
      BY <2>1, Zenon DEF TakeItem
    <3> QED
      BY <3>1, <3>2, <3>3 DEF LoopStep, LoopQuiet
  <2>2. CASE (Admit(t) \/ ps_limiter_acquire(t)) /\ UNCHANGED <<plan, mpc, ptrVars, scanVars>>
    <3>1. UNCHANGED <<plan, mpc, W, jobs, pcnt, next, late>>
      BY <2>2 DEF Admit, ps_limiter_acquire, scanVars
    <3> QED
      BY <1>2, <3>1
  <2>3. CASE RunItem(t)
    BY <1>2, <2>3 DEF RunItem
  <2>4. CASE scan_one(t) \/ udp_scan_one(t) \/ check_host(t)
    <3>1. UNCHANGED <<plan, mpc, W, jobs, pcnt, next, late>>
      BY <2>4, Zenon DEF scan_one, udp_scan_one, check_host, ProbeOnce, itemVars
    <3> QED
      BY <1>2, <3>1
  <2> QED
    BY <1>5, <2>1, <2>2, <2>3, <2>4 DEF Worker
<1>6. CASE Resolver \/ Timeout
  BY <1>3, <1>6 DEF Resolver, Timeout
<1>7. CASE Interrupt
  BY <1>7 DEF LoopStep
<1>8. CASE Tick
  BY <1>2, <1>8 DEF Tick, PoolTick, scanVars
<1>9. CASE Spurious
  <2>1. CASE SpuriousMain
    BY <2>1 DEF SpuriousMain, LoopStep, LoopQuiet, poolVars, scanVars
  <2>2. ASSUME NEW t \in Threads,
               SpuriousWorker(t) /\ UNCHANGED <<plan, mpc, ptrVars, scanVars>>
        PROVE  LoopStep
    BY <1>2, <2>2 DEF SpuriousWorker, scanVars
  <2> QED
    BY <1>3, <1>9, <2>1, <2>2 DEF Spurious
<1>10. CASE UNCHANGED vars
  BY <1>3, <1>10 DEF vars
<1> QED
  BY <1>4, <1>5, <1>6, <1>7, <1>8, <1>9, <1>10 DEF Next, Exited

\* Two neighbours in a run of q belong together unless the second begins it.
LEMMA Neighbours ==
  \A q \in Nat \ {0} : \A x \in Nat \ {0} : x % q # 0 => x \div q = (x - 1) \div q
<1> SUFFICES ASSUME NEW q \in Nat \ {0}, NEW x \in Nat \ {0}, x % q # 0
             PROVE  x \div q = (x - 1) \div q
  BY Zenon
<1> QED
  OBVIOUS

\* After a signal the main thread goes on with the host it was at and no other.
LEMMA StepStop ==
  ASSUME PoolInv, StopInv, LoopStep
  PROVE  StopInv'
<1>1. PoolType /\ MainInv /\ W.cancel \in BOOLEAN /\ next \in Nat /\ next >= 1
  BY PoolFields DEF PoolInv
<1>2. pcnt \in Nat \ {0}
  BY <1>1 DEF PoolType
<1>3. ASSUME NEW ports \in Seq(Nat), Begin(ports) PROVE StopInv'
  <2>1. W' = NoPool
    BY <1>3 DEF Begin, ps_workers_init
  <2> QED
    BY <2>1 DEF StopInv, NoPool
<1>4. CASE Interrupt
  <2>1. late' = next /\ UNCHANGED <<next, pcnt>>
    BY <1>4 DEF Interrupt
  <2>2. \A k \in late' .. next' - 1 : FALSE
    BY <1>1, <2>1
  <2>3. late' \in 1 .. next' /\ SameHost(next, late)'
    BY <1>1, <2>1 DEF SameHost
  <2> QED
    BY <2>2, <2>3 DEF StopInv
<1>5. CASE LoopQuiet
  BY <1>5 DEF LoopQuiet, StopInv, SameHost
<1>6. CASE NextJob
  <2>1. UNCHANGED <<next, pcnt, late, W>>
    BY <1>6 DEF NextJob, poolVars, scanVars
  <2>2. ASSUME W.cancel, mpc' \in {"submit", "full"} PROVE SameHost(next, late)
    <3>1. (next - 1) % pcnt # 0
      BY <1>6, <2>2 DEF NextJob
    <3>2. late \in 1 .. next /\ \A k \in late .. next - 1 : SameHost(k, late)
      BY <2>2 DEF StopInv
    <3>3. CASE late = next
      BY <3>3 DEF SameHost
    <3>4. CASE late # next
      <4>1. next - 1 \in late .. next - 1 /\ next - 1 \in Nat \ {0}
        BY <1>1, <3>2, <3>4
      <4>2. (next - 1) \div pcnt = ((next - 1) - 1) \div pcnt
        BY <1>2, <3>1, <4>1, Neighbours
      <4> QED
        BY <3>2, <4>1, <4>2, Zenon DEF SameHost
    <3> QED
      BY <3>3, <3>4
  <2> QED
    BY <2>1, <2>2 DEF StopInv, SameHost
<1>7. CASE Submits
  <2>1. next' = next + 1 /\ W'.cancel = W.cancel /\ UNCHANGED <<pcnt, late>> /\ mpc' = "next"
    BY <1>7 DEF Submits
  <2>2. ASSUME W.cancel
        PROVE  late \in 1 .. next + 1 /\ \A k \in late .. (next + 1) - 1 : SameHost(k, late)
    <3>1. /\ late \in 1 .. next /\ SameHost(next, late)
          /\ \A k \in late .. next - 1 : SameHost(k, late)
      BY <1>7, <2>2 DEF Submits, StopInv
    <3>2. \A k \in late .. (next + 1) - 1 : k = next \/ k \in late .. next - 1
      BY <1>1, <3>1
    <3>3. late \in 1 .. next + 1
      BY <1>1, <3>1
    <3> QED
      BY <3>1, <3>2, <3>3, Zenon
  <2> QED
    BY <2>1, <2>2 DEF StopInv, SameHost
<1> QED
  BY <1>3, <1>4, <1>5, <1>6, <1>7, Zenon DEF LoopStep

\* The loop ends at the last item unless a signal ends it, and its items are
\* those of the target.
LEMMA StepCover ==
  ASSUME PlansCovered, PoolInv, CoverInv, LoopStep
  PROVE  CoverInv'
<1>1. /\ PoolType /\ MainInv /\ W.cancel \in BOOLEAN /\ next \in Nat /\ Len(jobs) \in Nat
      /\ next \in 1 .. Len(jobs) + 1 /\ plan \in Plans
  <2>1. PoolType /\ MainInv /\ plan \in Plans
    BY Zenon DEF PoolInv, PoolType
  <2> QED
    BY <2>1, PoolFields, Zenon
<1>2. ASSUME NEW ports \in Seq(Nat), Begin(ports) PROVE CoverInv'
  <2>1. PICK cidr \in ps_cidr_parse(plan.addr, plan.prefix) : jobs' = Jobs(cidr, ports)
    BY <1>2, Zenon DEF Begin
  <2>2. ports # <<>> /\ mpc' = "next" /\ UNCHANGED plan
    BY <1>2 DEF Begin
  <2>3. plan.prefix # 0 => Hosts(jobs') = Target
    BY <1>1, <2>1, <2>2, Zenon DEF PlansCovered
  <2>4. Target' = Target /\ Hosts(jobs)' = Hosts(jobs')
    BY <2>2, Zenon DEF Target, Hosts
  <2> QED
    BY <2>2, <2>3, <2>4 DEF CoverInv
<1>3. ASSUME UNCHANGED <<plan, jobs>> PROVE Target' = Target /\ Hosts(jobs)' = Hosts(jobs)
  BY <1>3, Zenon DEF Target, Hosts
<1>4. CASE Interrupt
  <2>1. W'.cancel = TRUE /\ UNCHANGED <<plan, jobs>>
    BY <1>4, CancelPool, Zenon DEF Interrupt
  <2> QED
    BY <1>3, <2>1 DEF CoverInv
<1>5. CASE LoopQuiet
  BY <1>3, <1>5 DEF LoopQuiet, CoverInv
<1>6. CASE NextJob
  <2>1. UNCHANGED <<plan, jobs, next, W>>
    BY <1>6 DEF NextJob, poolVars, scanVars
  <2>2. mpc' \in {"finish", "join", "done"} /\ ~W.cancel => next > Len(jobs)
    BY <1>6 DEF NextJob
  <2>3. next > Len(jobs) => next = Len(jobs) + 1
    BY <1>1
  <2> QED
    BY <1>3, <2>1, <2>2, <2>3 DEF CoverInv
<1>7. CASE Submits
  BY <1>3, <1>7 DEF Submits, CoverInv
<1> QED
  BY <1>2, <1>4, <1>5, <1>6, <1>7, Zenon DEF LoopStep

-----------------------------------------------------------------------------
(* What is counted: the hands an item is in and the items reported.        *)

\* The pool invariant says where each item is.
LEMMA PoolOnce == Counting /\ PoolInv => EachItemOnce
<1> SUFFICES ASSUME Counting, PoolInv, NEW k \in DOMAIN jobs
             PROVE  Cardinality(InRing(k)) + Cardinality(InHand(k)) + freed[k]
                      = IF k < next THEN 1 ELSE 0
  BY DEF EachItemOnce
<1>1. PoolType /\ RingInv /\ HandsInv /\ MainInv
  BY DEF PoolInv
<1> DEFINE c == W.q_count
<1>2. c \in Nat /\ next \in Nat /\ \A t \in Threads : held[t] \in Nat
  BY <1>1, PoolFields
<1>3. k \in 1 .. Len(jobs) /\ k \in Nat
  BY <1>1 DEF PoolType
<1>4. freed[k] = IF k + c < next /\ ~Held(k) THEN 1 ELSE 0
  BY <1>1, <1>3, Zenon DEF HandsInv
<1>5. \A t : t \in InHand(k) <=> t \in Threads /\ held[t] = k /\ pc[t] \in Busy
  BY DEF InHand, Busy
<1>6. \A i : i \in InRing(k) <=> i \in 0 .. c - 1 /\ (next - c) + i = k
  <2>1. \A i \in 0 .. c - 1 : W.queue[(W.q_head + i) % QCap] = (next - c) + i
    BY <1>1 DEF RingInv
  <2> QED
    BY <2>1 DEF InRing
<1>7. \A t \in Threads : pc[t] \in Busy => held[t] + c < next
  BY <1>1 DEF HandsInv
<1>8. Cardinality({}) = 0 /\ \A x : Cardinality({x}) = 1
  BY Zenon DEF Counting
<1>9. ~(k + c < next) => InHand(k) = {}
  BY <1>5, <1>7
<1>10. CASE k >= next
  <2>1. ~(k + c < next) /\ \A i \in 0 .. c - 1 : (next - c) + i # k
    <3> HIDE DEF c
    <3> QED
      BY <1>2, <1>3, <1>10
  <2>2. InRing(k) = {} /\ InHand(k) = {}
    BY <1>6, <1>9, <2>1
  <2>3. freed[k] = 0 /\ ~(k < next)
    BY <1>2, <1>3, <1>4, <1>10, <2>1
  <2> QED
    BY <1>8, <2>2, <2>3
<1>11. CASE k < next /\ ~(k + c < next)
  <2> DEFINE j == k - (next - c)
  <2>1. \A i : i \in 0 .. c - 1 /\ (next - c) + i = k <=> i = j
    <3> HIDE DEF c
    <3> QED
      BY <1>2, <1>3, <1>11
  <2>2. InRing(k) = {j}
    <3> HIDE DEF j
    <3> QED
      BY <1>6, <2>1
  <2>3. freed[k] = 0 /\ InHand(k) = {}
    BY <1>4, <1>9, <1>11
  <2>4. Cardinality(InRing(k)) = 1 /\ Cardinality(InHand(k)) = 0
    BY <1>8, <2>2, <2>3, Zenon
  <2> QED
    BY <1>11, <2>3, <2>4
<1>12. CASE k + c < next
  <2>1. k < next /\ \A i \in 0 .. c - 1 : (next - c) + i # k
    <3> HIDE DEF c
    <3> QED
      BY <1>2, <1>3, <1>12
  <2>2. InRing(k) = {}
    BY <1>6, <2>1
  <2>3. CASE Held(k)
    <3>1. PICK t \in Threads : held[t] = k /\ pc[t] \in Busy
      BY <2>3 DEF Held
    <3>2. \A u : u \in InHand(k) <=> u = t
      BY <1>1, <1>5, <3>1, Zenon DEF HandsInv
    <3>3. InHand(k) = {t}
      BY <3>2
    <3>4. Cardinality(InRing(k)) = 0 /\ Cardinality(InHand(k)) = 1
      BY <1>8, <2>2, <3>3, Zenon
    <3> QED
      BY <1>4, <2>1, <2>3, <3>4
  <2>4. CASE ~Held(k)
    <3>1. InHand(k) = {}
      BY <1>5, <2>4 DEF Held
    <3> QED
      BY <1>4, <1>8, <1>12, <2>1, <2>2, <2>4, <3>1
  <2> QED
    BY <2>3, <2>4
<1> QED
  BY <1>2, <1>3, <1>10, <1>11, <1>12

\* The items reported are counted once each.
LEMMA StepFound ==
  ASSUME Counting, PlansCovered, PoolInv, TriesInv, FoundInv, ItemStep
  PROVE  FoundInv'
<1>1. PoolType /\ MainInv /\ Len(jobs) \in Nat
  BY PoolFields DEF PoolInv
<1>2. /\ found \in [1 .. Len(jobs) -> Seq(Nat)]
      /\ n_info = Cardinality(Hits)
      /\ \A k \in 1 .. Len(jobs) : freed[k] = 0 => found[k] = <<>>
      /\ mpc = "done" /\ jobs # <<>> => counts = n_info
  BY DEF FoundInv
<1>3. ASSUME UNCHANGED <<jobs, found, n_info>>,
             \A k \in 1 .. Len(jobs) : freed'[k] = 0 => freed[k] = 0,
             mpc' = "done" /\ jobs # <<>> => counts' = n_info
      PROVE  FoundInv'
  <2>1. Hits' = Hits
    BY <1>3 DEF Hits
  <2> QED
    BY <1>2, <1>3, <2>1, Zenon DEF FoundInv
<1>4. ASSUME NEW ports \in Seq(Nat), Begin(ports) PROVE FoundInv'
  <2>1. PICK cidr \in ps_cidr_parse(plan.addr, plan.prefix) :
          jobs' = Jobs(cidr, ports) /\ found' = [k \in DOMAIN Jobs(cidr, ports) |-> <<>>]
    BY <1>4, Zenon DEF Begin
  <2>2. mpc = "start" /\ mpc' = "next" /\ ports # <<>> /\ n_info' = n_info
    BY <1>4 DEF Begin
  <2>3. jobs' \in Seq(Job)
    BY <1>1, <2>1, <2>2, Zenon DEF PoolType, PlansCovered
  <2>4. DOMAIN jobs' = 1 .. Len(jobs') /\ Len(jobs') \in Nat
    BY <2>3
  <2>5. found' = [k \in 1 .. Len(jobs') |-> <<>>]
    BY <2>1, <2>4
  <2>6. found' \in [1 .. Len(jobs') -> Seq(Nat)] /\ \A k \in 1 .. Len(jobs') : found'[k] = <<>>
    BY <2>5
  <2>7. jobs = <<>>
    BY <1>1, <2>2 DEF MainInv
  <2>8. Hits = {} /\ Hits' = {}
    BY <2>6, <2>7 DEF Hits
  <2> QED
    BY <1>2, <2>2, <2>6, <2>8, Zenon DEF FoundInv
<1>5. CASE ItemsQuiet
  <2>1. /\ UNCHANGED <<jobs, found, n_info, freed>>
        /\ mpc' = "done" /\ jobs # <<>> => (counts' = n_info \/ (mpc = "done" /\ counts' = counts))
    BY <1>5 DEF ItemsQuiet
  <2>2. mpc' = "done" /\ jobs # <<>> => counts' = n_info
    BY <1>2, <2>1
  <2> QED
    BY <1>3, <2>1, <2>2
<1>6. CASE Interrupt
  BY <1>2, <1>3, <1>6 DEF Interrupt
<1>7. ASSUME NEW t \in Threads, Drops(t) PROVE FoundInv'
  <2>1. /\ pc[t] \in {"run", "probe"} /\ FreeItem(t)
        /\ UNCHANGED <<mpc, jobs, counts, found, n_info>>
    BY <1>7, Zenon DEF Drops
  <2>2. \A k \in 1 .. Len(jobs) : freed'[k] = 0 => freed[k] = 0
    <3>1. \A k \in 1 .. Len(jobs) : freed'[k] = IF k = held[t] THEN 1 ELSE freed[k]
      BY <1>1, <2>1, FreedItem, Zenon
    <3>2. 1 # 0
      OBVIOUS
    <3> QED
      BY <3>1, <3>2, Zenon
  <2> QED
    BY <1>2, <1>3, <2>1, <2>2
<1>8. ASSUME NEW t \in Threads, GoesOn(t) PROVE FoundInv'
  BY <1>2, <1>3, <1>8, Zenon DEF GoesOn
<1>9. ASSUME NEW t \in Threads, NEW port, Reports(t, port) PROVE FoundInv'
  <2>1. /\ pc[t] = "probe" /\ pc[t] \in {"run", "probe"} /\ FreeItem(t)
        /\ found' = [found EXCEPT ![held[t]] = Append(@, port)]
        /\ n_info' = n_info + 1
        /\ UNCHANGED <<mpc, jobs>>
    BY <1>9, Zenon DEF Reports, ps_output_emit
  <2>2. held[t] \in 1 .. Len(jobs) /\ freed[held[t]] = 0 /\ mpc # "done"
    BY <2>1, HeldItem, Zenon
  <2>3. port \in Nat
    <3>1. CASE port = jobs[held[t]].port
      <4>1. jobs[held[t]] \in Job
        BY <1>1, <2>2 DEF PoolType
      <4> QED
        BY <3>1, <4>1 DEF Job
    <3>2. CASE port = SWEEP_PORTS[tries[t] + 1]
      <4>1. tries[t] \in 0 .. Len(SWEEP_PORTS) - 1 /\ SWEEP_PORTS \in Seq(Nat)
        BY PortsAssumption, Zenon DEF TriesInv
      <4>2. tries[t] + 1 \in 1 .. Len(SWEEP_PORTS)
        BY <4>1
      <4> QED
        BY <3>2, <4>1, <4>2
    <3> QED
      BY <1>9, <3>1, <3>2, Zenon DEF Reports
  <2>4. found[held[t]] = <<>>
    BY <1>2, <2>2
  <2>5. Append(<<>>, port) \in Seq(Nat) /\ Append(<<>>, port) # <<>>
    BY <2>3
  <2>6. /\ found' \in [1 .. Len(jobs) -> Seq(Nat)]
        /\ \A k \in 1 .. Len(jobs) :
             found'[k] = IF k = held[t] THEN Append(<<>>, port) ELSE found[k]
    BY <1>2, <2>1, <2>2, <2>4, <2>5, Zenon
  <2>7. Hits' = Hits \cup {held[t]} /\ held[t] \notin Hits
    <3>1. \A k : k \in Hits' <=> k \in Hits \/ k = held[t]
      BY <2>1, <2>2, <2>5, <2>6, Zenon DEF Hits
    <3> QED
      BY <2>4, <3>1 DEF Hits
  <2>8. IsFiniteSet(Hits)
    <3>1. Hits \subseteq 1 .. Len(jobs)
      BY DEF Hits
    <3> QED
      BY <1>1, <3>1, Zenon DEF Counting
  <2>9. Cardinality(Hits') = Cardinality(Hits) + 1
    BY <2>7, <2>8, Zenon DEF Counting
  <2>10. \A k \in 1 .. Len(jobs) : freed'[k] = IF k = held[t] THEN 1 ELSE freed[k]
    BY <2>1, FreedItem, Zenon
  <2>11. n_info' = Cardinality(Hits')
    BY <1>2, <2>1, <2>9, Zenon
  <2>12. \A k \in 1 .. Len(jobs) : freed'[k] = 0 => found'[k] = <<>>
    <3> TAKE k \in 1 .. Len(jobs)
    <3>1. CASE k = held[t]
      <4>1. freed'[k] = 1 /\ 1 # 0
        BY <2>10, <3>1
      <4> QED
        BY <4>1, Zenon
    <3>2. CASE k # held[t]
      BY <1>2, <2>6, <2>10, <3>2, Zenon
    <3> QED
      BY <3>1, <3>2, Zenon
  <2> QED
    BY <2>1, <2>2, <2>6, <2>11, <2>12, Zenon DEF FoundInv
<1> QED
  BY <1>4, <1>5, <1>6, <1>7, <1>8, <1>9, Zenon DEF ItemStep

\* A scan whose workers are joined has nothing left in the ring or in a hand.
LEMMA ScanEnded ==
  ASSUME PoolInv, FoundInv
  PROVE  CountsFinal
<1> SUFFICES ASSUME mpc = "done", jobs # <<>>
             PROVE  /\ Joined /\ counts = n_info
                    /\ \A k \in 1 .. next - 1 : freed[k] = 1
                    /\ n_info = Cardinality({k \in DOMAIN jobs : found[k] # <<>>})
  BY DEF CountsFinal
<1>1. /\ PoolType /\ HandsInv /\ MainInv /\ next \in 1 .. Len(jobs) + 1
      /\ Len(jobs) \in Nat /\ next \in Nat
  BY PoolFields DEF PoolInv
<1>2. Joined
  BY <1>1 DEF MainInv
<1>3. PICK t \in Threads : pc[t] = "exit"
  BY <1>2, WorkPoolAssumption DEF Joined
<1>4. W.q_count = 0
  BY <1>1, <1>3 DEF MainInv
<1>5. \A k : ~Held(k)
  BY <1>2 DEF Joined, Held, Busy
<1>6. \A k \in 1 .. next - 1 : freed[k] = 1
  <2> TAKE k \in 1 .. next - 1
  <2>1. k \in 1 .. Len(jobs) /\ k + 0 < next
    BY <1>1
  <2>2. freed[k] = IF k + W.q_count < next /\ ~Held(k) THEN 1 ELSE 0
    BY <1>1, <2>1, Zenon DEF HandsInv
  <2> QED
    BY <1>4, <1>5, <2>1, <2>2
<1>7. DOMAIN jobs = 1 .. Len(jobs)
  BY <1>1 DEF PoolType
<1>8. counts = n_info /\ n_info = Cardinality({k \in DOMAIN jobs : found[k] # <<>>})
  BY <1>7, Zenon DEF FoundInv, Hits
<1> QED
  BY <1>2, <1>6, <1>8

=============================================================================
